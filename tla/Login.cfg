\* Three logins, one of them without a readable profile, and three keys.
\* The screens end without the user.
SPECIFICATION FairSpec
CONSTANTS
  Tokens = {t1, t2, t3}
  NoTokens = NoTokens
  Readable = {t1, t3}
  Keys = {k1, k2, k3}
  NoKey = NoKey
INVARIANTS
  SavedLoginIsRestored
  ClearedIsNotRestored
  RetryHasTokens
  ClearedIsNotUsed
PROPERTIES
  LoginScreensEnd
