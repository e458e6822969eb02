------------------------------- MODULE LoginFlow -------------------------------
(***************************************************************************)
(* Signing in (src/app/mod.rs) and the stored login (src/gfn/auth.rs).     *)
(* App shows a device code, polls until the user has confirmed it          *)
(* elsewhere, stores the tokens and loads the catalog with them; the next  *)
(* start of the program restores them.  They are stored in two places, as  *)
(* a file and the key it is encrypted with, one call after the other; the  *)
(* program can be killed between any two calls, and each call can fail.    *)
(*                                                                         *)
(* call says which of these calls App is about to make; it does nothing    *)
(* else meanwhile.  The screens behind the login are "Catalog".            *)
(***************************************************************************)
EXTENDS Naturals

CONSTANTS
  Tokens, NoTokens,   (* what each completed login is given                  *)
  Readable,           (* those whose JWT payload names a user                *)
  Keys, NoKey         (* the keys that will be drawn; NoKey: no valid record *)

ASSUME LoginAssumption ==
  NoTokens \notin Tokens /\ NoKey \notin Keys /\ Readable \subseteq Tokens

VARIABLES
  screen, retry, tokens,   (* AppState, ErrorRetry and App.tokens            *)
  wait, expired,           (* next_poll_at and the deadline of the challenge *)
  job,                     (* the PollJob of the screen                      *)
  call,                    (* the next call of finish_login or clear_tokens  *)
  pending, sealing,        (* the tokens it is for, and save_tokens' key     *)
  file, key,               (* gfn-auth.json and the record in Safe Memory    *)
  issued, drawn,           (* tokens and keys there have been                *)
  durable, cleared         (* history: what was saved, and what was cleared  *)

session == <<screen, retry, tokens>>
code    == <<wait, expired>>
stored  == <<file, key>>
past    == <<issued, drawn, durable, cleared>>
locals  == <<pending, sealing>>
vars    == <<session, code, job, call, locals, stored, past>>

NoJob  == [kind |-> "none", outcome |-> "none", tokens |-> NoTokens]
Job(kind, t) == [kind |-> kind, outcome |-> "running", tokens |-> t]
Outcomes == [start |-> {"ok", "error"},
             poll  |-> {"pending", "slow_down", "authorized", "refused"},
             load  |-> {"ok", "rejected", "error"}]

NoFile == [state |-> "none", tokens |-> NoTokens, key |-> NoKey]
Broken == [state |-> "broken", tokens |-> NoTokens, key |-> NoKey]
Sealed(t, k) == [state |-> "whole", tokens |-> t, key |-> k]
Files == {NoFile, Broken} \cup [state : {"whole"}, tokens : Tokens, key : Keys]

TypeOK ==
  /\ screen \in {"Off", "Login", "StartingDeviceLogin", "WaitingForDeviceAuthorization",
                 "LoadingCatalog", "Catalog", "Error"}
  /\ retry \in {"none", "RestartLogin", "ReloadCatalog"}
  /\ tokens \in Tokens \cup {NoTokens}
  /\ wait \in 0 .. 2
  /\ expired \in BOOLEAN
  /\ job \in [kind : {"none", "start", "poll", "load"},
              outcome : {"none", "running", "ok", "error", "pending", "slow_down",
                         "authorized", "refused", "rejected"},
              tokens : Tokens \cup {NoTokens}]
  /\ call \in {"none", "key", "remove", "write", "use", "clear file", "clear key"}
  /\ pending \in Tokens \cup {NoTokens} /\ sealing \in Keys \cup {NoKey}
  /\ file \in Files
  /\ key \in Keys \cup {NoKey}
  /\ issued \subseteq Tokens /\ drawn \subseteq Keys
  /\ durable \in Tokens \cup {NoTokens}
  /\ cleared \subseteq Tokens

(* What load_tokens gets out of the two places: the file has to be whole and *)
(* sealed with the key of the record.                                        *)
Restorable == IF file.state = "whole" /\ file.key = key THEN file.tokens ELSE NoTokens

Init ==
  /\ screen = "Off" /\ retry = "none" /\ tokens = NoTokens
  /\ wait = 0 /\ expired = FALSE
  /\ job = NoJob /\ call = "none" /\ pending = NoTokens /\ sealing = NoKey
  /\ file = NoFile /\ key = NoKey
  /\ issued = {} /\ drawn = {} /\ durable = NoTokens /\ cleared = {}

Go(to, with) == screen' = to /\ retry' = with

-----------------------------------------------------------------------------
(* The program starts, and is killed or left.                                *)

(* App::new.  A login that cannot be read (a failed read of either place, or *)
(* nothing to restore) is none; one without a user is cleared.               *)
Start ==
  /\ screen = "Off"
  /\ \E t \in {Restorable, NoTokens} :
       /\ tokens' = t
       /\ IF t \in Readable
            THEN Go("LoadingCatalog", "none") /\ job' = Job("load", t)
            ELSE Go("Login", "none") /\ job' = NoJob
       /\ call' = IF t \in Tokens \ Readable THEN "clear file" ELSE "none"
       /\ durable' = IF t \in Tokens \ Readable THEN NoTokens ELSE durable
  /\ UNCHANGED <<code, locals, stored, issued, drawn, cleared>>

Killed ==
  /\ screen # "Off"
  /\ Go("Off", "none") /\ tokens' = NoTokens
  /\ wait' = 0 /\ expired' = FALSE
  /\ job' = NoJob /\ call' = "none" /\ pending' = NoTokens /\ sealing' = NoKey
  /\ UNCHANGED <<stored, past>>

-----------------------------------------------------------------------------
(* Commands                                                                  *)

(* Confirm on Login, or on an Error that restarts it: start_login_state.     *)
StartLogin ==
  /\ call = "none"
  /\ screen = "Login" \/ (screen = "Error" /\ retry = "RestartLogin")
  /\ Go("StartingDeviceLogin", "none")
  /\ job' = Job("start", NoTokens)
  /\ UNCHANGED <<tokens, code, call, locals, stored, past>>

(* Confirm on an Error that reloads: start_catalog_fetch, with an expect().  *)
Reload ==
  /\ call = "none" /\ screen = "Error" /\ retry = "ReloadCatalog"
  /\ Go("LoadingCatalog", "none")
  /\ job' = Job("load", tokens)
  /\ UNCHANGED <<tokens, code, call, locals, stored, past>>

(* Back while the code is shown, on Error, and on the Error of a session.    *)
BackToLogin ==
  /\ call = "none"
  /\ screen \in {"WaitingForDeviceAuthorization", "Error", "Catalog"}
  /\ Go("Login", "none")
  /\ job' = NoJob
  /\ UNCHANGED <<tokens, code, call, locals, stored, past>>

-----------------------------------------------------------------------------
(* tick                                                                      *)

(* advance_login_start: the code is shown, and next_poll_at is one interval  *)
(* away.                                                                     *)
TickStarted ==
  /\ call = "none" /\ screen = "StartingDeviceLogin"
  /\ \/ /\ job.outcome = "ok"
        /\ Go("WaitingForDeviceAuthorization", "none")
        /\ wait' = 1 /\ expired' = FALSE
     \/ /\ job.outcome = "error"
        /\ Go("Error", "RestartLogin")
        /\ UNCHANGED code
  /\ job' = NoJob
  /\ UNCHANGED <<tokens, call, locals, stored, past>>

Polling == call = "none" /\ screen = "WaitingForDeviceAuthorization"

(* advance_login_poll: the deadline is looked at before any answer.          *)
TickExpired ==
  /\ Polling /\ expired
  /\ Go("Error", "RestartLogin")
  /\ job' = NoJob
  /\ UNCHANGED <<tokens, code, call, locals, stored, past>>

TickPoll ==
  /\ Polling /\ ~ expired /\ job = NoJob /\ wait = 0
  /\ job' = Job("poll", NoTokens)
  /\ UNCHANGED <<session, code, call, locals, stored, past>>

TickNotYet ==
  /\ Polling /\ ~ expired /\ job.outcome \in {"pending", "slow_down"}
  /\ wait' = IF job.outcome = "slow_down" THEN 2 ELSE 1
  /\ job' = NoJob
  /\ UNCHANGED <<session, expired, call, locals, stored, past>>

TickRefused ==
  /\ Polling /\ ~ expired /\ job.outcome = "refused"
  /\ Go("Error", "RestartLogin")
  /\ job' = NoJob
  /\ UNCHANGED <<tokens, code, call, locals, stored, past>>

(* finish_login begins with save_tokens.                                     *)
TickAuthorized ==
  /\ Polling /\ ~ expired /\ job.outcome = "authorized"
  /\ call' = "key"
  /\ pending' = job.tokens
  /\ job' = NoJob
  /\ durable' = NoTokens
  /\ UNCHANGED <<session, code, sealing, stored, issued, drawn, cleared>>

(* Mutant of TickLoaded: a rejected login is offered for another try.        *)
TickLoadedRetries ==
  /\ call = "none" /\ screen = "LoadingCatalog"
  /\ \/ /\ job.outcome = "ok"
        /\ Go("Catalog", "none")
        /\ UNCHANGED <<call, durable>>
     \/ /\ job.outcome = "error"
        /\ Go("Error", "ReloadCatalog")
        /\ UNCHANGED <<call, durable>>
     \/ /\ job.outcome = "rejected"
        /\ Go("Error", "ReloadCatalog")
        /\ call' = "clear file"
        /\ durable' = NoTokens
  /\ job' = NoJob
  /\ UNCHANGED <<tokens, code, locals, stored, issued, drawn, cleared>>

(* Mutant of TickLoaded: a failed load is looked at for ever.                *)
TickLoadedStays ==
  /\ call = "none" /\ screen = "LoadingCatalog"
  /\ \/ /\ job.outcome = "ok"
        /\ Go("Catalog", "none")
        /\ UNCHANGED <<call, durable>>
     \/ /\ job.outcome = "rejected"
        /\ Go("Error", "RestartLogin")
        /\ call' = "clear file"
        /\ durable' = NoTokens
  /\ job' = NoJob
  /\ UNCHANGED <<tokens, code, locals, stored, issued, drawn, cleared>>

(* advance_catalog_load; a rejected login is cleared.                        *)
TickLoaded ==
  /\ call = "none" /\ screen = "LoadingCatalog"
  /\ \/ /\ job.outcome = "ok"
        /\ Go("Catalog", "none")
        /\ UNCHANGED <<call, durable>>
     \/ /\ job.outcome = "error"
        /\ Go("Error", "ReloadCatalog")
        /\ UNCHANGED <<call, durable>>
     \/ /\ job.outcome = "rejected"
        /\ Go("Error", "RestartLogin")
        /\ call' = "clear file"
        /\ durable' = NoTokens
  /\ job' = NoJob
  /\ UNCHANGED <<tokens, code, locals, stored, issued, drawn, cleared>>

Tick == \/ TickStarted \/ TickExpired \/ TickPoll \/ TickNotYet \/ TickRefused
        \/ TickAuthorized \/ TickLoaded

-----------------------------------------------------------------------------
(* save_tokens, and the rest of finish_login                                 *)

(* Mutant of SaveKey: a key that could not be stored is used all the same.   *)
SaveKeyUnchecked ==
  /\ call = "key"
  /\ \/ /\ key # NoKey
        /\ sealing' = key
        /\ UNCHANGED <<key, drawn>>
     \/ \E k \in Keys \ drawn :
          /\ drawn' = drawn \cup {k}
          /\ key' \in {key, k}
          /\ sealing' = k
  /\ call' = "remove"
  /\ UNCHANGED <<session, code, job, pending, file, issued, durable, cleared>>

(* load_or_create_token_key: a key that is missing, or could not be read,    *)
(* is replaced; without one nothing is saved.                                *)
SaveKey ==
  /\ call = "key"
  /\ \/ /\ key # NoKey
        /\ sealing' = key
        /\ call' = "remove"
        /\ UNCHANGED <<key, drawn>>
     \/ \E k \in Keys \ drawn :
          /\ drawn' = drawn \cup {k}
          /\ key' = k
          /\ sealing' = k
          /\ call' = "remove"
     \/ /\ call' = "use"
        /\ UNCHANGED <<key, sealing, drawn>>
  /\ UNCHANGED <<session, code, job, pending, file, issued, durable, cleared>>

(* write_file_truncating: remove_file, whose failure is ignored, ...         *)
SaveRemove ==
  /\ call = "remove"
  /\ file' \in {NoFile, file}
  /\ call' = "write"
  /\ UNCHANGED <<session, code, job, locals, key, past>>

(* ... and write, which may stop half-way, and which over a file that is     *)
(* still there may succeed and leave some of the old one's end.              *)
SaveWrite ==
  /\ call = "write"
  /\ \/ /\ file' = Sealed(pending, sealing)
        /\ durable' = pending
     \/ /\ file' \in {file, Broken}
        /\ UNCHANGED durable
  /\ call' = "use"
  /\ UNCHANGED <<session, code, job, locals, key, issued, drawn, cleared>>

(* Mutant of UseTokens: App forgets to keep the tokens.                      *)
UseTokensOnce ==
  /\ call = "use"
  /\ IF pending \in Readable
       THEN /\ Go("LoadingCatalog", "none")
            /\ job' = Job("load", pending)
       ELSE /\ Go("Error", "RestartLogin")
            /\ UNCHANGED job
  /\ call' = "none" /\ pending' = NoTokens /\ sealing' = NoKey
  /\ UNCHANGED <<tokens, code, stored, past>>

(* Whether or not they were saved, the tokens are used.                      *)
UseTokens ==
  /\ call = "use"
  /\ IF pending \in Readable
       THEN /\ Go("LoadingCatalog", "none")
            /\ tokens' = pending
            /\ job' = Job("load", pending)
       ELSE /\ Go("Error", "RestartLogin")
            /\ UNCHANGED <<tokens, job>>
  /\ call' = "none" /\ pending' = NoTokens /\ sealing' = NoKey
  /\ UNCHANGED <<code, stored, past>>

(* clear_tokens: both calls may fail, and nobody asks.                       *)
ClearFile ==
  /\ call = "clear file"
  /\ \/ file' = NoFile /\ cleared' = cleared \cup ({file.tokens} \cap Tokens)
     \/ UNCHANGED <<file, cleared>>
  /\ call' = "clear key"
  /\ UNCHANGED <<session, code, job, locals, key, issued, drawn, durable>>

(* Mutant of ClearKey: the magic of the record is left, so that the key is   *)
(* still taken for one.                                                      *)
ClearKeyKeepsKey ==
  /\ call = "clear key"
  /\ \/ cleared' = cleared \cup ({file.tokens} \cap Tokens)
     \/ UNCHANGED cleared
  /\ call' = "none"
  /\ UNCHANGED <<session, code, job, locals, stored, issued, drawn, durable>>

ClearKey ==
  /\ call = "clear key"
  /\ \/ key' = NoKey /\ cleared' = cleared \cup ({file.tokens} \cap Tokens)
     \/ UNCHANGED <<key, cleared>>
  /\ call' = "none"
  /\ UNCHANGED <<session, code, job, locals, file, issued, drawn, durable>>

Store == SaveKey \/ SaveRemove \/ SaveWrite \/ UseTokens \/ ClearFile \/ ClearKey

-----------------------------------------------------------------------------
(* The requests of the screens end, each within REQUEST_TIMEOUT.             *)
TaskEnds ==
  /\ job.outcome = "running"
  /\ \E outcome \in Outcomes[job.kind] :
       IF outcome = "authorized"
         THEN \E t \in Tokens \ issued :
                /\ job' = [job EXCEPT !.outcome = outcome, !.tokens = t]
                /\ issued' = issued \cup {t}
         ELSE job' = [job EXCEPT !.outcome = outcome] /\ UNCHANGED issued
  /\ UNCHANGED <<session, code, call, locals, stored, drawn, durable, cleared>>

(* Time passes: an interval of the challenge, and its last.                  *)
IntervalPasses ==
  /\ screen = "WaitingForDeviceAuthorization" /\ wait > 0
  /\ wait' = wait - 1
  /\ UNCHANGED <<session, expired, job, call, locals, stored, past>>
DeadlinePasses ==
  /\ screen = "WaitingForDeviceAuthorization" /\ ~ expired
  /\ expired' = TRUE
  /\ UNCHANGED <<session, wait, job, call, locals, stored, past>>

Next == \/ Start \/ Killed
        \/ StartLogin \/ Reload \/ BackToLogin
        \/ Tick \/ Store
        \/ TaskEnds \/ IntervalPasses \/ DeadlinePasses

(* The main loop ticks, calls return, requests end and time passes.          *)
Fairness == WF_vars(Tick) /\ WF_vars(Store) /\ WF_vars(TaskEnds)
            /\ WF_vars(IntervalPasses) /\ WF_vars(DeadlinePasses)

Spec == Init /\ [][Next]_vars
FairSpec == Spec /\ Fairness

-----------------------------------------------------------------------------
(* Properties                                                                *)

(* A save that went through is restored by the next start, whatever went     *)
(* wrong before: the file is whole and the key is the one it was sealed with.*)
SavedLoginIsRestored == durable # NoTokens => Restorable = durable

(* A stored login of which clear_tokens got rid of either half never comes   *)
(* back, also not when the program is killed half-way through this or a      *)
(* later save.                                                               *)
ClearedIsNotRestored == Restorable \notin cleared

(* The expect() in the retry of a failed load does not panic.                *)
RetryHasTokens == screen = "Error" /\ retry = "ReloadCatalog" => tokens # NoTokens

(* The catalog is never loaded with a login that was cleared.                *)
ClearedIsNotUsed == job.kind = "load" => job.tokens \notin cleared

(* The screens without a way back end by themselves, and so does the one     *)
(* with the code.                                                            *)
LoginScreensEnd ==
  \A s \in {"StartingDeviceLogin", "WaitingForDeviceAuthorization", "LoadingCatalog"} :
    screen = s ~> screen # s
=============================================================================
