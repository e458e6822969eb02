\* Clearing the search and visiting a detail screen before the answer is there.
SPECIFICATION FairSpec
CONSTANTS
  g1 = g1
  g2 = g2
  g3 = g3
  g4 = g4
  all = all
  some = some
  none = none
  NoGame = NoGame
  NoQuery = NoQuery
  Blank = all
  Games <- MCGames
  Queries <- MCQueries
  Results <- MCResults
  Matches <- MCMatches
  GridColumns = 2
  Outcomes = {"ok"}
PROPERTIES
  BackRestoresCatalog
