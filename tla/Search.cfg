\* Two columns, so that a row and a cell differ.  Nothing is bounded: the state
\* space of three queries is finite.  The user need do nothing.
SPECIFICATION FairSpec
CONSTANTS
  g1 = g1
  g2 = g2
  g3 = g3
  g4 = g4
  all = all
  some = some
  none = none
  NoGame = NoGame
  NoQuery = NoQuery
  Blank = all
  Games <- MCGames
  Queries <- MCQueries
  Results <- MCResults
  Matches <- MCMatches
  GridColumns = 2
  Outcomes = {"ok", "error"}
INVARIANTS
  GridInRange
  SettledListIsCurrent
PROPERTIES
  QueryIsAnswered
