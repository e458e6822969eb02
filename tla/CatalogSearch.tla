----------------------------- MODULE CatalogSearch -----------------------------
(***************************************************************************)
(* The catalog grid of src/app/mod.rs and its search.  A keystroke filters *)
(* the games that are loaded at once (filter_indices) and arms a timer;    *)
(* when it has run out, tick sends the query to the service, one request   *)
(* at a time, and replaces the games by the answer.  The grid is left for  *)
(* the detail screen, and from there for the session screens ("away"),     *)
(* while a timer or a request may be pending.                              *)
(*                                                                         *)
(* Games and queries are opaque: Results says what the service answers,    *)
(* Matches which titles contain the query.  Indices count from zero, as in *)
(* the code.                                                               *)
(***************************************************************************)
EXTENDS Integers, Sequences, FiniteSets

CONSTANTS
  Games, NoGame,
  Queries, NoQuery,
  Blank,          (* the query that trims to the empty string                *)
  Results,        (* what the service answers to each query                  *)
  Matches,        (* the games whose title contains it                       *)
  GridColumns,    (* GRID_COLUMNS                                            *)
  Outcomes        (* whether requests may fail                               *)

ASSUME CatalogAssumption ==
  /\ NoGame \notin Games /\ NoQuery \notin Queries
  /\ Blank \in Queries
  /\ Results \in [Queries -> Seq(Games)]
  /\ Matches \in [Queries -> SUBSET Games] /\ Matches[Blank] = Games
  /\ GridColumns \in Nat \ {0}
  /\ Outcomes \subseteq {"ok", "error"}

VARIABLES
  screen,
  games, selected, filtered_indices, search_query, search_requested,
  search_job,                    (* the query sent, and how it stands         *)
  search_pending_since,          (* the timer: not armed, running, or run out *)
  last_dispatched_search_query,
  gap,         (* history: since the list was last replaced or loaded, a      *)
               (* search was dropped or failed                                *)
  carried      (* history: the query last sent before this catalog was        *)
               (* loaded, while last_dispatched_search_query still names it   *)

grid  == <<games, selected, filtered_indices, search_query, search_requested>>
job   == <<search_job, search_pending_since, last_dispatched_search_query,
           gap, carried>>
vars  == <<screen, grid, job>>

NoJob == [query |-> NoQuery, outcome |-> "none"]
Jobs  == [query : Queries, outcome : {"running", "ok", "error"}] \cup {NoJob}

(* The types; what filtered_indices may hold is said by GridInRange.         *)
TypeOK ==
  /\ screen \in {"catalog", "detail", "away", "loading"}
  /\ games \in Seq(Games)
  /\ selected \in Nat
  /\ search_query \in Queries
  /\ search_requested \in BOOLEAN
  /\ search_job \in Jobs
  /\ search_pending_since \in {"none", "running", "elapsed"}
  /\ last_dispatched_search_query \in Queries \cup {NoQuery}
  /\ gap \in BOOLEAN
  /\ carried \in Queries \cup {NoQuery}

(* slice::get *)
Get(s, index, none) == IF index < Len(s) THEN s[index + 1] ELSE none

AllIndices(list) == [i \in 1 .. Len(list) |-> i - 1]

(* A finite set of numbers as a sequence, the smallest first.                *)
Rank(i, S)   == Cardinality({j \in S : j <= i})
Ascending(S) == [k \in 1 .. Cardinality(S) |-> CHOOSE i \in S : Rank(i, S) = k]

(* filter_indices *)
FilterIndices(list, query) ==
  Ascending({index \in 0 .. Len(list) - 1 : list[index + 1] \in Matches[query]})

(* The game that Confirm launches.                                           *)
LaunchedGame == LET index == Get(filtered_indices, selected, Len(games))
                IN Get(games, index, NoGame)

-----------------------------------------------------------------------------
(* A catalog that has just been loaded.                                      *)
FreshGrid(list) ==
  /\ games' = list
  /\ selected' = 0
  /\ filtered_indices' = FilterIndices(list, Blank)
  /\ search_query' = Blank
  /\ search_requested' = FALSE

Init ==
  /\ screen = "loading"
  /\ games = << >> /\ selected = 0 /\ filtered_indices = << >>
  /\ search_query = Blank /\ search_requested = FALSE
  /\ search_job = NoJob
  /\ search_pending_since = "none"
  /\ last_dispatched_search_query = NoQuery
  /\ gap = FALSE /\ carried = NoQuery

-----------------------------------------------------------------------------
(* Commands of the user, each handled between two ticks                      *)

(* Mutant of SetSearchQuery: a request in flight keeps the timer from being  *)
(* armed.                                                                    *)
SetSearchQueryUnlessBusy(query) ==
  /\ screen = "catalog" /\ query # search_query
  /\ filtered_indices' = FilterIndices(games, query)
  /\ selected' = 0
  /\ search_query' = query
  /\ search_pending_since' = IF search_job = NoJob THEN "running" ELSE search_pending_since
  /\ UNCHANGED <<screen, games, search_requested, search_job,
                 last_dispatched_search_query, gap, carried>>

(* The text field changed: apply_search_query.                               *)
SetSearchQuery(query) ==
  /\ screen = "catalog" /\ query # search_query
  /\ filtered_indices' = FilterIndices(games, query)
  /\ selected' = 0
  /\ search_query' = query
  /\ search_pending_since' = "running"
  /\ UNCHANGED <<screen, games, search_requested, search_job,
                 last_dispatched_search_query, gap, carried>>

(* request_search *)
RequestSearch ==
  /\ screen = "catalog"
  /\ search_requested' = TRUE
  /\ UNCHANGED <<screen, games, selected, filtered_indices, search_query, job>>

(* close_search, and what Confirm and Back do while the keyboard is open.    *)
CloseSearch ==
  /\ screen = "catalog"
  /\ search_requested' = FALSE
  /\ UNCHANGED <<screen, games, selected, filtered_indices, search_query, job>>

(* move_in_grid *)
MoveInGrid(len, columns, at, step) ==
  LET Sub(a, b)   == IF a < b THEN 0 ELSE a - b
      Capped(a)   == IF a < len THEN a ELSE len - 1
  IN IF len = 0 THEN at
     ELSE CASE step = "up"    -> Sub(at, columns)
            [] step = "down"  -> Capped(at + columns)
            [] step = "left"  -> Sub(at, 1)
            [] step = "right" -> Capped(at + 1)

(* The columns each arm of handle_input_command passes.                      *)
Steps == [up |-> GridColumns, down |-> 1, left |-> GridColumns, right |-> GridColumns]

Move(step) ==
  /\ screen = "catalog" /\ ~ search_requested
  /\ selected' = MoveInGrid(Len(filtered_indices), Steps[step], selected, step)
  /\ UNCHANGED <<screen, games, filtered_indices, search_query, search_requested, job>>

(* Back with a query in the field.                                           *)
ClearSearch ==
  /\ screen = "catalog" /\ ~ search_requested /\ search_query # Blank
  /\ search_query' = Blank
  /\ filtered_indices' = AllIndices(games)
  /\ selected' = 0
  /\ search_pending_since' = "running"
  /\ UNCHANGED <<screen, games, search_requested, search_job,
                 last_dispatched_search_query, gap, carried>>

OpenGame ==
  /\ screen = "catalog" /\ ~ search_requested
  /\ screen' = "detail"
  /\ UNCHANGED <<grid, job>>

CloseGame ==
  /\ screen = "detail"
  /\ screen' = "catalog"
  /\ UNCHANGED <<grid, job>>

LaunchGame ==
  /\ screen = "detail" /\ LaunchedGame # NoGame
  /\ screen' = "away"
  /\ UNCHANGED <<grid, job>>

(* The session ends on the detail screen, or by way of the login screen in a *)
(* new load of the catalog.                                                  *)
Return ==
  /\ screen = "away"
  /\ screen' \in {"detail", "loading"}
  /\ UNCHANGED <<grid, job>>

-----------------------------------------------------------------------------
(* tick: advance_catalog_search, then the screen's own arm                   *)

(* On any other screen a request and a running timer are dropped.            *)
TickElsewhere ==
  /\ screen # "catalog"
  /\ search_job' = NoJob
  /\ search_pending_since' = "none"
  /\ gap' = (gap \/ search_job # NoJob \/ search_pending_since # "none")
  /\ UNCHANGED <<screen, grid, last_dispatched_search_query, carried>>

(* ... and there the catalog may come in, or fail to (which ends in Error    *)
(* and, sooner or later, in another load).  The last query sent is kept,     *)
(* although the list that comes in is not its answer.                        *)
TickLoaded ==
  /\ screen = "loading"
  /\ screen' = "catalog"
  /\ FreshGrid(Results[Blank])
  /\ search_job' = NoJob
  /\ search_pending_since' = "none"
  /\ gap' = FALSE
  /\ carried' = IF last_dispatched_search_query = Blank
                  THEN NoQuery ELSE last_dispatched_search_query
  /\ UNCHANGED last_dispatched_search_query

(* Mutants of TickResults: the timer of a later keystroke is reset too, or   *)
(* the indices into the old list survive.                                    *)
TickResultsDisarm ==
  /\ screen = "catalog" /\ search_job.outcome = "ok"
  /\ games' = Results[search_job.query]
  /\ filtered_indices' = AllIndices(games')
  /\ selected' = 0
  /\ search_job' = NoJob
  /\ search_pending_since' = "none"
  /\ gap' = FALSE
  /\ UNCHANGED <<screen, search_query, search_requested,
                 last_dispatched_search_query, carried>>
TickResultsKeepIndices ==
  /\ screen = "catalog" /\ search_job.outcome = "ok"
  /\ games' = Results[search_job.query]
  /\ selected' = 0
  /\ search_job' = NoJob
  /\ gap' = FALSE
  /\ UNCHANGED <<screen, filtered_indices, search_query, search_requested,
                 search_pending_since, last_dispatched_search_query, carried>>

(* The answer replaces the games, whatever is in the field by now.           *)
TickResults ==
  /\ screen = "catalog" /\ search_job.outcome = "ok"
  /\ games' = Results[search_job.query]
  /\ filtered_indices' = AllIndices(games')
  /\ selected' = 0
  /\ search_job' = NoJob
  /\ gap' = FALSE
  /\ UNCHANGED <<screen, search_query, search_requested, search_pending_since,
                 last_dispatched_search_query, carried>>

TickSearchFailed ==
  /\ screen = "catalog" /\ search_job.outcome = "error"
  /\ search_job' = NoJob
  /\ gap' = TRUE
  /\ UNCHANGED <<screen, grid, search_pending_since, last_dispatched_search_query, carried>>

(* The timer has run out: the query was sent already, or it is sent now.     *)
TickDispatch ==
  /\ screen = "catalog" /\ search_job = NoJob /\ search_pending_since = "elapsed"
  /\ search_pending_since' = "none"
  /\ last_dispatched_search_query' = search_query
  /\ IF last_dispatched_search_query = search_query
       THEN UNCHANGED <<search_job, carried>>
       ELSE /\ search_job' = [query |-> search_query, outcome |-> "running"]
            /\ carried' = NoQuery
  /\ UNCHANGED <<screen, grid, gap>>

Tick == \/ TickElsewhere \/ TickLoaded
        \/ TickResults \/ TickSearchFailed \/ TickDispatch

-----------------------------------------------------------------------------
(* SEARCH_DEBOUNCE passes without a keystroke.                               *)
DebounceElapses ==
  /\ search_pending_since = "running"
  /\ search_pending_since' = "elapsed"
  /\ UNCHANGED <<screen, grid, search_job, last_dispatched_search_query, gap, carried>>

(* The spawned request ends.                                                 *)
SearchEnds ==
  /\ search_job.outcome = "running"
  /\ \E outcome \in Outcomes : search_job' = [search_job EXCEPT !.outcome = outcome]
  /\ UNCHANGED <<screen, grid, search_pending_since, last_dispatched_search_query,
                 gap, carried>>

User ==
  \/ \E query \in Queries : SetSearchQuery(query)
  \/ RequestSearch \/ CloseSearch \/ ClearSearch
  \/ \E step \in DOMAIN Steps : Move(step)
  \/ OpenGame \/ CloseGame \/ LaunchGame \/ Return

Next == User \/ Tick \/ DebounceElapses \/ SearchEnds

(* The main loop ticks once a frame, time passes and requests end.           *)
Fairness == WF_vars(Tick) /\ WF_vars(DebounceElapses) /\ WF_vars(SearchEnds)

Spec == Init /\ [][Next]_vars
FairSpec == Spec /\ Fairness

-----------------------------------------------------------------------------
(* Properties                                                                *)

(* The indices of the grid stay inside the list that an answer has just      *)
(* replaced (catalog_screen indexes without a check, and would panic), and   *)
(* the selection inside the indices a keystroke has just narrowed.           *)
GridInRange ==
  /\ \A i \in DOMAIN filtered_indices : filtered_indices[i] \in 0 .. Len(games) - 1
  /\ filtered_indices # << >> => selected \in 0 .. Len(filtered_indices) - 1

(* However keystrokes, timer and answers overlap: when no search is pending  *)
(* or running, the games are the service's answer to the query in the field. *)
(* Two cases are left out, in both of which the code shows another list: a   *)
(* search was dropped with the screen, or failed (gap); and the field holds  *)
(* the query last sent before the catalog was loaded anew (carried), which   *)
(* is taken for sent and answered.                                           *)
SettledListIsCurrent ==
  screen \in {"catalog", "detail"} /\ search_job = NoJob
    /\ search_pending_since = "none" /\ ~ gap /\ search_query # carried
      => games = Results[search_query]

(* A query is in the field, and no search was lost.                          *)
AnswerIsDue(query) == screen = "catalog" /\ search_query = query /\ ~ gap

(* A query that stays in the field is answered, in spite of answers to       *)
(* earlier ones, while the catalog stays open and no search is lost; not so  *)
(* the query last sent before the catalog was loaded anew.                   *)
QueryIsAnswered ==
  \A query \in Queries :
    AnswerIsDue(query) /\ query # carried
      ~> games = Results[query] \/ ~ AnswerIsDue(query)

(* The comment on Back: an emptied field brings the whole catalog back.      *)
BackRestoresCatalog ==
  screen = "catalog" /\ search_query = Blank
    ~> \/ games = Results[Blank]
       \/ screen # "catalog" \/ search_query # Blank
=============================================================================
