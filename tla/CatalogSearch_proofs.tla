-------------------------- MODULE CatalogSearch_proofs --------------------------
(***************************************************************************)
(* A settled search shows the answer to the query in the field, and the    *)
(* selected tile is one of the list, for any set of queries and games and  *)
(* whatever the service answers.                                           *)
(***************************************************************************)
EXTENDS CatalogSearch, FiniteSetTheorems, SequenceTheorems, TLAPS

(* The types the argument needs.                                             *)
SearchTyped ==
  /\ search_query \in Queries
  /\ search_job \in Jobs
  /\ last_dispatched_search_query \in Queries \cup {NoQuery}
  /\ carried \in Queries \cup {NoQuery}

(* The query whose answer the list shows, or is about to: a catalog from     *)
(* which nothing was sent yet is the answer to the blank one.                *)
Latest == IF last_dispatched_search_query = NoQuery \/ carried # NoQuery
            THEN Blank ELSE last_dispatched_search_query

(* A query is carried over a load until another one is sent.  The request in *)
(* flight is for the latest query.  While nothing was lost, the games are    *)
(* its answer when there is no request.  Without a timer the latest query is *)
(* the one in the field, unless that is the carried one; after a loss that   *)
(* still holds of a request in flight, whose answer will therefore make up   *)
(* for the loss.                                                             *)
InStep ==
  screen # "loading" =>
    /\ carried # NoQuery => search_job = NoJob /\ last_dispatched_search_query = carried
    /\ search_job # NoJob => search_job.query = Latest
    /\ search_job = NoJob /\ ~ gap => games = Results[Latest]
    /\ search_pending_since = "none" /\ (search_job # NoJob \/ ~ gap)
         => search_query \in {Latest, carried}

IInv == SearchTyped /\ InStep

(* A finished or running request is not NoJob, and has a query.              *)
LEMMA JobFacts ==
  /\ NoJob.outcome = "none" /\ NoJob \in Jobs
  /\ \A q \in Queries :
       LET sent == [query |-> q, outcome |-> "running"]
       IN sent \in Jobs /\ sent # NoJob /\ sent.query = q
  /\ \A j \in Jobs, outcome \in {"ok", "error"} :
       j.outcome = "running" =>
         LET ended == [j EXCEPT !.outcome = outcome]
         IN j # NoJob /\ ended \in Jobs /\ ended # NoJob /\ ended.query = j.query
BY DEF Jobs, NoJob

(* The initial state is in step.                                             *)
LEMMA InitInStep == Init => IInv
BY CatalogAssumption, JobFacts DEF Init, IInv, SearchTyped, InStep, NoJob

(* Every step keeps the invariant.                                           *)
LEMMA NextInStep == IInv /\ [Next]_vars => IInv'
<1> SUFFICES ASSUME IInv, [Next]_vars PROVE IInv'
  OBVIOUS
<1> USE DEF IInv, SearchTyped, InStep, Latest, grid, job
<1>1. ASSUME NEW query \in Queries, SetSearchQuery(query) PROVE IInv'
  BY <1>1 DEF SetSearchQuery
<1>2. CASE RequestSearch \/ CloseSearch
  BY <1>2 DEF RequestSearch, CloseSearch
<1>3. CASE ClearSearch
  BY <1>3, CatalogAssumption DEF ClearSearch
<1>4. ASSUME NEW step \in DOMAIN Steps, Move(step) PROVE IInv'
  BY <1>4 DEF Move
<1>5. CASE OpenGame \/ CloseGame \/ LaunchGame
  BY <1>5 DEF OpenGame, CloseGame, LaunchGame
<1>6. CASE Return
  BY <1>6 DEF Return
<1>7. CASE TickElsewhere
  BY <1>7, JobFacts DEF TickElsewhere
<1>8. CASE TickLoaded
  BY <1>8, JobFacts, CatalogAssumption DEF TickLoaded, FreshGrid
<1>9. CASE TickResults
  BY <1>9, JobFacts DEF TickResults
<1>10. CASE TickSearchFailed
  BY <1>10, JobFacts DEF TickSearchFailed
<1>11. CASE TickDispatch
  <2>1. search_query \in Queries /\ search_query # NoQuery
    BY CatalogAssumption
  <2>2. CASE last_dispatched_search_query = search_query
    BY <2>1, <2>2, <1>11, JobFacts DEF TickDispatch
  <2>3. CASE last_dispatched_search_query # search_query
    <3>1. search_job' = [query |-> search_query, outcome |-> "running"]
      BY <2>3, <1>11 DEF TickDispatch
    <3>2. search_job' \in Jobs /\ search_job' # NoJob /\ search_job'.query = search_query
      BY <3>1, <2>1, JobFacts
    <3> QED
      BY <3>2, <2>1, <1>11 DEF TickDispatch
  <2> QED
    BY <2>2, <2>3
<1>12. CASE DebounceElapses
  BY <1>12 DEF DebounceElapses
<1>13. CASE SearchEnds
  <2>1. PICK outcome \in {"ok", "error"} : search_job' = [search_job EXCEPT !.outcome = outcome]
    BY <1>13, CatalogAssumption DEF SearchEnds
  <2>2. search_job # NoJob /\ search_job' # NoJob
    BY <2>1, <1>13, JobFacts DEF SearchEnds
  <2>3. search_job' \in Jobs /\ search_job'.query = search_job.query
    BY <2>1, <1>13, JobFacts DEF SearchEnds
  <2> QED
    BY <2>2, <2>3, <1>13 DEF SearchEnds
<1>14. CASE UNCHANGED vars
  BY <1>14 DEF vars
<1> QED
  BY <1>1, <1>2, <1>3, <1>4, <1>5, <1>6, <1>7, <1>8, <1>9, <1>10, <1>11, <1>12, <1>13, <1>14
  DEF Next, User, Tick

(* SettledListIsCurrent is what the invariant says of a settled search.      *)
THEOREM SettledSearch == Spec => []SettledListIsCurrent
<1>1. IInv => SettledListIsCurrent
  BY DEF IInv, InStep, Latest, SettledListIsCurrent
<1> QED
  BY InitInStep, NextInStep, <1>1, PTL DEF Spec

(* A move leaves an index, also in an empty grid.                            *)
LEMMA MoveIndex ==
  ASSUME NEW len \in Nat, NEW columns \in Nat, NEW at \in Nat, NEW step \in DOMAIN Steps
  PROVE  MoveInGrid(len, columns, at, step) \in Nat
<1>1. step \in {"up", "down", "left", "right"}
  BY DEF Steps
<1>2. CASE len = 0
  BY <1>2 DEF MoveInGrid
<1>3. CASE len # 0
  <2>1. len - 1 \in Nat
    BY <1>3
  <2>2. CASE step = "up"
    BY <1>3, <2>2 DEF MoveInGrid
  <2>3. CASE step = "down"
    BY <1>3, <2>1, <2>3 DEF MoveInGrid
  <2>4. CASE step = "left"
    BY <1>3, <2>4 DEF MoveInGrid
  <2>5. CASE step = "right"
    BY <1>3, <2>1, <2>5 DEF MoveInGrid
  <2> QED
    BY <1>1, <2>2, <2>3, <2>4, <2>5
<1> QED
  BY <1>2, <1>3

(* The type invariant.                                                       *)
THEOREM SearchTypeCorrect == Spec => []TypeOK
<1>1. ASSUME Init PROVE TypeOK
  <2>1. games \in Seq(Games) /\ selected \in Nat
    BY <1>1 DEF Init
  <2>2. search_job \in Jobs /\ search_query \in Queries
    BY <1>1, JobFacts, CatalogAssumption DEF Init
  <2> QED
    BY <1>1, <2>1, <2>2 DEF Init, TypeOK
<1>2. ASSUME TypeOK, IInv, IInv', [Next]_vars PROVE TypeOK'
  <2>1. search_query' \in Queries /\ search_job' \in Jobs
        /\ last_dispatched_search_query' \in Queries \cup {NoQuery}
        /\ carried' \in Queries \cup {NoQuery}
    BY <1>2 DEF IInv, SearchTyped
  <2>2. screen' \in {"catalog", "detail", "away", "loading"}
    BY <1>2 DEF TypeOK, Next, User, Tick, SetSearchQuery, RequestSearch, CloseSearch, ClearSearch,
                Move, OpenGame, CloseGame, LaunchGame, Return, TickElsewhere, TickLoaded,
                TickResults, TickSearchFailed, TickDispatch, DebounceElapses, SearchEnds, vars
  <2>3. games' \in Seq(Games)
    <3>1. games' = games \/ \E query \in Queries : games' = Results[query]
      <4>1. CASE TickResults
        <5>1. search_job.query \in Queries
          BY <4>1, <1>2 DEF TickResults, TypeOK, Jobs, NoJob
        <5> QED
          BY <4>1, <5>1 DEF TickResults
      <4>2. CASE TickLoaded
        BY <4>2, CatalogAssumption DEF TickLoaded, FreshGrid
      <4> QED
        BY <1>2, <4>1, <4>2
        DEF Next, User, Tick, SetSearchQuery, RequestSearch, CloseSearch, ClearSearch, Move,
            OpenGame, CloseGame, LaunchGame, Return, TickElsewhere, TickSearchFailed,
            TickDispatch, DebounceElapses, SearchEnds, grid, vars
    <3> QED
      BY <1>2, <3>1, CatalogAssumption DEF TypeOK
  <2>4. selected' \in Nat
    <3>1. CASE \E step \in DOMAIN Steps : Move(step)
      <4>1. PICK step \in DOMAIN Steps :
              selected' = MoveInGrid(Len(filtered_indices), Steps[step], selected, step)
        BY <3>1 DEF Move
      <4> QED
        BY <4>1, <1>2, MoveIndex, CatalogAssumption DEF TypeOK, Steps
    <3>2. CASE selected' \in {selected, 0}
      BY <1>2, <3>2 DEF TypeOK
    <3> QED
      BY <1>2, <3>1, <3>2
      DEF Next, User, Tick, SetSearchQuery, RequestSearch, CloseSearch, ClearSearch,
          OpenGame, CloseGame, LaunchGame, Return, TickElsewhere, TickLoaded, FreshGrid,
          TickResults, TickSearchFailed, TickDispatch, DebounceElapses, SearchEnds, grid, vars
  <2>5. search_requested' \in BOOLEAN
    BY <1>2 DEF TypeOK, Next, User, Tick, SetSearchQuery, RequestSearch, CloseSearch, ClearSearch,
                Move, OpenGame, CloseGame, LaunchGame, Return, TickElsewhere, TickLoaded, FreshGrid,
                TickResults, TickSearchFailed, TickDispatch, DebounceElapses, SearchEnds, grid, vars
  <2>6. search_pending_since' \in {"none", "running", "elapsed"}
    BY <1>2 DEF TypeOK, Next, User, Tick, SetSearchQuery, RequestSearch, CloseSearch, ClearSearch,
                Move, OpenGame, CloseGame, LaunchGame, Return, TickElsewhere, TickLoaded,
                TickResults, TickSearchFailed, TickDispatch, DebounceElapses, SearchEnds, job, vars
  <2>7. gap' \in BOOLEAN
    BY <1>2 DEF TypeOK, Next, User, Tick, SetSearchQuery, RequestSearch, CloseSearch, ClearSearch,
                Move, OpenGame, CloseGame, LaunchGame, Return, TickElsewhere, TickLoaded,
                TickResults, TickSearchFailed, TickDispatch, DebounceElapses, SearchEnds, job, vars
  <2> QED
    BY <2>1, <2>2, <2>3, <2>4, <2>5, <2>6, <2>7 DEF TypeOK
<1> QED
  BY <1>1, <1>2, InitInStep, NextInStep, PTL DEF Spec

-----------------------------------------------------------------------------
(* The grid and its selection stay in range.                                 *)

(* In a finite set of numbers each rank is held by exactly one.              *)
LEMMA RankUnique ==
  ASSUME NEW S \in SUBSET Nat, IsFiniteSet(S), NEW k \in 1 .. Cardinality(S)
  PROVE  /\ \E i \in S : Rank(i, S) = k
         /\ \A i, j \in S : Rank(i, S) = Rank(j, S) => i = j
<1> DEFINE Upto(i) == {j \in S : j <= i}
           n == Cardinality(S)
           f == [i \in S |-> Rank(i, S)]
<1>1. \A i \in S : /\ IsFiniteSet(Upto(i)) /\ Cardinality(Upto(i)) \in Nat
                   /\ Cardinality(Upto(i)) \in 1 .. n
  <2> SUFFICES ASSUME NEW i \in S
               PROVE  /\ IsFiniteSet(Upto(i)) /\ Cardinality(Upto(i)) \in Nat
                      /\ Cardinality(Upto(i)) \in 1 .. n
    OBVIOUS
  <2>1. Upto(i) \in SUBSET S /\ i \in Upto(i)
    OBVIOUS
  <2>2. IsFiniteSet(Upto(i)) /\ Cardinality(Upto(i)) <= n
    BY <2>1, FS_Subset
  <2>3. Cardinality(Upto(i)) \in Nat /\ Cardinality(Upto(i)) # 0 /\ n \in Nat
    BY <2>1, <2>2, FS_EmptySet, FS_CardinalityType
  <2> QED
    BY <2>2, <2>3
<1>2. ASSUME NEW i \in S, NEW j \in S, Rank(i, S) = Rank(j, S)
      PROVE  i = j
  <2>1. \A a, b \in S : a <= b \/ b <= a
    OBVIOUS
  <2>2. \A a, b, c \in S : a <= b /\ b <= c => a <= c
    OBVIOUS
  <2>3. Upto(i) \in SUBSET Upto(j) \/ Upto(j) \in SUBSET Upto(i)
    BY <2>1, <2>2, Zenon
  <2>4. Upto(i) = Upto(j)
    BY <2>3, <1>1, <1>2, FS_Subset DEF Rank
  <2>5. i \in Upto(j) /\ j \in Upto(i)
    BY <2>4
  <2> QED
    BY <2>5
<1>3. f \in Injection(S, 1 .. n)
  BY <1>1, <1>2 DEF Rank, Injection, IsInjective
<1>4. n \in Nat /\ IsFiniteSet(1 .. n) /\ Cardinality(1 .. n) = n
  BY FS_CardinalityType, FS_Interval
<1>5. f \in Surjection(S, 1 .. n)
  BY <1>3, <1>4, FS_Injection
<1> QED
  BY <1>2, <1>5 DEF Surjection

(* So Ascending lists the set.                                               *)
LEMMA AscendingTyped ==
  ASSUME NEW S \in SUBSET Nat, IsFiniteSet(S)
  PROVE  Ascending(S) \in Seq(S) /\ Len(Ascending(S)) = Cardinality(S)
<1>1. Cardinality(S) \in Nat
  BY FS_CardinalityType
<1>2. Ascending(S) \in [1 .. Cardinality(S) -> S]
  BY RankUnique DEF Ascending
<1> QED
  BY <1>1, <1>2

(* The positions of a list.                                                  *)
Positions(list) == 0 .. Len(list) - 1

(* Whatever the query, the grid indexes the list it was made from.           *)
LEMMA IndicesTyped ==
  ASSUME NEW list \in Seq(Games), NEW query
  PROVE  /\ FilterIndices(list, query) \in Seq(Positions(list))
         /\ AllIndices(list) \in Seq(Positions(list))
<1>1. Len(list) \in Nat
  BY LenProperties
<1> DEFINE held == {index \in 0 .. Len(list) - 1 : list[index + 1] \in Matches[query]}
<1>2. held \in SUBSET (0 .. Len(list) - 1) /\ held \in SUBSET Nat
  BY <1>1
<1>3. IsFiniteSet(0 .. Len(list) - 1)
  <2>1. 0 \in Int /\ Len(list) - 1 \in Int
    BY <1>1
  <2> QED
    BY <2>1, FS_Interval
<1>4. IsFiniteSet(held)
  BY <1>2, <1>3, FS_Subset
<1> HIDE DEF held
<1>5. Ascending(held) \in Seq(held)
  BY <1>2, <1>4, AscendingTyped
<1>6. Ascending(held) \in Seq(0 .. Len(list) - 1)
  BY <1>2, <1>5, SeqMonotonic
<1>7. \A i \in 1 .. Len(list) : i - 1 \in 0 .. Len(list) - 1
  BY <1>1
<1> QED
  BY <1>1, <1>6, <1>7 DEF FilterIndices, AllIndices, Positions, held

(* A move in a grid that is not empty ends inside it.                        *)
LEMMA MoveInside ==
  ASSUME NEW len \in Nat \ {0}, NEW columns \in Nat, NEW at \in 0 .. len - 1,
         NEW step \in DOMAIN Steps
  PROVE  MoveInGrid(len, columns, at, step) \in 0 .. len - 1
<1>1. step \in {"up", "down", "left", "right"}
  BY DEF Steps
<1>2. CASE step = "up"
  BY <1>2 DEF MoveInGrid
<1>3. CASE step = "down"
  BY <1>3 DEF MoveInGrid
<1>4. CASE step = "left"
  BY <1>4 DEF MoveInGrid
<1>5. CASE step = "right"
  BY <1>5 DEF MoveInGrid
<1> QED
  BY <1>1, <1>2, <1>3, <1>4, <1>5

(* GridInRange, for indices that are a sequence.                             *)
Selectable ==
  /\ filtered_indices \in Seq(Positions(games))
  /\ filtered_indices # << >> => selected \in 0 .. Len(filtered_indices) - 1

(* New indices come with the list they were made from, and select the first. *)
LEMMA FreshSelectable ==
  ASSUME games' \in Seq(Games), selected' = 0,
         filtered_indices' = AllIndices(games')
           \/ \E query : filtered_indices' = FilterIndices(games', query)
  PROVE  Selectable'
<1>1. filtered_indices' \in Seq(Positions(games'))
  BY IndicesTyped
<1>2. Len(filtered_indices') \in Nat /\ (filtered_indices' # << >> => Len(filtered_indices') # 0)
  BY <1>1, EmptySeq, LenProperties
<1> QED
  BY <1>1, <1>2 DEF Selectable

(* Every step keeps them in range.                                           *)
LEMMA StepSelectable ==
  ASSUME TypeOK, TypeOK', Selectable, [Next]_vars
  PROVE  Selectable'
<1>1. games \in Seq(Games) /\ games' \in Seq(Games)
  BY DEF TypeOK
<1>2. CASE UNCHANGED grid
  BY <1>2 DEF grid, Selectable, Positions
<1>3. CASE UNCHANGED <<games, selected, filtered_indices>>
  BY <1>3 DEF Selectable, Positions
<1>4. ASSUME NEW query \in Queries, SetSearchQuery(query) PROVE Selectable'
  BY <1>1, <1>4, FreshSelectable DEF SetSearchQuery
<1>5. CASE ClearSearch
  BY <1>1, <1>5, FreshSelectable DEF ClearSearch
<1>6. CASE TickLoaded
  BY <1>1, <1>6, FreshSelectable DEF TickLoaded, FreshGrid
<1>7. CASE TickResults
  BY <1>1, <1>7, FreshSelectable DEF TickResults
<1>8. ASSUME NEW step \in DOMAIN Steps, Move(step) PROVE Selectable'
  <2>1. UNCHANGED <<games, filtered_indices>>
        /\ selected' = MoveInGrid(Len(filtered_indices), Steps[step], selected, step)
    BY <1>8 DEF Move
  <2>2. Steps[step] \in Nat
    BY CatalogAssumption DEF Steps
  <2>3. filtered_indices # << >> => selected' \in 0 .. Len(filtered_indices) - 1
    <3>1. CASE filtered_indices # << >>
      <4>1. Len(filtered_indices) \in Nat \ {0}
        BY <3>1, EmptySeq DEF Selectable
      <4> QED
        BY <4>1, <3>1, <2>1, <2>2, MoveInside DEF Selectable
    <3> QED
      BY <3>1
  <2> QED
    BY <2>1, <2>3 DEF Selectable, Positions
<1> QED
  BY <1>2, <1>3, <1>4, <1>5, <1>6, <1>7, <1>8
  DEF Next, User, Tick, RequestSearch, CloseSearch, OpenGame, CloseGame, LaunchGame, Return,
      TickElsewhere, TickSearchFailed, TickDispatch, DebounceElapses, SearchEnds, vars

(* GridInRange: the indices stay inside the games, and the selection inside  *)
(* the indices, in whatever order answers and keystrokes replace them.       *)
THEOREM GridStaysInRange == Spec => []GridInRange
<1>1. Init => Selectable
  BY DEF Init, Selectable
<1>2. TypeOK /\ TypeOK' /\ Selectable /\ [Next]_vars => Selectable'
  BY StepSelectable
<1>3. Selectable => GridInRange
  <2>1. ASSUME Selectable, NEW i \in DOMAIN filtered_indices
        PROVE  filtered_indices[i] \in 0 .. Len(games) - 1
    BY <2>1, LenProperties, ElementOfSeq DEF Selectable, Positions
  <2> QED
    BY <2>1 DEF GridInRange, Selectable
<1> QED
  BY <1>1, <1>2, <1>3, SearchTypeCorrect, PTL DEF Spec
=============================================================================
