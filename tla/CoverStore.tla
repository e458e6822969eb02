------------------------------- MODULE CoverStore -------------------------------
(***************************************************************************)
(* The cache of cover art (src/gfn/covers.rs).  The interface asks for the *)
(* cover of every tile it draws, in every frame, as long as there is no    *)
(* picture (src/app/ui.rs, draw_tile and game_detail_screen); a request    *)
(* spawns a task, which waits for one of the permits of its store,         *)
(* downloads and decodes, and writes the outcome into the map it shares    *)
(* with the interface.                                                     *)
(*                                                                         *)
(* A store belongs to one load of the catalog.  After another login there  *)
(* is a new one (src/app/mod.rs, advance_catalog_load), and the tasks of   *)
(* the old go on in a map that nobody looks at.                            *)
(***************************************************************************)
EXTENDS Naturals, Sequences, FiniteSets

CONSTANTS
  Covers,       (* the games that have a cover                                *)
  MaxStores,    (* loads of the catalog                                       *)
  Permits       (* MAX_CONCURRENT_COVER_DOWNLOADS                             *)

ASSUME CoverBounds ==
  /\ IsFiniteSet(Covers) /\ MaxStores \in Nat \ {0} /\ Permits \in Nat \ {0}

VARIABLES
  store,        (* the one in AppState                                        *)
  inner,        (* [Stores -> [Covers -> state]]: the maps                    *)
  waiting,      (* [Stores -> tasks in acquire_owned, first come first]       *)
  downloading   (* [Stores -> tasks that hold a permit]                       *)

vars == <<store, inner, waiting, downloading>>

Stores     == 1 .. MaxStores
CoverState == {"none", "Loading", "Ready", "Failed"}

TypeOK ==
  /\ store \in Stores
  /\ inner \in [Stores -> [Covers -> CoverState]]
  /\ waiting \in [Stores -> Seq(Covers)]
  /\ downloading \in [Stores -> SUBSET Covers]

Init ==
  /\ store = 1
  /\ inner = [s \in Stores |-> [c \in Covers |-> "none"]]
  /\ waiting = [s \in Stores |-> <<>>]
  /\ downloading = [s \in Stores |-> {}]

(* Mutant of Request: only a picture keeps it from starting a task.          *)
RequestUnlessReady(c) ==
  /\ inner[store][c] # "Ready"
  /\ inner' = [inner EXCEPT ![store][c] = "Loading"]
  /\ waiting' = [waiting EXCEPT ![store] = Append(@, c)]
  /\ UNCHANGED <<store, downloading>>

(* A tile is drawn: request.  What failed is fetched again.                  *)
Request(c) ==
  /\ inner[store][c] \in {"none", "Failed"}
  /\ inner' = [inner EXCEPT ![store][c] = "Loading"]
  /\ waiting' = [waiting EXCEPT ![store] = Append(@, c)]
  /\ UNCHANGED <<store, downloading>>

(* Mutant of Acquire: the last who came is served first.                     *)
AcquireNewest(s) ==
  /\ waiting[s] # <<>> /\ Cardinality(downloading[s]) < Permits
  /\ waiting' = [waiting EXCEPT ![s] = SubSeq(@, 1, Len(@) - 1)]
  /\ downloading' = [downloading EXCEPT ![s] = @ \cup {waiting[s][Len(waiting[s])]}]
  /\ UNCHANGED <<store, inner>>

(* The semaphore serves in the order of arrival.                             *)
Acquire(s) ==
  /\ waiting[s] # <<>> /\ Cardinality(downloading[s]) < Permits
  /\ waiting' = [waiting EXCEPT ![s] = Tail(@)]
  /\ downloading' = [downloading EXCEPT ![s] = @ \cup {Head(waiting[s])}]
  /\ UNCHANGED <<store, inner>>

(* fetch_and_decode returns; the permit goes back at the end of the task.    *)
Downloaded(s, c) ==
  /\ c \in downloading[s]
  /\ \E outcome \in {"Ready", "Failed"} : inner' = [inner EXCEPT ![s][c] = outcome]
  /\ downloading' = [downloading EXCEPT ![s] = @ \ {c}]
  /\ UNCHANGED <<store, waiting>>

(* Error, back to the login, another load of the catalog.                    *)
NewStore ==
  /\ store < MaxStores
  /\ store' = store + 1
  /\ UNCHANGED <<inner, waiting, downloading>>

Next ==
  \/ \E c \in Covers : Request(c)
  \/ \E s \in Stores : Acquire(s) \/ \E c \in Covers : Downloaded(s, c)
  \/ NewStore

(* Tasks run while the UI loop sleeps, and a download ends within the        *)
(* timeout of the HTTP client.                                               *)
Fairness ==
  \A s \in Stores : WF_vars(Acquire(s)) /\ \A c \in Covers : WF_vars(Downloaded(s, c))

Spec == Init /\ [][Next]_vars
FairSpec == Spec /\ Fairness

-----------------------------------------------------------------------------
(* Properties                                                                *)

Tasks(s, c) ==
  Cardinality({i \in DOMAIN waiting[s] : waiting[s][i] = c})
    + (IF c \in downloading[s] THEN 1 ELSE 0)

(* A cover is Loading exactly while one task is under way for it: the sixty  *)
(* requests a second for a visible tile start one download, and no tile      *)
(* waits for a task that is gone.  No store downloads more than Permits at   *)
(* once.                                                                     *)
LoadingHasOneTask ==
  \A s \in Stores :
    /\ Cardinality(downloading[s]) <= Permits
    /\ \A c \in Covers : Tasks(s, c) = IF inner[s][c] = "Loading" THEN 1 ELSE 0

(* Every cover asked for becomes Ready or Failed, also in a store that was   *)
(* left, and however many others fail and are asked for again meanwhile.     *)
CoverSettles ==
  \A s \in Stores, c \in Covers : inner[s][c] = "Loading" ~> inner[s][c] # "Loading"
=============================================================================
