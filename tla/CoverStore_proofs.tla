---------------------------- MODULE CoverStore_proofs ----------------------------
(***************************************************************************)
(* A cover is Loading exactly while one task is under way for it, for any  *)
(* set of covers, any number of stores and any number of permits.          *)
(***************************************************************************)
EXTENDS CoverStore, FiniteSetTheorems, SequenceTheorems, TLAPS

USE CoverBounds

(* The covers that wait in a store; none of them does so twice, or is being  *)
(* downloaded as well.                                                       *)
Waiting(s)  == {waiting[s][i] : i \in DOMAIN waiting[s]}
Distinct(q) == \A i, j \in DOMAIN q : q[i] = q[j] => i = j

StoreInv(s) ==
  /\ Distinct(waiting[s])
  /\ Waiting(s) \cap downloading[s] = {}
  /\ \A c \in Covers : inner[s][c] = "Loading" <=> c \in Waiting(s) \cup downloading[s]
  /\ Cardinality(downloading[s]) <= Permits

CInv == TypeOK /\ \A s \in Stores : StoreInv(s)

(* A queue with one more, which was not in it.                               *)
LEMMA AppendDistinct ==
  ASSUME NEW q \in Seq(Covers), NEW c \in Covers, Distinct(q),
         c \notin {q[i] : i \in DOMAIN q}
  PROVE  LET r == Append(q, c)
         IN /\ r \in Seq(Covers) /\ Distinct(r)
            /\ {r[i] : i \in DOMAIN r} = {q[i] : i \in DOMAIN q} \cup {c}
<1> DEFINE r == Append(q, c)
<1>1. /\ r \in Seq(Covers) /\ Len(q) \in Nat
      /\ DOMAIN q = 1 .. Len(q) /\ DOMAIN r = 1 .. Len(q) + 1
      /\ \A i \in 1 .. Len(q) : r[i] = q[i]
      /\ r[Len(q) + 1] = c
  BY AppendProperties, LenProperties
<1>2. /\ \A i \in 1 .. Len(q) + 1 : i \in 1 .. Len(q) \/ i = Len(q) + 1
      /\ \A i \in 1 .. Len(q) : i \in 1 .. Len(q) + 1
      /\ Len(q) + 1 \in 1 .. Len(q) + 1
  BY <1>1
<1>3. Distinct(r)
  BY <1>1, <1>2 DEF Distinct
<1>4. {r[i] : i \in DOMAIN r} = {q[i] : i \in DOMAIN q} \cup {c}
  BY <1>1, <1>2
<1> QED
  BY <1>1, <1>3, <1>4

(* A queue without its first has the others, once each.                      *)
LEMMA TailDistinct ==
  ASSUME NEW q \in Seq(Covers), q # << >>, Distinct(q)
  PROVE  /\ Head(q) \in Covers /\ Tail(q) \in Seq(Covers) /\ Distinct(Tail(q))
         /\ Head(q) \in {q[i] : i \in DOMAIN q}
         /\ {Tail(q)[i] : i \in DOMAIN Tail(q)} = {q[i] : i \in DOMAIN q} \ {Head(q)}
<1> DEFINE r == Tail(q)
<1>1. /\ Head(q) \in Covers /\ Head(q) = q[1] /\ r \in Seq(Covers)
      /\ Len(q) \in Nat /\ Len(q) # 0
      /\ DOMAIN q = 1 .. Len(q) /\ DOMAIN r = 1 .. Len(q) - 1
      /\ \A i \in 1 .. Len(q) - 1 : r[i] = q[i + 1]
  BY HeadTailProperties, LenProperties, EmptySeq
<1>2. /\ 1 \in 1 .. Len(q)
      /\ \A i \in 1 .. Len(q) - 1 : i + 1 \in 1 .. Len(q) /\ i + 1 # 1
      /\ \A i \in 1 .. Len(q) : i # 1 => i - 1 \in 1 .. Len(q) - 1 /\ (i - 1) + 1 = i
      /\ \A i, j \in 1 .. Len(q) - 1 : i + 1 = j + 1 => i = j
  BY <1>1
<1> HIDE DEF r
<1> /\ DOMAIN r = 1 .. Len(q) - 1
    /\ \A i \in 1 .. Len(q) - 1 : r[i] = q[i + 1]
  BY <1>1 DEF r
<1>3. Distinct(r)
  <2> SUFFICES ASSUME NEW i \in 1 .. Len(q) - 1, NEW j \in 1 .. Len(q) - 1, r[i] = r[j]
               PROVE  i = j
    BY DEF Distinct
  <2>1. i + 1 \in 1 .. Len(q) /\ j + 1 \in 1 .. Len(q) /\ q[i + 1] = q[j + 1]
    BY <1>2
  <2>2. i + 1 = j + 1
    BY <1>1, <2>1 DEF Distinct
  <2> QED
    BY <1>2, <2>2
<1>4. ASSUME NEW i \in DOMAIN r PROVE r[i] \in {q[j] : j \in DOMAIN q} \ {Head(q)}
  <2>1. i + 1 \in 1 .. Len(q) /\ i + 1 # 1 /\ r[i] = q[i + 1]
    BY <1>2
  <2>2. q[i + 1] # q[1]
    BY <1>1, <1>2, <2>1 DEF Distinct
  <2> QED
    BY <1>1, <2>1, <2>2
<1>5. ASSUME NEW x \in {q[j] : j \in DOMAIN q} \ {Head(q)} PROVE x \in {r[i] : i \in DOMAIN r}
  <2>1. PICK j \in 1 .. Len(q) : x = q[j] /\ j # 1
    BY <1>1
  <2>2. j - 1 \in DOMAIN r /\ r[j - 1] = x
    BY <1>1, <1>2, <2>1
  <2> QED
    BY <2>2
<1> QED
  BY <1>1, <1>2, <1>3, <1>4, <1>5 DEF r

(* Before anything was asked for.                                            *)
LEMMA InitCovers == Init => CInv
<1> SUFFICES ASSUME Init PROVE CInv
  OBVIOUS
<1>1. TypeOK
  BY DEF Init, TypeOK, Stores, CoverState
<1>2. ASSUME NEW s \in Stores PROVE StoreInv(s)
  <2>1. Cardinality({}) = 0
    BY FS_EmptySet
  <2>2. waiting[s] = << >> /\ downloading[s] = {} /\ \A c \in Covers : inner[s][c] = "none"
    BY <1>2 DEF Init
  <2> QED
    BY <2>1, <2>2 DEF StoreInv, Waiting, Distinct
<1> QED
  BY <1>1, <1>2 DEF CInv

(* A request starts a task for a cover that has none.                        *)
LEMMA RequestCovers == ASSUME CInv, NEW c \in Covers, Request(c) PROVE CInv'
<1>1. /\ inner[store][c] \in {"none", "Failed"}
      /\ inner' = [inner EXCEPT ![store][c] = "Loading"]
      /\ waiting' = [waiting EXCEPT ![store] = Append(@, c)]
      /\ store' = store /\ downloading' = downloading
  BY DEF Request
<1>2. /\ store \in Stores /\ StoreInv(store)
      /\ waiting \in [Stores -> Seq(Covers)] /\ waiting[store] \in Seq(Covers)
      /\ inner \in [Stores -> [Covers -> CoverState]]
      /\ downloading \in [Stores -> SUBSET Covers]
  BY DEF CInv, TypeOK
<1> DEFINE q == waiting[store]
           r == Append(q, c)
<1>3. c \notin Waiting(store) /\ c \notin downloading[store]
  BY <1>1, <1>2 DEF StoreInv
<1>4. /\ r \in Seq(Covers) /\ Distinct(r)
      /\ {r[i] : i \in DOMAIN r} = Waiting(store) \cup {c}
  BY <1>2, <1>3, AppendDistinct DEF StoreInv, Waiting
<1>5. /\ waiting'[store] = r /\ inner'[store][c] = "Loading"
      /\ \A d \in Covers \ {c} : inner'[store][d] = inner[store][d]
      /\ \A s \in Stores \ {store} : waiting'[s] = waiting[s] /\ inner'[s] = inner[s]
  BY <1>1, <1>2
<1>6. TypeOK'
  BY <1>1, <1>2, <1>4 DEF TypeOK, CoverState, CInv
<1>7. StoreInv(store)'
  <2>0. waiting[store]' = r
    BY <1>1, <1>5
  <2>1. Waiting(store)' = Waiting(store) \cup {c} /\ Distinct(waiting[store])'
    <3> HIDE DEF r
    <3>1. {waiting[store][i] : i \in DOMAIN waiting[store]}' = Waiting(store) \cup {c}
      BY <2>0, <1>4
    <3>2. Distinct(waiting[store])'
      BY <2>0, <1>4 DEF Distinct
    <3> QED
      BY <3>1, <3>2 DEF Waiting
  <2>2. downloading[store]' = downloading[store] /\ inner[store]' = inner'[store]
    BY <1>1
  <2> HIDE DEF r, q
  <2>3. (Waiting(store) \cap downloading[store] = {})'
    BY <1>2, <1>3, <2>1, <2>2 DEF StoreInv
  <2>4. (\A d \in Covers : inner[store][d] = "Loading"
                            <=> d \in Waiting(store) \cup downloading[store])'
    BY <1>2, <1>5, <2>1, <2>2 DEF StoreInv
  <2>5. (Cardinality(downloading[store]) <= Permits)'
    BY <1>2, <2>2 DEF StoreInv
  <2> QED
    BY <2>1, <2>3, <2>4, <2>5 DEF StoreInv
<1>8. ASSUME NEW s \in Stores \ {store} PROVE StoreInv(s)'
  BY <1>1, <1>5, <1>8 DEF CInv, StoreInv, Waiting
<1> QED
  BY <1>1, <1>6, <1>7, <1>8 DEF CInv

(* A permit goes to the first of the queue.                                  *)
LEMMA AcquireCovers == ASSUME CInv, NEW s \in Stores, Acquire(s) PROVE CInv'
<1> DEFINE q == waiting[s]
           h == Head(q)
<1>1. /\ q # << >> /\ Cardinality(downloading[s]) < Permits
      /\ waiting' = [waiting EXCEPT ![s] = Tail(@)]
      /\ downloading' = [downloading EXCEPT ![s] = @ \cup {h}]
      /\ store' = store /\ inner' = inner
  BY DEF Acquire
<1>2. /\ StoreInv(s) /\ q \in Seq(Covers) /\ waiting \in [Stores -> Seq(Covers)]
      /\ downloading \in [Stores -> SUBSET Covers] /\ downloading[s] \in SUBSET Covers
  BY DEF CInv, TypeOK
<1>3. /\ h \in Covers /\ Tail(q) \in Seq(Covers) /\ Distinct(Tail(q)) /\ h \in Waiting(s)
      /\ {Tail(q)[i] : i \in DOMAIN Tail(q)} = Waiting(s) \ {h}
  BY <1>1, <1>2, TailDistinct DEF StoreInv, Waiting
<1>4. Cardinality(downloading[s] \cup {h}) <= Permits
  <2>1. IsFiniteSet(downloading[s])
    BY <1>2, FS_Subset
  <2>2. Cardinality(downloading[s]) \in Nat
    BY <2>1, FS_CardinalityType
  <2>3. Cardinality(downloading[s] \cup {h}) \in
          {Cardinality(downloading[s]), Cardinality(downloading[s]) + 1}
    BY <2>1, FS_AddElement
  <2> HIDE DEF h
  <2> QED
    BY <1>1, <2>2, <2>3
<1>5. /\ waiting'[s] = Tail(q) /\ downloading'[s] = downloading[s] \cup {h}
      /\ \A t \in Stores \ {s} : waiting'[t] = waiting[t] /\ downloading'[t] = downloading[t]
  BY <1>1, <1>2
<1>6. TypeOK'
  BY <1>1, <1>2, <1>3 DEF TypeOK, CInv
<1>7. StoreInv(s)'
  <2>1. waiting[s]' = Tail(q)
    BY <1>5
  <2>2. Waiting(s)' = Waiting(s) \ {h} /\ Distinct(waiting[s])'
    BY <1>3, <2>1 DEF Waiting, Distinct
  <2> HIDE DEF h, q
  <2>3. downloading[s]' = downloading[s] \cup {h} /\ inner[s]' = inner[s]
    BY <1>1, <1>5
  <2>4. (Waiting(s) \cap downloading[s] = {})'
    BY <1>2, <2>2, <2>3 DEF StoreInv
  <2>5. (\A c \in Covers : inner[s][c] = "Loading" <=> c \in Waiting(s) \cup downloading[s])'
    BY <1>2, <1>3, <2>2, <2>3 DEF StoreInv
  <2> QED
    BY <1>4, <2>2, <2>3, <2>4, <2>5 DEF StoreInv
<1>8. ASSUME NEW t \in Stores \ {s} PROVE StoreInv(t)'
  BY <1>1, <1>5, <1>8 DEF CInv, StoreInv, Waiting
<1> QED
  BY <1>1, <1>6, <1>7, <1>8 DEF CInv, Stores

(* A task that ends takes its cover out of Loading.                          *)
LEMMA DownloadedCovers ==
  ASSUME CInv, NEW s \in Stores, NEW c \in Covers, Downloaded(s, c) PROVE CInv'
<1>1. PICK outcome \in {"Ready", "Failed"} : inner' = [inner EXCEPT ![s][c] = outcome]
  BY DEF Downloaded
<1>2. /\ c \in downloading[s] /\ downloading' = [downloading EXCEPT ![s] = @ \ {c}]
      /\ store' = store /\ waiting' = waiting
  BY DEF Downloaded
<1>3. /\ StoreInv(s) /\ inner \in [Stores -> [Covers -> CoverState]]
      /\ downloading \in [Stores -> SUBSET Covers] /\ downloading[s] \in SUBSET Covers
  BY DEF CInv, TypeOK
<1>4. Cardinality(downloading[s] \ {c}) <= Permits
  <2>1. IsFiniteSet(downloading[s])
    BY <1>3, FS_Subset
  <2>2. Cardinality(downloading[s]) \in Nat /\ Cardinality(downloading[s]) <= Permits
    BY <1>3, <2>1, FS_CardinalityType DEF StoreInv
  <2>3. Cardinality(downloading[s] \ {c}) = Cardinality(downloading[s]) - 1
    BY <1>2, <2>1, FS_RemoveElement
  <2> QED
    BY <2>2, <2>3
<1>5. /\ downloading'[s] = downloading[s] \ {c} /\ inner'[s][c] = outcome
      /\ \A d \in Covers \ {c} : inner'[s][d] = inner[s][d]
      /\ \A t \in Stores \ {s} : inner'[t] = inner[t] /\ downloading'[t] = downloading[t]
  BY <1>1, <1>2, <1>3
<1>6. TypeOK'
  BY <1>1, <1>2, <1>3 DEF TypeOK, CoverState, CInv
<1>7. StoreInv(s)'
  BY <1>1, <1>2, <1>3, <1>4, <1>5 DEF StoreInv, Waiting
<1>8. ASSUME NEW t \in Stores \ {s} PROVE StoreInv(t)'
  BY <1>2, <1>5, <1>8 DEF CInv, StoreInv, Waiting
<1> QED
  BY <1>2, <1>6, <1>7, <1>8 DEF CInv, Stores

(* Every step keeps the invariant; a new store has been empty so far.        *)
LEMMA StepCovers == CInv /\ [Next]_vars => CInv'
<1> SUFFICES ASSUME CInv, [Next]_vars PROVE CInv'
  OBVIOUS
<1>1. CASE NewStore
  BY <1>1 DEF NewStore, CInv, TypeOK, StoreInv, Waiting, Stores
<1>2. CASE UNCHANGED vars
  BY <1>2 DEF vars, CInv, TypeOK, StoreInv, Waiting
<1> QED
  BY <1>1, <1>2, RequestCovers, AcquireCovers, DownloadedCovers DEF Next

(* So it holds in every state.                                               *)
LEMMA CoverInvariant == Spec => []CInv
BY InitCovers, StepCovers, PTL DEF Spec

(* TypeOK, for any set of covers.                                            *)
THEOREM CoverTypeCorrect == Spec => []TypeOK
<1>1. CInv => TypeOK
  BY DEF CInv
<1> QED
  BY CoverInvariant, <1>1, PTL

(* The tasks of a cover, counted.                                            *)
LEMMA TaskCount ==
  ASSUME CInv, NEW s \in Stores, NEW c \in Covers
  PROVE  Tasks(s, c) = IF inner[s][c] = "Loading" THEN 1 ELSE 0
<1> DEFINE places == {i \in DOMAIN waiting[s] : waiting[s][i] = c}
<1>1. StoreInv(s)
  BY DEF CInv
<1>2. CASE c \in Waiting(s)
  <2>1. PICK i \in DOMAIN waiting[s] : waiting[s][i] = c
    BY <1>2 DEF Waiting
  <2>2. places = {i}
    BY <1>1, <2>1 DEF StoreInv, Distinct
  <2>3. Cardinality(places) = 1
    BY <2>2, FS_Singleton
  <2>4. c \notin downloading[s] /\ inner[s][c] = "Loading"
    BY <1>1, <1>2 DEF StoreInv
  <2> QED
    BY <2>3, <2>4 DEF Tasks
<1>3. CASE c \notin Waiting(s)
  <2>1. places = {}
    BY <1>3 DEF Waiting
  <2>2. Cardinality(places) = 0
    BY <2>1, FS_EmptySet
  <2>3. c \in downloading[s] <=> inner[s][c] = "Loading"
    BY <1>1, <1>3 DEF StoreInv
  <2> QED
    BY <2>2, <2>3 DEF Tasks
<1> QED
  BY <1>2, <1>3

(* LoadingHasOneTask, for any set of covers, any number of stores and any    *)
(* number of permits.                                                        *)
THEOREM OneTaskPerCover == Spec => []LoadingHasOneTask
<1>1. CInv => LoadingHasOneTask
  BY TaskCount DEF LoadingHasOneTask, CInv, StoreInv
<1> QED
  BY CoverInvariant, <1>1, PTL
=============================================================================
