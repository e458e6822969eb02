--------------------------- MODULE StreamLink_proofs ---------------------------
(***************************************************************************)
(* The types of StreamLink; that its steps are steps of SessionLifecycle;  *)
(* that candidates, the answer and Close reach their readers in order; and *)
(* that neither a loss nor the answer is lost on its way.  For any number  *)
(* of offers, candidates and bad packets and any length of a tick's batch. *)
(***************************************************************************)
EXTENDS MCStreamLink, SequenceTheorems, WellFoundedInduction, TLAPS

USE LinkAssumption

(* The stop of the session has been sent exactly when App has left it.       *)
Screened ==
  /\ screen \in LinkScreens \cup Ended \cup {"SessionReady"}
  /\ confirm_exit \in {TRUE, FALSE}
  /\ stop \in {"none", "sent", "arrived"}
  /\ stop = "none" <=> screen \notin Ended

-----------------------------------------------------------------------------
(* What App's screens and the stop may do in one step.                       *)
Same      == UNCHANGED <<screen, confirm_exit, stop>>
Connects  == screen = "SessionReady" /\ screen' = "Signaling" /\ UNCHANGED <<confirm_exit, stop>>
Toggles   == screen \in LinkScreens \cup {"SessionReady"} /\ confirm_exit' = ~confirm_exit
             /\ UNCHANGED <<screen, stop>>
Cancels   == confirm_exit /\ confirm_exit' = FALSE /\ UNCHANGED <<screen, stop>>
Exits     == /\ confirm_exit /\ confirm_exit' = FALSE
             /\ screen \in LinkScreens \cup {"SessionReady"}
             /\ screen' = "GameDetail" /\ stop' = "sent"
Offered   == screen = "Signaling" /\ screen' = "Streaming" /\ UNCHANGED <<confirm_exit, stop>>
Loses     == screen \in LinkScreens /\ screen' = "Error" /\ stop' = "sent"
             /\ UNCHANGED confirm_exit
Arrives   == stop = "sent" /\ stop' = "arrived" /\ UNCHANGED <<screen, confirm_exit>>

(* Every step is one of these for the screens.                               *)
LEMMA ScreenSteps ==
  ASSUME [Next]_vars
  PROVE  Same \/ Connects \/ Toggles \/ Cancels \/ Exits \/ Offered \/ Loses \/ Arrives
<1>1. CASE User
  <2>1. CASE ConfirmExitSession
    BY <2>1 DEF ConfirmExitSession, SendStop, Cancels, Exits, LinkScreens
  <2> QED
    BY <1>1, <2>1 DEF User, Connect, ToggleConfirmExit, CancelConfirmExit, Connects, Toggles, Cancels
<1>2. CASE TickSignaling
  BY <1>2 DEF TickSignaling, SendStop, Same, Offered, Loses, LinkScreens
<1>3. CASE TickStreaming
  BY <1>3 DEF TickStreaming, SendStop, Same, Loses, LinkScreens
<1>4. CASE SocketTask
  BY <1>4 DEF SocketTask, Connected, ConnectFailed, TakeCommand, Receive, ReceiveEnd,
              ReceiveTransportError, appVars, Same
<1>5. CASE PeerThread
  BY <1>5 DEF PeerThread, PeerReady, PeerLost, PeerRuntimeFails, PeerCommands, appVars, Same
<1>6. CASE StopArrives
  BY <1>6 DEF StopArrives, appVars, Arrives
<1>7. CASE UNCHANGED vars
  BY <1>7 DEF vars, appVars, Same
<1> QED
  BY <1>1, <1>2, <1>3, <1>4, <1>5, <1>6, <1>7 DEF Next, Tick

(* Initially nothing has been stopped.                                       *)
LEMMA InitScreened == Init => Screened
BY DEF Init, Screened, LinkScreens, Ended

(* Every step that leaves a session sends the stop, and no other does.       *)
LEMMA StepScreened == Screened /\ [Next]_vars => Screened'
<1> SUFFICES ASSUME Screened, [Next]_vars PROVE Screened'
  OBVIOUS
<1> QED
  BY ScreenSteps
  DEF Screened, Same, Connects, Toggles, Cancels, Exits, Offered, Loses, Arrives, LinkScreens, Ended

(* So it holds in every state.                                               *)
LEMMA AlwaysScreened == Spec => []Screened
BY InitScreened, StepScreened, PTL DEF Spec

-----------------------------------------------------------------------------
(* Each of them is a step of SessionLifecycle under the mapping.             *)
LEMMA LifecycleSteps ==
  ASSUME Screened, [Next]_vars
  PROVE  [Lifecycle!Next]_(Lifecycle!vars)
<1> USE DEF Screened, LinkScreens, Ended
<1>1. CASE Same
  BY <1>1 DEF Same, Lifecycle!vars, Lifecycle!appVars, Lifecycle!cmVars,
    Lifecycle!serverVars, Lifecycle!launchVars
<1>2. CASE Connects
  <2>1. Lifecycle!ConnectSignaling
    BY <1>2 DEF Connects, Lifecycle!ConnectSignaling, Lifecycle!cmVars,
      Lifecycle!serverVars, Lifecycle!launchVars
  <2> QED
    BY <2>1 DEF Lifecycle!Next, Lifecycle!User
<1>3. CASE Toggles
  <2>1. Lifecycle!ToggleConfirmExit
    BY <1>3 DEF Toggles, Lifecycle!ToggleConfirmExit, Lifecycle!SessionScreens,
      Lifecycle!HoldingScreens, Lifecycle!cmVars, Lifecycle!serverVars, Lifecycle!launchVars
  <2> QED
    BY <2>1 DEF Lifecycle!Next, Lifecycle!User
<1>4. CASE Cancels
  <2>1. Lifecycle!CancelConfirmExit
    BY <1>4 DEF Cancels, Lifecycle!CancelConfirmExit, Lifecycle!cmVars,
      Lifecycle!serverVars, Lifecycle!launchVars
  <2> QED
    BY <2>1 DEF Lifecycle!Next, Lifecycle!User
<1>5. CASE Exits
  <2>1. Lifecycle!StopAndLeaveTo("GameDetail")
    BY <1>5 DEF Exits, Lifecycle!StopAndLeaveTo, Lifecycle!SpawnStop,
      Lifecycle!serverVars, Lifecycle!launchVars
  <2>2. Lifecycle!ConfirmExitSession
    BY <1>5, <2>1 DEF Exits, Lifecycle!ConfirmExitSession, Lifecycle!HoldingScreens
  <2> QED
    BY <2>2 DEF Lifecycle!Next, Lifecycle!User
<1>6. CASE Offered
  <2>1. Lifecycle!TickOffer
    BY <1>6 DEF Offered, Lifecycle!TickOffer, Lifecycle!cmVars,
      Lifecycle!serverVars, Lifecycle!launchVars
  <2> QED
    BY <2>1 DEF Lifecycle!Next, Lifecycle!Tick
<1>7. CASE Loses
  <2>1. Lifecycle!StopAndLeaveTo("Error")
    BY <1>7 DEF Loses, Lifecycle!StopAndLeaveTo, Lifecycle!SpawnStop,
      Lifecycle!serverVars, Lifecycle!launchVars
  <2>2. Lifecycle!TickSignalingLost \/ Lifecycle!TickStreamLost
    BY <1>7, <2>1 DEF Loses, Lifecycle!TickSignalingLost, Lifecycle!TickStreamLost
  <2> QED
    BY <2>2 DEF Lifecycle!Next, Lifecycle!Tick
<1>8. CASE Arrives
  <2>1. Lifecycle!StopArrives("session") /\ UNCHANGED Lifecycle!appVars
    BY <1>8 DEF Arrives, Lifecycle!StopArrives, Lifecycle!launchVars, Lifecycle!appVars
  <2> QED
    BY <2>1 DEF Lifecycle!Next, Lifecycle!Background, Lifecycle!StopStep
<1> QED
  BY <1>1, <1>2, <1>3, <1>4, <1>5, <1>6, <1>7, <1>8, ScreenSteps

(* StepsOfLifecycle: the socket, the peer thread and their queues are        *)
(* invisible to the screens but for offers and losses.                       *)
THEOREM LinkRefinesLifecycle == Spec => StepsOfLifecycle
BY AlwaysScreened, LifecycleSteps, PTL DEF Spec, StepsOfLifecycle

-----------------------------------------------------------------------------
(* TypeOK but for the screens, whose types are in Screened.                  *)
Queues ==
  /\ socket \in {"none", "connecting", "open", "ended", "failed"}
  /\ events \in Seq(Events)
  /\ offers \in 0 .. MaxOffers /\ ices \in 0 .. MaxIce /\ noises \in 0 .. MaxNoise
  /\ peer \in {"none", "setup", "running", "ended", "failed"}
  /\ peerEvents \in Seq({"Answer", "LocalIce", "Error", "Disconnected"})
  /\ iceBase \in 0 .. MaxIce

(* A queue with one more event of the signaling task.                        *)
LEMMA EmitTyped ==
  ASSUME Queues, NEW kind \in {"Connected", "Offer", "RemoteIce", "Error", "Disconnected"},
         NEW n \in 0 .. MaxIce, Emit(Event(kind, n))
  PROVE  events' \in Seq(Events)
<1>1. Event(kind, n) \in Events
  BY DEF Event, Events
<1> QED
  BY <1>1, AppendProperties DEF Queues, Emit

(* A part of the queue that starts in it and ends at its end, or before.     *)
LEMMA PartTyped ==
  ASSUME NEW es \in Seq(Events), NEW m \in Nat \ {0}, NEW n \in Nat, n <= Len(es)
  PROVE  SubSeq(es, m, n) \in Seq(Events) /\ (m = 1 => Len(SubSeq(es, m, n)) = n)
<1>1. Len(es) \in Nat /\ \A i \in 1 .. Len(es) : es[i] \in Events
  BY LenProperties, ElementOfSeq
<1>2. \A i \in m .. n : es[i] \in Events
  BY <1>1
<1> QED
  BY <1>2, SubSeqProperties

(* What a tick on Signaling leaves queued, and the candidates it counted.    *)
LEMMA SignalingTyped ==
  ASSUME Queues, TickSignaling
  PROVE  events' \in Seq(Events) /\ iceBase' \in 0 .. MaxIce
<1> DEFINE most  == Min({Len(events), MaxEventsPerTick})
           batch == SubSeq(events, 1, most)
<1>1. Len(events) \in Nat /\ events \in Seq(Events)
  BY LenProperties DEF Queues
<1>2. most \in Nat /\ most <= Len(events)
  <2>1. \E x \in {Len(events), MaxEventsPerTick} : \A y \in {Len(events), MaxEventsPerTick} : x <= y
    BY <1>1
  <2> QED
    BY <1>1, <2>1 DEF Min
<1> HIDE DEF most
<1>3. batch \in Seq(Events) /\ Len(batch) = most
  BY <1>1, <1>2, PartTyped
<1>4. ASSUME NEW i \in DOMAIN batch
      PROVE  batch[i].n \in 0 .. MaxIce /\ Unread(i, batch) \in Seq(Events)
  <2>1. i \in 1 .. most
    BY <1>2, <1>3, <1>4, LenProperties
  <2>2. batch[i] \in Events /\ i + 1 \in Nat \ {0}
    BY <1>3, <2>1, <1>2, ElementOfSeq
  <2>3. SubSeq(events, i + 1, Len(events)) \in Seq(Events)
    BY <1>1, <2>2, PartTyped
  <2> QED
    BY <2>2, <2>3 DEF Events, Unread
<1>5. SubSeq(events, Len(batch) + 1, Len(events)) \in Seq(Events)
  <2>1. Len(batch) + 1 \in Nat \ {0}
    BY <1>2, <1>3
  <2> HIDE DEF batch
  <2>2. Len(events) <= Len(events)
    BY <1>1
  <2> QED
    BY <1>1, <2>1, <2>2, PartTyped
<1> HIDE DEF batch
<1>6. \/ \E i \in DOMAIN batch : events' = Unread(i, batch) /\ iceBase' = batch[i].n
      \/ events' = SubSeq(events, Len(batch) + 1, Len(events)) /\ iceBase' = iceBase
      \/ events' = events /\ iceBase' = iceBase
  BY DEF TickSignaling, batch, most
<1> QED
  BY <1>4, <1>5, <1>6 DEF Queues

(* Every step keeps the types.                                               *)
LEMMA StepQueues == Queues /\ [Next]_vars => Queues'
<1> SUFFICES ASSUME Queues, [Next]_vars PROVE Queues'
  OBVIOUS
<1>1. CASE User
  BY <1>1 DEF User, Connect, ToggleConfirmExit, ConfirmExitSession, CancelConfirmExit,
              sockVars, peerVars, Queues
<1>2. CASE TickSignaling
  <2>1. events' \in Seq(Events) /\ iceBase' \in 0 .. MaxIce
    BY <1>2, SignalingTyped
  <2>2. /\ peer' \in {peer, "setup"}
        /\ UNCHANGED <<socket, offers, ices, noises, peerEvents>>
    BY <1>2 DEF TickSignaling
  <2> QED
    BY <2>1, <2>2 DEF Queues
<1>3. CASE TickStreaming
  <2>1. /\ events' = << >> /\ peerEvents' = << >>
        /\ UNCHANGED <<socket, offers, ices, noises, peer, iceBase>>
    BY <1>3 DEF TickStreaming
  <2> QED
    BY <2>1 DEF Queues
<1>4. CASE Connected \/ ConnectFailed \/ ReceiveEnd \/ ReceiveTransportError
  <2>1. \E kind \in {"Connected", "Error", "Disconnected"} : Emit(Event(kind, 0))
    BY <1>4 DEF Connected, ConnectFailed, ReceiveEnd, ReceiveTransportError
  <2>2. events' \in Seq(Events)
    BY <2>1, EmitTyped
  <2>3. /\ socket' \in {"open", "ended", "failed"}
        /\ UNCHANGED <<offers, ices, noises, peer, peerEvents, iceBase>>
    BY <1>4 DEF Connected, ConnectFailed, ReceiveEnd, ReceiveTransportError, peerVars
  <2> QED
    BY <2>2, <2>3 DEF Queues
<1>5. CASE Receive
  <2>1. \/ Emit(Event("Offer", ices)) \/ Emit(Event("Error", 0))
        \/ ices < MaxIce /\ Emit(Event("RemoteIce", ices + 1))
    BY <1>5 DEF Receive
  <2>2. ices < MaxIce => ices + 1 \in 0 .. MaxIce
    BY DEF Queues
  <2>3. events' \in Seq(Events)
    BY <2>1, <2>2, EmitTyped DEF Queues
  <2>4. offers' \in 0 .. MaxOffers /\ ices' \in 0 .. MaxIce /\ noises' \in 0 .. MaxNoise
    BY <1>5 DEF Receive, Queues
  <2>5. UNCHANGED <<socket, peer, peerEvents, iceBase>>
    BY <1>5 DEF Receive, peerVars
  <2> QED
    BY <2>3, <2>4, <2>5 DEF Queues
<1>6. CASE TakeCommand
  BY <1>6 DEF TakeCommand, peerVars, Queues
<1>7. CASE PeerReady \/ PeerLost \/ PeerRuntimeFails
  <2> DEFINE E == {"Answer", "LocalIce", "Error", "Disconnected"}
  <2>1. \E es \in Seq(E) : peerEvents' = peerEvents \o es
    <3>1. <<"Answer", "LocalIce">> \in Seq(E) /\ <<"Disconnected">> \in Seq(E) /\ <<"Error">> \in Seq(E)
      OBVIOUS
    <3> QED
      BY <1>7, <3>1 DEF PeerReady, PeerLost, PeerRuntimeFails, PeerEmit
  <2>2. peerEvents' \in Seq(E)
    BY <2>1, ConcatProperties DEF Queues
  <2>3. /\ peer' \in {"running", "ended", "failed"}
        /\ UNCHANGED <<socket, events, offers, ices, noises, iceBase>>
    BY <1>7 DEF PeerReady, PeerLost, PeerRuntimeFails, sockVars
  <2> QED
    BY <2>2, <2>3 DEF Queues
<1>8. CASE PeerCommands
  <2>1. /\ peer' \in {peer, "ended"}
        /\ UNCHANGED <<socket, events, offers, ices, noises, peerEvents, iceBase>>
    BY <1>8 DEF PeerCommands, sockVars
  <2> QED
    BY <2>1 DEF Queues
<1>9. CASE StopArrives \/ UNCHANGED vars
  BY <1>9 DEF StopArrives, vars, sockVars, peerVars, Queues
<1> QED
  BY <1>1, <1>2, <1>3, <1>4, <1>5, <1>6, <1>7, <1>8, <1>9 DEF Next, Tick, SocketTask, PeerThread

(* The type invariant.                                                       *)
THEOREM LinkTypeCorrect == Spec => []TypeOK
<1>1. Init => Queues
  BY DEF Init, Queues
<1>2. Screened /\ Queues => TypeOK
  BY DEF Screened, Queues, TypeOK
<1> QED
  BY <1>1, <1>2, AlwaysScreened, StepQueues, PTL DEF Spec

-----------------------------------------------------------------------------
(* The filters of the two drain loops.                                       *)

(* Induction over the natural numbers, for a set of them.                    *)
LEMMA NatSetInduction ==
  ASSUME NEW S \in SUBSET Nat, 0 \in S, \A n \in S : n + 1 \in S
  PROVE  S = Nat
<1> DEFINE T == Nat \ S
<1> SUFFICES ASSUME T # {} PROVE FALSE
  OBVIOUS
<1>1. PICK x \in T : \A y \in T : <<y, x>> \notin OpToRel(<, Nat)
  BY NatLessThanWellFounded, WFMin
<1>2. x - 1 \in Nat /\ x - 1 < x
  OBVIOUS
<1>3. x - 1 \notin T
  BY <1>1, <1>2 DEF OpToRel
<1>4. (x - 1) + 1 \in S
  BY <1>2, <1>3
<1> QED
  BY <1>4

(* The function that Selected defines, up to position m, and its values.     *)
Kept(s, kept, m, f) ==
  f = [i \in 0 .. m |-> IF i = 0 THEN << >>
                        ELSE IF s[i] \in kept THEN Append(f[i - 1], s[i]) ELSE f[i - 1]]
Filters(s, kept, m, f) ==
  /\ f[0] = << >>
  /\ \A i \in 1 .. m : f[i] = IF s[i] \in kept THEN Append(f[i - 1], s[i]) ELSE f[i - 1]

(* There is such a function: it is continued one position at a time.         *)
LEMMA KeptExists ==
  ASSUME NEW s, NEW kept, NEW m \in Nat
  PROVE  \E f : Kept(s, kept, m, f)
<1> DEFINE S == {n \in Nat : \E f : Kept(s, kept, n, f)}
<1>1. 0 \in S
  <2>1. Kept(s, kept, 0, [i \in 0 .. 0 |-> << >>])
    BY DEF Kept
  <2> QED
    BY <2>1
<1>2. ASSUME NEW n \in S PROVE n + 1 \in S
  <2>1. PICK f : Kept(s, kept, n, f)
    OBVIOUS
  <2> DEFINE last == IF s[n + 1] \in kept THEN Append(f[n], s[n + 1]) ELSE f[n]
             g    == [i \in 0 .. n + 1 |-> IF i = n + 1 THEN last ELSE f[i]]
  <2>2. \A i \in 0 .. n : f[i] = IF i = 0 THEN << >>
                                 ELSE IF s[i] \in kept THEN Append(f[i - 1], s[i]) ELSE f[i - 1]
    BY <2>1 DEF Kept
  <2>3. \A i \in 1 .. n + 1 : g[i - 1] = f[i - 1]
    OBVIOUS
  <2>4. \A i \in 0 .. n + 1 :
          g[i] = IF i = 0 THEN << >>
                 ELSE IF s[i] \in kept THEN Append(g[i - 1], s[i]) ELSE g[i - 1]
    <3> SUFFICES ASSUME NEW i \in 0 .. n + 1
                 PROVE  g[i] = IF i = 0 THEN << >>
                               ELSE IF s[i] \in kept THEN Append(g[i - 1], s[i]) ELSE g[i - 1]
      OBVIOUS
    <3>1. CASE i = n + 1
      BY <3>1, <2>3
    <3>2. CASE i \in 0 .. n
      <4>1. i # n + 1
        BY <3>2
      <4> QED
        BY <4>1, <3>2, <2>2, <2>3
    <3> QED
      BY <3>1, <3>2
  <2> HIDE DEF last
  <2>5. Kept(s, kept, n + 1, g)
    BY <2>4 DEF Kept
  <2> QED
    BY <2>5
<1>3. S = Nat
  BY <1>1, <1>2, NatSetInduction
<1> QED
  BY <1>3

(* So Selected is the last value of a function with these values.            *)
LEMMA SelectedFilters ==
  ASSUME NEW s, NEW kept, Len(s) \in Nat
  PROVE  \E f : Filters(s, kept, Len(s), f) /\ Selected(s, kept) = f[Len(s)]
<1> DEFINE m == Len(s)
           f == CHOOSE g : Kept(s, kept, m, g)
<1>1. Kept(s, kept, m, f)
  BY KeptExists
<1>2. Selected(s, kept) = f[m]
  BY DEF Selected, Kept
<1> HIDE DEF f, m
<1>3. \A i \in 0 .. m : f[i] = IF i = 0 THEN << >>
                               ELSE IF s[i] \in kept THEN Append(f[i - 1], s[i]) ELSE f[i - 1]
  BY <1>1 DEF Kept
<1>4. m \in Nat /\ 0 \in 0 .. m /\ \A i \in 1 .. m : i \in 0 .. m /\ i # 0
  BY DEF m
<1>5. Filters(s, kept, m, f)
  BY <1>3, <1>4 DEF Filters
<1> QED
  BY <1>2, <1>5 DEF m

(* What is kept of the first m depends on the first m only.                  *)
LEMMA FiltersAgree ==
  ASSUME NEW s, NEW t, NEW kept, NEW m \in Nat, NEW n \in Nat, m <= n,
         NEW f, Filters(s, kept, m, f), NEW g, Filters(t, kept, n, g),
         \A i \in 1 .. m : s[i] = t[i]
  PROVE  f[m] = g[m]
<1> DEFINE S == {i \in Nat : i <= m => f[i] = g[i]}
<1>1. 0 \in S
  BY DEF Filters
<1>2. ASSUME NEW i \in S PROVE i + 1 \in S
  <2> SUFFICES ASSUME i + 1 <= m PROVE f[i + 1] = g[i + 1]
    OBVIOUS
  <2>1. f[i] = g[i] /\ i + 1 \in 1 .. m /\ i + 1 \in 1 .. n /\ (i + 1) - 1 = i
    OBVIOUS
  <2> QED
    BY <2>1 DEF Filters
<1>3. S = Nat
  BY <1>1, <1>2, NatSetInduction
<1> QED
  BY <1>3

(* What is kept is in order a sequence of kept elements.                     *)
LEMMA SelectedTyped ==
  ASSUME NEW E, NEW s \in Seq(E), NEW kept
  PROVE  Selected(s, kept) \in Seq(E \cap kept)
<1> DEFINE m == Len(s)
<1>1. m \in Nat /\ \A i \in 1 .. m : s[i] \in E
  BY LenProperties, ElementOfSeq
<1>2. PICK f : Filters(s, kept, m, f) /\ Selected(s, kept) = f[m]
  BY <1>1, SelectedFilters
<1> DEFINE S == {i \in Nat : i <= m => f[i] \in Seq(E \cap kept)}
<1> HIDE DEF m
<1>3. 0 \in S
  <2>1. f[0] = << >> /\ << >> \in Seq(E \cap kept)
    BY <1>2, EmptySeq DEF Filters
  <2> QED
    BY <2>1
<1>4. ASSUME NEW i \in S PROVE i + 1 \in S
  <2> SUFFICES ASSUME i + 1 <= m PROVE f[i + 1] \in Seq(E \cap kept)
    OBVIOUS
  <2>1. f[i] \in Seq(E \cap kept) /\ i + 1 \in 1 .. m /\ (i + 1) - 1 = i
    BY <1>1
  <2>2. f[i + 1] = IF s[i + 1] \in kept THEN Append(f[i], s[i + 1]) ELSE f[i]
    BY <2>1, <1>2 DEF Filters
  <2>3. s[i + 1] \in kept => s[i + 1] \in E \cap kept
    BY <2>1, <1>1
  <2> QED
    BY <2>1, <2>2, <2>3, AppendProperties
<1>5. S = Nat
  BY <1>3, <1>4, NatSetInduction
<1> QED
  BY <1>1, <1>2, <1>5

(* One more event is kept behind the others, or not at all.                  *)
LEMMA SelectedGrows ==
  ASSUME NEW E, NEW s \in Seq(E), NEW e \in E, NEW kept
  PROVE  Selected(Append(s, e), kept)
           = IF e \in kept THEN Append(Selected(s, kept), e) ELSE Selected(s, kept)
<1> DEFINE t == Append(s, e)
           n == Len(s)
<1>1. n \in Nat /\ Len(t) = n + 1 /\ t[n + 1] = e /\ \A i \in 1 .. n : s[i] = t[i]
  BY LenProperties, AppendProperties
<1>2. PICK f : Filters(s, kept, n, f) /\ Selected(s, kept) = f[n]
  BY <1>1, SelectedFilters
<1> HIDE DEF t
<1>3. PICK g : Filters(t, kept, n + 1, g) /\ Selected(t, kept) = g[n + 1]
  BY <1>1, SelectedFilters
<1>4. f[n] = g[n]
  BY <1>1, <1>2, <1>3, FiltersAgree
<1>5. n + 1 \in 1 .. n + 1 /\ (n + 1) - 1 = n
  BY <1>1
<1>6. g[n + 1] = IF t[n + 1] \in kept THEN Append(g[n], t[n + 1]) ELSE g[n]
  BY <1>3, <1>5 DEF Filters
<1> QED
  BY <1>1, <1>2, <1>3, <1>4, <1>6 DEF t

(* Nothing is kept of nothing.                                               *)
LEMMA SelectedEmpty ==
  ASSUME NEW kept
  PROVE  Selected(<< >>, kept) = << >>
<1>1. Len(<< >>) = 0
  OBVIOUS
<1>2. PICK f : Filters(<< >>, kept, 0, f) /\ Selected(<< >>, kept) = f[0]
  BY <1>1, SelectedFilters
<1> QED
  BY <1>2 DEF Filters

(* The least member of a set of natural numbers, which Min chooses.          *)
LEMMA MinLeast ==
  ASSUME NEW S \in SUBSET Nat, S # {}
  PROVE  Min(S) \in S /\ \A i \in S : Min(S) <= i
<1>1. PICK x \in S : \A y \in S : <<y, x>> \notin OpToRel(<, Nat)
  BY NatLessThanWellFounded, WFMin
<1>2. ASSUME NEW y \in S PROVE x <= y
  <2>1. y < x => <<y, x>> \in OpToRel(<, Nat)
    BY DEF OpToRel
  <2>2. x \in Nat /\ y \in Nat /\ ~ (y < x)
    BY <2>1, <1>1
  <2> QED
    BY <2>2
<1> QED
  BY <1>2 DEF Min

(* The candidates from the one behind a to b.                                *)
Run(a, b) == [k \in 1 .. (b - a) |-> a + k]

(* It begins empty and grows by its next number.                             *)
LEMMA RunGrows ==
  ASSUME NEW a \in Nat, NEW b \in Nat, a <= b
  PROVE  Run(a, a) = << >> /\ Run(a, b + 1) = Append(Run(a, b), b + 1)
<1>1. b - a \in Nat /\ (b + 1) - a = (b - a) + 1 /\ a - a = 0
  OBVIOUS
<1>2. Append([k \in 1 .. (b - a) |-> a + k], b + 1) = [k \in 1 .. (b - a) + 1 |-> a + k]
  BY <1>1
<1>3. [k \in 1 .. 0 |-> a + k] = << >>
  OBVIOUS
<1> QED
  BY <1>1, <1>2, <1>3 DEF Run

(* A queue with one more event has one more candidate, or none.              *)
IceEvents == [kind : {"RemoteIce"}, n : 0 .. MaxIce]

LEMMA CandidatesGrow ==
  ASSUME NEW es \in Seq(Events), NEW e \in Events
  PROVE  /\ Candidates(es) \in Seq(Nat)
         /\ Candidates(Append(es, e))
              = IF e.kind = "RemoteIce" THEN Append(Candidates(es), e.n) ELSE Candidates(es)
<1>1. PICK ice : ice = Selected(es, IceEvents) /\ ice \in Seq(Events \cap IceEvents)
  BY SelectedTyped
<1>2. Len(ice) \in Nat /\ DOMAIN ice = 1 .. Len(ice)
      /\ \A i \in 1 .. Len(ice) : ice[i] \in Events \cap IceEvents
  BY <1>1, LenProperties, ElementOfSeq
<1>3. \A i \in 1 .. Len(ice) : ice[i].n \in Nat
  <2>1. \A x \in IceEvents : x.n \in Nat
    BY DEF IceEvents
  <2> QED
    BY <1>2, <2>1
<1>4. Candidates(es) = [i \in 1 .. Len(ice) |-> ice[i].n]
  BY <1>1, <1>2 DEF Candidates, IceEvents
<1>5. e \in IceEvents <=> e.kind = "RemoteIce"
  BY DEF Events, IceEvents
<1>6. Selected(Append(es, e), IceEvents) = IF e \in IceEvents THEN Append(ice, e) ELSE ice
  BY <1>1, SelectedGrows
<1>7. Candidates(es) \in Seq(Nat)
  BY <1>2, <1>3, <1>4
<1>8. CASE e \in IceEvents
  <2>1. PICK more : more = Append(ice, e)
    OBVIOUS
  <2>2. /\ DOMAIN more = 1 .. Len(ice) + 1 /\ more[Len(ice) + 1] = e
        /\ \A i \in 1 .. Len(ice) : more[i] = ice[i]
    <3>1. ice \in Seq(Events)
      BY <1>1, SeqMonotonic
    <3> QED
      BY <3>1, <2>1, AppendProperties
  <2>3. Candidates(Append(es, e)) = [i \in 1 .. Len(ice) + 1 |-> more[i].n]
    BY <2>1, <2>2, <1>6, <1>8 DEF Candidates, IceEvents
  <2>4. [i \in 1 .. Len(ice) + 1 |-> more[i].n] = Append([i \in 1 .. Len(ice) |-> ice[i].n], e.n)
    BY <2>2, <1>2
  <2>5. Candidates(Append(es, e)) = Append(Candidates(es), e.n)
    BY <2>3, <2>4, <1>4
  <2> QED
    BY <2>5, <1>5, <1>7, <1>8
<1>9. CASE e \notin IceEvents
  <2>1. Candidates(Append(es, e)) = Candidates(es)
    BY <1>1, <1>6, <1>9 DEF Candidates, IceEvents
  <2> QED
    BY <2>1, <1>5, <1>7, <1>9
<1> QED
  BY <1>8, <1>9

(* An empty one has none.                                                    *)
LEMMA CandidatesEmpty == Candidates(<< >>) = << >>
<1>1. Selected(<< >>, IceEvents) = << >> /\ DOMAIN << >> = 1 .. 0
  BY SelectedEmpty
<1>2. Candidates(<< >>) = [i \in 1 .. 0 |-> << >>[i].n]
  BY <1>1 DEF Candidates, IceEvents
<1> QED
  BY <1>2

-----------------------------------------------------------------------------
(* What is left of a queue, and where its first Disconnected stands.         *)

(* The queue without its first m events.                                     *)
Rest(es, m) == SubSeq(es, m + 1, Len(es))

LEMMA RestProperties ==
  ASSUME NEW es \in Seq(Events), NEW m \in 0 .. Len(es)
  PROVE  /\ Rest(es, m) \in Seq(Events)
         /\ Len(Rest(es, m)) = Len(es) - m
         /\ \A j \in 1 .. Len(es) - m : Rest(es, m)[j] = es[m + j]
<1>1. Len(es) \in Nat /\ \A i \in 1 .. Len(es) : es[i] \in Events
  BY LenProperties, ElementOfSeq
<1>2. m + 1 \in Int /\ \A i \in m + 1 .. Len(es) : es[i] \in Events
  BY <1>1
<1>3. /\ SubSeq(es, m + 1, Len(es)) \in Seq(Events)
      /\ Len(SubSeq(es, m + 1, Len(es))) = IF m + 1 <= Len(es) THEN Len(es) - (m + 1) + 1 ELSE 0
      /\ \A i \in 1 .. Len(es) - (m + 1) + 1 : SubSeq(es, m + 1, Len(es))[i] = es[m + 1 + i - 1]
  BY <1>1, <1>2, SubSeqProperties
<1>4. \A i \in Int : m + 1 + i - 1 = m + i
  OBVIOUS
<1> QED
  BY <1>1, <1>3, <1>4 DEF Rest

(* Two rests in a row are one.                                               *)
LEMMA RestOfRest ==
  ASSUME NEW es \in Seq(Events), NEW m \in 0 .. Len(es), NEW j \in 0 .. Len(es) - m
  PROVE  Rest(Rest(es, m), j) = Rest(es, m + j)
<1>1. Len(es) \in Nat
  BY LenProperties
<1>2. PICK r : r = Rest(es, m)
  OBVIOUS
<1>3. r \in Seq(Events) /\ Len(r) = Len(es) - m /\ \A i \in 1 .. Len(es) - m : r[i] = es[m + i]
  BY <1>2, RestProperties
<1>4. j \in 0 .. Len(r) /\ m + j \in 0 .. Len(es)
  BY <1>1, <1>3
<1>5. PICK a : a = Rest(r, j)
  OBVIOUS
<1>6. /\ a \in Seq(Events) /\ Len(a) = Len(es) - (m + j)
      /\ \A i \in 1 .. Len(es) - (m + j) : a[i] = es[m + j + i]
  <2>1. a \in Seq(Events) /\ Len(a) = Len(r) - j /\ \A i \in 1 .. Len(r) - j : a[i] = r[j + i]
    BY <1>3, <1>4, <1>5, RestProperties
  <2>2. ASSUME NEW i \in 1 .. Len(es) - (m + j) PROVE a[i] = es[m + j + i]
    <3>1. i \in 1 .. Len(r) - j /\ j + i \in 1 .. Len(es) - m /\ m + (j + i) = m + j + i
      BY <1>1, <1>3
    <3> QED
      BY <3>1, <2>1, <1>3
  <2> QED
    BY <2>1, <2>2, <1>1, <1>3
<1>7. PICK b : b = Rest(es, m + j)
  OBVIOUS
<1>8. /\ b \in Seq(Events) /\ Len(b) = Len(es) - (m + j)
      /\ \A i \in 1 .. Len(es) - (m + j) : b[i] = es[m + j + i]
  BY <1>4, <1>7, RestProperties
<1>9. a = b
  <2>1. \A i \in 1 .. Len(a) : a[i] = b[i]
    BY <1>6, <1>8
  <2> QED
    BY <2>1, <1>6, <1>8, SeqEqual
<1> QED
  BY <1>2, <1>5, <1>7, <1>9

(* An event behind the queue is behind its rest.                             *)
LEMMA RestGrows ==
  ASSUME NEW es \in Seq(Events), NEW e \in Events, NEW m \in 0 .. Len(es)
  PROVE  Rest(Append(es, e), m) = Append(Rest(es, m), e)
<1>1. Len(es) \in Nat
  BY LenProperties
<1>2. PICK t : t = Append(es, e)
  OBVIOUS
<1>3. /\ t \in Seq(Events) /\ Len(t) = Len(es) + 1 /\ t[Len(es) + 1] = e
      /\ \A i \in 1 .. Len(es) : t[i] = es[i]
  BY <1>2, AppendProperties
<1>4. PICK r : r = Rest(es, m)
  OBVIOUS
<1>5. r \in Seq(Events) /\ Len(r) = Len(es) - m /\ \A i \in 1 .. Len(es) - m : r[i] = es[m + i]
  BY <1>4, RestProperties
<1>6. PICK a : a = Rest(t, m)
  OBVIOUS
<1>7. /\ a \in Seq(Events) /\ Len(a) = Len(es) + 1 - m
      /\ \A i \in 1 .. Len(es) + 1 - m : a[i] = t[m + i]
  <2>1. m \in 0 .. Len(t)
    BY <1>1, <1>3
  <2>2. a \in Seq(Events) /\ Len(a) = Len(t) - m /\ \A i \in 1 .. Len(t) - m : a[i] = t[m + i]
    BY <2>1, <1>3, <1>6, RestProperties
  <2> QED
    BY <2>2, <1>3
<1>8. PICK b : b = Append(r, e)
  OBVIOUS
<1>9. /\ b \in Seq(Events) /\ Len(b) = Len(r) + 1 /\ b[Len(r) + 1] = e
      /\ \A i \in 1 .. Len(r) : b[i] = r[i]
  BY <1>5, <1>8, AppendProperties
<1>10. ASSUME NEW i \in 1 .. Len(es) + 1 - m PROVE a[i] = b[i]
  <2>1. CASE i = Len(es) + 1 - m
    BY <2>1, <1>1, <1>3, <1>5, <1>7, <1>9
  <2>2. CASE i # Len(es) + 1 - m
    <3>1. i \in 1 .. Len(es) - m /\ m + i \in 1 .. Len(es)
      BY <2>2, <1>1
    <3> QED
      BY <3>1, <1>3, <1>5, <1>7, <1>9
  <2> QED
    BY <2>1, <2>2
<1>11. a = b
  <2>1. Len(a) = Len(b) /\ \A i \in 1 .. Len(a) : a[i] = b[i]
    BY <1>1, <1>5, <1>7, <1>9, <1>10
  <2> QED
    BY <2>1, <1>7, <1>9, SeqEqual
<1> QED
  BY <1>2, <1>4, <1>6, <1>8, <1>11

(* FirstLoss is 0 when there is none, and the least position otherwise.      *)
LEMMA FirstLossLeast ==
  ASSUME NEW kinds, Len(kinds) \in Nat, NEW loss, loss = FirstLoss(kinds)
  PROVE  \/ loss = 0 /\ \A i \in 1 .. Len(kinds) : kinds[i] # "Disconnected"
         \/ /\ loss \in 1 .. Len(kinds) /\ kinds[loss] = "Disconnected"
            /\ \A i \in 1 .. loss - 1 : kinds[i] # "Disconnected"
<1> DEFINE I == {i \in 1 .. Len(kinds) : kinds[i] = "Disconnected"}
<1>1. loss = IF I # {} THEN Min(I) ELSE 0
  BY DEF FirstLoss, SelectInSeq
<1>2. CASE I = {}
  BY <1>1, <1>2
<1>3. CASE I # {}
  <2>1. I \in SUBSET Nat
    OBVIOUS
  <2>2. Min(I) \in I /\ \A i \in I : Min(I) <= i
    BY <1>3, <2>1, MinLeast
  <2>3. loss \in I /\ \A i \in I : loss <= i
    BY <1>1, <1>3, <2>2
  <2>4. ASSUME NEW i \in 1 .. loss - 1 PROVE kinds[i] # "Disconnected"
    <3>1. i \in 1 .. Len(kinds) /\ ~ (loss <= i)
      BY <2>3
    <3> QED
      BY <3>1, <2>3
  <2> QED
    BY <2>3, <2>4
<1> QED
  BY <1>2, <1>3

LEMMA NoLoss ==
  ASSUME NEW kinds, Len(kinds) \in Nat, FirstLoss(kinds) = 0
  PROVE  \A i \in 1 .. Len(kinds) : kinds[i] # "Disconnected"
<1>1. PICK loss : loss = FirstLoss(kinds) /\ loss = 0
  OBVIOUS
<1>2. loss \notin 1 .. Len(kinds)
  BY <1>1
<1> QED
  BY <1>1, <1>2, FirstLossLeast

-----------------------------------------------------------------------------
(* What a step does to the events App has still to read.                     *)

LEMMA KindsProperties ==
  ASSUME NEW es \in Seq(Events)
  PROVE  /\ Len(Kinds(es)) = Len(es) /\ Len(es) \in Nat /\ DOMAIN es = 1 .. Len(es)
         /\ \A i \in 1 .. Len(es) : Kinds(es)[i] = es[i].kind /\ es[i] \in Events
<1>1. Len(es) \in Nat /\ DOMAIN es = 1 .. Len(es) /\ \A i \in 1 .. Len(es) : es[i] \in Events
  BY LenProperties, ElementOfSeq
<1>2. Kinds(es) = [i \in 1 .. Len(es) |-> es[i].kind]
  BY <1>1 DEF Kinds
<1> QED
  BY <1>1, <1>2

(* The signaling task puts one event behind the others, and numbers it.      *)
Hears(e) ==
  /\ events' = Append(events, e)
  /\ ices' = IF e.kind = "RemoteIce" THEN ices + 1 ELSE ices
  /\ e.kind \in {"Offer", "RemoteIce"} => e.n = ices'
  /\ UNCHANGED <<appVars, peerVars, iceBase>>

(* A tick on Signaling takes the first m events, up to the offer it accepts, *)
(* and never a Disconnected: that one it leaves where it is.                 *)
Reads(m) ==
  /\ events' = Rest(events, m)
  /\ \A i \in 1 .. m : events[i].kind # "Disconnected"
  /\ \/ /\ screen' = "Streaming" /\ peer' = "setup"
        /\ m # 0 /\ events[m].kind = "Offer" /\ iceBase' = events[m].n
     \/ /\ screen' = "Signaling" /\ UNCHANGED <<peer, iceBase>>
     \/ /\ screen' = "Error" /\ UNCHANGED <<peer, iceBase>>
        /\ \E i \in 1 .. Len(events) : events[i].kind = "Disconnected"

LEMMA TickReads ==
  ASSUME Queues, TickSignaling
  PROVE  \E m \in 0 .. Len(events) : Reads(m)
<1> DEFINE most  == Min({Len(events), MaxEventsPerTick})
           batch == SubSeq(events, 1, most)
           d     == FirstLoss(Kinds(batch))
<1>1. Len(events) \in Nat /\ events \in Seq(Events)
  BY LenProperties DEF Queues
<1>2. most \in Nat /\ most <= Len(events)
  <2>1. {Len(events), MaxEventsPerTick} \in SUBSET Nat
    BY <1>1
  <2> QED
    BY <1>1, <2>1, MinLeast
<1> HIDE DEF most
<1>3. /\ batch \in Seq(Events) /\ Len(batch) = most
      /\ \A i \in 1 .. most : batch[i] = events[i]
  <2>1. \A i \in 1 .. most : events[i] \in Events
    BY <1>1, <1>2, ElementOfSeq
  <2> QED
    BY <2>1, <1>2, SubSeqProperties
<1> HIDE DEF batch
<1>4. /\ DOMAIN batch = 1 .. most
      /\ \/ d = 0 /\ \A i \in 1 .. most : events[i].kind # "Disconnected"
         \/ /\ d \in 1 .. most /\ events[d].kind = "Disconnected"
            /\ \A i \in 1 .. d - 1 : events[i].kind # "Disconnected"
  <2>1. /\ Len(Kinds(batch)) = most /\ DOMAIN batch = 1 .. most
        /\ \A i \in 1 .. most : Kinds(batch)[i] = events[i].kind
    BY <1>3, KindsProperties
  <2>2. \/ d = 0 /\ \A i \in 1 .. most : Kinds(batch)[i] # "Disconnected"
        \/ /\ d \in 1 .. most /\ Kinds(batch)[d] = "Disconnected"
           /\ \A i \in 1 .. d - 1 : Kinds(batch)[i] # "Disconnected"
    BY <2>1, <1>2, FirstLossLeast
  <2>3. d \in 1 .. most => \A i \in 1 .. d - 1 : i \in 1 .. most
    BY <1>2
  <2> QED
    BY <2>1, <2>2, <2>3
<1>5. \/ \E i \in DOMAIN batch :
           /\ batch[i].kind = "Offer" /\ (d = 0 \/ i < d)
           /\ events' = Unread(i, batch)
           /\ screen' = "Streaming" /\ peer' = "setup" /\ iceBase' = batch[i].n
      \/ /\ d = 0
         /\ events' = SubSeq(events, Len(batch) + 1, Len(events))
         /\ screen' = "Signaling" /\ UNCHANGED <<peer, iceBase>>
      \/ /\ d # 0 /\ events' = events
         /\ screen' = "Error" /\ UNCHANGED <<peer, iceBase>>
  BY DEF TickSignaling, batch, most
<1> HIDE DEF d
<1>6. ASSUME NEW i \in DOMAIN batch, batch[i].kind = "Offer", d = 0 \/ i < d,
             events' = Unread(i, batch),
             screen' = "Streaming", peer' = "setup", iceBase' = batch[i].n
      PROVE  \E m \in 0 .. Len(events) : Reads(m)
  <2>1. i \in 1 .. most /\ i \in 0 .. Len(events) /\ i # 0
    BY <1>1, <1>2, <1>4
  <2>2. \A k \in 1 .. i : events[k].kind # "Disconnected"
    BY <2>1, <1>2, <1>4, <1>6
  <2>3. events' = Rest(events, i)
    BY <1>6 DEF Unread, Rest
  <2>4. Reads(i)
    BY <2>1, <2>2, <2>3, <1>3, <1>6 DEF Reads
  <2> QED
    BY <2>1, <2>4
<1>7. ASSUME d = 0, events' = SubSeq(events, Len(batch) + 1, Len(events)),
             screen' = "Signaling", UNCHANGED <<peer, iceBase>>
      PROVE  \E m \in 0 .. Len(events) : Reads(m)
  <2>1. most \in 0 .. Len(events) /\ \A k \in 1 .. most : events[k].kind # "Disconnected"
    BY <1>1, <1>2, <1>4, <1>7
  <2>2. Reads(most)
    BY <2>1, <1>3, <1>7 DEF Reads, Rest
  <2> QED
    BY <2>1, <2>2
<1>8. ASSUME d # 0, events' = events, screen' = "Error", UNCHANGED <<peer, iceBase>>
      PROVE  \E m \in 0 .. Len(events) : Reads(m)
  <2>1. events = Rest(events, 0)
    <3>1. 0 + 1 = 1
      OBVIOUS
    <3> QED
      BY <3>1, <1>1, SubSeqFull DEF Rest
  <2>2. d \in 1 .. Len(events) /\ events[d].kind = "Disconnected"
    BY <1>1, <1>2, <1>4, <1>8
  <2>3. Reads(0)
    BY <2>1, <2>2, <1>8 DEF Reads
  <2> QED
    BY <2>3, <1>1
<1> QED
  BY <1>5, <1>6, <1>7, <1>8

(* A tick on Streaming that does not end the session has read no             *)
(* Disconnected, and has passed every candidate on.                          *)
LEMMA TickPasses ==
  ASSUME Queues, TickStreaming
  PROVE  \/ /\ screen' = "Streaming"
            /\ \A i \in 1 .. Len(events) : events[i].kind # "Disconnected"
            /\ \A i \in 1 .. Len(peerEvents) : peerEvents[i] # "Disconnected"
            /\ peerCommands' = peerCommands \o Candidates(events)
            /\ commands' = commands \o ForSocket(peerEvents)
         \/ /\ screen' = "Error" /\ \E sent : peerCommands' = Append(sent, Close)
            /\ commands' = Append(commands \o ForSocket(UpTo(FirstLoss(peerEvents), peerEvents)), "Close")
<1>1. PICK i, j : /\ i = FirstLoss(Kinds(events)) /\ j = FirstLoss(peerEvents)
                  /\ \/ /\ i = 0 /\ j = 0 /\ screen' = screen
                        /\ commands' = commands \o ForSocket(UpTo(j, peerEvents))
                        /\ peerCommands' = peerCommands \o Candidates(UpTo(i, events))
                     \/ /\ screen' = "Error"
                        /\ commands' = Append(commands \o ForSocket(UpTo(j, peerEvents)), "Close")
                        /\ peerCommands' = Append(peerCommands \o Candidates(UpTo(i, events)), Close)
  BY DEF TickStreaming
<1>2. CASE i = 0 /\ j = 0 /\ screen' = screen
           /\ commands' = commands \o ForSocket(UpTo(j, peerEvents))
           /\ peerCommands' = peerCommands \o Candidates(UpTo(i, events))
  <2>1. \A k \in 1 .. Len(events) : events[k].kind # "Disconnected"
    <3>1. PICK kinds :
            /\ kinds = Kinds(events) /\ Len(kinds) = Len(events) /\ Len(events) \in Nat
            /\ \A k \in 1 .. Len(events) : kinds[k] = events[k].kind
      BY KindsProperties DEF Queues
    <3>2. FirstLoss(kinds) = 0
      BY <1>1, <1>2, <3>1
    <3>3. \A k \in 1 .. Len(kinds) : kinds[k] # "Disconnected"
      BY <3>1, <3>2, NoLoss
    <3> QED
      BY <3>1, <3>3
  <2>2. \A k \in 1 .. Len(peerEvents) : peerEvents[k] # "Disconnected"
    <3>1. Len(peerEvents) \in Nat
      BY LenProperties DEF Queues
    <3>2. FirstLoss(peerEvents) = 0
      BY <1>1, <1>2
    <3> QED
      BY <3>1, <3>2, NoLoss
  <2>3. UpTo(i, events) = events /\ UpTo(j, peerEvents) = peerEvents
    BY <1>2 DEF UpTo
  <2> QED
    BY <2>1, <2>2, <2>3, <1>2 DEF TickStreaming
<1> QED
  BY <1>1, <1>2

(* Every step is one of these for the events.                                *)
LEMMA EventSteps ==
  ASSUME Queues, [Next]_vars
  PROVE  \/ UNCHANGED <<events, ices>>
         \/ \E e \in Events : Hears(e)
         \/ TickSignaling \/ TickStreaming
<1>1. CASE Connected \/ ConnectFailed \/ ReceiveEnd \/ ReceiveTransportError
  <2>1. PICK kind \in {"Connected", "Error", "Disconnected"} : Emit(Event(kind, 0))
    BY <1>1 DEF Connected, ConnectFailed, ReceiveEnd, ReceiveTransportError
  <2>2. Event(kind, 0) \in Events /\ Event(kind, 0).kind = kind
    BY DEF Event, Events
  <2>3. UNCHANGED <<ices, appVars, peerVars, iceBase>>
    BY <1>1 DEF Connected, ConnectFailed, ReceiveEnd, ReceiveTransportError
  <2>4. Hears(Event(kind, 0))
    BY <2>1, <2>2, <2>3 DEF Hears, Emit
  <2> QED
    BY <2>2, <2>4
<1>2. CASE Receive
  <2>1. UNCHANGED <<appVars, peerVars, iceBase>>
    BY <1>2 DEF Receive
  <2>2. PICK kind \in {"Offer", "RemoteIce", "Error"}, n \in 0 .. MaxIce :
          /\ Emit(Event(kind, n))
          /\ ices' = IF kind = "RemoteIce" THEN ices + 1 ELSE ices
          /\ kind # "Error" => n = ices'
    <3>1. ices \in 0 .. MaxIce /\ (ices < MaxIce => ices + 1 \in 0 .. MaxIce) /\ 0 \in 0 .. MaxIce
      BY DEF Queues
    <3>2. \/ Emit(Event("Offer", ices)) /\ ices' = ices
          \/ ices < MaxIce /\ Emit(Event("RemoteIce", ices + 1)) /\ ices' = ices + 1
          \/ Emit(Event("Error", 0)) /\ ices' = ices
      BY <1>2 DEF Receive
    <3> QED
      BY <3>1, <3>2
  <2>3. Event(kind, n) \in Events /\ Event(kind, n).kind = kind /\ Event(kind, n).n = n
    BY DEF Event, Events
  <2>4. Hears(Event(kind, n))
    BY <2>1, <2>2, <2>3 DEF Hears, Emit
  <2> QED
    BY <2>3, <2>4
<1>3. CASE User \/ TakeCommand \/ PeerThread \/ StopArrives \/ UNCHANGED vars
  BY <1>3 DEF User, Connect, ToggleConfirmExit, ConfirmExitSession, CancelConfirmExit,
              TakeCommand, PeerThread, PeerReady, PeerLost, PeerRuntimeFails, PeerCommands,
              StopArrives, sockVars, vars
<1> QED
  BY <1>1, <1>2, <1>3 DEF Next, Tick, SocketTask

-----------------------------------------------------------------------------
(* Candidates arrive once and in order.                                      *)

(* Before the offer is accepted there is no peer and nothing for it.         *)
Unheard ==
  screen \in {"SessionReady", "Signaling"} =>
    peer = "none" /\ peerCommands = << >> /\ applied = << >>

(* Behind an offer that is still to be read stand all the candidates that    *)
(* came after it: the offer carries how many had come before it.             *)
Numbered ==
  \A i \in 1 .. Len(events) :
    events[i].kind = "Offer" =>
      events[i].n <= ices /\ Candidates(Rest(events, i)) = Run(events[i].n, ices)

(* IceInOrder, with the types it needs and what it takes to survive one more *)
(* candidate.                                                                *)
Flowing ==
  screen = "Streaming" =>
    /\ iceBase <= ices
    /\ applied \in Seq(Nat) /\ peerCommands \in Seq(Nat)
    /\ applied \o peerCommands \o Candidates(events) = Run(iceBase, ices)

IceInv == Queues /\ Unheard /\ Numbered /\ Flowing

LEMMA CandidatesTyped ==
  ASSUME NEW es \in Seq(Events)
  PROVE  Candidates(es) \in Seq(Nat)
<1>1. Event("Error", 0) \in Events
  BY DEF Event, Events
<1> QED
  BY <1>1, CandidatesGrow

LEMMA StepUnheard ==
  ASSUME Unheard, [Next]_vars
  PROVE  Unheard'
<1>1. CASE User
  BY <1>1 DEF User, Connect, ToggleConfirmExit, ConfirmExitSession, CancelConfirmExit,
              LinkScreens, Ended, peerVars, Unheard
<1>2. CASE Tick
  BY <1>2 DEF Tick, TickSignaling, TickStreaming, Unheard
<1>3. CASE SocketTask \/ StopArrives \/ UNCHANGED vars
  BY <1>3 DEF SocketTask, Connected, ConnectFailed, TakeCommand, Receive, ReceiveEnd,
              ReceiveTransportError, StopArrives, vars, appVars, peerVars, Unheard
<1>4. CASE PeerThread
  BY <1>4 DEF PeerThread, PeerReady, PeerLost, PeerRuntimeFails, PeerCommands, appVars, Unheard
<1> QED
  BY <1>1, <1>2, <1>3, <1>4 DEF Next

(* A new event goes behind every offer; what a tick leaves is left as it is. *)
LEMMA StepNumbered ==
  ASSUME Queues, Numbered, [Next]_vars
  PROVE  Numbered'
<1>1. events \in Seq(Events) /\ Len(events) \in Nat /\ ices \in Nat
      /\ \A i \in 1 .. Len(events) : events[i] \in Events /\ events[i].n \in Nat
  <2>1. \A e \in Events : e.n \in Nat
    BY DEF Events
  <2>2. events \in Seq(Events) /\ Len(events) \in Nat /\ ices \in Nat
    BY LenProperties DEF Queues
  <2> QED
    BY <2>1, <2>2, ElementOfSeq
<1>2. CASE UNCHANGED <<events, ices>>
  BY <1>2 DEF Numbered
<1>3. ASSUME NEW e \in Events, Hears(e) PROVE Numbered'
  <2>1. PICK t : t = Append(events, e) /\ events' = t
    BY <1>3 DEF Hears
  <2>2. /\ Len(t) = Len(events) + 1 /\ t[Len(events) + 1] = e
        /\ \A i \in 1 .. Len(events) : t[i] = events[i]
    BY <1>1, <2>1, AppendProperties
  <2>3. ASSUME NEW i \in 1 .. Len(t), t[i].kind = "Offer"
        PROVE  t[i].n <= ices' /\ Candidates(Rest(t, i)) = Run(t[i].n, ices')
    <3>1. CASE i = Len(events) + 1
      <4>1. e.kind = "Offer" /\ e.n = ices /\ ices' = ices /\ t[i] = e
        BY <3>1, <2>2, <2>3, <1>3 DEF Hears
      <4>2. Rest(t, i) = << >>
        BY <3>1, <2>2, <1>1, SubSeqEmpty DEF Rest
      <4>3. Candidates(<< >>) = Run(ices, ices) /\ ices <= ices
        <5>1. ices <= ices
          BY <1>1
        <5> QED
          BY <5>1, <1>1, CandidatesEmpty, RunGrows
      <4>4. t[i].n = ices /\ Candidates(Rest(t, i)) = Run(ices, ices)
        BY <4>1, <4>2, <4>3
      <4> QED
        BY <4>1, <4>3, <4>4
    <3>2. CASE i \in 1 .. Len(events)
      <4>1. events[i].kind = "Offer" /\ t[i] = events[i]
        BY <3>2, <2>2, <2>3
      <4>2. events[i].n <= ices /\ Candidates(Rest(events, i)) = Run(events[i].n, ices)
        BY <3>2, <4>1 DEF Numbered
      <4>3. i \in 0 .. Len(events)
        BY <3>2, <1>1
      <4>4. Rest(events, i) \in Seq(Events) /\ Rest(t, i) = Append(Rest(events, i), e)
        BY <4>3, <1>1, <2>1, RestProperties, RestGrows
      <4>5. Candidates(Rest(t, i)) = IF e.kind = "RemoteIce" THEN Append(Run(events[i].n, ices), e.n)
                                                             ELSE Run(events[i].n, ices)
        BY <4>2, <4>4, CandidatesGrow
      <4>6. Append(Run(events[i].n, ices), ices + 1) = Run(events[i].n, ices + 1)
        BY <3>2, <4>2, <1>1, RunGrows
      <4>7. IF e.kind = "RemoteIce" THEN ices' = ices + 1 /\ e.n = ices + 1 ELSE ices' = ices
        BY <1>3 DEF Hears
      <4>8. events[i].n <= ices'
        BY <4>2, <4>7, <1>1, <3>2
      <4> QED
        BY <4>1, <4>5, <4>6, <4>7, <4>8
    <3> QED
      BY <3>1, <3>2, <2>2, <1>1
  <2> QED
    BY <2>1, <2>3 DEF Numbered
<1>4. CASE TickSignaling
  <2>1. PICK m \in 0 .. Len(events) : events' = Rest(events, m)
    BY <1>4, TickReads DEF Reads
  <2>2. ices' = ices
    BY <1>4 DEF TickSignaling
  <2>3. Len(events') = Len(events) - m /\ \A i \in 1 .. Len(events) - m : events'[i] = events[m + i]
    BY <2>1, <1>1, RestProperties
  <2>4. ASSUME NEW i \in 1 .. Len(events') PROVE Rest(events', i) = Rest(events, m + i) /\ m + i \in 1 .. Len(events)
    <3>1. i \in 0 .. Len(events) - m /\ m + i \in 1 .. Len(events)
      BY <2>3, <1>1
    <3> QED
      BY <3>1, <2>1, <1>1, RestOfRest
  <2>5. ASSUME NEW i \in 1 .. Len(events'), events'[i].kind = "Offer"
        PROVE  events'[i].n <= ices' /\ Candidates(Rest(events', i)) = Run(events'[i].n, ices')
    <3>1. events'[i] = events[m + i] /\ m + i \in 1 .. Len(events) /\ Rest(events', i) = Rest(events, m + i)
      BY <2>3, <2>4
    <3> QED
      BY <3>1, <2>2, <2>5 DEF Numbered
  <2> QED
    BY <2>5 DEF Numbered
<1>5. CASE TickStreaming
  <2>1. Len(events') = 0
    BY <1>5 DEF TickStreaming
  <2> QED
    BY <2>1 DEF Numbered
<1> QED
  BY <1>2, <1>3, <1>4, <1>5, EventSteps

(* The queues keep what they hold between them when it moves along.          *)
LEMMA MovesOn ==
  ASSUME NEW S, NEW a \in Seq(S), NEW b \in Seq(S), NEW c \in Seq(S), NEW bc, bc = b \o c
  PROVE  a \o bc \o << >> = a \o b \o c
<1>1. bc \in Seq(S) /\ a \o bc \in Seq(S) /\ << >> \in Seq(S)
  BY ConcatProperties, EmptySeq
<1>2. a \o bc \o << >> = a \o bc
  BY <1>1, ConcatEmptySeq
<1>3. (a \o b) \o c = a \o (b \o c)
  BY ConcatAssociative, SMTT(30)
<1> QED
  BY <1>2, <1>3, Zenon

LEMMA MovesIn ==
  ASSUME NEW S, NEW a \in Seq(S), NEW b \in Seq(S)
  PROVE  (a \o b) \o << >> = a \o b /\ << >> \o << >> \o a = a
<1>1. a \o b \in Seq(S) /\ << >> \in Seq(S)
  BY ConcatProperties, EmptySeq
<1> QED
  BY <1>1, ConcatEmptySeq

LEMMA GrowsBehind ==
  ASSUME NEW S, NEW a \in Seq(S), NEW c \in Seq(S), NEW x \in S
  PROVE  a \o Append(c, x) = Append(a \o c, x)
<1>1. <<x>> \in Seq(S) /\ a \o c \in Seq(S)
  BY ConcatProperties
<1>2. Append(c, x) = c \o <<x>> /\ Append(a \o c, x) = (a \o c) \o <<x>>
  BY <1>1, AppendIsConcat
<1> QED
  BY <1>1, <1>2, ConcatAssociative, SMTT(30)

(* No number of a run is Close.                                              *)
LEMMA NoCloseInRun ==
  ASSUME NEW a \in Seq(Nat), NEW b \in Seq(Nat), NEW c \in Seq(Nat),
         NEW m \in Nat, NEW n \in Nat, m <= n, a \o b \o c = Run(m, n)
  PROVE  \A k \in 1 .. Len(b) : b[k] # Close
<1> SUFFICES ASSUME NEW k \in 1 .. Len(b) PROVE b[k] # Close
  OBVIOUS
<1>1. Len(a) \in Nat /\ Len(b) \in Nat /\ Len(c) \in Nat
  BY LenProperties
<1>2. PICK ab : ab = a \o b
  OBVIOUS
<1>3. ab \in Seq(Nat) /\ Len(ab) = Len(a) + Len(b) /\ ab[Len(a) + k] = b[k]
  <2>1. Len(a) + k \in 1 .. Len(a) + Len(b) /\ ~ (Len(a) + k <= Len(a)) /\ (Len(a) + k) - Len(a) = k
    BY <1>1
  <2> QED
    BY <1>2, <2>1, ConcatProperties
<1>4. PICK r : r = ab \o c
  OBVIOUS
<1>5. r \in Seq(Nat) /\ Len(r) = Len(ab) + Len(c) /\ r[Len(a) + k] = b[k]
  <2>1. Len(a) + k \in 1 .. Len(ab) + Len(c) /\ Len(a) + k <= Len(ab)
    BY <1>1, <1>3
  <2> QED
    BY <1>3, <1>4, <2>1, ConcatProperties
<1>6. r = [i \in 1 .. (n - m) |-> m + i]
  BY <1>2, <1>4 DEF Run
<1>7. Len(r) = n - m
  BY <1>6
<1>8. Len(a) + k \in 1 .. (n - m)
  BY <1>1, <1>3, <1>5, <1>7
<1>9. b[k] = m + (Len(a) + k)
  BY <1>5, <1>6, <1>8
<1> QED
  BY <1>1, <1>9 DEF Close

(* The candidates move from queue to queue and are counted on.               *)
LEMMA StepFlowing ==
  ASSUME IceInv, [Next]_vars
  PROVE  Flowing'
<1> USE DEF IceInv
<1>1. events \in Seq(Events) /\ Len(events) \in Nat /\ ices \in Nat /\ iceBase \in Nat
  BY LenProperties DEF Queues
<1>2. Candidates(events) \in Seq(Nat)
  BY <1>1, CandidatesTyped
<1>3. CASE User
  BY <1>3 DEF User, Connect, ToggleConfirmExit, ConfirmExitSession, CancelConfirmExit,
              LinkScreens, Ended, sockVars, peerVars, Flowing
<1>4. CASE TickSignaling
  <2> SUFFICES ASSUME screen' = "Streaming" PROVE Flowing'
    BY DEF Flowing
  <2>1. PICK m \in 0 .. Len(events) :
          /\ events' = Rest(events, m)
          /\ m # 0 /\ events[m].kind = "Offer" /\ iceBase' = events[m].n
    BY <1>4, TickReads DEF Reads
  <2>2. events[m].n <= ices /\ Candidates(events') = Run(iceBase', ices)
    <3>1. m \in 1 .. Len(events)
      BY <2>1, <1>1
    <3> QED
      BY <3>1, <2>1 DEF Numbered
  <2>3. UNCHANGED <<ices, peerCommands, applied>> /\ peerCommands = << >> /\ applied = << >>
    BY <1>4 DEF TickSignaling, Unheard
  <2>4. Candidates(events') \in Seq(Nat)
    <3>1. events' \in Seq(Events)
      BY <2>1, <1>1, RestProperties
    <3> QED
      BY <3>1, CandidatesTyped
  <2>5. << >> \o << >> \o Candidates(events') = Candidates(events') /\ << >> \in Seq(Nat)
    BY <2>4, MovesIn, EmptySeq
  <2> QED
    BY <2>1, <2>2, <2>3, <2>5 DEF Flowing
<1>5. CASE TickStreaming
  <2> SUFFICES ASSUME screen' = "Streaming" PROVE Flowing'
    BY DEF Flowing
  <2>1. peerCommands' = peerCommands \o Candidates(events)
    BY <1>5, TickPasses
  <2>2. events' = << >> /\ UNCHANGED <<ices, iceBase, applied>> /\ screen = "Streaming"
    BY <1>5 DEF TickStreaming
  <2>3. peerCommands' \in Seq(Nat)
    BY <2>1, <2>2, <1>2, ConcatProperties DEF Flowing
  <2>4. applied \o peerCommands' \o << >> = applied \o peerCommands \o Candidates(events)
    <3>1. applied \in Seq(Nat) /\ peerCommands \in Seq(Nat)
      BY <2>2 DEF Flowing
    <3>2. PICK S : S = Nat
      OBVIOUS
    <3>3. applied \in Seq(S) /\ peerCommands \in Seq(S) /\ Candidates(events) \in Seq(S)
      BY <3>1, <3>2, <1>2
    <3> QED
      BY <3>3, <2>1, MovesOn
  <2> QED
    BY <2>2, <2>3, <2>4, CandidatesEmpty DEF Flowing
<1>6. ASSUME NEW e \in Events, Hears(e) PROVE Flowing'
  <2> SUFFICES ASSUME screen' = "Streaming" PROVE Flowing'
    BY DEF Flowing
  <2>1. screen = "Streaming" /\ UNCHANGED <<iceBase, applied, peerCommands>>
        /\ events' = Append(events, e)
    BY <1>6 DEF Hears, appVars, peerVars
  <2>2. PICK r : r = applied \o peerCommands /\ r \in Seq(Nat)
    BY <2>1, ConcatProperties DEF Flowing
  <2>3. r \o Candidates(events) = Run(iceBase, ices) /\ iceBase <= ices
    BY <2>1, <2>2 DEF Flowing
  <2>4. CASE e.kind = "RemoteIce"
    <3>1. e.n = ices + 1 /\ ices' = ices + 1 /\ ices + 1 \in Nat /\ iceBase <= ices + 1
      BY <2>3, <2>4, <1>1, <1>6 DEF Hears
    <3>2. Candidates(events') = Append(Candidates(events), ices + 1)
      BY <2>1, <2>4, <3>1, <1>1, CandidatesGrow
    <3>3. r \o Append(Candidates(events), ices + 1) = Append(r \o Candidates(events), ices + 1)
      BY <2>2, <3>1, <1>2, GrowsBehind, SMTT(30)
    <3>4. Append(Run(iceBase, ices), ices + 1) = Run(iceBase, ices + 1)
      BY <2>3, <1>1, RunGrows
    <3>5. r \o Candidates(events') = Run(iceBase, ices + 1)
      BY <3>2, <3>3, <3>4, <2>3
    <3> QED
      BY <2>1, <2>2, <3>1, <3>5 DEF Flowing
  <2>5. CASE e.kind # "RemoteIce"
    <3>1. ices' = ices /\ Candidates(events') = Candidates(events)
      BY <2>1, <2>5, <1>1, <1>6, CandidatesGrow DEF Hears
    <3> QED
      BY <2>1, <2>2, <2>3, <3>1 DEF Flowing
  <2> QED
    BY <2>4, <2>5
<1>7. CASE PeerCommands
  <2> SUFFICES ASSUME screen' = "Streaming" PROVE Flowing'
    BY DEF Flowing
  <2>1. screen = "Streaming" /\ UNCHANGED <<events, ices, iceBase>> /\ peerCommands' = << >>
    BY <1>7 DEF PeerCommands, appVars, sockVars
  <2>2. \A k \in 1 .. Len(peerCommands) : peerCommands[k] # Close
    BY <2>1, <1>1, <1>2, NoCloseInRun DEF Flowing
  <2>3. SelectInSeq(peerCommands, LAMBDA c : c = Close) = 0
    BY <2>2 DEF SelectInSeq
  <2>4. applied' = applied \o peerCommands
    BY <2>3, <1>7 DEF PeerCommands, UpTo
  <2>5. applied' \in Seq(Nat) /\ << >> \in Seq(Nat)
    BY <2>1, <2>4, ConcatProperties, EmptySeq DEF Flowing
  <2>6. (applied \o peerCommands) \o << >> = applied \o peerCommands
    BY <2>1, MovesIn DEF Flowing
  <2> QED
    BY <2>1, <2>4, <2>5, <2>6 DEF Flowing
<1>8. CASE UNCHANGED <<events, ices>> /\ UNCHANGED <<appVars, iceBase, applied, peerCommands>>
  BY <1>8 DEF appVars, Flowing
<1>9. User \/ Tick \/ PeerCommands \/ UNCHANGED <<appVars, iceBase, applied, peerCommands>>
  BY DEF Next, SocketTask, Connected, ConnectFailed, TakeCommand, Receive, ReceiveEnd,
         ReceiveTransportError, PeerThread, PeerReady, PeerLost, PeerRuntimeFails, StopArrives,
         peerVars, vars
<1> QED
  BY <1>3, <1>4, <1>5, <1>6, <1>7, <1>8, <1>9, EventSteps DEF Tick

(* It holds initially and is kept, so it holds in every state.               *)
LEMMA AlwaysIceInv == Spec => []IceInv
<1>1. Init => IceInv
  BY DEF Init, IceInv, Queues, Unheard, Numbered, Flowing
<1>2. IceInv /\ [Next]_vars => IceInv'
  BY StepQueues, StepUnheard, StepNumbered, StepFlowing DEF IceInv
<1> QED
  BY <1>1, <1>2, PTL DEF Spec

(* IceInOrder: whatever the batches, the queues and the two tasks do, the    *)
(* peer is given each candidate behind the accepted offer, once and in order.*)
THEOREM CandidatesInOrder == Spec => []IceInOrder
<1>1. IceInv => IceInOrder
  BY DEF IceInv, Flowing, IceInOrder, Run
<1> QED
  BY <1>1, AlwaysIceInv, PTL

-----------------------------------------------------------------------------
(* The few contents that the queues of the answer and of Close can have.     *)

LEMMA AppendOne ==
  ASSUME NEW a
  PROVE  Append(<< >>, a) = <<a>> /\ << >> \o <<a>> = <<a>>
OBVIOUS

LEMMA AppendTwo ==
  ASSUME NEW a, NEW b
  PROVE  Append(<<a>>, b) = <<a, b>> /\ << >> \o <<a, b>> = <<a, b>>
<1>1. PICK E : E = {a, b}
  OBVIOUS
<1>2. <<a>> \in Seq(E) /\ Len(<<a>>) = 1 /\ <<a>>[1] = a /\ a \in E /\ b \in E
  BY <1>1
<1>3. PICK t : t = Append(<<a>>, b)
  OBVIOUS
<1>4. t \in Seq(E) /\ Len(t) = 2 /\ t[2] = b /\ t[1] = a
  BY <1>2, <1>3, AppendProperties
<1>5. t = <<a, b>>
  BY <1>2, <1>4
<1>6. << >> \o <<a, b>> = <<a, b>>
  OBVIOUS
<1> QED
  BY <1>3, <1>5, <1>6

LEMMA AppendThree ==
  ASSUME NEW a, NEW b, NEW c
  PROVE  Append(<<a, b>>, c) = <<a, b, c>> /\ <<a, b>> \o <<c>> = <<a, b, c>>
<1>1. PICK E : E = {a, b, c}
  OBVIOUS
<1>2. /\ <<a, b>> \in Seq(E) /\ Len(<<a, b>>) = 2 /\ <<a, b>>[1] = a /\ <<a, b>>[2] = b
      /\ a \in E /\ b \in E /\ c \in E
  BY <1>1
<1>3. PICK t : t = Append(<<a, b>>, c)
  OBVIOUS
<1>4. t \in Seq(E) /\ Len(t) = 3 /\ t[3] = c /\ t[2] = b /\ t[1] = a
  BY <1>2, <1>3, AppendProperties
<1>5. t = <<a, b, c>>
  BY <1>2, <1>4
<1>6. <<a, b>> \o <<c>> = t
  BY <1>2, <1>3, AppendIsConcat
<1> QED
  BY <1>3, <1>5, <1>6

Letters == {"PeerInfo", "Answer", "LocalIce", "Close", "Disconnected", "Error"}

LEMMA PassesOn ==
  ASSUME NEW s \in Seq(Letters), NEW e \in Letters, NEW t, t = Append(s, e)
  PROVE  ForSocket(t) = IF e \in {"Answer", "LocalIce"} THEN Append(ForSocket(s), e)
                                                        ELSE ForSocket(s)
<1> DEFINE kept == {"Answer", "LocalIce"}
<1> HIDE DEF kept
<1>1. Selected(t, kept) = IF e \in kept THEN Append(Selected(s, kept), e) ELSE Selected(s, kept)
  BY SelectedGrows
<1> QED
  BY <1>1 DEF kept, ForSocket

(* All that App ever passes on to the server is the answer and the           *)
(* candidate behind it.                                                      *)
LEMMA PassedOn ==
  /\ ForSocket(<< >>) = << >>
  /\ ForSocket(<<"Error">>) = << >>
  /\ ForSocket(<<"Answer", "LocalIce">>) = <<"Answer", "LocalIce">>
<1>1. PICK nil, error, answer, both :
        /\ nil = << >> /\ error = <<"Error">> /\ answer = <<"Answer">>
        /\ both = <<"Answer", "LocalIce">>
  OBVIOUS
<1>2. /\ error = Append(nil, "Error") /\ answer = Append(nil, "Answer")
      /\ both = Append(answer, "LocalIce")
  BY <1>1, AppendOne, AppendTwo
<1>3. /\ nil \in Seq(Letters) /\ answer \in Seq(Letters)
      /\ {"Error", "Answer", "LocalIce"} \subseteq Letters
  BY <1>1 DEF Letters
<1>4. ForSocket(nil) = nil
  BY <1>1, SelectedEmpty DEF ForSocket
<1>5. ForSocket(error) = nil
  <2>1. error = Append(nil, "Error") /\ nil \in Seq(Letters) /\ "Error" \in Letters
    BY <1>2, <1>3
  <2>2. ForSocket(error) = ForSocket(nil)
    BY <2>1, PassesOn
  <2> QED
    BY <2>2, <1>4
<1>6. ForSocket(answer) = answer
  <2>1. answer = Append(nil, "Answer") /\ nil \in Seq(Letters) /\ "Answer" \in Letters
    BY <1>2, <1>3
  <2>2. ForSocket(answer) = Append(ForSocket(nil), "Answer")
    BY <2>1, PassesOn
  <2> QED
    BY <2>1, <2>2, <1>4
<1>7. ForSocket(both) = both
  <2>1. both = Append(answer, "LocalIce") /\ answer \in Seq(Letters) /\ "LocalIce" \in Letters
    BY <1>2, <1>3
  <2>2. ForSocket(both) = Append(ForSocket(answer), "LocalIce")
    BY <2>1, PassesOn
  <2> QED
    BY <2>1, <2>2, <1>6
<1> QED
  BY <1>1, <1>4, <1>5, <1>7

(* ... also when the queue ends with the loss that ends the session.         *)
PeerWords == {<< >>, <<"Answer", "LocalIce">>, <<"Disconnected">>,
              <<"Answer", "LocalIce", "Disconnected">>, <<"Error">>}
Passed(es) == ForSocket(UpTo(FirstLoss(es), es))

LEMMA PassedUpTo ==
  ASSUME NEW es \in PeerWords
  PROVE  /\ Passed(es) \in {<< >>, <<"Answer", "LocalIce">>}
         /\ es \in {<< >>, <<"Disconnected">>} => Passed(es) = << >>
<1>1. CASE es \in {<< >>, <<"Error">>, <<"Answer", "LocalIce">>}
  <2>1. Len(es) \in Nat /\ \A i \in 1 .. Len(es) : es[i] # "Disconnected"
    BY <1>1
  <2>2. FirstLoss(es) = 0
    BY <2>1, FirstLossLeast
  <2>3. Passed(es) = ForSocket(es)
    BY <2>2 DEF Passed, UpTo
  <2> QED
    BY <2>3, <1>1, PassedOn
<1>2. CASE es = <<"Disconnected">>
  <2>1. Len(es) = 1 /\ es[1] = "Disconnected"
    BY <1>2
  <2>2. FirstLoss(es) = 1
    BY <2>1, FirstLossLeast
  <2>3. UpTo(1, es) = << >>
    BY <2>1, SubSeqEmpty DEF UpTo
  <2> QED
    BY <2>2, <2>3, PassedOn DEF Passed
<1>3. CASE es = <<"Answer", "LocalIce", "Disconnected">>
  <2>1. Len(es) = 3 /\ es[1] = "Answer" /\ es[2] = "LocalIce" /\ es[3] = "Disconnected"
    BY <1>3
  <2>2. FirstLoss(es) = 3
    BY <2>1, FirstLossLeast
  <2>3. UpTo(3, es) = <<"Answer", "LocalIce">>
    <3>1. PICK t : t = SubSeq(es, 1, 2)
      OBVIOUS
    <3>2. t \in Seq(Letters) /\ Len(t) = 2 /\ t[1] = "Answer" /\ t[2] = "LocalIce"
      <4>1. \A i \in 1 .. 2 : es[i] \in Letters
        BY <2>1 DEF Letters
      <4> QED
        BY <4>1, <3>1, <2>1, SubSeqProperties
    <3>3. t = <<"Answer", "LocalIce">>
      BY <3>2 DEF Letters
    <3>4. UpTo(3, es) = SubSeq(es, 1, 3 - 1) /\ 3 - 1 = 2
      BY DEF UpTo
    <3> QED
      BY <3>1, <3>3, <3>4
  <2>4. es \notin {<< >>, <<"Disconnected">>}
    BY <2>1
  <2> QED
    BY <2>2, <2>3, <2>4, PassedOn DEF Passed
<1> QED
  BY <1>1, <1>2, <1>3 DEF PeerWords

-----------------------------------------------------------------------------
(* The answer, the candidate and the Close on their way to the server.       *)

(* What the peer thread has said and App has not read yet.                   *)
Spoken ==
  /\ peer \in {"none", "setup"} => peerEvents = << >>
  /\ peer = "running" => peerEvents \in {<< >>, <<"Answer", "LocalIce">>}
  /\ peerEvents \in PeerWords

(* The commands queued for a socket: without and with a Close.               *)
OpenWords == {<< >>, <<"Answer", "LocalIce">>, <<"LocalIce">>}
ShutWords == {<<"Close">>, <<"Answer", "LocalIce", "Close">>, <<"LocalIce", "Close">>}

(* What was written and what is queued make up one dialogue: nothing before  *)
(* the socket is up; then peer_info, and when the peer has said so, once,    *)
(* the answer and its candidate.                                             *)
Silent  == commands \in {<< >>, <<"Close">>}
Pending == /\ written = <<"PeerInfo">>
           /\ commands \in {<<"Answer", "LocalIce">>, <<"Answer", "LocalIce", "Close">>}
Halfway == /\ written = <<"PeerInfo", "Answer">>
           /\ commands \in {<<"LocalIce">>, <<"LocalIce", "Close">>}
Through == written = <<"PeerInfo", "Answer", "LocalIce">> /\ Silent
Said    == peer \notin {"none", "setup"} /\ peerEvents \in {<< >>, <<"Disconnected">>}
Dialogue ==
  \/ written = << >> /\ Silent /\ socket # "open" /\ peer = "none"
  \/ /\ socket \notin {"none", "connecting"}
     /\ (written = <<"PeerInfo">> /\ Silent) \/ (Said /\ (Pending \/ Halfway \/ Through))

(* An offer is heard on an open socket only, and a Disconnected is the last  *)
(* thing a socket says.                                                      *)
Heard ==
  \A i \in 1 .. Len(events) :
    /\ events[i].kind = "Offer" => written # << >>
    /\ events[i].kind = "Disconnected" => socket = "ended"

(* App closes a socket once, when it leaves the session.                     *)
Closing ==
  /\ screen = "SessionReady" => socket = "none"
  /\ screen \notin Ended => commands \in OpenWords
  /\ screen \in Ended /\ socket \in {"connecting", "open"} => commands \in ShutWords

AnswerInv == Queues /\ Unheard /\ Spoken /\ Dialogue /\ Heard /\ Closing

(* The words, spelled out.                                                   *)
LEMMA OpenWordsApart ==
  ASSUME NEW w \in OpenWords
  PROVE  /\ w \in {<< >>, <<"Close">>} => w = << >>
         /\ w \in {<<"Answer", "LocalIce">>, <<"Answer", "LocalIce", "Close">>}
              => w = <<"Answer", "LocalIce">>
         /\ w \in {<<"LocalIce">>, <<"LocalIce", "Close">>} => w = <<"LocalIce">>
<1>1. \A v \in OpenWords \cap {<< >>, <<"Close">>} : v = << >>
  BY DEF OpenWords
<1>2. \A v \in OpenWords \cap {<<"Answer", "LocalIce">>, <<"Answer", "LocalIce", "Close">>} :
        v = <<"Answer", "LocalIce">>
  BY DEF OpenWords
<1>3. \A v \in OpenWords \cap {<<"LocalIce">>, <<"LocalIce", "Close">>} : v = <<"LocalIce">>
  BY DEF OpenWords
<1> QED
  BY <1>1, <1>2, <1>3, Zenon

LEMMA ClosedWords ==
  ASSUME NEW w \in OpenWords
  PROVE  /\ Append(w, "Close") \in ShutWords
         /\ w = << >> => Append(w, "Close") = <<"Close">>
         /\ w = <<"Answer", "LocalIce">> => Append(w, "Close") = <<"Answer", "LocalIce", "Close">>
         /\ w = <<"LocalIce">> => Append(w, "Close") = <<"LocalIce", "Close">>
<1>1. Append(<< >>, "Close") = <<"Close">>
  BY AppendOne
<1>2. Append(<<"Answer", "LocalIce">>, "Close") = <<"Answer", "LocalIce", "Close">>
  BY AppendThree
<1>3. Append(<<"LocalIce">>, "Close") = <<"LocalIce", "Close">>
  BY AppendTwo
<1> QED
  BY <1>1, <1>2, <1>3, Zenon DEF OpenWords, ShutWords

LEMMA WrittenWords ==
  /\ Append(<< >>, "PeerInfo") = <<"PeerInfo">>
  /\ Append(<<"PeerInfo">>, "Answer") = <<"PeerInfo", "Answer">>
  /\ Append(<<"PeerInfo", "Answer">>, "LocalIce") = <<"PeerInfo", "Answer", "LocalIce">>
BY AppendOne, AppendTwo, AppendThree, Zenon

LEMMA TakenWords ==
  /\ Head(<<"Close">>) = "Close"
  /\ Head(<<"LocalIce">>) = "LocalIce" /\ Tail(<<"LocalIce">>) = << >>
  /\ Head(<<"LocalIce", "Close">>) = "LocalIce" /\ Tail(<<"LocalIce", "Close">>) = <<"Close">>
  /\ Head(<<"Answer", "LocalIce">>) = "Answer" /\ Tail(<<"Answer", "LocalIce">>) = <<"LocalIce">>
  /\ Head(<<"Answer", "LocalIce", "Close">>) = "Answer"
  /\ Tail(<<"Answer", "LocalIce", "Close">>) = <<"LocalIce", "Close">>
OBVIOUS

LEMMA SpokenWords ==
  /\ << >> \o <<"Answer", "LocalIce">> = <<"Answer", "LocalIce">>
  /\ << >> \o <<"Disconnected">> = <<"Disconnected">>
  /\ << >> \o <<"Error">> = <<"Error">>
  /\ <<"Answer", "LocalIce">> \o <<"Disconnected">> = <<"Answer", "LocalIce", "Disconnected">>
  /\ \A w \in OpenWords : w \o << >> = w
<1>1. << >> \o << >> = << >> /\ <<"LocalIce">> \o << >> = <<"LocalIce">>
      /\ <<"Answer", "LocalIce">> \o << >> = <<"Answer", "LocalIce">>
  OBVIOUS
<1> QED
  BY <1>1, AppendOne, AppendTwo, AppendThree, Zenon DEF OpenWords

(* The peer speaks once, and is heard at once and whole.                     *)
LEMMA StepSpoken ==
  ASSUME Unheard, Spoken, [Next]_vars
  PROVE  Spoken'
<1>1. CASE PeerReady \/ PeerRuntimeFails
  BY <1>1, SpokenWords DEF PeerReady, PeerRuntimeFails, PeerEmit, Spoken, PeerWords
<1>2. CASE PeerLost
  BY <1>2, SpokenWords DEF PeerLost, PeerEmit, Spoken, PeerWords
<1>3. CASE TickSignaling
  <2>1. peerEvents = << >> /\ peerEvents' = peerEvents
    BY <1>3 DEF TickSignaling, Unheard, Spoken
  <2> QED
    BY <2>1 DEF Spoken, PeerWords
<1>4. CASE TickStreaming
  BY <1>4 DEF TickStreaming, Spoken, PeerWords
<1>5. CASE PeerCommands
  BY <1>5 DEF PeerCommands, Spoken
<1>6. CASE User \/ SocketTask \/ StopArrives \/ UNCHANGED vars
  BY <1>6 DEF User, Connect, ToggleConfirmExit, ConfirmExitSession, CancelConfirmExit,
              SocketTask, Connected, ConnectFailed, TakeCommand, Receive, ReceiveEnd,
              ReceiveTransportError, StopArrives, vars, peerVars, Spoken
<1> QED
  BY <1>1, <1>2, <1>3, <1>4, <1>5, <1>6 DEF Next, Tick, PeerThread

(* What App has queued after a tick on Streaming, before it may add a Close. *)
Says(said) ==
  \/ written = << >> /\ said = << >> /\ socket # "open" /\ peer = "none"
  \/ /\ socket \notin {"none", "connecting"}
     /\ \/ written = <<"PeerInfo">> /\ said = << >>
        \/ /\ peer \notin {"none", "setup"}
           /\ \/ written = <<"PeerInfo">> /\ said = <<"Answer", "LocalIce">>
              \/ written = <<"PeerInfo", "Answer">> /\ said = <<"LocalIce">>
              \/ written = <<"PeerInfo", "Answer", "LocalIce">> /\ said = << >>

LEMMA SaysOn ==
  ASSUME Spoken, Dialogue, commands \in OpenWords,
         NEW said, said = commands \o Passed(peerEvents)
  PROVE  said \in OpenWords /\ Says(said)
<1>1. peerEvents \in PeerWords
  BY DEF Spoken
<1>2. Passed(peerEvents) \in {<< >>, <<"Answer", "LocalIce">>}
      /\ (peerEvents \in {<< >>, <<"Disconnected">>} => Passed(peerEvents) = << >>)
  BY <1>1, PassedUpTo
<1>3. commands \o << >> = commands
  BY SpokenWords
<1>4. CASE Passed(peerEvents) = << >>
  <2>1. said = commands
    BY <1>3, <1>4
  <2>2. /\ commands \in {<< >>, <<"Close">>} => commands = << >>
        /\ commands \in {<<"Answer", "LocalIce">>, <<"Answer", "LocalIce", "Close">>}
             => commands = <<"Answer", "LocalIce">>
        /\ commands \in {<<"LocalIce">>, <<"LocalIce", "Close">>} => commands = <<"LocalIce">>
    BY OpenWordsApart, Zenon
  <2> QED
    BY <2>1, <2>2, Zenon DEF Dialogue, Silent, Pending, Halfway, Through, Said, Says
<1>5. CASE Passed(peerEvents) = <<"Answer", "LocalIce">>
  <2>1. peerEvents \notin {<< >>, <<"Disconnected">>} /\ peer \notin {"none", "setup"}
    <3>1. << >> # <<"Answer", "LocalIce">>
      OBVIOUS
    <3>2. peerEvents \notin {<< >>, <<"Disconnected">>}
      BY <3>1, <1>2, <1>5
    <3> QED
      BY <3>2 DEF Spoken
  <2>2. socket \notin {"none", "connecting"} /\ written = <<"PeerInfo">> /\ Silent
    BY <2>1 DEF Dialogue, Said
  <2>3. commands = << >>
    BY <2>2, OpenWordsApart, Zenon DEF Silent
  <2>4. said = <<"Answer", "LocalIce">>
    BY <2>3, <1>5, SpokenWords
  <2> QED
    BY <2>1, <2>2, <2>4 DEF OpenWords, Says
<1> QED
  BY <1>2, <1>4, <1>5

(* The commands after a tick on Streaming.                                   *)
LEMMA TickSays ==
  ASSUME AnswerInv, TickStreaming
  PROVE  \/ screen' = "Streaming" /\ commands' = commands \o Passed(peerEvents)
         \/ screen' = "Error" /\ commands' = Append(commands \o Passed(peerEvents), "Close")
<1>1. screen = "Streaming" \/ screen' = "Error"
  BY DEF TickStreaming
<1>2. PICK j : /\ j = FirstLoss(peerEvents)
               /\ \/ /\ screen' = screen
                     /\ commands' = commands \o ForSocket(UpTo(j, peerEvents))
                  \/ /\ screen' = "Error"
                     /\ commands' = Append(commands \o ForSocket(UpTo(j, peerEvents)), "Close")
  BY DEF TickStreaming
<1> QED
  BY <1>2 DEF Passed, TickStreaming

(* TakeCommand goes on in the dialogue, or ends it.                          *)
LEMMA TakeSays ==
  ASSUME Dialogue, TakeCommand
  PROVE  /\ Dialogue'
         /\ socket' # "ended" =>
              /\ socket' = "open" /\ written' # << >>
              /\ commands \in OpenWords => commands' \in OpenWords
              /\ commands \in ShutWords => commands' \in ShutWords
<1>1. socket = "open" /\ UNCHANGED <<peer, peerEvents, screen>>
  BY DEF TakeCommand, peerVars, appVars
<1>2. (written = <<"PeerInfo">> /\ Silent) \/ (Said /\ (Pending \/ Halfway \/ Through))
  BY <1>1 DEF Dialogue
<1>3. CASE socket' = "ended" /\ UNCHANGED <<commands, written>>
  BY <1>1, <1>2, <1>3 DEF Dialogue, Said, Silent, Pending, Halfway, Through
<1>4. ASSUME commands # << >>, Head(commands) # "Close", socket' = socket,
             written' = Append(written, Head(commands)), commands' = Tail(commands)
      PROVE  /\ Dialogue' /\ socket' = "open" /\ written' # << >>
             /\ commands \in OpenWords => commands' \in OpenWords
             /\ commands \in ShutWords => commands' \in ShutWords
  <2>1. ~ Silent
    BY <1>4, TakenWords DEF Silent
  <2>2. Said' /\ (Pending \/ Halfway)
    BY <2>1, <1>1, <1>2 DEF Said, Through
  <2>3. CASE Pending /\ commands = <<"Answer", "LocalIce">>
    <3>1. written' = <<"PeerInfo", "Answer">> /\ commands' = <<"LocalIce">>
      BY <2>3, <1>4, TakenWords, WrittenWords DEF Pending
    <3>2. Halfway' /\ written' # << >> /\ commands \notin ShutWords /\ commands' \in OpenWords
      BY <2>3, <3>1 DEF Halfway, OpenWords, ShutWords
    <3> QED
      BY <2>2, <3>2, <1>1, <1>4 DEF Dialogue
  <2>4. CASE Pending /\ commands = <<"Answer", "LocalIce", "Close">>
    <3>1. written' = <<"PeerInfo", "Answer">> /\ commands' = <<"LocalIce", "Close">>
      BY <2>4, <1>4, TakenWords, WrittenWords DEF Pending
    <3>2. Halfway' /\ written' # << >> /\ commands \notin OpenWords /\ commands' \in ShutWords
      BY <2>4, <3>1 DEF Halfway, OpenWords, ShutWords
    <3> QED
      BY <2>2, <3>2, <1>1, <1>4 DEF Dialogue
  <2>5. CASE Halfway /\ commands = <<"LocalIce">>
    <3>1. written' = <<"PeerInfo", "Answer", "LocalIce">> /\ commands' = << >>
      BY <2>5, <1>4, TakenWords, WrittenWords DEF Halfway
    <3>2. Through' /\ written' # << >> /\ commands \notin ShutWords /\ commands' \in OpenWords
      BY <2>5, <3>1 DEF Through, Silent, OpenWords, ShutWords
    <3> QED
      BY <2>2, <3>2, <1>1, <1>4 DEF Dialogue
  <2>6. CASE Halfway /\ commands = <<"LocalIce", "Close">>
    <3>1. written' = <<"PeerInfo", "Answer", "LocalIce">> /\ commands' = <<"Close">>
      BY <2>6, <1>4, TakenWords, WrittenWords DEF Halfway
    <3>2. Through' /\ written' # << >> /\ commands \notin OpenWords /\ commands' \in ShutWords
      BY <2>6, <3>1 DEF Through, Silent, OpenWords, ShutWords
    <3> QED
      BY <2>2, <3>2, <1>1, <1>4 DEF Dialogue
  <2> QED
    BY <2>2, <2>3, <2>4, <2>5, <2>6 DEF Pending, Halfway
<1>5. \/ socket' = "ended" /\ UNCHANGED <<commands, written>>
      \/ /\ commands # << >> /\ Head(commands) # "Close" /\ socket' = socket
         /\ written' = Append(written, Head(commands)) /\ commands' = Tail(commands)
  BY DEF TakeCommand, Write
<1> QED
  BY <1>3, <1>4, <1>5

(* App's parting words: what is queued, and behind it a Close.               *)
LEMMA Parts ==
  ASSUME Spoken, Dialogue, commands \in OpenWords,
         commands' = Append(commands, "Close"), UNCHANGED <<written, socket, peer, peerEvents>>
  PROVE  Dialogue' /\ commands' \in ShutWords
<1>1. /\ commands' \in ShutWords
      /\ Silent => Silent'
      /\ Pending => Pending'
      /\ Halfway => Halfway'
      /\ Through => Through'
      /\ Said => Said'
  BY OpenWordsApart, ClosedWords DEF Silent, Pending, Halfway, Through, Said
<1>2. CASE written = << >> /\ Silent /\ socket # "open" /\ peer = "none"
  BY <1>1, <1>2 DEF Dialogue
<1>3. CASE socket \notin {"none", "connecting"} /\ written = <<"PeerInfo">> /\ Silent
  BY <1>1, <1>3 DEF Dialogue
<1>4. CASE socket \notin {"none", "connecting"} /\ Said /\ (Pending \/ Halfway \/ Through)
  BY <1>1, <1>4 DEF Dialogue
<1> QED
  BY <1>1, <1>2, <1>3, <1>4 DEF Dialogue

(* Every step goes on in the dialogue.                                       *)
LEMMA StepDialogue ==
  ASSUME AnswerInv, [Next]_vars
  PROVE  Dialogue'
<1> USE DEF AnswerInv
<1>1. CASE UNCHANGED <<written, commands, socket, peer, peerEvents>>
  BY <1>1 DEF Dialogue, Silent, Pending, Halfway, Through, Said
<1>2. CASE Connect
  <2>1. socket = "none" /\ socket' = "connecting" /\ UNCHANGED <<written, commands, peer, peerEvents>>
    BY <1>2 DEF Connect, Closing, peerVars
  <2> QED
    BY <2>1 DEF Dialogue, Silent
<1>3. CASE ConfirmExitSession
  <2>1. CASE UNCHANGED commands
    BY <2>1, <1>1, <1>3 DEF ConfirmExitSession
  <2>2. CASE screen \in LinkScreens /\ CloseHandle
    BY <2>2, <1>3, Parts DEF ConfirmExitSession, CloseHandle, Closing, LinkScreens, Ended
  <2> QED
    BY <2>1, <2>2, <1>3 DEF ConfirmExitSession
<1>4. CASE ToggleConfirmExit \/ CancelConfirmExit \/ StopArrives \/ UNCHANGED vars
  BY <1>4, <1>1 DEF ToggleConfirmExit, CancelConfirmExit, StopArrives, vars, sockVars, peerVars
<1>5. CASE TickSignaling
  <2>1. UNCHANGED <<written, commands, socket, peerEvents>> /\ screen = "Signaling"
    BY <1>5 DEF TickSignaling
  <2>2. PICK m \in 0 .. Len(events) : Reads(m)
    BY <1>5, TickReads
  <2>3. CASE peer' = peer
    BY <2>1, <2>3, <1>1
  <2>4. CASE m # 0 /\ events[m].kind = "Offer" /\ peer' = "setup"
    <3>1. m \in 1 .. Len(events)
      <4>1. Len(events) \in Nat
        BY LenProperties DEF Queues
      <4> QED
        BY <4>1, <2>4
    <3>2. written # << >> /\ peer = "none"
      BY <2>1, <2>4, <3>1 DEF Heard, Unheard
    <3> QED
      BY <2>1, <3>2 DEF Dialogue, Said, Silent
  <2> QED
    BY <2>2, <2>3, <2>4 DEF Reads
<1>6. CASE TickStreaming
  <2>1. /\ commands \in OpenWords /\ peerEvents' = << >>
        /\ UNCHANGED <<written, socket, peer>>
    BY <1>6 DEF TickStreaming, Closing, Ended
  <2>2. PICK said : said = commands \o Passed(peerEvents)
    OBVIOUS
  <2>4. said \in OpenWords /\ Says(said)
    BY <2>1, <2>2, SaysOn
  <2>5. commands' = said \/ commands' = Append(said, "Close")
    BY <2>2, <1>6, TickSays
  <2>6. /\ said = << >> => Silent'
        /\ said = <<"Answer", "LocalIce">>
             => commands' \in {<<"Answer", "LocalIce">>, <<"Answer", "LocalIce", "Close">>}
        /\ said = <<"LocalIce">> => commands' \in {<<"LocalIce">>, <<"LocalIce", "Close">>}
    BY <2>4, <2>5, ClosedWords DEF Silent
  <2> QED
    BY <2>1, <2>4, <2>6 DEF Says, Dialogue, Pending, Halfway, Through, Said, Silent
<1>7. CASE Connected
  <2>1. written = << >> /\ Silent /\ peer = "none"
    BY <1>7 DEF Connected, Dialogue
  <2>2. written' = <<"PeerInfo">> /\ socket' = "open" /\ UNCHANGED <<commands, peer>>
    BY <1>7, <2>1, WrittenWords DEF Connected, Write, peerVars
  <2> QED
    BY <2>1, <2>2 DEF Dialogue, Silent
<1>8. CASE ConnectFailed \/ ReceiveEnd \/ ReceiveTransportError \/ Receive
  <2>1. /\ socket' = socket \/ socket' \in {"ended", "failed"}
        /\ UNCHANGED <<written, commands, peer, peerEvents>>
    BY <1>8 DEF ConnectFailed, ReceiveEnd, ReceiveTransportError, Receive, peerVars
  <2> QED
    BY <2>1 DEF Dialogue, Silent, Pending, Halfway, Through, Said
<1>9. CASE TakeCommand
  BY <1>9, TakeSays
<1>10. CASE PeerReady \/ PeerRuntimeFails \/ (PeerLost /\ peer = "setup")
  <2>1. peer = "setup" /\ UNCHANGED <<written, commands, socket>>
    BY <1>10 DEF PeerReady, PeerRuntimeFails, PeerLost, sockVars
  <2> QED
    BY <2>1 DEF Dialogue, Silent, Said
<1>11. CASE PeerLost /\ peer = "running"
  <2>1. peer' = "ended" /\ UNCHANGED <<written, commands, socket>>
        /\ peerEvents' = peerEvents \o <<"Disconnected">>
    BY <1>11 DEF PeerLost, PeerEmit, sockVars
  <2>2. Said => Said'
    <3>1. peerEvents \in {<< >>, <<"Answer", "LocalIce">>}
      BY <1>11 DEF Spoken
    <3>2. <<"Answer", "LocalIce">> \notin {<< >>, <<"Disconnected">>}
      OBVIOUS
    <3> QED
      BY <3>1, <3>2, <2>1, SpokenWords DEF Said
  <2> QED
    BY <2>1, <2>2, <1>11 DEF Dialogue, Silent, Pending, Halfway, Through
<1>12. CASE PeerCommands
  <2>1. peer = "running" /\ peer' \in {"running", "ended"}
        /\ UNCHANGED <<written, commands, socket, peerEvents>>
    BY <1>12 DEF PeerCommands, sockVars
  <2> QED
    BY <2>1 DEF Dialogue, Silent, Pending, Halfway, Through, Said
<1>13. PeerLost => peer \in {"setup", "running"}
  BY DEF PeerLost
<1> QED
  BY <1>2, <1>3, <1>4, <1>5, <1>6, <1>7, <1>8, <1>9, <1>10, <1>11, <1>12, <1>13
  DEF Next, User, Tick, SocketTask, PeerThread

(* What was heard on the socket stays true of what is left to be read.       *)
LEMMA StepHeard ==
  ASSUME AnswerInv, [Next]_vars
  PROVE  Heard'
<1> USE DEF AnswerInv
<1>1. events \in Seq(Events) /\ Len(events) \in Nat
  BY LenProperties DEF Queues
<1>2. written # << >> => written' # << >>
  <2>1. written' = written \/ written = << >> \/ TakeCommand
    BY DEF Next, User, Connect, ToggleConfirmExit, ConfirmExitSession, CancelConfirmExit,
           Tick, TickSignaling, TickStreaming, SocketTask, Connected, ConnectFailed, Receive,
           ReceiveEnd, ReceiveTransportError, PeerThread, PeerReady, PeerLost, PeerRuntimeFails,
           PeerCommands, StopArrives, vars, sockVars, Dialogue
  <2>2. TakeCommand => written' = written \/ written' # << >>
    <3>1. CASE TakeCommand
      <4>1. Dialogue' /\ (socket' # "ended" => written' # << >>)
        BY <3>1, TakeSays
      <4>2. socket' = "ended" => written' = written \/ written' # << >>
        BY <3>1, <4>1 DEF Dialogue, TakeCommand
      <4> QED
        BY <4>1, <4>2
    <3> QED
      BY <3>1
  <2> QED
    BY <2>1, <2>2
<1>3. socket = "ended" => socket' = "ended"
  BY DEF Next, User, Connect, ToggleConfirmExit, ConfirmExitSession, CancelConfirmExit,
         Tick, TickSignaling, TickStreaming, SocketTask, Connected, ConnectFailed, TakeCommand,
         Receive, ReceiveEnd, ReceiveTransportError, PeerThread, PeerReady, PeerLost,
         PeerRuntimeFails, PeerCommands, StopArrives, vars, sockVars, Closing
<1>4. CASE events' = events
  BY <1>2, <1>3, <1>4 DEF Heard
<1>5. ASSUME NEW e \in Events, events' = Append(events, e),
             e.kind = "Offer" => written' # << >>, e.kind = "Disconnected" => socket' = "ended"
      PROVE  Heard'
  <2>1. PICK t : t = Append(events, e)
    OBVIOUS
  <2>2. /\ Len(t) = Len(events) + 1 /\ t[Len(events) + 1] = e
        /\ \A i \in 1 .. Len(events) : t[i] = events[i]
    BY <1>1, <2>1, AppendProperties
  <2>3. ASSUME NEW i \in 1 .. Len(t)
        PROVE  /\ t[i].kind = "Offer" => written' # << >>
               /\ t[i].kind = "Disconnected" => socket' = "ended"
    <3>1. i = Len(events) + 1 \/ i \in 1 .. Len(events)
      BY <2>2, <1>1
    <3> QED
      BY <3>1, <2>2, <1>2, <1>3, <1>5 DEF Heard
  <2> QED
    BY <2>1, <2>3, <1>5 DEF Heard
<1>6. CASE Connected \/ ConnectFailed \/ Receive \/ ReceiveEnd \/ ReceiveTransportError
  <2>1. PICK kind \in {"Connected", "Offer", "RemoteIce", "Error", "Disconnected"}, n \in 0 .. MaxIce :
          /\ Emit(Event(kind, n))
          /\ kind = "Offer" => socket = "open"
          /\ kind = "Disconnected" => socket' = "ended"
    <3>1. ices \in 0 .. MaxIce /\ (ices < MaxIce => ices + 1 \in 0 .. MaxIce) /\ 0 \in 0 .. MaxIce
      BY DEF Queues
    <3> QED
      BY <3>1, <1>6 DEF Connected, ConnectFailed, Receive, ReceiveEnd, ReceiveTransportError
  <2>2. Event(kind, n) \in Events /\ Event(kind, n).kind = kind
    BY DEF Event, Events
  <2>3. socket = "open" => written # << >>
    BY DEF Dialogue, Pending, Halfway, Through
  <2> QED
    BY <2>1, <2>2, <2>3, <1>2, <1>5 DEF Emit
<1>7. CASE TickSignaling
  <2>1. PICK m \in 0 .. Len(events) : events' = Rest(events, m)
    BY <1>7, TickReads DEF Reads
  <2>2. Len(events') = Len(events) - m /\ \A i \in 1 .. Len(events) - m : events'[i] = events[m + i]
    BY <2>1, <1>1, RestProperties
  <2>3. \A i \in 1 .. Len(events') : events'[i] = events[m + i] /\ m + i \in 1 .. Len(events)
    BY <2>2, <1>1
  <2> QED
    BY <2>3, <1>2, <1>3 DEF Heard
<1>8. CASE TickStreaming
  <2>1. Len(events') = 0
    BY <1>8 DEF TickStreaming
  <2> QED
    BY <2>1 DEF Heard
<1>9. CASE User \/ TakeCommand \/ PeerThread \/ StopArrives \/ UNCHANGED vars
  BY <1>9, <1>4 DEF User, Connect, ToggleConfirmExit, ConfirmExitSession, CancelConfirmExit,
                    TakeCommand, PeerThread, PeerReady, PeerLost, PeerRuntimeFails, PeerCommands,
                    StopArrives, sockVars, vars
<1> QED
  BY <1>6, <1>7, <1>8, <1>9 DEF Next, Tick, SocketTask

(* No step leaves a session and its socket open without a Close.             *)
LEMMA StepClosing ==
  ASSUME AnswerInv, [Next]_vars
  PROVE  Closing'
<1> USE DEF AnswerInv
<1>1. CASE /\ UNCHANGED <<screen, commands>>
           /\ socket' = socket \/ (screen # "SessionReady" /\ socket' \in {"ended", "failed"})
  BY <1>1 DEF Closing
<1>2. CASE Connect
  <2>1. screen' = "Signaling" /\ screen = "SessionReady" /\ commands' = commands
    BY <1>2 DEF Connect
  <2> QED
    BY <2>1 DEF Closing, Ended
<1>3. CASE ConfirmExitSession
  <2>1. CASE screen \in LinkScreens
    <3>1. commands \in OpenWords /\ commands' = Append(commands, "Close") /\ screen' = "GameDetail"
      BY <2>1, <1>3 DEF ConfirmExitSession, CloseHandle, Closing, LinkScreens, Ended
    <3>2. commands' \in ShutWords
      BY <3>1, ClosedWords
    <3> QED
      BY <3>1, <3>2 DEF Closing, Ended
  <2>2. CASE screen = "SessionReady"
    <3>1. socket' = "none" /\ screen' = "GameDetail"
      BY <2>2, <1>3 DEF ConfirmExitSession, LinkScreens, Ended, Closing
    <3> QED
      BY <3>1 DEF Closing, Ended
  <2> QED
    BY <2>1, <2>2, <1>1, <1>3 DEF ConfirmExitSession
<1>4. CASE TickSignaling
  <2>1. UNCHANGED <<commands, socket>> /\ screen = "Signaling"
    BY <1>4 DEF TickSignaling
  <2>2. PICK m \in 0 .. Len(events) : Reads(m)
    BY <1>4, TickReads
  <2>3. CASE screen' \in {"Signaling", "Streaming"}
    BY <2>1, <2>3 DEF Closing, Ended
  <2>4. CASE screen' = "Error" /\ \E i \in 1 .. Len(events) : events[i].kind = "Disconnected"
    <3>1. socket' = "ended"
      BY <2>1, <2>4 DEF Heard
    <3> QED
      BY <3>1, <2>4 DEF Closing, Ended
  <2> QED
    BY <2>2, <2>3, <2>4 DEF Reads
<1>5. CASE TickStreaming
  <2>1. commands \in OpenWords
    BY <1>5 DEF TickStreaming, Closing, Ended
  <2>2. PICK said : said = commands \o Passed(peerEvents) /\ said \in OpenWords
    BY <2>1, SaysOn
  <2>3. \/ screen' = "Streaming" /\ commands' = said
        \/ screen' = "Error" /\ commands' = Append(said, "Close")
    BY <2>2, <1>5, TickSays
  <2>4. Append(said, "Close") \in ShutWords
    BY <2>2, ClosedWords
  <2> QED
    BY <2>2, <2>3, <2>4 DEF Closing, Ended
<1>6. CASE Connected
  BY <1>6 DEF Connected, Closing, appVars
<1>7. CASE ConnectFailed \/ Receive \/ ReceiveEnd \/ ReceiveTransportError
  <2>1. screen # "SessionReady" \/ socket = "none"
    BY DEF Closing
  <2> QED
    BY <2>1, <1>7, <1>1 DEF ConnectFailed, Receive, ReceiveEnd, ReceiveTransportError, appVars
<1>8. CASE TakeCommand
  <2>1. screen' = screen /\ socket = "open" /\ screen # "SessionReady"
    BY <1>8 DEF TakeCommand, appVars, Closing
  <2>2. CASE socket' = "ended"
    <3>1. commands' = commands
      BY <1>8, <2>2 DEF TakeCommand
    <3> QED
      BY <2>1, <2>2, <3>1 DEF Closing
  <2>3. CASE socket' # "ended"
    BY <2>1, <2>3, <1>8, TakeSays DEF Closing
  <2> QED
    BY <2>2, <2>3
<1>9. CASE ToggleConfirmExit \/ CancelConfirmExit \/ PeerThread \/ StopArrives \/ UNCHANGED vars
  BY <1>9, <1>1 DEF ToggleConfirmExit, CancelConfirmExit, PeerThread, PeerReady, PeerLost,
                    PeerRuntimeFails, PeerCommands, StopArrives, appVars, sockVars, vars
<1> QED
  BY <1>2, <1>3, <1>4, <1>5, <1>6, <1>7, <1>8, <1>9 DEF Next, User, Tick, SocketTask

(* It holds initially and is kept, so it holds in every state.               *)
LEMMA AlwaysAnswerInv == Spec => []AnswerInv
<1>1. Init => AnswerInv
  BY DEF Init, AnswerInv, Queues, Unheard, Spoken, PeerWords, Dialogue, Silent, Heard, Closing,
         OpenWords, Ended
<1>2. AnswerInv /\ [Next]_vars => AnswerInv'
  <2>1. ASSUME AnswerInv, [Next]_vars PROVE AnswerInv'
    BY <2>1, StepQueues, StepUnheard, StepSpoken, StepDialogue, StepHeard, StepClosing DEF AnswerInv
  <2> QED
    BY <2>1
<1> QED
  BY <1>1, <1>2, PTL DEF Spec

(* The prefixes of the one dialogue.                                         *)
LEMMA PrefixByElements ==
  ASSUME NEW E, NEW s \in Seq(E), NEW t \in Seq(E), Len(s) <= Len(t),
         \A i \in 1 .. Len(s) : s[i] = t[i]
  PROVE  IsPrefix(s, t)
<1>1. Len(s) \in Nat /\ Len(t) \in Nat
  BY LenProperties
<1>2. SubSeq(s, 1, Len(s)) = s
  BY SubSeqFull
<1>3. PICK p : p = SubSeq(t, 1, Len(s))
  OBVIOUS
<1>4. p \in Seq(E) /\ Len(p) = Len(s) /\ \A i \in 1 .. Len(s) : p[i] = t[i]
  <2>1. \A i \in 1 .. Len(s) : i \in 1 .. Len(t)
    BY <1>1
  <2>2. \A i \in 1 .. Len(s) : t[i] \in E
    BY <2>1, ElementOfSeq
  <2> QED
    BY <2>2, <1>1, <1>3, SubSeqProperties
<1>5. s = p
  BY <1>4, SeqEqual
<1>6. SubSeq(s, 1, Len(s)) = SubSeq(t, 1, Len(s))
  BY <1>2, <1>3, <1>5
<1> QED
  BY <1>6 DEF IsPrefix

LEMMA DialoguePrefixes ==
  \A w \in {<< >>, <<"PeerInfo">>, <<"PeerInfo", "Answer">>, <<"PeerInfo", "Answer", "LocalIce">>} :
    IsPrefix(w, <<"PeerInfo", "Answer", "LocalIce">>)
<1>1. PICK E, s0, s1, s2, s3 :
        /\ E = Letters /\ s0 = << >> /\ s1 = <<"PeerInfo">> /\ s2 = <<"PeerInfo", "Answer">>
        /\ s3 = <<"PeerInfo", "Answer", "LocalIce">>
  OBVIOUS
<1>2. /\ s0 \in Seq(E) /\ s1 \in Seq(E) /\ s2 \in Seq(E) /\ s3 \in Seq(E)
      /\ Len(s0) = 0 /\ Len(s1) = 1 /\ Len(s2) = 2 /\ Len(s3) = 3
  BY <1>1 DEF Letters
<1>3. s1[1] = s3[1] /\ s2[1] = s3[1] /\ s2[2] = s3[2]
  BY <1>1
<1>4. IsPrefix(s0, s3)
  <2>1. Len(s0) <= Len(s3) /\ \A i \in 1 .. Len(s0) : s0[i] = s3[i]
    BY <1>2
  <2> QED
    BY <2>1, <1>2, PrefixByElements
<1>5. IsPrefix(s1, s3)
  BY <1>2, <1>3, PrefixByElements
<1>6. IsPrefix(s2, s3)
  <2>1. \A i \in 1 .. Len(s2) : s2[i] = s3[i]
    BY <1>2, <1>3
  <2> QED
    BY <2>1, <1>2, PrefixByElements
<1>7. IsPrefix(s3, s3)
  BY <1>2, PrefixByElements
<1> QED
  BY <1>1, <1>4, <1>5, <1>6, <1>7

(* AnswerBeforeIce: what is written is a prefix of the one dialogue.         *)
THEOREM AnswerInOrder == Spec => []AnswerBeforeIce
<1>1. AnswerInv => AnswerBeforeIce
  <2>1. written \in {<< >>, <<"PeerInfo">>, <<"PeerInfo", "Answer">>,
                     <<"PeerInfo", "Answer", "LocalIce">>} => AnswerBeforeIce
    BY DialoguePrefixes DEF AnswerBeforeIce
  <2> QED
    BY <2>1 DEF AnswerInv, Dialogue, Pending, Halfway, Through
<1> QED
  BY <1>1, AlwaysAnswerInv, PTL

(* ClosedExplicitly: App never lets go of a socket that is up or coming up   *)
(* without a Close behind what it still has to say.                          *)
THEOREM HandleClosed == Spec => []ClosedExplicitly
<1>1. AnswerInv => ClosedExplicitly
  <2>1. \A w \in ShutWords : "Close" \in ToSet(w)
    BY DEF ShutWords, ToSet
  <2> QED
    BY <2>1 DEF AnswerInv, Closing, ClosedExplicitly
<1> QED
  BY <1>1, AlwaysAnswerInv, PTL

-----------------------------------------------------------------------------
(* What the liveness properties of the link rest on: as long as App has not  *)
(* acted on an end, the event or the command that tells of it is queued.     *)

SocketLossQueued ==
  screen \in LinkScreens /\ socket = "ended" =>
    \E i \in 1 .. Len(events) : events[i].kind = "Disconnected"
PeerLossQueued ==
  screen = "Streaming" /\ peer = "ended" =>
    \E i \in 1 .. Len(peerEvents) : peerEvents[i] = "Disconnected"
PeerCloseQueued ==
  screen \in Ended /\ peer \in {"setup", "running"} =>
    \E i \in 1 .. Len(peerCommands) : peerCommands[i] = Close

(* A socket ends with a Disconnected, or by a Close that only an App that    *)
(* has left has queued.                                                      *)
LEMMA StepSocketLoss ==
  ASSUME AnswerInv, SocketLossQueued, [Next]_vars
  PROVE  SocketLossQueued'
<1> USE DEF AnswerInv
<1> SUFFICES ASSUME screen' \in LinkScreens, socket' = "ended"
             PROVE  \E i \in 1 .. Len(events') : events'[i].kind = "Disconnected"
  BY DEF SocketLossQueued
<1>1. events \in Seq(Events) /\ Len(events) \in Nat
  BY LenProperties DEF Queues
<1>2. screen \in LinkScreens \/ Connect
  BY DEF Next, User, ToggleConfirmExit, ConfirmExitSession, CancelConfirmExit, Tick,
         TickSignaling, TickStreaming, SocketTask, Connected, ConnectFailed, TakeCommand, Receive,
         ReceiveEnd, ReceiveTransportError, PeerThread, PeerReady, PeerLost, PeerRuntimeFails,
         PeerCommands, StopArrives, vars, appVars, LinkScreens, Ended
<1>3. ~ Connect
  BY DEF Connect
<1>4. CASE ConnectFailed \/ ReceiveEnd
  <2>1. PICK t : t = Append(events, Event("Disconnected", 0)) /\ events' = t
    BY <1>4 DEF ConnectFailed, ReceiveEnd, Emit
  <2>2. Event("Disconnected", 0) \in Events /\ Event("Disconnected", 0).kind = "Disconnected"
    BY DEF Event, Events
  <2>3. Len(t) = Len(events) + 1 /\ t[Len(events) + 1].kind = "Disconnected"
    BY <2>1, <2>2, <1>1, AppendProperties
  <2> QED
    BY <2>1, <2>3, <1>1
<1>5. ~ TakeCommand
  <2> SUFFICES ASSUME TakeCommand PROVE FALSE
    OBVIOUS
  <2>1. screen \in LinkScreens /\ screen \notin Ended /\ socket = "open"
    BY <1>2, <1>3 DEF TakeCommand, LinkScreens, Ended
  <2>2. commands # << >> /\ Head(commands) = "Close"
    BY <2>1 DEF TakeCommand
  <2>3. commands \in OpenWords
    BY <2>1 DEF Closing
  <2>4. commands = <<"Answer", "LocalIce">> \/ commands = <<"LocalIce">>
    BY <2>2, <2>3 DEF OpenWords
  <2> QED
    BY <2>2, <2>4, TakenWords
<1>6. socket = "ended" \/ ConnectFailed \/ ReceiveEnd
  BY <1>3, <1>5
  DEF Next, User, ToggleConfirmExit, ConfirmExitSession, CancelConfirmExit, Tick,
      TickSignaling, TickStreaming, SocketTask, Connected, Receive, ReceiveTransportError,
      PeerThread, PeerReady, PeerLost, PeerRuntimeFails, PeerCommands, StopArrives, vars, sockVars
<1>7. ASSUME socket = "ended"
      PROVE  \E i \in 1 .. Len(events') : events'[i].kind = "Disconnected"
  <2>1. PICK i \in 1 .. Len(events) : events[i].kind = "Disconnected"
    BY <1>2, <1>3, <1>7 DEF SocketLossQueued
  <2>2. CASE UNCHANGED <<events, ices>>
    BY <2>1, <2>2
  <2>3. ASSUME NEW e \in Events, Hears(e)
        PROVE  \E k \in 1 .. Len(events') : events'[k].kind = "Disconnected"
    <3>1. PICK t : t = Append(events, e) /\ events' = t
      BY <2>3 DEF Hears
    <3>2. Len(t) = Len(events) + 1 /\ t[i] = events[i]
      BY <3>1, <1>1, AppendProperties
    <3>3. i \in 1 .. Len(t)
      BY <3>2, <1>1
    <3> QED
      BY <3>1, <3>2, <3>3, <2>1
  <2>4. CASE TickSignaling
    <3>1. PICK m \in 0 .. Len(events) :
            events' = Rest(events, m) /\ \A k \in 1 .. m : events[k].kind # "Disconnected"
      BY <2>4, TickReads DEF Reads
    <3>2. ~ (i <= m)
      BY <3>1, <2>1
    <3>3. i - m \in 1 .. Len(events) - m /\ m + (i - m) = i
      BY <3>2, <1>1
    <3>4. Len(events') = Len(events) - m /\ events'[i - m] = events[m + (i - m)]
      BY <3>1, <3>3, <1>1, RestProperties
    <3> QED
      BY <3>3, <3>4, <2>1
  <2>5. CASE TickStreaming
    <3>1. \A k \in 1 .. Len(events) : events[k].kind # "Disconnected"
      BY <2>5, TickPasses DEF LinkScreens
    <3> QED
      BY <3>1, <2>1
  <2> QED
    BY <2>2, <2>3, <2>4, <2>5, EventSteps
<1> QED
  BY <1>4, <1>6, <1>7

(* A peer thread of a stream ends with a Disconnected: no Close is queued    *)
(* for it while App streams.                                                 *)
LEMMA StepPeerLoss ==
  ASSUME IceInv, AnswerInv, PeerLossQueued, [Next]_vars
  PROVE  PeerLossQueued'
<1> USE DEF AnswerInv
<1> SUFFICES ASSUME screen' = "Streaming", peer' = "ended"
             PROVE  \E i \in 1 .. Len(peerEvents') : peerEvents'[i] = "Disconnected"
  BY DEF PeerLossQueued
<1>1. screen = "Streaming"
  <2>1. CASE TickSignaling
    <3>1. peer = "none" /\ peer' \in {"none", "setup"}
      BY <2>1 DEF TickSignaling, Unheard
    <3> QED
      BY <3>1
  <2>2. CASE ~ TickSignaling
    BY <2>2 DEF Next, User, Connect, ToggleConfirmExit, ConfirmExitSession, CancelConfirmExit, Tick,
           TickStreaming, SocketTask, Connected, ConnectFailed, TakeCommand, Receive,
           ReceiveEnd, ReceiveTransportError, PeerThread, PeerReady, PeerLost, PeerRuntimeFails,
           PeerCommands, StopArrives, vars, appVars, LinkScreens
  <2> QED
    BY <2>1, <2>2
<1>2. CASE PeerLost
  <2>1. peerEvents \in {<< >>, <<"Answer", "LocalIce">>}
    BY <1>2 DEF PeerLost, Spoken
  <2>2. peerEvents' \in {<<"Disconnected">>, <<"Answer", "LocalIce", "Disconnected">>}
    BY <2>1, <1>2, SpokenWords DEF PeerLost, PeerEmit
  <2>3. \A w \in {<<"Disconnected">>, <<"Answer", "LocalIce", "Disconnected">>} :
          \E i \in 1 .. Len(w) : w[i] = "Disconnected"
    <3>1. PICK one, three : one = <<"Disconnected">> /\ three = <<"Answer", "LocalIce", "Disconnected">>
      OBVIOUS
    <3>2. Len(one) = 1 /\ one[1] = "Disconnected" /\ Len(three) = 3 /\ three[3] = "Disconnected"
      BY <3>1
    <3>3. 1 \in 1 .. Len(one) /\ 3 \in 1 .. Len(three)
      BY <3>2
    <3> QED
      BY <3>1, <3>2, <3>3
  <2> QED
    BY <2>2, <2>3
<1>3. ~ PeerCommands
  <2> SUFFICES ASSUME PeerCommands PROVE FALSE
    OBVIOUS
  <2>1. events \in Seq(Events) /\ ices \in Nat /\ iceBase \in Nat
    BY DEF Queues
  <2>2. \A k \in 1 .. Len(peerCommands) : peerCommands[k] # Close
    BY <2>1, <1>1, CandidatesTyped, NoCloseInRun DEF IceInv, Flowing
  <2>3. SelectInSeq(peerCommands, LAMBDA c : c = Close) = 0
    BY <2>2 DEF SelectInSeq
  <2> QED
    BY <2>3 DEF PeerCommands
<1>4. CASE peer = "ended"
  <2>1. PICK i \in 1 .. Len(peerEvents) : peerEvents[i] = "Disconnected"
    BY <1>1, <1>4 DEF PeerLossQueued
  <2>2. ~ TickStreaming
    <3>1. TickStreaming => \A k \in 1 .. Len(peerEvents) : peerEvents[k] # "Disconnected"
      BY TickPasses
    <3> QED
      BY <3>1, <2>1
  <2>3. peerEvents' = peerEvents
    BY <2>2, <1>4
    DEF Next, User, Connect, ToggleConfirmExit, ConfirmExitSession, CancelConfirmExit, Tick,
        TickSignaling, SocketTask, Connected, ConnectFailed, TakeCommand, Receive,
        ReceiveEnd, ReceiveTransportError, PeerThread, PeerReady, PeerLost, PeerRuntimeFails,
        PeerCommands, StopArrives, vars, peerVars
  <2> QED
    BY <2>1, <2>3
<1>5. peer = "ended" \/ PeerLost
  BY <1>1, <1>3
  DEF Next, User, Connect, ToggleConfirmExit, ConfirmExitSession, CancelConfirmExit, Tick,
      TickSignaling, TickStreaming, SocketTask, Connected, ConnectFailed, TakeCommand, Receive,
      ReceiveEnd, ReceiveTransportError, PeerThread, PeerReady, PeerRuntimeFails, StopArrives,
      vars, peerVars
<1> QED
  BY <1>2, <1>4, <1>5

(* Leaving queues a Close for the peer thread, which keeps it until it ends. *)
LEMMA StepPeerClose ==
  ASSUME IceInv, PeerCloseQueued, [Next]_vars
  PROVE  PeerCloseQueued'
<1> USE DEF IceInv
<1> SUFFICES ASSUME screen' \in Ended, peer' \in {"setup", "running"}
             PROVE  \E i \in 1 .. Len(peerCommands') : peerCommands'[i] = Close
  BY DEF PeerCloseQueued
<1>1. ASSUME NEW sent \in Seq(Nat), peerCommands' = Append(sent, Close)
      PROVE  \E i \in 1 .. Len(peerCommands') : peerCommands'[i] = Close
  <2>1. PICK t : t = Append(sent, Close) /\ peerCommands' = t
    BY <1>1
  <2>2. Len(sent) \in Nat /\ Len(t) = Len(sent) + 1 /\ t[Len(sent) + 1] = Close
    BY <2>1, LenProperties, AppendProperties DEF Close
  <2>3. Len(sent) + 1 \in 1 .. Len(t)
    BY <2>2
  <2> QED
    BY <2>1, <2>2, <2>3
<1>2. CASE ConfirmExitSession /\ screen \in LinkScreens
  <2>1. peerCommands \in Seq(Nat)
    BY <1>2, EmptySeq DEF LinkScreens, Unheard, Flowing
  <2>2. peerCommands' = Append(peerCommands, Close)
    BY <1>2 DEF ConfirmExitSession, DropPeer, LinkScreens, Ended
  <2> QED
    BY <2>1, <2>2, <1>1
<1>3. ~ (ConfirmExitSession /\ screen = "SessionReady")
  BY DEF ConfirmExitSession, Unheard
<1>4. ~ TickSignaling
  <2>1. TickSignaling => peer = "none" /\ (screen' = "Streaming" \/ peer' = peer)
    BY DEF TickSignaling, Unheard
  <2> QED
    BY <2>1 DEF Ended
<1>5. CASE TickStreaming
  <2>1. PICK i : /\ i = FirstLoss(Kinds(events))
                 /\ peerCommands' = Append(peerCommands \o Candidates(UpTo(i, events)), Close)
    BY <1>5 DEF TickStreaming, Ended
  <2>2. UpTo(i, events) \in Seq(Events)
    <3>1. /\ events \in Seq(Events) /\ Len(events) \in Nat /\ Len(Kinds(events)) = Len(events)
      BY KindsProperties DEF Queues
    <3>2. i = 0 \/ i \in 1 .. Len(events)
      BY <3>1, <2>1, FirstLossLeast
    <3>3. CASE i = 0
      BY <3>1, <3>3 DEF UpTo
    <3>4. CASE i \in 1 .. Len(events)
      <4>1. i - 1 \in Nat /\ i - 1 <= Len(events) /\ 1 \in Nat \ {0} /\ i # 0
        BY <3>1, <3>4
      <4> QED
        BY <4>1, <3>1, PartTyped DEF UpTo
    <3> QED
      BY <3>2, <3>3, <3>4
  <2>3. peerCommands \in Seq(Nat)
    BY <1>5 DEF TickStreaming, Flowing
  <2>4. peerCommands \o Candidates(UpTo(i, events)) \in Seq(Nat)
    BY <2>2, <2>3, CandidatesTyped, ConcatProperties
  <2> QED
    BY <2>1, <2>4, <1>1
<1>6. ASSUME screen \in Ended, ~ ConfirmExitSession \/ UNCHANGED peerCommands
      PROVE  \E i \in 1 .. Len(peerCommands') : peerCommands'[i] = Close
  <2>1. peer \in {"setup", "running"}
    BY <1>4, <1>6
    DEF Next, User, Connect, ToggleConfirmExit, ConfirmExitSession, CancelConfirmExit, Tick,
        TickStreaming, SocketTask, Connected, ConnectFailed, TakeCommand, Receive,
        ReceiveEnd, ReceiveTransportError, PeerThread, PeerReady, PeerLost, PeerRuntimeFails,
        PeerCommands, StopArrives, vars, peerVars
  <2>2. PICK i \in 1 .. Len(peerCommands) : peerCommands[i] = Close
    BY <2>1, <1>6 DEF PeerCloseQueued
  <2>3. ~ PeerCommands
    <3> SUFFICES ASSUME PeerCommands PROVE FALSE
      OBVIOUS
    <3> DEFINE I == {k \in 1 .. Len(peerCommands) : peerCommands[k] = Close}
    <3>1. SelectInSeq(peerCommands, LAMBDA c : c = Close) = 0
      BY DEF PeerCommands
    <3>2. I # {} /\ I \in SUBSET Nat
      BY <2>2
    <3>3. Min(I) = 0
      BY <3>1, <3>2 DEF SelectInSeq
    <3> HIDE DEF I
    <3>4. 0 \in I
      BY <3>2, <3>3, MinLeast
    <3> QED
      BY <3>4 DEF I
  <2>4. peerCommands' = peerCommands
    BY <2>3, <1>4, <1>6
    DEF Next, User, Connect, ToggleConfirmExit, CancelConfirmExit, Tick,
        TickStreaming, SocketTask, Connected, ConnectFailed, TakeCommand, Receive, Ended,
        ReceiveEnd, ReceiveTransportError, PeerThread, PeerReady, PeerLost, PeerRuntimeFails,
        StopArrives, vars, peerVars
  <2> QED
    BY <2>2, <2>4
<1>7. \/ ConfirmExitSession /\ screen \in LinkScreens
      \/ ConfirmExitSession /\ screen = "SessionReady"
      \/ TickSignaling \/ TickStreaming
      \/ screen \in Ended /\ (~ ConfirmExitSession \/ UNCHANGED peerCommands)
  BY DEF Next, User, Connect, ToggleConfirmExit, ConfirmExitSession, CancelConfirmExit, Tick,
         SocketTask, Connected, ConnectFailed, TakeCommand, Receive, Ended, LinkScreens,
         ReceiveEnd, ReceiveTransportError, PeerThread, PeerReady, PeerLost, PeerRuntimeFails,
         PeerCommands, StopArrives, vars, appVars
<1> QED
  BY <1>2, <1>3, <1>4, <1>5, <1>6, <1>7

(* The safety half of SocketCloseNoticed, PeerDeathNoticed and               *)
(* TeardownCompletes: nothing App still has to learn from its queues, and    *)
(* nothing the peer thread has to learn from its own, is lost in them.       *)
THEOREM NoEndUntold == Spec => [](SocketLossQueued /\ PeerLossQueued /\ PeerCloseQueued)
<1> DEFINE Told == SocketLossQueued /\ PeerLossQueued /\ PeerCloseQueued
<1>1. Init => Told
  BY DEF Init, SocketLossQueued, PeerLossQueued, PeerCloseQueued, LinkScreens, Ended
<1>2. IceInv /\ AnswerInv /\ Told /\ [Next]_vars => Told'
  BY StepSocketLoss, StepPeerLoss, StepPeerClose
<1> QED
  BY <1>1, <1>2, AlwaysIceInv, AlwaysAnswerInv, PTL DEF Spec

-----------------------------------------------------------------------------
(* What AnswerReachesServer rests on: while the peer runs and App is on      *)
(* Streaming, its answer is queued for App, queued for the socket or written.*)
AnswerUnderWay ==
  peer = "running" /\ screen = "Streaming" =>
    \/ peerEvents = <<"Answer", "LocalIce">>
    \/ commands = <<"Answer", "LocalIce">>
    \/ written \in {<<"PeerInfo", "Answer">>, <<"PeerInfo", "Answer", "LocalIce">>}

(* The two words are four different things.                                  *)
LEMMA AnswerApart ==
  /\ <<"Answer", "LocalIce">> \notin {<< >>, <<"Disconnected">>, <<"Close">>}
  /\ <<"Answer", "LocalIce">> \notin {<<"LocalIce">>, <<"LocalIce", "Close">>}
  /\ <<"PeerInfo", "Answer">> # <<"PeerInfo">>
  /\ <<"PeerInfo", "Answer", "LocalIce">> # <<"PeerInfo">>
  /\ <<"PeerInfo", "Answer", "LocalIce">> # <<"PeerInfo", "Answer">>
OBVIOUS

(* A tick passes the answer on whole: the commands were empty before it.     *)
LEMMA TickAnswers ==
  ASSUME AnswerInv, AnswerUnderWay, TickStreaming
  PROVE  AnswerUnderWay'
<1> USE DEF AnswerInv
<1>1. screen = "Streaming" /\ commands \in OpenWords /\ UNCHANGED <<written, peer>>
  BY DEF TickStreaming, Closing, Ended
<1>2. screen' = "Streaming" => commands' = commands \o Passed(peerEvents)
  BY TickSays
<1> SUFFICES ASSUME peer = "running", screen' = "Streaming"
             PROVE  \/ commands' = <<"Answer", "LocalIce">>
                    \/ written \in {<<"PeerInfo", "Answer">>, <<"PeerInfo", "Answer", "LocalIce">>}
  BY <1>1 DEF AnswerUnderWay
<1>3. CASE peerEvents = <<"Answer", "LocalIce">>
  <2>1. commands = << >>
    <3>1. Silent
      BY <1>3, AnswerApart DEF Dialogue, Said
    <3> QED
      BY <3>1, <1>1, OpenWordsApart, Zenon DEF Silent
  <2>2. Passed(peerEvents) = peerEvents
    <3>1. Len(peerEvents) \in Nat /\ \A i \in 1 .. Len(peerEvents) : peerEvents[i] # "Disconnected"
      BY <1>3
    <3>2. FirstLoss(peerEvents) = 0
      BY <3>1, FirstLossLeast
    <3> QED
      BY <3>2, <1>3, PassedOn DEF Passed, UpTo
  <2> QED
    BY <2>1, <2>2, <1>2, <1>3, SpokenWords
<1>4. CASE commands = <<"Answer", "LocalIce">>
  <2>1. Said
    BY <1>4, AnswerApart DEF Dialogue, Silent
  <2>2. peerEvents \in PeerWords /\ peerEvents \in {<< >>, <<"Disconnected">>}
    BY <2>1 DEF Said, Spoken
  <2>3. Passed(peerEvents) = << >>
    BY <2>2, PassedUpTo
  <2> QED
    BY <2>3, <1>1, <1>2, <1>4, SpokenWords
<1> QED
  BY <1>1, <1>3, <1>4 DEF AnswerUnderWay

(* The socket task writes the answer, and what it writes behind it is the    *)
(* candidate.                                                                *)
LEMMA TakeAnswers ==
  ASSUME AnswerInv, AnswerUnderWay, TakeCommand
  PROVE  AnswerUnderWay'
<1> USE DEF AnswerInv
<1>1. socket = "open" /\ UNCHANGED <<peer, peerEvents, screen>>
  BY DEF TakeCommand, peerVars, appVars
<1>2. (written = <<"PeerInfo">> /\ Silent) \/ Pending \/ Halfway \/ Through
  BY <1>1 DEF Dialogue
<1>3. CASE UNCHANGED <<commands, written>>
  BY <1>1, <1>3 DEF AnswerUnderWay
<1>4. CASE /\ commands # << >> /\ Head(commands) # "Close"
           /\ written' = Append(written, Head(commands))
  <2>1. ~ Silent
    BY <1>4, TakenWords DEF Silent
  <2>2. CASE Pending
    <3>1. written' = <<"PeerInfo", "Answer">>
      BY <2>2, <1>4, TakenWords, WrittenWords DEF Pending
    <3> QED
      BY <3>1 DEF AnswerUnderWay
  <2>3. CASE Halfway
    <3>1. written' = <<"PeerInfo", "Answer", "LocalIce">>
      BY <2>3, <1>4, TakenWords, WrittenWords DEF Halfway
    <3> QED
      BY <3>1 DEF AnswerUnderWay
  <2> QED
    BY <1>2, <2>1, <2>2, <2>3 DEF Through
<1> QED
  BY <1>3, <1>4 DEF TakeCommand, Write

(* The safety half of AnswerReachesServer: the answer is not lost between    *)
(* the peer thread, App and the socket task.                                 *)
THEOREM AnswerNotLost == Spec => []AnswerUnderWay
<1>1. Init => AnswerUnderWay
  BY DEF Init, AnswerUnderWay
<1>2. ASSUME AnswerInv, AnswerUnderWay, [Next]_vars
      PROVE  AnswerUnderWay'
  <2>1. CASE PeerReady
    <3>1. peerEvents = << >> /\ peerEvents' = peerEvents \o <<"Answer", "LocalIce">>
      BY <1>2, <2>1 DEF PeerReady, PeerEmit, AnswerInv, Spoken
    <3> QED
      BY <3>1, SpokenWords DEF AnswerUnderWay
  <2>2. CASE PeerLost \/ PeerRuntimeFails
    BY <2>2 DEF PeerLost, PeerRuntimeFails, AnswerUnderWay
  <2>3. CASE PeerCommands
    BY <1>2, <2>3 DEF PeerCommands, appVars, sockVars, AnswerUnderWay
  <2>4. CASE TickSignaling
    BY <2>4 DEF TickSignaling, AnswerUnderWay
  <2>5. CASE TickStreaming
    BY <1>2, <2>5, TickAnswers
  <2>6. CASE TakeCommand
    BY <1>2, <2>6, TakeAnswers
  <2>7. CASE Connected
    <3>1. peer = "none" /\ peer' = peer
      BY <1>2, <2>7 DEF Connected, peerVars, AnswerInv, Dialogue
    <3> QED
      BY <3>1 DEF AnswerUnderWay
  <2>8. CASE Connect \/ ConfirmExitSession
    BY <2>8 DEF Connect, ConfirmExitSession, Ended, LinkScreens, AnswerUnderWay
  <2>9. CASE \/ ToggleConfirmExit \/ CancelConfirmExit \/ ConnectFailed \/ Receive
             \/ ReceiveEnd \/ ReceiveTransportError \/ StopArrives \/ UNCHANGED vars
    BY <1>2, <2>9 DEF ToggleConfirmExit, CancelConfirmExit, ConnectFailed, Receive, ReceiveEnd,
       ReceiveTransportError, StopArrives, vars, appVars, sockVars, peerVars, AnswerUnderWay
  <2> QED
    BY <1>2, <2>1, <2>2, <2>3, <2>4, <2>5, <2>6, <2>7, <2>8, <2>9
    DEF Next, User, Tick, SocketTask, PeerThread
<1> QED
  BY <1>1, <1>2, AlwaysAnswerInv, PTL DEF Spec
=============================================================================
