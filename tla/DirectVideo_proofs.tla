-------------------------- MODULE DirectVideo_proofs --------------------------
(***************************************************************************)
(* DirectVideo for every number of sessions, pictures and stalls.  The     *)
(* inductive invariant has three parts: who may touch the textures         *)
(* (Ownership), that an output has no history before its textures are      *)
(* attached (FreshBeforeAttach), and how a picture is handed from the      *)
(* decoder through the slot to the screen while no wait has timed out      *)
(* (HandOver).  A fourth (Forward) says for any number of timed-out waits  *)
(* where the newest picture is, and a fifth (PendingIsOffered) that a      *)
(* picture the decode thread waits for is one the UI loop will show.       *)
(***************************************************************************)
EXTENDS DirectVideo, TLAPS

Ownership ==
  /\ \A o \in Outputs :
       /\ state[o].targets => attached = o
       /\ decoder[o] = "writing" => state[o].targets
       /\ ~ state[o].targets => state[o].pending = Nothing /\ state[o].displayed = NoTexture
       /\ state[o].targets => state[o].displayed = shown
       /\ state[o].pending = Nothing \/ state[o].pending.index \in Pair
       /\ attached = o /\ streaming = o => state[o].targets
       /\ o \in ready => decoder[o] \notin {"none", "starting"}
       /\ attached = o => o \in ready
  /\ attached # NoOutput => textures = attached
  /\ frame = "free" => attached = NoOutput
  /\ attached = NoOutput /\ frame # "free" =>
       textures = NoOutput /\ shown = NoTexture /\ last_frame_id = 0
  /\ frame = "mark" => streaming = attached /\ streaming \in Outputs

Fresh(o) ==
  /\ slot[o].id = 0
  /\ torn[o] = {}
  /\ decoder[o] \in {"none", "starting", "idle", "ended"}

FreshBeforeAttach ==
  \A o \in Outputs :
    /\ decoder[o] = "none" => Fresh(o) /\ streaming # o
    /\ streaming = o /\ attached # o => Fresh(o)

(* A picture is numbered when it is published and stored right after.        *)
Counting ==
  \A o \in Outputs :
    state[o].next_generation = slot[o].id + IF decoder[o] = "publishing" THEN 1 ELSE 0

(* The picture is: seen by the screen, published but not in the slot yet, or *)
(* in the slot and not marked.                                               *)
Seen(o) ==
  /\ state[o].pending = Nothing
  /\ slot[o].id = last_frame_id
  /\ decoder[o] # "publishing"
  /\ ~ (frame = "mark" /\ streaming = o)
  /\ decoder[o] = "writing" => target[o] = FreeIndex(state[o])

Published(o) ==
  /\ state[o].pending = [index |-> target[o], generation |-> state[o].next_generation]
  /\ slot[o].id = last_frame_id
  /\ decoder[o] = "publishing"
  /\ ~ (frame = "mark" /\ streaming = o)

Stored(o) ==
  /\ state[o].pending # Nothing
  /\ slot[o].frame = state[o].pending
  /\ slot[o].id = last_frame_id + 1
  /\ decoder[o] \notin {"publishing", "writing"}
  /\ frame = "mark" /\ streaming = o => picked = slot[o]

InHand(o) ==
  /\ Seen(o) \/ Published(o) \/ Stored(o)
  /\ state[o].pending # Nothing =>
       /\ state[o].pending.index \in Pair
       /\ state[o].pending.index # shown
       /\ state[o].pending.index \notin torn[o]
  /\ shown \notin torn[o]

HandOver == \A o \in Outputs : state[o].targets /\ stalls[o] = 0 => InHand(o)

ShownIsWhole ==
  \A o \in Outputs :
    textures = o /\ shown # NoTexture /\ stalls[o] = 0 => shown \notin torn[o]

StallOnce ==
  \A o \in Outputs :
    decoder[o] = "writing" /\ stalls[o] <= 1 => target[o] # shown

VInv ==
  /\ TypeOK /\ Ownership /\ FreshBeforeAttach /\ Counting /\ HandOver
  /\ ShownIsWhole /\ StallOnce

-----------------------------------------------------------------------------
(* Nothing is attached and nothing decoded yet.                              *)
LEMMA VInitInv == Init => VInv
  BY OutputsAssumption, VideoBounds
     DEF Init, VInv, TypeOK, Ownership, FreshBeforeAttach, Fresh, HandOver, StallOnce,
         Pair, NoTexture, Nothing, Empty, DecodedFrame, Slot, OutputState,
         Counting, ShownIsWhole

(* The records stay records.                                                 *)
LEMMA ClearedType ==
  ASSUME NEW s \in OutputState
  PROVE  Cleared(s) \in OutputState /\ [Cleared(s) EXCEPT !.targets = TRUE] \in OutputState
<1>1. Nothing \in DecodedFrame
  BY VideoBounds DEF Nothing, DecodedFrame
<1>2. Cleared(s) \in OutputState
  BY <1>1 DEF OutputState, Cleared
<1> QED
  BY <1>2 DEF OutputState

(* ... when it is marked, ...                                                *)
LEMMA MarkedType ==
  ASSUME TypeOK, NEW o \in Outputs, MarkDisplayed(o)
  PROVE  state' \in [Outputs -> OutputState]
<1>1. picked.frame \in DecodedFrame /\ picked.frame.index \in Pair \cup {NoTexture}
  BY DEF TypeOK, Slot, DecodedFrame
<1>2. Nothing \in DecodedFrame
  BY VideoBounds DEF Nothing, DecodedFrame
<1>3. state[o].pending \in DecodedFrame
  BY DEF TypeOK, OutputState
<1> DEFINE p == IF state[o].pending = picked.frame THEN Nothing ELSE state[o].pending
<1>4. p \in DecodedFrame
  BY <1>2, <1>3
<1> HIDE DEF p
<1>5. [state[o] EXCEPT !.displayed = picked.frame.index, !.pending = p] \in OutputState
  BY <1>1, <1>4, ZenonT(30) DEF TypeOK, OutputState
<1>6. state' = [state EXCEPT ![o] = [@ EXCEPT !.displayed = picked.frame.index, !.pending = p]]
  BY DEF TypeOK, MarkDisplayed, p
<1> QED
  BY <1>5, <1>6 DEF TypeOK

(* ... when a picture is published, ...                                      *)
LEMMA PublishedType ==
  ASSUME TypeOK, NEW o \in Outputs, Publish(o)
  PROVE  state' \in [Outputs -> OutputState] /\ content' \in [Outputs -> [Pair -> 0 .. MaxFrames]]
<1> DEFINE g == state[o].next_generation + 1
<1>1. g \in 0 .. MaxFrames
  BY VideoBounds DEF TypeOK, OutputState, Publish
<1> HIDE DEF g
<1>2. [index |-> target[o], generation |-> g] \in DecodedFrame
  BY <1>1 DEF TypeOK, DecodedFrame
<1>3. [state[o] EXCEPT !.next_generation = g,
                       !.pending = [index |-> target[o], generation |-> g]] \in OutputState
  BY <1>1, <1>2, ZenonT(30) DEF TypeOK, OutputState
<1>4. state' = [state EXCEPT ![o] = [@ EXCEPT !.next_generation = g,
                       !.pending = [index |-> target[o], generation |-> g]]]
  BY DEF TypeOK, Publish, g
<1>5. content' = [content EXCEPT ![o] = [@ EXCEPT ![target[o]] = g]]
  BY DEF TypeOK, Publish, g
<1> QED
  BY <1>1, <1>3, <1>4, <1>5 DEF TypeOK

(* ... and when it is put into the slot: its id does not pass MaxFrames.     *)
LEMMA StoredType ==
  ASSUME TypeOK, Counting, NEW o \in Outputs, StoreFrame(o)
  PROVE  slot' \in [Outputs -> Slot]
<1> DEFINE f == [index |-> target[o], generation |-> state[o].next_generation]
<1>1. slot[o].id + 1 \in 0 .. MaxFrames /\ f \in DecodedFrame
  BY VideoBounds DEF TypeOK, OutputState, Slot, DecodedFrame, Counting, StoreFrame
<1> HIDE DEF f
<1>2. [id |-> slot[o].id + 1, frame |-> f] \in Slot
  BY <1>1 DEF Slot
<1>3. slot' = [slot EXCEPT ![o] = [id |-> @.id + 1, frame |-> f]]
  BY DEF StoreFrame, f
<1> QED
  BY <1>2, <1>3 DEF TypeOK

(* The texture that is not displayed is one of the two.                      *)
LEMMA FreeIndexType ==
  ASSUME NEW s \in OutputState
  PROVE  FreeIndex(s) \in Pair
BY DEF OutputState, FreeIndex, Pair, NoTexture

(* Every step keeps the types.                                               *)
LEMMA VTypeStep ==
  ASSUME VInv, [Next]_vars
  PROVE  TypeOK'
<1>0. TypeOK /\ Counting /\ Ownership
  BY DEF VInv
<1> USE <1>0 DEF TypeOK
<1>1. ASSUME NEW o \in Outputs, PeerStarted(o) PROVE TypeOK'
  BY <1>1 DEF PeerStarted
<1>2. ASSUME NEW o \in Outputs, PeerDropped(o) \/ Detach(o) \/ Attach(o) PROVE TypeOK'
  <2>1. state[o] \in OutputState
    OBVIOUS
  <2>2. state' \in [Outputs -> OutputState]
    <3>1. \E s \in OutputState : state' = [state EXCEPT ![o] = s]
      BY <1>2, <2>1, ClearedType DEF PeerDropped, Detach, Attach
    <3> QED
      BY <3>1
  <2> QED
    BY <1>2, <2>2 DEF PeerDropped, Detach, Attach, decoderVars
<1>3. ASSUME NEW o \in Outputs, PickFrame(o) PROVE TypeOK'
  BY <1>3 DEF PickFrame, decoderVars
<1>4. ASSUME NEW o \in Outputs, MarkDisplayed(o) PROVE TypeOK'
  <2>1. picked.frame.index \in Pair \cup {NoTexture} /\ picked.id \in 0 .. MaxFrames /\ Empty \in Slot
    BY VideoBounds DEF Slot, DecodedFrame, Empty, Nothing
  <2> QED
    BY <1>4, <2>1, MarkedType DEF MarkDisplayed, decoderVars
<1>5. CASE FreeTextures \/ Proceed \/ NothingNew \/ Drawn
  BY <1>5, VideoBounds DEF FreeTextures, Proceed, NothingNew, Drawn, decoderVars
<1>6. ASSUME NEW o \in Outputs, DecoderStarts(o) \/ WorkerStops(o) PROVE TypeOK'
  BY <1>6 DEF DecoderStarts, WorkerStops, surfaceVars
<1>7. ASSUME NEW o \in Outputs, LockTarget(o) \/ Wake(o) PROVE TypeOK'
  <2>1. FreeIndex(state[o]) \in Pair
    BY FreeIndexType
  <2> QED
    BY <1>7, <2>1, ZenonT(30) DEF LockTarget, Wake, Begin, surfaceVars
<1>8. ASSUME NEW o \in Outputs, TimeOut(o) PROVE TypeOK'
  <2>1. state[o].pending.index \in Pair
    BY <1>8 DEF TimeOut, Ownership
  <2> QED
    BY <1>8, <2>1, VideoBounds DEF TimeOut, Begin, surfaceVars
<1>9. ASSUME NEW o \in Outputs, Publish(o) PROVE TypeOK'
  <2>1. torn[o] \ {target[o]} \in SUBSET Pair
    OBVIOUS
  <2> QED
    BY <1>9, <2>1, PublishedType DEF Publish, surfaceVars
<1>10. ASSUME NEW o \in Outputs, NoPicture(o) PROVE TypeOK'
  <2>1. torn[o] \cup {target[o]} \in SUBSET Pair
    OBVIOUS
  <2> QED
    BY <1>10, <2>1 DEF NoPicture, surfaceVars
<1>11. ASSUME NEW o \in Outputs, StoreFrame(o) PROVE TypeOK'
  BY <1>11, StoredType DEF StoreFrame, surfaceVars
<1>12. CASE UNCHANGED vars
  BY <1>12 DEF vars, surfaceVars, decoderVars
<1> QED
  BY <1>1, <1>2, <1>3, <1>4, <1>5, <1>6, <1>7, <1>8, <1>9, <1>10, <1>11, <1>12
     DEF Next, Frame, Sync, Decode, Finish

(* Only the UI loop gives a texture pair to an output, and takes it back    *)
(* with the mutex in hand.                                                   *)
LEMMA OwnershipStep ==
  ASSUME VInv, [Next]_vars
  PROVE  Ownership'
<1> USE OutputsAssumption, VideoBounds DEF VInv, Pair, NoTexture, Nothing, Empty, DecodedFrame, Slot, OutputState
<1>1. ASSUME NEW o \in Outputs, PeerStarted(o) PROVE Ownership'
  BY <1>1 DEF PeerStarted, TypeOK, Ownership, FreshBeforeAttach, Fresh
<1>2. ASSUME NEW o \in Outputs, PeerDropped(o) PROVE Ownership'
  BY <1>2 DEF PeerDropped, TypeOK, Ownership, FreshBeforeAttach, Fresh, Unlocked,
              Cleared, decoderVars
<1>3. ASSUME NEW o \in Outputs, Detach(o) PROVE Ownership'
  BY <1>3 DEF Detach, TypeOK, Ownership, FreshBeforeAttach, Fresh, Unlocked,
              Cleared, decoderVars
<1>4. ASSUME NEW o \in Outputs, Attach(o) PROVE Ownership'
  BY <1>4 DEF Attach, TypeOK, Ownership, FreshBeforeAttach, Fresh, Unlocked,
              Cleared, decoderVars
<1>5. ASSUME NEW o \in Outputs, PickFrame(o) PROVE Ownership'
  BY <1>5 DEF PickFrame, TypeOK, Ownership, FreshBeforeAttach, Fresh, decoderVars
<1>6. ASSUME NEW o \in Outputs, MarkDisplayed(o) PROVE Ownership'
  BY <1>6 DEF MarkDisplayed, TypeOK, Ownership, FreshBeforeAttach, Fresh,
              Unlocked, decoderVars
<1>7. CASE FreeTextures
  BY <1>7 DEF FreeTextures, TypeOK, Ownership, FreshBeforeAttach, Fresh, decoderVars
<1>8. CASE Proceed \/ NothingNew \/ Drawn
  BY <1>8 DEF Proceed, NothingNew, Drawn, TypeOK, Ownership, FreshBeforeAttach,
              Fresh, decoderVars
<1>9. ASSUME NEW o \in Outputs, DecoderStarts(o) PROVE Ownership'
  BY <1>9 DEF DecoderStarts, TypeOK, Ownership, FreshBeforeAttach, Fresh,
              surfaceVars
<1>10. ASSUME NEW o \in Outputs, LockTarget(o) PROVE Ownership'
  BY <1>10 DEF LockTarget, TypeOK, Ownership, FreshBeforeAttach, Fresh, Begin,
              FreeIndex, surfaceVars
<1>11. ASSUME NEW o \in Outputs, Wake(o) PROVE Ownership'
  BY <1>11 DEF Wake, TypeOK, Ownership, FreshBeforeAttach, Fresh, Begin,
              FreeIndex, surfaceVars
<1>12. ASSUME NEW o \in Outputs, TimeOut(o) PROVE Ownership'
  BY <1>12 DEF TimeOut, TypeOK, Ownership, FreshBeforeAttach, Fresh, Begin,
              surfaceVars
<1>13. ASSUME NEW o \in Outputs, Publish(o) PROVE Ownership'
  BY <1>13 DEF Publish, TypeOK, Ownership, FreshBeforeAttach, Fresh, surfaceVars
<1>14. ASSUME NEW o \in Outputs, NoPicture(o) PROVE Ownership'
  BY <1>14 DEF NoPicture, TypeOK, Ownership, FreshBeforeAttach, Fresh, surfaceVars
<1>15. ASSUME NEW o \in Outputs, StoreFrame(o) PROVE Ownership'
  BY <1>15 DEF StoreFrame, TypeOK, Ownership, FreshBeforeAttach, Fresh, surfaceVars
<1>16. ASSUME NEW o \in Outputs, WorkerStops(o) PROVE Ownership'
  BY <1>16 DEF WorkerStops, TypeOK, Ownership, FreshBeforeAttach, Fresh, surfaceVars
<1>17. CASE UNCHANGED vars
  BY <1>17 DEF vars, TypeOK, Ownership, FreshBeforeAttach, Fresh, surfaceVars,
              decoderVars
<1>18. QED
  BY <1>1, <1>2, <1>3, <1>4, <1>5, <1>6, <1>7, <1>8, <1>9, <1>10, <1>11, <1>12, <1>13, <1>14, <1>15, <1>16, <1>17
     DEF Next, Frame, Sync, Decode, Finish

(* No decoder gets past its first lock before its textures are attached.     *)
LEMMA FreshStep ==
  ASSUME VInv, [Next]_vars
  PROVE  FreshBeforeAttach'
<1> USE OutputsAssumption, VideoBounds DEF VInv, Pair, NoTexture, Nothing, Empty, DecodedFrame, Slot, OutputState
<1>1. ASSUME NEW o \in Outputs, PeerStarted(o) PROVE FreshBeforeAttach'
  BY <1>1 DEF PeerStarted, TypeOK, Ownership, FreshBeforeAttach, Fresh
<1>2. ASSUME NEW o \in Outputs, PeerDropped(o) PROVE FreshBeforeAttach'
  BY <1>2 DEF PeerDropped, TypeOK, Ownership, FreshBeforeAttach, Fresh, Unlocked,
              Cleared, decoderVars
<1>3. ASSUME NEW o \in Outputs, Detach(o) PROVE FreshBeforeAttach'
  BY <1>3 DEF Detach, TypeOK, Ownership, FreshBeforeAttach, Fresh, Unlocked,
              Cleared, decoderVars
<1>4. ASSUME NEW o \in Outputs, Attach(o) PROVE FreshBeforeAttach'
  BY <1>4 DEF Attach, TypeOK, Ownership, FreshBeforeAttach, Fresh, Unlocked,
              Cleared, decoderVars
<1>5. ASSUME NEW o \in Outputs, PickFrame(o) PROVE FreshBeforeAttach'
  BY <1>5 DEF PickFrame, TypeOK, Ownership, FreshBeforeAttach, Fresh, decoderVars
<1>6. ASSUME NEW o \in Outputs, MarkDisplayed(o) PROVE FreshBeforeAttach'
  BY <1>6 DEF MarkDisplayed, TypeOK, Ownership, FreshBeforeAttach, Fresh,
              Unlocked, decoderVars
<1>7. CASE FreeTextures
  BY <1>7 DEF FreeTextures, TypeOK, Ownership, FreshBeforeAttach, Fresh, decoderVars
<1>8. CASE Proceed \/ NothingNew \/ Drawn
  BY <1>8 DEF Proceed, NothingNew, Drawn, TypeOK, Ownership, FreshBeforeAttach,
              Fresh, decoderVars
<1>9. ASSUME NEW o \in Outputs, DecoderStarts(o) PROVE FreshBeforeAttach'
  BY <1>9 DEF DecoderStarts, TypeOK, Ownership, FreshBeforeAttach, Fresh,
              surfaceVars
<1>10. ASSUME NEW o \in Outputs, LockTarget(o) PROVE FreshBeforeAttach'
  BY <1>10 DEF LockTarget, TypeOK, Ownership, FreshBeforeAttach, Fresh, Begin,
              surfaceVars
<1>11. ASSUME NEW o \in Outputs, Wake(o) PROVE FreshBeforeAttach'
  BY <1>11 DEF Wake, TypeOK, Ownership, FreshBeforeAttach, Fresh, Begin, surfaceVars
<1>12. ASSUME NEW o \in Outputs, TimeOut(o) PROVE FreshBeforeAttach'
  BY <1>12 DEF TimeOut, TypeOK, Ownership, FreshBeforeAttach, Fresh, Begin,
              surfaceVars
<1>13. ASSUME NEW o \in Outputs, Publish(o) PROVE FreshBeforeAttach'
  BY <1>13 DEF Publish, TypeOK, Ownership, FreshBeforeAttach, Fresh, surfaceVars
<1>14. ASSUME NEW o \in Outputs, NoPicture(o) PROVE FreshBeforeAttach'
  BY <1>14 DEF NoPicture, TypeOK, Ownership, FreshBeforeAttach, Fresh, surfaceVars
<1>15. ASSUME NEW o \in Outputs, StoreFrame(o) PROVE FreshBeforeAttach'
  BY <1>15 DEF StoreFrame, TypeOK, Ownership, FreshBeforeAttach, Fresh, surfaceVars
<1>16. ASSUME NEW o \in Outputs, WorkerStops(o) PROVE FreshBeforeAttach'
  BY <1>16 DEF WorkerStops, TypeOK, Ownership, FreshBeforeAttach, Fresh, surfaceVars
<1>17. CASE UNCHANGED vars
  BY <1>17 DEF vars, TypeOK, Ownership, FreshBeforeAttach, Fresh, surfaceVars,
              decoderVars
<1>18. QED
  BY <1>1, <1>2, <1>3, <1>4, <1>5, <1>6, <1>7, <1>8, <1>9, <1>10, <1>11, <1>12, <1>13, <1>14, <1>15, <1>16, <1>17
     DEF Next, Frame, Sync, Decode, Finish

(* A guard is never on the texture on the screen; a first timeout puts it on *)
(* the pending one.                                                          *)
LEMMA StallStep ==
  ASSUME VInv, [Next]_vars
  PROVE  StallOnce'
<1> USE OutputsAssumption, VideoBounds DEF VInv, Pair, NoTexture, Nothing, Empty, DecodedFrame, Slot, OutputState
<1>1. ASSUME NEW o \in Outputs, PeerStarted(o) PROVE StallOnce'
  BY <1>1 DEF PeerStarted, TypeOK, Ownership, HandOver, InHand, Seen, Published,
              Stored, StallOnce
<1>2. ASSUME NEW o \in Outputs, PeerDropped(o) PROVE StallOnce'
  BY <1>2 DEF PeerDropped, TypeOK, Ownership, HandOver, InHand, Seen, Published,
              Stored, StallOnce, Unlocked, decoderVars
<1>3. ASSUME NEW o \in Outputs, Detach(o) PROVE StallOnce'
  BY <1>3 DEF Detach, TypeOK, Ownership, HandOver, InHand, Seen, Published,
              Stored, StallOnce, Unlocked, decoderVars
<1>4. ASSUME NEW o \in Outputs, Attach(o) PROVE StallOnce'
  BY <1>4 DEF Attach, TypeOK, Ownership, HandOver, InHand, Seen, Published,
              Stored, StallOnce, Unlocked, decoderVars
<1>5. ASSUME NEW o \in Outputs, PickFrame(o) PROVE StallOnce'
  BY <1>5 DEF PickFrame, TypeOK, Ownership, HandOver, InHand, Seen, Published,
              Stored, StallOnce, decoderVars
<1>6. ASSUME NEW o \in Outputs, MarkDisplayed(o) PROVE StallOnce'
  BY <1>6 DEF MarkDisplayed, TypeOK, Ownership, HandOver, InHand, Seen,
              Published, Stored, StallOnce, Unlocked, decoderVars
<1>7. CASE FreeTextures
  BY <1>7 DEF FreeTextures, TypeOK, Ownership, HandOver, InHand, Seen, Published,
              Stored, StallOnce, decoderVars
<1>8. CASE Proceed \/ NothingNew \/ Drawn
  BY <1>8 DEF Proceed, NothingNew, Drawn, TypeOK, Ownership, HandOver, InHand,
              Seen, Published, Stored, StallOnce, decoderVars
<1>9. ASSUME NEW o \in Outputs, DecoderStarts(o) PROVE StallOnce'
  BY <1>9 DEF DecoderStarts, TypeOK, Ownership, HandOver, InHand, Seen,
              Published, Stored, StallOnce, surfaceVars
<1>10. ASSUME NEW o \in Outputs, LockTarget(o) PROVE StallOnce'
  BY <1>10 DEF LockTarget, TypeOK, Ownership, HandOver, InHand, Seen, Published,
              Stored, StallOnce, Begin, FreeIndex, surfaceVars
<1>11. ASSUME NEW o \in Outputs, Wake(o) PROVE StallOnce'
  BY <1>11 DEF Wake, TypeOK, Ownership, HandOver, InHand, Seen, Published,
              Stored, StallOnce, Begin, FreeIndex, surfaceVars
<1>12. ASSUME NEW o \in Outputs, TimeOut(o) PROVE StallOnce'
  <2>1. stalls'[o] <= 1 => stalls[o] = 0
    BY <1>12 DEF TimeOut, TypeOK
  <2>2. stalls[o] = 0 => state[o].pending.index # shown
    BY <1>12 DEF TimeOut, TypeOK, HandOver, InHand
  <2>3. target'[o] = state[o].pending.index
    BY <1>12 DEF TimeOut, TypeOK, Begin
  <2>4. \A p \in Outputs \ {o} :
          decoder'[p] = decoder[p] /\ target'[p] = target[p] /\ stalls'[p] = stalls[p]
    BY <1>12 DEF TimeOut, TypeOK, Begin
  <2>5. shown' = shown
    BY <1>12 DEF TimeOut, surfaceVars
  <2> QED
    BY <2>1, <2>2, <2>3, <2>4, <2>5 DEF StallOnce
<1>13. ASSUME NEW o \in Outputs, Publish(o) PROVE StallOnce'
  BY <1>13 DEF Publish, TypeOK, Ownership, HandOver, InHand, Seen, Published,
              Stored, StallOnce, surfaceVars
<1>14. ASSUME NEW o \in Outputs, NoPicture(o) PROVE StallOnce'
  BY <1>14 DEF NoPicture, TypeOK, Ownership, HandOver, InHand, Seen, Published,
              Stored, StallOnce, surfaceVars
<1>15. ASSUME NEW o \in Outputs, StoreFrame(o) PROVE StallOnce'
  BY <1>15 DEF StoreFrame, TypeOK, Ownership, HandOver, InHand, Seen, Published,
              Stored, StallOnce, surfaceVars
<1>16. ASSUME NEW o \in Outputs, WorkerStops(o) PROVE StallOnce'
  BY <1>16 DEF WorkerStops, TypeOK, Ownership, HandOver, InHand, Seen, Published,
              Stored, StallOnce, surfaceVars
<1>17. CASE UNCHANGED vars
  BY <1>17 DEF vars, TypeOK, Ownership, HandOver, InHand, Seen, Published,
              Stored, StallOnce, surfaceVars, decoderVars
<1>18. QED
  BY <1>1, <1>2, <1>3, <1>4, <1>5, <1>6, <1>7, <1>8, <1>9, <1>10, <1>11, <1>12, <1>13, <1>14, <1>15, <1>16, <1>17
     DEF Next, Frame, Sync, Decode, Finish

(* The picture moves from Seen to Published to Stored and back to Seen.      *)
LEMMA HandOverStep ==
  ASSUME VInv, [Next]_vars
  PROVE  HandOver'
<1> USE OutputsAssumption, VideoBounds DEF VInv, Pair, NoTexture, Nothing, Empty, DecodedFrame, Slot, OutputState
<1>1. ASSUME NEW o \in Outputs, PeerStarted(o) PROVE HandOver'
  BY <1>1 DEF PeerStarted, TypeOK, Ownership, FreshBeforeAttach, Fresh, Counting,
              HandOver, InHand, Seen, Published, Stored, FreeIndex
<1>2. ASSUME NEW o \in Outputs, PeerDropped(o) PROVE HandOver'
  BY <1>2 DEF PeerDropped, TypeOK, Ownership, FreshBeforeAttach, Fresh, Counting,
              HandOver, InHand, Seen, Published, Stored, Unlocked, Cleared,
              FreeIndex, decoderVars
<1>3. ASSUME NEW o \in Outputs, Detach(o) PROVE HandOver'
  BY <1>3 DEF Detach, TypeOK, Ownership, FreshBeforeAttach, Fresh, Counting,
              HandOver, InHand, Seen, Published, Stored, Unlocked, Cleared,
              FreeIndex, decoderVars
<1>4. ASSUME NEW o \in Outputs, Attach(o) PROVE HandOver'
  <2>1. ASSUME NEW p \in Outputs, p # o PROVE state'[p].targets /\ stalls'[p] = 0 => InHand(p)'
    BY <1>4, <2>1 DEF Attach, TypeOK, Ownership, HandOver, InHand, Seen, Published, Stored, Begin,
       FreeIndex, surfaceVars, decoderVars
  <2>2. state'[o].targets /\ stalls'[o] = 0 => InHand(o)'
    <3>1. /\ slot[o].id = 0 /\ torn[o] = {} /\ decoder[o] \in {"idle", "ended", "starting", "none"}
          /\ shown = NoTexture /\ last_frame_id = 0
      BY <1>4 DEF Attach, Ownership, FreshBeforeAttach, Fresh
    <3>2. /\ state'[o].pending = Nothing
          /\ frame' = "sync" /\ UNCHANGED <<slot, torn, decoder, shown, last_frame_id>>
      BY <1>4 DEF Attach, Cleared, TypeOK, decoderVars
    <3> QED
      BY <3>1, <3>2 DEF InHand, Seen
  <2> QED
    BY <2>1, <2>2 DEF HandOver
<1>5. ASSUME NEW o \in Outputs, PickFrame(o) PROVE HandOver'
  BY <1>5 DEF PickFrame, TypeOK, Ownership, FreshBeforeAttach, Fresh, Counting,
              HandOver, InHand, Seen, Published, Stored, FreeIndex, decoderVars
<1>6. ASSUME NEW o \in Outputs, MarkDisplayed(o) PROVE HandOver'
  BY <1>6 DEF MarkDisplayed, TypeOK, Ownership, FreshBeforeAttach, Fresh,
              Counting, HandOver, InHand, Seen, Published, Stored, Unlocked,
              FreeIndex, decoderVars
<1>7. CASE FreeTextures
  BY <1>7 DEF FreeTextures, TypeOK, Ownership, FreshBeforeAttach, Fresh,
              Counting, HandOver, InHand, Seen, Published, Stored, FreeIndex,
              decoderVars
<1>8. CASE Proceed \/ NothingNew \/ Drawn
  BY <1>8 DEF Proceed, NothingNew, Drawn, TypeOK, Ownership, FreshBeforeAttach,
              Fresh, Counting, HandOver, InHand, Seen, Published, Stored,
              FreeIndex, decoderVars
<1>9. ASSUME NEW o \in Outputs, DecoderStarts(o) PROVE HandOver'
  BY <1>9 DEF DecoderStarts, TypeOK, Ownership, FreshBeforeAttach, Fresh,
              Counting, HandOver, InHand, Seen, Published, Stored, FreeIndex,
              surfaceVars
<1>10. ASSUME NEW o \in Outputs, LockTarget(o) PROVE HandOver'
  <2>1. ASSUME NEW p \in Outputs, p # o PROVE state'[p].targets /\ stalls'[p] = 0 => InHand(p)'
    BY <1>10, <2>1 DEF LockTarget, TypeOK, Ownership, HandOver, InHand, Seen, Published, Stored, Begin,
       FreeIndex, surfaceVars, decoderVars
  <2>2. state'[o].targets /\ stalls'[o] = 0 => InHand(o)'
    <3>1. UNCHANGED <<state, slot, last_frame_id, frame, streaming, picked, torn, shown, stalls>>
      BY <1>10 DEF LockTarget, surfaceVars
    <3>2. CASE state[o].pending = Nothing
      <4>1. state[o].targets /\ stalls[o] = 0 => Seen(o) /\ shown \notin torn[o]
        BY <1>10, <3>2 DEF LockTarget, HandOver, InHand, Published, Stored
      <4>2. decoder'[o] = "writing" /\ target'[o] = FreeIndex(state[o])
        BY <1>10, <3>2 DEF LockTarget, Begin, TypeOK
      <4> QED
        BY <3>1, <3>2, <4>1, <4>2 DEF InHand, Seen, FreeIndex
    <3>3. CASE state[o].pending # Nothing
      <4>1. state[o].targets /\ stalls[o] = 0 => InHand(o) /\ Stored(o)
        BY <1>10, <3>3 DEF LockTarget, HandOver, InHand, Seen, Published
      <4>2. decoder'[o] = "waiting"
        BY <1>10, <3>3 DEF LockTarget, TypeOK
      <4> QED
        BY <3>1, <4>1, <4>2 DEF InHand, Stored
    <3> QED
      BY <3>2, <3>3
  <2> QED
    BY <2>1, <2>2 DEF HandOver
<1>11. ASSUME NEW o \in Outputs, Wake(o) PROVE HandOver'
  <2>1. ASSUME NEW p \in Outputs, p # o PROVE state'[p].targets /\ stalls'[p] = 0 => InHand(p)'
    BY <1>11, <2>1 DEF Wake, TypeOK, Ownership, HandOver, InHand, Seen, Published, Stored, Begin,
       FreeIndex, surfaceVars, decoderVars
  <2>2. state'[o].targets /\ stalls'[o] = 0 => InHand(o)'
    <3>1. UNCHANGED <<state, slot, last_frame_id, frame, streaming, picked, torn, shown, stalls>>
      BY <1>11 DEF Wake, surfaceVars
    <3>2. state[o].targets =>
            /\ state[o].pending = Nothing
            /\ decoder'[o] = "writing" /\ target'[o] = FreeIndex(state[o])
      BY <1>11 DEF Wake, Begin, TypeOK
    <3>3. state[o].targets /\ stalls[o] = 0 => Seen(o) /\ shown \notin torn[o]
      BY <1>11, <3>2 DEF Wake, HandOver, InHand, Published, Stored
    <3> QED
      BY <3>1, <3>2, <3>3 DEF InHand, Seen, FreeIndex
  <2> QED
    BY <2>1, <2>2 DEF HandOver
<1>12. ASSUME NEW o \in Outputs, TimeOut(o) PROVE HandOver'
  BY <1>12 DEF TimeOut, TypeOK, Ownership, FreshBeforeAttach, Fresh, Counting,
              HandOver, InHand, Seen, Published, Stored, Begin, FreeIndex,
              surfaceVars
<1>13. ASSUME NEW o \in Outputs, Publish(o) PROVE HandOver'
  <2>1. ASSUME NEW p \in Outputs, p # o PROVE state'[p].targets /\ stalls'[p] = 0 => InHand(p)'
    BY <1>13, <2>1 DEF Publish, TypeOK, Ownership, HandOver, InHand, Seen, Published, Stored, Begin,
       FreeIndex, surfaceVars, decoderVars
  <2>2. state'[o].targets /\ stalls'[o] = 0 => InHand(o)'
    <3>1. stalls[o] = 0 /\ state[o].targets => Seen(o) /\ shown \notin torn[o]
      BY <1>13 DEF Publish, HandOver, InHand, Published, Stored
    <3>2. state[o].targets /\ state'[o].targets
      BY <1>13 DEF Publish, Ownership, TypeOK
    <3>3. Seen(o) => target[o] # shown /\ target[o] \in Pair
      BY <1>13, <3>2 DEF Publish, Ownership, TypeOK, Seen, FreeIndex
    <3>4. Seen(o) => Published(o)'
      BY <1>13 DEF Publish, TypeOK, Seen, Published, surfaceVars
    <3>5. /\ state'[o].pending.index = target[o]
          /\ torn'[o] = torn[o] \ {target[o]}
          /\ shown' = shown /\ stalls' = stalls
      BY <1>13 DEF Publish, TypeOK, surfaceVars
    <3> QED
      BY <3>1, <3>2, <3>3, <3>4, <3>5 DEF InHand
  <2> QED
    BY <2>1, <2>2 DEF HandOver
<1>14. ASSUME NEW o \in Outputs, NoPicture(o) PROVE HandOver'
  BY <1>14 DEF NoPicture, TypeOK, Ownership, FreshBeforeAttach, Fresh, Counting,
              HandOver, InHand, Seen, Published, Stored, FreeIndex, surfaceVars
<1>15. ASSUME NEW o \in Outputs, StoreFrame(o) PROVE HandOver'
  BY <1>15 DEF StoreFrame, TypeOK, Ownership, FreshBeforeAttach, Fresh, Counting,
              HandOver, InHand, Seen, Published, Stored, FreeIndex, surfaceVars
<1>16. ASSUME NEW o \in Outputs, WorkerStops(o) PROVE HandOver'
  BY <1>16 DEF WorkerStops, TypeOK, Ownership, FreshBeforeAttach, Fresh,
              Counting, HandOver, InHand, Seen, Published, Stored, FreeIndex,
              surfaceVars
<1>17. CASE UNCHANGED vars
  BY <1>17 DEF vars, TypeOK, Ownership, FreshBeforeAttach, Fresh, Counting,
              HandOver, InHand, Seen, Published, Stored, FreeIndex, surfaceVars,
              decoderVars
<1>18. QED
  BY <1>1, <1>2, <1>3, <1>4, <1>5, <1>6, <1>7, <1>8, <1>9, <1>10, <1>11, <1>12, <1>13, <1>14, <1>15, <1>16, <1>17
     DEF Next, Frame, Sync, Decode, Finish

(* Only Publish and StoreFrame touch the two counters.                       *)
LEMMA CountingStep ==
  ASSUME VInv, [Next]_vars
  PROVE  Counting'
<1>0. TypeOK /\ Counting /\ Ownership /\ FreshBeforeAttach
  BY DEF VInv
<1> USE <1>0 DEF TypeOK, OutputState, Slot, Counting
<1>1. ASSUME NEW o \in Outputs, PeerDropped(o) \/ Detach(o) \/ Attach(o) \/ MarkDisplayed(o)
      PROVE  Counting'
  <2>1. \A p \in Outputs : state'[p].next_generation = state[p].next_generation
    <3>1. CASE PeerDropped(o) \/ Detach(o)
      <4>1. state' = [state EXCEPT ![o] = Cleared(@)]
        BY <3>1 DEF PeerDropped, Detach
      <4> QED
        BY <4>1 DEF Cleared
    <3>2. CASE Attach(o)
      BY <3>2 DEF Attach, Cleared
    <3>3. CASE MarkDisplayed(o)
      BY <3>3 DEF MarkDisplayed
    <3> QED
      BY <1>1, <3>1, <3>2, <3>3
  <2>2. UNCHANGED decoderVars
    BY <1>1 DEF PeerDropped, Detach, Attach, MarkDisplayed
  <2> QED
    BY <2>1, <2>2 DEF decoderVars
<1>2. ASSUME NEW o \in Outputs, PeerStarted(o) \/ PickFrame(o) PROVE Counting'
  BY <1>2 DEF PeerStarted, PickFrame, decoderVars
<1>3. CASE FreeTextures \/ Proceed \/ NothingNew \/ Drawn
  BY <1>3 DEF FreeTextures, Proceed, NothingNew, Drawn, decoderVars
<1>4. ASSUME NEW o \in Outputs,
             DecoderStarts(o) \/ LockTarget(o) \/ Wake(o) \/ TimeOut(o) \/ NoPicture(o)
               \/ WorkerStops(o)
      PROVE  Counting'
  BY <1>4 DEF DecoderStarts, LockTarget, Wake, TimeOut, NoPicture, WorkerStops, Begin
<1>5. ASSUME NEW o \in Outputs, Publish(o) PROVE Counting'
  BY <1>5 DEF Publish
<1>6. ASSUME NEW o \in Outputs, StoreFrame(o) PROVE Counting'
  BY <1>6 DEF StoreFrame
<1>7. CASE UNCHANGED vars
  BY <1>7 DEF vars, decoderVars
<1> QED
  BY <1>1, <1>2, <1>3, <1>4, <1>5, <1>6, <1>7 DEF Next, Frame, Sync, Decode, Finish

(* The picture on the screen stays whole, also after its targets are cleared *)
(* and until its textures are freed.                                         *)
LEMMA ShownStep ==
  ASSUME VInv, [Next]_vars
  PROVE  ShownIsWhole'
<1>0. TypeOK /\ Ownership /\ HandOver /\ ShownIsWhole
  BY DEF VInv
<1> USE <1>0, OutputsAssumption DEF ShownIsWhole
<1>1. ASSUME NEW o \in Outputs, PeerStarted(o) \/ PeerDropped(o) \/ Detach(o) \/ PickFrame(o)
      PROVE  ShownIsWhole'
  BY <1>1 DEF PeerStarted, PeerDropped, Detach, PickFrame, decoderVars
<1>2. ASSUME NEW o \in Outputs, Attach(o) PROVE ShownIsWhole'
  BY <1>2 DEF Attach, Ownership
<1>3. ASSUME NEW o \in Outputs, MarkDisplayed(o) PROVE ShownIsWhole'
  <2>1. textures = o /\ state[o].targets
    BY <1>3 DEF MarkDisplayed, Ownership
  <2>2. stalls[o] = 0 => shown' \notin torn[o]
    BY <1>3, <2>1 DEF MarkDisplayed, HandOver, InHand, Seen, Published, Stored
  <2> QED
    BY <1>3, <2>1, <2>2 DEF MarkDisplayed, decoderVars
<1>4. CASE FreeTextures \/ Proceed \/ NothingNew \/ Drawn
  BY <1>4 DEF FreeTextures, Proceed, NothingNew, Drawn, decoderVars
<1>5. ASSUME NEW o \in Outputs,
             DecoderStarts(o) \/ LockTarget(o) \/ Wake(o) \/ StoreFrame(o) \/ WorkerStops(o)
      PROVE  ShownIsWhole'
  BY <1>5 DEF DecoderStarts, LockTarget, Wake, StoreFrame, WorkerStops, surfaceVars
<1>6. ASSUME NEW o \in Outputs, TimeOut(o) PROVE ShownIsWhole'
  BY <1>6 DEF TimeOut, TypeOK, surfaceVars
<1>7. ASSUME NEW o \in Outputs, Publish(o) PROVE ShownIsWhole'
  BY <1>7 DEF Publish, TypeOK, surfaceVars
<1>8. ASSUME NEW o \in Outputs, NoPicture(o) PROVE ShownIsWhole'
  <2>1. target[o] # shown \/ stalls[o] # 0
    BY <1>8 DEF VInv, NoPicture, StallOnce
  <2> QED
    BY <1>8, <2>1, SMTT(30) DEF NoPicture, TypeOK, surfaceVars
<1>9. CASE UNCHANGED vars
  BY <1>9 DEF vars, surfaceVars, decoderVars
<1> QED
  BY <1>1, <1>2, <1>3, <1>4, <1>5, <1>6, <1>7, <1>8, <1>9
     DEF Next, Frame, Sync, Decode, Finish

-----------------------------------------------------------------------------
(* The inductive invariant holds in every reachable state.                   *)
THEOREM VideoInvariant == Spec => []VInv
<1>1. Init => VInv
  BY VInitInv
<1>2. VInv /\ [Next]_vars => VInv'
  BY VTypeStep, OwnershipStep, FreshStep, CountingStep, HandOverStep,
     ShownStep, StallStep DEF VInv
<1> QED
  BY <1>1, <1>2, PTL DEF Spec

(* The variables keep their types, for all sessions, pictures and stalls.    *)
THEOREM VideoTypeCorrect == Spec => []TypeOK
<1>1. VInv => TypeOK
  BY DEF VInv
<1> QED
  BY <1>1, VideoInvariant, PTL

(* No decode thread writes into textures the UI loop has freed, whatever the *)
(* number of sessions and of waits that time out.                            *)
THEOREM TexturesOutliveWriters == Spec => []NoWriteToFreed
<1>1. VInv => NoWriteToFreed
  BY OutputsAssumption DEF VInv, Ownership, NoWriteToFreed
<1> QED
  BY <1>1, VideoInvariant, PTL

(* Without a stall, what is drawn is a whole picture.                        *)
THEOREM DrawsWholeFrames == Spec => []WholeFrames
<1>1. VInv => WholeFrames
  <2> SUFFICES ASSUME VInv, NEW o \in Outputs, Drawing(o), stalls[o] = 0
               PROVE  shown \notin torn[o] /\ ~ (decoder[o] = "writing" /\ target[o] = shown)
    BY DEF WholeFrames
  <2>1. decoder[o] = "writing" => target[o] # shown
    BY DEF VInv, StallOnce
  <2>2. shown \notin torn[o]
    BY DEF VInv, ShownIsWhole, Drawing
  <2> QED
    BY <2>1, <2>2
<1> QED
  BY <1>1, VideoInvariant, PTL

(* The first stall of a session does not tear the picture on the screen.     *)
THEOREM FirstStallIsHarmless == Spec => []OneStallIsHarmless
<1>1. VInv => OneStallIsHarmless
  BY DEF VInv, StallOnce, OneStallIsHarmless
<1> QED
  BY <1>1, VideoInvariant, PTL

(* Without a stall, the UI loop never waits for a decode call.               *)
THEOREM UiLoopNotBlocked == Spec => []MarkNeverBlocks
<1>1. VInv => MarkNeverBlocks
  <2> SUFFICES ASSUME VInv, NEW o \in Outputs, frame = "mark", streaming = o, stalls[o] = 0
               PROVE  Unlocked(o)
    BY DEF MarkNeverBlocks
  <2>1. state[o].targets
    BY DEF VInv, Ownership
  <2>2. Stored(o)
    BY <2>1 DEF VInv, HandOver, InHand, Seen, Published
  <2> QED
    BY <2>2 DEF Stored, Unlocked
<1> QED
  BY <1>1, VideoInvariant, PTL
-----------------------------------------------------------------------------
(* FramesMoveForward, whatever the number of waits that time out             *)

(* Generations only grow, the slot numbers its pictures like publish does,   *)
(* and the picture about to be marked is newer than the last one marked.     *)
Numbered(o) ==
  /\ \A i \in Pair : content[o][i] <= state[o].next_generation
  /\ slot[o].id > 0 => slot[o].frame.generation = slot[o].id
  /\ state[o].targets => last_frame_id <= slot[o].id
  /\ frame = "mark" /\ streaming = o =>
       /\ picked.frame.generation = picked.id
       /\ last_frame_id < picked.id /\ picked.id <= slot[o].id

(* Nothing waits to be marked: the texture on the screen is the newest.      *)
UpToDate(o) ==
  /\ state[o].pending = Nothing
  /\ slot[o].id = last_frame_id
  /\ decoder[o] # "publishing"
  /\ ~ (frame = "mark" /\ streaming = o)
  /\ shown # NoTexture => content[o][shown] = state[o].next_generation

(* Pictures wait: all of them, those decoded over included, in one texture,  *)
(* which holds the newest.                                                   *)
Behind(o) ==
  /\ state[o].pending # Nothing
  /\ state[o].pending.generation = state[o].next_generation
  /\ content[o][state[o].pending.index] = state[o].next_generation
  /\ decoder[o] \in {"writing", "publishing"} => target[o] = state[o].pending.index
  /\ slot[o].id # last_frame_id => slot[o].frame.index = state[o].pending.index
  /\ frame = "mark" /\ streaming = o => picked.frame.index = state[o].pending.index

Forward == \A o \in Outputs : Numbered(o) /\ (state[o].targets => UpToDate(o) \/ Behind(o))

(* Initially no output has textures.                                         *)
LEMMA InitForward == Init => Forward
BY VideoBounds DEF Init, Forward, Numbered, Pair, Empty, Nothing

(* Clearing the targets does not touch the count of generations.             *)
LEMMA ClearedFields ==
  ASSUME NEW s \in OutputState
  PROVE  LET c == Cleared(s)
             t == [c EXCEPT !.targets = TRUE]
         IN /\ c.targets = FALSE /\ c.next_generation = s.next_generation
            /\ t.targets = TRUE /\ t.next_generation = s.next_generation
            /\ t.pending = Nothing
BY DEF Cleared, OutputState

(* Entering and leaving a session, attaching and freeing textures.           *)
LEMMA ForwardSession ==
  ASSUME VInv, Forward,
         \/ \E o \in Outputs : PeerStarted(o) \/ PeerDropped(o) \/ Detach(o) \/ Attach(o)
         \/ FreeTextures
  PROVE  Forward'
<1> USE OutputsAssumption, VideoBounds DEF VInv
<1> SUFFICES ASSUME NEW p \in Outputs
             PROVE  (Numbered(p) /\ (state[p].targets => UpToDate(p) \/ Behind(p)))'
  BY DEF Forward
<1>0. Numbered(p) /\ (state[p].targets => UpToDate(p) \/ Behind(p))
  BY DEF Forward
<1>1. ASSUME NEW o \in Outputs, PeerStarted(o)
      PROVE  (Numbered(p) /\ (state[p].targets => UpToDate(p) \/ Behind(p)))'
  BY <1>0, <1>1 DEF PeerStarted, Numbered, UpToDate, Behind, TypeOK, Ownership
<1>2. ASSUME NEW o \in Outputs, PeerDropped(o) \/ Detach(o)
      PROVE  (Numbered(p) /\ (state[p].targets => UpToDate(p) \/ Behind(p)))'
  <2>1. /\ ~ state'[o].targets
        /\ state'[o].next_generation = state[o].next_generation
        /\ \A q \in Outputs : q # o => state'[q] = state[q]
    <3>1. state \in [Outputs -> OutputState] /\ state[o] \in OutputState
      BY DEF TypeOK
    <3>2. state' = [state EXCEPT ![o] = Cleared(state[o])]
      BY <1>2 DEF PeerDropped, Detach
    <3>3. /\ state'[o] = Cleared(state[o])
          /\ \A q \in Outputs : q # o => state'[q] = state[q]
      BY <3>1, <3>2
    <3> QED
      BY <3>1, <3>3, ClearedFields
  <2>2. /\ UNCHANGED <<shown, last_frame_id, picked, slot, decoder, target, content>>
        /\ frame' # "mark"
    BY <1>2 DEF PeerDropped, Detach, decoderVars
  <2>3. Numbered(p)'
    <3>1. CASE p = o
      BY <1>0, <2>1, <2>2, <3>1 DEF Numbered
    <3>2. CASE p # o
      BY <1>0, <2>1, <2>2, <3>2 DEF Numbered
    <3> QED
      BY <3>1, <3>2
  <2>4. CASE p = o
    BY <2>1, <2>3, <2>4
  <2>5. CASE p # o
    BY <1>0, <2>1, <2>2, <2>3, <2>5 DEF UpToDate, Behind
  <2> QED
    BY <2>4, <2>5
<1>3. ASSUME NEW o \in Outputs, Attach(o)
      PROVE  (Numbered(p) /\ (state[p].targets => UpToDate(p) \/ Behind(p)))'
  <2>1. Fresh(o) /\ shown = NoTexture /\ last_frame_id = 0 /\ slot[o].id = 0
    BY <1>3 DEF Attach, Ownership, FreshBeforeAttach, Fresh
  <2>2. /\ state'[o].targets /\ state'[o].pending = Nothing
        /\ state'[o].next_generation = state[o].next_generation
        /\ \A q \in Outputs : q # o => state'[q] = state[q]
    BY <1>3, ClearedFields DEF Attach, TypeOK
  <2>3. UNCHANGED <<frame, streaming, shown, last_frame_id, picked, slot, decoder, target, content>>
        /\ frame = "sync"
    BY <1>3 DEF Attach, decoderVars
  <2>4. Numbered(p)'
    <3>1. CASE p = o
      <4>1. last_frame_id' <= slot'[o].id
        BY <2>1, <2>3
      <4> QED
        BY <1>0, <2>2, <2>3, <3>1, <4>1 DEF Numbered
    <3>2. CASE p # o
      BY <1>0, <2>2, <2>3, <3>2 DEF Numbered
    <3> QED
      BY <3>1, <3>2
  <2>5. CASE p = o
    BY <2>1, <2>2, <2>3, <2>4, <2>5 DEF UpToDate, Fresh
  <2>6. CASE p # o
    BY <1>0, <2>2, <2>3, <2>4, <2>6 DEF UpToDate, Behind
  <2> QED
    BY <2>5, <2>6
<1>4. CASE FreeTextures
  <2>1. ~ state[p].targets
    BY <1>4 DEF FreeTextures, Ownership
  <2> QED
    BY <1>0, <1>4, <2>1 DEF FreeTextures, Numbered, decoderVars
<1> QED
  BY <1>1, <1>2, <1>3, <1>4

(* The picture in the slot is looked at and marked.                          *)
LEMMA ForwardMark ==
  ASSUME VInv, Forward, NEW o \in Outputs, PickFrame(o) \/ MarkDisplayed(o)
  PROVE  Forward'
<1> USE OutputsAssumption, VideoBounds DEF VInv
<1> SUFFICES ASSUME NEW p \in Outputs
             PROVE  (Numbered(p) /\ (state[p].targets => UpToDate(p) \/ Behind(p)))'
  BY DEF Forward
<1>0. /\ Numbered(p) /\ (state[p].targets => UpToDate(p) \/ Behind(p))
      /\ Numbered(o) /\ (state[o].targets => UpToDate(o) \/ Behind(o))
  BY DEF Forward
<1>1. CASE PickFrame(o)
  <2>1. state[o].targets /\ slot[o].id # last_frame_id /\ slot[o].id > 0
    BY <1>1 DEF PickFrame, Ownership, TypeOK, Slot
  <2>2. Behind(o) /\ last_frame_id <= slot[o].id
    BY <1>0, <2>1 DEF UpToDate, Numbered
  <2>3. Numbered(p)'
    <3>1. /\ slot[o].id \in Nat /\ last_frame_id < slot[o].id
          /\ slot[o].frame.generation = slot[o].id
      <4>1. slot[o] \in Slot /\ last_frame_id \in 0 .. MaxFrames
        BY DEF TypeOK
      <4>2. slot[o].id \in Nat /\ last_frame_id \in Nat
        BY <4>1 DEF Slot
      <4>3. slot[o].frame.generation = slot[o].id
        BY <1>0, <2>1 DEF Numbered
      <4> QED
        BY <2>1, <2>2, <4>2, <4>3
    <3>2. /\ UNCHANGED <<state, slot, content, last_frame_id, streaming>>
          /\ streaming = o /\ picked' = slot[o]
      BY <1>1 DEF PickFrame, decoderVars
    <3>3. CASE p = o
      <4>1. picked'.frame.generation = picked'.id /\ last_frame_id' < picked'.id
            /\ picked'.id <= slot'[o].id
        BY <3>1, <3>2
      <4> QED
        BY <1>0, <3>2, <3>3, <4>1 DEF Numbered
    <3>4. CASE p # o
      BY <1>0, <3>2, <3>4 DEF Numbered
    <3> QED
      BY <3>3, <3>4
  <2>4. state[p].targets => (UpToDate(p) \/ Behind(p))'
    BY <1>0, <1>1, <2>1, <2>2 DEF PickFrame, UpToDate, Behind, TypeOK, decoderVars
  <2> QED
    BY <1>1, <2>3, <2>4 DEF PickFrame
<1>2. CASE MarkDisplayed(o)
  <2>1. /\ state[o].targets /\ picked.frame.generation = picked.id
        /\ last_frame_id < picked.id /\ picked.id <= slot[o].id
        /\ ~ UpToDate(o) /\ Behind(o) /\ picked.frame.index = state[o].pending.index
    BY <1>0, <1>2 DEF MarkDisplayed, Ownership, Numbered, UpToDate, Behind
  <2>2. last_frame_id' = picked.id /\ shown' = picked.frame.index /\ frame' = "ui"
    BY <1>2 DEF MarkDisplayed
  <2>3. CASE p # o
    <3>1. ~ state[p].targets /\ state'[p] = state[p]
      BY <1>2, <2>1, <2>3 DEF MarkDisplayed, Ownership, TypeOK
    <3> QED
      BY <1>0, <1>2, <2>2, <3>1 DEF Numbered, MarkDisplayed, decoderVars
  <2>4. CASE p = o
    <3>1. /\ state'[o].next_generation = state[o].next_generation
          /\ state'[o].targets
          /\ state'[o].pending =
               IF state[o].pending = picked.frame THEN Nothing ELSE state[o].pending
      BY <1>2, <2>1 DEF MarkDisplayed, TypeOK, OutputState
    <3>2. Numbered(o)'
      BY <1>0, <1>2, <2>1, <2>2, <3>1 DEF Numbered, MarkDisplayed, decoderVars, TypeOK, Slot
    <3>3. CASE state[o].pending = picked.frame
      <4>1. picked.id = state[o].next_generation
        BY <2>1, <3>3 DEF Behind
      <4>2. slot[o].id = picked.id /\ decoder[o] # "publishing"
        BY <2>1, <4>1 DEF Counting, TypeOK, Slot, OutputState
      <4> QED
        BY <1>2, <2>1, <2>2, <2>4, <3>1, <3>2, <3>3, <4>1, <4>2
           DEF UpToDate, Behind, MarkDisplayed, decoderVars
    <3>4. CASE state[o].pending # picked.frame
      <4>1. slot[o].id # last_frame_id
        BY <2>1 DEF TypeOK, Slot
      <4> QED
        BY <1>2, <2>1, <2>2, <2>4, <3>1, <3>2, <3>4, <4>1 DEF Behind, MarkDisplayed, decoderVars
    <3> QED
      BY <3>3, <3>4
  <2> QED
    BY <2>3, <2>4
<1> QED
  BY <1>1, <1>2

(* A decode thread takes a texture, writes and publishes.                    *)
LEMMA ForwardDecode ==
  ASSUME VInv, Forward, NEW o \in Outputs, Decode(o)
  PROVE  Forward'
<1> USE OutputsAssumption, VideoBounds DEF VInv
<1> SUFFICES ASSUME NEW p \in Outputs
             PROVE  (Numbered(p) /\ (state[p].targets => UpToDate(p) \/ Behind(p)))'
  BY DEF Forward
<1>0. Numbered(p) /\ (state[p].targets => UpToDate(p) \/ Behind(p))
  BY DEF Forward
<1>1. CASE DecoderStarts(o) \/ WorkerStops(o) \/ NoPicture(o)
  BY <1>0, <1>1 DEF DecoderStarts, WorkerStops, NoPicture, Numbered, UpToDate, Behind, TypeOK,
                    surfaceVars
<1>2. CASE LockTarget(o) \/ Wake(o) \/ TimeOut(o)
  BY <1>0, <1>2 DEF LockTarget, Wake, TimeOut, Begin, Numbered, UpToDate, Behind, TypeOK,
                    surfaceVars
<1>3. CASE Publish(o)
  <2> DEFINE g == state[o].next_generation + 1
  <2>1. /\ state[o].targets /\ target[o] \in Pair /\ state[o].next_generation \in Nat
        /\ state'[o].targets
        /\ state'[o].next_generation = g
        /\ state'[o].pending = [index |-> target[o], generation |-> g]
        /\ content'[o][target[o]] = g
        /\ \A i \in Pair : i # target[o] => content'[o][i] = content[o][i]
        /\ \A i \in Pair : content[o][i] \in Nat
        /\ \A q \in Outputs : q # o => state'[q] = state[q] /\ content'[q] = content[q]
        /\ decoder' = [decoder EXCEPT ![o] = "publishing"]
        /\ UNCHANGED <<surfaceVars, slot, target>>
    BY <1>3 DEF Publish, TypeOK, OutputState, Ownership
  <2>2. [index |-> target[o], generation |-> g] # Nothing
    BY <2>1 DEF Nothing
  <2>3. CASE p # o
    BY <1>0, <2>1, <2>3 DEF Numbered, UpToDate, Behind, TypeOK, surfaceVars
  <2>4. CASE p = o
    <3>1. Numbered(o)'
      BY <1>0, <2>1, <2>4 DEF Numbered, surfaceVars
    <3>2. Behind(o)'
      BY <1>0, <1>3, <2>1, <2>2, <2>4 DEF Publish, UpToDate, Behind, TypeOK, surfaceVars
    <3> QED
      BY <2>4, <3>1, <3>2
  <2> QED
    BY <2>3, <2>4
<1>4. CASE StoreFrame(o)
  <2>1. /\ state[o].next_generation = slot[o].id + 1 /\ slot[o].id \in Nat
        /\ slot'[o] = [id |-> slot[o].id + 1,
                       frame |-> [index |-> target[o], generation |-> state[o].next_generation]]
        /\ decoder'[o] = "idle" /\ decoder[o] = "publishing"
        /\ \A q \in Outputs : q # o => slot'[q] = slot[q] /\ decoder'[q] = decoder[q]
        /\ UNCHANGED <<surfaceVars, state, target, content>>
    BY <1>4 DEF StoreFrame, TypeOK, Slot, Counting
  <2>2. last_frame_id \in Nat /\ picked.id \in Nat
    BY DEF TypeOK, Slot
  <2>3. CASE p # o
    BY <1>0, <2>1, <2>3 DEF Numbered, UpToDate, Behind, surfaceVars
  <2>4. CASE p = o
    <3>1. Numbered(o)'
      BY <1>0, <2>1, <2>2, <2>4 DEF Numbered, surfaceVars
    <3>2. state[o].targets => Behind(o)'
      BY <1>0, <2>1, <2>2, <2>4 DEF UpToDate, Behind, surfaceVars
    <3> QED
      BY <2>1, <2>4, <3>1, <3>2
  <2> QED
    BY <2>3, <2>4
<1> QED
  BY <1>1, <1>2, <1>3, <1>4 DEF Decode, Finish

(* Every step keeps it.                                                      *)
LEMMA ForwardStep ==
  ASSUME VInv, Forward, [Next]_vars
  PROVE  Forward'
<1>1. CASE Proceed \/ NothingNew \/ Drawn
  BY <1>1 DEF Proceed, NothingNew, Drawn, Forward, Numbered, UpToDate, Behind, decoderVars
<1>2. CASE UNCHANGED vars
  BY <1>2 DEF vars, surfaceVars, decoderVars, Forward, Numbered, UpToDate, Behind
<1> QED
  BY <1>1, <1>2, ForwardSession, ForwardMark, ForwardDecode DEF Next, Frame, Sync

(* No step replaces what is on the screen by something older.                *)
LEMMA ForwardOnScreen ==
  ASSUME VInv, Forward, [Next]_vars, NEW o \in Outputs,
         textures = o, textures' = o, shown # NoTexture, shown' # NoTexture
  PROVE  content[o][shown] <= content'[o][shown']
<1>0. /\ shown \in Pair /\ \A i \in Pair : content[o][i] \in Nat
      /\ \A i \in Pair : content[o][i] <= state[o].next_generation
      /\ state[o].next_generation \in Nat
  BY VideoBounds DEF VInv, TypeOK, OutputState, Forward, Numbered
<1>1. ASSUME NEW p \in Outputs, MarkDisplayed(p)
      PROVE  content[o][shown] <= content'[o][shown']
  <2>1. p = o /\ state[o].targets
    BY <1>1, OutputsAssumption DEF VInv, Ownership, MarkDisplayed
  <2>2. Behind(o) /\ picked.frame.index = state[o].pending.index
    BY <1>1, <2>1 DEF Forward, UpToDate, Behind, MarkDisplayed
  <2> QED
    BY <1>0, <1>1, <2>1, <2>2 DEF Behind, MarkDisplayed, decoderVars
<1>2. ASSUME NEW p \in Outputs, Publish(p)
      PROVE  content[o][shown] <= content'[o][shown']
  BY <1>0, <1>2 DEF Publish, VInv, TypeOK, surfaceVars
<1>3. CASE FreeTextures
  BY <1>3, OutputsAssumption DEF FreeTextures
<1>4. ASSUME UNCHANGED <<shown, content>>
      PROVE  content[o][shown] <= content'[o][shown']
  BY <1>0, <1>4
<1> QED
  BY <1>1, <1>2, <1>3, <1>4
     DEF Next, Frame, Sync, Decode, Finish, PeerStarted, PeerDropped, Detach, Attach, PickFrame,
         Proceed, NothingNew, Drawn, DecoderStarts, LockTarget, Wake, TimeOut, NoPicture,
         StoreFrame, WorkerStops, vars, surfaceVars, decoderVars

(* The stream on the screen never steps back to an older picture, also when  *)
(* waits time out and pictures are decoded over.                             *)
THEOREM ScreenMovesForward == Spec => FramesMoveForward
<1>1. Init => VInv /\ Forward
  BY VInitInv, InitForward
<1>2. VInv /\ Forward /\ [Next]_vars => Forward'
  BY ForwardStep
<1>3. VInv /\ Forward /\ [Next]_vars =>
        [\A o \in Outputs :
           textures = o /\ textures' = o /\ shown # NoTexture /\ shown' # NoTexture
             => content[o][shown] <= content'[o][shown']]_vars
  BY ForwardOnScreen
<1> QED
  BY <1>1, <1>2, <1>3, VideoInvariant, PTL DEF Spec, FramesMoveForward

-----------------------------------------------------------------------------
(* What WaitEnds and PictureReachesScreen rest on: a picture that waits is   *)
(* never hidden from the UI loop.                                            *)

(* A picture that waits in the slot has not been marked.                     *)
Unmarked(o) ==
  state[o].targets /\ state[o].pending # Nothing /\ decoder[o] # "publishing"
    => slot[o].id # last_frame_id

(* sync_video_frame finds what the decode thread waits for: the picture is   *)
(* in the slot of the output that is attached, under an id it has not seen.  *)
PendingIsOffered ==
  \A o \in Outputs :
    state[o].pending # Nothing /\ decoder[o] # "publishing" =>
      /\ attached = o
      /\ slot[o].frame = state[o].pending
      /\ slot[o].id \notin {0, last_frame_id}

(* Pictures with the same index and generation are the same.                 *)
LEMMA SamePicture ==
  ASSUME NEW f \in DecodedFrame, NEW g \in DecodedFrame,
         f.index = g.index, f.generation = g.generation
  PROVE  f = g
BY DEF DecodedFrame

(* The last picture marked is the one in the slot only when it is the one    *)
(* that waits, and then it waits no longer.                                  *)
LEMMA UnmarkedMark ==
  ASSUME VInv, Forward, NEW o \in Outputs, MarkDisplayed(o)
  PROVE  Unmarked(o)'
<1> USE OutputsAssumption, VideoBounds DEF VInv
<1> SUFFICES ASSUME state'[o].pending # Nothing, decoder'[o] # "publishing"
             PROVE  slot'[o].id # last_frame_id'
  BY DEF Unmarked
<1>1. /\ state[o].targets /\ picked.frame.generation = picked.id
      /\ Behind(o) /\ picked.frame.index = state[o].pending.index
  BY DEF Forward, MarkDisplayed, Ownership, Numbered, UpToDate, Behind
<1>2. /\ state'[o].pending =
             IF state[o].pending = picked.frame THEN Nothing ELSE state[o].pending
      /\ last_frame_id' = picked.id /\ slot' = slot /\ decoder' = decoder
  BY DEF MarkDisplayed, TypeOK, OutputState, decoderVars
<1>3. state[o].pending # picked.frame
  BY <1>2
<1>4. state[o].pending.generation # picked.frame.generation
  <2>1. state[o].pending \in DecodedFrame /\ picked.frame \in DecodedFrame
    BY DEF TypeOK, OutputState, Slot
  <2> QED
    BY <1>1, <1>3, <2>1, SamePicture
<1>5. state[o].next_generation = slot[o].id
  BY <1>2 DEF Counting, TypeOK, Slot
<1> QED
  BY <1>1, <1>2, <1>4, <1>5 DEF Behind

(* Every step keeps it.                                                      *)
LEMMA UnmarkedStep ==
  ASSUME VInv, Forward, [Next]_vars, \A o \in Outputs : Unmarked(o)
  PROVE  \A o \in Outputs : Unmarked(o)'
<1> USE OutputsAssumption, VideoBounds DEF VInv
<1> SUFFICES ASSUME NEW p \in Outputs PROVE Unmarked(p)'
  OBVIOUS
<1>0. Unmarked(p) /\ Numbered(p)
  BY DEF Forward
<1>1. ASSUME NEW o \in Outputs, PeerDropped(o) \/ Detach(o) \/ Attach(o) PROVE Unmarked(p)'
  <2>1. /\ state'[o].targets => state'[o].pending = Nothing
        /\ \A q \in Outputs : q # o => state'[q] = state[q]
    <3>1. state \in [Outputs -> OutputState] /\ state[o] \in OutputState
      BY DEF TypeOK
    <3>2. CASE PeerDropped(o) \/ Detach(o)
      <4>1. state' = [state EXCEPT ![o] = Cleared(state[o])]
        BY <3>2 DEF PeerDropped, Detach
      <4> QED
        BY <4>1, <3>1, ClearedFields
    <3>3. CASE Attach(o)
      BY <3>1, <3>3, ClearedFields DEF Attach
    <3> QED
      BY <1>1, <3>2, <3>3
  <2>2. UNCHANGED <<last_frame_id, slot, decoder>>
    BY <1>1 DEF PeerDropped, Detach, Attach, decoderVars
  <2>3. CASE p = o
    BY <2>1, <2>3 DEF Unmarked
  <2>4. CASE p # o
    BY <1>0, <2>1, <2>2, <2>4 DEF Unmarked
  <2> QED
    BY <2>3, <2>4
<1>2. ASSUME NEW o \in Outputs, MarkDisplayed(o) PROVE Unmarked(p)'
  <2>1. CASE p = o
    BY <1>2, <2>1, UnmarkedMark
  <2>2. CASE p # o
    <3>1. ~ state[p].targets /\ state'[p] = state[p]
      BY <1>2, <2>2 DEF MarkDisplayed, Ownership, TypeOK
    <3> QED
      BY <3>1 DEF Unmarked
  <2> QED
    BY <2>1, <2>2
<1>3. CASE FreeTextures
  <2>1. ~ state[p].targets /\ state' = state
    BY <1>3 DEF FreeTextures, Ownership
  <2> QED
    BY <2>1 DEF Unmarked
<1>4. ASSUME NEW o \in Outputs, Publish(o) PROVE Unmarked(p)'
  <2>1. /\ decoder' = [decoder EXCEPT ![o] = "publishing"]
        /\ p # o => state'[p] = state[p]
        /\ UNCHANGED <<last_frame_id, slot>>
    BY <1>4 DEF Publish, TypeOK, surfaceVars
  <2> QED
    BY <1>0, <2>1 DEF Unmarked, TypeOK
<1>5. ASSUME NEW o \in Outputs, StoreFrame(o) PROVE Unmarked(p)'
  <2>1. /\ slot'[o].id = slot[o].id + 1 /\ slot[o].id \in Nat /\ last_frame_id \in Nat
        /\ p # o => slot'[p] = slot[p] /\ decoder'[p] = decoder[p]
        /\ UNCHANGED <<state, last_frame_id>>
    BY <1>5 DEF StoreFrame, TypeOK, Slot, surfaceVars
  <2> QED
    BY <1>0, <2>1 DEF Unmarked, Numbered
<1>6. ASSUME NEW o \in Outputs,
             \/ PeerStarted(o) \/ PickFrame(o)
             \/ DecoderStarts(o) \/ LockTarget(o) \/ Wake(o) \/ TimeOut(o)
             \/ NoPicture(o) \/ WorkerStops(o)
      PROVE  Unmarked(p)'
  <2>1. /\ UNCHANGED <<state, slot, last_frame_id>>
        /\ decoder[p] = "publishing" => decoder'[p] = "publishing"
    BY <1>6 DEF PeerStarted, PickFrame, DecoderStarts, LockTarget, Wake, TimeOut, NoPicture,
                WorkerStops, Begin, TypeOK, surfaceVars, decoderVars
  <2> QED
    BY <1>0, <2>1 DEF Unmarked
<1>7. CASE Proceed \/ NothingNew \/ Drawn \/ UNCHANGED vars
  BY <1>0, <1>7 DEF Proceed, NothingNew, Drawn, vars, surfaceVars, decoderVars, Unmarked
<1> QED
  BY <1>1, <1>2, <1>3, <1>4, <1>5, <1>6, <1>7 DEF Next, Frame, Sync, Decode, Finish

(* What is unmarked is the picture that waits.                               *)
LEMMA UnmarkedOffered ==
  ASSUME VInv, Forward, \A o \in Outputs : Unmarked(o)
  PROVE  PendingIsOffered
<1> USE VideoBounds DEF VInv
<1> SUFFICES ASSUME NEW o \in Outputs, state[o].pending # Nothing, decoder[o] # "publishing"
             PROVE  /\ attached = o
                    /\ slot[o].frame = state[o].pending
                    /\ slot[o].id \notin {0, last_frame_id}
  BY DEF PendingIsOffered
<1>1. state[o].targets /\ attached = o
  BY DEF Ownership
<1>2. Behind(o) /\ Numbered(o) /\ slot[o].id # last_frame_id
  BY <1>1 DEF Forward, UpToDate, Unmarked
<1>3. slot[o].id \in Nat /\ last_frame_id \in Nat /\ slot[o].frame \in DecodedFrame
      /\ state[o].pending \in DecodedFrame
  BY DEF TypeOK, Slot, OutputState
<1>4. slot[o].id # 0
  BY <1>1, <1>2, <1>3 DEF Numbered
<1>5. state[o].next_generation = slot[o].id
  BY <1>3 DEF Counting
<1>6. slot[o].frame = state[o].pending
  <2>1. /\ slot[o].frame.generation = state[o].pending.generation
        /\ slot[o].frame.index = state[o].pending.index
    BY <1>2, <1>3, <1>4, <1>5 DEF Behind, Numbered
  <2> QED
    BY <1>3, <2>1, SamePicture
<1> QED
  BY <1>1, <1>2, <1>4, <1>6

(* The safety half of WaitEnds: whatever was decoded over, published while   *)
(* another picture was being marked, or left by an earlier session, the      *)
(* decode thread waits only for a picture that the UI loop is going to find. *)
THEOREM PendingPictureIsOffered == Spec => []PendingIsOffered
<1>1. Init => VInv /\ Forward /\ \A o \in Outputs : Unmarked(o)
  BY VInitInv, InitForward DEF Init, Unmarked
<1>2. VInv /\ Forward /\ (\A o \in Outputs : Unmarked(o)) /\ [Next]_vars
        => Forward' /\ (\A o \in Outputs : Unmarked(o))'
  BY ForwardStep, UnmarkedStep
<1>3. VInv /\ Forward /\ (\A o \in Outputs : Unmarked(o)) => PendingIsOffered
  BY UnmarkedOffered
<1> QED
  BY <1>1, <1>2, <1>3, VideoInvariant, PTL DEF Spec
=============================================================================
