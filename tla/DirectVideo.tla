------------------------------ MODULE DirectVideo ------------------------------
(***************************************************************************)
(* The zero-copy video path: the decode thread of each PeerEngine          *)
(* (src/streaming/video/worker.rs) writes pictures straight into one of    *)
(* two textures that the UI loop (src/shell/mod.rs, surface.rs) owns,      *)
(* draws and frees.  They meet in DirectVideoOutput                        *)
(* (src/streaming/video/mod.rs): a mutex the decoder holds for as long as  *)
(* it writes, a condition variable it waits on while the last picture is   *)
(* not shown yet, and the slot latest_frame.                               *)
(*                                                                         *)
(* An output is one PeerEngine's; its decode thread may outlive it.  One   *)
(* action is what a thread does between two points where the other can get *)
(* in: taking the mutex, reading or writing the slot, touching a texture.  *)
(***************************************************************************)
EXTENDS Naturals, FiniteSets

CONSTANTS
  Outputs, NoOutput,
  MaxFrames,    (* pictures per output, to bound the generations              *)
  MaxStalls     (* how often the 67 ms of MAX_PENDING_TEXTURE_WAIT may run out *)

ASSUME OutputsAssumption == NoOutput \notin Outputs
ASSUME VideoBounds == MaxFrames \in Nat /\ MaxStalls \in Nat

VARIABLES
  frame,          (* where the UI loop stands in its frame                   *)
  streaming,      (* the PeerEngine in AppState::Streaming                   *)
  attached,       (* VitaSurface.direct_video_output                         *)
  textures,       (* whose texture pair VitaSurface.video_textures is        *)
  shown,          (* VitaSurface.displayed_video_texture                     *)
  last_frame_id,
  picked,         (* the DecodedFrame sync_video_frame is about to mark      *)
  ready,          (* outputs with decoder_ready set                          *)
  state,          (* [Outputs]: DirectVideoOutputState, under the mutex      *)
  slot,           (* [Outputs]: latest_frame                                 *)
  decoder,        (* [Outputs]: where the decode thread stands               *)
  target,         (* [Outputs]: the texture its guard is for                 *)
  content,        (* [Outputs]: generation last decoded into each texture    *)
  torn,           (* [Outputs]: textures a failed decode left half written   *)
  stalls          (* [Outputs]: waits that timed out                         *)

surfaceVars == <<frame, streaming, attached, textures, shown, last_frame_id, picked>>
decoderVars == <<ready, slot, decoder, target, content, torn, stalls>>
vars == <<surfaceVars, state, decoderVars>>

Pair      == {0, 1}
NoTexture == 2
Nothing   == [index |-> NoTexture, generation |-> 0]
Empty     == [id |-> 0, frame |-> Nothing]

DecodedFrame == [index : Pair \cup {NoTexture}, generation : 0 .. MaxFrames]
Slot         == [id : 0 .. MaxFrames, frame : DecodedFrame]
OutputState  == [targets : BOOLEAN, displayed : Pair \cup {NoTexture},
                 pending : DecodedFrame, next_generation : 0 .. MaxFrames]

(* clear_targets; it also wakes the decoder, see Wake.                       *)
Cleared(s) == [s EXCEPT !.targets = FALSE, !.displayed = NoTexture, !.pending = Nothing]

TypeOK ==
  /\ frame \in {"events", "sync", "free", "mark", "ui", "draw"}
  /\ streaming \in Outputs \cup {NoOutput}
  /\ attached \in Outputs \cup {NoOutput}
  /\ textures \in Outputs \cup {NoOutput}
  /\ shown \in Pair \cup {NoTexture}
  /\ last_frame_id \in 0 .. MaxFrames
  /\ picked \in Slot
  /\ ready \in SUBSET Outputs
  /\ state \in [Outputs -> OutputState]
  /\ slot \in [Outputs -> Slot]
  /\ decoder \in [Outputs -> {"none", "starting", "idle", "waiting", "writing",
                              "publishing", "ended"}]
  /\ target \in [Outputs -> Pair]
  /\ content \in [Outputs -> [Pair -> 0 .. MaxFrames]]
  /\ torn \in [Outputs -> SUBSET Pair]
  /\ stalls \in [Outputs -> 0 .. MaxStalls]

Init ==
  /\ frame = "events" /\ streaming = NoOutput
  /\ attached = NoOutput /\ textures = NoOutput
  /\ shown = NoTexture /\ last_frame_id = 0 /\ picked = Empty
  /\ ready = {}
  /\ state = [o \in Outputs |-> [targets |-> FALSE, displayed |-> NoTexture,
                                 pending |-> Nothing, next_generation |-> 0]]
  /\ slot = [o \in Outputs |-> Empty]
  /\ decoder = [o \in Outputs |-> "none"]
  /\ target = [o \in Outputs |-> 0]
  /\ content = [o \in Outputs |-> [i \in Pair |-> 0]]
  /\ torn = [o \in Outputs |-> {}]
  /\ stalls = [o \in Outputs |-> 0]

(* Mutant of Unlocked: the guard does not keep the mutex.                    *)
NeverLocked(o) == TRUE

(* DirectVideoTargetGuard keeps the mutex; everybody else only passes by.    *)
Unlocked(o) == decoder[o] # "writing"

-----------------------------------------------------------------------------
(* The UI loop, one frame: events, sync_video_frame, ui commands, drawing.   *)

(* App enters Streaming: PeerEngine::new.                                    *)
PeerStarted(o) ==
  /\ frame = "events" /\ streaming = NoOutput /\ decoder[o] = "none"
  /\ frame' = "sync"
  /\ streaming' = o
  /\ decoder' = [decoder EXCEPT ![o] = "starting"]
  /\ UNCHANGED <<attached, textures, shown, last_frame_id, picked, ready, state, slot,
                 target, content, torn, stalls>>

(* App leaves Streaming, in tick or on a command of the user interface:      *)
(* PeerEngine::drop clears the targets.                                      *)
PeerDropped(o) ==
  /\ streaming = o /\ Unlocked(o)
  /\ \/ frame = "events" /\ frame' = "sync"
     \/ frame = "ui"     /\ frame' = "draw"
  /\ streaming' = NoOutput
  /\ state' = [state EXCEPT ![o] = Cleared(@)]
  /\ UNCHANGED <<attached, textures, shown, last_frame_id, picked, decoderVars>>

(* Nothing of the above happens in this frame.                               *)
Proceed ==
  /\ \/ frame = "events" /\ frame' = "sync"
     \/ frame = "ui"     /\ frame' = "draw"
  /\ UNCHANGED <<streaming, attached, textures, shown, last_frame_id, picked, state,
                 decoderVars>>

(* detach_direct_video_output: clear_targets, and then the textures go.      *)
Detach(o) ==
  /\ frame = "sync" /\ attached = o /\ streaming # o /\ Unlocked(o)
  /\ frame' = "free"
  /\ attached' = NoOutput
  /\ state' = [state EXCEPT ![o] = Cleared(@)]
  /\ UNCHANGED <<streaming, textures, shown, last_frame_id, picked, decoderVars>>

(* Mutant of FreeTextures: last_frame_id survives into the next session.     *)
FreeTexturesKeepId ==
  /\ frame = "free"
  /\ frame' = "sync"
  /\ textures' = NoOutput
  /\ shown' = NoTexture
  /\ UNCHANGED <<streaming, attached, last_frame_id, picked, state, decoderVars>>

FreeTextures ==
  /\ frame = "free"
  /\ frame' = "sync"
  /\ textures' = NoOutput
  /\ shown' = NoTexture
  /\ last_frame_id' = 0
  /\ UNCHANGED <<streaming, attached, picked, state, decoderVars>>

(* ensure_direct_video_output: new textures for a decoder that is ready.     *)
Attach(o) ==
  /\ frame = "sync" /\ streaming = o /\ attached = NoOutput /\ o \in ready /\ Unlocked(o)
  /\ textures' = o
  /\ attached' = o
  /\ state' = [state EXCEPT ![o] = [Cleared(@) EXCEPT !.targets = TRUE]]
  /\ UNCHANGED <<frame, streaming, shown, last_frame_id, picked, decoderVars>>

(* sync_video_frame, no peer, no textures yet, or no picture it has not seen.*)
NothingNew ==
  /\ frame = "sync"
  /\ \/ streaming = NoOutput /\ attached = NoOutput
     \/ /\ streaming # NoOutput
        /\ IF attached = NoOutput
             THEN streaming \notin ready
             ELSE attached = streaming /\ slot[streaming].id \in {0, last_frame_id}
  /\ frame' = "ui"
  /\ UNCHANGED <<streaming, attached, textures, shown, last_frame_id, picked, state,
                 decoderVars>>

(* ... or a picture: the slot is read without the mutex of the output, ...   *)
PickFrame(o) ==
  /\ frame = "sync" /\ streaming = o /\ attached = o
  /\ slot[o].id \notin {0, last_frame_id}
  /\ picked' = slot[o]
  /\ frame' = "mark"
  /\ UNCHANGED <<streaming, attached, textures, shown, last_frame_id, state, decoderVars>>

(* Mutant of MarkDisplayed: the screen flips to the other texture instead of *)
(* the one the picture names.                                                *)
MarkDisplayedFlips(o) ==
  /\ frame = "mark" /\ streaming = o /\ Unlocked(o)
  /\ state' = [state EXCEPT
       ![o].displayed = picked.frame.index,
       ![o].pending   = IF @ = picked.frame THEN Nothing ELSE @]
  /\ shown' = IF shown = NoTexture THEN 0 ELSE 1 - shown
  /\ last_frame_id' = picked.id
  /\ picked' = Empty
  /\ frame' = "ui"
  /\ UNCHANGED <<streaming, attached, textures, decoderVars>>

(* ... which mark_displayed then takes.  The picture stays pending if the    *)
(* decoder published another one in between.                                 *)
MarkDisplayed(o) ==
  /\ frame = "mark" /\ streaming = o /\ Unlocked(o)
  /\ state' = [state EXCEPT
       ![o].displayed = picked.frame.index,
       ![o].pending   = IF @ = picked.frame THEN Nothing ELSE @]
  /\ shown' = picked.frame.index
  /\ last_frame_id' = picked.id
  /\ picked' = Empty
  /\ frame' = "ui"
  /\ UNCHANGED <<streaming, attached, textures, decoderVars>>

(* draw_scene up to present, and the end of the frame.                       *)
Drawn ==
  /\ frame = "draw"
  /\ frame' = "events"
  /\ UNCHANGED <<streaming, attached, textures, shown, last_frame_id, picked, state,
                 decoderVars>>

-----------------------------------------------------------------------------
(* A decode thread                                                           *)

(* VideoDecodeWorker::spawn, called by the peer thread; without a hardware   *)
(* decoder the session goes on without video.                                *)
DecoderStarts(o) ==
  /\ decoder[o] = "starting"
  /\ \/ decoder' = [decoder EXCEPT ![o] = "idle"] /\ ready' = ready \cup {o}
     \/ decoder' = [decoder EXCEPT ![o] = "ended"] /\ UNCHANGED ready
  /\ UNCHANGED <<surfaceVars, state, slot, target, content, torn, stalls>>

(* The guard of lock_decode_target: it is on a texture and holds the mutex.  *)
Begin(o, index) ==
  /\ decoder' = [decoder EXCEPT ![o] = "writing"]
  /\ target' = [target EXCEPT ![o] = index]

(* Mutant of FreeIndex: the texture on the screen.                         *)
SameIndex(s) == IF s.displayed = NoTexture THEN 0 ELSE s.displayed

FreeIndex(s) == IF s.displayed = NoTexture THEN 0 ELSE 1 - s.displayed

(* Mutant of LockTarget: it does not wait for the pending picture.           *)
LockTargetAtOnce(o) ==
  /\ decoder[o] = "idle" /\ state[o].targets
  /\ Begin(o, FreeIndex(state[o]))
  /\ UNCHANGED <<surfaceVars, state, ready, slot, content, torn, stalls>>

(* An access unit arrives: lock_decode_target.  (Without targets it returns  *)
(* None and nothing happens.)                                                *)
LockTarget(o) ==
  /\ decoder[o] = "idle" /\ state[o].targets
  /\ \/ state[o].pending = Nothing /\ Begin(o, FreeIndex(state[o]))
     \/ /\ state[o].pending # Nothing
        /\ decoder' = [decoder EXCEPT ![o] = "waiting"]
        /\ UNCHANGED target
  /\ UNCHANGED <<surfaceVars, state, ready, slot, content, torn, stalls>>

(* Mutant of Wake: cleared targets do not wake the decoder.                  *)
WakeOnMarkOnly(o) ==
  /\ decoder[o] = "waiting"
  /\ state[o].targets /\ state[o].pending = Nothing /\ Begin(o, FreeIndex(state[o]))
  /\ UNCHANGED <<surfaceVars, state, ready, slot, content, torn, stalls>>

(* wait_timeout_while ends because its condition does.                       *)
Wake(o) ==
  /\ decoder[o] = "waiting"
  /\ \/ /\ ~ state[o].targets
        /\ decoder' = [decoder EXCEPT ![o] = "idle"]
        /\ UNCHANGED target
     \/ state[o].targets /\ state[o].pending = Nothing /\ Begin(o, FreeIndex(state[o]))
  /\ UNCHANGED <<surfaceVars, state, ready, slot, content, torn, stalls>>

(* Mutant of TimeOut: it takes the texture the pending picture is not in.    *)
TimeOutOnOther(o) ==
  /\ decoder[o] = "waiting" /\ state[o].targets /\ state[o].pending # Nothing
  /\ stalls[o] < MaxStalls
  /\ stalls' = [stalls EXCEPT ![o] = @ + 1]
  /\ Begin(o, 1 - state[o].pending.index)
  /\ UNCHANGED <<surfaceVars, state, ready, slot, content, torn>>

(* It ends because the UI loop needed more than 67 ms: the picture that is   *)
(* still pending is decoded over.                                            *)
TimeOut(o) ==
  /\ decoder[o] = "waiting" /\ state[o].targets /\ state[o].pending # Nothing
  /\ stalls[o] < MaxStalls
  /\ stalls' = [stalls EXCEPT ![o] = @ + 1]
  /\ Begin(o, state[o].pending.index)
  /\ UNCHANGED <<surfaceVars, state, ready, slot, content, torn>>

(* A picture came out: publish, and the mutex is released.                   *)
Publish(o) ==
  /\ decoder[o] = "writing" /\ state[o].next_generation < MaxFrames
  /\ LET generation == state[o].next_generation + 1
     IN /\ state' = [state EXCEPT
             ![o].next_generation = generation,
             ![o].pending = [index |-> target[o], generation |-> generation]]
        /\ content' = [content EXCEPT ![o][target[o]] = generation]
  /\ torn' = [torn EXCEPT ![o] = @ \ {target[o]}]
  /\ decoder' = [decoder EXCEPT ![o] = "publishing"]
  /\ UNCHANGED <<surfaceVars, ready, slot, target, stalls>>

(* The access unit gave no picture, or the decoder failed and may have       *)
(* written part of one.                                                      *)
NoPicture(o) ==
  /\ decoder[o] = "writing"
  /\ decoder' = [decoder EXCEPT ![o] = "idle"]
  /\ \/ UNCHANGED torn
     \/ torn' = [torn EXCEPT ![o] = @ \cup {target[o]}]
  /\ UNCHANGED <<surfaceVars, state, ready, slot, target, content, stalls>>

(* After publish has released the mutex, latest_frame gets the picture.  Its *)
(* id counts the pictures, as the generation does.                           *)
StoreFrame(o) ==
  /\ decoder[o] = "publishing"
  /\ slot' = [slot EXCEPT ![o] =
       [id |-> @.id + 1,
        frame |-> [index |-> target[o], generation |-> state[o].next_generation]]]
  /\ decoder' = [decoder EXCEPT ![o] = "idle"]
  /\ UNCHANGED <<surfaceVars, state, ready, target, content, torn, stalls>>

(* The peer thread ended and dropped the worker: Stop.                       *)
WorkerStops(o) ==
  /\ decoder[o] = "idle"
  /\ decoder' = [decoder EXCEPT ![o] = "ended"]
  /\ UNCHANGED <<surfaceVars, state, ready, slot, target, content, torn, stalls>>

-----------------------------------------------------------------------------
Sync(o) == Detach(o) \/ Attach(o) \/ PickFrame(o) \/ MarkDisplayed(o)
Frame ==
  \/ Proceed \/ NothingNew \/ FreeTextures \/ Drawn
  \/ \E o \in Outputs : PeerStarted(o) \/ PeerDropped(o) \/ Sync(o)
Finish(o) == Wake(o) \/ Publish(o) \/ NoPicture(o) \/ StoreFrame(o)
Decode(o) ==
  DecoderStarts(o) \/ LockTarget(o) \/ Finish(o) \/ TimeOut(o) \/ WorkerStops(o)

Next == Frame \/ \E o \in Outputs : Decode(o)

(* The UI loop never stops, a decode call returns, and a woken thread runs.  *)
(* Access units need not come, and no wait has to time out.                  *)
Fairness == WF_vars(Frame) /\ \A o \in Outputs : WF_vars(Finish(o))

Spec == Init /\ [][Next]_vars
FairSpec == Spec /\ Fairness

-----------------------------------------------------------------------------
(* Properties                                                                *)

Drawing(o) == frame = "draw" /\ textures = o /\ shown # NoTexture

(* The decoder writes only into textures that exist: the UI loop frees a     *)
(* pair while nobody writes to it and nobody can start to, whether App       *)
(* dropped the peer, the decoder stalls, or the next session has begun.      *)
NoWriteToFreed ==
  /\ \A o \in Outputs : decoder[o] = "writing" => textures = o
  /\ \A o \in Outputs : state[o].targets => textures = o

(* As long as the UI loop keeps within the 67 ms, what is drawn is a whole   *)
(* picture: not being written, not left half written.                        *)
WholeFrames ==
  \A o \in Outputs :
    Drawing(o) /\ stalls[o] = 0 =>
      shown \notin torn[o] /\ ~ (decoder[o] = "writing" /\ target[o] = shown)

(* One wait that timed out is still harmless for what is on the screen: the  *)
(* decoder overwrites the picture that waits, never the one being drawn.     *)
OneStallIsHarmless ==
  \A o \in Outputs :
    Drawing(o) /\ decoder[o] = "writing" /\ stalls[o] <= 1 => target[o] # shown

(* A frame of the UI loop does not wait for a decode call: the mutex is free *)
(* when it marks a picture, because the decoder waits for exactly that mark. *)
MarkNeverBlocks ==
  \A o \in Outputs : frame = "mark" /\ streaming = o /\ stalls[o] = 0 => Unlocked(o)

(* The stream on the screen never steps back to an older picture.            *)
FramesMoveForward ==
  [][ \A o \in Outputs :
        textures = o /\ textures' = o /\ shown # NoTexture /\ shown' # NoTexture
          => content[o][shown] <= content'[o][shown'] ]_vars

(* A published picture, or a newer one, reaches the screen while App still   *)
(* streams from that peer.                                                   *)
PictureReachesScreen ==
  \A o \in Outputs : \A n \in 1 .. MaxFrames :
    streaming = o /\ slot[o].id >= n
      ~> \/ streaming # o
         \/ attached = o /\ shown # NoTexture /\ content[o][shown] >= n

(* The decode thread never depends on the timeout to get out of its wait:    *)
(* marking the picture or clearing the targets wakes it.                     *)
WaitEnds == \A o \in Outputs : decoder[o] = "waiting" ~> decoder[o] # "waiting"
=============================================================================
