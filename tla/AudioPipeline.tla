----------------------------- MODULE AudioPipeline -----------------------------
(***************************************************************************)
(* The way of a sound from the network to the speaker.  The peer thread    *)
(* (src/gfn/peer.rs) keeps the newest Opus packets; once per frame the UI  *)
(* loop (src/shell/mod.rs) takes them and calls submit_packets             *)
(* (src/streaming/audio.rs), which passes them to a decode thread through  *)
(* a bounded channel, drains the PCM that has come back through another,   *)
(* and feeds the SDL queue, which the audio device empties while it is not *)
(* paused.                                                                 *)
(*                                                                         *)
(* Packets are numbered by arrival, sound is counted in units.  Each       *)
(* try_send and try_recv is a step, because the decode thread, the device  *)
(* and the peer thread run in between.                                     *)
(***************************************************************************)
EXTENDS Naturals, Sequences

CONSTANTS
  MaxPackets,     (* packets that arrive, to bound the run                    *)
  MaxDeaths,      (* how often the decode thread may end                      *)
  PeerCap,        (* MAX_PENDING_AUDIO_PACKETS                                *)
  PacketCap,      (* MAX_PENDING_OPUS_PACKETS                                 *)
  SampleCap,      (* MAX_PENDING_PCM_BUFFERS                                  *)
  StartAt,        (* AUDIO_START_BUFFER_BYTES, in units of sound              *)
  MaxQueued,      (* MAX_QUEUED_AUDIO_BYTES                                   *)
  MaxFrame        (* MAX_OPUS_FRAME_SAMPLES_PER_CHANNEL                       *)

ASSUME AudioBounds ==
  /\ MaxPackets \in Nat /\ MaxDeaths \in Nat
  /\ PeerCap \in Nat \ {0} /\ PacketCap \in Nat \ {0} /\ SampleCap \in Nat \ {0}
  /\ StartAt \in Nat \ {0} /\ MaxQueued \in Nat /\ MaxFrame \in Nat

VARIABLES
  arrived,        (* Opus packets received so far                             *)
  pending_audio,  (* PeerEngine.pending_audio                                 *)
  submitting,     (* where the UI loop stands in submit_packets               *)
  batch,          (* the packets of this frame it has not sent yet            *)
  packets,        (* the channel to the decode thread                         *)
  worker,         (* the decode thread at the other end of both channels      *)
  decoding,       (* the packet it has decoded and not yet sent, 0 for none   *)
  samples,        (* the channel back                                         *)
  queued,         (* queue.size()                                             *)
  last,           (* the last packet whose sound was given to the queue       *)
  playing,        (* the device is not paused                                 *)
  started,
  deaths

peerVars   == <<arrived, pending_audio>>
workerVars == <<packets, worker, decoding, samples, deaths>>
queueVars  == <<queued, playing, started>>
vars == <<peerVars, submitting, batch, workerVars, last, queueVars>>

Packet == 1 .. MaxPackets
PCM    == [packet : Packet, length : 0 .. MaxFrame]

TypeOK ==
  /\ arrived \in 0 .. MaxPackets
  /\ pending_audio \in Seq(Packet)
  /\ submitting \in {"away", "packets", "samples"}
  /\ batch \in Seq(Packet)
  /\ packets \in Seq(Packet)
  /\ worker \in {"running", "ended"}
  /\ decoding \in 0 .. MaxPackets
  /\ samples \in Seq(PCM)
  /\ queued \in Nat
  /\ last \in 0 .. MaxPackets
  /\ playing \in BOOLEAN /\ started \in BOOLEAN
  /\ deaths \in 0 .. MaxDeaths

(* AudioRenderer::new: SDL opens a queue paused.                             *)
Init ==
  /\ arrived = 0 /\ pending_audio = <<>>
  /\ submitting = "away" /\ batch = <<>>
  /\ packets = <<>> /\ worker = "running" /\ decoding = 0 /\ samples = <<>>
  /\ queued = 0 /\ last = 0 /\ playing = FALSE /\ started = FALSE
  /\ deaths = 0

-----------------------------------------------------------------------------
(* The peer thread                                                           *)

(* A packet arrives; a full queue drops its oldest.                          *)
Arrive ==
  /\ arrived < MaxPackets
  /\ arrived' = arrived + 1
  /\ pending_audio' =
       Append(IF Len(pending_audio) >= PeerCap THEN Tail(pending_audio) ELSE pending_audio,
              arrived + 1)
  /\ UNCHANGED <<submitting, batch, workerVars, last, queueVars>>

(* App leaves Streaming: the queue goes with its PeerEngine, the renderer    *)
(* stays for the next one.                                                   *)
PeerReplaced ==
  /\ submitting = "away" /\ pending_audio # <<>>
  /\ pending_audio' = <<>>
  /\ UNCHANGED <<arrived, submitting, batch, workerVars, last, queueVars>>

-----------------------------------------------------------------------------
(* The UI loop: submit_packets                                               *)

(* take_audio_packets, and the pause when the device has run dry.            *)
Submit ==
  /\ submitting = "away"
  /\ submitting' = "packets"
  /\ batch' = pending_audio
  /\ pending_audio' = <<>>
  /\ playing' = (playing /\ ~ (started /\ queued = 0))
  /\ started' = (started /\ queued # 0)
  /\ UNCHANGED <<arrived, workerVars, last, queued>>

PausedAndEmpty == queued' = 0 /\ playing' = FALSE /\ started' = FALSE

(* restart_decode_worker.  When no thread can be spawned the old channels    *)
(* stay, dead as they are; resent is what the new thread finds in its own.   *)
RestartDecodeWorker(resent) ==
  /\ PausedAndEmpty
  /\ \/ /\ worker' = "running"
        /\ packets' = resent
        /\ samples' = <<>>
     \/ UNCHANGED <<worker, packets, samples>>
  /\ UNCHANGED <<decoding, deaths>>

(* Mutant of SendPacket: what did not fit is kept for after the others.      *)
SendPacketRetries ==
  /\ submitting = "packets" /\ batch # <<>>
  /\ \/ /\ worker = "running" /\ Len(packets) < PacketCap
        /\ packets' = Append(packets, Head(batch))
        /\ batch' = Tail(batch)
        /\ UNCHANGED <<worker, decoding, samples, deaths, queueVars>>
     \/ /\ worker = "running" /\ Len(packets) >= PacketCap
        /\ batch' = Append(Tail(batch), Head(batch))
        /\ UNCHANGED <<workerVars, queueVars>>
     \/ worker = "ended" /\ batch' = Tail(batch) /\ RestartDecodeWorker(<<Head(batch)>>)
  /\ UNCHANGED <<peerVars, submitting, last>>

(* Mutant of SendPacket: the UI loop waits for a place in the channel.       *)
SendPacketBlocks ==
  /\ submitting = "packets" /\ batch # <<>>
  /\ batch' = Tail(batch)
  /\ \/ /\ worker = "running" /\ Len(packets) < PacketCap
        /\ packets' = Append(packets, Head(batch))
        /\ UNCHANGED <<worker, decoding, samples, deaths, queueVars>>
     \/ worker = "ended" /\ RestartDecodeWorker(<<Head(batch)>>)
  /\ UNCHANGED <<peerVars, submitting, last>>

(* try_send of one packet: a full channel drops it, a dead one is replaced.  *)
SendPacket ==
  /\ submitting = "packets" /\ batch # <<>>
  /\ batch' = Tail(batch)
  /\ \/ /\ worker = "running"
        /\ packets' = IF Len(packets) < PacketCap THEN Append(packets, Head(batch))
                                                  ELSE packets
        /\ UNCHANGED <<worker, decoding, samples, deaths, queueVars>>
     \/ worker = "ended" /\ RestartDecodeWorker(<<Head(batch)>>)
  /\ UNCHANGED <<peerVars, submitting, last>>

PacketsSent ==
  /\ submitting = "packets" /\ batch = <<>>
  /\ submitting' = "samples"
  /\ UNCHANGED <<peerVars, batch, workerVars, last, queueVars>>

(* Mutant of Enqueue: the queue is cleared and paused, without a note that  *)
(* it has to be started again.                                              *)
EnqueueStaysStarted(length) ==
  LET over == queued + length > MaxQueued
      kept == IF over THEN 0 ELSE queued
  IN \E size \in {kept, kept + length} :
       /\ queued' = size
       /\ started' = (started \/ size >= StartAt)
       /\ playing' = ((playing /\ ~ over) \/ (~ started /\ size >= StartAt))

(* The sound is queued behind what is there, if both are within MaxQueued;   *)
(* otherwise what is there is thrown away first.  SDL may refuse the sound.  *)
Enqueue(length) ==
  LET over == queued + length > MaxQueued
      kept == IF over THEN 0 ELSE queued
  IN \E size \in {kept, kept + length} :
       /\ queued' = size
       /\ started' = ((started /\ ~ over) \/ size >= StartAt)
       /\ playing' = ((playing /\ ~ over) \/ (~ (started /\ ~ over) /\ size >= StartAt))

(* try_recv of one buffer.                                                   *)
DrainSample ==
  /\ submitting = "samples" /\ samples # <<>>
  /\ samples' = Tail(samples)
  /\ last' = Head(samples).packet
  /\ Enqueue(Head(samples).length)
  /\ UNCHANGED <<peerVars, submitting, batch, packets, worker, decoding, deaths>>

(* ... until there is none, or the thread turns out to have ended.           *)
Drained ==
  /\ submitting = "samples" /\ samples = <<>>
  /\ submitting' = "away"
  /\ \/ worker = "running" /\ UNCHANGED <<workerVars, queueVars>>
     \/ worker = "ended" /\ RestartDecodeWorker(<<>>)
  /\ UNCHANGED <<peerVars, batch, last>>

-----------------------------------------------------------------------------
(* The decode thread and the device                                          *)

(* A packet is received and decoded, which nobody else can see; an error is  *)
(* known at once, and the next packet is taken.                              *)
TakePacket ==
  /\ worker = "running" /\ decoding = 0 /\ packets # <<>>
  /\ decoding' \in {Head(packets), 0}
  /\ packets' = Tail(packets)
  /\ UNCHANGED <<peerVars, submitting, batch, worker, samples, deaths, last, queueVars>>

(* The sound, up to 120 ms of it, waits for a place in the channel; nothing  *)
(* but that place lets the thread go on.                                     *)
SendSamples ==
  /\ decoding # 0 /\ Len(samples) < SampleCap
  /\ \E length \in 0 .. MaxFrame :
       samples' = Append(samples, [packet |-> decoding, length |-> length])
  /\ decoding' = 0
  /\ UNCHANGED <<peerVars, submitting, batch, packets, worker, deaths, last, queueVars>>

(* The thread ends by a panic; the packets it had are gone, the buffers it   *)
(* has sent can still be received.                                           *)
WorkerDies ==
  /\ worker = "running" /\ deaths < MaxDeaths
  /\ worker' = "ended"
  /\ packets' = <<>>
  /\ decoding' = 0
  /\ deaths' = deaths + 1
  /\ UNCHANGED <<peerVars, submitting, batch, samples, last, queueVars>>

Play ==
  /\ playing /\ queued > 0
  /\ queued' = queued - 1
  /\ UNCHANGED <<peerVars, submitting, batch, workerVars, last, playing, started>>

-----------------------------------------------------------------------------
SubmitPackets == Submit \/ SendPacket \/ PacketsSent \/ DrainSample \/ Drained
Worker == TakePacket \/ SendSamples

Next == Arrive \/ PeerReplaced \/ SubmitPackets \/ Worker \/ WorkerDies \/ Play

(* The UI loop goes on, and the decode thread is scheduled when it is not    *)
(* blocked: in send it waits for the UI loop.  The device may stall, nothing *)
(* has to arrive, and the thread need not end.                               *)
Fairness == WF_vars(SubmitPackets) /\ WF_vars(Worker)

Spec == Init /\ [][Next]_vars
FairSpec == Spec /\ Fairness

-----------------------------------------------------------------------------
(* Properties                                                                *)

Numbers(pcm) == [i \in DOMAIN pcm |-> pcm[i].packet]
InHand == IF decoding = 0 THEN <<>> ELSE <<decoding>>

(* Everything between the network and the device, the next to be heard first.*)
Upstream == Numbers(samples) \o InHand \o packets \o batch \o pending_audio

(* Sound is heard in the order it was sent and at most once, whichever of    *)
(* the three queues overflows (each drops at another end) and however often  *)
(* the decode thread is replaced with packets on either side of it.          *)
PlaysInOrder ==
  /\ \A i, j \in 1 .. Len(Upstream) : i < j => Upstream[i] < Upstream[j]
  /\ \A i \in 1 .. Len(Upstream) : last < Upstream[i] /\ Upstream[i] <= arrived

(* No stage holds more than its bound, so that sound cannot fall behind the  *)
(* picture by more than their sum: the UI loop may stall and the device may, *)
(* and the SDL queue has no bound of its own.  One frame may be longer than  *)
(* the queue is allowed to be.                                               *)
LatencyBounded ==
  /\ Len(pending_audio) <= PeerCap /\ Len(batch) <= PeerCap
  /\ Len(packets) <= PacketCap /\ Len(samples) <= SampleCap
  /\ queued <= MaxQueued \/ queued <= MaxFrame

(* The device is never left paused with enough sound in the queue: its state *)
(* and started agree across every pause, overflow and restart.               *)
BufferedIsPlaying == playing = started /\ (queued >= StartAt => playing)

InDecoder(n) ==
  \/ decoding = n
  \/ \E i \in DOMAIN packets : packets[i] = n
  \/ \E i \in DOMAIN samples : samples[i].packet = n

(* A packet the decode thread was given, or its sound, moves on: neither of  *)
(* the two bounded channels can fill up and block the thread for good, also  *)
(* when no more packets come and when the thread dies.                       *)
PacketsMoveOn == \A n \in Packet : InDecoder(n) ~> ~ InDecoder(n)
=============================================================================
