------------------------------- MODULE MediaPath -------------------------------
(***************************************************************************)
(* The loop of the peer thread (src/gfn/peer.rs, run_peer) once the answer *)
(* is sent, and the decode loop behind it (src/streaming/video/worker.rs). *)
(* RTP packets of the video track become access units, which a bounded     *)
(* queue takes to the decode thread; snapshots of the gamepad go from the  *)
(* UI loop to the game; a command, or a failure, ends both threads.        *)
(*                                                                         *)
(* Packets are numbered as the server sends them.  The network may lose    *)
(* any and let one be overtaken at a time.  The depacketizer is a library: *)
(* it may hold fragments back, pass bytes on, or fail, at any packet.      *)
(***************************************************************************)
EXTENDS Naturals, Sequences

CONSTANTS
  MaxPackets,   (* video packets the server sends                             *)
  Markers,      (* the packets that end an access unit                        *)
  MaxUnits,     (* MAX_PENDING_ACCESS_UNITS                                   *)
  MaxInputs     (* snapshots of the gamepad, to bound the run                 *)

ASSUME MediaBounds ==
  /\ MaxPackets \in Nat /\ MaxUnits \in Nat \ {0} /\ MaxInputs \in Nat
  /\ Markers \in SUBSET (1 .. MaxPackets)

VARIABLES
  next,           (* the packet that has not been overtaken                   *)
  late,           (* the packet that has been, 0 for none                     *)
  held,           (* fragments the depacketizer keeps                         *)
  access_unit,    (* what run_peer has collected                              *)
  expected,       (* history: the packet that keeps run_peer in step, or 0    *)
  peer,           (* the peer thread                                          *)
  timer_due,      (* poll_timeout is in the past                              *)
  commands,       (* command_rx: snapshots by number, 0 for Close             *)
  streaming,      (* App still has the PeerEngine                             *)
  inputs,         (* snapshots taken                                          *)
  input_ready,    (* with a data channel; without one nothing is ever sent    *)
  sent,           (* the last snapshot handed to the data channel             *)
  access_units,   (* the queue to the decode thread                           *)
  decoder,        (* the decode thread                                        *)
  decoding        (* it has an access unit in hand                            *)

networkVars == <<next, late>>
unitVars    == <<held, access_unit, expected>>
appVars     == <<streaming, inputs>>
inputVars   == <<input_ready, sent>>
decodeVars  == <<access_units, decoder, decoding>>
vars == <<networkVars, unitVars, peer, timer_due, commands, appVars, inputVars, decodeVars>>

Packet == 1 .. MaxPackets

(* An access unit is its packets; whole is history: from a marker that left  *)
(* nothing in the depacketizer up to its own, run_peer was in step.          *)
AccessUnit == [packets : Seq(Packet), whole : BOOLEAN]
Close == 0

TypeOK ==
  /\ next \in 1 .. MaxPackets + 1
  /\ late \in 0 .. MaxPackets
  /\ held \in Seq(Packet)
  /\ access_unit \in Seq(Packet)
  /\ expected \in 0 .. MaxPackets + 1
  /\ peer \in {"running", "ended"}
  /\ timer_due \in BOOLEAN
  /\ commands \in Seq(0 .. MaxInputs)
  /\ streaming \in BOOLEAN
  /\ inputs \in 0 .. MaxInputs
  /\ input_ready \in BOOLEAN
  /\ sent \in 0 .. MaxInputs
  /\ access_units \in Seq(AccessUnit) /\ Len(access_units) <= MaxUnits
  /\ decoder \in {"running", "unavailable", "ended"}
  /\ decoding \in BOOLEAN

(* Without a hardware decoder the loop runs all the same.                    *)
Init ==
  /\ next = 1 /\ late = 0
  /\ held = <<>> /\ access_unit = <<>> /\ expected = 1
  /\ peer = "running" /\ timer_due = FALSE /\ commands = <<>>
  /\ streaming = TRUE /\ inputs = 0
  /\ input_ready = FALSE /\ sent = 0
  /\ access_units = <<>> /\ decoder \in {"running", "unavailable"} /\ decoding = FALSE

-----------------------------------------------------------------------------
(* Video packets                                                             *)

First(p) == \* the first packet of the unit of p
  CHOOSE q \in 1 .. p : /\ q = 1 \/ q - 1 \in Markers
                        /\ \A r \in q .. p - 1 : r \notin Markers
Run(p, q) == [i \in 1 .. q + 1 - p |-> p + i - 1]

(* What depacketize makes of a packet: it keeps a fragment, gives out what it*)
(* has kept with it or it alone, or fails and may forget.                    *)
Depacketized(p) ==
  { [ok |-> TRUE, bytes |-> <<>>, held |-> Append(held, p)],
    [ok |-> TRUE, bytes |-> Append(held, p), held |-> <<>>],
    [ok |-> TRUE, bytes |-> <<p>>, held |-> held],
    [ok |-> FALSE, bytes |-> <<>>, held |-> held],
    [ok |-> FALSE, bytes |-> <<>>, held |-> <<>>] }

(* submit_access_unit: a full queue, or no decoder, drops it.                *)
SubmitAccessUnit(unit) ==
  access_units' = IF decoder = "running" /\ Len(access_units) < MaxUnits
                    THEN Append(access_units, unit) ELSE access_units

(* Mutant of Collect: a failure leaves what has been collected.              *)
CollectKeepsPartial(p, d) ==
  LET collected == access_unit \o d.bytes
  IN IF d.ok /\ p \in Markers /\ collected # <<>>
       THEN /\ access_unit' = <<>>
            /\ SubmitAccessUnit([packets |-> collected,
                                 whole |-> p = expected /\ d.held = <<>>])
       ELSE access_unit' = collected /\ UNCHANGED access_units

(* The access unit grows by what was depacketized.  A marker ends it, unless *)
(* it is empty; a failure empties it, and the rest of it is still collected. *)
Collect(p, d) ==
  LET collected == access_unit \o d.bytes
  IN \/ /\ d.ok /\ p \in Markers /\ collected # <<>>
        /\ access_unit' = <<>>
        /\ SubmitAccessUnit([packets |-> collected,
                             whole |-> p = expected /\ d.held = <<>>])
     \/ /\ d.ok /\ ~ (p \in Markers /\ collected # <<>>)
        /\ access_unit' = collected
        /\ UNCHANGED access_units
     \/ /\ ~ d.ok
        /\ access_unit' = <<>>
        /\ UNCHANGED access_units

(* History, 0 while run_peer is not in step.  A marker that is read, and     *)
(* after which the depacketizer keeps nothing, brings it into step.  It stays*)
(* in step while the next packet comes and is neither lost in there nor held *)
(* back behind it.  A marker that is lost, or leaves a fragment held, does   *)
(* not: what is left of the damaged unit goes in front of the next one.      *)
Expected(p, d) ==
  IF \/ p \in Markers /\ d.held = <<>>
     \/ p \notin Markers /\ p = expected /\ d.ok /\ (d.held = <<>> \/ d.bytes = <<>>)
    THEN p + 1 ELSE 0

ReadPacket(p) ==
  /\ peer = "running"
  /\ \E d \in Depacketized(p) :
       /\ Collect(p, d)
       /\ held' = d.held
       /\ expected' = Expected(p, d)
  /\ UNCHANGED <<peer, timer_due, commands, appVars, inputVars, decoder, decoding>>

ReadNext == next <= MaxPackets /\ ReadPacket(next) /\ next' = next + 1 /\ UNCHANGED late
ReadLate == late # 0 /\ ReadPacket(late) /\ late' = 0 /\ UNCHANGED next

(* The next packet is overtaken, or lost.                                    *)
Overtaken ==
  /\ peer = "running" /\ next <= MaxPackets
  /\ next' = next + 1
  /\ late' \in {late} \cup (IF late = 0 THEN {next} ELSE {})
  /\ UNCHANGED <<unitVars, peer, timer_due, commands, appVars, inputVars, decodeVars>>

-----------------------------------------------------------------------------
(* Commands and timers                                                       *)

(* Nothing is kept for a thread that has ended.                              *)
Send(command) ==
  commands' = IF peer = "running" THEN Append(commands, command) ELSE commands

(* Once per frame, while streaming with a controller: send_gamepad.          *)
SendGamepad ==
  /\ streaming /\ inputs < MaxInputs
  /\ inputs' = inputs + 1
  /\ Send(inputs + 1)
  /\ UNCHANGED <<networkVars, unitVars, peer, timer_due, streaming, inputVars, decodeVars>>

(* PeerEngine::drop.                                                         *)
DropPeer ==
  /\ streaming
  /\ streaming' = FALSE
  /\ Send(Close)
  /\ UNCHANGED <<networkVars, unitVars, peer, timer_due, inputs, inputVars, decodeVars>>

(* The server's greeting on the data channel.                                *)
Handshake ==
  /\ peer = "running" /\ ~ input_ready
  /\ input_ready' = TRUE
  /\ UNCHANGED <<networkVars, unitVars, peer, timer_due, commands, appVars, sent,
                 decodeVars>>

(* Mutant of LatestGamepad: the oldest snapshot of the batch is sent.        *)
OldestGamepad == Head(commands)

(* Snapshots that have queued up are coalesced.                              *)
LatestGamepad == commands[Len(commands)]

(* run_peer returns: what it has collected and not read is dropped.          *)
Returns ==
  /\ peer' = "ended"
  /\ held' = <<>> /\ access_unit' = <<>> /\ expected' = 0
  /\ commands' = <<>> /\ timer_due' = FALSE

(* Mutant of Closed: only the first command of a batch is looked at.         *)
ClosedFirst == commands # <<>> /\ Head(commands) = Close

(* Close ends the loop, whatever is in front of it, and so does the end of   *)
(* the channel.                                                              *)
Closed ==
  \/ \E i \in DOMAIN commands : commands[i] = Close
  \/ commands = <<>> /\ ~ streaming

(* All commands are taken at once.  A snapshot is handed to the data channel;*)
(* that there is none, or that send fails, the code ignores, and sent does   *)
(* not tell apart.                                                           *)
Commands ==
  /\ peer = "running" /\ ~ timer_due
  /\ \/ /\ commands # <<>> /\ ~ Closed
        /\ commands' = <<>>
        /\ sent' = IF input_ready THEN LatestGamepad ELSE sent
        /\ UNCHANGED <<unitVars, peer, timer_due>>
     \/ Closed /\ Returns /\ UNCHANGED sent
  /\ UNCHANGED <<networkVars, appVars, input_ready, decodeVars>>

(* A timer that is already due is handled before anything is waited for:     *)
(* commands stay where they are.                                             *)
TimerFalls ==
  /\ peer = "running" /\ ~ timer_due
  /\ timer_due' = TRUE
  /\ UNCHANGED <<networkVars, unitVars, peer, commands, appVars, inputVars, decodeVars>>

HandleTimeout ==
  /\ peer = "running" /\ timer_due
  /\ timer_due' = FALSE
  /\ UNCHANGED <<networkVars, unitVars, peer, commands, appVars, inputVars, decodeVars>>

(* The connection failed or was closed, or the rtc stack returned an error.  *)
PeerFails ==
  /\ peer = "running"
  /\ Returns
  /\ UNCHANGED <<networkVars, appVars, inputVars, decodeVars>>

-----------------------------------------------------------------------------
(* The decode loop; DirectVideo has what decoding an access unit does.       *)

TakeUnit ==
  /\ decoder = "running" /\ ~ decoding /\ peer = "running" /\ access_units # <<>>
  /\ decoding' = TRUE
  /\ access_units' = Tail(access_units)
  /\ UNCHANGED <<networkVars, unitVars, peer, timer_due, commands, appVars, inputVars, decoder>>

UnitDone ==
  /\ decoding
  /\ decoding' = FALSE
  /\ UNCHANGED <<networkVars, unitVars, peer, timer_due, commands, appVars, inputVars,
                 access_units, decoder>>

(* run_peer has returned and dropped its worker: Stop goes before any access *)
(* unit that is still queued.                                                *)
StopDecoder ==
  /\ decoder = "running" /\ ~ decoding /\ peer = "ended"
  /\ decoder' = "ended"
  /\ access_units' = <<>>
  /\ UNCHANGED <<networkVars, unitVars, peer, timer_due, commands, appVars, inputVars, decoding>>

-----------------------------------------------------------------------------
Network == ReadNext \/ ReadLate \/ Overtaken
App == SendGamepad \/ DropPeer
Decode == TakeUnit \/ UnitDone \/ StopDecoder

Next ==
  \/ Network \/ App \/ Handshake \/ Commands
  \/ TimerFalls \/ HandleTimeout \/ PeerFails \/ Decode

(* Both loops go round.  SF because a timer may come due again and again:    *)
(* the rtc stack must not keep one due for ever.                             *)
Fairness ==
  WF_vars(HandleTimeout) /\ SF_vars(Commands) /\ WF_vars(UnitDone) /\ WF_vars(StopDecoder)

Spec == Init /\ [][Next]_vars
FairSpec == Spec /\ Fairness

-----------------------------------------------------------------------------
(* Properties                                                                *)

(* Where damage ends: behind a loss, a packet out of order or a failed       *)
(* fragment, the first marker that is read and leaves nothing held in the    *)
(* depacketizer puts run_peer back in step, however often this happens.      *)
(* While it is in step what it has collected is the current unit so far, and *)
(* what it submits is the unit as it was sent, with nothing of a damaged one *)
(* in front of it.  Up to such a marker nothing is promised: if the damaged  *)
(* unit's own is lost, or leaves a fragment held, the unit behind it is      *)
(* submitted together with what is left.                                     *)
Resyncs ==
  /\ expected # 0 =>
       access_unit \o held =
         IF expected = 1 \/ expected - 1 \in Markers
           THEN <<>> ELSE Run(First(expected - 1), expected - 1)
  /\ \A i \in DOMAIN access_units :
       LET unit == access_units[i].packets
       IN access_units[i].whole =>
            /\ unit[Len(unit)] \in Markers
            /\ unit = Run(First(unit[Len(unit)]), unit[Len(unit)])

Queued(n) == \E i \in DOMAIN commands : commands[i] = n

(* The state of the controller that the player has settled on is sent: a     *)
(* snapshot that is queued when the input channel is ready is handed to the  *)
(* data channel, or a newer one is, unless the session ends.                 *)
LastInputArrives ==
  \A n \in 1 .. MaxInputs :
    input_ready /\ Queued(n) ~> sent >= n \/ peer = "ended"

(* Leaving the stream ends both threads, whether Close is read, has timers   *)
(* in front of it, or finds the loop already failed, and however full the    *)
(* decoder's queue is.                                                       *)
ThreadsEnd == ~ streaming ~> peer = "ended" /\ decoder # "running"
=============================================================================
