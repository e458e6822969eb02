---------------------------- MODULE MediaPath_proofs ----------------------------
(***************************************************************************)
(* The types of MediaPath, and that damage to the video stays where it     *)
(* happened (Resyncs), for any number of packets, any access units and any *)
(* depth of the decoder's queue.                                           *)
(*                                                                         *)
(* Resyncs names the first packet of a unit by CHOOSE.  The invariant says *)
(* instead that there is a packet with which the unit starts; there is     *)
(* only one, so it is the one chosen.                                      *)
(*                                                                         *)
(* At the end, what UI loop and peer thread tell each other: the newest    *)
(* state of the controller and Close stay queued until they are read.      *)
(***************************************************************************)
EXTENDS MediaPath, SequenceTheorems, TLAPS

USE MediaBounds

-----------------------------------------------------------------------------
(* Units and runs of packets                                                 *)

(* Packet q starts the unit of packet p.                                     *)
Starts(q, p) ==
  /\ q \in 1 .. p
  /\ q = 1 \/ q - 1 \in Markers
  /\ \A r \in q .. p - 1 : r \notin Markers

(* A unit starts with one packet only.                                       *)
LEMMA FirstStarts ==
  ASSUME NEW p \in Nat, NEW q, Starts(q, p)
  PROVE  First(p) = q
<1>1. ASSUME NEW a, NEW b, Starts(a, p), Starts(b, p), a < b PROVE FALSE
  <2>1. a \in 1 .. p /\ b \in 1 .. p /\ b # 1
    BY <1>1 DEF Starts
  <2>2. b - 1 \in a .. p - 1
    BY <1>1, <2>1
  <2> QED
    BY <1>1, <2>1, <2>2 DEF Starts
<1>2. ASSUME NEW a, Starts(a, p) PROVE a = q
  <2>1. a \in 1 .. p /\ q \in 1 .. p
    BY <1>2 DEF Starts
  <2> QED
    BY <1>1, <1>2, <2>1
<1>3. First(p) = CHOOSE a \in 1 .. p : Starts(a, p)
  BY DEF First, Starts
<1> QED
  BY <1>2, <1>3 DEF Starts

(* A run grows by its next packet, and starts with one.                      *)
LEMMA RunGrows ==
  ASSUME NEW p \in Packet, NEW q \in 1 .. p
  PROVE  /\ Run(q, p) \in Seq(Packet) /\ Len(Run(q, p)) = p + 1 - q
         /\ Run(q, p)[p + 1 - q] = p
         /\ q < p => Append(Run(q, p - 1), p) = Run(q, p)
         /\ Run(p, p) = <<p>>
<1>1. /\ p \in 1 .. MaxPackets /\ p \in Nat /\ q \in Nat /\ MaxPackets \in Nat
      /\ p + 1 - q \in Nat /\ p + 1 - q \in 1 .. p + 1 - q
      /\ \A i \in 1 .. p + 1 - q : q + i - 1 \in Packet
  BY DEF Packet
<1>2. Run(q, p) \in Seq(Packet) /\ Len(Run(q, p)) = p + 1 - q
  BY <1>1 DEF Run
<1>3. Run(q, p)[p + 1 - q] = p
  BY <1>1 DEF Run
<1>4. ASSUME q < p PROVE Append(Run(q, p - 1), p) = Run(q, p)
  <2> DEFINE s == Run(q, p - 1)
             t == Append(s, p)
             n == p - q
  <2>1. /\ n \in Nat /\ (p - 1) + 1 - q = n /\ n + 1 = p + 1 - q
        /\ \A i \in 1 .. n : q + i - 1 \in Packet
        /\ q + (n + 1) - 1 = p
        /\ \A i \in 1 .. n + 1 : i \in 1 .. n \/ i = n + 1
    BY <1>1, <1>4
  <2>2. s = [i \in 1 .. n |-> q + i - 1]
    BY <2>1 DEF Run
  <2>3. Run(q, p) = [i \in 1 .. n + 1 |-> q + i - 1]
    BY <2>1 DEF Run
  <2>4. s \in Seq(Packet) /\ Len(s) = n /\ \A i \in 1 .. n : s[i] = q + i - 1
    BY <2>1, <2>2, SMTT(30)
  <2> HIDE DEF s
  <2>5. /\ t \in Seq(Packet) /\ Len(t) = n + 1
        /\ \A i \in 1 .. n : t[i] = s[i]
        /\ t[n + 1] = p
    BY <2>4, AppendProperties
  <2> HIDE DEF t, n
  <2>6. \A i \in 1 .. n + 1 : t[i] = q + i - 1
    BY <2>1, <2>4, <2>5
  <2>7. Len(Run(q, p)) = n + 1 /\ \A i \in 1 .. n + 1 : Run(q, p)[i] = q + i - 1
    BY <1>2, <2>1, <2>3
  <2>8. t = Run(q, p)
    BY <1>2, <2>5, <2>6, <2>7, SeqEqual
  <2> QED
    BY <2>8 DEF t, s
<1>5. Run(p, p) = <<p>>
  <2>1. p + 1 - p = 1 /\ p + 1 - 1 = p
    BY <1>1
  <2>2. \A i \in 1 .. 1 : p + i - 1 = p
    BY <1>1
  <2> QED
    BY <2>1, <2>2 DEF Run
<1> QED
  BY <1>2, <1>3, <1>4, <1>5

-----------------------------------------------------------------------------
(* The invariant                                                             *)

(* While no packet is missing, what has been collected and held back is the  *)
(* unit so far.                                                              *)
InUnit ==
  expected # 0 =>
    IF expected = 1 \/ expected - 1 \in Markers
      THEN access_unit \o held = << >>
      ELSE \E q : Starts(q, expected - 1) /\ access_unit \o held = Run(q, expected - 1)

WholeUnit(unit) ==
  unit.whole => \E p \in Markers : \E q : Starts(q, p) /\ unit.packets = Run(q, p)

QueueWhole == \A i \in DOMAIN access_units : WholeUnit(access_units[i])

MInv == TypeOK /\ InUnit /\ QueueWhole

(* What the depacketizer gives out and keeps are packets.                    *)
LEMMA DepacketizedTyped ==
  ASSUME held \in Seq(Packet), NEW p \in Packet, NEW d \in Depacketized(p)
  PROVE  /\ d.bytes \in Seq(Packet) /\ d.held \in Seq(Packet) /\ d.ok \in BOOLEAN
         /\ d.ok => \/ d.bytes = << >> /\ d.held = Append(held, p)
                    \/ d.bytes = Append(held, p) /\ d.held = << >>
                    \/ d.bytes = <<p>> /\ d.held = held
<1>1. << >> \in Seq(Packet) /\ <<p>> \in Seq(Packet) /\ Append(held, p) \in Seq(Packet)
  BY AppendProperties
<1>2. CASE d = [ok |-> TRUE, bytes |-> << >>, held |-> Append(held, p)]
  BY <1>1, <1>2
<1>3. CASE d = [ok |-> TRUE, bytes |-> Append(held, p), held |-> << >>]
  BY <1>1, <1>3
<1>4. CASE d = [ok |-> TRUE, bytes |-> <<p>>, held |-> held]
  BY <1>1, <1>4
<1>5. CASE d = [ok |-> FALSE, bytes |-> << >>, held |-> held]
  BY <1>1, <1>5
<1>6. CASE d = [ok |-> FALSE, bytes |-> << >>, held |-> << >>]
  BY <1>1, <1>6
<1> QED
  BY <1>2, <1>3, <1>4, <1>5, <1>6 DEF Depacketized

(* The expected packet makes the unit longer, and it starts where it did, or *)
(* with this packet.                                                         *)
LEMMA UnitGrows ==
  ASSUME TypeOK, InUnit, NEW p \in Packet, p = expected
  PROVE  /\ access_unit \o Append(held, p) = Append(access_unit \o held, p)
         /\ held = << >> => access_unit \o <<p>> = Append(access_unit \o held, p)
         /\ \E q : Starts(q, p) /\ Append(access_unit \o held, p) = Run(q, p)
<1>1. access_unit \in Seq(Packet) /\ held \in Seq(Packet) /\ p \in Nat /\ p # 0
  BY DEF TypeOK, Packet
<1>2. access_unit \o held \in Seq(Packet) /\ <<p>> \in Seq(Packet)
  BY <1>1, ConcatProperties
<1>3. access_unit \o Append(held, p) = Append(access_unit \o held, p)
  <2>1. Append(held, p) = held \o <<p>>
    BY <1>1, AppendIsConcat
  <2>2. (access_unit \o held) \o <<p>> = access_unit \o (held \o <<p>>)
    BY <1>1, <1>2, ConcatAssociative
  <2>3. Append(access_unit \o held, p) = (access_unit \o held) \o <<p>>
    BY <1>2, AppendIsConcat
  <2> QED
    BY <2>1, <2>2, <2>3
<1>4. ASSUME held = << >> PROVE access_unit \o <<p>> = Append(access_unit \o held, p)
  <2>1. access_unit \o held = access_unit
    BY <1>1, <1>4, ConcatEmptySeq
  <2> QED
    BY <1>1, <2>1, AppendIsConcat
<1>5. \E q : Starts(q, p) /\ Append(access_unit \o held, p) = Run(q, p)
  <2>1. CASE p = 1 \/ p - 1 \in Markers
    <3>1. access_unit \o held = << >>
      BY <1>1, <2>1 DEF InUnit
    <3>2. Append(<< >>, p) = <<p>>
      OBVIOUS
    <3>3. p \in 1 .. p /\ \A r \in p .. p - 1 : r \notin Markers
      BY <1>1
    <3>4. Starts(p, p) /\ Run(p, p) = <<p>>
      BY <2>1, <3>3, RunGrows DEF Starts
    <3> QED
      BY <3>1, <3>2, <3>4
  <2>2. CASE p # 1 /\ p - 1 \notin Markers
    <3>1. PICK q : Starts(q, p - 1) /\ access_unit \o held = Run(q, p - 1)
      BY <1>1, <2>2 DEF InUnit
    <3>2. q \in 1 .. p /\ q < p
      BY <1>1, <2>2, <3>1 DEF Starts
    <3>3. \A r \in q .. p - 1 : r \in q .. (p - 1) - 1 \/ r = p - 1
      BY <1>1, <3>2
    <3>4. Starts(q, p)
      BY <2>2, <3>1, <3>2, <3>3 DEF Starts
    <3> QED
      BY <3>1, <3>2, <3>4, RunGrows
  <2> QED
    BY <2>1, <2>2
<1> QED
  BY <1>3, <1>4, <1>5

(* A unit that is submitted joins the queue, or is dropped.                  *)
LEMMA SubmitKeeps ==
  ASSUME TypeOK, QueueWhole, NEW unit \in AccessUnit, WholeUnit(unit), SubmitAccessUnit(unit)
  PROVE  /\ access_units' \in Seq(AccessUnit) /\ Len(access_units') <= MaxUnits
         /\ QueueWhole'
<1>1. access_units \in Seq(AccessUnit) /\ Len(access_units) \in Nat /\ Len(access_units) <= MaxUnits
  BY LenProperties DEF TypeOK
<1>2. CASE access_units' = access_units
  BY <1>1, <1>2 DEF QueueWhole, WholeUnit
<1>3. CASE access_units' = Append(access_units, unit) /\ Len(access_units) < MaxUnits
  <2> DEFINE n == Len(access_units)
             us == Append(access_units, unit)
  <2>1. /\ us \in Seq(AccessUnit) /\ Len(us) = n + 1 /\ us[n + 1] = unit
        /\ \A i \in 1 .. n : us[i] = access_units[i]
    BY <1>1, AppendProperties
  <2>2. DOMAIN us = 1 .. n + 1 /\ DOMAIN access_units = 1 .. n
    BY <1>1, <2>1, LenProperties
  <2>3. \A i \in 1 .. n + 1 : i \in 1 .. n \/ i = n + 1
    BY <1>1
  <2> HIDE DEF us
  <2>4. ASSUME NEW i \in DOMAIN us PROVE WholeUnit(us[i])
    BY <2>1, <2>2, <2>3 DEF QueueWhole
  <2>5. access_units' = us
    BY <1>3 DEF us
  <2>6. QueueWhole'
    BY <2>4, <2>5 DEF QueueWhole, WholeUnit
  <2> QED
    BY <1>1, <1>3, <2>1, <2>5, <2>6
<1> QED
  BY <1>2, <1>3 DEF SubmitAccessUnit

(* A packet of the network keeps the invariant.                              *)
LEMMA ReadKeeps ==
  ASSUME MInv, NEW p \in Packet, ReadPacket(p)
  PROVE  /\ held' \in Seq(Packet) /\ access_unit' \in Seq(Packet)
         /\ expected' \in 0 .. MaxPackets + 1
         /\ access_units' \in Seq(AccessUnit) /\ Len(access_units') <= MaxUnits
         /\ InUnit' /\ QueueWhole'
<1>1. PICK d \in Depacketized(p) : Collect(p, d) /\ held' = d.held /\ expected' = Expected(p, d)
  BY DEF ReadPacket
<1>2. /\ TypeOK /\ InUnit /\ QueueWhole
      /\ held \in Seq(Packet) /\ access_unit \in Seq(Packet) /\ p \in Nat /\ p # 0
  BY DEF MInv, TypeOK, Packet
<1>3. /\ d.bytes \in Seq(Packet) /\ d.held \in Seq(Packet) /\ d.ok \in BOOLEAN
      /\ d.ok => \/ d.bytes = << >> /\ d.held = Append(held, p)
                 \/ d.bytes = Append(held, p) /\ d.held = << >>
                 \/ d.bytes = <<p>> /\ d.held = held
  BY <1>2, DepacketizedTyped
<1> DEFINE collected == access_unit \o d.bytes
           unit == [packets |-> collected, whole |-> p = expected /\ d.held = << >>]
<1>4. collected \in Seq(Packet) /\ unit \in AccessUnit
  BY <1>2, <1>3, ConcatProperties DEF AccessUnit
<1>5. WholeUnit(unit) \/ ~ d.ok \/ p \notin Markers
  <2>1. SUFFICES ASSUME d.ok, p \in Markers, p = expected, d.held = << >>
                 PROVE  \E q : Starts(q, p) /\ collected = Run(q, p)
    <3>1. unit.whole = (p = expected /\ d.held = << >>) /\ unit.packets = collected
      OBVIOUS
    <3> QED
      BY <2>1, <3>1 DEF WholeUnit
  <2>2. Append(held, p) # << >>
    BY <1>2, AppendProperties
  <2>3. collected = Append(access_unit \o held, p)
    BY <1>2, <1>3, <2>1, <2>2, UnitGrows
  <2> QED
    BY <1>2, <2>1, <2>3, UnitGrows
<1> HIDE DEF unit
<1>6. \/ d.ok /\ p \in Markers /\ access_unit' = << >> /\ SubmitAccessUnit(unit)
      \/ /\ d.ok /\ (p \in Markers => collected = << >>)
         /\ access_unit' = collected /\ access_units' = access_units
      \/ ~ d.ok /\ access_unit' = << >> /\ access_units' = access_units
  BY <1>1 DEF Collect, unit
<1>7. /\ access_units' \in Seq(AccessUnit) /\ Len(access_units') <= MaxUnits /\ QueueWhole'
  <2>1. CASE d.ok /\ p \in Markers /\ SubmitAccessUnit(unit)
    BY <1>2, <1>4, <1>5, <2>1, SubmitKeeps
  <2>2. CASE access_units' = access_units
    BY <1>2, <2>2 DEF QueueWhole, WholeUnit, TypeOK
  <2> QED
    BY <1>6, <2>1, <2>2
<1>8. access_unit' \in Seq(Packet) /\ held' \in Seq(Packet)
  <2>1. << >> \in Seq(Packet)
    OBVIOUS
  <2> HIDE DEF collected
  <2> QED
    BY <1>1, <1>3, <1>4, <1>6, <2>1
<1>9. expected' \in {0, p + 1} /\ p + 1 \in 0 .. MaxPackets + 1 /\ (p + 1) - 1 = p
      /\ p + 1 # 1 /\ p + 1 # 0
  BY <1>1, <1>2 DEF Expected, Packet
<1>10. ASSUME expected' = 0 PROVE InUnit'
  BY <1>10 DEF InUnit
<1>11. ASSUME expected' # 0, p \in Markers PROVE InUnit'
  <2>1. held' = << >>
    BY <1>1, <1>11 DEF Expected
  <2>2. access_unit' = << >>
    BY <1>6, <1>11
  <2>3. (access_unit \o held)' = << >>
    BY <2>1, <2>2
  <2> QED
    BY <1>9, <1>11, <2>3 DEF InUnit
<1>12. ASSUME expected' # 0, p \notin Markers PROVE InUnit'
  <2>1. p = expected /\ d.ok /\ (d.held = << >> \/ d.bytes = << >>)
    BY <1>1, <1>12 DEF Expected
  <2>2. access_unit' = collected
    BY <1>6, <1>12, <2>1
  <2>3. (access_unit \o held)' = Append(access_unit \o held, p)
    <3>1. CASE d.bytes = << >> /\ d.held = Append(held, p)
      <4>1. collected = access_unit
        BY <1>2, <3>1, ConcatEmptySeq
      <4> QED
        BY <1>1, <1>2, <2>1, <2>2, <3>1, <4>1, UnitGrows
    <3>2. CASE d.held = << >>
      <4>1. (access_unit \o held)' = collected
        BY <1>1, <1>4, <2>2, <3>2, ConcatEmptySeq
      <4>2. Append(held, p) # << >>
        BY <1>2, AppendProperties
      <4>3. \/ collected = access_unit \o Append(held, p)
            \/ held = << >> /\ collected = access_unit \o <<p>>
        BY <1>3, <2>1, <3>2, <4>2
      <4> QED
        BY <1>2, <2>1, <4>1, <4>3, UnitGrows
    <3>3. <<p>> # << >> /\ Append(held, p) # << >>
      BY <1>2, AppendProperties
    <3> QED
      BY <1>3, <2>1, <3>1, <3>2, <3>3
  <2>4. PICK q : Starts(q, p) /\ Append(access_unit \o held, p) = Run(q, p)
    BY <1>2, <2>1, UnitGrows
  <2>5. expected' = p + 1
    BY <1>9, <1>12
  <2>6. \E r : Starts(r, p) /\ (access_unit \o held)' = Run(r, p)
    BY <2>3, <2>4
  <2> QED
    BY <1>9, <1>12, <2>5, <2>6 DEF InUnit, Starts, Run
<1> QED
  BY <1>7, <1>8, <1>9, <1>10, <1>11, <1>12

-----------------------------------------------------------------------------
(* The rest of the state                                                     *)

RestTyped ==
  /\ next \in 1 .. MaxPackets + 1
  /\ late \in 0 .. MaxPackets
  /\ peer \in {"running", "ended"}
  /\ timer_due \in {TRUE, FALSE}
  /\ streaming \in {TRUE, FALSE} /\ input_ready \in {TRUE, FALSE} /\ decoding \in {TRUE, FALSE}
  /\ decoder \in {"running", "unavailable", "ended"}

InputTyped ==
  /\ commands \in Seq(0 .. MaxInputs)
  /\ inputs \in 0 .. MaxInputs
  /\ sent \in 0 .. MaxInputs

UnitTyped ==
  /\ held \in Seq(Packet) /\ access_unit \in Seq(Packet)
  /\ expected \in 0 .. MaxPackets + 1
  /\ access_units \in Seq(AccessUnit) /\ Len(access_units) <= MaxUnits

(* The three of them are the type invariant.                                 *)
LEMMA TypeParts == TypeOK <=> RestTyped /\ InputTyped /\ UnitTyped
BY DEF TypeOK, RestTyped, InputTyped, UnitTyped

(* Before the first packet.                                                  *)
LEMMA InitMedia == Init => MInv
<1> SUFFICES ASSUME Init PROVE MInv
  OBVIOUS
<1>1. \A S : << >> \in Seq(S) /\ Len(<< >>) = 0
  BY EmptySeq
<1>2. RestTyped /\ InputTyped /\ UnitTyped
  <2>1. RestTyped
    <3>1. 1 \in 1 .. MaxPackets + 1 /\ 0 \in 0 .. MaxPackets
      OBVIOUS
    <3> QED
      BY <3>1, Zenon DEF Init, RestTyped
  <2>2. InputTyped
    BY <1>1 DEF Init, InputTyped
  <2>3. Len(access_units) <= MaxUnits /\ 1 \in 0 .. MaxPackets + 1
    BY <1>1 DEF Init
  <2>4. UnitTyped
    BY <1>1, <2>3 DEF Init, UnitTyped
  <2> QED
    BY <2>1, <2>2, <2>4
<1>3. << >> \o << >> = << >>
  BY EmptySeq, ConcatEmptySeq
<1>4. InUnit /\ QueueWhole
  BY <1>3 DEF Init, InUnit, QueueWhole
<1> QED
  BY <1>2, <1>4, TypeParts DEF MInv

(* The switches and counters of the network, the threads and the timer.      *)
LEMMA StepRest == RestTyped /\ [Next]_vars => RestTyped'
<1> SUFFICES ASSUME RestTyped, [Next]_vars PROVE RestTyped'
  OBVIOUS
<1>1. CASE Network
  <2>1. next' \in 1 .. MaxPackets + 1
    BY <1>1 DEF Network, ReadNext, ReadLate, Overtaken, RestTyped
  <2>2. late' \in 0 .. MaxPackets
    BY <1>1 DEF Network, ReadNext, ReadLate, Overtaken, RestTyped
  <2>3. UNCHANGED <<peer, timer_due, streaming, input_ready, decoder, decoding>>
    BY <1>1 DEF Network, ReadNext, ReadLate, Overtaken, ReadPacket, appVars, inputVars, decodeVars
  <2> QED
    BY <2>1, <2>2, <2>3 DEF RestTyped
<1>2. CASE ~ Network
  <2>1. next' = next /\ late' = late
    BY <1>2 DEF Next, App, SendGamepad, DropPeer, Handshake, Commands, TimerFalls, HandleTimeout,
                PeerFails, Decode, TakeUnit, UnitDone, StopDecoder, vars, networkVars
  <2>2. peer' \in {peer, "ended"} /\ decoder' \in {decoder, "ended"}
    BY <1>2 DEF Next, App, SendGamepad, DropPeer, Handshake, Commands, TimerFalls, HandleTimeout,
                PeerFails, Decode, TakeUnit, UnitDone, StopDecoder, Returns, vars, decodeVars
  <2>3. timer_due' \in {timer_due, TRUE, FALSE} /\ decoding' \in {decoding, TRUE, FALSE}
    BY <1>2 DEF Next, App, SendGamepad, DropPeer, Handshake, Commands, TimerFalls, HandleTimeout,
                PeerFails, Decode, TakeUnit, UnitDone, StopDecoder, Returns, vars, decodeVars
  <2>4. streaming' \in {streaming, FALSE} /\ input_ready' \in {input_ready, TRUE}
    BY <1>2 DEF Next, App, SendGamepad, DropPeer, Handshake, Commands, TimerFalls, HandleTimeout,
                PeerFails, Decode, TakeUnit, UnitDone, StopDecoder, vars, appVars, inputVars
  <2> QED
    BY <2>1, <2>2, <2>3, <2>4 DEF RestTyped
<1> QED
  BY <1>1, <1>2

(* Commands are snapshots that were taken, or Close.                         *)
LEMMA StepInput == InputTyped /\ [Next]_vars => InputTyped'
<1> SUFFICES ASSUME InputTyped, [Next]_vars PROVE InputTyped'
  OBVIOUS
<1>0. << >> \in Seq(0 .. MaxInputs) /\ 0 \in 0 .. MaxInputs
  OBVIOUS
<1>1. CASE SendGamepad
  <2>1. inputs' = inputs + 1 /\ inputs + 1 \in 0 .. MaxInputs /\ sent' = sent
    BY <1>1 DEF SendGamepad, InputTyped, inputVars
  <2>2. commands' \in {commands, Append(commands, inputs + 1)}
    BY <1>1 DEF SendGamepad, Send
  <2> QED
    BY <2>1, <2>2, AppendProperties, SMTT(30) DEF InputTyped
<1>2. CASE DropPeer
  <2>1. inputs' = inputs /\ sent' = sent /\ commands' \in {commands, Append(commands, 0)}
    BY <1>2 DEF DropPeer, Send, Close, inputVars
  <2> QED
    BY <1>0, <2>1, AppendProperties DEF InputTyped
<1>3. CASE Commands
  <2>1. CASE commands # << >> /\ sent' \in {LatestGamepad, sent}
    <3>1. Len(commands) \in 1 .. Len(commands)
      BY <2>1, EmptySeq, LenProperties DEF InputTyped
    <3>2. LatestGamepad \in 0 .. MaxInputs
      BY <3>1, ElementOfSeq DEF LatestGamepad, InputTyped
    <3>3. commands' = << >> /\ inputs' = inputs
      BY <1>3 DEF Commands, Returns, appVars
    <3> QED
      BY <1>0, <2>1, <3>2, <3>3 DEF InputTyped
  <2>2. CASE sent' = sent
    <3>1. commands' = << >> /\ inputs' = inputs
      BY <1>3 DEF Commands, Returns, appVars
    <3> QED
      BY <1>0, <2>2, <3>1 DEF InputTyped
  <2> QED
    BY <1>3, <2>1, <2>2 DEF Commands
<1>4. CASE ~ SendGamepad /\ ~ DropPeer /\ ~ Commands
  <2>1. commands' \in {commands, << >>} /\ UNCHANGED <<inputs, sent>>
    BY <1>4 DEF Next, App, Network, ReadNext, ReadLate, Overtaken, ReadPacket, Handshake,
                TimerFalls, HandleTimeout, PeerFails, Decode, TakeUnit, UnitDone, StopDecoder,
                Returns, vars, appVars, inputVars
  <2> QED
    BY <1>0, <2>1 DEF InputTyped
<1> QED
  BY <1>1, <1>2, <1>3, <1>4

(* The units: only packets of the network make any.                          *)
LEMMA StepUnits == MInv /\ [Next]_vars => UnitTyped' /\ InUnit' /\ QueueWhole'
<1> SUFFICES ASSUME MInv, [Next]_vars PROVE UnitTyped' /\ InUnit' /\ QueueWhole'
  OBVIOUS
<1>0. /\ RestTyped /\ UnitTyped /\ InUnit /\ QueueWhole
      /\ \A S : << >> \in Seq(S) /\ Len(<< >>) = 0
      /\ 0 \in 0 .. MaxPackets + 1 /\ 0 <= MaxUnits
  BY TypeParts, EmptySeq DEF MInv
<1>1. CASE ReadNext
  <2>1. next \in Packet /\ ReadPacket(next)
    BY <1>0, <1>1 DEF ReadNext, Packet, RestTyped
  <2> QED
    BY <2>1, ReadKeeps DEF UnitTyped
<1>2. CASE ReadLate
  <2>1. late \in Packet /\ ReadPacket(late)
    BY <1>0, <1>2 DEF ReadLate, Packet, RestTyped
  <2> QED
    BY <2>1, ReadKeeps DEF UnitTyped
<1>3. CASE Returns /\ access_units' = access_units
  BY <1>0, <1>3 DEF Returns, UnitTyped, InUnit, QueueWhole, WholeUnit
<1>4. CASE TakeUnit
  <2> DEFINE us == Tail(access_units)
  <2>1. access_units # << >> /\ access_units' = us /\ UNCHANGED <<held, access_unit, expected>>
    BY <1>4 DEF TakeUnit, unitVars
  <2>2. /\ access_units \in Seq(AccessUnit) /\ Len(access_units) \in Nat \ {0}
        /\ Len(access_units) <= MaxUnits
    BY <1>0, <2>1, EmptySeq DEF UnitTyped
  <2>3. /\ us \in Seq(AccessUnit) /\ Len(us) = Len(access_units) - 1
        /\ \A i \in 1 .. Len(us) : us[i] = access_units[i + 1]
        /\ DOMAIN us = 1 .. Len(us) /\ DOMAIN access_units = 1 .. Len(access_units)
    BY <2>1, <2>2, HeadTailProperties, LenProperties
  <2> HIDE DEF us
  <2>4. \A i \in 1 .. Len(us) : i + 1 \in 1 .. Len(access_units)
    BY <2>2, <2>3
  <2>5. QueueWhole'
    <3>1. \A i \in DOMAIN us : WholeUnit(us[i])
      BY <1>0, <2>3, <2>4 DEF QueueWhole
    <3> QED
      BY <2>1, <3>1 DEF QueueWhole, WholeUnit
  <2>6. Len(us) <= MaxUnits
    BY <2>2, <2>3
  <2>7. UnitTyped' /\ InUnit'
    BY <1>0, <2>1, <2>3, <2>6 DEF UnitTyped, InUnit
  <2> QED
    BY <2>5, <2>7
<1>5. CASE StopDecoder
  <2>1. access_units' = << >> /\ UNCHANGED <<held, access_unit, expected>>
    BY <1>5 DEF StopDecoder, unitVars
  <2>2. QueueWhole'
    BY <2>1 DEF QueueWhole
  <2> QED
    BY <1>0, <2>1, <2>2 DEF UnitTyped, InUnit
<1>6. CASE UNCHANGED <<held, access_unit, expected, access_units>>
  BY <1>0, <1>6 DEF UnitTyped, InUnit, QueueWhole, WholeUnit
<1>7. CASE UNCHANGED vars
  BY <1>6, <1>7 DEF vars, unitVars, decodeVars
<1>8. CASE \/ Overtaken \/ App \/ Handshake \/ TimerFalls \/ HandleTimeout \/ UnitDone
  BY <1>6, <1>8 DEF Overtaken, App, SendGamepad, DropPeer, Handshake, TimerFalls, HandleTimeout,
                    UnitDone, unitVars, decodeVars
<1>9. CASE Commands
  BY <1>3, <1>6, <1>9 DEF Commands, unitVars, decodeVars
<1>10. CASE Next
  <2>1. CASE Network
    BY <1>1, <1>2, <1>8, <2>1 DEF Network
  <2>2. CASE Decode
    BY <1>4, <1>5, <1>8, <2>2 DEF Decode
  <2>3. CASE PeerFails
    BY <1>3, <2>3 DEF PeerFails, decodeVars
  <2> QED
    BY <1>8, <1>9, <1>10, <2>1, <2>2, <2>3 DEF Next
<1> QED
  BY <1>7, <1>10

(* Every step keeps the invariant.                                           *)
LEMMA StepMedia == MInv /\ [Next]_vars => MInv'
<1> SUFFICES ASSUME MInv, [Next]_vars PROVE MInv'
  OBVIOUS
<1>1. RestTyped /\ InputTyped
  BY TypeParts DEF MInv
<1>2. RestTyped' /\ InputTyped' /\ UnitTyped' /\ InUnit' /\ QueueWhole'
  BY <1>1, StepRest, StepInput, StepUnits
<1>3. TypeOK'
  BY <1>2 DEF TypeOK, RestTyped, InputTyped, UnitTyped
<1> QED
  BY <1>2, <1>3 DEF MInv

(* So it holds in every state.                                               *)
LEMMA MediaInvariant == Spec => []MInv
BY InitMedia, StepMedia, PTL DEF Spec

(* A unit all of whose packets came is the run from its first packet to its  *)
(* marker.                                                                   *)
LEMMA InvResyncs == MInv => Resyncs
<1> SUFFICES ASSUME MInv PROVE Resyncs
  OBVIOUS
<1>1. UnitTyped /\ InUnit /\ QueueWhole
  BY TypeParts DEF MInv
<1>2. ASSUME expected # 0
      PROVE  access_unit \o held =
               IF expected = 1 \/ expected - 1 \in Markers
                 THEN << >> ELSE Run(First(expected - 1), expected - 1)
  <2>1. CASE expected = 1 \/ expected - 1 \in Markers
    BY <1>1, <1>2, <2>1 DEF InUnit
  <2>2. CASE ~ (expected = 1 \/ expected - 1 \in Markers)
    <3>1. PICK q : Starts(q, expected - 1) /\ access_unit \o held = Run(q, expected - 1)
      BY <1>1, <1>2, <2>2 DEF InUnit
    <3>2. expected - 1 \in Nat
      BY <1>1, <1>2 DEF UnitTyped
    <3> QED
      BY <2>2, <3>1, <3>2, FirstStarts
  <2> QED
    BY <2>1, <2>2
<1>3. ASSUME NEW i \in DOMAIN access_units, access_units[i].whole
      PROVE  LET unit == access_units[i].packets
             IN /\ unit[Len(unit)] \in Markers
                /\ unit = Run(First(unit[Len(unit)]), unit[Len(unit)])
  <2>1. PICK p \in Markers : \E q : Starts(q, p) /\ access_units[i].packets = Run(q, p)
    BY <1>1, <1>3 DEF QueueWhole, WholeUnit
  <2>2. PICK q : Starts(q, p) /\ access_units[i].packets = Run(q, p)
    BY <2>1
  <2>3. p \in Packet /\ p \in Nat /\ q \in 1 .. p
    BY <2>2 DEF Packet, Starts
  <2>4. Len(Run(q, p)) = p + 1 - q /\ Run(q, p)[p + 1 - q] = p /\ First(p) = q
    BY <2>2, <2>3, RunGrows, FirstStarts
  <2>5. Run(q, p)[Len(Run(q, p))] = p
    BY <2>4
  <2> QED
    BY <2>2, <2>4, <2>5
<1> QED
  BY <1>2, <1>3 DEF Resyncs

-----------------------------------------------------------------------------
(* The type invariant.                                                       *)
THEOREM MediaTypeCorrect == Spec => []TypeOK
<1>1. MInv => TypeOK
  BY DEF MInv
<1> QED
  BY <1>1, MediaInvariant, PTL

(* Resyncs: behind any damage, a marker that is read and leaves nothing held *)
(* puts run_peer back in step; from there on, while it stays in step, what it*)
(* submits is what was sent.                                                 *)
THEOREM MediaResyncs == Spec => []Resyncs
BY InvResyncs, MediaInvariant, PTL

-----------------------------------------------------------------------------
(* What LastInputArrives and ThreadsEnd rest on: the queue of the peer       *)
(* thread holds the newest state of the controller, and Close.               *)

(* Snapshots are queued in the order they were taken, behind what was sent,  *)
(* and nothing is queued behind a Close.                                     *)
Snapshots ==
  /\ sent <= inputs
  /\ \A i \in 1 .. Len(commands) :
       commands[i] # Close => sent < commands[i] /\ commands[i] <= inputs
  /\ \A i, j \in 1 .. Len(commands) :
       i < j => commands[i] # Close /\ (commands[j] # Close => commands[i] < commands[j])
  /\ streaming => \A i \in 1 .. Len(commands) : commands[i] # Close

(* A session that was left is told so, as long as its thread runs.           *)
CloseWaits == ~ streaming /\ peer = "running" => Closed

(* A snapshot of a connected controller is sent, or overtaken by a newer one *)
(* that is; what was sent before never comes back.                           *)
SnapshotsKept ==
  /\ sent <= sent'
  /\ \A n \in 1 .. MaxInputs :
       input_ready /\ Queued(n) => Queued(n)' \/ sent' >= n \/ peer' = "ended"

(* A command is queued behind all others.                                    *)
LEMMA QueuedLast ==
  ASSUME InputTyped, NEW c \in 0 .. MaxInputs, NEW t, t = Append(commands, c)
  PROVE  /\ Len(commands) \in Nat /\ Len(t) = Len(commands) + 1
         /\ \A i \in 1 .. Len(t) :
              \/ i \in 1 .. Len(commands) /\ t[i] = commands[i]
              \/ i = Len(commands) + 1 /\ t[i] = c
         /\ \A i \in 1 .. Len(commands) : i \in 1 .. Len(t) /\ t[i] = commands[i]
         /\ Len(commands) + 1 \in 1 .. Len(t) /\ t[Len(commands) + 1] = c
<1>1. commands \in Seq(0 .. MaxInputs)
  BY DEF InputTyped
<1>2. Len(commands) \in Nat /\ Len(t) = Len(commands) + 1
  BY <1>1, LenProperties, AppendProperties
<1>3. /\ \A i \in 1 .. Len(commands) : t[i] = commands[i]
      /\ t[Len(commands) + 1] = c
  BY <1>1, AppendProperties
<1>4. \A i \in 1 .. Len(t) : i \in 1 .. Len(commands) \/ i = Len(commands) + 1
  BY <1>2
<1>5. /\ \A i \in 1 .. Len(commands) : i \in 1 .. Len(t)
      /\ Len(commands) + 1 \in 1 .. Len(t)
  BY <1>2
<1> QED
  BY <1>2, <1>3, <1>4, <1>5

(* What is read is the last snapshot: it is newer than the others.           *)
LEMMA LatestRead ==
  ASSUME InputTyped, Snapshots, commands # << >>, ~ Closed
  PROVE  /\ LatestGamepad \in Nat /\ sent < LatestGamepad /\ LatestGamepad <= inputs
         /\ \A i \in 1 .. Len(commands) : commands[i] <= LatestGamepad
<1>1. /\ commands \in Seq(0 .. MaxInputs) /\ Len(commands) \in Nat
      /\ DOMAIN commands = 1 .. Len(commands)
      /\ \A i \in 1 .. Len(commands) : commands[i] \in 0 .. MaxInputs
  BY LenProperties, ElementOfSeq DEF InputTyped
<1>2. Len(commands) # 0
  BY <1>1, EmptySeq
<1>3. \A i \in 1 .. Len(commands) : commands[i] # Close
  BY <1>1 DEF Closed
<1>4. Len(commands) \in 1 .. Len(commands) /\ LatestGamepad = commands[Len(commands)]
  BY <1>1, <1>2 DEF LatestGamepad
<1>5. LatestGamepad \in Nat /\ sent < LatestGamepad /\ LatestGamepad <= inputs
  BY <1>1, <1>3, <1>4 DEF Snapshots
<1>6. ASSUME NEW i \in 1 .. Len(commands) PROVE commands[i] <= LatestGamepad
  <2>1. CASE i < Len(commands)
    <3>1. commands[i] < commands[Len(commands)]
      BY <1>3, <1>4, <2>1 DEF Snapshots
    <3> QED
      BY <1>1, <1>4, <3>1
  <2>2. CASE i = Len(commands)
    <3>1. commands[i] = LatestGamepad
      BY <1>4, <2>2
    <3> QED
      BY <1>5, <3>1
  <2>3. i < Len(commands) \/ i = Len(commands)
    <3>1. PICK k : k = Len(commands) /\ k \in Nat
      BY <1>1
    <3>2. i \in 1 .. k
      BY <3>1
    <3> QED
      BY <3>1, <3>2
  <2> QED
    BY <2>1, <2>2, <2>3
<1> QED
  BY <1>5, <1>6

(* The steps that neither queue nor read.                                    *)
LEMMA OtherSteps ==
  ASSUME InputTyped, [Next]_vars, ~ SendGamepad, ~ DropPeer, ~ Commands
  PROVE  /\ UNCHANGED <<inputs, sent, streaming>>
         /\ \/ UNCHANGED <<commands, peer>>
            \/ commands' = << >> /\ peer' = "ended"
BY DEF Next, App, Network, ReadNext, ReadLate, Overtaken, ReadPacket, Handshake, TimerFalls,
       HandleTimeout, PeerFails, Decode, TakeUnit, UnitDone, StopDecoder, Returns, vars,
       appVars, inputVars

(* Every step keeps the order of the snapshots and Close, ...                *)
LEMMA StepSnapshots ==
  ASSUME InputTyped, Snapshots, CloseWaits, [Next]_vars
  PROVE  Snapshots' /\ CloseWaits'
<1>0. /\ Len(<< >>) = 0 /\ inputs \in Nat /\ sent \in Nat
      /\ commands \in Seq(0 .. MaxInputs) /\ Len(commands) \in Nat
      /\ DOMAIN commands = 1 .. Len(commands)
      /\ \A i \in 1 .. Len(commands) : commands[i] \in Nat
  BY LenProperties, ElementOfSeq DEF InputTyped
<1>1. CASE SendGamepad
  <2>1. /\ inputs' = inputs + 1 /\ sent' = sent /\ streaming /\ streaming' = streaming
        /\ inputs + 1 \in 0 .. MaxInputs
        /\ commands' \in {commands, Append(commands, inputs + 1)}
    BY <1>1 DEF SendGamepad, Send, InputTyped, inputVars
  <2>2. CASE commands' = commands
    BY <1>0, <2>1, <2>2 DEF Snapshots, CloseWaits
  <2>3. CASE commands' = Append(commands, inputs + 1)
    <3>1. PICK t : t = Append(commands, inputs + 1) /\ commands' = t
      BY <2>3
    <3>2. /\ Len(t) = Len(commands) + 1
          /\ \A i \in 1 .. Len(t) :
               \/ i \in 1 .. Len(commands) /\ t[i] = commands[i]
               \/ i = Len(commands) + 1 /\ t[i] = inputs + 1
      BY <2>1, <3>1, QueuedLast
    <3>3. inputs + 1 # Close /\ \A i \in 1 .. Len(commands) : commands[i] # Close
      BY <1>0, <2>1 DEF Close, Snapshots
    <3>4. \A i \in 1 .. Len(t) : t[i] # Close /\ sent < t[i] /\ t[i] <= inputs + 1
      BY <1>0, <3>2, <3>3 DEF Snapshots
    <3>5. ASSUME NEW i \in 1 .. Len(t), NEW j \in 1 .. Len(t), i < j PROVE t[i] < t[j]
      <4>1. i \in 1 .. Len(commands) /\ t[i] = commands[i]
        BY <1>0, <3>2, <3>5
      <4>2. CASE j \in 1 .. Len(commands) /\ t[j] = commands[j]
        BY <4>1, <4>2, <3>3, <3>5 DEF Snapshots
      <4>3. CASE t[j] = inputs + 1
        BY <1>0, <4>1, <4>3, <3>3 DEF Snapshots
      <4> QED
        BY <3>2, <4>2, <4>3
    <3> QED
      BY <1>0, <2>1, <3>1, <3>4, <3>5 DEF Snapshots, CloseWaits
  <2> QED
    BY <2>1, <2>2, <2>3
<1>2. CASE DropPeer
  <2>1. /\ inputs' = inputs /\ sent' = sent /\ streaming /\ ~ streaming' /\ peer' = peer
        /\ peer # "running" => commands' = commands
        /\ peer = "running" => commands' = Append(commands, Close)
    BY <1>2 DEF DropPeer, Send, inputVars
  <2>2. CASE peer # "running"
    BY <1>0, <2>1, <2>2 DEF Snapshots, CloseWaits
  <2>3. CASE peer = "running"
    <3>1. PICK t : t = Append(commands, Close) /\ commands' = t
      BY <2>1, <2>3
    <3>2. Close \in 0 .. MaxInputs
      BY DEF Close
    <3>3. /\ Len(t) = Len(commands) + 1
          /\ \A i \in 1 .. Len(t) :
               \/ i \in 1 .. Len(commands) /\ t[i] = commands[i]
               \/ i = Len(commands) + 1 /\ t[i] = Close
          /\ Len(commands) + 1 \in 1 .. Len(t) /\ t[Len(commands) + 1] = Close
      BY <3>1, <3>2, QueuedLast
    <3>4. \A i \in 1 .. Len(commands) : commands[i] # Close
      BY <2>1 DEF Snapshots
    <3>5. \A i \in 1 .. Len(t) : t[i] # Close => sent < t[i] /\ t[i] <= inputs
      BY <3>3 DEF Snapshots
    <3>6. ASSUME NEW i \in 1 .. Len(t), NEW j \in 1 .. Len(t), i < j
          PROVE  t[i] # Close /\ (t[j] # Close => t[i] < t[j])
      <4>1. i \in 1 .. Len(commands) /\ t[i] = commands[i]
        BY <1>0, <3>3, <3>6
      <4> QED
        BY <3>3, <3>4, <3>6, <4>1 DEF Snapshots
    <3>7. Closed'
      <4>1. t \in Seq(0 .. MaxInputs)
        BY <1>0, <3>1, <3>2, AppendProperties
      <4>2. DOMAIN t = 1 .. Len(t)
        BY <4>1, LenProperties
      <4> QED
        BY <3>1, <3>3, <4>2 DEF Closed, Close
    <3> QED
      BY <2>1, <3>1, <3>5, <3>6, <3>7 DEF Snapshots, CloseWaits
  <2> QED
    BY <2>2, <2>3
<1>3. CASE Commands
  <2>1. /\ commands' = << >> /\ inputs' = inputs /\ streaming' = streaming
        /\ sent' = sent \/ (commands # << >> /\ ~ Closed /\ sent' = LatestGamepad)
        /\ Closed => peer' = "ended"
        /\ ~ streaming /\ peer = "running" => Closed
    BY <1>3 DEF Commands, Returns, appVars, CloseWaits
  <2>2. sent' \in Nat /\ sent' <= inputs
    BY <1>0, <2>1, LatestRead DEF Snapshots
  <2>3. peer' = "running" => streaming
    BY <1>3, <2>1 DEF Commands
  <2> QED
    BY <1>0, <2>1, <2>2, <2>3 DEF Snapshots, CloseWaits
<1>4. CASE ~ SendGamepad /\ ~ DropPeer /\ ~ Commands
  <2>1. /\ UNCHANGED <<inputs, sent, streaming>>
        /\ \/ UNCHANGED <<commands, peer>>
           \/ commands' = << >> /\ peer' = "ended"
    BY <1>4, OtherSteps
  <2>2. CASE UNCHANGED <<commands, peer>>
    BY <2>1, <2>2 DEF Snapshots, CloseWaits, Closed
  <2>3. CASE commands' = << >> /\ peer' = "ended"
    BY <1>0, <2>1, <2>3 DEF Snapshots, CloseWaits
  <2> QED
    BY <2>1, <2>2, <2>3
<1> QED
  BY <1>1, <1>2, <1>3, <1>4

(* ... and none loses a snapshot that is still the newest.                   *)
LEMMA StepKept ==
  ASSUME InputTyped, Snapshots, [Next]_vars
  PROVE  SnapshotsKept
<1>0. /\ sent \in Nat /\ DOMAIN commands = 1 .. Len(commands) /\ MaxInputs \in Nat
      /\ \A i \in 1 .. Len(commands) : commands[i] \in 0 .. MaxInputs
      /\ commands \in Seq(0 .. MaxInputs)
  BY LenProperties, ElementOfSeq DEF InputTyped
<1>1. CASE SendGamepad \/ DropPeer
  <2>1. PICK c \in 0 .. MaxInputs : sent' = sent /\ commands' \in {commands, Append(commands, c)}
    <3>1. inputs < MaxInputs => inputs + 1 \in 0 .. MaxInputs
      BY DEF InputTyped
    <3>2. Close \in 0 .. MaxInputs
      BY DEF Close
    <3> QED
      BY <1>1, <3>1, <3>2 DEF SendGamepad, DropPeer, Send, inputVars
  <2>2. CASE commands' = commands
    BY <1>0, <2>1, <2>2 DEF SnapshotsKept, Queued
  <2>3. CASE commands' = Append(commands, c)
    <3>1. PICK t : t = Append(commands, c) /\ commands' = t
      BY <2>3
    <3>2. \A i \in 1 .. Len(commands) : i \in 1 .. Len(t) /\ t[i] = commands[i]
      BY <3>1, QueuedLast
    <3>3. DOMAIN t = 1 .. Len(t)
      BY <1>0, <3>1, AppendProperties, LenProperties
    <3>4. \A n \in 1 .. MaxInputs : Queued(n) => Queued(n)'
      BY <1>0, <3>1, <3>2, <3>3 DEF Queued
    <3> QED
      BY <1>0, <2>1, <3>4 DEF SnapshotsKept
  <2> QED
    BY <2>1, <2>2, <2>3
<1>2. CASE Commands
  <2>1. CASE Closed
    BY <1>0, <1>2, <2>1 DEF Commands, Returns, SnapshotsKept
  <2>2. CASE ~ Closed
    <3>1. /\ commands # << >>
          /\ sent' = IF input_ready THEN LatestGamepad ELSE sent
      BY <1>2, <2>2 DEF Commands
    <3>2. /\ LatestGamepad \in Nat /\ sent < LatestGamepad
          /\ \A i \in 1 .. Len(commands) : commands[i] <= LatestGamepad
      BY <2>2, <3>1, LatestRead
    <3>3. \A n \in 1 .. MaxInputs : input_ready /\ Queued(n) => sent' >= n
      BY <1>0, <3>1, <3>2 DEF Queued
    <3>4. sent <= sent'
      BY <1>0, <3>1, <3>2
    <3> QED
      BY <3>3, <3>4 DEF SnapshotsKept
  <2> QED
    BY <2>1, <2>2
<1>3. CASE ~ SendGamepad /\ ~ DropPeer /\ ~ Commands
  <2>1. /\ sent' = sent
        /\ UNCHANGED <<commands, peer>> \/ peer' = "ended"
    BY <1>3, OtherSteps
  <2> QED
    BY <1>0, <2>1 DEF SnapshotsKept, Queued
<1> QED
  BY <1>1, <1>2, <1>3

(* All of it holds in every state.                                           *)
LEMMA InputInvariant == Spec => [](InputTyped /\ Snapshots /\ CloseWaits)
<1>1. Init => InputTyped /\ Snapshots /\ CloseWaits
  <2>1. Init => InputTyped
    BY InitMedia, TypeParts DEF MInv
  <2>2. Len(<< >>) = 0
    OBVIOUS
  <2> QED
    BY <2>1, <2>2 DEF Init, Snapshots, CloseWaits
<1> QED
  BY <1>1, StepInput, StepSnapshots, PTL DEF Spec

(* The safety half of LastInputArrives: no coalescing, no Close behind it    *)
(* and no timer in front of it drops a snapshot that is the newest, and the  *)
(* game never sees an older state of the controller after a newer one.       *)
THEOREM NewestInputKept == Spec => [][SnapshotsKept]_vars
<1>1. InputTyped /\ Snapshots /\ [Next]_vars => [SnapshotsKept]_vars
  BY StepKept
<1> QED
  BY <1>1, InputInvariant, PTL DEF Spec

(* The safety half of ThreadsEnd: a session that was left has its Close in   *)
(* the queue until the peer thread has ended.                                *)
THEOREM CloseNotLost == Spec => []CloseWaits
BY InputInvariant, PTL
=============================================================================
