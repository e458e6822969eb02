-------------------------- MODULE AudioPipeline_proofs --------------------------
(***************************************************************************)
(* The sound keeps its order, the queue its bound and the device its state *)
(* for any capacities of the queues, any number of packets and any number  *)
(* of decode threads that end.                                             *)
(***************************************************************************)
EXTENDS AudioPipeline, SequenceTheorems, TLAPS

USE AudioBounds

-----------------------------------------------------------------------------
(* Sequences of packet numbers                                               *)

Elems(s)         == {s[i] : i \in DOMAIN s}
Increasing(s)    == \A i, j \in DOMAIN s : i < j => s[i] < s[j]
SetBefore(S, T)  == \A x \in S, y \in T : x < y

(* An append adds one element, and keeps the order when that is the greatest.*)
LEMMA AppendFacts ==
  ASSUME NEW s \in Seq(Packet), NEW e \in Packet
  PROVE  /\ Append(s, e) \in Seq(Packet)
         /\ Len(Append(s, e)) = Len(s) + 1
         /\ Elems(Append(s, e)) = Elems(s) \cup {e}
         /\ Increasing(s) /\ SetBefore(Elems(s), {e}) => Increasing(Append(s, e))
<1>1. /\ Append(s, e) \in Seq(Packet)
      /\ Len(Append(s, e)) = Len(s) + 1 /\ Len(s) \in Nat
      /\ DOMAIN s = 1 .. Len(s) /\ DOMAIN Append(s, e) = 1 .. Len(s) + 1
      /\ \A i \in 1 .. Len(s) : Append(s, e)[i] = s[i]
      /\ Append(s, e)[Len(s) + 1] = e
  BY AppendProperties, LenProperties
<1>2. Elems(Append(s, e)) = Elems(s) \cup {e}
  <2>1. ASSUME NEW x \in Elems(Append(s, e)) PROVE x \in Elems(s) \cup {e}
    <3>1. PICK i \in 1 .. Len(s) + 1 : x = Append(s, e)[i]
      BY <1>1 DEF Elems
    <3>2. i \in 1 .. Len(s) \/ i = Len(s) + 1
      BY <1>1
    <3> QED
      BY <1>1, <3>1, <3>2 DEF Elems
  <2>2. ASSUME NEW x \in Elems(s) PROVE x \in Elems(Append(s, e))
    <3>1. PICK i \in 1 .. Len(s) : x = s[i]
      BY <1>1 DEF Elems
    <3> QED
      BY <1>1, <3>1 DEF Elems
  <2>3. e \in Elems(Append(s, e))
    BY <1>1 DEF Elems
  <2> QED
    BY <2>1, <2>2, <2>3
<1>3. ASSUME Increasing(s), SetBefore(Elems(s), {e}) PROVE Increasing(Append(s, e))
  <2> SUFFICES ASSUME NEW i \in 1 .. Len(s) + 1, NEW j \in 1 .. Len(s) + 1, i < j
               PROVE  Append(s, e)[i] < Append(s, e)[j]
    BY <1>1 DEF Increasing
  <2>1. i \in 1 .. Len(s)
    BY <1>1
  <2>2. CASE j \in 1 .. Len(s)
    BY <1>1, <1>3, <2>1, <2>2 DEF Increasing
  <2>3. CASE j = Len(s) + 1
    BY <1>1, <1>3, <2>1, <2>3 DEF SetBefore, Elems
  <2> QED
    BY <1>1, <2>2, <2>3
<1> QED
  BY <1>1, <1>2, <1>3

(* The rest of a sequence keeps its order, and has no element that is not    *)
(* behind the first in it.                                                   *)
LEMMA TailFacts ==
  ASSUME NEW s \in Seq(Packet), s # << >>
  PROVE  /\ Head(s) \in Packet /\ Head(s) \in Elems(s)
         /\ Tail(s) \in Seq(Packet) /\ Len(Tail(s)) = Len(s) - 1
         /\ Elems(Tail(s)) \subseteq Elems(s)
         /\ Increasing(s) => Increasing(Tail(s)) /\ SetBefore({Head(s)}, Elems(Tail(s)))
<1>1. /\ Len(s) \in Nat /\ Len(s) # 0 /\ DOMAIN s = 1 .. Len(s)
      /\ Tail(s) \in Seq(Packet) /\ Len(Tail(s)) = Len(s) - 1
      /\ DOMAIN Tail(s) = 1 .. Len(s) - 1
      /\ \A i \in 1 .. Len(s) - 1 : Tail(s)[i] = s[i + 1]
      /\ Head(s) \in Packet /\ Head(s) = s[1]
  BY HeadTailProperties, LenProperties, EmptySeq
<1>2. \A i \in 1 .. Len(s) - 1 : i + 1 \in 1 .. Len(s) /\ 1 < i + 1
  BY <1>1
<1>3. Head(s) \in Elems(s) /\ Elems(Tail(s)) \subseteq Elems(s)
  BY <1>1, <1>2 DEF Elems
<1>4. ASSUME Increasing(s)
      PROVE  Increasing(Tail(s)) /\ SetBefore({Head(s)}, Elems(Tail(s)))
  <2>1. ASSUME NEW i \in 1 .. Len(s) - 1, NEW j \in 1 .. Len(s) - 1, i < j
        PROVE  Tail(s)[i] < Tail(s)[j]
    <3>1. i + 1 \in 1 .. Len(s) /\ j + 1 \in 1 .. Len(s) /\ i + 1 < j + 1
      BY <1>1, <2>1
    <3> QED
      BY <1>1, <1>4, <3>1 DEF Increasing
  <2>2. ASSUME NEW i \in 1 .. Len(s) - 1 PROVE s[1] < Tail(s)[i]
    <3>1. 1 \in 1 .. Len(s) /\ i + 1 \in 1 .. Len(s) /\ 1 < i + 1
      BY <1>1, <1>2
    <3> QED
      BY <1>1, <1>4, <3>1 DEF Increasing
  <2> QED
    BY <1>1, <2>1, <2>2 DEF Increasing, SetBefore, Elems
<1> QED
  BY <1>1, <1>3, <1>4

(* One ordered sequence behind another.                                      *)
LEMMA ConcatFacts ==
  ASSUME NEW s \in Seq(Packet), NEW t \in Seq(Packet),
         Increasing(s), Increasing(t), SetBefore(Elems(s), Elems(t))
  PROVE  /\ s \o t \in Seq(Packet)
         /\ Elems(s \o t) = Elems(s) \cup Elems(t)
         /\ Increasing(s \o t)
<1>1. /\ s \o t \in Seq(Packet)
      /\ Len(s) \in Nat /\ Len(t) \in Nat
      /\ DOMAIN s = 1 .. Len(s) /\ DOMAIN t = 1 .. Len(t)
      /\ DOMAIN (s \o t) = 1 .. Len(s) + Len(t)
      /\ \A i \in 1 .. Len(s) : (s \o t)[i] = s[i]
      /\ \A i \in Len(s) + 1 .. Len(s) + Len(t) : (s \o t)[i] = t[i - Len(s)]
  <2>1. Len(s \o t) = Len(s) + Len(t)
    BY ConcatProperties
  <2> QED
    BY <2>1, ConcatProperties, LenProperties
<1>2. \A i \in 1 .. Len(s) + Len(t) :
        i \in 1 .. Len(s) \/ (i \in Len(s) + 1 .. Len(s) + Len(t) /\ i - Len(s) \in 1 .. Len(t))
  BY <1>1
<1>3. Elems(s \o t) \subseteq Elems(s) \cup Elems(t)
  BY <1>1, <1>2 DEF Elems
<1>4. Elems(s) \subseteq Elems(s \o t)
  BY <1>1 DEF Elems
<1>5. ASSUME NEW x \in Elems(t) PROVE x \in Elems(s \o t)
  <2>1. PICK i \in 1 .. Len(t) : x = t[i]
    BY <1>1 DEF Elems
  <2>2. i + Len(s) \in Len(s) + 1 .. Len(s) + Len(t) /\ i + Len(s) \in 1 .. Len(s) + Len(t)
        /\ (i + Len(s)) - Len(s) = i
    BY <1>1
  <2> QED
    BY <1>1, <2>1, <2>2 DEF Elems
<1>6. ASSUME NEW i \in 1 .. Len(s) + Len(t), NEW j \in 1 .. Len(s) + Len(t), i < j
      PROVE  (s \o t)[i] < (s \o t)[j]
  <2>1. CASE j \in 1 .. Len(s)
    <3>1. i \in 1 .. Len(s)
      BY <1>1, <1>6, <2>1
    <3> QED
      BY <1>1, <1>6, <2>1, <3>1 DEF Increasing
  <2>2. CASE i \in 1 .. Len(s) /\ j - Len(s) \in 1 .. Len(t) /\ j \in Len(s) + 1 .. Len(s) + Len(t)
    BY <1>1, <2>2 DEF SetBefore, Elems
  <2>3. CASE /\ i - Len(s) \in 1 .. Len(t) /\ i \in Len(s) + 1 .. Len(s) + Len(t)
             /\ j - Len(s) \in 1 .. Len(t) /\ j \in Len(s) + 1 .. Len(s) + Len(t)
    <3>1. i - Len(s) < j - Len(s)
      BY <1>1, <1>6
    <3> QED
      BY <1>1, <2>3, <3>1 DEF Increasing
  <2>4. i \in 1 .. Len(s) \/ j \notin 1 .. Len(s)
    BY <1>1, <1>6
  <2> QED
    BY <1>2, <2>1, <2>2, <2>3, <2>4
<1> QED
  BY <1>1, <1>3, <1>4, <1>5, <1>6 DEF Increasing

(* The packets that a sequence of buffers comes from.                        *)
LEMMA NumbersFacts ==
  ASSUME NEW s \in Seq(PCM)
  PROVE  /\ Numbers(s) \in Seq(Packet) /\ Len(Numbers(s)) = Len(s)
         /\ \A b \in PCM : Numbers(Append(s, b)) = Append(Numbers(s), b.packet)
         /\ s # << >> => /\ Numbers(s) # << >> /\ Head(s) \in PCM
                        /\ Head(s).packet = Head(Numbers(s))
                        /\ Numbers(Tail(s)) = Tail(Numbers(s))
<1>1. /\ Len(s) \in Nat /\ DOMAIN s = 1 .. Len(s) /\ \A i \in 1 .. Len(s) : s[i] \in PCM
  BY LenProperties, ElementOfSeq
<1>2. \A b \in PCM : b.packet \in Packet
  BY DEF PCM
<1>3. /\ Numbers(s) \in Seq(Packet) /\ Len(Numbers(s)) = Len(s)
      /\ \A i \in 1 .. Len(s) : Numbers(s)[i] = s[i].packet
  BY <1>1, <1>2 DEF Numbers
<1>4. ASSUME NEW b \in PCM PROVE Numbers(Append(s, b)) = Append(Numbers(s), b.packet)
  <2>1. /\ Append(s, b) \in Seq(PCM) /\ Len(Append(s, b)) = Len(s) + 1
        /\ DOMAIN Append(s, b) = 1 .. Len(s) + 1
        /\ \A i \in 1 .. Len(s) : Append(s, b)[i] = s[i]
        /\ Append(s, b)[Len(s) + 1] = b
    BY <1>1, AppendProperties, LenProperties
  <2>2. /\ Append(Numbers(s), b.packet) \in Seq(Packet)
        /\ Len(Append(Numbers(s), b.packet)) = Len(s) + 1
        /\ \A i \in 1 .. Len(s) : Append(Numbers(s), b.packet)[i] = Numbers(s)[i]
        /\ Append(Numbers(s), b.packet)[Len(s) + 1] = b.packet
    BY <1>2, <1>3, AppendProperties
  <2>3. /\ Numbers(Append(s, b)) \in Seq(Packet)
        /\ Len(Numbers(Append(s, b))) = Len(s) + 1
        /\ \A i \in 1 .. Len(s) + 1 : Numbers(Append(s, b))[i] = Append(s, b)[i].packet
    <3>1. \A i \in 1 .. Len(s) + 1 : Append(s, b)[i].packet \in Packet
      BY <1>1, <1>2, <2>1, ElementOfSeq
    <3> QED
      BY <1>1, <2>1, <3>1 DEF Numbers
  <2>4. \A i \in 1 .. Len(s) + 1 : i \in 1 .. Len(s) \/ i = Len(s) + 1
    BY <1>1
  <2>5. \A i \in 1 .. Len(s) + 1 : Numbers(Append(s, b))[i] = Append(Numbers(s), b.packet)[i]
    BY <1>3, <2>1, <2>2, <2>3, <2>4
  <2> QED
    BY <2>2, <2>3, <2>5, SeqEqual
<1>5. ASSUME s # << >>
      PROVE  /\ Numbers(s) # << >> /\ Head(s) \in PCM
             /\ Head(s).packet = Head(Numbers(s))
             /\ Numbers(Tail(s)) = Tail(Numbers(s))
  <2>1. /\ Len(s) # 0 /\ Head(s) = s[1] /\ Head(s) \in PCM
        /\ Tail(s) \in Seq(PCM) /\ Len(Tail(s)) = Len(s) - 1
        /\ DOMAIN Tail(s) = 1 .. Len(s) - 1
        /\ \A i \in 1 .. Len(s) - 1 : Tail(s)[i] = s[i + 1]
    BY <1>1, <1>5, HeadTailProperties, EmptySeq, LenProperties
  <2>2. Numbers(s) # << >> /\ Head(Numbers(s)) = Numbers(s)[1]
    BY <1>3, <2>1, EmptySeq
  <2>3. 1 \in 1 .. Len(s) /\ \A i \in 1 .. Len(s) - 1 : i + 1 \in 1 .. Len(s)
    BY <1>1, <2>1
  <2>4. /\ Tail(Numbers(s)) \in Seq(Packet) /\ Len(Tail(Numbers(s))) = Len(s) - 1
        /\ \A i \in 1 .. Len(s) - 1 : Tail(Numbers(s))[i] = Numbers(s)[i + 1]
    BY <1>3, <2>2, HeadTailProperties
  <2>5. /\ Numbers(Tail(s)) \in Seq(Packet) /\ Len(Numbers(Tail(s))) = Len(s) - 1
        /\ \A i \in 1 .. Len(s) - 1 : Numbers(Tail(s))[i] = Tail(s)[i].packet
    <3>1. \A i \in 1 .. Len(s) - 1 : Tail(s)[i].packet \in Packet
      BY <1>1, <1>2, <2>1, <2>3
    <3> QED
      BY <1>1, <2>1, <3>1 DEF Numbers
  <2>6. \A i \in 1 .. Len(s) - 1 : Numbers(Tail(s))[i] = Tail(Numbers(s))[i]
    BY <1>3, <2>1, <2>3, <2>4, <2>5
  <2>7. Numbers(Tail(s)) = Tail(Numbers(s))
    BY <2>4, <2>5, <2>6, SeqEqual
  <2> QED
    BY <1>3, <2>1, <2>2, <2>3, <2>7
<1> QED
  BY <1>3, <1>4, <1>5

-----------------------------------------------------------------------------
(* The stages between the network and the device                             *)

(* The types of the stages.                                                  *)
StagesTyped ==
  /\ arrived \in 0 .. MaxPackets
  /\ pending_audio \in Seq(Packet) /\ batch \in Seq(Packet) /\ packets \in Seq(Packet)
  /\ decoding \in 0 .. MaxPackets
  /\ samples \in Seq(PCM)
  /\ last \in 0 .. MaxPackets

(* A thread that has ended holds nothing, and outside the loop over the      *)
(* packets there are none left.                                              *)
StagesEmpty ==
  /\ worker = "ended" => decoding = 0 /\ packets = << >>
  /\ submitting # "packets" => batch = << >>

(* Each stage is in order, ...                                               *)
StagesInOrder ==
  /\ Increasing(Numbers(samples)) /\ Increasing(packets)
  /\ Increasing(batch) /\ Increasing(pending_audio)

(* ... and each is behind those nearer to the device.                        *)
Chain(l, S, H, P, B, Q, a) ==
  /\ SetBefore({l}, S \cup H \cup P \cup B \cup Q)
  /\ SetBefore(S, H \cup P \cup B \cup Q)
  /\ SetBefore(H, P \cup B \cup Q)
  /\ SetBefore(P, B \cup Q)
  /\ SetBefore(B, Q)
  /\ l <= a /\ \A x \in S \cup H \cup P \cup B \cup Q : x <= a

Hand == IF decoding = 0 THEN {} ELSE {decoding}
StagesChained ==
  Chain(last, Elems(Numbers(samples)), Hand, Elems(packets), Elems(batch),
        Elems(pending_audio), arrived)

SInv == StagesTyped /\ StagesEmpty /\ StagesInOrder /\ StagesChained

(* What is taken out of the stages does not disturb the chain.               *)
LEMMA ChainShrinks ==
  ASSUME NEW l, NEW a, NEW S, NEW H, NEW P, NEW B, NEW Q, Chain(l, S, H, P, B, Q, a),
         NEW S1 \in SUBSET S, NEW H1 \in SUBSET H, NEW P1 \in SUBSET P,
         NEW B1 \in SUBSET B, NEW Q1 \in SUBSET Q
  PROVE  Chain(l, S1, H1, P1, B1, Q1, a)
BY Zenon DEF Chain, SetBefore

(* The empty sequence has no elements, and is in order.                      *)
LEMMA EmptyFacts ==
  /\ << >> \in Seq(Packet) /\ << >> \in Seq(PCM)
  /\ Elems(<< >>) = {} /\ Increasing(<< >>)
  /\ Numbers(<< >>) = << >>
BY DEF Elems, Increasing, Numbers

(* Before the first packet.                                                  *)
LEMMA InitStages == Init => SInv
<1> SUFFICES ASSUME Init PROVE SInv
  OBVIOUS
<1>1. StagesTyped /\ StagesEmpty
  BY EmptyFacts DEF Init, StagesTyped, StagesEmpty
<1>2. StagesInOrder
  BY EmptyFacts DEF Init, StagesInOrder
<1>3. Chain(0, {}, {}, {}, {}, {}, 0)
  BY DEF Chain, SetBefore
<1>4. StagesChained
  BY <1>3, EmptyFacts DEF Init, StagesChained, Hand
<1> QED
  BY <1>1, <1>2, <1>4 DEF SInv

(* The elements of the stages are packet numbers.                            *)
LEMMA ElemsFacts == ASSUME NEW s \in Seq(Packet) PROVE Elems(s) \subseteq Packet
BY LenProperties, ElementOfSeq DEF Elems

(* A packet that arrives is the greatest, and goes behind all others.        *)
LEMMA ArriveStages == SInv /\ Arrive => SInv'
<1> SUFFICES ASSUME SInv, Arrive PROVE SInv'
  OBVIOUS
<1> DEFINE n == arrived + 1
           kept == IF Len(pending_audio) >= PeerCap THEN Tail(pending_audio) ELSE pending_audio
<1>1. /\ n \in Packet /\ arrived' = n /\ pending_audio' = Append(kept, n)
      /\ UNCHANGED <<submitting, batch, packets, worker, decoding, samples, last>>
  BY DEF Arrive, workerVars, SInv, StagesTyped, Packet
<1>2. /\ kept \in Seq(Packet) /\ Elems(kept) \subseteq Elems(pending_audio)
      /\ Increasing(kept)
  <2>1. CASE Len(pending_audio) >= PeerCap
    <3>1. pending_audio # << >>
      BY <2>1, EmptySeq
    <3> QED
      BY <2>1, <3>1, TailFacts DEF SInv, StagesTyped, StagesInOrder
  <2>2. CASE ~ (Len(pending_audio) >= PeerCap)
    BY <2>2 DEF SInv, StagesTyped, StagesInOrder
  <2> QED
    BY <2>1, <2>2
<1> DEFINE S == Elems(Numbers(samples))
           P == Elems(packets)
           B == Elems(batch)
           Q == Elems(pending_audio)
<1>3. Chain(last, S, Hand, P, B, Q, arrived)
  BY DEF SInv, StagesChained
<1>4. Chain(last, S, Hand, P, B, Elems(kept), arrived)
  BY <1>2, <1>3, ChainShrinks
<1>5. /\ S \subseteq Packet /\ P \subseteq Packet /\ B \subseteq Packet /\ Q \subseteq Packet
      /\ Hand \subseteq Packet /\ last \in 0 .. MaxPackets /\ arrived \in Nat
      /\ Packet \subseteq Nat
  BY ElemsFacts, NumbersFacts DEF SInv, StagesTyped, Hand, Packet
<1>6. \A x \in {last} \cup S \cup Hand \cup P \cup B \cup Elems(kept) : x < n
  <2>1. \A x \in S \cup Hand \cup P \cup B \cup Elems(kept) : x \in Nat /\ x <= arrived
    BY <1>2, <1>4, <1>5 DEF Chain
  <2>2. last <= arrived
    BY <1>4 DEF Chain
  <2> QED
    BY <1>5, <2>1, <2>2
<1>7. Chain(last, S, Hand, P, B, Elems(kept) \cup {n}, n)
  <2>1. \A x \in S \cup Hand \cup P \cup B \cup Elems(kept) \cup {n} : x <= n
    <3>1. n \in Nat /\ \A x \in Nat : x < n => x <= n
      BY <1>1, <1>5
    <3>2. S \cup Hand \cup P \cup B \cup Elems(kept) \subseteq Nat
      BY <1>2, <1>5
    <3> HIDE DEF n, S, P, B, kept
    <3> QED
      BY <1>6, <3>1, <3>2
  <2>2. last <= n
    BY <1>5, <1>6
  <2> QED
    BY <1>4, <1>6, <2>1, <2>2, Zenon DEF Chain, SetBefore
<1>8. SetBefore(Elems(kept), {n})
  BY <1>6, Zenon DEF SetBefore
<1>9. /\ pending_audio' \in Seq(Packet) /\ Increasing(pending_audio)'
      /\ Elems(pending_audio)' = Elems(kept) \cup {n}
  BY <1>1, <1>2, <1>8, AppendFacts
<1>10. StagesTyped' /\ StagesEmpty'
  BY <1>1, <1>9 DEF SInv, StagesTyped, StagesEmpty, Packet
<1>11. StagesInOrder'
  BY <1>1, <1>9 DEF SInv, StagesInOrder
<1>12. StagesChained'
  BY <1>1, <1>7, <1>9 DEF StagesChained, Hand
<1> QED
  BY <1>10, <1>11, <1>12 DEF SInv

(* A packet that moves one stage on stays between its neighbours, ...        *)
LEMMA HandToPacketsMove ==
  ASSUME NEW l, NEW a, NEW S, NEW H, NEW P, NEW B, NEW Q, Chain(l, S, H, P, B, Q, a),
         NEW h \in B, NEW B1 \in SUBSET B, SetBefore({h}, B1)
  PROVE  Chain(l, S, H, P \cup {h}, B1, Q, a) /\ SetBefore(P, {h})
BY Zenon DEF Chain, SetBefore

(* ... into the hand of the decode thread, ...                               *)
LEMMA TakenMove ==
  ASSUME NEW l, NEW a, NEW S, NEW P, NEW B, NEW Q, Chain(l, S, {}, P, B, Q, a),
         NEW h \in P, NEW P1 \in SUBSET P, SetBefore({h}, P1)
  PROVE  Chain(l, S, {h}, P1, B, Q, a)
BY Zenon DEF Chain, SetBefore

(* ... out of it, ...                                                        *)
LEMMA DecodedMove ==
  ASSUME NEW l, NEW a, NEW S, NEW h, NEW P, NEW B, NEW Q, Chain(l, S, {h}, P, B, Q, a)
  PROVE  Chain(l, S \cup {h}, {}, P, B, Q, a) /\ SetBefore(S, {h})
BY Zenon DEF Chain, SetBefore

(* ... or to the device.                                                     *)
LEMMA PlayedMove ==
  ASSUME NEW l, NEW a, NEW S, NEW H, NEW P, NEW B, NEW Q, Chain(l, S, H, P, B, Q, a),
         NEW h \in S, NEW S1 \in SUBSET S, SetBefore({h}, S1)
  PROVE  Chain(h, S1, H, P, B, Q, a)
BY Zenon DEF Chain, SetBefore

(* A frame takes over what is pending, and a session that ends drops it.     *)
LEMMA SubmitStages == SInv /\ (PeerReplaced \/ Submit) => SInv'
<1> SUFFICES ASSUME SInv, PeerReplaced \/ Submit PROVE SInv'
  OBVIOUS
<1>1. UNCHANGED <<arrived, packets, worker, decoding, samples, last>>
  BY DEF PeerReplaced, Submit, workerVars, queueVars
<1>2. pending_audio' = << >> /\ batch = << >>
  BY DEF PeerReplaced, Submit, SInv, StagesEmpty
<1>3. \/ batch' = << >> /\ submitting' = submitting
      \/ batch' = pending_audio /\ submitting' = "packets"
  BY <1>2 DEF PeerReplaced, Submit
<1>4. StagesTyped' /\ StagesEmpty'
  BY <1>1, <1>2, <1>3, EmptyFacts DEF SInv, StagesTyped, StagesEmpty
<1>5. StagesInOrder'
  BY <1>1, <1>2, <1>3, EmptyFacts DEF SInv, StagesInOrder
<1>6. StagesChained'
  <2> DEFINE S == Elems(Numbers(samples))
             P == Elems(packets)
             Q == Elems(pending_audio)
  <2>1. Chain(last, S, Hand, P, {}, Q, arrived)
    BY <1>2, EmptyFacts DEF SInv, StagesChained
  <2>2. Chain(last, S, Hand, P, Q, {}, arrived) /\ Chain(last, S, Hand, P, {}, {}, arrived)
    BY <2>1, Zenon DEF Chain, SetBefore
  <2> QED
    BY <1>1, <1>2, <1>3, <2>2, EmptyFacts DEF StagesChained, Hand
<1> QED
  BY <1>4, <1>5, <1>6 DEF SInv

(* try_send: the head of the batch moves on, or is dropped; a dead thread    *)
(* takes the buffers of its channel with it.                                 *)
LEMMA SendStages == SInv /\ SendPacket => SInv'
<1> SUFFICES ASSUME SInv, SendPacket PROVE SInv'
  OBVIOUS
<1> DEFINE h == Head(batch)
           S == Elems(Numbers(samples))
           P == Elems(packets)
           B == Elems(batch)
           Q == Elems(pending_audio)
<1>1. /\ submitting = "packets" /\ batch # << >> /\ batch' = Tail(batch)
      /\ UNCHANGED <<arrived, pending_audio, submitting, decoding, last>>
  BY DEF SendPacket, RestartDecodeWorker, peerVars
<1>2. /\ batch \in Seq(Packet) /\ h \in Packet /\ h \in B
      /\ batch' \in Seq(Packet) /\ Elems(batch') \in SUBSET B
      /\ Increasing(batch') /\ SetBefore({h}, Elems(batch'))
  BY <1>1, TailFacts DEF SInv, StagesTyped, StagesInOrder
<1>3. Chain(last, S, Hand, P, B, Q, arrived) /\ Hand' = Hand
  BY <1>1 DEF SInv, StagesChained, Hand
<1>4. /\ Chain(last, S, Hand, P \cup {h}, Elems(batch'), Q, arrived)
      /\ SetBefore(P, {h})
      /\ Chain(last, S, Hand, P, Elems(batch'), Q, arrived)
  <2> HIDE DEF h, S, P, B, Q
  <2> QED
    BY <1>2, <1>3, HandToPacketsMove, ChainShrinks
<1>5. CASE packets' = packets /\ samples' = samples /\ worker' = worker
  <2>1. StagesTyped' /\ StagesEmpty' /\ StagesInOrder'
    BY <1>1, <1>2, <1>5 DEF SInv, StagesTyped, StagesEmpty, StagesInOrder
  <2>2. StagesChained'
    BY <1>1, <1>3, <1>4, <1>5 DEF StagesChained
  <2> QED
    BY <2>1, <2>2 DEF SInv
<1>6. CASE worker = "running" /\ packets' = Append(packets, h) /\ samples' = samples /\ worker' = worker
  <2>1. packets \in Seq(Packet) /\ Increasing(packets)
    BY DEF SInv, StagesTyped, StagesInOrder
  <2>2. /\ packets' \in Seq(Packet) /\ Elems(packets') = P \cup {h}
        /\ Increasing(packets')
    BY <1>2, <1>4, <1>6, <2>1, AppendFacts
  <2>3. StagesTyped' /\ StagesEmpty' /\ StagesInOrder'
    BY <1>1, <1>2, <1>6, <2>2 DEF SInv, StagesTyped, StagesEmpty, StagesInOrder
  <2>4. StagesChained'
    BY <1>1, <1>3, <1>4, <1>6, <2>2 DEF StagesChained
  <2> QED
    BY <2>3, <2>4 DEF SInv
<1>7. CASE worker = "ended" /\ worker' = "running" /\ packets' = <<h>> /\ samples' = << >>
  <2>1. decoding = 0 /\ packets = << >> /\ Hand = {} /\ P = {}
    BY <1>7, EmptyFacts DEF SInv, StagesEmpty, Hand
  <2>2. packets' \in Seq(Packet) /\ Elems(packets') = {h} /\ Increasing(packets')
    BY <1>2, <1>7 DEF Elems, Increasing
  <2>3. Chain(last, {}, Hand, {h}, Elems(batch'), Q, arrived)
    <3> HIDE DEF h, S, P, B, Q
    <3> QED
      BY <1>4, ChainShrinks
  <2>4. StagesTyped' /\ StagesEmpty' /\ StagesInOrder'
    BY <1>1, <1>2, <1>7, <2>2, EmptyFacts DEF SInv, StagesTyped, StagesEmpty, StagesInOrder
  <2>5. StagesChained'
    BY <1>1, <1>3, <1>7, <2>2, <2>3, EmptyFacts DEF StagesChained
  <2> QED
    BY <2>4, <2>5 DEF SInv
<1> QED
  BY <1>5, <1>6, <1>7 DEF SendPacket, RestartDecodeWorker

(* The UI loop goes on to the buffers, and leaves.                           *)
LEMMA LeaveStages == SInv /\ (PacketsSent \/ Drained) => SInv'
<1> SUFFICES ASSUME SInv, PacketsSent \/ Drained PROVE SInv'
  OBVIOUS
<1>1. UNCHANGED <<arrived, pending_audio, batch, decoding, last>> /\ batch = << >>
  BY DEF PacketsSent, Drained, RestartDecodeWorker, peerVars, workerVars, SInv, StagesEmpty
<1>2. CASE UNCHANGED <<packets, samples, worker>>
  BY <1>1, <1>2 DEF SInv, StagesTyped, StagesEmpty, StagesInOrder, StagesChained, Hand
<1>3. CASE Drained /\ worker' = "running" /\ packets' = << >> /\ samples' = << >>
  <2>1. samples = << >> /\ submitting' = "away"
    BY <1>3 DEF Drained
  <2>2. StagesTyped' /\ StagesEmpty' /\ StagesInOrder'
    BY <1>1, <1>3, EmptyFacts DEF SInv, StagesTyped, StagesEmpty, StagesInOrder
  <2>3. Chain(last, {}, Hand, {}, Elems(batch), Elems(pending_audio), arrived)
    BY ChainShrinks DEF SInv, StagesChained
  <2>4. StagesChained'
    BY <1>1, <1>3, <2>3, EmptyFacts DEF StagesChained, Hand
  <2> QED
    BY <2>2, <2>4 DEF SInv
<1> QED
  BY <1>2, <1>3 DEF PacketsSent, Drained, RestartDecodeWorker, workerVars

(* try_recv: what is queued for the device is the first of all.              *)
LEMMA DrainStages == SInv /\ DrainSample => SInv'
<1> SUFFICES ASSUME SInv, DrainSample PROVE SInv'
  OBVIOUS
<1> DEFINE h == Head(samples).packet
           N == Numbers(samples)
<1>1. /\ samples # << >> /\ samples' = Tail(samples) /\ last' = h
      /\ UNCHANGED <<arrived, pending_audio, submitting, batch, packets, worker, decoding>>
  BY DEF DrainSample, peerVars
<1>2. /\ samples \in Seq(PCM) /\ samples' \in Seq(PCM)
      /\ N \in Seq(Packet) /\ N # << >> /\ h = Head(N) /\ Numbers(samples') = Tail(N)
      /\ Increasing(N)
  BY <1>1, NumbersFacts, HeadTailProperties DEF SInv, StagesTyped, StagesInOrder
<1>3. /\ h \in Packet /\ h \in Elems(N) /\ Elems(Tail(N)) \in SUBSET Elems(N)
      /\ Increasing(Tail(N)) /\ SetBefore({h}, Elems(Tail(N)))
  <2> HIDE DEF h, N
  <2> QED
    BY <1>2, TailFacts
<1>4. Chain(h, Elems(Tail(N)), Hand, Elems(packets), Elems(batch), Elems(pending_audio), arrived)
  <2>1. Chain(last, Elems(N), Hand, Elems(packets), Elems(batch), Elems(pending_audio), arrived)
    BY DEF SInv, StagesChained
  <2> HIDE DEF h, N
  <2> QED
    BY <1>3, <2>1, PlayedMove
<1>5. StagesTyped' /\ StagesEmpty' /\ StagesInOrder'
  <2>1. last' \in 0 .. MaxPackets
    BY <1>1, <1>3 DEF Packet
  <2>2. Increasing(Numbers(samples))'
    BY <1>2, <1>3
  <2> HIDE DEF h, N
  <2> QED
    BY <1>1, <1>2, <2>1, <2>2 DEF SInv, StagesTyped, StagesEmpty, StagesInOrder
<1>6. StagesChained'
  BY <1>1, <1>2, <1>4 DEF StagesChained, Hand
<1> QED
  BY <1>5, <1>6 DEF SInv

(* The decode thread takes a packet, and keeps it if it can be decoded, ...  *)
LEMMA TakeStages == SInv /\ TakePacket => SInv'
<1> SUFFICES ASSUME SInv, TakePacket PROVE SInv'
  OBVIOUS
<1> DEFINE h == Head(packets)
           S1 == Elems(Numbers(samples))
           S4 == Elems(batch)
           S5 == Elems(pending_audio)
<1>1. /\ worker = "running" /\ decoding = 0 /\ packets # << >>
      /\ decoding' \in {h, 0} /\ packets' = Tail(packets)
      /\ UNCHANGED <<arrived, pending_audio, submitting, batch, worker, samples, last>>
  BY DEF TakePacket, peerVars
<1>2. /\ h \in Packet /\ h \in Elems(packets) /\ packets' \in Seq(Packet)
      /\ Elems(packets') \in SUBSET Elems(packets)
      /\ Increasing(packets') /\ SetBefore({h}, Elems(packets'))
  BY <1>1, TailFacts DEF SInv, StagesTyped, StagesInOrder
<1>3. h \in 0 .. MaxPackets /\ h # 0
  BY <1>2 DEF Packet
<1>4. /\ Chain(last, S1, {h}, Elems(packets'), S4, S5, arrived)
      /\ Chain(last, S1, {}, Elems(packets'), S4, S5, arrived)
  <2>1. Chain(last, S1, {}, Elems(packets), S4, S5, arrived)
    BY <1>1 DEF SInv, StagesChained, Hand
  <2> HIDE DEF h, S1, S4, S5
  <2>2. Chain(last, S1, {h}, Elems(packets'), S4, S5, arrived)
    BY <1>2, <2>1, TakenMove
  <2> QED
    BY <2>2, ChainShrinks
<1> HIDE DEF h
<1>5. StagesTyped' /\ StagesEmpty' /\ StagesInOrder'
  BY <1>1, <1>2, <1>3 DEF SInv, StagesTyped, StagesEmpty, StagesInOrder
<1>6. StagesChained'
  BY <1>1, <1>3, <1>4 DEF StagesChained, Hand
<1> QED
  BY <1>5, <1>6 DEF SInv

(* ... and sends the sound.                                                  *)
LEMMA DecodeStages == SInv /\ SendSamples => SInv'
<1> SUFFICES ASSUME SInv, SendSamples PROVE SInv'
  OBVIOUS
<1> DEFINE N == Numbers(samples)
<1>1. /\ decoding # 0 /\ decoding' = 0
      /\ UNCHANGED <<arrived, pending_audio, submitting, batch, packets, worker, last>>
  BY DEF SendSamples, peerVars
<1>2. decoding \in Packet /\ Hand = {decoding} /\ Hand' = {} /\ decoding' \in 0 .. MaxPackets
  BY <1>1 DEF SInv, StagesTyped, Hand, Packet
<1>3. /\ Chain(last, Elems(N) \cup {decoding}, {}, Elems(packets), Elems(batch),
               Elems(pending_audio), arrived)
      /\ Chain(last, Elems(N), {}, Elems(packets), Elems(batch), Elems(pending_audio), arrived)
      /\ SetBefore(Elems(N), {decoding})
  <2>1. Chain(last, Elems(N), {decoding}, Elems(packets), Elems(batch),
              Elems(pending_audio), arrived)
    BY <1>2 DEF SInv, StagesChained
  <2> HIDE DEF N
  <2> QED
    BY <2>1, DecodedMove, ChainShrinks
<1>4. N \in Seq(Packet) /\ Increasing(N)
  BY NumbersFacts DEF SInv, StagesTyped, StagesInOrder
<1>5. ASSUME NEW length \in 0 .. MaxFrame,
             samples' = Append(samples, [packet |-> decoding, length |-> length])
      PROVE  SInv'
  <2> DEFINE b == [packet |-> decoding, length |-> length]
  <2>1. b \in PCM /\ b.packet = decoding
    BY <1>2 DEF PCM
  <2>2. samples' \in Seq(PCM) /\ Numbers(samples') = Append(N, decoding)
    <3> HIDE DEF b
    <3>1. samples' = Append(samples, b)
      BY <1>5 DEF b
    <3> QED
      BY <2>1, <3>1, NumbersFacts, AppendProperties DEF SInv, StagesTyped
  <2>3. /\ Elems(Numbers(samples')) = Elems(N) \cup {decoding}
        /\ Increasing(Numbers(samples'))
    BY <1>2, <1>3, <1>4, <2>2, AppendFacts
  <2> HIDE DEF N, b
  <2>4. StagesTyped' /\ StagesEmpty' /\ StagesInOrder'
    BY <1>1, <1>2, <2>2, <2>3 DEF SInv, StagesTyped, StagesEmpty, StagesInOrder
  <2>5. StagesChained'
    BY <1>1, <1>2, <1>3, <2>3 DEF StagesChained
  <2> QED
    BY <2>4, <2>5 DEF SInv
<1> QED
  BY <1>5 DEF SendSamples

(* The thread ends, and its packets with it.                                 *)
LEMMA DeathStages == SInv /\ WorkerDies => SInv'
<1> SUFFICES ASSUME SInv, WorkerDies PROVE SInv'
  OBVIOUS
<1>1. /\ packets' = << >> /\ decoding' = 0
      /\ UNCHANGED <<arrived, pending_audio, submitting, batch, samples, last>>
  BY DEF WorkerDies, peerVars
<1>2. StagesTyped' /\ StagesEmpty' /\ StagesInOrder'
  BY <1>1, EmptyFacts DEF SInv, StagesTyped, StagesEmpty, StagesInOrder
<1>3. Chain(last, Elems(Numbers(samples)), {}, {}, Elems(batch), Elems(pending_audio), arrived)
  BY ChainShrinks DEF SInv, StagesChained
<1>4. StagesChained'
  BY <1>1, <1>3, EmptyFacts DEF StagesChained, Hand
<1> QED
  BY <1>2, <1>4 DEF SInv

(* So every step keeps the stages in order.                                  *)
LEMMA StepStages == SInv /\ [Next]_vars => SInv'
<1> SUFFICES ASSUME SInv, [Next]_vars PROVE SInv'
  OBVIOUS
<1>1. CASE Play \/ UNCHANGED vars
  BY <1>1 DEF Play, vars, peerVars, workerVars, queueVars, SInv, StagesTyped, StagesEmpty,
    StagesInOrder, StagesChained, Hand
<1> QED
  BY <1>1, ArriveStages, SubmitStages, SendStages, LeaveStages, DrainStages, TakeStages,
    DecodeStages, DeathStages DEF Next, SubmitPackets, Worker

(* Read from the device to the network, the stages are one ordered sequence. *)
LEMMA UpstreamOrdered ==
  ASSUME SInv
  PROVE  /\ Upstream \in Seq(Packet) /\ Increasing(Upstream)
         /\ \A x \in Elems(Upstream) : last < x /\ x <= arrived
<1> DEFINE A1 == Numbers(samples)
           A2 == A1 \o InHand
           A3 == A2 \o packets
           A4 == A3 \o batch
           A5 == A4 \o pending_audio
<1>1. /\ A1 \in Seq(Packet) /\ packets \in Seq(Packet) /\ batch \in Seq(Packet)
      /\ pending_audio \in Seq(Packet)
      /\ Increasing(A1) /\ Increasing(packets) /\ Increasing(batch) /\ Increasing(pending_audio)
  BY NumbersFacts DEF SInv, StagesTyped, StagesInOrder
<1>2. InHand \in Seq(Packet) /\ Elems(InHand) = Hand /\ Increasing(InHand)
  <2>1. CASE decoding = 0
    BY <2>1, EmptyFacts DEF InHand, Hand
  <2>2. CASE decoding # 0
    <3>1. decoding \in Packet /\ InHand = <<decoding>> /\ Hand = {decoding}
      BY <2>2 DEF SInv, StagesTyped, InHand, Hand, Packet
    <3> QED
      BY <3>1 DEF Elems, Increasing
  <2> QED
    BY <2>1, <2>2
<1>3. Chain(last, Elems(A1), Elems(InHand), Elems(packets), Elems(batch), Elems(pending_audio),
            arrived)
  BY <1>2 DEF SInv, StagesChained
<1> HIDE DEF A1
<1>4. A2 \in Seq(Packet) /\ Elems(A2) = Elems(A1) \cup Elems(InHand) /\ Increasing(A2)
  <2>1. SetBefore(Elems(A1), Elems(InHand))
    BY <1>3, Zenon DEF Chain, SetBefore
  <2> QED
    BY <1>1, <1>2, <2>1, ConcatFacts
<1> HIDE DEF A2
<1>5. A3 \in Seq(Packet) /\ Elems(A3) = Elems(A2) \cup Elems(packets) /\ Increasing(A3)
  <2>1. SetBefore(Elems(A2), Elems(packets))
    BY <1>3, <1>4, Zenon DEF Chain, SetBefore
  <2> QED
    BY <1>1, <1>4, <2>1, ConcatFacts
<1> HIDE DEF A3
<1>6. A4 \in Seq(Packet) /\ Elems(A4) = Elems(A3) \cup Elems(batch) /\ Increasing(A4)
  <2>1. SetBefore(Elems(A3), Elems(batch))
    BY <1>3, <1>4, <1>5, Zenon DEF Chain, SetBefore
  <2> QED
    BY <1>1, <1>5, <2>1, ConcatFacts
<1> HIDE DEF A4
<1>7. A5 \in Seq(Packet) /\ Elems(A5) = Elems(A4) \cup Elems(pending_audio) /\ Increasing(A5)
  <2>1. SetBefore(Elems(A4), Elems(pending_audio))
    BY <1>3, <1>4, <1>5, <1>6, Zenon DEF Chain, SetBefore
  <2> QED
    BY <1>1, <1>6, <2>1, ConcatFacts
<1>8. \A x \in Elems(A5) : last < x /\ x <= arrived
  <2> HIDE DEF A5
  <2> QED
    BY <1>3, <1>4, <1>5, <1>6, <1>7, Zenon DEF Chain, SetBefore
<1>9. Upstream = A5
  BY DEF Upstream, A1, A2, A3, A4
<1> QED
  BY <1>7, <1>8, <1>9

(* PlaysInOrder, for queues of any length, any number of packets and any     *)
(* number of decode threads.                                                 *)
THEOREM SoundInOrder == Spec => []PlaysInOrder
<1>1. SInv => PlaysInOrder
  <2> SUFFICES ASSUME SInv PROVE PlaysInOrder
    OBVIOUS
  <2>1. DOMAIN Upstream = 1 .. Len(Upstream)
    BY UpstreamOrdered, LenProperties
  <2> QED
    BY <2>1, UpstreamOrdered DEF PlaysInOrder, Increasing, Elems
<1> QED
  BY InitStages, StepStages, <1>1, PTL DEF Spec

-----------------------------------------------------------------------------
(* The bounds, the device, and the types                                     *)

(* What the stages and the SDL queue may hold.                               *)
Bounded ==
  /\ queued \in Nat
  /\ LatencyBounded

(* The queue of the peer thread is cut before a packet is added to it.       *)
LEMMA ArriveBounded == SInv /\ Bounded /\ Arrive => Bounded'
<1> SUFFICES ASSUME SInv, Bounded, Arrive PROVE Bounded'
  OBVIOUS
<1> DEFINE kept == IF Len(pending_audio) >= PeerCap THEN Tail(pending_audio) ELSE pending_audio
<1>1. /\ pending_audio' = Append(kept, arrived + 1) /\ arrived + 1 \in Packet
      /\ UNCHANGED <<batch, packets, samples, queued>>
  BY DEF Arrive, workerVars, queueVars, SInv, StagesTyped, Packet
<1>2. kept \in Seq(Packet) /\ Len(kept) + 1 <= PeerCap
  <2>1. pending_audio \in Seq(Packet) /\ Len(pending_audio) \in Nat /\ Len(pending_audio) <= PeerCap
    BY LenProperties DEF SInv, StagesTyped, Bounded, LatencyBounded
  <2>2. CASE Len(pending_audio) >= PeerCap
    <3>1. pending_audio # << >>
      BY <2>2, EmptySeq
    <3> QED
      BY <2>1, <2>2, <3>1, TailFacts
  <2>3. CASE ~ (Len(pending_audio) >= PeerCap)
    BY <2>1, <2>3
  <2> QED
    BY <2>2, <2>3
<1>3. Len(pending_audio') <= PeerCap
  BY <1>1, <1>2, AppendFacts
<1> QED
  BY <1>1, <1>3 DEF Bounded, LatencyBounded

(* So are the channels, by try_send and by a send that waits.                *)
LEMMA ChannelsBounded ==
  SInv /\ Bounded /\ (SendPacket \/ TakePacket \/ SendSamples \/ WorkerDies) => Bounded'
<1> SUFFICES ASSUME SInv, Bounded,
                    SendPacket \/ TakePacket \/ SendSamples \/ WorkerDies
             PROVE  Bounded'
  OBVIOUS
<1>1. /\ Len(packets) \in Nat /\ Len(packets) <= PacketCap
      /\ Len(samples) \in Nat /\ Len(samples) <= SampleCap
      /\ Len(batch) \in Nat /\ Len(batch) <= PeerCap
      /\ packets \in Seq(Packet) /\ batch \in Seq(Packet) /\ samples \in Seq(PCM)
  BY LenProperties DEF SInv, StagesTyped, Bounded, LatencyBounded
<1>2. UNCHANGED pending_audio /\ (queued' = queued \/ queued' = 0)
  BY DEF SendPacket, TakePacket, SendSamples, WorkerDies, RestartDecodeWorker,
    PausedAndEmpty, peerVars, queueVars
<1>3. Len(batch') <= PeerCap
  <2>1. batch' = batch \/ (batch # << >> /\ batch' = Tail(batch))
    BY DEF SendPacket, TakePacket, SendSamples, WorkerDies
  <2> QED
    BY <1>1, <2>1, TailFacts
<1>4. Len(packets') <= PacketCap
  <2>1. CASE SendPacket
    <3>1. Head(batch) \in Packet
      BY <1>1, <2>1, TailFacts DEF SendPacket
    <3>2. \/ packets' = packets \/ packets' = <<Head(batch)>>
          \/ packets' = Append(packets, Head(batch)) /\ Len(packets) < PacketCap
      BY <2>1 DEF SendPacket, RestartDecodeWorker
    <3>3. Len(<<Head(batch)>>) = 1 /\ 1 <= PacketCap
      OBVIOUS
    <3>4. CASE packets' = Append(packets, Head(batch)) /\ Len(packets) < PacketCap
      <4>1. Len(packets') = Len(packets) + 1
        BY <1>1, <3>1, <3>4, AppendFacts
      <4> QED
        BY <1>1, <3>4, <4>1
    <3> QED
      BY <1>1, <3>2, <3>3, <3>4
  <2>2. CASE TakePacket
    BY <1>1, <2>2, TailFacts DEF TakePacket
  <2>3. CASE SendSamples \/ WorkerDies
    <3>1. packets' = packets \/ packets' = << >>
      BY <2>3 DEF SendSamples, WorkerDies
    <3>2. Len(<< >>) = 0 /\ 0 <= PacketCap
      OBVIOUS
    <3> QED
      BY <1>1, <3>1, <3>2
  <2> QED
    BY <2>1, <2>2, <2>3
<1>5. Len(samples') <= SampleCap
  <2>1. CASE SendSamples
    <3>1. PICK length \in 0 .. MaxFrame :
            samples' = Append(samples, [packet |-> decoding, length |-> length])
      BY <2>1 DEF SendSamples
    <3>2. [packet |-> decoding, length |-> length] \in PCM
      <4>1. decoding # 0
        BY <2>1 DEF SendSamples
      <4>2. decoding \in Packet
        BY <4>1 DEF SInv, StagesTyped, Packet
      <4> QED
        BY <4>2 DEF PCM
    <3>3. Len(samples') = Len(samples) + 1
      BY <1>1, <3>1, <3>2, AppendProperties
    <3> QED
      BY <1>1, <2>1, <3>3 DEF SendSamples
  <2>2. CASE ~ SendSamples
    <3>1. samples' = samples \/ samples' = << >>
      BY <2>2 DEF SendPacket, TakePacket, WorkerDies, RestartDecodeWorker
    <3>2. Len(<< >>) = 0 /\ 0 <= SampleCap
      OBVIOUS
    <3> QED
      BY <1>1, <3>1, <3>2
  <2> QED
    BY <2>1, <2>2
<1>6. queued' \in Nat /\ (queued' <= MaxQueued \/ queued' <= MaxFrame)
  BY <1>2 DEF Bounded, LatencyBounded
<1> QED
  BY <1>2, <1>3, <1>4, <1>5, <1>6 DEF Bounded, LatencyBounded

(* One frame that does not fit behind the others empties the queue first.    *)
LEMMA EnqueueBounded ==
  ASSUME Bounded, NEW length \in 0 .. MaxFrame, Enqueue(length)
  PROVE  queued' \in Nat /\ (queued' <= MaxQueued \/ queued' <= MaxFrame)
<1>1. queued \in Nat /\ length \in Nat /\ length <= MaxFrame
      /\ (queued <= MaxQueued \/ queued <= MaxFrame)
  BY DEF Bounded, LatencyBounded
<1> DEFINE kept == IF queued + length > MaxQueued THEN 0 ELSE queued
<1>2. queued' = kept \/ queued' = kept + length
  BY DEF Enqueue
<1>3. CASE queued + length > MaxQueued
  BY <1>1, <1>2, <1>3
<1>4. CASE ~ (queued + length > MaxQueued)
  BY <1>1, <1>2, <1>4
<1> QED
  BY <1>3, <1>4

(* Every step keeps the queue within its limit.                              *)
LEMMA StepBounded == SInv /\ Bounded /\ [Next]_vars => Bounded'
<1> SUFFICES ASSUME SInv, Bounded, [Next]_vars PROVE Bounded'
  OBVIOUS
<1>1. CASE PeerReplaced \/ Submit
  <2>1. /\ UNCHANGED <<packets, samples, queued>> /\ pending_audio' = << >>
        /\ batch' \in {batch, pending_audio}
    BY <1>1 DEF PeerReplaced, Submit, workerVars, queueVars
  <2>2. Len(<< >>) = 0 /\ 0 <= PeerCap
    OBVIOUS
  <2> QED
    BY <2>1, <2>2 DEF Bounded, LatencyBounded
<1>2. CASE DrainSample
  <2>1. /\ UNCHANGED <<packets, pending_audio, batch>>
        /\ samples # << >> /\ samples' = Tail(samples) /\ Enqueue(Head(samples).length)
    BY <1>2 DEF DrainSample, peerVars
  <2>2. samples \in Seq(PCM) /\ Head(samples) \in PCM /\ Len(Tail(samples)) = Len(samples) - 1
        /\ Len(samples) \in Nat
    BY <2>1, HeadTailProperties, LenProperties DEF SInv, StagesTyped
  <2>3. Head(samples).length \in 0 .. MaxFrame
    BY <2>2 DEF PCM
  <2>4. queued' \in Nat /\ (queued' <= MaxQueued \/ queued' <= MaxFrame)
    BY <2>1, <2>3, EnqueueBounded
  <2> QED
    BY <2>1, <2>2, <2>4 DEF Bounded, LatencyBounded
<1>3. CASE PacketsSent \/ Drained
  <2>1. /\ UNCHANGED <<pending_audio, batch>>
        /\ packets' = packets \/ packets' = << >>
        /\ samples' = samples \/ samples' = << >>
        /\ queued' = queued \/ queued' = 0
    BY <1>3 DEF PacketsSent, Drained, RestartDecodeWorker, PausedAndEmpty, peerVars, workerVars,
      queueVars
  <2>2. Len(<< >>) = 0 /\ 0 <= PacketCap /\ 0 <= SampleCap /\ 0 <= MaxQueued /\ 0 \in Nat
    OBVIOUS
  <2> QED
    BY <2>1, <2>2 DEF Bounded, LatencyBounded
<1>4. CASE Play
  <2>1. /\ UNCHANGED <<pending_audio, batch, packets, samples>>
        /\ queued > 0 /\ queued' = queued - 1
    BY <1>4 DEF Play, peerVars, workerVars
  <2> QED
    BY <2>1 DEF Bounded, LatencyBounded
<1>5. CASE UNCHANGED vars
  BY <1>5 DEF vars, peerVars, workerVars, queueVars, Bounded, LatencyBounded
<1> QED
  BY <1>1, <1>2, <1>3, <1>4, <1>5, ArriveBounded, ChannelsBounded DEF Next, SubmitPackets, Worker

(* The device plays exactly when App takes it for started, and does so with  *)
(* enough sound in the queue.                                                *)
Playing ==
  /\ playing \in BOOLEAN /\ started \in BOOLEAN
  /\ playing <=> started
  /\ queued >= StartAt => started

(* Enqueueing starts the device again, or leaves less than it needs to start.*)
LEMMA EnqueuePlaying ==
  ASSUME Playing, NEW length, Enqueue(length)
  PROVE  Playing'
<1> DEFINE over == queued + length > MaxQueued
           kept == IF over THEN 0 ELSE queued
<1>1. PICK size \in {kept, kept + length} :
        /\ queued' = size
        /\ started' = ((started /\ ~ over) \/ size >= StartAt)
        /\ playing' = ((playing /\ ~ over) \/ (~ (started /\ ~ over) /\ size >= StartAt))
  BY Zenon DEF Enqueue
<1> HIDE DEF over, kept
<1> QED
  BY <1>1, Zenon DEF Playing

(* A queue that the device has emptied is paused, and so is one that was     *)
(* cleared; both are started again by StartAt.                               *)
LEMMA StepPlaying == SInv /\ Bounded /\ Playing /\ [Next]_vars => Playing'
<1> SUFFICES ASSUME SInv, Bounded, Playing, [Next]_vars PROVE Playing'
  OBVIOUS
<1>1. ~ (0 >= StartAt) /\ queued \in Nat
  BY DEF Bounded
<1>2. CASE Submit
  <2>1. /\ queued' = queued
        /\ playing' = (playing /\ ~ (started /\ queued = 0))
        /\ started' = (started /\ queued # 0)
    BY <1>2, Zenon DEF Submit
  <2> QED
    BY <1>1, <2>1, Zenon DEF Playing
<1>3. CASE DrainSample
  BY <1>3, EnqueuePlaying, Zenon DEF DrainSample
<1>4. CASE Play
  <2>1. queued' >= StartAt => queued >= StartAt
    <3>1. queued' = queued - 1
      BY <1>4, Zenon DEF Play
    <3> QED
      BY <1>1, <3>1, SMT
  <2>2. playing' = playing /\ started' = started
    BY <1>4, Zenon DEF Play
  <2> QED
    BY <2>1, <2>2, Zenon DEF Playing
<1>5. CASE PausedAndEmpty
  BY <1>1, <1>5, Zenon DEF PausedAndEmpty, Playing
<1>6. CASE UNCHANGED <<queued, playing, started>>
  BY <1>6, Zenon DEF Playing
<1>7. CASE Arrive \/ PeerReplaced \/ PacketsSent \/ Worker \/ WorkerDies \/ UNCHANGED vars
  <2>1. UNCHANGED queueVars
    BY <1>7, Zenon DEF Arrive, PeerReplaced, PacketsSent, Worker, TakePacket, SendSamples,
      WorkerDies, vars
  <2> QED
    BY <1>6, <2>1, Zenon DEF queueVars
<1>8. CASE SendPacket \/ Drained
  BY <1>5, <1>6, <1>8, Zenon DEF SendPacket, Drained, RestartDecodeWorker, queueVars
<1> QED
  BY <1>2, <1>3, <1>4, <1>7, <1>8, Zenon DEF Next, SubmitPackets

(* The invariants above, together.                                           *)
LEMMA AudioInvariant == Spec => [](SInv /\ Bounded /\ Playing)
<1>1. Init => Bounded
  <2>1. Len(<< >>) = 0
    OBVIOUS
  <2> QED
    BY <2>1 DEF Init, Bounded, LatencyBounded
<1>2. Init => Playing
  <2>1. ~ (0 >= StartAt)
    OBVIOUS
  <2> QED
    BY <2>1, Zenon DEF Init, Playing
<1> QED
  BY InitStages, StepStages, StepBounded, StepPlaying, <1>1, <1>2, PTL DEF Spec

(* LatencyBounded, whatever the capacities: no stage outgrows its own.       *)
THEOREM SoundNotLate == Spec => []LatencyBounded
<1>1. Bounded => LatencyBounded
  BY DEF Bounded
<1> QED
  BY AudioInvariant, <1>1, PTL

(* BufferedIsPlaying, for any size of the queue and of the start buffer.     *)
THEOREM DeviceNotForgotten == Spec => []BufferedIsPlaying
<1>1. Playing => BufferedIsPlaying
  BY Zenon DEF Playing, BufferedIsPlaying
<1> QED
  BY AudioInvariant, <1>1, PTL

(* What is left of the types.                                                *)
RestTyped ==
  /\ submitting \in {"away", "packets", "samples"}
  /\ worker \in {"running", "ended"}
  /\ deaths \in 0 .. MaxDeaths

(* Every step keeps the types of the rest.                                   *)
LEMMA StepRestTyped == RestTyped /\ [Next]_vars => RestTyped'
<1> SUFFICES ASSUME RestTyped, [Next]_vars PROVE RestTyped'
  OBVIOUS
<1>1. /\ submitting' \in {submitting, "away", "packets", "samples"}
      /\ worker' \in {worker, "running", "ended"}
      /\ deaths' = deaths \/ (deaths < MaxDeaths /\ deaths' = deaths + 1)
  BY DEF Next, SubmitPackets, Worker, Arrive, PeerReplaced, Submit, SendPacket, PacketsSent, DrainSample,
    Drained, RestartDecodeWorker, TakePacket, SendSamples, WorkerDies, Play, vars,
    peerVars, workerVars
<1> QED
  BY <1>1 DEF RestTyped

(* TypeOK, for any capacities.                                               *)
THEOREM AudioTypeCorrect == Spec => []TypeOK
<1>1. Init => RestTyped
  BY DEF Init, RestTyped
<1>2. SInv /\ Bounded /\ Playing /\ RestTyped => TypeOK
  BY Zenon DEF SInv, StagesTyped, Bounded, Playing, RestTyped, TypeOK
<1> QED
  BY AudioInvariant, StepRestTyped, <1>1, <1>2, PTL DEF Spec
=============================================================================
