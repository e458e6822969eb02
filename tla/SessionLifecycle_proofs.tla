------------------------ MODULE SessionLifecycle_proofs ------------------------
(***************************************************************************)
(* Proofs about CloudMatch.tla and SessionLifecycle.tla, for any launches, *)
(* sessions, limits and retry bounds.                                      *)
(*                                                                         *)
(* Of the client: its types, that two launches never own the same session, *)
(* and that the eviction frees the seats it was told of.  Neither property *)
(* is inductive.  Ownership needs to know where an identifier can be       *)
(* before a task has read it (an unread reply), and that a launch that may *)
(* still read a reply owns nothing yet; the eviction needs to know how far *)
(* the deletions have come.                                                *)
(*                                                                         *)
(* Of the screens: App's steps are steps of that client, which is the      *)
(* refinement proved here, so App cannot break it, and its invariant is    *)
(* reused as it is.  What is added relates App's history to the launches:  *)
(* every session App took over was read by some launch, and the one it     *)
(* carries is the newest, not stopped, and reported ready.                 *)
(***************************************************************************)
EXTENDS SessionLifecycle, TLAPS

-----------------------------------------------------------------------------
(* The client                                                                *)

(* What an unread success reply names: one issued session nobody owns.       *)
ReplyNamesFresh ==
  \A l \in Launches : reply[l].kind = "created" =>
    \E s \in issued :
      /\ reply[l].ids = {s}
      /\ \A k \in Launches : got[k] # s
      /\ \A k \in Launches \ {l} : reply[k].kind = "created" => reply[k].ids # {s}

(* Owners are distinct, own issued sessions, and own from poll_session on.   *)
OwnersDistinct ==
  /\ \A l \in Launches : got[l] \in issued \cup {NoSession}
  /\ \A k, l \in Launches : k # l /\ got[k] = got[l] => got[k] = NoSession
  /\ \A l \in Launches :
       /\ phase[l] \in {"idle", "sending", "evicting", "resting"} => got[l] = NoSession
       /\ phase[l] \in {"polling", "ready"} => got[l] \in Sessions

(* The limit answer is worked off: what is no longer in old has lost its     *)
(* seat or its DELETE.                                                       *)
EvictionProgress ==
  \A l \in Launches :
    /\ reply[l].kind = "limit" => reply[l].ids \subseteq issued
    /\ listed[l] \subseteq issued
    /\ phase[l] = "idle" => ~ resend[l]
    /\ phase[l] = "evicting" => (listed[l] \ old[l]) \cap live \subseteq lost
    /\ phase[l] = "resting" \/ (phase[l] = "sending" /\ resend[l])
         => listed[l] \cap live \subseteq lost

SeatsIssued == live \subseteq issued

(* A task that is still sending or polling has an attempt left.              *)
AttemptLeft ==
  \A l \in Launches :
    /\ phase[l] # "failed" => sends[l] < MaxSends
    /\ phase[l] \in {"idle", "sending", "evicting", "resting", "polling"} => polls[l] < MaxPolls

CMIInv ==
  /\ CMTypeOK
  /\ ReplyNamesFresh
  /\ OwnersDistinct
  /\ EvictionProgress
  /\ SeatsIssued
  /\ AttemptLeft

-----------------------------------------------------------------------------
(* The initial states satisfy it.                                            *)
LEMMA CMInitInv == CMInit => CMIInv
BY SessionsAssumption, BoundsAssumption
   DEF CMInit, CMIInv, CMTypeOK, ReplyNamesFresh, OwnersDistinct, EvictionProgress,
       SeatsIssued, AttemptLeft, Phases, Replies, NoReply

(* Each action keeps the types.  The stop of got[l] is where the types alone *)
(* do not suffice: a launch reported ready owns a session.                   *)
LEMMA CMTypeStep ==
  ASSUME CMTypeOK, OwnersDistinct, AttemptLeft, CMNext
  PROVE  CMTypeOK'
<1>1. ASSUME NEW l \in Launches, Launch(l) PROVE CMTypeOK'
  BY <1>1 DEF Launch, CMTypeOK, Phases, serverVars
<1>2. ASSUME NEW l \in Launches, SendStep(l) PROVE CMTypeOK'
  <2>1. CASE ServerCreates(l)
    BY <2>1 DEF ServerCreates, CMTypeOK, Replies
  <2>2. CASE ServerRefuses(l) \/ ServerForbids(l)
    <3>1. UNCHANGED <<serverVars, phase, sends, resend, old, listed, got, polls, stops>>
      BY <2>2 DEF ServerRefuses, ServerForbids
    <3>2. PICK ids \in SUBSET Sessions : reply' = [reply EXCEPT ![l] = [kind |-> "limit", ids |-> ids]]
      BY <2>2 DEF ServerRefuses, ServerForbids, CMTypeOK
    <3> QED
      BY <3>1, <3>2 DEF CMTypeOK, Replies, serverVars
  <2>3. CASE ServerRejects(l)
    BY <2>3 DEF ServerRejects, CMTypeOK, Replies, serverVars
  <2>4. CASE SendFails(l)
    <3>1. sends[l] + 1 \in 0 .. MaxSends
      BY <2>4, BoundsAssumption DEF SendFails, CMTypeOK, AttemptLeft
    <3> QED
      BY <2>4, <3>1 DEF SendFails, CMTypeOK, Phases, Replies, NoReply, serverVars
  <2> QED
    BY <1>2, <2>1, <2>2, <2>3, <2>4 DEF SendStep
<1>3. ASSUME NEW l \in Launches, ReadStep(l) PROVE CMTypeOK'
  <2>1. CASE ReadCreated(l)
    BY <2>1 DEF ReadCreated, CMTypeOK, Phases, Replies, NoReply, serverVars
  <2>2. CASE ReadUnusable(l)
    BY <2>2 DEF ReadUnusable, CMTypeOK, Phases, Replies, NoReply, serverVars
  <2>3. CASE ReadLimit(l)
    BY <2>3 DEF ReadLimit, CMTypeOK, Phases, Replies, NoReply, serverVars
  <2> QED
    BY <1>3, <2>1, <2>2, <2>3 DEF ReadStep
<1>4. ASSUME NEW l \in Launches, EvictStep(l) PROVE CMTypeOK'
  <2>1. ASSUME NEW s \in Sessions, Evict(l, s) PROVE CMTypeOK'
    BY <2>1 DEF Evict, CMTypeOK
  <2>2. CASE EvictionDone(l)
    BY <2>2 DEF EvictionDone, CMTypeOK, Phases, serverVars
  <2>3. CASE SendAgain(l)
    BY <2>3, BoundsAssumption DEF SendAgain, CMTypeOK, Phases, serverVars
  <2> QED
    BY <1>4, <2>1, <2>2, <2>3 DEF EvictStep
<1>5. ASSUME NEW l \in Launches, PollStep(l) PROVE CMTypeOK'
  <2>1. CASE PollAgain(l)
    <3>1. polls[l] + 1 \in 0 .. MaxPolls
      BY <2>1, BoundsAssumption DEF PollAgain, CMTypeOK, AttemptLeft
    <3> QED
      BY <2>1, <3>1 DEF PollAgain, CMTypeOK, Phases, serverVars
  <2>2. CASE PollReady(l)
    BY <2>2 DEF PollReady, CMTypeOK, Phases, serverVars
  <2>3. CASE PollFails(l)
    BY <2>3 DEF PollFails, CMTypeOK, Phases, serverVars
  <2> QED
    BY <1>5, <2>1, <2>2, <2>3 DEF PollStep
<1>6. ASSUME NEW s \in Sessions, SpawnStop(s) PROVE CMTypeOK'
  BY <1>6 DEF SpawnStop, CMTypeOK, serverVars, launchVars
<1>7. ASSUME NEW s \in Sessions, StopStep(s) \/ ServerReclaims(s) PROVE CMTypeOK'
  <2>1. CASE StopArrives(s)
    BY <2>1 DEF StopArrives, CMTypeOK, launchVars
  <2>2. CASE StopLost(s)
    BY <2>2 DEF StopLost, CMTypeOK, launchVars
  <2>3. CASE ServerReclaims(s)
    BY <2>3 DEF ServerReclaims, CMTypeOK, launchVars
  <2> QED
    BY <1>7, <2>1, <2>2, <2>3 DEF StopStep
<1>8. ASSUME NEW l \in Launches, phase[l] = "ready", SpawnStop(got[l]) PROVE CMTypeOK'
  <2>1. got[l] \in Sessions
    BY <1>8 DEF OwnersDistinct
  <2> QED
    BY <1>6, <1>8, <2>1
<1> QED
  BY <1>1, <1>2, <1>3, <1>4, <1>5, <1>7, <1>8 DEF CMNext, Background, TaskStep

(* A launch that is sending or polling has an attempt left, so the next one  *)
(* stays within the bounds.                                                  *)
LEMMA AttemptStep ==
  ASSUME CMIInv, CMNext
  PROVE  AttemptLeft'
<1> USE BoundsAssumption DEF CMIInv, CMTypeOK, AttemptLeft
<1>1. ASSUME NEW l \in Launches, Launch(l) PROVE AttemptLeft'
  BY <1>1 DEF Launch
<1>2. ASSUME NEW l \in Launches, SendStep(l) PROVE AttemptLeft'
  <2>1. CASE ServerCreates(l)
    BY <2>1 DEF ServerCreates
  <2>2. CASE ServerRefuses(l) \/ ServerForbids(l) \/ ServerRejects(l)
    BY <2>2 DEF ServerRefuses, ServerForbids, ServerRejects
  <2>3. CASE SendFails(l)
    BY <2>3 DEF SendFails
  <2> QED
    BY <1>2, <2>1, <2>2, <2>3 DEF SendStep
<1>3. ASSUME NEW l \in Launches, ReadStep(l) PROVE AttemptLeft'
  BY <1>3 DEF ReadStep, ReadCreated, ReadUnusable, ReadLimit
<1>4. ASSUME NEW l \in Launches, EvictStep(l) PROVE AttemptLeft'
  <2>1. ASSUME NEW s \in Sessions, Evict(l, s) PROVE AttemptLeft'
    BY <2>1 DEF Evict
  <2>2. CASE EvictionDone(l)
    BY <2>2 DEF EvictionDone
  <2>3. CASE SendAgain(l)
    BY <2>3 DEF SendAgain
  <2> QED
    BY <1>4, <2>1, <2>2, <2>3 DEF EvictStep
<1>5. ASSUME NEW l \in Launches, PollStep(l) PROVE AttemptLeft'
  BY <1>5 DEF PollStep, PollAgain, PollReady, PollFails
<1>6. CASE UNCHANGED launchVars
  BY <1>6 DEF launchVars
<1> QED
  BY <1>1, <1>2, <1>3, <1>4, <1>5, <1>6
     DEF CMNext, Background, TaskStep, SpawnStop, StopStep, StopArrives, StopLost, ServerReclaims

(* Who may own what.  Only ServerCreates hands out an identifier, and it is  *)
(* a new one; only ReadCreated moves one from a reply to its owner.          *)
LEMMA OwnerStep ==
  ASSUME CMIInv, CMNext
  PROVE  ReplyNamesFresh' /\ OwnersDistinct' /\ SeatsIssued'
<1> DEFINE Goal == ReplyNamesFresh /\ OwnersDistinct /\ SeatsIssued
<1> USE SessionsAssumption DEF CMIInv
<1>a. \A l \in Launches : got[l] # NoSession => got[l] \in issued
  BY DEF OwnersDistinct
<1>1. ASSUME NEW l \in Launches, Launch(l) PROVE Goal'
  <2>1. /\ UNCHANGED <<live, issued, got, reply>>
        /\ phase[l] = "idle" /\ phase'[l] = "sending"
        /\ \A k \in Launches \ {l} : phase'[k] = phase[k]
    BY <1>1 DEF Launch, serverVars, CMTypeOK
  <2> QED
    BY <2>1 DEF ReplyNamesFresh, OwnersDistinct, SeatsIssued
<1>2. ASSUME NEW l \in Launches, ServerCreates(l) PROVE Goal'
  <2>1. PICK s \in Sessions \ issued :
          /\ live' = live \cup {s}
          /\ issued' = issued \cup {s}
          /\ reply' = [reply EXCEPT ![l] = [kind |-> "created", ids |-> {s}]]
    BY <1>2 DEF ServerCreates
  <2>2. /\ reply'[l] = [kind |-> "created", ids |-> {s}]
        /\ \A k \in Launches \ {l} : reply'[k] = reply[k]
    BY <2>1 DEF CMTypeOK
  <2>3. UNCHANGED <<phase, got>>
    BY <1>2 DEF ServerCreates
  <2>4. \A k \in Launches : got[k] # s
    BY <2>1 DEF OwnersDistinct
  <2>5. ReplyNamesFresh'
    <3> SUFFICES ASSUME NEW k \in Launches, reply'[k].kind = "created"
        PROVE  \E r \in issued' :
                 /\ reply'[k].ids = {r}
                 /\ \A j \in Launches : got[j] # r
                 /\ \A j \in Launches \ {k} : reply'[j].kind = "created" => reply'[j].ids # {r}
      BY <2>3 DEF ReplyNamesFresh
    <3>0. \A j \in Launches \ {l} : reply[j].kind = "created" => reply[j].ids # {s}
      BY <2>1 DEF ReplyNamesFresh
    <3>1. CASE k = l
      BY <3>1, <3>0, <2>1, <2>2, <2>4
    <3>2. CASE k # l
      <4>1. PICK r \in issued :
              /\ reply[k].ids = {r}
              /\ \A j \in Launches : got[j] # r
              /\ \A j \in Launches \ {k} : reply[j].kind = "created" => reply[j].ids # {r}
        BY <3>2, <2>2 DEF ReplyNamesFresh
      <4>2. r # s
        BY <2>1
      <4> QED
        BY <3>2, <4>1, <4>2, <2>1, <2>2
    <3> QED
      BY <3>1, <3>2
  <2>6. OwnersDistinct'
    BY <2>1, <2>3 DEF OwnersDistinct
  <2>7. SeatsIssued'
    BY <2>1 DEF SeatsIssued
  <2> QED
    BY <2>5, <2>6, <2>7
<1>3. ASSUME NEW l \in Launches,
             ServerRefuses(l) \/ ServerForbids(l) \/ ServerRejects(l) \/ SendFails(l)
      PROVE  Goal'
  <2>1. /\ UNCHANGED <<live, issued, got>>
        /\ reply'[l].kind # "created"
        /\ \A k \in Launches \ {l} : reply'[k] = reply[k]
    BY <1>3 DEF ServerRefuses, ServerForbids, ServerRejects, SendFails, NoReply, serverVars, CMTypeOK
  <2>2. \A k \in Launches : phase'[k] = phase[k] \/ (k = l /\ phase'[k] = "failed")
    BY <1>3 DEF ServerRefuses, ServerForbids, ServerRejects, SendFails, CMTypeOK
  <2>3. ReplyNamesFresh'
    BY <2>1 DEF ReplyNamesFresh
  <2>4. OwnersDistinct'
    BY <2>1, <2>2 DEF OwnersDistinct
  <2> QED
    BY <2>1, <2>3, <2>4 DEF SeatsIssued
<1>4. ASSUME NEW l \in Launches, ReadCreated(l) PROVE Goal'
  <2>1. PICK s \in issued :
          /\ reply[l].ids = {s}
          /\ \A k \in Launches : got[k] # s
          /\ \A k \in Launches \ {l} : reply[k].kind = "created" => reply[k].ids # {s}
    BY <1>4 DEF ReadCreated, ReplyNamesFresh
  <2>2. /\ UNCHANGED <<live, issued>>
        /\ got'[l] = s
        /\ \A k \in Launches \ {l} : got'[k] = got[k] /\ reply'[k] = reply[k] /\ phase'[k] = phase[k]
        /\ reply'[l].kind # "created"
        /\ phase'[l] = "polling"
    BY <1>4, <2>1 DEF ReadCreated, NoReply, serverVars, CMTypeOK
  <2>3. ReplyNamesFresh'
    <3> SUFFICES ASSUME NEW k \in Launches \ {l}, reply[k].kind = "created"
        PROVE  \E r \in issued :
                 /\ reply[k].ids = {r}
                 /\ \A j \in Launches : got'[j] # r
                 /\ \A j \in Launches \ {k} : reply'[j].kind = "created" => reply'[j].ids # {r}
      BY <2>2 DEF ReplyNamesFresh
    <3>1. PICK r \in issued :
            /\ reply[k].ids = {r}
            /\ \A j \in Launches : got[j] # r
            /\ \A j \in Launches \ {k} : reply[j].kind = "created" => reply[j].ids # {r}
      BY DEF ReplyNamesFresh
    <3>2. r # s
      BY <2>1, <3>1
    <3> QED
      BY <2>2, <3>1, <3>2
  <2>4. OwnersDistinct'
    BY <2>1, <2>2 DEF OwnersDistinct, CMTypeOK
  <2> QED
    BY <2>2, <2>3, <2>4 DEF SeatsIssued
<1>5. ASSUME NEW l \in Launches, ReadUnusable(l) \/ ReadLimit(l) PROVE Goal'
  <2>1. /\ UNCHANGED <<live, issued, got>>
        /\ reply'[l].kind # "created"
        /\ \A k \in Launches \ {l} : reply'[k] = reply[k] /\ phase'[k] = phase[k]
        /\ phase[l] = "sending" /\ phase'[l] \in {"failed", "evicting"}
    BY <1>5 DEF ReadUnusable, ReadLimit, NoReply, serverVars, CMTypeOK
  <2>2. ReplyNamesFresh'
    BY <2>1 DEF ReplyNamesFresh
  <2>3. OwnersDistinct'
    BY <2>1 DEF OwnersDistinct
  <2> QED
    BY <2>1, <2>2, <2>3 DEF SeatsIssued
<1>6. ASSUME NEW l \in Launches, EvictStep(l) PROVE Goal'
  <2>1. UNCHANGED <<issued, got, reply>> /\ live' \subseteq live
    BY <1>6 DEF EvictStep, Evict, EvictionDone, SendAgain, serverVars
  <2>2. \A k \in Launches : got[k] = NoSession \/ phase'[k] = phase[k]
    BY <1>6 DEF EvictStep, Evict, EvictionDone, SendAgain, OwnersDistinct, CMTypeOK
  <2>3. phase'[l] \in {"evicting", "resting", "sending", "failed"} /\ \A k \in Launches \ {l} : phase'[k] = phase[k]
    BY <1>6 DEF EvictStep, Evict, EvictionDone, SendAgain, CMTypeOK
  <2> QED
    BY <2>1, <2>2, <2>3 DEF ReplyNamesFresh, OwnersDistinct, SeatsIssued
<1>7. ASSUME NEW l \in Launches, PollStep(l) PROVE Goal'
  <2>1. UNCHANGED <<live, issued, got, reply>>
    BY <1>7 DEF PollStep, PollAgain, PollReady, PollFails, serverVars
  <2>2. phase[l] = "polling" /\ phase'[l] \in {"polling", "ready", "failed"}
        /\ \A k \in Launches \ {l} : phase'[k] = phase[k]
    BY <1>7 DEF PollStep, PollAgain, PollReady, PollFails, CMTypeOK
  <2> QED
    BY <2>1, <2>2 DEF ReplyNamesFresh, OwnersDistinct, SeatsIssued
<1>8. CASE UNCHANGED launchVars /\ issued' = issued /\ live' \subseteq live
  BY <1>8 DEF launchVars, ReplyNamesFresh, OwnersDistinct, SeatsIssued
<1>9. ASSUME NEW s \in Sessions, StopStep(s) \/ ServerReclaims(s) \/ SpawnStop(s)
      PROVE  UNCHANGED launchVars /\ issued' = issued /\ live' \subseteq live
  BY <1>9 DEF StopStep, StopArrives, StopLost, ServerReclaims, SpawnStop, serverVars
<1>10. ASSUME NEW l \in Launches, phase[l] = "ready", SpawnStop(got[l])
       PROVE  UNCHANGED launchVars /\ issued' = issued /\ live' \subseteq live
  BY <1>10 DEF SpawnStop, serverVars
<1> QED
  BY <1>1, <1>2, <1>3, <1>4, <1>5, <1>6, <1>7, <1>8, <1>9, <1>10
     DEF CMNext, Background, TaskStep, SendStep, ReadStep

(* The eviction: seats once issued are never issued again, so a deletion     *)
(* that is done stays done.                                                  *)
LEMMA EvictionStep ==
  ASSUME CMIInv, CMNext
  PROVE  EvictionProgress'
<1> USE DEF CMIInv
<1>1. ASSUME NEW l \in Launches, Launch(l) PROVE EvictionProgress'
  <2>1. /\ UNCHANGED <<live, issued, lost, resend, reply, old, listed>>
        /\ phase'[l] = "sending" /\ phase[l] = "idle"
        /\ \A k \in Launches \ {l} : phase'[k] = phase[k]
    BY <1>1 DEF Launch, serverVars, CMTypeOK
  <2> QED
    BY <2>1 DEF EvictionProgress
<1>2. ASSUME NEW l \in Launches, ServerCreates(l) PROVE EvictionProgress'
  <2>1. PICK s \in Sessions \ issued :
          /\ live' = live \cup {s}
          /\ issued' = issued \cup {s}
          /\ reply' = [reply EXCEPT ![l] = [kind |-> "created", ids |-> {s}]]
    BY <1>2 DEF ServerCreates
  <2>2. UNCHANGED <<lost, phase, resend, old, listed>>
    BY <1>2 DEF ServerCreates
  <2>3. /\ reply'[l].kind # "limit"
        /\ \A k \in Launches \ {l} : reply'[k] = reply[k]
    BY <2>1 DEF CMTypeOK
  <2>4. \A k \in Launches : listed[k] \cap live' = listed[k] \cap live
    BY <2>1 DEF EvictionProgress
  <2>5. \A k \in Launches : (listed[k] \ old[k]) \cap live' = (listed[k] \ old[k]) \cap live
    BY <2>4
  <2> QED
    BY <2>1, <2>2, <2>3, <2>4, <2>5 DEF EvictionProgress
<1>3. ASSUME NEW l \in Launches, ServerRefuses(l) \/ ServerForbids(l) PROVE EvictionProgress'
  <2>1. /\ UNCHANGED <<live, issued, lost, phase, resend, old, listed>>
        /\ reply'[l].ids \subseteq live
        /\ \A k \in Launches \ {l} : reply'[k] = reply[k]
    BY <1>3 DEF ServerRefuses, ServerForbids, serverVars, CMTypeOK
  <2> QED
    BY <2>1 DEF EvictionProgress, SeatsIssued
<1>4. ASSUME NEW l \in Launches, ServerRejects(l) \/ SendFails(l) PROVE EvictionProgress'
  <2>1. /\ UNCHANGED <<live, issued, lost, resend, old, listed>>
        /\ reply'[l].kind # "limit"
        /\ phase'[l] \in {"sending", "failed"} /\ phase[l] = "sending"
        /\ \A k \in Launches \ {l} : reply'[k] = reply[k] /\ phase'[k] = phase[k]
    BY <1>4 DEF ServerRejects, SendFails, NoReply, serverVars, CMTypeOK
  <2> QED
    BY <2>1 DEF EvictionProgress
<1>5. ASSUME NEW l \in Launches, ReadCreated(l) \/ ReadUnusable(l) PROVE EvictionProgress'
  <2>1. /\ UNCHANGED <<live, issued, lost, resend, old, listed>>
        /\ reply'[l].kind # "limit"
        /\ phase'[l] \in {"polling", "failed"}
        /\ \A k \in Launches \ {l} : reply'[k] = reply[k] /\ phase'[k] = phase[k]
    BY <1>5 DEF ReadCreated, ReadUnusable, NoReply, serverVars, CMTypeOK
  <2> QED
    BY <2>1 DEF EvictionProgress
<1>6. ASSUME NEW l \in Launches, ReadLimit(l) PROVE EvictionProgress'
  <2>1. /\ UNCHANGED <<live, issued, lost, resend>>
        /\ reply'[l].kind # "limit"
        /\ phase'[l] = "evicting"
        /\ old'[l] = reply[l].ids /\ listed'[l] = reply[l].ids
        /\ \A k \in Launches \ {l} :
             /\ reply'[k] = reply[k] /\ phase'[k] = phase[k]
             /\ old'[k] = old[k] /\ listed'[k] = listed[k]
        /\ reply[l].kind = "limit"
    BY <1>6 DEF ReadLimit, NoReply, serverVars, CMTypeOK
  <2> QED
    BY <2>1 DEF EvictionProgress
<1>7. ASSUME NEW l \in Launches, NEW s \in Sessions, Evict(l, s) PROVE EvictionProgress'
  <2>1. /\ UNCHANGED <<issued, phase, resend, reply, listed>>
        /\ old'[l] = old[l] \ {s}
        /\ \A k \in Launches \ {l} : old'[k] = old[k]
        /\ phase[l] = "evicting"
        /\ \/ live' = live \ {s} /\ lost' = lost
           \/ live' = live /\ lost' = lost \cup {s}
    BY <1>7 DEF Evict, CMTypeOK
  <2> QED
    BY <2>1 DEF EvictionProgress
<1>8. ASSUME NEW l \in Launches, EvictionDone(l) PROVE EvictionProgress'
  <2>1. /\ UNCHANGED <<live, issued, lost, resend, reply, old, listed>>
        /\ phase[l] = "evicting" /\ old[l] = {}
        /\ phase'[l] \in {"failed", "resting"}
        /\ \A k \in Launches \ {l} : phase'[k] = phase[k]
    BY <1>8 DEF EvictionDone, serverVars, CMTypeOK
  <2>2. listed[l] \ old[l] = listed[l]
    BY <2>1
  <2> QED
    BY <2>1, <2>2 DEF EvictionProgress
<1>9. ASSUME NEW l \in Launches, SendAgain(l) PROVE EvictionProgress'
  <2>1. /\ UNCHANGED <<live, issued, lost, reply, old, listed>>
        /\ phase[l] = "resting" /\ phase'[l] = "sending"
        /\ \A k \in Launches \ {l} : phase'[k] = phase[k] /\ resend'[k] = resend[k]
    BY <1>9 DEF SendAgain, serverVars, CMTypeOK
  <2> QED
    BY <2>1 DEF EvictionProgress
<1>10. ASSUME NEW l \in Launches, PollStep(l) PROVE EvictionProgress'
  <2>1. /\ UNCHANGED <<live, issued, lost, resend, reply, old, listed>>
        /\ phase'[l] \in {"polling", "ready", "failed"}
        /\ \A k \in Launches \ {l} : phase'[k] = phase[k]
    BY <1>10 DEF PollStep, PollAgain, PollReady, PollFails, serverVars, CMTypeOK
  <2> QED
    BY <2>1 DEF EvictionProgress
<1>11. CASE UNCHANGED launchVars /\ issued' = issued /\ live' \subseteq live /\ lost \subseteq lost'
  <2>1. \A X \in SUBSET Sessions : X \cap live \subseteq lost => X \cap live' \subseteq lost'
    BY <1>11
  <2>2. \A l \in Launches : listed[l] \in SUBSET Sessions /\ listed[l] \ old[l] \in SUBSET Sessions
    BY DEF CMTypeOK
  <2> QED
    BY <1>11, <2>1, <2>2 DEF launchVars, EvictionProgress
<1>12. ASSUME NEW s \in Sessions, StopStep(s) \/ ServerReclaims(s)
       PROVE  UNCHANGED launchVars /\ issued' = issued /\ live' \subseteq live /\ lost \subseteq lost'
  BY <1>12 DEF StopStep, StopArrives, StopLost, ServerReclaims, serverVars
<1>13. ASSUME NEW l \in Launches, SpawnStop(got[l])
       PROVE  UNCHANGED launchVars /\ issued' = issued /\ live' \subseteq live /\ lost \subseteq lost'
  BY <1>13 DEF SpawnStop, serverVars
<1> QED
  BY <1>1, <1>2, <1>3, <1>4, <1>5, <1>6, <1>7, <1>8, <1>9, <1>10, <1>11, <1>12, <1>13
     DEF CMNext, Background, TaskStep, SendStep, ReadStep, EvictStep

(* The invariant is inductive.                                               *)
LEMMA CMInvStep ==
  ASSUME CMIInv, [CMNext]_cmVars
  PROVE  CMIInv'
<1>1. CASE CMNext
  BY <1>1, CMTypeStep, AttemptStep, OwnerStep, EvictionStep DEF CMIInv
<1>2. CASE UNCHANGED cmVars
  <2> USE <1>2 DEF cmVars, serverVars, launchVars, CMIInv
  <2>1. CMTypeOK'
    BY DEF CMTypeOK
  <2>2. ReplyNamesFresh' /\ OwnersDistinct'
    BY DEF ReplyNamesFresh, OwnersDistinct
  <2>3. EvictionProgress' /\ SeatsIssued' /\ AttemptLeft'
    BY DEF EvictionProgress, SeatsIssued, AttemptLeft
  <2> QED
    BY <2>1, <2>2, <2>3
<1> QED
  BY <1>1, <1>2

(* The inductive invariant holds in every reachable state of the client.     *)
THEOREM CMInvariant == CMSpec => []CMIInv
<1>1. CMInit => CMIInv
  BY CMInitInv
<1>2. CMIInv /\ [CMNext]_cmVars => CMIInv'
  BY CMInvStep
<1> QED
  BY <1>1, <1>2, PTL DEF CMSpec

-----------------------------------------------------------------------------
(* Type correctness of the CloudMatch client.                                *)
THEOREM CMTypeCorrect == CMSpec => []CMTypeOK
<1>1. CMIInv => CMTypeOK
  BY DEF CMIInv
<1> QED
  BY <1>1, CMInvariant, PTL

(* Two launch tasks never own the same session (create_session,              *)
(* parse_session_info): a detached launch cannot hand App a second copy of   *)
(* a session that is already streaming.                                      *)
THEOREM OwnershipSafe == CMSpec => []OneOwnerPerSession
<1>1. CMIInv => OneOwnerPerSession
  BY DEF CMIInv, ReplyNamesFresh, OwnersDistinct, OneOwnerPerSession
<1> QED
  BY <1>1, CMInvariant, PTL

(* The eviction of create_session does free every seat it was told of, for   *)
(* any number of launches evicting at once.                                  *)
THEOREM EvictionSafe == CMSpec => []EvictionFreesSeats
<1>1. CMIInv => EvictionFreesSeats
  BY DEF CMIInv, EvictionProgress, EvictionFreesSeats
<1> QED
  BY <1>1, CMInvariant, PTL

-----------------------------------------------------------------------------
(* The screens                                                               *)

(* What AppState carries: a session on the screens that hold one, a launch   *)
(* on CreatingSession, which has not reported to App before.                 *)
CarriedByScreen ==
  /\ screen \in HoldingScreens <=> session # NoSession
  /\ screen = "CreatingSession" <=> job # NoLaunch
  /\ job # NoLaunch => phase[job] # "idle" /\ got[job] \notin adopted

(* Sessions App has ever had come from launches.                             *)
AdoptedFromLaunch ==
  /\ asked \subseteq adopted
  /\ \A s \in adopted : \E l \in Launches : got[l] = s

(* The session in the state.                                                 *)
HeldIsFresh ==
  session # NoSession =>
    /\ session \in adopted \ asked
    /\ \E l \in Launches : phase[l] = "ready" /\ got[l] = session

AppInv ==
  /\ AppTypeOK
  /\ CarriedByScreen
  /\ AdoptedFromLaunch
  /\ HeldIsFresh
  /\ AdoptedIsHeldOrStopped

IInv == CMIInv /\ AppInv

-----------------------------------------------------------------------------
(* The initial states satisfy it.                                            *)
LEMMA InitIInv == Init => IInv
<1>1. Init => CMIInv
  BY CMInitInv DEF Init
<1>2. Init => AppInv
  BY DEF Init, CMInit, AppInv, AppTypeOK, Screens, SessionScreens, HoldingScreens,
         CarriedByScreen, AdoptedFromLaunch, HeldIsFresh, AdoptedIsHeldOrStopped
<1> QED
  BY <1>1, <1>2 DEF IInv

(* The stop App sends names a session that a launch reported ready.          *)
LEMMA StopIsOfReadyLaunch ==
  ASSUME IInv, screen \in HoldingScreens
  PROVE  /\ session \in Sessions
         /\ \E l \in Launches : phase[l] = "ready" /\ got[l] = session
BY DEF IInv, AppInv, CarriedByScreen, HeldIsFresh, AppTypeOK

(* Every step of App is a step of the CloudMatch client or leaves it alone.  *)
LEMMA StepImplementsCloudMatch ==
  ASSUME IInv, [Next]_vars
  PROVE  [CMNext]_cmVars
<1>1. CASE OpenGame \/ CloseGame \/ LeaveError \/ ToggleConfirmExit \/ CancelConfirmExit
           \/ ConnectSignaling \/ TickCreation \/ TickOffer
  BY <1>1 DEF OpenGame, CloseGame, LeaveError, ToggleConfirmExit, CancelConfirmExit,
              ConnectSignaling, TickCreation, TickCreated, TickCreationFailed, TickOffer
<1>2. CASE LaunchGame
  BY <1>2 DEF LaunchGame, CMNext
<1>3. ASSUME NEW next, screen \in HoldingScreens, StopAndLeaveTo(next)
      PROVE  CMNext
  BY <1>3, StopIsOfReadyLaunch DEF StopAndLeaveTo, CMNext
<1>4. CASE ConfirmExitSession
  BY <1>4, <1>3 DEF ConfirmExitSession
<1>5. CASE TickSignalingLost \/ TickStreamLost
  BY <1>5, <1>3 DEF TickSignalingLost, TickStreamLost, HoldingScreens
<1>6. CASE Background
  BY <1>6 DEF CMNext
<1>7. CASE UNCHANGED vars
  BY <1>7 DEF vars
<1> QED
  BY <1>1, <1>2, <1>4, <1>5, <1>6, <1>7 DEF Next, User, Tick

(* What the tasks may do to the facts App relies on: an owner keeps its      *)
(* session, a new owner gets one that nobody has ever owned, and a launch    *)
(* that is ready stays ready.                                                *)
LEMMA BackgroundKeepsOwners ==
  ASSUME CMIInv, Background
  PROVE  \A l \in Launches :
           /\ got'[l] = got[l] \/ (got[l] = NoSession /\ \A k \in Launches : got[k] # got'[l])
           /\ phase[l] = "ready" => phase'[l] = "ready"
           /\ phase[l] # "idle" => phase'[l] # "idle"
<1> USE DEF CMIInv
<1>1. ASSUME NEW l \in Launches, ReadCreated(l)
      PROVE  /\ got[l] = NoSession /\ \A k \in Launches : got[k] # got'[l]
             /\ phase[l] = "sending" /\ phase'[l] = "polling"
             /\ \A k \in Launches \ {l} : got'[k] = got[k] /\ phase'[k] = phase[k]
  BY <1>1 DEF ReadCreated, ReplyNamesFresh, OwnersDistinct, CMTypeOK
<1>2. ASSUME NEW l \in Launches, SendStep(l) \/ ReadUnusable(l) \/ ReadLimit(l)
      PROVE  /\ got' = got /\ phase[l] = "sending" /\ phase'[l] # "idle"
             /\ \A k \in Launches \ {l} : phase'[k] = phase[k]
  BY <1>2 DEF SendStep, ServerCreates, ServerRefuses, ServerForbids, ServerRejects, SendFails,
              ReadUnusable, ReadLimit, CMTypeOK
<1>3. ASSUME NEW l \in Launches, EvictStep(l)
      PROVE  /\ got' = got /\ phase[l] # "ready" /\ phase'[l] # "idle"
             /\ \A k \in Launches \ {l} : phase'[k] = phase[k]
  BY <1>3 DEF EvictStep, Evict, EvictionDone, SendAgain, CMTypeOK
<1>4. ASSUME NEW l \in Launches, PollStep(l)
      PROVE  /\ got' = got /\ phase[l] # "ready" /\ phase'[l] # "idle"
             /\ \A k \in Launches \ {l} : phase'[k] = phase[k]
  BY <1>4 DEF PollStep, PollAgain, PollReady, PollFails, CMTypeOK
<1>5. ASSUME NEW s \in Sessions, StopStep(s) \/ ServerReclaims(s)
      PROVE  got' = got /\ phase' = phase
  BY <1>5 DEF StopStep, StopArrives, StopLost, ServerReclaims, launchVars
<1> QED
  BY <1>1, <1>2, <1>3, <1>4, <1>5 DEF Background, TaskStep, ReadStep

(* A task's step while App does nothing.                                     *)
LEMMA AppInvBackground ==
  ASSUME IInv, Background, UNCHANGED appVars
  PROVE  AppInv'
<1>1. UNCHANGED <<screen, confirm_exit, job, session, adopted, asked>>
  BY DEF appVars
<1>2. \A l \in Launches :
        /\ got'[l] = got[l] \/ (got[l] = NoSession /\ \A k \in Launches : got[k] # got'[l])
        /\ phase[l] = "ready" => phase'[l] = "ready"
        /\ phase[l] # "idle" => phase'[l] # "idle"
  BY BackgroundKeepsOwners DEF IInv
<1>3. NoSession \notin adopted
  BY SessionsAssumption DEF IInv, AppInv, AppTypeOK
<1>4. CarriedByScreen'
  BY <1>1, <1>2 DEF IInv, AppInv, CarriedByScreen, AdoptedFromLaunch, AppTypeOK
<1>5. AdoptedFromLaunch'
  BY <1>1, <1>2, <1>3 DEF IInv, AppInv, AdoptedFromLaunch
<1>6. HeldIsFresh'
  BY <1>1, <1>2 DEF IInv, AppInv, HeldIsFresh
<1> QED
  BY <1>1, <1>4, <1>5, <1>6 DEF IInv, AppInv, AppTypeOK, AdoptedIsHeldOrStopped

(* Leaving a held session: it is the only adopted one not yet stopped.       *)
LEMMA AppInvStop ==
  ASSUME IInv, screen \in HoldingScreens,
         NEW next \in {"GameDetail", "Error"}, StopAndLeaveTo(next),
         confirm_exit' \in BOOLEAN, UNCHANGED <<job, adopted>>
  PROVE  AppInv'
<1>1. /\ asked' = asked \cup {session} /\ session' = NoSession /\ screen' = next
      /\ UNCHANGED <<got, phase>>
  BY DEF StopAndLeaveTo, SpawnStop, launchVars
<1>2. session \in adopted /\ session \in Sessions
  BY DEF IInv, AppInv, CarriedByScreen, HeldIsFresh, AppTypeOK
<1>3. job = NoLaunch
  BY DEF IInv, AppInv, CarriedByScreen, HoldingScreens
<1>4. AppTypeOK'
  BY <1>1, <1>2 DEF IInv, AppInv, AppTypeOK, Screens
<1>5. CarriedByScreen'
  BY <1>1, <1>3 DEF CarriedByScreen, HoldingScreens
<1>6. AdoptedFromLaunch' /\ HeldIsFresh'
  BY <1>1, <1>2 DEF IInv, AppInv, AdoptedFromLaunch, HeldIsFresh
<1>7. AdoptedIsHeldOrStopped'
  BY <1>1 DEF IInv, AppInv, AdoptedIsHeldOrStopped
<1> QED
  BY <1>4, <1>5, <1>6, <1>7 DEF AppInv

(* Every step of App or of a task keeps App's part.                          *)
LEMMA AppInvStep ==
  ASSUME IInv, [Next]_vars
  PROVE  AppInv'
<1> USE DEF IInv, AppInv
<1>1. CASE OpenGame \/ CloseGame \/ LeaveError \/ ToggleConfirmExit \/ CancelConfirmExit
           \/ ConnectSignaling \/ TickOffer
  <2>1. /\ UNCHANGED <<job, session, adopted, asked, got, phase>>
        /\ confirm_exit' \in BOOLEAN /\ screen' \in Screens
        /\ screen \in HoldingScreens <=> screen' \in HoldingScreens
        /\ screen = "CreatingSession" <=> screen' = "CreatingSession"
    BY <1>1 DEF OpenGame, CloseGame, LeaveError, ToggleConfirmExit, CancelConfirmExit,
                ConnectSignaling, TickOffer, cmVars, launchVars, AppTypeOK, Screens,
                SessionScreens, HoldingScreens
  <2> QED
    BY <2>1 DEF AppTypeOK, CarriedByScreen, AdoptedFromLaunch, HeldIsFresh,
                AdoptedIsHeldOrStopped
<1>2. CASE LaunchGame
  <2>1. PICK l \in Launches : Launch(l) /\ job' = l
    BY <1>2 DEF LaunchGame
  <2>2. /\ UNCHANGED <<confirm_exit, session, adopted, asked, got>>
        /\ screen = "GameDetail" /\ screen' = "CreatingSession"
        /\ phase[l] = "idle" /\ phase'[l] = "sending"
        /\ \A k \in Launches \ {l} : phase'[k] = phase[k]
    BY <1>2, <2>1 DEF LaunchGame, Launch, CMIInv, CMTypeOK
  <2>3. got[l] \notin adopted
    BY <2>2, SessionsAssumption DEF CMIInv, OwnersDistinct, AppTypeOK
  <2>4. session = NoSession
    BY <2>2 DEF CarriedByScreen, HoldingScreens
  <2>5. l # NoLaunch
    BY LaunchesAssumption
  <2> QED
    BY <2>1, <2>2, <2>3, <2>4, <2>5
       DEF AppTypeOK, Screens, SessionScreens, HoldingScreens, CarriedByScreen,
           AdoptedFromLaunch, HeldIsFresh, AdoptedIsHeldOrStopped
<1>3. CASE ConfirmExitSession
  <2>1. CASE screen = "CreatingSession"
    <3>1. /\ screen' = "GameDetail" /\ job' = NoLaunch /\ confirm_exit' = FALSE
          /\ UNCHANGED <<session, asked, adopted, got, phase>>
      BY <1>3, <2>1 DEF ConfirmExitSession, HoldingScreens, SessionScreens, cmVars, launchVars
    <3> QED
      BY <3>1, <2>1 DEF AppTypeOK, Screens, HoldingScreens, CarriedByScreen,
                        AdoptedFromLaunch, HeldIsFresh, AdoptedIsHeldOrStopped
  <2>2. CASE screen \in HoldingScreens
    <3>1. StopAndLeaveTo("GameDetail") /\ confirm_exit' = FALSE /\ UNCHANGED <<job, adopted>>
      BY <1>3, <2>2 DEF ConfirmExitSession, HoldingScreens, SessionScreens
    <3> QED
      BY <3>1, <2>2, AppInvStop
  <2>3. CASE screen \notin SessionScreens
    <3>1. confirm_exit' = FALSE
          /\ UNCHANGED <<screen, job, session, asked, adopted, got, phase>>
      BY <1>3, <2>3 DEF ConfirmExitSession, SessionScreens, cmVars, launchVars
    <3> QED
      BY <3>1 DEF AppTypeOK, CarriedByScreen, AdoptedFromLaunch, HeldIsFresh,
                  AdoptedIsHeldOrStopped
  <2> QED
    BY <2>1, <2>2, <2>3 DEF SessionScreens
<1>4. CASE TickCreated
  <2>1. /\ screen = "CreatingSession" /\ screen' = "SessionReady" /\ phase[job] = "ready"
        /\ session' = got[job] /\ adopted' = adopted \cup {got[job]} /\ job' = NoLaunch
        /\ UNCHANGED <<confirm_exit, asked, got, phase>>
    BY <1>4 DEF TickCreated, cmVars, launchVars
  <2>2. job \in Launches /\ got[job] \notin adopted
    BY <2>1 DEF CarriedByScreen, AppTypeOK
  <2>3. got[job] \in Sessions
    BY <2>1, <2>2 DEF CMIInv, OwnersDistinct
  <2>4. session = NoSession
    BY <2>1 DEF CarriedByScreen, HoldingScreens
  <2>5. \A s \in adopted : s \in asked
    BY <2>4, SessionsAssumption DEF AdoptedIsHeldOrStopped, AppTypeOK
  <2>6. got[job] # NoSession
    BY <2>3, SessionsAssumption
  <2>7. AppTypeOK' /\ CarriedByScreen'
    BY <2>1, <2>3, <2>6 DEF AppTypeOK, Screens, SessionScreens, HoldingScreens, CarriedByScreen
  <2>8. AdoptedFromLaunch' /\ HeldIsFresh' /\ AdoptedIsHeldOrStopped'
    BY <2>1, <2>2, <2>5 DEF AdoptedFromLaunch, HeldIsFresh, AdoptedIsHeldOrStopped
  <2> QED
    BY <2>7, <2>8
<1>5. CASE TickCreationFailed
  <2>1. /\ screen = "CreatingSession" /\ screen' = "Error" /\ job' = NoLaunch
        /\ UNCHANGED <<confirm_exit, session, adopted, asked, got, phase>>
    BY <1>5 DEF TickCreationFailed, cmVars, launchVars
  <2> QED
    BY <2>1 DEF AppTypeOK, Screens, HoldingScreens, CarriedByScreen,
                AdoptedFromLaunch, HeldIsFresh, AdoptedIsHeldOrStopped
<1>6. CASE TickSignalingLost \/ TickStreamLost
  <2>1. screen \in HoldingScreens /\ StopAndLeaveTo("Error") /\ UNCHANGED <<confirm_exit, job, adopted>>
    BY <1>6 DEF TickSignalingLost, TickStreamLost, HoldingScreens
  <2>2. confirm_exit' \in BOOLEAN
    BY <2>1 DEF AppTypeOK
  <2> QED
    BY <2>1, <2>2, AppInvStop
<1>7. CASE Background /\ UNCHANGED appVars
  BY <1>7, AppInvBackground
<1>8. CASE UNCHANGED vars
  BY <1>8 DEF vars, appVars, cmVars, launchVars, AppTypeOK, CarriedByScreen,
              AdoptedFromLaunch, HeldIsFresh, AdoptedIsHeldOrStopped
<1> QED
  BY <1>1, <1>2, <1>3, <1>4, <1>5, <1>6, <1>7, <1>8 DEF Next, User, Tick, TickCreation

(* The inductive invariant holds in every reachable state.                   *)
THEOREM Invariant == Spec => []IInv
<1>1. Init => IInv
  BY InitIInv
<1>2. IInv /\ [Next]_vars => IInv'
  <2> SUFFICES ASSUME IInv, [Next]_vars PROVE IInv'
    OBVIOUS
  <2>1. CMIInv'
    BY StepImplementsCloudMatch, CMInvStep DEF IInv
  <2>2. AppInv'
    BY AppInvStep
  <2> QED
    BY <2>1, <2>2 DEF IInv
<1> QED
  BY <1>1, <1>2, PTL DEF Spec

-----------------------------------------------------------------------------
(* Type correctness of App's session screens together with the client.       *)
THEOREM TypeCorrect == Spec => []TypeOK
<1>1. IInv => TypeOK
  BY DEF IInv, CMIInv, AppInv, TypeOK
<1> QED
  BY <1>1, Invariant, PTL

(* No session App took over is forgotten: exit_session, advance_signaling    *)
(* and tick's Streaming arm each send the stop before the state is gone.     *)
THEOREM NoAdoptedSessionForgotten == Spec => []AdoptedIsHeldOrStopped
<1>1. IInv => AdoptedIsHeldOrStopped
  BY DEF IInv, AppInv
<1> QED
  BY <1>1, Invariant, PTL

(* App never holds a session it asked CloudMatch to stop, although detached  *)
(* launches go on creating sessions behind its back.                         *)
THEOREM NoStoppedSessionHeld == Spec => []StoppedIsNeverHeld
<1>1. IInv => StoppedIsNeverHeld
  BY SessionsAssumption DEF IInv, AppInv, AppTypeOK, HeldIsFresh, StoppedIsNeverHeld
<1> QED
  BY <1>1, Invariant, PTL

(* SessionLifecycle implements CloudMatch: App uses the client only as the   *)
(* client's own specification allows, stops included.                        *)
THEOREM Refinement == Spec => ImplementsCloudMatch
<1>1. Init => CMInit
  BY DEF Init
<1>2. IInv /\ [Next]_vars => [CMNext]_cmVars
  BY StepImplementsCloudMatch
<1> QED
  BY <1>1, <1>2, Invariant, PTL DEF Spec, ImplementsCloudMatch, CMSpec
=============================================================================
