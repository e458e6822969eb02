------------------------------ MODULE CloudMatch ------------------------------
(***************************************************************************)
(* The CloudMatch client (src/gfn/cloudmatch.rs) and the REST service it   *)
(* talks to.  Every launch of a game is one tokio task: create_session     *)
(* (with its re-sends and its SESSION_LIMIT eviction) followed by          *)
(* poll_session.  stop_session runs in tasks of its own.  The tasks share  *)
(* one thread and interleave at every await, so one action is the code     *)
(* between two awaits.  The task is never cancelled: dropping its          *)
(* JoinHandle detaches it, and it runs to "ready" or "failed".             *)
(*                                                                         *)
(* A request is handled by the service when it arrives and its reply is    *)
(* read later; either may be lost.  A session is an identifier the         *)
(* service hands out once.                                                 *)
(***************************************************************************)
EXTENDS Naturals, FiniteSets

CONSTANTS
  Launches,      (* tasks a Confirm on the detail screen may spawn            *)
  Sessions,      (* identifiers the service may hand out                      *)
  NoSession,     (* no SessionInfo yet                                        *)
  SessionLimit,  (* live sessions the account may own before a 403            *)
  MaxSends,      (* sends per send_request: `for _retry in 0..3`              *)
  MaxPolls       (* MAX_ATTEMPTS of poll_session (1800 in the code)           *)

ASSUME SessionsAssumption == NoSession \notin Sessions
ASSUME BoundsAssumption ==
  /\ SessionLimit \in Nat \ {0}
  /\ MaxSends \in Nat \ {0}
  /\ MaxPolls \in Nat \ {0}

VARIABLES
  live,     (* service: sessions holding a seat                              *)
  issued,   (* service: identifiers handed out so far                        *)
  phase,    (* [Launches]: where the launch task stands                      *)
  sends,    (* [Launches]: transport errors in the current send_request      *)
  resend,   (* [Launches]: this is the send_request after a limit            *)
  reply,    (* [Launches]: what the service answered and the task has not    *)
            (* read yet                                                      *)
  old,      (* [Launches]: old_ids still to be deleted                       *)
  listed,   (* [Launches]: history, every id the last limit answer listed    *)
  got,      (* [Launches]: the session parse_session_info returned           *)
  polls,    (* [Launches]: poll attempts made                                *)
  stops,    (* sessions with a spawned stop_session task still in flight     *)
  lost      (* history: sessions for which a DELETE was lost on the way      *)

serverVars == <<live, issued, lost>>
launchVars == <<phase, sends, resend, reply, old, listed, got, polls>>
cmVars     == <<serverVars, launchVars, stops>>

Phases  == {"idle", "sending", "evicting", "resting", "polling", "ready", "failed"}
Ended   == {"ready", "failed"}
Replies == [kind : {"none", "created", "limit", "rejected"}, ids : SUBSET Sessions]
NoReply == [kind |-> "none", ids |-> {}]

CMTypeOK ==
  /\ live \in SUBSET Sessions
  /\ issued \in SUBSET Sessions
  /\ lost \in SUBSET Sessions
  /\ phase \in [Launches -> Phases]
  /\ sends \in [Launches -> 0 .. MaxSends]
  /\ resend \in [Launches -> BOOLEAN]
  /\ reply \in [Launches -> Replies]
  /\ old \in [Launches -> SUBSET Sessions]
  /\ listed \in [Launches -> SUBSET Sessions]
  /\ got \in [Launches -> Sessions \cup {NoSession}]
  /\ polls \in [Launches -> 0 .. MaxPolls]
  /\ stops \in SUBSET Sessions

CMInit ==
  /\ live = {} /\ issued = {} /\ lost = {} /\ stops = {}
  /\ phase  = [l \in Launches |-> "idle"]
  /\ sends  = [l \in Launches |-> 0]
  /\ resend = [l \in Launches |-> FALSE]
  /\ reply  = [l \in Launches |-> NoReply]
  /\ old    = [l \in Launches |-> {}]
  /\ listed = [l \in Launches |-> {}]
  /\ got    = [l \in Launches |-> NoSession]
  /\ polls  = [l \in Launches |-> 0]

-----------------------------------------------------------------------------
(* create_session                                                            *)

(* tokio::spawn of the launch task: it starts with its first POST.           *)
Launch(l) ==
  /\ phase[l] = "idle"
  /\ phase' = [phase EXCEPT ![l] = "sending"]
  /\ UNCHANGED <<serverVars, sends, resend, reply, old, listed, got, polls, stops>>

(* The POST reaches the service, which has a seat left and gives it away.    *)
ServerCreates(l) ==
  /\ phase[l] = "sending" /\ reply[l] = NoReply
  /\ Cardinality(live) < SessionLimit
  /\ \E s \in Sessions \ issued :
       /\ live' = live \cup {s}
       /\ issued' = issued \cup {s}
       /\ reply' = [reply EXCEPT ![l] = [kind |-> "created", ids |-> {s}]]
  /\ UNCHANGED <<lost, phase, sends, resend, old, listed, got, polls, stops>>

(* ... or it answers 403 / SESSION_LIMIT_EXCEEDED and names the sessions the *)
(* account owns (`session` and `otherUserSessions`).                         *)
ServerRefuses(l) ==
  /\ phase[l] = "sending" /\ reply[l] = NoReply
  /\ Cardinality(live) >= SessionLimit
  /\ reply' = [reply EXCEPT ![l] = [kind |-> "limit", ids |-> live]]
  /\ UNCHANGED <<serverVars, phase, sends, resend, old, listed, got, polls, stops>>

(* ... or it answers 403 for another reason, with a body that decodes and    *)
(* names any of them, or none: to the client that is a limit answer too.     *)
ServerForbids(l) ==
  /\ phase[l] = "sending" /\ reply[l] = NoReply
  /\ \E ids \in SUBSET live :
       reply' = [reply EXCEPT ![l] = [kind |-> "limit", ids |-> ids]]
  /\ UNCHANGED <<serverVars, phase, sends, resend, old, listed, got, polls, stops>>

(* ... or it answers any other error.                                        *)
ServerRejects(l) ==
  /\ phase[l] = "sending" /\ reply[l] = NoReply
  /\ reply' = [reply EXCEPT ![l] = [kind |-> "rejected", ids |-> {}]]
  /\ UNCHANGED <<serverVars, phase, sends, resend, old, listed, got, polls, stops>>

(* client.post(..).send() returns a transport error, before or after the     *)
(* service handled the request: sleep 500 ms and try again, up to MaxSends.  *)
SendFails(l) ==
  /\ phase[l] = "sending"
  /\ sends' = [sends EXCEPT ![l] = @ + 1]
  /\ reply' = [reply EXCEPT ![l] = NoReply]
  /\ phase' = [phase EXCEPT ![l] = IF sends[l] + 1 = MaxSends THEN "failed" ELSE @]
  /\ UNCHANGED <<serverVars, resend, old, listed, got, polls, stops>>

(* A success body that parses: poll_session starts on its session.           *)
ReadCreated(l) ==
  /\ phase[l] = "sending" /\ reply[l].kind = "created"
  /\ \E s \in reply[l].ids : got' = [got EXCEPT ![l] = s]
  /\ reply' = [reply EXCEPT ![l] = NoReply]
  /\ phase' = [phase EXCEPT ![l] = "polling"]
  /\ UNCHANGED <<serverVars, sends, resend, old, listed, polls, stops>>

(* A rejection, or a body, of a limit answer too, that serde_json or         *)
(* parse_session_info cannot use: the task ends in an error, and knows none. *)
ReadUnusable(l) ==
  /\ phase[l] = "sending" /\ reply[l].kind # "none"
  /\ reply' = [reply EXCEPT ![l] = NoReply]
  /\ phase' = [phase EXCEPT ![l] = "failed"]
  /\ UNCHANGED <<serverVars, sends, resend, old, listed, got, polls, stops>>

(* Mutants of ReadLimit: only `session` is deleted, not otherUserSessions;   *)
(* or the limit payload is parsed as if it were the new session's.           *)
ReadLimitOneOnly(l) ==
  /\ phase[l] = "sending" /\ reply[l].kind = "limit"
  /\ \E s \in reply[l].ids : old' = [old EXCEPT ![l] = {s}]
  /\ listed' = [listed EXCEPT ![l] = reply[l].ids]
  /\ reply' = [reply EXCEPT ![l] = NoReply]
  /\ phase' = [phase EXCEPT ![l] = "evicting"]
  /\ UNCHANGED <<serverVars, sends, resend, got, polls, stops>>

ReadLimitAsSession(l) ==
  /\ phase[l] = "sending" /\ reply[l].kind = "limit"
  /\ \E s \in reply[l].ids : got' = [got EXCEPT ![l] = s]
  /\ reply' = [reply EXCEPT ![l] = NoReply]
  /\ phase' = [phase EXCEPT ![l] = "polling"]
  /\ UNCHANGED <<serverVars, sends, resend, old, listed, polls, stops>>

(* The limit answer: collect old_ids (there may be none) and delete them one *)
(* after the other.                                                          *)
ReadLimit(l) ==
  /\ phase[l] = "sending" /\ reply[l].kind = "limit"
  /\ old' = [old EXCEPT ![l] = reply[l].ids]
  /\ listed' = [listed EXCEPT ![l] = reply[l].ids]
  /\ reply' = [reply EXCEPT ![l] = NoReply]
  /\ phase' = [phase EXCEPT ![l] = "evicting"]
  /\ UNCHANGED <<serverVars, sends, resend, got, polls, stops>>

(* stop_session_by_id(old_id): the DELETE takes the session's seat away, or  *)
(* it is lost; the caller cannot tell, the result is ignored either way.     *)
Evict(l, s) ==
  /\ phase[l] = "evicting" /\ s \in old[l]
  /\ old' = [old EXCEPT ![l] = @ \ {s}]
  /\ \/ live' = live \ {s} /\ UNCHANGED lost
     \/ lost' = lost \cup {s} /\ UNCHANGED live
  /\ UNCHANGED <<issued, phase, sends, resend, reply, listed, got, polls, stops>>

(* All old_ids done.  The first limit leads to a pause and one more          *)
(* send_request; the limit payload of the second one goes to                 *)
(* parse_session_info, whose status check fails.                             *)
EvictionDone(l) ==
  /\ phase[l] = "evicting" /\ old[l] = {}
  /\ phase' = [phase EXCEPT ![l] = IF resend[l] THEN "failed" ELSE "resting"]
  /\ UNCHANGED <<serverVars, sends, resend, reply, old, listed, got, polls, stops>>

(* After the 1 s sleep: send_request starts over with its own retry count.   *)
SendAgain(l) ==
  /\ phase[l] = "resting"
  /\ phase' = [phase EXCEPT ![l] = "sending"]
  /\ resend' = [resend EXCEPT ![l] = TRUE]
  /\ sends' = [sends EXCEPT ![l] = 0]
  /\ UNCHANGED <<serverVars, reply, old, listed, got, polls, stops>>

-----------------------------------------------------------------------------
(* poll_session.                                                             *)

(* Mutant of PollAgain: the attempts are never used up (the counter wraps).  *)
PollAgainForever(l) ==
  /\ phase[l] = "polling"
  /\ polls' = [polls EXCEPT ![l] = (@ + 1) % MaxPolls]
  /\ UNCHANGED <<serverVars, phase, sends, resend, reply, old, listed, got, stops>>

(* Not ready, or a 5xx that is still tolerated: next attempt in 2 s, and an  *)
(* error once all attempts are used up.                                      *)
PollAgain(l) ==
  /\ phase[l] = "polling"
  /\ polls' = [polls EXCEPT ![l] = @ + 1]
  /\ phase' = [phase EXCEPT ![l] = IF polls[l] + 1 = MaxPolls THEN "failed" ELSE @]
  /\ UNCHANGED <<serverVars, sends, resend, reply, old, listed, got, stops>>

(* status 2 or 3.  By the time it is read the session may have lost its seat *)
(* again: the answer is old, and one more request to the session's own       *)
(* server may come in between.                                               *)
PollReady(l) ==
  /\ phase[l] = "polling"
  /\ phase' = [phase EXCEPT ![l] = "ready"]
  /\ UNCHANGED <<serverVars, sends, resend, reply, old, listed, got, polls, stops>>

(* Transport error, 4xx, statusCode other than 1, an undecodable body, or    *)
(* one 5xx too many.                                                         *)
PollFails(l) ==
  /\ phase[l] = "polling"
  /\ phase' = [phase EXCEPT ![l] = "failed"]
  /\ UNCHANGED <<serverVars, sends, resend, reply, old, listed, got, polls, stops>>

-----------------------------------------------------------------------------
(* stop_session, and the service on its own                                  *)

(* A task spawned to stop session s.                                         *)
SpawnStop(s) ==
  /\ stops' = stops \cup {s}
  /\ UNCHANGED <<serverVars, launchVars>>

StopArrives(s) ==
  /\ s \in stops
  /\ stops' = stops \ {s}
  /\ live' = live \ {s}
  /\ UNCHANGED <<issued, lost, launchVars>>

StopLost(s) ==
  /\ s \in stops
  /\ stops' = stops \ {s}
  /\ lost' = lost \cup {s}
  /\ UNCHANGED <<live, issued, launchVars>>

(* The service ends a session itself (the game quits, a free-tier limit).    *)
ServerReclaims(s) ==
  /\ s \in live
  /\ live' = live \ {s}
  /\ UNCHANGED <<issued, lost, launchVars, stops>>

-----------------------------------------------------------------------------
(* The reply to a POST, or its transport error, comes within REQUEST_TIMEOUT *)
(* of the HTTP client.                                                       *)
SendStep(l)  == \/ ServerCreates(l) \/ ServerRefuses(l) \/ ServerForbids(l)
                \/ ServerRejects(l) \/ SendFails(l)
ReadStep(l)  == ReadCreated(l) \/ ReadUnusable(l) \/ ReadLimit(l)
EvictStep(l) == (\E s \in Sessions : Evict(l, s)) \/ EvictionDone(l) \/ SendAgain(l)
PollStep(l)  == PollAgain(l) \/ PollReady(l) \/ PollFails(l)
TaskStep(l)  == SendStep(l) \/ ReadStep(l) \/ EvictStep(l) \/ PollStep(l)
StopStep(s)  == StopArrives(s) \/ StopLost(s)

(* Everything that happens without the user interface taking a step.         *)
Background ==
  \/ \E l \in Launches : TaskStep(l)
  \/ \E s \in Sessions : StopStep(s) \/ ServerReclaims(s)

(* On its own, the client lets anybody launch, and stop a session that some  *)
(* launch reported ready.                                                    *)
CMNext ==
  \/ \E l \in Launches : Launch(l)
  \/ \E l \in Launches : phase[l] = "ready" /\ SpawnStop(got[l])
  \/ Background

CMFairness ==
  /\ \A l \in Launches : WF_cmVars(TaskStep(l))
  /\ \A s \in Sessions : WF_cmVars(StopStep(s))

CMSpec == CMInit /\ [][CMNext]_cmVars
CMFairSpec == CMSpec /\ CMFairness

-----------------------------------------------------------------------------
(* Properties                                                                *)

(* Two launch tasks, one of them possibly detached, never believe they own   *)
(* the same session, and a session named in an unread reply belongs to       *)
(* nobody else.  (SessionInfo is stored per launch; stopping one must not    *)
(* stop the other.)                                                          *)
OneOwnerPerSession ==
  \A k, l \in Launches :
    k # l => /\ got[k] = got[l] => got[k] = NoSession
             /\ reply[l].kind = "created" => got[k] \notin reply[l].ids

(* The point of the limit handling in create_session: when the second        *)
(* send_request goes out, none of the sessions the limit answer listed still *)
(* holds a seat, unless its DELETE was lost.                                 *)
EvictionFreesSeats ==
  \A l \in Launches :
    phase[l] = "resting" \/ (phase[l] = "sending" /\ resend[l])
      => listed[l] \cap live \subseteq lost

(* Every launch task ends, detached or not: the retry loops of               *)
(* create_session and poll_session are bounded.                              *)
LaunchTerminates ==
  \A l \in Launches : phase[l] # "idle" ~> phase[l] \in Ended

=============================================================================
