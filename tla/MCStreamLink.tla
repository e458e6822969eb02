----------------------------- MODULE MCStreamLink -----------------------------
(***************************************************************************)
(* StreamLink for TLC, and what ties it to SessionLifecycle: seen from the *)
(* screens, the one session of StreamLink takes only the steps that        *)
(* SessionLifecycle allows a session that one launch reported ready.       *)
(***************************************************************************)
EXTENDS StreamLink

Lifecycle == INSTANCE SessionLifecycle WITH
  Launches <- {"launch"}, Sessions <- {"session"},
  NoSession <- "none", NoLaunch <- "none",
  SessionLimit <- 1, MaxSends <- 1, MaxPolls <- 1,
  live    <- IF stop = "arrived" THEN {} ELSE {"session"},
  issued  <- {"session"},
  lost    <- {},
  phase   <- [l \in {"launch"} |-> "ready"],
  sends   <- [l \in {"launch"} |-> 0],
  resend  <- [l \in {"launch"} |-> FALSE],
  reply   <- [l \in {"launch"} |-> [kind |-> "none", ids |-> {}]],
  old     <- [l \in {"launch"} |-> {}],
  listed  <- [l \in {"launch"} |-> {}],
  got     <- [l \in {"launch"} |-> "session"],
  polls   <- [l \in {"launch"} |-> 0],
  stops   <- IF stop = "sent" THEN {"session"} ELSE {},
  job     <- "none",
  session <- IF screen \in Ended THEN "none" ELSE "session",
  adopted <- {"session"},
  asked   <- IF stop = "none" THEN {} ELSE {"session"}

(* The socket and the peer thread show on App's screens only as the offers   *)
(* and losses of SessionLifecycle, and each loss sends the one stop.         *)
StepsOfLifecycle == [][Lifecycle!Next]_(Lifecycle!vars)
=============================================================================
