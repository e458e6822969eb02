--------------------------- MODULE SessionLifecycle ---------------------------
(***************************************************************************)
(* The life of a streaming session in App (src/app/mod.rs): the screens    *)
(* from GameDetail to Streaming and Error, the exit dialog, and what each  *)
(* of them does to the CloudMatch client (module CloudMatch).              *)
(*                                                                         *)
(* App owns its state alone: handle_command and tick run to completion on  *)
(* the UI loop, so each is one action; launch and stop tasks interleave    *)
(* between them.  Login, catalog and search are the screen "Home" here.    *)
(* The signaling socket and the peer thread are reduced to the two things  *)
(* App learns from them, an offer and a loss; StreamLink.tla has them.     *)
(***************************************************************************)
EXTENDS CloudMatch

CONSTANT NoLaunch   (* no creation job in the state *)

ASSUME LaunchesAssumption == NoLaunch \notin Launches

VARIABLES
  screen,        (* the AppState variant                                     *)
  confirm_exit,  (* App::confirm_exit: the exit dialog is drawn              *)
  job,           (* CreatingSession.job                                      *)
  session,       (* the SessionInfo carried by the state                     *)
  adopted,       (* history: sessions App took over from a finished job      *)
  asked          (* history: sessions App spawned a stop_session task for    *)

appVars == <<screen, confirm_exit, job, session, adopted, asked>>
vars    == <<appVars, cmVars>>

HoldingScreens == {"SessionReady", "Signaling", "Streaming"}
SessionScreens == HoldingScreens \cup {"CreatingSession"}
Screens        == SessionScreens \cup {"Home", "GameDetail", "Error"}

AppTypeOK ==
  /\ screen \in Screens
  /\ confirm_exit \in BOOLEAN
  /\ job \in Launches \cup {NoLaunch}
  /\ session \in Sessions \cup {NoSession}
  /\ adopted \in SUBSET Sessions
  /\ asked \in SUBSET Sessions

TypeOK == CMTypeOK /\ AppTypeOK

Init ==
  /\ CMInit
  /\ screen = "Home"
  /\ confirm_exit = FALSE
  /\ job = NoLaunch
  /\ session = NoSession
  /\ adopted = {}
  /\ asked = {}

-----------------------------------------------------------------------------
(* handle_command                                                            *)

(* Confirm on a catalog tile, and Back on the detail screen.                 *)
OpenGame ==
  /\ screen = "Home"
  /\ screen' = "GameDetail"
  /\ UNCHANGED <<confirm_exit, job, session, adopted, asked, cmVars>>

CloseGame ==
  /\ screen = "GameDetail"
  /\ screen' = "Home"
  /\ UNCHANGED <<confirm_exit, job, session, adopted, asked, cmVars>>

(* Confirm on the detail screen spawns the launch task.  (Without a token or *)
(* a selected game only status_note changes.)                                *)
LaunchGame ==
  /\ screen = "GameDetail"
  /\ \E l \in Launches :
       /\ Launch(l)
       /\ job' = l
  /\ screen' = "CreatingSession"
  /\ UNCHANGED <<confirm_exit, session, adopted, asked>>

(* Back on three of the session screens, and the stop button on all four.    *)
ToggleConfirmExit ==
  /\ screen \in SessionScreens
  /\ confirm_exit' = ~confirm_exit
  /\ UNCHANGED <<screen, job, session, adopted, asked, cmVars>>

(* The dialog's two buttons.  It is drawn over any screen while confirm_exit *)
(* is set, and nothing but these buttons and the toggle resets it.           *)
CancelConfirmExit ==
  /\ confirm_exit
  /\ confirm_exit' = FALSE
  /\ UNCHANGED <<screen, job, session, adopted, asked, cmVars>>

(* Mutants of StopAndLeaveTo: the session stays in the state, or the task is *)
(* not spawned (an early return on a missing token).                         *)
StopAndKeep(next) ==
  /\ SpawnStop(session)
  /\ asked' = asked \cup {session}
  /\ screen' = next
  /\ UNCHANGED session

StopNotSpawned(next) ==
  /\ asked' = asked \cup {session}
  /\ session' = NoSession
  /\ screen' = next
  /\ UNCHANGED cmVars

(* stop_cloudmatch_session of the session in the state, and the state is     *)
(* left.  (The early return without tokens is not taken: they were needed to *)
(* launch, and nothing in App resets them.)                                  *)
StopAndLeaveTo(next) ==
  /\ SpawnStop(session)
  /\ asked' = asked \cup {session}
  /\ session' = NoSession
  /\ screen' = next

(* Mutant of ConfirmExitSession: the exit stops the session of a launch that *)
(* has not reported it yet.                                                  *)
ConfirmExitStopsLaunch ==
  /\ confirm_exit /\ confirm_exit' = FALSE
  /\ screen = "CreatingSession" /\ screen' = "GameDetail"
  /\ got[job] # NoSession /\ SpawnStop(got[job])
  /\ asked' = asked \cup {got[job]}
  /\ job' = NoLaunch
  /\ UNCHANGED <<session, adopted>>

(* exit_session: a launch that is still creating is only forgotten; a held   *)
(* session is stopped; any other screen stays.                               *)
ConfirmExitSession ==
  /\ confirm_exit
  /\ confirm_exit' = FALSE
  /\ \/ /\ screen = "CreatingSession"
        /\ screen' = "GameDetail"
        /\ job' = NoLaunch
        /\ UNCHANGED <<session, asked, cmVars>>
     \/ /\ screen \in HoldingScreens
        /\ StopAndLeaveTo("GameDetail")
        /\ UNCHANGED job
     \/ /\ screen \notin SessionScreens
        /\ UNCHANGED <<screen, job, session, asked, cmVars>>
  /\ UNCHANGED adopted

(* Confirm on SessionReady: signaling::connect parses the URL and spawns the *)
(* socket task.  (On a bad URL only status_note changes.)                    *)
ConnectSignaling ==
  /\ screen = "SessionReady"
  /\ screen' = "Signaling"
  /\ UNCHANGED <<confirm_exit, job, session, adopted, asked, cmVars>>

(* Confirm on the error screen goes back to the game, Back goes to login.    *)
LeaveError ==
  /\ screen = "Error"
  /\ screen' \in {"GameDetail", "Home"}
  /\ UNCHANGED <<confirm_exit, job, session, adopted, asked, cmVars>>

-----------------------------------------------------------------------------
(* tick                                                                      *)

(* advance_session_creation: the finished job's session, or its error.       *)
TickCreated ==
  /\ screen = "CreatingSession" /\ phase[job] = "ready"
  /\ screen' = "SessionReady"
  /\ session' = got[job]
  /\ adopted' = adopted \cup {got[job]}
  /\ job' = NoLaunch
  /\ UNCHANGED <<confirm_exit, asked, cmVars>>

(* Mutant of TickCreationFailed: a failed job counts as one still running.   *)
TickCreationPending ==
  /\ screen = "CreatingSession" /\ phase[job] = "failed"
  /\ UNCHANGED vars

TickCreationFailed ==
  /\ screen = "CreatingSession" /\ phase[job] = "failed"
  /\ screen' = "Error"
  /\ job' = NoLaunch
  /\ UNCHANGED <<confirm_exit, session, adopted, asked, cmVars>>

(* advance_signaling, an offer came and PeerEngine::new succeeded.           *)
TickOffer ==
  /\ screen = "Signaling"
  /\ screen' = "Streaming"
  /\ UNCHANGED <<confirm_exit, job, session, adopted, asked, cmVars>>

(* Mutant of TickSignalingLost: the error screen, and no stop.               *)
TickSignalingLostLeaks ==
  /\ screen = "Signaling"
  /\ screen' = "Error"
  /\ session' = NoSession
  /\ UNCHANGED <<confirm_exit, job, adopted, asked, cmVars>>

(* advance_signaling, the socket reported Disconnected.                      *)
TickSignalingLost ==
  /\ screen = "Signaling"
  /\ StopAndLeaveTo("Error")
  /\ UNCHANGED <<confirm_exit, job, adopted>>

(* tick's Streaming arm, the socket or the peer reported Disconnected.       *)
TickStreamLost ==
  /\ screen = "Streaming"
  /\ StopAndLeaveTo("Error")
  /\ UNCHANGED <<confirm_exit, job, adopted>>

-----------------------------------------------------------------------------
User ==
  \/ OpenGame \/ CloseGame \/ LaunchGame \/ LeaveError
  \/ ToggleConfirmExit \/ CancelConfirmExit \/ ConfirmExitSession
  \/ ConnectSignaling

TickCreation == TickCreated \/ TickCreationFailed
Tick == TickCreation \/ TickOffer \/ TickSignalingLost \/ TickStreamLost

Next ==
  \/ User
  \/ Tick
  \/ Background /\ UNCHANGED appVars

(* The UI loop calls tick every frame and then sleeps or yields, so the      *)
(* tasks run too; requests end within the client's timeout.  Nothing is      *)
(* assumed of the user, of the service, or of offers and losses.             *)
Fairness ==
  /\ WF_vars(TickCreation)
  /\ \A l \in Launches : WF_vars(TaskStep(l) /\ UNCHANGED appVars)
  /\ \A s \in Sessions : WF_vars(StopStep(s) /\ UNCHANGED appVars)

Spec == Init /\ [][Next]_vars
FairSpec == Spec /\ Fairness

-----------------------------------------------------------------------------
(* Properties                                                                *)

(* README.md: "disconnects clean up the CloudMatch session server-side       *)
(* instead of leaking it".  Whatever way App leaves a session it had taken   *)
(* over (exit dialog, lost signaling, dead peer), it has sent the stop.      *)
AdoptedIsHeldOrStopped == \A s \in adopted : s = session \/ s \in asked

(* App never carries a session it has already told CloudMatch to stop: no    *)
(* socket or peer is started for it again, and no second DELETE is sent.     *)
StoppedIsNeverHeld == session \notin asked

(* The launch screen never hangs: a Confirm on a game ends on SessionReady,  *)
(* on Error, or by the user's exit, whatever the service answers.            *)
LaunchScreenSettles == screen = "CreatingSession" ~> screen # "CreatingSession"

(* A stop that is not lost on the way frees the seat, although App has long  *)
(* forgotten the session when the DELETE goes out.                           *)
StopFreesSeat ==
  \A s \in Sessions : s \in asked ~> s \notin live \/ s \in lost

(* src/app/ui.rs:990, the exit dialog: "salir y cancelar la sesion activa de *)
(* GeForce NOW" (leave and cancel the active session).  Once a launch task   *)
(* has ended and App no longer waits for it, its session is held, stopped,   *)
(* or gone.  The code forgets a launch left from CreatingSession.            *)
ExitCancelsSession ==
  \A l \in Launches :
    phase[l] = "ready" /\ job # l
      => got[l] = session \/ got[l] \in stops \/ got[l] \notin live \/ got[l] \in lost

(* Every step of App and of the tasks is a step of the CloudMatch client     *)
(* alone: the screens use it only as its own specification allows.           *)
ImplementsCloudMatch == CMSpec
=============================================================================
