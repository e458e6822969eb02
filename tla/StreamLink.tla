------------------------------ MODULE StreamLink ------------------------------
(***************************************************************************)
(* One CloudMatch session from SessionReady to its end, with the three     *)
(* actors that carry it: App's Signaling and Streaming arms                *)
(* (src/app/mod.rs), the signaling task that owns the WebSocket            *)
(* (src/gfn/signaling.rs) and the peer thread that owns the WebRTC         *)
(* connection (src/gfn/peer.rs).  They share nothing but unbounded FIFO    *)
(* channels: App polls both event channels from tick and pushes commands.  *)
(*                                                                         *)
(* The signaling task shares App's thread and interleaves at its awaits;   *)
(* the peer thread runs freely.  What the server may send or do to the     *)
(* socket is bounded by MaxOffers, MaxIce and MaxNoise; nothing else is.   *)
(***************************************************************************)
EXTENDS Naturals, Sequences, SequencesExt

CONSTANTS
  MaxOffers, MaxIce, MaxNoise,   (* offers, candidates, bad packets received *)
  MaxEventsPerTick               (* of advance_signaling (8 in the code)     *)

ASSUME LinkAssumption ==
  /\ MaxOffers \in Nat /\ MaxIce \in Nat /\ MaxNoise \in Nat
  /\ MaxEventsPerTick \in Nat \ {0}

VARIABLES
  screen,        (* the AppState variant                                     *)
  confirm_exit,  (* the exit dialog                                          *)
  socket,        (* the signaling task: none, connecting, open, ended; or    *)
                 (* failed, which is ended after a websocket error           *)
  commands,      (* SignalingHandle.command_tx: Answer, LocalIce, Close      *)
  events,        (* SignalingHandle.event_rx                                 *)
  offers, ices, noises,  (* what the server has sent so far                  *)
  peer,          (* the peer thread: none, setup, running, ended; or failed, *)
                 (* which is ended because it had no runtime                 *)
  peerCommands,  (* PeerEngine.command_tx: candidate numbers, and Close = 0  *)
  peerEvents,    (* PeerEngine.event_rx                                      *)
  iceBase,       (* history: candidates received before the accepted offer   *)
  applied,       (* history: candidates given to add_remote_candidate        *)
  written,       (* history: what was handed to the WebSocket                *)
  stop           (* the stop_session task: none, sent, arrived               *)

appVars  == <<screen, confirm_exit>>
sockVars == <<socket, commands, events, offers, ices, noises, written>>
peerVars == <<peer, peerCommands, peerEvents, applied>>
vars == <<appVars, sockVars, peerVars, iceBase, stop>>

LinkScreens == {"Signaling", "Streaming"}     (* states that own a handle    *)
Ended == {"GameDetail", "Error"}
Over  == {"ended", "failed"}                  (* of a task or a thread        *)

Events == [kind : {"Connected", "Offer", "RemoteIce", "Error", "Disconnected"},
           n : 0 .. MaxIce]
Event(kind, n) == [kind |-> kind, n |-> n]
Close == 0

(* The types; what commands, peerCommands, applied and written may hold is   *)
(* said by the properties at the end.                                        *)
TypeOK ==
  /\ screen \in LinkScreens \cup Ended \cup {"SessionReady"}
  /\ confirm_exit \in BOOLEAN
  /\ socket \in {"none", "connecting", "open", "ended", "failed"}
  /\ events \in Seq(Events)
  /\ offers \in 0 .. MaxOffers /\ ices \in 0 .. MaxIce /\ noises \in 0 .. MaxNoise
  /\ peer \in {"none", "setup", "running", "ended", "failed"}
  /\ peerEvents \in Seq({"Answer", "LocalIce", "Error", "Disconnected"})
  /\ iceBase \in 0 .. MaxIce
  /\ stop \in {"none", "sent", "arrived"}

Init ==
  /\ screen = "SessionReady" /\ confirm_exit = FALSE
  /\ socket = "none" /\ commands = <<>> /\ events = <<>>
  /\ offers = 0 /\ ices = 0 /\ noises = 0
  /\ peer = "none" /\ peerCommands = <<>> /\ peerEvents = <<>>
  /\ iceBase = 0 /\ applied = <<>> /\ written = <<>>
  /\ stop = "none"

-----------------------------------------------------------------------------
(* App: commands of the user                                                 *)

(* Confirm on SessionReady: signaling::connect.                              *)
Connect ==
  /\ screen = "SessionReady"
  /\ screen' = "Signaling"
  /\ socket' = "connecting"
  /\ UNCHANGED <<confirm_exit, commands, events, offers, ices, noises, written,
                 peerVars, iceBase, stop>>

ToggleConfirmExit ==
  /\ screen \in LinkScreens \cup {"SessionReady"}
  /\ confirm_exit' = ~confirm_exit
  /\ UNCHANGED <<screen, sockVars, peerVars, iceBase, stop>>

(* Mutants: a handle dropped without close(), a PeerEngine that does not tell*)
(* its thread, a session left without stop_session.                          *)
HandleOnlyDropped == UNCHANGED commands
PeerOnlyForgotten == UNCHANGED peerCommands
StopForgotten     == UNCHANGED stop

(* The two ends of a session: handle.close() is a queued command, dropping   *)
(* PeerEngine queues Close for its thread, and stop_session is spawned.      *)
CloseHandle == commands' = Append(commands, "Close")
DropPeer    == peerCommands' = IF peer = "none" THEN peerCommands
                                               ELSE Append(peerCommands, Close)
SendStop    == stop' = "sent"

(* exit_session.                                                             *)
ConfirmExitSession ==
  /\ confirm_exit /\ confirm_exit' = FALSE
  /\ \/ /\ screen \in LinkScreens
        /\ CloseHandle /\ SendStop /\ DropPeer
        /\ screen' = "GameDetail"
     \/ /\ screen = "SessionReady"
        /\ SendStop
        /\ screen' = "GameDetail"
        /\ UNCHANGED <<commands, peerCommands>>
     \/ /\ screen \in Ended
        /\ UNCHANGED <<screen, commands, peerCommands, stop>>
  /\ UNCHANGED <<socket, events, offers, ices, noises, written,
                 peer, peerEvents, applied, iceBase>>

CancelConfirmExit ==
  /\ confirm_exit /\ confirm_exit' = FALSE
  /\ UNCHANGED <<screen, sockVars, peerVars, iceBase, stop>>

-----------------------------------------------------------------------------
(* App: tick                                                                 *)

(* Position of the first Disconnected, which ends a drain loop; 0 if none.   *)
FirstLoss(kinds) == SelectInSeq(kinds, LAMBDA k : k = "Disconnected")
Kinds(es) == [i \in DOMAIN es |-> es[i].kind]

(* The prefix a `while let .. { .. break }` loop looks at.                   *)
UpTo(i, es) == IF i = 0 THEN es ELSE SubSeq(es, 1, i - 1)

(* Mutant of Unread: the batch is drained to its end before the offer in it  *)
(* is acted on.                                                              *)
UnreadBehindBatch(i, batch) == SubSeq(events, Len(batch) + 1, Len(events))

(* What stays queued when event i of a tick's batch ends the tick.           *)
Unread(i, batch) == SubSeq(events, i + 1, Len(events))

(* advance_signaling: at most MaxEventsPerTick events, up to the one that     *)
(* leaves the screen.  Events behind an accepted offer stay queued for the   *)
(* Streaming arm; a candidate in front of it is only shown.  An offer whose  *)
(* peer thread cannot be spawned is kept in offer_sdp, which nothing reads.  *)
TickSignaling ==
  /\ screen = "Signaling" /\ events # <<>>
  /\ LET batch == SubSeq(events, 1, Min({Len(events), MaxEventsPerTick}))
         d     == FirstLoss(Kinds(batch))
     IN \/ \E i \in DOMAIN batch :
             /\ batch[i].kind = "Offer" /\ (d = 0 \/ i < d)
             /\ events' = Unread(i, batch)
             /\ screen' = "Streaming" /\ peer' = "setup"
             /\ iceBase' = batch[i].n
             /\ UNCHANGED stop
        \/ /\ d = 0
           /\ events' = SubSeq(events, Len(batch) + 1, Len(events))
           /\ UNCHANGED <<screen, peer, iceBase, stop>>
        \/ /\ d # 0
           /\ SendStop
           /\ screen' = "Error"
           /\ UNCHANGED <<events, peer, iceBase>>
  /\ UNCHANGED <<confirm_exit, socket, commands, offers, ices, noises, written,
                 peerCommands, peerEvents, applied>>

(* SelectSeq with a set for the test, as a recursive function.               *)
Selected(s, kept) ==
  LET f[i \in 0 .. Len(s)] ==
        IF i = 0 THEN << >>
        ELSE IF s[i] \in kept THEN Append(f[i - 1], s[i]) ELSE f[i - 1]
  IN f[Len(s)]

(* The numbers of the candidates among the events.                           *)
Candidates(es) ==
  LET ice == Selected(es, [kind : {"RemoteIce"}, n : 0 .. MaxIce])
  IN [i \in DOMAIN ice |-> ice[i].n]

(* Mutant of ForSocket: only the candidates go out.                         *)
IceForSocket(es) == Selected(es, {"LocalIce"})

(* What the Streaming arm passes on from the peer to the server.             *)
ForSocket(es) == Selected(es, {"Answer", "LocalIce"})

(* tick's Streaming arm: drain the signaling events (candidates go to the    *)
(* peer, everything else is ignored), then the peer's (answer and candidate  *)
(* go out through the handle), each up to a Disconnected, which is fatal.    *)
TickStreaming ==
  /\ screen = "Streaming" /\ (events # <<>> \/ peerEvents # <<>>)
  /\ LET i == FirstLoss(Kinds(events))
         j == FirstLoss(peerEvents)
         forPeer == peerCommands \o Candidates(UpTo(i, events))
         forSock == commands \o ForSocket(UpTo(j, peerEvents))
     IN \/ /\ i = 0 /\ j = 0
           /\ commands' = forSock /\ peerCommands' = forPeer
           /\ UNCHANGED <<screen, stop>>
        \/ /\ i # 0 \/ j # 0
           /\ commands' = Append(forSock, "Close")
           /\ peerCommands' = Append(forPeer, Close)
           /\ SendStop
           /\ screen' = "Error"
  /\ events' = <<>> /\ peerEvents' = <<>>
  /\ UNCHANGED <<confirm_exit, socket, offers, ices, noises, written,
                 peer, applied, iceBase>>

-----------------------------------------------------------------------------
(* The signaling task (signaling.rs, run and handle_incoming_message); its   *)
(* heartbeats and acknowledgements change nothing App or the peer can see.   *)

Emit(e) == events' = Append(events, e)

(* An error of the write is ignored; what broke the connection shows on the  *)
(* read side (ReceiveEnd, ReceiveTransportError), and what is written until  *)
(* then is lost on the way.                                                  *)
Write(what) == written' = Append(written, what)

(* connect_async resolves: peer_info goes out and App hears Connected, or    *)
(* App hears Disconnected.  No command is looked at before that.             *)
Connected ==
  /\ socket = "connecting"
  /\ socket' = "open"
  /\ Write("PeerInfo") /\ Emit(Event("Connected", 0))
  /\ UNCHANGED <<commands, offers, ices, noises, appVars, peerVars, iceBase, stop>>

ConnectFailed ==
  /\ socket = "connecting"
  /\ socket' = "ended"
  /\ Emit(Event("Disconnected", 0))
  /\ UNCHANGED <<commands, offers, ices, noises, written, appVars, peerVars,
                 iceBase, stop>>

(* The command branch of the select loop; None, when App dropped the handle  *)
(* and the queue is empty, closes like Close.                                *)
TakeCommand ==
  /\ socket = "open"
  /\ \/ /\ commands # <<>> /\ Head(commands) # "Close"
        /\ Write(Head(commands))
        /\ commands' = Tail(commands)
        /\ UNCHANGED socket
     \/ /\ IF commands # <<>> THEN Head(commands) = "Close" ELSE screen \notin LinkScreens
        /\ socket' = "ended"
        /\ UNCHANGED <<commands, written>>
  /\ UNCHANGED <<events, offers, ices, noises, appVars, peerVars, iceBase, stop>>

(* The read branch: an offer, a candidate, a packet that is not JSON.        *)
Receive ==
  /\ socket = "open"
  /\ \/ /\ offers < MaxOffers /\ offers' = offers + 1
        /\ Emit(Event("Offer", ices))
        /\ UNCHANGED <<ices, noises>>
     \/ /\ ices < MaxIce /\ ices' = ices + 1
        /\ Emit(Event("RemoteIce", ices + 1))
        /\ UNCHANGED <<offers, noises>>
     \/ /\ noises < MaxNoise /\ noises' = noises + 1
        /\ Emit(Event("Error", 0))
        /\ UNCHANGED <<offers, ices>>
  /\ UNCHANGED <<socket, commands, written, appVars, peerVars, iceBase, stop>>

(* Mutant of ReceiveEnd: the task ends and App is not told.                  *)
ReceiveEndSilently ==
  /\ socket = "open"
  /\ socket' = "ended"
  /\ UNCHANGED <<commands, events, offers, ices, noises, written, appVars,
                 peerVars, iceBase, stop>>

(* BYE, peerRemoved, or the end of the stream: App hears Disconnected.       *)
ReceiveEnd ==
  /\ socket = "open"
  /\ socket' = "ended"
  /\ Emit(Event("Disconnected", 0))
  /\ UNCHANGED <<commands, offers, ices, noises, written, appVars, peerVars,
                 iceBase, stop>>

(* A websocket error (connection reset): the task ends with an Error event.  *)
ReceiveTransportError ==
  /\ socket = "open"
  /\ socket' = "failed"
  /\ Emit(Event("Error", 0))
  /\ UNCHANGED <<commands, offers, ices, noises, written, appVars, peerVars,
                 iceBase, stop>>

-----------------------------------------------------------------------------
(* The peer thread (peer.rs, PeerEngine::new's closure and run_peer)         *)

PeerEmit(es) == peerEvents' = peerEvents \o es

(* Mutant of PeerReady: the candidate is gathered before the answer is sent. *)
PeerReadyIceFirst ==
  /\ peer = "setup"
  /\ peer' = "running"
  /\ PeerEmit(<<"LocalIce", "Answer">>)
  /\ UNCHANGED <<peerCommands, applied, appVars, sockVars, iceBase, stop>>

(* Setup succeeds: the answer and the host candidate are sent to App.        *)
PeerReady ==
  /\ peer = "setup"
  /\ peer' = "running"
  /\ PeerEmit(<<"Answer", "LocalIce">>)
  /\ UNCHANGED <<peerCommands, applied, appVars, sockVars, iceBase, stop>>

(* Mutant of PeerLost: the loop returns Ok, so no event is sent.             *)
PeerLostSilently ==
  /\ peer \in {"setup", "running"}
  /\ peer' = "ended"
  /\ UNCHANGED <<peerCommands, peerEvents, applied, appVars, sockVars, iceBase, stop>>

(* A setup step fails, an I/O step of the loop fails, or the connection      *)
(* reaches Failed or Closed: the thread ends with Disconnected.              *)
PeerLost ==
  /\ peer \in {"setup", "running"}
  /\ peer' = "ended"
  /\ PeerEmit(<<"Disconnected">>)
  /\ UNCHANGED <<peerCommands, applied, appVars, sockVars, iceBase, stop>>

(* The thread's tokio runtime cannot be built: it ends with Error.           *)
PeerRuntimeFails ==
  /\ peer = "setup"
  /\ peer' = "failed"
  /\ PeerEmit(<<"Error">>)
  /\ UNCHANGED <<peerCommands, applied, appVars, sockVars, iceBase, stop>>

(* One turn of the loop drains every queued command; Close ends the thread   *)
(* without an event and drops what is queued behind it.                      *)
PeerCommands ==
  /\ peer = "running" /\ peerCommands # <<>>
  /\ LET i == SelectInSeq(peerCommands, LAMBDA c : c = Close)
     IN /\ applied' = applied \o UpTo(i, peerCommands)
        /\ peer' = IF i = 0 THEN peer ELSE "ended"
  /\ peerCommands' = <<>>
  /\ UNCHANGED <<peerEvents, appVars, sockVars, iceBase, stop>>

-----------------------------------------------------------------------------
(* The stop_session task's DELETE reaches CloudMatch.                        *)
StopArrives ==
  /\ stop = "sent"
  /\ stop' = "arrived"
  /\ UNCHANGED <<appVars, sockVars, peerVars, iceBase>>

User == Connect \/ ToggleConfirmExit \/ ConfirmExitSession \/ CancelConfirmExit
Tick == TickSignaling \/ TickStreaming
SocketTask ==
  \/ Connected \/ ConnectFailed \/ TakeCommand
  \/ Receive \/ ReceiveEnd \/ ReceiveTransportError
PeerThread == PeerReady \/ PeerLost \/ PeerRuntimeFails \/ PeerCommands

Next == User \/ Tick \/ SocketTask \/ PeerThread \/ StopArrives

(* tick runs every frame; the select loop serves a waiting command because   *)
(* its branches are polled in random order; the peer thread is scheduled and *)
(* its setup and its loop do not block.  Nothing is assumed of the WebSocket *)
(* handshake, which has no timeout, of the server or of the user.            *)
Fairness ==
  /\ WF_vars(Tick)
  /\ WF_vars(TakeCommand)
  /\ WF_vars(peer = "setup" /\ PeerThread)
  /\ WF_vars(PeerCommands)

Spec == Init /\ [][Next]_vars
FairSpec == Spec /\ Fairness

-----------------------------------------------------------------------------
(* Properties                                                                *)

(* Every candidate the server trickles behind the accepted offer is on its   *)
(* way to the peer or has arrived, once and in order, across the hand-over   *)
(* from the Signaling arm (whose batch stops at the offer) to the Streaming  *)
(* arm and through two queues.                                               *)
IceInOrder ==
  screen = "Streaming" =>
    applied \o peerCommands \o Candidates(events)
      = [i \in 1 .. (ices - iceBase) |-> iceBase + i]

(* The socket carries peer_info, then the answer, then the candidate, each   *)
(* once: nothing is sent twice or overtakes, whatever the socket task and    *)
(* the peer thread do between two ticks.                                     *)
AnswerBeforeIce == IsPrefix(written, <<"PeerInfo", "Answer", "LocalIce">>)

(* Each way out of the two screens queues a Close: whenever App has let go of*)
(* the handle of a socket that is still up or coming up, the task finds one, *)
(* behind whatever else is queued.  (Were it forgotten, the None branch of   *)
(* signaling.rs:226 would still close the socket, once the queue is empty.)  *)
ClosedExplicitly ==
  screen \in Ended /\ socket \in {"connecting", "open"} => "Close" \in ToSet(commands)

(* The answer the peer generated is written to the socket, or the session    *)
(* ended.                                                                    *)
AnswerReachesServer ==
  peer = "running" ~> "Answer" \in ToSet(written) \/ screen \in Ended \/ socket \in Over

(* Leaving the session takes the socket and the peer thread down.            *)
TeardownCompletes ==
  /\ screen \in Ended /\ socket = "open" ~> socket \in Over
  /\ screen \in Ended /\ peer = "running" ~> peer \in Over

(* advance_signaling and tick leave the session when its socket is closed,   *)
(* by the server or by a failed handshake, in whichever arm App is and       *)
(* however many events of the dead task are still to be read.                *)
SocketCloseNoticed == screen \in LinkScreens /\ socket = "ended" ~> screen \in Ended

(* A peer thread that ended in its setup or its loop ends the session: its   *)
(* Disconnected is read behind an answer and candidates, and not by the      *)
(* Signaling arm.                                                            *)
PeerDeathNoticed == screen = "Streaming" /\ peer = "ended" ~> screen \in Ended

(* signaling.rs:52-53 (Disconnected: "the socket closed") with               *)
(* app/mod.rs:1124-1127 ("Losing it mid-stream ... treat it the same as the  *)
(* peer itself dying"): App leaves the session when its socket is gone, for  *)
(* whatever reason.                                                          *)
SocketLossNoticed == screen \in LinkScreens /\ socket \in Over ~> screen \in Ended
=============================================================================
