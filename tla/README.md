# Jade Vita in TLA+

Jade Vita is a GeForce NOW client for the PS Vita: it logs in with a device
code, shows the game catalog, asks NVIDIA's CloudMatch service for a streaming
session, negotiates WebRTC over a signaling WebSocket, and decodes H.264 into
two textures that its UI loop draws. This directory specifies the parts of it
whose correctness depends on the order in which things happen, checks them with
TLC on small instances, and proves their safety, and that of the hand-overs which
liveness rests on, with TLAPS for every value of the constants.

Paths below are relative to the repository root (`src/app/mod.rs` is the
application's state machine).

## The system

One thread runs everything that is called "the UI loop" here: `shell::run`
(`src/shell/mod.rs`) reads input, passes commands to `App::handle_command`,
calls `App::tick`, lets the surface pick up the newest video picture, draws the
interface (which produces more commands), presents, and sleeps or yields. The
same thread is the executor of all tokio tasks: HTTP jobs and the signaling
socket run while the loop sleeps, and interleave with each other at their
awaits. Real threads run beside it: per streaming session the peer thread with
the WebRTC stack and the video decode thread, and for the life of the program
the audio decode thread.

| component | state it keeps | operations | talks to |
|---|---|---|---|
| `App` (`src/app/mod.rs`) | `AppState` (one of eleven screens with their data), tokens, exit dialog, search debounce | `handle_command`, `tick` | spawns jobs and polls their `JoinHandle`s; owns `SignalingHandle` and `PeerEngine` |
| CloudMatch client (`src/gfn/cloudmatch.rs`) | none of its own; a launch task holds request state | `create_session`, `poll_session`, `stop_session` | REST service |
| signaling client (`src/gfn/signaling.rs`) | the WebSocket, peer ids, ack counter | `connect`, `run`, `handle_incoming_message`, handle methods | two unbounded channels to `App`; server |
| peer thread (`src/gfn/peer.rs`) | rtc peer connection, UDP socket, access unit in assembly, input encoder | `PeerEngine::new`, `run_peer`, `Drop` | channels and shared slots to `App`; bounded queue to the decoder |
| video output (`src/streaming/video/mod.rs`, `worker.rs`, `src/shell/surface.rs`) | two textures, mutex-protected hand-over state, latest-frame slot | `set_targets`, `clear_targets`, `mark_displayed`, `lock_decode_target`, `publish`, `sync_video_frame` | UI loop and decode thread |
| login and tokens (`src/gfn/auth.rs`) | encrypted token file, key in Safe Memory | device-code start and poll, save, load, clear | login service, storage |
| catalog search (`src/app/mod.rs`) | list, filter, query, debounce, one job | `apply_search_query`, `advance_catalog_search` | GraphQL service |
| audio (`src/streaming/audio.rs`) | SDL queue, two bounded channels, the decode thread | `submit_packets` once a frame | peer thread (through a bounded queue), audio device |
| covers (`src/gfn/covers.rs`) | a map from games to pictures, shared with its tasks; permits | `request` for every tile drawn | image server |

What is hard about it: jobs are detached, not cancelled, when a screen is left;
a request that timed out may have been served; three actors share a session and
tell each other about its end only through queues; two threads share texture
memory that one of them may free; screens carry state that must agree with what
the tasks are doing; a slow frame lets a bounded wait expire; every queue on the
way of picture and sound is bounded, and each drops at another end; packets are
lost and overtaken.

## Modules

| module | models | abstract role |
|---|---|---|
| `CloudMatch` | launch tasks, stop tasks, the REST service | what any user of the client may rely on; abstract specification of `SessionLifecycle` |
| `SessionLifecycle` (extends `CloudMatch`) | the screens from the game's detail page to streaming and errors, the exit dialog | implements `CloudMatch`; abstract specification of `StreamLink`'s screens |
| `StreamLink` | one session in detail: `App`'s two arms, the signaling task, the peer thread, their queues | its steps are steps of `SessionLifecycle` (`MCStreamLink`) |
| `DirectVideo` | UI loop and decode threads over the two textures | |
| `CatalogSearch` | the catalog screen: grid, local filter, debounced search, and the visits to other screens that interrupt it | |
| `LoginFlow` | device-code login, the token file and its key across failures and kills, the catalog load and its retries | |
| `MediaPath` | the peer thread's loop and the decode worker's: RTP packets to access units, gamepad snapshots, due timers, the end of both threads | continues where `StreamLink` (set-up) ends and `DirectVideo` (decoding) begins |
| `AudioPipeline` | Opus packets from the peer's queue through the decode thread to the SDL queue and the device | |
| `CoverStore` | the cache of cover art and its download tasks | |
| `..._proofs` | the theorems about the module of the same name; `SessionLifecycle_proofs` has those of `CloudMatch` as well | |
| `MCStreamLink`, `MCCatalogSearch` | the refinement mapping into `SessionLifecycle`; a catalog of four games and three queries | |

### CloudMatch

`phase[l]` is the position of launch task `l` in `create_session` and
`poll_session`; one action is the code between two awaits. A POST is split into
its arrival at the service (`ServerCreates`, `ServerRefuses`, `ServerRejects`)
and the reading of its answer (`ReadCreated`, `ReadLimit`, `ReadUnusable`), and
`SendFails` may come before, between or instead: this is the timed-out request
that was served. `ReadLimit` ... `SendAgain` are the `SESSION_LIMIT_EXCEEDED`
branch with its evictions, its pause and its one resend. `Evict`, `StopArrives`
and `StopLost` give a DELETE two outcomes the client does not distinguish.
`ServerForbids` is a 403 that is no limit, with any sessions or none in its
body: the client takes the same branch. `PollReady` may read an answer that is
no longer true, of a session that was stopped meanwhile.
Left out: the 5xx counter of `poll_session` (`PollAgain` and `PollFails` cover
both of its outcomes at any time) and a POST that arrives after its sender has
already given up and moved on. The service is assumed to answer a poll about
the session it was asked about.

### SessionLifecycle

`screen` is the `AppState` variant; `job` and `session` are the payloads that
matter. Each command of the user and each arm of `tick` is one action, since
both run to completion on the UI loop. The signaling socket and the peer are
reduced to "an offer came" and "it was lost". Login, catalog and search are the
screen `"Home"`; `LoginFlow` and `CatalogSearch` model what happens there. `confirm_exit` may be set while any screen is shown, as in the
code, where only the dialog's buttons and the toggle reset it.

### StreamLink

The four channels are sequences: `commands` and `events` between `App` and the
signaling task, `peerCommands` and `peerEvents` between `App` and the peer
thread. Offers and candidates are numbered by arrival. `TickSignaling` takes a
batch of at most `MaxEventsPerTick` events and stops in its midst at an offer;
`TickStreaming` drains both event channels. `TakeCommand` and `Receive...` are
branches of the `select!` loop (its heartbeats and acknowledgements change
nothing that anyone here reads); `Connected` and `ConnectFailed` stand before
it, where no command is read. `Write` is the handing to the WebSocket: the code
ignores an error of it (`src/gfn/signaling.rs:361`). What broke the connection
shows on the read side, as `ReceiveEnd` or `ReceiveTransportError`, and what was
written until then is lost on the way, so `written` is what was handed over, not
what the server has read. Two failures (`ReceiveTransportError`,
`PeerRuntimeFails`) are reported in a way `App` ignores; a task that ended
through one of them is `"failed"`, any other that ended is `"ended"`, so that
the liveness properties can say which ends `App` notices. Payloads, acks and JSON are data and left out; so is the filter for TCP
candidates, since the one local candidate is a UDP host candidate.

### DirectVideo

One frame of the UI loop is split at every point where the decode thread can
see the difference: `events` (commands and `tick`), `sync` (detach, attach,
look at the slot), `free`, `mark`, `ui` (commands of the interface), `draw`. The
mutex of `DirectVideoOutput` is held exactly while `decoder[o] = "writing"`
(the guard of `lock_decode_target` keeps it during a decode call), so an
operation of the UI loop that takes the mutex has the guard `Unlocked(o)`.
`Wake` and `TimeOut` are the two ways out of `wait_timeout_while`. A session is
an output `o`; `PeerStarted` for the next one may come before the decode thread
of the last has ended. `content` and `torn` say what a texture shows. Each
`NoPicture` may leave part of a picture, as a failed decode call does. Left out:
asynchronous reads of a texture by the GPU after `present` returned, and
`reset_decoder`, which nothing calls. `PeerStarted` over-approximates timing:
the interface can start a session in any frame without one.

### CatalogSearch

`screen` is the catalog, the detail page, any other screen (`"away"`) or the
reload behind an error (`"loading"`). The grid is `games`, `filtered_indices`
and `selected`, with indices from 0 as in the code. `search_pending_since` is
the debounce: none, running, or elapsed. A request is a record of its query and
its outcome; `TickResults`, `TickSearchFailed` and `TickDispatch` are the three
ends of `advance_catalog_search`, tried in that order, and `TickElsewhere` is
its early return, which drops request and timer. What the service answers
(`Results`) and what the local filter keeps (`Matches`) are constants. The
field reports only changes, hence the guard of `SetSearchQuery`. The history
variable `gap` is set when a search was dropped or failed and reset when the list
is replaced by an answer or loaded anew. A load leaves
`last_dispatched_search_query` as it was, and a query equal to it is taken for
sent although the list is another: the history variable `carried` is that query
until another one is sent. `SettledListIsCurrent` and `QueryIsAnswered` leave out
both cases. The run `SearchRestore` shows what happens in the first; for the second
see below.

### LoginFlow

`save_tokens` and `clear_tokens` run on the UI loop, but the program may be
killed between any two of their calls and each call may fail; so each is an
action, and `call` is the program counter. `Killed` is enabled everywhere.
`file` is what `gfn-auth.json` holds: nothing, garbage, or tokens with the key
they were sealed with; the cipher is what it guarantees, a file opens with its
key and with no other. `wait` counts intervals until `next_poll_at`, `expired`
is the deadline. The screen `"Catalog"` stands for every screen behind the
login. `issued` and `drawn` are the logins and keys there have been; `durable`
is the login whose save went through (not when the old file could not be
removed, since the new one may then be garbage), `cleared` the logins of which
the file or the key was removed.

### MediaPath

Video packets are numbered as they are sent; `Markers` are those that end an
access unit. `Overtaken` loses the next packet or lets it be read later
(`ReadLate`). The depacketizer is a library, so `Depacketized` lets it keep a
fragment, give out what it has, or fail, at every packet. `Collect` is the code
around it, including that the rest of a broken access unit is still collected
and submitted at its marker (`src/gfn/peer.rs:494`). The history variable
`expected` is the packet that keeps `run_peer` in step, 0 when it is not. A marker
that is read, and after which the depacketizer holds nothing, brings it into
step; the next packet, as long as it comes and is not lost or held back, keeps it
there. `Resyncs` speaks of the units collected in step. It leaves out the unit
behind a damaged one whose marker was lost or left a fragment held: there the
code puts what is left of the damaged unit in front of it, and so does the model.
`sent` is the last snapshot handed to the data channel; without one, or when its
`send` fails, the code drops the snapshot without a word (`src/gfn/peer.rs:614-628`),
which `sent` does not tell apart.
`commands` is the peer thread's queue after set-up; candidates are
`StreamLink`'s. A timer that is due is handled before anything is waited for,
hence the guard of `Commands`. `PeerFails` stands for all ways in which
`run_peer` returns by itself. `StopDecoder` is the biased `select` of the
decode loop: a stop goes before queued access units. Left out: heartbeats,
counters of the status line, and `reset_decoder`, which nothing calls.

### AudioPipeline

`submit_packets` is split at every call on a channel, since the decode thread,
the device and the peer thread run in between: `Submit`, `SendPacket`,
`PacketsSent`, `DrainSample`, `Drained`. The decode thread receives and decodes
in one action (`TakePacket`; a failed decode leaves it without sound to send),
and then sends (`SendSamples`), which blocks while the channel is full: nothing
but the UI loop's `DrainSample` lets it go on. Packets are numbered by arrival, sound
is counted in units. A send to a full channel drops the packet; one to a thread
that has ended replaces both channels and the thread (`RestartDecodeWorker`),
unless none can be spawned. `Play` is the device. `PeerReplaced` is the end of
a session; the renderer and what it has queued outlive it, as in the code.

### CoverStore

`inner` maps each cover to its `CoverState`, per store: a reload of the catalog
(`NewStore`) begins with an empty map while tasks go on writing into the old
one. `waiting` is the queue of the semaphore, `downloading` the tasks with a
permit. `Request` is enabled whenever a tile may be drawn, in every frame. Left
out: what is in a picture, and a panic inside a task, after which a cover would
stay `Loading`.

## Runs

| run | bounds | why they are enough |
|---|---|---|
| `Session` | 2 launches, 3 sessions, limit 1, 1 send, 1 poll | a detached launch beside a current one, and a limit answer that names the other's session; resends are covered by `CloudMatch` |
| `CloudMatch` | 2 launches, 2 sessions, limit 2, 2 sends, 2 polls | one launch takes both seats by a lost answer, the other's limit answer lists them; after a refusal that lists one session, or none, a resend gets a seat; every loop is taken and left. The code's 3 sends add only further repetitions, and three sessions are in `Session` |
| `Link` | 2 offers, 3 candidates, 1 bad packet, batch of 2 | candidates before, behind and in the offer's batch; more events than one tick reads |
| `Video` | 2 sessions, 2 pictures each, 1 timeout | both textures are reused, a session follows another, a wait ends with its picture pending |
| `Search` | 3 queries, 4 games, 2 columns; nothing else to bound | queries that find more, less and other games than the local filter, and nothing |
| `Login` | 3 logins, one of them unreadable; 3 keys | a login saved over another that was cleared, with keys lost and drawn again in between |
| `Media` | 5 packets in access units of 2, 1 and 2; queue of 2; 2 snapshots | damage in a unit of several packets, followed by a short one and by a whole one; a full queue; a snapshot overtaken by a newer one and by Close |
| `Audio` | 5 packets, 1 death; capacities 2, 2, 1; start at 2, limit 3, frames of up to 4 | each of the three queues overflows with packets behind it, the thread blocks on its output, a frame exceeds the limit, a restart has packets on both sides |
| `Covers` | 3 covers, 2 permits, 2 stores | a task waits for a permit while others fail and are asked for again, in a store that was left |
| `SessionLeak`, `LinkTransportError`, `SearchRestore` | small | they end at the first counterexample |

`CHECK_DEADLOCK FALSE` is set where the system stops by itself: launches and
sessions are finite, and a session that is over takes no more steps. No run
uses symmetry: each passing run checks liveness beside the invariants, and
symmetry is not sound for it.

What the passing runs show is stated above each property in its module. Type
invariants are proved and not run again. The other three runs are disagreements
between the code and what is written about it:

* `SessionLeak` (`ExitCancelsSession`): confirming "cancel the active session"
  on the launch screen (`src/app/ui.rs:990`) only forgets the launch. The
  detached task goes on, is given a session and reports it to nobody; the seat
  stays taken until the service reclaims it or a later launch evicts it.
* `LinkTransportError` (`SocketLossNoticed`): a websocket error ends the
  signaling task with `Error`, not `Disconnected`, and `App` ignores `Error`.
* `SearchRestore` (`BackRestoresCatalog`): Back empties the field and starts a
  search for the whole catalog; opening a game drops that search, and since
  `last_dispatched_search_query` still names it, it is never sent again.

Others are known from the code and have no run; where a model reaches them it
has them as the code does.

* `MoveDown` passes 1 where `move_in_grid` expects the columns, so Down does
  what Right does (`src/app/mod.rs:567`).
* After a load of the catalog the query last sent before it, typed again, is taken
  for sent and never sent (`src/app/mod.rs:1021`), although nothing failed or was
  dropped: the list goes on showing the whole catalog. The comment at
  `src/app/mod.rs:217` has it that a search is held back only when nothing new was
  typed. `CatalogSearch` marks these states by `carried`.
* The exit dialog's flag is reset by the dialog's buttons only
  (`src/app/mod.rs:284`). A launch that fails, or a stream that is lost, while it is
  open leaves it over the error screen and the screens behind it, where it asks of
  an active session that does not exist. `SessionLifecycle` has it so.
* Confirm on an empty grid opens a detail page without a game
  (`src/app/mod.rs:662`).
* While a local filter is shown, the detail page shows `games[selected]`
  (`src/app/ui.rs:626`) and Confirm launches `games[filtered_indices[selected]]`
  (`src/app/mod.rs:838`).
* `advance_login_poll` looks at the deadline before the finished poll, and drops
  tokens that have arrived with it (`src/app/mod.rs:1338`).
* `slow_down` doubles one wait only (`src/app/mod.rs:1390`).
* Nothing resets `App.tokens` on the way back to the login
  (`src/app/mod.rs:940`).
* `exit_session` orders "close, then stop" (`src/app/mod.rs:473`), but these are
  requests to two tasks, and the DELETE may overtake the Close.
* A peer thread without a runtime ends with an `Error` that `App` takes for a
  warning (`src/gfn/peer.rs:136`).
* "drop the partial AU and wait for the next one" (`src/gfn/peer.rs:494`): the
  rest of the broken one is collected and submitted first, and together with the
  next unit if its marker is lost or leaves a fragment held.
* "Dropping this does not close the connection" (`src/gfn/signaling.rs:64`): it
  does, when the task reads `None` (`src/gfn/signaling.rs:226`). `ClosedExplicitly`
  states what `App` does anyway.
* Dropping the newest packet of a full channel "should only trigger under a
  genuine decode-thread stall" (`src/streaming/audio.rs:164`); the thread also
  waits when its output is full, which only the next frame drains.
* Less than 40 ms of sound at the end of a session stay queued and paused, and
  are played at the start of the next; a frame of 120 ms is longer than the
  queue is meant to hold.
* The comment of `CoverStore::request` calls it a no-op for what failed
  (`src/gfn/covers.rs:108`); it starts another download, in the next frame in
  which the tile is drawn. Permits belong to a store, so two stores may
  download twice as much at once.

## Fairness

* `tick` runs in every frame, and a frame ends (`WF` of the tick actions).
* Between frames the loop sleeps or yields, so tasks run; a request ends within
  the HTTP client's 15 s timeout (`src/gfn/auth.rs:34`), so `WF` of a task's
  steps, answer or error.
* The `select!` loop polls its branches in random order, so a queued command is
  taken; the peer thread's set-up and loop do not block.
* The decode call returns, and a woken thread runs.
* The peer thread's loop goes round and a timer that is due is handled. That its
  commands are read needs `SF`: a timer may come due again and again, and the
  rtc library is assumed not to keep one due for ever.
* The audio decode thread is scheduled when it is not blocked; in `send` it waits
  for the UI loop, and no failure is assumed to free it. The audio device need not play.
* The semaphore serves in the order of arrival, and a download ends within the
  HTTP client's timeout.
* The debounce, the poll interval and the deadline of a login code pass, and the
  calls of the token store return.
* Nothing is assumed of the user, of the service's or the server's choices, of
  the WebSocket handshake (it has no timeout), of access units, or of the 67 ms
  wait running out.

## Proofs

`SessionLifecycle_proofs` begins with the client by itself. It strengthens the
type invariant of `CloudMatch` by what a launch knows and
the service has issued: sessions seated or named in an answer have been issued,
a created answer names one session that nobody else holds, and in the eviction
phases the listed sessions that are still seated are either still to be deleted
or their DELETE was lost. `OneOwnerPerSession` and `EvictionFreesSeats` are not
inductive without these. For `App` it is extended by the link
between screen, job and session, and by "what was asked to stop had been taken
over"; `Refinement` shows that each step of `App` is a step of `CMNext` or
leaves `cmVars` alone, for which it needs that a held session was reported
ready. That link (`CarriedByScreen`) is part of the invariant only: the code has it
from the shape of `AppState`. `DirectVideo_proofs` proves one invariant with the parts `Ownership`
(targets are registered exactly with the attached output and its textures),
`FreshBeforeAttach`, `Counting`, `HandOver` (how pending, displayed and the
texture being written relate while nothing has stalled), `ShownIsWhole` and
`StallOnce`. `FramesMoveForward` holds for any number of stalls, where
`HandOver` says nothing: `Forward` adds that the pictures that wait, those
decoded over included, are all in one texture, which has the newest.

`CatalogSearch_proofs` carries `SettledListIsCurrent` with `InStep`: a request
that is running is for the latest query sent, without one the games are the
answer to it, unless it is the one `carried` over a load, and without a timer it is
the query in the field. The property alone says nothing of the states from which a
settled one is reached.
`LoginFlow_proofs` needs, for its four theorems, that every login and key in a
variable has been issued or drawn (so a new one is fresh), that a login whose
save is under way is not cleared, that a file sealed with a key is opened by
that key, and that a catalog load is for `App`'s tokens.

`GridInRange` rests on what the filter returns, indices of the list it was given
(`IndicesTyped`), and on that whatever replaces the list replaces indices and
selection with it (`Selectable`); until then the arithmetic of `move_in_grid`
stays inside (`MoveInside`).

`StreamLink_proofs` first sorts the steps by what they do to screen, dialog and
stop (`ScreenSteps`), and then maps each sort to its action of
`SessionLifecycle`; the link between the stop and the screens (`Screened`) is
all the invariant that the refinement takes, so that it covers every content of
the queues. The order in the queues has two invariants of its own.

* `IceInv`, for `IceInOrder`: behind every offer that is still to be read stand
  exactly the candidates that came after it (`Numbered`), and before an offer is
  accepted no peer has any (`Unheard`). `IceInOrder` says nothing before the
  hand-over, so it cannot carry itself across it; with `Numbered` the tick that
  accepts the offer finds what the other arm is to pass on.
* `AnswerInv`, for `AnswerBeforeIce` and `ClosedExplicitly`: what the peer
  thread has said, what is queued for the socket and what is written make up one
  dialogue, spoken once (`Spoken`, `Dialogue`); an offer is heard on an open
  socket only and a `Disconnected` is the last word of one (`Heard`); and `App`
  queues its Close once, behind everything else (`Closing`).

`MediaPath_proofs` describes the unit in assembly by the packet it
starts with instead of by `CHOOSE` (`Starts`, unique by `FirstStarts`), and
carries from packet to packet that collected and held bytes are a run from
there. `AudioPipeline_proofs` splits the order of the sound into one statement
per queue and one per pair of neighbours, which a step disturbs at one place
only. `CoverStore_proofs` says in sets what `LoadingHasOneTask` counts: nobody
waits twice, or waits and downloads.

The filters of the code (`filter_indices`, and what the Streaming arm picks out
of its queues) are written so that they can be reasoned about: `Ascending` lists
a set of indices by their rank, `Selected` is a recursive function. That a
recursive function exists and returns what it should is an induction over a
sequence. The library's induction theorems cannot be instantiated, so
`NatSetInduction` takes it from `NatLessThanWellFounded` and `WFMin`: a set of
numbers that has a counterexample has a least one. `SelectedGrows` is what the
proofs about the link use.

A liveness property cannot be proved, but its safety half can: that what it
waits for is never lost, so that only the fairness is left to TLC.

| theorem | safety half of | says |
|---|---|---|
| `NoEndUntold` | `SocketCloseNoticed`, `PeerDeathNoticed`, `TeardownCompletes` | the event or Close that tells of an end is queued until it is read |
| `AnswerNotLost` | `AnswerReachesServer` | the answer is queued for `App`, queued for the socket, or written |
| `PendingPictureIsOffered` | `WaitEnds` | the picture the decode thread waits for is in the slot the UI loop reads, under a new id |
| `NoScreenWaitsInVain` | `LoginScreensEnd` | a screen without a way back has a request of its own, and handles its outcome |
| `NewestInputKept` | `LastInputArrives` | a queued snapshot is handed over, or a newer one is, and none after a newer one |
| `CloseNotLost` | `ThreadsEnd` | Close is in the peer thread's queue until the thread has ended |

`LoadingHasOneTask` is that of `CoverSettles`, and `SettledListIsCurrent` is close
to that of `QueryIsAnswered`. `NewestInputKept` promises a snapshot's delivery only once the input channel is
ready: before that the code drops what it reads (`src/gfn/peer.rs:520`), and so does
the model.

The theorems hold for any sets of launches, sessions, outputs, covers, queries,
games, logins and keys, any queue sizes and any bounds, from the named `ASSUME`s
of the modules only.

Only model-checked: the liveness properties, which need fairness and `ENABLED`.
Every invariant and every action property of the passing runs is proved.

## Not modelled

Drawing, translation, input mapping and locale; GraphQL queries and JSON
parsing; SDP rewriting and the byte layout of input packets; system calls of
the decoder and its memory. They keep no state that other parts race for. Of
the main loop, text input and the repeat of a held direction. Of the service,
POSTs that arrive after their sender has moved on.

## Plan

What would add most next, in this order:

1. The counters of `poll_session` (5xx answers in a row) in `CloudMatch`.
2. `MediaPath` as the environment of `DirectVideo`: one decode thread that takes
   queued access units and waits for textures, so that a full queue follows from
   a stalled UI loop.
3. Proofs that something is used up by every step of a launch (phases, sends and
   polls) and by every packet on its way through the decode thread: what
   `LaunchTerminates` and `PacketsMoveOn` rest on.
4. The interface's directions and repeats (`src/input.rs`, `src/shell/mod.rs`).
