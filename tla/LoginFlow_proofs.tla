---------------------------- MODULE LoginFlow_proofs ----------------------------
(***************************************************************************)
(* The stored login survives what it should survive, and nothing else      *)
(* comes back: for any number of logins and keys, any failing call and a   *)
(* program killed between any two of them.  No screen of the login waits   *)
(* for a call that nobody has made.                                        *)
(***************************************************************************)
EXTENDS LoginFlow, TLAPS

(* The types the argument needs.                                             *)
Typed ==
  /\ tokens \in Tokens \cup {NoTokens}
  /\ pending \in Tokens \cup {NoTokens}
  /\ job \in [kind : {"none", "start", "poll", "load"},
              outcome : {"none", "running", "ok", "error", "pending", "slow_down",
                         "authorized", "refused", "rejected"},
              tokens : Tokens \cup {NoTokens}]
  /\ file \in Files
  /\ key \in Keys \cup {NoKey}
  /\ cleared \subseteq Tokens
  /\ durable \in Tokens \cup {NoTokens}
  /\ drawn \subseteq Keys

(* Tokens and keys that exist were issued and drawn.                         *)
Known ==
  /\ file.state = "whole" => file.tokens \in issued /\ file.key \in drawn
  /\ key # NoKey => key \in drawn
  /\ cleared \subseteq issued
  /\ issued \subseteq Tokens

(* A file that holds a cleared login does not match the key.                 *)
Unreadable == file.state = "whole" /\ file.tokens \in cleared => file.key # key

(* Tokens on their way from the service to the file are new there.           *)
New(t) == t \in issued /\ t \notin cleared /\ (file.state = "whole" => file.tokens # t)
FreshJob == job.outcome = "authorized" => New(job.tokens)
FreshSave ==
  /\ call \in {"key", "remove", "write"} => New(pending)
  /\ call = "use" => pending \notin cleared
  /\ call \in {"remove", "write"} => sealing = key /\ key \in Keys

(* Between two saves and clears, a save that went through can be read back.  *)
Durable ==
  durable # NoTokens =>
    /\ call \in {"none", "use"}
    /\ file.state = "whole" /\ file.tokens = durable /\ file.key = key

(* What App loads the catalog with, or offers to, was not cleared; while it  *)
(* clears a login it does neither.                                           *)
Loading ==
  /\ job.kind = "load" =>
       screen = "LoadingCatalog" /\ tokens \in Tokens \ cleared /\ job.tokens = tokens
  /\ retry = "ReloadCatalog" => screen = "Error" /\ tokens \in Tokens \ cleared
  /\ call # "none" => job.kind = "none" /\ retry # "ReloadCatalog"

(* Each screen has the job it waits for, or none.                            *)
Jobs ==
  /\ job.kind = "none" => job.outcome = "none"
  /\ screen = "LoadingCatalog" => job.kind \in {"load", "none"}
  /\ job.outcome = "authorized" => job.kind = "poll"

IInv == Typed /\ Known /\ Unreadable /\ FreshJob /\ FreshSave /\ Durable /\ Loading /\ Jobs

USE LoginAssumption

(* What the constant records and the two unreadable files are made of.       *)
LEMMA RecordFacts ==
  /\ NoJob.kind = "none" /\ NoJob.outcome = "none" /\ NoJob.tokens = NoTokens
  /\ NoFile \in Files /\ NoFile.state = "none" /\ NoFile.tokens = NoTokens
  /\ Broken \in Files /\ Broken.state = "broken" /\ Broken.tokens = NoTokens
BY DEF NoJob, NoFile, Broken, Files

(* What a request is made of.                                                *)
LEMMA JobFacts ==
  ASSUME NEW kind \in {"start", "poll", "load"}, NEW t \in Tokens \cup {NoTokens}
  PROVE  Job(kind, t).kind = kind /\ Job(kind, t).outcome = "running" /\ Job(kind, t).tokens = t
BY DEF Job

(* What a file that was written to its end is made of.                       *)
LEMMA SealedFacts ==
  ASSUME NEW t \in Tokens, NEW k \in Keys
  PROVE  /\ Sealed(t, k) \in Files /\ Sealed(t, k).state = "whole"
         /\ Sealed(t, k).tokens = t /\ Sealed(t, k).key = k
BY DEF Sealed, Files

(* What any file is made of.                                                 *)
LEMMA FileFacts ==
  ASSUME NEW f \in Files
  PROVE  /\ f.state = "whole" => f.tokens \in Tokens /\ f.key \in Keys
         /\ f.state # "whole" => f.tokens = NoTokens
BY DEF Files, NoFile, Broken

(* The initial state satisfies the invariant.                                *)
LEMMA InitInv == Init => IInv
BY RecordFacts DEF Init, IInv, Typed, Known, Unreadable, New, FreshJob, FreshSave, Durable, Loading,
  Jobs, NoJob

(* The start of the program keeps the invariant: App::new restores a login   *)
(* that was not cleared, or none.                                            *)
LEMMA StartInv == IInv /\ Start => IInv'
<1> SUFFICES ASSUME IInv, Start PROVE IInv'
  OBVIOUS
<1> USE DEF IInv, Typed, Known, Unreadable, New, FreshJob, FreshSave, Durable, Loading, Jobs, Go
<1>1. PICK t \in {Restorable, NoTokens} :
        /\ tokens' = t
        /\ IF t \in Readable
             THEN Go("LoadingCatalog", "none") /\ job' = Job("load", t)
             ELSE Go("Login", "none") /\ job' = NoJob
        /\ call' = IF t \in Tokens \ Readable THEN "clear file" ELSE "none"
        /\ durable' = IF t \in Tokens \ Readable THEN NoTokens ELSE durable
  BY DEF Start
<1>2. t \in Tokens \cup {NoTokens} /\ (t \in Tokens => t \notin cleared)
  BY <1>1, FileFacts DEF Restorable
<1>3. UNCHANGED <<pending, sealing, file, key, issued, drawn, cleared>>
  BY DEF Start, locals, stored
<1>4. CASE t \in Readable
  <2>1. /\ screen' = "LoadingCatalog" /\ retry' = "none" /\ tokens' = t /\ t \in Tokens
        /\ job' = Job("load", t) /\ call' = "none" /\ durable' = durable
    BY <1>1, <1>2, <1>4
  <2>2. job'.kind = "load" /\ job'.outcome = "running" /\ job'.tokens = t
    BY <2>1 DEF Job
  <2> QED
    BY <2>1, <2>2, <1>2, <1>3 DEF Job
<1>5. CASE t \notin Readable
  <2>1. screen' = "Login" /\ retry' = "none" /\ tokens' = t /\ job' = NoJob
    BY <1>1, <1>5
  <2>2. /\ call' \in {"none", "clear file"} /\ durable' \in {durable, NoTokens}
        /\ durable' # NoTokens => call' = "none"
    BY <1>1, <1>2
  <2>3. job'.kind = "none" /\ job'.outcome = "none" /\ job'.tokens = NoTokens
    BY <2>1, RecordFacts
  <2>4. Typed'
    BY <2>1, <2>2, <1>2, <1>3 DEF NoJob
  <2> QED
    BY <2>1, <2>2, <2>3, <2>4, <1>3
<1> QED
  BY <1>4, <1>5

(* So does the end of the program, between any two calls.                    *)
LEMMA KilledInv == IInv /\ Killed => IInv'
BY DEF Killed, NoJob, stored, past, IInv, Typed, Known, Unreadable, New, FreshJob, FreshSave, Durable, Loading,
  Jobs, Go

(* So does what the user may do on the screens of the login.                 *)
LEMMA CommandInv == IInv /\ (StartLogin \/ Reload \/ BackToLogin) => IInv'
<1> SUFFICES ASSUME IInv, StartLogin \/ Reload \/ BackToLogin PROVE IInv'
  OBVIOUS
<1> USE DEF IInv, Typed, Known, Unreadable, New, FreshJob, FreshSave, Durable, Loading, Jobs, Go,
      locals, stored, past
<1>1. CASE StartLogin
  BY <1>1 DEF StartLogin, Job
<1>2. CASE Reload
  BY <1>2 DEF Reload, Job
<1>3. CASE BackToLogin
  BY <1>3 DEF BackToLogin, NoJob
<1> QED
  BY <1>1, <1>2, <1>3

(* So does every arm of tick.                                                *)
LEMMA TickInv == IInv /\ Tick => IInv'
<1> SUFFICES ASSUME IInv, Tick PROVE IInv'
  OBVIOUS
<1> USE DEF IInv, Typed, Known, Unreadable, New, FreshJob, FreshSave, Durable, Loading, Jobs, Go,
      Polling, session, locals, stored, past
<1>1. CASE TickStarted
  BY <1>1 DEF TickStarted, NoJob
<1>2. CASE TickExpired
  BY <1>2 DEF TickExpired, NoJob
<1>3. CASE TickPoll
  BY <1>3 DEF TickPoll, Job
<1>4. CASE TickNotYet
  BY <1>4 DEF TickNotYet, NoJob
<1>5. CASE TickRefused
  BY <1>5 DEF TickRefused, NoJob
<1>6. CASE TickAuthorized
  BY <1>6 DEF TickAuthorized, NoJob
<1>7. CASE TickLoaded
  BY <1>7 DEF TickLoaded, NoJob
<1> QED
  BY <1>1, <1>2, <1>3, <1>4, <1>5, <1>6, <1>7 DEF Tick

(* So does each call of save_tokens and clear_tokens, whether or not it fails. *)
LEMMA StoreInv == IInv /\ Store => IInv'
<1> SUFFICES ASSUME IInv, Store PROVE IInv'
  OBVIOUS
<1> USE DEF IInv, Typed, Known, Unreadable, New, FreshJob, FreshSave, Durable, Loading, Jobs, Go,
      session, locals, stored, past
<1>1. CASE SaveKey
  BY <1>1, FileFacts DEF SaveKey
<1>2. CASE SaveRemove
  BY <1>2, RecordFacts DEF SaveRemove
<1>3. CASE SaveWrite
  <2>1. pending \in Tokens /\ New(pending) /\ sealing = key /\ key \in Keys /\ durable = NoTokens
    BY <1>3 DEF SaveWrite
  <2>2. CASE file' = Sealed(pending, sealing) /\ durable' = pending
    BY <2>1, <2>2, <1>3, SealedFacts DEF SaveWrite
  <2>3. CASE file' \in {file, Broken} /\ durable' = durable
    BY <2>1, <2>3, <1>3, RecordFacts DEF SaveWrite
  <2> QED
    BY <2>2, <2>3, <1>3 DEF SaveWrite
<1>4. CASE UseTokens
  BY <1>4 DEF UseTokens, Job
<1>5. CASE ClearFile
  BY <1>5, RecordFacts, FileFacts DEF ClearFile
<1>6. CASE ClearKey
  BY <1>6, FileFacts DEF ClearKey
<1> QED
  BY <1>1, <1>2, <1>3, <1>4, <1>5, <1>6 DEF Store

(* So does the end of a request, with tokens nobody has seen before.         *)
LEMMA TaskInv == IInv /\ TaskEnds => IInv'
<1> SUFFICES ASSUME IInv, TaskEnds PROVE IInv'
  OBVIOUS
<1> USE DEF IInv, Typed, Known, Unreadable, New, FreshJob, FreshSave, Durable, Loading, Jobs,
      session, locals, stored
<1>1. PICK outcome \in Outcomes[job.kind] :
        IF outcome = "authorized"
          THEN \E t \in Tokens \ issued :
                 /\ job' = [job EXCEPT !.outcome = outcome, !.tokens = t]
                 /\ issued' = issued \cup {t}
          ELSE job' = [job EXCEPT !.outcome = outcome] /\ UNCHANGED issued
  BY DEF TaskEnds
<1>2. job.kind \in {"start", "poll", "load"} /\ job.outcome = "running"
  BY DEF TaskEnds
<1>3. UNCHANGED <<screen, retry, tokens, call, pending, sealing, file, key, drawn, durable, cleared>>
  BY DEF TaskEnds
<1>4. CASE outcome = "authorized"
  <2>1. PICK t \in Tokens \ issued : job' = [job EXCEPT !.outcome = outcome, !.tokens = t]
                                     /\ issued' = issued \cup {t}
    BY <1>1, <1>4
  <2>2. job.kind = "poll"
    BY <1>2, <1>4 DEF Outcomes
  <2>3. job'.kind = "poll" /\ job'.outcome = "authorized" /\ job'.tokens = t
    BY <2>1, <2>2, <1>4
  <2>4. t \notin cleared /\ (file.state = "whole" => file.tokens # t)
    BY <2>1
  <2> QED
    BY <2>1, <2>2, <2>3, <2>4, <1>2, <1>3, <1>4
<1>5. CASE outcome # "authorized"
  <2>1. job' = [job EXCEPT !.outcome = outcome] /\ issued' = issued
    BY <1>1, <1>5
  <2>2. outcome \in {"ok", "error", "pending", "slow_down", "refused", "rejected"}
    BY <1>2, <1>5 DEF Outcomes
  <2> QED
    BY <2>1, <2>2, <1>2, <1>3
<1> QED
  BY <1>4, <1>5

(* Every step keeps the invariant.                                           *)
LEMMA NextInv == IInv /\ [Next]_vars => IInv'
<1> SUFFICES ASSUME IInv, [Next]_vars PROVE IInv'
  OBVIOUS
<1>1. CASE IntervalPasses \/ DeadlinePasses \/ UNCHANGED vars
  BY <1>1 DEF IntervalPasses, DeadlinePasses, vars, session, locals, stored, past,
    IInv, Typed, Known, Unreadable, New, FreshJob, FreshSave, Durable, Loading, Jobs
<1> QED
  BY <1>1, StartInv, KilledInv, CommandInv, TickInv, StoreInv, TaskInv DEF Next

(* The invariant holds in every state of every run.                          *)
LEMMA Invariant == Spec => []IInv
BY InitInv, NextInv, PTL DEF Spec

(* The rest of the types, which no step that keeps Typed can disturb.        *)
RestTyped ==
  /\ screen \in {"Off", "Login", "StartingDeviceLogin", "WaitingForDeviceAuthorization",
                 "LoadingCatalog", "Catalog", "Error"}
  /\ retry \in {"none", "RestartLogin", "ReloadCatalog"}
  /\ wait \in 0 .. 2
  /\ call \in {"none", "key", "remove", "write", "use", "clear file", "clear key"}
  /\ sealing \in Keys \cup {NoKey}

(* A delay that is set, or runs down, stays within two intervals.            *)
LEMMA WaitFacts ==
  ASSUME NEW w \in 0 .. 2
  PROVE  0 \in 0 .. 2 /\ 1 \in 0 .. 2 /\ 2 \in 0 .. 2 /\ (w > 0 => w - 1 \in 0 .. 2)
BY SMT

(* Every step sets them to one of their values; a key that is drawn, or kept,*)
(* is one of Keys by the invariant.                                          *)
LEMMA RestTypedStep == IInv /\ RestTyped /\ [Next]_vars => RestTyped'
<1> SUFFICES ASSUME IInv, RestTyped, [Next]_vars PROVE RestTyped'
  OBVIOUS
<1> USE DEF Go, session, code, locals, stored, past
<1>1. CASE Start
  BY <1>1 DEF Start, RestTyped
<1>2. CASE StartLogin \/ Reload \/ BackToLogin
  BY <1>2 DEF StartLogin, Reload, BackToLogin, RestTyped
<1>3. CASE Killed
  <2>1. screen' = "Off" /\ retry' = "none" /\ wait' = 0 /\ call' = "none" /\ sealing' = NoKey
    BY <1>3, Zenon DEF Killed
  <2>2. wait' \in 0 .. 2
    BY <2>1, WaitFacts, Zenon DEF RestTyped
  <2> QED
    BY <2>1, <2>2, Zenon DEF RestTyped
<1>4. CASE Tick
  <2>1. /\ screen' \in {screen, "WaitingForDeviceAuthorization", "Error", "Catalog"}
        /\ retry' \in {retry, "none", "RestartLogin", "ReloadCatalog"}
        /\ wait' \in {wait, 1, 2}
        /\ call' \in {call, "key", "clear file"}
        /\ sealing' = sealing
    BY <1>4, Zenon DEF Tick, TickStarted, TickExpired, TickPoll, TickNotYet, TickRefused,
      TickAuthorized, TickLoaded
  <2>2. wait' \in 0 .. 2
    BY <2>1, WaitFacts, Zenon DEF RestTyped
  <2> QED
    BY <2>1, <2>2, Zenon DEF RestTyped
<1>5. CASE Store
  BY <1>5 DEF Store, SaveKey, SaveRemove, SaveWrite, UseTokens, ClearFile, ClearKey, IInv, Typed,
    RestTyped
<1>6. CASE TaskEnds \/ IntervalPasses \/ DeadlinePasses \/ UNCHANGED vars
  <2>1. /\ UNCHANGED <<screen, retry, call, sealing>>
        /\ wait' = wait \/ (wait > 0 /\ wait' = wait - 1)
    BY <1>6, Zenon DEF TaskEnds, IntervalPasses, DeadlinePasses, vars
  <2>2. wait' \in 0 .. 2
    BY <2>1, WaitFacts, Zenon DEF RestTyped
  <2> QED
    BY <2>1, <2>2, Zenon DEF RestTyped
<1> QED
  BY <1>1, <1>2, <1>3, <1>4, <1>5, <1>6 DEF Next

ExpiredTyped == expired \in BOOLEAN

(* The deadline is a flag.                                                   *)
LEMMA ExpiredStep == ExpiredTyped /\ [Next]_vars => ExpiredTyped'
<1> SUFFICES ASSUME ExpiredTyped, [Next]_vars PROVE ExpiredTyped'
  OBVIOUS
<1>1. expired' = expired \/ expired' = TRUE \/ expired' = FALSE
  BY Zenon DEF Next, vars, code, Start, StartLogin, Reload, BackToLogin, Killed, Tick, TickStarted,
    TickExpired, TickPoll, TickNotYet, TickRefused, TickAuthorized, TickLoaded, Store, SaveKey,
    SaveRemove, SaveWrite, UseTokens, ClearFile, ClearKey, TaskEnds, IntervalPasses, DeadlinePasses
<1> QED
  BY <1>1, Zenon DEF ExpiredTyped

(* TypeOK, for any number of logins and keys; among others no poll is ever   *)
(* delayed by more than the two intervals of a slow_down.                    *)
THEOREM LoginTypeCorrect == Spec => []TypeOK
<1>1. Init => RestTyped
  BY DEF Init, RestTyped
<1>2. Init => ExpiredTyped
  BY Zenon DEF Init, ExpiredTyped
<1>3. IInv /\ RestTyped /\ ExpiredTyped => TypeOK
  BY Zenon DEF ExpiredTyped, IInv, Typed, Known, RestTyped, TypeOK
<1> QED
  BY Invariant, RestTypedStep, ExpiredStep, <1>1, <1>2, <1>3, PTL DEF Spec

(* SavedLoginIsRestored: a save that went through is what load_tokens finds. *)
THEOREM SavedLoginSurvives == Spec => []SavedLoginIsRestored
<1>1. IInv => SavedLoginIsRestored
  BY DEF IInv, Durable, SavedLoginIsRestored, Restorable
<1> QED
  BY Invariant, <1>1, PTL

(* ClearedIsNotRestored: what clear_tokens reached in either place stays so. *)
THEOREM ClearedLoginStaysCleared == Spec => []ClearedIsNotRestored
<1>1. IInv => ClearedIsNotRestored
  BY DEF IInv, Typed, Unreadable, ClearedIsNotRestored, Restorable
<1> QED
  BY Invariant, <1>1, PTL

(* RetryHasTokens: the expect() of the catalog retry never panics.           *)
THEOREM RetryNeverPanics == Spec => []RetryHasTokens
<1>1. IInv => RetryHasTokens
  BY DEF IInv, Loading, RetryHasTokens
<1> QED
  BY Invariant, <1>1, PTL

(* ClearedIsNotUsed: the catalog is loaded with the login App holds, which   *)
(* was not cleared.                                                          *)
THEOREM ClearedLoginNotUsed == Spec => []ClearedIsNotUsed
<1>1. IInv => ClearedIsNotUsed
  BY DEF IInv, Loading, ClearedIsNotUsed
<1> QED
  BY Invariant, <1>1, PTL

-----------------------------------------------------------------------------
(* What LoginScreensEnd rests on: no screen waits for nothing.               *)

(* A screen that cannot be left waits for its own request, whose outcome is  *)
(* one that the screen has an arm for; a stored login is written only while  *)
(* the code is shown, and cleared only behind a screen that ended.           *)
WaitsForItsJob ==
  /\ screen = "StartingDeviceLogin" => job.kind = "start" /\ call = "none"
  /\ screen = "LoadingCatalog" => job.kind = "load" /\ call = "none"
  /\ screen = "WaitingForDeviceAuthorization" => job.kind \in {"none", "poll"}
  /\ job.kind # "none" => job.outcome \in {"running"} \cup Outcomes[job.kind]
  /\ call \in {"key", "remove", "write", "use"} => screen = "WaitingForDeviceAuthorization"
  /\ call \in {"clear file", "clear key"} => screen \in {"Login", "Error"}

(* Every step keeps it.                                                      *)
LEMMA WaitsStep == IInv /\ WaitsForItsJob /\ [Next]_vars => WaitsForItsJob'
<1> SUFFICES ASSUME IInv, WaitsForItsJob, [Next]_vars PROVE WaitsForItsJob'
  OBVIOUS
<1>0. call # "none" => job.kind = "none"
  BY DEF IInv, Loading
<1> USE DEF WaitsForItsJob, Go, session, code, locals, stored, past
<1>1. CASE Start
  <2>1. \/ /\ screen' = "LoadingCatalog" /\ call' = "none"
           /\ \E t : job' = Job("load", t)
        \/ screen' = "Login" /\ call' \in {"none", "clear file"} /\ job' = NoJob
    BY <1>1 DEF Start
  <2>2. \A t : Job("load", t).kind = "load" /\ Job("load", t).outcome = "running"
    BY DEF Job
  <2>3. \/ screen' = "LoadingCatalog" /\ call' = "none" /\ job'.kind = "load" /\ job'.outcome = "running"
        \/ screen' = "Login" /\ call' \in {"none", "clear file"} /\ job'.kind = "none"
    BY <2>1, <2>2, RecordFacts
  <2> QED
    BY <2>3
<1>2. CASE Killed \/ StartLogin \/ Reload \/ BackToLogin
  <2>1. CASE Killed \/ BackToLogin
    BY <2>1, RecordFacts DEF Killed, BackToLogin
  <2>2. CASE StartLogin
    BY <2>2 DEF StartLogin, Job
  <2>3. CASE Reload
    BY <2>3 DEF Reload, Job
  <2> QED
    BY <1>2, <2>1, <2>2, <2>3
<1>3. CASE Tick
  <2>1. CASE TickStarted \/ TickExpired \/ TickNotYet \/ TickRefused \/ TickAuthorized
    <3>1. job'.kind = "none" /\ call = "none" /\ call' \in {"none", "key"}
      BY <2>1, RecordFacts DEF TickStarted, TickExpired, TickNotYet, TickRefused, TickAuthorized,
                               Polling
    <3>2. screen' \in {"WaitingForDeviceAuthorization", "Error"}
      BY <2>1 DEF TickStarted, TickExpired, TickNotYet, TickRefused, TickAuthorized, Polling
    <3>3. call' = "key" => screen' = "WaitingForDeviceAuthorization"
      BY <2>1, <3>1 DEF TickStarted, TickExpired, TickNotYet, TickRefused, TickAuthorized, Polling
    <3> QED
      BY <3>1, <3>2, <3>3
  <2>2. CASE TickPoll
    BY <2>2 DEF TickPoll, Polling, Job
  <2>3. CASE TickLoaded
    BY <2>3 DEF TickLoaded, NoJob
  <2> QED
    BY <1>3, <2>1, <2>2, <2>3 DEF Tick
<1>4. CASE Store
  <2>1. CASE SaveKey \/ SaveRemove \/ SaveWrite
    BY <2>1 DEF SaveKey, SaveRemove, SaveWrite
  <2>2. CASE UseTokens
    BY <1>0, <2>2 DEF UseTokens, Job
  <2>3. CASE ClearFile \/ ClearKey
    BY <2>3 DEF ClearFile, ClearKey
  <2> QED
    BY <1>4, <2>1, <2>2, <2>3 DEF Store
<1>5. CASE TaskEnds
  <2>1. PICK outcome \in Outcomes[job.kind] :
          \E t : job' \in {[job EXCEPT !.outcome = outcome],
                           [job EXCEPT !.outcome = outcome, !.tokens = t]}
    BY <1>5 DEF TaskEnds
  <2>2. job'.kind = job.kind /\ job'.outcome = outcome
    BY <2>1 DEF IInv, Typed
  <2>3. UNCHANGED <<screen, call>>
    BY <1>5 DEF TaskEnds
  <2> QED
    BY <2>1, <2>2, <2>3
<1>6. CASE IntervalPasses \/ DeadlinePasses \/ UNCHANGED vars
  BY <1>6 DEF IntervalPasses, DeadlinePasses, vars
<1> QED
  BY <1>1, <1>2, <1>3, <1>4, <1>5, <1>6 DEF Next

(* The safety half of LoginScreensEnd: in every state, also after failed     *)
(* calls and rejected logins, a screen without a way back has a request of   *)
(* its own under way or answered, and no answer is one it does not handle.   *)
THEOREM NoScreenWaitsInVain == Spec => []WaitsForItsJob
<1>1. Init => WaitsForItsJob
  BY DEF Init, WaitsForItsJob, NoJob
<1> QED
  BY <1>1, Invariant, WaitsStep, PTL DEF Spec
=============================================================================
