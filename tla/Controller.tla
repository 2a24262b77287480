------------------------------ MODULE Controller ------------------------------
(***************************************************************************)
(* The connection of an Android device: the WireGuard controller of the    *)
(* SDK (AndroidWireGuard.kt) and the app's ladder of routes over it        *)
(* (MainActivity.kt): direct, then traversal, then relay.  Four threads    *)
(* meet in the controller: the app's main thread, the worker that looks    *)
(* whether the Bridge can be reached and falls back, the thread of the     *)
(* network callbacks, and the executor, the only one to touch the tunnel.  *)
(***************************************************************************)
EXTENDS Naturals, Sequences

CONSTANTS
  None,         \* no configuration; no task
  MaxAttempts,  \* ReconnectPolicy.maxAttempts
  MaxChoices,   \* bound: choices of the user, and lives of the app
  MaxEvents     \* bound: events of the system

Configs == {"direct", "p2p", "relay"}    \* by the endpoint they have
Tasks   == {"down", "attempt", "cycle"}

ASSUME ConstantsAssumption ==
  /\ MaxAttempts \in Nat \ {0} /\ MaxChoices \in Nat /\ MaxEvents \in Nat
  /\ None \notin Configs \cup Tasks

VARIABLES
  want,      \* desiredConnected, currentConfig and retryAttempt
  store,     \* SecureTunnelStore, as the process sees it
  disk,      \* what the next process may find there: commit writes at once, apply later
  state,     \* the state shown
  up,        \* the configuration the tunnel is up with, or None
  lost,      \* networkWasLost
  granted,   \* Android's consent to a VPN
  queue,     \* what the executor has to do
  delayed,   \* the attempt that waits for its delay
  exec,      \* the executor
  thread,    \* the others
  route, paired, pairing, notice, probe, current,     \* the app; see below
  choice,    \* history: the last thing the user asked for
  mishaps,   \* history: what went wrong
  choices, events     \* bounds

saved   == <<store, disk>>
world   == <<lost, granted>>
tasks   == <<queue, delayed>>
app     == <<route, paired, pairing, notice, probe, current>>
history == <<choice, mishaps, choices, events>>
vars == <<want, saved, state, up, world, tasks, exec, thread, app, history>>

-----------------------------------------------------------------------------
Want    == [desired: BOOLEAN, config: Configs \cup {None}, retry: Nat]
Store   == [desired: BOOLEAN, config: {"direct", None}]
States  == {"DISCONNECTED", "WAITING_PERMISSION", "CONNECTING", "CONNECTED",
            "RECONNECTING", "ERROR"}
Pairings == {"none", "asked", "answered"}
Routes  == {"RESTORED", "DIRECT", "P2P", "RELAY"}
Exec    == [pc: {"idle", "down", "downed", "connecting", "up", "done", "failed", "again"},
            task: Tasks \cup {None}, config: Configs \cup {None}]
Thread  == [pc: {"idle", "restore", "start", "schedule", "down", "forget", "clear", "lost",
                 "probe", "fallback", "prepare", "retreat", "relay", "request"},
            task: {"attempt", "cycle", None}, soon: BOOLEAN, loaded: BOOLEAN]

\* A tunnel that goes down unseen by the controller; one that is left up, by a call that
\* fails or by the end of the activity; a wish for a connection that is revived after a
\* disconnect, by a fallback or a pairing that crosses it or by a death that loses it.
Mishaps == {"unseen", "left", "revived"}

Resting == [pc |-> "idle", task |-> None, soon |-> FALSE, loaded |-> FALSE]
NoTask  == [pc |-> "idle", task |-> None, config |-> None]

Goto(t, pc) == thread' = [thread EXCEPT ![t].pc = pc]
Rest(t)     == thread' = [thread EXCEPT ![t] = Resting]

\* t has still to call scheduleReconnect, for start after a look at the consent.
ToSchedule(t, pc, task, soon) ==
  thread' = [thread EXCEPT ![t] = [pc |-> pc, task |-> task, soon |-> soon, loaded |-> FALSE]]

\* internalTransition: the executor is at work on the tunnel.
Internal == exec.pc \in {"up", "done", "failed", "again"}

\* setState: the app's listener posts CONNECTED to its main thread.
SetState(s) ==
  /\ state' = s
  /\ notice' = (notice \/ (s = "CONNECTED" /\ state # "CONNECTED"))
  /\ UNCHANGED <<route, paired, pairing, probe, current>>

\* probeGeneration.incrementAndGet: no probe that is under way is current any more.
Renew == probe' = FALSE /\ current' = FALSE

\* retryFuture.cancel(false): the attempt stays in the queue, where it does nothing
\* any more; one that has been taken from it is not stopped.
Cancelled == [i \in DOMAIN queue |-> IF queue[i] = "down" THEN "down" ELSE None]

\* scheduleReconnect.
ScheduleReconnect(task, soon) ==
  IF want.desired /\ want.config # None
    THEN IF soon THEN queue' = Append(Cancelled, task) /\ delayed' = None
                 ELSE queue' = Cancelled /\ delayed' = task
    ELSE UNCHANGED tasks

Choose(c) ==
  /\ choices < MaxChoices
  /\ choices' = choices + 1
  /\ choice' = c
  /\ UNCHANGED <<mishaps, events>>

Happen == events < MaxEvents /\ events' = events + 1 /\ UNCHANGED <<choice, mishaps, choices>>

Suffer(m) == mishaps' = mishaps \cup m /\ UNCHANGED <<choice, choices, events>>

-----------------------------------------------------------------------------
\* The main thread takes its work one after the other.
Free == thread["main"].pc = "idle"

\* connectSmart, with start up to the end of its lock; save commits to the disk.
ConnectSmart ==
  /\ Free
  /\ Renew /\ route' = "DIRECT" /\ paired' = TRUE
  /\ want' = [desired |-> TRUE, config |-> "direct", retry |-> 0]
  /\ store' = [desired |-> TRUE, config |-> "direct"] /\ disk' = {store'}
  /\ ToSchedule("main", "start", "attempt", TRUE)
  /\ UNCHANGED <<state, up, world, tasks, exec, notice>>

\* The user connects again.
Connect == paired /\ Choose("connect") /\ ConnectSmart /\ UNCHANGED pairing

\* provisionAndConnect: the user pairs to connect, one pairing at a time (bound).
Pair ==
  /\ Free /\ Choose("connect")
  /\ pairing = "none" /\ pairing' = "asked"
  /\ UNCHANGED <<want, saved, state, up, world, tasks, exec, thread,
                 route, paired, notice, probe, current>>

\* The Bridge answers the worker, or the pairing fails.
Provision ==
  /\ thread["worker"].pc = "idle"
  /\ pairing = "asked" /\ pairing' \in {"answered", "none"}
  /\ UNCHANGED <<want, saved, state, up, world, tasks, exec, thread,
                 route, paired, notice, probe, current, history>>

\* The app connects after the pairing, whatever has been chosen since it began.
Paired ==
  /\ pairing = "answered" /\ pairing' = "none"
  /\ ConnectSmart
  /\ IF choice = "disconnect" THEN Suffer({"revived"}) ELSE UNCHANGED history

\* stop, up to the end of its lock; forget calls it too.  setDesiredConnected and clear
\* apply a change: the disk follows later.
Stop(next) ==
  /\ Free /\ Choose("disconnect")
  /\ Renew
  /\ want' = [want EXCEPT !.desired = FALSE, !.retry = 0]
  /\ store' = [store EXCEPT !.desired = FALSE] /\ disk' = disk \cup {store'}
  /\ queue' = Cancelled /\ delayed' = None
  /\ Goto("main", next)
  /\ UNCHANGED <<state, up, world, exec, pairing, notice>>

Disconnect == Stop("down") /\ UNCHANGED <<route, paired>>

Forget == Stop("forget") /\ route' = "RESTORED" /\ paired' = FALSE

\* Mutant: the tunnel is taken down at once, by the main thread.
SubmitDownNow ==
  /\ thread["main"].pc \in {"down", "forget"}
  /\ up' = None
  /\ Goto("main", IF thread["main"].pc = "down" THEN "idle" ELSE "clear")
  /\ UNCHANGED <<want, saved, state, world, tasks, exec, app, history>>

SubmitDown ==
  /\ thread["main"].pc \in {"down", "forget"}
  /\ queue' = Append(queue, "down")
  /\ Goto("main", IF thread["main"].pc = "down" THEN "idle" ELSE "clear")
  /\ UNCHANGED <<want, saved, state, up, world, delayed, exec, app, history>>

Clear ==
  /\ thread["main"].pc = "clear"
  /\ want' = [want EXCEPT !.config = None]
  /\ store' = [desired |-> FALSE, config |-> None] /\ disk' = disk \cup {store'}
  /\ Rest("main")
  /\ UNCHANGED <<state, up, world, tasks, exec, app, history>>

\* restoreLastTunnel: by the app's button, or by Android for an always-on VPN.
Restore ==
  /\ Free /\ Happen
  /\ store.config # None
  /\ thread' = [thread EXCEPT !["main"].pc = "restore", !["main"].loaded = store.desired]
  /\ route' = IF paired THEN route ELSE "RESTORED"
  /\ UNCHANGED <<want, saved, state, up, world, tasks, exec,
                 paired, pairing, notice, probe, current>>

RestoreWant ==
  /\ thread["main"].pc = "restore"
  /\ want' = [desired |-> thread["main"].loaded, config |-> "direct", retry |-> 0]
  /\ IF thread["main"].loaded THEN ToSchedule("main", "start", "attempt", TRUE)
                              ELSE Rest("main")
  /\ UNCHANGED <<saved, state, up, world, tasks, exec, app, history>>

\* onVpnPermissionResult.
Grant ==
  /\ Free /\ Happen
  /\ ~granted
  /\ granted' = TRUE
  /\ IF want.desired THEN ToSchedule("main", "schedule", "attempt", TRUE) ELSE UNCHANGED thread
  /\ UNCHANGED <<want, saved, state, up, lost, tasks, exec, app>>

Deny ==
  /\ Free /\ Happen
  /\ ~granted
  /\ SetState("ERROR")
  /\ UNCHANGED <<want, saved, up, world, tasks, exec, thread>>

\* Mutant: the tunnel is not brought up again.
DropForgotten ==
  /\ Free /\ events < MaxEvents /\ events' = events + 1
  /\ up # None /\ up' = None
  /\ granted' \in {granted, FALSE}
  /\ mishaps' = IF Internal THEN mishaps \cup {"unseen"} ELSE mishaps
  /\ IF Internal THEN UNCHANGED <<state, app>>
     ELSE SetState(IF want.desired THEN "RECONNECTING" ELSE "DISCONNECTED")
  /\ UNCHANGED <<want, saved, lost, tasks, exec, thread, choice, choices>>

\* Android takes the tunnel down, perhaps with its consent; the listener of the
\* backend looks away while the executor is at work on the tunnel.
Drop ==
  /\ Free /\ events < MaxEvents /\ events' = events + 1
  /\ up # None /\ up' = None
  /\ granted' \in {granted, FALSE}
  /\ mishaps' = IF Internal THEN mishaps \cup {"unseen"} ELSE mishaps
  /\ IF Internal THEN UNCHANGED <<state, app, thread>>
     ELSE IF want.desired
       THEN SetState("RECONNECTING") /\ ToSchedule("main", "schedule", "attempt", FALSE)
       ELSE SetState("DISCONNECTED") /\ UNCHANGED thread
  /\ UNCHANGED <<want, saved, lost, tasks, exec, choice, choices>>

\* The rest of start: without consent the tunnel waits for it.
Start(t) ==
  /\ thread[t].pc \in {"start", "retreat"}
  /\ IF granted THEN ScheduleReconnect(thread[t].task, thread[t].soon) /\ UNCHANGED <<state, app>>
                ELSE SetState("WAITING_PERMISSION") /\ UNCHANGED tasks
  /\ IF thread[t].pc = "start" THEN Rest(t) ELSE Goto(t, "relay")
  /\ UNCHANGED <<want, saved, up, world, exec, history>>

Schedule(t) ==
  /\ thread[t].pc = "schedule"
  /\ ScheduleReconnect(thread[t].task, thread[t].soon)
  /\ Rest(t)
  /\ UNCHANGED <<want, saved, state, up, world, exec, app, history>>

-----------------------------------------------------------------------------
\* onLost.
Lost ==
  /\ thread["net"].pc = "idle" /\ Happen
  /\ want.desired
  /\ lost' = TRUE
  /\ Goto("net", "lost")
  /\ UNCHANGED <<want, saved, state, up, granted, tasks, exec, app>>

LostState ==
  /\ thread["net"].pc = "lost"
  /\ SetState("RECONNECTING")
  /\ ToSchedule("net", "schedule", "cycle", FALSE)
  /\ UNCHANGED <<want, saved, up, world, tasks, exec, history>>

\* onAvailable.
Available ==
  /\ thread["net"].pc = "idle" /\ Happen
  /\ want.desired
  /\ lost \/ state \in {"ERROR", "RECONNECTING"}
  /\ lost' = FALSE
  /\ ToSchedule("net", "schedule", IF lost THEN "cycle" ELSE "attempt", TRUE)
  /\ UNCHANGED <<want, saved, state, up, granted, tasks, exec, app>>

-----------------------------------------------------------------------------
\* The delay of the retry is over.
Due ==
  /\ delayed # None
  /\ queue' = Append(queue, delayed) /\ delayed' = None
  /\ UNCHANGED <<want, saved, state, up, world, exec, thread, app, history>>

\* The next task; connectAttempt looks at what is wanted, and at the consent.
Take ==
  /\ exec.pc = "idle" /\ queue # <<>>
  /\ queue' = Tail(queue)
  /\ LET task == Head(queue)
         attempt == task \in {"attempt", "cycle"} /\ want.desired /\ want.config # None
     IN /\ exec' = IF task = "down" THEN [NoTask EXCEPT !.pc = "down"]
                   ELSE IF attempt /\ granted
                     THEN [pc |-> "connecting", task |-> task, config |-> want.config]
                   ELSE NoTask
        /\ IF attempt /\ ~granted THEN SetState("WAITING_PERMISSION")
                                  ELSE UNCHANGED <<state, app>>
  /\ UNCHANGED <<want, saved, up, world, delayed, thread, history>>

\* Mutant: as in close, only a tunnel that is wanted is taken down.
DownIfDesired ==
  /\ exec.pc = "down"
  /\ up' = IF want.desired THEN None ELSE up
  /\ exec' = [exec EXCEPT !.pc = "downed"]
  /\ UNCHANGED <<want, saved, state, world, tasks, thread, app, history>>

\* The task of stop; an exception is not looked at.
Down ==
  /\ exec.pc = "down"
  /\ \/ up' = None /\ UNCHANGED history
     \/ up # None /\ UNCHANGED up /\ Suffer({"left"})
  /\ exec' = [exec EXCEPT !.pc = "downed"]
  /\ UNCHANGED <<want, saved, state, world, tasks, thread, app>>

Downed ==
  /\ exec.pc = "downed"
  /\ SetState("DISCONNECTED")
  /\ exec' = NoTask
  /\ UNCHANGED <<want, saved, up, world, tasks, thread, history>>

Connecting ==
  /\ exec.pc = "connecting"
  /\ SetState(IF want.retry > 0 \/ exec.task = "cycle" THEN "RECONNECTING" ELSE "CONNECTING")
  /\ exec' = [exec EXCEPT !.pc = "up"]
  /\ UNCHANGED <<want, saved, up, world, tasks, thread, history>>

\* forceCycle: the tunnel is taken down first.
Cycle ==
  /\ exec.pc = "up" /\ exec.task = "cycle" /\ up # None
  /\ up' = None
  /\ UNCHANGED <<want, saved, state, world, tasks, exec, thread, app, history>>

\* The tunnel comes up, instead of another one if there is one, or it fails.
Up ==
  /\ exec.pc = "up" /\ (exec.task = "attempt" \/ up = None)
  /\ \/ up' = exec.config /\ exec' = [exec EXCEPT !.pc = "done"]
     \/ UNCHANGED up /\ exec' = [exec EXCEPT !.pc = "failed"]
  /\ UNCHANGED <<want, saved, state, world, tasks, thread, app, history>>

Done ==
  /\ exec.pc = "done"
  /\ want' = [want EXCEPT !.retry = 0]
  /\ SetState("CONNECTED")
  /\ exec' = NoTask
  /\ UNCHANGED <<saved, up, world, tasks, thread, history>>

\* After a failure: not wanted any more, too many, or once more.
Failed ==
  /\ exec.pc = "failed"
  /\ want' = [want EXCEPT !.retry = @ + 1]
  /\ LET again == want.desired /\ want.retry + 1 < MaxAttempts IN
       /\ SetState(IF ~want.desired THEN "DISCONNECTED"
                   ELSE IF again THEN "RECONNECTING" ELSE "ERROR")
       /\ exec' = IF again THEN [exec EXCEPT !.pc = "again"] ELSE NoTask
       /\ UNCHANGED <<saved, up, world, tasks, thread, history>>

Again ==
  /\ exec.pc = "again"
  /\ ScheduleReconnect("attempt", FALSE)
  /\ exec' = NoTask
  /\ UNCHANGED <<want, saved, state, up, world, thread, app, history>>

-----------------------------------------------------------------------------
\* The app's listener hears CONNECTED: it will look for the Bridge in a moment.
Notice ==
  /\ Free
  /\ notice /\ notice' = FALSE
  /\ probe' = TRUE /\ current' = FALSE
  /\ UNCHANGED <<want, saved, state, up, world, tasks, exec, thread,
                 route, paired, pairing, history>>

\* probeReachability.
Probe ==
  /\ thread["worker"].pc = "idle"
  /\ probe /\ probe' = FALSE
  /\ current' = TRUE
  /\ Goto("worker", "probe")
  /\ UNCHANGED <<want, saved, state, up, world, tasks, exec,
                 route, paired, pairing, notice, history>>

\* The Bridge answers, or the probe is not the current one any more, or neither.
Probed ==
  /\ thread["worker"].pc = "probe"
  /\ \/ (up # None \/ ~current) /\ Rest("worker")
     \/ current /\ Goto("worker", "fallback")
  /\ current' = FALSE
  /\ UNCHANGED <<want, saved, state, up, world, tasks, exec,
                 route, paired, pairing, notice, probe, history>>

\* fallbackToP2p, with the address the device can be reached at.
FallBack ==
  /\ thread["worker"].pc = "fallback"
  /\ route = "DIRECT" /\ paired
  /\ Renew /\ route' = "P2P"
  /\ Goto("worker", "prepare")
  /\ UNCHANGED <<want, saved, state, up, world, tasks, exec, paired, pairing, notice, history>>

Relaying ==
  \/ thread["worker"].pc = "fallback" /\ route # "RELAY" /\ ~(route = "DIRECT" /\ paired)
  \/ thread["worker"].pc = "relay"

\* fallbackToRelay, for a relay that is enabled, or fallbackStoredToRelay, which
\* fails if there is no configuration left.
FallBackToRelay ==
  /\ Relaying
  /\ Renew /\ route' = "RELAY"
  /\ Goto("worker", IF paired \/ store.config # None \/ want.config # None
                     THEN "request" ELSE "idle")
  /\ UNCHANGED <<want, saved, state, up, world, tasks, exec, paired, pairing, notice, history>>

\* There is no further route, or no relay for the Bridge the app has been paired with.
NoFallback ==
  /\ (thread["worker"].pc = "fallback" /\ route = "RELAY") \/ (Relaying /\ paired)
  /\ Rest("worker")
  /\ UNCHANGED <<want, saved, state, up, world, tasks, exec, app, history>>

\* start or startTransient, up to the end of its lock, whatever has been chosen
\* since the fallback began.
StartOn(config, kept, pc, task) ==
  /\ want' = [desired |-> TRUE, config |-> config, retry |-> 0]
  /\ store' = [desired |-> TRUE, config |-> kept]
  /\ ToSchedule("worker", pc, task, TRUE)
  /\ IF choice = "disconnect" THEN Suffer({"revived"}) ELSE UNCHANGED history
  /\ UNCHANGED <<state, up, world, tasks, exec, app>>

\* connectPreferP2P: the session is prepared, or the direct tunnel is started
\* again before the relay is tried.
Prepared ==
  /\ thread["worker"].pc = "prepare"
  /\ \/ StartOn("p2p", store.config, "start", "cycle") /\ disk' = disk \cup {store'}
     \/ StartOn("direct", "direct", "retreat", "attempt") /\ disk' = {store'}

\* Mutant: the tunnel to the relay is saved.
RequestedSaved ==
  /\ thread["worker"].pc = "request"
  /\ StartOn("relay", "relay", "start", "cycle") /\ disk' = {store'}

\* requestAndWait; by then the request may have failed.
Requested ==
  /\ thread["worker"].pc = "request"
  /\ StartOn("relay", store.config, "start", "cycle") /\ disk' = disk \cup {store'}

NotRequested ==
  /\ thread["worker"].pc = "request"
  /\ Rest("worker")
  /\ UNCHANGED <<want, saved, state, up, world, tasks, exec, app, history>>

-----------------------------------------------------------------------------
\* A new controller begins, and restores what the store still holds (autoRestore).
Begin(kept) ==
  /\ store' = kept
  /\ want' = [desired |-> FALSE, config |-> None, retry |-> 0]
  /\ state' = "DISCONNECTED" /\ lost' = FALSE
  /\ queue' = <<>> /\ delayed' = None
  /\ exec' = NoTask
  /\ thread' = [t \in DOMAIN thread |->
                  IF t = "main" /\ kept.config # None
                    THEN [Resting EXCEPT !.pc = "restore", !.loaded = kept.desired]
                    ELSE Resting]
  /\ route' = "RESTORED" /\ paired' = FALSE /\ pairing' = "none" /\ notice' = FALSE
  /\ probe' = FALSE /\ current' = FALSE
  /\ UNCHANGED granted

\* The process dies, and the tunnel with it, perhaps before the disk has what the
\* process had stored.
Die ==
  /\ choices < MaxChoices /\ choices' = choices + 1
  /\ up' = None
  /\ \E kept \in disk :
       /\ Begin(kept) /\ disk' = {kept}
       /\ mishaps' = IF choice = "disconnect" /\ kept.desired
                       THEN mishaps \cup {"revived"} ELSE mishaps
  /\ UNCHANGED <<choice, events>>

\* onDestroy, and another onCreate: close takes down a tunnel that is wanted;
\* what the executor had still to do is not done.
Close ==
  /\ Free /\ choices < MaxChoices /\ choices' = choices + 1
  /\ up' = IF want.desired THEN None ELSE up
  /\ mishaps' = IF up' # None \/ exec.pc # "idle" THEN mishaps \cup {"left"} ELSE mishaps
  /\ UNCHANGED <<choice, events>>
  /\ Begin(store) /\ UNCHANGED disk

-----------------------------------------------------------------------------
Init ==
  /\ store \in {s \in Store : s.desired => s.config # None} /\ disk = {store}
  /\ choice = IF store.desired THEN "connect" ELSE "disconnect"
  /\ want = [desired |-> FALSE, config |-> None, retry |-> 0]
  /\ state = "DISCONNECTED"
  /\ up = None /\ lost = FALSE
  /\ granted \in BOOLEAN
  /\ queue = <<>> /\ delayed = None
  /\ exec = NoTask
  /\ thread = [t \in {"main", "worker", "net"} |->
                 IF t = "main" /\ store.config # None
                   THEN [Resting EXCEPT !.pc = "restore", !.loaded = store.desired] ELSE Resting]
  /\ route = "RESTORED" /\ paired = FALSE /\ pairing = "none" /\ notice = FALSE
  /\ probe = FALSE /\ current = FALSE
  /\ mishaps = {} /\ choices = 0 /\ events = 0

\* The calls that are under way go on: those to the network and to the tunnel
\* have timeouts.
Run ==
  \/ SubmitDown \/ Clear \/ RestoreWant \/ Start("main") \/ Schedule("main")
  \/ Paired \/ Notice
Serve ==
  \/ Take \/ Down \/ Downed \/ Connecting \/ Cycle \/ Up \/ Done \/ Failed \/ Again
Ladder ==
  \/ Provision \/ Probe \/ Probed \/ FallBack \/ FallBackToRelay \/ NoFallback
  \/ Prepared \/ Requested \/ NotRequested \/ Start("worker")
Watch == LostState \/ Schedule("net")

Next ==
  \/ Connect \/ Pair \/ Disconnect \/ Forget \/ Restore \/ Grant \/ Deny \/ Drop
  \/ Lost \/ Available \/ Due \/ Die \/ Close
  \/ Run \/ Serve \/ Ladder \/ Watch

Spec == Init /\ [][Next]_vars

FairSpec == Spec /\ WF_vars(Run) /\ WF_vars(Serve)

-----------------------------------------------------------------------------
TypeOK ==
  /\ want \in Want /\ store \in Store /\ disk \subseteq Store /\ state \in States
  /\ up \in Configs \cup {None}
  /\ lost \in BOOLEAN /\ granted \in BOOLEAN
  /\ queue \in Seq(Tasks \cup {None}) /\ delayed \in {"attempt", "cycle", None}
  /\ exec \in Exec
  /\ thread \in [{"main", "worker", "net"} -> Thread]
  /\ route \in Routes /\ paired \in BOOLEAN /\ pairing \in Pairings /\ notice \in BOOLEAN
  /\ probe \in BOOLEAN /\ current \in BOOLEAN
  /\ choice \in {"connect", "disconnect"} /\ mishaps \subseteq Mishaps
  /\ choices \in 0..MaxChoices /\ events \in 0..MaxEvents

\* No call of the controller is under way.
Quiet ==
  /\ queue = <<>> /\ delayed = None /\ exec.pc = "idle"
  /\ \A t \in DOMAIN thread :
       thread[t].pc \in {"idle", "probe", "fallback", "prepare", "relay", "request"}

\* When the user has disconnected, or had the tunnel forgotten, and all calls have
\* come to an end, the tunnel is down and the store will not restore it, whatever was
\* under way in which thread.  Excepted: a fallback or a pairing that was under way
\* starts the tunnel after that; the process dies before apply has written the disk,
\* and the old desiredConnected is restored; and for the tunnel itself a call to take
\* it down that fails, or an activity that ends before the call is made.
DisconnectHolds ==
  choice = "disconnect" /\ Quiet /\ "revived" \notin mishaps =>
    ~want.desired /\ ~store.desired /\ ("left" \in mishaps \/ up = None)

\* A tunnel that is wanted is up, with the configuration of the last start, or an
\* attempt is still to come, or it has failed and says so, or consent is missing.
WantedIsServed ==
  want.desired /\ Quiet /\ mishaps = {} =>
    up = want.config \/ state = "ERROR" \/ ~granted

\* A tunnel from which the user disconnects goes down, if nothing goes wrong: a start
\* that crosses it, a refused call, a drop unseen or a death that loses it.
DisconnectEnds ==
  choice = "disconnect" /\ up # None ~> up = None \/ choice = "connect" \/ mishaps # {}

\* docs/ANDROID_CONNECTION.md: "Disconnect mantiene la configurazione cifrata ma salva
\* desiredConnected=false".
IntentKept == choice = "disconnect" /\ Quiet => ~store.desired
=============================================================================
