--------------------------- MODULE ControllerProofs ---------------------------
(***************************************************************************)
(* Theorems about Controller: the types, that a disconnect holds, and that *)
(* a tunnel that is wanted is served, for any number of attempts, choices  *)
(* and events.                                                             *)
(***************************************************************************)
EXTENDS Controller, TLAPS

Threads == {"main", "worker", "net"}

\* What is left of TypeOK for the variables a step of one thread may change.
ThreadsOK == thread \in [Threads -> Thread]
TasksOK   == queue \in Seq(Tasks \cup {None}) /\ delayed \in {"attempt", "cycle", None}
AppOK     == /\ route \in Routes /\ paired \in BOOLEAN /\ pairing \in Pairings
             /\ notice \in BOOLEAN /\ probe \in BOOLEAN /\ current \in BOOLEAN
PastOK    == /\ choice \in {"connect", "disconnect"} /\ mishaps \subseteq Mishaps
             /\ choices \in 0..MaxChoices /\ events \in 0..MaxEvents

-----------------------------------------------------------------------------
(* Operators *)

LEMMA GotoType ==
  ASSUME ThreadsOK, NEW t \in Threads, NEW pc, [thread[t] EXCEPT !.pc = pc] \in Thread,
         Goto(t, pc)
  PROVE  ThreadsOK'
BY DEF ThreadsOK, Goto, Threads

LEMMA RestType ==
  ASSUME ThreadsOK, NEW t \in Threads, Rest(t)
  PROVE  ThreadsOK'
BY DEF ThreadsOK, Rest, Resting, Thread, Tasks

LEMMA ToScheduleType ==
  ASSUME ThreadsOK, NEW t \in Threads, NEW pc \in {"start", "schedule", "retreat"},
         NEW task \in {"attempt", "cycle"}, NEW soon \in BOOLEAN, ToSchedule(t, pc, task, soon)
  PROVE  ThreadsOK'
BY DEF ThreadsOK, ToSchedule, Thread

LEMMA SetStateType ==
  ASSUME AppOK, NEW s \in States, SetState(s)
  PROVE  state' \in States /\ AppOK'
BY DEF AppOK, SetState

LEMMA CancelledType ==
  ASSUME TasksOK
  PROVE  Cancelled \in Seq(Tasks \cup {None})
<1>1. DOMAIN queue = 1..Len(queue) /\ Len(queue) \in Nat
  BY DEF TasksOK
<1>2. \A i \in 1..Len(queue) :
        (IF queue[i] = "down" THEN "down" ELSE None) \in Tasks \cup {None}
  BY DEF Tasks
<1> QED
  BY <1>1, <1>2 DEF Cancelled

LEMMA ScheduleType ==
  ASSUME TasksOK, NEW task \in {"attempt", "cycle", None}, NEW soon, ScheduleReconnect(task, soon)
  PROVE  TasksOK'
<1>1. task \in Tasks \cup {None}
  BY DEF Tasks
<1> DEFINE c == Cancelled
<1>2. c \in Seq(Tasks \cup {None})
  BY CancelledType
<1> HIDE DEF c
<1>3. Append(c, task) \in Seq(Tasks \cup {None})
  BY <1>1, <1>2
<1>4. \/ UNCHANGED tasks
      \/ queue' = Append(c, task) /\ delayed' = None
      \/ queue' = c /\ delayed' = task
  BY DEF ScheduleReconnect, c
<1> QED
  BY <1>2, <1>3, <1>4 DEF TasksOK, tasks

-----------------------------------------------------------------------------
(* Types *)

\* TypeOK by parts.
LEMMA Parts ==
  /\ TypeOK => /\ want \in Want /\ store \in Store /\ disk \subseteq Store /\ state \in States
               /\ up \in Configs \cup {None} /\ lost \in BOOLEAN /\ granted \in BOOLEAN
               /\ exec \in Exec /\ ThreadsOK /\ TasksOK /\ AppOK /\ PastOK
  /\ (/\ want \in Want /\ store \in Store /\ disk \subseteq Store /\ state \in States
      /\ up \in Configs \cup {None} /\ lost \in BOOLEAN /\ granted \in BOOLEAN
      /\ exec \in Exec /\ ThreadsOK /\ TasksOK /\ AppOK /\ PastOK)' => TypeOK'
BY DEF TypeOK, ThreadsOK, TasksOK, AppOK, PastOK, Threads

LEMMA ChooseType ==
  ASSUME PastOK, NEW c \in {"connect", "disconnect"}, Choose(c)
  PROVE  PastOK'
BY ConstantsAssumption DEF PastOK, Choose

LEMMA HappenType ==
  ASSUME PastOK, Happen
  PROVE  PastOK'
BY ConstantsAssumption DEF PastOK, Happen

LEMMA NothingTyped ==
  /\ [desired |-> FALSE, config |-> None, retry |-> 0] \in Want /\ NoTask \in Exec
  /\ [desired |-> FALSE, config |-> None] \in Store
  /\ <<>> \in Seq(Tasks \cup {None})
<1>1. /\ [desired |-> FALSE, config |-> None, retry |-> 0] \in Want /\ NoTask \in Exec
      /\ [desired |-> FALSE, config |-> None] \in Store
  BY DEF Want, Store, Exec, NoTask
<1>2. <<>> \in Seq(Tasks \cup {None})
  OBVIOUS
<1> QED
  BY <1>1, <1>2

\* A step of the user, of the system or of the main thread.
LEMMA MainTyped ==
  ASSUME TypeOK,
         \/ Connect \/ Pair \/ Paired \/ Disconnect \/ Forget \/ SubmitDown \/ Clear
         \/ Restore \/ RestoreWant \/ Grant \/ Deny \/ Drop \/ Notice
  PROVE  TypeOK'
<1> USE Parts
<1> USE DEF saved, world, tasks, app, history
<1>0. "main" \in Threads /\ thread["main"] \in Thread
  BY DEF Threads, ThreadsOK
<1>1. ASSUME ConnectSmart, PastOK', pairing' \in Pairings PROVE TypeOK'
  <2>1. ThreadsOK'
    BY <1>0, <1>1, ToScheduleType DEF ConnectSmart
  <2>2. AppOK' /\ TasksOK'
    BY <1>1 DEF ConnectSmart, AppOK, Renew, Routes, TasksOK
  <2> QED
    BY <1>1, <2>1, <2>2 DEF ConnectSmart, Want, Store, Configs
<1>13. CASE Connect
  BY <1>1, <1>13, ChooseType DEF Connect, AppOK
<1>14. CASE Pair
  BY <1>14, ChooseType DEF Pair, AppOK, Pairings, ThreadsOK, TasksOK
<1>15. CASE Paired
  BY <1>1, <1>15 DEF Paired, Pairings, Suffer, PastOK, Mishaps
<1>2. ASSUME NEW next \in {"down", "forget"}, Stop(next)
      PROVE  /\ want' \in Want /\ store' \in Store /\ disk' \subseteq Store
             /\ state' \in States /\ pairing' \in Pairings /\ up' \in Configs \cup {None} /\ lost' \in BOOLEAN /\ granted' \in BOOLEAN
             /\ exec' \in Exec /\ ThreadsOK' /\ TasksOK' /\ PastOK'
             /\ notice' \in BOOLEAN /\ probe' \in BOOLEAN /\ current' \in BOOLEAN
  <2>1. [thread["main"] EXCEPT !.pc = next] \in Thread
    BY <1>0 DEF Thread
  <2>2. ThreadsOK'
    BY <1>0, <1>2, <2>1, GotoType DEF Stop
  <2>3. PastOK'
    BY <1>2, ChooseType DEF Stop
  <2>4. TasksOK'
    BY <1>2, CancelledType DEF Stop, TasksOK
  <2>5. want' \in Want /\ store' \in Store /\ disk' \subseteq Store
    BY <1>2 DEF Stop, Want, Store
  <2> QED
    BY <1>2, <2>2, <2>3, <2>4, <2>5 DEF Stop, Renew, AppOK
<1>3. CASE Disconnect
  BY <1>2, <1>3 DEF Disconnect, AppOK
<1>4. CASE Forget
  BY <1>2, <1>4 DEF Forget, AppOK, Routes
<1>5. CASE SubmitDown
  <2>1. \A pc \in {"idle", "clear"} : [thread["main"] EXCEPT !.pc = pc] \in Thread
    BY <1>0 DEF Thread
  <2>2. ThreadsOK'
    BY <1>0, <1>5, <2>1, GotoType DEF SubmitDown
  <2>3. TasksOK'
    BY <1>5 DEF SubmitDown, TasksOK, Tasks
  <2> QED
    BY <1>5, <2>2, <2>3 DEF SubmitDown, AppOK, PastOK
<1>6. CASE Clear
  <2>1. ThreadsOK'
    BY <1>0, <1>6, RestType DEF Clear
  <2> QED
    BY <1>6, <2>1, NothingTyped DEF Clear, TasksOK, AppOK, PastOK, Want
<1>7. CASE Restore
  <2>1. ThreadsOK'
    BY <1>7 DEF Restore, ThreadsOK, Thread, Store, Threads
  <2>2. PastOK'
    BY <1>7, HappenType DEF Restore
  <2> QED
    BY <1>7, <2>1, <2>2 DEF Restore, TasksOK, AppOK, Routes
<1>8. CASE RestoreWant
  <2>1. ThreadsOK'
    BY <1>0, <1>8, RestType, ToScheduleType DEF RestoreWant
  <2>2. want' \in Want
    BY <1>0, <1>8 DEF RestoreWant, Want, Configs, Thread
  <2> QED
    BY <1>8, <2>1, <2>2 DEF RestoreWant, TasksOK, AppOK, PastOK
<1>9. CASE Grant
  <2>1. ThreadsOK'
    BY <1>0, <1>9, ToScheduleType DEF Grant, ThreadsOK
  <2>2. PastOK'
    BY <1>9, HappenType DEF Grant
  <2> QED
    BY <1>9, <2>1, <2>2 DEF Grant, TasksOK, AppOK
<1>10. CASE Deny
  <2>1. state' \in States /\ AppOK'
    BY <1>10, SetStateType DEF Deny, States
  <2>2. PastOK'
    BY <1>10, HappenType DEF Deny
  <2> QED
    BY <1>10, <2>1, <2>2 DEF Deny, TasksOK, ThreadsOK
<1>11. CASE Drop
  <2>1. PastOK'
    BY <1>11, ConstantsAssumption DEF Drop, PastOK, Mishaps
  <2>2. state' \in States /\ AppOK'
    BY <1>11, SetStateType DEF Drop, States, AppOK
  <2>3. ThreadsOK'
    BY <1>0, <1>11, ToScheduleType DEF Drop, ThreadsOK
  <2>4. up' \in Configs \cup {None} /\ granted' \in BOOLEAN
    BY <1>11 DEF Drop
  <2> QED
    BY <1>11, <2>1, <2>2, <2>3, <2>4 DEF Drop, TasksOK
<1>12. CASE Notice
  BY <1>12 DEF Notice, AppOK, TasksOK, ThreadsOK, PastOK
<1> QED
  BY <1>3, <1>4, <1>5, <1>6, <1>7, <1>8, <1>9, <1>10, <1>11, <1>12, <1>13, <1>14, <1>15

\* The steps any thread takes after a change of what is wanted, and those of the network.
LEMMA ScheduleTyped ==
  ASSUME TypeOK, NEW t \in Threads,
         Start(t) \/ Schedule(t) \/ Lost \/ LostState \/ Available \/ Due
  PROVE  TypeOK'
<1> USE Parts
<1> USE DEF saved, world, tasks, app, history
<1>0. thread[t] \in Thread /\ "net" \in Threads /\ thread["net"] \in Thread
  BY DEF Threads, ThreadsOK
<1>1. CASE Start(t)
  <2>1. [thread[t] EXCEPT !.pc = "relay"] \in Thread
    BY <1>0 DEF Thread
  <2>2. ThreadsOK'
    BY <1>1, <2>1, GotoType, RestType DEF Start
  <2>3. TasksOK' /\ state' \in States /\ AppOK'
    <3>1. thread[t].task \in {"attempt", "cycle", None}
      BY <1>0 DEF Thread
    <3>2. CASE granted
      BY <1>1, <3>1, <3>2, ScheduleType DEF Start, AppOK
    <3>3. CASE ~granted
      BY <1>1, <3>3, SetStateType DEF Start, States, TasksOK
    <3> QED
      BY <3>2, <3>3
  <2> QED
    BY <1>1, <2>2, <2>3 DEF Start, PastOK
<1>2. CASE Schedule(t)
  <2>1. thread[t].task \in {"attempt", "cycle", None}
    BY <1>0 DEF Thread
  <2>2. ThreadsOK' /\ TasksOK'
    BY <1>2, <2>1, RestType, ScheduleType DEF Schedule
  <2> QED
    BY <1>2, <2>2 DEF Schedule, AppOK, PastOK
<1>3. CASE Lost
  <2>1. [thread["net"] EXCEPT !.pc = "lost"] \in Thread
    BY <1>0 DEF Thread
  <2>2. ThreadsOK' /\ PastOK'
    BY <1>0, <1>3, <2>1, GotoType, HappenType DEF Lost
  <2> QED
    BY <1>3, <2>2 DEF Lost, TasksOK, AppOK
<1>4. CASE LostState
  <2>1. state' \in States /\ AppOK'
    BY <1>4, SetStateType DEF LostState, States
  <2>2. ThreadsOK'
    BY <1>0, <1>4, ToScheduleType DEF LostState
  <2> QED
    BY <1>4, <2>1, <2>2 DEF LostState, TasksOK, PastOK
<1>5. CASE Available
  <2>1. ThreadsOK' /\ PastOK'
    BY <1>0, <1>5, ToScheduleType, HappenType DEF Available
  <2> QED
    BY <1>5, <2>1 DEF Available, TasksOK, AppOK
<1>6. CASE Due
  BY <1>6 DEF Due, TasksOK, Tasks, ThreadsOK, AppOK, PastOK
<1> QED
  BY <1>1, <1>2, <1>3, <1>4, <1>5, <1>6

\* The executor.
LEMMA ServeTyped ==
  ASSUME TypeOK, Serve
  PROVE  TypeOK'
<1> USE Parts
<1> USE DEF saved, world, tasks, app, history
<1>1. CASE Take
  <2>1. /\ queue \in Seq(Tasks \cup {None}) /\ queue # <<>>
        /\ Head(queue) \in Tasks \cup {None} /\ Tail(queue) \in Seq(Tasks \cup {None})
    BY <1>1 DEF Take, TasksOK
  <2>2. TasksOK'
    BY <1>1, <2>1 DEF Take, TasksOK
  <2>3. exec' \in Exec
    BY <1>1, <2>1 DEF Take, Exec, NoTask, Want, Tasks
  <2>4. state' \in States /\ AppOK'
    BY <1>1, SetStateType DEF Take, States, AppOK
  <2> QED
    BY <1>1, <2>2, <2>3, <2>4 DEF Take, ThreadsOK, PastOK
<1>2. CASE Down
  BY <1>2 DEF Down, Suffer, Exec, Mishaps, ThreadsOK, TasksOK, AppOK, PastOK
<1>3. CASE Downed
  <2>1. state' \in States /\ AppOK'
    BY <1>3, SetStateType DEF Downed, States
  <2> QED
    BY <1>3, <2>1 DEF Downed, Exec, NoTask, ThreadsOK, TasksOK, PastOK
<1>4. CASE Connecting
  <2>1. state' \in States /\ AppOK'
    BY <1>4, SetStateType DEF Connecting, States
  <2> QED
    BY <1>4, <2>1 DEF Connecting, Exec, ThreadsOK, TasksOK, PastOK
<1>5. CASE Cycle
  BY <1>5 DEF Cycle, ThreadsOK, TasksOK, AppOK, PastOK
<1>6. CASE Up
  BY <1>6 DEF Up, Exec, ThreadsOK, TasksOK, AppOK, PastOK
<1>7. CASE Done
  <2>1. state' \in States /\ AppOK'
    BY <1>7, SetStateType DEF Done, States
  <2> QED
    BY <1>7, <2>1 DEF Done, Want, Exec, NoTask, ThreadsOK, TasksOK, PastOK
<1>8. CASE Failed
  <2>1. state' \in States /\ AppOK'
    BY <1>8, SetStateType DEF Failed, States
  <2>2. want' \in Want
    BY <1>8 DEF Failed, Want
  <2>3. exec' \in Exec
    BY <1>8 DEF Failed, Exec, NoTask
  <2> QED
    BY <1>8, <2>1, <2>2, <2>3 DEF Failed, ThreadsOK, TasksOK, PastOK
<1>9. CASE Again
  <2>1. TasksOK'
    BY <1>9, ScheduleType DEF Again
  <2> QED
    BY <1>9, <2>1 DEF Again, Exec, NoTask, ThreadsOK, AppOK, PastOK
<1> QED
  BY <1>1, <1>2, <1>3, <1>4, <1>5, <1>6, <1>7, <1>8, <1>9 DEF Serve

\* The fallbacks.
LEMMA LadderTyped ==
  ASSUME TypeOK, Ladder
  PROVE  TypeOK'
<1> USE Parts
<1> USE DEF saved, world, tasks, app, history
<1>0. /\ "worker" \in Threads /\ thread["worker"] \in Thread
      /\ \A pc \in {"idle", "probe", "fallback", "prepare", "request"} :
           [thread["worker"] EXCEPT !.pc = pc] \in Thread
  BY DEF Threads, ThreadsOK, Thread
<1>1. CASE Probe
  <2>1. ThreadsOK'
    BY <1>0, <1>1, GotoType DEF Probe
  <2> QED
    BY <1>1, <2>1 DEF Probe, TasksOK, AppOK, PastOK
<1>2. CASE Probed
  <2>1. ThreadsOK'
    BY <1>0, <1>2, GotoType, RestType DEF Probed
  <2> QED
    BY <1>2, <2>1 DEF Probed, TasksOK, AppOK, PastOK
<1>3. CASE FallBack
  <2>1. ThreadsOK'
    BY <1>0, <1>3, GotoType DEF FallBack
  <2> QED
    BY <1>3, <2>1 DEF FallBack, Renew, Routes, TasksOK, AppOK, PastOK
<1>4. CASE FallBackToRelay
  <2>1. ThreadsOK'
    BY <1>0, <1>4, GotoType DEF FallBackToRelay
  <2> QED
    BY <1>4, <2>1 DEF FallBackToRelay, Renew, Routes, TasksOK, AppOK, PastOK
<1>5. CASE NoFallback
  <2>1. ThreadsOK'
    BY <1>0, <1>5, RestType DEF NoFallback
  <2> QED
    BY <1>5, <2>1 DEF NoFallback, TasksOK, AppOK, PastOK
<1>6. ASSUME NEW config \in Configs, NEW kept \in {"direct", None},
             NEW pc \in {"start", "retreat"}, NEW task \in {"attempt", "cycle"},
             StartOn(config, kept, pc, task), disk' \subseteq disk \cup {store'}
      PROVE  TypeOK'
  <2>1. ThreadsOK'
    BY <1>0, <1>6, ToScheduleType DEF StartOn
  <2>2. PastOK'
    BY <1>6 DEF StartOn, Suffer, Mishaps, PastOK
  <2>3. want' \in Want /\ store' \in Store
    BY <1>6 DEF StartOn, Want, Store
  <2>4. disk' \subseteq Store
    BY <1>6, <2>3
  <2> QED
    BY <1>6, <2>1, <2>2, <2>3, <2>4 DEF StartOn, TasksOK, AppOK
<1>7. store.config \in {"direct", None}
  BY DEF Store
<1>8. CASE Prepared
  BY <1>6, <1>7, <1>8 DEF Prepared, Configs
<1>9. CASE Requested
  BY <1>6, <1>7, <1>9 DEF Requested, Configs
<1>10. CASE NotRequested
  <2>1. ThreadsOK'
    BY <1>0, <1>10, RestType DEF NotRequested
  <2> QED
    BY <1>10, <2>1 DEF NotRequested, TasksOK, AppOK, PastOK
<1>11. CASE Start("worker")
  BY <1>0, <1>11, ScheduleTyped
<1>12. CASE Provision
  BY <1>12 DEF Provision, ThreadsOK, TasksOK, AppOK, Pairings, PastOK
<1> QED
  BY <1>12, <1>1, <1>2, <1>3, <1>4, <1>5, <1>8, <1>9, <1>10, <1>11 DEF Ladder

\* The controllers of a new life begin alike.
LEMMA BeginTyped ==
  ASSUME TypeOK, NEW kept \in Store, Begin(kept)
  PROVE  /\ want' \in Want /\ store' \in Store /\ state' \in States
         /\ lost' \in BOOLEAN /\ granted' \in BOOLEAN
         /\ exec' \in Exec /\ ThreadsOK' /\ TasksOK' /\ AppOK'
<1> USE Parts
<1>1. ThreadsOK'
  BY DEF Begin, ThreadsOK, Resting, Thread, Store
<1>2. want' \in Want /\ exec' \in Exec
  BY NothingTyped DEF Begin
<1>3. TasksOK' /\ AppOK'
  BY NothingTyped DEF Begin, TasksOK, AppOK, Routes, Pairings
<1> QED
  BY <1>1, <1>2, <1>3 DEF Begin, States

LEMMA InitTyped == Init => TypeOK
<1> SUFFICES ASSUME Init PROVE TypeOK
  OBVIOUS
<1>1. thread \in [{"main", "worker", "net"} -> Thread]
  BY DEF Init, Resting, Thread, Store
<1>2. want \in Want /\ exec \in Exec
  BY NothingTyped DEF Init
<1>3. /\ store \in Store /\ disk \subseteq Store /\ state \in States /\ route \in Routes
      /\ choice \in {"connect", "disconnect"} /\ mishaps \subseteq Mishaps
  BY DEF Init, States, Routes
<1>4. queue \in Seq(Tasks \cup {None}) /\ delayed \in {"attempt", "cycle", None}
  BY NothingTyped DEF Init
<1>5. choices \in 0..MaxChoices /\ events \in 0..MaxEvents
  BY ConstantsAssumption DEF Init
<1>6. /\ up \in Configs \cup {None} /\ lost \in BOOLEAN /\ granted \in BOOLEAN
      /\ paired \in BOOLEAN /\ pairing \in Pairings
      /\ notice \in BOOLEAN /\ probe \in BOOLEAN /\ current \in BOOLEAN
  BY DEF Init, Pairings
<1> QED
  BY <1>1, <1>2, <1>3, <1>4, <1>5, <1>6 DEF TypeOK

LEMMA NextTyped == TypeOK /\ [Next]_vars => TypeOK'
<1> SUFFICES ASSUME TypeOK, [Next]_vars PROVE TypeOK'
  OBVIOUS
<1> USE Parts
<1>0. "main" \in Threads /\ "net" \in Threads
  BY DEF Threads
<1>1. CASE \/ Connect \/ Pair \/ Disconnect \/ Forget \/ Restore \/ Grant \/ Deny \/ Drop
  BY <1>1, MainTyped
<1>2. CASE Lost \/ Available \/ Due \/ Watch
  BY <1>0, <1>2, ScheduleTyped DEF Watch
<1>3. CASE Run
  BY <1>0, <1>3, MainTyped, ScheduleTyped DEF Run
<1>4. CASE Serve \/ Ladder
  BY <1>4, ServeTyped, LadderTyped
<1>5. CASE Die
  <2>1. PastOK' /\ up' = None
    BY <1>5, ConstantsAssumption DEF Die, PastOK, Mishaps
  <2>2. PICK kept \in disk : Begin(kept) /\ disk' = {kept}
    BY <1>5 DEF Die
  <2> QED
    BY <2>1, <2>2, BeginTyped
<1>6. CASE Close
  <2>1. PastOK' /\ up' \in Configs \cup {None}
    BY <1>6, ConstantsAssumption DEF Close, PastOK, Mishaps
  <2> QED
    BY <1>6, <2>1, BeginTyped DEF Close
<1>7. CASE UNCHANGED vars
  BY <1>7 DEF vars, saved, world, tasks, app, history, TypeOK
<1> QED
  BY <1>1, <1>2, <1>3, <1>4, <1>5, <1>6, <1>7 DEF Next

\* Every variable of the controller and the app keeps its type: the thread, task and
\* state they may be in, and no retry that is delayed but one to connect.
THEOREM TypeCorrect == Spec => []TypeOK
BY InitTyped, NextTyped, PTL DEF Spec

-----------------------------------------------------------------------------
(* A disconnect holds *)

\* A task that takes the tunnel down is under way or still to come.
ToCome ==
  \/ thread["main"].pc \in {"down", "forget"}
  \/ \E i \in DOMAIN queue : queue[i] = "down"
  \/ exec.pc = "down"

\* The user has disconnected, and nothing that DisconnectHolds excepts has happened.
Off == choice = "disconnect" /\ "revived" \notin mishaps

\* Since then nothing wants or restores a connection; and a tunnel that is up, or an
\* attempt that may still bring it up, is followed by a task to take it down, unless it
\* is one that has been left up.
Held ==
  /\ ~want.desired /\ ~store.desired
  /\ thread["main"].pc = "restore" => ~thread["main"].loaded
  /\ up # None \/ exec.pc \in {"connecting", "up"} => ToCome \/ "left" \in mishaps

IInv == TypeOK /\ (Off => Held)

LEMMA InitHeld == Init => (Off => Held)
BY DEF Init, Off, Held, NoTask, Resting

\* A step that changes neither what is wanted nor what is to come.
LEMMA HeldStays ==
  ASSUME IInv, UNCHANGED <<want, store, choice>>,
         mishaps \subseteq mishaps',
         thread'["main"].pc = thread["main"].pc \/
           (thread["main"].pc \notin {"down", "forget"} /\ thread'["main"].pc # "restore"),
         thread'["main"].pc = "restore" => thread'["main"].loaded = thread["main"].loaded,
         UNCHANGED queue,
         exec.pc = exec'.pc \/ (exec.pc # "down" /\ exec'.pc # "connecting"
                                 /\ (exec'.pc = "up" => exec.pc = "connecting")),
         up' \in {up, None}
  PROVE  (Off => Held)'
BY DEF IInv, Off, Held, ToCome

\* Without a wish for a connection no retry is scheduled.
LEMMA NothingScheduled ==
  ASSUME ~want.desired, NEW task, NEW soon, ScheduleReconnect(task, soon)
  PROVE  UNCHANGED <<queue, delayed>>
BY DEF ScheduleReconnect, tasks

\* The user and the main thread.
LEMMA MainHeld ==
  ASSUME IInv,
         \/ Connect \/ Pair \/ Paired \/ Disconnect \/ Forget \/ SubmitDown \/ Clear
         \/ Restore \/ RestoreWant \/ Grant \/ Deny \/ Drop \/ Notice
  PROVE  (Off => Held)'
<1> USE DEF saved, world, tasks, app, history
<1>0. /\ thread \in [Threads -> Thread] /\ "main" \in Threads /\ want \in Want
      /\ store \in Store /\ queue \in Seq(Tasks \cup {None})
  BY DEF IInv, TypeOK, Threads
<1>1. CASE Connect \/ Pair \/ Paired
  BY <1>1 DEF Connect, Pair, Paired, Choose, Suffer, Off
<1>2. ASSUME NEW next \in {"down", "forget"}, Stop(next)
      PROVE  (Off => Held)'
  BY <1>0, <1>2 DEF Stop, Goto, Held, ToCome, Want, Store
<1>3. CASE Disconnect \/ Forget
  BY <1>2, <1>3 DEF Disconnect, Forget
<1>4. CASE SubmitDown
  <2>1. queue'[Len(queue) + 1] = "down" /\ Len(queue) + 1 \in DOMAIN queue'
    BY <1>0, <1>4 DEF SubmitDown
  <2>2. thread'["main"].pc \in {"idle", "clear"}
    BY <1>0, <1>4 DEF SubmitDown, Goto
  <2> QED
    BY <1>4, <2>1, <2>2 DEF SubmitDown, IInv, Off, Held, ToCome
<1>5. CASE Clear
  BY <1>0, <1>5 DEF Clear, Rest, Resting, IInv, Off, Held, ToCome, Want
<1>6. CASE Restore
  BY <1>0, <1>6 DEF Restore, Happen, Free, IInv, Off, Held, ToCome, Thread
<1>7. CASE RestoreWant
  <2> SUFFICES ASSUME Off' PROVE Held'
    OBVIOUS
  <2>1. Held
    BY <1>7 DEF RestoreWant, IInv, Off
  <2>2. ~thread["main"].loaded
    BY <1>7, <2>1 DEF RestoreWant, Held
  <2>3. ~want'.desired /\ Rest("main")
    BY <1>7, <2>2 DEF RestoreWant
  <2> QED
    BY <1>0, <1>7, <2>1, <2>3 DEF RestoreWant, Rest, Resting, Held, ToCome
<1>8. CASE Grant \/ Drop
  <2>1. \/ UNCHANGED thread
        \/ /\ thread["main"].pc = "idle" /\ thread'["main"].pc = "schedule"
    <3>1. /\ thread["main"].pc = "idle"
          /\ \/ UNCHANGED thread
             \/ ToSchedule("main", "schedule", "attempt", TRUE)
             \/ ToSchedule("main", "schedule", "attempt", FALSE)
      BY <1>8 DEF Grant, Drop, Free
    <3> QED
      BY <1>0, <3>1 DEF ToSchedule
  <2>2. UNCHANGED <<want, store, choice, queue, exec>> /\ up' \in {up, None}
    BY <1>8 DEF Grant, Drop, Happen
  <2>3. mishaps \subseteq mishaps'
    BY <1>8 DEF Grant, Drop, Happen
  <2> QED
    BY <2>1, <2>2, <2>3, HeldStays
<1>9. CASE Deny \/ Notice
  BY <1>9, HeldStays DEF Deny, Happen, Notice
<1> QED
  BY <1>1, <1>3, <1>4, <1>5, <1>6, <1>7, <1>8, <1>9

\* The rest of start and scheduleReconnect, in any thread, and the network.
LEMMA ScheduleHeld ==
  ASSUME IInv, NEW t \in Threads,
         Start(t) \/ Schedule(t) \/ Lost \/ LostState \/ Available \/ Due
  PROVE  (Off => Held)'
<1> USE DEF saved, world, tasks, app, history
<1>0. /\ thread \in [Threads -> Thread] /\ "main" \in Threads /\ "net" \in Threads
      /\ delayed \in {"attempt", "cycle", None} /\ queue \in Seq(Tasks \cup {None})
  BY DEF IInv, TypeOK, Threads
<1> SUFFICES ASSUME Off' PROVE Held'
  OBVIOUS
<1>1. CASE Start(t) \/ Schedule(t)
  <2>1. Off /\ Held
    BY <1>1 DEF Start, Schedule, IInv, Off
  <2>2. UNCHANGED queue
    BY <1>1, <2>1, NothingScheduled DEF Start, Schedule, Held
  <2>3. \/ UNCHANGED thread["main"]
        \/ thread["main"].pc \in {"start", "retreat", "schedule"}
             /\ thread'["main"].pc \in {"idle", "relay"}
    <3>1. /\ thread[t].pc \in {"start", "retreat", "schedule"}
          /\ Rest(t) \/ Goto(t, "relay")
      BY <1>1 DEF Start, Schedule
    <3>2. CASE t = "main"
      <4>1. CASE Rest(t)
        <5>1. thread'["main"] = Resting
          BY <1>0, <3>2, <4>1 DEF Rest
        <5> QED
          BY <3>1, <3>2, <5>1 DEF Resting
      <4>2. CASE Goto(t, "relay")
        <5>1. thread'["main"] = [thread["main"] EXCEPT !.pc = "relay"] /\ thread["main"] \in Thread
          BY <1>0, <3>2, <4>2 DEF Goto
        <5> QED
          BY <3>1, <3>2, <5>1 DEF Thread
      <4> QED
        BY <3>1, <4>1, <4>2
    <3>3. CASE t # "main"
      BY <1>0, <3>1, <3>3 DEF Rest, Goto
    <3> QED
      BY <3>2, <3>3
  <2> QED
    BY <1>1, <2>1, <2>2, <2>3, HeldStays DEF Start, Schedule
<1>2. CASE Lost \/ LostState \/ Available
  <2>1. UNCHANGED thread["main"]
    BY <1>0, <1>2 DEF Lost, LostState, Available, Goto, ToSchedule
  <2> QED
    BY <1>2, <2>1, HeldStays DEF Lost, LostState, Available, Happen
<1>3. CASE Due
  <2>1. \A i \in DOMAIN queue : i \in DOMAIN queue' /\ queue'[i] = queue[i]
    BY <1>0, <1>3 DEF Due
  <2> QED
    BY <1>3, <2>1 DEF Due, IInv, Off, Held, ToCome
<1> QED
  BY <1>1, <1>2, <1>3

\* The executor.
LEMMA ServeHeld ==
  ASSUME IInv, Serve
  PROVE  (Off => Held)'
<1> USE DEF saved, world, tasks, app, history
<1>0. exec \in Exec /\ want \in Want /\ queue \in Seq(Tasks \cup {None})
  BY DEF IInv, TypeOK
<1> SUFFICES ASSUME Off' PROVE Held'
  OBVIOUS
<1>1. CASE Take
  <2>1. Held
    BY <1>1 DEF Take, IInv, Off
  <2>2. exec.pc = "idle" /\ queue # <<>> /\ queue' = Tail(queue)
    BY <1>1 DEF Take
  <2>3. exec' = IF Head(queue) = "down" THEN [NoTask EXCEPT !.pc = "down"] ELSE NoTask
    BY <1>1, <2>1 DEF Take, Held
  <2>4. ToCome => ToCome'
    <3>1. ASSUME NEW i \in DOMAIN queue, queue[i] = "down"
          PROVE  ToCome'
      <4>1. CASE i = 1
        BY <1>0, <2>2, <2>3, <3>1, <4>1 DEF ToCome, NoTask
      <4>2. CASE i # 1
        <5>1. i - 1 \in DOMAIN queue' /\ queue'[i - 1] = "down"
          BY <1>0, <2>2, <3>1, <4>2
        <5> QED
          BY <5>1 DEF ToCome
      <4> QED
        BY <4>1, <4>2
    <3> QED
      BY <1>1, <2>2, <3>1 DEF ToCome, Take
  <2>5. exec'.pc \in {"idle", "down"}
    BY <2>3 DEF NoTask
  <2> QED
    BY <1>1, <2>1, <2>4, <2>5 DEF Take, Held
<1>2. CASE Down
  <2>1. Off /\ Held /\ (up' = None \/ "left" \in mishaps')
    BY <1>2 DEF Down, Suffer, IInv, Off
  <2>2. exec'.pc = "downed"
    BY <1>0, <1>2 DEF Down, Exec
  <2> QED
    BY <1>2, <2>1, <2>2 DEF Down, Held
<1>3. CASE Downed \/ Connecting \/ Cycle
  BY <1>0, <1>3, HeldStays DEF Downed, Connecting, Cycle, NoTask, Exec
<1>4. CASE Up
  BY <1>0, <1>4 DEF Up, IInv, Off, Held, ToCome, Exec
<1>5. CASE Done \/ Failed
  <2>1. exec.pc \in {"done", "failed"} /\ exec'.pc \in {"idle", "again"}
    BY <1>0, <1>5 DEF Done, Failed, NoTask, Exec
  <2>2. want'.desired = want.desired
    BY <1>0, <1>5 DEF Done, Failed, Want
  <2> QED
    BY <1>5, <2>1, <2>2 DEF Done, Failed, IInv, Off, Held, ToCome
<1>6. CASE Again
  <2>1. Off /\ Held
    BY <1>6 DEF Again, IInv, Off
  <2>2. UNCHANGED queue
    BY <1>6, <2>1, NothingScheduled DEF Again, Held
  <2> QED
    BY <1>6, <2>1, <2>2 DEF Again, Held, ToCome, NoTask
<1> QED
  BY <1>1, <1>2, <1>3, <1>4, <1>5, <1>6 DEF Serve

\* The fallbacks: one that starts the tunnel after a disconnect is a crossing.
LEMMA LadderHeld ==
  ASSUME IInv, Ladder
  PROVE  (Off => Held)'
<1> USE DEF saved, world, tasks, app, history
<1>0. thread \in [Threads -> Thread] /\ "worker" \in Threads /\ choice \in {"connect", "disconnect"}
  BY DEF IInv, TypeOK, Threads
<1>1. CASE Prepared \/ Requested
  BY <1>1 DEF Prepared, Requested, StartOn, Suffer, Off
<1>2. CASE Start("worker")
  BY <1>0, <1>2, ScheduleHeld
<1>3. CASE Provision \/ Probe \/ Probed \/ FallBack \/ FallBackToRelay \/ NoFallback \/ NotRequested
  <2>1. UNCHANGED thread["main"]
    <3>1. Rest("worker") \/ UNCHANGED thread \/ \E pc : Goto("worker", pc)
      BY <1>3 DEF Provision, Probe, Probed, FallBack, FallBackToRelay, NoFallback, NotRequested
    <3>2. CASE Rest("worker")
      BY <1>0, <3>2 DEF Rest, Threads
    <3>3. ASSUME NEW pc, Goto("worker", pc)
          PROVE  UNCHANGED thread["main"]
      BY <1>0, <3>3 DEF Goto, Threads
    <3> QED
      BY <3>1, <3>2, <3>3
  <2> QED
    BY <1>3, <2>1, HeldStays
    DEF Provision, Probe, Probed, FallBack, FallBackToRelay, NoFallback, NotRequested
<1> QED
  BY <1>1, <1>2, <1>3 DEF Ladder

\* The end of the process or of the activity, and the next life.
LEMMA LifeHeld ==
  ASSUME IInv, Die \/ Close
  PROVE  (Off => Held)'
<1> USE DEF saved, world, tasks, app, history
<1>0. thread \in [Threads -> Thread] /\ "main" \in Threads
  BY DEF IInv, TypeOK, Threads
<1> SUFFICES ASSUME Off' PROVE Held'
  OBVIOUS
<1>1. Off /\ Held
  BY DEF Die, Close, IInv, Off
<1>2. PICK kept : Begin(kept) /\ ~kept.desired
  <2>1. CASE Die
    BY <1>1, <2>1 DEF Die, Off
  <2>2. CASE Close
    BY <1>1, <2>2 DEF Close, Held
  <2> QED
    BY <2>1, <2>2
<1>3. thread'["main"].pc = "restore" => ~thread'["main"].loaded
  BY <1>0, <1>2 DEF Begin, Resting
<1>4. up' # None => "left" \in mishaps'
  BY DEF Die, Close
<1> QED
  BY <1>2, <1>3, <1>4 DEF Begin, Held, NoTask

LEMMA NextHeld == IInv /\ [Next]_vars => (Off => Held)'
<1> SUFFICES ASSUME IInv, [Next]_vars PROVE (Off => Held)'
  OBVIOUS
<1>0. "main" \in Threads /\ "net" \in Threads
  BY DEF Threads
<1>1. CASE \/ Connect \/ Pair \/ Disconnect \/ Forget \/ Restore \/ Grant \/ Deny \/ Drop
  BY <1>1, MainHeld
<1>2. CASE Lost \/ Available \/ Due \/ Watch
  BY <1>0, <1>2, ScheduleHeld DEF Watch
<1>3. CASE Run
  BY <1>0, <1>3, MainHeld, ScheduleHeld DEF Run
<1>4. CASE Serve \/ Ladder
  BY <1>4, ServeHeld, LadderHeld
<1>5. CASE Die \/ Close
  BY <1>5, LifeHeld
<1>6. CASE UNCHANGED vars
  BY <1>6 DEF vars, saved, world, tasks, app, history, IInv, Off, Held, ToCome
<1> QED
  BY <1>1, <1>2, <1>3, <1>4, <1>5, <1>6 DEF Next

\* The inductive invariant of the controller: after a disconnect a connection is neither
\* wanted nor restored, and an attempt under way in connectAttempt is followed by the
\* task of stop on the one executor.
THEOREM Invariance == Spec => []IInv
<1>1. Init => IInv
  BY InitTyped, InitHeld DEF IInv
<1>2. IInv /\ [Next]_vars => IInv'
  BY NextTyped, NextHeld DEF IInv
<1> QED
  BY <1>1, <1>2, PTL DEF Spec

\* When the user has disconnected and every call has come to an end the tunnel is down
\* and stays so after a restart of the app: no retry, callback or consent brings it back,
\* however many there are (AndroidWireGuard.kt: stop and connectAttempt).
THEOREM DisconnectStays == Spec => []DisconnectHolds
<1>1. IInv => DisconnectHolds
  BY DEF IInv, TypeOK, DisconnectHolds, Quiet, Off, Held, ToCome
<1> QED
  BY <1>1, Invariance, PTL

-----------------------------------------------------------------------------
(* A tunnel that is wanted is served *)

\* A thread that will schedule an attempt, or find that it is not wanted.
Calling == {"restore", "start", "schedule", "retreat", "lost"}

\* An attempt that no task behind it in the queue takes down again.
Queued ==
  \E i \in DOMAIN queue :
    /\ queue[i] \in {"attempt", "cycle"}
    /\ \A j \in DOMAIN queue : j > i => queue[j] # "down"

AttemptToCome ==
  \/ \E t \in Threads : thread[t].pc \in Calling
  \/ delayed # None
  \/ Queued

\* The executor is at an attempt with the configuration that is wanted, or it rests
\* after one; and nothing in the queue takes the tunnel down.
Served ==
  /\ \/ /\ exec.pc \in {"connecting", "up", "done", "failed", "again"}
        /\ exec.config = want.config
     \/ exec.pc = "idle" /\ (up = want.config \/ state = "ERROR")
  /\ \A i \in DOMAIN queue : queue[i] # "down"

Wanted == want.desired /\ mishaps = {}

WantedInv == Wanted => want.config # None /\ (AttemptToCome \/ ~granted \/ Served)

\* The main thread takes a tunnel down only for a disconnect.
DownAsked == thread["main"].pc \in {"down", "forget", "clear"} => choice = "disconnect"

\* A call of scheduleReconnect has a task for the executor.
TasksGiven ==
  \A t \in Threads : thread[t].pc \in {"start", "schedule", "retreat"} =>
                       thread[t].task \in {"attempt", "cycle"}

\* What the executor has brought up is up until it says so.
DoneUp == exec.pc = "done" /\ mishaps = {} => up = exec.config

ServiceInv == IInv /\ DownAsked /\ TasksGiven /\ DoneUp /\ WantedInv

-----------------------------------------------------------------------------
LEMMA ThreadsTyped == ASSUME IInv PROVE thread \in [Threads -> Thread] /\ "main" \in Threads
                                         /\ "worker" \in Threads /\ "net" \in Threads
BY DEF IInv, TypeOK, Threads

LEMMA NoneApart == None \notin Configs /\ None \notin Tasks
BY ConstantsAssumption

\* What a wish means under the invariant: nobody has disconnected since.
LEMMA WantedMeans ==
  ASSUME IInv, Wanted PROVE choice # "disconnect"
BY DEF IInv, Wanted, Off, Held

\* scheduleReconnect leaves an attempt to come, behind whatever was cancelled.
LEMMA ScheduleComes ==
  ASSUME IInv, want.desired, want.config # None, NEW task \in {"attempt", "cycle"},
         NEW soon, ScheduleReconnect(task, soon)
  PROVE  delayed' # None \/ Queued'
<1>1. task # None
  BY NoneApart DEF Tasks
<1>2. CASE soon
  <2> DEFINE c == Cancelled
  <2>1. c \in Seq(Tasks \cup {None})
    BY CancelledType DEF IInv, TypeOK, TasksOK
  <2>2. queue' = Append(c, task)
    BY <1>2 DEF ScheduleReconnect
  <2> HIDE DEF c
  <2>3. /\ Len(c) + 1 \in DOMAIN queue' /\ queue'[Len(c) + 1] = task
        /\ \A j \in DOMAIN queue' : ~(j > Len(c) + 1)
    BY <2>1, <2>2
  <2> QED
    BY <2>3 DEF Queued
<1>3. CASE ~soon
  BY <1>1, <1>3 DEF ScheduleReconnect
<1> QED
  BY <1>2, <1>3

\* A step after which a thread is calling.
LEMMA CallComes ==
  ASSUME ThreadsOK, NEW t \in Threads, NEW pc \in Calling, NEW task, NEW soon,
         ToSchedule(t, pc, task, soon)
  PROVE  AttemptToCome'
BY DEF ThreadsOK, ToSchedule, AttemptToCome, Threads

\* A step that leaves alone what an attempt needs.
LEMMA WantedStays ==
  ASSUME WantedInv, UNCHANGED <<want, granted, queue, delayed>>, mishaps \subseteq mishaps',
         \A t \in Threads : thread[t].pc \in Calling => thread'[t].pc \in Calling,
         Wanted => (Served => Served')
  PROVE  WantedInv'
BY DEF WantedInv, Wanted, AttemptToCome, Queued

\* The same, of a step that leaves the executor and the tunnel alone too.
LEMMA WantedKept ==
  ASSUME WantedInv, UNCHANGED <<want, granted, queue, delayed, exec, up, state>>,
         mishaps \subseteq mishaps',
         \A t \in Threads : thread[t].pc \in Calling => thread'[t].pc \in Calling
  PROVE  WantedInv'
BY WantedStays DEF Served

LEMMA MainWanted ==
  ASSUME ServiceInv,
         \/ Connect \/ Pair \/ Paired \/ Disconnect \/ Forget \/ SubmitDown \/ Clear
         \/ Restore \/ RestoreWant \/ Grant \/ Deny \/ Drop \/ Notice
  PROVE  WantedInv'
<1> USE DEF saved, world, tasks, app, history
<1>0. IInv /\ WantedInv /\ ThreadsOK /\ "main" \in Threads
  BY ThreadsTyped DEF ServiceInv, ThreadsOK
<1>1. CASE Connect \/ Paired
  <2>0. ConnectSmart
    BY <1>1 DEF Connect, Paired
  <2>1. AttemptToCome'
    BY <1>0, <2>0, CallComes DEF ConnectSmart, Calling
  <2>2. want'.config = "direct"
    BY <2>0 DEF ConnectSmart
  <2> QED
    BY <2>1, <2>2, NoneApart DEF WantedInv, Configs
<1>2. CASE Disconnect \/ Forget
  <2>1. ~want'.desired
    BY <1>0, <1>2 DEF Disconnect, Forget, Stop, IInv, TypeOK, Want
  <2> QED
    BY <2>1 DEF WantedInv, Wanted
<1>3. CASE SubmitDown \/ Clear
  <2>1. choice = "disconnect"
    BY <1>3 DEF SubmitDown, Clear, ServiceInv, DownAsked
  <2>2. ~Wanted
    BY <1>0, <2>1, WantedMeans
  <2>3. want'.desired = want.desired /\ mishaps' = mishaps
    BY <1>0, <1>3 DEF SubmitDown, Clear, IInv, TypeOK, Want
  <2> QED
    BY <2>2, <2>3 DEF WantedInv, Wanted
<1>4. CASE Restore
  <2>1. thread'["main"].pc = "restore"
    BY <1>0, <1>4 DEF Restore, ThreadsOK, Threads, Thread
  <2> QED
    BY <1>0, <1>4, <2>1 DEF Restore, Happen, WantedInv, Wanted, AttemptToCome, Calling
<1>5. CASE RestoreWant
  <2>1. CASE thread["main"].loaded
    <3>1. AttemptToCome'
      BY <1>0, <1>5, <2>1, CallComes DEF RestoreWant, Calling
    <3> QED
      BY <1>5, <3>1, NoneApart DEF RestoreWant, WantedInv, Configs
  <2>2. CASE ~thread["main"].loaded
    BY <1>5, <2>2 DEF RestoreWant, WantedInv, Wanted
  <2> QED
    BY <2>1, <2>2
<1>6. CASE Grant
  <2>1. want.desired => AttemptToCome'
    BY <1>0, <1>6, CallComes DEF Grant, Calling
  <2> QED
    BY <1>0, <1>6, <2>1 DEF Grant, Happen, WantedInv, Wanted
<1>7. CASE Deny
  BY <1>0, <1>7 DEF Deny, Happen, WantedInv, Wanted
<1>8. CASE Drop
  <2> SUFFICES ASSUME Wanted' PROVE want'.config # None /\ AttemptToCome'
    BY DEF WantedInv
  <2>1. mishaps' = {} /\ UNCHANGED want
    BY <1>8 DEF Drop, Wanted
  <2>2. ~Internal /\ mishaps = {}
    BY <1>8, <2>1 DEF Drop
  <2>3. ToSchedule("main", "schedule", "attempt", FALSE)
    BY <1>8, <2>1, <2>2 DEF Drop, Wanted
  <2>4. AttemptToCome'
    BY <1>0, <2>3, CallComes DEF Calling
  <2> QED
    BY <1>0, <2>1, <2>2, <2>4 DEF WantedInv, Wanted
<1>9. CASE Notice \/ Pair
  BY <1>0, <1>9, WantedKept DEF Notice, Pair, Choose
<1> QED
  BY <1>1, <1>2, <1>3, <1>4, <1>5, <1>6, <1>7, <1>8, <1>9

LEMMA ScheduleWanted ==
  ASSUME ServiceInv, NEW t \in Threads,
         Start(t) \/ Schedule(t) \/ Lost \/ LostState \/ Available \/ Due
  PROVE  WantedInv'
<1> USE DEF saved, world, tasks, app, history
<1>0. IInv /\ WantedInv /\ ThreadsOK /\ "net" \in Threads
  BY ThreadsTyped DEF ServiceInv, ThreadsOK
<1>1. CASE Start(t) \/ Schedule(t)
  <2> SUFFICES ASSUME Wanted' PROVE want'.config # None /\ (AttemptToCome' \/ ~granted')
    BY DEF WantedInv
  <2>1. UNCHANGED <<want, mishaps, granted>> /\ thread[t].task \in {"attempt", "cycle"}
    BY <1>1 DEF Start, Schedule, ServiceInv, TasksGiven
  <2>2. want.config # None /\ want.desired
    BY <1>0, <2>1 DEF WantedInv, Wanted
  <2>3. granted' => ScheduleReconnect(thread[t].task, thread[t].soon)
    BY <1>1, <2>1 DEF Start, Schedule
  <2> QED
    BY <1>0, <2>1, <2>2, <2>3, ScheduleComes DEF AttemptToCome
<1>2. CASE Lost
  <2>1. thread'["net"].pc = "lost"
    BY <1>0, <1>2 DEF Lost, Goto, ThreadsOK, Threads, Thread
  <2> QED
    BY <1>0, <1>2, <2>1 DEF Lost, Happen, WantedInv, Wanted, AttemptToCome, Calling
<1>3. CASE LostState \/ Available
  <2>1. AttemptToCome'
    BY <1>0, <1>3, CallComes DEF LostState, Available, Calling
  <2> QED
    BY <1>0, <1>3, <2>1 DEF LostState, Available, Happen, WantedInv, Wanted
<1>4. CASE Due
  <2>1. queue \in Seq(Tasks \cup {None}) /\ delayed \in {"attempt", "cycle"}
    BY <1>0, <1>4 DEF Due, IInv, TypeOK
  <2>2. /\ Len(queue) + 1 \in DOMAIN queue' /\ queue'[Len(queue) + 1] = delayed
        /\ \A j \in DOMAIN queue' : ~(j > Len(queue) + 1)
    BY <1>4, <2>1 DEF Due, Tasks
  <2>3. AttemptToCome'
    BY <2>1, <2>2 DEF AttemptToCome, Queued
  <2> QED
    BY <1>0, <1>4, <2>3 DEF Due, WantedInv, Wanted
<1> QED
  BY <1>1, <1>2, <1>3, <1>4

\* The executor takes the next task.
LEMMA TakeWanted ==
  ASSUME ServiceInv, Take
  PROVE  WantedInv'
<1> USE DEF saved, world, tasks, app, history
<1> SUFFICES ASSUME Wanted' PROVE want'.config # None /\ (AttemptToCome' \/ ~granted' \/ Served')
  BY DEF WantedInv
<1>0. /\ UNCHANGED <<want, mishaps, granted, thread, delayed, up>>
      /\ exec.pc = "idle" /\ queue # <<>> /\ queue' = Tail(queue)
      /\ queue \in Seq(Tasks \cup {None})
  BY DEF Take, ServiceInv, IInv, TypeOK
<1>1. Wanted /\ want.config # None /\ (AttemptToCome \/ ~granted \/ Served)
  BY <1>0 DEF ServiceInv, WantedInv, Wanted
<1>2. /\ 1 \in DOMAIN queue /\ Head(queue) = queue[1]
      /\ \A i \in DOMAIN queue : i # 1 => i - 1 \in DOMAIN queue' /\ queue'[i - 1] = queue[i]
      /\ \A j \in DOMAIN queue' : j + 1 \in DOMAIN queue /\ queue'[j] = queue[j + 1] /\ j \in Nat
      /\ DOMAIN queue \subseteq Nat
  BY <1>0
<1>3. CASE ~granted
  BY <1>0, <1>1, <1>3
<1>4. ASSUME granted, NEW i \in DOMAIN queue, queue[i] \in {"attempt", "cycle"},
             \A j \in DOMAIN queue : j > i => queue[j] # "down"
      PROVE  Queued' \/ Served'
  <2>1. CASE i = 1
    <3>1. Head(queue) \in {"attempt", "cycle"}
      BY <1>2, <1>4, <2>1
    <3>2. exec' = [pc |-> "connecting", task |-> Head(queue), config |-> want.config]
      BY <1>1, <1>4, <3>1 DEF Take, Wanted
    <3>3. \A j \in DOMAIN queue' : queue'[j] # "down"
      BY <1>2, <1>4, <2>1
    <3> QED
      BY <1>0, <3>2, <3>3 DEF Served
  <2>2. CASE i # 1
    <3>1. i - 1 \in DOMAIN queue' /\ queue'[i - 1] \in {"attempt", "cycle"}
      BY <1>2, <1>4, <2>2
    <3>2. \A j \in DOMAIN queue' : j > i - 1 => queue'[j] # "down"
      BY <1>2, <1>4
    <3> QED
      BY <3>1, <3>2 DEF Queued
  <2> QED
    BY <2>1, <2>2
<1>5. CASE AttemptToCome
  BY <1>0, <1>1, <1>3, <1>4, <1>5 DEF AttemptToCome, Queued
<1>6. CASE granted /\ ~AttemptToCome /\ Served
  <2>1. \A i \in DOMAIN queue : queue[i] \notin {"down", "attempt", "cycle"}
    BY <1>6 DEF AttemptToCome, Queued, Served
  <2>2. exec' = NoTask /\ UNCHANGED state
    BY <1>2, <1>6, <2>1 DEF Take
  <2>3. \A j \in DOMAIN queue' : queue'[j] # "down"
    BY <1>2, <2>1
  <2> QED
    BY <1>0, <1>1, <1>6, <2>2, <2>3 DEF Served, NoTask
<1> QED
  BY <1>0, <1>1, <1>3, <1>5, <1>6

LEMMA ServeWanted ==
  ASSUME ServiceInv, Serve
  PROVE  WantedInv'
<1> USE DEF saved, world, tasks, app, history
<1>0. IInv /\ WantedInv /\ exec \in Exec /\ want \in Want
  BY DEF ServiceInv, IInv, TypeOK
<1>1. CASE Take
  BY <1>1, TakeWanted
<1>2. CASE Down \/ Downed
  <2>1. ~Served
    BY <1>2 DEF Down, Downed, Served
  <2>2. mishaps \subseteq mishaps'
    BY <1>2 DEF Down, Downed, Suffer
  <2> QED
    BY <1>0, <1>2, <2>1, <2>2, WantedStays DEF Down, Downed
<1>3. CASE Connecting \/ Cycle \/ Up
  <2>1. Served => Served'
    BY <1>0, <1>3 DEF Connecting, Cycle, Up, Served, Exec
  <2> QED
    BY <1>0, <1>3, <2>1, WantedStays DEF Connecting, Cycle, Up
<1>4. CASE Done \/ Failed
  <2> SUFFICES ASSUME Wanted' PROVE want'.config # None /\ (AttemptToCome' \/ ~granted' \/ Served')
    BY DEF WantedInv
  <2>1. want'.desired = want.desired /\ want'.config = want.config
    BY <1>0, <1>4 DEF Done, Failed, Want
  <2>2. UNCHANGED <<mishaps, granted, thread, queue, delayed, up>>
    BY <1>4 DEF Done, Failed
  <2>3. Wanted /\ want.config # None /\ (AttemptToCome \/ ~granted \/ Served)
    BY <1>0, <2>1, <2>2 DEF WantedInv, Wanted
  <2>4. CASE AttemptToCome \/ ~granted
    BY <2>1, <2>2, <2>3, <2>4 DEF AttemptToCome, Queued
  <2>5. CASE Served
    <3>1. CASE Done
      <4>1. up = want.config
        BY <2>3, <2>5, <3>1 DEF Done, Served, ServiceInv, DoneUp, Wanted
      <4> QED
        BY <2>1, <2>2, <2>3, <2>5, <3>1, <4>1 DEF Done, Served, NoTask
    <3>2. CASE Failed
      <4>1. exec.pc = "failed" /\ exec.config = want.config
        BY <2>5, <3>2 DEF Failed, Served
      <4>2. \/ exec' = [exec EXCEPT !.pc = "again"]
            \/ exec' = NoTask /\ state' = "ERROR"
        BY <2>3, <3>2 DEF Failed, SetState, Wanted
      <4> QED
        BY <1>0, <2>1, <2>2, <2>3, <2>5, <4>1, <4>2 DEF Served, NoTask, Exec
    <3> QED
      BY <1>4, <3>1, <3>2
  <2> QED
    BY <2>3, <2>4, <2>5
<1>5. CASE Again
  <2>1. UNCHANGED <<want, mishaps, granted>> /\ ScheduleReconnect("attempt", FALSE)
    BY <1>5 DEF Again
  <2>2. Wanted => want.config # None /\ want.desired
    BY <1>0 DEF WantedInv, Wanted
  <2>3. Wanted => AttemptToCome'
    BY <1>0, <2>1, <2>2, ScheduleComes DEF AttemptToCome
  <2> QED
    BY <2>1, <2>2, <2>3 DEF WantedInv, Wanted
<1> QED
  BY <1>1, <1>2, <1>3, <1>4, <1>5 DEF Serve

LEMMA LadderWanted ==
  ASSUME ServiceInv, Ladder
  PROVE  WantedInv'
<1> USE DEF saved, world, tasks, app, history
<1>0. IInv /\ WantedInv /\ ThreadsOK /\ "worker" \in Threads
  BY ThreadsTyped DEF ServiceInv, ThreadsOK
<1>1. CASE Prepared \/ Requested
  <2>1. ASSUME NEW config \in Configs, NEW kept, NEW pc \in {"start", "retreat"}, NEW task,
               StartOn(config, kept, pc, task)
        PROVE  WantedInv'
    <3>1. AttemptToCome'
      BY <1>0, <2>1, CallComes DEF StartOn, Calling
    <3> QED
      BY <2>1, <3>1, NoneApart DEF StartOn, WantedInv
  <2>2. \/ StartOn("p2p", store.config, "start", "cycle")
        \/ StartOn("direct", "direct", "retreat", "attempt")
        \/ StartOn("relay", store.config, "start", "cycle")
    BY <1>1 DEF Prepared, Requested
  <2> QED
    BY <2>1, <2>2 DEF Configs
<1>2. CASE Start("worker")
  BY <1>0, <1>2, ScheduleWanted
<1>3. CASE Provision \/ Probe \/ Probed \/ FallBack \/ FallBackToRelay \/ NoFallback \/ NotRequested
  <2>1. /\ \A t \in Threads \ {"worker"} : thread'[t] = thread[t]
        /\ thread["worker"].pc \notin Calling
    <3>1. Rest("worker") \/ UNCHANGED thread \/ \E pc : Goto("worker", pc)
      BY <1>3 DEF Provision, Probe, Probed, FallBack, FallBackToRelay, NoFallback, NotRequested
    <3>2. \A t \in Threads \ {"worker"} : thread'[t] = thread[t]
      BY <1>0, <3>1 DEF Rest, Goto, ThreadsOK
    <3>3. thread["worker"].pc \notin Calling
      BY <1>3 DEF Provision, Probe, Probed, FallBack, FallBackToRelay, NoFallback, NotRequested,
                  Relaying, Calling
    <3> QED
      BY <3>2, <3>3
  <2> QED
    BY <1>0, <1>3, <2>1, WantedKept
    DEF Provision, Probe, Probed, FallBack, FallBackToRelay, NoFallback, NotRequested, SetState
<1> QED
  BY <1>1, <1>2, <1>3 DEF Ladder

LEMMA NextWanted == ServiceInv /\ [Next]_vars => WantedInv'
<1> SUFFICES ASSUME ServiceInv, [Next]_vars PROVE WantedInv'
  OBVIOUS
<1>0. "main" \in Threads /\ "net" \in Threads
  BY DEF Threads
<1>1. CASE \/ Connect \/ Pair \/ Disconnect \/ Forget \/ Restore \/ Grant \/ Deny \/ Drop
  BY <1>1, MainWanted
<1>2. CASE Lost \/ Available \/ Due \/ Watch
  BY <1>0, <1>2, ScheduleWanted DEF Watch
<1>3. CASE Run
  BY <1>0, <1>3, MainWanted, ScheduleWanted DEF Run
<1>4. CASE Serve \/ Ladder
  BY <1>4, ServeWanted, LadderWanted
<1>5. CASE Die \/ Close
  <2>0. PICK kept : Begin(kept)
    BY <1>5 DEF Die, Close
  <2>1. ~want'.desired
    BY <2>0 DEF Begin
  <2> QED
    BY <2>1 DEF WantedInv, Wanted
<1>6. CASE UNCHANGED vars
  BY <1>6, WantedKept DEF vars, saved, world, tasks, app, history, ServiceInv
<1> QED
  BY <1>1, <1>2, <1>3, <1>4, <1>5, <1>6 DEF Next

\* A call of scheduleReconnect that begins or goes on has its task.
LEMMA TasksStay ==
  ASSUME ServiceInv,
         \A t \in Threads :
           \/ thread'[t] = thread[t]
           \/ thread'[t].pc \notin {"start", "schedule", "retreat"}
           \/ thread'[t].task \in {"attempt", "cycle"}
  PROVE  TasksGiven'
BY DEF ServiceInv, TasksGiven

\* What the actions do to the threads.
LEMMA RestMoves ==
  ASSUME ThreadsOK, NEW t \in Threads, Rest(t)
  PROVE  \A u \in Threads : IF u = t THEN thread'[u].pc = "idle" ELSE thread'[u] = thread[u]
BY DEF ThreadsOK, Rest, Resting

LEMMA GotoMoves ==
  ASSUME ThreadsOK, NEW t \in Threads, NEW pc, Goto(t, pc)
  PROVE  \A u \in Threads : IF u = t THEN thread'[u].pc = pc ELSE thread'[u] = thread[u]
BY DEF ThreadsOK, Goto, Thread

LEMMA ToScheduleMoves ==
  ASSUME ThreadsOK, NEW t \in Threads, NEW pc, NEW task, NEW soon, ToSchedule(t, pc, task, soon)
  PROVE  \A u \in Threads : IF u = t THEN thread'[u].pc = pc /\ thread'[u].task = task
                                    ELSE thread'[u] = thread[u]
BY DEF ThreadsOK, ToSchedule

LEMMA BeginMoves ==
  ASSUME ThreadsOK, NEW kept, Begin(kept)
  PROVE  \A t \in Threads : thread'[t].pc \in {"idle", "restore"}
BY DEF ThreadsOK, Begin, Resting

LEMMA NextTasks == ServiceInv /\ [Next]_vars => TasksGiven'
<1> SUFFICES ASSUME ServiceInv, [Next]_vars PROVE TasksGiven'
  OBVIOUS
<1> USE DEF Threads
<1>0. ThreadsOK
  BY ThreadsTyped DEF ServiceInv, ThreadsOK
<1>a. ASSUME UNCHANGED thread PROVE TasksGiven'
  BY <1>a, TasksStay
<1>b. ASSUME NEW t \in Threads, Rest(t) PROVE TasksGiven'
  BY <1>0, <1>b, RestMoves, TasksStay
<1>c. ASSUME NEW t \in Threads, NEW pc, pc \notin {"start", "schedule", "retreat"}, Goto(t, pc)
      PROVE  TasksGiven'
  BY <1>0, <1>c, GotoMoves, TasksStay
<1>d. ASSUME NEW t \in Threads, NEW pc, NEW task \in {"attempt", "cycle"}, NEW soon,
             ToSchedule(t, pc, task, soon)
      PROVE  TasksGiven'
  <2>1. \A u \in Threads : thread'[u] = thread[u] \/ thread'[u].task = task
    BY <1>0, <1>d, ToScheduleMoves
  <2> QED
    BY <2>1, TasksStay
<1>1. CASE Connect \/ Pair
  BY <1>1, <1>a, <1>d DEF Connect, ConnectSmart, Pair
<1>2. CASE Disconnect \/ Forget
  BY <1>2, <1>c DEF Disconnect, Forget, Stop
<1>3. CASE Restore
  BY <1>0, <1>3, TasksStay DEF Restore, ThreadsOK, Thread
<1>4. CASE Grant \/ Drop
  BY <1>4, <1>a, <1>d DEF Grant, Drop
<1>5. CASE Lost \/ Available \/ Watch
  <2>1. CASE Lost
    BY <2>1, <1>c DEF Lost
  <2>2. CASE Available
    BY <2>2, <1>d DEF Available
  <2>3. CASE Watch
    BY <2>3, <1>b, <1>d DEF Watch, LostState, Schedule
  <2> QED
    BY <1>5, <2>1, <2>2, <2>3
<1>6. CASE Deny \/ Due \/ Serve \/ UNCHANGED vars
  BY <1>6, <1>a DEF Deny, Due, Serve, Take, Down, Downed, Connecting, Cycle, Up, Done, Failed,
                    Again, vars
<1>7. CASE Run
  <2>1. CASE SubmitDown
    BY <2>1, <1>c DEF SubmitDown
  <2>2. CASE Clear \/ Schedule("main")
    BY <2>2, <1>b DEF Clear, Schedule
  <2>3. CASE RestoreWant
    BY <2>3, <1>b, <1>d DEF RestoreWant
  <2>4. CASE Start("main")
    BY <2>4, <1>b, <1>c DEF Start
  <2>5. CASE Notice \/ Paired
    BY <2>5, <1>a, <1>d DEF Notice, Paired, ConnectSmart
  <2> QED
    BY <1>7, <2>1, <2>2, <2>3, <2>4, <2>5 DEF Run
<1>8. CASE Ladder
  <2>1. CASE Prepared \/ Requested
    BY <2>1, <1>d DEF Prepared, Requested, StartOn
  <2>2. CASE Start("worker")
    BY <2>2, <1>b, <1>c DEF Start
  <2>3. CASE Provision \/ Probe \/ Probed \/ FallBack \/ FallBackToRelay \/ NoFallback \/ NotRequested
    <3>1. \/ Rest("worker")
          \/ UNCHANGED thread
          \/ \E pc \in {"probe", "fallback", "prepare", "request", "idle"} : Goto("worker", pc)
      BY <2>3 DEF Provision, Probe, Probed, FallBack, FallBackToRelay, NoFallback, NotRequested
    <3> QED
      BY <3>1, <1>a, <1>b, <1>c
  <2> QED
    BY <1>8, <2>1, <2>2, <2>3 DEF Ladder
<1>9. CASE Die \/ Close
  <2>1. \E kept : Begin(kept)
    BY <1>9 DEF Die, Close
  <2> QED
    BY <1>0, <2>1, BeginMoves DEF TasksGiven
<1> QED
  BY <1>1, <1>2, <1>3, <1>4, <1>5, <1>6, <1>7, <1>8, <1>9 DEF Next

\* Only stop leads to the steps that take a tunnel down.
LEMMA NextDown == ServiceInv /\ [Next]_vars => DownAsked'
<1> SUFFICES ASSUME ServiceInv, [Next]_vars PROVE DownAsked'
  OBVIOUS
<1> USE DEF Threads, history
<1>0. ThreadsOK /\ DownAsked
  BY ThreadsTyped DEF ServiceInv, ThreadsOK
<1>a. ASSUME UNCHANGED thread["main"], UNCHANGED choice PROVE DownAsked'
  BY <1>0, <1>a DEF DownAsked
<1>b. ASSUME thread'["main"].pc \notin {"down", "forget", "clear"} PROVE DownAsked'
  BY <1>b DEF DownAsked
<1>1. CASE Connect \/ Pair
  BY <1>0, <1>1, <1>b, ToScheduleMoves DEF Connect, ConnectSmart, Pair, Free
<1>2. CASE Disconnect \/ Forget
  BY <1>2 DEF Disconnect, Forget, Stop, Choose, DownAsked
<1>3. CASE Restore
  BY <1>0, <1>3, <1>b DEF Restore, ThreadsOK, Thread
<1>4. CASE Grant \/ Drop
  <2>1. UNCHANGED thread \/ \E soon : ToSchedule("main", "schedule", "attempt", soon)
    BY <1>4 DEF Grant, Drop
  <2>2. UNCHANGED choice
    BY <1>4 DEF Grant, Drop, Happen
  <2> QED
    BY <1>0, <2>1, <2>2, <1>a, <1>b, ToScheduleMoves
<1>5. CASE Lost \/ Available \/ Watch
  <2>1. UNCHANGED thread["main"]
    BY <1>0, <1>5, RestMoves, GotoMoves, ToScheduleMoves
    DEF Lost, Available, Watch, LostState, Schedule
  <2> QED
    BY <1>5, <2>1, <1>a DEF Lost, Available, Watch, LostState, Schedule, Happen
<1>6. CASE Deny \/ Due \/ Serve \/ UNCHANGED vars
  BY <1>6, <1>a DEF Deny, Due, Serve, Take, Down, Downed, Connecting, Cycle, Up, Done, Failed,
                    Again, vars, Happen, Suffer
<1>7. CASE Run
  <2>1. CASE SubmitDown
    BY <1>0, <2>1, GotoMoves DEF SubmitDown, DownAsked
  <2>2. CASE Clear \/ Schedule("main")
    BY <1>0, <2>2, <1>b, RestMoves DEF Clear, Schedule
  <2>3. CASE RestoreWant
    <3>1. Rest("main") \/ ToSchedule("main", "start", "attempt", TRUE)
      BY <2>3 DEF RestoreWant
    <3> QED
      BY <1>0, <3>1, <1>b, RestMoves, ToScheduleMoves
  <2>4. CASE Start("main")
    <3>1. Rest("main") \/ Goto("main", "relay")
      BY <2>4 DEF Start
    <3> QED
      BY <1>0, <3>1, <1>b, RestMoves, GotoMoves
  <2>5. CASE Notice
    BY <2>5, <1>a DEF Notice
  <2>6. CASE Paired
    BY <1>0, <2>6, <1>b, ToScheduleMoves DEF Paired, ConnectSmart
  <2> QED
    BY <1>7, <2>1, <2>2, <2>3, <2>4, <2>5, <2>6 DEF Run
<1>8. CASE Ladder
  <2>1. CASE Prepared \/ Requested
    <3>1. UNCHANGED choice /\ UNCHANGED thread["main"]
      BY <1>0, <2>1, ToScheduleMoves DEF Prepared, Requested, StartOn, Suffer
    <3> QED
      BY <3>1, <1>a
  <2>2. CASE Start("worker")
    <3>1. UNCHANGED choice /\ (Rest("worker") \/ Goto("worker", "relay"))
      BY <2>2 DEF Start
    <3> QED
      BY <1>0, <3>1, <1>a, RestMoves, GotoMoves
  <2>3. CASE Provision \/ Probe \/ Probed \/ FallBack \/ FallBackToRelay \/ NoFallback \/ NotRequested
    <3>1. Rest("worker") \/ UNCHANGED thread \/ \E pc : Goto("worker", pc)
      BY <2>3 DEF Provision, Probe, Probed, FallBack, FallBackToRelay, NoFallback, NotRequested
    <3>2. UNCHANGED thread["main"]
      BY <1>0, <3>1, RestMoves, GotoMoves
    <3>3. UNCHANGED choice
      BY <2>3 DEF Provision, Probe, Probed, FallBack, FallBackToRelay, NoFallback, NotRequested
    <3> QED
      BY <3>2, <3>3, <1>a
  <2> QED
    BY <1>8, <2>1, <2>2, <2>3 DEF Ladder
<1>9. CASE Die \/ Close
  <2>1. \E kept : Begin(kept)
    BY <1>9 DEF Die, Close
  <2> QED
    BY <1>0, <2>1, <1>b, BeginMoves
<1> QED
  BY <1>1, <1>2, <1>3, <1>4, <1>5, <1>6, <1>7, <1>8, <1>9 DEF Next

\* What has been brought up goes down unseen, or not before the executor has said so.
LEMMA NextDone == ServiceInv /\ [Next]_vars => DoneUp'
<1> SUFFICES ASSUME ServiceInv, [Next]_vars, exec'.pc = "done", mishaps' = {}
             PROVE  up' = exec'.config
  BY DEF DoneUp
<1> USE DEF history
<1>0. DoneUp /\ exec \in Exec
  BY DEF ServiceInv, IInv, TypeOK
<1>1. CASE Drop
  BY <1>1 DEF Drop, Internal
<1>2. CASE Serve
  <2>1. CASE Up
    BY <1>0, <2>1 DEF Up, Exec
  <2>2. CASE ~Up
    <3>1. CASE Take \/ Down \/ Downed \/ Connecting \/ Cycle
      BY <1>0, <3>1 DEF Take, Down, Downed, Connecting, Cycle, NoTask, Exec
    <3>2. CASE Done \/ Failed \/ Again
      <4>1. exec' \in {NoTask, [exec EXCEPT !.pc = "again"]}
        BY <3>2 DEF Done, Failed, Again
      <4>2. NoTask.pc = "idle" /\ [exec EXCEPT !.pc = "again"].pc = "again"
        BY <1>0 DEF NoTask, Exec
      <4> QED
        BY <4>1, <4>2
    <3> QED
      BY <1>2, <2>2, <3>1, <3>2 DEF Serve
  <2> QED
    BY <2>1, <2>2
<1>3. CASE Die \/ Close
  <2>1. PICK kept : Begin(kept)
    BY <1>3 DEF Die, Close
  <2> QED
    BY <2>1 DEF Begin, NoTask
<1>4. CASE UNCHANGED <<up, exec>> /\ mishaps \subseteq mishaps'
  BY <1>0, <1>4 DEF DoneUp
<1>5. CASE \/ Connect \/ Pair \/ Disconnect \/ Forget \/ Restore \/ Grant \/ Deny
           \/ Lost \/ Available \/ Due \/ Watch \/ Run
  BY <1>4, <1>5 DEF Connect, Pair, Paired, ConnectSmart, Suffer, Disconnect, Forget, Stop, Restore, Grant, Deny, Lost, Available,
       Due, Watch, LostState, Schedule, Run, SubmitDown, Clear, RestoreWant, Start, Notice,
       Choose, Happen
<1>6. CASE Ladder \/ UNCHANGED vars
  BY <1>4, <1>6 DEF Ladder, Provision, Probe, Probed, FallBack, FallBackToRelay, NoFallback, Prepared,
       Requested, NotRequested, Start, StartOn, Suffer, vars
<1> QED
  BY <1>1, <1>2, <1>3, <1>5, <1>6 DEF Next

LEMMA InitService == Init => DownAsked /\ TasksGiven /\ DoneUp /\ WantedInv
BY DEF Init, DownAsked, TasksGiven, DoneUp, WantedInv, Wanted, NoTask, Resting, Threads

\* The inductive invariant of what is wanted: an attempt is still to come behind whatever
\* takes the tunnel down, or the executor is at one, or has ended one, with the
\* configuration that is wanted.
THEOREM ServiceInvariance == Spec => []ServiceInv
<1>1. Init => ServiceInv
  BY InitTyped, InitHeld, InitService DEF IInv, ServiceInv
<1>2. ServiceInv /\ [Next]_vars => ServiceInv'
  BY NextTyped, NextHeld, NextWanted, NextTasks, NextDown, NextDone DEF IInv, ServiceInv
<1> QED
  BY <1>1, <1>2, PTL DEF Spec

\* When every call has come to an end a tunnel that is wanted is up with the configuration
\* of the last start, or says that it has failed, or waits for the consent: no order of the
\* threads, no cancelled retry and no fallback leaves it down without a word
\* (AndroidWireGuard.kt: scheduleReconnect and connectAttempt).
THEOREM WantedStaysServed == Spec => []WantedIsServed
<1>1. ServiceInv => WantedIsServed
  BY DEF ServiceInv, WantedInv, Wanted, WantedIsServed, Quiet, AttemptToCome, Calling, Queued,
         Served, IInv, TypeOK, Threads
<1> QED
  BY <1>1, ServiceInvariance, PTL
===============================================================================
