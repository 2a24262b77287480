--------------------------- MODULE EnrollmentProofs ---------------------------
(***************************************************************************)
(* Theorems about Enrollment, for every number of invites, handlers,       *)
(* inviters and administrators and every bound.                            *)
(***************************************************************************)
EXTENDS Enrollment, TLAPS

USE DEF history

-----------------------------------------------------------------------------
(* Typing of the constants and of the operators on data.                    *)

LEMMA NullsTyped ==
  /\ NoRecord \in Record
  /\ NoGroups \in GroupFile
  /\ NoRequest \in Request
  /\ NoMemory \in Memory
<1>2. NoRecord \in Record
  BY DEF NoRecord, Record, Status, NoDevice
<1>3. NoGroups \in GroupFile
  BY DEF NoGroups, GroupFile
<1>4. NoRequest \in Request
  BY DEF NoRequest, Request
<1>5. 2 \in Hosts
  BY ConstantsAssumption DEF Hosts
<1>6. NoMemory \in Memory
  BY <1>2, <1>3, <1>5 DEF NoMemory, Memory, NoDevice
<1> QED
  BY <1>2, <1>3, <1>4, <1>6

\* cleanup_enrollments returns well-formed records.
LEMMA CleanupTyped ==
  ASSUME NEW items \in [Invites -> Record], NEW now \in Nat
  PROVE  Cleanup(items, now) \in [Invites -> Record]
<1> SUFFICES ASSUME NEW e \in Invites
             PROVE  Retain(Expire(items[e], now), now) \in Record
  BY DEF Cleanup
<1>1. items[e] \in Record
  OBVIOUS
<1>2. Expire(items[e], now) \in Record
  BY <1>1 DEF Expire, Record, Status
<1>3. [NoRecord EXCEPT !.status = "dropped"] \in Record
  BY NullsTyped DEF Record, Status
<1> QED
  BY <1>2, <1>3 DEF Retain

Terminal == {"used", "expired", "dropped"}

\* cleanup_enrollments never reopens a record, and what it leaves open it leaves
\* unchanged.
LEMMA CleanupKeeps ==
  ASSUME NEW items \in [Invites -> Record], NEW now \in Nat, NEW e \in Invites
  PROVE  /\ items[e].status \in Terminal => Cleanup(items, now)[e].status \in Terminal
         /\ Cleanup(items, now)[e].status = "pending" =>
              items[e].status = "pending" /\ Cleanup(items, now)[e] = items[e]
         /\ items[e].status \in Terminal =>
              \/ Cleanup(items, now)[e] = items[e]
              \/ /\ Cleanup(items, now)[e].status = "dropped"
                 /\ items[e].at + Retention < now
<1>0. items[e] \in Record
  OBVIOUS
<1>1. Cleanup(items, now)[e] = Retain(Expire(items[e], now), now)
  BY DEF Cleanup
<1>2. items[e].status \in Terminal => Expire(items[e], now) = items[e]
  BY DEF Expire, Terminal
<1>3. Expire(items[e], now).status = "pending" => Expire(items[e], now) = items[e]
  BY <1>0 DEF Expire, Record
<1>4. [NoRecord EXCEPT !.status = "dropped"].status = "dropped"
  BY DEF NoRecord
<1>5. \A r : \/ Retain(r, now) = r
             \/ Retain(r, now).status = "dropped" /\ now > r.at + Retention
  BY <1>4 DEF Retain
<1>6. items[e].at \in Nat /\ Retention \in Nat
  BY <1>0, ConstantsAssumption DEF Record
<1> QED
  BY <1>1, <1>2, <1>3, <1>5, <1>6 DEF Terminal

-----------------------------------------------------------------------------
(* Type correctness.                                                        *)

\* What a step that leaves the critical section writes.
LEMMA LeaveTyped ==
  ASSUME TypeOK, NEW h \in Handlers, Leave(h)
  PROVE  /\ lock' \in Handlers \cup {NoOne}
         /\ pc' \in [Handlers -> Labels]
         /\ req' \in [Handlers -> Request]
         /\ \A g \in Handlers : pc'[g] # "idle" => req'[g].inv \in Invites
         /\ mem' \in [Handlers -> Memory]
BY NullsTyped DEF TypeOK, Leave, Labels

LEMMA MarkUsedTyped ==
  ASSUME NEW items \in [Invites -> Record], NEW e \in Invites,
         NEW now \in Nat, NEW d \in Nat
  PROVE  MarkUsed(items, e, now, d) \in [Invites -> Record]
BY DEF MarkUsed, Record, Status

\* Every step of a handler keeps every variable in its type.
LEMMA HandlerTyped ==
  ASSUME TypeOK, NEW h \in Handlers, Arrive(h) \/ Acquire(h) \/ HandlerStep(h)
  PROVE  TypeOK'
<1> USE DEF registry, handlers, staff, counts, Goto
<1>0. /\ mem[h] \in Memory /\ req[h] \in Request
      /\ mem[h].items \in [Invites -> Record]
      /\ req[h].now \in Nat
      /\ pc[h] # "idle" => req[h].inv \in Invites /\ Invited(h) \in Record
  BY DEF TypeOK, Memory, Request, Invited
<1>1. CASE Arrive(h)
  BY <1>1 DEF Arrive, TypeOK, Labels, Request
<1>2. CASE Acquire(h)
  <2>1. Cleanup(enrollments, req[h].now) \in [Invites -> Record]
    BY <1>0, CleanupTyped DEF TypeOK
  <2>2. mem' \in [Handlers -> Memory]
    BY <1>0, <1>2, <2>1 DEF Acquire, TypeOK, Memory
  <2> QED
    BY <1>2, <2>2 DEF Acquire, TypeOK, Labels
<1>3. CASE Reject(h)
  BY <1>0, <1>3, LeaveTyped DEF Reject, TypeOK
<1>4. CASE RejectTaken(h)
  BY <1>0, <1>4, LeaveTyped, MarkUsedTyped DEF RejectTaken, TypeOK, NoDevice
<1>5. CASE CheckName(h)
  BY <1>5 DEF CheckName, TypeOK, Labels
<1>6. CASE ReadGroups(h)
  <2>1. mem' \in [Handlers -> Memory]
    BY <1>0, <1>6 DEF ReadGroups, TypeOK, Memory
  <2> QED
    BY <1>6, <2>1 DEF ReadGroups, TypeOK, Labels
<1>7. CASE PickAddress(h)
  <2>1. PICK ip \in Hosts : mem' = [mem EXCEPT ![h].ip = ip]
    BY <1>7 DEF PickAddress, FreeHosts
  <2>2. [mem[h] EXCEPT !.ip = ip] \in Memory
    BY <1>0 DEF Memory
  <2>3. mem' \in [Handlers -> Memory]
    BY <2>1, <2>2 DEF TypeOK
  <2> QED
    BY <1>7, <2>3 DEF PickAddress, TypeOK, Labels
<1>8. CASE ReadDevices(h)
  <2>1. mem' \in [Handlers -> Memory]
    BY <1>0, <1>8 DEF ReadDevices, TypeOK, Memory
  <2> QED
    BY <1>8, <2>1 DEF ReadDevices, TypeOK, Labels
<1>9. CASE Abort(h)
  BY <1>9, LeaveTyped DEF Abort, TypeOK
<1>10. CASE SaveDevices(h)
  <2>1. NewDevice(h) \in Device
    BY <1>0, <1>10 DEF SaveDevices, NewDevice, Device, TypeOK, Memory, Record
  <2>2. devices' \in SUBSET Device
    BY <1>0, <1>10, <2>1 DEF SaveDevices, Memory
  <2>3. mem' \in [Handlers -> Memory]
    <3>1. minted + 1 \in Nat
      BY DEF TypeOK
    <3>2. [mem[h] EXCEPT !.dev = minted + 1] \in Memory
      BY <1>0, <3>1 DEF Memory
    <3> QED
      BY <1>10, <3>2 DEF SaveDevices, TypeOK
  <2>4. pc' \in [Handlers -> Labels]
    BY <1>10 DEF SaveDevices, TypeOK, Labels
  <2> QED
    BY <1>10, <2>2, <2>3, <2>4 DEF SaveDevices, TypeOK
<1>11. CASE SaveGroups(h)
  <2>1. mem[h].groups \in GroupFile /\ mem[h].dev \in Nat
    BY <1>0 DEF Memory
  <2>2. Invited(h).groups \X {mem[h].dev} \subseteq Groups \X Nat
    BY <1>0, <1>11, <2>1 DEF SaveGroups, Record
  <2>3. Assigned(h) \in GroupFile
    BY <2>1, <2>2 DEF Assigned, GroupFile
  <2> QED
    BY <1>11, <2>3 DEF SaveGroups, TypeOK, Labels
<1>12. CASE RollBack(h)
  BY <1>0, <1>12, LeaveTyped DEF RollBack, TypeOK, Memory
<1>16. CASE FailLate(h)
  BY <1>0, <1>16, LeaveTyped DEF FailLate, TypeOK, Memory
<1>13. CASE Mark(h)
  <2>1. enrollments' \in [Invites -> Record]
    BY <1>0, <1>13, MarkUsedTyped DEF Mark, Memory
  <2> QED
    BY <1>13, <2>1 DEF Mark, TypeOK, Labels
<1>14. CASE Respond(h)
  <2>1. granted' \in [Invites -> SUBSET Nat]
    BY <1>0, <1>14 DEF Respond, TypeOK, Memory
  <2> QED
    BY <1>14, <2>1, NullsTyped DEF Respond, TypeOK, Labels
<1>15. CASE LoseResponse(h)
  BY <1>15, NullsTyped DEF LoseResponse, TypeOK, Labels
<1> QED
  BY <1>1, <1>2, <1>3, <1>4, <1>5, <1>6, <1>7, <1>8, <1>9, <1>10, <1>11, <1>12,
     <1>13, <1>14, <1>15, <1>16 DEF HandlerStep

Args == [busy: BOOLEAN, name: Names \cup {None}, groups: SUBSET Groups, ttl: Nat, now: Nat]
Edit == [doing: {"nothing", "devices", "groups"}, devices: SUBSET Device,
         groups: GroupFile]

\* Every step of an inviter keeps every variable in its type.
LEMMA InviterTyped ==
  ASSUME TypeOK, NEW i \in Inviters,
         PrepareInvite(i) \/ IssueInvite(i) \/ DropInvite(i)
  PROVE  TypeOK'
<1> USE DEF registry, handlers, staff, counts
<1>0. inviter \in [Inviters -> Args] /\ NoArgs \in Args
  BY NullsTyped DEF TypeOK, Args, NoArgs
<1>1. CASE PrepareInvite(i)
  <2>1. inviter' \in [Inviters -> Args]
    BY <1>0, <1>1, ConstantsAssumption DEF PrepareInvite, TypeOK, Args, GroupFile
  <2> QED
    BY <1>1, <2>1 DEF PrepareInvite, TypeOK, Args
<1>2. CASE IssueInvite(i)
  <2>1. inviter[i] \in Args
    BY <1>0
  <2>2. Cleanup(enrollments, inviter[i].now) \in [Invites -> Record]
    BY <2>1, CleanupTyped DEF TypeOK, Args
  <2>3. [status |-> "pending", name |-> inviter[i].name,
         groups |-> inviter[i].groups, expires |-> inviter[i].now + inviter[i].ttl,
         at |-> 0, dev |-> NoDevice] \in Record
    BY <2>1 DEF Args, Record, Status, NoDevice
  <2>4. enrollments' \in [Invites -> Record]
    BY <1>2, <2>2, <2>3 DEF IssueInvite, TypeOK
  <2>5. inviter' \in [Inviters -> Args]
    BY <1>0, <1>2 DEF IssueInvite
  <2> QED
    BY <1>2, <2>4, <2>5 DEF IssueInvite, TypeOK, Args
<1>3. CASE DropInvite(i)
  <2>1. inviter' \in [Inviters -> Args]
    BY <1>0, <1>3 DEF DropInvite
  <2> QED
    BY <1>3, <2>1 DEF DropInvite, TypeOK, Args
<1> QED
  BY <1>1, <1>2, <1>3

\* Every step of an administrator keeps every variable in its type.
LEMMA AdminTyped ==
  ASSUME TypeOK, NEW a \in Admins,
         ReadRegistry(a) \/ GiveUp(a) \/ WriteDevices(a) \/ WriteGroups(a)
  PROVE  TypeOK'
<1> USE DEF registry, handlers, staff, counts
<1>0. /\ admin \in [Admins -> Edit] /\ NoEdit \in Edit
      /\ admin[a].devices \in SUBSET Device /\ admin[a].groups \in GroupFile
  BY NullsTyped DEF TypeOK, Edit, NoEdit
<1>1. CASE ReadRegistry(a)
  <2>1. admin' \in [Admins -> Edit]
    BY <1>0, <1>1, NullsTyped DEF ReadRegistry, TypeOK, Edit
  <2> QED
    BY <1>1, <2>1 DEF ReadRegistry, TypeOK, Edit
<1>2. CASE GiveUp(a)
  <2>1. admin' \in [Admins -> Edit]
    BY <1>0, <1>2 DEF GiveUp
  <2> QED
    BY <1>2, <2>1 DEF GiveUp, TypeOK, Edit
<1>3. CASE WriteDevices(a)
  <2>1. admin' \in [Admins -> Edit]
    BY <1>0, <1>3 DEF WriteDevices, Finish
  <2>2. devices' \in SUBSET Device
    BY <1>0, <1>3 DEF WriteDevices, Device
  <2> QED
    BY <1>3, <2>1, <2>2 DEF WriteDevices, Finish, TypeOK, Edit
<1>4. CASE WriteGroups(a)
  <2>1. admin' \in [Admins -> Edit]
    BY <1>0, <1>4 DEF WriteGroups, Finish
  <2>2. IdsIn(devices) \subseteq Nat
    BY DEF IdsIn, TypeOK, Device
  <2>3. groups' \in GroupFile
    BY <1>0, <1>4, <2>2 DEF WriteGroups, GroupFile
  <2> QED
    BY <1>4, <2>1, <2>3 DEF WriteGroups, Finish, TypeOK, Edit
<1> QED
  BY <1>1, <1>2, <1>3, <1>4

\* The remaining steps: list_enrollments, a crash, the clock, a stutter.
LEMMA OthersTyped ==
  ASSUME TypeOK, ListEnrollments \/ Crash \/ Tick \/ UNCHANGED vars
  PROVE  TypeOK'
<1> USE DEF registry, handlers, staff, counts
<1>1. CASE ListEnrollments
  BY <1>1, CleanupTyped DEF ListEnrollments, TypeOK
<1>2. CASE Crash
  <2>1. cut' \subseteq Nat
    BY <1>2 DEF Crash, TypeOK, Memory
  <2> QED
    BY <1>2, <2>1, NullsTyped DEF Crash, TypeOK, Labels
<1>3. CASE Tick
  BY <1>3 DEF Tick, TypeOK
<1>4. CASE UNCHANGED vars
  BY <1>4 DEF vars, TypeOK
<1> QED
  BY <1>1, <1>2, <1>3, <1>4

LEMMA InitTyped == Init => TypeOK
<1> SUFFICES ASSUME Init PROVE TypeOK
  OBVIOUS
<1>1. inviter \in [Inviters -> Args]
  BY NullsTyped DEF Init, NoArgs, Args
<1>2. admin \in [Admins -> Edit]
  BY NullsTyped DEF Init, NoEdit, Edit
<1>3. groups \in GroupFile
  BY DEF Init, GroupFile
<1> QED
  BY <1>1, <1>2, <1>3, NullsTyped DEF Init, TypeOK, Labels, Args, Edit

\* Every variable always holds a value of its type.
THEOREM TypeCorrect == Spec => []TypeOK
<1>1. TypeOK /\ [Next]_vars => TypeOK'
  BY HandlerTyped, InviterTyped, AdminTyped, OthersTyped DEF Next
<1> QED
  BY <1>1, InitTyped, PTL DEF Spec

-----------------------------------------------------------------------------
(* The inductive invariant.  OneGrant is not inductive: it rests on the     *)
(* lock (one handler in the critical section, which therefore works on a    *)
(* current copy of enrollments.json) and on the fact that a record is       *)
(* terminal from the moment the response may be sent.                       *)

LockInv == \A h \in Handlers : pc[h] \in Critical <=> lock = h

SnapshotInv ==
  \A h \in Handlers :
    pc[h] \in Critical => mem[h].items = Cleanup(enrollments, req[h].now)

OpenInv ==
  \A h \in Handlers :
    pc[h] \in Critical \ {"checking"} => Invited(h).status = "pending"

ClosedInv ==
  \A h \in Handlers :
    pc[h] = "responding" => /\ enrollments[req[h].inv].status \in Terminal
                            /\ granted[req[h].inv] = {}

SoleInv ==
  \A h1, h2 \in Handlers :
    pc[h1] = "responding" /\ pc[h2] = "responding" /\ req[h1].inv = req[h2].inv
      => h1 = h2

GrantedInv ==
  \A e \in Invites : granted[e] # {} => enrollments[e].status \in Terminal

ClockInv == /\ \A h \in Handlers : req[h].now <= clock
            /\ \A i \in Inviters : inviter[i].now <= clock

IInv ==
  /\ TypeOK /\ LockInv /\ SnapshotInv /\ OpenInv /\ ClosedInv /\ SoleInv
  /\ GrantedInv /\ ClockInv /\ OneGrant /\ PendingNamesUnique

\* What a handler other than h sees of a step of h: its own variables stay.
Frame(h) == \A g \in Handlers \ {h} :
              pc'[g] = pc[g] /\ req'[g] = req[g] /\ mem'[g] = mem[g]

\* Two stored lists related by a step: no terminal record is reopened, and no
\* record is opened.
Closing(old, new) ==
  \A e \in Invites :
    /\ old[e].status \in Terminal => new[e].status \in Terminal
    /\ new[e].status = "pending" => old[e].status = "pending" /\ new[e].name = old[e].name

LEMMA CleanupCloses ==
  ASSUME NEW items \in [Invites -> Record], NEW now \in Nat
  PROVE  Closing(items, Cleanup(items, now))
BY CleanupKeeps DEF Closing

\* Marking an open invite closes it and leaves the others alone.
LEMMA MarkUsedCloses ==
  ASSUME NEW items \in [Invites -> Record], NEW e \in Invites,
         NEW now \in Nat, NEW d \in Nat
  PROVE  /\ Closing(items, MarkUsed(items, e, now, d))
         /\ MarkUsed(items, e, now, d)[e].status = "used"
<1> DEFINE new == MarkUsed(items, e, now, d)
<1>1. new[e].status = "used"
  BY DEF MarkUsed, Record
<1>2. \A f \in Invites \ {e} : new[f] = items[f]
  BY DEF MarkUsed
<1> QED
  BY <1>1, <1>2 DEF Closing, Terminal

LEMMA ClosingTrans ==
  ASSUME NEW a, NEW b, NEW c, Closing(a, b), Closing(b, c)
  PROVE  Closing(a, c)
BY DEF Closing

\* A step that only closes records, grants nothing and answers nobody keeps the
\* parts of the invariant that relate records to responses.
LEMMA ClosingKeeps ==
  ASSUME IInv, Closing(enrollments, enrollments'), granted' = granted,
         \A g \in Handlers : pc'[g] = "responding" =>
                                pc[g] = "responding" /\ req'[g] = req[g]
  PROVE  (ClosedInv /\ SoleInv /\ GrantedInv /\ OneGrant /\ PendingNamesUnique)'
<1>1. ClosedInv'
  BY DEF IInv, ClosedInv, Closing, TypeOK, Labels
<1>2. SoleInv'
  BY DEF IInv, SoleInv
<1>3. GrantedInv' /\ OneGrant'
  BY DEF IInv, GrantedInv, OneGrant, Closing
<1>4. PendingNamesUnique'
  BY DEF IInv, PendingNamesUnique, Closing
<1> QED
  BY <1>1, <1>2, <1>3, <1>4

\* A handler leaves the critical section, or a step leaves it untouched, while
\* enrollments.json changes to a closed version of itself.
LEMMA LeaveKeeps ==
  ASSUME IInv, TypeOK', NEW h \in Handlers, lock = h, Leave(h), clock' = clock,
         inviter' = inviter, granted' = granted, Closing(enrollments, enrollments')
  PROVE  IInv'
<1>1. /\ Frame(h) /\ pc'[h] = "idle" /\ lock' = NoOne
      /\ req'[h] = NoRequest
  BY DEF Leave, Frame, IInv, TypeOK
<1>2. \A g \in Handlers : pc'[g] \notin Critical
  BY <1>1 DEF IInv, LockInv, Critical, Frame
<1>3. LockInv' /\ SnapshotInv' /\ OpenInv'
  BY <1>1, <1>2, ConstantsAssumption DEF LockInv, SnapshotInv, OpenInv
<1>4. ClockInv'
  BY <1>1 DEF IInv, ClockInv, Frame, NoRequest, TypeOK
<1>5. \A g \in Handlers : pc'[g] = "responding" =>
                            pc[g] = "responding" /\ req'[g] = req[g]
  BY <1>1 DEF Frame
<1> QED
  BY <1>3, <1>4, <1>5, ClosingKeeps DEF IInv

\* A handler moves on inside the critical section without writing
\* enrollments.json or changing its copy of it.
LEMMA GotoKeeps ==
  ASSUME IInv, TypeOK', NEW h \in Handlers, pc[h] \in Critical,
         NEW label \in Critical, Goto(h, label), clock' = clock,
         inviter' = inviter, granted' = granted, enrollments' = enrollments,
         \A g \in Handlers : mem'[g].items = mem[g].items,
         Invited(h).status = "pending"
  PROVE  IInv'
<1>1. /\ req' = req /\ lock' = lock
      /\ \A g \in Handlers : pc'[g] = IF g = h THEN label ELSE pc[g]
  BY DEF Goto, IInv, TypeOK
<1>2. LockInv'
  BY <1>1 DEF IInv, LockInv
<1>3. SnapshotInv'
  BY <1>1 DEF IInv, SnapshotInv
<1>4. OpenInv'
  BY <1>1 DEF IInv, OpenInv, Invited
<1>5. ClockInv'
  BY <1>1 DEF IInv, ClockInv
<1>6. Closing(enrollments, enrollments')
  BY DEF Closing
<1>7. \A g \in Handlers : pc'[g] = "responding" =>
                            pc[g] = "responding" /\ req'[g] = req[g]
  BY <1>1 DEF Critical
<1> QED
  BY <1>2, <1>3, <1>4, <1>5, <1>6, <1>7, ClosingKeeps DEF IInv

\* In the critical section the handler's list is the stored one, cleaned.
LEMMA InsideFacts ==
  ASSUME IInv, NEW h \in Handlers, pc[h] \in Critical
  PROVE  /\ lock = h /\ req[h].inv \in Invites
         /\ mem[h].items \in [Invites -> Record] /\ req[h].now \in Nat
         /\ Closing(enrollments, mem[h].items)
<1>1. /\ lock = h /\ mem[h].items = Cleanup(enrollments, req[h].now)
  BY DEF IInv, LockInv, SnapshotInv
<1>2. /\ req[h].inv \in Invites /\ req[h].now \in Nat
      /\ enrollments \in [Invites -> Record]
  BY DEF IInv, TypeOK, Critical, Request
<1> QED
  BY <1>1, <1>2, CleanupCloses, CleanupTyped

\* Every step of a handler preserves the inductive invariant.
LEMMA HandlerInv ==
  ASSUME IInv, NEW h \in Handlers, Arrive(h) \/ Acquire(h) \/ HandlerStep(h)
  PROVE  IInv'
<1> USE DEF registry, handlers, staff, counts
<1>0. TypeOK /\ TypeOK'
  BY HandlerTyped DEF IInv
<1>1. CASE Arrive(h)
  <2>1. /\ Frame(h) /\ pc[h] = "idle" /\ pc'[h] = "waiting" /\ req'[h].now = clock
        /\ UNCHANGED <<enrollments, lock, clock, inviter, granted, mem>>
    BY <1>0, <1>1 DEF Arrive, Frame, TypeOK
  <2>2. LockInv' /\ SnapshotInv' /\ OpenInv'
    BY <2>1 DEF IInv, LockInv, SnapshotInv, OpenInv, Frame, Critical, Invited
  <2>3. ClockInv'
    BY <1>0, <2>1 DEF IInv, ClockInv, Frame, TypeOK
  <2>4. Closing(enrollments, enrollments')
    BY <2>1 DEF Closing
  <2>5. \A g \in Handlers : pc'[g] = "responding" =>
                              pc[g] = "responding" /\ req'[g] = req[g]
    BY <2>1 DEF Frame
  <2> QED
    BY <1>0, <2>1, <2>2, <2>3, <2>4, <2>5, ClosingKeeps DEF IInv
<1>2. CASE Acquire(h)
  <2>1. /\ Frame(h) /\ pc'[h] = "checking" /\ req' = req /\ lock' = h /\ lock = NoOne
        /\ mem'[h].items = Cleanup(enrollments, req[h].now)
        /\ UNCHANGED <<enrollments, clock, inviter, granted>>
    BY <1>0, <1>2 DEF Acquire, Frame, TypeOK, Memory
  <2>2. LockInv'
    BY <2>1, ConstantsAssumption DEF IInv, LockInv, Frame, Critical, Labels
  <2>3. SnapshotInv' /\ OpenInv'
    BY <2>1, <2>2 DEF SnapshotInv, OpenInv, LockInv
  <2>4. ClockInv'
    BY <2>1 DEF IInv, ClockInv
  <2>5. Closing(enrollments, enrollments')
    BY <2>1 DEF Closing
  <2>6. \A g \in Handlers : pc'[g] = "responding" =>
                              pc[g] = "responding" /\ req'[g] = req[g]
    BY <2>1 DEF Frame
  <2> QED
    BY <1>0, <2>1, <2>2, <2>3, <2>4, <2>6, <2>5, ClosingKeeps DEF IInv
<1>3. CASE Reject(h)
  <2>1. pc[h] \in Critical
    BY <1>3 DEF Reject, Critical, Labels
  <2> QED
    BY <1>0, <1>3, <2>1, InsideFacts, LeaveKeeps DEF Reject
<1>4. CASE RejectTaken(h)
  <2>1. pc[h] \in Critical
    BY <1>4 DEF RejectTaken, Critical, Labels
  <2>2. Closing(mem[h].items, enrollments')
    BY <1>4, <2>1, InsideFacts, MarkUsedCloses DEF RejectTaken, NoDevice
  <2>3. Closing(enrollments, enrollments')
    BY <2>1, <2>2, InsideFacts, ClosingTrans
  <2> QED
    BY <1>0, <1>4, <2>1, <2>3, InsideFacts, LeaveKeeps DEF RejectTaken
<1>5. CASE Abort(h) \/ RollBack(h) \/ FailLate(h)
  <2>1. pc[h] \in Critical
    BY <1>5 DEF Abort, RollBack, FailLate, Critical, Labels
  <2>2. Closing(enrollments, enrollments')
    BY <1>5 DEF Abort, RollBack, FailLate, Closing
  <2> QED
    BY <1>0, <1>5, <2>1, <2>2, InsideFacts, LeaveKeeps DEF Abort, RollBack,
       FailLate
<1>6. CASE CheckName(h)
  <2>1. Invited(h).status = "pending"
    BY <1>6 DEF CheckName, Redeemable, Invited
  <2>2. "grouping" \in Critical /\ pc[h] \in Critical
    BY <1>6 DEF CheckName, Critical, Labels
  <2> QED
    BY <1>0, <1>6, <2>1, <2>2, GotoKeeps DEF CheckName
<1>7. CASE \/ ReadGroups(h) \/ PickAddress(h) \/ ReadDevices(h) \/ SaveDevices(h)
           \/ SaveGroups(h)
  <2>1. pc[h] \in Critical \ {"checking"}
    BY <1>7 DEF ReadGroups, PickAddress, ReadDevices, SaveDevices, SaveGroups,
                Critical, Labels
  <2>2. Invited(h).status = "pending"
    BY <2>1 DEF IInv, OpenInv
  <2>3. \A g \in Handlers : mem'[g].items = mem[g].items
    <3>1. mem \in [Handlers -> Memory]
      BY <1>0 DEF TypeOK
    <3>2. CASE ReadGroups(h) \/ ReadDevices(h) \/ SaveDevices(h) \/ SaveGroups(h)
      BY <3>1, <3>2 DEF ReadGroups, ReadDevices, SaveDevices, SaveGroups, Memory
    <3>3. CASE PickAddress(h)
      <4>1. PICK ip : mem' = [mem EXCEPT ![h].ip = ip]
        BY <3>3 DEF PickAddress
      <4> QED
        BY <3>1, <4>1 DEF Memory
    <3> QED
      BY <1>7, <3>2, <3>3
  <2>4. \E label \in Critical : Goto(h, label)
    BY <1>7 DEF ReadGroups, PickAddress, ReadDevices, SaveDevices, SaveGroups,
                Critical, Labels
  <2>5. UNCHANGED <<enrollments, clock, inviter, granted>>
    BY <1>7 DEF ReadGroups, PickAddress, ReadDevices, SaveDevices, SaveGroups
  <2> QED
    BY <1>0, <2>1, <2>2, <2>3, <2>4, <2>5, GotoKeeps
<1>8. CASE Mark(h)
  <2>1. /\ pc[h] \in Critical /\ Invited(h).status = "pending"
    BY <1>8 DEF Mark, Critical, Labels, IInv, OpenInv
  <2>2. /\ Closing(mem[h].items, enrollments')
        /\ enrollments'[req[h].inv].status = "used"
    BY <1>0, <1>8, <2>1, InsideFacts, MarkUsedCloses DEF Mark, TypeOK, Memory
  <2>3. Closing(enrollments, enrollments')
    BY <2>1, <2>2, InsideFacts, ClosingTrans
  <2>4. enrollments[req[h].inv].status = "pending"
    BY <2>1, InsideFacts DEF Invited, Closing
  <2>5. /\ Frame(h) /\ pc'[h] = "responding" /\ req' = req /\ lock' = NoOne
        /\ UNCHANGED <<clock, inviter, granted>>
    BY <1>0, <1>8 DEF Mark, Frame, TypeOK
  <2>6. granted[req[h].inv] = {}
    BY <2>1, <2>4, InsideFacts DEF IInv, GrantedInv, Terminal
  <2>7. \A g \in Handlers : pc[g] = "responding" => req[g].inv # req[h].inv
    BY <2>4 DEF IInv, ClosedInv, Terminal
  <2>8. \A g \in Handlers : pc'[g] \notin Critical
    BY <2>1, <2>5, InsideFacts DEF IInv, LockInv, Frame, Critical
  <2>9. LockInv' /\ SnapshotInv' /\ OpenInv'
    BY <2>5, <2>8, ConstantsAssumption DEF LockInv, SnapshotInv, OpenInv
  <2>10. ClosedInv'
    <3> SUFFICES ASSUME NEW g \in Handlers, pc'[g] = "responding"
                 PROVE  /\ enrollments'[req'[g].inv].status \in Terminal
                        /\ granted'[req'[g].inv] = {}
      BY DEF ClosedInv
    <3>1. CASE g = h
      BY <2>2, <2>5, <2>6, <3>1 DEF Terminal
    <3>2. CASE g # h
      <4>1. pc[g] = "responding" /\ req[g].inv \in Invites
        BY <1>0, <2>5, <3>2 DEF Frame, TypeOK
      <4> QED
        BY <2>3, <2>5, <4>1 DEF IInv, ClosedInv, Closing
    <3> QED
      BY <3>1, <3>2
  <2>11. SoleInv'
    BY <2>5, <2>7 DEF IInv, SoleInv, Frame
  <2>12. GrantedInv' /\ OneGrant' /\ PendingNamesUnique' /\ ClockInv'
    BY <2>3, <2>5 DEF IInv, GrantedInv, OneGrant, PendingNamesUnique, Closing,
                      ClockInv
  <2> QED
    BY <1>0, <2>9, <2>10, <2>11, <2>12 DEF IInv
<1>9. CASE Respond(h) \/ LoseResponse(h)
  <2>1. /\ Frame(h) /\ pc'[h] = "idle" /\ req'[h] = NoRequest
        /\ pc[h] = "responding" /\ req[h].inv \in Invites
        /\ UNCHANGED <<enrollments, lock, clock, inviter>>
    BY <1>0, <1>9 DEF Respond, LoseResponse, Frame, TypeOK
  <2>2. /\ enrollments[req[h].inv].status \in Terminal /\ granted[req[h].inv] = {}
        /\ \A g \in Handlers \ {h} : pc[g] = "responding" => req[g].inv # req[h].inv
    BY <2>1 DEF IInv, ClosedInv, SoleInv
  <2>3. /\ \A e \in Invites \ {req[h].inv} : granted'[e] = granted[e]
        /\ granted'[req[h].inv] \subseteq {mem[h].dev}
    BY <1>0, <1>9, <2>1, <2>2 DEF Respond, LoseResponse, TypeOK
  <2>4. LockInv' /\ SnapshotInv' /\ OpenInv'
    BY <2>1 DEF IInv, LockInv, SnapshotInv, OpenInv, Frame, Critical, Invited
  <2>5. ClosedInv' /\ SoleInv'
    <3>1. \A g \in Handlers : pc'[g] = "responding" =>
            /\ g # h /\ pc[g] = "responding" /\ req'[g] = req[g]
            /\ req[g].inv \in Invites \ {req[h].inv}
      BY <1>0, <2>1, <2>2 DEF Frame, TypeOK
    <3>2. ClosedInv'
      BY <2>1, <2>3, <3>1 DEF IInv, ClosedInv
    <3>3. SoleInv'
      BY <3>1 DEF IInv, SoleInv
    <3> QED
      BY <3>2, <3>3
  <2>6. GrantedInv' /\ OneGrant'
    BY <2>1, <2>2, <2>3 DEF IInv, GrantedInv, OneGrant
  <2>7. PendingNamesUnique'
    BY <2>1 DEF IInv, PendingNamesUnique
  <2>8. ClockInv'
    BY <1>0, <2>1 DEF IInv, ClockInv, Frame, NoRequest, TypeOK
  <2> QED
    BY <1>0, <2>4, <2>5, <2>6, <2>7, <2>8 DEF IInv
<1> QED
  BY <1>1, <1>2, <1>3, <1>4, <1>5, <1>6, <1>7, <1>8, <1>9 DEF HandlerStep

\* A step that leaves the handlers, the lock, the clock and enrollments.json
\* alone preserves the inductive invariant.
LEMMA IdleInv ==
  ASSUME IInv, TypeOK', UNCHANGED <<pc, req, mem, lock, clock, enrollments, granted>>,
         \A i \in Inviters : inviter'[i].now <= clock
  PROVE  IInv'
BY DEF IInv, LockInv, SnapshotInv, OpenInv, Invited, ClosedInv, SoleInv,
       GrantedInv, OneGrant, PendingNamesUnique, ClockInv

\* Every step of an inviter preserves the inductive invariant.
LEMMA InviterInv ==
  ASSUME IInv, NEW i \in Inviters,
         PrepareInvite(i) \/ IssueInvite(i) \/ DropInvite(i)
  PROVE  IInv'
<1> USE DEF registry, handlers, staff, counts
<1>0. TypeOK /\ TypeOK' /\ inviter \in [Inviters -> Args] /\ clock \in Nat
  BY InviterTyped DEF IInv, TypeOK, Args
<1>1. CASE PrepareInvite(i) \/ DropInvite(i)
  <2>1. \A j \in Inviters : inviter'[j].now <= clock
    BY <1>0, <1>1 DEF PrepareInvite, DropInvite, NoArgs, IInv, ClockInv
  <2> QED
    BY <1>0, <1>1, <2>1, IdleInv DEF PrepareInvite, DropInvite
<1>2. CASE IssueInvite(i)
  <2> DEFINE items == Cleanup(enrollments, inviter[i].now)
             n == inviter[i].name
  <2>1. \A j \in Inviters : inviter'[j].now <= clock
    BY <1>0, <1>2 DEF IssueInvite, NoArgs, IInv, ClockInv
  <2>2. CASE UNCHANGED enrollments
    BY <1>0, <1>2, <2>1, <2>2, IdleInv DEF IssueInvite
  <2>3. CASE enrollments' # enrollments
    <3>1. inviter[i].now \in Nat /\ enrollments \in [Invites -> Record]
      BY <1>0 DEF Args, TypeOK
    <3>2. items \in [Invites -> Record] /\ Closing(enrollments, items)
      BY <3>1, CleanupTyped, CleanupCloses
    <3>3. PendingFor(items, n) = {}
      BY <1>2, <2>3 DEF IssueInvite
    <3>4. PICK e \in Invites :
            /\ items[e].status = "absent"
            /\ enrollments'[e].status = "pending" /\ enrollments'[e].name = n
            /\ \A f \in Invites \ {e} : enrollments'[f] = items[f]
      BY <1>2, <2>3, <3>2 DEF IssueInvite
    <3>5. \A f \in Invites : enrollments[f].status \in Terminal =>
                             enrollments'[f].status \in Terminal
      BY <3>2, <3>4 DEF Closing, Terminal
    <3>6. /\ \A g \in Handlers : pc[g] \notin Critical
          /\ UNCHANGED <<pc, req, mem, lock, clock, granted>>
      BY <1>2, ConstantsAssumption DEF IssueInvite, IInv, LockInv
    <3>7. LockInv' /\ SnapshotInv' /\ OpenInv'
      BY <3>6 DEF IInv, LockInv, SnapshotInv, OpenInv
    <3>8. ClosedInv' /\ SoleInv' /\ GrantedInv' /\ OneGrant'
      BY <1>0, <3>5, <3>6 DEF IInv, ClosedInv, SoleInv, GrantedInv, OneGrant,
                              TypeOK, Labels
    <3>9. PendingNamesUnique'
      BY <3>2, <3>3, <3>4 DEF IInv, PendingNamesUnique, PendingFor, Closing
    <3>10. ClockInv'
      BY <2>1, <3>6 DEF IInv, ClockInv
    <3> QED
      BY <1>0, <3>7, <3>8, <3>9, <3>10 DEF IInv
  <2> QED
    BY <2>2, <2>3
<1> QED
  BY <1>1, <1>2

\* So does every other step.
LEMMA OthersInv ==
  ASSUME IInv,
         \/ \E a \in Admins : \/ ReadRegistry(a) \/ GiveUp(a)
                            \/ WriteDevices(a) \/ WriteGroups(a)
         \/ ListEnrollments \/ Crash \/ Tick \/ UNCHANGED vars
  PROVE  IInv'
<1> USE DEF registry, handlers, staff, counts
<1>0. TypeOK /\ TypeOK' /\ clock \in Nat
  BY AdminTyped, OthersTyped DEF IInv, TypeOK
<1>1. CASE \/ \E a \in Admins : \/ ReadRegistry(a) \/ GiveUp(a)
                              \/ WriteDevices(a) \/ WriteGroups(a)
           \/ UNCHANGED vars
  <2>1. UNCHANGED <<pc, req, mem, lock, clock, enrollments, granted, inviter>>
    BY <1>1 DEF ReadRegistry, GiveUp, WriteDevices, WriteGroups, Finish, vars
  <2> QED
    BY <1>0, <2>1, IdleInv DEF IInv, ClockInv
<1>2. CASE ListEnrollments
  <2>1. Closing(enrollments, enrollments')
    BY <1>0, <1>2, CleanupCloses DEF ListEnrollments, TypeOK
  <2>2. /\ \A g \in Handlers : pc[g] \notin Critical
        /\ UNCHANGED <<pc, req, mem, lock, clock, granted, inviter>>
    BY <1>2, ConstantsAssumption DEF ListEnrollments, IInv, LockInv
  <2>3. LockInv' /\ SnapshotInv' /\ OpenInv' /\ ClockInv'
    BY <2>2 DEF IInv, LockInv, SnapshotInv, OpenInv, ClockInv
  <2> QED
    BY <1>0, <2>1, <2>2, <2>3, ClosingKeeps DEF IInv
<1>3. CASE Crash
  <2>1. /\ \A g \in Handlers : pc'[g] = "idle" /\ req'[g] = NoRequest
        /\ lock' = NoOne
        /\ UNCHANGED <<enrollments, clock, granted, inviter>>
    BY <1>3 DEF Crash
  <2>2. LockInv' /\ SnapshotInv' /\ OpenInv' /\ ClosedInv' /\ SoleInv'
    BY <2>1, ConstantsAssumption DEF LockInv, SnapshotInv, OpenInv, ClosedInv,
                                     SoleInv, Critical
  <2>3. GrantedInv' /\ OneGrant' /\ PendingNamesUnique' /\ ClockInv'
    BY <1>0, <2>1 DEF IInv, GrantedInv, OneGrant, PendingNamesUnique, ClockInv,
                      NoRequest
  <2> QED
    BY <1>0, <2>2, <2>3 DEF IInv
<1>4. CASE Tick
  <2>1. clock' = clock + 1
        /\ UNCHANGED <<pc, req, mem, lock, enrollments, granted, inviter>>
    BY <1>4 DEF Tick
  <2>2. ClockInv'
    <3>1. /\ \A g \in Handlers : req[g].now \in Nat
          /\ \A j \in Inviters : inviter[j].now \in Nat
      BY <1>0 DEF TypeOK, Request
    <3> QED
      BY <1>0, <2>1, <3>1 DEF IInv, ClockInv
  <2> QED
    BY <1>0, <2>1, <2>2 DEF IInv, LockInv, SnapshotInv, OpenInv, Invited, ClosedInv,
                            SoleInv, GrantedInv, OneGrant, PendingNamesUnique
<1> QED
  BY <1>1, <1>2, <1>3, <1>4

LEMMA InitInv == Init => IInv
<1> SUFFICES ASSUME Init PROVE IInv
  OBVIOUS
<1>1. TypeOK
  BY InitTyped
<1>2. LockInv /\ SnapshotInv /\ OpenInv /\ ClosedInv /\ SoleInv
  BY ConstantsAssumption DEF Init, LockInv, SnapshotInv, OpenInv, ClosedInv,
                             SoleInv, Critical
<1>3. GrantedInv /\ OneGrant /\ PendingNamesUnique
  BY DEF Init, GrantedInv, OneGrant, PendingNamesUnique, NoRecord
<1>4. ClockInv
  BY DEF Init, ClockInv, NoRequest, NoArgs
<1> QED
  BY <1>1, <1>2, <1>3, <1>4 DEF IInv

LEMMA NextInv == IInv /\ [Next]_vars => IInv'
BY HandlerInv, InviterInv, OthersInv DEF Next

\* The inductive invariant holds throughout.
THEOREM Invariance == Spec => []IInv
BY InitInv, NextInv, PTL DEF Spec

-----------------------------------------------------------------------------
(* The results.                                                             *)

\* Whatever the number of clients, retries, crashes and registry edits, an
\* invite is answered with the credentials of one device at most.
THEOREM InviteGrantsOnce == Spec => []OneGrant
<1>1. IInv => OneGrant
  BY DEF IInv
<1> QED
  BY <1>1, Invariance, PTL

\* No two open invites are for the same device name.
THEOREM PendingNamesStayUnique == Spec => []PendingNamesUnique
<1>1. IInv => PendingNamesUnique
  BY DEF IInv
<1> QED
  BY <1>1, Invariance, PTL

\* At most one handler is inside the critical section.
THEOREM Exclusion ==
  Spec => [](\A h1, h2 \in Handlers :
               pc[h1] \in Critical /\ pc[h2] \in Critical => h1 = h2)
<1>1. IInv => \A h1, h2 \in Handlers :
                pc[h1] \in Critical /\ pc[h2] \in Critical => h1 = h2
  BY DEF IInv, LockInv
<1> QED
  BY <1>1, Invariance, PTL

-----------------------------------------------------------------------------
(* Terminal records are final.  What a handler writes is its copy, which the *)
(* lock makes the stored list cleaned at the time the request arrived, with  *)
(* at most the record of an open invite replaced.                            *)

\* The terminal record of e stays as it is, or its retention is over.
Final(e) ==
  enrollments[e].status \in Terminal =>
    \/ enrollments'[e] = enrollments[e]
    \/ /\ enrollments'[e].status = "dropped"
       /\ enrollments[e].at + Retention < clock

\* Writing the cleaned list back is final, whatever becomes of open records.
LEMMA CleanedIsFinal ==
  ASSUME TypeOK, NEW now \in Nat, now <= clock, NEW e \in Invites,
         \/ enrollments'[e] = Cleanup(enrollments, now)[e]
         \/ Cleanup(enrollments, now)[e].status \notin Terminal
  PROVE  Final(e)
<1>1. /\ enrollments \in [Invites -> Record] /\ clock \in Nat
      /\ enrollments[e].at \in Nat /\ Retention \in Nat
  BY ConstantsAssumption DEF TypeOK, Record
<1> QED
  BY <1>1, CleanupKeeps DEF Final

LEMMA StepIsFinal ==
  ASSUME IInv, [Next]_vars, NEW e \in Invites
  PROVE  Final(e)
<1> USE DEF registry, handlers, staff, counts
<1>0. TypeOK /\ enrollments \in [Invites -> Record]
  BY DEF IInv, TypeOK
<1>1. ASSUME NEW h \in Handlers, Reject(h) \/ RejectTaken(h) \/ Mark(h)
      PROVE  Final(e)
  <2>1. pc[h] \in Critical
    BY <1>1 DEF Reject, RejectTaken, Mark, Critical, Labels
  <2>2. /\ mem[h].items = Cleanup(enrollments, req[h].now)
        /\ req[h].now \in Nat /\ req[h].now <= clock
        /\ mem[h].items \in [Invites -> Record]
    BY <2>1, InsideFacts DEF IInv, SnapshotInv, ClockInv
  <2>3. CASE Reject(h)
    BY <1>0, <2>2, <2>3, CleanedIsFinal DEF Reject
  <2>4. CASE RejectTaken(h) \/ Mark(h)
    <3>1. Invited(h).status = "pending"
      BY <2>1, <2>4 DEF RejectTaken, Mark, Redeemable, Invited, IInv, OpenInv
    <3>2. e # req[h].inv => enrollments'[e] = mem[h].items[e]
      BY <2>2, <2>4 DEF RejectTaken, Mark, MarkUsed
    <3>3. e = req[h].inv => mem[h].items[e].status \notin Terminal
      BY <3>1 DEF Invited, Terminal
    <3> QED
      BY <1>0, <2>2, <3>2, <3>3, CleanedIsFinal
  <2> QED
    BY <1>1, <2>3, <2>4
<1>2. ASSUME NEW i \in Inviters, IssueInvite(i), enrollments' # enrollments
      PROVE  Final(e)
  <2> DEFINE items == Cleanup(enrollments, inviter[i].now)
  <2>1. inviter[i].now \in Nat /\ inviter[i].now <= clock
    BY DEF IInv, TypeOK, ClockInv
  <2>2. items \in [Invites -> Record]
    BY <1>0, <2>1, CleanupTyped
  <2>3. PICK f \in Invites : /\ items[f].status = "absent"
                             /\ \A g \in Invites \ {f} : enrollments'[g] = items[g]
    BY <1>2, <2>2 DEF IssueInvite
  <2>4. e = f => items[e].status \notin Terminal
    BY <2>3 DEF Terminal
  <2> QED
    BY <1>0, <2>1, <2>3, <2>4, CleanedIsFinal
<1>3. ASSUME ListEnrollments
      PROVE  Final(e)
  <2>1. clock \in Nat /\ clock <= clock
    BY <1>0 DEF TypeOK
  <2> QED
    BY <1>0, <1>3, <2>1, CleanedIsFinal DEF ListEnrollments
<1>4. ASSUME enrollments' = enrollments
      PROVE  Final(e)
  BY <1>4 DEF Final
<1>5. ASSUME NEW h \in Handlers, Arrive(h) \/ Acquire(h) \/ HandlerStep(h)
      PROVE  Final(e)
  BY <1>1, <1>4, <1>5 DEF Arrive, Acquire, HandlerStep, CheckName, ReadGroups,
       PickAddress, ReadDevices, Abort, SaveDevices, SaveGroups, RollBack, FailLate, Respond,
       LoseResponse
<1>6. ASSUME NEW i \in Inviters, PrepareInvite(i) \/ IssueInvite(i) \/ DropInvite(i)
      PROVE  Final(e)
  BY <1>2, <1>4, <1>6 DEF PrepareInvite, DropInvite
<1>7. ASSUME NEW a \in Admins, \/ ReadRegistry(a) \/ GiveUp(a)
                               \/ WriteDevices(a) \/ WriteGroups(a)
      PROVE  Final(e)
  BY <1>4, <1>7 DEF ReadRegistry, GiveUp, WriteDevices, WriteGroups, Finish
<1>8. ASSUME Crash \/ Tick \/ UNCHANGED vars
      PROVE  Final(e)
  BY <1>4, <1>8 DEF Crash, Tick, vars
<1> QED
  BY <1>3, <1>5, <1>6, <1>7, <1>8 DEF Next

\* A record that is used, expired or dropped is never reopened or rewritten, and
\* it disappears only once its retention is over.
THEOREM TerminalStaysFinal == Spec => TerminalIsFinal
<1>1. IInv /\ [Next]_vars => [\A e \in Invites : Final(e)]_vars
  BY StepIsFinal
<1>2. (\A e \in Invites : Final(e)) <=>
        \A e \in Invites :
          enrollments[e].status \in {"used", "expired", "dropped"} =>
            \/ enrollments'[e] = enrollments[e]
            \/ /\ enrollments'[e].status = "dropped"
               /\ enrollments[e].at + Retention < clock
  BY DEF Final, Terminal
<1> QED
  BY <1>1, <1>2, Invariance, PTL DEF Spec, TerminalIsFinal

-----------------------------------------------------------------------------
(* The registry files.  As long as no edit has overlapped another one or a   *)
(* pairing, what a handler remembers of the two files is still true of them  *)
(* when it writes, since administrators only wrote while the lock was free.  *)

Consistent ==
  /\ \A d1, d2 \in devices : d1.ip = d2.ip \/ d1.name = d2.name => d1 = d2
  /\ \A m \in groups.members : m[2] \in IdsIn(devices)
  /\ \A d \in devices : d.id <= minted

\* What handler h has found out about the files, at each of its control points.
Informed(h) ==
  /\ pc[h] \in {"grouping", "addressing", "snapshotting", "saving"} =>
       Invited(h).name \notin NamesIn(devices)
  /\ pc[h] \in {"snapshotting", "saving"} => mem[h].ip \in FreeHosts(devices)
  /\ pc[h] = "saving" => mem[h].before = devices
  /\ pc[h] = "assigning" =>
       /\ mem[h].before \subseteq devices
       /\ \A d \in mem[h].before : d.id < mem[h].dev
       /\ \A m \in groups.members : m[2] \in IdsIn(mem[h].before)

\* The invite of a device is used up by it, or forgotten, or its redemption was cut.
Owned(d) == \/ d.id \in cut
            \/ enrollments[d.inv].status = "dropped"
            \/ enrollments[d.inv].status = "used" /\ enrollments[d.inv].dev = d.id

\* A handler has written the device and not yet its invite.
Adopted(d) == \E h \in Handlers : /\ pc[h] \in {"assigning", "marking"}
                                  /\ mem[h].dev = d.id /\ req[h].inv = d.inv

RegistryInv == ~interfered => Consistent /\ \A h \in Handlers : Informed(h)

OrphanInv == ~interfered => \A d \in devices : Owned(d) \/ Adopted(d)

\* A handler without the lock has nothing to remember of the files.
LEMMA OutsideInformed ==
  ASSUME IInv', NEW h \in Handlers, lock' # h
  PROVE  Informed(h)'
BY DEF IInv, LockInv, Critical, Labels, Informed

\* A step that does not write the files keeps them consistent, if its handler keeps to
\* what it has found out.
LEMMA UnwrittenKeeps ==
  ASSUME IInv', RegistryInv, UNCHANGED <<devices, groups, minted, interfered>>,
         \A h \in Handlers : lock' = h /\ ~interfered => Informed(h)'
  PROVE  RegistryInv'
<1>1. ~interfered => Consistent'
  BY DEF RegistryInv, Consistent, IdsIn
<1>2. ~interfered => \A h \in Handlers : Informed(h)'
  BY OutsideInformed
<1> QED
  BY <1>1, <1>2 DEF RegistryInv

\* Every step of a handler keeps what is known of the files.
LEMMA HandlerRegistry ==
  ASSUME IInv, IInv', RegistryInv, NEW h \in Handlers,
         Arrive(h) \/ Acquire(h) \/ HandlerStep(h)
  PROVE  RegistryInv'
<1> USE DEF registry, handlers, staff, counts, Goto
<1>0. /\ TypeOK /\ mem[h] \in Memory /\ pc[h] \in Labels
      /\ interfered' = interfered /\ minted \in Nat
      /\ ~interfered => Consistent /\ Informed(h)
  BY DEF IInv, TypeOK, RegistryInv, HandlerStep, Arrive, Acquire, Reject, RejectTaken,
         CheckName, ReadGroups, PickAddress, ReadDevices, Abort, SaveDevices, SaveGroups,
         RollBack, FailLate, Mark, Respond, LoseResponse
<1>a. pc[h] \in Critical => lock = h
  BY DEF IInv, LockInv
<1>1. CASE \/ Arrive(h) \/ Acquire(h) \/ Reject(h) \/ RejectTaken(h) \/ Abort(h)
           \/ FailLate(h) \/ Mark(h) \/ Respond(h) \/ LoseResponse(h)
  <2>1. UNCHANGED <<devices, groups, minted, interfered>>
    BY <1>1 DEF Arrive, Acquire, Reject, RejectTaken, Abort, FailLate, Mark, Respond,
                LoseResponse
  <2>2. \A g \in Handlers : lock' = g /\ ~interfered => Informed(g)'
    <3> SUFFICES ASSUME NEW g \in Handlers, lock' = g, ~interfered
                 PROVE  Informed(g)'
      OBVIOUS
    <3>1. CASE Acquire(h)
      BY <1>0, <3>1 DEF Acquire, Informed, TypeOK
    <3>2. CASE Arrive(h) \/ Respond(h) \/ LoseResponse(h)
      <4>1. lock = g /\ g # h
        BY <1>0, <3>2 DEF Arrive, Respond, LoseResponse, IInv, LockInv, Critical
      <4>2. pc'[g] = pc[g] /\ req'[g] = req[g] /\ mem'[g] = mem[g]
        BY <1>0, <3>2, <4>1 DEF Arrive, Respond, LoseResponse, TypeOK
      <4>3. Informed(g)
        BY DEF RegistryInv
      <4> QED
        BY <2>1, <4>2, <4>3 DEF Informed, Invited, NamesIn, FreeHosts
    <3>3. CASE Reject(h) \/ RejectTaken(h) \/ Abort(h) \/ FailLate(h) \/ Mark(h)
      BY <3>3, ConstantsAssumption DEF Reject, RejectTaken, Abort, FailLate, Mark, Leave
    <3> QED
      BY <1>1, <3>1, <3>2, <3>3
  <2> QED
    BY <2>1, <2>2, UnwrittenKeeps
<1>2. CASE CheckName(h) \/ ReadGroups(h) \/ PickAddress(h) \/ ReadDevices(h)
  <2>1. UNCHANGED <<devices, groups, minted, interfered>> /\ pc[h] \in Critical
    BY <1>2 DEF CheckName, ReadGroups, PickAddress, ReadDevices, Critical, Labels
  <2>2. lock' = h
    BY <1>a, <1>2, <2>1 DEF CheckName, ReadGroups, PickAddress, ReadDevices
  <2>3. Invited(h)' = Invited(h)
    <3>1. mem'[h].items = mem[h].items
      BY <1>0, <1>2 DEF CheckName, ReadGroups, PickAddress, ReadDevices, TypeOK, Memory
    <3> QED
      BY <1>2, <3>1 DEF CheckName, ReadGroups, PickAddress, ReadDevices, Invited
  <2>4. ~interfered => Informed(h)'
    <3> SUFFICES ASSUME ~interfered PROVE Informed(h)'
      OBVIOUS
    <3>0. NamesIn(devices)' = NamesIn(devices) /\ FreeHosts(devices)' = FreeHosts(devices)
      BY <2>1
    <3>1. CASE CheckName(h)
      <4>1. pc'[h] = "grouping"
        BY <1>0, <3>1 DEF CheckName, TypeOK
      <4> QED
        BY <2>1, <2>3, <3>1, <4>1 DEF CheckName, Informed
    <3>2. CASE ReadGroups(h)
      <4>1. pc[h] = "grouping" /\ pc'[h] = "addressing"
        BY <1>0, <3>2 DEF ReadGroups, TypeOK
      <4> QED
        BY <1>0, <2>1, <2>3, <4>1 DEF Informed
    <3>3. CASE PickAddress(h)
      <4>1. pc[h] = "addressing" /\ pc'[h] = "snapshotting"
        BY <1>0, <3>3 DEF PickAddress, TypeOK
      <4>2. PICK ip \in FreeHosts(devices) : mem' = [mem EXCEPT ![h].ip = ip]
        BY <3>3 DEF PickAddress
      <4>3. mem'[h].ip = ip
        BY <1>0, <4>2 DEF TypeOK, Memory
      <4> QED
        BY <1>0, <2>1, <2>3, <4>1, <4>3 DEF Informed
    <3>4. CASE ReadDevices(h)
      <4>1. pc[h] = "snapshotting" /\ pc'[h] = "saving"
        BY <1>0, <3>4 DEF ReadDevices, TypeOK
      <4>2. mem'[h].before = devices /\ mem'[h].ip = mem[h].ip
        BY <1>0, <3>4 DEF ReadDevices, TypeOK, Memory
      <4> QED
        BY <1>0, <2>1, <2>3, <4>1, <4>2 DEF Informed
    <3> QED
      BY <1>2, <3>1, <3>2, <3>3, <3>4
  <2> QED
    BY <2>1, <2>2, <2>4, UnwrittenKeeps
<1>3. CASE SaveDevices(h)
  <2> SUFFICES ASSUME ~interfered PROVE Consistent' /\ \A g \in Handlers : Informed(g)'
    BY <1>0 DEF RegistryInv
  <2> DEFINE new == NewDevice(h)
  <2>1. /\ mem[h].before = devices /\ devices' = devices \cup {new}
        /\ new.name \notin NamesIn(devices) /\ new.ip \in FreeHosts(devices)
        /\ new.id = minted + 1
    BY <1>0, <1>3 DEF SaveDevices, Informed, NewDevice
  <2>2. \A d1, d2 \in devices' : d1.ip = d2.ip \/ d1.name = d2.name => d1 = d2
    BY <1>0, <2>1 DEF Consistent, NamesIn, FreeHosts
  <2>3. \A m \in groups'.members : m[2] \in IdsIn(devices')
    BY <1>0, <1>3, <2>1 DEF SaveDevices, Consistent, IdsIn
  <2>4. \A d \in devices' : d.id <= minted'
    <3>1. \A d \in devices : d.id \in Nat
      BY <1>0 DEF TypeOK, Device
    <3> QED
      BY <1>0, <1>3, <2>1, <3>1 DEF SaveDevices, Consistent
  <2>5. /\ mem'[h].before = devices /\ mem'[h].dev = minted + 1
        /\ pc'[h] \in {"marking", "assigning"} /\ lock' = h
    BY <1>0, <1>3, <1>a, <2>1 DEF SaveDevices, TypeOK, Memory, Critical, Labels
  <2>6. \A d \in devices : d.id < minted + 1
    <3>1. \A d \in devices : d.id \in Nat
      BY <1>0 DEF TypeOK, Device
    <3> QED
      BY <1>0, <3>1 DEF Consistent
  <2>7. Informed(h)'
    BY <1>0, <1>3, <2>1, <2>5, <2>6 DEF SaveDevices, Informed, Consistent
  <2> QED
    BY <2>2, <2>3, <2>4, <2>5, <2>7, OutsideInformed DEF Consistent
<1>4. CASE SaveGroups(h)
  <2> SUFFICES ASSUME ~interfered PROVE Consistent' /\ \A g \in Handlers : Informed(g)'
    BY <1>0 DEF RegistryInv
  <2>1. /\ devices' = devices /\ minted' = minted /\ pc'[h] = "marking" /\ lock' = h
    BY <1>0, <1>a, <1>4 DEF SaveGroups, TypeOK, Critical, Labels
  <2>2. Informed(h)'
    BY <2>1 DEF Informed
  <2>3. Consistent'
    BY <1>0, <1>4, <2>1 DEF SaveGroups, KnownMembers, Consistent
  <2> QED
    BY <2>1, <2>2, <2>3, OutsideInformed
<1>5. CASE RollBack(h)
  <2> SUFFICES ASSUME ~interfered PROVE Consistent' /\ \A g \in Handlers : Informed(g)'
    BY <1>0 DEF RegistryInv
  <2>1. /\ mem[h].before \subseteq devices /\ devices' = mem[h].before
        /\ \A m \in groups.members : m[2] \in IdsIn(mem[h].before)
        /\ groups' = groups /\ minted' = minted /\ lock' = NoOne
    BY <1>0, <1>5 DEF RollBack, Leave, Informed
  <2>2. Consistent'
    BY <1>0, <2>1 DEF Consistent
  <2> QED
    BY <2>1, <2>2, OutsideInformed, ConstantsAssumption
<1> QED
  BY <1>1, <1>2, <1>3, <1>4, <1>5 DEF HandlerStep

\* So does every other step: one that writes a file either was the only one at work on
\* them, or has interfered.
LEMMA OthersRegistry ==
  ASSUME IInv, IInv', RegistryInv,
         \/ \E i \in Inviters : PrepareInvite(i) \/ IssueInvite(i) \/ DropInvite(i)
         \/ \E a \in Admins : \/ ReadRegistry(a) \/ GiveUp(a)
                              \/ WriteDevices(a) \/ WriteGroups(a)
         \/ ListEnrollments \/ Crash \/ Tick \/ UNCHANGED vars
  PROVE  RegistryInv'
<1> USE DEF registry, handlers, staff, counts
<1>0. TypeOK
  BY DEF IInv
<1>1. CASE \/ \E i \in Inviters : PrepareInvite(i) \/ IssueInvite(i) \/ DropInvite(i)
           \/ \E a \in Admins : ReadRegistry(a) \/ GiveUp(a)
           \/ ListEnrollments \/ Tick \/ UNCHANGED vars
  <2>1. UNCHANGED <<devices, groups, minted, interfered, lock, pc, req, mem>>
    BY <1>1 DEF PrepareInvite, IssueInvite, DropInvite, ReadRegistry, GiveUp,
                ListEnrollments, Tick, vars
  <2>2. ~interfered => \A g \in Handlers : Informed(g)'
    BY <2>1 DEF RegistryInv, Informed, Invited, NamesIn, FreeHosts
  <2> QED
    BY <2>1, <2>2, UnwrittenKeeps
<1>2. CASE Crash
  <2>1. UNCHANGED <<devices, groups, minted, interfered>> /\ lock' = NoOne
    BY <1>2 DEF Crash
  <2> QED
    BY <2>1, UnwrittenKeeps, ConstantsAssumption
<1>3. ASSUME NEW a \in Admins, WriteDevices(a)
      PROVE  RegistryInv'
  <2> SUFFICES ASSUME ~interfered' PROVE Consistent' /\ \A g \in Handlers : Informed(g)'
    BY DEF RegistryInv
  <2>1. /\ admin[a].devices = devices /\ lock' = NoOne /\ ~interfered
        /\ groups' = groups /\ minted' = minted
    BY <1>3 DEF WriteDevices, Finish
  <2>2. \/ devices' = devices
        \/ \E d \in devices, n \in Names \ NamesIn(devices) :
             devices' = (devices \ {d}) \cup {[d EXCEPT !.name = n]}
    BY <1>3, <2>1 DEF WriteDevices
  <2>3. Consistent
    BY <2>1 DEF RegistryInv
  <2>4. Consistent'
    <3>1. CASE devices' = devices
      BY <2>1, <2>3, <3>1 DEF Consistent, IdsIn
    <3>2. ASSUME NEW d \in devices, NEW n \in Names \ NamesIn(devices),
                 devices' = (devices \ {d}) \cup {[d EXCEPT !.name = n]}
          PROVE  Consistent'
      <4> DEFINE e == [d EXCEPT !.name = n]
      <4>1. e.ip = d.ip /\ e.id = d.id /\ e.name = n
        BY <1>0 DEF TypeOK, Device
      <4> HIDE DEF e
      <4>2. devices' = (devices \ {d}) \cup {e}
        BY <3>2 DEF e
      <4>3. \A d1, d2 \in devices' : d1.ip = d2.ip \/ d1.name = d2.name => d1 = d2
        BY <2>3, <4>1, <4>2 DEF Consistent, NamesIn
      <4>4. IdsIn(devices') = IdsIn(devices)
        BY <4>1, <4>2 DEF IdsIn
      <4>5. \A f \in devices' : f.id <= minted'
        BY <2>1, <2>3, <4>1, <4>2 DEF Consistent
      <4> QED
        BY <2>1, <2>3, <4>3, <4>4, <4>5 DEF Consistent
    <3> QED
      BY <2>2, <3>1, <3>2
  <2> QED
    BY <2>1, <2>4, OutsideInformed, ConstantsAssumption
<1>4. ASSUME NEW a \in Admins, WriteGroups(a)
      PROVE  RegistryInv'
  <2> SUFFICES ASSUME ~interfered' PROVE Consistent' /\ \A g \in Handlers : Informed(g)'
    BY DEF RegistryInv
  <2>1. /\ lock' = NoOne /\ ~interfered /\ devices' = devices /\ minted' = minted
        /\ \A m \in groups'.members : m[2] \in IdsIn(devices)
    BY <1>4 DEF WriteGroups, Finish, KnownMembers
  <2>2. Consistent'
    BY <2>1 DEF RegistryInv, Consistent
  <2> QED
    BY <2>1, <2>2, OutsideInformed, ConstantsAssumption
<1> QED
  BY <1>1, <1>2, <1>3, <1>4

\* A list in which records only close, and nothing used is rewritten before it is
\* dropped, keeps the devices owned.
LEMMA CleanupOwns ==
  ASSUME NEW items \in [Invites -> Record], NEW now \in Nat, NEW e \in Invites
  PROVE  /\ items[e].status = "dropped" => Cleanup(items, now)[e].status = "dropped"
         /\ items[e].status = "used" => \/ Cleanup(items, now)[e].status = "dropped"
                                        \/ Cleanup(items, now)[e] = items[e]
<1>1. Cleanup(items, now)[e] = Retain(Expire(items[e], now), now)
  BY DEF Cleanup
<1>2. items[e].status \in {"used", "dropped"} => Expire(items[e], now) = items[e]
  BY DEF Expire
<1>3. items[e].status = "dropped" => Retain(items[e], now) = items[e]
  BY DEF Retain
<1> QED
  BY <1>1, <1>2, <1>3, CleanupKeeps DEF Terminal

\* A step that takes no device in, leaves the invites of those there are used or drops
\* them, and happens while no handler has a device to account for.
LEMMA OwnedStays ==
  ASSUME OrphanInv, interfered => interfered', cut' = cut,
         \A h \in Handlers : pc[h] \notin {"assigning", "marking"},
         ~interfered' => \A d \in devices' : \E c \in devices : c.id = d.id /\ c.inv = d.inv,
         \A d \in devices :
           \/ enrollments'[d.inv].status = "dropped"
           \/ /\ enrollments[d.inv].status \in {"used", "dropped"} =>
                   enrollments'[d.inv] = enrollments[d.inv]
  PROVE  OrphanInv'
<1> SUFFICES ASSUME ~interfered', NEW d \in devices'
             PROVE  Owned(d)'
  BY DEF OrphanInv
<1>1. PICK c \in devices : c.id = d.id /\ c.inv = d.inv
  OBVIOUS
<1>2. Owned(c)
  BY DEF OrphanInv, Adopted
<1> QED
  BY <1>1, <1>2 DEF Owned

LEMMA HandlerOrphan ==
  ASSUME IInv, IInv', RegistryInv, OrphanInv, NEW h \in Handlers,
         Arrive(h) \/ Acquire(h) \/ HandlerStep(h)
  PROVE  OrphanInv'
<1> USE DEF registry, handlers, staff, counts, Goto
<1>0. /\ TypeOK /\ mem[h] \in Memory /\ pc[h] \in Labels
      /\ interfered' = interfered /\ cut \subseteq cut' /\ minted \in Nat
      /\ ~FailLate(h) => cut' = cut
      /\ enrollments \in [Invites -> Record]
      /\ \A d \in devices : d \in Device /\ d.inv \in Invites
  BY DEF IInv, TypeOK, HandlerStep, Arrive, Acquire, Reject, RejectTaken, Device,
         CheckName, ReadGroups, PickAddress, ReadDevices, Abort, SaveDevices, SaveGroups,
         RollBack, FailLate, Mark, Respond, LoseResponse
<1>a. pc[h] \in Critical => \A g \in Handlers \ {h} : pc[g] \notin Critical
  BY DEF IInv, LockInv
<1>b. "assigning" \in Critical /\ "marking" \in Critical
  BY DEF Critical, Labels
<1>c. pc[h] \in Critical => /\ mem[h].items = Cleanup(enrollments, req[h].now)
                            /\ req[h].now \in Nat /\ req[h].inv \in Invites
  BY InsideFacts DEF IInv, SnapshotInv
<1>1. CASE \/ Arrive(h) \/ Acquire(h) \/ Respond(h) \/ LoseResponse(h)
  <2>1. /\ UNCHANGED <<devices, enrollments>> /\ pc[h] \notin {"assigning", "marking"}
        /\ \A g \in Handlers \ {h} : pc'[g] = pc[g] /\ req'[g] = req[g] /\ mem'[g] = mem[g]
    BY <1>0, <1>1 DEF Arrive, Acquire, Respond, LoseResponse, TypeOK
  <2> QED
    BY <1>0, <2>1 DEF OrphanInv, Owned, Adopted
<1>2. CASE CheckName(h) \/ ReadGroups(h) \/ PickAddress(h) \/ ReadDevices(h) \/ Abort(h)
  <2>1. /\ UNCHANGED <<devices, enrollments, cut>>
        /\ pc[h] \in Critical \ {"assigning", "marking"}
    BY <1>2 DEF CheckName, ReadGroups, PickAddress, ReadDevices, Abort, Critical, Labels
  <2> QED
    BY <1>0, <1>a, <1>b, <2>1, OwnedStays
<1>3. CASE Reject(h)
  <2>1. /\ devices' = devices /\ cut' = cut /\ enrollments' = mem[h].items
        /\ pc[h] \in Critical \ {"assigning", "marking"}
    BY <1>3 DEF Reject, Critical, Labels
  <2> QED
    BY <1>0, <1>a, <1>b, <1>c, <2>1, OwnedStays, CleanupOwns
<1>4. CASE RejectTaken(h)
  <2>1. /\ devices' = devices /\ cut' = cut /\ pc[h] \in Critical \ {"assigning", "marking"}
        /\ enrollments' = MarkUsed(mem[h].items, req[h].inv, req[h].now, NoDevice)
        /\ mem[h].items[req[h].inv].status = "pending"
    BY <1>4 DEF RejectTaken, Redeemable, Critical, Labels
  <2>2. mem[h].items \in [Invites -> Record]
    BY <1>0 DEF Memory
  <2>3. \A e \in Invites \ {req[h].inv} : enrollments'[e] = mem[h].items[e]
    BY <2>1, <2>2 DEF MarkUsed
  <2>4. enrollments[req[h].inv].status = "pending"
    BY <1>0, <1>c, <2>1, CleanupKeeps
  <2>5. \A d \in devices :
          \/ enrollments'[d.inv].status = "dropped"
          \/ enrollments[d.inv].status \in {"used", "dropped"} =>
               enrollments'[d.inv] = enrollments[d.inv]
    <3> SUFFICES ASSUME NEW d \in devices,
                        enrollments[d.inv].status \in {"used", "dropped"}
                 PROVE  \/ enrollments'[d.inv].status = "dropped"
                        \/ enrollments'[d.inv] = enrollments[d.inv]
      OBVIOUS
    <3>1. d.inv \in Invites /\ d.inv # req[h].inv
      BY <1>0, <2>4
    <3> QED
      BY <1>0, <1>c, <2>1, <2>3, <3>1, CleanupOwns
  <2> QED
    BY <1>0, <1>a, <1>b, <2>1, <2>5, OwnedStays
<1>5. CASE SaveDevices(h)
  <2> SUFFICES ASSUME ~interfered, NEW d \in devices'
               PROVE  Owned(d)' \/ Adopted(d)'
    BY <1>0 DEF OrphanInv
  <2>1. /\ devices' = devices \cup {NewDevice(h)} /\ enrollments' = enrollments
        /\ pc[h] \in Critical \ {"assigning", "marking"} /\ cut' = cut
        /\ pc'[h] \in {"assigning", "marking"} /\ mem'[h].dev = minted + 1 /\ req' = req
    BY <1>0, <1>5 DEF SaveDevices, RegistryInv, Informed, Critical, Labels, TypeOK, Memory
  <2>2. CASE d \in devices
    <3>1. Owned(d)
      BY <1>0, <1>a, <1>b, <2>1, <2>2 DEF OrphanInv, Adopted
    <3> QED
      BY <2>1, <3>1 DEF Owned
  <2>3. CASE d = NewDevice(h)
    <3>1. d.id = minted + 1 /\ d.inv = req[h].inv
      BY <2>3 DEF NewDevice
    <3> QED
      BY <2>1, <3>1 DEF Adopted
  <2> QED
    BY <2>1, <2>2, <2>3
<1>9. CASE FailLate(h)
  <2>1. /\ UNCHANGED <<devices, enrollments>> /\ mem[h].dev \in cut'
        /\ pc[h] \in Critical
    BY <1>9 DEF FailLate, Critical, Labels
  <2>2. \A d : Adopted(d) => d.id = mem[h].dev
    BY <1>a, <1>b, <2>1 DEF Adopted
  <2> QED
    BY <1>0, <2>1, <2>2 DEF OrphanInv, Owned
<1>6. CASE SaveGroups(h)
  <2>1. /\ UNCHANGED <<devices, enrollments, req, mem, cut>>
        /\ \A g \in Handlers : pc'[g] = IF g = h THEN "marking" ELSE pc[g]
    BY <1>0, <1>6 DEF SaveGroups, TypeOK
  <2> QED
    BY <1>0, <2>1 DEF OrphanInv, Owned, Adopted
<1>7. CASE RollBack(h)
  <2> SUFFICES ASSUME ~interfered, NEW d \in devices'
               PROVE  Owned(d)'
    BY <1>0 DEF OrphanInv
  <2>1. /\ pc[h] = "assigning" /\ d \in mem[h].before /\ enrollments' = enrollments
        /\ d \in devices /\ d.id < mem[h].dev /\ cut' = cut
    BY <1>7 DEF RollBack, RegistryInv, Informed
  <2>2. d.id \in Nat /\ mem[h].dev \in Nat
    BY <1>0, <2>1 DEF Device, Memory
  <2>3. ~Adopted(d)
    BY <1>a, <1>b, <2>1, <2>2 DEF Adopted
  <2> QED
    BY <2>1, <2>3 DEF OrphanInv, Owned
<1>8. CASE Mark(h)
  <2> SUFFICES ASSUME ~interfered, NEW d \in devices
               PROVE  Owned(d)'
    BY <1>0, <1>8 DEF OrphanInv, Mark
  <2> DEFINE e == req[h].inv
  <2>1. /\ pc[h] = "marking" /\ pc[h] \in Critical \ {"checking"}
        /\ enrollments' = MarkUsed(mem[h].items, e, req[h].now, mem[h].dev)
    BY <1>8 DEF Mark, Critical, Labels
  <2>2. mem[h].items \in [Invites -> Record] /\ d.inv \in Invites
    BY <1>0 DEF Memory
  <2>3. /\ \A f \in Invites \ {e} : enrollments'[f] = mem[h].items[f]
        /\ enrollments'[e].status = "used" /\ enrollments'[e].dev = mem[h].dev
    BY <1>c, <2>1, <2>2 DEF MarkUsed, Record
  <2>4. enrollments[e].status = "pending"
    <3>1. mem[h].items[e].status = "pending"
      BY <2>1 DEF IInv, OpenInv, Invited
    <3> QED
      BY <1>0, <1>c, <2>1, <3>1, CleanupKeeps
  <2>5. CASE Adopted(d)
    <3>1. mem[h].dev = d.id /\ e = d.inv
      BY <1>a, <1>b, <2>1, <2>5 DEF Adopted
    <3> QED
      BY <2>3, <3>1 DEF Owned
  <2>6. CASE d.id \in cut
    BY <1>0, <2>6 DEF Owned
  <2>7. CASE Owned(d) /\ d.id \notin cut
    <3>1. d.inv # e
      BY <2>4, <2>7 DEF Owned
    <3>2. enrollments'[d.inv] = Cleanup(enrollments, req[h].now)[d.inv]
      BY <1>c, <2>1, <2>2, <2>3, <3>1
    <3> QED
      BY <1>0, <1>c, <2>1, <2>2, <2>7, <3>2, CleanupOwns DEF Owned
  <2> QED
    BY <2>5, <2>6, <2>7 DEF OrphanInv
<1> QED
  BY <1>1, <1>2, <1>3, <1>4, <1>5, <1>6, <1>7, <1>8, <1>9 DEF HandlerStep

LEMMA OthersOrphan ==
  ASSUME IInv, IInv', RegistryInv, OrphanInv,
         \/ \E i \in Inviters : PrepareInvite(i) \/ IssueInvite(i) \/ DropInvite(i)
         \/ \E a \in Admins : \/ ReadRegistry(a) \/ GiveUp(a)
                              \/ WriteDevices(a) \/ WriteGroups(a)
         \/ ListEnrollments \/ Crash \/ Tick \/ UNCHANGED vars
  PROVE  OrphanInv'
<1> USE DEF registry, handlers, staff, counts
<1>0. /\ TypeOK /\ enrollments \in [Invites -> Record] /\ clock \in Nat
      /\ \A d \in devices : d \in Device /\ d.inv \in Invites
  BY DEF IInv, TypeOK, Device
<1>a. lock = NoOne => \A g \in Handlers : pc[g] \notin {"assigning", "marking"}
  BY ConstantsAssumption DEF IInv, LockInv, Critical, Labels
<1>1. CASE \/ \E i \in Inviters : PrepareInvite(i) \/ DropInvite(i)
           \/ \E a \in Admins : ReadRegistry(a) \/ GiveUp(a)
           \/ Tick \/ UNCHANGED vars
  <2>1. UNCHANGED <<devices, enrollments, interfered, cut, pc, req, mem>>
    BY <1>1 DEF PrepareInvite, DropInvite, ReadRegistry, GiveUp, Tick, vars
  <2> QED
    BY <2>1 DEF OrphanInv, Owned, Adopted
<1>2. ASSUME NEW i \in Inviters, IssueInvite(i)
      PROVE  OrphanInv'
  <2> DEFINE items == Cleanup(enrollments, inviter[i].now)
  <2>1. /\ UNCHANGED <<devices, interfered, cut, pc, req, mem>> /\ lock = NoOne
        /\ inviter[i].now \in Nat
    BY <1>0, <1>2 DEF IssueInvite, TypeOK
  <2>2. CASE UNCHANGED enrollments
    BY <2>1, <2>2 DEF OrphanInv, Owned, Adopted
  <2>3. CASE enrollments' # enrollments
    <3>1. items \in [Invites -> Record]
      BY <1>0, <2>1, CleanupTyped
    <3>2. PICK e \in Invites : /\ items[e].status = "absent"
                               /\ \A f \in Invites \ {e} : enrollments'[f] = items[f]
      BY <1>2, <2>3, <3>1 DEF IssueInvite
    <3>3. enrollments[e].status \notin {"used", "dropped"}
      BY <1>0, <2>1, <3>2, CleanupOwns
    <3>4. \A d \in devices :
            \/ enrollments'[d.inv].status = "dropped"
            \/ enrollments[d.inv].status \in {"used", "dropped"} =>
                 enrollments'[d.inv] = enrollments[d.inv]
      <4> SUFFICES ASSUME NEW d \in devices,
                          enrollments[d.inv].status \in {"used", "dropped"}
                   PROVE  \/ enrollments'[d.inv].status = "dropped"
                          \/ enrollments'[d.inv] = enrollments[d.inv]
        OBVIOUS
      <4>1. d.inv \in Invites /\ enrollments'[d.inv] = items[d.inv]
        BY <1>0, <3>2, <3>3
      <4>2. \/ items[d.inv].status = "dropped"
            \/ items[d.inv] = enrollments[d.inv]
        <5>1. CASE enrollments[d.inv].status = "used"
          BY <1>0, <2>1, <4>1, <5>1, CleanupOwns
        <5>2. CASE enrollments[d.inv].status = "dropped"
          BY <1>0, <2>1, <4>1, <5>2, CleanupOwns
        <5> QED
          BY <5>1, <5>2
      <4> QED
        BY <4>1, <4>2
    <3> QED
      BY <1>a, <2>1, <3>4, OwnedStays
  <2> QED
    BY <2>2, <2>3
<1>3. CASE ListEnrollments
  <2>1. /\ UNCHANGED <<devices, interfered, cut>> /\ lock = NoOne
        /\ enrollments' = Cleanup(enrollments, clock)
    BY <1>3 DEF ListEnrollments
  <2> QED
    BY <1>0, <1>a, <2>1, OwnedStays, CleanupOwns
<1>4. CASE Crash
  <2>1. /\ UNCHANGED <<devices, enrollments, interfered>> /\ cut \subseteq cut'
        /\ \A d : Adopted(d) => d.id \in cut'
    BY <1>4 DEF Crash, Adopted
  <2> QED
    BY <2>1 DEF OrphanInv, Owned
<1>5. ASSUME NEW a \in Admins, WriteDevices(a) \/ WriteGroups(a)
      PROVE  OrphanInv'
  <2> SUFFICES ASSUME ~interfered' PROVE OrphanInv'
    BY DEF OrphanInv
  <2>1. /\ ~interfered /\ lock = NoOne /\ cut' = cut /\ enrollments' = enrollments
    BY <1>5 DEF WriteDevices, WriteGroups, Finish
  <2>2. \A d \in devices' : \E c \in devices : c.id = d.id /\ c.inv = d.inv
    <3>1. CASE WriteGroups(a)
      BY <3>1 DEF WriteGroups
    <3>2. CASE WriteDevices(a)
      <4>1. admin[a].devices = devices
        BY <3>2 DEF WriteDevices, Finish
      <4>2. \A c \in devices, n \in Names : /\ [c EXCEPT !.name = n].id = c.id
                                            /\ [c EXCEPT !.name = n].inv = c.inv
        BY <1>0 DEF Device
      <4>3. \/ devices' = devices
            \/ \E c \in devices, n \in Names \ NamesIn(devices) :
                 devices' = (devices \ {c}) \cup {[c EXCEPT !.name = n]}
        BY <3>2, <4>1 DEF WriteDevices
      <4> QED
        BY <4>2, <4>3
    <3> QED
      BY <1>5, <3>1, <3>2
  <2> QED
    BY <1>a, <2>1, <2>2, OwnedStays
<1> QED
  BY <1>1, <1>2, <1>3, <1>4, <1>5

\* The registry files and the invites they come from, for every state of the system.
LEMMA RegistryInvariance == Spec => [](IInv /\ RegistryInv /\ OrphanInv)
<1>1. Init => RegistryInv /\ OrphanInv
  <2> SUFFICES ASSUME Init PROVE RegistryInv /\ OrphanInv
    OBVIOUS
  <2>1. devices = {} /\ groups.members = {} /\ \A h \in Handlers : pc[h] = "idle"
    BY DEF Init
  <2> QED
    BY <2>1 DEF RegistryInv, Consistent, Informed, OrphanInv
<1>2. IInv /\ RegistryInv /\ OrphanInv /\ [Next]_vars => (RegistryInv /\ OrphanInv)'
  BY NextInv, HandlerRegistry, OthersRegistry, HandlerOrphan, OthersOrphan DEF Next
<1> QED
  BY <1>1, <1>2, Invariance, InitInv, NextInv, PTL DEF Spec

\* Without overlapping edits two devices never share a VPN address or a name
\* (next_device_ip and save_devices), for any number of handlers and administrators.
THEOREM AddressesStayUnique == Spec => []AddressesUnique
<1>1. RegistryInv => AddressesUnique
  BY DEF RegistryInv, Consistent, AddressesUnique
<1> QED
  BY <1>1, RegistryInvariance, PTL

\* Without overlapping edits a group never names a device that is not registered, also
\* when a pairing dies or is rolled back between the two files.
THEOREM MembersStayRegistered == Spec => []MembersRegistered
<1>1. RegistryInv => MembersRegistered
  BY DEF RegistryInv, Consistent, MembersRegistered
<1> QED
  BY <1>1, RegistryInvariance, PTL

\* Without overlapping edits each device has used up its invite once no pairing is under
\* way, unless its own redemption was cut by a death of the server or a failed write.
THEOREM NoOrphanStays == Spec => []NoOrphanDevice
<1>1. IInv /\ OrphanInv => NoOrphanDevice
  BY ConstantsAssumption DEF IInv, LockInv, OrphanInv, Owned, Adopted, NoOrphanDevice,
                             Critical, Labels
<1> QED
  BY <1>1, RegistryInvariance, PTL

-----------------------------------------------------------------------------
(* The refinement of Ledger.  What the devices answered with are, beyond     *)
(* IInv: every id drawn is in the hands of one handler or one answer.        *)

\* h has registered a device that its client has not been told of.
Holds(h) == pc[h] \in {"assigning", "marking", "responding"}

MintedInv == /\ \A h \in Handlers : Holds(h) => mem[h].dev \in 1 .. minted
             /\ \A e \in Invites : granted[e] \subseteq 1 .. minted

FreshInv ==
  \A h \in Handlers : Holds(h) =>
    /\ \A g \in Handlers \ {h} : Holds(g) => mem[g].dev # mem[h].dev
    /\ \A e \in Invites : mem[h].dev \notin granted[e]

NamedInv == \A i \in Inviters : inviter[i].busy => inviter[i].name \in Names

LedgerInv == MintedInv /\ FreshInv /\ NamedInv

\* A step that registers and answers nothing keeps the devices where they are.
LEMMA FreshStays ==
  ASSUME LedgerInv, UNCHANGED <<minted, granted>>,
         \A g \in Handlers : Holds(g)' => Holds(g) /\ mem'[g].dev = mem[g].dev
  PROVE  (MintedInv /\ FreshInv)'
<1>1. MintedInv'
  BY DEF LedgerInv, MintedInv
<1>2. FreshInv'
  BY DEF LedgerInv, FreshInv
<1> QED
  BY <1>1, <1>2

LEMMA HandlerLedger ==
  ASSUME IInv, LedgerInv, NEW h \in Handlers, Arrive(h) \/ Acquire(h) \/ HandlerStep(h)
  PROVE  LedgerInv'
<1> USE DEF registry, handlers, staff, counts, Goto, Leave
<1>0. /\ TypeOK /\ minted \in Nat /\ pc \in [Handlers -> Labels]
      /\ mem \in [Handlers -> Memory]
  BY DEF IInv, TypeOK
<1>1. NamedInv'
  <2>1. inviter' = inviter
    BY DEF Arrive, Acquire, HandlerStep, Reject, RejectTaken, CheckName, ReadGroups,
           PickAddress, ReadDevices, Abort, SaveDevices, SaveGroups, RollBack, FailLate, Mark,
           Respond, LoseResponse
  <2> QED
    BY <2>1 DEF LedgerInv, NamedInv
<1>2. CASE SaveDevices(h)
  <2>1. /\ minted' = minted + 1 /\ granted' = granted
        /\ pc[h] = "saving" /\ mem'[h].dev = minted + 1
        /\ \A g \in Handlers \ {h} : mem'[g] = mem[g] /\ pc'[g] = pc[g]
    BY <1>0, <1>2 DEF SaveDevices, Memory
  <2>2. MintedInv'
    BY <1>0, <2>1 DEF LedgerInv, MintedInv, Holds
  <2>3. /\ \A e \in Invites : minted + 1 \notin granted[e]
        /\ \A g \in Handlers : Holds(g) => mem[g].dev # minted + 1
    BY <1>0 DEF LedgerInv, MintedInv
  <2>4. FreshInv'
    <3> SUFFICES ASSUME NEW g \in Handlers, Holds(g)'
                 PROVE  /\ \A k \in Handlers \ {g} : Holds(k)' => mem'[k].dev # mem'[g].dev
                        /\ \A e \in Invites : mem'[g].dev \notin granted'[e]
      BY DEF FreshInv
    <3>1. \A k \in Handlers \ {h} : Holds(k)' = Holds(k)
      BY <2>1 DEF Holds
    <3> QED
      BY <2>1, <2>3, <3>1 DEF LedgerInv, FreshInv
  <2> QED
    BY <1>1, <2>2, <2>4 DEF LedgerInv
<1>3. CASE Respond(h)
  <2>1. /\ Holds(h) /\ ~Holds(h)' /\ minted' = minted /\ req[h].inv \in Invites
        /\ \A g \in Handlers \ {h} : mem'[g] = mem[g] /\ pc'[g] = pc[g]
    BY <1>0, <1>3 DEF Respond, Holds, TypeOK
  <2>2. \A e \in Invites : granted'[e] \subseteq granted[e] \cup {mem[h].dev}
    BY <1>0, <1>3 DEF Respond, TypeOK
  <2>3. \A g \in Handlers : Holds(g)' => g # h /\ Holds(g) /\ mem'[g] = mem[g]
    BY <2>1 DEF Holds
  <2>4. MintedInv'
    BY <2>1, <2>2, <2>3 DEF LedgerInv, MintedInv
  <2>5. FreshInv'
    BY <2>1, <2>2, <2>3 DEF LedgerInv, FreshInv
  <2> QED
    BY <1>1, <2>4, <2>5 DEF LedgerInv
<1>4. CASE SaveGroups(h) \/ Mark(h)
  <2>1. /\ Holds(h) /\ UNCHANGED <<minted, granted, mem>>
        /\ \A g \in Handlers \ {h} : pc'[g] = pc[g]
    BY <1>0, <1>4 DEF SaveGroups, Mark, Holds
  <2>2. \A g \in Handlers : Holds(g)' => Holds(g) /\ mem'[g].dev = mem[g].dev
    BY <2>1 DEF Holds
  <2> QED
    BY <1>1, <2>1, <2>2, FreshStays DEF LedgerInv
<1>5. CASE \/ Arrive(h) \/ Acquire(h) \/ Reject(h) \/ RejectTaken(h) \/ CheckName(h)
           \/ ReadGroups(h) \/ PickAddress(h) \/ ReadDevices(h) \/ Abort(h)
           \/ RollBack(h) \/ FailLate(h) \/ LoseResponse(h)
  <2>1. UNCHANGED <<minted, granted>>
    BY <1>5 DEF Arrive, Acquire, Reject, RejectTaken, CheckName, ReadGroups, PickAddress,
                ReadDevices, Abort, RollBack, FailLate, LoseResponse
  <2>2. ~Holds(h)'
    BY <1>0, <1>5 DEF Arrive, Acquire, Reject, RejectTaken, CheckName, ReadGroups,
         PickAddress, ReadDevices, Abort, RollBack, FailLate, LoseResponse, Holds
  <2>3. \A g \in Handlers \ {h} : pc'[g] = pc[g] /\ mem'[g] = mem[g]
    <3>1. CASE PickAddress(h)
      BY <1>0, <3>1 DEF PickAddress
    <3>2. CASE ~PickAddress(h)
      BY <1>0, <1>5, <3>2 DEF Arrive, Acquire, Reject, RejectTaken, CheckName, ReadGroups,
           ReadDevices, Abort, RollBack, FailLate, LoseResponse
    <3> QED
      BY <3>1, <3>2
  <2>4. \A g \in Handlers : Holds(g)' => Holds(g) /\ mem'[g].dev = mem[g].dev
    BY <2>2, <2>3 DEF Holds
  <2> QED
    BY <1>1, <2>1, <2>4, FreshStays DEF LedgerInv
<1> QED
  BY <1>2, <1>3, <1>4, <1>5 DEF HandlerStep

LEMMA OthersLedger ==
  ASSUME IInv, LedgerInv,
         \/ \E i \in Inviters : PrepareInvite(i) \/ IssueInvite(i) \/ DropInvite(i)
         \/ \E a \in Admins : \/ ReadRegistry(a) \/ GiveUp(a)
                              \/ WriteDevices(a) \/ WriteGroups(a)
         \/ ListEnrollments \/ Crash \/ Tick \/ UNCHANGED vars
  PROVE  LedgerInv'
<1> USE DEF registry, handlers, staff, counts
<1>1. UNCHANGED <<minted, granted>>
  BY DEF PrepareInvite, IssueInvite, DropInvite, ReadRegistry, GiveUp, WriteDevices,
         WriteGroups, Finish, ListEnrollments, Crash, Tick, vars
<1>2. \A g \in Handlers : Holds(g)' => Holds(g) /\ mem'[g].dev = mem[g].dev
  BY DEF PrepareInvite, IssueInvite, DropInvite, ReadRegistry, GiveUp, WriteDevices,
         WriteGroups, Finish, ListEnrollments, Crash, Tick, vars, Holds
<1>3. NamedInv'
  <2>1. CASE \E i \in Inviters : PrepareInvite(i) \/ IssueInvite(i) \/ DropInvite(i)
    <3>1. PICK i \in Inviters : PrepareInvite(i) \/ IssueInvite(i) \/ DropInvite(i)
      BY <2>1
    <3>2. inviter \in [Inviters -> Args]
      BY DEF IInv, TypeOK, Args
    <3>3. inviter'[i].busy => inviter'[i].name \in Names
      BY <3>1, <3>2 DEF PrepareInvite, IssueInvite, DropInvite, NoArgs
    <3>4. \A j \in Inviters \ {i} : inviter'[j] = inviter[j]
      BY <3>1, <3>2 DEF PrepareInvite, IssueInvite, DropInvite
    <3> QED
      BY <3>3, <3>4 DEF LedgerInv, NamedInv
  <2>2. CASE inviter' = inviter
    BY <2>2 DEF LedgerInv, NamedInv
  <2> QED
    BY <2>1, <2>2 DEF ReadRegistry, GiveUp, WriteDevices, WriteGroups, Finish,
         ListEnrollments, Crash, Tick, vars
<1> QED
  BY <1>1, <1>2, <1>3, FreshStays DEF LedgerInv

LEMMA LedgerInvariance == Spec => [](IInv /\ LedgerInv)
<1>1. Init => LedgerInv
  BY DEF Init, LedgerInv, MintedInv, FreshInv, NamedInv, Holds, NoArgs
<1>2. IInv /\ LedgerInv /\ [Next]_vars => LedgerInv'
  BY HandlerLedger, OthersLedger DEF Next
<1> QED
  BY <1>1, <1>2, InitInv, NextInv, PTL DEF Spec

\* cleanup_enrollments only lets time pass over a record.
LEMMA CleanupTimes ==
  ASSUME NEW items \in [Invites -> Record], NEW now \in Nat, NEW e \in Invites
  PROVE  \/ Cleanup(items, now)[e].status = items[e].status
         \/ items[e].status = "pending" /\ Cleanup(items, now)[e].status = "expired"
         \/ items[e].status \in {"used", "expired"} /\ Cleanup(items, now)[e].status = "dropped"
<1>1. items[e] \in Record /\ Retention \in Nat
  BY ConstantsAssumption
<1>2. Cleanup(items, now)[e] = Retain(Expire(items[e], now), now)
  BY DEF Cleanup
<1>3. [NoRecord EXCEPT !.status = "dropped"].status = "dropped"
  BY DEF NoRecord
<1>4. CASE items[e].status = "pending" /\ items[e].expires <= now
  <2>1. /\ Expire(items[e], now).status = "expired" /\ Expire(items[e], now).at = now
    BY <1>1, <1>4 DEF Expire, Record
  <2>2. ~(now > now + Retention)
    BY <1>1
  <2> QED
    BY <1>2, <1>4, <2>1, <2>2 DEF Retain
<1>5. CASE ~(items[e].status = "pending" /\ items[e].expires <= now)
  BY <1>2, <1>3, <1>5 DEF Expire, Retain
<1> QED
  BY <1>4, <1>5

LEMMA CleanedAges ==
  ASSUME TypeOK, NEW now \in Nat, NEW e \in Invites,
         enrollments'[e] = Cleanup(enrollments, now)[e]
  PROVE  Abstract!Ages(e)
<1>1. enrollments \in [Invites -> Record]
  BY DEF TypeOK
<1>2. /\ State[e] = enrollments[e].status /\ State'[e] = enrollments'[e].status
      /\ OpenName[e] = IF State[e] = "pending" THEN enrollments[e].name ELSE None
      /\ OpenName'[e] = IF State'[e] = "pending" THEN enrollments'[e].name ELSE None
  BY DEF State, OpenName
<1>3. State'[e] = "pending" => State[e] = "pending" /\ enrollments'[e] = enrollments[e]
  <2>1. Cleanup(enrollments, now)[e].status = "pending" =>
          enrollments[e].status = "pending" /\ Cleanup(enrollments, now)[e] = enrollments[e]
    BY <1>1, CleanupKeeps
  <2> QED
    BY <1>2, <2>1
<1> QED
  BY <1>1, <1>2, <1>3, CleanupTimes DEF Abstract!Ages

\* What is due depends on the handlers that are about to answer alone.
LEMMA DueStays ==
  ASSUME \A g \in Handlers :
           /\ pc'[g] = "responding" <=> pc[g] = "responding"
           /\ pc[g] = "responding" => req'[g] = req[g] /\ mem'[g] = mem[g]
  PROVE  Due' = Due
BY DEF Due

LEMMA SameRefines ==
  ASSUME UNCHANGED <<enrollments, granted>>,
         \A g \in Handlers :
           /\ pc'[g] = "responding" <=> pc[g] = "responding"
           /\ pc[g] = "responding" => req'[g] = req[g] /\ mem'[g] = mem[g]
  PROVE  UNCHANGED Abstract!ledger
BY DueStays DEF Abstract!ledger, State, OpenName

\* A request that is rejected saves the cleaned list.
LEMMA RejectRefines ==
  ASSUME IInv, NEW h \in Handlers, Reject(h)
  PROVE  Abstract!Tidy
<1>0. TypeOK /\ pc \in [Handlers -> Labels] /\ req \in [Handlers -> Request]
      /\ mem \in [Handlers -> Memory]
  BY DEF IInv, TypeOK
<1>1. pc[h] \in Critical /\ pc[h] = "checking"
  BY DEF Reject, Critical, Labels
<1>2. enrollments' = Cleanup(enrollments, req[h].now) /\ req[h].now \in Nat
  BY <1>1, InsideFacts DEF Reject, IInv, SnapshotInv
<1>3. \A e \in Invites : Abstract!Ages(e)
  BY <1>0, <1>2, CleanedAges
<1>4. Due' = Due /\ granted' = granted
  BY <1>0, <1>1, DueStays DEF Reject, Leave
<1> QED
  BY <1>3, <1>4 DEF Abstract!Tidy

\* An invite in the critical section is open, and nobody is about to answer it.
LEMMA OpenFacts ==
  ASSUME IInv, NEW h \in Handlers, pc[h] \in Critical, Invited(h).status = "pending",
         NEW d \in Nat, enrollments' = MarkUsed(mem[h].items, req[h].inv, req[h].now, d)
  PROVE  /\ req[h].inv \in Invites /\ State[req[h].inv] = "pending"
         /\ State'[req[h].inv] = "used" /\ OpenName'[req[h].inv] = None
         /\ \A f \in Invites \ {req[h].inv} : Abstract!Ages(f)
         /\ Due[req[h].inv] = {}
         /\ \A g \in Handlers : pc[g] = "responding" => req[g].inv # req[h].inv
<1> DEFINE e == req[h].inv
<1>0. TypeOK /\ enrollments \in [Invites -> Record]
  BY DEF IInv, TypeOK
<1>1. /\ e \in Invites /\ req[h].now \in Nat
      /\ mem[h].items = Cleanup(enrollments, req[h].now)
      /\ mem[h].items \in [Invites -> Record]
      /\ Closing(enrollments, mem[h].items)
  BY InsideFacts DEF IInv, SnapshotInv
<1>2. enrollments[e].status = "pending"
  BY <1>1 DEF Invited, Closing
<1>3. enrollments'[e].status = "used"
  BY <1>1, MarkUsedCloses
<1>4. \A f \in Invites \ {e} : enrollments'[f] = Cleanup(enrollments, req[h].now)[f]
  BY <1>1 DEF MarkUsed
<1>5. \A f \in Invites \ {e} : Abstract!Ages(f)
  BY <1>0, <1>1, <1>4, CleanedAges
<1>6. \A g \in Handlers : pc[g] = "responding" => req[g].inv # e
  BY <1>2 DEF IInv, ClosedInv, Terminal
<1>7. Due[e] = {}
  BY <1>1, <1>6 DEF Due
<1>8. State[e] = "pending" /\ State'[e] = "used" /\ OpenName'[e] = None
  BY <1>1, <1>2, <1>3 DEF State, OpenName
<1> QED
  BY <1>1, <1>5, <1>6, <1>7, <1>8

\* The name is taken: the invite is used up, and no answer is due.
LEMMA RejectTakenRefines ==
  ASSUME IInv, NEW h \in Handlers, RejectTaken(h)
  PROVE  Abstract!Use(req[h].inv)
<1> DEFINE e == req[h].inv
<1>0. pc \in [Handlers -> Labels] /\ req \in [Handlers -> Request]
      /\ mem \in [Handlers -> Memory]
  BY DEF IInv, TypeOK
<1>1. /\ pc[h] \in Critical /\ pc[h] = "checking" /\ Invited(h).status = "pending"
      /\ enrollments' = MarkUsed(mem[h].items, e, req[h].now, 0)
  BY DEF RejectTaken, Critical, Labels, Redeemable, Invited, NoDevice
<1>2. Due' = Due /\ granted' = granted
  BY <1>0, <1>1, DueStays DEF RejectTaken, Leave
<1>3. 0 \in Nat
  OBVIOUS
<1>4. Due'[e] = {}
  BY <1>1, <1>2, <1>3, OpenFacts
<1> QED
  BY <1>1, <1>2, <1>3, <1>4, OpenFacts DEF Abstract!Use

\* The device is registered, and the invite used for it.
LEMMA MarkRefines ==
  ASSUME IInv, LedgerInv, NEW h \in Handlers, Mark(h)
  PROVE  Abstract!Use(req[h].inv)
<1> DEFINE e == req[h].inv
           d == mem[h].dev
<1>0. pc \in [Handlers -> Labels] /\ d \in Nat
  BY DEF IInv, TypeOK, Memory
<1>1. /\ pc[h] \in Critical /\ Holds(h) /\ Invited(h).status = "pending"
      /\ enrollments' = MarkUsed(mem[h].items, e, req[h].now, d)
      /\ UNCHANGED <<req, mem, granted>>
  BY DEF Mark, Critical, Labels, Holds, IInv, OpenInv
<1>2. \A g \in Handlers : pc'[g] = "responding" <=> pc[g] = "responding" \/ g = h
  BY <1>0 DEF Mark
<1>3. /\ e \in Invites /\ Due[e] = {}
      /\ \A g \in Handlers : pc[g] = "responding" => req[g].inv # e
  BY <1>0, <1>1, OpenFacts
<1>4. Due'[e] = {d}
  BY <1>1, <1>2, <1>3 DEF Due
<1>5. \A f \in Invites \ {e} : Due'[f] = Due[f]
  BY <1>1, <1>2 DEF Due
<1>6. \A f \in Invites : d \notin Due[f] /\ d \notin granted[f]
  <2>1. \A g \in Handlers : pc[g] = "responding" => g # h /\ mem[g].dev # d
    BY <1>1, <1>3 DEF LedgerInv, FreshInv, Holds
  <2>2. \A f \in Invites : d \notin Due[f]
    BY <2>1 DEF Due
  <2> QED
    BY <1>1, <2>2 DEF LedgerInv, FreshInv
<1>7. Due'[e] \cap Abstract!Taken = {}
  BY <1>4, <1>6 DEF Abstract!Taken
<1> QED
  BY <1>0, <1>1, <1>4, <1>5, <1>7, OpenFacts DEF Abstract!Use

\* What is due for the invite of a handler about to answer is its device.
LEMMA RespondingDue ==
  ASSUME IInv, NEW h \in Handlers, pc[h] = "responding", pc'[h] # "responding",
         \A g \in Handlers \ {h} : pc'[g] = pc[g] /\ req'[g] = req[g] /\ mem'[g] = mem[g]
  PROVE  /\ req[h].inv \in Invites /\ Due[req[h].inv] = {mem[h].dev}
         /\ Due' = [Due EXCEPT ![req[h].inv] = {}]
<1>1. req[h].inv \in Invites
  BY DEF IInv, TypeOK
<1>2. \A g \in Handlers : pc[g] = "responding" /\ req[g].inv = req[h].inv => g = h
  BY DEF IInv, SoleInv
<1>3. Due[req[h].inv] = {mem[h].dev}
  BY <1>1, <1>2 DEF Due
<1>4. \A e \in Invites : Due'[e] = IF e = req[h].inv THEN {} ELSE Due[e]
  BY <1>2 DEF Due
<1>5. Due' = [e \in Invites |-> IF e = req[h].inv THEN {} ELSE Due[e]]
  BY <1>4 DEF Due
<1> QED
  BY <1>1, <1>3, <1>5 DEF Due

LEMMA RespondRefines ==
  ASSUME IInv, NEW h \in Handlers, Respond(h)
  PROVE  Abstract!Answer(req[h].inv)
<1> DEFINE e == req[h].inv
<1>1. /\ pc[h] = "responding" /\ pc'[h] # "responding" /\ enrollments' = enrollments
      /\ \A g \in Handlers \ {h} : pc'[g] = pc[g] /\ req'[g] = req[g] /\ mem'[g] = mem[g]
      /\ granted' = [granted EXCEPT ![e] = @ \cup {mem[h].dev}]
  BY DEF Respond, IInv, TypeOK
<1>2. Due[e] = {mem[h].dev} /\ Due' = [Due EXCEPT ![e] = {}]
  BY <1>1, RespondingDue
<1>3. State' = State /\ OpenName' = OpenName
  BY <1>1 DEF State, OpenName
<1>4. granted' = [granted EXCEPT ![e] = @ \cup Due[e]]
  BY <1>1, <1>2
<1> QED
  BY <1>2, <1>3, <1>4 DEF Abstract!Answer

LEMMA LoseRefines ==
  ASSUME IInv, NEW h \in Handlers, LoseResponse(h)
  PROVE  Abstract!Lose
<1>1. /\ pc[h] = "responding" /\ pc'[h] # "responding"
      /\ enrollments' = enrollments /\ granted' = granted
      /\ \A g \in Handlers \ {h} : pc'[g] = pc[g] /\ req'[g] = req[g] /\ mem'[g] = mem[g]
  BY DEF LoseResponse, IInv, TypeOK
<1>2. \A e \in Invites : Due'[e] \in {Due[e], {}}
  BY <1>1, RespondingDue DEF Due
<1>3. State' = State /\ OpenName' = OpenName
  BY <1>1 DEF State, OpenName
<1> QED
  BY <1>1, <1>2, <1>3 DEF Abstract!Lose

\* Every step of a handler is a step of the ledger, or none of its business.
LEMMA HandlerRefines ==
  ASSUME IInv, LedgerInv, NEW h \in Handlers, Arrive(h) \/ Acquire(h) \/ HandlerStep(h)
  PROVE  [Abstract!Next]_(Abstract!ledger)
<1> USE DEF registry, handlers, staff, counts
<1>0. /\ pc \in [Handlers -> Labels] /\ req \in [Handlers -> Request]
      /\ mem \in [Handlers -> Memory]
      /\ pc[h] # "idle" => req[h].inv \in Invites
  BY DEF IInv, TypeOK
<1>1. CASE Reject(h)
  BY <1>1, RejectRefines DEF Abstract!Next
<1>2. CASE RejectTaken(h)
  BY <1>0, <1>2, RejectTakenRefines DEF Abstract!Next, RejectTaken
<1>3. CASE Mark(h)
  BY <1>0, <1>3, MarkRefines DEF Abstract!Next, Mark
<1>4. CASE Respond(h)
  BY <1>0, <1>4, RespondRefines DEF Abstract!Next, Respond
<1>5. CASE LoseResponse(h)
  BY <1>5, LoseRefines DEF Abstract!Next
<1>6. CASE \/ Arrive(h) \/ Acquire(h) \/ CheckName(h) \/ ReadGroups(h)
           \/ PickAddress(h) \/ ReadDevices(h) \/ Abort(h) \/ SaveDevices(h)
           \/ SaveGroups(h) \/ RollBack(h) \/ FailLate(h)
  <2>1. UNCHANGED <<enrollments, granted>>
    BY <1>6 DEF Arrive, Acquire, CheckName, ReadGroups, PickAddress, ReadDevices, Abort,
                SaveDevices, SaveGroups, RollBack, FailLate
  <2>2. pc[h] # "responding" /\ pc'[h] # "responding"
    BY <1>0, <1>6 DEF Arrive, Acquire, CheckName, ReadGroups, PickAddress, ReadDevices,
         Abort, SaveDevices, SaveGroups, RollBack, FailLate, Goto, Leave
  <2>3. \A g \in Handlers \ {h} : pc'[g] = pc[g] /\ req'[g] = req[g] /\ mem'[g] = mem[g]
    <3>1. CASE PickAddress(h)
      BY <1>0, <3>1 DEF PickAddress, Goto
    <3>2. CASE ~PickAddress(h)
      BY <1>0, <1>6, <3>2 DEF Arrive, Acquire, CheckName, ReadGroups, ReadDevices, Abort,
           SaveDevices, SaveGroups, RollBack, FailLate, Goto, Leave
    <3> QED
      BY <3>1, <3>2
  <2> QED
    BY <2>1, <2>2, <2>3, SameRefines
<1> QED
  BY <1>1, <1>2, <1>3, <1>4, <1>5, <1>6 DEF HandlerStep

LEMMA IssueRefines ==
  ASSUME IInv, LedgerInv, NEW i \in Inviters, IssueInvite(i)
  PROVE  [Abstract!Next]_(Abstract!ledger)
<1> USE DEF registry, handlers, staff, counts
<1> DEFINE items == Cleanup(enrollments, inviter[i].now)
           n == inviter[i].name
<1>0. /\ TypeOK /\ enrollments \in [Invites -> Record] /\ inviter[i].now \in Nat
      /\ n \in Names /\ None \notin Names
  BY ConstantsAssumption DEF IInv, TypeOK, LedgerInv, NamedInv, IssueInvite
<1>1. UNCHANGED <<pc, req, mem, granted>>
  BY DEF IssueInvite
<1>2. CASE UNCHANGED enrollments
  BY <1>1, <1>2, SameRefines
<1>3. CASE enrollments' # enrollments
  <2>1. PendingFor(items, n) = {}
    BY <1>3 DEF IssueInvite
  <2>2. items \in [Invites -> Record]
    BY <1>0, CleanupTyped
  <2>3. PICK e \in Invites :
          /\ items[e].status = "absent"
          /\ enrollments'[e].status = "pending" /\ enrollments'[e].name = n
          /\ \A f \in Invites \ {e} : enrollments'[f] = items[f]
    BY <1>3, <2>2 DEF IssueInvite
  <2>4. State[e] = "absent" /\ State'[e] = "pending" /\ OpenName'[e] = n
    <3>1. enrollments[e].status = "absent"
      BY <1>0, <2>3, CleanupTimes
    <3> QED
      BY <2>3, <3>1 DEF State, OpenName
  <2>5. ASSUME NEW f \in Invites \ {e}
        PROVE  Abstract!Ages(f) /\ OpenName'[f] # n
    <3>1. Abstract!Ages(f)
      BY <1>0, <2>3, CleanedAges
    <3>2. enrollments'[f].status = "pending" => enrollments'[f].name # n
      BY <2>1, <2>3 DEF PendingFor
    <3> QED
      BY <1>0, <3>1, <3>2 DEF OpenName
  <2>6. Due' = Due /\ granted' = granted
    BY <1>1 DEF Due
  <2>7. Abstract!Issue(e)
    BY <1>0, <2>4, <2>5, <2>6 DEF Abstract!Issue
  <2> QED
    BY <2>7 DEF Abstract!Next
<1> QED
  BY <1>2, <1>3

LEMMA OthersRefine ==
  ASSUME IInv,
         \/ \E i \in Inviters : PrepareInvite(i) \/ DropInvite(i)
         \/ \E a \in Admins : \/ ReadRegistry(a) \/ GiveUp(a)
                              \/ WriteDevices(a) \/ WriteGroups(a)
         \/ ListEnrollments \/ Crash \/ Tick \/ UNCHANGED vars
  PROVE  [Abstract!Next]_(Abstract!ledger)
<1> USE DEF registry, handlers, staff, counts
<1>1. CASE ListEnrollments
  <2>1. TypeOK /\ clock \in Nat
    BY DEF IInv, TypeOK
  <2>2. \A e \in Invites : Abstract!Ages(e)
    BY <1>1, <2>1, CleanedAges DEF ListEnrollments
  <2>3. Due' = Due /\ granted' = granted
    BY <1>1 DEF ListEnrollments, Due
  <2> QED
    BY <2>2, <2>3 DEF Abstract!Tidy, Abstract!Next
<1>2. CASE Crash
  <2>1. \A e \in Invites : Due'[e] = {}
    BY <1>2 DEF Crash, Due
  <2>2. State' = State /\ OpenName' = OpenName /\ granted' = granted
    BY <1>2 DEF Crash, State, OpenName
  <2> QED
    BY <2>1, <2>2 DEF Abstract!Lose, Abstract!Next
<1>3. CASE \/ \E i \in Inviters : PrepareInvite(i) \/ DropInvite(i)
           \/ \E a \in Admins : \/ ReadRegistry(a) \/ GiveUp(a)
                                \/ WriteDevices(a) \/ WriteGroups(a)
           \/ Tick \/ UNCHANGED vars
  <2>1. UNCHANGED <<enrollments, granted, pc, req, mem>>
    BY <1>3 DEF PrepareInvite, DropInvite, ReadRegistry, GiveUp, WriteDevices,
                WriteGroups, Finish, Tick, vars
  <2> QED
    BY <2>1, SameRefines
<1> QED
  BY <1>1, <1>2, <1>3

LEMMA RefineInit == Init => Abstract!Init
BY DEF Init, Abstract!Init, State, OpenName, Due, NoRecord

LEMMA NextRefines ==
  IInv /\ LedgerInv /\ [Next]_vars => [Abstract!Next]_(Abstract!ledger)
BY HandlerRefines, IssueRefines, OthersRefine DEF Next

\* pairing.py keeps the ledger that Ledger states, for any number of invites, handlers,
\* inviters and administrators, and any retention: it uses an invite in one step, for one
\* device that no other invite is answered with, and never opens it again.
THEOREM Refinement == Spec => ImplementsLedger
BY RefineInit, NextRefines, LedgerInvariance, PTL DEF Spec, ImplementsLedger, Abstract!Spec
===============================================================================
