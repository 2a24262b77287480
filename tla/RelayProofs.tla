------------------------------ MODULE RelayProofs ------------------------------
(***************************************************************************)
(* Theorems about Relay, for any number of devices, sessions, threads,     *)
(* monitors and syncers, and any timeouts, capacity and bounds.            *)
(***************************************************************************)
EXTENDS Relay, FiniteSetTheorems, TLAPS

-----------------------------------------------------------------------------
(* Types.                                                                   *)

LEMMA ConstantsTyped ==
  /\ NoSession \in Session /\ FreeThread \in Thread /\ IdleClient \in Client
  /\ PollAttempts \in Nat
  /\ NoSync \in [sent: BOOLEAN, devices: SUBSET Devices]
BY ConstantsAssumption
   DEF NoSync, NoSession, Session, FreeThread, Thread, IdleClient, Client

LEMMA InitTyped == Init => TypeOK
<1> SUFFICES ASSUME Init PROVE TypeOK
  OBVIOUS
<1>1. /\ clock = 0 /\ asks = 0 /\ edits = 0 /\ restarts = 0 /\ moves = 0
      /\ active = Devices /\ known = Devices /\ calls = {} /\ skewed = FALSE
      /\ todo = [m \in Monitors |-> {}] /\ endpoint = [d \in Devices |-> None]
      /\ address \in [Devices -> Addresses] /\ lock = None /\ doomed = {}
  BY DEF Init
<1>2. /\ sessions = [s \in Sessions |-> NoSession]
      /\ threads = [t \in Threads |-> FreeThread]
      /\ client = [d \in Devices |-> IdleClient]
      /\ syncs = [x \in Syncers |-> NoSync]
  BY DEF Init
<1>3. /\ sessions \in [Sessions -> Session] /\ threads \in [Threads -> Thread]
      /\ client \in [Devices -> Client]
      /\ syncs \in [Syncers -> [sent: BOOLEAN, devices: SUBSET Devices]]
  BY <1>2, ConstantsTyped
<1> QED
  BY <1>1, <1>3 DEF TypeOK

\* A cleanup closes open sessions and does nothing else.
LEMMA CloseFacts ==
  ASSUME TypeOK, NEW stale
  PROVE  /\ Close(stale) \in [Sessions -> Session]
         /\ Open(Close(stale)) \subseteq Open(sessions)
         /\ \A s \in Sessions :
              /\ Close(stale)[s].dev = sessions[s].dev
              /\ \/ Close(stale)[s] = sessions[s]
                 \/ s \in Open(sessions) \cap stale /\ Close(stale)[s].status = "closed"
<1>1. ASSUME NEW s \in Sessions
      PROVE  /\ Close(stale)[s] \in Session
             /\ Close(stale)[s].dev = sessions[s].dev
             /\ \/ Close(stale)[s] = sessions[s]
                \/ s \in Open(sessions) \cap stale /\ Close(stale)[s].status = "closed"
  BY DEF Close, Session, TypeOK
<1>2. Close(stale) \in [Sessions -> Session]
  BY <1>1 DEF Close
<1>3. Open(Close(stale)) \subseteq Open(sessions)
  BY <1>1 DEF Open
<1> QED
  BY <1>1, <1>2, <1>3

\* The first step of a cleanup, by any of those who take the lock.
LEMMA DecideTyped ==
  ASSUME TypeOK, NEW x \in Threads \cup Monitors \cup {Main}, Decide(x)
  PROVE  TypeOK'
BY DEF Decide, Stale, Open, TypeOK, bridge, device, counts

LEMMA AnswerTyped ==
  ASSUME TypeOK, NEW t \in Threads, NEW s \in Sessions,
         NEW status \in {"WAITING_BRIDGE", "ACTIVE"}, Answer(t, s, status)
  PROVE  threads' \in [Threads -> Thread] /\ client' \in [Devices -> Client]
<1>1. client \in [Devices -> Client] /\ threads \in [Threads -> Thread]
  BY DEF TypeOK
<1>2. \A d \in Devices :
        [client[d] EXCEPT !.pc = "polling", !.sess = s, !.status = status] \in Client
  BY <1>1 DEF Client
<1> QED
  BY <1>1, <1>2, ConstantsTyped DEF Answer

LEMMA RefuseTyped ==
  ASSUME TypeOK, NEW t \in Threads, Refuse(t)
  PROVE  threads' \in [Threads -> Thread] /\ client' \in [Devices -> Client]
BY ConstantsTyped DEF Refuse, TypeOK

LEMMA SendTyped ==
  ASSUME TypeOK, NEW d \in Devices, NEW call \in {"request", "status"},
         NEW s \in Sessions \cup {None}, Send(d, call, s, address[d])
  PROVE  threads' \in [Threads -> Thread]
BY DEF Send, TypeOK, Thread

LEMMA DeviceTyped ==
  ASSUME TypeOK, NEW d \in Devices,
         \/ Ask(d) \/ Poll(d) \/ Connect(d) \/ GiveUp(d) \/ LoseCall(d)
         \/ Disconnect(d) \/ Move(d)
  PROVE  TypeOK'
<1> USE DEF bridge, relay, device, counts
<1>1. /\ client \in [Devices -> Client] /\ client[d] \in Client
      /\ address[d] \in Addresses /\ threads \in [Threads -> Thread]
      /\ PollAttempts \in Nat
  BY ConstantsTyped DEF TypeOK
<1>2. CASE Ask(d)
  <2>1. threads' \in [Threads -> Thread]
    BY <1>2, SendTyped DEF Ask
  <2>2. [IdleClient EXCEPT !.pc = "calling", !.from = address[d]] \in Client
    BY <1>1, ConstantsTyped DEF Client, IdleClient
  <2> QED
    BY <1>2, <2>1, <2>2 DEF Ask, TypeOK
<1>3. CASE Poll(d)
  <2>1. threads' \in [Threads -> Thread]
    <3>1. client[d].sess \in Sessions \cup {None}
      BY <1>1 DEF Client
    <3> QED
      BY <1>3, <3>1, SendTyped DEF Poll
  <2>2. [client[d] EXCEPT !.pc = "calling", !.polls = @ + 1] \in Client
    BY <1>1, <1>3 DEF Client, Poll
  <2> QED
    BY <1>3, <2>1, <2>2 DEF Poll, TypeOK
<1>4. CASE Connect(d)
  <2>1. [client[d] EXCEPT !.pc = "connected"] \in Client
    BY <1>1 DEF Client
  <2> QED
    BY <1>4, <2>1 DEF Connect, TypeOK
<1>5. CASE GiveUp(d) \/ Disconnect(d) \/ Move(d)
  BY <1>5, ConstantsTyped DEF GiveUp, Disconnect, Move, TypeOK
<1>6. CASE LoseCall(d)
  <2>1. threads' \in [Threads -> Thread]
    BY <1>1, <1>6 DEF LoseCall, Thread
  <2> QED
    BY <1>6, <2>1, ConstantsTyped DEF LoseCall, TypeOK
<1> QED
  BY <1>2, <1>3, <1>4, <1>5, <1>6

LEMMA ServerTyped ==
  ASSUME TypeOK, NEW t \in Threads, ServeDevice(t)
  PROVE  TypeOK'
<1> USE DEF bridge, relay, device, counts
<1>1. /\ sessions \in [Sessions -> Session] /\ threads[t] \in Thread
      /\ \A stale : Close(stale) \in [Sessions -> Session]
      /\ \A table \in [Sessions -> Session] : \A s \in Open(table) :
           table[s].status \in {"WAITING_BRIDGE", "ACTIVE"} /\ s \in Sessions
  BY CloseFacts DEF TypeOK, Open
<1>2. CASE Authenticate(t)
  <2>1. threads' \in [Threads -> Thread] /\ client' \in [Devices -> Client]
    <3>1. CASE Refuse(t)
      BY <3>1, RefuseTyped
    <3>2. CASE threads' = [threads EXCEPT ![t].pc = "authenticated"] /\ UNCHANGED client
      <4>1. [threads[t] EXCEPT !.pc = "authenticated"] \in Thread
        BY <1>1 DEF Thread
      <4> QED
        BY <3>2, <4>1 DEF TypeOK
    <3> QED
      BY <1>2, <3>1, <3>2 DEF Authenticate
  <2> QED
    BY <1>2, <2>1 DEF Authenticate, TypeOK
<1>2a. CASE BeginCall(t)
  BY <1>2a, DecideTyped DEF BeginCall
<1>3. CASE CheckCapacity(t)
  <2>1. threads' \in [Threads -> Thread] /\ client' \in [Devices -> Client]
    <3>1. CASE Refuse(t)
      BY <3>1, RefuseTyped
    <3>2. CASE threads' = [threads EXCEPT ![t].pc = "cleaned"] /\ UNCHANGED client
      <4>1. [threads[t] EXCEPT !.pc = "cleaned"] \in Thread
        BY <1>1 DEF Thread
      <4> QED
        BY <3>2, <4>1 DEF TypeOK
    <3> QED
      BY <1>3, <3>1, <3>2 DEF CheckCapacity
  <2>2. lock' \in {t, None}
    BY <1>3 DEF CheckCapacity
  <2> QED
    BY <1>1, <1>3, <2>1, <2>2 DEF CheckCapacity, Remove, TypeOK
<1>4. CASE EndCreate(t)
  <2>1. threads' \in [Threads -> Thread] /\ client' \in [Devices -> Client]
    <3>1. Refuse(t) \/ \E s \in Sessions : Found(t, s)
      BY <1>4 DEF EndCreate
    <3>2. \A s \in Sessions :
            [threads[t] EXCEPT !.pc = "answering", !.sess = s] \in Thread
      BY <1>1 DEF Thread
    <3> QED
      BY <1>1, <3>1, <3>2, RefuseTyped DEF Found, TypeOK
  <2>2. NewSession(threads[t].dev, threads[t].from) \in Session
    BY <1>1 DEF NewSession, Session, Thread, TypeOK
  <2>3. sessions' \in [Sessions -> Session] /\ skewed' \in BOOLEAN
    BY <1>1, <1>4, <2>2 DEF EndCreate, TypeOK
  <2> QED
    BY <1>4, <2>1, <2>3 DEF EndCreate, TypeOK
<1>5. CASE Reply(t)
  <2>1. threads' \in [Threads -> Thread] /\ client' \in [Devices -> Client]
    BY <1>1, <1>5, RefuseTyped, AnswerTyped DEF Reply
  <2> QED
    BY <1>5, <2>1 DEF Reply, TypeOK
<1>6. CASE ServeStatus(t)
  <2>1. threads' \in [Threads -> Thread] /\ client' \in [Devices -> Client]
    <3>1. sessions' \in [Sessions -> Session] /\ (Refuse(t) \/ \E s \in Open(sessions') :
            Answer(t, s, sessions'[s].status))
      BY <1>1, <1>6 DEF ServeStatus, Remove
    <3> QED
      BY <1>1, <3>1, RefuseTyped, AnswerTyped
  <2> QED
    BY <1>1, <1>6, <2>1 DEF ServeStatus, Remove, TypeOK
<1> QED
  BY <1>2, <1>2a, <1>3, <1>4, <1>5, <1>6 DEF ServeDevice

LEMMA RelayTyped ==
  ASSUME TypeOK, Sweep \/ EndSweep \/ Restart \/ \E s \in Sessions : Pump(s)
  PROVE  TypeOK'
<1> USE DEF bridge, relay, device, counts
<1>1. \A stale : Close(stale) \in [Sessions -> Session]
  BY CloseFacts
<1>2. CASE Sweep \/ EndSweep
  BY <1>1, <1>2, DecideTyped DEF Sweep, EndSweep, Remove, TypeOK
<1>3. CASE Restart
  <2>1. sessions' \in [Sessions -> Session]
    BY <1>1, <1>3 DEF Restart
  <2> QED
    BY <1>3, <2>1, ConstantsTyped DEF Restart, TypeOK
<1>4. ASSUME NEW s \in Sessions, Pump(s)
      PROVE  TypeOK'
  <2>1. sessions' \in [Sessions -> Session]
    <3>1. sessions' = [sessions EXCEPT ![s].last = clock]
      BY <1>4 DEF Pump
    <3>2. /\ sessions \in [Sessions -> Session] /\ clock \in Nat
      BY DEF TypeOK
    <3>3. [sessions[s] EXCEPT !.last = clock] \in Session
      BY <3>2 DEF Session
    <3> QED
      BY <3>1, <3>2, <3>3
  <2> QED
    BY <1>4, <2>1 DEF Pump, TypeOK
<1> QED
  BY <1>2, <1>3, <1>4

LEMMA BridgeTyped ==
  ASSUME TypeOK,
         \/ \E d \in Devices : LeaveRelay(d) \/ SetEnabled(d)
         \/ \E s \in Sessions : Activate(s) \/ LoseActivation(s)
         \/ \E m \in Monitors :
              AskRequests(m) \/ ListRequests(m) \/ Prepare(m) \/ Skip(m)
         \/ \E x \in Syncers : BeginSync(x) \/ ApplySync(x) \/ LoseSync(x)
  PROVE  TypeOK'
<1> USE DEF bridge, relay, device, counts
<1>1. ASSUME NEW d \in Devices, LeaveRelay(d) \/ SetEnabled(d)
      PROVE  TypeOK'
  BY <1>1 DEF LeaveRelay, SetEnabled, TypeOK
<1>2. ASSUME NEW s \in Sessions, Activate(s) \/ LoseActivation(s)
      PROVE  TypeOK'
  <2>1. sessions' \in [Sessions -> Session]
    <3>1. [sessions[s] EXCEPT !.status = "ACTIVE"] \in Session
      BY DEF TypeOK, Session
    <3> QED
      BY <1>2, <3>1 DEF Activate, LoseActivation, TypeOK
  <2> QED
    BY <1>2, <2>1 DEF Activate, LoseActivation, TypeOK
<1>3. ASSUME NEW m \in Monitors,
             AskRequests(m) \/ ListRequests(m) \/ Prepare(m) \/ Skip(m)
      PROVE  TypeOK'
  <2>1. \A stale : Close(stale) \in [Sessions -> Session]
    BY CloseFacts
  <2>2. CASE AskRequests(m) \/ ListRequests(m)
    BY <2>1, <2>2, DecideTyped DEF AskRequests, ListRequests, Remove, TypeOK
  <2>3. CASE Prepare(m)
    <3>1. PICK s \in todo[m] :
            /\ endpoint' = [endpoint EXCEPT ![sessions[s].dev] = s]
            /\ calls' = calls \cup {s}
            /\ todo' = [todo EXCEPT ![m] = @ \ {s}]
      BY <2>3 DEF Prepare
    <3>2. s \in Sessions
      BY <3>1 DEF TypeOK
    <3> QED
      BY <2>3, <3>1, <3>2 DEF Prepare, TypeOK
  <2>4. CASE Skip(m)
    BY <2>4 DEF Skip, TypeOK
  <2> QED
    BY <1>3, <2>2, <2>3, <2>4
<1>4. ASSUME NEW x \in Syncers, BeginSync(x) \/ ApplySync(x) \/ LoseSync(x)
      PROVE  TypeOK'
  <2>1. syncs \in [Syncers -> [sent: BOOLEAN, devices: SUBSET Devices]]
    BY DEF TypeOK
  <2>2. active \subseteq Devices /\ syncs[x].devices \subseteq Devices
    BY <2>1 DEF TypeOK
  <2>3. [sent |-> TRUE, devices |-> active] \in [sent: BOOLEAN, devices: SUBSET Devices]
    BY <2>2
  <2>4. syncs' \in [Syncers -> [sent: BOOLEAN, devices: SUBSET Devices]]
    BY <1>4, <2>1, <2>3, ConstantsTyped DEF BeginSync, ApplySync, LoseSync
  <2> QED
    BY <1>4, <2>2, <2>4 DEF BeginSync, ApplySync, LoseSync, TypeOK
<1> QED
  BY <1>1, <1>2, <1>3, <1>4

LEMMA NextTyped == TypeOK /\ [Next]_vars => TypeOK'
<1> SUFFICES ASSUME TypeOK, [Next]_vars
             PROVE  TypeOK'
  OBVIOUS
<1>1. ASSUME Tick \/ UNCHANGED vars
      PROVE  TypeOK'
  BY <1>1 DEF Tick, vars, bridge, relay, device, counts, TypeOK
<1> QED
  BY <1>1, DeviceTyped, ServerTyped, RelayTyped, BridgeTyped DEF Next

\* Every variable keeps its type.
THEOREM TypeCorrect == Spec => []TypeOK
BY InitTyped, NextTyped, PTL DEF Spec

-----------------------------------------------------------------------------
(* The inductive invariant.                                                 *)

\* The server: a thread between the capacity check and the creation of a session
\* holds the lock, and the room it has seen is still there.
Held == \A t \in Threads : threads[t].pc = "cleaned" => lock = t

Room ==
  \A t \in Threads :
    threads[t].pc = "cleaned" => Cardinality(Open(sessions)) < MaxSessions

ServerInv == Held /\ Room /\ WithinCapacity /\ OneSessionPerDevice

\* The Bridge: a session it has still to activate, has asked to activate or has
\* activated was created, and no other session of its device competes with it
\* while it is open.
Listed(s) == \E m \in Monitors : s \in todo[m]
Busy(s)   == s \in calls \/ sessions[s].status = "ACTIVE"

CreatedInv ==
  /\ \A s \in Sessions : s \in calls \/ Listed(s) => sessions[s].status # "unused"
  /\ \A d \in Devices :
       endpoint[d] # None => /\ sessions[endpoint[d]].status # "unused"
                             /\ sessions[endpoint[d]].dev = d

NoRival(s, s2) ==
  /\ Listed(s) \/ Busy(s) => ~Listed(s2)
  /\ Busy(s) => endpoint[sessions[s].dev] # s2

RivalInv ==
  (~skewed /\ OneMonitor) =>
    \A s, s2 \in Sessions :
      (s \in Open(sessions) /\ s2 # s /\ sessions[s2].dev = sessions[s].dev)
        => NoRival(s, s2)

ShadowInv == CreatedInv /\ RivalInv

\* The device: the sessions it was told of, or is about to be, are its own.
TruthInv ==
  /\ \A d \in Devices :
       client[d].sess # None =>
         /\ sessions[client[d].sess].status # "unused"
         /\ sessions[client[d].sess].dev = d
         /\ client[d].status = "ACTIVE" =>
              sessions[client[d].sess].status \in {"ACTIVE", "closed"}
  /\ \A t \in Threads :
       threads[t].pc = "answering" =>
         /\ threads[t].sess \in Sessions
         /\ sessions[threads[t].sess].status # "unused"
         /\ sessions[threads[t].sess].dev = threads[t].dev

IInv == TypeOK /\ ServerInv /\ ShadowInv /\ TruthInv

-----------------------------------------------------------------------------
(* What most steps do to the sessions: some are closed.                     *)

Kept ==
  \A s \in Sessions :
    /\ sessions'[s].dev = sessions[s].dev
    /\ \/ sessions'[s].status = sessions[s].status
       \/ s \in Open(sessions) /\ sessions'[s].status = "closed"

\* What every step does to them.
Aged ==
  \A s \in Sessions :
    sessions[s].status # "unused" =>
      /\ sessions'[s].status # "unused" /\ sessions'[s].dev = sessions[s].dev
      /\ sessions[s].status \in {"ACTIVE", "closed"} =>
           sessions'[s].status \in {"ACTIVE", "closed"}

LEMMA KeptFacts ==
  ASSUME Kept
  PROVE  Aged /\ Open(sessions') \subseteq Open(sessions)
BY DEF Kept, Aged, Open

LEMMA CloseKept ==
  ASSUME TypeOK, NEW stale, sessions' = Close(stale)
  PROVE  Kept
BY CloseFacts DEF Kept

LEMMA OpenFinite ==
  ASSUME NEW table
  PROVE  IsFiniteSet(Open(table)) /\ Cardinality(Open(table)) \in Nat
<1>1. Open(table) \subseteq Sessions
  BY DEF Open
<1> QED
  BY <1>1, ConstantsAssumption, FS_Subset, FS_CardinalityType

LEMMA FewerOpen ==
  ASSUME NEW t1, NEW t2, Open(t1) \subseteq Open(t2)
  PROVE  Cardinality(Open(t1)) <= Cardinality(Open(t2))
BY OpenFinite, FS_Subset

\* Steps that let no thread pass the capacity check.
LEMMA ServerKept ==
  ASSUME TypeOK, ServerInv, Kept, skewed' = skewed,
         \A t \in Threads :
           threads'[t].pc = "cleaned" => threads[t].pc = "cleaned" /\ lock' = lock
  PROVE  ServerInv'
<1>1. /\ Open(sessions') \subseteq Open(sessions)
      /\ Cardinality(Open(sessions')) <= Cardinality(Open(sessions))
      /\ Cardinality(Open(sessions')) \in Nat /\ Cardinality(Open(sessions)) \in Nat
  BY KeptFacts, FewerOpen, OpenFinite
<1>2. Held'
  BY DEF ServerInv, Held
<1>3. Room' /\ WithinCapacity'
  BY <1>1, ConstantsAssumption DEF ServerInv, Room, WithinCapacity
<1>4. OneSessionPerDevice'
  <2>1. Open(sessions') \subseteq Sessions
    BY DEF Open
  <2> QED
    BY <1>1, <2>1 DEF ServerInv, OneSessionPerDevice, Kept
<1> QED
  BY <1>2, <1>3, <1>4 DEF ServerInv

\* Steps of the others, seen from the Bridge.
LEMMA ShadowKept ==
  ASSUME TypeOK, ShadowInv, Kept, skewed' = skewed, UNCHANGED <<todo, calls, endpoint>>
  PROVE  ShadowInv'
<1>1. Open(sessions') \subseteq Open(sessions) /\ Aged
  BY KeptFacts
<1>2. endpoint \in [Devices -> Sessions \cup {None}]
  BY DEF TypeOK
<1>3. CreatedInv'
  BY <1>1, <1>2 DEF ShadowInv, CreatedInv, Listed, Aged
<1>4. \A s \in Sessions : Listed(s)' <=> Listed(s)
  BY DEF Listed
<1>5. \A s \in Sessions : Busy(s)' => Busy(s)
  BY DEF Busy, Kept
<1>6. RivalInv'
  <2> SUFFICES ASSUME ~skewed, OneMonitor, NEW s \in Sessions, NEW s2 \in Sessions,
                      s \in Open(sessions'), s2 # s,
                      sessions'[s2].dev = sessions'[s].dev
               PROVE  NoRival(s, s2)'
    BY DEF RivalInv, OneMonitor
  <2>1. NoRival(s, s2) /\ sessions'[s].dev = sessions[s].dev
    BY <1>1 DEF ShadowInv, RivalInv, Kept
  <2> QED
    BY <1>4, <1>5, <2>1 DEF NoRival
<1> QED
  BY <1>3, <1>6 DEF ShadowInv

\* Steps that tell a device nothing new.
LEMMA TruthKept ==
  ASSUME TypeOK, TruthInv, Aged,
         \A d \in Devices :
           \/ client'[d].sess = None
           \/ client'[d].sess = client[d].sess /\ client'[d].status = client[d].status,
         \A t \in Threads : threads'[t].pc = "answering" =>
           /\ threads[t].pc = "answering" /\ threads'[t].sess = threads[t].sess
           /\ threads'[t].dev = threads[t].dev
  PROVE  TruthInv'
<1>1. \A d \in Devices : client[d].sess \in Sessions \cup {None}
  BY DEF TypeOK, Client
<1> QED
  BY <1>1 DEF TruthInv, Aged

\* An answer about a session of the thread's device.
LEMMA TruthAnswer ==
  ASSUME TypeOK, TruthInv, Aged, NEW t \in Threads, NEW s \in Open(sessions'),
         sessions'[s].dev = threads[t].dev, Answer(t, s, sessions'[s].status)
  PROVE  TruthInv'
<1>1. /\ client \in [Devices -> Client] /\ threads \in [Threads -> Thread]
      /\ \A d \in Devices : client[d].sess \in Sessions \cup {None}
  BY DEF TypeOK, Client
<1>2. s \in Sessions /\ sessions'[s].status # "unused"
  BY DEF Open
<1>3. ASSUME NEW d \in Devices
      PROVE  \/ /\ client'[d].sess = s /\ threads[t].dev = d
                /\ client'[d].status = sessions'[s].status
             \/ client'[d].sess = client[d].sess /\ client'[d].status = client[d].status
  <2>1. CASE threads[t].awaited /\ threads[t].dev = d
    BY <1>1, <2>1 DEF Answer, Client
  <2>2. CASE ~(threads[t].awaited /\ threads[t].dev = d)
    BY <1>1, <2>2 DEF Answer
  <2> QED
    BY <2>1, <2>2
<1>4. ASSUME NEW u \in Threads, threads'[u].pc = "answering"
      PROVE  threads'[u] = threads[u]
  BY <1>1, <1>4 DEF Answer, FreeThread
<1> QED
  BY <1>1, <1>2, <1>3, <1>4 DEF TruthInv, Aged

LEMMA TruthRefuse ==
  ASSUME TypeOK, TruthInv, Aged, NEW t \in Threads, Refuse(t)
  PROVE  TruthInv'
<1>1. /\ client \in [Devices -> Client] /\ threads \in [Threads -> Thread]
  BY DEF TypeOK
<1>2. \A d \in Devices : client'[d] = client[d] \/ client'[d].sess = None
  BY <1>1 DEF Refuse, IdleClient
<1>3. \A u \in Threads : threads'[u].pc = "answering" => threads'[u] = threads[u]
  BY <1>1 DEF Refuse, FreeThread
<1> QED
  BY <1>2, <1>3, TruthKept

-----------------------------------------------------------------------------
(* Each group of actions preserves the invariant.                           *)

\* Steps that leave the sessions and the Bridge alone.
LEMMA StillInv ==
  ASSUME IInv, TypeOK', UNCHANGED <<sessions, skewed, todo, calls, endpoint>>,
         \A t \in Threads :
           /\ threads'[t].pc = "cleaned" => threads[t].pc = "cleaned" /\ lock' = lock
           /\ threads'[t].pc = "answering" =>
                /\ threads[t].pc = "answering" /\ threads'[t].sess = threads[t].sess
                /\ threads'[t].dev = threads[t].dev,
         \A d \in Devices :
           \/ client'[d].sess = None
           \/ client'[d].sess = client[d].sess /\ client'[d].status = client[d].status
  PROVE  IInv'
<1>1. Kept /\ Aged
  BY KeptFacts DEF Kept
<1>2. ServerInv'
  BY <1>1, ServerKept DEF IInv
<1>3. ShadowInv'
  BY <1>1, ShadowKept DEF IInv
<1>4. TruthInv'
  BY <1>1, TruthKept DEF IInv
<1> QED
  BY <1>2, <1>3, <1>4 DEF IInv

LEMMA DeviceInv ==
  ASSUME IInv, NEW d \in Devices,
         \/ Ask(d) \/ Poll(d) \/ Connect(d) \/ GiveUp(d) \/ LoseCall(d)
         \/ Disconnect(d) \/ Move(d)
  PROVE  IInv'
<1> USE DEF bridge, relay, device, counts
<1>1. /\ TypeOK' /\ client \in [Devices -> Client] /\ threads \in [Threads -> Thread]
  BY DeviceTyped DEF IInv, TypeOK
<1>2. UNCHANGED <<sessions, lock, skewed, todo, calls, endpoint>>
  BY DEF Ask, Poll, Connect, GiveUp, LoseCall, Disconnect, Move
<1>3. ASSUME NEW t \in Threads
      PROVE  /\ threads'[t].pc = "cleaned" => threads[t].pc = "cleaned"
             /\ threads'[t].pc = "answering" =>
                  /\ threads[t].pc = "answering" /\ threads'[t].sess = threads[t].sess
                  /\ threads'[t].dev = threads[t].dev
  <2>1. CASE Ask(d) \/ Poll(d)
    BY <1>1, <2>1 DEF Ask, Poll, Send
  <2>2. CASE LoseCall(d)
    BY <1>1, <2>2 DEF LoseCall, Thread
  <2>3. CASE Connect(d) \/ GiveUp(d) \/ Disconnect(d) \/ Move(d)
    BY <2>3 DEF Connect, GiveUp, Disconnect, Move
  <2> QED
    BY <2>1, <2>2, <2>3
<1>4. ASSUME NEW e \in Devices
      PROVE  \/ client'[e].sess = None
             \/ client'[e].sess = client[e].sess /\ client'[e].status = client[e].status
  <2>1. CASE Ask(d) \/ GiveUp(d) \/ LoseCall(d) \/ Disconnect(d)
    <3>1. [IdleClient EXCEPT !.pc = "calling", !.from = address[d]].sess = None
          /\ IdleClient.sess = None
      BY DEF IdleClient
    <3>2. \/ client' = [client EXCEPT ![d] = IdleClient]
          \/ client' = [client EXCEPT ![d] =
               [IdleClient EXCEPT !.pc = "calling", !.from = address[d]]]
      BY <2>1 DEF Ask, GiveUp, LoseCall, Disconnect
    <3> QED
      BY <1>1, <3>1, <3>2
  <2>2. CASE Poll(d) \/ Connect(d) \/ Move(d)
    BY <1>1, <2>2 DEF Poll, Connect, Move, Client
  <2> QED
    BY <2>1, <2>2
<1> QED
  BY <1>1, <1>2, <1>3, <1>4, StillInv

LEMMA AuthenticateInv ==
  ASSUME IInv, NEW t \in Threads, Authenticate(t)
  PROVE  IInv'
<1> USE DEF bridge, relay, device, counts
<1>1. /\ TypeOK' /\ client \in [Devices -> Client] /\ threads \in [Threads -> Thread]
  BY ServerTyped DEF IInv, TypeOK, ServeDevice
<1>2. \A u \in Threads : \/ threads'[u] = threads[u]
                         \/ threads'[u].pc \in {"free", "authenticated"}
  BY <1>1 DEF Authenticate, Refuse, FreeThread, Thread
<1>3. \A e \in Devices : client'[e] = client[e] \/ client'[e].sess = None
  BY <1>1 DEF Authenticate, Refuse, IdleClient
<1> QED
  BY <1>1, <1>2, <1>3, StillInv DEF Authenticate

\* Nobody is between the check and the creation when another takes the lock or has it.
LEMMA DecideInv ==
  ASSUME IInv, NEW x \in Threads \cup Monitors \cup {Main}, Decide(x)
  PROVE  IInv'
<1>1. TypeOK' /\ \A t \in Threads : threads[t].pc # "cleaned"
  BY DecideTyped, ConstantsAssumption DEF IInv, ServerInv, Held, Decide
<1> QED
  BY <1>1, StillInv DEF Decide, bridge, device

LEMMA CheckCapacityInv ==
  ASSUME IInv, NEW t \in Threads, CheckCapacity(t)
  PROVE  IInv'
<1> USE DEF bridge, relay, device, counts
<1>1. /\ TypeOK' /\ TypeOK /\ threads \in [Threads -> Thread]
  BY ServerTyped DEF IInv, TypeOK, ServeDevice
<1>2. Kept /\ Aged
  BY <1>1, CloseKept, KeptFacts DEF CheckCapacity, Remove
<1>2a. \A u \in Threads : threads[u].pc # "cleaned"
  BY ConstantsAssumption DEF CheckCapacity, Remove, IInv, ServerInv, Held
<1>3. ShadowInv'
  BY <1>2, ShadowKept DEF IInv, CheckCapacity
<1>4. CASE Refuse(t)
  <2>1. \A u \in Threads : threads'[u].pc # "cleaned"
    BY <1>1, <1>2a, <1>4 DEF Refuse, FreeThread
  <2>2. ServerInv'
    BY <1>1, <1>2, <2>1, ServerKept DEF IInv, CheckCapacity
  <2>3. TruthInv'
    BY <1>2, <1>4, TruthRefuse DEF IInv
  <2> QED
    BY <1>1, <1>3, <2>2, <2>3 DEF IInv
<1>5. CASE ~Refuse(t)
  <2>1. /\ ~(Cardinality(Open(sessions')) >= MaxSessions)
        /\ threads' = [threads EXCEPT ![t].pc = "cleaned"]
        /\ lock' = t
        /\ UNCHANGED <<client, skewed>>
    BY <1>5 DEF CheckCapacity
  <2>2. \A u \in Threads :
          /\ threads'[u].pc = IF u = t THEN "cleaned" ELSE threads[u].pc
          /\ threads'[u].sess = threads[u].sess /\ threads'[u].dev = threads[u].dev
          /\ threads[u].pc # "cleaned"
    BY <1>1, <1>2a, <2>1 DEF Thread
  <2>3. /\ Cardinality(Open(sessions')) \in Nat
        /\ Cardinality(Open(sessions')) < MaxSessions
    BY <2>1, OpenFinite, ConstantsAssumption
  <2>4. Held' /\ Room' /\ WithinCapacity'
    BY <1>2a, <2>1, <2>2, <2>3, ConstantsAssumption DEF Held, Room, WithinCapacity
  <2>5. OneSessionPerDevice'
    <3>1. Open(sessions') \subseteq Open(sessions) /\ Open(sessions') \subseteq Sessions
      BY <1>2, KeptFacts DEF Open
    <3> QED
      BY <1>2, <2>1, <3>1 DEF IInv, ServerInv, OneSessionPerDevice, Kept
  <2>6. TruthInv'
    BY <1>1, <1>2, <2>1, <2>2, TruthKept DEF IInv
  <2> QED
    BY <1>1, <1>3, <2>4, <2>5, <2>6 DEF IInv, ServerInv
<1> QED
  BY <1>4, <1>5

\* A session is created for a device that has none.
LEMMA CreateInv ==
  ASSUME IInv, TypeOK', NEW t \in Threads, NEW s \in Sessions,
         threads[t].pc = "cleaned", sessions[s].status = "unused", lock' = None,
         sessions' = [sessions EXCEPT ![s] = NewSession(threads[t].dev, threads[t].from)],
         skewed' = (skewed \/ \E x \in Sessions : HasSession(threads[t].dev, x)),
         Found(t, s), UNCHANGED <<todo, calls, endpoint>>
  PROVE  IInv'
<1>1. /\ TypeOK /\ threads \in [Threads -> Thread] /\ sessions \in [Sessions -> Session]
      /\ endpoint \in [Devices -> Sessions \cup {None}]
      /\ \A d \in Devices : client[d].sess \in Sessions \cup {None}
  BY DEF IInv, TypeOK, Client
<1>2. /\ sessions'[s].status = "WAITING_BRIDGE" /\ sessions'[s].dev = threads[t].dev
      /\ \A x \in Sessions \ {s} : sessions'[x] = sessions[x]
      /\ Open(sessions') = Open(sessions) \cup {s} /\ s \notin Open(sessions)
  BY <1>1 DEF NewSession, Open
<1>3. /\ threads'[t].pc = "answering" /\ threads'[t].sess = s
      /\ threads'[t].dev = threads[t].dev
      /\ \A u \in Threads \ {t} : threads'[u] = threads[u]
      /\ client' = client
  BY <1>1 DEF Found, Thread
<1>4. Held' /\ Room'
  BY <1>3 DEF IInv, ServerInv, Held, Room
<1>5. WithinCapacity'
  <2>1. /\ Cardinality(Open(sessions)) < MaxSessions
        /\ Cardinality(Open(sessions)) \in Nat
        /\ Cardinality(Open(sessions')) = Cardinality(Open(sessions)) + 1
    BY <1>2, OpenFinite, FS_AddElement DEF IInv, ServerInv, Room
  <2> QED
    BY <2>1, ConstantsAssumption DEF WithinCapacity
<1>6. OneSessionPerDevice'
  <2>1. Open(sessions) \subseteq Sessions
    BY DEF Open
  <2>2. ~skewed' => ~skewed /\ ~\E x \in Sessions : HasSession(threads[t].dev, x)
    OBVIOUS
  <2> SUFFICES ASSUME ~skewed', NEW x \in Open(sessions'), NEW y \in Open(sessions'),
                      sessions'[x].dev = sessions'[y].dev
               PROVE  x = y
    BY DEF OneSessionPerDevice
  <2>3. CASE x = s \/ y = s
    BY <1>2, <2>1, <2>2, <2>3 DEF HasSession
  <2>4. CASE x # s /\ y # s
    <3>1. x \in Open(sessions) /\ y \in Open(sessions)
      BY <1>2, <2>4
    <3>2. sessions[x].dev = sessions[y].dev
      BY <1>2, <2>1, <2>4, <3>1
    <3> QED
      BY <2>2, <3>1, <3>2 DEF IInv, ServerInv, OneSessionPerDevice
  <2> QED
    BY <2>3, <2>4
<1>7. Aged
  BY <1>2 DEF Aged
<1>8. CreatedInv'
  BY <1>1, <1>7 DEF IInv, ShadowInv, CreatedInv, Listed, Aged
\* The new session is no rival: nobody on the Bridge knows it.
<1>9. /\ ~Listed(s) /\ ~Busy(s)' /\ \A d \in Devices : endpoint[d] # s
  BY <1>1, <1>2, ConstantsAssumption DEF IInv, ShadowInv, CreatedInv, Busy
<1>10. RivalInv'
  <2> SUFFICES ASSUME ~skewed', OneMonitor, NEW x \in Sessions, NEW y \in Sessions,
                      x \in Open(sessions'), y # x,
                      sessions'[y].dev = sessions'[x].dev
               PROVE  NoRival(x, y)'
    BY DEF RivalInv, OneMonitor
  <2>1. CASE x = s
    BY <1>9, <2>1 DEF NoRival, Listed
  <2>2. CASE y = s
    <3>1. Listed(y)' = Listed(y) /\ ~Listed(y)
      BY <1>9, <2>2 DEF Listed
    <3>2. sessions'[x].status = "ACTIVE" \/ x \in calls => endpoint[sessions'[x].dev] # s
      <4>1. sessions'[x].dev \in Devices \cup {None} /\ DOMAIN endpoint = Devices
        BY <1>1 DEF TypeOK, Session
      <4>2. sessions'[x].dev = threads[t].dev /\ sessions[x] = sessions'[x]
        BY <1>2, <2>2
      <4>3. x \in Open(sessions) /\ HasSession(threads[t].dev, x)
        BY <1>2, <2>2, <4>2 DEF HasSession
      <4> QED
        BY <4>3
    <3> QED
      BY <2>2, <3>1, <3>2 DEF NoRival, Busy
  <2>3. CASE x # s /\ y # s
    <3>1. NoRival(x, y)
      BY <1>2, <2>3 DEF IInv, ShadowInv, RivalInv
    <3> QED
      BY <1>2, <2>3, <3>1 DEF NoRival, Listed, Busy
  <2> QED
    BY <2>1, <2>2, <2>3
<1>11. TruthInv'
  BY <1>1, <1>2, <1>3, <1>7 DEF IInv, TruthInv, Aged
<1> QED
  BY <1>4, <1>5, <1>6, <1>8, <1>10, <1>11 DEF IInv, ServerInv, ShadowInv

LEMMA EndCreateInv ==
  ASSUME IInv, NEW t \in Threads, EndCreate(t)
  PROVE  IInv'
<1> USE DEF bridge, relay, device, counts
<1>1. /\ TypeOK' /\ client \in [Devices -> Client] /\ threads \in [Threads -> Thread]
  BY ServerTyped DEF IInv, TypeOK, ServeDevice
<1>2. \/ \E s \in Sessions : /\ HasSession(threads[t].dev, s) /\ Found(t, s)
                             /\ UNCHANGED <<sessions, skewed>>
      \/ \E s \in Sessions :
           /\ sessions[s].status = "unused"
           /\ sessions' =
                [sessions EXCEPT ![s] = NewSession(threads[t].dev, threads[t].from)]
           /\ skewed' = (skewed \/ \E x \in Sessions : HasSession(threads[t].dev, x))
           /\ Found(t, s)
      \/ Refuse(t) /\ UNCHANGED <<sessions, skewed>>
  BY DEF EndCreate
<1>3. /\ threads[t].pc = "cleaned" /\ UNCHANGED <<todo, calls, endpoint>>
      /\ lock' = None /\ \A u \in Threads \ {t} : threads[u].pc # "cleaned"
  BY DEF EndCreate, IInv, ServerInv, Held
<1>4. ASSUME NEW s \in Sessions, HasSession(threads[t].dev, s), Found(t, s),
             UNCHANGED <<sessions, skewed>>
      PROVE  IInv'
  <2>1. Kept /\ Aged
    BY <1>4, KeptFacts DEF Kept
  <2>2. /\ threads'[t].pc = "answering" /\ threads'[t].sess = s
        /\ threads'[t].dev = threads[t].dev
        /\ \A u \in Threads \ {t} : threads'[u] = threads[u]
        /\ client' = client
    BY <1>1, <1>4 DEF Found, Thread
  <2>3. ServerInv' /\ ShadowInv'
    BY <1>3, <1>4, <2>1, <2>2, ServerKept, ShadowKept DEF IInv
  <2>4. TruthInv'
    BY <1>4, <2>2 DEF IInv, TruthInv, HasSession, Open
  <2> QED
    BY <1>1, <2>3, <2>4 DEF IInv
<1>5. ASSUME Refuse(t), UNCHANGED <<sessions, skewed>>
      PROVE  IInv'
  <2>1. \A u \in Threads : \/ u # t /\ threads'[u] = threads[u]
                           \/ threads'[u].pc = "free"
    BY <1>1, <1>5 DEF Refuse, FreeThread
  <2>2. \A e \in Devices : client'[e] = client[e] \/ client'[e].sess = None
    BY <1>1, <1>5 DEF Refuse, IdleClient
  <2> QED
    BY <1>1, <1>3, <1>5, <2>1, <2>2, StillInv
<1> QED
  BY <1>1, <1>2, <1>3, <1>4, <1>5, CreateInv

LEMMA ReplyInv ==
  ASSUME IInv, NEW t \in Threads, Reply(t) \/ ServeStatus(t)
  PROVE  IInv'
<1> USE DEF bridge, relay, device, counts
<1>1. /\ TypeOK' /\ TypeOK /\ threads \in [Threads -> Thread]
  BY ServerTyped DEF IInv, TypeOK, ServeDevice
<1>2. Kept /\ Aged /\ UNCHANGED <<todo, calls, endpoint, skewed>>
  BY <1>1, CloseKept, KeptFacts DEF Reply, ServeStatus, Remove, Kept
<1>3. \/ Refuse(t)
      \/ \E s \in Open(sessions') : /\ sessions'[s].dev = threads[t].dev
                                    /\ Answer(t, s, sessions'[s].status)
  BY DEF Reply, ServeStatus, IInv, TruthInv
<1>4. \A u \in Threads : threads'[u] = threads[u] \/ threads'[u].pc = "free"
  <2>1. threads' = [threads EXCEPT ![t] = FreeThread] /\ FreeThread.pc = "free"
    BY <1>3 DEF Refuse, Answer, FreeThread
  <2> QED
    BY <1>1, <2>1
<1>4a. lock' = lock \/ \A u \in Threads : threads[u].pc # "cleaned"
  BY ConstantsAssumption DEF Reply, ServeStatus, Remove, IInv, ServerInv, Held
<1>5. ServerInv' /\ ShadowInv'
  BY <1>1, <1>2, <1>4, <1>4a, ServerKept, ShadowKept DEF IInv
<1>6. TruthInv'
  BY <1>2, <1>3, TruthAnswer, TruthRefuse DEF IInv
<1> QED
  BY <1>1, <1>5, <1>6 DEF IInv

LEMMA RelayInv ==
  ASSUME IInv, EndSweep \/ Restart \/ \E s \in Sessions : Pump(s)
  PROVE  IInv'
<1> USE DEF bridge, relay, device, counts
<1>1. /\ TypeOK' /\ TypeOK /\ sessions \in [Sessions -> Session]
      /\ UNCHANGED <<todo, calls, endpoint, skewed>>
  BY RelayTyped DEF IInv, TypeOK, EndSweep, Restart, Pump
<1>2. Kept
  <2>1. CASE EndSweep \/ Restart
    BY <1>1, <2>1, CloseKept DEF EndSweep, Remove, Restart
  <2>3. CASE \E s \in Sessions : Pump(s)
    BY <1>1, <2>3 DEF Pump, Kept, Session
  <2> QED
    BY <2>1, <2>3
<1>3. \A t \in Threads :
        \/ threads'[t].pc = "free"
        \/ threads'[t] = threads[t] /\ (lock' = lock \/ threads[t].pc # "cleaned")
  BY ConstantsAssumption
     DEF EndSweep, Restart, Pump, FreeThread, IInv, ServerInv, Held
<1>4. \A d \in Devices : client'[d] = client[d] \/ client'[d].sess = None
  BY DEF EndSweep, Restart, Pump, IdleClient
<1>5. ServerInv' /\ ShadowInv'
  BY <1>1, <1>2, <1>3, ServerKept, ShadowKept DEF IInv
<1>6. TruthInv'
  BY <1>1, <1>2, <1>3, <1>4, KeptFacts, TruthKept DEF IInv
<1> QED
  BY <1>1, <1>5, <1>6 DEF IInv

\* What the Bridge's steps leave alone.
LEMMA BridgeKept ==
  ASSUME IInv, TypeOK', Aged, UNCHANGED <<threads, client, skewed>>,
         lock' = lock \/ \A t \in Threads : threads[t].pc # "cleaned",
         Open(sessions') \subseteq Open(sessions),
         \A s \in Sessions : sessions'[s].dev = sessions[s].dev
  PROVE  ServerInv' /\ TruthInv'
<1>1. /\ Cardinality(Open(sessions')) <= Cardinality(Open(sessions))
      /\ Cardinality(Open(sessions')) \in Nat /\ Cardinality(Open(sessions)) \in Nat
      /\ Open(sessions') \subseteq Sessions
  BY FewerOpen, OpenFinite DEF Open
<1>2. Held' /\ Room' /\ WithinCapacity'
  BY <1>1, ConstantsAssumption DEF IInv, ServerInv, Held, Room, WithinCapacity
<1>3. OneSessionPerDevice'
  BY <1>1 DEF IInv, ServerInv, OneSessionPerDevice
<1>4. TruthInv'
  BY TruthKept DEF IInv
<1> QED
  BY <1>2, <1>3, <1>4 DEF ServerInv

LEMMA ActivateInv ==
  ASSUME IInv, NEW x \in Sessions, Activate(x) \/ LoseActivation(x)
  PROVE  IInv'
<1> USE DEF bridge, relay, device, counts
<1>1. /\ TypeOK' /\ TypeOK /\ sessions \in [Sessions -> Session]
      /\ x \in calls /\ calls' = calls \ {x}
      /\ UNCHANGED <<todo, endpoint, skewed, lock, threads, client>>
  BY BridgeTyped DEF IInv, TypeOK, Activate, LoseActivation
<1>2. \A s \in Sessions :
        /\ sessions'[s].dev = sessions[s].dev
        /\ \/ sessions'[s].status = sessions[s].status
           \/ s = x /\ s \in Open(sessions) /\ sessions'[s].status = "ACTIVE"
  BY <1>1 DEF Activate, LoseActivation, Session
<1>3. Open(sessions') = Open(sessions)
  BY <1>2 DEF Open
<1>4. Aged
  BY <1>2 DEF Aged, Open
<1>5. ServerInv' /\ TruthInv'
  BY <1>1, <1>2, <1>3, <1>4, BridgeKept
<1>6. CreatedInv'
  BY <1>1, <1>4 DEF IInv, TypeOK, ShadowInv, CreatedInv, Listed, Aged
<1>7. RivalInv'
  <2>1. \A s \in Sessions : (Listed(s)' <=> Listed(s)) /\ (Busy(s)' => Busy(s))
    BY <1>1, <1>2 DEF Listed, Busy
  <2> QED
    BY <1>1, <1>2, <1>3, <2>1 DEF IInv, ShadowInv, RivalInv, NoRival, OneMonitor
<1> QED
  BY <1>1, <1>5, <1>6, <1>7 DEF IInv, ShadowInv

\* The other steps of the Bridge leave the sessions as they are, or clean up.
LEMMA LeaveRelayInv ==
  ASSUME IInv, NEW d \in Devices, LeaveRelay(d)
  PROVE  IInv'
<1> USE DEF bridge, relay, device, counts
<1>1. /\ TypeOK' /\ endpoint \in [Devices -> Sessions \cup {None}]
      /\ endpoint' = [endpoint EXCEPT ![d] = None]
      /\ UNCHANGED <<todo, calls, sessions, lock, skewed, threads, client>>
  BY BridgeTyped DEF IInv, TypeOK, LeaveRelay
<1>2. \A e \in Devices : endpoint'[e] = endpoint[e] \/ endpoint'[e] = None
  BY <1>1
<1>3. ServerInv' /\ TruthInv'
  BY <1>1, BridgeKept DEF Aged
<1>4. CreatedInv'
  BY <1>1, <1>2 DEF IInv, ShadowInv, CreatedInv, Listed
<1>5. RivalInv'
  <2> SUFFICES ASSUME ~skewed, OneMonitor, NEW s \in Sessions, NEW s2 \in Sessions,
                      s \in Open(sessions), s2 # s,
                      sessions[s2].dev = sessions[s].dev
               PROVE  NoRival(s, s2)'
    BY <1>1 DEF RivalInv, OneMonitor
  <2>1. NoRival(s, s2)
    BY DEF IInv, ShadowInv, RivalInv
  <2>2. endpoint'[sessions[s].dev] \in {endpoint[sessions[s].dev], None}
    BY <1>1
  <2> QED
    BY <1>1, <2>1, <2>2, ConstantsAssumption DEF NoRival, Listed, Busy
<1> QED
  BY <1>1, <1>3, <1>4, <1>5 DEF IInv, ShadowInv

LEMMA EditInv ==
  ASSUME IInv,
         \/ \E d \in Devices : SetEnabled(d)
         \/ \E x \in Syncers : BeginSync(x) \/ ApplySync(x) \/ LoseSync(x)
         \/ Tick \/ UNCHANGED vars
  PROVE  IInv'
<1>1. UNCHANGED <<sessions, lock, skewed, todo, calls, endpoint, threads, client>>
  BY DEF SetEnabled, BeginSync, ApplySync, LoseSync, Tick, vars, bridge, relay, device
<1>2. TypeOK'
  BY NextTyped DEF IInv, Next
<1> QED
  BY <1>1, <1>2, StillInv

LEMMA PrepareInv ==
  ASSUME IInv, NEW m \in Monitors, Prepare(m)
  PROVE  IInv'
<1> USE DEF bridge, relay, device, counts
<1>1. /\ TypeOK' /\ TypeOK /\ endpoint \in [Devices -> Sessions \cup {None}]
      /\ todo \in [Monitors -> SUBSET Sessions]
      /\ UNCHANGED <<sessions, lock, skewed, threads, client>>
  BY BridgeTyped DEF IInv, TypeOK, Prepare
<1>2. PICK x \in todo[m] :
        /\ sessions[x].dev \in active
        /\ endpoint' = [endpoint EXCEPT ![sessions[x].dev] = x]
        /\ calls' = calls \cup {x}
        /\ todo' = [todo EXCEPT ![m] = @ \ {x}]
  BY DEF Prepare
<1>3. /\ x \in Sessions /\ Listed(x) /\ sessions[x].status # "unused"
      /\ sessions[x].dev \in Devices
  BY <1>1, <1>2 DEF IInv, ShadowInv, CreatedInv, Listed, TypeOK
<1>4. ServerInv' /\ TruthInv'
  BY <1>1, BridgeKept DEF Aged
<1>5. \A s \in Sessions : /\ Listed(s)' => Listed(s)
                          /\ Busy(s)' <=> Busy(s) \/ s = x
  BY <1>1, <1>2, <1>3 DEF Listed, Busy
<1>6. CreatedInv'
  BY <1>1, <1>2, <1>3, <1>5 DEF IInv, ShadowInv, CreatedInv
<1>7. RivalInv'
  <2> SUFFICES ASSUME ~skewed, OneMonitor, NEW s \in Sessions, NEW s2 \in Sessions,
                      s \in Open(sessions), s2 # s,
                      sessions[s2].dev = sessions[s].dev
               PROVE  NoRival(s, s2)'
    BY <1>1 DEF RivalInv, OneMonitor
  <2>1. NoRival(s, s2)
    BY DEF IInv, ShadowInv, RivalInv
  <2>2. Listed(s)' \/ Busy(s)' => Listed(s) \/ Busy(s)
    BY <1>3, <1>5
  <2>3. Listed(s)' \/ Busy(s)' => ~Listed(s2)'
    BY <1>5, <2>1, <2>2 DEF NoRival
  <2>4. ASSUME Busy(s)'
        PROVE  endpoint'[sessions[s].dev] # s2
    <3>1. CASE s = x
      BY <1>1, <1>2, <1>3, <3>1
    <3>2. CASE s # x
      <4>1. Busy(s) /\ s2 # x
        BY <1>3, <1>5, <2>1, <2>4, <3>2 DEF NoRival
      <4> QED
        BY <1>1, <1>2, <2>1, <4>1 DEF NoRival
    <3> QED
      BY <3>1, <3>2
  <2> QED
    BY <1>1, <2>3, <2>4 DEF NoRival
<1> QED
  BY <1>1, <1>4, <1>6, <1>7 DEF IInv, ShadowInv

LEMMA SkipInv ==
  ASSUME IInv, NEW m \in Monitors, Skip(m)
  PROVE  IInv'
<1> USE DEF bridge, relay, device, counts
<1>1. /\ TypeOK' /\ todo \in [Monitors -> SUBSET Sessions]
      /\ UNCHANGED <<sessions, lock, skewed, threads, client, calls, endpoint>>
  BY BridgeTyped DEF IInv, TypeOK, Skip
<1>2. ServerInv' /\ TruthInv'
  BY <1>1, BridgeKept DEF Aged
<1>3. \A s \in Sessions : (Listed(s)' => Listed(s)) /\ (Busy(s)' <=> Busy(s))
  BY <1>1 DEF Skip, Listed, Busy
<1>4. CreatedInv' /\ RivalInv'
  BY <1>1, <1>3
     DEF IInv, ShadowInv, CreatedInv, RivalInv, NoRival, OneMonitor
<1> QED
  BY <1>1, <1>2, <1>4 DEF IInv, ShadowInv

LEMMA ListRequestsInv ==
  ASSUME IInv, NEW m \in Monitors, ListRequests(m)
  PROVE  IInv'
<1> USE DEF bridge, relay, device, counts
<1>1. /\ TypeOK' /\ TypeOK /\ todo \in [Monitors -> SUBSET Sessions]
      /\ todo' = [todo EXCEPT ![m] =
           {s \in Sessions : sessions'[s].status = "WAITING_BRIDGE"}]
      /\ UNCHANGED <<skewed, threads, client, calls, endpoint>>
  BY BridgeTyped DEF IInv, TypeOK, ListRequests
<1>2. Kept /\ Aged /\ Open(sessions') \subseteq Open(sessions)
  BY <1>1, CloseKept, KeptFacts DEF ListRequests, Remove
<1>2a. \A t \in Threads : threads[t].pc # "cleaned"
  BY ConstantsAssumption DEF ListRequests, Remove, IInv, ServerInv, Held
<1>3. ServerInv' /\ TruthInv'
  BY <1>1, <1>2, <1>2a, BridgeKept DEF Kept
<1>4. \A s \in Sessions : Listed(s)' => Listed(s) \/ s \in Open(sessions')
  BY <1>1 DEF Listed, Open
<1>5. CreatedInv'
  <2>1. ASSUME NEW s \in Sessions, s \in calls' \/ Listed(s)'
        PROVE  sessions'[s].status # "unused"
    BY <1>1, <1>2, <1>4, <2>1 DEF IInv, ShadowInv, CreatedInv, Aged, Open
  <2>2. ASSUME NEW d \in Devices, endpoint'[d] # None
        PROVE  /\ sessions'[endpoint'[d]].status # "unused"
               /\ sessions'[endpoint'[d]].dev = d
    BY <1>1, <1>2, <2>2 DEF IInv, ShadowInv, CreatedInv, Aged, TypeOK
  <2> QED
    BY <2>1, <2>2 DEF CreatedInv
<1>6. RivalInv'
  <2> SUFFICES ASSUME ~skewed, OneMonitor, NEW s \in Sessions, NEW s2 \in Sessions,
                      s \in Open(sessions'), s2 # s,
                      sessions'[s2].dev = sessions'[s].dev
               PROVE  NoRival(s, s2)'
    BY <1>1 DEF RivalInv, OneMonitor
  <2>1. NoRival(s, s2)
    BY <1>2 DEF IInv, ShadowInv, RivalInv, Kept
  <2>2. s2 \notin Open(sessions')
    BY <1>1, <1>3 DEF ServerInv, OneSessionPerDevice
  <2>3. Listed(s2)' => s2 \in Open(sessions')
    BY <1>1 DEF OneMonitor, Listed, Open
  <2>4. Busy(s)' => Busy(s)
    BY <1>1, <1>2 DEF Busy, Kept
  <2>5. sessions'[s].dev = sessions[s].dev
    BY <1>2 DEF Kept
  <2> QED
    BY <1>1, <2>1, <2>2, <2>3, <2>4, <2>5 DEF NoRival
<1> QED
  BY <1>1, <1>3, <1>5, <1>6 DEF IInv, ShadowInv

LEMMA InitInv == Init => IInv
<1> SUFFICES ASSUME Init PROVE IInv
  OBVIOUS
<1>1. /\ TypeOK
      /\ \A s \in Sessions : sessions[s].status = "unused" /\ s \notin calls
      /\ \A t \in Threads : threads[t].pc = "free"
      /\ \A d \in Devices : client[d].sess = None /\ endpoint[d] = None
      /\ \A s \in Sessions : ~Listed(s)
  BY InitTyped DEF Init, NoSession, FreeThread, IdleClient, Listed
<1>2. Open(sessions) = {}
  BY <1>1 DEF Open
<1>3. WithinCapacity
  BY <1>2, FS_EmptySet, ConstantsAssumption DEF WithinCapacity
<1>4. ServerInv
  BY <1>1, <1>2, <1>3 DEF ServerInv, Held, Room, OneSessionPerDevice
<1>5. ShadowInv
  BY <1>1, <1>2 DEF ShadowInv, CreatedInv, RivalInv
<1>6. TruthInv
  BY <1>1 DEF TruthInv
<1> QED
  BY <1>1, <1>4, <1>5, <1>6 DEF IInv

LEMMA NextInv == IInv /\ [Next]_vars => IInv'
<1> SUFFICES ASSUME IInv, [Next]_vars
             PROVE  IInv'
  OBVIOUS
<1>1. ASSUME NEW d \in Devices,
             \/ Ask(d) \/ Poll(d) \/ Connect(d) \/ GiveUp(d) \/ LoseCall(d)
             \/ Disconnect(d) \/ Move(d) \/ LeaveRelay(d) \/ SetEnabled(d)
      PROVE  IInv'
  BY <1>1, DeviceInv, LeaveRelayInv, EditInv
<1>2. ASSUME NEW t \in Threads, ServeDevice(t)
      PROVE  IInv'
  BY <1>2, AuthenticateInv, DecideInv, CheckCapacityInv, EndCreateInv, ReplyInv
     DEF ServeDevice, BeginCall
<1>3. ASSUME NEW s \in Sessions, Pump(s) \/ Activate(s) \/ LoseActivation(s)
      PROVE  IInv'
  BY <1>3, RelayInv, ActivateInv
<1>4. ASSUME NEW m \in Monitors,
             AskRequests(m) \/ ListRequests(m) \/ Prepare(m) \/ Skip(m)
      PROVE  IInv'
  BY <1>4, DecideInv, ListRequestsInv, PrepareInv, SkipInv DEF AskRequests
<1>5. CASE Sweep \/ EndSweep \/ Restart
  BY <1>5, DecideInv, RelayInv DEF Sweep
<1>6. CASE \/ \E x \in Syncers : BeginSync(x) \/ ApplySync(x) \/ LoseSync(x)
           \/ Tick \/ UNCHANGED vars
  BY <1>6, EditInv
<1> QED
  BY <1>1, <1>2, <1>3, <1>4, <1>5, <1>6 DEF Next

\* The inductive invariant of the relay, the Bridge and the devices together.
THEOREM Invariance == Spec => []IInv
BY InitInv, NextInv, PTL DEF Spec

-----------------------------------------------------------------------------
(* A call and a session belong to a device.                                 *)

Owned ==
  /\ \A t \in Threads : threads[t].pc # "free" => threads[t].dev \in Devices
  /\ \A s \in Sessions : sessions[s].status # "unused" => sessions[s].dev \in Devices

LEMMA OwnedThreads ==
  ASSUME TypeOK, Owned, [Next]_vars,
         NEW t \in Threads, threads'[t].pc # "free"
  PROVE  threads'[t].dev \in Devices
<1> USE DEF bridge, relay, device, counts
<1>1. /\ threads \in [Threads -> Thread] /\ FreeThread.pc = "free"
      /\ threads[t].pc # "free" => threads[t].dev \in Devices
  BY DEF TypeOK, FreeThread, Owned
<1>2. \/ threads' = threads
      \/ \E e \in Devices : Ask(e) \/ Poll(e) \/ LoseCall(e)
      \/ \E u \in Threads : ServeDevice(u)
      \/ Restart
  BY DEF Next, Connect, GiveUp, Disconnect, Move, LeaveRelay, SetEnabled, Pump,
         Activate, LoseActivation, AskRequests, ListRequests, Prepare, Skip,
         BeginSync, ApplySync, LoseSync, Sweep, EndSweep, Decide, Tick, vars
<1>3. CASE \E e \in Devices : Ask(e) \/ Poll(e)
  BY <1>1, <1>3 DEF Ask, Poll, Send
<1>4. CASE \E e \in Devices : LoseCall(e)
  BY <1>1, <1>4 DEF LoseCall, Thread
<1>5. ASSUME NEW u \in Threads, ServeDevice(u)
      PROVE  threads'[t].dev \in Devices
  <2>1. \/ threads' = [threads EXCEPT ![u] = FreeThread]
        \/ /\ threads[u].pc # "free"
           /\ \/ \E pc \in {"authenticated", "cleaned"} :
                   threads' = [threads EXCEPT ![u].pc = pc]
              \/ \E s \in Sessions :
                   threads' = [threads EXCEPT ![u].pc = "answering", ![u].sess = s]
        \/ threads' = threads
    BY <1>5 DEF ServeDevice, Authenticate, BeginCall, Decide, CheckCapacity, EndCreate,
                Found, Reply, ServeStatus, Refuse, Answer
  <2>2. threads[u].pc # "free" => threads[u].dev \in Devices
    BY DEF Owned
  <2> QED
    BY <1>1, <2>1, <2>2 DEF Thread
<1>6. CASE Restart
  BY <1>1, <1>6 DEF Restart
<1> QED
  BY <1>1, <1>2, <1>3, <1>4, <1>5, <1>6

LEMMA OwnedSessions ==
  ASSUME TypeOK, Owned, [Next]_vars, NEW s \in Sessions,
         sessions'[s].status # "unused"
  PROVE  sessions'[s].dev \in Devices
<1> USE DEF bridge, relay, device, counts
<1>1. /\ sessions \in [Sessions -> Session]
      /\ sessions[s].status # "unused" => sessions[s].dev \in Devices
  BY DEF TypeOK, Owned
<1>2. CASE /\ sessions'[s].dev = sessions[s].dev
           /\ sessions[s].status = "unused" => sessions'[s].status = "unused"
  BY <1>1, <1>2
<1>3. CASE \E t \in Threads : EndCreate(t)
  <2> PICK t \in Threads : EndCreate(t)
    BY <1>3
  <2>1. threads[t].dev \in Devices
    BY DEF EndCreate, Owned
  <2>2. \/ sessions' = sessions
        \/ \E x \in Sessions : sessions' =
             [sessions EXCEPT ![x] = NewSession(threads[t].dev, threads[t].from)]
    BY DEF EndCreate
  <2> QED
    BY <1>1, <2>1, <2>2 DEF NewSession
<1>4. CASE (\E stale : sessions' = Close(stale)) \/ sessions' = sessions
  BY <1>1, <1>2, <1>4, CloseFacts DEF Open
<1>5. CASE \E x \in Sessions : Pump(x) \/ Activate(x)
  <2>1. /\ sessions'[s].dev = sessions[s].dev
        /\ sessions[s].status = "unused" => sessions'[s].status = "unused"
    BY <1>1, <1>5 DEF Pump, Activate, Open, Session
  <2> QED
    BY <1>2, <2>1
<1> QED
  BY <1>3, <1>4, <1>5
     DEF Next, ServeDevice, Ask, Poll, Connect, GiveUp, LoseCall, Disconnect, Move,
         LeaveRelay, SetEnabled, Authenticate, BeginCall, Decide, CheckCapacity,
         Remove, Reply, ServeStatus, LoseActivation, AskRequests, ListRequests,
         Prepare, Skip, BeginSync, ApplySync, LoseSync, Sweep, EndSweep, Restart,
         Tick, vars

LEMMA Ownership == Spec => []Owned
<1>1. Init => Owned
  BY DEF Init, Owned, FreeThread, NoSession
<1>2. TypeOK /\ Owned /\ [Next]_vars => Owned'
  BY OwnedThreads, OwnedSessions DEF Owned
<1> QED
  BY <1>1, <1>2, TypeCorrect, PTL DEF Spec

-----------------------------------------------------------------------------
(* What follows from it.                                                    *)

\* The relay never holds more open sessions than MAX_SESSIONS: the cleanup and
\* the capacity check of create_session stay good until the session is created,
\* since _sessions_lock is held and only create_session opens a session.
THEOREM CapacityRespected == Spec => []WithinCapacity
<1>1. IInv => WithinCapacity
  BY DEF IInv, ServerInv
<1> QED
  BY <1>1, Invariance, PTL

\* create_session never opens a second session for a device, except when the
\* clock moves between its cleanup and its lookup.
THEOREM OneSessionEach == Spec => []OneSessionPerDevice
<1>1. IInv => OneSessionPerDevice
  BY DEF IInv, ServerInv
<1> QED
  BY <1>1, Invariance, PTL

\* With one monitor, the peer of a device with an ACTIVE session points at that
\* session or has left the relay, however late the activation arrives.
THEOREM NeverShadowed == Spec => []ActiveNotShadowed
<1>1. ASSUME IInv, Owned
      PROVE  ActiveNotShadowed
  <2> SUFFICES ASSUME ~skewed, OneMonitor, NEW s \in Sessions,
                      sessions[s].status = "ACTIVE", endpoint[sessions[s].dev] # None
               PROVE  endpoint[sessions[s].dev] = s
    BY DEF ActiveNotShadowed
  <2>1. s \in Open(sessions) /\ Busy(s)
    BY DEF Open, Busy
  <2>2. sessions[s].dev \in Devices
    BY <1>1 DEF Owned
  <2> DEFINE e == endpoint[sessions[s].dev]
  <2>3. e \in Sessions /\ sessions[e].dev = sessions[s].dev
    BY <1>1, <2>2 DEF IInv, TypeOK, ShadowInv, CreatedInv
  <2> QED
    BY <1>1, <2>1, <2>3 DEF IInv, ShadowInv, RivalInv, NoRival
<1> QED
  BY <1>1, Invariance, Ownership, PTL

\* What a device is told of a session is true of its own session.
THEOREM TellsTheTruth == Spec => []ToldTheTruth
<1>1. IInv => ToldTheTruth
  BY DEF IInv, TruthInv, ToldTheTruth
<1> QED
  BY <1>1, Invariance, PTL

-----------------------------------------------------------------------------
(* Sessions in use.                                                         *)

\* An ACTIVE session that no time limit has passed.
InUse(s) ==
  /\ sessions[s].status = "ACTIVE"
  /\ clock <= sessions[s].last + Idle
  /\ clock <= sessions[s].created + Lifetime

\* The decision to expire spares it, and so does the removal of others.
LEMMA BusyIsNotStale ==
  ASSUME TypeOK, NEW s \in Sessions, InUse(s), s \notin doomed
  PROVE  s \notin Stale /\ Close(doomed)[s] = sessions[s]
<1>1. clock \in Nat /\ sessions[s] \in Session /\ {Idle, Lifetime} \subseteq Nat
  BY ConstantsAssumption DEF TypeOK
<1>2. ~Expired(sessions[s])
  BY <1>1 DEF Expired, InUse, Session
<1> QED
  BY <1>2 DEF Close, Stale

LEMMA BusySurvivesStep ==
  ASSUME TypeOK, NEW s \in Sessions, InUse(s), s \notin doomed, Next, restarts' = restarts
  PROVE  sessions'[s].status = "ACTIVE" /\ s \notin doomed'
<1> USE DEF bridge, relay, device, counts
<1>0. /\ sessions \in [Sessions -> Session] /\ sessions[s].status = "ACTIVE"
      /\ Close(doomed)[s] = sessions[s] /\ s \notin Stale /\ s \notin doomed
      /\ restarts \in Nat
  BY BusyIsNotStale DEF InUse, TypeOK
<1>1. CASE \E d \in Devices :
             \/ Ask(d) \/ Poll(d) \/ Connect(d) \/ GiveUp(d) \/ LoseCall(d)
             \/ Disconnect(d) \/ Move(d) \/ LeaveRelay(d) \/ SetEnabled(d)
  BY <1>0, <1>1 DEF Ask, Poll, Connect, GiveUp, LoseCall, Disconnect, Move,
                    LeaveRelay, SetEnabled
<1>2. ASSUME NEW t \in Threads, ServeDevice(t)
      PROVE  sessions'[s].status = "ACTIVE" /\ s \notin doomed'
  <2>1. CASE Authenticate(t) \/ BeginCall(t) \/ Reply(t)
    BY <1>0, <2>1 DEF Authenticate, BeginCall, Decide, Reply
  <2>2. CASE CheckCapacity(t) \/ ServeStatus(t)
    BY <1>0, <2>2 DEF CheckCapacity, ServeStatus, Remove
  <2>3. CASE EndCreate(t)
    <3>1. /\ doomed' = doomed
          /\ \/ UNCHANGED sessions
             \/ \E u \in Sessions : \E r :
                  sessions[u].status = "unused" /\ sessions' = [sessions EXCEPT ![u] = r]
      BY <2>3 DEF EndCreate
    <3> QED
      BY <1>0, <3>1
  <2> QED
    BY <1>2, <2>1, <2>2, <2>3 DEF ServeDevice
<1>3. ASSUME NEW u \in Sessions, Pump(u) \/ Activate(u) \/ LoseActivation(u)
      PROVE  sessions'[s].status = "ACTIVE" /\ s \notin doomed'
  BY <1>0, <1>3 DEF Pump, Activate, LoseActivation, Session
<1>4. ASSUME NEW m \in Monitors,
             AskRequests(m) \/ ListRequests(m) \/ Prepare(m) \/ Skip(m)
      PROVE  sessions'[s].status = "ACTIVE" /\ s \notin doomed'
  BY <1>0, <1>4 DEF AskRequests, Decide, ListRequests, Remove, Prepare, Skip
<1>5. ASSUME NEW x \in Syncers, BeginSync(x) \/ ApplySync(x) \/ LoseSync(x)
      PROVE  sessions'[s].status = "ACTIVE" /\ s \notin doomed'
  BY <1>0, <1>5 DEF BeginSync, ApplySync, LoseSync
<1>6. CASE Sweep \/ EndSweep \/ Tick
  BY <1>0, <1>6 DEF Sweep, Decide, EndSweep, Remove, Tick
<1>7. ~Restart
  BY <1>0 DEF Restart
<1> QED
  BY <1>1, <1>2, <1>3, <1>4, <1>5, <1>6, <1>7 DEF Next

\* No sweep, lookup or call of any number of threads, monitors and devices decides to
\* end a session that has recent traffic and is not too old, or ends one without having
\* decided so before; only a restart of the relay does (relay_server.py:
\* cleanup_sessions and its callers).
THEOREM BusyStay == Spec => BusySessionsSurvive
<1>1. TypeOK /\ [Next]_vars =>
        [\A s \in Sessions :
           ( /\ sessions[s].status = "ACTIVE" /\ s \notin doomed /\ restarts' = restarts
             /\ clock <= sessions[s].last + Idle
             /\ clock <= sessions[s].created + Lifetime )
           => sessions'[s].status = "ACTIVE" /\ s \notin doomed']_vars
  BY BusySurvivesStep DEF InUse
<1> QED
  BY <1>1, TypeCorrect, PTL DEF Spec, BusySessionsSurvive

-----------------------------------------------------------------------------
(* The refinement of Rendezvous.  Most steps are Age: sessions that are      *)
(* overdue may be condemned, the condemned may end, and devices learn or     *)
(* forget.                                                                   *)

LEMMA OpenSame == Abstract!Open = Open(sessions) /\ Abstract!Open' = Open(sessions')
BY DEF Abstract!Open, Stage, Open

LEMMA SameCardinality == \A S : Abstract!Cardinality(S) = Cardinality(S)
BY DEF Cardinality, Abstract!Cardinality

\* Sessions end doomed, if they do, and are doomed overdue.
Ends ==
  /\ \A s \in Sessions :
       /\ sessions'[s].dev = sessions[s].dev
       /\ \/ sessions'[s].status = sessions[s].status
          \/ s \in doomed /\ sessions'[s].status = "closed"
  /\ doomed' \subseteq doomed \cup Overdue

\* What d may come to know of an ACTIVE session.
Hears(d) ==
  \/ ToldActive'[d] \in {ToldActive[d], None}
  \/ /\ ToldActive'[d] \in Open(sessions)
     /\ sessions[ToldActive'[d]].dev = d /\ sessions'[ToldActive'[d]].status = "ACTIVE"

LEMMA RemoveEnds ==
  ASSUME TypeOK, sessions' = Close(doomed), doomed' = {}
  PROVE  Ends
BY CloseFacts DEF Ends

LEMMA DecideEnds ==
  ASSUME NEW x, Decide(x)
  PROVE  Ends
<1>1. Stale \subseteq Overdue
  BY DEF Stale, Overdue, Expired, Open
<1> QED
  BY <1>1 DEF Decide, Ends

LEMMA AgeRefines ==
  ASSUME Ends, \A d \in Devices : Hears(d), UNCHANGED <<calls, endpoint, restarts>>
  PROVE  Abstract!Age
<1>1. Owner' = Owner
  BY DEF Ends, Owner
<1>2. \A s \in Sessions : \/ Stage'[s] = Stage[s]
                          \/ s \in doomed /\ Stage'[s] = "closed"
  BY DEF Ends, Stage
<1>2a. doomed' \subseteq doomed \cup Overdue
  BY DEF Ends
<1>3. Overdue' \subseteq Abstract!Open'
  BY OpenSame DEF Overdue
<1>4. ASSUME NEW d \in Devices
      PROVE  \/ ToldActive'[d] \in {ToldActive[d], None}
             \/ /\ ToldActive'[d] \in Abstract!Open /\ Owner[ToldActive'[d]] = d
                /\ Stage'[ToldActive'[d]] = "ACTIVE"
  <2>1. Open(sessions) \subseteq Sessions
    BY DEF Open
  <2> QED
    BY <2>1, OpenSame DEF Hears, Owner, Stage
<1> QED
  BY <1>1, <1>2, <1>2a, <1>3, <1>4 DEF Abstract!Age, Abstract!Tells

\* Steps that leave the sessions as they are, but for the time of a datagram.
LEMMA SameEnds ==
  ASSUME \A s \in Sessions : /\ sessions'[s].dev = sessions[s].dev
                             /\ sessions'[s].status = sessions[s].status,
         doomed' = doomed
  PROVE  Ends
BY DEF Ends

LEMMA SameHears ==
  ASSUME \A d \in Devices : \/ client'[d].status = "none"
                            \/ /\ client'[d].status = client[d].status
                               /\ client'[d].sess = client[d].sess
  PROVE  \A d \in Devices : Hears(d)
BY DEF Hears, ToldActive

LEMMA RefuseHears ==
  ASSUME TypeOK, NEW t \in Threads, Refuse(t)
  PROVE  \A d \in Devices : Hears(d)
BY SameHears DEF Refuse, TypeOK, IdleClient

\* An answer about an open session of the device that has called.
LEMMA AnswerHears ==
  ASSUME TypeOK, Ends, NEW t \in Threads, NEW s \in Open(sessions'),
         sessions'[s].dev = threads[t].dev, Answer(t, s, sessions'[s].status)
  PROVE  \A d \in Devices : Hears(d)
<1> SUFFICES ASSUME NEW d \in Devices
             PROVE  Hears(d)
  OBVIOUS
<1>1. client \in [Devices -> Client]
  BY DEF TypeOK
<1>2. s \in Sessions /\ s \in Open(sessions) /\ sessions[s].dev = threads[t].dev
  BY DEF Open, Ends
<1>3. CASE threads[t].awaited /\ threads[t].dev = d
  <2>1. client'[d].sess = s /\ client'[d].status = sessions'[s].status
    BY <1>1, <1>3 DEF Answer, Client
  <2> QED
    BY <1>2, <1>3, <2>1 DEF Hears, ToldActive
<1>4. CASE ~(threads[t].awaited /\ threads[t].dev = d)
  <2>1. client'[d] = client[d]
    BY <1>1, <1>4 DEF Answer
  <2> QED
    BY <2>1 DEF Hears, ToldActive
<1> QED
  BY <1>3, <1>4

LEMMA DeviceRefines ==
  ASSUME IInv, NEW d \in Devices,
         \/ Ask(d) \/ Poll(d) \/ Connect(d) \/ GiveUp(d) \/ LoseCall(d)
         \/ Disconnect(d) \/ Move(d) \/ SetEnabled(d)
  PROVE  Abstract!Age
<1> USE DEF bridge, relay, device, counts
<1>1. client \in [Devices -> Client]
  BY DEF IInv, TypeOK
<1>2. UNCHANGED <<sessions, doomed, calls, endpoint, restarts>>
  BY DEF Ask, Poll, Connect, GiveUp, LoseCall, Disconnect, Move, SetEnabled
<1>3. \A e \in Devices : \/ client'[e].status = "none"
                         \/ /\ client'[e].status = client[e].status
                            /\ client'[e].sess = client[e].sess
  <2>1. CASE Ask(d) \/ GiveUp(d) \/ LoseCall(d) \/ Disconnect(d)
    <3>1. \E c \in {IdleClient,
                    [IdleClient EXCEPT !.pc = "calling", !.from = address[d]]} :
            client' = [client EXCEPT ![d] = c]
      BY <2>1 DEF Ask, GiveUp, LoseCall, Disconnect
    <3>2. PICK c : c.status = "none" /\ client' = [client EXCEPT ![d] = c]
      BY <3>1 DEF IdleClient
    <3> QED
      BY <1>1, <3>2
  <2>2. CASE Poll(d)
    BY <1>1, <2>2 DEF Poll, Client
  <2>3. CASE Connect(d)
    BY <1>1, <2>3 DEF Connect, Client
  <2>4. CASE Move(d) \/ SetEnabled(d)
    BY <2>4 DEF Move, SetEnabled
  <2> QED
    BY <2>1, <2>2, <2>3, <2>4
<1> QED
  BY <1>2, <1>3, SameEnds, SameHears, AgeRefines

\* create_session books a session where the thread has seen room, for a device of which
\* it has found no session in time.
LEMMA CreateRefines ==
  ASSUME IInv, Owned, NEW t \in Threads, EndCreate(t), sessions' # sessions
  PROVE  Abstract!Next
<1> USE DEF bridge, relay, device, counts
<1> DEFINE d == threads[t].dev
           new == NewSession(d, threads[t].from)
<1>1. /\ threads[t].pc = "cleaned"
      /\ UNCHANGED <<clock, client, doomed, calls, endpoint, restarts>>
      /\ \A u \in Sessions : HasSession(d, u) => Expired(sessions[u])
  BY DEF EndCreate, Found, Refuse
<1>2. PICK s \in Sessions : /\ sessions[s].status = "unused"
                            /\ sessions' = [sessions EXCEPT ![s] = new]
  BY DEF EndCreate
<1>3. d \in Devices /\ sessions \in [Sessions -> Session] /\ clock \in Nat
  BY <1>1 DEF Owned, IInv, TypeOK
<1>4. Cardinality(Abstract!Open) < MaxSessions
  BY <1>1, OpenSame DEF IInv, ServerInv, Room
<1>4a. Abstract!Cardinality(Abstract!Open) < MaxSessions
  BY <1>4, SameCardinality
<1>5. \A u \in Abstract!Open : Owner[u] = d => u \in Overdue
  <2> SUFFICES ASSUME NEW u \in Open(sessions), sessions[u].dev = d
               PROVE  u \in Overdue
    BY OpenSame DEF Owner, Open
  <2>1. Expired(sessions[u])
    BY <1>1 DEF HasSession, Open
  <2> QED
    BY <2>1 DEF Overdue, Expired
<1>6. Stage' = [Stage EXCEPT ![s] = "WAITING_BRIDGE"] /\ Owner' = [Owner EXCEPT ![s] = d]
  BY <1>2, <1>3 DEF Stage, Owner, NewSession
<1>7. Overdue' = Overdue
  <2>1. s \notin Overdue
    BY <1>2 DEF Overdue, Open
  <2>2. s \notin Overdue'
    BY <1>1, <1>2, <1>3, ConstantsAssumption DEF Overdue, NewSession
  <2>3. \A u \in Sessions \ {s} : u \in Overdue' <=> u \in Overdue
    BY <1>1, <1>2, <1>3 DEF Overdue, Open
  <2> QED
    BY <2>1, <2>2, <2>3 DEF Overdue, Open
<1>8. ToldActive' = ToldActive
  BY <1>1 DEF ToldActive
<1>9. Stage[s] = "unused"
  BY <1>2 DEF Stage
<1>10. Abstract!Book(s, d)
  BY <1>1, <1>4a, <1>5, <1>6, <1>7, <1>8, <1>9 DEF Abstract!Book
<1> QED
  BY <1>2, <1>3, <1>10 DEF Abstract!Next

LEMMA ServeRefines ==
  ASSUME IInv, Owned, NEW t \in Threads, ServeDevice(t)
  PROVE  Abstract!Next
<1> USE DEF bridge, relay, device, counts
<1>0. TypeOK /\ UNCHANGED <<calls, endpoint, restarts>>
  BY DEF IInv, ServeDevice, Authenticate, BeginCall, Decide, CheckCapacity, EndCreate,
         Reply, ServeStatus
<1> SUFFICES ASSUME sessions' = sessions \/ ~EndCreate(t)
             PROVE  Ends /\ \A d \in Devices : Hears(d)
  BY <1>0, CreateRefines, AgeRefines DEF Abstract!Next
<1>1. CASE Authenticate(t)
  BY <1>0, <1>1, SameEnds, SameHears, RefuseHears DEF Authenticate
<1>1a. CASE BeginCall(t)
  BY <1>1a, DecideEnds, SameHears DEF BeginCall, Decide
<1>2. CASE CheckCapacity(t)
  BY <1>0, <1>2, RemoveEnds, SameHears, RefuseHears DEF CheckCapacity, Remove
<1>3. CASE EndCreate(t) /\ sessions' = sessions
  <2>1. (Refuse(t) \/ client' = client) /\ doomed' = doomed
    BY <1>3 DEF EndCreate, Found
  <2> QED
    BY <1>0, <1>3, <2>1, SameEnds, SameHears, RefuseHears
<1>4. CASE Reply(t)
  <2> DEFINE s == threads[t].sess
  <2>1. sessions' = sessions /\ Ends
    BY <1>4, SameEnds DEF Reply
  <2>2. CASE s \in Open(sessions)
    <3>1. sessions'[s].dev = threads[t].dev
      BY <1>4, <2>1 DEF Reply, IInv, TruthInv
    <3>2. Answer(t, s, sessions'[s].status)
      BY <1>4, <2>1, <2>2 DEF Reply
    <3> QED
      BY <1>0, <2>1, <2>2, <3>1, <3>2, AnswerHears
  <2>3. CASE s \notin Open(sessions)
    BY <1>0, <1>4, <2>1, <2>3, RefuseHears DEF Reply
  <2> QED
    BY <2>1, <2>2, <2>3
<1>5. CASE ServeStatus(t)
  <2> DEFINE s == threads[t].sess
  <2>1. Ends
    BY <1>0, <1>5, RemoveEnds DEF ServeStatus, Remove
  <2>2. CASE s \in Open(sessions') /\ sessions'[s].dev = threads[t].dev
    <3>1. Answer(t, s, sessions'[s].status)
      BY <1>5, <2>2 DEF ServeStatus
    <3> QED
      BY <1>0, <2>1, <2>2, <3>1, AnswerHears
  <2>3. CASE ~(s \in Open(sessions') /\ sessions'[s].dev = threads[t].dev)
    BY <1>0, <1>5, <2>1, <2>3, RefuseHears DEF ServeStatus
  <2> QED
    BY <2>1, <2>2, <2>3
<1> QED
  BY <1>1, <1>1a, <1>2, <1>3, <1>4, <1>5 DEF ServeDevice

LEMMA ActivateRefines ==
  ASSUME IInv, NEW s \in Sessions, Activate(s)
  PROVE  Abstract!Activate(s) \/ Abstract!Miss(s)
<1> USE DEF bridge, relay, device, counts
<1>1. /\ s \in calls /\ calls' = calls \ {s}
      /\ UNCHANGED <<clock, client, doomed, endpoint, restarts>>
      /\ sessions \in [Sessions -> Session]
  BY DEF Activate, IInv, TypeOK
<1>2. ToldActive' = ToldActive
  BY <1>1 DEF ToldActive
<1>3. CASE s \in Open(sessions)
  <2>1. sessions' = [sessions EXCEPT ![s].status = "ACTIVE"]
    BY <1>3 DEF Activate
  <2>2. Stage' = [Stage EXCEPT ![s] = "ACTIVE"] /\ Owner' = Owner
    BY <1>1, <2>1 DEF Stage, Owner, Session
  <2>3. Open(sessions') = Open(sessions)
    BY <1>1, <1>3, <2>1 DEF Open, Session
  <2>4. Overdue' \subseteq Abstract!Open
    BY <2>3, OpenSame DEF Overdue
  <2> QED
    BY <1>1, <1>2, <1>3, <2>2, <2>4, OpenSame DEF Abstract!Activate
<1>4. CASE s \notin Open(sessions)
  <2>1. sessions' = sessions
    BY <1>4 DEF Activate
  <2>2. Stage' = Stage /\ Owner' = Owner /\ Overdue' = Overdue
    BY <1>1, <2>1 DEF Stage, Owner, Overdue
  <2> QED
    BY <1>1, <1>2, <2>2 DEF Abstract!Miss
<1> QED
  BY <1>3, <1>4

\* Steps that leave sessions, clock and clients alone.
LEMMA StillSessions ==
  ASSUME UNCHANGED <<clock, sessions, client, restarts>>
  PROVE  UNCHANGED <<Stage, Owner, Overdue, ToldActive>>
BY DEF Stage, Owner, Overdue, ToldActive

LEMMA BridgeRefines ==
  ASSUME IInv,
         \/ \E m \in Monitors :
              AskRequests(m) \/ ListRequests(m) \/ Prepare(m) \/ Skip(m)
         \/ \E x \in Syncers : BeginSync(x) \/ ApplySync(x) \/ LoseSync(x)
         \/ \E s \in Sessions : LoseActivation(s)
         \/ \E d \in Devices : LeaveRelay(d)
  PROVE  Abstract!Next
<1> USE DEF bridge, relay, device, counts
<1>0. TypeOK
  BY DEF IInv
<1>1. ASSUME NEW m \in Monitors, Prepare(m)
      PROVE  Abstract!Next
  <2>1. PICK s \in todo[m] : /\ sessions[s].dev \in active
                             /\ endpoint' = [endpoint EXCEPT ![sessions[s].dev] = s]
                             /\ calls' = calls \cup {s}
    BY <1>1 DEF Prepare
  <2>2. s \in Sessions /\ sessions[s].status # "unused"
    BY <1>0, <2>1 DEF TypeOK, IInv, ShadowInv, CreatedInv, Listed
  <2>3. Abstract!Point(s)
    BY <1>1, <2>1, <2>2, StillSessions DEF Prepare, Abstract!Point, Stage, Owner
  <2> QED
    BY <2>2, <2>3 DEF Abstract!Next
<1>2. ASSUME NEW m \in Monitors, AskRequests(m) \/ ListRequests(m)
      PROVE  Abstract!Age
  <2>1. Ends
    BY <1>0, <1>2, DecideEnds, RemoveEnds DEF AskRequests, ListRequests, Remove
  <2> QED
    BY <1>2, <2>1, SameHears, AgeRefines DEF AskRequests, Decide, ListRequests
<1>3. ASSUME UNCHANGED <<sessions, doomed, client, calls, endpoint, restarts>>
      PROVE  Abstract!Age
  BY <1>3, SameEnds, SameHears, AgeRefines
<1>4. ASSUME NEW s \in Sessions, LoseActivation(s)
      PROVE  Abstract!Miss(s)
  BY <1>4, StillSessions DEF LoseActivation, Abstract!Miss
<1>5. ASSUME NEW d \in Devices, LeaveRelay(d)
      PROVE  Abstract!Leave(d)
  BY <1>5, StillSessions DEF LeaveRelay, Abstract!Leave
<1> QED
  BY <1>1, <1>2, <1>3, <1>4, <1>5
     DEF Abstract!Next, Skip, BeginSync, ApplySync, LoseSync

LEMMA RestartRefines ==
  ASSUME IInv, Restart
  PROVE  Abstract!Restart
<1> USE DEF bridge, relay, device, counts
<1>0. sessions \in [Sessions -> Session] /\ client \in [Devices -> Client]
  BY DEF IInv, TypeOK
<1>1. \A s \in Sessions :
        /\ sessions'[s].dev = sessions[s].dev
        /\ sessions'[s].status = IF s \in Open(sessions) THEN "closed" ELSE sessions[s].status
  BY <1>0 DEF Restart, Close, Open, Session
<1>2. Stage' = [s \in Sessions |-> IF s \in Abstract!Open THEN "closed" ELSE Stage[s]]
  BY <1>1, OpenSame DEF Stage
<1>3. Owner' = Owner
  BY <1>1 DEF Owner
<1>4. Overdue' = {}
  BY <1>1 DEF Overdue, Open
<1>5. \A d \in Devices : ToldActive'[d] \in {ToldActive[d], None}
  BY <1>0 DEF Restart, ToldActive, IdleClient
<1> QED
  BY <1>2, <1>3, <1>4, <1>5 DEF Restart, Abstract!Restart

LEMMA RefineInit == Init => Abstract!Init
<1> SUFFICES ASSUME Init
             PROVE  Abstract!Init
  OBVIOUS
<1>1. Overdue = {}
  BY DEF Init, Overdue, Open, NoSession
<1> QED
  BY <1>1 DEF Init, Abstract!Init, Stage, Owner, ToldActive, NoSession, IdleClient

LEMMA NextRefines == IInv /\ Owned /\ [Next]_vars => [Abstract!Next]_(Abstract!meeting)
<1> SUFFICES ASSUME IInv, Owned, Next \/ UNCHANGED vars
             PROVE  Abstract!Next \/ UNCHANGED Abstract!meeting
  OBVIOUS
<1> USE DEF bridge, relay, device, counts
<1>1. ASSUME NEW s \in Sessions, Pump(s)
      PROVE  Abstract!Age
  <2>1. \A u \in Sessions : /\ sessions'[u].dev = sessions[u].dev
                            /\ sessions'[u].status = sessions[u].status
    BY <1>1 DEF Pump, IInv, TypeOK, Session
  <2> QED
    BY <1>1, <2>1, SameEnds, SameHears, AgeRefines DEF Pump
<1>2. CASE Sweep \/ EndSweep
  <2>1. Ends
    BY <1>2, DecideEnds, RemoveEnds DEF Sweep, EndSweep, Remove, IInv
  <2> QED
    BY <1>2, <2>1, SameHears, AgeRefines DEF Sweep, Decide, EndSweep, Abstract!Next
<1>3. CASE Tick \/ UNCHANGED vars
  BY <1>3, SameEnds, SameHears, AgeRefines DEF Tick, vars, Abstract!Next
<1> QED
  BY <1>1, <1>2, <1>3, DeviceRefines, ServeRefines, ActivateRefines, BridgeRefines,
     RestartRefines DEF Next, Abstract!Next

\* The relay keeps the rendezvous that Rendezvous states, for any number of devices,
\* sessions, threads, monitors and syncers, any capacity and any lifetimes
\* (relay_server.py: create_session, activate, cleanup_sessions; relay_client.py).
THEOREM Refinement == Spec => ImplementsRendezvous
BY RefineInit, NextRefines, Invariance, Ownership, PTL
   DEF Spec, ImplementsRendezvous, Abstract!Spec
===============================================================================
