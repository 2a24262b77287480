-------------------------------- MODULE Relay --------------------------------
(***************************************************************************)
(* The relay fallback: relay_server.py (device registry and UDP sessions), *)
(* relay_client.py (the Bridge's monitor and its registry sync) and        *)
(* RelayFallbackClient.kt (a device asking for a session and polling it).  *)
(* The handlers that touch _sessions hold _sessions_lock; the UDP pump     *)
(* threads do not, and device calls are authenticated before it is taken.  *)
(* Datagrams are abstracted to their effect on a session's last_activity.  *)
(***************************************************************************)
EXTENDS Naturals, FiniteSets

CONSTANTS
  Devices, Sessions, Addresses,
  Threads,       \* request threads of the relay's HTTP server
  Monitors,      \* processes running the Bridge's monitor cycle
  Syncers,       \* processes sending the device registry to the relay
  Main,          \* the loop of serve()
  None,          \* no device, session, address or holder
  MaxSessions,   \* MAX_SESSIONS
  Idle,          \* SESSION_IDLE_SECONDS
  Waiting,       \* the 120 seconds of WAITING_BRIDGE
  Lifetime,      \* SESSION_MAX_SECONDS
  PollAttempts,  \* pollAttempts
  MaxClock, MaxAsks,
  MaxUpsets      \* bounds of a run; edits, restarts and moves together

ASSUME ConstantsAssumption ==
  /\ None \notin Devices \cup Sessions \cup Addresses \cup Threads \cup Monitors \cup {Main}
  /\ Main \notin Threads \cup Monitors /\ Threads \cap Monitors = {}
  /\ IsFiniteSet(Sessions)
  /\ {MaxSessions, Idle, Waiting, Lifetime, PollAttempts, MaxClock, MaxAsks, MaxUpsets} \subseteq Nat

VARIABLES
  clock,
  active,      \* devices.json on the Bridge: the active devices
  syncs,       \* registry payloads on their way to the relay
  known,       \* devices.json on the relay: the enabled devices
  sessions,    \* the sessions ever created; _sessions holds the open ones
  lock,        \* who holds _sessions_lock from one step to the next, or None
  doomed,      \* the sessions that the cleanup in progress has found expired
  threads,     \* the calls the relay's HTTP threads are serving
  todo,        \* the requests each monitor has still to activate
  calls,       \* activations on their way to the relay
  endpoint,    \* the relay session a device's WireGuard peer points at
  client,      \* each device's fallback client
  address,     \* the IPv4 address a device is seen at
  skewed,      \* history: a session expired between a cleanup and its lookup
  asks, edits, restarts, moves   \* bounds

bridge == <<active, syncs, todo, calls, endpoint>>
relay  == <<known, sessions, lock, doomed>>
device == <<client, address>>
counts == <<asks, edits, restarts, moves>>
vars   == <<clock, bridge, relay, threads, device, skewed, counts>>

-----------------------------------------------------------------------------
(* Sessions.                                                                *)

Session == [status: {"unused", "WAITING_BRIDGE", "ACTIVE", "closed"},
            dev: Devices \cup {None}, created: Nat, last: Nat,
            from: Addresses \cup {None}]
Thread  == [pc: {"free", "received", "authenticated", "cleaned", "answering"},
            call: {"request", "status"}, dev: Devices \cup {None},
            sess: Sessions \cup {None}, from: Addresses \cup {None},
            awaited: BOOLEAN]
Client  == [pc: {"idle", "calling", "polling", "connected"},
            sess: Sessions \cup {None}, from: Addresses \cup {None},
            status: {"none", "WAITING_BRIDGE", "ACTIVE"}, polls: 0 .. PollAttempts]

NoSession == [status |-> "unused", dev |-> None, created |-> 0, last |-> 0,
              from |-> None]
FreeThread == [pc |-> "free", call |-> "request", dev |-> None, sess |-> None,
               from |-> None, awaited |-> FALSE]
IdleClient == [pc |-> "idle", sess |-> None, from |-> None, status |-> "none",
               polls |-> 0]

\* Mutant: idleness measured from the creation of the session.
ExpiredByAge(r) ==
  \/ clock > r.created + Lifetime
  \/ clock > r.created + Idle /\ r.status = "ACTIVE"
  \/ clock > r.created + Waiting /\ r.status = "WAITING_BRIDGE"

Expired(r) ==
  \/ clock > r.created + Lifetime
  \/ clock > r.last + Idle /\ r.status = "ACTIVE"
  \/ clock > r.created + Waiting /\ r.status = "WAITING_BRIDGE"

Open(table) == {s \in Sessions : table[s].status \in {"WAITING_BRIDGE", "ACTIVE"}}

\* Mutant: sessions the Bridge never activated are not cleaned up.
StaleActive == {s \in Open(sessions) : sessions[s].status = "ACTIVE" /\ Expired(sessions[s])}

\* What cleanup_sessions finds expired.
Stale == {s \in Open(sessions) : Expired(sessions[s])}

\* What it then removes from _sessions, stopping their threads and sockets.
Close(stale) ==
  [s \in Sessions |-> IF s \in Open(sessions) \cap stale
                      THEN [sessions[s] EXCEPT !.status = "closed"] ELSE sessions[s]]

\* cleanup_sessions, under _sessions_lock, in two steps: x decides which sessions
\* are expired, and then removes those, whatever the pumps did in between.  One that
\* finds nothing expired changes nothing, and is one step with what follows.
Decide(x) ==
  /\ lock = None /\ Stale # {}
  /\ lock' = x /\ doomed' = Stale
  /\ UNCHANGED <<clock, bridge, known, sessions, threads, device, skewed, counts>>

Remove(x) ==
  /\ lock = x \/ (lock = None /\ Stale = {})
  /\ sessions' = Close(doomed) /\ doomed' = {}

-----------------------------------------------------------------------------
(* The device: RelayFallbackClient.requestAndWait.                          *)

\* A call is taken by a free thread of the server.
Send(d, call, s, from) ==
  \E t \in Threads :
    /\ threads[t].pc = "free"
    /\ threads' = [threads EXCEPT ![t] =
         [pc |-> "received", call |-> call, dev |-> d, sess |-> s,
          from |-> from, awaited |-> TRUE]]

Ask(d) ==
  /\ client[d].pc = "idle" /\ asks < MaxAsks
  /\ Send(d, "request", None, address[d])
  /\ client' = [client EXCEPT ![d] =
       [IdleClient EXCEPT !.pc = "calling", !.from = address[d]]]
  /\ asks' = asks + 1
  /\ UNCHANGED <<clock, bridge, relay, address, skewed, edits,
                 restarts, moves>>

\* Mutant: the number of polls is not limited.
PollForever(d) ==
  /\ client[d].pc = "polling" /\ client[d].status # "ACTIVE"
  /\ Send(d, "status", client[d].sess, address[d])
  /\ client' = [client EXCEPT ![d].pc = "calling", ![d].polls = @ + 1]
  /\ UNCHANGED <<clock, bridge, relay, address, skewed, counts>>

Poll(d) ==
  /\ client[d].pc = "polling" /\ client[d].status # "ACTIVE"
  /\ client[d].polls < PollAttempts
  /\ Send(d, "status", client[d].sess, address[d])
  /\ client' = [client EXCEPT ![d].pc = "calling", ![d].polls = @ + 1]
  /\ UNCHANGED <<clock, bridge, relay, address, skewed, counts>>

\* The loop looks at the status before each poll, never after the last one.
Connect(d) ==
  /\ client[d].pc = "polling" /\ client[d].status = "ACTIVE"
  /\ client[d].polls < PollAttempts
  /\ client' = [client EXCEPT ![d].pc = "connected"]
  /\ UNCHANGED <<clock, bridge, relay, threads, address, skewed, counts>>

\* "Relay activation timeout".
GiveUp(d) ==
  /\ client[d].pc = "polling" /\ client[d].polls = PollAttempts
  /\ client' = [client EXCEPT ![d] = IdleClient]
  /\ UNCHANGED <<clock, bridge, relay, threads, address, skewed, counts>>

\* The connection fails or times out; the server may still serve the call.
LoseCall(d) ==
  /\ client[d].pc = "calling"
  /\ client' = [client EXCEPT ![d] = IdleClient]
  /\ threads' = [t \in Threads |->
       IF threads[t].dev = d THEN [threads[t] EXCEPT !.awaited = FALSE]
                             ELSE threads[t]]
  /\ UNCHANGED <<clock, bridge, relay, address, skewed, counts>>

Disconnect(d) ==
  /\ client[d].pc = "connected"
  /\ client' = [client EXCEPT ![d] = IdleClient]
  /\ UNCHANGED <<clock, bridge, relay, threads, address, skewed, counts>>

\* The device changes network.
Move(d) ==
  /\ edits + restarts + moves < MaxUpsets
  /\ moves' = moves + 1
  /\ \E a \in Addresses \ {address[d]} : address' = [address EXCEPT ![d] = a]
  /\ UNCHANGED <<clock, bridge, relay, threads, client, skewed, asks,
                 edits, restarts>>

-----------------------------------------------------------------------------
(* The relay server's handlers for devices.                                 *)

\* The thread ends with an error, which the client turns into a failure.
Refuse(t) ==
  /\ threads' = [threads EXCEPT ![t] = FreeThread]
  /\ client' = IF threads[t].awaited
               THEN [client EXCEPT ![threads[t].dev] = IdleClient] ELSE client

\* The thread answers with the session's id, endpoints and status.
Answer(t, s, status) ==
  /\ threads' = [threads EXCEPT ![t] = FreeThread]
  /\ client' = IF threads[t].awaited
               THEN [client EXCEPT ![threads[t].dev].pc = "polling",
                                   ![threads[t].dev].sess = s,
                                   ![threads[t].dev].status = status]
               ELSE client

\* authenticate_device, under _registry_lock only.
Authenticate(t) ==
  /\ threads[t].pc = "received"
  /\ \/ /\ threads[t].dev \in known
        /\ threads' = [threads EXCEPT ![t].pc = "authenticated"]
        /\ UNCHANGED client
     \/ threads[t].dev \notin known /\ Refuse(t)
  /\ UNCHANGED <<clock, bridge, relay, address, skewed, counts>>

\* The call waits for _sessions_lock; each of the two begins with the cleanup.
BeginCall(t) == threads[t].pc = "authenticated" /\ Decide(t)

\* Mutant: one session too many.
CheckCapacityOver(t) ==
  /\ threads[t].pc = "authenticated" /\ threads[t].call = "request" /\ Remove(t)
  /\ IF Cardinality(Open(sessions')) > MaxSessions
     THEN Refuse(t) /\ lock' = None
     ELSE /\ threads' = [threads EXCEPT ![t].pc = "cleaned"] /\ lock' = t
          /\ UNCHANGED client
  /\ UNCHANGED <<clock, bridge, known, address, skewed, counts>>

\* create_session: the end of the cleanup and the capacity check, which a device
\* that already has a session does not escape.
CheckCapacity(t) ==
  /\ threads[t].pc = "authenticated" /\ threads[t].call = "request" /\ Remove(t)
  /\ IF Cardinality(Open(sessions')) >= MaxSessions
     THEN Refuse(t) /\ lock' = None
     ELSE /\ threads' = [threads EXCEPT ![t].pc = "cleaned"] /\ lock' = t
          /\ UNCHANGED client
  /\ UNCHANGED <<clock, bridge, known, address, skewed, counts>>

\* Mutant: any open session will do.
HasAnySession(d, s) == s \in Open(sessions) /\ d \in Devices

HasSession(d, s) == s \in Open(sessions) /\ sessions[s].dev = d

NewSession(d, from) ==
  [status |-> "WAITING_BRIDGE", dev |-> d, created |-> clock, last |-> clock,
   from |-> from]

\* create_session returns a session and the lock is released.
Found(t, s) ==
  /\ threads' = [threads EXCEPT ![t].pc = "answering", ![t].sess = s]
  /\ UNCHANGED client

\* Mutant: only a session the Bridge has activated is reused.
EndCreateTwice(t) ==
  /\ threads[t].pc = "cleaned"
  /\ LET d == threads[t].dev
         existing == {s \in Sessions : /\ HasSession(d, s) /\ ~Expired(sessions[s])
                                       /\ sessions[s].status = "ACTIVE"}
     IN \/ /\ \E s \in existing : Found(t, s)
           /\ UNCHANGED <<sessions, skewed>>
        \/ /\ existing = {}
           /\ \E s \in Sessions :
                /\ sessions[s].status = "unused"
                /\ sessions' = [sessions EXCEPT ![s] = NewSession(d, threads[t].from)]
                /\ Found(t, s)
           /\ UNCHANGED skewed
  /\ lock' = None
  /\ UNCHANGED <<clock, bridge, known, doomed, address, counts>>

\* create_session: the lookup, which reads the clock again, and the creation.
\* Binding the two UDP ports may fail.
EndCreate(t) ==
  /\ threads[t].pc = "cleaned"
  /\ LET d == threads[t].dev
         existing == {s \in Sessions : HasSession(d, s) /\ ~Expired(sessions[s])}
     IN \/ /\ \E s \in existing : Found(t, s)
           /\ UNCHANGED <<sessions, skewed>>
        \/ /\ existing = {}
           /\ \E s \in Sessions :
                /\ sessions[s].status = "unused"
                /\ sessions' = [sessions EXCEPT ![s] = NewSession(d, threads[t].from)]
                /\ Found(t, s)
           /\ skewed' = (skewed \/ \E s \in Sessions : HasSession(d, s))
        \/ existing = {} /\ Refuse(t) /\ UNCHANGED <<sessions, skewed>>
  /\ lock' = None
  /\ UNCHANGED <<clock, bridge, known, doomed, address, counts>>

\* The answer is built from the session without the lock: its sockets may be
\* closed by then, which ends the call.
Reply(t) ==
  /\ threads[t].pc = "answering"
  /\ LET s == threads[t].sess IN
     IF s \in Open(sessions) THEN Answer(t, s, sessions[s].status) ELSE Refuse(t)
  /\ UNCHANGED <<clock, bridge, relay, address, skewed, counts>>

\* /v1/device/status.
ServeStatus(t) ==
  /\ threads[t].pc = "authenticated" /\ threads[t].call = "status" /\ Remove(t)
  /\ lock' = None
  /\ LET s == threads[t].sess IN
     IF s \in Open(sessions') /\ sessions'[s].dev = threads[t].dev
     THEN Answer(t, s, sessions'[s].status)
     ELSE Refuse(t)
  /\ UNCHANGED <<clock, bridge, known, address, skewed, counts>>

\* The loop of serve(), and relay_status().
Sweep == Decide(Main)

EndSweep ==
  /\ lock = Main /\ Remove(Main) /\ lock' = None
  /\ UNCHANGED <<clock, bridge, known, threads, device, skewed, counts>>

\* An admitted datagram on one of the two ports: from the Bridge, whose
\* WireGuard peer points at the session, or from the client it was made for.
Pump(s) ==
  /\ s \in Open(sessions)
  /\ \/ endpoint[sessions[s].dev] = s
     \/ /\ client[sessions[s].dev].pc = "connected"
        /\ client[sessions[s].dev].sess = s
        /\ address[sessions[s].dev] = sessions[s].from
  /\ sessions' = [sessions EXCEPT ![s].last = clock]
  /\ UNCHANGED <<clock, bridge, known, lock, doomed, threads, device, skewed, counts>>

\* The relay restarts: _sessions is lost, the device registry is on disk.
Restart ==
  /\ edits + restarts + moves < MaxUpsets
  /\ restarts' = restarts + 1
  /\ sessions' = Close(Sessions) /\ lock' = None /\ doomed' = {}
  /\ threads' = [t \in Threads |-> FreeThread]
  /\ client' = [d \in Devices |-> IF client[d].pc = "calling" THEN IdleClient
                                                               ELSE client[d]]
  /\ UNCHANGED <<clock, bridge, known, address, skewed, asks, edits, moves>>

-----------------------------------------------------------------------------
(* The Bridge: the monitor cycle and the registry sync.                     *)

\* relay_requests: the relay cleans up and lists its WAITING_BRIDGE sessions.
AskRequests(m) == todo[m] = {} /\ Decide(m)

ListRequests(m) ==
  /\ todo[m] = {} /\ Remove(m) /\ lock' = None
  /\ todo' = [todo EXCEPT ![m] =
       {s \in Sessions : sessions'[s].status = "WAITING_BRIDGE"}]
  /\ UNCHANGED <<clock, active, syncs, calls, endpoint, known, threads, device,
                 skewed, counts>>

\* Mutant: a failure of "wg set" is not noticed.
PrepareUnchecked(m) ==
  /\ \E s \in todo[m] :
       /\ sessions[s].dev \in active
       /\ endpoint' \in {endpoint, [endpoint EXCEPT ![sessions[s].dev] = s]}
       /\ calls' = calls \cup {s}
       /\ todo' = [todo EXCEPT ![m] = @ \ {s}]
  /\ UNCHANGED <<clock, active, syncs, relay, threads, device, skewed,
                 counts>>

\* activate_request up to the call of the relay.  The order of the list is
\* abstracted away.
Prepare(m) ==
  /\ \E s \in todo[m] :
       /\ sessions[s].dev \in active
       /\ endpoint' = [endpoint EXCEPT ![sessions[s].dev] = s]
       /\ calls' = calls \cup {s}
       /\ todo' = [todo EXCEPT ![m] = @ \ {s}]
  /\ UNCHANGED <<clock, active, syncs, relay, threads, device, skewed,
                 counts>>

\* activate_request raises before it: inactive device, or "wg set" fails; or
\* the monitor is restarted.
Skip(m) ==
  /\ \E s \in todo[m] : todo' = [todo EXCEPT ![m] = @ \ {s}]
  /\ UNCHANGED <<clock, active, syncs, calls, endpoint, relay, threads,
                 device, skewed, counts>>

\* /v1/admin/activate: a session still in _sessions becomes ACTIVE, whether or
\* not it has expired; the idle time goes on from the last datagram.
Activate(s) ==
  /\ s \in calls /\ lock = None
  /\ calls' = calls \ {s}
  /\ sessions' = IF s \in Open(sessions)
                 THEN [sessions EXCEPT ![s].status = "ACTIVE"] ELSE sessions
  /\ UNCHANGED <<clock, active, syncs, todo, endpoint, known, lock, doomed, threads,
                 device, skewed, counts>>

\* The call never reaches the relay: the peer keeps the relay endpoint.
LoseActivation(s) ==
  /\ s \in calls
  /\ calls' = calls \ {s}
  /\ UNCHANGED <<clock, active, syncs, todo, endpoint, relay, threads,
                 device, skewed, counts>>

\* WireGuard hears the device from elsewhere, or the interface is reloaded.
LeaveRelay(d) ==
  /\ endpoint[d] # None
  /\ endpoint' = [endpoint EXCEPT ![d] = None]
  /\ UNCHANGED <<clock, active, syncs, todo, calls, relay, threads,
                 device, skewed, counts>>

\* set_device_enabled.
SetEnabled(d) ==
  /\ edits + restarts + moves < MaxUpsets
  /\ edits' = edits + 1
  /\ active' = IF d \in active THEN active \ {d} ELSE active \cup {d}
  /\ UNCHANGED <<clock, syncs, todo, calls, endpoint, relay, threads,
                 device, skewed, asks, restarts, moves>>

\* sync_relay_devices: the payload is read from devices.json and sent.
NoSync == [sent |-> FALSE, devices |-> {}]

BeginSync(x) ==
  /\ ~syncs[x].sent
  /\ syncs' = [syncs EXCEPT ![x] = [sent |-> TRUE, devices |-> active]]
  /\ UNCHANGED <<clock, active, todo, calls, endpoint, relay, threads,
                 device, skewed, counts>>

\* sync_devices on the relay replaces its registry by the payload.
ApplySync(x) ==
  /\ syncs[x].sent
  /\ known' = syncs[x].devices
  /\ syncs' = [syncs EXCEPT ![x] = NoSync]
  /\ UNCHANGED <<clock, active, todo, calls, endpoint, sessions, lock, doomed,
                 threads, device, skewed, counts>>

LoseSync(x) ==
  /\ syncs[x].sent
  /\ syncs' = [syncs EXCEPT ![x] = NoSync]
  /\ UNCHANGED <<clock, active, todo, calls, endpoint, relay, threads,
                 device, skewed, counts>>

-----------------------------------------------------------------------------
Tick ==
  /\ clock < MaxClock
  /\ clock' = clock + 1
  /\ UNCHANGED <<bridge, relay, threads, device, skewed, counts>>

Init ==
  /\ clock = 0
  /\ active = Devices /\ known = Devices
  /\ syncs = [x \in Syncers |-> NoSync]
  /\ sessions = [s \in Sessions |-> NoSession]
  /\ lock = None /\ doomed = {}
  /\ threads = [t \in Threads |-> FreeThread]
  /\ todo = [m \in Monitors |-> {}]
  /\ calls = {}
  /\ endpoint = [d \in Devices |-> None]
  /\ client = [d \in Devices |-> IdleClient]
  /\ address \in [Devices -> Addresses]
  /\ skewed = FALSE
  /\ asks = 0 /\ edits = 0 /\ restarts = 0 /\ moves = 0

ServeDevice(t) ==
  \/ Authenticate(t) \/ BeginCall(t) \/ CheckCapacity(t) \/ EndCreate(t)
  \/ Reply(t) \/ ServeStatus(t)

Next ==
  \/ \E d \in Devices :
       \/ Ask(d) \/ Poll(d) \/ Connect(d) \/ GiveUp(d) \/ LoseCall(d)
       \/ Disconnect(d) \/ Move(d) \/ LeaveRelay(d) \/ SetEnabled(d)
  \/ \E t \in Threads : ServeDevice(t)
  \/ \E s \in Sessions : Pump(s) \/ Activate(s) \/ LoseActivation(s)
  \/ \E m \in Monitors :
       AskRequests(m) \/ ListRequests(m) \/ Prepare(m) \/ Skip(m)
  \/ \E x \in Syncers : BeginSync(x) \/ ApplySync(x) \/ LoseSync(x)
  \/ Sweep \/ EndSweep \/ Restart \/ Tick

\* The threads of the relay run, those that serve a monitor's call too, and its main
\* loop sweeps every five seconds; the devices, the Bridge and the clock owe nothing.
\* The lock passes from one holder to the next, so the sweep needs strong fairness.
Fairness ==
  /\ SF_vars(Sweep) /\ WF_vars(EndSweep)
  /\ \A t \in Threads : WF_vars(ServeDevice(t))
  /\ \A m \in Monitors : WF_vars(lock = m /\ ListRequests(m))

Spec == Init /\ [][Next]_vars
FairSpec == Spec /\ Fairness

-----------------------------------------------------------------------------
(* Properties.                                                              *)

\* Every variable holds a value of its type.
TypeOK ==
  /\ clock \in Nat
  /\ active \in SUBSET Devices /\ known \in SUBSET Devices
  /\ syncs \in [Syncers -> [sent: BOOLEAN, devices: SUBSET Devices]]
  /\ sessions \in [Sessions -> Session]
  /\ lock \in Threads \cup Monitors \cup {Main, None} /\ doomed \in SUBSET Sessions
  /\ threads \in [Threads -> Thread]
  /\ todo \in [Monitors -> SUBSET Sessions] /\ calls \in SUBSET Sessions
  /\ endpoint \in [Devices -> Sessions \cup {None}]
  /\ client \in [Devices -> Client]
  /\ address \in [Devices -> Addresses]
  /\ skewed \in BOOLEAN
  /\ asks \in Nat /\ edits \in Nat /\ restarts \in Nat /\ moves \in Nat

\* The relay never holds more open sessions, each with two UDP ports and two
\* threads, than MAX_SESSIONS, whatever the interleaving of the callers.
WithinCapacity == Cardinality(Open(sessions)) <= MaxSessions

\* A device never has two open sessions (the lookup of create_session), unless
\* one expired between the cleanup and the lookup of the same call: it may be
\* revived by a late datagram or activation.
OneSessionPerDevice ==
  ~skewed =>
    \A s1, s2 \in Open(sessions) : sessions[s1].dev = sessions[s2].dev => s1 = s2

OneMonitor == \E m \in Monitors : Monitors = {m}

\* When one monitor runs, an ACTIVE session is never shadowed: the Bridge's peer
\* does not point at another session of the relay, whatever calls were delayed
\* and however old the monitor's list of requests is.
ActiveNotShadowed ==
  (~skewed /\ OneMonitor) =>
    \A s \in Sessions :
      sessions[s].status = "ACTIVE" => endpoint[sessions[s].dev] \in {s, None}

\* A device is told that a session is ACTIVE only if it is its own and the
\* Bridge activated it.
ToldTheTruth ==
  \A d \in Devices :
    client[d].sess # None =>
      /\ sessions[client[d].sess].dev = d
      /\ client[d].status = "ACTIVE" =>
           sessions[client[d].sess].status \in {"ACTIVE", "closed"}

\* No cleanup finds an ACTIVE session expired that had recent traffic within its
\* lifetime, and no other is ever closed, except by a restart of the relay.  Traffic
\* that comes after the decision does not save the session.
BusySessionsSurvive ==
  [][\A s \in Sessions :
       ( /\ sessions[s].status = "ACTIVE" /\ s \notin doomed /\ restarts' = restarts
         /\ clock <= sessions[s].last + Idle
         /\ clock <= sessions[s].created + Lifetime )
       => sessions'[s].status = "ACTIVE" /\ s \notin doomed']_vars

\* A session that has expired, activated or not, does not keep its ports: it is
\* closed unless a datagram or the Bridge's activation saves it.
ExpiredIsReclaimed ==
  \A s \in Sessions : (s \in Open(sessions) /\ Expired(sessions[s]))
                        ~> ~(s \in Open(sessions) /\ Expired(sessions[s]))

\* What RELAY.md:161 promises: a revoked device is disabled on the relay at the
\* next full sync; no later sync admits it again while it stays revoked.
RevokedStaysOut ==
  [][\A d \in Devices : d \notin known /\ d \notin active => d \notin known']_vars

-----------------------------------------------------------------------------
(* The refinement of Rendezvous.                                            *)

Stage == [s \in Sessions |-> sessions[s].status]
Owner == [s \in Sessions |-> sessions[s].dev]
ToldActive == [d \in Devices |-> IF client[d].status = "ACTIVE" THEN client[d].sess ELSE None]

\* RELAY.md's lifetimes: of a session, of its wait for the Bridge, of its silence.
Overdue ==
  {s \in Open(sessions) :
     \/ clock > sessions[s].created + Lifetime
     \/ sessions[s].status = "WAITING_BRIDGE" /\ clock > sessions[s].created + Waiting
     \/ sessions[s].status = "ACTIVE" /\ clock > sessions[s].last + Idle}

Abstract == INSTANCE Rendezvous WITH
  stage <- Stage, owner <- Owner, overdue <- Overdue, condemned <- doomed, asked <- calls, peer <- endpoint,
  told <- ToldActive

\* Relay, Bridge and devices keep the rendezvous: a session is booked where there is
\* room and the device has none in time, is ACTIVE only once the Bridge has pointed at
\* it, and ends with the relay or once it was found overdue; no device is told of
\* another's.
ImplementsRendezvous == Abstract!Spec
=============================================================================
