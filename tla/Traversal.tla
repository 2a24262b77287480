------------------------------- MODULE Traversal -------------------------------
(***************************************************************************)
(* NAT traversal (p2p.py): a device prepares a session with the address it *)
(* can be reached at, and a thread of the Bridge points the device's       *)
(* WireGuard peer there, looks for a new handshake and otherwise puts the  *)
(* peer back as it was.  Each session has a thread of its own; commands to *)
(* WireGuard may fail, and others restart the interface meanwhile.  One    *)
(* tick of the clock is one second.                                        *)
(***************************************************************************)
EXTENDS Naturals, FiniteSets

CONSTANTS
  Devices,
  Sessions,    \* identifiers of sessions, each used once
  Addresses,   \* endpoints a device can be reached at
  NoAddress,   \* a peer has no endpoint
  Ttl,         \* SESSION_TTL_SECONDS
  Window,      \* RATE_WINDOW_SECONDS
  Limit,       \* RATE_LIMIT_PER_DEVICE
  Punches,     \* PUNCH_ATTEMPTS
  MaxTime      \* bound: the clock

ASSUME ConstantsAssumption ==
  /\ Ttl \in Nat \ {0} /\ Window \in Nat \ {0} /\ Limit \in Nat \ {0}
  /\ Punches \in Nat \ {0} /\ MaxTime \in Nat \ {0}
  /\ Devices # {} /\ Addresses # {} /\ NoAddress \notin Addresses

VARIABLES
  now,         \* the clock
  session,     \* _SESSIONS
  attempts,    \* _DEVICE_ATTEMPTS: the sessions each device has prepared, with the time
  thread,      \* the thread of each session
  peer,        \* what WireGuard knows of each device
  fresh,       \* history: sessions with a handshake in the second they began, or later
  mixed,       \* history: devices with an attempt that began during another's probing
  lame,        \* history: devices whose peer could not be put back
  abandoned    \* history: devices with a handshake whose confirmation failed, and no
               \* previous endpoint: nothing is tried then

history == <<fresh, mixed, lame, abandoned>>
vars == <<now, session, attempts, thread, peer, history>>

-----------------------------------------------------------------------------
Times    == 0..MaxTime
Endpoint == Addresses \cup {NoAddress}
Statuses == {"none", "PREPARED", "PUNCHING", "SUCCEEDED", "FAILED", "ERROR", "gone"}
Keepalives == {0, 5, 25}

Session == [status: Statuses, device: Devices, candidate: Addresses,
            expires: 0..MaxTime + Ttl]
Peer    == [endpoint: Endpoint, keepalive: Keepalives, handshake: Times]
Thread  == [pc: {"none", "begin", "baseline", "aim", "punch", "confirm", "restore",
                 "error", "done"},
            device: Devices, candidate: Addresses, previous: Endpoint,
            keepalive: Keepalives, baseline: Times, started: Times, count: 0..Punches]

NoThread == [pc |-> "none", device |-> CHOOSE d \in Devices : TRUE,
             candidate |-> CHOOSE a \in Addresses : TRUE, previous |-> NoAddress,
             keepalive |-> 0, baseline |-> 0, started |-> 0, count |-> 0]

Active(t) == t.pc \notin {"none", "begin", "done"}
Probing(t) == t.pc \in {"punch", "confirm", "restore", "error"}
Probed == {thread[s].device : s \in {t \in Sessions : Probing(thread[t])}}
Busy == {thread[s].device : s \in {t \in Sessions : Active(thread[t])}}
Known(s) == session[s].status \notin {"none", "gone"}

\* _cleanup of the sessions.
Cleaned == [s \in Sessions |-> IF Known(s) /\ session[s].expires <= now
                                 THEN [session[s] EXCEPT !.status = "gone"] ELSE session[s]]

\* _cleanup of the attempts of one device.
Recent(d) == {a \in attempts[d] : now - a[2] < Window}

\* _update_session: nothing if the session is gone.
Update(s, status) ==
  session' = [session EXCEPT ![s].status = IF Known(s) THEN status ELSE @]

Goto(s, pc) == thread' = [thread EXCEPT ![s].pc = pc]

End(s) == thread' = [thread EXCEPT ![s] = [NoThread EXCEPT !.pc = "done", !.device = thread[s].device]]

\* _set_peer_endpoint.
Point(d, endpoint, keepalive) ==
  peer' = [peer EXCEPT ![d].endpoint = endpoint, ![d].keepalive = keepalive]

-----------------------------------------------------------------------------
\* prepare_traversal; the thread waits a moment before it begins.
Prepare(d, s) ==
  /\ session[s].status = "none"
  /\ Cardinality(Recent(d)) < Limit
  /\ attempts' = [attempts EXCEPT ![d] = Recent(d) \cup {<<s, now>>}]
  /\ \E c \in Addresses :
       /\ session' = [Cleaned EXCEPT ![s] = [status |-> "PREPARED", device |-> d,
                                             candidate |-> c, expires |-> now + Ttl]]
       /\ thread' = [thread EXCEPT ![s].pc = "begin", ![s].device = d, ![s].candidate = c]
  /\ UNCHANGED <<now, peer, history>>

\* traversal_status, list_sessions: what has expired is forgotten.
Status ==
  /\ session' = Cleaned
  /\ UNCHANGED <<now, attempts, thread, peer, history>>

\* attempt_traversal: the peer is looked at; a command that fails is taken for a
\* peer without endpoint or keepalive.
Begin(s) ==
  LET d == thread[s].device IN
  /\ thread[s].pc = "begin"
  /\ session' = Cleaned
  /\ \/ Cleaned[s].status = "PREPARED"
        /\ \E e \in {peer[d].endpoint, NoAddress}, k \in {peer[d].keepalive, 0} :
             thread' = [thread EXCEPT ![s].pc = "baseline", ![s].previous = e,
                                      ![s].keepalive = k]
        /\ mixed' = mixed \cup (Probed \cap {d})
     \/ Cleaned[s].status # "PREPARED" /\ End(s) /\ UNCHANGED mixed
  /\ UNCHANGED <<now, attempts, peer, fresh, lame, abandoned>>

\* The last handshake so far, or 0, and the time.
Baseline(s) ==
  /\ thread[s].pc = "baseline"
  /\ \E b \in {peer[thread[s].device].handshake, 0} :
       thread' = [thread EXCEPT ![s].pc = "aim", ![s].baseline = b, ![s].started = now]
  /\ Update(s, "PUNCHING")
  /\ fresh' = IF peer[thread[s].device].handshake = now THEN fresh \cup {s} ELSE fresh
  /\ UNCHANGED <<now, attempts, peer, mixed, lame, abandoned>>

\* The peer is pointed at the candidate.
Aim(s) ==
  /\ thread[s].pc = "aim"
  /\ \/ Point(thread[s].device, thread[s].candidate, 5) /\ Goto(s, "punch")
     \/ Goto(s, "error") /\ UNCHANGED peer
  /\ UNCHANGED <<now, session, attempts, history>>

\* Mutant: any handshake counts that is not the one of the baseline.
NewAnyhow(s) == peer[thread[s].device].handshake > thread[s].baseline

\* latest > max(baseline, started - 1).
New(s) ==
  /\ peer[thread[s].device].handshake > thread[s].baseline
  /\ peer[thread[s].device].handshake >= thread[s].started

\* Mutant: the pings are not counted.
PunchOn(s) ==
  /\ thread[s].pc = "punch"
  /\ \/ New(s) /\ Goto(s, "confirm")
     \/ thread' = [thread EXCEPT ![s].count = @ + 1]
  /\ UNCHANGED <<now, session, attempts, peer, history>>

\* One more ping, and a look for the handshake it should bring.
Punch(s) ==
  /\ thread[s].pc = "punch"
  /\ thread[s].count < Punches
  /\ \/ New(s) /\ Goto(s, "confirm")
     \/ thread' = [thread EXCEPT ![s].count = @ + 1]    \* none, or the look failed
  /\ UNCHANGED <<now, session, attempts, peer, history>>

Miss(s) ==
  /\ thread[s].pc = "punch"
  /\ thread[s].count = Punches
  /\ Goto(s, "restore")
  /\ UNCHANGED <<now, session, attempts, peer, history>>

Confirm(s) ==
  /\ thread[s].pc = "confirm"
  /\ \/ /\ Point(thread[s].device, thread[s].candidate, 25)
        /\ Update(s, "SUCCEEDED")
        /\ End(s)
        /\ UNCHANGED abandoned
     \/ /\ Goto(s, "error")
        /\ abandoned' = IF thread[s].previous = NoAddress
                          THEN abandoned \cup {thread[s].device} ELSE abandoned
        /\ UNCHANGED <<session, peer>>
  /\ UNCHANGED <<now, attempts, fresh, mixed, lame>>

\* Mutant: the peer keeps the keepalive of the attempt.
PutBackProbing(s) ==
  LET t == thread[s] IN
  IF t.previous # NoAddress THEN Point(t.device, t.previous, 5)
                            ELSE Point(t.device, t.candidate, 0)

\* The previous endpoint; without one the candidate stays.
PutBack(s) ==
  LET t == thread[s] IN
  IF t.previous # NoAddress THEN Point(t.device, t.previous, t.keepalive)
                            ELSE Point(t.device, t.candidate, 0)

CannotPutBack(s) == lame' = lame \cup {thread[s].device} /\ UNCHANGED peer

Restore(s) ==
  /\ thread[s].pc = "restore"
  /\ \/ PutBack(s) /\ UNCHANGED lame
     \/ CannotPutBack(s)
  /\ Update(s, "FAILED")
  /\ End(s)
  /\ UNCHANGED <<now, attempts, fresh, mixed, abandoned>>

\* After an exception, without a previous endpoint, the peer stays as the attempt left it.
Retreat(s) ==
  \/ /\ thread[s].previous # NoAddress
     /\ \/ PutBack(s) /\ UNCHANGED lame
        \/ CannotPutBack(s)
  \/ thread[s].previous = NoAddress /\ UNCHANGED <<peer, lame>>

\* Mutant: the thread dies of the exception and the session does not tell.
RecoverSilent(s) ==
  /\ thread[s].pc = "error"
  /\ Retreat(s)
  /\ End(s)
  /\ UNCHANGED <<now, session, attempts, fresh, mixed, abandoned>>

\* An exception.
Recover(s) ==
  /\ thread[s].pc = "error"
  /\ Retreat(s)
  /\ Update(s, "ERROR")
  /\ End(s)
  /\ UNCHANGED <<now, attempts, fresh, mixed, abandoned>>

-----------------------------------------------------------------------------
\* The device completes a handshake: WireGuard follows it to where it is.
Handshake(d) ==
  /\ \E a \in Addresses : peer' = [peer EXCEPT ![d].endpoint = a, ![d].handshake = now]
  /\ fresh' = fresh \cup {s \in Sessions : thread[s].device = d /\ Active(thread[s])}
  /\ UNCHANGED <<now, session, attempts, thread, mixed, lame, abandoned>>

\* wg-quick@wg0 is restarted, as device-sync does, and forgets all this; with it what
\* ended attempts left.
RestartWireGuard ==
  /\ peer' = [d \in Devices |-> [endpoint |-> NoAddress, keepalive |-> 0, handshake |-> 0]]
  /\ mixed' = mixed \cap Busy /\ lame' = lame \cap Busy /\ abandoned' = abandoned \cap Busy
  /\ UNCHANGED <<now, session, attempts, thread, fresh>>

\* The process is restarted; its threads end where they are.
Restart ==
  /\ session' = [s \in Sessions |-> IF session[s].status = "none" THEN session[s]
                                    ELSE [session[s] EXCEPT !.status = "gone"]]
  /\ attempts' = [d \in Devices |-> {}]
  /\ thread' = [s \in Sessions |-> [thread[s] EXCEPT !.pc = IF @ = "none" THEN @ ELSE "done"]]
  /\ lame' = lame \cup Probed
  /\ UNCHANGED <<now, peer, fresh, mixed, abandoned>>

Tick ==
  /\ now < MaxTime
  /\ now' = now + 1
  /\ UNCHANGED <<session, attempts, thread, peer, history>>
-----------------------------------------------------------------------------
Init ==
  /\ now = 1
  /\ session = [s \in Sessions |-> [status |-> "none", device |-> NoThread.device,
                                    candidate |-> NoThread.candidate, expires |-> 0]]
  /\ attempts = [d \in Devices |-> {}]
  /\ thread = [s \in Sessions |-> NoThread]
  /\ peer = [d \in Devices |-> [endpoint |-> NoAddress, keepalive |-> 0, handshake |-> 0]]
  /\ fresh = {} /\ mixed = {} /\ lame = {} /\ abandoned = {}

Step(s) ==
  \/ Begin(s) \/ Baseline(s) \/ Aim(s) \/ Punch(s) \/ Miss(s) \/ Confirm(s)
  \/ Restore(s) \/ Recover(s)

Next ==
  \/ \E d \in Devices : (\E s \in Sessions : Prepare(d, s)) \/ Handshake(d)
  \/ \E s \in Sessions : Step(s)
  \/ Status \/ RestartWireGuard \/ Restart \/ Tick

Spec == Init /\ [][Next]_vars

\* A thread is scheduled; its commands have timeouts.
FairSpec == Spec /\ \A s \in Sessions : WF_vars(Step(s))

-----------------------------------------------------------------------------
TypeOK ==
  /\ now \in Times
  /\ session \in [Sessions -> Session]
  /\ attempts \in [Devices -> SUBSET (Sessions \X Times)]
  /\ thread \in [Sessions -> Thread]
  /\ peer \in [Devices -> Peer]
  /\ fresh \subseteq Sessions /\ mixed \subseteq Devices /\ lame \subseteq Devices
  /\ abandoned \subseteq Devices

\* An attempt succeeds only by a handshake of its own time, even when commands
\* fail and WireGuard is restarted (docs/P2P_TRAVERSAL.md: "nuovo latest-handshake
\* WireGuard osservato").
SuccessIsFresh ==
  \A s \in Sessions : session[s].status = "SUCCEEDED" => s \in fresh

\* Only while an attempt is probing does a peer have the keepalive of attempts, however
\* the others of its device overlap it.  Three ends are excepted: an attempt that began
\* during another's probing takes its keepalive for the one to put back; putting back
\* fails or the process ends before; and an exception after the handshake, without a
\* previous endpoint, where the code tries nothing (docs/P2P_TRAVERSAL.md has the
\* candidate stay "con keepalive 0" there too).
NoProbeLeft ==
  \A d \in Devices \ (mixed \cup lame \cup abandoned) :
    peer[d].keepalive = 5 => d \in Probed

\* Each attempt ends, and says so as long as its session is remembered.
AttemptsEnd ==
  \A s \in Sessions :
    session[s].status \in {"PREPARED", "PUNCHING"} ~>
      session[s].status \in {"SUCCEEDED", "FAILED", "ERROR", "gone"}
===============================================================================
