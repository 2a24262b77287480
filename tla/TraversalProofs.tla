---------------------------- MODULE TraversalProofs ----------------------------
(***************************************************************************)
(* Theorems about Traversal: what success means and what an attempt leaves *)
(* behind, for any devices, sessions, addresses, lifetimes and bounds.     *)
(***************************************************************************)
EXTENDS Traversal, TLAPS

\* The part of TypeOK that the other invariants rest on.
Typed ==
  /\ now \in Times
  /\ session \in [Sessions -> Session]
  /\ thread \in [Sessions -> Thread]
  /\ peer \in [Devices -> Peer]
  /\ fresh \subseteq Sessions

\* No thread works for a session before it is prepared.
Unprepared == \A s \in Sessions : session[s].status = "none" => thread[s].pc = "none"

HandshakesPast == \A d \in Devices : peer[d].handshake <= now

\* A session that has succeeded, or is about to, has had a handshake of its time; and
\* as long as it has had none, the last one is older than the attempt or unknown.
Fresh(s) ==
  /\ session[s].status = "SUCCEEDED" \/ thread[s].pc = "confirm" => s \in fresh
  /\ thread[s].pc \in {"aim", "punch"} /\ s \notin fresh =>
       \/ peer[thread[s].device].handshake < thread[s].started
       \/ peer[thread[s].device].handshake = 0

\* Threads at work on the peer of d.
At(d) == {s \in Sessions : thread[s].device = d /\ Active(thread[s])}

\* The thread of s may have given its peer the keepalive of attempts, and is to take it
\* away.
Owes(s) ==
  Probing(thread[s]) /\ (thread[s].pc = "error" => thread[s].previous # NoAddress)

\* The exceptions of NoProbeLeft.
Excused == mixed \cup lame \cup abandoned

\* Of any other device: the keepalive is that of an attempt only while a thread is to
\* take it away, and no thread has taken it for the one to put back.
Clean(d) ==
  /\ peer[d].keepalive = 5 => \E s \in At(d) : Owes(s)
  /\ \A s \in At(d) : thread[s].keepalive # 5

IInv ==
  /\ Typed /\ Unprepared /\ HandshakesPast
  /\ \A s \in Sessions : Fresh(s)
  /\ \A d \in Devices \ Excused : Clean(d)

-----------------------------------------------------------------------------
(* Operators *)

LEMMA NoThreadTyped == NoThread \in Thread
<1>1. (CHOOSE d \in Devices : TRUE) \in Devices /\ (CHOOSE a \in Addresses : TRUE) \in Addresses
  BY ConstantsAssumption
<1> QED
  BY <1>1, ConstantsAssumption DEF NoThread, Thread, Endpoint, Keepalives, Times

LEMMA CleanedFacts ==
  ASSUME Typed
  PROVE  /\ Cleaned \in [Sessions -> Session]
         /\ \A s \in Sessions :
              /\ Cleaned[s].status \in {session[s].status, "gone"}
              /\ Cleaned[s].status = "none" => session[s].status = "none"
<1> DEFINE c(s) == IF Known(s) /\ session[s].expires <= now
                     THEN [session[s] EXCEPT !.status = "gone"] ELSE session[s]
<1>1. ASSUME NEW s \in Sessions
      PROVE  /\ c(s) \in Session /\ c(s).status \in {session[s].status, "gone"}
             /\ c(s).status = "none" => session[s].status = "none"
  BY DEF Typed, Session, Statuses, Known
<1> HIDE DEF c
<1>2. Cleaned = [s \in Sessions |-> c(s)]
  BY DEF Cleaned, c
<1> QED
  BY <1>1, <1>2

LEMMA UpdateFacts ==
  ASSUME Typed, NEW s \in Sessions, NEW status \in Statuses \ {"none"}, Update(s, status)
  PROVE  /\ session' \in [Sessions -> Session]
         /\ \A t \in Sessions : t # s => session'[t] = session[t]
         /\ session'[s].status \in {session[s].status, status}
         /\ session'[s].status = "none" => session[s].status = "none"
<1>1. session' = [session EXCEPT ![s] = [session[s] EXCEPT !.status =
                    IF Known(s) THEN status ELSE session[s].status]]
  BY DEF Update, Typed
<1>2. session[s] \in Session
  BY DEF Typed
<1>3. [session[s] EXCEPT !.status = IF Known(s) THEN status ELSE session[s].status] \in Session
  BY <1>2 DEF Session
<1> QED
  BY <1>1, <1>2, <1>3 DEF Typed, Session, Known

LEMMA PointFacts ==
  ASSUME Typed, NEW d \in Devices, NEW e \in Endpoint, NEW k \in Keepalives, Point(d, e, k)
  PROVE  /\ peer' \in [Devices -> Peer]
         /\ \A x \in Devices : peer'[x].handshake = peer[x].handshake
         /\ \A x \in Devices : x # d => peer'[x] = peer[x]
         /\ peer'[d].keepalive = k
<1>1. peer[d] \in Peer
  BY DEF Typed
<1>2. peer' = [peer EXCEPT ![d] = [[peer[d] EXCEPT !.endpoint = e] EXCEPT !.keepalive = k]]
  BY DEF Point, Typed
<1> QED
  BY <1>1, <1>2 DEF Typed, Peer

-----------------------------------------------------------------------------
(* Steps of threads *)

\* What every step of the thread of s has in common.
Apart(s) ==
  /\ thread' \in [Sessions -> Thread] /\ session' \in [Sessions -> Session]
  /\ peer' \in [Devices -> Peer]
  /\ now' = now /\ fresh \subseteq fresh' /\ fresh' \subseteq Sessions
  /\ \A t \in Sessions \ {s} :
       thread'[t] = thread[t] /\ session'[t].status \in {session[t].status, "gone"}
  /\ thread'[s].device = thread[s].device
  /\ session'[s].status = "none" => session[s].status = "none"
  /\ \A d \in Devices : peer'[d].handshake = peer[d].handshake
  /\ \A d \in Devices \ {thread[s].device} : peer'[d] = peer[d]

LEMMA StepFresh ==
  ASSUME IInv, NEW s \in Sessions, Apart(s), thread[s].pc # "none", Fresh(s)'
  PROVE  Typed' /\ Unprepared' /\ HandshakesPast' /\ \A t \in Sessions : Fresh(t)'
<1>1. Typed'
  BY DEF IInv, Typed, Apart, Times
<1>2. Unprepared'
  BY DEF IInv, Unprepared, Apart
<1>3. HandshakesPast'
  BY DEF IInv, HandshakesPast, Apart
<1>4. ASSUME NEW t \in Sessions, t # s PROVE Fresh(t)'
  <2>1. thread[t].device \in Devices
    BY DEF IInv, Typed, Thread
  <2> QED
    BY <1>4, <2>1 DEF IInv, Fresh, Apart
<1> QED
  BY <1>1, <1>2, <1>3, <1>4

LEMMA StepClean ==
  ASSUME IInv, NEW s \in Sessions, Apart(s), Active(thread[s]),
         mixed' = mixed, lame \subseteq lame', abandoned \subseteq abandoned',
         Active(thread'[s]) => thread'[s].keepalive = thread[s].keepalive,
         \/ thread[s].device \in lame' \cup abandoned'
         \/ Active(thread'[s]) /\ Owes(s)'
         \/ peer' = peer /\ ~Owes(s)
         \/ Clean(thread[s].device) => peer'[thread[s].device].keepalive # 5
  PROVE  \A d \in Devices \ Excused' : Clean(d)'
<1> SUFFICES ASSUME NEW d \in Devices, d \notin Excused' PROVE Clean(d)'
  OBVIOUS
<1>1. Clean(d)
  BY DEF IInv, Excused
<1>2. CASE d # thread[s].device
  <2>1. At(d)' = At(d)
    BY <1>2 DEF At, Apart
  <2>2. \A t \in At(d) : thread'[t] = thread[t] /\ (Owes(t) => Owes(t)')
    BY <1>2 DEF At, Apart, Owes
  <2> QED
    BY <1>1, <1>2, <2>1, <2>2 DEF Clean, Apart
<1>3. CASE d = thread[s].device
  <2>1. \A t \in Sessions \ {s} :
          /\ t \in At(d)' <=> t \in At(d)
          /\ thread'[t] = thread[t] /\ (Owes(t) => Owes(t)')
    BY DEF At, Apart, Owes
  <2>2. s \in At(d)' <=> Active(thread'[s])
    BY <1>3 DEF At, Apart
  <2>3. s \in At(d)
    BY <1>3 DEF At
  <2>4. \A t \in At(d)' : thread'[t].keepalive # 5
    BY <1>1, <2>1, <2>2, <2>3 DEF Clean, At
  <2>5. ASSUME peer'[d].keepalive = 5 PROVE \E t \in At(d)' : Owes(t)'
    <3>1. CASE Active(thread'[s]) /\ Owes(s)'
      BY <2>2, <3>1
    <3>2. CASE peer' = peer /\ ~Owes(s)
      <4>1. PICK t \in At(d) : Owes(t)
        BY <1>1, <2>5, <3>2 DEF Clean
      <4> QED
        BY <2>1, <3>2, <4>1 DEF At
    <3> QED
      BY <1>1, <1>3, <2>5, <3>1, <3>2 DEF Excused
  <2> QED
    BY <2>4, <2>5 DEF Clean
<1> QED
  BY <1>2, <1>3

LEMMA EndFacts ==
  ASSUME Typed, NEW s \in Sessions, End(s)
  PROVE  /\ thread' \in [Sessions -> Thread]
         /\ \A t \in Sessions \ {s} : thread'[t] = thread[t]
         /\ thread'[s].device = thread[s].device /\ thread'[s].pc = "done"
<1> DEFINE r == [[NoThread EXCEPT !.pc = "done"] EXCEPT !.device = thread[s].device]
<1>1. NoThread \in Thread /\ thread[s].device \in Devices
  BY NoThreadTyped DEF Typed, Thread
<1>2. r \in Thread /\ r.device = thread[s].device /\ r.pc = "done"
  BY <1>1 DEF Thread
<1>3. thread' = [thread EXCEPT ![s] = r]
  BY DEF End
<1> QED
  BY <1>2, <1>3 DEF Typed

LEMMA GotoFacts ==
  ASSUME Typed, NEW s \in Sessions,
         NEW pc \in {"punch", "confirm", "restore", "error"}, Goto(s, pc)
  PROVE  /\ thread' \in [Sessions -> Thread]
         /\ \A t \in Sessions \ {s} : thread'[t] = thread[t]
         /\ thread'[s] = [thread[s] EXCEPT !.pc = pc] /\ thread'[s].pc = pc
         /\ thread'[s].device = thread[s].device /\ thread'[s].keepalive = thread[s].keepalive
         /\ thread'[s].started = thread[s].started
         /\ thread'[s].previous = thread[s].previous
<1>1. thread[s] \in Thread
  BY DEF Typed
<1>2. [thread[s] EXCEPT !.pc = pc] \in Thread
  BY <1>1 DEF Thread
<1> QED
  BY <1>1, <1>2 DEF Goto, Typed, Thread

LEMMA PutBackFacts ==
  ASSUME Typed, NEW s \in Sessions, PutBack(s)
  PROVE  /\ peer' \in [Devices -> Peer]
         /\ \A x \in Devices : peer'[x].handshake = peer[x].handshake
         /\ \A x \in Devices : x # thread[s].device => peer'[x] = peer[x]
         /\ peer'[thread[s].device].keepalive \in {thread[s].keepalive, 0}
<1>1. /\ thread[s].device \in Devices /\ thread[s].previous \in Endpoint
      /\ thread[s].candidate \in Endpoint
      /\ thread[s].keepalive \in Keepalives /\ 0 \in Keepalives
  BY DEF Typed, Thread, Endpoint, Keepalives
<1> QED
  BY <1>1, PointFacts DEF PutBack

LEMMA StepKeeps ==
  ASSUME IInv, NEW s \in Sessions, Step(s)
  PROVE  IInv'
<1> DEFINE d == thread[s].device
<1>0. Typed /\ d \in Devices /\ thread[s] \in Thread /\ Fresh(s) /\ peer[d] \in Peer
  BY DEF IInv, Typed, Thread
<1>1. CASE Begin(s)
  <2>1. /\ session' = Cleaned /\ UNCHANGED <<now, peer, fresh, lame, abandoned>>
        /\ thread[s].pc = "begin"
    BY <1>1 DEF Begin
  <2>2. CASE thread' # thread /\ End(s) /\ mixed' = mixed
    <3>1. Apart(s)
      BY <1>0, <2>1, <2>2, EndFacts, CleanedFacts DEF Apart, IInv, Typed
    <3>2. Fresh(s)'
      BY <1>0, <2>1, <2>2, EndFacts, CleanedFacts DEF Fresh
    <3>3. \A x \in Devices : At(x)' = At(x) /\ \A t \in At(x) : thread'[t] = thread[t]
      BY <1>0, <2>1, <2>2, EndFacts DEF At, Active
    <3>4. \A x \in Devices \ Excused' : Clean(x)'
      BY <2>1, <2>2, <3>3 DEF IInv, Clean, Excused, Owes
    <3> QED
      BY <2>1, <3>1, <3>2, <3>4, StepFresh DEF IInv
  <2>3. ASSUME NEW e \in {peer[d].endpoint, NoAddress}, NEW k \in {peer[d].keepalive, 0},
               thread' = [thread EXCEPT ![s].pc = "baseline", ![s].previous = e,
                                        ![s].keepalive = k],
               mixed' = mixed \cup (Probed \cap {d})
        PROVE  IInv'
    <3>1. /\ thread' \in [Sessions -> Thread]
          /\ \A t \in Sessions \ {s} : thread'[t] = thread[t]
          /\ thread'[s].device = d /\ thread'[s].pc = "baseline" /\ thread'[s].keepalive = k
      <4>1. e \in Endpoint /\ k \in Keepalives
        BY <1>0, <2>3 DEF Peer, Endpoint, Keepalives
      <4> QED
        BY <1>0, <2>3, <4>1 DEF Typed, Thread
    <3>2. Apart(s)
      BY <1>0, <2>1, <3>1, CleanedFacts DEF Apart, IInv, Typed
    <3>3. Fresh(s)'
      BY <1>0, <2>1, <3>1, CleanedFacts DEF Fresh
    <3>4. ASSUME NEW x \in Devices, x \notin Excused' PROVE Clean(x)'
      <4>1. Clean(x)
        BY <2>1, <2>3, <3>4 DEF IInv, Excused
      <4>2. CASE x # d
        <5>1. At(x)' = At(x) /\ \A t \in At(x) : thread'[t] = thread[t]
          BY <3>1, <4>2 DEF At
        <5> QED
          BY <2>1, <4>1, <5>1 DEF Clean, Owes
      <4>3. CASE x = d
        <5>1. \A t \in At(x) : ~Owes(t)
          BY <2>3, <3>4, <4>3 DEF Probed, Excused, At, Owes
        <5>2. peer[d].keepalive # 5 /\ k # 5
          BY <2>3, <4>1, <4>3, <5>1 DEF Clean
        <5>3. \A t \in At(x)' : t \in At(x) \/ t = s
          BY <3>1 DEF At
        <5> QED
          BY <2>1, <3>1, <4>1, <4>3, <5>2, <5>3 DEF Clean, At
      <4> QED
        BY <4>2, <4>3
    <3> QED
      BY <2>1, <3>2, <3>3, <3>4, StepFresh DEF IInv
  <2> QED
    BY <1>0, <1>1, <2>2, <2>3, EndFacts DEF Begin
<1>2. CASE Baseline(s)
  <2>1. PICK b \in {peer[d].handshake, 0} :
          thread' = [thread EXCEPT ![s].pc = "aim", ![s].baseline = b, ![s].started = now]
    BY <1>2 DEF Baseline
  <2>2. /\ thread' \in [Sessions -> Thread]
        /\ \A t \in Sessions \ {s} : thread'[t] = thread[t]
        /\ thread'[s].device = d /\ thread'[s].pc = "aim" /\ thread'[s].started = now
        /\ thread'[s].keepalive = thread[s].keepalive
    <3>1. b \in Times /\ now \in Times
      BY <1>0, <2>1, ConstantsAssumption DEF Peer, Times, Typed
    <3> QED
      BY <1>0, <2>1, <3>1 DEF Typed, Thread
  <2>3. Apart(s)
    BY <1>0, <1>2, <2>2, UpdateFacts DEF Baseline, Apart, IInv, Typed, Statuses
  <2>4. Fresh(s)'
    <3>1. peer[d].handshake \in Nat /\ now \in Nat /\ peer[d].handshake <= now
      BY <1>0 DEF IInv, HandshakesPast, Typed, Peer, Times
    <3>2. session'[s].status \in {session[s].status, "PUNCHING"}
      BY <1>0, <1>2, UpdateFacts DEF Baseline, Statuses
    <3> QED
      BY <1>0, <1>2, <2>2, <3>1, <3>2 DEF Fresh, Baseline
  <2>5. \A x \in Devices \ Excused' : Clean(x)'
    BY <1>2, <2>2, <2>3, StepClean DEF Baseline, Active, Probing, Owes
  <2> QED
    BY <1>2, <2>3, <2>4, <2>5, StepFresh DEF IInv, Baseline
<1>3. CASE Aim(s)
  <2>1. CASE Goto(s, "error") /\ UNCHANGED peer
    <3>1. Apart(s)
      BY <1>0, <1>3, <2>1, GotoFacts DEF Aim, Apart, IInv, Typed, history
    <3>2. Fresh(s)'
      BY <1>0, <1>3, <2>1, GotoFacts DEF Aim, Fresh, history
    <3>3. \A x \in Devices \ Excused' : Clean(x)'
      BY <1>0, <1>3, <2>1, <3>1, GotoFacts, StepClean DEF Aim, Active, Probing, Owes, history
    <3> QED
      BY <1>3, <3>1, <3>2, <3>3, StepFresh DEF IInv, Aim
  <2>2. CASE Point(d, thread[s].candidate, 5) /\ Goto(s, "punch")
    <3>0. thread[s].candidate \in Endpoint /\ 5 \in Keepalives
      BY <1>0 DEF Thread, Endpoint, Keepalives
    <3>1. Apart(s)
      BY <1>0, <1>3, <2>2, <3>0, GotoFacts, PointFacts DEF Aim, Apart, IInv, Typed, history
    <3>2. Fresh(s)'
      <4>1. peer'[d].handshake = peer[d].handshake
        BY <1>0, <2>2, <3>0, PointFacts
      <4>2. thread[s].pc = "aim" /\ session' = session /\ fresh' = fresh
        BY <1>3 DEF Aim, history
      <4> QED
        BY <1>0, <2>2, <4>1, <4>2, GotoFacts DEF Fresh
    <3>3. \A x \in Devices \ Excused' : Clean(x)'
      BY <1>0, <1>3, <2>2, <3>1, GotoFacts, StepClean DEF Aim, Active, Probing, Owes, history
    <3> QED
      BY <1>3, <3>1, <3>2, <3>3, StepFresh DEF IInv, Aim
  <2> QED
    BY <1>3, <2>1, <2>2 DEF Aim
<1>4. CASE Punch(s)
  <2>1. /\ UNCHANGED <<now, session, attempts, peer, history>> /\ thread[s].pc = "punch"
    BY <1>4 DEF Punch
  <2>2. CASE New(s) /\ Goto(s, "confirm")
    <3>1. Apart(s)
      BY <1>0, <2>1, <2>2, GotoFacts DEF Apart, IInv, Typed, history
    <3>2. s \in fresh
      <4>1. /\ peer[d].handshake \in Nat /\ thread[s].started \in Nat
            /\ thread[s].baseline \in Nat
        BY <1>0 DEF Peer, Thread, Times
      <4> QED
        BY <1>0, <2>1, <2>2, <4>1 DEF New, Fresh
    <3>3. Fresh(s)'
      BY <1>0, <2>1, <2>2, <3>2, GotoFacts DEF Fresh, history
    <3>4. \A x \in Devices \ Excused' : Clean(x)'
      BY <1>0, <2>1, <2>2, <3>1, GotoFacts, StepClean DEF Active, Probing, Owes, history
    <3> QED
      BY <2>1, <3>1, <3>3, <3>4, StepFresh DEF IInv
  <2>3. CASE thread' = [thread EXCEPT ![s].count = @ + 1]
    <3>1. /\ thread' \in [Sessions -> Thread]
          /\ \A t \in Sessions \ {s} : thread'[t] = thread[t]
          /\ thread'[s].device = d /\ thread'[s].pc = "punch"
          /\ thread'[s].started = thread[s].started
          /\ thread'[s].keepalive = thread[s].keepalive
      <4>1. thread[s].count + 1 \in 0..Punches
        BY <1>0, <1>4, ConstantsAssumption DEF Punch, Thread
      <4> QED
        BY <1>0, <2>1, <2>3, <4>1 DEF Typed, Thread
    <3>2. Apart(s)
      BY <1>0, <2>1, <3>1 DEF Apart, IInv, Typed, history
    <3>3. Fresh(s)'
      BY <1>0, <2>1, <3>1 DEF Fresh, history
    <3>4. \A x \in Devices \ Excused' : Clean(x)'
      BY <1>0, <2>1, <3>1, <3>2, StepClean DEF Active, Probing, Owes, history
    <3> QED
      BY <2>1, <3>2, <3>3, <3>4, StepFresh DEF IInv
  <2> QED
    BY <1>4, <2>2, <2>3 DEF Punch
<1>5. CASE Miss(s)
  <2>1. Apart(s)
    BY <1>0, <1>5, GotoFacts DEF Miss, Apart, IInv, Typed, history
  <2>2. Fresh(s)'
    BY <1>0, <1>5, GotoFacts DEF Miss, Fresh, history
  <2>3. \A x \in Devices \ Excused' : Clean(x)'
    BY <1>0, <1>5, <2>1, GotoFacts, StepClean DEF Miss, Active, Probing, Owes, history
  <2> QED
    BY <1>5, <2>1, <2>2, <2>3, StepFresh DEF IInv, Miss
<1>6. CASE Confirm(s)
  <2>1. /\ UNCHANGED <<now, attempts, fresh, mixed, lame>>
        /\ thread[s].pc = "confirm" /\ s \in fresh
    BY <1>0, <1>6 DEF Confirm, Fresh
  <2>2. CASE /\ Goto(s, "error") /\ UNCHANGED <<session, peer>>
             /\ abandoned' = IF thread[s].previous = NoAddress
                               THEN abandoned \cup {d} ELSE abandoned
    <3>1. Apart(s)
      BY <1>0, <2>1, <2>2, GotoFacts DEF Apart, IInv, Typed
    <3>2. Fresh(s)'
      BY <1>0, <2>1, <2>2, GotoFacts DEF Fresh
    <3>3. \A x \in Devices \ Excused' : Clean(x)'
      BY <1>0, <2>1, <2>2, <3>1, GotoFacts, StepClean DEF Active, Probing, Owes
    <3> QED
      BY <2>1, <3>1, <3>2, <3>3, StepFresh DEF IInv
  <2>3. CASE /\ Point(d, thread[s].candidate, 25) /\ Update(s, "SUCCEEDED") /\ End(s)
             /\ UNCHANGED abandoned
    <3>0. thread[s].candidate \in Endpoint /\ 25 \in Keepalives /\ "SUCCEEDED" \in Statuses \ {"none"}
      BY <1>0 DEF Thread, Endpoint, Keepalives, Statuses
    <3>1. Apart(s)
      BY <1>0, <2>1, <2>3, <3>0, EndFacts, PointFacts, UpdateFacts
      DEF Apart, IInv, Typed, history
    <3>2. Fresh(s)'
      BY <1>0, <2>1, <2>3, EndFacts DEF Fresh, history
    <3>3. \A x \in Devices \ Excused' : Clean(x)'
      BY <1>0, <2>1, <2>3, <3>0, <3>1, PointFacts, StepClean, EndFacts DEF Active, history
    <3> QED
      BY <2>1, <3>1, <3>2, <3>3, StepFresh DEF IInv
  <2> QED
    BY <1>6, <2>2, <2>3 DEF Confirm
<1>7. ASSUME NEW status \in {"FAILED", "ERROR"}, Active(thread[s]),
             Update(s, status), End(s), UNCHANGED <<now, fresh, mixed, abandoned>>,
             \/ PutBack(s) /\ UNCHANGED lame
             \/ CannotPutBack(s)
             \/ UNCHANGED <<peer, lame>> /\ ~Owes(s)
      PROVE  IInv'
  <2>0. status \in Statuses \ {"none"}
    BY DEF Statuses
  <2>1. Apart(s)
    <3>1. CASE PutBack(s)
      BY <1>0, <1>7, <2>0, <3>1, EndFacts, UpdateFacts, PutBackFacts DEF Apart, IInv, Typed
    <3>2. CASE CannotPutBack(s)
      BY <1>0, <1>7, <2>0, <3>2, EndFacts, UpdateFacts DEF Apart, IInv, Typed, CannotPutBack
    <3>3. CASE UNCHANGED peer
      BY <1>0, <1>7, <2>0, <3>3, EndFacts, UpdateFacts DEF Apart, IInv, Typed
    <3> QED
      BY <1>7, <3>1, <3>2, <3>3
  <2>2. Fresh(s)'
    BY <1>0, <1>7, <2>0, EndFacts, UpdateFacts DEF Fresh
  <2>3. \/ d \in lame'
        \/ peer' = peer /\ ~Owes(s)
        \/ Clean(d) => peer'[d].keepalive # 5
    <3>1. CASE PutBack(s)
      <4>1. peer'[d].keepalive \in {thread[s].keepalive, 0}
        BY <1>0, <3>1, PutBackFacts
      <4> QED
        BY <1>7, <4>1 DEF Clean, At
    <3>2. CASE CannotPutBack(s)
      BY <3>2 DEF CannotPutBack
    <3> QED
      BY <1>7, <3>1, <3>2
  <2>4. lame \subseteq lame'
    BY <1>7 DEF CannotPutBack
  <2>5. ~Active(thread'[s])
    BY <1>0, <1>7, EndFacts DEF Active
  <2>6. \A x \in Devices \ Excused' : Clean(x)'
    BY <1>7, <2>1, <2>3, <2>4, <2>5, StepClean
  <2> QED
    BY <1>7, <2>1, <2>2, <2>6, StepFresh DEF IInv, Active
<1>8. CASE Restore(s)
  BY <1>7, <1>8 DEF Restore, Active, CannotPutBack
<1>9. CASE Recover(s)
  <2>1. \/ PutBack(s) /\ UNCHANGED lame
        \/ CannotPutBack(s)
        \/ UNCHANGED <<peer, lame>> /\ ~Owes(s)
    BY <1>9 DEF Recover, Retreat, Owes
  <2> QED
    BY <1>7, <1>9, <2>1 DEF Recover, Active
<1> QED
  BY <1>1, <1>2, <1>3, <1>4, <1>5, <1>6, <1>8, <1>9 DEF Step

-----------------------------------------------------------------------------
(* Everything else *)

\* A change that leaves the threads and the peers alone.
LEMMA QuietKeeps ==
  ASSUME IInv, UNCHANGED <<thread, peer, fresh, mixed, lame, abandoned>>, now' \in Times, now <= now',
         session' \in [Sessions -> Session],
         \A s \in Sessions : session'[s].status \in {session[s].status, "gone"}
  PROVE  IInv'
<1>1. Typed' /\ Unprepared'
  BY DEF IInv, Typed, Unprepared
<1>2. HandshakesPast'
  BY DEF IInv, HandshakesPast, Typed, Peer, Times
<1>3. \A s \in Sessions : Fresh(s)'
  BY DEF IInv, Fresh
<1>4. \A d \in Devices \ Excused' : Clean(d)'
  BY DEF IInv, Clean, At, Owes, Excused
<1> QED
  BY <1>1, <1>2, <1>3, <1>4 DEF IInv

LEMMA PrepareKeeps ==
  ASSUME IInv, NEW d \in Devices, NEW s \in Sessions, Prepare(d, s)
  PROVE  IInv'
<1>0. Typed /\ thread[s] \in Thread /\ thread[s].pc = "none"
  BY DEF IInv, Unprepared, Prepare, Typed
<1>1. PICK c \in Addresses :
        /\ session' = [Cleaned EXCEPT ![s] = [status |-> "PREPARED", device |-> d,
                                              candidate |-> c, expires |-> now + Ttl]]
        /\ thread' = [thread EXCEPT ![s].pc = "begin", ![s].device = d, ![s].candidate = c]
  BY DEF Prepare
<1>2. UNCHANGED <<now, peer, fresh, mixed, lame, abandoned>>
  BY DEF Prepare, history
<1>3. /\ thread' \in [Sessions -> Thread]
      /\ \A t \in Sessions \ {s} : thread'[t] = thread[t]
      /\ thread'[s].pc = "begin"
  BY <1>0, <1>1 DEF Typed, Thread
<1>4. /\ session' \in [Sessions -> Session]
      /\ \A t \in Sessions \ {s} : session'[t].status \in {session[t].status, "gone"}
      /\ session'[s].status = "PREPARED"
  <2> DEFINE r == [status |-> "PREPARED", device |-> d, candidate |-> c, expires |-> now + Ttl]
  <2>1. now + Ttl \in 0..MaxTime + Ttl
    BY <1>0, ConstantsAssumption DEF Typed, Times
  <2>2. r \in Session /\ r.status = "PREPARED"
    BY <2>1 DEF Session, Statuses
  <2> HIDE DEF r
  <2>3. session' = [Cleaned EXCEPT ![s] = r]
    BY <1>1 DEF r
  <2> QED
    BY <1>0, <2>2, <2>3, CleanedFacts
<1>5. Typed' /\ Unprepared' /\ HandshakesPast'
  BY <1>0, <1>2, <1>3, <1>4 DEF IInv, Typed, Unprepared, HandshakesPast
<1>6. \A t \in Sessions : Fresh(t)'
  BY <1>2, <1>3, <1>4 DEF IInv, Fresh
<1>7. \A x \in Devices : At(x)' = At(x) /\ \A t \in At(x) : thread'[t] = thread[t]
  BY <1>0, <1>3 DEF At, Active
<1>8. \A x \in Devices \ Excused' : Clean(x)'
  BY <1>2, <1>7 DEF IInv, Clean, Owes, Excused
<1> QED
  BY <1>5, <1>6, <1>8 DEF IInv

LEMMA HandshakeKeeps ==
  ASSUME IInv, NEW d \in Devices, Handshake(d)
  PROVE  IInv'
<1>1. /\ UNCHANGED <<now, session, thread, mixed, lame, abandoned>>
      /\ fresh' = fresh \cup At(d)
  BY DEF Handshake, At
<1>2. PICK a \in Addresses : peer' = [peer EXCEPT ![d].endpoint = a, ![d].handshake = now]
  BY DEF Handshake
<1>3. /\ peer' \in [Devices -> Peer]
      /\ \A x \in Devices : peer'[x].keepalive = peer[x].keepalive
      /\ \A x \in Devices \ {d} : peer'[x] = peer[x]
      /\ peer'[d].handshake = now
  BY <1>2 DEF IInv, Typed, Peer, Endpoint
<1>4. Typed' /\ Unprepared'
  BY <1>1, <1>3 DEF IInv, Typed, Unprepared, At
<1>5. HandshakesPast'
  BY <1>1, <1>3 DEF IInv, HandshakesPast, Typed, Times
<1>6. ASSUME NEW s \in Sessions PROVE Fresh(s)'
  <2>1. thread[s].device \in Devices
    BY DEF IInv, Typed, Thread
  <2>2. CASE thread[s].device = d /\ Active(thread[s])
    BY <1>1, <2>2 DEF IInv, Fresh, At
  <2>3. CASE thread[s].device # d
    BY <1>1, <1>3, <2>1, <2>3 DEF IInv, Fresh
  <2>4. CASE ~Active(thread[s])
    BY <1>1, <2>4 DEF IInv, Fresh, Active
  <2> QED
    BY <2>2, <2>3, <2>4
<1>7. \A x \in Devices \ Excused' : Clean(x)'
  BY <1>1, <1>3 DEF IInv, Clean, At, Owes, Excused
<1> QED
  BY <1>4, <1>5, <1>6, <1>7 DEF IInv

LEMMA RestartKeeps ==
  ASSUME IInv, Restart
  PROVE  IInv'
<1> DEFINE over(s) == [thread[s] EXCEPT !.pc = IF @ = "none" THEN @ ELSE "done"]
           gone(s) == IF session[s].status = "none" THEN session[s]
                      ELSE [session[s] EXCEPT !.status = "gone"]
<1>1. \A s \in Sessions :
        /\ over(s) \in Thread /\ over(s).device = thread[s].device
        /\ over(s).pc = IF thread[s].pc = "none" THEN "none" ELSE "done"
        /\ gone(s) \in Session
        /\ gone(s).status = IF session[s].status = "none" THEN "none" ELSE "gone"
  BY DEF IInv, Typed, Thread, Session, Statuses
<1> HIDE DEF over, gone
<1>2. thread' = [s \in Sessions |-> over(s)] /\ session' = [s \in Sessions |-> gone(s)]
  BY DEF Restart, over, gone
<1>3. UNCHANGED <<now, peer, fresh, mixed, abandoned>> /\ lame' = lame \cup Probed
  BY DEF Restart
<1>4. Typed' /\ Unprepared' /\ HandshakesPast'
  BY <1>1, <1>2, <1>3 DEF IInv, Typed, Unprepared, HandshakesPast
<1>5. \A s \in Sessions : Fresh(s)'
  BY <1>1, <1>2, <1>3 DEF Fresh
<1>6. ASSUME NEW d \in Devices, d \notin Excused' PROVE Clean(d)'
  <2>1. (\A s \in At(d) : ~Owes(s)) /\ Clean(d)
    BY <1>3, <1>6 DEF At, IInv, Excused, Probed, Owes
  <2>2. At(d)' = {}
    BY <1>1, <1>2 DEF At, Active
  <2> QED
    BY <1>3, <2>1, <2>2 DEF Clean
<1> QED
  BY <1>4, <1>5, <1>6 DEF IInv

LEMMA InitInv == Init => IInv
<1> SUFFICES ASSUME Init PROVE IInv
  OBVIOUS
<1>1. NoThread \in Thread /\ NoThread.pc = "none"
  BY NoThreadTyped DEF NoThread
<1>2. Typed
  <2>1. NoThread.device \in Devices /\ NoThread.candidate \in Addresses
    BY <1>1 DEF Thread
  <2>2. now \in Times /\ fresh \subseteq Sessions
    BY ConstantsAssumption DEF Init, Times
  <2>3. session \in [Sessions -> Session]
    BY <2>1, ConstantsAssumption DEF Init, Session, Statuses
  <2>4. peer \in [Devices -> Peer]
    BY ConstantsAssumption DEF Init, Peer, Endpoint, Keepalives, Times
  <2>5. thread \in [Sessions -> Thread]
    BY <1>1 DEF Init
  <2> QED
    BY <2>2, <2>3, <2>4, <2>5 DEF Typed
<1> QED
  BY <1>1, <1>2 DEF Init, IInv, Unprepared, HandshakesPast, Fresh, Clean, At, Active

LEMMA NextInv == IInv /\ [Next]_vars => IInv'
<1> SUFFICES ASSUME IInv, [Next]_vars PROVE IInv'
  OBVIOUS
<1>1. CASE \E d \in Devices : (\E s \in Sessions : Prepare(d, s)) \/ Handshake(d)
  BY <1>1, PrepareKeeps, HandshakeKeeps
<1>2. CASE \E s \in Sessions : Step(s)
  BY <1>2, StepKeeps
<1>3. CASE Status
  <2>1. /\ session' = Cleaned /\ UNCHANGED <<now, thread, peer, fresh, mixed, lame, abandoned>>
    BY <1>3 DEF Status, history
  <2>2. now \in Times /\ now <= now /\ Typed
    BY DEF IInv, Typed, Times
  <2> QED
    BY <2>1, <2>2, CleanedFacts, QuietKeeps
<1>4. CASE Tick
  <2>1. now' \in Times /\ now <= now'
    BY <1>4, ConstantsAssumption DEF Tick, IInv, Typed, Times
  <2> QED
    BY <1>4, <2>1, QuietKeeps DEF Tick, history, IInv, Typed
<1>5. CASE RestartWireGuard
  <2>1. /\ peer' \in [Devices -> Peer]
        /\ \A d \in Devices : peer'[d].handshake = 0 /\ peer'[d].keepalive = 0
    BY <1>5, ConstantsAssumption DEF RestartWireGuard, Peer, Endpoint, Keepalives, Times
  <2>2. /\ UNCHANGED <<now, session, thread, fresh>>
        /\ mixed' = mixed \cap Busy /\ lame' = lame \cap Busy /\ abandoned' = abandoned \cap Busy
    BY <1>5 DEF RestartWireGuard
  <2>3. Typed' /\ Unprepared'
    BY <2>1, <2>2 DEF IInv, Typed, Unprepared
  <2>4. HandshakesPast'
    BY <2>1, <2>2 DEF IInv, Typed, HandshakesPast, Times
  <2>5. \A s \in Sessions : Fresh(s)'
    BY <2>1, <2>2 DEF IInv, Fresh, Typed, Thread
  <2>6. \A d \in Devices \ Excused' : Clean(d)'
    BY <2>1, <2>2 DEF IInv, Clean, At, Excused, Busy
  <2> QED
    BY <2>3, <2>4, <2>5, <2>6 DEF IInv
<1>6. CASE Restart
  BY <1>6, RestartKeeps
<1>7. CASE UNCHANGED vars
  BY <1>7, QuietKeeps DEF vars, history, IInv, Typed, Times
<1> QED
  BY <1>1, <1>2, <1>3, <1>4, <1>5, <1>6, <1>7 DEF Next

\* The inductive invariant of the traversal: what a thread remembers of its peer against
\* what WireGuard knows, however sessions, restarts and failures follow each other.
THEOREM Invariance == Spec => []IInv
BY InitInv, NextInv, PTL DEF Spec

\* An attempt succeeds only by a handshake of its own time (p2p.py: attempt_traversal),
\* for any number of sessions, whatever commands fail or restart.
THEOREM SuccessStaysFresh == Spec => []SuccessIsFresh
<1>1. IInv => SuccessIsFresh
  BY DEF IInv, Fresh, SuccessIsFresh
<1> QED
  BY <1>1, Invariance, PTL

\* Attempts that follow each other leave no keepalive of theirs behind (p2p.py: restore).
THEOREM NoProbeStays == Spec => []NoProbeLeft
<1>1. IInv => NoProbeLeft
  BY DEF IInv, Clean, At, NoProbeLeft, Owes, Excused, Probed
<1> QED
  BY <1>1, Invariance, PTL

\* The rest of TypeOK.
KeptTyped ==
  /\ attempts \in [Devices -> SUBSET (Sessions \X Times)]
  /\ mixed \subseteq Devices /\ lame \subseteq Devices /\ abandoned \subseteq Devices

LEMMA StepKept ==
  ASSUME Typed, KeptTyped, NEW s \in Sessions, Step(s)
  PROVE  KeptTyped'
<1>1. thread[s].device \in Devices
  BY DEF Typed, Thread
<1>2. UNCHANGED attempts
  BY DEF Step, Begin, Baseline, Aim, Punch, Miss, Confirm, Restore, Recover
<1>3. CASE Begin(s)
  BY <1>1, <1>2, <1>3 DEF Begin, KeptTyped
<1>4. CASE Baseline(s) \/ Aim(s) \/ Punch(s) \/ Miss(s) \/ Confirm(s)
  BY <1>1, <1>2, <1>4 DEF Baseline, Aim, Punch, Miss, Confirm, KeptTyped, history
<1>5. CASE Restore(s) \/ Recover(s)
  BY <1>1, <1>2, <1>5 DEF Restore, Recover, CannotPutBack, Retreat, KeptTyped
<1> QED
  BY <1>3, <1>4, <1>5 DEF Step

LEMMA NextKept == Typed /\ KeptTyped /\ [Next]_vars => KeptTyped'
<1> SUFFICES ASSUME Typed, KeptTyped, [Next]_vars PROVE KeptTyped'
  OBVIOUS
<1>1. ASSUME NEW d \in Devices, NEW s \in Sessions, Prepare(d, s) PROVE KeptTyped'
  <2>1. Recent(d) \subseteq Sessions \X Times /\ now \in Times
    BY DEF Recent, KeptTyped, Typed
  <2> QED
    BY <1>1, <2>1 DEF Prepare, KeptTyped, history
<1>2. ASSUME NEW s \in Sessions, Step(s) PROVE KeptTyped'
  BY <1>2, StepKept
<1>3. CASE Restart
  <2>1. \A s \in Sessions : thread[s].device \in Devices
    BY DEF Typed, Thread
  <2> QED
    BY <1>3, <2>1 DEF Restart, KeptTyped, Probed
<1>4. CASE (\E d \in Devices : Handshake(d)) \/ Status \/ RestartWireGuard \/ Tick
  BY <1>4 DEF Handshake, Status, RestartWireGuard, Tick, KeptTyped, history
<1>5. CASE UNCHANGED vars
  BY <1>5 DEF vars, history, KeptTyped
<1> QED
  BY <1>1, <1>2, <1>3, <1>4, <1>5 DEF Next

\* Sessions, attempts, threads and peers keep their types: no count of pings passes its
\* limit and no handshake or preparation is dated later than the clock goes.
THEOREM TypeCorrect == Spec => []TypeOK
<1>1. Init => KeptTyped
  BY DEF Init, KeptTyped
<1>2. IInv => Typed
  BY DEF IInv
<1>3. Typed /\ KeptTyped <=> TypeOK
  BY DEF Typed, KeptTyped, TypeOK
<1> QED
  BY <1>1, <1>2, <1>3, NextKept, Invariance, PTL DEF Spec
===============================================================================
