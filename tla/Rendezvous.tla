------------------------------ MODULE Rendezvous ------------------------------
(***************************************************************************)
(* What the relay promises of its sessions, as device and Bridge see it:   *)
(* a session is booked for one device, if there is room and the device has *)
(* none that is in time; it becomes ACTIVE only after the Bridge has       *)
(* pointed the device's peer at it; it ends only once it was found overdue, *)
(* even if it is no longer, or with all others; and a device is told of no *)
(* ACTIVE session but its own.                                             *)
(***************************************************************************)
EXTENDS Naturals, FiniteSets

CONSTANTS Devices, Sessions, MaxSessions,
          None      \* no device, no session

VARIABLES
  stage,     \* of each session
  owner,     \* the device it is for
  overdue,   \* the open sessions that have exceeded a lifetime
  condemned, \* those that were found to be overdue and are about to end
  asked,     \* those the Bridge has asked to activate
  peer,      \* the session the Bridge's peer for each device points at
  told,      \* the session each device has been told is ACTIVE
  restarts   \* of the relay

meeting == <<stage, owner, overdue, condemned, asked, peer, told, restarts>>

Open == {s \in Sessions : stage[s] \in {"WAITING_BRIDGE", "ACTIVE"}}

Init ==
  /\ stage = [s \in Sessions |-> "unused"]
  /\ owner = [s \in Sessions |-> None]
  /\ overdue = {} /\ condemned = {} /\ asked = {} /\ restarts = 0
  /\ peer = [d \in Devices |-> None]
  /\ told = [d \in Devices |-> None]

\* A device learns of an ACTIVE session of its own, or forgets.
Tells ==
  \A d \in Devices :
    \/ told'[d] \in {told[d], None}
    \/ told'[d] \in Open /\ owner[told'[d]] = d /\ stage'[told'[d]] = "ACTIVE"

\* Time passes, datagrams come, sessions that are overdue may be condemned, and those
\* that are condemned end.
Age ==
  /\ UNCHANGED <<owner, asked, peer, restarts>>
  /\ \A s \in Sessions : \/ stage'[s] = stage[s]
                         \/ s \in condemned /\ stage'[s] = "closed"
  /\ condemned' \subseteq condemned \cup overdue
  /\ overdue' \subseteq Open'
  /\ Tells

Book(s, d) ==
  /\ stage[s] = "unused" /\ Cardinality(Open) < MaxSessions
  /\ \A u \in Open : owner[u] = d => u \in overdue
  /\ stage' = [stage EXCEPT ![s] = "WAITING_BRIDGE"]
  /\ owner' = [owner EXCEPT ![s] = d]
  /\ UNCHANGED <<overdue, condemned, asked, peer, told, restarts>>

\* The Bridge points its peer at the session and asks for its activation.
Point(s) ==
  /\ stage[s] # "unused"
  /\ asked' = asked \cup {s}
  /\ peer' = [peer EXCEPT ![owner[s]] = s]
  /\ UNCHANGED <<stage, owner, overdue, condemned, told, restarts>>

Activate(s) ==
  /\ s \in asked \cap Open
  /\ stage' = [stage EXCEPT ![s] = "ACTIVE"]
  /\ asked' = asked \ {s}
  /\ overdue' \subseteq Open
  /\ UNCHANGED <<owner, condemned, peer, told, restarts>>

\* The request is lost, or comes when the session has ended.
Miss(s) ==
  /\ asked' = asked \ {s}
  /\ UNCHANGED <<stage, owner, overdue, condemned, peer, told, restarts>>

Leave(d) ==
  /\ peer' = [peer EXCEPT ![d] = None]
  /\ UNCHANGED <<stage, owner, overdue, condemned, asked, told, restarts>>

Restart ==
  /\ stage' = [s \in Sessions |-> IF s \in Open THEN "closed" ELSE stage[s]]
  /\ overdue' = {} /\ condemned' = {}
  /\ restarts' = restarts + 1
  /\ \A d \in Devices : told'[d] \in {told[d], None}
  /\ UNCHANGED <<owner, asked, peer>>

Next ==
  \/ Age \/ Restart
  \/ \E s \in Sessions : Point(s) \/ Activate(s) \/ Miss(s)
  \/ \E d \in Devices : Leave(d) \/ \E s \in Sessions : Book(s, d)

Spec == Init /\ [][Next]_meeting
===============================================================================
