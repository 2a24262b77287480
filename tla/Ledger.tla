-------------------------------- MODULE Ledger --------------------------------
(***************************************************************************)
(* What pairing.py promises of its invites: each is open for one name,     *)
(* until it is used or expires, and is never open again; using it is one   *)
(* step, and owes at most one answer, with a device no one else is         *)
(* answered with.  An answer may be lost, and is not owed again.           *)
(***************************************************************************)
CONSTANTS
  Invites,
  Names,
  Nobody      \* the name of an invite that is not open

VARIABLES
  state,      \* of each invite
  name,       \* the device name each open invite is for
  due,        \* the devices that each invite has still to be answered with
  answered    \* those it has been answered with

ledger == <<state, name, due, answered>>

Init ==
  /\ state = [e \in Invites |-> "absent"]
  /\ name = [e \in Invites |-> Nobody]
  /\ due = [e \in Invites |-> {}]
  /\ answered = [e \in Invites |-> {}]

\* Time passes over e: it expires, or is forgotten some time after its end.
Ages(e) ==
  /\ \/ state'[e] = state[e]
     \/ state[e] = "pending" /\ state'[e] = "expired"
     \/ state[e] \in {"used", "expired"} /\ state'[e] = "dropped"
  /\ name'[e] = IF state'[e] = "pending" THEN name[e] ELSE Nobody

Tidy ==
  /\ \A e \in Invites : Ages(e)
  /\ UNCHANGED <<due, answered>>

\* No other open invite is for the name.
Issue(e) ==
  /\ state[e] = "absent" /\ state'[e] = "pending"
  /\ name'[e] \in Names
  /\ \A f \in Invites \ {e} : Ages(f) /\ name'[f] # name'[e]
  /\ UNCHANGED <<due, answered>>

Taken == UNION {due[e] \cup answered[e] : e \in Invites}

\* With an answer due or, when its name is taken, without.
Use(e) ==
  /\ state[e] = "pending" /\ state'[e] = "used"
  /\ name'[e] = Nobody
  /\ \A f \in Invites \ {e} : Ages(f) /\ due'[f] = due[f]
  /\ \A c, d \in due'[e] : c = d
  /\ due'[e] \cap Taken = {}
  /\ UNCHANGED answered

Answer(e) ==
  /\ due[e] # {}
  /\ due' = [due EXCEPT ![e] = {}]
  /\ answered' = [answered EXCEPT ![e] = @ \cup due[e]]
  /\ UNCHANGED <<state, name>>

Lose ==
  /\ \A e \in Invites : due'[e] \in {due[e], {}}
  /\ UNCHANGED <<state, name, answered>>

Next == Tidy \/ Lose \/ \E e \in Invites : Issue(e) \/ Use(e) \/ Answer(e)

Spec == Init /\ [][Next]_ledger
===============================================================================
