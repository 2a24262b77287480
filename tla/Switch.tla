-------------------------------- MODULE Switch --------------------------------
(***************************************************************************)
(* What update_engine.py promises: changing the release in force is one    *)
(* step.  Either every file of the new release is in force or none is, the *)
(* services run what is on the disk, and the outcome told is the outcome.  *)
(* Only a failed roll-back, which is told, and the death of the updater,   *)
(* which is not, leave some files old and some new, each of them whole.    *)
(***************************************************************************)
CONSTANTS
  Files,      \* files of the software, in the order they are installed
  Releases,   \* releases, in the order of their versions
  FilesOf,    \* the files each release brings
  First,      \* the release installed at the beginning
  Nothing     \* a file that does not exist; no release

VARIABLES
  inForce,    \* the release each file is of
  live,       \* every service runs the files on the disk
  target,     \* the release being switched to, or Nothing
  told        \* the last outcome recorded

switch == <<inForce, live, target, told>>

Fresh(v) == [f \in Files |-> IF f \in FilesOf[v] THEN v ELSE Nothing]

With(files, v) == [f \in Files |-> IF f \in FilesOf[v] THEN v ELSE files[f]]

Init ==
  /\ inForce = Fresh(First)
  /\ live = TRUE
  /\ target = Nothing
  /\ told = "nothing"

\* A switch begins; what is in force stays in force until it has ended.
Begin ==
  /\ target = Nothing
  /\ target' \in Releases
  /\ UNCHANGED <<inForce, live, told>>

\* Services stop agreeing with the disk and agree with it again.
Work ==
  /\ target # Nothing
  /\ live' \in BOOLEAN
  /\ UNCHANGED <<inForce, target, told>>

\* The new release is in force and told to be.
Succeed ==
  /\ target # Nothing
  /\ target' = Nothing
  /\ live /\ live'
  /\ inForce' = With(inForce, target)
  /\ told' = "updated"

\* The old files are in force and told to be.
Undo ==
  /\ target # Nothing
  /\ target' = Nothing
  /\ live /\ live'
  /\ inForce' = inForce
  /\ told' = "rolled back"

\* The files may be mixed: told as a failure, or the updater died.
Break ==
  /\ target # Nothing
  /\ target' = Nothing
  /\ live' \in BOOLEAN
  /\ inForce' \in [Files -> Releases \cup {Nothing}]
  /\ \A f \in Files : inForce'[f] \in {inForce[f], With(inForce, target)[f]}
  /\ told' \in {"failed", told}

\* Nothing was touched: the package was refused or no backup could be made.
Cancel ==
  /\ target = Nothing
  /\ told' = "aborted"
  /\ UNCHANGED <<inForce, live, target>>

\* The machine starts again.
Reboot ==
  /\ target = Nothing
  /\ live' = TRUE
  /\ UNCHANGED <<inForce, target, told>>

Next == Begin \/ Work \/ Succeed \/ Undo \/ Break \/ Cancel \/ Reboot

Spec == Init /\ [][Next]_switch

\* Every switch that begins comes to an end.
SwitchEnds == (target # Nothing) ~> (target = Nothing)
===============================================================================
