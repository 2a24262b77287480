-------------------------------- MODULE Update --------------------------------
(***************************************************************************)
(* apply_update (update_engine.py): preflight, backup of the configuration *)
(* and snapshot of the software, installation file by file, restart of the *)
(* services, health check, and the roll-back when one of them fails.  An   *)
(* updater holds update.lock throughout and may be killed at any point.    *)
(* Making the backup and restoring it are one step each here: Backup has   *)
(* the configuration and their detail.  Implements Switch.                 *)
(***************************************************************************)
EXTENDS Integers

CONSTANTS
  Updaters,    \* processes that call apply_update
  NoOne,       \* update.lock is free
  Files,       \* logical paths, numbered in the order they are sorted
  InitFile,    \* ge360_bridge/__init__.py, which holds __version__
  Releases,    \* numbered in the order of their versions
  FilesOf,     \* the files of each release's package
  First,       \* the release installed at the beginning
  Nothing,     \* a file that does not exist; no release
  Services     \* units, numbered in the order they are restarted

ASSUME ConstantsAssumption ==
  /\ NoOne \notin Updaters
  /\ Files \subseteq Nat /\ InitFile \in Files
  /\ Services \subseteq Nat
  /\ Releases \subseteq Nat /\ First \in Releases
  /\ Nothing \in Int \ Nat     \* below every release: a version can be compared
  /\ FilesOf \in [Releases -> SUBSET Files]
  /\ \A v \in Releases : InitFile \in FilesOf[v]   \* REQUIRED_RUNTIME_PATHS

VARIABLES
  file,        \* the release each installed file is of
  stale,       \* services not restarted since a file was last written
  lock,        \* holder of update.lock, or NoOne
  told,        \* the outcome in last-update.json
  run          \* each updater's control point and local variables

vars == <<file, stale, lock, told, run>>

-----------------------------------------------------------------------------
Installed == Releases \cup {Nothing}
Outcomes  == {"nothing", "updated", "rolled back", "failed", "aborted"}
Labels    == {"idle", "waiting", "backup", "snapshot", "install", "restart",
              "undo", "reconfigure", "record"}
Image     == [Files -> Installed]
Run       == [pc: Labels, pkg: Installed, mine: Installed, before: Image,
              done: SUBSET Files, kept: BOOLEAN, back: BOOLEAN, out: Outcomes]

Fresh(v) == [f \in Files |-> IF f \in FilesOf[v] THEN v ELSE Nothing]

NoRun == [pc |-> "idle", pkg |-> Nothing, mine |-> Nothing, before |-> Fresh(First),
          done |-> {}, kept |-> FALSE, back |-> FALSE, out |-> "nothing"]

\* _version_tuple: only the numbers count, and they are compared.
Newer(v, w) == v > w

\* x is the one whose turn it is: files and units are taken in order.
Foremost(x, S) == \A y \in S : x <= y

\* The files of the package that p has not come to yet.
Left(p) == FilesOf[run[p].pkg] \ run[p].done

Leave(p) == lock' = NoOne /\ run' = [run EXCEPT ![p] = NoRun]

-----------------------------------------------------------------------------
\* update-run or update-apply: the process loads __version__ as it is now, has
\* its package (downloaded and complete) and asks for the lock.
Start(p) ==
  /\ run[p].pc = "idle"
  /\ \E v \in Releases :
       run' = [run EXCEPT ![p] = [NoRun EXCEPT !.pc = "waiting", !.pkg = v,
                                               !.mine = file[InitFile]]]
  /\ UNCHANGED <<file, stale, lock, told>>

\* Mutant: no lock is waited for.
PreflightUnlocked(p) ==
  /\ run[p].pc = "waiting"
  /\ Newer(run[p].pkg, run[p].mine)
  /\ lock' = p
  /\ run' = [run EXCEPT ![p].pc = "backup"]
  /\ UNCHANGED <<file, stale, told>>

\* The package is whole, newer than __version__ and passes preflight.
Preflight(p) ==
  /\ run[p].pc = "waiting"
  /\ lock = NoOne
  /\ Newer(run[p].pkg, run[p].mine)
  /\ lock' = p
  /\ run' = [run EXCEPT ![p].pc = "backup"]
  /\ UNCHANGED <<file, stale, told>>

\* It is not newer, or damaged.
Refuse(p) ==
  /\ run[p].pc = "waiting"
  /\ lock = NoOne
  /\ run' = [run EXCEPT ![p] = NoRun]
  /\ UNCHANGED <<file, stale, lock, told>>

\* create_backup(reason="pre-update").
BackUp(p) ==
  /\ run[p].pc = "backup"
  /\ run' = [run EXCEPT ![p].pc = "snapshot", ![p].kept = TRUE]
  /\ UNCHANGED <<file, stale, lock, told>>

\* Mutant: a file that does not exist is put on record as an empty one.
SnapshotEmpty(p) ==
  /\ run[p].pc = "snapshot"
  /\ run' = [run EXCEPT ![p].pc = "install", ![p].before =
       [f \in Files |-> IF file[f] = Nothing THEN 0 ELSE file[f]]]
  /\ UNCHANGED <<file, stale, lock, told>>

\* _create_software_rollback: each file of the package as it is, or its absence.
Snapshot(p) ==
  /\ run[p].pc = "snapshot"
  /\ run' = [run EXCEPT ![p].pc = "install", ![p].before = file]
  /\ UNCHANGED <<file, stale, lock, told>>

\* Neither can be made: nothing has been touched.
Abort(p) ==
  /\ run[p].pc \in {"backup", "snapshot"}
  /\ run' = [run EXCEPT ![p].pc = "record", ![p].out = "aborted"]
  /\ UNCHANGED <<file, stale, lock, told>>

\* _atomic_install of the next file.
InstallFile(p) ==
  /\ run[p].pc = "install"
  /\ \E f \in Left(p) :
       /\ Foremost(f, Left(p))
       /\ file' = [file EXCEPT ![f] = run[p].pkg]
       /\ run' = [run EXCEPT ![p].done = @ \cup {f}]
  /\ stale' = Services
  /\ UNCHANGED <<lock, told>>

Installation(p) ==
  /\ run[p].pc = "install"
  /\ Left(p) = {}
  /\ run' = [run EXCEPT ![p].pc = "restart"]
  /\ UNCHANGED <<file, stale, lock, told>>

\* restart_runtime: the next unit is restarted on what is on the disk.
RestartService(p) ==
  /\ run[p].pc = "restart"
  /\ \E s \in stale : Foremost(s, stale) /\ stale' = stale \ {s}
  /\ UNCHANGED <<file, lock, told, run>>

\* Mutant: the health check does not wait for all the restarts.
HealthyEarly(p) ==
  /\ run[p].pc = "restart"
  /\ run' = [run EXCEPT ![p].pc = "record", ![p].out =
                          IF run[p].back THEN "rolled back" ELSE "updated"]
  /\ UNCHANGED <<file, stale, lock, told>>

\* health_check_runtime turns green.
Healthy(p) ==
  /\ run[p].pc = "restart"
  /\ stale = {}
  /\ run' = [run EXCEPT ![p].pc = "record", ![p].out =
                          IF run[p].back THEN "rolled back" ELSE "updated"]
  /\ UNCHANGED <<file, stale, lock, told>>

\* Mutant: a roll-back that fails is tried again.
FailAgain(p) ==
  /\ \/ run[p].pc \in {"install", "restart"}
     \/ run[p].pc = "record" /\ run[p].out = "updated"
  /\ run' = [run EXCEPT ![p].pc = "undo", ![p].back = TRUE, ![p].done = {}]
  /\ UNCHANGED <<file, stale, lock, told>>

\* A file, a restart, the health check or writing the history fails.
Fail(p) ==
  /\ ~run[p].back
  /\ \/ run[p].pc \in {"install", "restart"}
     \/ run[p].pc = "record" /\ run[p].out = "updated"
  /\ run' = [run EXCEPT ![p].pc = "undo", ![p].back = TRUE, ![p].done = {}]
  /\ UNCHANGED <<file, stale, lock, told>>

\* _restore_software_rollback, the next file: put back, or removed.
UndoFile(p) ==
  /\ run[p].pc = "undo"
  /\ \E f \in Left(p) :
       /\ Foremost(f, Left(p))
       /\ file' = [file EXCEPT ![f] = run[p].before[f]]
       /\ run' = [run EXCEPT ![p].done = @ \cup {f}]
  /\ stale' = Services
  /\ UNCHANGED <<lock, told>>

Restored(p) ==
  /\ run[p].pc = "undo"
  /\ Left(p) = {}
  /\ run' = [run EXCEPT ![p].pc = "reconfigure"]
  /\ UNCHANGED <<file, stale, lock, told>>

\* restore_backup, if the archive has not been pruned.
Reconfigure(p) ==
  /\ run[p].pc = "reconfigure"
  /\ run[p].kept
  /\ run' = [run EXCEPT ![p].pc = "restart"]
  /\ UNCHANGED <<file, stale, lock, told>>

\* The roll-back fails, because the backup has been pruned or for any reason.
FailBack(p) ==
  /\ run[p].back
  /\ run[p].pc \in {"undo", "reconfigure", "restart"}
  /\ run' = [run EXCEPT ![p].pc = "record", ![p].out = "failed"]
  /\ UNCHANGED <<file, stale, lock, told>>

\* _write_history, and the end.
Record(p) ==
  /\ run[p].pc = "record"
  /\ told' = run[p].out
  /\ Leave(p)
  /\ UNCHANGED <<file, stale>>

\* The history of a failure cannot be written: the error is raised instead.
LoseRecord(p) ==
  /\ run[p].pc = "record"
  /\ run[p].out # "updated"
  /\ Leave(p)
  /\ UNCHANGED <<file, stale, told>>

\* The updater is killed or interrupted: neither is an Exception.
Crash(p) ==
  /\ run[p].pc # "idle"
  /\ lock' = IF lock = p THEN NoOne ELSE lock
  /\ run' = [run EXCEPT ![p] = NoRun]
  /\ UNCHANGED <<file, stale, told>>

Reboot ==
  /\ lock' = NoOne
  /\ stale' = {}
  /\ run' = [p \in Updaters |-> NoRun]
  /\ UNCHANGED <<file, told>>

\* Another create_backup, with a small retention, deletes p's backup.
Prune(p) ==
  /\ run[p].kept
  /\ run' = [run EXCEPT ![p].kept = FALSE]
  /\ UNCHANGED <<file, stale, lock, told>>

-----------------------------------------------------------------------------
Init ==
  /\ file = Fresh(First)
  /\ stale = {}
  /\ lock = NoOne
  /\ told = "nothing"
  /\ run = [p \in Updaters |-> NoRun]

\* One step of the code of p, good or bad.
Step(p) ==
  \/ Preflight(p) \/ Refuse(p) \/ BackUp(p) \/ Snapshot(p) \/ Abort(p)
  \/ InstallFile(p) \/ Installation(p) \/ RestartService(p) \/ Healthy(p)
  \/ Fail(p) \/ UndoFile(p) \/ Restored(p) \/ Reconfigure(p) \/ FailBack(p)
  \/ Record(p) \/ LoseRecord(p)

Next ==
  \/ \E p \in Updaters : Start(p) \/ Step(p) \/ Crash(p) \/ Prune(p)
  \/ Reboot

Spec == Init /\ [][Next]_vars

\* A process that runs is scheduled: its calls return or time out.
FairSpec == Spec /\ \A p \in Updaters : WF_vars(Step(p))

-----------------------------------------------------------------------------
TypeOK ==
  /\ file \in Image
  /\ stale \subseteq Services
  /\ lock \in Updaters \cup {NoOne}
  /\ told \in Outcomes
  /\ run \in [Updaters -> Run]
  /\ \A p \in Updaters : run[p].pc # "idle" => run[p].pkg \in Releases

\* Control points where the files may differ from what they were.
Changing(p) ==
  \/ run[p].pc \in {"install", "restart", "undo", "reconfigure"}
  \/ run[p].pc = "record" /\ run[p].out # "aborted"

Working == lock # NoOne /\ Changing(lock)

\* Only the holder of the lock is past the preflight, and so writes files.
OneInstaller ==
  \A p \in Updaters : run[p].pc \notin {"idle", "waiting"} => lock = p

\* As long as an update may still be undone, each file is the one on record or
\* the package's, and a file the package does not bring is the one on record:
\* restoring the snapshot brings all of the old software back.
Undoable ==
  \A p \in Updaters : Changing(p) =>
    \A f \in Files : \/ file[f] = run[p].before[f]
                     \/ f \in FilesOf[run[p].pkg] /\ file[f] = run[p].pkg

\* What is in force: until an update has ended, what it found.
InForce == IF Working THEN run[lock].before ELSE file
Target  == IF Working THEN run[lock].pkg ELSE Nothing

Abstract == INSTANCE Switch WITH
  inForce <- InForce, live <- stale = {}, target <- Target

\* An update is all or nothing, and what last-update.json says of it is true.
ImplementsSwitch == Abstract!Spec

\* No error path keeps an update from ending.
UpdateEnds == Abstract!SwitchEnds
===============================================================================
