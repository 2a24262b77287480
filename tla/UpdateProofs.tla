---------------------------- MODULE UpdateProofs ----------------------------
(***************************************************************************)
(* Theorems about Update, for every number of updaters, files, releases    *)
(* and services: its invariants, and that it implements Switch.            *)
(***************************************************************************)
EXTENDS Update, TLAPS

-----------------------------------------------------------------------------
(* Types.                                                                   *)

LEMMA NothingApart == Nothing \notin Releases
BY ConstantsAssumption

LEMMA FreshTyped == First \in Releases /\ Fresh(First) \in Image
BY ConstantsAssumption DEF Fresh, Image, Installed

LEMMA NoRunTyped == NoRun \in Run
BY FreshTyped DEF NoRun, Run, Labels, Outcomes, Installed

LEMMA InitTyped == Init => TypeOK
BY FreshTyped, NoRunTyped DEF Init, TypeOK, Outcomes, NoRun

\* A step of p changes p's record alone.
LEMMA RunTyped ==
  ASSUME TypeOK, NEW p \in Updaters, NEW r \in Run,
         r.pc # "idle" => r.pkg \in Releases, run' = [run EXCEPT ![p] = r]
  PROVE  /\ run' \in [Updaters -> Run]
         /\ \A q \in Updaters : run'[q].pc # "idle" => run'[q].pkg \in Releases
BY DEF TypeOK

LEMMA StepTyped ==
  ASSUME TypeOK, NEW p \in Updaters, Step(p)
  PROVE  TypeOK'
<1>0. run[p] \in Run /\ (run[p].pc # "idle" => run[p].pkg \in Releases)
  BY DEF TypeOK
<1>1. CASE Preflight(p)
  <2>1. [run[p] EXCEPT !.pc = "backup"] \in Run
    BY <1>0 DEF Run, Labels
  <2> QED
    BY <1>0, <1>1, <2>1, RunTyped DEF Preflight, TypeOK
<1>2. CASE BackUp(p)
  <2>1. [run[p] EXCEPT !.pc = "snapshot", !.kept = TRUE] \in Run
    BY <1>0 DEF Run, Labels
  <2> QED
    BY <1>0, <1>2, <2>1, RunTyped DEF BackUp, TypeOK
<1>3. CASE Snapshot(p)
  <2>1. [run[p] EXCEPT !.pc = "install", !.before = file] \in Run
    BY <1>0 DEF Run, Labels, TypeOK
  <2> QED
    BY <1>0, <1>3, <2>1, RunTyped DEF Snapshot, TypeOK
<1>4. CASE Abort(p)
  <2>1. [run[p] EXCEPT !.pc = "record", !.out = "aborted"] \in Run
    BY <1>0 DEF Run, Labels, Outcomes
  <2> QED
    BY <1>0, <1>4, <2>1, RunTyped DEF Abort, TypeOK
<1>5. CASE InstallFile(p)
  <2>1. PICK f \in Left(p) : /\ file' = [file EXCEPT ![f] = run[p].pkg]
                             /\ run' = [run EXCEPT ![p].done = @ \cup {f}]
    BY <1>5 DEF InstallFile
  <2>2. f \in Files /\ run[p].pkg \in Releases
    BY <1>0, <1>5, <2>1, ConstantsAssumption DEF InstallFile, Left
  <2>3. [run[p] EXCEPT !.done = @ \cup {f}] \in Run
    BY <1>0, <2>2 DEF Run
  <2>4. file' \in Image
    BY <2>1, <2>2 DEF TypeOK, Image, Installed
  <2> DEFINE r == [run[p] EXCEPT !.done = @ \cup {f}]
  <2>5. run' = [run EXCEPT ![p] = r] /\ r.pc = run[p].pc /\ r.pkg = run[p].pkg
    BY <1>0, <2>1 DEF TypeOK, Run
  <2> HIDE DEF r
  <2> QED
    BY <1>0, <1>5, <2>3, <2>4, <2>5, RunTyped DEF InstallFile, TypeOK, r
<1>6. CASE Installation(p)
  <2>1. [run[p] EXCEPT !.pc = "restart"] \in Run
    BY <1>0 DEF Run, Labels
  <2> QED
    BY <1>0, <1>6, <2>1, RunTyped DEF Installation, TypeOK
<1>7. CASE RestartService(p)
  BY <1>7 DEF RestartService, TypeOK
<1>8. CASE Healthy(p)
  <2> DEFINE out == IF run[p].back THEN "rolled back" ELSE "updated"
  <2>1. out \in Outcomes
    BY DEF Outcomes
  <2>2. [run[p] EXCEPT !.pc = "record", !.out = out] \in Run
    BY <1>0, <2>1 DEF Run, Labels
  <2>3. /\ run' = [run EXCEPT ![p].pc = "record", ![p].out = out]
        /\ run[p].pc = "restart"
        /\ UNCHANGED <<file, stale, lock, told>>
    BY <1>8 DEF Healthy
  <2> HIDE DEF out
  <2> QED
    BY <1>0, <2>2, <2>3, RunTyped DEF TypeOK
<1>9. CASE Fail(p)
  <2>1. [run[p] EXCEPT !.pc = "undo", !.back = TRUE, !.done = {}] \in Run
    BY <1>0 DEF Run, Labels
  <2> QED
    BY <1>0, <1>9, <2>1, RunTyped DEF Fail, TypeOK
<1>10. CASE UndoFile(p)
  <2>1. PICK f \in Left(p) : /\ file' = [file EXCEPT ![f] = run[p].before[f]]
                             /\ run' = [run EXCEPT ![p].done = @ \cup {f}]
    BY <1>10 DEF UndoFile
  <2>2. f \in Files /\ run[p].before \in Image
    BY <1>0, <1>10, <2>1, ConstantsAssumption DEF UndoFile, Left, Run
  <2>3. [run[p] EXCEPT !.done = @ \cup {f}] \in Run
    BY <1>0, <2>2 DEF Run
  <2>4. file' \in Image
    BY <2>1, <2>2 DEF TypeOK, Image
  <2> DEFINE r == [run[p] EXCEPT !.done = @ \cup {f}]
  <2>5. run' = [run EXCEPT ![p] = r] /\ r.pc = run[p].pc /\ r.pkg = run[p].pkg
    BY <1>0, <2>1 DEF TypeOK, Run
  <2> HIDE DEF r
  <2> QED
    BY <1>0, <1>10, <2>3, <2>4, <2>5, RunTyped DEF UndoFile, TypeOK, r
<1>11. CASE Restored(p)
  <2>1. [run[p] EXCEPT !.pc = "reconfigure"] \in Run
    BY <1>0 DEF Run, Labels
  <2> QED
    BY <1>0, <1>11, <2>1, RunTyped DEF Restored, TypeOK
<1>12. CASE Reconfigure(p)
  <2>1. [run[p] EXCEPT !.pc = "restart"] \in Run
    BY <1>0 DEF Run, Labels
  <2> QED
    BY <1>0, <1>12, <2>1, RunTyped DEF Reconfigure, TypeOK
<1>13. CASE FailBack(p)
  <2>1. [run[p] EXCEPT !.pc = "record", !.out = "failed"] \in Run
    BY <1>0 DEF Run, Labels, Outcomes
  <2> QED
    BY <1>0, <1>13, <2>1, RunTyped DEF FailBack, TypeOK
<1>14. CASE Refuse(p) \/ Record(p) \/ LoseRecord(p)
  <2>1. run' = [run EXCEPT ![p] = NoRun] /\ NoRun.pc = "idle"
    BY <1>14 DEF Refuse, Record, LoseRecord, Leave, NoRun
  <2>2. told' \in Outcomes
    BY <1>0, <1>14 DEF Refuse, Record, LoseRecord, TypeOK, Run
  <2> QED
    BY <1>14, <2>1, <2>2, NoRunTyped, RunTyped
       DEF Refuse, Record, LoseRecord, Leave, TypeOK
<1> QED
  BY <1>1, <1>2, <1>3, <1>4, <1>5, <1>6, <1>7, <1>8, <1>9, <1>10, <1>11, <1>12,
     <1>13, <1>14 DEF Step

LEMMA NextTyped == TypeOK /\ [Next]_vars => TypeOK'
<1> SUFFICES ASSUME TypeOK, [Next]_vars
             PROVE  TypeOK'
  OBVIOUS
<1>1. ASSUME NEW p \in Updaters, Step(p)
      PROVE  TypeOK'
  BY <1>1, StepTyped
<1>2. ASSUME NEW p \in Updaters, Start(p)
      PROVE  TypeOK'
  <2>1. PICK v \in Releases :
          run' = [run EXCEPT ![p] = [NoRun EXCEPT !.pc = "waiting", !.pkg = v,
                                                  !.mine = file[InitFile]]]
    BY <1>2 DEF Start
  <2>2. file[InitFile] \in Installed
    BY ConstantsAssumption DEF TypeOK, Image
  <2>3. [NoRun EXCEPT !.pc = "waiting", !.pkg = v, !.mine = file[InitFile]] \in Run
    BY <2>2, NoRunTyped DEF Run, Labels, Installed
  <2>4. [NoRun EXCEPT !.pc = "waiting", !.pkg = v, !.mine = file[InitFile]].pkg = v
    BY DEF NoRun
  <2> QED
    BY <1>2, <2>1, <2>3, <2>4, RunTyped DEF Start, TypeOK
<1>3. ASSUME NEW p \in Updaters, Crash(p)
      PROVE  TypeOK'
  <2>1. NoRun.pc = "idle"
    BY DEF NoRun
  <2> QED
    BY <1>3, <2>1, NoRunTyped, RunTyped DEF Crash, TypeOK
<1>4. ASSUME NEW p \in Updaters, Prune(p)
      PROVE  TypeOK'
  <2>1. [run[p] EXCEPT !.kept = FALSE] \in Run
    BY DEF Run, TypeOK
  <2> QED
    BY <1>4, <2>1, RunTyped DEF Prune, TypeOK
<1>5. CASE Reboot
  BY <1>5, NoRunTyped DEF Reboot, TypeOK, NoRun
<1>6. CASE UNCHANGED vars
  BY <1>6 DEF vars, TypeOK
<1> QED
  BY <1>1, <1>2, <1>3, <1>4, <1>5, <1>6 DEF Next

\* Every variable keeps its type.
THEOREM TypeCorrect == Spec => []TypeOK
BY InitTyped, NextTyped, PTL DEF Spec

-----------------------------------------------------------------------------
(* The inductive invariant: at each control point, what is on the disk, in  *)
(* terms of the record of the old software and of the package.              *)

Replaced(p) == [f \in Files |-> IF f \in FilesOf[run[p].pkg] THEN run[p].pkg
                                                             ELSE run[p].before[f]]

Outcome(p, out) == run[p].pc = "record" /\ run[p].out = out

Early == {"idle", "waiting", "backup", "snapshot"}

Phase(p) ==
  /\ run[p].pc \in Early => ~run[p].back /\ run[p].done = {}
  /\ run[p].pc = "install" =>
       /\ ~run[p].back
       /\ \A f \in Files : file[f] = IF f \in run[p].done THEN Replaced(p)[f]
                                                       ELSE run[p].before[f]
  /\ run[p].pc = "restart" =>
       file = IF run[p].back THEN run[p].before ELSE Replaced(p)
  /\ run[p].pc \in {"undo", "reconfigure"} => run[p].back
  /\ run[p].pc = "undo" \/ Outcome(p, "failed") =>
       \A f \in Files : file[f] \in {run[p].before[f], Replaced(p)[f]}
  /\ run[p].pc = "undo" => \A f \in run[p].done : file[f] = run[p].before[f]
  /\ run[p].pc = "reconfigure" => file = run[p].before
  /\ Outcome(p, "updated") => ~run[p].back /\ stale = {} /\ file = Replaced(p)
  /\ Outcome(p, "rolled back") => stale = {} /\ file = run[p].before
  /\ ~Outcome(p, "nothing")

IInv == TypeOK /\ OneInstaller /\ \A p \in Updaters : Phase(p)

LEMMA InitPhase == Init => OneInstaller /\ \A p \in Updaters : Phase(p)
<1> SUFFICES ASSUME Init, NEW p \in Updaters
             PROVE  (run[p].pc \notin {"idle", "waiting"} => lock = p) /\ Phase(p)
  BY DEF OneInstaller
<1>1. run[p].pc = "idle" /\ ~run[p].back /\ run[p].done = {}
  BY DEF Init, NoRun
<1> QED
  BY <1>1 DEF Phase, Outcome, Early

\* While p is past the preflight, the others are not: what is on the disk does
\* not concern them.
LEMMA OthersWait ==
  ASSUME IInv, NEW p \in Updaters, run[p].pc \notin {"idle", "waiting"},
         NEW q \in Updaters, q # p
  PROVE  run[q].pc \in {"idle", "waiting"}
BY DEF IInv, OneInstaller

LEMMA WaitingPhase ==
  ASSUME TypeOK, NEW q \in Updaters, run[q].pc \in {"idle", "waiting"},
         Phase(q), run'[q] = run[q]
  PROVE  Phase(q)'
BY DEF Phase, Outcome, Early

LEMMA SamePhase ==
  ASSUME NEW q \in Updaters, Phase(q), UNCHANGED <<file, stale>>,
         run'[q].pc = run[q].pc, run'[q].back = run[q].back,
         run'[q].done = run[q].done, run'[q].before = run[q].before,
         run'[q].pkg = run[q].pkg, run'[q].out = run[q].out
  PROVE  Phase(q)'
<1>1. /\ Replaced(q)' = Replaced(q)
      /\ Outcome(q, "failed")' = Outcome(q, "failed")
      /\ Outcome(q, "updated")' = Outcome(q, "updated")
      /\ Outcome(q, "rolled back")' = Outcome(q, "rolled back")
      /\ Outcome(q, "nothing")' = Outcome(q, "nothing")
  BY DEF Replaced, Outcome
<1> QED
  BY <1>1 DEF Phase

\* The effect of a step of p on the others.
LEMMA StepOthers ==
  ASSUME IInv, NEW p \in Updaters, Step(p), NEW q \in Updaters, q # p
  PROVE  Phase(q)'
<1>1. run'[q] = run[q]
  BY DEF Step, Preflight, Refuse, BackUp, Snapshot, Abort, InstallFile, Installation,
         RestartService, Healthy, Fail, UndoFile, Restored, Reconfigure, FailBack,
         Record, LoseRecord, Leave, IInv, TypeOK
<1>2. CASE run[p].pc \in {"idle", "waiting"}
  <2>1. UNCHANGED <<file, stale>>
    BY <1>2 DEF Step, Preflight, Refuse, BackUp, Snapshot, Abort, InstallFile,
         Installation, RestartService, Healthy, Fail, UndoFile, Restored, Reconfigure,
         FailBack, Record, LoseRecord
  <2>2. Phase(q)
    BY DEF IInv
  <2> QED
    BY <1>1, <2>1, <2>2, SamePhase
<1>3. CASE run[p].pc \notin {"idle", "waiting"}
  <2>1. run[q].pc \in {"idle", "waiting"} /\ Phase(q) /\ TypeOK
    BY <1>3, OthersWait DEF IInv
  <2> QED
    BY <1>1, <2>1, WaitingPhase
<1> QED
  BY <1>2, <1>3

LEMMA InstallPhase ==
  ASSUME IInv, NEW p \in Updaters, InstallFile(p)
  PROVE  Phase(p)'
<1>0. TypeOK /\ Phase(p) /\ run[p] \in Run /\ run[p].pkg \in Releases
  BY DEF IInv, TypeOK, InstallFile
<1>1. PICK f \in Left(p) : /\ file' = [file EXCEPT ![f] = run[p].pkg]
                           /\ run' = [run EXCEPT ![p].done = @ \cup {f}]
  BY DEF InstallFile
<1>2. f \in FilesOf[run[p].pkg] /\ f \in Files
  BY <1>0, <1>1, ConstantsAssumption DEF Left
<1>3. /\ run'[p].pc = "install" /\ run'[p].back = run[p].back
      /\ run'[p].done = run[p].done \cup {f} /\ run'[p].before = run[p].before
      /\ Replaced(p)' = Replaced(p) /\ Replaced(p)[f] = run[p].pkg
  BY <1>0, <1>1, <1>2 DEF InstallFile, Replaced, TypeOK, Run
<1>4. /\ ~run[p].back
      /\ \A g \in Files : file[g] = IF g \in run[p].done THEN Replaced(p)[g]
                                                       ELSE run[p].before[g]
  BY <1>0 DEF Phase, InstallFile
<1>5. \A g \in Files : file'[g] = IF g \in run'[p].done THEN Replaced(p)[g]
                                                      ELSE run[p].before[g]
  BY <1>0, <1>1, <1>2, <1>3, <1>4 DEF TypeOK, Image
<1> QED
  BY <1>3, <1>4, <1>5 DEF Phase, Outcome, Early

LEMMA UndoPhase ==
  ASSUME IInv, NEW p \in Updaters, UndoFile(p)
  PROVE  Phase(p)'
<1>0. TypeOK /\ Phase(p) /\ run[p] \in Run /\ run[p].pkg \in Releases
  BY DEF IInv, TypeOK, UndoFile
<1>1. PICK f \in Left(p) : /\ file' = [file EXCEPT ![f] = run[p].before[f]]
                           /\ run' = [run EXCEPT ![p].done = @ \cup {f}]
  BY DEF UndoFile
<1>2. f \in Files
  BY <1>0, <1>1, ConstantsAssumption DEF Left
<1>3. /\ run'[p].pc = "undo" /\ run'[p].back = run[p].back
      /\ run'[p].done = run[p].done \cup {f} /\ run'[p].before = run[p].before
      /\ Replaced(p)' = Replaced(p)
  BY <1>0, <1>1, <1>2 DEF UndoFile, Replaced, TypeOK, Run
<1>4. /\ run[p].back /\ run[p].done \subseteq Files
      /\ \A g \in Files : file[g] \in {run[p].before[g], Replaced(p)[g]}
      /\ \A g \in run[p].done : file[g] = run[p].before[g]
  BY <1>0 DEF Phase, UndoFile, Run
<1>5. /\ \A g \in Files : file'[g] \in {run[p].before[g], Replaced(p)[g]}
      /\ \A g \in run'[p].done : file'[g] = run[p].before[g]
  BY <1>0, <1>1, <1>2, <1>3, <1>4 DEF TypeOK, Image
<1> QED
  BY <1>3, <1>4, <1>5 DEF Phase, Outcome, Early

\* Once no file is left, the disk is the package's, or again what it was.
LEMMA AllDone ==
  ASSUME IInv, NEW p \in Updaters, Left(p) = {}
  PROVE  /\ run[p].pc = "install" => file = Replaced(p)
         /\ run[p].pc = "undo" => file = run[p].before
<1>0. TypeOK /\ Phase(p) /\ run[p] \in Run
  BY DEF IInv, TypeOK
<1>1. file \in [Files -> Installed] /\ run[p].before \in [Files -> Installed]
  BY <1>0 DEF TypeOK, Run, Image
<1>2. Replaced(p) = [f \in Files |-> Replaced(p)[f]]
  BY DEF Replaced
<1>3. \A f \in Files : f \notin FilesOf[run[p].pkg] => Replaced(p)[f] = run[p].before[f]
  BY DEF Replaced
<1>4. ASSUME run[p].pc = "install"
      PROVE  file = Replaced(p)
  <2>1. \A f \in Files : file[f] = Replaced(p)[f]
    BY <1>0, <1>3, <1>4 DEF Phase, Left
  <2> QED
    BY <1>1, <1>2, <2>1
<1>5. ASSUME run[p].pc = "undo"
      PROVE  file = run[p].before
  <2>1. \A f \in Files : file[f] = run[p].before[f]
    BY <1>0, <1>3, <1>5 DEF Phase, Left
  <2> QED
    BY <1>1, <2>1
<1> QED
  BY <1>4, <1>5

LEMMA StepOwn ==
  ASSUME IInv, NEW p \in Updaters, Step(p)
  PROVE  Phase(p)'
<1>0. TypeOK /\ Phase(p) /\ run[p] \in Run
  BY DEF IInv, TypeOK
<1>1. CASE Preflight(p) \/ BackUp(p)
  <2>1. /\ run[p].pc \in Early /\ run'[p].pc \in Early
        /\ run'[p].back = run[p].back /\ run'[p].done = run[p].done
    BY <1>0, <1>1 DEF Preflight, BackUp, TypeOK, Run, Early
  <2> QED
    BY <1>0, <2>1 DEF Phase, Outcome, Early
<1>2. CASE Refuse(p) \/ Record(p) \/ LoseRecord(p)
  <2>1. run'[p] = NoRun
    BY <1>0, <1>2 DEF Refuse, Record, LoseRecord, Leave, TypeOK
  <2> QED
    BY <2>1 DEF Phase, Outcome, Early, NoRun
<1>3. CASE Snapshot(p)
  <2>1. /\ run'[p].pc = "install" /\ run'[p].before = file /\ file' = file
        /\ run'[p].back = run[p].back /\ run'[p].done = run[p].done
        /\ ~run[p].back /\ run[p].done = {}
    BY <1>0, <1>3 DEF Snapshot, TypeOK, Phase, Early, Run
  <2> QED
    BY <2>1 DEF Phase, Outcome, Early
<1>4. CASE Abort(p)
  BY <1>0, <1>4 DEF Abort, Phase, Outcome, Early, TypeOK, Run
<1>5. CASE InstallFile(p)
  BY <1>5, InstallPhase
<1>6. CASE Installation(p)
  <2>1. /\ run'[p].pc = "restart" /\ run'[p].back = run[p].back /\ ~run[p].back
        /\ Replaced(p)' = Replaced(p) /\ file' = file /\ file = Replaced(p)
    BY <1>0, <1>6, AllDone DEF Installation, Phase, Replaced, TypeOK, Run
  <2> QED
    BY <2>1 DEF Phase, Outcome, Early
<1>7. CASE RestartService(p)
  <2>1. run' = run /\ file' = file /\ run[p].pc = "restart"
    BY <1>7 DEF RestartService
  <2> QED
    BY <1>0, <2>1 DEF Phase, Outcome, Early, Replaced
<1>8. CASE Healthy(p)
  <2>1. /\ run'[p].pc = "record" /\ run'[p].back = run[p].back
        /\ run'[p].before = run[p].before /\ Replaced(p)' = Replaced(p)
        /\ file' = file /\ stale' = {} /\ run[p].pc = "restart"
    BY <1>0, <1>8 DEF Healthy, Replaced, TypeOK, Run
  <2>2. file = IF run[p].back THEN run[p].before ELSE Replaced(p)
    BY <1>0, <2>1 DEF Phase
  <2>3. CASE run[p].back
    <3>1. run'[p].out = "rolled back"
      BY <1>0, <1>8, <2>3 DEF Healthy, TypeOK, Run
    <3> QED
      BY <2>1, <2>2, <2>3, <3>1 DEF Phase, Outcome, Early
  <2>4. CASE ~run[p].back
    <3>1. run'[p].out = "updated"
      BY <1>0, <1>8, <2>4 DEF Healthy, TypeOK
    <3> QED
      BY <2>1, <2>2, <2>4, <3>1 DEF Phase, Outcome, Early
  <2> QED
    BY <2>3, <2>4
<1>9. CASE Fail(p)
  <2>1. /\ run'[p].pc = "undo" /\ run'[p].back /\ run'[p].done = {}
        /\ run'[p].before = run[p].before /\ Replaced(p)' = Replaced(p) /\ file' = file
    BY <1>0, <1>9 DEF Fail, Replaced, TypeOK
  <2>2. \A f \in Files : file[f] \in {run[p].before[f], Replaced(p)[f]}
    BY <1>0, <1>9 DEF Fail, Phase, Outcome
  <2> QED
    BY <2>1, <2>2 DEF Phase, Outcome, Early
<1>10. CASE UndoFile(p)
  BY <1>10, UndoPhase
<1>11. CASE Restored(p)
  <2>1. /\ run'[p].pc = "reconfigure" /\ run'[p].back = run[p].back /\ run[p].back
        /\ run'[p].before = run[p].before /\ file' = file /\ file = run[p].before
    BY <1>0, <1>11, AllDone DEF Restored, Phase, TypeOK, Run
  <2> QED
    BY <2>1 DEF Phase, Outcome, Early
<1>12. CASE Reconfigure(p)
  <2>1. /\ run'[p].pc = "restart" /\ run'[p].back = run[p].back /\ run[p].back
        /\ run'[p].before = run[p].before /\ file' = file /\ file = run[p].before
    BY <1>0, <1>12 DEF Reconfigure, Phase, TypeOK, Run
  <2> QED
    BY <2>1 DEF Phase, Outcome, Early
<1>13. CASE FailBack(p)
  <2>1. /\ run'[p].pc = "record" /\ run'[p].out = "failed"
        /\ run'[p].before = run[p].before /\ Replaced(p)' = Replaced(p) /\ file' = file
    BY <1>0, <1>13 DEF FailBack, Replaced, TypeOK
  <2>2. \A f \in Files : file[f] \in {run[p].before[f], Replaced(p)[f]}
    BY <1>0, <1>13 DEF FailBack, Phase
  <2> QED
    BY <2>1, <2>2 DEF Phase, Outcome, Early
<1> QED
  BY <1>1, <1>2, <1>3, <1>4, <1>5, <1>6, <1>7, <1>8, <1>9, <1>10, <1>11, <1>12,
     <1>13 DEF Step

LEMMA StepOneInstaller ==
  ASSUME IInv, NEW p \in Updaters, Step(p)
  PROVE  OneInstaller'
<1>0. TypeOK /\ OneInstaller
  BY DEF IInv
<1>1. CASE Preflight(p)
  BY <1>0, <1>1, ConstantsAssumption DEF Preflight, OneInstaller, TypeOK
<1>2. CASE Refuse(p) \/ Record(p) \/ LoseRecord(p)
  BY <1>0, <1>2 DEF Refuse, Record, LoseRecord, Leave, OneInstaller, TypeOK, NoRun
<1>3. CASE \/ BackUp(p) \/ Snapshot(p) \/ Abort(p) \/ InstallFile(p) \/ Installation(p)
           \/ RestartService(p) \/ Healthy(p) \/ Fail(p) \/ UndoFile(p) \/ Restored(p)
           \/ Reconfigure(p) \/ FailBack(p)
  <2>1. lock' = lock /\ run[p].pc \notin {"idle", "waiting"}
    BY <1>3 DEF BackUp, Snapshot, Abort, InstallFile, Installation, RestartService,
         Healthy, Fail, UndoFile, Restored, Reconfigure, FailBack
  <2>2. \A q \in Updaters : q # p => run'[q] = run[q]
    BY <1>0, <1>3 DEF BackUp, Snapshot, Abort, InstallFile, Installation,
         RestartService, Healthy, Fail, UndoFile, Restored, Reconfigure, FailBack, TypeOK
  <2> QED
    BY <1>0, <2>1, <2>2 DEF OneInstaller
<1> QED
  BY <1>1, <1>2, <1>3 DEF Step

LEMMA NextIInv == IInv /\ [Next]_vars => IInv'
<1> SUFFICES ASSUME IInv, [Next]_vars
             PROVE  OneInstaller' /\ \A q \in Updaters : Phase(q)'
  BY NextTyped DEF IInv
<1>0. TypeOK /\ OneInstaller /\ \A q \in Updaters : Phase(q)
  BY DEF IInv
<1>1. ASSUME NEW p \in Updaters, Step(p)
      PROVE  OneInstaller' /\ \A q \in Updaters : Phase(q)'
  BY <1>1, StepOneInstaller, StepOthers, StepOwn
<1>2. ASSUME NEW p \in Updaters, Start(p)
      PROVE  OneInstaller' /\ \A q \in Updaters : Phase(q)'
  <2>1. /\ run'[p].pc = "waiting" /\ ~run'[p].back /\ run'[p].done = {}
        /\ \A q \in Updaters : q # p => run'[q] = run[q]
        /\ run[p].pc = "idle" /\ UNCHANGED <<file, stale, lock>>
    BY <1>0, <1>2 DEF Start, NoRun, TypeOK
  <2>2. \A q \in Updaters : q # p => Phase(q)'
    BY <1>0, <2>1, SamePhase
  <2>3. Phase(p)'
    BY <2>1 DEF Phase, Outcome, Early
  <2> QED
    BY <1>0, <2>1, <2>2, <2>3 DEF OneInstaller
<1>3. ASSUME NEW p \in Updaters, Crash(p)
      PROVE  OneInstaller' /\ \A q \in Updaters : Phase(q)'
  <2>1. /\ run'[p].pc = "idle" /\ ~run'[p].back /\ run'[p].done = {}
        /\ \A q \in Updaters : q # p => run'[q] = run[q]
        /\ UNCHANGED <<file, stale>>
        /\ lock' = IF lock = p THEN NoOne ELSE lock
    BY <1>0, <1>3 DEF Crash, NoRun, TypeOK
  <2>2. \A q \in Updaters : q # p => Phase(q)'
    BY <1>0, <2>1, SamePhase
  <2>3. Phase(p)'
    BY <2>1 DEF Phase, Outcome, Early
  <2> QED
    BY <1>0, <2>1, <2>2, <2>3 DEF OneInstaller
<1>4. ASSUME NEW p \in Updaters, Prune(p)
      PROVE  OneInstaller' /\ \A q \in Updaters : Phase(q)'
  <2>1. /\ \A q \in Updaters :
             /\ run'[q].pc = run[q].pc /\ run'[q].back = run[q].back
             /\ run'[q].done = run[q].done /\ run'[q].before = run[q].before
             /\ run'[q].pkg = run[q].pkg /\ run'[q].out = run[q].out
        /\ UNCHANGED <<file, stale, lock>>
    BY <1>0, <1>4 DEF Prune, TypeOK, Run
  <2>2. \A q \in Updaters : Phase(q)'
    BY <1>0, <2>1, SamePhase
  <2> QED
    BY <1>0, <2>1, <2>2 DEF OneInstaller
<1>5. CASE Reboot
  <2>1. \A q \in Updaters :
          run'[q].pc = "idle" /\ ~run'[q].back /\ run'[q].done = {}
    BY <1>5 DEF Reboot, NoRun
  <2> QED
    BY <2>1 DEF OneInstaller, Phase, Outcome, Early
<1>6. CASE UNCHANGED vars
  BY <1>0, <1>6, SamePhase DEF vars, OneInstaller
<1> QED
  BY <1>1, <1>2, <1>3, <1>4, <1>5, <1>6 DEF Next

LEMMA Invariance == Spec => []IInv
<1>1. Init => IInv
  BY InitTyped, InitPhase DEF IInv
<1> QED
  BY <1>1, NextIInv, PTL DEF Spec

\* Only the holder of update.lock is past the preflight.
THEOREM InstallersExclude == Spec => []OneInstaller
BY Invariance, PTL DEF IInv

LEMMA PhaseUndoable == IInv => Undoable
<1> SUFFICES ASSUME IInv, NEW p \in Updaters, Changing(p), NEW f \in Files
             PROVE  \/ file[f] = run[p].before[f]
                    \/ f \in FilesOf[run[p].pkg] /\ file[f] = run[p].pkg
  BY DEF Undoable
<1>1. Phase(p) /\ run[p] \in Run
  BY DEF IInv, TypeOK
<1>2. \/ file[f] = run[p].before[f]
      \/ file[f] = Replaced(p)[f]
  BY <1>1 DEF Phase, Changing, Outcome, Run, Outcomes
<1> QED
  BY <1>2 DEF Replaced

\* While an update may be undone, each file is the old one or the package's.
THEOREM AlwaysUndoable == Spec => []Undoable
BY Invariance, PhaseUndoable, PTL

-----------------------------------------------------------------------------
(* The refinement: every step is a step of Switch or changes nothing of it.  *)

LEMMA RefineInit == Init => Abstract!Init
<1> SUFFICES ASSUME Init
             PROVE  Abstract!Init
  OBVIOUS
<1>1. ~Working
  BY ConstantsAssumption DEF Init, Working
<1>2. InForce = file /\ Target = Nothing
  BY <1>1 DEF InForce, Target
<1> QED
  BY <1>2 DEF Init, Abstract!Init, Abstract!Fresh, Fresh

\* The steps between the snapshot and the outcome.
Amid(p) == \/ InstallFile(p) \/ Installation(p) \/ RestartService(p) \/ Healthy(p)
           \/ Fail(p) \/ UndoFile(p) \/ Restored(p) \/ Reconfigure(p) \/ FailBack(p)

LEMMA AmidFacts ==
  ASSUME IInv, NEW p \in Updaters, Amid(p)
  PROVE  /\ lock = p /\ lock' = p /\ Changing(p) /\ Changing(p)'
         /\ run'[p].before = run[p].before /\ run'[p].pkg = run[p].pkg
         /\ run[p].pkg \in Releases /\ told' = told
<1>0. TypeOK /\ OneInstaller
  BY DEF IInv
<1>1. /\ run[p].pc \in {"install", "restart", "undo", "reconfigure", "record"}
      /\ run[p].pc = "record" => run[p].out = "updated"
      /\ lock' = lock /\ told' = told
  BY DEF Amid, InstallFile, Installation, RestartService, Healthy, Fail, UndoFile,
       Restored, Reconfigure, FailBack
<1>2. lock = p /\ Changing(p) /\ run[p].pkg \in Releases
  BY <1>0, <1>1 DEF OneInstaller, Changing, TypeOK
<1>3. CASE InstallFile(p) \/ UndoFile(p)
  BY <1>0, <1>1, <1>2, <1>3 DEF InstallFile, UndoFile, Changing, TypeOK, Run
<1>4. CASE Installation(p) \/ Fail(p) \/ Restored(p) \/ Reconfigure(p)
  BY <1>0, <1>1, <1>2, <1>4 DEF Installation, Fail, Restored, Reconfigure, Changing, TypeOK, Run
<1>5. CASE RestartService(p)
  BY <1>0, <1>1, <1>2, <1>5 DEF RestartService, Changing
<1>6. CASE Healthy(p)
  BY <1>0, <1>1, <1>2, <1>6 DEF Healthy, Changing, TypeOK, Run
<1>7. CASE FailBack(p)
  BY <1>0, <1>1, <1>2, <1>7 DEF FailBack, Changing, TypeOK, Run
<1> QED
  BY <1>3, <1>4, <1>5, <1>6, <1>7 DEF Amid

LEMMA AmidRefines ==
  ASSUME IInv, NEW p \in Updaters, Amid(p)
  PROVE  Abstract!Work
<1>1. p # NoOne
  BY ConstantsAssumption
<1>2. Working /\ Working' /\ InForce' = InForce /\ Target' = Target /\ Target \in Releases
  BY <1>1, AmidFacts DEF Working, InForce, Target
<1>3. told' = told /\ Target # Nothing
  BY <1>2, AmidFacts, NothingApart
<1> QED
  BY <1>2, <1>3 DEF Abstract!Work

\* p holds the lock and has come to its outcome, whatever it is: what it found,
\* and what it leaves.
LEMMA EndFacts ==
  ASSUME IInv, NEW p \in Updaters, lock = p, Changing(p)
  PROVE  /\ Working /\ InForce = run[p].before /\ Target = run[p].pkg
         /\ Target \in Releases /\ Target # Nothing
         /\ file \in Image /\ InForce \in Image
         /\ Abstract!With(InForce, Target) = Replaced(p)
         /\ \A f \in Files : file[f] \in {InForce[f], Replaced(p)[f]}
<1>1. p # NoOne
  BY ConstantsAssumption
<1>2. Working /\ InForce = run[p].before /\ Target = run[p].pkg
  BY <1>1 DEF Working, InForce, Target
<1>3. run[p] \in Run /\ run[p].pkg \in Releases /\ file \in Image
  BY DEF IInv, TypeOK, Changing
<1>4. \A f \in Files : file[f] \in {run[p].before[f], Replaced(p)[f]}
  BY <1>3, PhaseUndoable DEF IInv, Undoable, Replaced
<1>5. Abstract!With(InForce, Target) = Replaced(p)
  BY <1>2 DEF Abstract!With, Replaced
<1> QED
  BY <1>2, <1>3, <1>4, <1>5, NothingApart DEF Run

\* An update that ends without telling the truth ends as a break.
LEMMA BreakRefines ==
  ASSUME IInv, NEW p \in Updaters, lock = p, Changing(p),
         ~Working', file' = file, told' \in {told, "failed"}, stale' \in {stale, {}}
  PROVE  Abstract!Break
<1>1. InForce' = file /\ Target' = Nothing
  BY DEF InForce, Target
<1>2. InForce' \in [Files -> Releases \cup {Nothing}]
  BY <1>1, EndFacts DEF Image, Installed
<1>3. \A f \in Files : InForce'[f] \in {InForce[f], Abstract!With(InForce, Target)[f]}
  BY <1>1, EndFacts
<1> QED
  BY <1>1, <1>2, <1>3, EndFacts DEF Abstract!Break

LEMMA RecordRefines ==
  ASSUME IInv, NEW p \in Updaters, Record(p)
  PROVE  Abstract!Next
<1>0. TypeOK /\ OneInstaller /\ Phase(p) /\ run[p] \in Run
  BY DEF IInv, TypeOK
<1>1. /\ run[p].pc = "record" /\ lock = p /\ lock' = NoOne /\ ~Working'
      /\ file' = file /\ stale' = stale /\ told' = run[p].out
      /\ InForce' = file /\ Target' = Nothing
  BY <1>0 DEF Record, Leave, OneInstaller, Working, InForce, Target
<1>2. CASE run[p].out = "updated"
  <2>1. stale = {} /\ file = Replaced(p) /\ Changing(p)
    BY <1>0, <1>1, <1>2 DEF Phase, Outcome, Changing
  <2>2. Abstract!Succeed
    BY <1>1, <1>2, <2>1, EndFacts DEF Abstract!Succeed
  <2> QED
    BY <2>2 DEF Abstract!Next
<1>3. CASE run[p].out = "rolled back"
  <2>1. stale = {} /\ file = run[p].before /\ Changing(p)
    BY <1>0, <1>1, <1>3 DEF Phase, Outcome, Changing
  <2>2. Abstract!Undo
    BY <1>1, <1>3, <2>1, EndFacts DEF Abstract!Undo
  <2> QED
    BY <2>2 DEF Abstract!Next
<1>4. CASE run[p].out = "failed"
  <2>1. Changing(p)
    BY <1>1, <1>4 DEF Changing
  <2>2. Abstract!Break
    BY <1>1, <1>4, <2>1, BreakRefines
  <2> QED
    BY <2>2 DEF Abstract!Next
<1>5. CASE run[p].out = "aborted"
  <2>1. ~Working /\ InForce = file /\ Target = Nothing
    BY <1>1, <1>5 DEF Working, Changing, InForce, Target
  <2>2. Abstract!Cancel
    BY <1>1, <1>5, <2>1 DEF Abstract!Cancel
  <2> QED
    BY <2>2 DEF Abstract!Next
<1> QED
  BY <1>0, <1>1, <1>2, <1>3, <1>4, <1>5 DEF Phase, Outcome, Run, Outcomes

LEMMA StillRefines ==
  ASSUME UNCHANGED <<file, stale, told>>, Working' = Working,
         Working => /\ run'[lock'].before = run[lock].before
                    /\ run'[lock'].pkg = run[lock].pkg
  PROVE  UNCHANGED Abstract!switch
BY DEF InForce, Target, Abstract!switch

\* The holder of the lock is out of the way, and nothing else changes.
LEMMA NotWorkingRefines ==
  ASSUME UNCHANGED <<file, stale, told>>, ~Working, ~Working'
  PROVE  UNCHANGED Abstract!switch
BY DEF InForce, Target, Abstract!switch

LEMMA StepRefines ==
  ASSUME IInv, NEW p \in Updaters, Step(p)
  PROVE  Abstract!Next \/ UNCHANGED Abstract!switch
<1>0. TypeOK /\ OneInstaller /\ p # NoOne
  BY ConstantsAssumption DEF IInv
<1>1. CASE Amid(p)
  BY <1>1, AmidRefines DEF Abstract!Next
<1>2. CASE Preflight(p) \/ Refuse(p)
  <2>1. ~Working /\ UNCHANGED <<file, stale, told>>
    BY <1>2 DEF Preflight, Refuse, Working
  <2>2. CASE Preflight(p)
    <3>1. lock' = p /\ run'[p].pc = "backup"
      BY <1>0, <2>2 DEF Preflight, TypeOK, Run
    <3> QED
      BY <2>1, <3>1, NotWorkingRefines DEF Working, Changing
  <2>3. CASE Refuse(p)
    <3>1. ~Working'
      BY <2>3 DEF Refuse, Working
    <3> QED
      BY <2>1, <3>1, NotWorkingRefines
  <2> QED
    BY <1>2, <2>2, <2>3
<1>3. CASE BackUp(p) \/ Abort(p)
  <2>1. lock = p /\ lock' = p /\ UNCHANGED <<file, stale, told>>
    BY <1>0, <1>3 DEF BackUp, Abort, OneInstaller
  <2>2. ~Changing(p) /\ ~Changing(p)'
    BY <1>0, <1>3 DEF BackUp, Abort, Changing, TypeOK, Run
  <2> QED
    BY <2>1, <2>2, NotWorkingRefines DEF Working
<1>4. CASE Snapshot(p)
  <2>1. /\ lock = p /\ lock' = p /\ UNCHANGED <<file, stale, told>>
        /\ run'[p].pc = "install" /\ run'[p].before = file
        /\ run'[p].pkg = run[p].pkg /\ run[p].pkg \in Releases
    BY <1>0, <1>4 DEF Snapshot, OneInstaller, TypeOK, Run
  <2>2. ~Working /\ Working'
    BY <1>0, <1>4, <2>1 DEF Snapshot, Working, Changing
  <2>3. InForce = file /\ InForce' = file /\ Target = Nothing /\ Target' = run[p].pkg
    BY <2>1, <2>2 DEF InForce, Target
  <2> QED
    BY <2>1, <2>3 DEF Abstract!Begin, Abstract!Next
<1>5. CASE Record(p)
  BY <1>5, RecordRefines
<1>6. CASE LoseRecord(p)
  <2>1. /\ lock = p /\ lock' = NoOne /\ ~Working' /\ UNCHANGED <<file, stale, told>>
        /\ run[p].pc = "record"
    BY <1>0, <1>6 DEF LoseRecord, Leave, OneInstaller, Working
  <2>2. CASE Changing(p)
    BY <2>1, <2>2, BreakRefines DEF Abstract!Next
  <2>3. CASE ~Changing(p)
    BY <2>1, <2>3, NotWorkingRefines DEF Working
  <2> QED
    BY <2>2, <2>3
<1> QED
  BY <1>1, <1>2, <1>3, <1>4, <1>5, <1>6 DEF Step, Amid

LEMMA NextRefines == IInv /\ [Next]_vars => [Abstract!Next]_(Abstract!switch)
<1> SUFFICES ASSUME IInv, [Next]_vars
             PROVE  Abstract!Next \/ UNCHANGED Abstract!switch
  OBVIOUS
<1>0. TypeOK /\ OneInstaller /\ NoOne \notin Updaters
  BY ConstantsAssumption DEF IInv
<1>1. ASSUME NEW p \in Updaters, Step(p)
      PROVE  Abstract!Next \/ UNCHANGED Abstract!switch
  BY <1>1, StepRefines
<1>2. ASSUME NEW p \in Updaters, Start(p)
      PROVE  UNCHANGED Abstract!switch
  <2>1. /\ run[p].pc = "idle" /\ run'[p].pc = "waiting"
        /\ \A q \in Updaters : q # p => run'[q] = run[q]
        /\ UNCHANGED <<file, stale, lock, told>>
    BY <1>0, <1>2 DEF Start, TypeOK, NoRun
  <2>2. CASE lock = p \/ lock = NoOne
    BY <2>1, <2>2, NotWorkingRefines DEF Working, Changing
  <2>3. CASE lock # p /\ lock # NoOne
    <3>1. run'[lock] = run[lock]
      BY <1>0, <2>1, <2>3 DEF TypeOK
    <3> QED
      BY <2>1, <3>1, StillRefines DEF Working, Changing
  <2> QED
    BY <2>2, <2>3
<1>3. ASSUME NEW p \in Updaters, Crash(p)
      PROVE  Abstract!Next \/ UNCHANGED Abstract!switch
  <2>1. /\ lock' = IF lock = p THEN NoOne ELSE lock
        /\ \A q \in Updaters : q # p => run'[q] = run[q]
        /\ UNCHANGED <<file, stale, told>>
    BY <1>0, <1>3 DEF Crash, TypeOK
  <2>2. CASE lock = p /\ Changing(p)
    BY <2>1, <2>2, BreakRefines DEF Working, Abstract!Next
  <2>3. CASE lock = NoOne \/ (lock = p /\ ~Changing(p))
    BY <2>1, <2>3, NotWorkingRefines DEF Working
  <2>4. CASE lock # p /\ lock # NoOne
    <3>1. run'[lock] = run[lock] /\ lock' = lock
      BY <1>0, <2>1, <2>4 DEF TypeOK
    <3> QED
      BY <2>1, <3>1, StillRefines DEF Working, Changing
  <2> QED
    BY <2>2, <2>3, <2>4
<1>4. ASSUME NEW p \in Updaters, Prune(p)
      PROVE  UNCHANGED Abstract!switch
  <2>1. /\ \A q \in Updaters :
             /\ run'[q].pc = run[q].pc /\ run'[q].before = run[q].before
             /\ run'[q].pkg = run[q].pkg /\ run'[q].out = run[q].out
        /\ UNCHANGED <<file, stale, lock, told>>
    BY <1>0, <1>4 DEF Prune, TypeOK, Run
  <2>2. CASE lock = NoOne
    BY <2>1, <2>2, NotWorkingRefines DEF Working
  <2>3. CASE lock # NoOne
    <3>1. lock \in Updaters
      BY <1>0, <2>3 DEF TypeOK
    <3> QED
      BY <2>1, <3>1, StillRefines DEF Working, Changing
  <2> QED
    BY <2>2, <2>3
<1>5. CASE Reboot
  <2>1. lock' = NoOne /\ ~Working' /\ stale' = {} /\ UNCHANGED <<file, told>>
    BY <1>5 DEF Reboot, Working
  <2>2. CASE Working
    <3>1. lock \in Updaters /\ Changing(lock)
      BY <1>0, <2>2 DEF Working, TypeOK
    <3> QED
      BY <2>1, <3>1, BreakRefines DEF Abstract!Next
  <2>3. CASE ~Working
    <3>1. InForce' = InForce /\ Target = Nothing /\ Target' = Nothing
      BY <2>1, <2>3 DEF InForce, Target
    <3> QED
      BY <2>1, <3>1 DEF Abstract!Reboot, Abstract!Next
  <2> QED
    BY <2>2, <2>3
<1>6. CASE UNCHANGED vars
  BY <1>6, StillRefines DEF vars, Working, Changing
<1> QED
  BY <1>1, <1>2, <1>3, <1>4, <1>5, <1>6 DEF Next

\* apply_update implements the switch: all or nothing, and told as it is.
THEOREM Refinement == Spec => ImplementsSwitch
BY RefineInit, NextRefines, Invariance, PTL DEF Spec, ImplementsSwitch, Abstract!Spec
=============================================================================
