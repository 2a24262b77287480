----------------------------- MODULE BackupProofs -----------------------------
(***************************************************************************)
(* Theorems about Backup, for any number of workers and resources, any     *)
(* retention and any clock.                                                *)
(***************************************************************************)
EXTENDS Backup, FiniteSetTheorems, WellFoundedInduction, TLAPS

Edits == [files: SUBSET Sources, to: SUBSET Resources, strip: SUBSET Resources]

\* What TypeOK rests on: a file is read as long as there is one left, what is stored
\* has been checked, what is restored was valid, and the required files exist.
Reading == \A p \in Workers : run[p].pc = "read" => run[p].next <= Last
Checked == \A p \in Workers : run[p].pc = "store" => Valid(run[p].read)
Restored == \A p \in Workers :
  /\ run[p].pc = "write" => Restoring(p)
  /\ Restoring(p) => Valid(run[p].image) /\ run[p].reason = "pre-restore"
Required == \A f \in Sources \ Optional : conf[f] # NoFile

Typed == TypeOK /\ Reading /\ Checked /\ Restored /\ Required

-----------------------------------------------------------------------------
(* Operators *)

LEMMA OrdersTyped ==
  /\ \A i \in 1..Last : ReadOrder[i] \in Sources /\ WriteOrder[i] \in Sources
  /\ \A f \in Sources : \E i \in 1..Last : f = WriteOrder[i]
  /\ \A i, j \in 1..Last : WriteOrder[i] = WriteOrder[j] => i = j
<1>1. 1..Last = {1, 2, 3, 4}
  BY DEF Last
<1> QED
  BY <1>1 DEF ReadOrder, WriteOrder, Sources

LEMMA NullsTyped ==
  /\ NoImage \in Image /\ NoRun \in Run /\ NoEdit \in Edits
  /\ ~Valid(NoImage)
<1>1. NoImage \in Image
  BY DEF NoImage, Image
<1>2. NoRun \in Run
  BY <1>1, ConstantsAssumption DEF NoRun, Run, Labels, Reasons, Last
<1>3. ~Valid(NoImage)
  BY DEF NoImage, Valid, Sources, Optional
<1> QED
  BY <1>1, <1>2, <1>3 DEF NoEdit, Edits

\* Every step of a worker is a step of its own only.
Local(p) == \A q \in Workers \ {p} : run'[q] = run[q]

LEMMA ProceedLocal ==
  ASSUME TypeOK, NEW p \in Workers, Proceed(p)
  PROVE  /\ Local(p) /\ run' \in [Workers -> Run]
         /\ ~Restoring(p) => run'[p] = NoRun
         /\ Restoring(p) =>
              /\ run'[p].pc = "write" /\ run'[p].next = 1 /\ run'[p].doomed = {}
              /\ run'[p].image = run[p].image /\ run'[p].own = run[p].own
              /\ run'[p].reason = run[p].reason
<1>1. run \in [Workers -> Run] /\ run[p] \in Run
  BY DEF TypeOK
<1>2. CASE Restoring(p)
  <2>1. run' = [run EXCEPT ![p] = [run[p] EXCEPT !.pc = "write", !.next = 1, !.doomed = {}]]
    BY <1>2 DEF Proceed
  <2>2. [run[p] EXCEPT !.pc = "write", !.next = 1, !.doomed = {}] \in Run
    <3>1. "write" \in Labels /\ 1 \in 1..Last + 1 /\ {} \in SUBSET Nat
      BY DEF Labels, Last
    <3> QED
      BY <1>1, <3>1 DEF Run
  <2> QED
    BY <1>1, <1>2, <2>1, <2>2 DEF Local, Run
<1>3. CASE ~Restoring(p)
  BY <1>1, <1>3, NullsTyped DEF Proceed, Local
<1> QED
  BY <1>2, <1>3

LEMMA BeginLocal ==
  ASSUME TypeOK, NEW p \in Workers, NEW r \in Run, Begin(p, r)
  PROVE  /\ Local(p) /\ run' \in [Workers -> Run] /\ run'[p] = r /\ Idle(p)
         /\ ops' \in 0..MaxOps /\ raced' \in BOOLEAN
         /\ disturbed' = disturbed \ {p} /\ robbed' = robbed \ {p}
         /\ UNCHANGED <<conf, edit, edits, archives, stored, missed, now>>
BY ConstantsAssumption DEF TypeOK, Begin, Local

-----------------------------------------------------------------------------
(* Type correctness *)

LEMMA InitTyped == Init => Typed
<1> SUFFICES ASSUME Init PROVE Typed
  OBVIOUS
<1>1. PICK R \in {{}, Resources} :
        conf = [f \in Sources |-> IF f \in Optional THEN NoFile ELSE R]
  BY DEF Init
<1>2. conf \in Image /\ Required
  BY <1>1, ConstantsAssumption DEF Image, Required
<1>3. \A p \in Workers : run[p].pc = "idle" /\ ~Restoring(p)
  BY DEF Init, NoRun, Restoring
<1>4. Reading /\ Checked /\ Restored
  BY <1>3 DEF Reading, Checked, Restored
<1>5. 0 \in 0..MaxEdits /\ 0 \in 0..MaxTime /\ 0 \in 0..MaxOps
  BY ConstantsAssumption
<1>6. TypeOK
  BY <1>2, <1>5, NullsTyped DEF Init, TypeOK, Edits
<1> QED
  BY <1>2, <1>4, <1>6 DEF Typed

\* The parts about workers survive a step that is local to p and right for p.
LEMMA LocalTyped ==
  ASSUME Typed, NEW p \in Workers, Local(p),
         run'[p].pc = "read" => run'[p].next <= Last,
         run'[p].pc = "store" => Valid(run'[p].read),
         run'[p].pc = "write" => Restoring(p)',
         Restoring(p)' => Valid(run'[p].image) /\ run'[p].reason = "pre-restore"
  PROVE  Reading' /\ Checked' /\ Restored'
BY DEF Typed, Reading, Checked, Restored, Restoring, Local

\* How a worker starts.
Started(r) ==
  /\ r.next = 1 /\ r.own = 0 /\ r.doomed = {} /\ r.when = now
  /\ r.pc \in {"read", "list", "write"}
  /\ r.reason = "daily" /\ r.pc = "read" => ~DoneToday
  /\ r.pc = "list" => r.image = NoImage
  /\ r.pc = "write" => r.image # NoImage
  /\ r.image # NoImage => /\ Valid(r.image) /\ r.reason = "pre-restore"
                          /\ \E a \in archives : a.files = r.image

LEMMA Starts ==
  ASSUME Typed, NEW p \in Workers, CreateBackup(p) \/ CreateDaily(p) \/ Restore(p)
  PROVE  \E r \in Run : Begin(p, r) /\ Started(r)
<1>0. TypeOK /\ NoRun \in Run /\ now \in 0..MaxTime
  BY NullsTyped DEF Typed, TypeOK
<1>1. CASE CreateBackup(p)
  <2> DEFINE r == [NoRun EXCEPT !.pc = "read", !.when = now]
  <2>1. r \in Run /\ Started(r)
    BY <1>0 DEF Run, Labels, NoRun, Started
  <2> QED
    BY <1>1, <2>1 DEF CreateBackup
<1>2. CASE CreateDaily(p)
  <2> DEFINE r == [NoRun EXCEPT !.pc = IF DoneToday THEN "list" ELSE "read",
                                !.reason = "daily", !.when = now]
  <2>1. r \in Run /\ Started(r)
    BY <1>0 DEF Run, Labels, Reasons, NoRun, Started
  <2> QED
    BY <1>2, <2>1 DEF CreateDaily
<1>3. CASE Restore(p)
  <2>1. PICK a \in archives, safety \in BOOLEAN :
          /\ Valid(a.files)
          /\ Begin(p, [NoRun EXCEPT !.pc = IF safety THEN "read" ELSE "write",
                                    !.reason = "pre-restore", !.when = now,
                                    !.image = a.files])
    BY <1>3 DEF Restore
  <2> DEFINE r == [NoRun EXCEPT !.pc = IF safety THEN "read" ELSE "write",
                                !.reason = "pre-restore", !.when = now,
                                !.image = a.files]
  <2>2. a.files \in Image /\ a.files # NoImage
    BY <1>0, <2>1, NullsTyped DEF TypeOK, Archive
  <2>3. r \in Run
    BY <1>0, <2>2 DEF Run, Labels, Reasons, NoRun
  <2>4. Started(r)
    BY <2>1, <2>2 DEF NoRun, Started
  <2> QED
    BY <2>1, <2>3, <2>4
<1> QED
  BY <1>1, <1>2, <1>3

\* A worker that starts.
LEMMA StartTyped ==
  ASSUME Typed, NEW p \in Workers, CreateBackup(p) \/ CreateDaily(p) \/ Restore(p)
  PROVE  Typed'
<1>0. TypeOK
  BY DEF Typed
<1>2. PICK r \in Run : Begin(p, r) /\ Started(r)
  BY Starts
<1>3. /\ Local(p) /\ run' \in [Workers -> Run] /\ run'[p] = r
      /\ ops' \in 0..MaxOps /\ raced' \in BOOLEAN
      /\ disturbed' = disturbed \ {p} /\ robbed' = robbed \ {p}
      /\ UNCHANGED <<conf, edit, edits, archives, stored, missed, now>>
  BY <1>0, <1>2, BeginLocal
<1>4. Reading' /\ Checked' /\ Restored'
  BY <1>2, <1>3, LocalTyped DEF Restoring, Last, Started
<1>5. TypeOK' /\ Required'
  BY <1>0, <1>3 DEF Typed, TypeOK, Required
<1> QED
  BY <1>4, <1>5 DEF Typed

\* What a step of worker p leaves in its variables.
LEMMA StepTyped ==
  ASSUME Typed, NEW p \in Workers, Step(p) \/ Crash(p)
  PROVE  Typed' /\ Local(p)
<1> USE DEF config, directory, bounds
<1>0. /\ TypeOK /\ run \in [Workers -> Run] /\ run[p] \in Run /\ NoRun \in Run
      /\ conf \in Image /\ stored \in Nat
  BY NullsTyped DEF Typed, TypeOK
<1>1. /\ run[p].pc = "read" => run[p].next <= Last
      /\ run[p].pc = "store" => Valid(run[p].read)
      /\ run[p].pc = "write" => Restoring(p)
      /\ Restoring(p) => Valid(run[p].image) /\ run[p].reason = "pre-restore"
  BY DEF Typed, Reading, Checked, Restored
<1>2. /\ UNCHANGED <<edit, edits, now, ops, raced>>
      /\ missed' \in BOOLEAN /\ disturbed' \subseteq Workers /\ robbed' \subseteq Workers
  BY <1>0 DEF TypeOK, Step, Crash, Read, Check, Reject, Store, List, Vanish, Unlink,
     UnlinkFails, Pruned, Report, ReportFails, Write, Finish, Restorers
<1>3. CASE Read(p)
  <2> DEFINE i == run[p].next
             f == ReadOrder[i]
             r == [run[p] EXCEPT !.read = [run[p].read EXCEPT ![f] = conf[f]],
                                 !.next = i + 1,
                                 !.pc = IF i = Last THEN "check" ELSE "read"]
  <2>1. i \in 1..Last /\ f \in Sources /\ run[p].pc = "read"
    BY <1>0, <1>1, <1>3, OrdersTyped DEF Read, Run, Last
  <2>2. conf[f] \in (SUBSET Resources) \cup {NoFile} /\ run[p].read \in Image
    BY <1>0, <2>1 DEF Image, Run
  <2>3. [run[p].read EXCEPT ![f] = conf[f]] \in Image
    BY <2>1, <2>2 DEF Image
  <2>4. r \in Run /\ r.next = i + 1 /\ r.image = run[p].image /\ r.reason = run[p].reason
        /\ r.pc = IF i = Last THEN "check" ELSE "read"
    <3>1. /\ i + 1 \in 1..Last + 1
          /\ (IF i = Last THEN "check" ELSE "read") \in Labels
      BY <2>1 DEF Last, Labels
    <3> HIDE DEF f
    <3> QED
      BY <1>0, <2>3, <3>1 DEF Run
  <2>5. run' = [run EXCEPT ![p] = r]
    BY <1>0, <1>3 DEF Read
  <2> HIDE DEF r, f
  <2>6. run' \in [Workers -> Run] /\ run'[p] = r /\ Local(p)
    BY <1>0, <2>4, <2>5 DEF Local
  <2>7. Reading' /\ Checked' /\ Restored'
    BY <1>1, <2>1, <2>4, <2>6, LocalTyped DEF Restoring, Last
  <2>8. TypeOK' /\ Required'
    BY <1>0, <1>2, <1>3, <2>6 DEF Read, TypeOK, Typed, Required
  <2> QED
    BY <2>6, <2>7, <2>8 DEF Typed
<1>4. CASE Check(p) \/ List(p)
  <2>1. /\ run' \in [Workers -> Run] /\ Local(p)
        /\ run'[p].read = run[p].read /\ run'[p].image = run[p].image
        /\ run'[p].reason = run[p].reason
        /\ \/ run'[p].pc = "prune"
           \/ run'[p].pc = "store" /\ Valid(run[p].read)
    <3>1. CASE Check(p)
      BY <1>0, <3>1 DEF Check, Accepted, Local, Run, Labels
    <3>2. CASE List(p)
      <4>1. Old \in SUBSET Nat
        BY <1>0 DEF Old, TypeOK, Archive
      <4>2. [run[p] EXCEPT !.pc = "prune", !.doomed = Old] \in Run
        BY <1>0, <4>1 DEF Run, Labels
      <4>3. run' = [run EXCEPT ![p] = [run[p] EXCEPT !.pc = "prune", !.doomed = Old]]
        BY <1>0, <3>2 DEF List
      <4> QED
        BY <1>0, <4>2, <4>3 DEF Local, Run
    <3> QED
      BY <1>4, <3>1, <3>2
  <2>2. Reading' /\ Checked' /\ Restored'
    BY <1>1, <2>1, LocalTyped DEF Restoring
  <2>3. TypeOK' /\ Required'
    BY <1>0, <1>2, <1>4, <2>1 DEF Check, List, TypeOK, Typed, Required
  <2> QED
    BY <2>1, <2>2, <2>3 DEF Typed
<1>5. CASE Reject(p) \/ UnlinkFails(p) \/ Report(p)
  <2>1. Proceed(p) /\ UNCHANGED <<conf, archives, stored>>
    BY <1>5 DEF Reject, UnlinkFails, Report
  <2>2. Reading' /\ Checked' /\ Restored'
    BY <1>0, <1>1, <2>1, ProceedLocal, LocalTyped DEF NoRun, Restoring
  <2>3. TypeOK' /\ Required'
    BY <1>0, <1>2, <2>1, ProceedLocal DEF TypeOK, Typed, Required
  <2> QED
    BY <1>0, <2>1, <2>2, <2>3, ProceedLocal DEF Typed
<1>6. CASE Vanish(p) \/ ReportFails(p) \/ Finish(p) \/ Crash(p)
  <2>1. /\ run' \in [Workers -> Run] /\ Local(p) /\ run'[p] = NoRun
        /\ UNCHANGED <<conf, archives, stored>>
    BY <1>0, <1>6 DEF Vanish, ReportFails, Finish, Crash, Local
  <2>2. Reading' /\ Checked' /\ Restored'
    BY <2>1, LocalTyped DEF NoRun, Restoring
  <2>3. TypeOK' /\ Required'
    BY <1>0, <1>2, <2>1 DEF TypeOK, Typed, Required
  <2> QED
    BY <2>1, <2>2, <2>3 DEF Typed
<1>7. CASE Store(p)
  <2> DEFINE new == [at |-> run[p].when, reason |-> run[p].reason,
                     seq |-> stored + 1, files |-> run[p].read]
             r == [run[p] EXCEPT !.pc = "list", !.own = stored + 1]
  <2>1. new \in Archive /\ Valid(new.files)
    BY <1>0, <1>1, <1>7 DEF Store, Archive, Run
  <2>2. archives' \subseteq Archive /\ \A a \in archives' : Valid(a.files)
    BY <1>0, <1>7, <2>1 DEF Store, TypeOK
  <2>3. /\ r \in Run /\ r.pc = "list" /\ r.image = run[p].image
        /\ r.reason = run[p].reason
    <3>1. stored + 1 \in Nat /\ "list" \in Labels
      BY <1>0 DEF Labels
    <3> QED
      BY <1>0, <3>1 DEF Run
  <2>4. run' = [run EXCEPT ![p] = r]
    BY <1>0, <1>7 DEF Store
  <2> HIDE DEF r
  <2>5. run' \in [Workers -> Run] /\ Local(p) /\ run'[p] = r
    BY <1>0, <2>3, <2>4 DEF Local
  <2>6. Reading' /\ Checked' /\ Restored'
    BY <1>1, <2>3, <2>5, LocalTyped DEF Restoring
  <2>7. TypeOK' /\ Required'
    BY <1>0, <1>2, <1>7, <2>2, <2>5 DEF Store, TypeOK, Typed, Required
  <2> QED
    BY <2>5, <2>6, <2>7 DEF Typed
<1>8. CASE Unlink(p)
  <2>1. PICK n \in run[p].doomed :
          /\ \E a \in archives : a.seq = n /\ archives' = archives \ {a}
          /\ run' = [run EXCEPT ![p].doomed = @ \ {n}]
    BY <1>8 DEF Unlink
  <2>2. /\ run' \in [Workers -> Run] /\ Local(p) /\ run'[p].pc = "prune"
        /\ run'[p].image = run[p].image /\ run'[p].reason = run[p].reason
    <3>1. [run[p] EXCEPT !.doomed = run[p].doomed \ {n}] \in Run
      BY <1>0 DEF Run
    <3>2. run' = [run EXCEPT ![p] = [run[p] EXCEPT !.doomed = run[p].doomed \ {n}]]
      BY <1>0, <2>1
    <3> QED
      BY <1>0, <1>8, <3>1, <3>2 DEF Local, Run, Unlink
  <2>3. Reading' /\ Checked' /\ Restored'
    BY <1>1, <2>2, LocalTyped DEF Restoring
  <2>4. TypeOK' /\ Required'
    BY <1>0, <1>2, <1>8, <2>1, <2>2 DEF Unlink, TypeOK, Typed, Required
  <2> QED
    BY <2>2, <2>3, <2>4 DEF Typed
<1>9. CASE Pruned(p)
  <2>1. /\ run' \in [Workers -> Run] /\ Local(p)
        /\ \/ run'[p] = NoRun
           \/ /\ run'[p].pc = "size" /\ run'[p].image = run[p].image
              /\ run'[p].reason = run[p].reason
    <3>1. [run[p] EXCEPT !.pc = "size"] \in Run
      BY <1>0 DEF Run, Labels
    <3> QED
      BY <1>0, <1>9, <3>1 DEF Pruned, Local, Run
  <2>2. Reading' /\ Checked' /\ Restored'
    BY <1>1, <2>1, LocalTyped DEF Restoring, NoRun
  <2>3. TypeOK' /\ Required'
    BY <1>0, <1>2, <1>9, <2>1 DEF Pruned, TypeOK, Typed, Required
  <2> QED
    BY <2>1, <2>2, <2>3 DEF Typed
<1>10. CASE Write(p)
  <2> DEFINE f == WriteOrder[run[p].next]
             r == [run[p] EXCEPT !.next = run[p].next + 1]
  <2>1. run[p].next \in 1..Last /\ f \in Sources /\ Restoring(p)
    BY <1>0, <1>1, <1>10, OrdersTyped DEF Write, Run, Last
  <2>2. /\ r \in Run /\ r.pc = "write" /\ r.image = run[p].image
        /\ r.reason = run[p].reason
    BY <1>0, <1>10, <2>1 DEF Write, Run, Last
  <2>3. run' = [run EXCEPT ![p] = r]
    BY <1>0, <1>10 DEF Write
  <2> HIDE DEF r
  <2>4. run' \in [Workers -> Run] /\ Local(p) /\ run'[p] = r
    BY <1>0, <2>2, <2>3 DEF Local
  <2>5. Reading' /\ Checked' /\ Restored'
    BY <1>1, <2>1, <2>2, <2>4, LocalTyped DEF Restoring
  <2>6. conf' \in Image /\ Required'
    <3>1. run[p].image[f] \in (SUBSET Resources) \cup {NoFile}
      BY <1>0, <2>1 DEF Image, Run
    <3> QED
      BY <1>0, <1>10, <2>1, <3>1 DEF Write, Image, Typed, Required
  <2>7. TypeOK'
    BY <1>0, <1>2, <1>10, <2>4, <2>6 DEF Write, TypeOK
  <2> QED
    BY <2>4, <2>5, <2>6, <2>7 DEF Typed
<1> QED
  BY <1>3, <1>4, <1>5, <1>6, <1>7, <1>8, <1>9, <1>10 DEF Step

\* Administrators and the clock.
LEMMA OthersTyped ==
  ASSUME Typed, Edit \/ EditWrite \/ EditStrip \/ EditEnd \/ Tick \/ UNCHANGED vars
  PROVE  Typed'
<1> USE DEF config, directory, bounds
<1>0. /\ TypeOK /\ edit \in Edits /\ NoEdit \in Edits /\ conf \in Image /\ Required
      /\ now \in 0..MaxTime /\ edits \in 0..MaxEdits
  BY NullsTyped DEF Typed, TypeOK, Edits
<1>1. CASE Edit
  <2>1. /\ conf["resources"] \in SUBSET Resources /\ conf["groups"] \in SUBSET Resources
    BY <1>0 DEF Image, Required, Sources, Optional
  <2>2. \E e \in Edits : BeginEdit(e)
    <3>1. ASSUME NEW r \in Resources \ conf["resources"],
                 BeginEdit([NoEdit EXCEPT !.files = {"resources", "services"},
                                          !.to = conf["resources"] \cup {r}])
          PROVE  \E e \in Edits : BeginEdit(e)
      <4>1. [NoEdit EXCEPT !.files = {"resources", "services"},
                           !.to = conf["resources"] \cup {r}] \in Edits
        BY <1>0, <2>1 DEF Edits, Sources
      <4> QED
        BY <3>1, <4>1
    <3>2. ASSUME NEW r \in conf["resources"],
                 BeginEdit([files |-> {"resources", "services"},
                            to |-> conf["resources"] \ {r}, strip |-> {r}])
          PROVE  \E e \in Edits : BeginEdit(e)
      <4>1. [files |-> {"resources", "services"},
             to |-> conf["resources"] \ {r}, strip |-> {r}] \in Edits
        BY <2>1 DEF Edits, Sources
      <4> QED
        BY <3>2, <4>1
    <3>3. ASSUME NEW r \in conf["resources"],
                 BeginEdit([NoEdit EXCEPT !.files = {"groups"},
                                          !.to = conf["groups"] \cup {r}])
          PROVE  \E e \in Edits : BeginEdit(e)
      <4>1. [NoEdit EXCEPT !.files = {"groups"}, !.to = conf["groups"] \cup {r}] \in Edits
        BY <1>0, <2>1 DEF Edits, Sources
      <4> QED
        BY <3>3, <4>1
    <3>4. ASSUME BeginEdit([NoEdit EXCEPT !.files = {"servers"}])
          PROVE  \E e \in Edits : BeginEdit(e)
      <4>1. [NoEdit EXCEPT !.files = {"servers"}] \in Edits
        BY <1>0 DEF Edits, Sources
      <4> QED
        BY <3>4, <4>1
    <3> QED
      BY <1>1, <3>1, <3>2, <3>3, <3>4 DEF Edit
  <2>3. PICK e \in Edits : BeginEdit(e)
    BY <2>2
  <2>4. /\ edit' \in Edits /\ edits' \in 0..MaxEdits
        /\ UNCHANGED <<conf, disturbed, archives, stored, missed, robbed, now, ops, raced, run>>
    BY <1>0, <2>3, ConstantsAssumption DEF BeginEdit
  <2> QED
    BY <1>0, <2>4 DEF Typed, TypeOK, Edits, Reading, Checked, Restored, Restoring, Required
<1>2. CASE EditWrite \/ EditStrip
  <2>1. \E f \in Sources, to \in SUBSET Resources : Put(f, to)
    <3>1. CASE EditWrite
      BY <1>0, <3>1 DEF EditWrite, Edits
    <3>2. CASE EditStrip
      <4>1. conf["groups"] \in SUBSET Resources /\ "groups" \in Sources
        BY <1>0 DEF Image, Required, Sources, Optional
      <4> QED
        BY <3>2, <4>1 DEF EditStrip
    <3> QED
      BY <1>2, <3>1, <3>2
  <2>2. PICK f \in Sources, to \in SUBSET Resources : Put(f, to)
    BY <2>1
  <2>3. conf' \in Image /\ Required' /\ disturbed' \subseteq Workers
    BY <1>0, <2>2, ConstantsAssumption DEF Put, Image, Required, TypeOK
  <2>4. edit' \in Edits
    BY <1>0, <1>2 DEF EditWrite, EditStrip, Edits
  <2>5. UNCHANGED <<edits, archives, stored, missed, robbed, now, ops, raced, run>>
    BY <2>2 DEF Put
  <2> QED
    BY <1>0, <2>3, <2>4, <2>5 DEF Typed, TypeOK, Edits, Reading, Checked, Restored, Restoring
<1>3. CASE EditEnd \/ Tick \/ UNCHANGED vars
  <2>1. /\ edit' \in Edits /\ now' \in 0..MaxTime
        /\ UNCHANGED <<conf, disturbed, edits, archives, stored, missed, robbed, ops, raced, run>>
    BY <1>0, <1>3, ConstantsAssumption DEF EditEnd, Tick, vars
  <2> QED
    BY <1>0, <2>1 DEF Typed, TypeOK, Edits, Reading, Checked, Restored, Restoring, Required
<1> QED
  BY <1>1, <1>2, <1>3

LEMMA NextTyped == Typed /\ [Next]_vars => Typed'
BY StartTyped, StepTyped, OthersTyped DEF Next

\* Every variable keeps its type; in particular every archive is a consistent snapshot,
\* whatever is written while its files are read (backup.py: _snapshot_sources and
\* validate_snapshot).
THEOREM TypeCorrect == Spec => []TypeOK
<1>1. Typed => TypeOK
  BY DEF Typed
<1> QED
  BY <1>1, InitTyped, NextTyped, PTL DEF Spec

-----------------------------------------------------------------------------
(* Restores *)

\* What worker p has restored so far is in force, if no one else has written.
Written(p) ==
  run[p].pc = "write" /\ p \notin disturbed =>
    \A i \in 1..Last : i < run[p].next =>
      LET f == WriteOrder[i] IN
        run[p].image[f] = NoFile \/ conf[f] = run[p].image[f]

LEMMA WrittenStays ==
  ASSUME Typed, Typed', [Next]_vars, NEW p \in Workers, Written(p)
  PROVE  Written(p)'
<1> USE DEF config, directory, bounds
<1>0. /\ TypeOK /\ run \in [Workers -> Run] /\ run[p] \in Run /\ conf \in Image
      /\ disturbed \subseteq Workers
      /\ run[p].pc = "write" => Restoring(p)
  BY DEF Typed, TypeOK, Restored
<1>1. ASSUME NEW q \in Workers, CreateBackup(q) \/ CreateDaily(q) \/ Restore(q)
      PROVE  Written(p)'
  <2>1. PICK r \in Run : Begin(q, r) /\ r.next = 1
    BY <1>1, Starts DEF Started
  <2>2. /\ run' = [run EXCEPT ![q] = r] /\ conf' = conf /\ disturbed' = disturbed \ {q}
    BY <2>1 DEF Begin
  <2>3. CASE p = q
    <3>1. run'[p].next = 1
      BY <1>0, <2>1, <2>2, <2>3
    <3> QED
      BY <3>1 DEF Written, Last
  <2>4. CASE p # q
    <3>1. run'[p] = run[p] /\ (p \in disturbed' <=> p \in disturbed)
      BY <1>0, <2>2, <2>4
    <3> QED
      BY <2>2, <3>1 DEF Written
  <2> QED
    BY <2>3, <2>4
<1>2. ASSUME NEW q \in Workers, Step(q) \/ Crash(q), q # p
      PROVE  Written(p)'
  <2>1. run'[p] = run[p]
    BY <1>2, StepTyped DEF Local
  <2>2. CASE Write(q)
    <3>1. Restoring(p) => p \in disturbed'
      BY <1>2, <2>2 DEF Write, Restorers
    <3> QED
      BY <1>0, <2>1, <3>1 DEF Written
  <2>3. CASE ~Write(q)
    <3>1. UNCHANGED <<conf, disturbed>>
      BY <1>2, <2>3 DEF Step, Crash, Read, Check, Reject, Store, List, Vanish, Unlink,
         UnlinkFails, Pruned, Report, ReportFails, Finish
    <3> QED
      BY <2>1, <3>1 DEF Written
  <2> QED
    BY <2>2, <2>3
<1>3. CASE Write(p)
  <2> DEFINE i == run[p].next
             g == WriteOrder[i]
  <2>1. /\ i \in 1..Last /\ run[p].pc = "write" /\ g \in Sources
        /\ conf' = IF run[p].image[g] = NoFile THEN conf
                                               ELSE [conf EXCEPT ![g] = run[p].image[g]]
        /\ disturbed' = disturbed \cup Restorers(p)
    BY <1>0, <1>3, OrdersTyped DEF Write, Run, Last
  <2>2. /\ run'[p].next = i + 1 /\ run'[p].image = run[p].image
        /\ p \in disturbed' <=> p \in disturbed
    BY <1>0, <1>3, <2>1 DEF Write, Run, Restorers
  <2> SUFFICES ASSUME p \notin disturbed, NEW j \in 1..Last, j < i + 1
               PROVE  \/ run[p].image[WriteOrder[j]] = NoFile
                      \/ conf'[WriteOrder[j]] = run[p].image[WriteOrder[j]]
    BY <2>2 DEF Written
  <2>3. WriteOrder[j] \in Sources /\ (j # i => WriteOrder[j] # g)
    BY <2>1, OrdersTyped
  <2>4. CASE j = i
    BY <1>0, <2>1, <2>4 DEF Image
  <2>5. CASE j # i
    <3>1. j < i
      BY <2>1, <2>5
    <3>2. \/ run[p].image[WriteOrder[j]] = NoFile
          \/ conf[WriteOrder[j]] = run[p].image[WriteOrder[j]]
      BY <2>1, <3>1 DEF Written
    <3>3. conf'[WriteOrder[j]] = conf[WriteOrder[j]]
      BY <1>0, <2>1, <2>3, <2>5 DEF Image
    <3> QED
      BY <3>2, <3>3
  <2> QED
    BY <2>4, <2>5
<1>4. CASE Step(p) \/ Crash(p)
  <2>1. CASE Reject(p) \/ UnlinkFails(p) \/ Report(p)
    <3>1. run'[p].pc = "write" => run'[p].next = 1
      BY <1>0, <2>1, ProceedLocal DEF Reject, UnlinkFails, Report, NoRun
    <3> QED
      BY <3>1 DEF Written, Last
  <2>2. CASE \/ Read(p) \/ Check(p) \/ Store(p) \/ List(p) \/ Vanish(p) \/ Unlink(p)
             \/ Pruned(p) \/ ReportFails(p) \/ Finish(p) \/ Crash(p)
    <3>1. run'[p].pc # "write"
      BY <1>0, <2>2 DEF Read, Check, Store, List, Vanish, Unlink, Pruned, ReportFails,
                        Finish, Crash, NoRun, Run
    <3> QED
      BY <3>1 DEF Written
  <2> QED
    BY <1>3, <1>4, <2>1, <2>2 DEF Step
<1>5. CASE EditWrite \/ EditStrip
  <2>1. run' = run /\ disturbed' = disturbed \cup {q \in Workers : Restoring(q)}
    BY <1>5 DEF EditWrite, EditStrip, Put
  <2> QED
    BY <1>0, <2>1 DEF Written
<1>6. CASE Edit \/ EditEnd \/ Tick \/ UNCHANGED vars
  <2>1. UNCHANGED <<conf, disturbed, run>>
    BY <1>6 DEF Edit, BeginEdit, EditEnd, Tick, vars
  <2> QED
    BY <2>1 DEF Written
<1> QED
  BY <1>1, <1>2, <1>4, <1>5, <1>6 DEF Next

\* A restore that no one disturbs puts the whole archive in force, and what is then in
\* force is consistent, for any files and any number of backups beside it
\* (backup.py: restore_backup).
THEOREM RestoreIsWhole == Spec => []RestoredWhole
<1> DEFINE Inv == Typed /\ \A p \in Workers : Written(p)
<1>1. Init => Inv
  BY InitTyped DEF Init, NoRun, Written
<1>2. Inv /\ [Next]_vars => Inv'
  BY NextTyped, WrittenStays
<1>3. Inv => RestoredWhole
  <2> SUFFICES ASSUME Typed, NEW p \in Workers, Written(p), run[p].pc = "write",
                      run[p].next > Last, p \notin disturbed
               PROVE  conf = Over(run[p].image, conf) /\ Valid(conf)
    BY DEF RestoredWhole
  <2>1. /\ conf \in Image /\ Valid(run[p].image) /\ run[p].next \in Nat
    BY DEF Typed, TypeOK, Restored, Run
  <2>2. ASSUME NEW f \in Sources
        PROVE  run[p].image[f] = NoFile \/ conf[f] = run[p].image[f]
    <3>1. PICK i \in 1..Last : f = WriteOrder[i]
      BY OrdersTyped
    <3>2. i < run[p].next
      BY <2>1 DEF Last
    <3> QED
      BY <3>1, <3>2 DEF Written
  <2>3. conf = Over(run[p].image, conf)
    BY <2>1, <2>2 DEF Over, Image
  <2>4. Valid(conf)
    BY <2>1, <2>2 DEF Valid, Sources, Optional
  <2> QED
    BY <2>3, <2>4
<1> QED
  BY <1>1, <1>2, <1>3, PTL DEF Spec

-----------------------------------------------------------------------------
(* One scheduled backup a day *)

Daily(p) == run[p].reason = "daily"

DailyInv ==
  ~raced =>
    /\ \A p, q \in Workers : Daily(p) /\ Daily(q) => p = q
    /\ \A p \in Workers : Daily(p) /\ run[p].pc \in {"read", "check", "store"} =>
         \A a \in archives : a.reason = "daily" => a.at \div Day # run[p].when \div Day
    /\ \A a, b \in archives :
         a.reason = "daily" /\ b.reason = "daily" /\ a.at \div Day = b.at \div Day => a = b

LEMMA DailyStays ==
  ASSUME Typed, DailyInv, [Next]_vars
  PROVE  DailyInv'
<1> USE DEF config, directory, bounds
<1>0. /\ TypeOK /\ run \in [Workers -> Run]
  BY DEF Typed, TypeOK
\* A step of q that stores nothing, and after which it is not scheduled, or is so as before.
<1>a. ASSUME NEW q \in Workers, Local(q), raced' = raced, archives' \subseteq archives,
             \/ run'[q].reason # "daily"
             \/ /\ run'[q].reason = run[q].reason /\ run'[q].when = run[q].when
                /\ \/ run'[q].pc \notin {"read", "check", "store"}
                   \/ run[q].pc \in {"read", "check", "store"}
      PROVE  DailyInv'
  BY <1>a DEF DailyInv, Daily, Local
<1>1. ASSUME NEW q \in Workers, CreateBackup(q) \/ CreateDaily(q) \/ Restore(q)
      PROVE  DailyInv'
  <2>1. PICK r \in Run : /\ Begin(q, r)
                          /\ \/ r.reason # "daily"
                             \/ /\ r.when = now
                                /\ r.pc \in {"read", "check", "store"} => ~DoneToday
    BY <1>1, Starts DEF Started
  <2>2. /\ run' = [run EXCEPT ![q] = r] /\ archives' = archives
        /\ ~raced' => ~raced /\ (r.reason = "daily" => \A p \in Workers : ~Daily(p))
    BY <2>1 DEF Begin, Daily
  <2>3. run'[q] = r /\ \A p \in Workers \ {q} : run'[p] = run[p]
    BY <1>0, <2>2
  <2> SUFFICES ASSUME ~raced' PROVE DailyInv'
    BY DEF DailyInv
  <2>4. CASE r.reason # "daily"
    BY <2>2, <2>3, <2>4 DEF DailyInv, Daily
  <2>5. CASE r.reason = "daily"
    <3>1. \A p \in Workers : Daily(p)' => p = q
      BY <2>2, <2>3, <2>5 DEF Daily
    <3>2. run'[q].pc \in {"read", "check", "store"} =>
            \A a \in archives : a.reason = "daily" => a.at \div Day # run'[q].when \div Day
      BY <2>1, <2>3, <2>5 DEF DoneToday
    <3> QED
      BY <2>2, <3>1, <3>2 DEF DailyInv
  <2> QED
    BY <2>4, <2>5
<1>2. ASSUME NEW q \in Workers, Step(q) \/ Crash(q)
      PROVE  DailyInv'
  <2>0. Local(q) /\ run[q] \in Run
    BY <1>0, <1>2, StepTyped
  <2>1. CASE \/ Reject(q) \/ UnlinkFails(q) \/ Report(q)
    <3>1. /\ archives' = archives /\ raced' = raced
          /\ \/ run'[q] = NoRun
             \/ run'[q].reason = run[q].reason /\ Restoring(q)
      BY <1>0, <2>1, ProceedLocal DEF Reject, UnlinkFails, Report
    <3>2. run'[q].reason # "daily"
      BY <3>1 DEF Typed, Restored, NoRun
    <3> QED
      BY <1>a, <2>0, <3>1, <3>2
  <2>2. CASE Vanish(q) \/ ReportFails(q) \/ Finish(q) \/ Crash(q)
    <3>1. archives' = archives /\ raced' = raced /\ run'[q].reason # "daily"
      BY <1>0, <2>2 DEF Vanish, ReportFails, Finish, Crash, NoRun
    <3> QED
      BY <1>a, <2>0, <3>1
  <2>3. CASE \/ Read(q) \/ Check(q) \/ List(q) \/ Unlink(q) \/ Write(q) \/ Pruned(q)
    <3>1. archives' \subseteq archives /\ raced' = raced
      BY <2>3 DEF Read, Check, List, Unlink, Write, Pruned
    <3>2. \/ run'[q].reason # "daily"
          \/ /\ run'[q].reason = run[q].reason /\ run'[q].when = run[q].when
             /\ \/ run'[q].pc \notin {"read", "check", "store"}
                \/ run[q].pc \in {"read", "check", "store"}
      BY <1>0, <2>0, <2>3 DEF Read, Check, List, Unlink, Write, Pruned, NoRun, Run
    <3> QED
      BY <1>a, <2>0, <3>1, <3>2
  <2>4. CASE Store(q)
    <3> DEFINE new == [at |-> run[q].when, reason |-> run[q].reason,
                       seq |-> stored + 1, files |-> run[q].read]
    <3>1. /\ archives' \subseteq archives \cup {new} /\ raced' = raced
          /\ run[q].pc = "store" /\ run'[q].pc = "list"
          /\ run'[q].reason = run[q].reason /\ run'[q].when = run[q].when
      BY <1>0, <2>0, <2>4 DEF Store, Run
    <3>2. new.at = run[q].when /\ new.reason = run[q].reason
      OBVIOUS
    <3> HIDE DEF new
    <3> SUFFICES ASSUME ~raced PROVE DailyInv'
      BY <3>1 DEF DailyInv
    <3>3. CASE ~Daily(q)
      BY <2>0, <3>1, <3>2, <3>3 DEF DailyInv, Daily, Local
    <3>4. CASE Daily(q)
      <4>1. \A a \in archives : a.reason = "daily" => a.at \div Day # new.at \div Day
        BY <3>1, <3>2, <3>4 DEF DailyInv
      <4>2. \A p \in Workers : Daily(p)' => p = q
        BY <2>0, <3>1, <3>4 DEF DailyInv, Daily, Local
      <4>3. \A a, b \in archives' :
              a.reason = "daily" /\ b.reason = "daily" /\ a.at \div Day = b.at \div Day => a = b
        BY <3>1, <4>1 DEF DailyInv
      <4> QED
        BY <3>1, <4>2, <4>3 DEF DailyInv
    <3> QED
      BY <3>3, <3>4
  <2> QED
    BY <1>2, <2>1, <2>2, <2>3, <2>4 DEF Step
<1>3. CASE Edit \/ EditWrite \/ EditStrip \/ EditEnd \/ Tick \/ UNCHANGED vars
  <2>1. UNCHANGED <<archives, raced, run>>
    BY <1>3 DEF Edit, BeginEdit, EditWrite, EditStrip, Put, EditEnd, Tick, vars
  <2> QED
    BY <2>1 DEF DailyInv, Daily
<1> QED
  BY <1>1, <1>2, <1>3 DEF Next

\* No date has two scheduled backups as long as no two run at one time, whatever else
\* makes, restores or prunes backups meanwhile (backup.py: _same_day_scheduled).
THEOREM OneDailyADate == Spec => []DailyOnce
<1>1. Init => DailyInv
  BY DEF Init, NoRun, DailyInv, Daily
<1>2. Typed /\ DailyInv => DailyOnce
  BY DEF DailyInv, DailyOnce
<1> QED
  BY <1>1, <1>2, InitTyped, NextTyped, DailyStays, PTL DEF Spec

-----------------------------------------------------------------------------
(* The directory: the archives are finitely many and each is stored once, and  *)
(* only who prunes has archives to delete.                                      *)

DirInv ==
  /\ IsFiniteSet(archives)
  /\ \A a \in archives : a.seq <= stored
  /\ \A a, b \in archives : a.seq = b.seq => a = b
  /\ \A p \in Workers : run[p].doomed # {} => run[p].pc = "prune"
  /\ \A p \in Workers : \A n \in run[p].doomed : n <= stored

\* Each nonempty set of numbers has a least one.
LEMMA LeastElement ==
  ASSUME NEW S \in SUBSET Nat, S # {}
  PROVE  \E m \in S : \A n \in S : m <= n
<1> DEFINE R == OpToRel(<, Nat)
<1>1. IsWellFoundedOn(R, Nat)
  BY NatLessThanWellFounded
<1>2. \A m, n \in S : n < m => <<n, m>> \in R
  BY DEF OpToRel
<1> HIDE DEF R
<1>3. PICK m \in S : \A n \in S : ~(<<n, m>> \in R)
  BY <1>1, WFMin
<1>4. ASSUME NEW n \in S PROVE m <= n
  <2>1. ~(n < m)
    BY <1>2, <1>3
  <2> QED
    BY <2>1
<1> QED
  BY <1>4

\* prune_backups deletes all but Keep.
LEMMA PruneKeeps ==
  ASSUME Typed, DirInv
  PROVE  Cardinality({a \in archives : a.seq \notin Old}) <= Keep
<1> DEFINE K == {a \in archives : a.seq \notin Old}
           Newer(b) == {c \in archives : c.seq > b.seq}
<1>1. \A a \in archives : a.seq \in Nat
  BY DEF Typed, TypeOK, Archive
<1>2. /\ IsFiniteSet(archives) /\ IsFiniteSet(K) /\ Keep \in Nat \ {0}
  BY FS_Subset, ConstantsAssumption DEF DirInv
<1>3. \A b \in archives : IsFiniteSet(Newer(b)) /\ Cardinality(Newer(b)) \in Nat
  BY <1>2, FS_Subset, FS_CardinalityType
<1>4. \A b \in K : Cardinality(Newer(b)) < Keep
  <2> SUFFICES ASSUME NEW b \in K, Cardinality(Newer(b)) >= Keep PROVE FALSE
    BY <1>2, <1>3
  <2>1. b.seq \in Old
    BY DEF Old
  <2> QED
    BY <2>1
<1>5. CASE K = {}
  BY <1>2, <1>5, FS_EmptySet
<1>6. CASE K # {}
  <2>1. PICK m \in {a.seq : a \in K} : \A n \in {a.seq : a \in K} : m <= n
    <3>1. {a.seq : a \in K} \in SUBSET Nat /\ {a.seq : a \in K} # {}
      BY <1>1, <1>6
    <3> QED
      BY <3>1, LeastElement
  <2>2. PICK b \in K : b.seq = m
    BY <2>1
  <2>3. K \ {b} \subseteq Newer(b)
    <3> SUFFICES ASSUME NEW a \in K, a # b PROVE a.seq > b.seq
      OBVIOUS
    <3>1. m <= a.seq /\ a.seq # b.seq
      BY <2>1 DEF DirInv
    <3> QED
      BY <1>1, <2>2, <3>1
  <2>4. Cardinality(K \ {b}) <= Cardinality(Newer(b))
    BY <1>3, <2>3, FS_Subset
  <2>5. Cardinality(K \ {b}) = Cardinality(K) - 1 /\ Cardinality(K) \in Nat
    BY <1>2, FS_RemoveElement, FS_CardinalityType
  <2> HIDE DEF K, Newer
  <2>6. Cardinality(Newer(b)) < Keep /\ Cardinality(Newer(b)) \in Nat
    BY <1>3, <1>4 DEF K
  <2> QED
    BY <1>2, <2>4, <2>5, <2>6 DEF K
<1> QED
  BY <1>5, <1>6

\* What a worker's step does to the directory and to its own list.
LEMMA StepCases ==
  ASSUME Typed, DirInv, NEW p \in Workers, Step(p) \/ Crash(p)
  PROVE  \/ /\ UNCHANGED <<archives, stored>> /\ run'[p].doomed = {} /\ robbed' = robbed
            /\ run[p].pc \in {"list", "prune"} /\ run[p].doomed # {} => missed'
            /\ run[p].pc = "list" => missed'
            /\ missed => missed'
         \/ List(p) \/ Store(p) \/ Unlink(p)
<1> USE DEF config, directory, bounds
<1>0. /\ TypeOK /\ run \in [Workers -> Run] /\ run[p] \in Run
      /\ run[p].doomed # {} => run[p].pc = "prune"
  BY DEF Typed, TypeOK, DirInv
<1>1. CASE Reject(p) \/ UnlinkFails(p) \/ Report(p)
  <2>1. run'[p].doomed = {}
    BY <1>0, <1>1, ProceedLocal DEF Reject, UnlinkFails, Report, NoRun
  <2> QED
    BY <1>0, <1>1, <2>1 DEF Reject, UnlinkFails, Report
<1>2. CASE Vanish(p) \/ ReportFails(p) \/ Finish(p) \/ Crash(p)
  <2>1. run'[p].doomed = {}
    BY <1>0, <1>2 DEF Vanish, ReportFails, Finish, Crash, NoRun
  <2> QED
    BY <1>0, <1>2, <2>1 DEF Vanish, ReportFails, Finish, Crash
<1>3. CASE Read(p) \/ Check(p) \/ Pruned(p) \/ Write(p)
  <2>1. run'[p].doomed = {}
    BY <1>0, <1>3 DEF Read, Check, Pruned, Write, NoRun, Run
  <2> QED
    BY <1>0, <1>3, <2>1 DEF Read, Check, Pruned, Write
<1> QED
  BY <1>1, <1>2, <1>3 DEF Step

LEMMA DirStays ==
  ASSUME Typed, DirInv, [Next]_vars
  PROVE  DirInv'
<1> USE DEF config, directory, bounds
<1>0. /\ TypeOK /\ run \in [Workers -> Run] /\ stored \in Nat
      /\ \A a \in archives : a.seq \in Nat
      /\ \A p \in Workers : run[p].doomed \in SUBSET Nat
  BY DEF Typed, TypeOK, Archive, Run
\* A step of q that leaves the directory alone and its list empty.
<1>a. ASSUME NEW q \in Workers, Local(q), run'[q].doomed = {},
             UNCHANGED <<archives, stored>>
      PROVE  DirInv'
  BY <1>a DEF DirInv, Local
<1>1. ASSUME NEW q \in Workers, CreateBackup(q) \/ CreateDaily(q) \/ Restore(q)
      PROVE  DirInv'
  <2>1. PICK r \in Run : Begin(q, r) /\ r.doomed = {}
    BY <1>1, Starts DEF Started
  <2> QED
    BY <1>0, <1>a, <2>1, BeginLocal
<1>2. ASSUME NEW q \in Workers, Step(q) \/ Crash(q)
      PROVE  DirInv'
  <2>0. Local(q) /\ run[q] \in Run
    BY <1>0, <1>2, StepTyped
  <2>1. CASE UNCHANGED <<archives, stored>> /\ run'[q].doomed = {}
    BY <1>a, <2>0, <2>1
  <2>2. CASE List(q)
    <3>1. /\ run'[q].pc = "prune" /\ run'[q].doomed = Old
          /\ UNCHANGED <<archives, stored>>
      BY <1>0, <2>0, <2>2 DEF List, Run
    <3>2. \A n \in Old : n <= stored
      BY DEF Old, DirInv
    <3> QED
      BY <2>0, <3>1, <3>2 DEF DirInv, Local
  <2>3. CASE Store(q)
    <3> DEFINE new == [at |-> run[q].when, reason |-> run[q].reason,
                       seq |-> stored + 1, files |-> run[q].read]
    <3>1. /\ archives' \subseteq archives \cup {new} /\ stored' = stored + 1
          /\ run'[q].doomed = run[q].doomed /\ run[q].pc = "store"
      BY <1>0, <2>0, <2>3 DEF Store, Run
    <3>2. new.seq = stored + 1
      OBVIOUS
    <3> HIDE DEF new
    <3>3. IsFiniteSet(archives')
      <4>1. IsFiniteSet(archives \cup {new})
        BY FS_AddElement DEF DirInv
      <4> QED
        BY <3>1, <4>1, FS_Subset
    <3>4. \A a \in archives' : a.seq <= stored'
      BY <1>0, <3>1, <3>2 DEF DirInv
    <3>5. \A a, b \in archives' : a.seq = b.seq => a = b
      <4>1. \A a \in archives : a.seq # new.seq
        BY <1>0, <3>2 DEF DirInv
      <4> QED
        BY <3>1, <4>1 DEF DirInv
    <3>6. run'[q].doomed = {}
      BY <3>1 DEF DirInv
    <3>7. \A p \in Workers : \A n \in run'[p].doomed : n <= stored'
      <4> SUFFICES ASSUME NEW p \in Workers, NEW n \in run'[p].doomed
                   PROVE  n <= stored'
        OBVIOUS
      <4>1. p # q /\ n \in run[p].doomed
        BY <2>0, <3>6 DEF Local
      <4>2. n \in Nat /\ n <= stored
        BY <1>0, <4>1 DEF DirInv
      <4> QED
        BY <1>0, <3>1, <4>2
    <3>8. \A p \in Workers : run'[p].doomed # {} => run'[p].pc = "prune"
      BY <2>0, <3>6 DEF DirInv, Local
    <3> QED
      BY <3>3, <3>4, <3>5, <3>7, <3>8 DEF DirInv
  <2>4. CASE Unlink(q)
    <3>1. PICK n \in run[q].doomed, a \in archives :
            /\ archives' = archives \ {a}
            /\ run' = [run EXCEPT ![q].doomed = @ \ {n}]
      BY <2>4 DEF Unlink
    <3>2. /\ run'[q].doomed \subseteq run[q].doomed /\ run'[q].pc = "prune"
          /\ stored' = stored
      BY <1>0, <2>0, <2>4, <3>1 DEF Unlink, Run
    <3>3. IsFiniteSet(archives')
      BY <3>1, FS_Subset DEF DirInv
    <3> QED
      BY <2>0, <3>1, <3>2, <3>3 DEF DirInv, Local
  <2> QED
    BY <1>2, <2>1, <2>2, <2>3, <2>4, StepCases
<1>3. CASE Edit \/ EditWrite \/ EditStrip \/ EditEnd \/ Tick \/ UNCHANGED vars
  <2>1. UNCHANGED <<archives, stored, run>>
    BY <1>3 DEF Edit, BeginEdit, EditWrite, EditStrip, Put, EditEnd, Tick, vars
  <2> QED
    BY <2>1 DEF DirInv
<1> QED
  BY <1>1, <1>2, <1>3 DEF Next

LEMMA InitDir == Init => DirInv
BY FS_EmptySet DEF Init, DirInv, NoRun

-----------------------------------------------------------------------------
(* Retention *)

\* What is left when all who prune have come to an end.
Left == {a \in archives : \A p \in Workers : a.seq \notin run[p].doomed}

\* No more than Keep will be left, or someone is still to list the directory.
KeepInv ==
  ~missed => (\E p \in Workers : run[p].pc = "list") \/ Cardinality(Left) <= Keep

LEMMA KeepStays ==
  ASSUME Typed, DirInv, KeepInv, [Next]_vars
  PROVE  KeepInv'
<1> USE DEF config, directory, bounds
<1>0. /\ TypeOK /\ run \in [Workers -> Run] /\ Keep \in Nat
  BY ConstantsAssumption DEF Typed, TypeOK
<1>a. /\ IsFiniteSet(Left) /\ Cardinality(Left) \in Nat
  BY FS_Subset, FS_CardinalityType DEF DirInv, Left
\* A step that leaves no more of them, and after which who was to list still is.
<1>b. ASSUME Left' \subseteq Left, missed => missed',
             ~missed' => \A p \in Workers : run[p].pc = "list" => run'[p].pc = "list"
      PROVE  KeepInv'
  <2>1. Cardinality(Left') <= Cardinality(Left) /\ Cardinality(Left') \in Nat
    BY <1>a, <1>b, FS_Subset, FS_CardinalityType
  <2> QED
    BY <1>0, <1>a, <1>b, <2>1 DEF KeepInv
<1>1. ASSUME NEW q \in Workers, CreateBackup(q) \/ CreateDaily(q) \/ Restore(q)
      PROVE  KeepInv'
  <2>1. PICK r \in Run : Begin(q, r)
    BY <1>1, Starts
  <2>2. /\ Local(q) /\ Idle(q) /\ UNCHANGED <<archives, missed>>
    BY <1>0, <2>1, BeginLocal
  <2>3. run[q].doomed = {}
    BY <2>2 DEF DirInv, Idle
  <2>4. Left' \subseteq Left
    BY <2>2, <2>3 DEF Left, Local
  <2> QED
    BY <1>b, <2>2, <2>4 DEF Local, Idle
<1>2. ASSUME NEW q \in Workers, Step(q) \/ Crash(q)
      PROVE  KeepInv'
  <2>0. Local(q) /\ run[q] \in Run
    BY <1>0, <1>2, StepTyped
  <2>1. CASE /\ archives' = archives
             /\ run[q].pc \in {"list", "prune"} /\ run[q].doomed # {} => missed'
             /\ run[q].pc = "list" => missed'
             /\ missed => missed'
    <3>1. CASE missed'
      BY <3>1 DEF KeepInv
    <3>2. CASE ~missed'
      <4>1. run[q].doomed = {} /\ run[q].pc # "list"
        BY <2>1, <3>2 DEF DirInv
      <4>2. Left' \subseteq Left
        BY <2>0, <2>1, <4>1 DEF Left, Local
      <4> QED
        BY <1>b, <2>0, <2>1, <4>1, <4>2 DEF Local
    <3> QED
      BY <3>1, <3>2
  <2>2. CASE List(q)
    <3>1. run'[q].doomed = Old /\ archives' = archives
      BY <1>0, <2>0, <2>2 DEF List, Run
    <3>2. Left' \subseteq {a \in archives : a.seq \notin Old}
      BY <3>1 DEF Left
    <3>3. Cardinality(Left') <= Cardinality({a \in archives : a.seq \notin Old})
      <4>1. IsFiniteSet({a \in archives : a.seq \notin Old})
        BY FS_Subset DEF DirInv
      <4> QED
        BY <3>2, <4>1, FS_Subset
    <3>4. /\ Cardinality({a \in archives : a.seq \notin Old}) \in Nat
          /\ Cardinality(Left') \in Nat
      <4>1. /\ IsFiniteSet({a \in archives : a.seq \notin Old})
            /\ IsFiniteSet(Left')
        BY <3>2, FS_Subset DEF DirInv
      <4> QED
        BY <4>1, FS_CardinalityType
    <3>5. Cardinality(Left') <= Keep
      BY <1>0, <3>3, <3>4, PruneKeeps
    <3> QED
      BY <3>5 DEF KeepInv
  <2>3. CASE Store(q)
    <3>1. run'[q].pc = "list"
      BY <1>0, <2>0, <2>3 DEF Store, Run
    <3> QED
      BY <3>1 DEF KeepInv
  <2>4. CASE Unlink(q)
    <3>1. PICK n \in run[q].doomed, a \in archives :
            /\ a.seq = n /\ archives' = archives \ {a}
            /\ run' = [run EXCEPT ![q].doomed = @ \ {n}]
      BY <2>4 DEF Unlink
    <3>2. /\ run'[q].doomed = run[q].doomed \ {n} /\ missed' = missed
          /\ run[q].pc = "prune"
      BY <1>0, <2>0, <2>4, <3>1 DEF Unlink, Run
    <3>3. \A b \in archives' : b.seq # n
      BY <3>1 DEF DirInv
    <3>4. Left' \subseteq Left
      BY <2>0, <3>1, <3>2, <3>3 DEF Left, Local
    <3> QED
      BY <1>b, <2>0, <3>2, <3>4 DEF Local
  <2> QED
    BY <1>2, <2>1, <2>2, <2>3, <2>4, StepCases
<1>3. CASE Edit \/ EditWrite \/ EditStrip \/ EditEnd \/ Tick \/ UNCHANGED vars
  <2>1. UNCHANGED <<archives, missed, run>>
    BY <1>3 DEF Edit, BeginEdit, EditWrite, EditStrip, Put, EditEnd, Tick, vars
  <2> QED
    BY <2>1 DEF KeepInv, Left
<1> QED
  BY <1>1, <1>2, <1>3 DEF Next

\* However many backups overlap, once they have ended, each with its prune, no more than
\* Keep archives are left (backup.py: prune_backups).
THEOREM RetentionStays == Spec => []RetentionKept
<1>1. Init => KeepInv
  <2> SUFFICES ASSUME Init PROVE Cardinality(Left) <= Keep
    BY DEF KeepInv
  <2>1. Left = {}
    BY DEF Init, Left
  <2> QED
    BY <2>1, FS_EmptySet, ConstantsAssumption
<1>2. DirInv /\ KeepInv => RetentionKept
  <2> SUFFICES ASSUME DirInv, KeepInv, ~missed, \A p \in Workers : Idle(p)
               PROVE  Cardinality(archives) <= Keep
    BY DEF RetentionKept
  <2>1. Left = archives
    BY DEF Left, DirInv, Idle
  <2> QED
    BY <2>1 DEF KeepInv, Idle
<1> QED
  BY <1>1, <1>2, InitTyped, NextTyped, InitDir, DirStays, KeepStays, PTL DEF Spec

-----------------------------------------------------------------------------
(* A restore that stops half-way *)

\* While p restores and no one takes its archives away: the archive it restores is there
\* until its own backup is stored, then that one, as long as an archive of its name is.
Safe(p) ==
  Restoring(p) /\ p \notin robbed =>
    /\ run[p].pc \in {"read", "check", "store"} =>
         \E a \in archives : a.files = run[p].image
    /\ run[p].pc \in {"list", "prune", "size"} =>
         /\ run[p].own # 0
         /\ \A a \in archives : Named(a, run[p].when, run[p].reason) => a.seq = run[p].own
    /\ run[p].pc = "prune" => \A n \in run[p].doomed : \E a \in archives : a.seq = n
    /\ run[p].pc = "write" =>
         \E a \in archives : a.files = run[p].image \/ a.seq = run[p].own

\* A step of another worker that only adds archives, none of which has the name of one
\* that p has stored.
LEMMA SafeBeside ==
  ASSUME NEW p \in Workers, Safe(p), run'[p] = run[p],
         p \notin robbed' => p \notin robbed,
         p \notin robbed' /\ Restoring(p) =>
           /\ archives \subseteq archives'
           /\ \A a \in archives' \ archives :
                run[p].own # 0 => ~Named(a, run[p].when, run[p].reason)
  PROVE  Safe(p)'
BY DEF Safe, Restoring, Named

LEMMA SafeStays ==
  ASSUME Typed, DirInv, [Next]_vars, NEW p \in Workers, Safe(p)
  PROVE  Safe(p)'
<1> USE DEF config, directory, bounds
<1>0. /\ TypeOK /\ run \in [Workers -> Run] /\ run[p] \in Run /\ stored \in Nat
      /\ robbed \subseteq Workers
      /\ run[p].pc = "write" => Restoring(p)
  BY DEF Typed, TypeOK, Restored
<1>1. ASSUME NEW q \in Workers, CreateBackup(q) \/ CreateDaily(q) \/ Restore(q)
      PROVE  Safe(p)'
  <2>1. PICK r \in Run : Begin(q, r) /\ Started(r)
    BY <1>1, Starts
  <2>2. /\ Local(q) /\ run'[q] = r /\ archives' = archives /\ robbed' = robbed \ {q}
    BY <1>0, <2>1, BeginLocal
  <2>3. CASE p = q
    BY <2>1, <2>2, <2>3 DEF Safe, Restoring, Started
  <2>4. CASE p # q
    BY <2>2, <2>4, SafeBeside DEF Local
  <2> QED
    BY <2>3, <2>4
<1>2. ASSUME NEW q \in Workers, Step(q) \/ Crash(q), q # p
      PROVE  Safe(p)'
  <2>0. run'[p] = run[p] /\ run[q] \in Run
    BY <1>0, <1>2, StepTyped DEF Local
  <2>1. CASE archives' = archives /\ robbed' = robbed
    BY <2>0, <2>1, SafeBeside
  <2>2. CASE List(q)
    BY <2>0, <2>1, <2>2 DEF List
  <2>3. CASE Store(q)
    <3> DEFINE new == [at |-> run[q].when, reason |-> run[q].reason,
                       seq |-> stored + 1, files |-> run[q].read]
    <3>1. /\ archives' = {a \in archives : ~Named(a, run[q].when, run[q].reason)} \cup {new}
          /\ robbed' = robbed \cup
               {t \in Restorers(q) : \/ Exists(run[q].when, run[q].reason)
                                     \/ run[t].own # 0 /\ SameName(q, t)}
      BY <2>3 DEF Store
    <3>2. new.at = run[q].when /\ new.reason = run[q].reason
      OBVIOUS
    <3> HIDE DEF new
    <3>3. ASSUME p \notin robbed', Restoring(p)
          PROVE  /\ archives \subseteq archives'
                 /\ \A a \in archives' \ archives :
                      run[p].own # 0 => ~Named(a, run[p].when, run[p].reason)
      <4>1. /\ ~Exists(run[q].when, run[q].reason)
            /\ run[p].own # 0 => ~SameName(q, p)
        BY <1>2, <3>1, <3>3 DEF Restorers
      <4>2. archives \subseteq archives'
        BY <3>1, <4>1 DEF Exists
      <4>3. run[p].own # 0 => ~Named(new, run[p].when, run[p].reason)
        BY <3>2, <4>1 DEF SameName, Named
      <4> QED
        BY <3>1, <4>2, <4>3
    <3> QED
      BY <2>0, <3>1, <3>3, SafeBeside
  <2>4. CASE Unlink(q)
    <3>1. robbed' = robbed \cup Restorers(q)
      BY <2>4 DEF Unlink
    <3>2. Restoring(p) => p \in robbed'
      BY <1>2, <3>1 DEF Restorers
    <3> QED
      BY <2>0, <3>2 DEF Safe, Restoring
  <2> QED
    BY <1>2, <2>1, <2>2, <2>3, <2>4, StepCases
<1>3. CASE Step(p) \/ Crash(p)
  <2>1. CASE UnlinkFails(p)
    <3>1. run[p].pc = "prune" /\ robbed' = robbed
          /\ \E n \in run[p].doomed : \A a \in archives : a.seq # n
      BY <2>1 DEF UnlinkFails
    <3>2. Restoring(p)' => Restoring(p)
      BY <1>0, <2>1, ProceedLocal DEF UnlinkFails, NoRun, Restoring
    <3> QED
      BY <3>1, <3>2 DEF Safe
  <2>2. CASE Reject(p)
    <3>1. run[p].pc \in {"read", "check"} /\ UNCHANGED <<archives, robbed>>
      BY <2>2 DEF Reject
    <3> QED
      BY <1>0, <2>2, <3>1, ProceedLocal DEF Reject, Safe, Restoring, NoRun
  <2>3. CASE Report(p)
    <3>1. /\ run[p].pc = "size" /\ UNCHANGED <<archives, robbed>>
          /\ \E a \in archives : Named(a, run[p].when, run[p].reason)
      BY <2>3 DEF Report, Exists
    <3> QED
      BY <1>0, <2>3, <3>1, ProceedLocal DEF Report, Safe, Restoring, NoRun
  <2>4. CASE Vanish(p) \/ ReportFails(p) \/ Finish(p) \/ Crash(p)
    BY <1>0, <2>4 DEF Vanish, ReportFails, Finish, Crash, NoRun, Safe, Restoring
  <2>5. CASE Read(p) \/ Check(p)
    <3>1. /\ run'[p].image = run[p].image /\ UNCHANGED <<archives, robbed>>
          /\ run[p].pc \in {"read", "check"} /\ run'[p].pc \in {"read", "check", "store"}
      BY <1>0, <2>5 DEF Read, Check, Run
    <3> QED
      BY <3>1 DEF Safe, Restoring
  <2>6. CASE Store(p)
    <3> DEFINE new == [at |-> run[p].when, reason |-> run[p].reason,
                       seq |-> stored + 1, files |-> run[p].read]
    <3>1. archives' = {a \in archives : ~Named(a, run[p].when, run[p].reason)} \cup {new}
      BY <2>6 DEF Store
    <3>2. /\ run'[p].pc = "list" /\ run'[p].own = stored + 1
          /\ run'[p].when = run[p].when /\ run'[p].reason = run[p].reason
      BY <1>0, <2>6 DEF Store, Run
    <3>3. \A a \in archives' : Named(a, run[p].when, run[p].reason) => a.seq = stored + 1
      BY <3>1
    <3> QED
      BY <1>0, <3>2, <3>3 DEF Safe
  <2>7. CASE List(p)
    <3>1. /\ run'[p].pc = "prune" /\ run'[p].doomed = Old /\ run[p].pc = "list"
          /\ run'[p].image = run[p].image /\ run'[p].own = run[p].own
          /\ run'[p].when = run[p].when /\ run'[p].reason = run[p].reason
          /\ UNCHANGED <<archives, robbed>>
      BY <1>0, <2>7 DEF List, Run
    <3>2. \A n \in Old : \E a \in archives : a.seq = n
      BY DEF Old
    <3> QED
      BY <3>1, <3>2 DEF Safe, Restoring
  <2>8. CASE Unlink(p)
    <3>1. PICK n \in run[p].doomed, a \in archives :
            /\ a.seq = n /\ archives' = archives \ {a}
            /\ run' = [run EXCEPT ![p].doomed = @ \ {n}]
      BY <2>8 DEF Unlink
    <3>2. /\ run'[p].doomed = run[p].doomed \ {n} /\ run'[p].pc = "prune"
          /\ run'[p].image = run[p].image /\ run'[p].own = run[p].own
          /\ run'[p].when = run[p].when /\ run'[p].reason = run[p].reason
          /\ robbed' = robbed \cup Restorers(p) /\ run[p].pc = "prune"
      BY <1>0, <2>8, <3>1 DEF Unlink, Run
    <3>3. p \notin robbed' => p \notin robbed
      BY <3>2
    <3>4. ASSUME Restoring(p), p \notin robbed
          PROVE  \A m \in run'[p].doomed : \E b \in archives' : b.seq = m
      BY <3>1, <3>2, <3>4 DEF Safe
    <3> QED
      BY <3>1, <3>2, <3>3, <3>4 DEF Safe, Restoring
  <2>9. CASE Pruned(p)
    <3>1. /\ run[p].pc = "prune" /\ UNCHANGED <<archives, robbed>>
          /\ \/ run'[p] = NoRun
             \/ /\ run'[p].pc = "size"
                /\ run'[p].image = run[p].image /\ run'[p].own = run[p].own
                /\ run'[p].when = run[p].when /\ run'[p].reason = run[p].reason
      BY <1>0, <2>9 DEF Pruned, Run
    <3> QED
      BY <3>1 DEF Safe, Restoring, NoRun
  <2>10. CASE Write(p)
    <3>1. /\ run[p].pc = "write" /\ run'[p].pc = "write"
          /\ run'[p].image = run[p].image /\ run'[p].own = run[p].own
          /\ UNCHANGED <<archives, robbed>>
      BY <1>0, <2>10 DEF Write, Run
    <3> QED
      BY <3>1 DEF Safe, Restoring
  <2> QED
    BY <1>3, <2>1, <2>2, <2>3, <2>4, <2>5, <2>6, <2>7, <2>8, <2>9, <2>10 DEF Step
<1>4. CASE Edit \/ EditWrite \/ EditStrip \/ EditEnd \/ Tick \/ UNCHANGED vars
  <2>1. UNCHANGED <<archives, robbed, run>>
    BY <1>4 DEF Edit, BeginEdit, EditWrite, EditStrip, Put, EditEnd, Tick, vars
  <2> QED
    BY <2>1 DEF Safe, Restoring
<1> QED
  BY <1>1, <1>2, <1>3, <1>4 DEF Next

\* From its first file on a restore finds the archive it restores, or the backup of what
\* it replaces, unless another worker has taken that away (backup.py: restore_backup).
THEOREM StaysRecoverable == Spec => []Recoverable
<1> DEFINE Inv == \A p \in Workers : Safe(p)
<1>1. Init => Inv
  BY DEF Init, NoRun, Safe, Restoring
<1>2. Typed /\ DirInv /\ Inv /\ [Next]_vars => Inv'
  BY SafeStays
<1>3. Typed /\ Inv => Recoverable
  BY DEF Typed, Restored, Safe, Recoverable
<1> HIDE DEF Inv
<1> QED
  BY <1>1, <1>2, <1>3, InitTyped, NextTyped, InitDir, DirStays, PTL DEF Spec
===============================================================================
