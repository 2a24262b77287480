--------------------------- MODULE SelfHealProofs ---------------------------
(***************************************************************************)
(* Theorems about SelfHeal, for every number of runners and resources and  *)
(* every limit, window and bound.                                          *)
(***************************************************************************)
EXTENDS SelfHeal, FiniteSetTheorems, TLAPS

-----------------------------------------------------------------------------
(* Types.                                                                   *)

LEMMA PruneTyped ==
  ASSUME NEW state \in State, NEW now \in Nat
  PROVE  PruneState(state, now) \in State
BY DEF PruneState, Prune, State

LEMMA NoRunTyped == NoRun \in Run /\ NoState \in State
BY DEF NoRun, NoState, Run, State, Labels, Attempt

LEMMA InitTyped == Init => TypeOK
BY NoRunTyped DEF Init, TypeOK

\* The state a run goes on with once it has counted an attempt.
Grown(p, r) ==
  [run[p].state EXCEPT ![r] =
     Prune(@, run[p].now) \cup {[at |-> run[p].now, n |-> drawn + 1]}]

LEMMA GrownTyped ==
  ASSUME TypeOK, NEW p \in Runners, NEW r \in Resources
  PROVE  Grown(p, r) \in State
<1>1. /\ run[p].state \in State /\ run[p].now \in Nat /\ drawn + 1 \in Nat
  BY DEF TypeOK, Run
<1>2. [at |-> run[p].now, n |-> drawn + 1] \in Attempt
  BY <1>1 DEF Attempt
<1>3. Prune(run[p].state[r], run[p].now) \subseteq Attempt
  BY <1>1 DEF Prune, State
<1> QED
  BY <1>1, <1>2, <1>3 DEF Grown, State

\* What Count does, with the local definitions expanded once.
LEMMA CountFacts ==
  ASSUME TypeOK, NEW p \in Runners, Count(p)
  PROVE  \E r \in run[p].todo :
           /\ r \in Resources /\ run[p].pc = "choosing" /\ ~run[p].dry
           /\ Cardinality(Prune(run[p].state[r], run[p].now)) < Limit
           /\ run' = [run EXCEPT ![p].pc = "restarting", ![p].todo = @ \ {r},
                                 ![p].res = {r}, ![p].n = drawn + 1,
                                 ![p].state = Grown(p, r)]
           /\ file' = PruneState(Grown(p, r), run[p].now)
           /\ UNCHANGED <<clock, lock, restarts, forgotten, stepped>>
<1>1. run[p].todo \subseteq Resources
  BY DEF TypeOK, Run
<1> QED
  BY <1>1 DEF Count, Grown

LEMMA NextTyped == TypeOK /\ [Next]_vars => TypeOK'
<1> SUFFICES ASSUME TypeOK, [Next]_vars
             PROVE  TypeOK'
  OBVIOUS
<1> USE DEF history
<1>1. ASSUME NEW p \in Runners, Start(p)
      PROVE  TypeOK'
  <2>1. PICK dry \in BOOLEAN, asked \in {Resources} \cup {{r} : r \in Resources} :
          run' = [run EXCEPT ![p] =
            [NoRun EXCEPT !.pc = "waiting", !.dry = dry, !.todo = asked]]
    BY <1>1 DEF Start
  <2>2. asked \subseteq Resources
    BY <2>1
  <2>3. [NoRun EXCEPT !.pc = "waiting", !.dry = dry, !.todo = asked] \in Run
    BY <2>2, NoRunTyped DEF Run, NoRun, Labels
  <2> QED
    BY <1>1, <2>1, <2>3 DEF Start, TypeOK
<1>2. ASSUME NEW p \in Runners, Enter(p)
      PROVE  TypeOK'
  <2>0. PICK read \in {file, NoState} : Load(p, read)
    BY <1>2 DEF Enter
  <2>1. /\ PruneState(read, clock) \in State
        /\ forgotten' \in State /\ faults' \in Nat
    <3>1. read \in State
      BY NoRunTyped DEF TypeOK
    <3> QED
      BY <2>0, <3>1, PruneTyped DEF TypeOK, Load, State
  <2>2. run[p] \in Run /\ clock \in Nat
    BY DEF TypeOK
  <2>3. [run[p] EXCEPT !.pc = "choosing", !.now = clock, !.todo = @ \cap healable,
                       !.state = PruneState(read, clock)] \in Run
    BY <2>1, <2>2 DEF Run, Labels
  <2>4. run' \in [Runners -> Run]
    BY <2>0, <2>3 DEF Load, TypeOK
  <2> QED
    BY <1>2, <2>1, <2>4 DEF Enter, TypeOK
<1>3. ASSUME NEW p \in Runners, Skip(p)
      PROVE  TypeOK'
  BY <1>3 DEF Skip, TypeOK, Run
<1>4. ASSUME NEW p \in Runners, Count(p)
      PROVE  TypeOK'
  <2>1. PICK r \in Resources :
          /\ run' = [run EXCEPT ![p].pc = "restarting", ![p].todo = @ \ {r},
                                ![p].res = {r}, ![p].n = drawn + 1,
                                ![p].state = Grown(p, r)]
          /\ file' = PruneState(Grown(p, r), run[p].now)
    BY <1>4, CountFacts
  <2>2. /\ Grown(p, r) \in State /\ run[p].now \in Nat /\ drawn + 1 \in Nat
    BY GrownTyped DEF TypeOK, Run
  <2>3. run' \in [Runners -> Run]
    <3>1. run[p] \in Run
      BY DEF TypeOK
    <3>2. [run[p] EXCEPT !.pc = "restarting", !.todo = @ \ {r}, !.res = {r},
                         !.n = drawn + 1, !.state = Grown(p, r)] \in Run
      BY <2>2, <3>1 DEF Run, Labels
    <3> QED
      BY <2>1, <3>2 DEF TypeOK
  <2>4. file' \in State
    BY <2>1, <2>2, PruneTyped
  <2> QED
    BY <1>4, <2>2, <2>3, <2>4 DEF Count, TypeOK
<1>5. ASSUME NEW p \in Runners, Restart(p)
      PROVE  TypeOK'
  <2>1. Counted(p) \in Attempt
    BY DEF Counted, Attempt, TypeOK, Run
  <2>2. restarts' \in State
    BY <1>5, <2>1 DEF Restart, TypeOK, State
  <2>3. run' \in [Runners -> Run]
    BY <1>5 DEF Restart, TypeOK, Run, Labels
  <2> QED
    BY <1>5, <2>2, <2>3 DEF Restart, TypeOK
<1>6. ASSUME NEW p \in Runners, Finish(p)
      PROVE  TypeOK'
  <2>1. file' \in State
    BY <1>6, PruneTyped DEF Finish, TypeOK, Run
  <2> QED
    BY <1>6, <2>1, NoRunTyped DEF Finish, TypeOK
<1>7. ASSUME NEW p \in Runners, Abort(p) \/ Crash(p)
      PROVE  TypeOK'
  BY <1>7, NoRunTyped DEF Abort, Crash, TypeOK
<1>8. ASSUME Configure \/ Tick \/ StepBack \/ UNCHANGED vars
      PROVE  TypeOK'
  BY <1>8 DEF Configure, Tick, StepBack, vars, TypeOK
<1> QED
  BY <1>1, <1>2, <1>3, <1>4, <1>5, <1>6, <1>7, <1>8 DEF Next, RunStep

\* Every variable keeps its type.
THEOREM TypeCorrect == Spec => []TypeOK
BY InitTyped, NextTyped, PTL DEF Spec

-----------------------------------------------------------------------------
(* The inductive invariant.  The limit is enforced on a copy of the state    *)
(* file, pruned by a clock read once; it bounds the restarts because, while  *)
(* the clock is not set back, the copy holds every restart, done or begun,   *)
(* that the run's window covers.                                             *)

\* The restarts of r that were carried out, or that a run is about to carry out,
\* but for those that a failed read has forgotten.
Begun(p, r) == run[p].pc = "restarting" /\ r \in run[p].res
Attempts(r) ==
  (restarts[r] \cup {Counted(p) : p \in {q \in Runners : Begun(q, r)}}) \ forgotten[r]

\* What a run works on is finite, and is in the state file.
CopyInv ==
  \A p \in Runners : run[p].pc \in Inside =>
    \A r \in Resources :
      /\ IsFiniteSet(run[p].state[r])
      /\ \A x \in run[p].state[r] :
           x \in file[r] /\ run[p].now < x.at + Window /\ x.at <= run[p].now + Slack

FiniteInv == \A r \in Resources : IsFiniteSet(file[r])

CoverInv ==
  \A r \in Resources : \A x \in Attempts(r) :
    /\ x \in Attempt /\ x.at <= clock
    /\ clock < x.at + Window => x \in file[r]
    /\ \A p \in Runners : run[p].pc \in Inside =>
         /\ x.at <= run[p].now
         /\ run[p].now < x.at + Window => x \in file[r] /\ x \in run[p].state[r]

NowInv == \A p \in Runners : run[p].pc \in Inside => run[p].now <= clock

LimitInv ==
  \A r \in Resources, end \in Nat :
    /\ IsFiniteSet(During(Attempts(r), end))
    /\ Cardinality(During(Attempts(r), end)) <= Limit

Steady == CoverInv /\ NowInv /\ LimitInv

IInv == TypeOK /\ LockIsHeld /\ CopyInv /\ FiniteInv /\ (stepped = 0 => Steady)

\* Fewer attempts stay within the limit.
LEMMA FewerAttempts ==
  ASSUME LimitInv, NEW r \in Resources, NEW S, S \subseteq Attempts(r), NEW end \in Nat
  PROVE  /\ IsFiniteSet(During(S, end))
         /\ Cardinality(During(S, end)) <= Limit
<1>1. During(S, end) \subseteq During(Attempts(r), end)
  BY DEF During
<1>2. /\ IsFiniteSet(During(Attempts(r), end))
      /\ Cardinality(During(Attempts(r), end)) <= Limit
  BY DEF LimitInv
<1>3. /\ IsFiniteSet(During(S, end))
      /\ Cardinality(During(S, end)) <= Cardinality(During(Attempts(r), end))
  BY <1>1, <1>2, FS_Subset
<1>4. /\ Cardinality(During(S, end)) \in Nat
      /\ Cardinality(During(Attempts(r), end)) \in Nat
  BY <1>2, <1>3, FS_CardinalityType
<1> QED
  BY <1>2, <1>3, <1>4, ConstantsAssumption

LEMMA PruneFinite ==
  ASSUME NEW S, IsFiniteSet(S), NEW now \in Nat
  PROVE  IsFiniteSet(Prune(S, now))
<1>1. Prune(S, now) \subseteq S
  BY DEF Prune
<1> QED
  BY <1>1, FS_Subset

\* Only the holder of the lock is inside: no other run is.
LEMMA OnlyHolder ==
  ASSUME LockIsHeld, NEW p \in Runners, run[p].pc \in Inside
  PROVE  lock = p /\ \A q \in Runners : run[q].pc \in Inside => q = p
BY DEF LockIsHeld

LEMMA StartInv ==
  ASSUME IInv, NEW p \in Runners, Start(p)
  PROVE  IInv'
<1> USE DEF history
<1>1. TypeOK' /\ TypeOK
  BY NextTyped DEF IInv, Next
<1>2. /\ run[p].pc = "idle" /\ run'[p].pc = "waiting"
      /\ \A q \in Runners \ {p} : run'[q] = run[q]
      /\ UNCHANGED <<clock, file, lock, restarts, forgotten, stepped>>
  BY <1>1 DEF Start, TypeOK, NoRun
<1>3. \A r \in Resources : Attempts(r)' = Attempts(r)
  BY <1>2 DEF Attempts, Begun, Counted
<1>4. LockIsHeld' /\ CopyInv' /\ FiniteInv'
  BY <1>2 DEF IInv, LockIsHeld, CopyInv, FiniteInv, Inside
<1>5. Steady => Steady'
  BY <1>2, <1>3 DEF Steady, CoverInv, NowInv, LimitInv, Inside, During
<1> QED
  BY <1>1, <1>2, <1>4, <1>5 DEF IInv

LEMMA EnterInv ==
  ASSUME IInv, NEW p \in Runners, Enter(p)
  PROVE  IInv'
<1> USE DEF history
<1>1. TypeOK' /\ TypeOK
  BY NextTyped DEF IInv, Next
<1>2. /\ run[p].pc = "waiting" /\ lock = NoOne /\ lock' = p
      /\ run'[p].pc = "choosing" /\ run'[p].now = clock
      /\ \A q \in Runners \ {p} : run'[q] = run[q]
      /\ UNCHANGED <<clock, file, restarts, stepped>>
  BY <1>1 DEF Enter, Load, TypeOK, Run
<1>r. PICK read \in {file, NoState} :
        /\ run'[p].state = PruneState(read, clock)
        /\ forgotten' = [r \in Resources |-> forgotten[r] \cup (file[r] \ read[r])]
  BY <1>1 DEF Enter, Load, TypeOK, Run
<1>s. \A r \in Resources :
        /\ read[r] \subseteq file[r]
        /\ forgotten'[r] = forgotten[r] \cup (file[r] \ read[r])
  BY <1>r DEF NoState
<1>3. \A q \in Runners : run[q].pc \notin Inside
  BY <1>2, ConstantsAssumption DEF IInv, LockIsHeld
\* What is left of the attempts is in the file as it was read, or in neither.
<1>4. \A r \in Resources : Attempts(r)' = Attempts(r) \ (file[r] \ read[r])
  BY <1>2, <1>3, <1>s DEF Attempts, Begun, Counted, Inside
<1>5. LockIsHeld'
  BY <1>2, <1>3 DEF LockIsHeld, Inside
<1>6. \A r \in Resources : run'[p].state[r] = Prune(read[r], clock)
  BY <1>r DEF PruneState
<1>7. clock \in Nat
  BY <1>1 DEF TypeOK
<1>8. CopyInv' /\ FiniteInv'
  <2>1. \A r \in Resources : IsFiniteSet(Prune(read[r], clock))
    <3>1. \A r \in Resources : IsFiniteSet(read[r])
      BY <1>s, FS_Subset DEF IInv, FiniteInv
    <3> QED
      BY <1>7, <3>1, PruneFinite
  <2>2. \A q \in Runners : run'[q].pc \in Inside => q = p
    BY <1>2, <1>3
  <2>3. \A r \in Resources : \A x \in Prune(read[r], clock) :
          x \in file[r] /\ clock < x.at + Window /\ x.at <= clock + Slack
    BY <1>s DEF Prune
  <2> QED
    BY <1>2, <1>6, <2>1, <2>2, <2>3 DEF CopyInv, FiniteInv, IInv
<1>9. Steady => Steady'
  <2> SUFFICES ASSUME Steady PROVE Steady'
    OBVIOUS
  <2>1. \A q \in Runners : run'[q].pc \in Inside => q = p
    BY <1>2, <1>3
  <2>2. \A r \in Resources : \A x \in Attempts(r)' :
          clock < x.at + Window => x \in Prune(read[r], clock)
    BY <1>4, <1>7, ConstantsAssumption DEF Steady, CoverInv, Attempt, Prune
  <2>3. CoverInv'
    BY <1>2, <1>4, <1>6, <1>s, <2>1, <2>2 DEF Steady, CoverInv, Prune
  <2>4. NowInv'
    BY <1>2, <1>7, <2>1 DEF NowInv
  <2>5. LimitInv'
    <3> SUFFICES ASSUME NEW r \in Resources, NEW end \in Nat
                 PROVE  /\ IsFiniteSet(During(Attempts(r)', end))
                        /\ Cardinality(During(Attempts(r)', end)) <= Limit
      BY DEF LimitInv, During
    <3> QED
      BY <1>4, FewerAttempts DEF Steady
  <2> QED
    BY <2>3, <2>4, <2>5 DEF Steady
<1> QED
  BY <1>1, <1>2, <1>5, <1>8, <1>9 DEF IInv

LEMMA SkipInv ==
  ASSUME IInv, NEW p \in Runners, Skip(p)
  PROVE  IInv'
<1> USE DEF history
<1>1. TypeOK' /\ TypeOK
  BY NextTyped DEF IInv, Next, RunStep
<1>2. /\ \A q \in Runners : /\ run'[q].pc = run[q].pc /\ run'[q].now = run[q].now
                            /\ run'[q].state = run[q].state /\ run'[q].n = run[q].n
                            /\ run'[q].res = run[q].res
      /\ UNCHANGED <<clock, file, lock, restarts, forgotten, stepped>>
  BY <1>1 DEF Skip, TypeOK, Run
<1>3. \A r \in Resources : Attempts(r)' = Attempts(r)
  BY <1>2 DEF Attempts, Begun, Counted
<1>4. LockIsHeld' /\ CopyInv' /\ FiniteInv'
  BY <1>2 DEF IInv, LockIsHeld, CopyInv, FiniteInv
<1>5. Steady => Steady'
  BY <1>2, <1>3 DEF Steady, CoverInv, NowInv, LimitInv, During
<1> QED
  BY <1>1, <1>2, <1>4, <1>5 DEF IInv

\* The step that matters: an attempt is added to the copy and to the file.
LEMMA CountInv ==
  ASSUME IInv, NEW p \in Runners, Count(p)
  PROVE  IInv'
<1> USE DEF history
<1>1. TypeOK' /\ TypeOK
  BY NextTyped DEF IInv, Next, RunStep
<1>2. PICK r \in Resources :
        /\ run[p].pc = "choosing" /\ ~run[p].dry
        /\ Cardinality(Prune(run[p].state[r], run[p].now)) < Limit
        /\ run' = [run EXCEPT ![p].pc = "restarting", ![p].todo = @ \ {r},
                              ![p].res = {r}, ![p].n = drawn + 1,
                              ![p].state = Grown(p, r)]
        /\ file' = PruneState(Grown(p, r), run[p].now)
        /\ UNCHANGED <<clock, lock, restarts, forgotten, stepped>>
  BY <1>1, CountFacts
<1> DEFINE now == run[p].now
           x   == [at |-> now, n |-> drawn + 1]
           old == run[p].state[r]
           new == Prune(old, now) \cup {x}
<1>3. /\ run[p] \in Run /\ now \in Nat /\ run[p].state \in State
      /\ drawn + 1 \in Nat /\ clock \in Nat /\ x \in Attempt
  BY <1>1 DEF TypeOK, Run, Attempt
<1>4. /\ run'[p].pc = "restarting" /\ run'[p].res = {r} /\ run'[p].n = drawn + 1
      /\ run'[p].now = now /\ run'[p].state = Grown(p, r)
      /\ \A q \in Runners \ {p} : run'[q] = run[q]
  BY <1>1, <1>2, <1>3 DEF TypeOK, Run
<1>5. /\ Grown(p, r)[r] = new
      /\ \A s \in Resources \ {r} : Grown(p, r)[s] = run[p].state[s]
  BY <1>3 DEF Grown, State
<1>6. /\ lock = p
      /\ \A q \in Runners : run[q].pc \in Inside => q = p
  BY <1>2, OnlyHolder DEF Inside, IInv
<1>7. LockIsHeld'
  BY <1>2, <1>4, <1>6 DEF IInv, LockIsHeld, Inside
<1>8. /\ \A s \in Resources : IsFiniteSet(run[p].state[s])
      /\ \A s \in Resources : \A y \in run[p].state[s] :
           y \in file[s] /\ now < y.at + Window /\ y.at <= now + Slack
  BY <1>2 DEF IInv, CopyInv, Inside
\* Nothing the copy holds is pruned: it was pruned by the same clock reading.
<1>9. /\ Prune(old, now) = old
      /\ \A s \in Resources : file'[s] = Grown(p, r)[s]
  <2>1. \A s \in Resources : Prune(run[p].state[s], now) = run[p].state[s]
    BY <1>8 DEF Prune
  <2>2. x \in Prune(new, now)
    BY <1>3, ConstantsAssumption DEF Prune
  <2>3. Prune(new, now) = new
    BY <2>1, <2>2 DEF Prune
  <2> QED
    BY <1>2, <1>5, <2>1, <2>3 DEF PruneState
<1>10. IsFiniteSet(new) /\ Cardinality(new) <= Limit
  <2>1. /\ IsFiniteSet(old) /\ Cardinality(old) < Limit
    BY <1>2, <1>8, <1>9
  <2>2. Cardinality(old) \in Nat
    BY <2>1, FS_CardinalityType
  <2>3. /\ IsFiniteSet(old \cup {x})
        /\ Cardinality(old \cup {x}) = IF x \in old THEN Cardinality(old)
                                                     ELSE Cardinality(old) + 1
    BY <2>1, FS_AddElement
  <2> QED
    BY <1>9, <2>1, <2>2, <2>3, ConstantsAssumption
<1>11. CopyInv' /\ FiniteInv'
  <2>1. \A q \in Runners : run'[q].pc \in Inside => q = p
    BY <1>4, <1>6
  <2>2. \A s \in Resources : IsFiniteSet(Grown(p, r)[s])
    BY <1>5, <1>8, <1>10
  <2>3. \A s \in Resources : \A y \in Grown(p, r)[s] :
          now < y.at + Window /\ y.at <= now + Slack
    BY <1>3, <1>5, <1>8, <1>9, ConstantsAssumption
  <2> QED
    BY <1>4, <1>9, <2>1, <2>2, <2>3 DEF CopyInv, FiniteInv
<1>12. Steady => Steady'
  <2> SUFFICES ASSUME Steady PROVE Steady'
    OBVIOUS
  <2>1. /\ \A s \in Resources \ {r} : Attempts(s)' = Attempts(s)
        /\ Attempts(r)' = Attempts(r) \cup ({x} \ forgotten[r])
    <3>1. \A s \in Resources, q \in Runners : ~Begun(q, s)
      BY <1>2, <1>6 DEF Begun, Inside
    <3>2. \A s \in Resources : Attempts(s) = restarts[s] \ forgotten[s]
      <4>1. \A s \in Resources : {q \in Runners : Begun(q, s)} = {}
        BY <3>1
      <4> QED
        BY <4>1 DEF Attempts
    <3>3. \A s \in Resources, q \in Runners : Begun(q, s)' <=> q = p /\ s = r
      BY <1>4, <3>1 DEF Begun
    <3>4. Counted(p)' = x
      BY <1>4 DEF Counted
    <3>5. \A s \in Resources :
            {Counted(q)' : q \in {o \in Runners : Begun(o, s)'}} = IF s = r THEN {x} ELSE {}
      BY <3>3, <3>4
    <3>6. \A s \in Resources :
            Attempts(s)' = (restarts[s] \cup (IF s = r THEN {x} ELSE {})) \ forgotten[s]
      BY <1>2, <3>5 DEF Attempts
    <3> QED
      BY <3>2, <3>6
  <2>2. now <= clock
    BY <1>2 DEF Steady, NowInv, Inside
  <2>3. \A s \in Resources : \A y \in Attempts(s) :
          /\ y \in Attempt /\ y.at <= now
          /\ now < y.at + Window => y \in run[p].state[s]
    BY <1>2 DEF Steady, CoverInv, Inside
  <2>4. \A s \in Resources : run[p].state[s] \subseteq Grown(p, r)[s]
    BY <1>5, <1>9
  <2>5. x \in Grown(p, r)[r]
    BY <1>5
  <2>6. \A s \in Resources : \A y \in Attempts(s)' :
          /\ y \in Attempt /\ y.at <= now
          /\ now < y.at + Window => y \in Grown(p, r)[s]
    BY <1>3, <2>1, <2>3, <2>4, <2>5
  <2>7. CoverInv'
    <3> SUFFICES ASSUME NEW s \in Resources, NEW y \in Attempts(s)'
                 PROVE  /\ y \in Attempt /\ y.at <= clock'
                        /\ clock' < y.at + Window => y \in file'[s]
                        /\ \A q \in Runners : run'[q].pc \in Inside =>
                             /\ y.at <= run'[q].now
                             /\ run'[q].now < y.at + Window =>
                                  y \in file'[s] /\ y \in run'[q].state[s]
      BY DEF CoverInv
    <3>1. /\ y \in Attempt /\ y.at <= now /\ y.at \in Nat
          /\ now < y.at + Window => y \in Grown(p, r)[s]
      BY <2>6 DEF Attempt
    <3>2. y.at <= clock' /\ (clock' < y.at + Window => now < y.at + Window)
      BY <1>2, <1>3, <2>2, <3>1, ConstantsAssumption
    <3>3. \A q \in Runners : run'[q].pc \in Inside => q = p
      BY <1>4, <1>6
    <3> QED
      BY <1>4, <1>9, <3>1, <3>2, <3>3
  <2>8. NowInv'
    BY <1>2, <1>4, <2>2 DEF Steady, NowInv
  <2>9. LimitInv'
    <3> SUFFICES ASSUME NEW s \in Resources, NEW end \in Nat
                 PROVE  /\ IsFiniteSet(During(Attempts(s)', end))
                        /\ Cardinality(During(Attempts(s)', end)) <= Limit
      BY DEF LimitInv, During
    <3>1. CASE s # r \/ end < now
      <4>1. x \in During(Attempts(s)', end) => s # r
        BY <1>3, <2>1, <3>1 DEF During
      <4>2. During(Attempts(s)', end) = During(Attempts(s), end)
        BY <2>1, <4>1 DEF During
      <4> QED
        BY <4>2 DEF Steady, LimitInv
    <3>2. CASE s = r /\ ~(end < now)
      <4>1. ASSUME NEW y \in During(Attempts(r)', end)
            PROVE  y \in new
        <5>1. /\ y \in Attempt /\ y.at \in Nat /\ end < y.at + Window
              /\ now < y.at + Window => y \in Grown(p, r)[r]
          BY <2>6, <4>1 DEF During, Attempt
        <5>2. now < y.at + Window
          BY <1>3, <3>2, <5>1, ConstantsAssumption
        <5> QED
          BY <1>5, <5>1, <5>2
      <4>2. /\ IsFiniteSet(During(Attempts(r)', end))
            /\ Cardinality(During(Attempts(r)', end)) <= Cardinality(new)
        BY <1>10, <4>1, FS_Subset
      <4>3. /\ Cardinality(new) \in Nat
            /\ Cardinality(During(Attempts(r)', end)) \in Nat
        BY <1>10, <4>2, FS_CardinalityType
      <4> QED
        BY <1>10, <3>2, <4>2, <4>3, ConstantsAssumption
    <3> QED
      BY <3>1, <3>2
  <2> QED
    BY <2>7, <2>8, <2>9 DEF Steady
<1> QED
  BY <1>1, <1>2, <1>7, <1>11, <1>12 DEF IInv

\* The attempt that was about to be carried out becomes a restart.
LEMMA RestartInv ==
  ASSUME IInv, NEW p \in Runners, Restart(p)
  PROVE  IInv'
<1> USE DEF history
<1>1. TypeOK' /\ TypeOK
  BY NextTyped DEF IInv, Next, RunStep
<1>2. /\ run[p].pc = "restarting" /\ run'[p].pc = "choosing"
      /\ \A q \in Runners : /\ run'[q].now = run[q].now /\ run'[q].n = run[q].n
                            /\ run'[q].state = run[q].state
      /\ \A q \in Runners \ {p} : run'[q] = run[q]
      /\ UNCHANGED <<clock, file, lock, forgotten, stepped>>
  BY <1>1 DEF Restart, TypeOK, Run
<1>3. \A r \in Resources :
        restarts'[r] = IF Begun(p, r) THEN restarts[r] \cup {Counted(p)} ELSE restarts[r]
  BY <1>2 DEF Restart, Begun
<1>4. /\ \A q \in Runners : Counted(q)' = Counted(q)
      /\ \A r \in Resources : ~Begun(p, r)'
      /\ \A q \in Runners \ {p}, r \in Resources : Begun(q, r)' <=> Begun(q, r)
  BY <1>2 DEF Counted, Begun
<1>5. \A r \in Resources : Attempts(r)' = Attempts(r)
  <2> SUFFICES ASSUME NEW r \in Resources PROVE Attempts(r)' = Attempts(r)
    OBVIOUS
  <2> DEFINE begun == {Counted(q) : q \in {o \in Runners : Begun(o, r)}}
  <2>1. restarts'[r] \cup begun' = restarts[r] \cup begun
    BY <1>3, <1>4
  <2> QED
    BY <1>2, <2>1 DEF Attempts
<1>6. \A q \in Runners : run'[q].pc \in Inside <=> run[q].pc \in Inside
  BY <1>2 DEF Inside
<1>7. LockIsHeld' /\ CopyInv' /\ FiniteInv'
  BY <1>2, <1>6 DEF IInv, LockIsHeld, CopyInv, FiniteInv
<1>8. Steady => Steady'
  BY <1>2, <1>5, <1>6 DEF Steady, CoverInv, NowInv, LimitInv, During
<1> QED
  BY <1>1, <1>2, <1>7, <1>8 DEF IInv

\* A run leaves: what it was about to do is forgotten, the file is kept.
LEMMA LeaveInv ==
  ASSUME IInv, TypeOK', NEW p \in Runners,
         run' = [run EXCEPT ![p] = NoRun],
         lock' = IF lock = p THEN NoOne ELSE lock,
         UNCHANGED <<clock, restarts, forgotten, stepped>>,
         \A r \in Resources : IsFiniteSet(file'[r]),
         file' # file => run[p].pc = "choosing" /\ file' = run[p].state
  PROVE  IInv'
<1>1. TypeOK
  BY DEF IInv
<1>2. /\ run'[p].pc = "idle" /\ "idle" \notin Inside
      /\ \A q \in Runners \ {p} : run'[q] = run[q]
  BY <1>1 DEF TypeOK, NoRun, Inside
<1>3. LockIsHeld'
  BY <1>2, ConstantsAssumption DEF IInv, LockIsHeld
<1>4. file' # file => \A q \in Runners : run'[q].pc \notin Inside
  BY <1>2, OnlyHolder DEF IInv, Inside
<1>5. CopyInv' /\ FiniteInv'
  <2>1. CASE file' = file
    BY <1>2, <2>1 DEF IInv, CopyInv, FiniteInv
  <2>2. CASE file' # file
    BY <1>4, <2>2 DEF CopyInv, FiniteInv
  <2> QED
    BY <2>1, <2>2
<1>6. Steady => Steady'
  <2> SUFFICES ASSUME Steady PROVE Steady'
    OBVIOUS
  <2>1. \A r \in Resources : Attempts(r)' \subseteq Attempts(r)
    BY <1>2 DEF Attempts, Begun, Counted
  <2>2. CoverInv'
    <3>1. CASE file' = file
      BY <1>2, <2>1, <3>1 DEF Steady, CoverInv
    <3>2. CASE file' # file
      <4>1. \A r \in Resources : \A x \in Attempts(r) :
              clock < x.at + Window => x \in file'[r]
        <5>1. /\ run[p].pc \in Inside /\ file' = run[p].state
              /\ run[p].now <= clock /\ clock \in Nat /\ run[p].now \in Nat
          BY <1>1, <3>2 DEF Inside, Steady, NowInv, TypeOK, Run
        <5> SUFFICES ASSUME NEW r \in Resources, NEW x \in Attempts(r),
                            clock < x.at + Window
                     PROVE  x \in file'[r]
          OBVIOUS
        <5>2. /\ x.at \in Nat
              /\ run[p].now < x.at + Window => x \in run[p].state[r]
          BY <5>1 DEF Steady, CoverInv, Attempt
        <5> QED
          BY <5>1, <5>2, ConstantsAssumption
      <4> QED
        BY <1>4, <2>1, <3>2, <4>1 DEF Steady, CoverInv
    <3> QED
      BY <3>1, <3>2
  <2>3. NowInv'
    BY <1>2 DEF Steady, NowInv
  <2>4. LimitInv'
    <3> SUFFICES ASSUME NEW r \in Resources, NEW end \in Nat
                 PROVE  /\ IsFiniteSet(During(Attempts(r)', end))
                        /\ Cardinality(During(Attempts(r)', end)) <= Limit
      BY DEF LimitInv, During
    <3> QED
      BY <2>1, FewerAttempts DEF Steady
  <2> QED
    BY <2>2, <2>3, <2>4 DEF Steady
<1> QED
  BY <1>3, <1>5, <1>6 DEF IInv

LEMMA FinishInv ==
  ASSUME IInv, NEW p \in Runners, Finish(p)
  PROVE  IInv'
<1> USE DEF history
<1>1. TypeOK' /\ TypeOK
  BY NextTyped DEF IInv, Next, RunStep
<1>2. /\ run[p].pc = "choosing" /\ run[p].state \in State
      /\ file' = PruneState(run[p].state, run[p].now)
  BY <1>1 DEF Finish, TypeOK, Run
<1>3. /\ \A r \in Resources : IsFiniteSet(run[p].state[r])
      /\ \A r \in Resources : \A x \in run[p].state[r] :
           run[p].now < x.at + Window /\ x.at <= run[p].now + Slack
  BY <1>2 DEF IInv, CopyInv, Inside
<1>4. \A r \in Resources : Prune(run[p].state[r], run[p].now) = run[p].state[r]
  BY <1>3 DEF Prune
<1>5. file' = run[p].state
  BY <1>2, <1>4 DEF PruneState, State
<1>6. lock = p
  BY <1>2, OnlyHolder DEF IInv, Inside
<1> QED
  BY <1>1, <1>2, <1>3, <1>5, <1>6, LeaveInv DEF Finish

LEMMA AbortInv ==
  ASSUME IInv, NEW p \in Runners, Abort(p) \/ Crash(p)
  PROVE  IInv'
<1> USE DEF history
<1>1. TypeOK' /\ TypeOK
  BY NextTyped DEF IInv, Next, RunStep
<1>2. file' = file /\ \A r \in Resources : IsFiniteSet(file'[r])
  BY DEF Abort, Crash, IInv, FiniteInv
<1>3. Abort(p) => lock = p
  BY OnlyHolder DEF Abort, IInv, Inside
<1> QED
  BY <1>1, <1>2, <1>3, LeaveInv DEF Abort, Crash

\* The clock goes on or is set back, the registry is edited, or nothing happens.
LEMMA OtherInv ==
  ASSUME IInv, Configure \/ Tick \/ StepBack \/ UNCHANGED vars
  PROVE  IInv'
<1> USE DEF history
<1>1. TypeOK' /\ TypeOK
  BY NextTyped DEF IInv, Next
<1>2. /\ UNCHANGED <<file, lock, run, restarts, forgotten>>
      /\ clock \in Nat /\ clock' \in Nat /\ stepped \in Nat
      /\ \/ clock <= clock' /\ stepped' = stepped
         \/ stepped' # 0
  BY <1>1 DEF Configure, Tick, StepBack, vars, TypeOK
<1>3. LockIsHeld' /\ CopyInv' /\ FiniteInv'
  BY <1>2 DEF IInv, LockIsHeld, CopyInv, FiniteInv
<1>4. \A r \in Resources : Attempts(r)' = Attempts(r)
  BY <1>2 DEF Attempts, Begun, Counted
<1>5. ASSUME Steady, clock <= clock'
      PROVE  Steady'
  <2>1. CoverInv'
    <3> SUFFICES ASSUME NEW r \in Resources, NEW x \in Attempts(r)
                 PROVE  /\ x \in Attempt /\ x.at <= clock'
                        /\ clock' < x.at + Window => x \in file[r]
                        /\ \A p \in Runners : run[p].pc \in Inside =>
                             /\ x.at <= run[p].now
                             /\ run[p].now < x.at + Window =>
                                  x \in file[r] /\ x \in run[p].state[r]
      BY <1>2, <1>4 DEF CoverInv
    <3>1. /\ x \in Attempt /\ x.at \in Nat /\ x.at <= clock
          /\ clock < x.at + Window => x \in file[r]
          /\ \A p \in Runners : run[p].pc \in Inside =>
               /\ x.at <= run[p].now
               /\ run[p].now < x.at + Window =>
                    x \in file[r] /\ x \in run[p].state[r]
      BY <1>5 DEF Steady, CoverInv, Attempt
    <3>2. x.at <= clock' /\ (clock' < x.at + Window => clock < x.at + Window)
      BY <1>2, <1>5, <3>1, ConstantsAssumption
    <3> QED
      BY <3>1, <3>2
  <2>2. NowInv'
    <3>1. \A p \in Runners : run[p].now \in Nat
      BY <1>1 DEF TypeOK, Run
    <3> QED
      BY <1>2, <1>5, <3>1 DEF Steady, NowInv
  <2>3. LimitInv'
    BY <1>4, <1>5 DEF Steady, LimitInv, During
  <2> QED
    BY <2>1, <2>2, <2>3 DEF Steady
<1> QED
  BY <1>1, <1>2, <1>3, <1>5 DEF IInv

LEMMA InitInv == Init => IInv
<1> SUFFICES ASSUME Init PROVE IInv
  OBVIOUS
<1>1. /\ \A p \in Runners : run[p].pc = "idle"
      /\ \A r \in Resources : restarts[r] = {} /\ file[r] = {}
      /\ lock = NoOne
  BY DEF Init, NoRun, NoState
<1>2. \A p \in Runners : run[p].pc \notin Inside
  BY <1>1 DEF Inside
<1>3. \A r \in Resources : Attempts(r) = {}
  BY <1>1 DEF Attempts, Begun
<1>4. LockIsHeld
  BY <1>1, <1>2, ConstantsAssumption DEF LockIsHeld
<1>5. CopyInv /\ FiniteInv
  BY <1>1, <1>2, FS_EmptySet DEF CopyInv, FiniteInv
<1>6. LimitInv
  <2>1. \A end \in Nat : During({}, end) = {}
    BY DEF During
  <2>2. IsFiniteSet({}) /\ Cardinality({}) <= Limit
    BY FS_EmptySet, ConstantsAssumption
  <2> QED
    BY <1>3, <2>1, <2>2 DEF LimitInv
<1>7. CoverInv /\ NowInv
  BY <1>2, <1>3 DEF CoverInv, NowInv
<1> QED
  BY <1>4, <1>5, <1>6, <1>7, InitTyped DEF IInv, Steady

LEMMA NextInv == IInv /\ [Next]_vars => IInv'
<1> SUFFICES ASSUME IInv, [Next]_vars
             PROVE  IInv'
  OBVIOUS
<1>1. ASSUME NEW p \in Runners, Start(p) \/ Enter(p) \/ RunStep(p) \/ Crash(p)
      PROVE  IInv'
  BY <1>1, StartInv, EnterInv, SkipInv, CountInv, RestartInv, FinishInv, AbortInv
     DEF RunStep
<1>2. ASSUME Configure \/ Tick \/ StepBack \/ UNCHANGED vars
      PROVE  IInv'
  BY <1>2, OtherInv
<1> QED
  BY <1>1, <1>2 DEF Next

\* The inductive invariant holds in every state.
THEOREM Invariance == Spec => []IInv
BY InitInv, NextInv, PTL DEF Spec

-----------------------------------------------------------------------------
\* While the clock is not set back, no window of time holds more than Limit
\* restarts of a resource, however runs overlap, abort or die, not counting those
\* forgotten by a run that failed to read the file.
THEOREM RestartsStayLimited == Spec => []RestartsLimited
<1>1. IInv => RestartsLimited
  <2> SUFFICES ASSUME IInv, stepped = 0, NEW r \in Resources, NEW end \in 0 .. clock
               PROVE  Cardinality(During(restarts[r] \ forgotten[r], end)) <= Limit
    BY DEF RestartsLimited
  <2>1. LimitInv /\ end \in Nat
    BY DEF IInv, Steady, TypeOK
  <2>2. restarts[r] \ forgotten[r] \subseteq Attempts(r)
    BY DEF Attempts
  <2> QED
    BY <2>1, <2>2, FewerAttempts
<1> QED
  BY <1>1, Invariance, PTL

\* A restart stays in the state file for as long as it counts, whoever writes
\* the file and whoever dies, unless a run failed to read it.
THEOREM RestartsStayRemembered == Spec => []RestartsRemembered
<1>1. IInv => RestartsRemembered
  BY DEF IInv, Steady, CoverInv, Attempts, RestartsRemembered
<1> QED
  BY <1>1, Invariance, PTL

\* One run at a time is between flock and its release, and it is the holder.
THEOREM Exclusion == Spec => []LockIsHeld
<1>1. IInv => LockIsHeld
  BY DEF IInv
<1> QED
  BY <1>1, Invariance, PTL

-----------------------------------------------------------------------------
LEMMA StepAddsOwn ==
  ASSUME IInv, [Next]_vars, NEW r \in Resources, NEW x \in file'[r] \ file[r]
  PROVE  \E p \in Runners : lock = p /\ ~run[p].dry /\ x = Counted(p)'
<1> USE DEF history
<1>0. TypeOK
  BY DEF IInv
<1>1. ASSUME NEW p \in Runners, Count(p)
      PROVE  lock = p /\ ~run[p].dry /\ x = Counted(p)'
  <2>1. PICK s \in Resources :
          /\ run[p].pc = "choosing" /\ ~run[p].dry
          /\ run' = [run EXCEPT ![p].pc = "restarting", ![p].todo = @ \ {s},
                                ![p].res = {s}, ![p].n = drawn + 1,
                                ![p].state = Grown(p, s)]
          /\ file' = PruneState(Grown(p, s), run[p].now)
    BY <1>0, <1>1, CountFacts
  <2>2. Counted(p)' = [at |-> run[p].now, n |-> drawn + 1]
    BY <1>0, <2>1 DEF TypeOK, Run, Counted
  <2>3. run[p].state \in State
    BY <1>0 DEF TypeOK, Run
  <2>4. Grown(p, s)[r] \subseteq
          run[p].state[r] \cup {[at |-> run[p].now, n |-> drawn + 1]}
    BY <2>3 DEF Grown, State, Prune
  <2>5. run[p].state[r] \subseteq file[r]
    BY <2>1 DEF IInv, CopyInv, Inside
  <2>6. x = [at |-> run[p].now, n |-> drawn + 1]
    BY <2>1, <2>4, <2>5 DEF PruneState, Prune
  <2>7. lock = p
    BY <2>1, OnlyHolder DEF IInv, Inside
  <2> QED
    BY <2>1, <2>2, <2>6, <2>7
<1>2. ASSUME NEW p \in Runners, Finish(p)
      PROVE  FALSE
  <2>1. run[p].pc \in Inside /\ file' = PruneState(run[p].state, run[p].now)
    BY <1>2 DEF Finish, Inside
  <2>2. run[p].state[r] \subseteq file[r]
    BY <2>1 DEF IInv, CopyInv
  <2> QED
    BY <2>1, <2>2 DEF PruneState, Prune
<1>3. ASSUME NEW p \in Runners,
             Start(p) \/ Enter(p) \/ Skip(p) \/ Restart(p) \/ Abort(p) \/ Crash(p)
      PROVE  FALSE
  BY <1>3 DEF Start, Enter, Skip, Restart, Abort, Crash
<1>4. ASSUME Configure \/ Tick \/ StepBack \/ UNCHANGED vars
      PROVE  FALSE
  BY <1>4 DEF Configure, Tick, StepBack, vars
<1> QED
  BY <1>1, <1>2, <1>3, <1>4 DEF Next, RunStep

\* Whatever appears in the state file was counted in that step by the holder of
\* the lock, which is no dry run.
THEOREM OnlyCountsAreStored == Spec => DryRunsAddNothing
<1>1. IInv /\ [Next]_vars =>
        [\A r \in Resources : \A x \in file'[r] \ file[r] :
           \E p \in Runners : lock = p /\ ~run[p].dry /\ x = Counted(p)']_vars
  BY StepAddsOwn
<1> QED
  BY <1>1, Invariance, PTL DEF Spec, DryRunsAddNothing
=============================================================================
