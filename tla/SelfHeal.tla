------------------------------- MODULE SelfHeal -------------------------------
(***************************************************************************)
(* Rate-limited restarts of backends (self_healing.py).  A run, started by *)
(* the timer or by the CLI, holds self_heal.lock from beginning to end.    *)
(* The outcome of a health check and of "systemctl" is a free choice: what *)
(* is modelled is which restarts are counted, stored and carried out.      *)
(***************************************************************************)
EXTENDS Naturals, FiniteSets

CONSTANTS
  Resources,
  Runners,     \* processes that call run_self_heal
  NoOne,       \* the lock is free
  Limit,       \* RESTART_LIMIT
  Window,      \* RESTART_WINDOW_SECONDS
  Slack,       \* the 60 seconds a stored time may lie in the future
  MaxClock, MaxSteps, MaxFaults   \* bounds of a run

ASSUME ConstantsAssumption ==
  /\ NoOne \notin Runners /\ Window > 0
  /\ {Limit, Window, Slack, MaxClock, MaxSteps, MaxFaults} \subseteq Nat

VARIABLES
  clock,       \* time.time()
  healable,    \* enabled resources with self_heal_enabled and a valid unit
  file,        \* self_heal_state.json: the attempts stored for each resource
  lock,        \* holder of self_heal.lock, or NoOne
  run,         \* each runner's control point and local variables
  drawn,       \* attempts counted so far: tells equal times apart
  restarts,    \* history: the attempts that led to "systemctl restart"
  forgotten,   \* history: the attempts in the file when a run failed to read it
  stepped,     \* number of times the clock was set back
  faults       \* bound: crashes and failed reads

history == <<drawn, restarts, forgotten>>
vars == <<clock, healable, file, lock, run, history, stepped, faults>>

-----------------------------------------------------------------------------
Attempt == [at: Nat, n: Nat]       \* an element of a stored list
State   == [Resources -> SUBSET Attempt]
NoState == [r \in Resources |-> {}]
Labels  == {"idle", "waiting", "choosing", "restarting"}
Inside  == {"choosing", "restarting"}
Run     == [pc: Labels, dry: BOOLEAN, now: Nat, todo: SUBSET Resources,
            state: State, res: SUBSET Resources, n: Nat]
NoRun   == [pc |-> "idle", dry |-> FALSE, now |-> 0, todo |-> {},
            state |-> NoState, res |-> {}, n |-> 0]

\* Mutant: an attempt is forgotten one second too early.
PruneEarly(values, now) ==
  {x \in values : now + 1 < x.at + Window /\ x.at <= now + Slack}

\* _prune_attempts.
Prune(values, now) ==
  {x \in values : now < x.at + Window /\ x.at <= now + Slack}

\* _prune_state.
PruneState(state, now) == [r \in Resources |-> Prune(state[r], now)]

Counted(p) == [at |-> run[p].now, n |-> run[p].n]

-----------------------------------------------------------------------------
\* run_self_heal for all resources or for one, up to the flock; todo holds the
\* resources asked for until the registry is read.
Start(p) ==
  /\ run[p].pc = "idle"
  /\ \E dry \in BOOLEAN, asked \in {Resources} \cup {{r} : r \in Resources} :
       run' = [run EXCEPT ![p] =
         [NoRun EXCEPT !.pc = "waiting", !.dry = dry, !.todo = asked]]
  /\ UNCHANGED <<clock, healable, file, lock, history, stepped, faults>>

\* _load_state: a file that cannot be read or parsed is an empty one.
Load(p, read) ==
  /\ run' = [run EXCEPT ![p].pc = "choosing", ![p].now = clock,
                        ![p].todo = @ \cap healable,
                        ![p].state = PruneState(read, clock)]
  /\ forgotten' = [r \in Resources |-> forgotten[r] \cup (file[r] \ read[r])]
  /\ \/ read = file /\ faults' = faults
     \/ read # file /\ faults < MaxFaults /\ faults' = faults + 1

\* Mutant: no lock is taken.
EnterUnlocked(p) ==
  /\ run[p].pc = "waiting"
  /\ lock' = p
  /\ \E read \in {file, NoState} : Load(p, read)
  /\ UNCHANGED <<clock, healable, file, drawn, restarts, stepped>>

\* _run_self_heal_locked reads the clock once, the registry and the state file.
Enter(p) ==
  /\ run[p].pc = "waiting" /\ lock = NoOne
  /\ lock' = p
  /\ \E read \in {file, NoState} : Load(p, read)
  /\ UNCHANGED <<clock, healable, file, drawn, restarts, stepped>>

\* heal_resource without a restart: healthy, limit reached, unit not loaded, or
\* a dry run.
Skip(p) ==
  /\ run[p].pc = "choosing"
  /\ \E r \in run[p].todo : run' = [run EXCEPT ![p].todo = @ \ {r}]
  /\ UNCHANGED <<clock, healable, file, lock, history, stepped, faults>>

\* Mutants: an attempt is dated a window back; it is stored after the restart.
CountBackdated(p) ==
  /\ run[p].pc = "choosing" /\ ~run[p].dry
  /\ \E r \in run[p].todo :
       LET x     == [at |-> run[p].now - Window, n |-> drawn + 1]
           state == [run[p].state EXCEPT ![r] = Prune(@, run[p].now) \cup {x}]
       IN /\ Cardinality(Prune(run[p].state[r], run[p].now)) < Limit
          /\ run' = [run EXCEPT ![p].pc = "restarting", ![p].todo = @ \ {r},
                                ![p].res = {r}, ![p].n = drawn + 1,
                                ![p].state = state]
          /\ file' = state
  /\ drawn' = drawn + 1
  /\ UNCHANGED <<clock, healable, lock, restarts, forgotten, stepped, faults>>

CountUnsaved(p) ==
  /\ run[p].pc = "choosing" /\ ~run[p].dry
  /\ \E r \in run[p].todo :
       LET x     == [at |-> run[p].now, n |-> drawn + 1]
           state == [run[p].state EXCEPT ![r] = Prune(@, run[p].now) \cup {x}]
       IN /\ Cardinality(Prune(run[p].state[r], run[p].now)) < Limit
          /\ run' = [run EXCEPT ![p].pc = "restarting", ![p].todo = @ \ {r},
                                ![p].res = {r}, ![p].n = drawn + 1,
                                ![p].state = state]
  /\ drawn' = drawn + 1
  /\ UNCHANGED <<clock, healable, file, lock, restarts, forgotten, stepped, faults>>

\* heal_resource up to the restart: the attempt is counted and stored with the
\* time the run began.
Count(p) ==
  /\ run[p].pc = "choosing" /\ ~run[p].dry
  /\ \E r \in run[p].todo :
       LET x     == [at |-> run[p].now, n |-> drawn + 1]
           state == [run[p].state EXCEPT ![r] = Prune(@, run[p].now) \cup {x}]
       IN /\ Cardinality(Prune(run[p].state[r], run[p].now)) < Limit
          /\ run' = [run EXCEPT ![p].pc = "restarting", ![p].todo = @ \ {r},
                                ![p].res = {r}, ![p].n = drawn + 1,
                                ![p].state = state]
          /\ file' = PruneState(state, run[p].now)
  /\ drawn' = drawn + 1
  /\ UNCHANGED <<clock, healable, lock, restarts, forgotten, stepped, faults>>

\* "systemctl restart", whatever its exit status, and the recovery checks.
Restart(p) ==
  /\ run[p].pc = "restarting"
  /\ restarts' = [r \in Resources |->
       IF r \in run[p].res THEN restarts[r] \cup {Counted(p)} ELSE restarts[r]]
  /\ run' = [run EXCEPT ![p].pc = "choosing", ![p].res = {}]
  /\ UNCHANGED <<clock, healable, file, lock, drawn, forgotten, stepped, faults>>

\* All resources are done: the state is stored and the lock released.
Finish(p) ==
  /\ run[p].pc = "choosing" /\ run[p].todo = {}
  /\ file' = PruneState(run[p].state, run[p].now)
  /\ lock' = NoOne
  /\ run' = [run EXCEPT ![p] = NoRun]
  /\ UNCHANGED <<clock, healable, history, stepped, faults>>

\* An unknown resource, an invalid unit or a failed write ends the run, for all
\* the resources left.
Abort(p) ==
  /\ run[p].pc = "choosing"
  /\ lock' = NoOne
  /\ run' = [run EXCEPT ![p] = NoRun]
  /\ UNCHANGED <<clock, healable, file, history, stepped, faults>>

\* The process is killed; the kernel releases its flock.
Crash(p) ==
  /\ faults < MaxFaults /\ run[p].pc # "idle"
  /\ faults' = faults + 1
  /\ lock' = IF lock = p THEN NoOne ELSE lock
  /\ run' = [run EXCEPT ![p] = NoRun]
  /\ UNCHANGED <<clock, healable, file, history, stepped>>

\* update_resource, remove_resource, register_resource.
Configure ==
  /\ healable' \in SUBSET Resources
  /\ UNCHANGED <<clock, file, lock, run, history, stepped, faults>>

Tick ==
  /\ clock < MaxClock
  /\ clock' = clock + 1
  /\ UNCHANGED <<healable, file, lock, run, history, stepped, faults>>

\* The system clock is set back.
StepBack ==
  /\ stepped < MaxSteps
  /\ stepped' = stepped + 1
  /\ \E t \in 0 .. clock : t < clock /\ clock' = t
  /\ UNCHANGED <<healable, file, lock, run, history, faults>>

Init ==
  /\ clock = 0
  /\ healable \in SUBSET Resources
  /\ file = NoState
  /\ lock = NoOne
  /\ run = [p \in Runners |-> NoRun]
  /\ drawn = 0 /\ restarts = NoState /\ forgotten = NoState
  /\ stepped = 0 /\ faults = 0

RunStep(p) == Skip(p) \/ Count(p) \/ Restart(p) \/ Finish(p) \/ Abort(p)

Next ==
  \/ \E p \in Runners : Start(p) \/ Enter(p) \/ RunStep(p) \/ Crash(p)
  \/ Configure \/ Tick \/ StepBack

Spec == Init /\ [][Next]_vars

-----------------------------------------------------------------------------
(* Properties.                                                              *)

\* Every variable holds a value of its type.
TypeOK ==
  /\ clock \in Nat /\ drawn \in Nat /\ stepped \in Nat /\ faults \in Nat
  /\ healable \in SUBSET Resources
  /\ file \in State /\ restarts \in State /\ forgotten \in State
  /\ lock \in Runners \cup {NoOne}
  /\ run \in [Runners -> Run]

During(values, end) == {x \in values : end < x.at + Window /\ x.at <= end}

\* As long as the clock is not set back, no window holds more than Limit restarts
\* of a resource, dated by the run that made them, whatever runs overlap, crash
\* or are aborted.  Only the attempts that were in the file when a run could not
\* read it do not count: that run takes the file for empty.
RestartsLimited ==
  stepped = 0 =>
    \A r \in Resources, end \in 0 .. clock :
      Cardinality(During(restarts[r] \ forgotten[r], end)) <= Limit

\* A restart is in the state file as long as it matters, even if the process dies
\* right after it: the attempt is stored first, and no other run loses it, unless
\* one failed to read the file that held it.
RestartsRemembered ==
  stepped = 0 =>
    \A r \in Resources : \A x \in restarts[r] \ forgotten[r] :
      clock < x.at + Window => x \in file[r]

\* A dry run stores no attempt, and no run stores another's: what is added to the
\* file was counted in that very step.
DryRunsAddNothing ==
  [][\A r \in Resources : \A x \in file'[r] \ file[r] :
       \E p \in Runners : lock = p /\ ~run[p].dry /\ x = Counted(p)']_vars

\* One run at a time works on the state file, and however a run ends it leaves
\* the lock to the next one.
LockIsHeld == \A p \in Runners : run[p].pc \in Inside <=> lock = p
=============================================================================
