---------------------------- MODULE RegistryProofs ----------------------------
(***************************************************************************)
(* Theorems about Registry, for any administrators, devices, resources and *)
(* groups and any number of operations: types, that the proxy and          *)
(* WireGuard come to enforce what the registries say, and that the files   *)
(* agree and mean what the administrators meant.                           *)
(***************************************************************************)
EXTENDS Registry, TLAPS

-----------------------------------------------------------------------------
(* Types.                                                                   *)

Meant == [allow: SUBSET (Resources \X Devices), deny: SUBSET (Resources \X Devices)]
Anything == (UNION {Contents[f] : f \in Files}) \cup {Nil}

\* What a file may hold.
LEMMA ContentsAre ==
  /\ Files = {"devices", "resources", "services", "groups"}
  /\ Contents["devices"] = [Devices -> Device]
  /\ Contents["resources"] = [Resources -> Resource]
  /\ Contents["services"] = [Resources -> Resource]
  /\ Contents["groups"] = [Groups -> Group]
BY DEF Files, Contents

\* What a file of a registry holds is not a mark.
LEMMA NoMark == ASSUME NEW f \in Files, NEW x \in Contents[f] PROVE x \notin {Nil, Empty, Mixed}
BY MarksAssumption

LEMMA AnythingHolds == ASSUME NEW f \in Files, NEW x \in Contents[f] PROVE x \in Anything
<1>1. x \in UNION {Contents[g] : g \in Files}
  OBVIOUS
<1> QED
  BY <1>1 DEF Anything

LEMMA NoRunTyped == NoRun \in Run /\ NoRun.writes = {} /\ NoRun.tasks = {}
<1>1. Nil \in Anything
  BY DEF Anything
<1> QED
  BY <1>1 DEF NoRun, Run, Handle, Anything

LEMMA FilesTyped ==
  ASSUME TypeOK
  PROVE  /\ conf.devices \in [Devices -> Device]
         /\ conf.groups \in [Groups -> Group]
         /\ ListResources \in [Resources -> Resource]
BY ContentsAre DEF TypeOK, ListResources

LEMMA InitTyped == Init => TypeOK
<1> SUFFICES ASSUME Init PROVE TypeOK
  OBVIOUS
<1>1. FirstDevices \in [Devices -> Device] /\ FirstResource \in Resource
  BY ConstantsAssumption DEF FirstDevices, FirstResource, Device, Resource
<1>2. [g \in Groups |-> [on |-> TRUE, devices |-> {}, resources |-> {}]] \in [Groups -> Group]
  BY DEF Group
<1>3. /\ DOMAIN conf = Files
      /\ conf.devices = FirstDevices
      /\ conf.resources = [r \in Resources |-> FirstResource]
      /\ conf.services = [r \in Resources |-> FirstResource]
      /\ conf.groups = [g \in Groups |-> [on |-> TRUE, devices |-> {}, resources |-> {}]]
  BY ContentsAre DEF Init
<1>4. \A f \in Files : conf[f] \in Contents[f]
  <2>1. [r \in Resources |-> FirstResource] \in [Resources -> Resource]
    BY <1>1
  <2> QED
    BY <1>1, <1>2, <1>3, <2>1, ContentsAre
<1>5. /\ DOMAIN tmp = Files /\ \A f \in Files : tmp[f] = Nil
      /\ torn \in [Files -> {Nil, Empty, Mixed}]
  BY DEF Init
<1>6. daemon \in Daemon
  BY <1>1, <1>2, <1>3 DEF Init, Daemon
<1>7. ops \in 0..MaxOps /\ meant \in Meant
  BY ConstantsAssumption DEF Init, Meant
<1> QED
  BY <1>3, <1>4, <1>5, <1>6, <1>7, NoRunTyped DEF Init, TypeOK, Meant

\* A step that changes p's operation alone.
LEMMA RunTyped ==
  ASSUME TypeOK, NEW p \in Admins, NEW r \in Run,
         \A f \in r.writes : r.to \in Contents[f],
         run' = [run EXCEPT ![p] = r]
  PROVE  /\ run' \in [Admins -> Run]
         /\ \A q \in Admins : \A f \in run'[q].writes : run'[q].to \in Contents[f]
BY DEF TypeOK

LEMMA BeginTyped ==
  ASSUME TypeOK, NEW p \in Admins, NEW r \in Run,
         \A f \in r.writes : r.to \in Contents[f],
         Begin(p, r), meant' \in Meant
  PROVE  TypeOK'
<1>1. run' = [run EXCEPT ![p] = r]
  BY DEF Begin
<1>2. ops' \in 0..MaxOps /\ overlapped' \in BOOLEAN
  BY ConstantsAssumption DEF Begin, TypeOK
<1> QED
  BY <1>1, <1>2, RunTyped DEF Begin, TypeOK, Meant, files, enforced

LEMMA SaveTyped ==
  ASSUME TypeOK, NEW p \in Admins, NEW writes \in SUBSET Files, writes # {},
         NEW to, \A f \in writes : to \in Contents[f],
         NEW tasks \in SUBSET Tasks, Save(p, writes, to, tasks), meant' \in Meant
  PROVE  TypeOK'
<1> DEFINE r == [NoRun EXCEPT !.writes = writes, !.to = to, !.tasks = tasks]
<1>1. to \in Anything
  BY AnythingHolds
<1>2. r \in Run /\ r.writes = writes /\ r.to = to
  BY <1>1, NoRunTyped DEF Run, Anything
<1>3. Begin(p, r)
  BY DEF Save
<1> HIDE DEF r
<1> QED
  BY <1>2, <1>3, BeginTyped

LEMMA OperateTyped == ASSUME TypeOK, NEW p \in Admins, Operate(p) PROVE TypeOK'
<1>0. meant \in Meant /\ Registry \in SUBSET Files /\ Registry # {}
  BY ContentsAre DEF TypeOK, Meant, Registry
<1>a. /\ conf.devices \in [Devices -> Device]
      /\ conf.groups \in [Groups -> Group]
      /\ ListResources \in [Resources -> Resource]
  BY FilesTyped
<1>1. CASE SetEnabled(p)
  <2>1. PICK d \in Devices, b \in BOOLEAN :
          Save(p, {"devices"}, [conf.devices EXCEPT ![d].enabled = b], {"render", "reload"})
    BY <1>1 DEF SetEnabled
  <2>2. [conf.devices EXCEPT ![d].enabled = b] \in Contents["devices"]
    BY <1>a, ContentsAre DEF Device
  <2>3. {"render", "reload"} \in SUBSET Tasks /\ {"devices"} \in SUBSET Files
    BY ContentsAre DEF Tasks
  <2> QED
    BY <1>0, <1>1, <2>1, <2>2, <2>3, SaveTyped DEF SetEnabled
<1>2. CASE Rename(p)
  <2> DEFINE r(d, n) == [NoRun EXCEPT
         !.writes = {"devices"},
         !.to = [conf.devices EXCEPT ![d].name = n],
         !.tasks = {"rename", "render", "reload"},
         !.old = {conf.devices[d].name}, !.new = {n}]
  <2>1. PICK d \in Devices, n \in Names : Begin(p, r(d, n))
    BY <1>2 DEF Rename
  <2>2. [conf.devices EXCEPT ![d].name = n] \in Contents["devices"]
    BY <1>a, ContentsAre DEF Device
  <2>3. {"rename", "render", "reload"} \in SUBSET Tasks /\ {"devices"} \in SUBSET Files
    BY ContentsAre DEF Tasks
  <2>4. {conf.devices[d].name} \in SUBSET Names
    BY <1>a DEF Device
  <2>5. r(d, n) \in Run /\ \A f \in r(d, n).writes : r(d, n).to \in Contents[f]
    BY <2>2, <2>3, <2>4, AnythingHolds, NoRunTyped DEF Run, Anything
  <2> QED
    BY <1>0, <1>2, <2>1, <2>5, BeginTyped DEF Rename
<1>3. CASE SetOverride(p)
  <2> DEFINE put(decision, key, S, x) == (S \ {x}) \cup IF decision = key THEN {x} ELSE {}
             to(decision, r, name) ==
               [ListResources EXCEPT ![r].allow = put(decision, "allow", @, name),
                                     ![r].deny  = put(decision, "deny", @, name)]
  <2>1. PICK r \in Resources, d \in Devices, decision \in {"allow", "deny", "inherit"} :
          /\ Save(p, Registry, to(decision, r, conf.devices[d].name), {"reload"})
          /\ meant' = [allow |-> put(decision, "allow", meant.allow, <<r, d>>),
                       deny  |-> put(decision, "deny", meant.deny, <<r, d>>)]
    BY <1>3, ZenonT(60) DEF SetOverride
  <2>2. conf.devices[d].name \in Names
    BY <1>a DEF Device
  <2>3. to(decision, r, conf.devices[d].name) \in [Resources -> Resource]
    <3> DEFINE name == conf.devices[d].name
               old == ListResources[r]
               new == [old EXCEPT !.allow = put(decision, "allow", @, name),
                                  !.deny  = put(decision, "deny", @, name)]
    <3>1. old \in Resource
      BY <1>a
    <3>2. new \in Resource
      BY <2>2, <3>1 DEF Resource
    <3>3. to(decision, r, name) = [ListResources EXCEPT ![r] = new]
      BY <1>a, <3>1 DEF Resource
    <3> QED
      BY <1>a, <3>2, <3>3
  <2>4. meant' \in Meant
    BY <1>0, <2>1 DEF Meant
  <2>5. {"reload"} \in SUBSET Tasks
    BY DEF Tasks
  <2>6. \A f \in Registry : to(decision, r, conf.devices[d].name) \in Contents[f]
    BY <2>3, ContentsAre DEF Registry
  <2> HIDE DEF to
  <2> QED
    BY <1>0, <2>1, <2>4, <2>5, <2>6, SaveTyped
<1>4. CASE Register(p)
  <2> DEFINE entry(requested) == [here |-> TRUE, on |-> TRUE, deny |-> {},
                                  allow |-> {conf.devices[d].name : d \in requested}]
  <2>1. PICK r \in Resources, requested \in SUBSET {d \in Devices : conf.devices[d].enabled} :
          /\ Save(p, Registry, [ListResources EXCEPT ![r] = entry(requested)], {"reload"})
          /\ meant' = [meant EXCEPT !.allow = @ \cup {<<r, d>> : d \in requested}]
    BY <1>4 DEF Register
  <2>2. \A d \in requested : conf.devices[d].name \in Names
    BY <1>a DEF Device
  <2>3. entry(requested) \in Resource
    BY <2>2 DEF Resource
  <2> HIDE DEF entry
  <2>4. [ListResources EXCEPT ![r] = entry(requested)] \in [Resources -> Resource]
    BY <1>a, <2>3
  <2>5. meant' \in Meant
    <3>1. {<<r, d>> : d \in requested} \in SUBSET (Resources \X Devices)
      OBVIOUS
    <3> QED
      BY <1>0, <2>1, <3>1 DEF Meant
  <2>6. {"reload"} \in SUBSET Tasks
    BY DEF Tasks
  <2>7. \A f \in Registry : [ListResources EXCEPT ![r] = entry(requested)] \in Contents[f]
    BY <2>4, ContentsAre DEF Registry
  <2> QED
    BY <1>0, <2>1, <2>5, <2>6, <2>7, SaveTyped
<1>5. CASE UpdateResource(p)
  <2>1. PICK r \in Resources :
          Save(p, Registry, [ListResources EXCEPT ![r].on = ~@], {"reload"})
    BY <1>5 DEF UpdateResource
  <2>2. [ListResources EXCEPT ![r].on = ~@] \in [Resources -> Resource]
    BY <1>a DEF Resource
  <2>3. {"reload"} \in SUBSET Tasks
    BY DEF Tasks
  <2>4. \A f \in Registry : [ListResources EXCEPT ![r].on = ~@] \in Contents[f]
    BY <2>2, ContentsAre DEF Registry
  <2> QED
    BY <1>0, <1>5, <2>1, <2>3, <2>4, SaveTyped DEF UpdateResource
<1>6. CASE Remove(p)
  <2> DEFINE q(r) == [NoRun EXCEPT
         !.writes = Registry,
         !.to = [ListResources EXCEPT ![r] = NoResource],
         !.tasks = {"strip", "reload"}, !.gone = {r}]
  <2>1. PICK r \in Resources :
          /\ Begin(p, q(r))
          /\ meant' = [key \in DOMAIN meant |-> {x \in meant[key] : x[1] # r}]
    BY <1>6 DEF Remove
  <2>2. [ListResources EXCEPT ![r] = NoResource] \in [Resources -> Resource]
    BY <1>a DEF Resource, NoResource
  <2>3. \A f \in Registry : [ListResources EXCEPT ![r] = NoResource] \in Contents[f]
    BY <2>2, ContentsAre DEF Registry
  <2>4. [ListResources EXCEPT ![r] = NoResource] \in Anything
    BY <1>0, <2>3, AnythingHolds
  <2>5. q(r) \in Run /\ \A f \in q(r).writes : q(r).to \in Contents[f]
    BY <1>0, <2>3, <2>4, NoRunTyped DEF Run, Anything, Tasks
  <2>6. meant' \in Meant
    BY <1>0, <2>1 DEF Meant
  <2> HIDE DEF q
  <2> QED
    BY <2>1, <2>5, <2>6, BeginTyped
<1>7. CASE ChangeGroup(p)
  <2>1. PICK g \in Groups, group \in Group :
          Save(p, {"groups"}, [conf.groups EXCEPT ![g] = group], {"reload"})
    <3> DEFINE save(g, group) ==
          Save(p, {"groups"}, [conf.groups EXCEPT ![g] = group], {"reload"})
    <3>1. PICK g \in Groups :
            \/ \E d \in Devices : \/ save(g, [conf.groups[g] EXCEPT !.devices = @ \cup {d}])
                                  \/ save(g, [conf.groups[g] EXCEPT !.devices = @ \ {d}])
            \/ \E r \in Resources : \/ save(g, [conf.groups[g] EXCEPT !.resources = @ \cup {r}])
                                    \/ save(g, [conf.groups[g] EXCEPT !.resources = @ \ {r}])
            \/ save(g, [conf.groups[g] EXCEPT !.on = ~@])
      BY <1>7 DEF ChangeGroup
    <3>2. conf.groups[g] \in Group
      BY <1>a
    <3>3. /\ \A d \in Devices : /\ [conf.groups[g] EXCEPT !.devices = @ \cup {d}] \in Group
                                /\ [conf.groups[g] EXCEPT !.devices = @ \ {d}] \in Group
          /\ \A r \in Resources : /\ [conf.groups[g] EXCEPT !.resources = @ \cup {r}] \in Group
                                  /\ [conf.groups[g] EXCEPT !.resources = @ \ {r}] \in Group
          /\ [conf.groups[g] EXCEPT !.on = ~@] \in Group
      BY <3>2 DEF Group
    <3> HIDE DEF save
    <3>4. \E group \in Group : save(g, group)
      BY <3>1, <3>3, Zenon
    <3> QED
      BY <3>4 DEF save
  <2>2. [conf.groups EXCEPT ![g] = group] \in Contents["groups"]
    BY <1>a, ContentsAre
  <2>3. {"reload"} \in SUBSET Tasks /\ {"groups"} \in SUBSET Files
    BY ContentsAre DEF Tasks
  <2> QED
    BY <1>0, <1>7, <2>1, <2>2, <2>3, SaveTyped DEF ChangeGroup
<1>8. CASE Sync(p)
  <2> DEFINE r == [NoRun EXCEPT !.tasks = {"render", "reload"}]
  <2>1. r \in Run /\ r.writes = {}
    BY NoRunTyped DEF Run, Tasks
  <2>2. Begin(p, r) /\ meant' \in Meant
    BY <1>0, <1>8 DEF Sync
  <2> HIDE DEF r
  <2> QED
    BY <2>1, <2>2, BeginTyped
<1> QED
  BY <1>1, <1>2, <1>3, <1>4, <1>5, <1>6, <1>7, <1>8 DEF Operate

\* Following a rename and stripping the groups write what the files may hold.
LEMMA FollowTyped ==
  ASSUME TypeOK, NEW p \in Admins, FollowRename(p) PROVE TypeOK'
<1> DEFINE follow(names) == IF run[p].old \subseteq names
                              THEN (names \ run[p].old) \cup run[p].new ELSE names
           resources == [r \in Resources |-> [ListResources[r] EXCEPT !.allow = follow(@),
                                                                      !.deny = follow(@)]]
           r == [run[p] EXCEPT !.tasks = @ \ {"rename"},
                   !.writes = IF resources = ListResources THEN {} ELSE Registry,
                   !.to = resources]
<1>1. run[p] \in Run /\ run[p].new \in SUBSET Names
  BY DEF TypeOK, Run
<1>2. resources \in [Resources -> Resource]
  <2> SUFFICES ASSUME NEW s \in Resources
               PROVE  [ListResources[s] EXCEPT !.allow = follow(@), !.deny = follow(@)] \in Resource
    OBVIOUS
  <2>1. ListResources[s] \in Resource
    BY FilesTyped
  <2>2. follow(ListResources[s].allow) \in SUBSET Names /\ follow(ListResources[s].deny) \in SUBSET Names
    BY <1>1, <2>1 DEF Resource
  <2> HIDE DEF follow
  <2> QED
    BY <2>1, <2>2 DEF Resource
<1>3. /\ run' = [run EXCEPT ![p] = r]
      /\ UNCHANGED <<files, expired, enforced, history>>
  BY DEF FollowRename, Done, TypeOK
<1> HIDE DEF resources
<1>4. \A f \in Registry : f \in Files /\ resources \in Contents[f]
  BY <1>2, ContentsAre DEF Registry
<1>5. resources \in Anything
  BY <1>4, AnythingHolds DEF Registry
<1>6. r \in Run /\ \A f \in r.writes : r.to \in Contents[f]
  BY <1>1, <1>4, <1>5 DEF Run, Anything
<1> HIDE DEF r
<1> QED
  BY <1>3, <1>6, RunTyped DEF TypeOK, files, enforced, history

LEMMA StripTyped ==
  ASSUME TypeOK, NEW p \in Admins, StripGroups(p) PROVE TypeOK'
<1> DEFINE groups == [g \in Groups |-> [conf.groups[g] EXCEPT !.resources = @ \ run[p].gone]]
           r == [run[p] EXCEPT !.tasks = @ \ {"strip"},
                   !.writes = IF groups = conf.groups THEN {} ELSE {"groups"},
                   !.to = groups]
<1>1. run[p] \in Run
  BY DEF TypeOK
<1>2. groups \in [Groups -> Group]
  BY FilesTyped DEF Group
<1>3. /\ run' = [run EXCEPT ![p] = r]
      /\ UNCHANGED <<files, expired, enforced, history>>
  BY DEF StripGroups, Done, TypeOK
<1> HIDE DEF groups
<1>4. "groups" \in Files /\ groups \in Contents["groups"]
  BY <1>2, ContentsAre
<1>5. groups \in Anything
  BY <1>4, AnythingHolds
<1>6. r \in Run /\ \A f \in r.writes : r.to \in Contents[f]
  BY <1>1, <1>4, <1>5 DEF Run, Anything
<1> HIDE DEF r
<1> QED
  BY <1>3, <1>6, RunTyped DEF TypeOK, files, enforced, history

\* The files that are written next, and when p's operation ends.
LEMMA WritingIs ==
  ASSUME TypeOK, NEW p \in Admins
  PROVE  /\ run[p] \in Run
         /\ Writing(p) \subseteq Files
         /\ Writing(p) \subseteq run[p].writes
BY ContentsAre DEF TypeOK, Run, Writing, Registry

\* A file that is put in place is one of its contents, or torn.
LEMMA PutTyped ==
  ASSUME TypeOK, NEW f \in Files, NEW x \in Contents[f] \cup {Empty, Mixed}, Put(f, x)
  PROVE  /\ DOMAIN conf' = Files /\ \A g \in Files : conf'[g] \in Contents[g]
         /\ torn' \in [Files -> {Nil, Empty, Mixed}]
BY DEF TypeOK, Put

\* The exchange of the files leaves the operations of others as they are, but for
\* where what they have opened is.
LEMMA ExchangeMoves ==
  ASSUME TypeOK, NEW p \in Admins, NEW f \in Writing(p), Exchange(p, f)
  PROVE  /\ run' \in [Admins -> Run]
         /\ run'[p] = [run[p] EXCEPT !.handle = "none", !.writes = @ \ {f}]
         /\ \A q \in Admins \ {p} :
              run'[q] = IF f \in Writing(q) THEN [run[q] EXCEPT !.handle = Moved(@)] ELSE run[q]
         /\ \A q \in Admins : \A g \in run'[q].writes : run'[q].to \in Contents[g]
<1>1. /\ run'[p] = [run[p] EXCEPT !.handle = "none", !.writes = @ \ {f}]
      /\ \A q \in Admins \ {p} :
           run'[q] = IF f \in Writing(q) THEN [run[q] EXCEPT !.handle = Moved(@)] ELSE run[q]
      /\ DOMAIN run' = Admins
  BY DEF Exchange
<1>2. /\ run'[p] \in Run /\ run'[p].writes \subseteq run[p].writes /\ run'[p].to = run[p].to
  <2> DEFINE r == [run[p] EXCEPT !.handle = "none", !.writes = @ \ {f}]
  <2>1. run[p] \in Run
    BY DEF TypeOK
  <2>2. r \in Run /\ r.writes \subseteq run[p].writes /\ r.to = run[p].to
    BY <2>1 DEF Run, Handle
  <2>3. run'[p] = r
    BY <1>1
  <2> HIDE DEF r
  <2> QED
    BY <2>2, <2>3
<1>3. ASSUME NEW q \in Admins \ {p}
      PROVE  run'[q] \in Run /\ run'[q].writes = run[q].writes /\ run'[q].to = run[q].to
  <2>1. run[q] \in Run
    BY DEF TypeOK
  <2>2. Moved(run[q].handle) \in Handle
    BY <2>1 DEF Moved, Run, Handle
  <2> QED
    BY <1>1, <2>1, <2>2 DEF Run
<1>4. run' \in [Admins -> Run]
  <2>1. \E a \in Admins : TRUE
    OBVIOUS
  <2>2. run' = [q \in Admins |-> run'[q]]
    BY <1>1 DEF Exchange
  <2> QED
    BY <1>2, <1>3, <2>2
<1> QED
  BY <1>1, <1>2, <1>3, <1>4 DEF TypeOK

LEMMA Ended ==
  ASSUME TypeOK, NEW p \in Admins, run' = [run EXCEPT ![p] = NoRun]
  PROVE  /\ run' \in [Admins -> Run]
         /\ \A q \in Admins : \A f \in run'[q].writes : run'[q].to \in Contents[f]
         /\ Idle(p)'
BY NoRunTyped DEF TypeOK, Idle

LEMMA StepTyped == ASSUME TypeOK, NEW p \in Admins, Step(p) \/ Die(p) PROVE TypeOK'
<1>0. /\ run[p] \in Run
      /\ Writing(p) \subseteq Files
      /\ Writing(p) \subseteq run[p].writes
  BY WritingIs
<1>1. CASE Open(p)
  <2> DEFINE r == [run[p] EXCEPT !.handle = "tmp"]
  <2>1. r \in Run /\ r.writes = run[p].writes /\ r.to = run[p].to
    BY <1>0 DEF Run, Handle
  <2>2. run' = [run EXCEPT ![p] = r]
    BY <1>1 DEF Open
  <2>3. DOMAIN tmp' = Files /\ \A f \in Files : tmp'[f] \in Contents[f] \cup {Nil, Empty, Mixed}
    BY <1>0, <1>1 DEF Open, TypeOK
  <2> HIDE DEF r
  <2> QED
    BY <1>1, <2>1, <2>2, <2>3, RunTyped DEF Open, TypeOK, enforced, history
<1>w. CASE Write(p)
  <2>1. PICK f \in Writing(p), x \in {run[p].to, Mixed} :
          /\ IF run[p].handle = "live" THEN Put(f, x) ELSE UNCHANGED <<conf, torn>>
          /\ tmp' = IF run[p].handle = "tmp" THEN [tmp EXCEPT ![f] = x] ELSE tmp
    BY <1>w DEF Write
  <2> DEFINE r == [run[p] EXCEPT !.handle = "closed"]
  <2>2. r \in Run /\ r.writes = run[p].writes /\ r.to = run[p].to
    BY <1>0 DEF Run, Handle
  <2>3. run' = [run EXCEPT ![p] = r]
    BY <1>w DEF Write
  <2>4. x \in Contents[f] \cup {Mixed}
    BY <1>0 DEF TypeOK
  <2>5. /\ DOMAIN conf' = Files /\ \A g \in Files : conf'[g] \in Contents[g]
        /\ torn' \in [Files -> {Nil, Empty, Mixed}]
    BY <1>0, <2>1, <2>4, PutTyped DEF TypeOK
  <2>6. DOMAIN tmp' = Files /\ \A g \in Files : tmp'[g] \in Contents[g] \cup {Nil, Empty, Mixed}
    BY <1>0, <2>1, <2>4 DEF TypeOK
  <2> HIDE DEF r
  <2> QED
    BY <1>w, <2>2, <2>3, <2>5, <2>6, RunTyped DEF Write, TypeOK, enforced, history
<1>2. CASE Replace(p)
  <2>1. PICK f \in Writing(p) : tmp[f] # Nil /\ Exchange(p, f)
    BY <1>2 DEF Replace
  <2>2. /\ f \in Files /\ tmp[f] \in Contents[f] \cup {Empty, Mixed}
        /\ Put(f, tmp[f]) /\ tmp' = [tmp EXCEPT ![f] = Nil]
    BY <1>0, <2>1 DEF TypeOK, Exchange
  <2>3. /\ DOMAIN conf' = Files /\ \A g \in Files : conf'[g] \in Contents[g]
        /\ torn' \in [Files -> {Nil, Empty, Mixed}]
    BY <2>2, PutTyped
  <2>4. DOMAIN tmp' = Files /\ \A g \in Files : tmp'[g] \in Contents[g] \cup {Nil, Empty, Mixed}
    BY <2>2 DEF TypeOK
  <2>5. /\ run' \in [Admins -> Run]
        /\ \A q \in Admins : \A g \in run'[q].writes : run'[q].to \in Contents[g]
    BY <2>1, ExchangeMoves
  <2> QED
    BY <1>2, <2>3, <2>4, <2>5 DEF Replace, TypeOK, enforced, history
<1>3. CASE Raise(p) \/ Die(p)
  <2>1. run' = [run EXCEPT ![p] = NoRun] /\ cut' = TRUE
    BY <1>3 DEF Raise, Die, Stop
  <2> QED
    BY <1>3, <2>1, Ended DEF Raise, Die, TypeOK, files, enforced
<1>4. CASE FollowRename(p)
  BY <1>4, FollowTyped
<1>5. CASE StripGroups(p)
  BY <1>5, StripTyped
<1>6. CASE ReadPeers(p)
  <2> DEFINE r == [run[p] EXCEPT !.read = Active(conf.devices),
                                 !.tasks = (@ \ {"render"}) \cup {"rewire"}]
  <2>1. r \in Run /\ r.writes = run[p].writes /\ r.to = run[p].to
    BY <1>0 DEF Run, Tasks, Active
  <2>2. run' = [run EXCEPT ![p] = r]
    BY <1>0, <1>6 DEF ReadPeers, Run, TypeOK
  <2> HIDE DEF r
  <2> QED
    BY <1>6, <2>1, <2>2, RunTyped DEF ReadPeers, TypeOK, files, enforced, history
<1>7. CASE WritePeers(p)
  <2> DEFINE r == [run[p] EXCEPT !.tasks = @ \ {"rewire"}, !.writes = {}, !.to = Nil]
  <2>1. r \in Run /\ r.writes = {}
    BY <1>0 DEF Run
  <2>2. run' = [run EXCEPT ![p] = r] /\ peers' \subseteq Devices
    BY <1>0, <1>7 DEF WritePeers, Done, Run, TypeOK
  <2> HIDE DEF r
  <2> QED
    BY <1>7, <2>1, <2>2, RunTyped DEF WritePeers, TypeOK, files, history
<1>8. CASE Reload(p)
  <2>1. daemon' \in Daemon
    BY <1>8 DEF Reload, TypeOK, Daemon
  <2> QED
    BY <1>8, <2>1, Ended DEF Reload, TypeOK, files, history
<1> QED
  BY <1>1, <1>w, <1>2, <1>3, <1>4, <1>5, <1>6, <1>7, <1>8 DEF Step

LEMMA NextTyped == TypeOK /\ [Next]_vars => TypeOK'
<1> SUFFICES ASSUME TypeOK, [Next]_vars PROVE TypeOK'
  OBVIOUS
<1>1. CASE \E p \in Admins : Operate(p) \/ Step(p) \/ Die(p)
  BY <1>1, OperateTyped, StepTyped
<1>2. CASE DaemonReads
  <2>1. daemon' \in Daemon
    BY <1>2, FilesTyped DEF DaemonReads, TypeOK, Daemon
  <2> QED
    BY <1>2, <2>1 DEF DaemonReads, TypeOK, files, history
<1>3. CASE DaemonServes
  <2>1. Admitted(ListResources, daemon.devices, daemon.groups) \in [Resources -> SUBSET Devices]
    BY DEF Admitted
  <2>2. daemon' \in Daemon
    BY <1>3, <2>1 DEF DaemonServes, TypeOK, Daemon
  <2> QED
    BY <1>3, <2>2 DEF DaemonServes, TypeOK, files, history
<1>f. CASE DaemonFails
  BY <1>f DEF DaemonFails, TypeOK, Daemon, files, history
<1>4. CASE \E d \in Devices : Expire(d)
  BY <1>4 DEF Expire, TypeOK, files, enforced, history
<1>5. CASE UNCHANGED vars
  BY <1>5 DEF vars, TypeOK, files, enforced, history
<1> QED
  BY <1>1, <1>2, <1>3, <1>f, <1>4, <1>5 DEF Next

\* Every file is a registry or torn, and every operation and reading keeps its type,
\* through temporary files that several operations have open at one time.
THEOREM TypeCorrect == Spec => []TypeOK
BY InitTyped, NextTyped, PTL DEF Spec

-----------------------------------------------------------------------------
(* What is enforced.                                                        *)

\* Every operation that has not ended has still to restart the proxy.
Ends == \A p \in Admins : ~Idle(p) => "reload" \in run[p].tasks

\* The proxy admits, or will once it has started, whom the registries allow.
ProxyUpToDate ==
  \/ daemon.pc = "starting"
  \/ /\ daemon.pc = "reading"
     /\ daemon.devices = conf.devices /\ daemon.groups = conf.groups
  \/ /\ daemon.pc = "serving"
     /\ \A r \in Resources : daemon.admits[r] \ expired =
          Admitted(ListResources, conf.devices, conf.groups)[r]

ProxyInv == ~cut => ProxyUpToDate \/ \E p \in Admins : ~Idle(p)

\* Operations that never overlapped are at work one at a time.
Alone == ~overlapped => \A p, q \in Admins : Idle(p) \/ Idle(q) \/ p = q

\* p writes the devices only while it has still to render the peers, and what it
\* has read for them is what is active.
Renders(p) ==
  /\ "devices" \in run[p].writes => "render" \in run[p].tasks
  /\ "rewire" \in run[p].tasks =>
       /\ "devices" \notin run[p].writes
       /\ ~overlapped => run[p].read \ expired = Active(conf.devices)

Rendering == \E p \in Admins : run[p].tasks \cap {"render", "rewire"} # {}

PeersInv ==
  /\ \A p \in Admins : Renders(p)
  /\ ~cut /\ ~overlapped => peers \ expired = Active(conf.devices) \/ Rendering

IInv == TypeOK /\ Ends /\ ProxyInv /\ Alone /\ PeersInv

\* What every operation has before it when it begins.
Begun(r) ==
  /\ r.handle = "none" /\ r.writes \in {{}, {"devices"}, {"groups"}, Registry}
  /\ r.tasks # {} /\ "reload" \in r.tasks /\ "rewire" \notin r.tasks
  /\ "devices" \in r.writes => "render" \in r.tasks

LEMMA SaveBegins ==
  ASSUME NEW p \in Admins, NEW writes \in {{"devices"}, {"groups"}, Registry},
         NEW to, NEW tasks, Save(p, writes, to, tasks),
         "reload" \in tasks, "rewire" \notin tasks,
         "devices" \in writes => "render" \in tasks
  PROVE  \E r : Begin(p, r) /\ Begun(r)
<1> DEFINE r == [NoRun EXCEPT !.writes = writes, !.to = to, !.tasks = tasks]
<1>1. Begin(p, r)
  BY DEF Save
<1>2. Begun(r)
  BY DEF Begun, NoRun
<1> HIDE DEF r
<1> QED
  BY <1>1, <1>2

LEMMA OperateBegins ==
  ASSUME NEW p \in Admins, Operate(p)
  PROVE  \E r : Begin(p, r) /\ Begun(r)
<1>1. CASE SetEnabled(p)
  <2>1. PICK to : Save(p, {"devices"}, to, {"render", "reload"})
    BY <1>1 DEF SetEnabled
  <2> QED
    BY <2>1, SaveBegins
<1>2. CASE Rename(p)
  <2> DEFINE r(d, n) == [NoRun EXCEPT
         !.writes = {"devices"},
         !.to = [conf.devices EXCEPT ![d].name = n],
         !.tasks = {"rename", "render", "reload"},
         !.old = {conf.devices[d].name}, !.new = {n}]
  <2>1. PICK d \in Devices, n \in Names : Begin(p, r(d, n))
    BY <1>2 DEF Rename
  <2>2. Begun(r(d, n))
    BY DEF Begun, NoRun
  <2> HIDE DEF r
  <2> QED
    BY <2>1, <2>2
<1>3. CASE SetOverride(p) \/ Register(p) \/ UpdateResource(p)
  <2>1. PICK to : Save(p, Registry, to, {"reload"})
    BY <1>3 DEF SetOverride, Register, UpdateResource
  <2> QED
    BY <2>1, SaveBegins DEF Registry
<1>4. CASE Remove(p)
  <2> DEFINE q(r) == [NoRun EXCEPT
         !.writes = Registry,
         !.to = [ListResources EXCEPT ![r] = NoResource],
         !.tasks = {"strip", "reload"}, !.gone = {r}]
  <2>1. PICK r \in Resources : Begin(p, q(r))
    BY <1>4 DEF Remove
  <2>2. Begun(q(r))
    BY DEF Begun, NoRun, Registry
  <2> HIDE DEF q
  <2> QED
    BY <2>1, <2>2
<1>5. CASE ChangeGroup(p)
  <2>1. PICK to : Save(p, {"groups"}, to, {"reload"})
    BY <1>5 DEF ChangeGroup
  <2> QED
    BY <2>1, SaveBegins
<1>6. CASE Sync(p)
  <2> DEFINE r == [NoRun EXCEPT !.tasks = {"render", "reload"}]
  <2>1. Begin(p, r) /\ Begun(r)
    BY <1>6 DEF Sync, Begun, NoRun
  <2> HIDE DEF r
  <2> QED
    BY <2>1
<1> QED
  BY <1>1, <1>2, <1>3, <1>4, <1>5, <1>6 DEF Operate

\* The operations of others are as far as they were.
OthersGoOn(p) ==
  \A q \in Admins : q # p => /\ run'[q].writes = run[q].writes
                              /\ run'[q].tasks = run[q].tasks
                              /\ run'[q].read = run[q].read

LEMMA OneGoesOn ==
  ASSUME TypeOK, NEW p \in Admins, NEW r, run' = [run EXCEPT ![p] = r]
  PROVE  run'[p] = r /\ OthersGoOn(p)
BY DEF TypeOK, OthersGoOn

LEMMA ExchangeGoesOn ==
  ASSUME TypeOK, NEW p \in Admins, NEW f \in Writing(p), Exchange(p, f)
  PROVE  OthersGoOn(p)
<1> SUFFICES ASSUME NEW q \in Admins, q # p
             PROVE  /\ run'[q].writes = run[q].writes
                    /\ run'[q].tasks = run[q].tasks
                    /\ run'[q].read = run[q].read
  BY DEF OthersGoOn
<1>1. run[q] \in Run
  BY DEF TypeOK
<1>2. run'[q] = IF f \in Writing(q) THEN [run[q] EXCEPT !.handle = Moved(@)] ELSE run[q]
  BY ExchangeMoves
<1> QED
  BY <1>1, <1>2 DEF Run

LEMMA BeginKeeps ==
  ASSUME IInv, NEW p \in Admins, NEW r, Begin(p, r), Begun(r)
  PROVE  Ends' /\ ProxyInv' /\ Alone' /\ PeersInv'
<1>1. /\ run' = [run EXCEPT ![p] = r] /\ run \in [Admins -> Run]
      /\ overlapped' = (overlapped \/ \E q \in Admins : ~Idle(q))
      /\ UNCHANGED <<conf, expired, peers, daemon, cut>>
  BY DEF Begin, files, enforced, IInv, TypeOK
<1>2. \A q \in Admins : IF q = p THEN run'[q] = r ELSE run'[q] = run[q]
  BY <1>1
<1>3. ~Idle(p)'
  BY <1>2 DEF Idle, Begun
<1>4. Ends' /\ ProxyInv'
  BY <1>2, <1>3 DEF IInv, Ends, Idle, Begun, ProxyInv
<1>5. Alone'
  BY <1>1, <1>2 DEF IInv, Alone, Idle
<1>6. Active(conf.devices)' = Active(conf.devices)
  BY <1>1 DEF Active
<1>7. \A q \in Admins : Renders(q)'
  BY <1>1, <1>2, <1>6 DEF IInv, PeersInv, Renders, Begun
<1>8. Rendering => Rendering'
  <2> SUFFICES ASSUME NEW q \in Admins, run[q].tasks \cap {"render", "rewire"} # {}
               PROVE  q # p
    BY <1>2 DEF Rendering
  <2> QED
    BY DEF Begin, Idle
<1>9. PeersInv'
  BY <1>1, <1>6, <1>7, <1>8 DEF IInv, PeersInv
<1> QED
  BY <1>4, <1>5, <1>9

\* A step in which p's operation goes on, with its restart of the proxy to come,
\* and nothing that the peers depend on changes.
LEMMA StepOnKeeps ==
  ASSUME IInv, NEW p \in Admins, ~Idle(p), NEW r,
         run'[p] = r, OthersGoOn(p),
         "reload" \in r.tasks,
         UNCHANGED <<daemon, expired, overlapped, cut>>
  PROVE  Ends' /\ ProxyInv' /\ Alone'
<1>1. ~Idle(p)'
  BY DEF Idle
<1> QED
  BY <1>1 DEF OthersGoOn, IInv, Ends, ProxyInv, Alone, Idle

LEMMA StepKeeps ==
  ASSUME IInv, NEW p \in Admins, Step(p) \/ Die(p)
  PROVE  Ends' /\ ProxyInv' /\ Alone' /\ PeersInv'
<1>0. TypeOK /\ run \in [Admins -> Run] /\ run[p] \in Run
  BY DEF IInv, TypeOK
<1>a. ~Idle(p)
  BY <1>0, WritingIs
     DEF Step, Die, Open, Write, Replace, Raise, FollowRename, StripGroups, ReadPeers,
         WritePeers, Reload, Turn, Stop, Idle
<1>b. "reload" \in run[p].tasks
  BY <1>a DEF IInv, Ends
<1>1. CASE Open(p)
  <2> DEFINE r == [run[p] EXCEPT !.handle = "tmp"]
  <2>1. /\ run' = [run EXCEPT ![p] = r]
        /\ r.tasks = run[p].tasks /\ r.writes = run[p].writes /\ r.read = run[p].read
        /\ UNCHANGED <<conf, expired, peers, daemon, overlapped, cut>>
    BY <1>0, <1>1 DEF Open, Run, enforced, history
  <2> HIDE DEF r
  <2>2. Ends' /\ ProxyInv' /\ Alone'
    BY <1>0, <1>a, <1>b, <2>1, OneGoesOn, StepOnKeeps
  <2>3. PeersInv'
    BY <1>0, <2>1 DEF IInv, PeersInv, Renders, Rendering, Active
  <2> QED
    BY <2>2, <2>3
<1>2. CASE Write(p) \/ Replace(p)
  <2>1. PICK f \in Writing(p) :
          /\ \A g \in Files : g # f => conf'[g] = conf[g]
          /\ OthersGoOn(p)
          /\ run'[p].tasks = run[p].tasks /\ run'[p].read = run[p].read
          /\ run'[p].writes = run[p].writes \/ run'[p].writes = run[p].writes \ {f}
    <3>1. CASE Write(p)
      <4>1. PICK f \in Writing(p), x \in {run[p].to, Mixed} :
              IF run[p].handle = "live" THEN Put(f, x) ELSE UNCHANGED <<conf, torn>>
        BY <3>1 DEF Write
      <4>2. \A g \in Files : g # f => conf'[g] = conf[g]
        BY <1>0, <4>1 DEF Put, TypeOK
      <4> DEFINE r == [run[p] EXCEPT !.handle = "closed"]
      <4>3. run' = [run EXCEPT ![p] = r]
        BY <3>1 DEF Write
      <4>4. r.tasks = run[p].tasks /\ r.read = run[p].read /\ r.writes = run[p].writes
        BY <1>0 DEF Run
      <4> HIDE DEF r
      <4> QED
        BY <1>0, <4>2, <4>3, <4>4, OneGoesOn
    <3>2. CASE Replace(p)
      <4>1. PICK f \in Writing(p) : Exchange(p, f)
        BY <3>2 DEF Replace
      <4>2. \A g \in Files : g # f => conf'[g] = conf[g]
        BY <1>0, <4>1 DEF Exchange, Put, TypeOK
      <4> DEFINE r == [run[p] EXCEPT !.handle = "none", !.writes = @ \ {f}]
      <4>3. run'[p] = r
        BY <1>0, <4>1, ExchangeMoves
      <4>4. r.tasks = run[p].tasks /\ r.read = run[p].read /\ r.writes = run[p].writes \ {f}
        BY <1>0 DEF Run
      <4> HIDE DEF r
      <4> QED
        BY <1>0, <4>1, <4>2, <4>3, <4>4, ExchangeGoesOn
    <3> QED
      BY <1>2, <3>1, <3>2
  <2>2. UNCHANGED <<expired, peers, daemon, overlapped, cut>>
    BY <1>2 DEF Write, Replace, enforced, history
  <2>3. Ends' /\ ProxyInv' /\ Alone'
    BY <1>0, <1>a, <1>b, <2>1, <2>2, OneGoesOn, StepOnKeeps
  <2>4. \A q \in Admins : q # p => /\ run'[q].writes = run[q].writes
                                   /\ run'[q].tasks = run[q].tasks
                                   /\ run'[q].read = run[q].read
    BY <2>1 DEF OthersGoOn
  <2>5. f \in run[p].writes /\ f \in Files
    BY <1>0, WritingIs
  <2>6. CASE f = "devices"
    <3>1. "render" \in run[p].tasks /\ "rewire" \notin run[p].tasks
      BY <2>5, <2>6 DEF IInv, PeersInv, Renders
    <3>2. Rendering'
      BY <2>1, <3>1 DEF Rendering
    <3>3. ASSUME NEW q \in Admins PROVE Renders(q)'
      <4>1. CASE q = p
        BY <2>1, <2>2, <3>1, <4>1 DEF Renders
      <4>2. CASE q # p
        <5>1. Idle(q) \/ overlapped'
          BY <1>a, <2>2, <4>2 DEF IInv, Alone
        <5> QED
          BY <2>4, <4>2, <5>1 DEF IInv, PeersInv, Renders, Idle
      <4> QED
        BY <4>1, <4>2
    <3> QED
      BY <2>3, <3>2, <3>3 DEF PeersInv
  <2>7. CASE f # "devices"
    <3>1. conf'.devices = conf.devices
      BY <2>1, <2>7, ContentsAre
    <3>2. Active(conf.devices)' = Active(conf.devices)
      BY <2>2, <3>1 DEF Active
    <3>3. \A q \in Admins : Renders(q)'
      BY <2>1, <2>2, <2>4, <3>2 DEF IInv, PeersInv, Renders
    <3>4. Rendering <=> Rendering'
      BY <2>1, <2>4 DEF Rendering
    <3> QED
      BY <2>2, <2>3, <3>2, <3>3, <3>4 DEF IInv, PeersInv
  <2> QED
    BY <2>6, <2>7
<1>3. CASE Raise(p) \/ Die(p)
  <2>1. /\ run' = [run EXCEPT ![p] = NoRun] /\ cut' = TRUE
        /\ UNCHANGED <<conf, expired, overlapped>>
    BY <1>3 DEF Raise, Die, Stop, files
  <2>2. \A q \in Admins : IF q = p THEN run'[q] = NoRun ELSE run'[q] = run[q]
    BY <1>0, <2>1
  <2>3. Idle(p)' /\ NoRun.writes = {} /\ NoRun.tasks = {}
    BY <2>2, NoRunTyped DEF Idle
  <2>4. Active(conf.devices)' = Active(conf.devices)
    BY <2>1 DEF Active
  <2>5. Ends' /\ ProxyInv' /\ Alone'
    BY <2>1, <2>2, <2>3 DEF IInv, Ends, ProxyInv, Alone, Idle
  <2>6. \A q \in Admins : Renders(q)'
    BY <2>1, <2>2, <2>3, <2>4 DEF IInv, PeersInv, Renders
  <2> QED
    BY <2>1, <2>5, <2>6 DEF PeersInv
<1>4. CASE FollowRename(p) \/ StripGroups(p)
  <2>a. PICK task \in {"rename", "strip"}, writes \in SUBSET {"resources", "services", "groups"} :
          \E to : Done(p, task, writes, to)
    <3>1. CASE FollowRename(p)
      <4> DEFINE follow(names) == IF run[p].old \subseteq names
                                    THEN (names \ run[p].old) \cup run[p].new ELSE names
                 resources == [r \in Resources |-> [ListResources[r] EXCEPT
                                  !.allow = follow(@), !.deny = follow(@)]]
                 w == IF resources = ListResources THEN {} ELSE Registry
      <4>1. Done(p, "rename", w, resources)
        BY <3>1 DEF FollowRename
      <4>2. w \subseteq {"resources", "services", "groups"}
        BY DEF Registry
      <4> HIDE DEF w, resources
      <4> QED
        BY <4>1, <4>2
    <3>2. CASE StripGroups(p)
      <4> DEFINE groups == [g \in Groups |-> [conf.groups[g] EXCEPT !.resources = @ \ run[p].gone]]
                 w == IF groups = conf.groups THEN {} ELSE {"groups"}
      <4>1. Done(p, "strip", w, groups)
        BY <3>2 DEF StripGroups
      <4>2. w \subseteq {"resources", "services", "groups"}
        OBVIOUS
      <4> HIDE DEF w, groups
      <4> QED
        BY <4>1, <4>2
    <3> QED
      BY <1>4, <3>1, <3>2
  <2>1. PICK to : Done(p, task, writes, to)
    BY <2>a
  <2> DEFINE r == [run[p] EXCEPT !.tasks = @ \ {task}, !.writes = writes, !.to = to]
  <2>2. /\ run' = [run EXCEPT ![p] = r]
        /\ r.tasks = run[p].tasks \ {task} /\ r.writes = writes /\ r.read = run[p].read
        /\ UNCHANGED <<conf, expired, peers, daemon, overlapped, cut>>
    BY <1>0, <1>4, <2>1 DEF FollowRename, StripGroups, Done, Run, files, enforced, history
  <2> HIDE DEF r
  <2>3. \A q \in Admins : IF q = p THEN run'[q] = r ELSE run'[q] = run[q]
    BY <1>0, <2>2
  <2>4. Ends' /\ ProxyInv' /\ Alone'
    BY <1>0, <1>a, <1>b, <2>1, <2>2, OneGoesOn, StepOnKeeps
  <2>5. "devices" \notin r.writes
    BY <2>1, <2>2
  <2>6. \A x \in {"render", "rewire"} : x \in r.tasks <=> x \in run[p].tasks
    BY <2>1, <2>2
  <2>7. Active(conf.devices)' = Active(conf.devices)
    BY <2>2 DEF Active
  <2>8. \A q \in Admins : Renders(q)'
    BY <2>2, <2>3, <2>5, <2>6, <2>7 DEF IInv, PeersInv, Renders
  <2>9. Rendering => Rendering'
    BY <2>3, <2>6 DEF Rendering
  <2> QED
    BY <2>2, <2>4, <2>7, <2>8, <2>9 DEF IInv, PeersInv
<1>5. CASE ReadPeers(p)
  <2> DEFINE r == [run[p] EXCEPT !.read = Active(conf.devices),
                                 !.tasks = (@ \ {"render"}) \cup {"rewire"}]
  <2>1. /\ run' = [run EXCEPT ![p] = r]
        /\ r.tasks = (run[p].tasks \ {"render"}) \cup {"rewire"}
        /\ r.writes = {} /\ r.read = Active(conf.devices)
        /\ UNCHANGED <<conf, expired, peers, daemon, overlapped, cut>>
    BY <1>0, <1>5 DEF ReadPeers, Turn, Run, files, enforced, history
  <2> HIDE DEF r
  <2>2. \A q \in Admins : IF q = p THEN run'[q] = r ELSE run'[q] = run[q]
    BY <1>0, <2>1
  <2>3. Ends' /\ ProxyInv' /\ Alone'
    BY <1>0, <1>a, <1>b, <2>1, OneGoesOn, StepOnKeeps
  <2>4. Active(conf.devices)' = Active(conf.devices) /\ r.read \ expired = r.read
    BY <2>1 DEF Active
  <2>5. \A q \in Admins : Renders(q)'
    BY <2>1, <2>2, <2>4 DEF IInv, PeersInv, Renders
  <2>6. Rendering'
    BY <2>1, <2>2 DEF Rendering
  <2> QED
    BY <2>3, <2>5, <2>6 DEF PeersInv
<1>6. CASE WritePeers(p)
  <2> DEFINE r == [run[p] EXCEPT !.tasks = @ \ {"rewire"}, !.writes = {}, !.to = Nil]
  <2>1. /\ run' = [run EXCEPT ![p] = r]
        /\ r.tasks = run[p].tasks \ {"rewire"} /\ r.writes = {} /\ r.read = run[p].read
        /\ "rewire" \in run[p].tasks /\ peers' = run[p].read
        /\ UNCHANGED <<conf, expired, daemon, overlapped, cut>>
    BY <1>0, <1>6 DEF WritePeers, Done, Turn, Run, files, history
  <2> HIDE DEF r
  <2>2. \A q \in Admins : IF q = p THEN run'[q] = r ELSE run'[q] = run[q]
    BY <1>0, <2>1
  <2>3. Ends' /\ ProxyInv' /\ Alone'
    BY <1>0, <1>a, <1>b, <2>1, OneGoesOn, StepOnKeeps
  <2>4. Active(conf.devices)' = Active(conf.devices)
    BY <2>1 DEF Active
  <2>5. \A q \in Admins : Renders(q)'
    BY <2>1, <2>2, <2>4 DEF IInv, PeersInv, Renders
  <2>6. ~overlapped => peers' \ expired = Active(conf.devices)
    BY <2>1 DEF IInv, PeersInv, Renders
  <2> QED
    BY <2>1, <2>3, <2>4, <2>5, <2>6 DEF PeersInv
<1>7. CASE Reload(p)
  <2>1. /\ run' = [run EXCEPT ![p] = NoRun] /\ daemon' = [daemon EXCEPT !.pc = "starting",
                                                    !.admits = [r \in Resources |-> {}]]
        /\ run[p].tasks \cap {"render", "rewire"} = {}
        /\ UNCHANGED <<conf, expired, peers, overlapped, cut>>
    BY <1>7 DEF Reload, Turn, files, history
  <2>2. \A q \in Admins : IF q = p THEN run'[q] = NoRun ELSE run'[q] = run[q]
    BY <1>0, <2>1
  <2>3. Idle(p)' /\ NoRun.writes = {} /\ NoRun.tasks = {}
    BY <2>2, NoRunTyped DEF Idle
  <2>4. daemon'.pc = "starting"
    BY <1>0, <2>1 DEF TypeOK, Daemon
  <2>5. Ends' /\ ProxyInv' /\ Alone'
    BY <2>1, <2>2, <2>3, <2>4 DEF IInv, Ends, ProxyInv, ProxyUpToDate, Alone, Idle
  <2>6. Active(conf.devices)' = Active(conf.devices)
    BY <2>1 DEF Active
  <2>7. \A q \in Admins : Renders(q)'
    BY <2>1, <2>2, <2>3, <2>6 DEF IInv, PeersInv, Renders
  <2>8. Rendering => Rendering'
    BY <2>1, <2>2 DEF Rendering
  <2> QED
    BY <2>1, <2>5, <2>6, <2>7, <2>8 DEF IInv, PeersInv
<1> QED
  BY <1>1, <1>2, <1>3, <1>4, <1>5, <1>6, <1>7 DEF Step

\* Starting, the proxy reads what is then in the files; time only takes devices away.
LEMMA DaemonKeeps ==
  ASSUME IInv, DaemonReads \/ DaemonServes \/ DaemonFails
  PROVE  Ends' /\ ProxyInv' /\ Alone' /\ PeersInv'
<1>1. UNCHANGED <<conf, expired, peers, run, overlapped, cut>>
  BY DEF DaemonReads, DaemonServes, DaemonFails, files, history
<1>2. Active(conf.devices)' = Active(conf.devices)
  BY <1>1 DEF Active
<1>3. Ends' /\ Alone' /\ PeersInv'
  BY <1>1, <1>2 DEF IInv, Ends, Alone, Idle, PeersInv, Renders, Rendering
<1>4. daemon \in Daemon
  BY DEF IInv, TypeOK
<1>5. CASE DaemonReads
  <2>1. daemon'.pc = "reading" /\ daemon'.devices = conf.devices /\ daemon'.groups = conf.groups
    BY <1>4, <1>5 DEF DaemonReads, Daemon
  <2> QED
    BY <1>1, <1>3, <2>1 DEF ProxyInv, ProxyUpToDate
<1>6. CASE DaemonServes
  <2>1. ProxyUpToDate => ProxyUpToDate'
    <3> DEFINE admitted == Admitted(ListResources, daemon.devices, daemon.groups)
    <3>1. SUFFICES ASSUME ProxyUpToDate PROVE ProxyUpToDate'
      OBVIOUS
    <3>2. daemon.devices = conf.devices /\ daemon.groups = conf.groups
      BY <1>6, <3>1 DEF DaemonServes, ProxyUpToDate
    <3>3. daemon'.pc = "serving" /\ daemon'.admits = admitted
      BY <1>4, <1>6 DEF DaemonServes, Daemon
    <3>4. \A r \in Resources : admitted[r] \ expired = admitted[r]
      BY DEF Admitted, Allows, Active
    <3>5. Admitted(ListResources, conf.devices, conf.groups)' = admitted
      BY <1>1, <3>2 DEF Admitted, Allows, Active, ListResources
    <3> HIDE DEF admitted
    <3> QED
      BY <1>1, <3>3, <3>4, <3>5 DEF ProxyUpToDate
  <2> QED
    BY <1>1, <1>3, <2>1 DEF IInv, ProxyInv, Idle
<1>7. CASE DaemonFails
  <2>1. daemon'.pc = "starting"
    BY <1>4, <1>7 DEF DaemonFails, Daemon
  <2> QED
    BY <1>1, <1>3, <2>1 DEF ProxyInv, ProxyUpToDate
<1> QED
  BY <1>5, <1>6, <1>7

LEMMA ExpireKeeps ==
  ASSUME IInv, NEW d \in Devices, Expire(d)
  PROVE  Ends' /\ ProxyInv' /\ Alone' /\ PeersInv'
<1>1. /\ expired' = expired \cup {d}
      /\ UNCHANGED <<conf, peers, daemon, run, overlapped, cut>>
  BY DEF Expire, files, enforced, history
<1>2. Active(conf.devices)' = Active(conf.devices) \ {d}
  BY <1>1 DEF Active
<1>3. Ends' /\ Alone'
  BY <1>1 DEF IInv, Ends, Alone, Idle
<1>4. ListResources' = ListResources
  BY <1>1 DEF ListResources
<1>5. \A r \in Resources : Admitted(ListResources, conf.devices, conf.groups)'[r] =
                             Admitted(ListResources, conf.devices, conf.groups)[r] \ {d}
  BY <1>1, <1>4 DEF Admitted, Allows, Active
<1>6. ProxyUpToDate => ProxyUpToDate'
  BY <1>1, <1>5 DEF ProxyUpToDate
<1>7. ProxyInv'
  BY <1>1, <1>6 DEF IInv, ProxyInv, Idle
<1>8. PeersInv'
  BY <1>1, <1>2 DEF IInv, PeersInv, Renders, Rendering
<1> QED
  BY <1>3, <1>7, <1>8

LEMMA NextKeeps == IInv /\ [Next]_vars => IInv'
<1> SUFFICES ASSUME IInv, [Next]_vars PROVE Ends' /\ ProxyInv' /\ Alone' /\ PeersInv'
  BY NextTyped DEF IInv
<1>1. CASE \E p \in Admins : Operate(p) \/ Step(p) \/ Die(p)
  BY <1>1, OperateBegins, BeginKeeps, StepKeeps
<1>2. CASE DaemonReads \/ DaemonServes \/ DaemonFails
  BY <1>2, DaemonKeeps
<1>3. CASE \E d \in Devices : Expire(d)
  BY <1>3, ExpireKeeps
<1>4. CASE UNCHANGED vars
  <2>1. /\ UNCHANGED <<conf, expired, peers, daemon, run, overlapped, cut>>
        /\ ListResources' = ListResources
    BY <1>4 DEF vars, files, enforced, history, ListResources
  <2> QED
    BY <2>1 DEF IInv, Ends, ProxyInv, ProxyUpToDate, Alone, PeersInv, Renders, Rendering,
                Idle, Active, Admitted, Allows
<1> QED
  BY <1>1, <1>2, <1>3, <1>4 DEF Next

LEMMA InitHolds == Init => IInv
<1> SUFFICES ASSUME Init PROVE IInv
  OBVIOUS
<1>1. \A p \in Admins : run[p] = NoRun
  BY DEF Init
<1>2. /\ expired = {} /\ peers = Devices /\ daemon.pc = "serving"
      /\ daemon.admits = [r \in Resources |-> {}]
      /\ conf.devices = FirstDevices
      /\ conf.groups = [g \in Groups |-> [on |-> TRUE, devices |-> {}, resources |-> {}]]
      /\ ListResources = [r \in Resources |-> FirstResource]
  BY DEF Init, ListResources
<1>3. Active(conf.devices) = Devices
  BY <1>2 DEF Active, FirstDevices
<1>4. \A r \in Resources : Admitted(ListResources, conf.devices, conf.groups)[r] = {}
  BY <1>2 DEF Admitted, Allows, FirstResource
<1>5. ProxyUpToDate
  BY <1>2, <1>4 DEF ProxyUpToDate
<1> QED
  BY <1>1, <1>2, <1>3, <1>5, InitTyped, NoRunTyped
     DEF IInv, Ends, Idle, ProxyInv, Alone, PeersInv, Renders

\* Every operation that may have changed what the registries grant has still to
\* restart the proxy, and every one that changed the devices to write the peers,
\* until it ends; what the proxy is reading or has read is otherwise up to date.
THEOREM Invariance == Spec => []IInv
BY InitHolds, NextKeeps, PTL DEF Spec

-----------------------------------------------------------------------------
(* Which files can be read.                                                 *)

\* The operations that have the temporary file of f open, or have written it.
Opened(f) == {p \in Admins : f \in Writing(p) /\ run[p].handle # "none"}

\* More operations have it than can put it in place: one of them will fail.
Excess(f) ==
  IF tmp[f] = Nil THEN Opened(f) # {} ELSE \E p, q \in Opened(f) : p # q

Single(writes) == \A f, g \in (IF writes = Registry THEN {"resources"} ELSE writes) : f = g

Handles ==
  \A p \in Admins :
    /\ Single(run[p].writes)
    /\ run[p].writes = {} => run[p].handle = "none"
    /\ run[p].handle = "tmp" => \A f \in Writing(p) : tmp[f] # Nil

\* A file is torn only where that is so, while every operation has ended well.
Whole(f) ==
  /\ torn[f] = Nil
  /\ \A p \in Opened(f) : \/ run[p].handle = "tmp" /\ tmp[f] = Empty
                          \/ run[p].handle = "closed" /\ tmp[f] = run[p].to

TornInv ==
  /\ Handles
  /\ ~cut => \A f \in Files : /\ tmp[f] # Nil => Opened(f) # {}
                              /\ Excess(f) \/ Whole(f)

LEMMA OneWritten ==
  ASSUME Handles, NEW p \in Admins PROVE \A f, g \in Writing(p) : f = g
BY DEF Handles, Single, Writing

\* A step that takes no part in the writing of a file leaves it as it is.
LEMMA ApartKeeps ==
  ASSUME TypeOK, TornInv, UNCHANGED <<tmp, torn>>,
         \A p \in Admins : \/ /\ run'[p].handle = "none" /\ run[p].handle = "none"
                              /\ Single(run'[p].writes)
                           \/ run'[p] = run[p],
         cut => cut'
  PROVE  TornInv'
<1>1. \A p \in Admins : run[p].writes = {} => Writing(p) = {} /\ run[p].handle = "none"
  BY DEF Writing, Registry, TornInv, Handles
<1>2. \A f \in Files : Opened(f)' = Opened(f)
  BY <1>1 DEF Opened, Writing
<1>3. \A p \in Admins : run'[p].handle # "none" => run'[p] = run[p]
  OBVIOUS
<1>4. Handles'
  <2>1. \A p \in Admins : Single(run'[p].writes) /\ run'[p].writes = {} => run'[p].handle = "none"
    BY DEF TornInv, Handles
  <2> QED
    BY <1>3, <2>1 DEF TornInv, Handles, Writing, Single
<1>5. ASSUME NEW f \in Files, Excess(f) PROVE Excess(f)'
  BY <1>2, <1>5 DEF Excess
<1>6. ASSUME NEW f \in Files, Whole(f) PROVE Whole(f)'
  <2>1. \A p \in Opened(f) : run'[p] = run[p]
    BY <1>2, <1>3 DEF Opened
  <2> QED
    BY <1>2, <1>6, <2>1 DEF Whole
<1> QED
  BY <1>2, <1>4, <1>5, <1>6 DEF TornInv

LEMMA OpenTears ==
  ASSUME TypeOK, TornInv, NEW p \in Admins, Open(p) PROVE TornInv'
<1>1. PICK f \in Writing(p) : tmp' = [tmp EXCEPT ![f] = Empty]
  BY DEF Open
<1>2. /\ run[p].handle = "none" /\ UNCHANGED <<torn, cut>>
      /\ run' = [run EXCEPT ![p].handle = "tmp"]
  BY DEF Open, history
<1>3. /\ run'[p].handle = "tmp" /\ run'[p].writes = run[p].writes
      /\ \A q \in Admins : q # p => run'[q] = run[q]
  BY <1>2 DEF TypeOK, Run
<1>4. \A q \in Admins : Writing(q)' = Writing(q)
  BY <1>3 DEF Writing
<1>5. \A g \in Writing(p) : g = f
  BY OneWritten DEF TornInv
<1>6. f \in Files /\ f \in run[p].writes /\ p \notin Opened(f)
  BY <1>2, WritingIs DEF Opened
<1>7. tmp'[f] = Empty /\ Empty # Nil /\ \A g \in Files : g # f => tmp'[g] = tmp[g]
  BY <1>1, <1>6, MarksAssumption DEF TypeOK
<1>8. /\ Opened(f)' = Opened(f) \cup {p}
      /\ \A g \in Files : g # f => Opened(g)' = Opened(g) /\ p \notin Opened(g)
  BY <1>2, <1>3, <1>4, <1>5, <1>6 DEF Opened
<1>9. Handles'
  <2>1. \A q \in Admins : Single(run[q].writes)' /\ (run'[q].writes = {} => run'[q].handle = "none")
    BY <1>3, <1>6 DEF TornInv, Handles, Single
  <2>2. ASSUME NEW q \in Admins, run'[q].handle = "tmp", NEW g \in Writing(q)' PROVE tmp'[g] # Nil
    <3>1. g \in Writing(q) /\ g \in Files
      BY <1>4, <2>2, WritingIs
    <3> QED
      BY <1>3, <1>5, <1>7, <2>2, <3>1 DEF TornInv, Handles
  <2> QED
    BY <2>1, <2>2 DEF Handles
<1>10. ASSUME ~cut PROVE Excess(f)' \/ Whole(f)'
  <2>1. CASE Opened(f) = {}
    <3>1. Whole(f)
      BY <1>6, <1>10, <2>1 DEF TornInv, Excess
    <3> QED
      BY <1>2, <1>3, <1>7, <1>8, <2>1, <3>1 DEF Whole
  <2>2. CASE Opened(f) # {}
    BY <1>6, <1>7, <1>8, <2>2 DEF Excess
  <2> QED
    BY <2>1, <2>2
<1>11. ASSUME ~cut, NEW g \in Files, g # f PROVE Excess(g)' \/ Whole(g)'
  <2>1. Excess(g) => Excess(g)'
    BY <1>7, <1>8, <1>11 DEF Excess
  <2>2. Whole(g) => Whole(g)'
    <3>1. \A q \in Opened(g) : q # p /\ q \in Admins
      BY <1>8, <1>11 DEF Opened
    <3> QED
      BY <1>2, <1>3, <1>7, <1>8, <1>11, <3>1 DEF Whole
  <2> QED
    BY <1>11, <2>1, <2>2 DEF TornInv
<1> QED
  BY <1>2, <1>7, <1>8, <1>9, <1>10, <1>11 DEF TornInv

LEMMA WriteTears ==
  ASSUME TypeOK, TornInv, NEW p \in Admins, Write(p) PROVE TornInv'
<1>1. PICK f \in Writing(p), x \in {run[p].to, Mixed} :
          /\ run[p].handle = "tmp" /\ x = Mixed => tmp[f] # Empty
          /\ IF run[p].handle = "live" THEN Put(f, x) ELSE UNCHANGED <<conf, torn>>
          /\ tmp' = IF run[p].handle = "tmp" THEN [tmp EXCEPT ![f] = x] ELSE tmp
  BY DEF Write
<1>2. /\ run[p].handle \in {"tmp", "live", "lost"} /\ UNCHANGED cut
      /\ run' = [run EXCEPT ![p].handle = "closed"]
  BY DEF Write, history
<1>3. /\ run'[p].handle = "closed" /\ run'[p].writes = run[p].writes /\ run'[p].to = run[p].to
      /\ \A q \in Admins : q # p => run'[q] = run[q]
  BY <1>2 DEF TypeOK, Run
<1>4. \A q \in Admins : Writing(q)' = Writing(q)
  BY <1>3 DEF Writing
<1>5. \A g \in Writing(p) : g = f
  BY OneWritten DEF TornInv
<1>6. f \in Files /\ f \in run[p].writes /\ p \in Opened(f)
  BY <1>2, WritingIs DEF Opened
<1>7. x # Nil
  <2>1. run[p].to \in Contents[f]
    BY <1>6 DEF TypeOK
  <2> QED
    BY <1>1, <1>6, <2>1, NoMark, MarksAssumption
<1>8. \A g \in Files : g # f => tmp'[g] = tmp[g] /\ torn'[g] = torn[g]
  BY <1>1, <1>6 DEF TypeOK, Put
<1>9. tmp[f] = Nil <=> tmp'[f] = Nil
  BY <1>1, <1>6, <1>7 DEF TypeOK, TornInv, Handles
<1>10. \A g \in Files : Opened(g)' = Opened(g)
  BY <1>2, <1>3, <1>4 DEF Opened
<1>11. \A g \in Files : g # f => p \notin Opened(g)
  BY <1>5 DEF Opened
<1>12. \A g \in Files : Excess(g) => Excess(g)'
  BY <1>8, <1>9, <1>10 DEF Excess
<1>13. Handles'
  <2>1. \A q \in Admins : Single(run[q].writes)' /\ (run'[q].writes = {} => run'[q].handle = "none")
    BY <1>3, <1>6 DEF TornInv, Handles, Single
  <2>2. ASSUME NEW q \in Admins, run'[q].handle = "tmp", NEW g \in Writing(q)' PROVE tmp'[g] # Nil
    <3>1. g \in Writing(q) /\ g \in Files
      BY <1>4, <2>2, WritingIs
    <3> QED
      BY <1>3, <1>8, <1>9, <2>2, <3>1 DEF TornInv, Handles
  <2> QED
    BY <2>1, <2>2 DEF Handles
<1>14. ASSUME Whole(f), ~Excess(f) PROVE Whole(f)'
  <2>1. run[p].handle = "tmp" /\ tmp[f] = Empty
    BY <1>2, <1>6, <1>14 DEF Whole
  <2>2. \A q \in Opened(f) : q = p
    BY <1>6, <1>14, <2>1, MarksAssumption DEF Excess
  <2>3. torn'[f] = torn[f] /\ tmp'[f] = run[p].to
    BY <1>1, <1>6, <2>1 DEF TypeOK
  <2> QED
    <3>1. \A q \in Opened(f)' : q = p
      BY <1>6, <1>10, <2>2
    <3>2. torn'[f] = Nil /\ run'[p].handle = "closed" /\ tmp'[f] = run'[p].to
      BY <1>3, <1>14, <2>3 DEF Whole
    <3> QED
      BY <3>1, <3>2 DEF Whole
<1>15. ASSUME NEW g \in Files, g # f, Whole(g) PROVE Whole(g)'
  <2>1. \A q \in Opened(g) : run'[q] = run[q]
    BY <1>3, <1>11, <1>15 DEF Opened
  <2> QED
    BY <1>8, <1>10, <1>15, <2>1 DEF Whole
<1> QED
  BY <1>2, <1>6, <1>8, <1>9, <1>10, <1>12, <1>13, <1>14, <1>15 DEF TornInv

LEMMA ReplaceTears ==
  ASSUME TypeOK, TornInv, NEW p \in Admins, Replace(p) PROVE TornInv'
<1>1. PICK f \in Writing(p) : run[p].handle = "closed" /\ tmp[f] # Nil /\ Exchange(p, f)
  BY DEF Replace
<1>2. /\ Put(f, tmp[f]) /\ tmp' = [tmp EXCEPT ![f] = Nil] /\ UNCHANGED cut
  BY <1>1 DEF Replace, Exchange, history
<1>3. /\ run[p] \in Run /\ \A g \in Writing(p) : g = f
      /\ f \in Files /\ f \in run[p].writes /\ p \in Opened(f)
  BY <1>1, WritingIs, OneWritten DEF Opened, TornInv
<1>4. run'[p].handle = "none" /\ run'[p].writes = run[p].writes \ {f}
  <2>1. run'[p] = [run[p] EXCEPT !.handle = "none", !.writes = @ \ {f}]
    BY <1>1, ExchangeMoves
  <2> QED
    BY <1>3, <2>1 DEF Run
<1>5. ASSUME NEW q \in Admins, q # p
      PROVE  /\ Writing(q)' = Writing(q) /\ run'[q].writes = run[q].writes
             /\ run'[q].handle = IF f \in Writing(q) THEN Moved(run[q].handle) ELSE run[q].handle
             /\ f \notin Writing(q) => run'[q] = run[q]
  <2>1. run[q] \in Run
    BY DEF TypeOK
  <2>2. run'[q] = IF f \in Writing(q) THEN [run[q] EXCEPT !.handle = Moved(@)] ELSE run[q]
    BY <1>1, <1>5, ExchangeMoves
  <2> QED
    BY <2>1, <2>2 DEF Run, Writing
<1>6. \A h \in Handle : Moved(h) # "tmp" /\ (Moved(h) = "none" <=> h = "none")
  BY DEF Moved, Handle
<1>7. /\ tmp'[f] = Nil
      /\ \A g \in Files : g # f => tmp'[g] = tmp[g] /\ torn'[g] = torn[g]
  BY <1>2, <1>3 DEF TypeOK, Put
<1>8. \A q \in Admins : run[q].handle \in Handle
  BY DEF TypeOK, Run
<1>9. Opened(f)' = Opened(f) \ {p}
  BY <1>4, <1>5, <1>6, <1>8 DEF Opened
<1>10. \A g \in Files : g # f => Opened(g)' = Opened(g)
  BY <1>3, <1>4, <1>5, <1>6, <1>8 DEF Opened
<1>11. Handles'
  <2>1. \A q \in Admins : \A g \in Writing(q) : g \in Files
    BY WritingIs
  <2>2. ASSUME NEW q \in Admins
        PROVE  /\ Single(run[q].writes)'
               /\ run'[q].writes = {} => run'[q].handle = "none"
               /\ run'[q].handle = "tmp" => \A g \in Writing(q)' : tmp'[g] # Nil
    <3>1. CASE q = p
      <4>1. run'[p].writes = run[p].writes \ {f}
        BY <1>4
      <4>2. Single(run[p].writes) /\ f \in (IF run[p].writes = Registry THEN {"resources"} ELSE run[p].writes)
        BY <1>1 DEF TornInv, Handles, Writing
      <4>3. Single(run[p].writes \ {f})
        BY <4>2 DEF Single, Registry
      <4> QED
        BY <1>4, <3>1, <4>1, <4>3 DEF Single
    <3>2. CASE q # p /\ f \in Writing(q)
      <4>1. run[q].writes # {}
        BY <3>2, WritingIs
      <4> QED
        BY <1>5, <1>6, <1>8, <3>2, <4>1 DEF TornInv, Handles, Single
    <3>3. CASE q # p /\ f \notin Writing(q)
      BY <1>5, <1>7, <2>1, <3>3 DEF TornInv, Handles, Single
    <3> QED
      BY <3>1, <3>2, <3>3
  <2> QED
    BY <2>2 DEF Handles
<1>12. ASSUME ~cut PROVE Excess(f)' \/ Whole(f)'
  <2>1. CASE Opened(f) = {p}
    <3>1. Whole(f)
      BY <1>1, <1>3, <1>12, <2>1 DEF TornInv, Excess
    <3>2. tmp[f] = run[p].to
      BY <1>1, <1>3, <3>1 DEF Whole
    <3>3. run[p].to \notin {Nil, Empty, Mixed}
      BY <1>3, NoMark DEF TypeOK
    <3>4. torn'[f] = Nil
      BY <1>2, <1>3, <3>2, <3>3 DEF Put, TypeOK
    <3> QED
      BY <1>9, <2>1, <3>4 DEF Whole
  <2>2. CASE Opened(f) # {p}
    BY <1>3, <1>7, <1>9, <2>2 DEF Excess
  <2> QED
    BY <2>1, <2>2
<1>13. ASSUME ~cut, NEW g \in Files, g # f PROVE Excess(g)' \/ Whole(g)'
  <2>1. Excess(g) => Excess(g)'
    BY <1>7, <1>10, <1>13 DEF Excess
  <2>2. Whole(g) => Whole(g)'
    <3>1. ASSUME NEW q \in Opened(g) PROVE run'[q] = run[q]
      <4>1. q \in Admins /\ q # p /\ f \notin Writing(q)
        BY <1>3, <1>13, <3>1, OneWritten DEF Opened, TornInv
      <4> QED
        BY <1>5, <4>1
    <3> QED
      BY <1>7, <1>10, <1>13, <3>1 DEF Whole
  <2> QED
    BY <1>13, <2>1, <2>2 DEF TornInv
<1> QED
  BY <1>2, <1>3, <1>7, <1>10, <1>11, <1>12, <1>13 DEF TornInv

LEMMA NextTears == IInv /\ TornInv /\ [Next]_vars => TornInv'
<1> SUFFICES ASSUME IInv, TornInv, [Next]_vars PROVE TornInv'
  OBVIOUS
<1>0. TypeOK /\ run \in [Admins -> Run]
  BY DEF IInv, TypeOK
<1>1. ASSUME NEW p \in Admins, Operate(p) PROVE TornInv'
  <2>1. PICK r : Begin(p, r) /\ Begun(r)
    BY <1>1, OperateBegins
  <2>2. /\ run' = [run EXCEPT ![p] = r] /\ run[p].writes = {} /\ r.handle = "none"
        /\ UNCHANGED <<tmp, torn, cut>>
    BY <2>1 DEF Begin, Begun, Idle, files
  <2>3. run[p].handle = "none" /\ Single(r.writes)
    BY <2>1, <2>2 DEF TornInv, Handles, Begun, Single
  <2> QED
    BY <1>0, <2>2, <2>3, ApartKeeps
<1>2. ASSUME NEW p \in Admins, Step(p) \/ Die(p) PROVE TornInv'
  <2>1. CASE Open(p) \/ Write(p) \/ Replace(p)
    BY <1>0, <2>1, OpenTears, WriteTears, ReplaceTears
  <2>2. CASE Raise(p) \/ Die(p)
    <3>1. run' = [run EXCEPT ![p] = NoRun] /\ cut' = TRUE /\ UNCHANGED <<tmp, torn>>
      BY <2>2 DEF Raise, Die, Stop, files
    <3>2. NoRun.handle = "none" /\ NoRun.writes = {}
      BY DEF NoRun
    <3>3. \A q \in Admins : IF q = p THEN run'[q] = NoRun ELSE run'[q] = run[q]
      BY <1>0, <3>1
    <3>4. Handles'
      BY <3>1, <3>2, <3>3 DEF TornInv, Handles, Writing, Single
    <3> QED
      BY <3>1, <3>4 DEF TornInv
  <2>3. CASE FollowRename(p) \/ StripGroups(p) \/ ReadPeers(p) \/ WritePeers(p) \/ Reload(p)
    <3>1. /\ run[p].writes = {} /\ UNCHANGED <<tmp, torn, cut>>
      BY <2>3 DEF FollowRename, StripGroups, ReadPeers, WritePeers, Reload, Turn, files, history
    <3>2. run[p].handle = "none" /\ run[p] \in Run
      BY <1>0, <3>1 DEF TornInv, Handles
    <3>3. NoRun.handle = "none"
      BY DEF NoRun
    <3>4. run'[p].handle = "none" /\ \A q \in Admins : q # p => run'[q] = run[q]
      <4>1. CASE FollowRename(p)
        <5>1. \E w, to : Done(p, "rename", w, to)
          BY <4>1 DEF FollowRename
        <5> QED
          BY <1>0, <3>2, <5>1 DEF Done, Run
      <4>2. CASE StripGroups(p)
        <5>1. \E w, to : Done(p, "strip", w, to)
          BY <4>2 DEF StripGroups
        <5> QED
          BY <1>0, <3>2, <5>1 DEF Done, Run
      <4>3. CASE ReadPeers(p) \/ WritePeers(p) \/ Reload(p)
        BY <1>0, <3>2, <3>3, <4>3 DEF ReadPeers, WritePeers, Reload, Done, Run
      <4> QED
        BY <2>3, <4>1, <4>2, <4>3
    <3>5. Single(run'[p].writes)
      <4>1. run'[p].writes \in {{}, {"groups"}, Registry}
        <5>1. CASE FollowRename(p)
          <6>1. \E to : \E w \in {{}, Registry} : Done(p, "rename", w, to)
            BY <5>1 DEF FollowRename
          <6> QED
            BY <1>0, <3>2, <6>1 DEF Done, Run
        <5>2. CASE StripGroups(p)
          <6>1. \E to : \E w \in {{}, {"groups"}} : Done(p, "strip", w, to)
            BY <5>2 DEF StripGroups
          <6> QED
            BY <1>0, <3>2, <6>1 DEF Done, Run
        <5>3. CASE ReadPeers(p) \/ WritePeers(p) \/ Reload(p)
          BY <1>0, <3>1, <3>2, <5>3 DEF ReadPeers, WritePeers, Reload, Done, Run, NoRun
        <5> QED
          BY <2>3, <5>1, <5>2, <5>3
      <4> QED
        BY <4>1 DEF Single
    <3> QED
      BY <1>0, <3>1, <3>2, <3>4, <3>5, ApartKeeps
  <2> QED
    BY <1>2, <2>1, <2>2, <2>3 DEF Step
<1>3. CASE DaemonReads \/ DaemonServes \/ DaemonFails \/ (\E d \in Devices : Expire(d))
           \/ UNCHANGED vars
  <2>1. UNCHANGED <<tmp, torn, run, cut>>
    BY <1>3 DEF DaemonReads, DaemonServes, DaemonFails, Expire, vars, files, history
  <2> QED
    BY <1>0, <2>1, ApartKeeps
<1> QED
  BY <1>1, <1>2, <1>3 DEF Next

LEMMA InitWhole == Init => TornInv
<1> SUFFICES ASSUME Init PROVE TornInv
  OBVIOUS
<1>1. \A p \in Admins : run[p].handle = "none" /\ run[p].writes = {}
  BY DEF Init, NoRun
<1>2. \A f \in Files : tmp[f] = Nil /\ torn[f] = Nil /\ Opened(f) = {}
  BY <1>1 DEF Init, Opened
<1> QED
  BY <1>1, <1>2 DEF TornInv, Handles, Whole, Single, Registry

\* However many operations share a temporary file: a registry is torn, or put in place
\* by another than who wrote it, only while more of them have opened the temporary
\* file than can put it in place, so that one of them will fail (core.py:
\* _atomic_write opens, writes and renames one name without a lock).
THEOREM TornInvariance == Spec => []TornInv
<1>1. IInv /\ TornInv /\ [Next]_vars => (IInv /\ TornInv)'
  BY NextKeeps, NextTears
<1> QED
  BY <1>1, InitHolds, InitWhole, PTL DEF Spec

\* Operations may overlap at will: once all have ended well and the proxy has
\* started, every registry can be read and the proxy admits whom they allow.
THEOREM ProxyStaysTrue == Spec => []ProxyEnforces
<1>1. IInv /\ TornInv => ProxyEnforces
  <2> SUFFICES ASSUME IInv, TornInv, Quiet, ~cut PROVE ProxyEnforces
    BY DEF ProxyEnforces
  <2>1. \A p \in Admins : run[p].handle = "none"
    BY DEF TornInv, Handles, Quiet, Idle
  <2>2. \A f \in Files : Opened(f) = {}
    BY <2>1 DEF Opened
  <2>3. \A f \in Files : Readable(f)
    BY <2>2 DEF TornInv, Excess, Whole, Readable
  <2> QED
    BY <2>3 DEF IInv, ProxyInv, ProxyUpToDate, ProxyEnforces, Quiet
<1> QED
  BY <1>1, Invariance, TornInvariance, PTL

\* If they do not overlap, WireGuard's peers are the devices that are active.
THEOREM PeersStayTrue == Spec => []PeersEnforced
<1>1. IInv => PeersEnforced
  BY DEF IInv, PeersInv, Rendering, PeersEnforced, Quiet, Idle
<1> QED
  BY <1>1, Invariance, PTL

-----------------------------------------------------------------------------
(* What the files say.                                                      *)

\* The names of the devices that m gives r to, and no other names.
Says(names, devices, m, r) ==
  /\ \A d \in Devices : devices[d].name \in names <=> <<r, d>> \in m
  /\ \A n \in names : \E d \in Devices : devices[d].name = n

\* The files agree with each other, and with what was meant.
Consistent(m, devices, resources, groups) ==
  /\ \A d, e \in Devices : devices[d].name = devices[e].name => d = e
  /\ \A r \in Resources : /\ Says(resources[r].allow, devices, m.allow, r)
                          /\ Says(resources[r].deny, devices, m.deny, r)
  /\ \A r \in Resources : ~resources[r].here => resources[r].allow = {} /\ resources[r].deny = {}
  /\ \A g \in Groups : \A r \in groups[g].resources : resources[r].here

\* What FollowRename and StripGroups make of the files.
Followed(names, old, new) == IF old \subseteq names THEN (names \ old) \cup new ELSE names
Renamed(resources, old, new) ==
  [r \in Resources |-> [resources[r] EXCEPT !.allow = Followed(@, old, new),
                                            !.deny = Followed(@, old, new)]]
Stripped(groups, gone) == [g \in Groups |-> [groups[g] EXCEPT !.resources = @ \ gone]]

\* What the files will hold when an operation is done, of which r is left.
DevicesDone(r) == IF "devices" \in r.writes THEN r.to ELSE conf.devices
ResourcesDone(r) ==
  LET resources == IF "services" \in r.writes THEN r.to ELSE conf.resources
  IN IF "rename" \in r.tasks THEN Renamed(resources, r.old, r.new) ELSE resources
GroupsDone(r) ==
  LET groups == IF "groups" \in r.writes THEN r.to ELSE conf.groups
  IN IF "strip" \in r.tasks THEN Stripped(groups, r.gone) ELSE groups

Settles(r) == Consistent(meant, DevicesDone(r), ResourcesDone(r), GroupsDone(r))

\* How far the writes have come.
Phase(r) ==
  /\ r.writes \in {{}, {"devices"}, {"groups"}, {"services"}, Registry}
  /\ r.handle # "none" => r.writes # {} /\ \A f \in Files :
       f \in (IF r.writes = Registry THEN {"resources"} ELSE r.writes) =>
         \/ r.handle = "tmp" /\ tmp[f] = Empty
         \/ r.handle = "closed" /\ tmp[f] = r.to
  /\ r.writes = {"services"} => conf.resources = r.to
  /\ "services" \notin r.writes => conf.services = conf.resources

Settled == /\ conf.services = conf.resources
           /\ Consistent(meant, conf.devices, conf.resources, conf.groups)

\* While nothing has gone wrong the files are consistent, or will be when the one
\* operation that is at work is done.
FilesInv ==
  ~cut /\ ~overlapped =>
    /\ (\A p \in Admins : Idle(p)) => Settled
    /\ \A p \in Admins : ~Idle(p) => Phase(run[p]) /\ Settles(run[p])

-----------------------------------------------------------------------------
\* A device takes another name, and the overrides follow.
LEMMA SaysRenamed ==
  ASSUME NEW devices \in [Devices -> Device], NEW names, NEW m, NEW r,
         Says(names, devices, m, r),
         \A d, e \in Devices : devices[d].name = devices[e].name => d = e,
         NEW d \in Devices, NEW n \in Names, \A e \in Devices : devices[e].name # n
  PROVE  Says(Followed(names, {devices[d].name}, {n}), [devices EXCEPT ![d].name = n], m, r)
<1> DEFINE now == [devices EXCEPT ![d].name = n]
           followed == Followed(names, {devices[d].name}, {n})
<1>1. \A e \in Devices : now[e].name = IF e = d THEN n ELSE devices[e].name
  BY DEF Device
<1>2. n \notin names
  BY DEF Says
<1>3. \A x : x \in followed <=> \/ x \in names /\ x # devices[d].name
                                \/ devices[d].name \in names /\ x = n
  BY DEF Followed
<1> HIDE DEF now, followed
<1>4. \A e \in Devices : now[e].name \in followed <=> <<r, e>> \in m
  <2> TAKE e \in Devices
  <2>1. CASE e = d
    BY <1>1, <1>2, <1>3, <2>1 DEF Says
  <2>2. CASE e # d
    BY <1>1, <1>3, <2>2 DEF Says
  <2> QED
    BY <2>1, <2>2
<1>5. \A x \in followed : \E e \in Devices : now[e].name = x
  BY <1>1, <1>3 DEF Says
<1> QED
  BY <1>4, <1>5 DEF Says, now, followed

LEMMA RenameSettles ==
  ASSUME NEW devices \in [Devices -> Device], NEW resources \in [Resources -> Resource],
         NEW groups \in [Groups -> Group], NEW m, Consistent(m, devices, resources, groups),
         NEW d \in Devices, NEW n \in Names, \A e \in Devices : devices[e].name # n
  PROVE  Consistent(m, [devices EXCEPT ![d].name = n],
                    Renamed(resources, {devices[d].name}, {n}), groups)
<1> DEFINE now == [devices EXCEPT ![d].name = n]
           renamed == Renamed(resources, {devices[d].name}, {n})
<1>1. \A e \in Devices : now[e].name = IF e = d THEN n ELSE devices[e].name
  BY DEF Device
<1>2. \A r \in Resources : /\ renamed[r].allow = Followed(resources[r].allow, {devices[d].name}, {n})
                           /\ renamed[r].deny = Followed(resources[r].deny, {devices[d].name}, {n})
                           /\ renamed[r].here = resources[r].here
  BY DEF Renamed, Resource
<1>3. \A e, f \in Devices : now[e].name = now[f].name => e = f
  BY <1>1 DEF Consistent
<1>4. \A r \in Resources : /\ Says(renamed[r].allow, now, m.allow, r)
                           /\ Says(renamed[r].deny, now, m.deny, r)
  <2> TAKE r \in Resources
  <2>1. \A a, b \in Devices : devices[a].name = devices[b].name => a = b
    BY DEF Consistent
  <2>2. Says(resources[r].allow, devices, m.allow, r) /\ Says(resources[r].deny, devices, m.deny, r)
    BY DEF Consistent
  <2>3. /\ Says(Followed(resources[r].allow, {devices[d].name}, {n}), now, m.allow, r)
        /\ Says(Followed(resources[r].deny, {devices[d].name}, {n}), now, m.deny, r)
    BY <2>1, <2>2, SaysRenamed
  <2> HIDE DEF now, renamed
  <2> QED
    BY <1>2, <2>3
<1>5. \A r \in Resources : ~renamed[r].here => renamed[r].allow = {} /\ renamed[r].deny = {}
  BY <1>2 DEF Consistent, Followed
<1>6. \A g \in Groups : \A r \in groups[g].resources : renamed[r].here
  BY <1>2 DEF Consistent, Group
<1> HIDE DEF now, renamed
<1>7. Consistent(m, now, renamed, groups)
  BY <1>3, <1>4, <1>5, <1>6 DEF Consistent
<1> QED
  BY <1>7 DEF now, renamed

\* The records as a change of one resource leaves them.
LEMMA OverrideSettles ==
  ASSUME NEW devices \in [Devices -> Device], NEW resources \in [Resources -> Resource],
         NEW groups \in [Groups -> Group], NEW m \in Meant, Consistent(m, devices, resources, groups),
         NEW r \in Resources, resources[r].here, NEW d \in Devices,
         NEW allow, NEW deny, NEW x \in Resource,
         x = [resources[r] EXCEPT !.allow = (@ \ {devices[d].name}) \cup
                                              IF allow THEN {devices[d].name} ELSE {},
                                  !.deny = (@ \ {devices[d].name}) \cup
                                              IF deny THEN {devices[d].name} ELSE {}]
  PROVE  Consistent([allow |-> (m.allow \ {<<r, d>>}) \cup IF allow THEN {<<r, d>>} ELSE {},
                     deny |-> (m.deny \ {<<r, d>>}) \cup IF deny THEN {<<r, d>>} ELSE {}],
                    devices, [resources EXCEPT ![r] = x], groups)
<1> DEFINE put(S, y, b) == (S \ {y}) \cup IF b THEN {y} ELSE {}
           name == devices[d].name
           now == [resources EXCEPT ![r] = x]
           mnow == [allow |-> put(m.allow, <<r, d>>, allow), deny |-> put(m.deny, <<r, d>>, deny)]
<1>1. \A e, f \in Devices : devices[e].name = devices[f].name => e = f
  BY DEF Consistent
<1>2. ASSUME NEW names, NEW pairs, NEW s \in Resources, NEW b, Says(names, devices, pairs, s)
      PROVE  /\ s = r => Says(put(names, name, b), devices, put(pairs, <<r, d>>, b), s)
             /\ s # r => Says(names, devices, put(pairs, <<r, d>>, b), s)
  <2>1. \A e \in Devices : devices[e].name = name <=> e = d
    BY <1>1
  <2>2. \A y : y \in put(names, name, b) <=> (y \in names /\ y # name) \/ (b /\ y = name)
    OBVIOUS
  <2>3. \A e \in Devices : <<s, e>> \in put(pairs, <<r, d>>, b) <=>
           (<<s, e>> \in pairs /\ ~(s = r /\ e = d)) \/ (b /\ s = r /\ e = d)
    OBVIOUS
  <2> HIDE DEF put, name
  <2>4. CASE s = r
    <3>1. \A e \in Devices : devices[e].name \in put(names, name, b) <=>
                               <<s, e>> \in put(pairs, <<r, d>>, b)
      BY <1>2, <2>1, <2>2, <2>3, <2>4 DEF Says
    <3>2. \A y \in put(names, name, b) : \E e \in Devices : devices[e].name = y
      BY <1>2, <2>2 DEF Says, name
    <3> QED
      BY <2>4, <3>1, <3>2 DEF Says
  <2>5. CASE s # r
    BY <1>2, <2>3, <2>5 DEF Says
  <2> QED
    BY <2>4, <2>5
<1>3. /\ now[r].allow = put(resources[r].allow, name, allow)
      /\ now[r].deny = put(resources[r].deny, name, deny)
      /\ now[r].here
  BY DEF Resource
<1>4. \A s \in Resources : s # r => now[s] = resources[s]
  OBVIOUS
<1>5. mnow.allow = put(m.allow, <<r, d>>, allow) /\ mnow.deny = put(m.deny, <<r, d>>, deny)
  OBVIOUS
<1> HIDE DEF put, name, now, mnow
<1>6. ASSUME NEW s \in Resources
      PROVE  /\ Says(now[s].allow, devices, mnow.allow, s)
             /\ Says(now[s].deny, devices, mnow.deny, s)
  <2>1. Says(resources[s].allow, devices, m.allow, s) /\ Says(resources[s].deny, devices, m.deny, s)
    BY DEF Consistent
  <2> QED
    BY <1>2, <1>3, <1>4, <1>5, <2>1
<1>7. \A s \in Resources : ~now[s].here => now[s].allow = {} /\ now[s].deny = {}
  BY <1>3, <1>4 DEF Consistent
<1>8. \A g \in Groups : \A s \in groups[g].resources : now[s].here
  BY <1>3, <1>4 DEF Consistent, Group
<1>9. Consistent(mnow, devices, now, groups)
  BY <1>1, <1>6, <1>7, <1>8 DEF Consistent
<1> QED
  BY <1>9 DEF put, name, now, mnow

\* The same of a resource that is new, served or not, or taken away.
LEMMA RegisterSettles ==
  ASSUME NEW devices \in [Devices -> Device], NEW resources \in [Resources -> Resource],
         NEW groups \in [Groups -> Group], NEW m \in Meant, Consistent(m, devices, resources, groups),
         NEW r \in Resources, ~resources[r].here, NEW requested \in SUBSET Devices
  PROVE  Consistent([m EXCEPT !.allow = @ \cup {<<r, d>> : d \in requested}], devices,
                    [resources EXCEPT ![r] = [here |-> TRUE, on |-> TRUE, deny |-> {},
                                              allow |-> {devices[d].name : d \in requested}]],
                    groups)
<1> DEFINE names == {devices[d].name : d \in requested}
           x == [here |-> TRUE, on |-> TRUE, deny |-> {}, allow |-> names]
           now == [resources EXCEPT ![r] = x]
           more == m.allow \cup {<<r, d>> : d \in requested}
           mnow == [m EXCEPT !.allow = @ \cup {<<r, d>> : d \in requested}]
<1>1. \A e, f \in Devices : devices[e].name = devices[f].name => e = f
  BY DEF Consistent
<1>2. mnow.allow = more /\ mnow.deny = m.deny
  BY DEF Meant
<1>3. now[r].allow = names /\ now[r].deny = {} /\ now[r].here
  OBVIOUS
<1>4. \A s \in Resources : s # r => now[s] = resources[s]
  OBVIOUS
<1>5. \A d \in Devices : <<r, d>> \notin m.allow /\ <<r, d>> \notin m.deny
  BY DEF Consistent, Says
<1>6. \A s \in Resources, d \in Devices :
        <<s, d>> \in more <=> <<s, d>> \in m.allow \/ (s = r /\ d \in requested)
  OBVIOUS
<1>7. \A y : y \in names <=> \E d \in requested : y = devices[d].name
  OBVIOUS
<1> HIDE DEF names, now, more, mnow
<1>8. ASSUME NEW s \in Resources
      PROVE  /\ Says(now[s].allow, devices, mnow.allow, s)
             /\ Says(now[s].deny, devices, mnow.deny, s)
  <2>1. Says(resources[s].allow, devices, m.allow, s) /\ Says(resources[s].deny, devices, m.deny, s)
    BY DEF Consistent
  <2>2. CASE s = r
    <3>1. \A d \in Devices : devices[d].name \in names <=> <<r, d>> \in more
      BY <1>1, <1>5, <1>6, <1>7
    <3>2. Says(names, devices, more, r)
      BY <1>7, <3>1 DEF Says
    <3>3. Says({}, devices, m.deny, r)
      BY <1>5 DEF Says
    <3> QED
      BY <1>2, <1>3, <2>2, <3>2, <3>3
  <2>3. CASE s # r
    BY <1>2, <1>4, <1>6, <2>1, <2>3 DEF Says
  <2> QED
    BY <2>2, <2>3
<1>9. \A s \in Resources : ~now[s].here => now[s].allow = {} /\ now[s].deny = {}
  BY <1>3, <1>4 DEF Consistent
<1>10. \A g \in Groups : \A s \in groups[g].resources : now[s].here
  BY <1>3, <1>4 DEF Consistent, Group
<1>11. Consistent(mnow, devices, now, groups)
  BY <1>1, <1>8, <1>9, <1>10 DEF Consistent
<1> QED
  BY <1>11 DEF names, now, mnow

LEMMA UpdateSettles ==
  ASSUME NEW devices, NEW resources \in [Resources -> Resource],
         NEW groups \in [Groups -> Group], NEW m, Consistent(m, devices, resources, groups),
         NEW r \in Resources
  PROVE  Consistent(m, devices, [resources EXCEPT ![r].on = ~@], groups)
<1> DEFINE now == [resources EXCEPT ![r].on = ~@]
<1>1. \A s \in Resources : /\ now[s].here = resources[s].here
                           /\ now[s].allow = resources[s].allow
                           /\ now[s].deny = resources[s].deny
  BY DEF Resource
<1> HIDE DEF now
<1>2. Consistent(m, devices, now, groups)
  BY <1>1 DEF Consistent, Group
<1> QED
  BY <1>2 DEF now

LEMMA RemoveSettles ==
  ASSUME NEW devices, NEW resources \in [Resources -> Resource],
         NEW groups \in [Groups -> Group], NEW m \in Meant, Consistent(m, devices, resources, groups),
         NEW r \in Resources
  PROVE  Consistent([key \in DOMAIN m |-> {x \in m[key] : x[1] # r}], devices,
                    [resources EXCEPT ![r] = NoResource], Stripped(groups, {r}))
<1> DEFINE now == [resources EXCEPT ![r] = NoResource]
           less == [key \in DOMAIN m |-> {x \in m[key] : x[1] # r}]
           stripped == Stripped(groups, {r})
<1>1. less.allow = {x \in m.allow : x[1] # r} /\ less.deny = {x \in m.deny : x[1] # r}
  BY DEF Meant
<1>2. \A s \in Resources, d \in Devices :
        /\ <<s, d>> \in less.allow <=> <<s, d>> \in m.allow /\ s # r
        /\ <<s, d>> \in less.deny <=> <<s, d>> \in m.deny /\ s # r
  BY <1>1
<1>3. now[r].allow = {} /\ now[r].deny = {} /\ ~now[r].here
  BY DEF NoResource
<1>4. \A s \in Resources : s # r => now[s] = resources[s]
  OBVIOUS
<1>5. \A g \in Groups : stripped[g].resources = groups[g].resources \ {r}
  BY DEF Stripped, Group
<1> HIDE DEF now, less, stripped
<1>6. ASSUME NEW s \in Resources
      PROVE  /\ Says(now[s].allow, devices, less.allow, s)
             /\ Says(now[s].deny, devices, less.deny, s)
  BY <1>2, <1>3, <1>4 DEF Consistent, Says
<1>7. \A s \in Resources : ~now[s].here => now[s].allow = {} /\ now[s].deny = {}
  BY <1>3, <1>4 DEF Consistent
<1>8. \A g \in Groups : \A s \in stripped[g].resources : now[s].here
  BY <1>4, <1>5 DEF Consistent, Group
<1>9. Consistent(less, devices, now, stripped)
  BY <1>6, <1>7, <1>8 DEF Consistent
<1> QED
  BY <1>9 DEF now, less, stripped

LEMMA GroupSettles ==
  ASSUME NEW devices, NEW resources, NEW groups \in [Groups -> Group], NEW m,
         Consistent(m, devices, resources, groups), NEW g \in Groups, NEW x,
         \A r \in x.resources : resources[r].here
  PROVE  Consistent(m, devices, resources, [groups EXCEPT ![g] = x])
BY DEF Consistent

LEMMA EnableSettles ==
  ASSUME NEW devices \in [Devices -> Device], NEW resources, NEW groups, NEW m,
         Consistent(m, devices, resources, groups), NEW d \in Devices, NEW b
  PROVE  Consistent(m, [devices EXCEPT ![d].enabled = b], resources, groups)
<1> DEFINE now == [devices EXCEPT ![d].enabled = b]
<1>1. \A e \in Devices : now[e].name = devices[e].name
  BY DEF Device
<1> HIDE DEF now
<1>2. Consistent(m, now, resources, groups)
  BY <1>1 DEF Consistent, Says
<1> QED
  BY <1>2 DEF now

\* What the files hold when an operation begins that begins alone.
LEMMA BeginsSettled ==
  ASSUME IInv, FilesInv, NEW p \in Admins, NEW r, Begin(p, r), ~cut', ~overlapped'
  PROVE  Settled /\ ListResources = conf.resources
<1>1. ~cut /\ ~overlapped /\ \A q \in Admins : Idle(q)
  BY DEF Begin
<1>2. Settled
  BY <1>1 DEF FilesInv
<1> QED
  BY <1>2 DEF Settled, ListResources

\* It settles if what it will have written is consistent.
LEMMA BeginSettles ==
  ASSUME IInv, FilesInv, NEW p \in Admins, NEW r, Begin(p, r), ~cut', ~overlapped',
         Begun(r), r.handle = "none", r.writes \in {{}, {"devices"}, {"groups"}, Registry},
         Consistent(meant', DevicesDone(r), ResourcesDone(r), GroupsDone(r))
  PROVE  FilesInv'
<1>1. Settled
  BY BeginsSettled
<1>2. /\ run' = [run EXCEPT ![p] = r] /\ run \in [Admins -> Run]
      /\ conf' = conf /\ \A q \in Admins : Idle(q)
  BY DEF Begin, files, IInv, TypeOK
<1>3. run'[p] = r /\ \A q \in Admins : q # p => run'[q] = run[q]
  BY <1>2
<1>4. ~Idle(p)' /\ \A q \in Admins : q # p => Idle(q)'
  BY <1>2, <1>3 DEF Idle, Begun
<1>5. Phase(run[p])'
  BY <1>1, <1>2, <1>3 DEF Phase, Settled, Registry
<1>6. Settles(run[p])'
  BY <1>2, <1>3 DEF Settles, DevicesDone, ResourcesDone, GroupsDone
<1> QED
  BY <1>4, <1>5, <1>6 DEF FilesInv

LEMMA SaveSettles ==
  ASSUME IInv, FilesInv, NEW p \in Admins, NEW writes, NEW to, NEW tasks,
         Save(p, writes, to, tasks), ~cut', ~overlapped',
         writes \in {{"devices"}, {"groups"}, Registry},
         tasks \in {{"reload"}, {"render", "reload"}}, writes = {"devices"} => "render" \in tasks,
         Consistent(meant', IF writes = {"devices"} THEN to ELSE conf.devices,
                    IF writes = Registry THEN to ELSE conf.resources,
                    IF writes = {"groups"} THEN to ELSE conf.groups)
  PROVE  FilesInv'
<1> DEFINE r == [NoRun EXCEPT !.writes = writes, !.to = to, !.tasks = tasks]
<1>1. Begin(p, r)
  BY DEF Save
<1>2. r.writes = writes /\ r.to = to /\ r.tasks = tasks /\ r.handle = "none"
  BY DEF NoRun
<1> HIDE DEF r
<1>3. Begun(r)
  BY <1>2 DEF Begun, Registry
<1>4. /\ DevicesDone(r) = IF writes = {"devices"} THEN to ELSE conf.devices
      /\ ResourcesDone(r) = IF writes = Registry THEN to ELSE conf.resources
      /\ GroupsDone(r) = IF writes = {"groups"} THEN to ELSE conf.groups
  BY <1>2 DEF DevicesDone, ResourcesDone, GroupsDone, Registry
<1> QED
  BY <1>1, <1>2, <1>3, <1>4, BeginSettles

LEMMA OperateSettles ==
  ASSUME IInv, FilesInv, NEW p \in Admins, Operate(p)
  PROVE  FilesInv'
<1> SUFFICES ASSUME ~cut', ~overlapped' PROVE FilesInv'
  BY DEF FilesInv
<1>1. PICK q : Begin(p, q)
  BY OperateBegins
<1>2. /\ Settled /\ ListResources = conf.resources
  BY <1>1, BeginsSettled
<1>3. /\ conf.devices \in [Devices -> Device] /\ conf.groups \in [Groups -> Group]
      /\ conf.resources \in [Resources -> Resource] /\ meant \in Meant
      /\ Consistent(meant, conf.devices, conf.resources, conf.groups)
  BY <1>2, FilesTyped DEF IInv, TypeOK, Meant, Settled
<1>a. \A a, b \in {"devices", "groups"} : {a} # Registry /\ ({a} = {b} => a = b)
  BY DEF Registry
<1>4. CASE SetEnabled(p)
  <2>1. PICK d \in Devices, b \in BOOLEAN :
          Save(p, {"devices"}, [conf.devices EXCEPT ![d].enabled = b], {"render", "reload"})
    BY <1>4 DEF SetEnabled
  <2>2. Consistent(meant', [conf.devices EXCEPT ![d].enabled = b], conf.resources, conf.groups)
    BY <1>3, <1>4, EnableSettles DEF SetEnabled
  <2> QED
    BY <1>a, <2>1, <2>2, SaveSettles
<1>5. CASE Rename(p)
  <2> DEFINE r(d, n) == [NoRun EXCEPT
         !.writes = {"devices"},
         !.to = [conf.devices EXCEPT ![d].name = n],
         !.tasks = {"rename", "render", "reload"},
         !.old = {conf.devices[d].name}, !.new = {n}]
  <2>1. PICK d \in Devices, n \in Names :
          (\A e \in Devices : conf.devices[e].name # n) /\ Begin(p, r(d, n)) /\ UNCHANGED meant
    BY <1>5 DEF Rename
  <2>2. Begun(r(d, n)) /\ r(d, n).handle = "none" /\ r(d, n).writes = {"devices"}
    BY DEF Begun, NoRun
  <2>3. /\ DevicesDone(r(d, n)) = [conf.devices EXCEPT ![d].name = n]
        /\ ResourcesDone(r(d, n)) = Renamed(conf.resources, {conf.devices[d].name}, {n})
        /\ GroupsDone(r(d, n)) = conf.groups
    BY DEF DevicesDone, ResourcesDone, GroupsDone, NoRun
  <2>4. Consistent(meant', [conf.devices EXCEPT ![d].name = n],
                   Renamed(conf.resources, {conf.devices[d].name}, {n}), conf.groups)
    BY <1>3, <2>1, RenameSettles
  <2> HIDE DEF r
  <2> QED
    BY <2>1, <2>2, <2>3, <2>4, BeginSettles
<1>6. CASE SetOverride(p)
  <2> DEFINE put(decision, key, S, x) == (S \ {x}) \cup IF decision = key THEN {x} ELSE {}
             to(decision, r, name) ==
               [ListResources EXCEPT ![r].allow = put(decision, "allow", @, name),
                                     ![r].deny  = put(decision, "deny", @, name)]
  <2>1. PICK r \in Resources, d \in Devices, decision \in {"allow", "deny", "inherit"} :
          /\ ListResources[r].here
          /\ Save(p, Registry, to(decision, r, conf.devices[d].name), {"reload"})
          /\ meant' = [allow |-> put(decision, "allow", meant.allow, <<r, d>>),
                       deny  |-> put(decision, "deny", meant.deny, <<r, d>>)]
    BY <1>6, ZenonT(60) DEF SetOverride
  <2> DEFINE name == conf.devices[d].name
             x == [conf.resources[r] EXCEPT
                     !.allow = (@ \ {name}) \cup IF decision = "allow" THEN {name} ELSE {},
                     !.deny = (@ \ {name}) \cup IF decision = "deny" THEN {name} ELSE {}]
  <2>2. name \in Names /\ conf.resources[r] \in Resource
    BY <1>3 DEF Device
  <2>3. x \in Resource
    BY <2>2 DEF Resource
  <2>4. to(decision, r, name) = [conf.resources EXCEPT ![r] = x]
    BY <1>2, <1>3, <2>2 DEF Resource
  <2>5. Consistent(meant', conf.devices, [conf.resources EXCEPT ![r] = x], conf.groups)
    BY <1>2, <1>3, <2>1, <2>3, OverrideSettles
  <2> HIDE DEF to, x
  <2> QED
    BY <1>a, <2>1, <2>4, <2>5, SaveSettles
<1>7. CASE Register(p)
  <2> DEFINE to(r, requested) == [conf.resources EXCEPT ![r] =
                [here |-> TRUE, on |-> TRUE, deny |-> {},
                 allow |-> {conf.devices[d].name : d \in requested}]]
  <2>1. PICK r \in Resources, requested \in SUBSET {d \in Devices : conf.devices[d].enabled} :
          /\ ~conf.resources[r].here
          /\ Save(p, Registry, to(r, requested), {"reload"})
          /\ meant' = [meant EXCEPT !.allow = @ \cup {<<r, d>> : d \in requested}]
    BY <1>2, <1>7 DEF Register
  <2>2. Consistent(meant', conf.devices, to(r, requested), conf.groups)
    BY <1>3, <2>1, RegisterSettles
  <2> HIDE DEF to
  <2> QED
    BY <1>a, <2>1, <2>2, SaveSettles
<1>8. CASE UpdateResource(p)
  <2>1. PICK r \in Resources :
          Save(p, Registry, [conf.resources EXCEPT ![r].on = ~@], {"reload"}) /\ UNCHANGED meant
    BY <1>2, <1>8 DEF UpdateResource
  <2>2. Consistent(meant', conf.devices, [conf.resources EXCEPT ![r].on = ~@], conf.groups)
    BY <1>3, <2>1, UpdateSettles
  <2> QED
    BY <1>a, <2>1, <2>2, SaveSettles
<1>9. CASE Remove(p)
  <2> DEFINE to(r) == [conf.resources EXCEPT ![r] = NoResource]
             o(r) == [NoRun EXCEPT !.writes = Registry, !.to = to(r),
                                   !.tasks = {"strip", "reload"}, !.gone = {r}]
  <2>1. PICK r \in Resources :
          /\ Begin(p, o(r))
          /\ meant' = [key \in DOMAIN meant |-> {x \in meant[key] : x[1] # r}]
    BY <1>2, <1>9 DEF Remove
  <2>2. Begun(o(r)) /\ o(r).handle = "none" /\ o(r).writes = Registry
    BY DEF Begun, NoRun, Registry
  <2>3. /\ DevicesDone(o(r)) = conf.devices
        /\ ResourcesDone(o(r)) = to(r)
        /\ GroupsDone(o(r)) = Stripped(conf.groups, {r})
    BY DEF DevicesDone, ResourcesDone, GroupsDone, NoRun, Registry
  <2>4. Consistent(meant', conf.devices, to(r), Stripped(conf.groups, {r}))
    BY <1>3, <2>1, RemoveSettles
  <2> HIDE DEF o, to
  <2> QED
    BY <2>1, <2>2, <2>3, <2>4, BeginSettles
<1>10. CASE ChangeGroup(p)
  <2>1. \E g \in Groups : \E x :
          /\ Save(p, {"groups"}, [conf.groups EXCEPT ![g] = x], {"reload"}) /\ UNCHANGED meant
          /\ \A r \in x.resources : conf.resources[r].here
    <3> DEFINE save(g, group) ==
          Save(p, {"groups"}, [conf.groups EXCEPT ![g] = group], {"reload"})
    <3>1. PICK g \in Groups :
            \/ \E d \in Devices : \/ save(g, [conf.groups[g] EXCEPT !.devices = @ \cup {d}])
                                  \/ save(g, [conf.groups[g] EXCEPT !.devices = @ \ {d}])
            \/ \E r \in Resources :
                 /\ conf.resources[r].here
                 /\ \/ save(g, [conf.groups[g] EXCEPT !.resources = @ \cup {r}])
                    \/ save(g, [conf.groups[g] EXCEPT !.resources = @ \ {r}])
            \/ save(g, [conf.groups[g] EXCEPT !.on = ~@])
      BY <1>2, <1>10 DEF ChangeGroup
    <3>2. conf.groups[g] \in Group /\ \A r \in conf.groups[g].resources : conf.resources[r].here
      BY <1>3 DEF Consistent
    <3> DEFINE Fits(x) == \A r \in x.resources : conf.resources[r].here
    <3>3. /\ \A d \in Devices : /\ Fits([conf.groups[g] EXCEPT !.devices = @ \cup {d}])
                                /\ Fits([conf.groups[g] EXCEPT !.devices = @ \ {d}])
          /\ \A r \in Resources : conf.resources[r].here =>
               /\ Fits([conf.groups[g] EXCEPT !.resources = @ \cup {r}])
               /\ Fits([conf.groups[g] EXCEPT !.resources = @ \ {r}])
          /\ Fits([conf.groups[g] EXCEPT !.on = ~@])
      BY <3>2 DEF Group
    <3> HIDE DEF save, Fits
    <3>4. \E x : save(g, x) /\ Fits(x)
      BY <3>1, <3>3, Zenon
    <3> QED
      BY <1>10, <3>4 DEF save, Fits, ChangeGroup
  <2>2. PICK g \in Groups : \E x :
          /\ Save(p, {"groups"}, [conf.groups EXCEPT ![g] = x], {"reload"}) /\ UNCHANGED meant
          /\ \A r \in x.resources : conf.resources[r].here
    BY <2>1
  <2>3. PICK x :
          /\ Save(p, {"groups"}, [conf.groups EXCEPT ![g] = x], {"reload"}) /\ UNCHANGED meant
          /\ \A r \in x.resources : conf.resources[r].here
    BY <2>2
  <2>4. Consistent(meant', conf.devices, conf.resources, [conf.groups EXCEPT ![g] = x])
    BY <1>3, <2>3, GroupSettles
  <2> QED
    BY <1>a, <2>3, <2>4, SaveSettles
<1>11. CASE Sync(p)
  <2> DEFINE r == [NoRun EXCEPT !.tasks = {"render", "reload"}]
  <2>1. Begin(p, r) /\ UNCHANGED meant
    BY <1>11 DEF Sync
  <2>2. Begun(r) /\ r.handle = "none" /\ r.writes = {}
    BY DEF Begun, NoRun
  <2>3. DevicesDone(r) = conf.devices /\ ResourcesDone(r) = conf.resources /\ GroupsDone(r) = conf.groups
    BY DEF DevicesDone, ResourcesDone, GroupsDone, NoRun
  <2> HIDE DEF r
  <2> QED
    BY <1>3, <2>1, <2>2, <2>3, BeginSettles
<1> QED
  BY <1>4, <1>5, <1>6, <1>7, <1>8, <1>9, <1>10, <1>11 DEF Operate

\* A step in which p's operation goes on, and what the files will hold stays.
LEMMA StepOnSettles ==
  ASSUME IInv, FilesInv, NEW p \in Admins, ~Idle(p), NEW r, run'[p] = r, OthersGoOn(p),
         "reload" \in r.tasks, UNCHANGED <<meant, overlapped, cut>>,
         Phase(run[p]) /\ ~cut /\ ~overlapped => Phase(r)'
           /\ DevicesDone(r)' = DevicesDone(run[p])
           /\ ResourcesDone(r)' = ResourcesDone(run[p])
           /\ GroupsDone(r)' = GroupsDone(run[p])
  PROVE  FilesInv'
<1>1. run'[p] = r /\ \A q \in Admins : q # p => /\ run'[q].writes = run[q].writes
                                                 /\ run'[q].tasks = run[q].tasks
  BY DEF OthersGoOn
<1>2. ~Idle(p)'
  BY <1>1 DEF Idle
<1> SUFFICES ASSUME ~cut, ~overlapped
             PROVE  \A q \in Admins : ~Idle(q)' => Phase(run[q])' /\ Settles(run[q])'
  BY <1>2 DEF FilesInv
<1>3. \A q \in Admins : q # p => Idle(q)'
  BY <1>1 DEF IInv, Alone, Idle
<1>4. Phase(run[p]) /\ Settles(run[p])
  BY DEF FilesInv
<1>5. Phase(run[p])'
  BY <1>1, <1>4 DEF Phase
<1>6. Settles(run[p])'
  BY <1>1, <1>4 DEF Settles, DevicesDone, ResourcesDone, GroupsDone
<1> QED
  BY <1>3, <1>5, <1>6

LEMMA StepSettles ==
  ASSUME IInv, FilesInv, NEW p \in Admins, Step(p) \/ Die(p)
  PROVE  FilesInv'
<1>0. TypeOK /\ run \in [Admins -> Run] /\ run[p] \in Run
  BY DEF IInv, TypeOK
<1>a. ~Idle(p)
  BY <1>0, WritingIs
     DEF Step, Die, Open, Write, Replace, Raise, FollowRename, StripGroups, ReadPeers,
         WritePeers, Reload, Turn, Stop, Idle
<1>b. "reload" \in run[p].tasks
  BY <1>a DEF IInv, Ends
<1>1. CASE Open(p)
  <2>0. PICK r : r = [run[p] EXCEPT !.handle = "tmp"]
    OBVIOUS
  <2>1. /\ run' = [run EXCEPT ![p] = r] /\ r.handle = "tmp"
        /\ r.tasks = run[p].tasks /\ r.writes = run[p].writes /\ r.to = run[p].to
        /\ r.old = run[p].old /\ r.new = run[p].new /\ r.gone = run[p].gone
        /\ UNCHANGED <<conf, meant, overlapped, cut>>
    BY <1>0, <1>1, <2>0 DEF Open, Run, history
  <2>2. PICK f \in Writing(p) : tmp' = [tmp EXCEPT ![f] = Empty]
    BY <1>1 DEF Open
  <2>3. Phase(run[p]) => \A g \in Files : g \in Writing(p) => g = f
    BY <2>2 DEF Phase, Writing, Registry
  <2>4. Phase(run[p]) => Phase(r)'
    <3>1. run[p].writes # {} /\ f \in DOMAIN tmp
      BY <1>0, WritingIs DEF TypeOK
    <3> QED
      BY <2>1, <2>2, <2>3, <3>1 DEF Phase, Writing
  <2>5. /\ DevicesDone(r)' = DevicesDone(run[p])
        /\ ResourcesDone(r)' = ResourcesDone(run[p])
        /\ GroupsDone(r)' = GroupsDone(run[p])
    BY <2>1 DEF DevicesDone, ResourcesDone, GroupsDone
  <2> QED
    BY <1>0, <1>a, <1>b, <2>1, <2>4, <2>5, OneGoesOn, StepOnSettles
<1>w. CASE Write(p)
  <2>0. PICK r : r = [run[p] EXCEPT !.handle = "closed"]
    OBVIOUS
  <2>1. /\ run' = [run EXCEPT ![p] = r] /\ r.handle = "closed"
        /\ r.tasks = run[p].tasks /\ r.writes = run[p].writes /\ r.to = run[p].to
        /\ r.old = run[p].old /\ r.new = run[p].new /\ r.gone = run[p].gone
        /\ UNCHANGED <<meant, overlapped, cut>>
    BY <1>0, <1>w, <2>0 DEF Write, Run, history
  <2>2. PICK f \in Writing(p), x \in {run[p].to, Mixed} :
          /\ run[p].handle \in {"tmp", "live", "lost"}
          /\ run[p].handle = "tmp" /\ x = Mixed => tmp[f] # Empty
          /\ IF run[p].handle = "live" THEN Put(f, x) ELSE UNCHANGED <<conf, torn>>
          /\ tmp' = IF run[p].handle = "tmp" THEN [tmp EXCEPT ![f] = x] ELSE tmp
    BY <1>w DEF Write
  <2>3. run[p].writes # {} /\ f \in Files /\ f \in run[p].writes
    BY <1>0, WritingIs
  <2>4. ASSUME Phase(run[p])
        PROVE  /\ Phase(r)' /\ UNCHANGED conf
    <3>1. \A g \in Files : g \in Writing(p) => g = f
      BY <2>2, <2>4 DEF Phase, Writing, Registry
    <3>2. run[p].handle = "tmp" /\ tmp[f] = Empty
      BY <2>2, <2>3, <2>4 DEF Phase, Writing
    <3>3. UNCHANGED conf /\ tmp' = [tmp EXCEPT ![f] = run[p].to]
      BY <2>2, <3>2
    <3> QED
      BY <1>0, <2>1, <2>3, <2>4, <3>1, <3>3 DEF Phase, Writing, TypeOK
  <2>5. Phase(run[p]) => /\ DevicesDone(r)' = DevicesDone(run[p])
                         /\ ResourcesDone(r)' = ResourcesDone(run[p])
                         /\ GroupsDone(r)' = GroupsDone(run[p])
    BY <2>1, <2>4 DEF DevicesDone, ResourcesDone, GroupsDone
  <2> QED
    BY <1>0, <1>a, <1>b, <2>1, <2>4, <2>5, OneGoesOn, StepOnSettles
<1>2. CASE Replace(p)
  <2>1. PICK f \in Writing(p) : run[p].handle = "closed" /\ Exchange(p, f)
    BY <1>2 DEF Replace
  <2>0. PICK r : r = [run[p] EXCEPT !.handle = "none", !.writes = @ \ {f}]
    OBVIOUS
  <2>2. /\ run'[p] = r /\ OthersGoOn(p) /\ r.handle = "none"
        /\ r.tasks = run[p].tasks /\ r.writes = run[p].writes \ {f} /\ r.to = run[p].to
        /\ r.old = run[p].old /\ r.new = run[p].new /\ r.gone = run[p].gone
        /\ UNCHANGED <<meant, overlapped, cut>>
    BY <1>0, <1>2, <2>0, <2>1, ExchangeMoves, ExchangeGoesOn DEF Replace, Run, history
  <2>3. f \in Files /\ f \in run[p].writes
    BY <1>0, WritingIs
  <2>4. ASSUME Phase(run[p])
        PROVE  /\ Phase(r)'
               /\ DevicesDone(r)' = DevicesDone(run[p])
               /\ ResourcesDone(r)' = ResourcesDone(run[p])
               /\ GroupsDone(r)' = GroupsDone(run[p])
    <3>1. tmp[f] = run[p].to
      BY <2>1, <2>3, <2>4 DEF Phase, Writing
    <3>a. run[p].to \notin {Nil, Empty, Mixed}
      BY <1>0, <2>3, NoMark DEF TypeOK
    <3>2. conf'[f] = run[p].to /\ \A g \in Files : g # f => conf'[g] = conf[g]
      BY <1>0, <2>1, <2>3, <3>1, <3>a DEF TypeOK, Exchange, Put
    <3>3. CASE f = "devices"
      <4>1. run[p].writes = {"devices"}
        BY <2>3, <2>4, <3>3 DEF Phase, Registry
      <4>2. r.writes = {} /\ conf'.devices = run[p].to /\ conf'.resources = conf.resources
            /\ conf'.services = conf.services /\ conf'.groups = conf.groups
        BY <2>2, <3>2, <3>3, <4>1, ContentsAre
      <4> QED
        BY <2>2, <2>4, <4>1, <4>2 DEF Phase, DevicesDone, ResourcesDone, GroupsDone
    <3>4. CASE f = "groups"
      <4>1. run[p].writes = {"groups"}
        BY <2>3, <2>4, <3>4 DEF Phase, Registry
      <4>2. r.writes = {} /\ conf'.devices = conf.devices /\ conf'.resources = conf.resources
            /\ conf'.services = conf.services /\ conf'.groups = run[p].to
        BY <2>2, <3>2, <3>4, <4>1, ContentsAre
      <4> QED
        BY <2>2, <2>4, <4>1, <4>2 DEF Phase, DevicesDone, ResourcesDone, GroupsDone
    <3>5. CASE f = "resources"
      <4>1. run[p].writes = Registry
        BY <2>3, <2>4, <3>5 DEF Phase, Registry
      <4>2. r.writes = {"services"} /\ conf'.devices = conf.devices /\ conf'.resources = run[p].to
            /\ conf'.groups = conf.groups
        BY <2>2, <3>2, <3>5, <4>1, ContentsAre DEF Registry
      <4> QED
        BY <2>2, <2>4, <4>1, <4>2 DEF Phase, DevicesDone, ResourcesDone, GroupsDone, Registry
    <3>6. CASE f = "services"
      <4>1. run[p].writes = {"services"}
        BY <2>1, <2>3, <2>4, <3>6 DEF Phase, Registry, Writing
      <4>2. r.writes = {} /\ conf'.devices = conf.devices /\ conf'.resources = conf.resources
            /\ conf'.services = run[p].to /\ conf'.groups = conf.groups
        BY <2>2, <3>2, <3>6, <4>1, ContentsAre
      <4>3. conf.resources = run[p].to
        BY <2>4, <4>1 DEF Phase
      <4> QED
        BY <2>2, <2>4, <4>1, <4>2, <4>3 DEF Phase, DevicesDone, ResourcesDone, GroupsDone
    <3> QED
      BY <2>3, <3>3, <3>4, <3>5, <3>6, ContentsAre
  <2> QED
    BY <1>a, <1>b, <2>2, <2>4, StepOnSettles
<1>3. CASE Raise(p) \/ Die(p)
  BY <1>3 DEF Raise, Die, Stop, FilesInv
<1>4. CASE FollowRename(p)
  <2> DEFINE renamed == Renamed(ListResources, run[p].old, run[p].new)
             w == IF renamed = ListResources THEN {} ELSE Registry
  <2>0. PICK r : r = [run[p] EXCEPT !.tasks = @ \ {"rename"}, !.writes = w, !.to = renamed]
    OBVIOUS
  <2>1. /\ run' = [run EXCEPT ![p] = r]
        /\ run[p].writes = {} /\ "rename" \in run[p].tasks
        /\ UNCHANGED <<conf, tmp, meant, overlapped, cut>>
    BY <1>0, <1>4, <2>0 DEF FollowRename, Done, Turn, Renamed, Followed, files, history
  <2>2. /\ r.tasks = run[p].tasks \ {"rename"} /\ r.writes = w /\ r.to = renamed
        /\ r.old = run[p].old /\ r.new = run[p].new /\ r.gone = run[p].gone
        /\ r.handle = run[p].handle
    BY <1>0, <2>0 DEF Run
  <2>3. ASSUME Phase(run[p])
        PROVE  /\ Phase(r)'
               /\ DevicesDone(r)' = DevicesDone(run[p])
               /\ ResourcesDone(r)' = ResourcesDone(run[p])
               /\ GroupsDone(r)' = GroupsDone(run[p])
    <3>1. conf.services = conf.resources
      BY <2>1, <2>3 DEF Phase
    <3>2. renamed = Renamed(conf.resources, run[p].old, run[p].new)
      BY <3>1 DEF ListResources
    <3>3. ListResources = conf.resources
      BY <3>1 DEF ListResources
    <3>4. ResourcesDone(run[p]) = renamed
      BY <2>1, <3>2 DEF ResourcesDone
    <3>5. ResourcesDone(r)' = renamed
      BY <2>1, <2>2, <3>2, <3>3 DEF ResourcesDone, Registry
    <3>6. DevicesDone(r)' = DevicesDone(run[p]) /\ GroupsDone(r)' = GroupsDone(run[p])
      BY <2>1, <2>2 DEF DevicesDone, GroupsDone, Registry
    <3>7. Phase(r)'
      BY <2>1, <2>2, <2>3, <3>1 DEF Phase, Registry
    <3> QED
      BY <3>4, <3>5, <3>6, <3>7
  <2> QED
    BY <1>0, <1>a, <1>b, <2>1, <2>2, <2>3, OneGoesOn, StepOnSettles
<1>5. CASE StripGroups(p)
  <2> DEFINE stripped == Stripped(conf.groups, run[p].gone)
             w == IF stripped = conf.groups THEN {} ELSE {"groups"}
  <2>0. PICK r : r = [run[p] EXCEPT !.tasks = @ \ {"strip"}, !.writes = w, !.to = stripped]
    OBVIOUS
  <2>1. /\ run' = [run EXCEPT ![p] = r]
        /\ run[p].writes = {} /\ "strip" \in run[p].tasks
        /\ UNCHANGED <<conf, tmp, meant, overlapped, cut>>
    BY <1>0, <1>5, <2>0 DEF StripGroups, Done, Turn, Stripped, files, history
  <2>2. /\ r.tasks = run[p].tasks \ {"strip"} /\ r.writes = w /\ r.to = stripped
        /\ r.old = run[p].old /\ r.new = run[p].new /\ r.gone = run[p].gone
        /\ r.handle = run[p].handle
    BY <1>0, <2>0 DEF Run
  <2>3. ASSUME Phase(run[p])
        PROVE  /\ Phase(r)'
               /\ DevicesDone(r)' = DevicesDone(run[p])
               /\ ResourcesDone(r)' = ResourcesDone(run[p])
               /\ GroupsDone(r)' = GroupsDone(run[p])
    <3>1. GroupsDone(run[p]) = stripped
      BY <2>1 DEF GroupsDone
    <3>2. GroupsDone(r)' = stripped
      BY <2>1, <2>2 DEF GroupsDone
    <3>3. DevicesDone(r)' = DevicesDone(run[p]) /\ ResourcesDone(r)' = ResourcesDone(run[p])
      BY <2>1, <2>2 DEF DevicesDone, ResourcesDone
    <3>4. Phase(r)'
      BY <2>1, <2>2, <2>3 DEF Phase, Registry
    <3> QED
      BY <3>1, <3>2, <3>3, <3>4
  <2> QED
    BY <1>0, <1>a, <1>b, <2>1, <2>2, <2>3, OneGoesOn, StepOnSettles
<1>6. CASE ReadPeers(p) \/ WritePeers(p)
  <2>1. PICK r : /\ run' = [run EXCEPT ![p] = r]
                 /\ r.tasks \ {"render", "rewire"} = run[p].tasks \ {"render", "rewire"}
                 /\ r.writes = {} /\ r.handle = run[p].handle
                 /\ r.old = run[p].old /\ r.new = run[p].new /\ r.gone = run[p].gone
    <3>1. CASE ReadPeers(p)
      <4> DEFINE r == [run[p] EXCEPT !.read = Active(conf.devices),
                                     !.tasks = (@ \ {"render"}) \cup {"rewire"}]
      <4>1. run' = [run EXCEPT ![p] = r] /\ run[p].writes = {} /\ "render" \in run[p].tasks
        BY <1>0, <3>1 DEF ReadPeers, Turn
      <4>2. /\ r.tasks \ {"render", "rewire"} = run[p].tasks \ {"render", "rewire"}
            /\ r.writes = {} /\ r.handle = run[p].handle
            /\ r.old = run[p].old /\ r.new = run[p].new /\ r.gone = run[p].gone
        BY <1>0, <4>1 DEF Run
      <4> HIDE DEF r
      <4> QED
        BY <4>1, <4>2
    <3>2. CASE WritePeers(p)
      <4> DEFINE r == [run[p] EXCEPT !.tasks = @ \ {"rewire"}, !.writes = {}, !.to = Nil]
      <4>1. run' = [run EXCEPT ![p] = r]
        BY <1>0, <3>2 DEF WritePeers, Done
      <4>2. /\ r.tasks \ {"render", "rewire"} = run[p].tasks \ {"render", "rewire"}
            /\ r.writes = {} /\ r.handle = run[p].handle
            /\ r.old = run[p].old /\ r.new = run[p].new /\ r.gone = run[p].gone
        BY <1>0 DEF Run
      <4> HIDE DEF r
      <4> QED
        BY <4>1, <4>2
    <3> QED
      BY <1>6, <3>1, <3>2
  <2>2. run[p].writes = {} /\ UNCHANGED <<conf, tmp, meant, overlapped, cut>>
    BY <1>6 DEF ReadPeers, WritePeers, Turn, files, history
  <2>3. \A task \in {"reload", "rename", "strip"} : task \in r.tasks <=> task \in run[p].tasks
    BY <2>1
  <2>4. /\ DevicesDone(r)' = DevicesDone(run[p])
        /\ ResourcesDone(r)' = ResourcesDone(run[p])
        /\ GroupsDone(r)' = GroupsDone(run[p])
    BY <2>1, <2>2, <2>3 DEF DevicesDone, ResourcesDone, GroupsDone
  <2>5. Phase(run[p]) => Phase(r)'
    BY <2>1, <2>2 DEF Phase, Registry
  <2> QED
    BY <1>0, <1>a, <1>b, <2>1, <2>2, <2>3, <2>4, <2>5, OneGoesOn, StepOnSettles
<1>7. CASE Reload(p)
  <2>1. /\ run' = [run EXCEPT ![p] = NoRun]
        /\ run[p].writes = {} /\ "rename" \notin run[p].tasks /\ "strip" \notin run[p].tasks
        /\ UNCHANGED <<conf, meant, overlapped, cut>>
    BY <1>7 DEF Reload, Turn, files, history
  <2>2. \A q \in Admins : IF q = p THEN run'[q] = NoRun ELSE run'[q] = run[q]
    BY <1>0, <2>1
  <2> SUFFICES ASSUME ~cut, ~overlapped PROVE Settled' /\ \A q \in Admins : Idle(q)'
    BY <2>1 DEF FilesInv
  <2>3. \A q \in Admins : Idle(q)'
    BY <1>a, <2>2, NoRunTyped DEF IInv, Alone, Idle
  <2>4. Phase(run[p]) /\ Settles(run[p])
    BY <1>a DEF FilesInv
  <2>5. Settled
    BY <2>1, <2>4 DEF Phase, Settles, Settled, DevicesDone, ResourcesDone, GroupsDone
  <2> QED
    BY <2>1, <2>3, <2>5 DEF Settled
<1> QED
  BY <1>1, <1>w, <1>2, <1>3, <1>4, <1>5, <1>6, <1>7 DEF Step

LEMMA NextSettles == IInv /\ FilesInv /\ [Next]_vars => FilesInv'
<1> SUFFICES ASSUME IInv, FilesInv, [Next]_vars PROVE FilesInv'
  OBVIOUS
<1>1. CASE \E p \in Admins : Operate(p) \/ Step(p) \/ Die(p)
  BY <1>1, OperateSettles, StepSettles
<1>2. CASE DaemonReads \/ DaemonServes \/ DaemonFails \/ (\E d \in Devices : Expire(d))
           \/ UNCHANGED vars
  <2>1. UNCHANGED <<conf, tmp, run, meant, overlapped, cut>>
    BY <1>2 DEF DaemonReads, DaemonServes, DaemonFails, Expire, vars, files, history
  <2> QED
    BY <2>1 DEF FilesInv, Settled, Idle, Phase, Settles, DevicesDone, ResourcesDone, GroupsDone
<1> QED
  BY <1>1, <1>2 DEF Next

LEMMA InitSettled == Init => FilesInv
<1> SUFFICES ASSUME Init PROVE FilesInv
  OBVIOUS
<1>1. \A p \in Admins : Idle(p)
  BY NoRunTyped DEF Init, Idle
<1>2. /\ conf.devices = FirstDevices
      /\ conf.resources = [r \in Resources |-> FirstResource]
      /\ conf.services = conf.resources
      /\ conf.groups = [g \in Groups |-> [on |-> TRUE, devices |-> {}, resources |-> {}]]
      /\ meant.allow = {} /\ meant.deny = {}
  BY DEF Init
<1>3. Consistent(meant, conf.devices, conf.resources, conf.groups)
  BY <1>2, ConstantsAssumption DEF Consistent, Says, FirstDevices, FirstResource
<1> QED
  BY <1>1, <1>2, <1>3 DEF FilesInv, Settled

\* The files will hold what is consistent when the one operation at work is done: it plans
\* that when it begins, and each of its writes and tasks only comes nearer to it.
THEOREM FilesInvariance == Spec => []FilesInv
<1>1. IInv /\ FilesInv /\ [Next]_vars => (IInv /\ FilesInv)'
  BY NextKeeps, NextSettles
<1> QED
  BY <1>1, InitHolds, InitSettled, PTL DEF Spec

\* The registry and its mirror agree and no group grants what is not registered, after
\* any number of operations that do not overlap and are not cut short (core.py:
\* save_resources writes two files, remove_resource two and then the groups).
THEOREM FilesStayInAgreement == Spec => []FilesAgree
<1>1. FilesInv => FilesAgree
  BY DEF FilesInv, Settled, Consistent, FilesAgree, Quiet, Known, ListResources
<1> QED
  BY <1>1, FilesInvariance, PTL

\* An override goes where it was meant: through any number of renames, also to names that
\* other devices have had, and through the removal and return of resources (core.py:
\* rename_device, set_device_access_override and remove_resource).
THEOREM OverridesStayMeant == Spec => []OverridesMeant
<1>1. FilesInv => OverridesMeant
  <2> SUFFICES ASSUME FilesInv, Quiet, ~cut, ~overlapped,
                      NEW r \in Resources, NEW d \in Devices
               PROVE  /\ conf.devices[d].name \in ListResources[r].allow <=> <<r, d>> \in meant.allow
                      /\ conf.devices[d].name \in ListResources[r].deny <=> <<r, d>> \in meant.deny
    BY DEF OverridesMeant
  <2>1. Settled
    BY DEF FilesInv, Quiet
  <2>2. ListResources = conf.resources
    BY <2>1 DEF Settled, ListResources
  <2> QED
    BY <2>1, <2>2 DEF Settled, Consistent, Says
<1> QED
  BY <1>1, FilesInvariance, PTL
===============================================================================
