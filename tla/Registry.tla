------------------------------- MODULE Registry -------------------------------
(***************************************************************************)
(* The registries of devices, resources and groups (core.py) and what acts *)
(* on them: the proxy daemon, which reads them once when it starts, and    *)
(* WireGuard, whose peers are written from them (cli.py, dashboard.py).    *)
(* Administrators - commands and the dashboard's threads - read a file,    *)
(* change it and write it back without a lock, one file after another, and *)
(* may die or fail in between.                                             *)
(***************************************************************************)
EXTENDS Naturals

CONSTANTS
  Admins,      \* processes and threads that change the registries
  Devices,     \* device_id, with the device's VPN address
  Names,       \* names of devices
  FirstName,   \* the name each device begins with
  Resources,   \* names of resources
  Groups,
  Nil,         \* no temporary file
  Empty,       \* what a file holds that was opened and not written yet
  Mixed,       \* what a file holds that two writers wrote over each other
  MaxOps,      \* bound: operations in a behaviour in which each ends well
               \* before the next begins
  MaxMixed     \* bound: operations in any other behaviour

ASSUME ConstantsAssumption ==
  /\ FirstName \in [Devices -> Names]
  /\ \A d, e \in Devices : FirstName[d] = FirstName[e] => d = e
  /\ MaxOps \in Nat /\ MaxMixed \in 0..MaxOps

VARIABLES
  conf,        \* the files: devices.json, resources.json, services.json, groups.json
  torn,        \* those that cannot be parsed: Empty or Mixed, whatever conf says
  tmp,         \* their temporary files, one name for each
  expired,     \* devices whose expires_at has passed
  peers,       \* devices that are peers of wg0
  daemon,      \* the proxy: what it has read and whom it admits
  run,         \* each administrator's operation
  ops,         \* bound
  meant,       \* history: who was allowed what by name
  overlapped,  \* history: two operations ran at one time
  cut          \* history: an operation ended after it had begun to write

files == <<conf, torn, tmp>>
enforced == <<peers, daemon>>
history == <<ops, meant, overlapped, cut>>
vars == <<files, expired, enforced, run, history>>

-----------------------------------------------------------------------------
Device   == [name: Names, enabled: BOOLEAN]
Resource == [here: BOOLEAN, on: BOOLEAN, allow: SUBSET Names, deny: SUBSET Names]
Group    == [on: BOOLEAN, devices: SUBSET Devices, resources: SUBSET Resources]
Contents == [devices   |-> [Devices -> Device],     \* of each file
             resources |-> [Resources -> Resource],
             services  |-> [Resources -> Resource],
             groups    |-> [Groups -> Group]]
Files    == DOMAIN Contents

Daemon   == [pc: {"starting", "reading", "serving"}, devices: [Devices -> Device],
             groups: [Groups -> Group], admits: [Resources -> SUBSET Devices]]
Tasks    == {"rename", "strip", "render", "rewire", "reload"}
\* Where the file that was opened as the temporary one is now: at its name, in the
\* place of the file, or at none; closed after the write.
Handle   == {"none", "tmp", "live", "lost", "closed"}
Run      == [writes: SUBSET Files, to: (UNION {Contents[f] : f \in Files}) \cup {Nil},
             handle: Handle, tasks: SUBSET Tasks, old: SUBSET Names,
             new: SUBSET Names, gone: SUBSET Resources, read: SUBSET Devices]

\* What distinguishes a file that is not a registry.
ASSUME MarksAssumption ==
  /\ Empty # Nil /\ Mixed # Nil
  /\ \A f \in Files : Contents[f] \cap {Nil, Empty, Mixed} = {}

NoResource == [here |-> FALSE, on |-> FALSE, allow |-> {}, deny |-> {}]
\* What is left of an operation: the files to write and what to write in them,
\* and its tasks after that, which it takes in the order of Tasks.
NoRun == [writes |-> {}, to |-> Nil, handle |-> "none", tasks |-> {}, old |-> {},
          new |-> {}, gone |-> {}, read |-> {}]

Idle(p) == run[p].writes = {} /\ run[p].tasks = {}

\* _load: a file that is not there is empty; one that cannot be parsed is an error.
Readable(f) == torn[f] = Nil

\* list_resources: an empty registry is read from the mirror.
ListResources ==
  IF \E r \in Resources : conf.resources[r].here THEN conf.resources ELSE conf.services

ResourcesReadable ==
  /\ Readable("resources")
  /\ (\A r \in Resources : ~conf.resources[r].here) => Readable("services")

\* device_is_active, of the devices in a registry.
Active(devices) == {d \in Devices : devices[d].enabled /\ d \notin expired}

\* resource_allows_device: a denial is stronger than a permission, and either is
\* stronger than the groups.
Allows(r, d, resources, devices, groups) ==
  LET name == devices[d].name IN
  /\ d \in Active(devices)
  /\ name \notin resources[r].deny
  /\ \/ name \in resources[r].allow
     \/ \E g \in Groups : groups[g].on /\ d \in groups[g].devices /\ r \in groups[g].resources

\* The addresses that each resource that is served admits.
Admitted(resources, devices, groups) ==
  [r \in Resources |-> IF resources[r].here /\ resources[r].on
                         THEN {d \in Devices : Allows(r, d, resources, devices, groups)}
                         ELSE {}]

\* save_groups refuses a group that names what is not registered.
Known(groups) ==
  \A g \in Groups : \A r \in groups[g].resources : ListResources[r].here
Accepted(groups) == Readable("devices") /\ ResourcesReadable /\ Known(groups)

\* save_resources writes the registry and its mirror, one after the other.
Registry == {"resources", "services"}

-----------------------------------------------------------------------------
\* p begins an operation: what it will write, and what is left to do after that.
Begin(p, r) ==
  /\ Idle(p)
  /\ overlapped' = (overlapped \/ \E q \in Admins : ~Idle(q))
  /\ ops < IF overlapped' \/ cut THEN MaxMixed ELSE MaxOps
  /\ ops' = ops + 1
  /\ run' = [run EXCEPT ![p] = r]
  /\ UNCHANGED <<files, expired, enforced, cut>>

Save(p, writes, to, tasks) ==
  Begin(p, [NoRun EXCEPT !.writes = writes, !.to = to, !.tasks = tasks])

\* Mutant: the peers are not written again.
SetEnabledUnrendered(p) ==
  \E d \in Devices, b \in BOOLEAN :
    /\ Readable("devices")
    /\ Save(p, {"devices"}, [conf.devices EXCEPT ![d].enabled = b], {"reload"})
    /\ UNCHANGED meant

\* set_device_enabled, for device-enable and device-revoke.
SetEnabled(p) ==
  \E d \in Devices, b \in BOOLEAN :
    /\ Readable("devices")
    /\ Save(p, {"devices"}, [conf.devices EXCEPT ![d].enabled = b], {"render", "reload"})
    /\ UNCHANGED meant

\* rename_device; overrides know the device by its name and follow.
Rename(p) ==
  \E d \in Devices, n \in Names :
    /\ Readable("devices")
    /\ \A e \in Devices : conf.devices[e].name # n
    /\ Begin(p, [NoRun EXCEPT
         !.writes = {"devices"},
         !.to = [conf.devices EXCEPT ![d].name = n],
         !.tasks = {"rename", "render", "reload"},
         !.old = {conf.devices[d].name}, !.new = {n}])
    /\ UNCHANGED meant

\* set_device_access_override.
SetOverride(p) ==
  \E r \in Resources, d \in Devices, decision \in {"allow", "deny", "inherit"} :
    LET put(key, S, x) == (S \ {x}) \cup IF decision = key THEN {x} ELSE {}
        name == conf.devices[d].name
    IN /\ Readable("devices") /\ ResourcesReadable
       /\ ListResources[r].here
       /\ Save(p, Registry, [ListResources EXCEPT ![r].allow = put("allow", @, name),
                                                  ![r].deny  = put("deny", @, name)],
               {"reload"})
       /\ meant' = [allow |-> put("allow", meant.allow, <<r, d>>),
                    deny  |-> put("deny", meant.deny, <<r, d>>)]

\* register_resource, with the devices it is allowed to.
Register(p) ==
  \E r \in Resources, requested \in SUBSET {d \in Devices : conf.devices[d].enabled} :
    /\ Readable("devices") /\ ResourcesReadable
    /\ ~ListResources[r].here
    /\ Save(p, Registry, [ListResources EXCEPT ![r] =
              [here |-> TRUE, on |-> TRUE, deny |-> {},
               allow |-> {conf.devices[d].name : d \in requested}]], {"reload"})
    /\ meant' = [meant EXCEPT !.allow = @ \cup {<<r, d>> : d \in requested}]

\* update_resource, as far as it is served or not.
UpdateResource(p) ==
  \E r \in Resources :
    /\ ResourcesReadable
    /\ ListResources[r].here
    /\ Save(p, Registry, [ListResources EXCEPT ![r].on = ~@], {"reload"})
    /\ UNCHANGED meant

\* remove_resource; the groups that grant it are changed next.
Remove(p) ==
  \E r \in Resources :
    /\ ResourcesReadable
    /\ ListResources[r].here
    /\ Begin(p, [NoRun EXCEPT
         !.writes = Registry,
         !.to = [ListResources EXCEPT ![r] = NoResource],
         !.tasks = {"strip", "reload"}, !.gone = {r}])
    /\ meant' = [key \in DOMAIN meant |-> {m \in meant[key] : m[1] # r}]

\* set_group_device, set_group_resource and set_group_enabled; save_groups reads the
\* other registries before it writes.
ChangeGroup(p) ==
  \E g \in Groups :
    LET save(group) == Save(p, {"groups"}, [conf.groups EXCEPT ![g] = group], {"reload"})
        old == conf.groups[g]
    IN /\ Readable("groups")
       /\ \/ \E d \in Devices : \/ save([old EXCEPT !.devices = @ \cup {d}])
                                \/ save([old EXCEPT !.devices = @ \ {d}])
          \/ \E r \in Resources : /\ ListResources[r].here
                                  /\ \/ save([old EXCEPT !.resources = @ \cup {r}])
                                     \/ save([old EXCEPT !.resources = @ \ {r}])
          \/ save([old EXCEPT !.on = ~@])
       /\ UNCHANGED meant

\* device-sync: nothing is written but the peers.
Sync(p) ==
  /\ Begin(p, [NoRun EXCEPT !.tasks = {"render", "reload"}])
  /\ UNCHANGED meant

-----------------------------------------------------------------------------
\* The operation fails or dies, however far it has come.
Stop(p) ==
  /\ cut' = TRUE
  /\ run' = [run EXCEPT ![p] = NoRun]

\* The file that p writes now.
Writing(p) ==
  IF run[p].writes = Registry THEN {"resources"} ELSE run[p].writes

\* _atomic_write: after save_groups' check the temporary file is opened, which
\* makes it empty, whoever else has it open.
Open(p) ==
  /\ run[p].handle = "none"
  /\ \E f \in Writing(p) :
       /\ f = "groups" => Accepted(run[p].to)
       /\ tmp' = [tmp EXCEPT ![f] = Empty]
  /\ run' = [run EXCEPT ![p].handle = "tmp"]
  /\ UNCHANGED <<conf, torn, expired, enforced, history>>

\* The file holds x from now on.
Put(f, x) ==
  IF x \in {Empty, Mixed}
    THEN torn' = [torn EXCEPT ![f] = x] /\ UNCHANGED conf
    ELSE torn' = [torn EXCEPT ![f] = Nil] /\ conf' = [conf EXCEPT ![f] = x]

\* What p has opened is written, wherever it is by now. The end of what another
\* has written to it remains when that was longer.
Write(p) ==
  /\ run[p].handle \in {"tmp", "live", "lost"}
  /\ \E f \in Writing(p), x \in {run[p].to, Mixed} :
       LET held == IF run[p].handle = "tmp" THEN tmp[f]
                   ELSE IF Readable(f) THEN conf[f] ELSE torn[f]
       IN /\ x = Mixed => held \notin {Empty, run[p].to}
          /\ IF run[p].handle = "live" THEN Put(f, x) ELSE UNCHANGED <<conf, torn>>
          /\ tmp' = IF run[p].handle = "tmp" THEN [tmp EXCEPT ![f] = x] ELSE tmp
  /\ run' = [run EXCEPT ![p].handle = "closed"]
  /\ UNCHANGED <<expired, enforced, history>>

\* The temporary file of f becomes f, and what others have open moves with it.
Moved(handle) ==
  CASE handle = "tmp" -> "live" [] handle = "live" -> "lost" [] OTHER -> handle

Exchange(p, f) ==
  /\ Put(f, tmp[f])
  /\ tmp' = [tmp EXCEPT ![f] = Nil]
  /\ run' = [q \in Admins |->
       CASE q = p -> [run[q] EXCEPT !.handle = "none", !.writes = @ \ {f}]
         [] q # p /\ f \in Writing(q) -> [run[q] EXCEPT !.handle = Moved(@)]
         [] OTHER -> run[q]]

\* Mutant: a missing temporary file is not noticed.
ReplaceBlind(p) ==
  /\ run[p].handle = "closed"
  /\ \E f \in Writing(p) : Exchange(p, f)
  /\ UNCHANGED <<expired, enforced, history>>

\* It takes the place of the file, whoever has written it last.
Replace(p) ==
  /\ run[p].handle = "closed"
  /\ \E f \in Writing(p) : tmp[f] # Nil /\ Exchange(p, f)
  /\ UNCHANGED <<expired, enforced, history>>

\* It is the turn of one of p's tasks: all writes and the tasks before it are done.
Turn(p, task, before) ==
  /\ run[p].writes = {}
  /\ task \in run[p].tasks
  /\ run[p].tasks \cap before = {}

Done(p, task, writes, to) ==
  run' = [run EXCEPT ![p].tasks = @ \ {task}, ![p].writes = writes, ![p].to = to]

\* Another write of the same file has taken the temporary one away, the check fails,
\* or a file that is read cannot be parsed.
Raise(p) ==
  /\ \/ \E f \in Writing(p) :
          \/ run[p].handle = "closed" /\ tmp[f] = Nil
          \/ run[p].handle = "none" /\ f = "groups" /\ ~Accepted(run[p].to)
     \/ Turn(p, "rename", {}) /\ ~ResourcesReadable
     \/ Turn(p, "strip", {}) /\ ~Readable("groups")
     \/ Turn(p, "render", {"rename"}) /\ ~Readable("devices")
  /\ Stop(p)
  /\ UNCHANGED <<files, expired, enforced, ops, meant, overlapped>>

\* Mutant: the permissions follow the device, the denials do not.
FollowRenameAllowed(p) ==
  LET follow(names) == IF run[p].old \subseteq names
                         THEN (names \ run[p].old) \cup run[p].new ELSE names
      resources == [r \in Resources |-> [ListResources[r] EXCEPT !.allow = follow(@)]]
  IN /\ Turn(p, "rename", {})
     /\ ResourcesReadable
     /\ Done(p, "rename", IF resources = ListResources THEN {} ELSE Registry, resources)
     /\ UNCHANGED <<files, expired, enforced, history>>

\* rename_device: the overrides of every resource that name the device.
FollowRename(p) ==
  LET follow(names) == IF run[p].old \subseteq names
                         THEN (names \ run[p].old) \cup run[p].new ELSE names
      resources == [r \in Resources |-> [ListResources[r] EXCEPT !.allow = follow(@),
                                                                 !.deny = follow(@)]]
  IN /\ Turn(p, "rename", {})
     /\ ResourcesReadable
     /\ Done(p, "rename", IF resources = ListResources THEN {} ELSE Registry, resources)
     /\ UNCHANGED <<files, expired, enforced, history>>

\* Mutant: only the groups that are enabled lose the resource.
StripGroupsEnabled(p) ==
  LET groups == [g \in Groups |-> IF conf.groups[g].on
                   THEN [conf.groups[g] EXCEPT !.resources = @ \ run[p].gone]
                   ELSE conf.groups[g]]
  IN /\ Turn(p, "strip", {})
     /\ Readable("groups")
     /\ Done(p, "strip", IF groups = conf.groups THEN {} ELSE {"groups"}, groups)
     /\ UNCHANGED <<files, expired, enforced, history>>

\* remove_resource: the groups that grant it.
StripGroups(p) ==
  LET groups == [g \in Groups |-> [conf.groups[g] EXCEPT !.resources = @ \ run[p].gone]]
  IN /\ Turn(p, "strip", {})
     /\ Readable("groups")
     /\ Done(p, "strip", IF groups = conf.groups THEN {} ELSE {"groups"}, groups)
     /\ UNCHANGED <<files, expired, enforced, history>>

\* render_wg_config: the registry is read, then wg0.conf is written and applied.
ReadPeers(p) ==
  /\ Turn(p, "render", {"rename"})
  /\ Readable("devices")
  /\ run' = [run EXCEPT ![p].read = Active(conf.devices),
                        ![p].tasks = (@ \ {"render"}) \cup {"rewire"}]
  /\ UNCHANGED <<files, expired, enforced, history>>

WritePeers(p) ==
  /\ Turn(p, "rewire", {})
  /\ peers' = run[p].read
  /\ Done(p, "rewire", {}, Nil)
  /\ UNCHANGED <<files, expired, daemon, history>>

\* Mutant: a daemon that is starting is not started again.
ReloadOnce(p) ==
  /\ Turn(p, "reload", {"rename", "strip", "render", "rewire"})
  /\ daemon' = IF daemon.pc = "serving"
                 THEN [daemon EXCEPT !.pc = "starting", !.admits = [r \in Resources |-> {}]]
                 ELSE daemon
  /\ run' = [run EXCEPT ![p] = NoRun]
  /\ UNCHANGED <<files, expired, peers, history>>

\* reload_runtime: the daemon starts again and does not admit anyone yet.
Reload(p) ==
  /\ Turn(p, "reload", {"rename", "strip", "render", "rewire"})
  /\ daemon' = [daemon EXCEPT !.pc = "starting", !.admits = [r \in Resources |-> {}]]
  /\ run' = [run EXCEPT ![p] = NoRun]
  /\ UNCHANGED <<files, expired, peers, history>>

\* main of daemon.py: devices and groups are read, then resource by resource. A file
\* that cannot be parsed ends it, and systemd starts it again.
DaemonReads ==
  /\ daemon.pc = "starting"
  /\ Readable("devices") /\ Readable("groups")
  /\ daemon' = [daemon EXCEPT !.pc = "reading", !.devices = conf.devices,
                              !.groups = conf.groups]
  /\ UNCHANGED <<files, expired, peers, run, history>>

DaemonServes ==
  /\ daemon.pc = "reading"
  /\ ResourcesReadable
  /\ daemon' = [daemon EXCEPT !.pc = "serving", !.admits =
                  Admitted(ListResources, daemon.devices, daemon.groups)]
  /\ UNCHANGED <<files, expired, peers, run, history>>

DaemonFails ==
  /\ daemon.pc = "reading"
  /\ ~ResourcesReadable
  /\ daemon' = [daemon EXCEPT !.pc = "starting"]
  /\ UNCHANGED <<files, expired, peers, run, history>>

Die(p) ==
  /\ ~Idle(p)
  /\ Stop(p)
  /\ UNCHANGED <<files, expired, enforced, ops, meant, overlapped>>

\* A device's last day passes; update_device_metadata gives it another.
Expire(d) ==
  /\ expired' = expired \cup {d}
  /\ UNCHANGED <<files, enforced, run, history>>
-----------------------------------------------------------------------------
FirstDevices == [d \in Devices |-> [name |-> FirstName[d], enabled |-> TRUE]]
FirstResource == [here |-> TRUE, on |-> TRUE, allow |-> {}, deny |-> {}]

\* Every resource is registered and nobody has access yet.
Init ==
  /\ conf = [devices   |-> FirstDevices,
             resources |-> [r \in Resources |-> FirstResource],
             services  |-> [r \in Resources |-> FirstResource],
             groups    |-> [g \in Groups |-> [on |-> TRUE, devices |-> {}, resources |-> {}]]]
  /\ torn = [f \in Files |-> Nil]
  /\ tmp = [f \in Files |-> Nil]
  /\ expired = {}
  /\ peers = Devices
  /\ daemon = [pc |-> "serving", devices |-> conf.devices, groups |-> conf.groups,
               admits |-> [r \in Resources |-> {}]]
  /\ run = [p \in Admins |-> NoRun]
  /\ ops = 0 /\ meant = [allow |-> {}, deny |-> {}] /\ overlapped = FALSE /\ cut = FALSE

\* What an administrator may ask for.
Operate(p) ==
  \/ SetEnabled(p) \/ Rename(p) \/ SetOverride(p) \/ Register(p) \/ UpdateResource(p)
  \/ Remove(p) \/ ChangeGroup(p) \/ Sync(p)

Step(p) ==
  \/ Open(p) \/ Write(p) \/ Replace(p) \/ Raise(p) \/ FollowRename(p)
  \/ StripGroups(p) \/ ReadPeers(p) \/ WritePeers(p) \/ Reload(p)

Next ==
  \/ \E p \in Admins : Operate(p) \/ Step(p) \/ Die(p)
  \/ DaemonReads \/ DaemonServes \/ DaemonFails
  \/ \E d \in Devices : Expire(d)

Spec == Init /\ [][Next]_vars

-----------------------------------------------------------------------------
TypeOK ==
  /\ DOMAIN conf = Files /\ DOMAIN tmp = Files
  /\ \A f \in Files : /\ conf[f] \in Contents[f]
                      /\ tmp[f] \in Contents[f] \cup {Nil, Empty, Mixed}
  /\ torn \in [Files -> {Nil, Empty, Mixed}]
  /\ expired \subseteq Devices /\ peers \subseteq Devices
  /\ daemon \in Daemon
  /\ run \in [Admins -> Run]
  /\ \A p \in Admins : \A f \in run[p].writes : run[p].to \in Contents[f]
  /\ ops \in 0..MaxOps
  /\ meant \in [allow: SUBSET (Resources \X Devices), deny: SUBSET (Resources \X Devices)]
  /\ overlapped \in BOOLEAN /\ cut \in BOOLEAN

Quiet == daemon.pc = "serving" /\ \A p \in Admins : Idle(p)

\* Once every operation has ended well, however they overlapped, every registry can
\* be read, and the proxy admits whom they allow; a device that has expired since it
\* started excepted.
ProxyEnforces ==
  Quiet /\ ~cut =>
    /\ \A f \in Files : Readable(f)
    /\ \A r \in Resources : daemon.admits[r] \ expired =
                               Admitted(ListResources, conf.devices, conf.groups)[r]

PeersEnforced ==
  Quiet /\ ~cut /\ ~overlapped => peers \ expired = Active(conf.devices)

\* Operations of one administrator at a time leave the files in agreement.
FilesAgree ==
  Quiet /\ ~cut /\ ~overlapped =>
    /\ conf.services = conf.resources
    /\ Known(conf.groups)

\* A permission or denial works for the device it was given to and for no other,
\* whatever has been renamed, and for no longer than the resource is registered.
OverridesMeant ==
  Quiet /\ ~cut /\ ~overlapped => \A r \in Resources, d \in Devices :
    LET name == conf.devices[d].name IN
    /\ name \in ListResources[r].allow <=> <<r, d>> \in meant.allow
    /\ name \in ListResources[r].deny <=> <<r, d>> \in meant.deny
===============================================================================
