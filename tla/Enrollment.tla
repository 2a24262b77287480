------------------------------ MODULE Enrollment ------------------------------
(***************************************************************************)
(* One-time pairing of a device (pairing.py, pairing_server.py), together  *)
(* with the registry files it writes and the administrators who write them *)
(* too.  enrollments.json is only touched under enrollment_lock(), an      *)
(* flock; devices.json and groups.json are read, changed and written back  *)
(* by the dashboard and the CLI without it.                                *)
(***************************************************************************)
EXTENDS Naturals

CONSTANTS
  Invites,       \* enrollment ids ("enr_..." in the code)
  Names,         \* device names
  Groups,        \* group names
  Handlers,      \* threads of the enrollment server
  Inviters,      \* callers of create_enrollment (dashboard threads, CLI)
  Admins,        \* callers of the registry operations (dashboard threads, CLI)
  NoOne,         \* the lock is free
  None,          \* no name, no invite
  TTLs,          \* lifetimes an administrator may give an invite
  Retention,     \* USED_RETENTION_SECONDS
  LastHost,      \* the VPN hosts are 2 .. LastHost: host 1 is the server
  MaxClock, MaxArrivals, MaxCrashes, MaxEdits   \* bounds of a run

ASSUME ConstantsAssumption ==
  /\ NoOne \notin Handlers
  /\ TTLs \subseteq Nat \ {0}
  /\ None \notin Invites \cup Names /\ LastHost >= 2
  /\ {Retention, LastHost, MaxClock, MaxArrivals, MaxCrashes,
      MaxEdits} \subseteq Nat

VARIABLES
  enrollments,   \* enrollments.json: invite -> record
  devices,       \* devices.json: a set of device records (id, name, IP and origin)
  groups,        \* groups.json: the known names and the device assignments
  lock,          \* holder of enrollment.lock, or NoOne
  clock,         \* int(time.time())
  pc, req, mem,  \* each handler's control point, request and local variables
  inviter,       \* each inviter's arguments between its checks and the lock
  admin,         \* each administrator's registry snapshot
  minted,        \* number of device ids drawn: new_device_id() never repeats
  arrivals,      \* requests received so far (bound)
  granted,       \* history: device ids an invite was answered with
  edits,         \* registry edits written so far (bound)
  crashes,       \* crashes of the enrollment server so far (bound)
  cut,           \* history: device ids whose redemption ended after they were saved,
                 \* but before their invite was
  interfered     \* history: some registry write ignored another one

registry == <<devices, groups>>
handlers == <<pc, req, mem>>
staff    == <<inviter, admin>>
counts   == <<minted, arrivals, edits, crashes>>
history  == <<granted, cut, interfered>>
vars     == <<enrollments, registry, lock, clock, handlers, staff, counts, history>>

-----------------------------------------------------------------------------
(* Data.                                                                    *)

Times   == 0 .. MaxClock
NoDevice == 0
Hosts   == 2 .. LastHost
Status  == {"absent", "pending", "used", "expired", "dropped"}
Record  == [status: Status, name: Names \cup {None}, groups: SUBSET Groups,
            expires: Nat, at: Nat, dev: Nat]
Device  == [id: Nat, name: Names \cup {None}, ip: Hosts, inv: Invites]
GroupFile == [names: SUBSET Groups, members: SUBSET (Groups \X Nat)]
Request == [inv: Invites \cup {None}, good: BOOLEAN, now: Nat]
Memory  == [items: [Invites -> Record], groups: GroupFile,
            ip: Hosts, before: SUBSET Device, dev: Nat]

NamesIn(devs) == {d.name : d \in devs}
IdsIn(devs)   == {d.id : d \in devs}
\* Mutants: the server's own address is not excluded; the used ones are not.
FreeHostsWithServer(devs) == (1 .. LastHost) \ {d.ip : d \in devs}
FreeHostsUsedToo(devs) == Hosts \ {}
FreeHosts(devs) == Hosts \ {d.ip : d \in devs}

NoRecord == [status |-> "absent", name |-> None, groups |-> {},
             expires |-> 0, at |-> 0, dev |-> NoDevice]
NoGroups == [names |-> {}, members |-> {}]
NoRequest == [inv |-> None, good |-> FALSE, now |-> 0]
NoMemory == [items |-> [e \in Invites |-> NoRecord], groups |-> NoGroups,
             ip |-> 2, before |-> {}, dev |-> NoDevice]
NoArgs == [busy |-> FALSE, name |-> None, groups |-> {}, ttl |-> 0, now |-> 0]
NoEdit == [doing |-> "nothing", devices |-> {}, groups |-> NoGroups]

-----------------------------------------------------------------------------
(* cleanup_enrollments: a pending record past its expiry becomes expired,   *)
(* a terminal record older than the retention is dropped.                   *)

\* Mutant: the status is not looked at.
ExpireAny(r, now) ==
  IF r.status # "absent" /\ r.expires <= now
  THEN [r EXCEPT !.status = "expired", !.at = now] ELSE r

Expire(r, now) ==
  IF r.status = "pending" /\ r.expires <= now
  THEN [r EXCEPT !.status = "expired", !.at = now] ELSE r

Retain(r, now) ==
  IF r.status \in {"used", "expired"} /\ now > r.at + Retention
  THEN [NoRecord EXCEPT !.status = "dropped"] ELSE r

Cleanup(items, now) == [e \in Invites |-> Retain(Expire(items[e], now), now)]

\* The client knows the invite and its token, and the invite is still open.
Redeemable(h) == /\ mem[h].items[req[h].inv].status = "pending"
                 /\ req[h].good

Invited(h) == mem[h].items[req[h].inv]

\* The record consume_enrollment writes back for its invite.
MarkUsed(items, e, now, d) ==
  [items EXCEPT ![e].status = "used", ![e].at = now, ![e].dev = d]

\* Leaving the "with enrollment_lock()" block, by return or by exception.
Leave(h) ==
  /\ lock' = NoOne
  /\ pc'  = [pc EXCEPT ![h] = "idle"]
  /\ req' = [req EXCEPT ![h] = NoRequest]
  /\ mem' = [mem EXCEPT ![h] = NoMemory]

Goto(h, label) == pc' = [pc EXCEPT ![h] = label] /\ UNCHANGED <<req, lock>>

-----------------------------------------------------------------------------
(* consume_enrollment, one action per access to a file.                     *)

\* POST /v2/enroll: "now" is read before the lock is asked for.
Arrive(h) ==
  /\ pc[h] = "idle" /\ arrivals < MaxArrivals
  /\ \E e \in Invites, good \in BOOLEAN :
       /\ enrollments[e].status # "absent"
       /\ req' = [req EXCEPT ![h] = [inv |-> e, good |-> good, now |-> clock]]
  /\ pc' = [pc EXCEPT ![h] = "waiting"]
  /\ arrivals' = arrivals + 1
  /\ UNCHANGED <<enrollments, registry, lock, clock, mem, staff, minted,
                 edits, crashes, history>>

\* Mutant: consume_enrollment without enrollment_lock().
AcquireUnlocked(h) ==
  /\ pc[h] = "waiting"
  /\ lock' = h
  /\ mem' = [mem EXCEPT ![h].items = Cleanup(enrollments, req[h].now)]
  /\ pc' = [pc EXCEPT ![h] = "checking"]
  /\ UNCHANGED <<enrollments, registry, clock, req, staff, counts, history>>

Acquire(h) ==
  /\ pc[h] = "waiting" /\ lock = NoOne
  /\ lock' = h
  /\ mem' = [mem EXCEPT ![h].items = Cleanup(enrollments, req[h].now)]
  /\ pc' = [pc EXCEPT ![h] = "checking"]
  /\ UNCHANGED <<enrollments, registry, clock, req, staff, counts, history>>

\* Unknown, terminal or expired invite, or wrong token: the cleaned list is saved.
Reject(h) ==
  /\ pc[h] = "checking" /\ ~Redeemable(h)
  /\ enrollments' = mem[h].items
  /\ Leave(h)
  /\ UNCHANGED <<registry, clock, staff, counts, history>>

\* The device name is taken: the invite is spent without a device.
RejectTaken(h) ==
  /\ pc[h] = "checking" /\ Redeemable(h)
  /\ Invited(h).name \in NamesIn(devices)
  /\ enrollments' = MarkUsed(mem[h].items, req[h].inv, req[h].now, NoDevice)
  /\ Leave(h)
  /\ UNCHANGED <<registry, clock, staff, counts, history>>

CheckName(h) ==
  /\ pc[h] = "checking" /\ Redeemable(h)
  /\ Invited(h).name \notin NamesIn(devices)
  /\ Goto(h, "grouping")
  /\ UNCHANGED <<enrollments, registry, clock, mem, staff, counts, history>>

ReadGroups(h) ==
  /\ pc[h] = "grouping" /\ Invited(h).groups \subseteq groups.names
  /\ mem' = [mem EXCEPT ![h].groups = groups]
  /\ Goto(h, "addressing")
  /\ UNCHANGED <<enrollments, registry, clock, staff, counts, history>>

PickAddress(h) ==
  /\ pc[h] = "addressing"
  /\ \E ip \in FreeHosts(devices) :
       /\ \A other \in FreeHosts(devices) : ip <= other
       /\ mem' = [mem EXCEPT ![h].ip = ip]
  /\ Goto(h, "snapshotting")
  /\ UNCHANGED <<enrollments, registry, clock, staff, counts, history>>

ReadDevices(h) ==
  /\ pc[h] = "snapshotting"
  /\ mem' = [mem EXCEPT ![h].before = devices]
  /\ Goto(h, "saving")
  /\ UNCHANGED <<enrollments, registry, clock, staff, counts, history>>

\* Mutant: the lock is not released when consume_enrollment raises.
AbortLocked(h) ==
  /\ pc[h] = "addressing"
  /\ pc'  = [pc EXCEPT ![h] = "idle"]
  /\ req' = [req EXCEPT ![h] = NoRequest]
  /\ mem' = [mem EXCEPT ![h] = NoMemory]
  /\ UNCHANGED <<enrollments, registry, lock, clock, staff, counts, history>>

\* Raised without saving anything: a group is gone, "wg genpsk" fails, no host
\* is free, save_devices finds the name taken in the list it is given, or a
\* file cannot be read or written.
Abort(h) ==
  /\ pc[h] \in {"checking", "grouping", "addressing", "snapshotting", "saving"}
  /\ Leave(h)
  /\ UNCHANGED <<enrollments, registry, clock, staff, counts, history>>

NewDevice(h) ==
  [id |-> minted + 1, name |-> Invited(h).name, ip |-> mem[h].ip,
   inv |-> req[h].inv]

SaveDevices(h) ==
  /\ pc[h] = "saving" /\ Invited(h).name \notin NamesIn(mem[h].before)
  /\ devices' = mem[h].before \cup {NewDevice(h)}
  /\ minted' = minted + 1
  /\ mem' = [mem EXCEPT ![h].dev = minted + 1]
  /\ Goto(h, IF Invited(h).groups = {} THEN "marking" ELSE "assigning")
  /\ UNCHANGED <<enrollments, groups, clock, staff, arrivals, edits, crashes, history>>

Assigned(h) ==
  [mem[h].groups EXCEPT
     !.members = @ \cup (Invited(h).groups \X {mem[h].dev})]

\* save_groups refuses an assignment to a device devices.json does not hold.
KnownMembers(file) == \A m \in file.members : m[2] \in IdsIn(devices)

SaveGroups(h) ==
  /\ pc[h] = "assigning" /\ KnownMembers(Assigned(h))
  /\ groups' = Assigned(h)
  /\ Goto(h, "marking")
  /\ UNCHANGED <<enrollments, devices, clock, mem, staff, counts, history>>

\* Mutants: the try block also covers the saving of the enrollment; the device
\* list is not restored.
RollBackLate(h) ==
  /\ pc[h] \in {"assigning", "marking"}
  /\ devices' = mem[h].before
  /\ Leave(h)
  /\ UNCHANGED <<enrollments, groups, clock, staff, counts, history>>

RollBackNothing(h) ==
  /\ pc[h] = "assigning"
  /\ Leave(h)
  /\ UNCHANGED <<enrollments, registry, clock, staff, counts, history>>

\* save_groups raises: an unknown member or Resource, or the file write fails.
\* The device list read before is written back, the invite stays open.
RollBack(h) ==
  /\ pc[h] = "assigning"
  /\ devices' = mem[h].before
  /\ Leave(h)
  /\ UNCHANGED <<enrollments, groups, clock, staff, counts, history>>

\* The roll-back's own save raises, or that of the enrollment, which no roll-back
\* covers: the device stays, and so does its open invite.
FailLate(h) ==
  /\ pc[h] \in {"assigning", "marking"}
  /\ Leave(h)
  /\ cut' = cut \cup {mem[h].dev}
  /\ UNCHANGED <<enrollments, registry, clock, staff, counts, granted, interfered>>

Mark(h) ==
  /\ pc[h] = "marking"
  /\ enrollments' = MarkUsed(mem[h].items, req[h].inv, req[h].now, mem[h].dev)
  /\ lock' = NoOne
  /\ pc' = [pc EXCEPT ![h] = "responding"]
  /\ UNCHANGED <<registry, clock, req, mem, staff, counts, history>>

\* The response is built after the lock is released.
Respond(h) ==
  /\ pc[h] = "responding"
  /\ granted' = [granted EXCEPT ![req[h].inv] = @ \cup {mem[h].dev}]
  /\ pc'  = [pc EXCEPT ![h] = "idle"]
  /\ req' = [req EXCEPT ![h] = NoRequest]
  /\ mem' = [mem EXCEPT ![h] = NoMemory]
  /\ UNCHANGED <<enrollments, registry, lock, clock, staff, counts, cut, interfered>>

\* Building or sending the response fails: the client learns nothing.
LoseResponse(h) ==
  /\ pc[h] = "responding"
  /\ pc'  = [pc EXCEPT ![h] = "idle"]
  /\ req' = [req EXCEPT ![h] = NoRequest]
  /\ mem' = [mem EXCEPT ![h] = NoMemory]
  /\ UNCHANGED <<enrollments, registry, lock, clock, staff, counts, history>>

-----------------------------------------------------------------------------
(* create_enrollment and list_enrollments.                                  *)

\* The checks create_enrollment makes, and the clock it reads, before the lock.
PrepareInvite(i) ==
  /\ ~inviter[i].busy
  /\ \E n \in Names \ NamesIn(devices), gs \in SUBSET groups.names, ttl \in TTLs :
       inviter' = [inviter EXCEPT ![i] =
         [busy |-> TRUE, name |-> n, groups |-> gs, ttl |-> ttl, now |-> clock]]
  /\ UNCHANGED <<enrollments, registry, lock, clock, handlers, admin, counts,
                 history>>

\* Mutant: only used invites are looked at.
UsedFor(items, n) ==
  {e \in Invites : items[e].status = "used" /\ items[e].name = n}

PendingFor(items, n) ==
  {e \in Invites : items[e].status = "pending" /\ items[e].name = n}

\* The block under the lock: nothing else touches enrollments.json meanwhile.
\* A pending invite of the same name makes it raise without saving.
IssueInvite(i) ==
  /\ inviter[i].busy /\ lock = NoOne
  /\ LET arg   == inviter[i]
         items == Cleanup(enrollments, arg.now)
     IN \/ /\ PendingFor(items, arg.name) # {}
           /\ UNCHANGED enrollments
        \/ /\ PendingFor(items, arg.name) = {}
           /\ \E e \in Invites :
                /\ items[e].status = "absent"
                /\ enrollments' = [items EXCEPT ![e] =
                     [status |-> "pending", name |-> arg.name,
                      groups |-> arg.groups, expires |-> arg.now + arg.ttl,
                      at |-> 0, dev |-> NoDevice]]
  /\ inviter' = [inviter EXCEPT ![i] = NoArgs]
  /\ UNCHANGED <<registry, lock, clock, handlers, admin, counts, history>>

\* The caller of create_enrollment dies before it gets the lock.
DropInvite(i) ==
  /\ inviter[i].busy
  /\ inviter' = [inviter EXCEPT ![i] = NoArgs]
  /\ UNCHANGED <<enrollments, registry, lock, clock, handlers, admin, counts,
                 history>>

ListEnrollments ==
  /\ lock = NoOne
  /\ enrollments' = Cleanup(enrollments, clock)
  /\ UNCHANGED <<registry, lock, clock, handlers, staff, counts, history>>

-----------------------------------------------------------------------------
(* The registry operations of core.py: read, change, write back, no lock.   *)

ReadRegistry(a) ==
  /\ admin[a].doing = "nothing" /\ edits < MaxEdits
  /\ \E what \in {"devices", "groups"} :
       admin' = [admin EXCEPT ![a] =
         [doing   |-> what,
          devices |-> IF what = "devices" THEN devices ELSE {},
          groups  |-> IF what = "groups" THEN groups ELSE NoGroups]]
  /\ UNCHANGED <<enrollments, registry, lock, clock, handlers, inviter, counts,
                 history>>

\* An operation that raises, or a caller that dies, writes nothing.
GiveUp(a) ==
  /\ admin[a].doing # "nothing"
  /\ admin' = [admin EXCEPT ![a] = NoEdit]
  /\ UNCHANGED <<enrollments, registry, lock, clock, handlers, inviter, counts,
                 history>>

\* Finishing an edit; "overlaps" says it ignored, or ran inside, another one.
Finish(a, overlaps) ==
  /\ admin' = [admin EXCEPT ![a] = NoEdit]
  /\ interfered' = (interfered \/ overlaps \/ lock # NoOne)
  /\ edits' = edits + 1
  /\ UNCHANGED <<enrollments, lock, clock, handlers, inviter, minted, arrivals,
                 crashes, granted, cut>>

\* rename_device writes a new name; set_device_enabled and
\* update_device_metadata write the list back with other fields changed.
WriteDevices(a) ==
  /\ admin[a].doing = "devices" /\ admin[a].devices # {}
  /\ \/ devices' = admin[a].devices
     \/ \E d \in admin[a].devices, n \in Names \ NamesIn(admin[a].devices) :
          devices' = (admin[a].devices \ {d}) \cup {[d EXCEPT !.name = n]}
  /\ Finish(a, admin[a].devices # devices)
  /\ UNCHANGED groups

\* set_group_device, create_group and remove_group, all through save_groups.
WriteGroups(a) ==
  /\ admin[a].doing = "groups"
  /\ \E g \in Groups :
       LET file == admin[a].groups IN
       \/ /\ g \in file.names
          /\ \E d \in IdsIn(devices) :
               groups' \in {[file EXCEPT !.members = @ \cup {<<g, d>>}],
                            [file EXCEPT !.members = @ \ {<<g, d>>}]}
       \/ /\ g \notin file.names
          /\ groups' = [file EXCEPT !.names = @ \cup {g}]
       \/ /\ g \in file.names
          /\ groups' = [names   |-> file.names \ {g},
                        members |-> {m \in file.members : m[1] # g}]
  /\ KnownMembers(groups')
  /\ Finish(a, admin[a].groups # groups)
  /\ UNCHANGED devices

-----------------------------------------------------------------------------
\* The enrollment server dies with its threads; the kernel frees the flock.
Crash ==
  /\ crashes < MaxCrashes
  /\ crashes' = crashes + 1
  /\ lock' = NoOne
  /\ pc'  = [h \in Handlers |-> "idle"]
  /\ req' = [h \in Handlers |-> NoRequest]
  /\ mem' = [h \in Handlers |-> NoMemory]
  /\ cut' = cut \cup {mem[h].dev : h \in {g \in Handlers : pc[g] \in {"assigning", "marking"}}}
  /\ UNCHANGED <<enrollments, registry, clock, staff, minted, arrivals, edits, granted,
                 interfered>>

Tick ==
  /\ clock < MaxClock
  /\ clock' = clock + 1
  /\ UNCHANGED <<enrollments, registry, lock, handlers, staff, counts, history>>

Init ==
  /\ enrollments = [e \in Invites |-> NoRecord]
  /\ devices = {}
  /\ groups = [names |-> Groups, members |-> {}]
  /\ lock = NoOne
  /\ clock = 0
  /\ pc  = [h \in Handlers |-> "idle"]
  /\ req = [h \in Handlers |-> NoRequest]
  /\ mem = [h \in Handlers |-> NoMemory]
  /\ inviter = [i \in Inviters |-> NoArgs]
  /\ admin = [a \in Admins |-> NoEdit]
  /\ minted = 0 /\ arrivals = 0 /\ edits = 0 /\ crashes = 0
  /\ granted = [e \in Invites |-> {}] /\ cut = {} /\ interfered = FALSE

\* The steps a handler takes inside its critical section, and after it.
HandlerStep(h) ==
  \/ Reject(h) \/ RejectTaken(h) \/ CheckName(h) \/ ReadGroups(h)
  \/ PickAddress(h) \/ ReadDevices(h) \/ Abort(h) \/ SaveDevices(h)
  \/ SaveGroups(h) \/ RollBack(h) \/ FailLate(h) \/ Mark(h) \/ Respond(h)
  \/ LoseResponse(h)

Next ==
  \/ \E h \in Handlers : Arrive(h) \/ Acquire(h) \/ HandlerStep(h)
  \/ \E i \in Inviters : PrepareInvite(i) \/ IssueInvite(i) \/ DropInvite(i)
  \/ ListEnrollments
  \/ \E a \in Admins : \/ ReadRegistry(a) \/ GiveUp(a)
                       \/ WriteDevices(a) \/ WriteGroups(a)
  \/ Crash \/ Tick

\* A thread of a live process keeps running, and the kernel serves the waiters
\* of an flock in turn.  Administrators, clients and the clock owe nothing.
Fairness == \A h \in Handlers : WF_vars(HandlerStep(h)) /\ SF_vars(Acquire(h))

Spec == Init /\ [][Next]_vars
FairSpec == Spec /\ Fairness

-----------------------------------------------------------------------------
(* Properties.                                                              *)

Labels == {"idle", "waiting", "checking", "grouping", "addressing",
           "snapshotting", "saving", "assigning", "marking", "responding"}
Critical == Labels \ {"idle", "waiting", "responding"}

\* Every variable holds a value of its type.
TypeOK ==
  /\ enrollments \in [Invites -> Record]
  /\ devices \in SUBSET Device
  /\ groups \in GroupFile
  /\ lock \in Handlers \cup {NoOne}
  /\ clock \in Nat
  /\ pc \in [Handlers -> Labels]
  /\ req \in [Handlers -> Request]
  /\ \A h \in Handlers : pc[h] # "idle" => req[h].inv \in Invites
  /\ mem \in [Handlers -> Memory]
  /\ inviter \in [Inviters -> [busy: BOOLEAN, name: Names \cup {None},
                               groups: SUBSET Groups, ttl: Nat, now: Nat]]
  /\ admin \in [Admins -> [doing: {"nothing", "devices", "groups"},
                           devices: SUBSET Device, groups: GroupFile]]
  /\ minted \in Nat /\ arrivals \in Nat /\ edits \in Nat /\ crashes \in Nat
  /\ granted \in [Invites -> SUBSET Nat]
  /\ cut \subseteq Nat /\ interfered \in BOOLEAN

\* An invite is answered with a device's credentials once at most, whatever the
\* replays, the crashes and the registry edits: "token casuale monouso".
OneGrant ==
  \A e \in Invites : \A d1, d2 \in granted[e] : d1 = d2

\* Two open invites never carry the same device name (the check of
\* create_enrollment under the lock).
PendingNamesUnique ==
  \A e1, e2 \in Invites :
    ( /\ enrollments[e1].status = "pending" /\ enrollments[e2].status = "pending"
      /\ enrollments[e1].name = enrollments[e2].name ) => e1 = e2

\* As long as no registry edit overlaps another one, two devices never share a
\* VPN address or a name (next_device_ip and save_devices work on two readings
\* of devices.json), crashes and roll-backs included.
AddressesUnique ==
  ~interfered =>
    \A d1, d2 \in devices : d1.ip = d2.ip \/ d1.name = d2.name => d1 = d2

\* Without overlapping edits a group never names a device that is not
\* registered: devices.json is written before groups.json, and a roll-back
\* happens only when groups.json was not written.
MembersRegistered ==
  ~interfered => \A m \in groups.members : m[2] \in IdsIn(devices)

\* Without overlapping edits a device exists, once no enrollment is under way, only
\* if its invite was used up by it.  The exceptions are the devices whose own
\* redemption was cut after devices.json was saved: by the death of the server, by a
\* roll-back that could not be saved, or by a failure to save the invite.
NoOrphanDevice ==
  (~interfered /\ lock = NoOne) =>
    \A d \in devices : \/ d.id \in cut
                       \/ enrollments[d.inv].status = "dropped"
                       \/ /\ enrollments[d.inv].status = "used"
                          /\ enrollments[d.inv].dev = d.id

\* A terminal record is never reopened: it stays as it is until the retention
\* drops it, and the server never forgets it earlier.
TerminalIsFinal ==
  [][\A e \in Invites :
       enrollments[e].status \in {"used", "expired", "dropped"} =>
         \/ enrollments'[e] = enrollments[e]
         \/ /\ enrollments'[e].status = "dropped"
            /\ enrollments[e].at + Retention < clock]_vars

\* A request gets an answer, or loses its connection, eventually: whatever way
\* a handler leaves the critical section, the lock is free again.
RequestEnds == \A h \in Handlers : pc[h] # "idle" ~> pc[h] = "idle"

\* The invites as Ledger sees them: an answer is due from the moment its invite is
\* marked as used.
State == [e \in Invites |-> enrollments[e].status]
OpenName == [e \in Invites |-> IF enrollments[e].status = "pending" THEN enrollments[e].name
                                                                 ELSE None]
Due == [e \in Invites |->
          {mem[h].dev : h \in {g \in Handlers : pc[g] = "responding" /\ req[g].inv = e}}]

Abstract == INSTANCE Ledger WITH
  Nobody <- None, state <- State, name <- OpenName, due <- Due, answered <- granted

\* Pairing keeps its ledger: an invite is used in one step, for one device that no other
\* invite is answered with, and never again, whatever files are read and written
\* between a request and its answer, and whoever dies.
ImplementsLedger == Abstract!Spec
=============================================================================
