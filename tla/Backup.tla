-------------------------------- MODULE Backup --------------------------------
(***************************************************************************)
(* Backups of the configuration and their restore (backup.py).  A backup   *)
(* reads the files one after the other while administrators change them,   *)
(* is checked, stored under its time and reason, and prunes the directory; *)
(* a restore loads an archive, makes a safety backup and writes the files  *)
(* one after the other.  Nothing is locked: the timer, commands and the    *)
(* updater may run at once, and may be killed anywhere.  Of the files that *)
(* every archive must have, those whose contents depend on each other are  *)
(* modelled, and of the optional ones one.                                 *)
(***************************************************************************)
EXTENDS Naturals, FiniteSets

CONSTANTS
  Workers,     \* processes that make backups and restore them
  Resources,   \* names of resources
  NoFile,      \* a file that does not exist
  Keep,        \* archives that are kept (--keep)
  Day,         \* ticks of the clock in one date
  MaxTime,     \* bound: the clock
  MaxOps,      \* bound: backups and restores in a behaviour
  MaxEdits     \* bound: changes of the configuration by administrators

ASSUME ConstantsAssumption ==
  /\ Keep \in Nat \ {0} /\ Day \in Nat \ {0}     \* _validate_retention
  /\ MaxTime \in Nat /\ MaxOps \in Nat /\ MaxEdits \in Nat
  /\ \A R \in SUBSET Resources : R # NoFile

VARIABLES
  conf,        \* the files of the configuration
  edit,        \* what an administrator has still to write
  edits,       \* bound
  archives,    \* the backup directory
  stored,      \* archives ever stored: orders them as their mtime does
  now,         \* the clock, in seconds
  run,         \* each worker's control point and local variables
  ops,         \* bound
  raced,       \* history: two scheduled backups ran at one time
  missed,      \* history: a prune did not come to its end
  disturbed,   \* history: workers during whose restore others wrote a file
  robbed       \* history: workers during whose restore others took an archive away,
               \* or the name of theirs

config == <<conf, edit, edits, disturbed>>
directory == <<archives, stored, missed, robbed>>
bounds == <<now, ops, raced>>
vars == <<config, directory, bounds, run>>

-----------------------------------------------------------------------------
\* SOURCE_MAP and OPTIONAL_SOURCE_MAP, in the order they are read, and in the
\* order of their names, in which they are written.
ReadOrder  == <<"resources", "services", "groups", "servers">>
WriteOrder == <<"groups", "resources", "servers", "services">>
Sources    == {"resources", "services", "groups", "servers"}
Optional   == {"servers"}
Last       == 4

Image   == [Sources -> (SUBSET Resources) \cup {NoFile}]
Reasons == {"manual", "daily", "pre-restore"}
Archive == [at: 0..MaxTime, reason: Reasons, seq: Nat, files: Image]
Labels  == {"idle", "read", "check", "store", "list", "prune", "size", "write"}
Run     == [pc: Labels, reason: Reasons, when: 0..MaxTime, next: 1..Last + 1,
            read: Image, own: Nat, doomed: SUBSET Nat, image: Image]

NoImage == [f \in Sources |-> NoFile]
NoRun == [pc |-> "idle", reason |-> "manual", when |-> 0, next |-> 1, read |-> NoImage,
          own |-> 0, doomed |-> {}, image |-> NoImage]
NoEdit == [files |-> {}, to |-> {}, strip |-> {}]

Idle(p) == run[p].pc = "idle"
Restoring(p) == run[p].image # NoImage

\* validate_snapshot: the mirror is in step and groups name what is registered.
Valid(files) ==
  /\ \A f \in Sources \ Optional : files[f] # NoFile
  /\ files["services"] = files["resources"]
  /\ files["groups"] \subseteq files["resources"]

\* What is in force when an image has been restored: a file that it does not
\* have is left as it is.
Over(image, old) == [f \in Sources |-> IF image[f] = NoFile THEN old[f] ELSE image[f]]

\* _backup_name: the time in seconds and the reason.
Named(a, at, reason) == a.at = at /\ a.reason = reason
Exists(at, reason) == \E a \in archives : Named(a, at, reason)

SameName(p, q) == run[p].when = run[q].when /\ run[p].reason = run[q].reason

\* Mutant: the time is compared, not the date.
DoneNow == \E a \in archives : a.reason = "daily" /\ a.at = now

\* _same_day_scheduled.
DoneToday == \E a \in archives : a.reason = "daily" /\ a.at \div Day = now \div Day

\* Mutant: one more is kept.
OldButOne == {a.seq : a \in {b \in archives :
                Cardinality({c \in archives : c.seq > b.seq}) > Keep}}

\* prune_backups lists all but the newest.
Old == {a.seq : a \in {b \in archives :
          Cardinality({c \in archives : c.seq > b.seq}) >= Keep}}

-----------------------------------------------------------------------------
\* Workers other than p that are in the middle of a restore.
Restorers(p) == {q \in Workers \ {p} : Restoring(q)}

Begin(p, r) ==
  /\ Idle(p)
  /\ ops < MaxOps
  /\ ops' = ops + 1
  /\ run' = [run EXCEPT ![p] = r]
  /\ disturbed' = disturbed \ {p}
  /\ robbed' = robbed \ {p}
  /\ raced' = (raced \/ (r.reason = "daily" /\ \E q \in Workers : run[q].reason = "daily"))
  /\ UNCHANGED <<conf, edit, edits, archives, stored, missed, now>>

\* create_backup, for backup-create and before an update.
CreateBackup(p) == Begin(p, [NoRun EXCEPT !.pc = "read", !.when = now])

\* create_backup(scheduled=True): one a day, but it prunes each time.
CreateDaily(p) ==
  Begin(p, [NoRun EXCEPT !.pc = IF DoneToday THEN "list" ELSE "read",
                         !.reason = "daily", !.when = now])

\* restore_backup(apply=True): the archive is verified and held in memory; then a
\* safety backup is made, but not for the updater.
Restore(p) ==
  \E a \in archives, safety \in BOOLEAN :
    /\ Valid(a.files)
    /\ Begin(p, [NoRun EXCEPT !.pc = IF safety THEN "read" ELSE "write",
                              !.reason = "pre-restore", !.when = now,
                              !.image = a.files])

\* Mutant: the files to write are counted on from those that were read.
ProceedOn(p) ==
  run' = [run EXCEPT ![p] = IF Restoring(p)
            THEN [@ EXCEPT !.pc = "write", !.doomed = {}] ELSE NoRun]

\* The backup has come to an end; a restore goes on with its files.
Proceed(p) ==
  run' = [run EXCEPT ![p] = IF Restoring(p)
            THEN [@ EXCEPT !.pc = "write", !.next = 1, !.doomed = {}] ELSE NoRun]

\* Mutant: the directory is pruned before it is known that a backup can be made.
ReadPruning(p) ==
  /\ run[p].pc = "read"
  /\ LET i == run[p].next IN
       /\ run' = [run EXCEPT ![p].read[ReadOrder[i]] = conf[ReadOrder[i]],
                             ![p].next = i + 1,
                             ![p].pc = IF i = Last THEN "check" ELSE "read"]
       /\ archives' = IF i = 1 THEN {a \in archives : a.seq \notin Old} ELSE archives
  /\ UNCHANGED <<config, stored, missed, robbed, bounds>>

\* _snapshot_sources, the next file.
Read(p) ==
  /\ run[p].pc = "read"
  /\ LET i == run[p].next IN
       run' = [run EXCEPT ![p].read[ReadOrder[i]] = conf[ReadOrder[i]],
                          ![p].next = i + 1,
                          ![p].pc = IF i = Last THEN "check" ELSE "read"]
  /\ UNCHANGED <<config, directory, bounds>>

\* Mutant: the files are not checked against each other.
AcceptedTorn(p) == ~Exists(run[p].when, run[p].reason)

Accepted(p) == Valid(run[p].read) /\ ~Exists(run[p].when, run[p].reason)

Check(p) ==
  /\ run[p].pc = "check"
  /\ Accepted(p)
  /\ run' = [run EXCEPT ![p].pc = "store"]
  /\ UNCHANGED <<config, directory, bounds>>

\* A file cannot be read, the snapshot is not valid or its name is taken.
Reject(p) ==
  /\ \/ run[p].pc = "read"
     \/ run[p].pc = "check" /\ ~Accepted(p)
  /\ Proceed(p)
  /\ UNCHANGED <<config, directory, bounds>>

\* The archive takes its name, whatever may have taken it since the check.
Store(p) ==
  /\ run[p].pc = "store"
  /\ stored' = stored + 1
  /\ archives' = {a \in archives : ~Named(a, run[p].when, run[p].reason)} \cup
                   {[at |-> run[p].when, reason |-> run[p].reason,
                     seq |-> stored + 1, files |-> run[p].read]}
  /\ robbed' = robbed \cup
       {q \in Restorers(p) : \/ Exists(run[p].when, run[p].reason)
                             \/ run[q].own # 0 /\ SameName(p, q)}
  /\ run' = [run EXCEPT ![p].pc = "list", ![p].own = stored + 1]
  /\ UNCHANGED <<config, missed, bounds>>

\* prune_backups: the directory is listed.
List(p) ==
  /\ run[p].pc = "list"
  /\ run' = [run EXCEPT ![p].pc = "prune", ![p].doomed = Old]
  /\ UNCHANGED <<config, directory, bounds>>

\* A file vanishes between the listing and its stat: a FileNotFoundError, which
\* restore_backup does not take for a failed safety backup.
Vanish(p) ==
  /\ run[p].pc = "list"
  /\ \E q \in Workers \ {p} : run[q].doomed # {}
  /\ run' = [run EXCEPT ![p] = NoRun]
  /\ missed' = TRUE
  /\ UNCHANGED <<config, archives, stored, robbed, bounds>>

\* The next one in the list is deleted.
Unlink(p) ==
  /\ run[p].pc = "prune"
  /\ \E n \in run[p].doomed :
       /\ \A m \in run[p].doomed : m <= n
       /\ \E a \in archives : a.seq = n /\ archives' = archives \ {a}
       /\ run' = [run EXCEPT ![p].doomed = @ \ {n}]
  /\ robbed' = robbed \cup Restorers(p)
  /\ UNCHANGED <<config, stored, missed, bounds>>

\* Someone else has deleted it: the prune ends there with an error.
UnlinkFails(p) ==
  /\ run[p].pc = "prune"
  /\ \E n \in run[p].doomed :
       /\ \A m \in run[p].doomed : m <= n
       /\ \A a \in archives : a.seq # n
  /\ Proceed(p)
  /\ missed' = TRUE
  /\ UNCHANGED <<config, archives, stored, robbed, bounds>>

Pruned(p) ==
  /\ run[p].pc = "prune"
  /\ run[p].doomed = {}
  /\ run' = [run EXCEPT ![p] = IF run[p].own = 0 THEN NoRun ELSE [@ EXCEPT !.pc = "size"]]
  /\ UNCHANGED <<config, directory, bounds>>

\* The size of the new archive is read.
Report(p) ==
  /\ run[p].pc = "size"
  /\ Exists(run[p].when, run[p].reason)
  /\ Proceed(p)
  /\ UNCHANGED <<config, directory, bounds>>

\* Someone else has deleted it already: again a FileNotFoundError.
ReportFails(p) ==
  /\ run[p].pc = "size"
  /\ ~Exists(run[p].when, run[p].reason)
  /\ run' = [run EXCEPT ![p] = NoRun]
  /\ UNCHANGED <<config, directory, bounds>>

\* _atomic_restore_file of the next file that the archive has.
Write(p) ==
  /\ run[p].pc = "write"
  /\ run[p].next <= Last
  /\ LET f == WriteOrder[run[p].next] IN
       conf' = IF run[p].image[f] = NoFile THEN conf
                                           ELSE [conf EXCEPT ![f] = run[p].image[f]]
  /\ run' = [run EXCEPT ![p].next = @ + 1]
  /\ disturbed' = disturbed \cup Restorers(p)
  /\ UNCHANGED <<edit, edits, directory, bounds>>

Finish(p) ==
  /\ run[p].pc = "write"
  /\ run[p].next > Last
  /\ run' = [run EXCEPT ![p] = NoRun]
  /\ UNCHANGED <<config, directory, bounds>>

\* A worker is killed, or a file cannot be written.
Crash(p) ==
  /\ ~Idle(p)
  /\ run' = [run EXCEPT ![p] = NoRun]
  /\ missed' = (missed \/ run[p].pc \in {"list", "prune"})
  /\ UNCHANGED <<config, archives, stored, robbed, bounds>>
-----------------------------------------------------------------------------
\* Administrators register a resource, remove one, grant one to a group or add a
\* server; core.py and multi_server.py write each file in one step.
BeginEdit(e) ==
  /\ edit = NoEdit
  /\ edits < MaxEdits
  /\ edits' = edits + 1
  /\ edit' = e
  /\ UNCHANGED <<conf, disturbed, directory, bounds, run>>

Edit ==
  \/ \E r \in Resources \ conf["resources"] :
       BeginEdit([NoEdit EXCEPT !.files = {"resources", "services"},
                                !.to = conf["resources"] \cup {r}])
  \/ \E r \in conf["resources"] :
       BeginEdit([files |-> {"resources", "services"}, to |-> conf["resources"] \ {r},
                  strip |-> {r}])
  \/ \E r \in conf["resources"] :
       BeginEdit([NoEdit EXCEPT !.files = {"groups"}, !.to = conf["groups"] \cup {r}])
  \/ BeginEdit([NoEdit EXCEPT !.files = {"servers"}])

Put(f, to) ==
  /\ conf' = [conf EXCEPT ![f] = to]
  /\ disturbed' = disturbed \cup {p \in Workers : Restoring(p)}
  /\ UNCHANGED <<edits, directory, bounds, run>>

EditWrite ==
  \E f \in edit.files :
    /\ f = "services" => "resources" \notin edit.files
    /\ Put(f, edit.to)
    /\ edit' = [edit EXCEPT !.files = @ \ {f}]

EditStrip ==
  /\ edit.files = {} /\ edit.strip # {}
  /\ Put("groups", conf["groups"] \ edit.strip)
  /\ edit' = [edit EXCEPT !.strip = {}]

\* The administrator is done, or has died on the way.
EditEnd ==
  /\ edit # NoEdit
  /\ edit' = NoEdit
  /\ UNCHANGED <<conf, edits, disturbed, directory, bounds, run>>

Tick ==
  /\ now < MaxTime
  /\ now' = now + 1
  /\ UNCHANGED <<config, directory, ops, raced, run>>
-----------------------------------------------------------------------------
\* Nothing has been registered, or everything has been and is granted to groups.
Init ==
  /\ \E R \in {{}, Resources} :
       conf = [f \in Sources |-> IF f \in Optional THEN NoFile ELSE R]
  /\ edit = NoEdit /\ edits = 0
  /\ archives = {} /\ stored = 0
  /\ now = 0 /\ ops = 0
  /\ run = [p \in Workers |-> NoRun]
  /\ raced = FALSE /\ missed = FALSE /\ disturbed = {} /\ robbed = {}

Step(p) ==
  \/ Read(p) \/ Check(p) \/ Reject(p) \/ Store(p) \/ List(p) \/ Vanish(p) \/ Unlink(p)
  \/ UnlinkFails(p) \/ Pruned(p) \/ Report(p) \/ ReportFails(p) \/ Write(p) \/ Finish(p)

Next ==
  \/ \E p \in Workers :
       CreateBackup(p) \/ CreateDaily(p) \/ Restore(p) \/ Step(p) \/ Crash(p)
  \/ Edit \/ EditWrite \/ EditStrip \/ EditEnd \/ Tick

Spec == Init /\ [][Next]_vars

-----------------------------------------------------------------------------
TypeOK ==
  /\ conf \in Image
  /\ edit \in [files: SUBSET Sources, to: SUBSET Resources, strip: SUBSET Resources]
  /\ edits \in 0..MaxEdits
  /\ archives \subseteq Archive /\ \A a \in archives : Valid(a.files)
  /\ stored \in Nat
  /\ now \in 0..MaxTime /\ ops \in 0..MaxOps
  /\ run \in [Workers -> Run]
  /\ raced \in BOOLEAN /\ missed \in BOOLEAN /\ disturbed \subseteq Workers /\ robbed \subseteq Workers

\* A restore that came to its end while no one else wrote a file has put the
\* archive in force, whole and valid, even if its own safety backup has pruned it.
RestoredWhole ==
  \A p \in Workers :
    run[p].pc = "write" /\ run[p].next > Last /\ p \notin disturbed =>
      /\ conf = Over(run[p].image, conf)
      /\ Valid(conf)

\* From its first file on, a restore may stop half-way.  The archive it restores
\* or the backup of what it replaces is then still there to restore, unless
\* another backup that runs at the same time has pruned it.
Recoverable ==
  \A p \in Workers : run[p].pc = "write" /\ p \notin robbed =>
    \E a \in archives : a.files = run[p].image \/ a.seq = run[p].own

\* When all backups have ended, and no prune with an error, no more archives are
\* left than are to be kept, however they overlapped.
RetentionKept ==
  (\A p \in Workers : Idle(p)) /\ ~missed => Cardinality(archives) <= Keep

\* There is one scheduled backup for each date, as long as two never run at one time
\* (docs/BACKUP_CONFIG.md: "La modalità scheduled non crea più di un backup daily per
\* data UTC, anche se il service viene richiamato più volte").
DailyOnce ==
  ~raced => \A a, b \in archives :
    a.reason = "daily" /\ b.reason = "daily" /\ a.at \div Day = b.at \div Day => a = b
===============================================================================
