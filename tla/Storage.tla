-------------------------------- MODULE Storage --------------------------------
(***************************************************************************)
(* The drives: storage_routes.py and storage_helpers.py, with the locks of *)
(* device_locks.py and the jobs of job_store.py, the mount of the backup   *)
(* drive from local_backup_routes.py, and the privileged helpers that the  *)
(* process starts through systemd (scripts/ahc-*.sh).                      *)
(*                                                                         *)
(* A handler waits at every command it runs on the host; the functions of  *)
(* the store and of device_locks never suspend.  A helper runs outside of  *)
(* the process: it goes on when its caller stops waiting or dies.          *)
(***************************************************************************)
EXTENDS Integers, Sequences, FiniteSets, SequencesExt

CONSTANTS
    Disks, Parts, DiskOf,   \* removable drives, their partitions, [Parts -> Disks]
    FirstPart,              \* the partition that a fresh table has, [Disks -> Parts]
    Requests,               \* bound: each is one call of an admin, numbered as they come
    Calls,                  \* which calls are made
    InitFs, InitMarked,     \* what is on the partitions, and whether the AHC marker is
    Mishaps,                \* "slow", "fail", "stall", "crash", "power"
    MaxCrashes,             \* bound
    Nobody                  \* no partition, no request, no snapshot

AllCalls == {"format", "activate", "erase", "mount", "unmount", "eject", "recover",
             "backup_mount", "backup_unmount"}
Targets == {"nas", "backup"}
\* "wiped" while mkfs runs and after it has failed, "gone" without a table entry.
Filesystems == {"ext4", "other", "wiped", "gone"}

ASSUME StorageAssumption ==
    /\ DiskOf \in [Parts -> Disks]
    /\ FirstPart \in [Disks -> Parts] /\ \A d \in Disks : DiskOf[FirstPart[d]] = d
    /\ InitFs \in [Parts -> Filesystems] /\ InitMarked \subseteq Parts
    /\ Calls \subseteq AllCalls /\ MaxCrashes \in Nat /\ Requests \subseteq Nat
    /\ Nobody \notin Parts \cup Requests \cup Disks
    /\ Parts \cap Disks = {}

VARIABLES
    \* The host.
    plugged,   \* the disks that are there
    fs,        \* partition -> file system
    marked,    \* the partitions that carry the marker of _write_nas_marker
    stack,     \* target -> partitions mounted there, the last on top
    mkfs,      \* helpers that are formatting: [disk, part, whole, by]
    early,     \* those of them that have looked at the mounts and not wiped anything yet
    svc,       \* do Samba and the others serve the NAS root?
    \* Files.
    state,     \* storage.json: activeDevice
    drive,     \* kv.json: the active device of the backup
    saved,     \* jobs.json: job -> status
    \* The process.
    boot,      \* where the lifespan is, "serving" after it
    found,     \* the partition the lifespan is mounting
    seen,      \* the cached answer of lsblk
    busy,      \* disk -> holder of its lock
    op,        \* request -> [call, dev, pc]
    job,       \* request -> status of the job it created
    crashes,
    \* History, for the properties.
    disturbed, \* what went wrong that a property leaves out: [what of, why]
    trusted    \* partitions an admin activated, or that bore the marker, and has not formatted
               \* since, unless storage.json still named it or it was in use

media == <<plugged, fs, marked>>
kept == <<state, drive, saved>>
proc == <<boot, found, seen, busy, op, job, crashes>>
vars == <<media, stack, mkfs, early, svc, kept, proc, disturbed, trusted>>

Idle == [call |-> "none", dev |-> Nobody, pc |-> "new"]

Init == /\ plugged = Disks
        /\ fs = InitFs
        /\ marked = InitMarked
        /\ stack = [t \in Targets |-> <<>>]
        /\ mkfs = {}
        /\ early = {}
        /\ svc = FALSE
        /\ state = Nobody
        /\ drive = Nobody
        /\ saved = [r \in Requests |-> "none"]
        /\ boot = "serving"
        /\ found = Nobody
        /\ seen = Nobody
        /\ busy = [d \in Disks |-> Nobody]
        /\ op = [r \in Requests |-> Idle]
        /\ job = [r \in Requests |-> "none"]
        /\ crashes = 0
        /\ disturbed = {}
        /\ trusted = InitMarked

Top(t) == IF stack[t] = <<>> THEN Nobody ELSE Last(stack[t])
Mounted(p) == \E t \in Targets : p \in ToSet(stack[t])
There(p) == DiskOf[p] \in plugged /\ fs[p] # "gone"
Going(r) == op[r].pc \notin {"new", "done"}
Finished == {"completed", "failed"}

At(r, pc) == op[r].pc = pc
Goto(r, pc) == op' = [op EXCEPT ![r].pc = pc]

\* Requests that have read the state, or the mount, and will still change it.
Target(r) == IF op[r].call \in {"backup_mount", "backup_unmount"} THEN "backup" ELSE "nas"
Changing(t) == {r \in Requests : Target(r) = t /\ op[r].pc \in
                  {"looking", "mounting", "mounted", "stopped", "unmounted",
                   "backup_mounting", "backup_mounted", "backup_unmounting", "backup_unmounted"}}
Overlap(r, t) == IF Changing(t) \ {r} = {} THEN {} ELSE {<<t, "overlap">>}

------------------------------------------------------------------------------
\* Wrong versions of definitions below; the runs' mutants put them in place.

LockNothing(r, d) == UNCHANGED busy
KeepLock(r) == UNCHANGED busy
NoGuard(S) == TRUE
TrustsAny == TRUE

KeepState(r) == /\ op[r].pc = "unmounted"
                /\ op' = [op EXCEPT ![r].pc = "done"]
                /\ UNCHANGED <<media, stack, mkfs, early, svc, kept, boot, found, seen, busy,
                               job, crashes, disturbed, trusted>>

KeepDrive(r) == /\ op[r].pc \in {"backup_mounted", "backup_unmounted"}
                /\ drive' = op[r].dev
                /\ op' = [op EXCEPT ![r].pc = "done"]
                /\ UNCHANGED <<media, stack, mkfs, early, svc, state, saved, boot, found, seen,
                               busy, job, crashes, disturbed, trusted>>

------------------------------------------------------------------------------
\* The host.

\* ahc_require_destructive_target: nothing in the device's subtree is mounted.
IdleTarget(S) == \A p \in S : ~Mounted(p)

\* ahc_require_mount_source, and mount(8).
CanMount(p) == There(p) /\ fs[p] \in {"ext4", "other"} /\ ~Mounted(p)

\* What a helper is about to wipe, and a mount that gets in between.
Covers(m, p) == p = m.part \/ (m.whole /\ DiskOf[p] = m.disk)
Key(m) == [disk |-> m.disk, part |-> m.part, whole |-> m.whole]
Raced(p) == IF \E m \in mkfs : Key(m) \in early /\ Covers(m, p)
            THEN {<<DiskOf[p], "checked">>} ELSE {}

Over(t) == IF stack[t] # <<>> THEN {<<t, "stacked">>} ELSE {}

\* ahc-mount-nas.sh. Its chown of the whole tree comes after the mount, so that a
\* caller that gives up after 30 s may have been told of a failure that is none.
HostMount(p, t, rc) ==
    \/ /\ rc = 0 /\ CanMount(p)
       /\ stack' = [stack EXCEPT ![t] = Append(@, p)]
       /\ disturbed' = disturbed \cup Over(t) \cup Raced(p)
    \/ /\ rc = 1 /\ (CanMount(p) => "fail" \in Mishaps)
       /\ UNCHANGED <<stack, disturbed>>
    \/ /\ rc = 1 /\ "slow" \in Mishaps /\ CanMount(p)
       /\ stack' = [stack EXCEPT ![t] = Append(@, p)]
       /\ disturbed' = disturbed \cup Raced(p) \cup
                       {<<t, "slow">>, <<IF boot = "serving" THEN t ELSE "adopt", "slow">>}

\* ahc-umount-nas.sh: a lazy umount succeeds if anything is mounted.
HostUmount(t, rc) ==
    \/ /\ rc = 0 /\ stack[t] # <<>>
       /\ stack' = [stack EXCEPT ![t] = Front(@)]
       /\ UNCHANGED disturbed
    \/ rc = 1 /\ stack[t] = <<>> /\ UNCHANGED <<stack, disturbed>>
    \/ /\ rc = 1 /\ "slow" \in Mishaps /\ stack[t] # <<>>
       /\ stack' = [stack EXCEPT ![t] = Front(@)]
       /\ disturbed' = disturbed \cup {<<t, "slow">>}

\* lsblk as it is now, and through the cache: what it once answered.
Truth == [fs |-> [p \in Parts |-> IF There(p) THEN fs[p] ELSE "gone"],
          at |-> [p \in Parts |-> IF \E t \in Targets : p \in ToSet(stack[t])
                                  THEN CHOOSE t \in Targets : p \in ToSet(stack[t])
                                  ELSE "nowhere"]]
Look(s) == s \in {Truth} \cup ({seen} \ {Nobody}) /\ seen' = s

\* GET /devices and /scan leave their answer in the cache.
ListDevices == /\ boot = "serving" /\ seen # Truth
               /\ seen' = Truth
               /\ UNCHANGED <<media, stack, mkfs, early, svc, kept, boot, found, busy, op, job,
                              crashes, disturbed, trusted>>

Fstype(s, p) == s.fs[p] \in {"ext4", "other"}
OnDisk(d) == {p \in Parts : DiskOf[p] = d}

------------------------------------------------------------------------------
\* device_locks.py and job_store.py.

Claim(r, d) == busy' = [busy EXCEPT ![d] = r]
DiskNamed(x) == IF x \in Disks THEN x ELSE DiskOf[x]

\* release() takes the lock away whoever holds it; only the two jobs that format call it.
Release(r) == busy' = IF op[r].call \in {"format", "erase"}
                      THEN [busy EXCEPT ![DiskNamed(op[r].dev)] = Nobody] ELSE busy

\* _purge_old_jobs drops finished jobs by age and by number.
CreateJob(r) ==
    \E gone \in SUBSET {x \in Requests : job[x] \in Finished} :
        job' = [x \in Requests |-> IF x = r THEN "running"
                                   ELSE IF x \in gone THEN "none" ELSE job[x]]

\* update_job, which saves every finished job when one finishes.
EndJob(r, status) ==
    LET after == IF job[r] = "none" THEN job ELSE [job EXCEPT ![r] = status]
    IN /\ job' = after
       /\ saved' = IF job[r] = "none" THEN saved
                   ELSE [x \in Requests |-> IF after[x] \in Finished THEN after[x] ELSE "none"]

\* The end of a job: its status, its lock, its request.
Conclude(r, status) == EndJob(r, status) /\ Release(r) /\ Goto(r, "done")

------------------------------------------------------------------------------
\* POST /format, and POST /smart-activate with format=True ("erase").

Served(r, call) == /\ boot = "serving" /\ op[r] = Idle /\ call \in Calls
                   /\ \A q \in Requests : q < r => op[q] # Idle
Begin(r, call, dev, pc) == op' = [op EXCEPT ![r] = [call |-> call, dev |-> dev, pc |-> pc]]

\* The snapshot may be old; the lock is what is asked now.
Format(r, p) ==
    /\ Served(r, "format")
    /\ \E s \in {Truth, seen} \ {Nobody} :
          Look(s) /\ s.fs[p] # "gone" /\ s.at[p] = "nowhere"
    /\ busy[DiskOf[p]] = Nobody
    /\ Claim(r, DiskOf[p])
    /\ CreateJob(r)
    /\ Begin(r, "format", p, "formatting")
    /\ UNCHANGED <<media, stack, mkfs, early, svc, kept, boot, found, crashes, disturbed,
                   trusted>>

AlreadyActive(d) == state # Nobody /\ DiskOf[state] = d

Activate(r, d) ==
    \E call \in {"activate", "erase"} :
        /\ Served(r, call)
        /\ ~AlreadyActive(d)
        /\ Begin(r, call, d, "looking")
        /\ disturbed' = disturbed \cup Overlap(r, "nas")
        /\ UNCHANGED <<media, stack, mkfs, early, svc, kept, boot, found, seen, busy, job,
                       crashes, trusted>>

EraseLook(r) ==
    /\ At(r, "looking") /\ op[r].call = "erase"
    /\ \E s \in {Truth, seen} \ {Nobody} : Look(s)
    /\ \/ /\ op[r].dev \in plugged /\ busy[op[r].dev] = Nobody
          /\ Claim(r, op[r].dev)
          /\ CreateJob(r)
          /\ Goto(r, "formatting")
       \/ /\ op[r].dev \notin plugged \/ busy[op[r].dev] # Nobody
          /\ Goto(r, "done")
          /\ UNCHANGED <<busy, job>>
    /\ UNCHANGED <<media, stack, mkfs, early, svc, kept, boot, found, crashes, disturbed,
                   trusted>>

\* The helper that a request asks for: mkfs of a partition, or of a disk from the
\* partition table on.
Whole(r) == op[r].call = "erase"
DiskAsked(r) == DiskNamed(op[r].dev)
Subtree(r) == IF Whole(r) THEN OnDisk(op[r].dev) ELSE {op[r].dev}
Made(r) == IF Whole(r) THEN FirstPart[op[r].dev] ELSE op[r].dev
Helper(r, by) == [disk |-> DiskAsked(r), part |-> Made(r), whole |-> Whole(r), by |-> by]

\* Another helper on the disk has outlived its request.
Beside(r) == IF \E m \in mkfs \ {Helper(r, Nobody)} : m.disk = DiskAsked(r)
             THEN {<<DiskAsked(r), "shared">>} ELSE {}

\* A unit that still runs for somebody who has gone is joined, not started twice. A new
\* one looks at the mounts, once, and wipes in a step of its own.
StartHelper(r) ==
    /\ At(r, "formatting")
    /\ \/ /\ Helper(r, Nobody) \in mkfs
          /\ mkfs' = (mkfs \ {Helper(r, Nobody)}) \cup {Helper(r, r)}
          /\ Goto(r, "mkfs")
          /\ disturbed' = disturbed \cup Beside(r)
          /\ UNCHANGED <<early, busy, job, saved>>
       \/ /\ Helper(r, Nobody) \notin mkfs
          /\ DiskAsked(r) \in plugged /\ IdleTarget(Subtree(r))
          /\ mkfs' = mkfs \cup {Helper(r, r)}
          /\ early' = early \cup {Key(Helper(r, r))}
          /\ Goto(r, "mkfs")
          /\ disturbed' = disturbed \cup Beside(r)
          /\ UNCHANGED <<busy, job, saved>>
       \/ /\ Helper(r, Nobody) \notin mkfs
          /\ DiskAsked(r) \notin plugged \/ ~IdleTarget(Subtree(r))
          /\ Conclude(r, "failed")
          /\ UNCHANGED <<mkfs, early, disturbed>>
    /\ UNCHANGED <<media, stack, svc, state, drive, boot, found, seen, crashes, trusted>>

\* sgdisk and mkfs ask nobody again whether the disk is mounted.
HelperWipes(m) ==
    /\ m \in mkfs /\ Key(m) \in early /\ m.disk \in plugged
    /\ early' = early \ {Key(m)}
    /\ fs' = [p \in Parts |-> IF p = m.part THEN "wiped"
                              ELSE IF Covers(m, p) THEN "gone" ELSE fs[p]]
    /\ marked' = {p \in marked : ~Covers(m, p)}
    /\ trusted' = {p \in trusted : Covers(m, p) => p = state \/ Mounted(p)}
    /\ UNCHANGED <<plugged, stack, mkfs, svc, kept, proc, disturbed>>

HelperEnds(m) ==
    /\ m \in mkfs
    /\ disturbed' = disturbed \cup IF m.by # Nobody /\ m.whole THEN Overlap(m.by, "nas") ELSE {}
    /\ mkfs' = mkfs \ {m}
    /\ early' = early \ {Key(m)}
    /\ \/ /\ m.disk \in plugged /\ Key(m) \notin early
          /\ fs' = [fs EXCEPT ![m.part] = "ext4"]
          /\ IF m.by = Nobody THEN UNCHANGED <<op, job, busy, saved>>
             ELSE IF m.whole
                  THEN /\ op' = [op EXCEPT ![m.by].dev = m.part, ![m.by].pc = "mounting"]
                       /\ UNCHANGED <<job, busy, saved>>
                  ELSE Conclude(m.by, "completed")
       \/ /\ "fail" \in Mishaps \/ m.disk \notin plugged
          /\ UNCHANGED fs
          /\ IF m.by = Nobody THEN UNCHANGED <<op, job, busy, saved>>
             ELSE Conclude(m.by, "failed")
    /\ UNCHANGED <<plugged, marked, stack, svc, state, drive, boot, found, seen, crashes,
                   trusted>>

\* run_command and wait_for give up after 10 minutes; the helper does not.
HelperStalls(r) ==
    /\ "stall" \in Mishaps
    /\ At(r, "mkfs")
    /\ mkfs' = {IF m.by = r THEN [m EXCEPT !.by = Nobody] ELSE m : m \in mkfs}
    /\ Conclude(r, "failed")
    /\ UNCHANGED <<media, stack, early, svc, state, drive, boot, found, seen, crashes,
                   disturbed, trusted>>

------------------------------------------------------------------------------
\* Mounting at the NAS root: smart-activate as is, /mount, /recover, and the end
\* of an erase.

Best(s, d) ==
    LET usable == {p \in OnDisk(d) : s.fs[p] # "gone"}
        ext4 == {p \in usable : s.fs[p] = "ext4"}
    IN IF ext4 # {} THEN ext4 ELSE usable

\* An answer from the cache may say that p is at the NAS root when it no longer is:
\* nothing is mounted then, and what comes after a mount is done all the same.
ActivateLook(r) ==
    /\ At(r, "looking") /\ op[r].call = "activate"
    /\ \E s \in {Truth, seen} \ {Nobody} :
          /\ Look(s)
          /\ \/ \E p \in Best(s, op[r].dev) :
                   /\ Fstype(s, p)
                   /\ op' = [op EXCEPT ![r].dev = p,
                                ![r].pc = IF s.at[p] = "nas" THEN "mounted" ELSE "mounting"]
                   /\ disturbed' = disturbed \cup (IF s.at[p] = "nas" /\ Top("nas") # p
                                                  THEN {<<"nas", "stale">>} ELSE {})
             \/ /\ \A p \in Best(s, op[r].dev) : ~Fstype(s, p)
                /\ Goto(r, "done")
                /\ UNCHANGED disturbed
    /\ UNCHANGED <<media, stack, mkfs, early, svc, kept, boot, found, busy, job, crashes,
                   trusted>>

Mount(r, p) ==
    /\ Served(r, "mount")
    /\ state = Nobody
    /\ Begin(r, "mount", p, "looking")
    /\ disturbed' = disturbed \cup Overlap(r, "nas")
    /\ UNCHANGED <<media, stack, mkfs, early, svc, kept, boot, found, seen, busy, job, crashes,
                   trusted>>

\* A backup drive has to be ext4.
MountLook(r) ==
    /\ At(r, "looking") /\ op[r].call \in {"mount", "backup_mount"}
    /\ \E s \in {Truth, seen} \ {Nobody} :
          /\ Look(s)
          /\ LET fit == IF op[r].call = "mount" THEN Fstype(s, op[r].dev)
                        ELSE s.fs[op[r].dev] = "ext4"
             IN Goto(r, IF ~fit THEN "done"
                        ELSE IF op[r].call = "mount" THEN "mounting" ELSE "backup_mounting")
    /\ UNCHANGED <<media, stack, mkfs, early, svc, kept, boot, found, busy, job, crashes,
                   disturbed, trusted>>

\* _scan_for_unmounted_nas_drive: what is at the NAS root, or any free ext4 partition.
Candidates ==
    LET ext4 == {p \in Parts : There(p) /\ fs[p] = "ext4"}
        here == {p \in ext4 : p \in ToSet(stack["nas"])}
    IN IF here # {} THEN here ELSE {p \in ext4 : ~Mounted(p)}

Recover(r) ==
    /\ Served(r, "recover")
    /\ stack["nas"] = <<>>
    /\ \E p \in Candidates : Begin(r, "recover", p, "mounting")
    /\ seen' = Truth
    /\ disturbed' = disturbed \cup Overlap(r, "nas")
    /\ UNCHANGED <<media, stack, mkfs, early, svc, kept, boot, found, busy, job, crashes,
                   trusted>>

MountNas(r) ==
    /\ At(r, "mounting")
    /\ \E rc \in {0, 1} :
          /\ HostMount(op[r].dev, "nas", rc)
          /\ IF rc = 0 THEN Goto(r, "mounted") /\ UNCHANGED <<busy, job, saved>>
             ELSE Conclude(r, "failed")
    /\ trusted' = trusted \cup {op[r].dev}
    /\ UNCHANGED <<media, mkfs, early, svc, state, drive, boot, found, seen, crashes>>

\* The folders are made, the marker is written to whatever is at the NAS root now,
\* and the state is saved; /mount and /recover write no marker. A folder or the save
\* can fail, before or after the marker, and nothing unmounts the drive again.
Marks(r) == IF op[r].call \in {"activate", "erase"} THEN {Top("nas")} \ {Nobody} ELSE {}

Settle(r) ==
    /\ At(r, "mounted")
    /\ \/ /\ state' = op[r].dev
          /\ marked' = marked \cup Marks(r)
          /\ trusted' = trusted \cup Marks(r) \cup {op[r].dev}
          /\ Goto(r, "starting")
          /\ UNCHANGED <<saved, busy, job, disturbed>>
       \/ /\ "fail" \in Mishaps
          /\ marked' \in {marked, marked \cup Marks(r)}
          /\ trusted' = trusted \cup Marks(r)
          /\ disturbed' = disturbed \cup {<<"nas", "unsaved">>}
          /\ Conclude(r, "failed")
          /\ UNCHANGED state
    /\ UNCHANGED <<plugged, fs, stack, mkfs, early, svc, drive, boot, found, seen, crashes>>

StartServices(r) ==
    /\ At(r, "starting")
    /\ svc' = TRUE
    /\ Conclude(r, "completed")
    /\ UNCHANGED <<media, stack, mkfs, early, state, drive, boot, found, seen, crashes, disturbed,
                   trusted>>

------------------------------------------------------------------------------
\* /unmount and /eject, and the backup drive.

\* do_unmount reads the state and stops the services.
StopServices(r, call, x) ==
    /\ state # Nobody
    /\ svc' = FALSE
    /\ Begin(r, call, x, "stopped")
    /\ disturbed' = disturbed \cup Overlap(r, "nas")
    /\ UNCHANGED plugged

Unmount(r) ==
    /\ Served(r, "unmount")
    /\ StopServices(r, "unmount", state)
    /\ UNCHANGED <<fs, marked, stack, mkfs, early, kept, boot, found, seen, busy, job, crashes,
                   trusted>>

PowerOff(x) == plugged' = plugged \ {DiskNamed(x)}

\* The device may be named by its disk, or by another partition of it.
Eject(r, x) ==
    /\ Served(r, "eject")
    /\ \/ /\ x = state
          /\ StopServices(r, "eject", x)
       \/ /\ x # state
          /\ PowerOff(x)
          /\ Begin(r, "eject", x, "done")
          /\ UNCHANGED <<svc, disturbed>>
    /\ UNCHANGED <<fs, marked, stack, mkfs, early, kept, boot, found, seen, busy, job, crashes,
                   trusted>>

UmountNas(r) ==
    /\ At(r, "stopped")
    /\ \E rc \in {0, 1} : /\ HostUmount("nas", rc)
                          /\ Goto(r, IF rc = 0 THEN "unmounted" ELSE "done")
    /\ UNCHANGED <<media, mkfs, early, svc, kept, boot, found, seen, busy, job, crashes, trusted>>

ClearState(r) ==
    /\ At(r, "unmounted")
    /\ \/ /\ state' = Nobody
          /\ IF op[r].call = "eject" THEN PowerOff(op[r].dev) ELSE UNCHANGED plugged
          /\ UNCHANGED disturbed
       \/ /\ "fail" \in Mishaps
          /\ disturbed' = disturbed \cup {<<"nas", "unsaved">>}
          /\ UNCHANGED <<state, plugged>>
    /\ Goto(r, "done")
    /\ UNCHANGED <<fs, marked, stack, mkfs, early, svc, drive, saved, boot, found, seen, busy,
                   job, crashes, trusted>>

\* Only the very partition of the NAS is refused.
BackupMount(r, p) ==
    /\ Served(r, "backup_mount")
    /\ drive = Nobody /\ state # p
    /\ Begin(r, "backup_mount", p, "looking")
    /\ disturbed' = disturbed \cup Overlap(r, "backup")
    /\ UNCHANGED <<media, stack, mkfs, early, svc, kept, boot, found, seen, busy, job, crashes,
                   trusted>>

BackupUnmount(r) ==
    /\ Served(r, "backup_unmount")
    /\ drive # Nobody
    /\ Begin(r, "backup_unmount", drive, "backup_unmounting")
    /\ disturbed' = disturbed \cup Overlap(r, "backup")
    /\ UNCHANGED <<media, stack, mkfs, early, svc, kept, boot, found, seen, busy, job, crashes,
                   trusted>>

BackupHost(r) ==
    /\ \E rc \in {0, 1} :
          \/ /\ At(r, "backup_mounting")
             /\ HostMount(op[r].dev, "backup", rc)
             /\ Goto(r, IF rc = 0 THEN "backup_mounted" ELSE "done")
          \/ /\ At(r, "backup_unmounting")
             /\ HostUmount("backup", rc)
             /\ Goto(r, IF rc = 0 THEN "backup_unmounted" ELSE "done")
    /\ UNCHANGED <<media, mkfs, early, svc, kept, boot, found, seen, busy, job, crashes, trusted>>

BackupSave(r) ==
    /\ op[r].pc \in {"backup_mounted", "backup_unmounted"}
    /\ \/ /\ drive' = IF At(r, "backup_mounted") THEN op[r].dev ELSE Nobody
          /\ UNCHANGED disturbed
       \/ /\ "fail" \in Mishaps
          /\ disturbed' = disturbed \cup {<<"backup", "unsaved">>}
          /\ UNCHANGED drive
    /\ Goto(r, "done")
    /\ UNCHANGED <<media, stack, mkfs, early, svc, state, saved, boot, found, seen, busy, job,
                   crashes, trusted>>

------------------------------------------------------------------------------
\* The lifespan, before the first request: try_auto_remount of the NAS, then of
\* the backup drive. Nothing runs beside it.

BootStep(from, to) == boot = from /\ boot' = to
Busyless == UNCHANGED <<seen, busy, op, job, crashes>>

\* What is mounted wins over what was saved; the first of two mounts is the one below.
\* A saved device that is not there is forgotten.
BootBegin ==
    /\ boot = "down"
    /\ boot' = IF stack["nas"] # <<>> THEN "backup"
               ELSE IF state # Nobody /\ There(state) THEN "mount" ELSE "scan"
    /\ state' = IF stack["nas"] # <<>> THEN Head(stack["nas"])
                ELSE IF state # Nobody /\ There(state) THEN state ELSE Nobody
    /\ found' = IF boot' = "mount" THEN state ELSE Nobody
    /\ disturbed' = {why \in disturbed : why[1] \in {"adopt"} \cup Disks}
                    \cup (IF svc /\ stack["nas"] = <<>> THEN {<<"adopt", "leftover">>} ELSE {})
                    \cup {<<t, "stacked">> : t \in {u \in Targets : Len(stack[u]) > 1}}
    /\ Busyless
    /\ UNCHANGED <<media, stack, mkfs, early, svc, drive, saved, trusted>>

\* A folder or the save can fail once the drive is there: the start gives up on the NAS
\* and goes on, with the drive mounted and no service started.
BootUnsaved ==
    /\ "fail" \in Mishaps /\ CanMount(found)
    /\ stack' = [stack EXCEPT !["nas"] = Append(@, found)]
    /\ disturbed' = disturbed \cup Over("nas") \cup Raced(found) \cup
                    (IF state = found THEN {} ELSE {<<"nas", "unsaved">>, <<"adopt", "unsaved">>})
    /\ boot' = "backup"
    /\ UNCHANGED <<state, svc, marked>>

\* _do_mount_device saves the state as soon as the mount is there. A saved device is
\* served and marked; a device found by the scan waits for the look at its marker.
BootMount ==
    /\ boot = "mount"
    /\ BootUnsaved \/ \E rc \in {0, 1} :
          /\ HostMount(found, "nas", rc)
          /\ IF rc = 0
             THEN /\ state' = found
                  /\ boot' = IF state = found THEN "backup" ELSE "check"
                  /\ svc' = (svc \/ state = found)
                  /\ marked' = IF state = found THEN marked \cup {found} ELSE marked
             ELSE /\ state' = Nobody
                  /\ boot' = IF state = found THEN "scan" ELSE "backup"
                  /\ UNCHANGED <<svc, marked>>
    /\ Busyless
    /\ UNCHANGED <<plugged, fs, mkfs, early, drive, saved, found, trusted>>

BootScan ==
    /\ boot = "scan"
    /\ \/ \E p \in Candidates : found' = p /\ boot' = "mount"
       \/ Candidates = {} /\ boot' = "backup" /\ UNCHANGED found
    /\ Busyless
    /\ UNCHANGED <<media, stack, mkfs, early, svc, kept, disturbed, trusted>>

HasMarker == Top("nas") \in marked

BootCheck ==
    /\ BootStep("check", IF HasMarker THEN "backup" ELSE "reject")
    /\ svc' = (svc \/ HasMarker)
    /\ Busyless
    /\ UNCHANGED <<media, stack, mkfs, early, kept, found, disturbed, trusted>>

\* The state is cleared whether or not the unmount succeeds.
BootReject ==
    /\ BootStep("reject", "backup")
    /\ \E rc \in {0, 1} : HostUmount("nas", rc)
    /\ state' = Nobody
    /\ Busyless
    /\ UNCHANGED <<media, mkfs, early, svc, drive, saved, found, trusted>>

\* A backup drive that is there and cannot be mounted stays in the state.
BootBackup ==
    /\ BootStep("backup", "serving")
    /\ IF drive = Nobody \/ drive \in ToSet(stack["backup"])
       THEN UNCHANGED <<drive, stack, disturbed>>
       ELSE \/ ~There(drive) /\ drive' = Nobody /\ UNCHANGED <<stack, disturbed>>
            \/ /\ There(drive) /\ UNCHANGED drive
               /\ \/ HostMount(drive, "backup", 0)
                  \/ /\ ~CanMount(drive) \/ "fail" \in Mishaps
                     /\ disturbed' = disturbed \cup {<<"backup", "left">>}
                     /\ UNCHANGED stack
    /\ found' = Nobody
    /\ Busyless
    /\ UNCHANGED <<media, mkfs, early, svc, state, saved, trusted>>

Boot == BootBegin \/ BootMount \/ BootScan \/ BootCheck \/ BootReject \/ BootBackup

------------------------------------------------------------------------------
\* The process dies: requests, locks and unsaved jobs are gone, and so is the cache;
\* mounts, services and helpers go on. When the power goes, those go too, and what
\* was plugged in may have been taken out.

Dies(kind) ==
    /\ kind \in Mishaps /\ crashes < MaxCrashes
    /\ boot # "down"
    /\ boot' = "down"
    /\ crashes' = crashes + 1
    /\ op' = [r \in Requests |-> IF Going(r) THEN [op[r] EXCEPT !.pc = "done"] ELSE op[r]]
    /\ job' = saved
    /\ busy' = [d \in Disks |-> Nobody]
    /\ seen' = Nobody
    /\ found' = Nobody
    /\ disturbed' = disturbed \cup
                    (IF boot \in {"check", "reject"} THEN {<<"adopt", "died">>} ELSE {})
    /\ UNCHANGED <<fs, marked, kept, trusted>>

Crash == /\ Dies("crash")
         /\ mkfs' = {[m EXCEPT !.by = Nobody] : m \in mkfs}
         /\ UNCHANGED <<plugged, stack, early, svc>>

Power == /\ Dies("power")
         /\ mkfs' = {} /\ early' = {}
         /\ stack' = [t \in Targets |-> <<>>]
         /\ svc' = FALSE
         /\ plugged' \in {plugged, Disks}

\* A disk comes back once nothing of it is mounted any more.
Plug(d) == /\ d \notin plugged /\ \A p \in OnDisk(d) : ~Mounted(p)
           /\ plugged' = plugged \cup {d}
           /\ UNCHANGED <<fs, marked, stack, mkfs, early, svc, kept, proc, disturbed, trusted>>

Step(r) == \/ EraseLook(r) \/ StartHelper(r) \/ HelperStalls(r)
           \/ ActivateLook(r) \/ MountLook(r) \/ MountNas(r) \/ Settle(r) \/ StartServices(r)
           \/ UmountNas(r) \/ ClearState(r) \/ BackupHost(r) \/ BackupSave(r)

Call(r) == \/ \E p \in Parts : Format(r, p) \/ Mount(r, p) \/ BackupMount(r, p)
           \/ \E d \in Disks : Activate(r, d)
           \/ \E x \in Parts \cup Disks : Eject(r, x)
           \/ Recover(r) \/ Unmount(r) \/ BackupUnmount(r)

Next == \/ \E r \in Requests : Call(r) \/ Step(r)
        \/ \E m \in mkfs : HelperWipes(m) \/ HelperEnds(m)
        \/ ListDevices
        \/ Boot
        \/ Crash \/ Power
        \/ \E d \in Disks : Plug(d)

\* A command on the host returns or its caller gives up on it, and the supervisor
\* starts the process again.
HelperOf(r) == HelperStalls(r) \/ \E m \in mkfs : m.by = r /\ (HelperWipes(m) \/ HelperEnds(m))
Fairness == /\ \A r \in Requests : WF_vars(Step(r) \/ HelperOf(r))
            /\ WF_vars(Boot)

Spec == Init /\ [][Next]_vars
FairSpec == Spec /\ Fairness

------------------------------------------------------------------------------
\* Properties.

\* The types of the variables.
Phases == {"new", "looking", "formatting", "mkfs", "mounting", "mounted", "starting", "stopped",
           "unmounted", "backup_mounting", "backup_mounted", "backup_unmounting",
           "backup_unmounted", "done"}
Ops == [call : AllCalls \cup {"none"}, dev : Parts \cup Disks \cup {Nobody}, pc : Phases]
Helpers == [disk : Disks, part : Parts, whole : BOOLEAN, by : Requests \cup {Nobody}]
TypeOK == /\ plugged \subseteq Disks /\ fs \in [Parts -> Filesystems]
          /\ marked \subseteq Parts /\ trusted \subseteq Parts
          /\ stack \in [Targets -> Seq(Parts)] /\ svc \in BOOLEAN
          /\ mkfs \subseteq Helpers /\ early \subseteq [disk : Disks, part : Parts, whole : BOOLEAN]
          /\ {state, drive, found} \subseteq Parts \cup {Nobody}
          /\ busy \in [Disks -> Requests \cup {Nobody}]
          /\ job \in [Requests -> {"none", "running"} \cup Finished]
          /\ saved \in [Requests -> {"none"} \cup Finished]
          /\ op \in [Requests -> Ops]

\* One disk is formatted by one request at a time, which holds its lock: two helpers
\* meet on a disk only if one of them has outlived its request (device_locks.py,
\* storage_routes.py:350 and 398). The release is by disk, not by holder.
OneFormatter ==
    /\ \A m \in mkfs : m.by # Nobody => busy[m.disk] = m.by
    /\ \A m, n \in mkfs : m.disk = n.disk /\ m # n => Nobody \in {m.by, n.by}

\* Nothing that is mounted is being formatted, although the check of the mount is made
\* before the lock is taken, on an old list of the devices, and a mount takes no lock.
\* Left out, by name: a drive that is mounted after the helper has looked at the mounts
\* and before it wipes, which nothing in the code rules out
\* (scripts/ahc-partition-format-nas.sh:16-17); and a helper started on a disk beside one
\* that has outlived its request, since what either makes can be mounted while the other runs.
Undisturbed(t) == ~\E why \in disturbed : why[1] = t
NothingWipedInUse ==
    \A m \in mkfs : Undisturbed(m.disk) => \A p \in Parts : Covers(m, p) => ~Mounted(p)

\* Between requests storage.json names what is mounted at the NAS root, also after
\* any crash and the start that follows it, unless two requests changed it at once,
\* one drive was mounted over another, the caller gave up on a mount that worked, a
\* drive was activated on a cached list of the mounts from before an unmount, or a folder
\* or the save itself failed after a mount or an unmount: nothing then undoes the mount
\* (storage_routes.py:119-123, 450-455), and only the next start of the process repairs it.
NasAgrees ==
    boot = "serving" /\ Changing("nas") = {} /\ Undisturbed("nas") => state = Top("nas")

\* The same of the backup drive, but that a failed save after its unmount, and a failure to
\* mount it when the process starts, leave the state as it was (local_backup.py:160).
DriveAgrees ==
    boot = "serving" /\ Changing("backup") = {} /\ Undisturbed("backup")
        => drive \in {Top("backup"), Nobody}

StateAgrees == NasAgrees /\ DriveAgrees

\* What Samba and the others serve was activated by an admin or bore the marker
\* (storage_routes.py:96-98). Left out: a start that dies between the save of the
\* adopted drive and the look at its marker, one that gives up on a mount that worked, one
\* that cannot make a folder on the adopted drive or save it and leaves it mounted,
\* and one that finds the services running with nothing mounted, as a mount and an
\* unmount at once can leave them; and a drive that was formatted while storage.json
\* still named it, after an unmount that was given up, which the next start serves again.
StrangersNotServed ==
    svc /\ Undisturbed("adopt") /\ stack["nas"] # <<>> => Top("nas") \in trusted

\* Every job ends and gives its lock back, whatever becomes of the helper, the request
\* and the process.
JobsEnd == \A r \in Requests :
    (job[r] = "running" \/ \E d \in Disks : busy[d] = r)
        ~> (job[r] # "running" /\ \A d \in Disks : busy[d] # r)
=============================================================================
