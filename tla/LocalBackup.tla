----------------------------- MODULE LocalBackup -----------------------------
(***************************************************************************)
(* The second drive: local_backup.py and local_backup_routes.py.           *)
(*                                                                         *)
(* Protected folders are copied into snapshots named by the second, of     *)
(* which the last few are kept; the link "current" names the newest.  The  *)
(* media library is mirrored, and restored, without ever removing a file.  *)
(* One lock keeps two runs of rsync apart.                                 *)
(***************************************************************************)
EXTENDS Focus, Integers, FiniteSets

CONSTANTS
    Folders,        \* folders an admin may protect
    SlugOf,         \* folder -> the folder whose directory on the drive it uses: _slugify
                    \* gives several paths one name
    Photos,         \* files of the media library
    MaxEdits,       \* bound: versions of a folder or photo
    MaxSecond,      \* bound: the clock
    SnapshotRetention,
    Nothing

ASSUME LocalBackupAssumption ==
    /\ IsFiniteSet(Folders) /\ IsFiniteSet(Photos) /\ Nothing \notin Folders \cup Photos
    /\ SlugOf \in [Folders -> Folders]
    /\ {MaxEdits, MaxSecond} \subseteq Nat /\ SnapshotRetention \in Nat \ {0}

VARIABLES
    protected,  \* kv.json: the protected folders
    mediaOn,    \* kv.json: the media switch
    drive,      \* [active: the saved state, mounted: the truth, leaving: is an unmount under way?]
    source,     \* folder -> version on the primary drive, 0 when it is not there
    snapshots,  \* directory -> snapshots on the drive
    current,    \* directory -> the second that "current" names, or Nothing
    library,    \* photo -> version on the primary drive, 0 when it is not there
    mirror,     \* photo -> version on the drive
    second,     \* the clock
    sync,       \* the run that holds _sync_lock
    restoring,  \* the restore job
    \* History.
    wanted,     \* what the admin asked to protect, by the answers given
    covered,    \* folder -> version when its last successful sync began
    overrun     \* excuse -> folders: what went wrong that a property leaves out

vars_backup == <<protected, mediaOn, drive, source, snapshots, current, library, mirror, second,
                 sync, restoring, wanted, covered, overrun>>

NoSync == [kind |-> "none", stage |-> "idle", todo |-> {}, now |-> Nothing, at |-> 0, base |-> 0,
           list |-> {}]
Snapshot(at, of, version, whole) == [at |-> at, of |-> of, version |-> version, whole |-> whole]

BackupInit ==
    /\ protected = {}
    /\ mediaOn = FALSE
    /\ drive = [active |-> TRUE, mounted |-> TRUE, leaving |-> FALSE]
    /\ source = [f \in Folders |-> 1]
    /\ snapshots = [f \in Folders |-> {}]
    /\ current = [f \in Folders |-> Nothing]
    /\ library = [p \in Photos |-> 1]
    /\ mirror = [p \in Photos |-> 0]
    /\ second = 0
    /\ sync = NoSync
    /\ restoring = "none"
    /\ wanted = {}
    /\ covered = [f \in Folders |-> 0]
    /\ overrun = [clock |-> {}, edited |-> {}, astray |-> {}]

IsSyncing == sync.kind # "none"
Excused(f, why) == f \in overrun[why]
Sharing(f) == {g \in Folders : SlugOf[g] = SlugOf[f]}

------------------------------------------------------------------------------
\* Wrong versions of definitions below; the runs' mutants put them in place.

KeepOldest(snaps) ==
    {s \in snaps : Cardinality({t \in snaps : t.at < s.at}) < SnapshotRetention}

------------------------------------------------------------------------------
\* The admin's calls.

\* A list that a sync holds will replace what is asked for now.
Edited(f) == overrun' = [overrun EXCEPT !.edited = IF sync.kind = "docs" THEN @ \cup {f} ELSE @ \ {f}]

Protect(f) ==
    /\ source[f] # 0 /\ (IsSyncing => trouble = "list")
    /\ protected' = protected \cup {f}
    /\ wanted' = wanted \cup {f}
    /\ Edited(f)
    /\ UNCHANGED <<mediaOn, drive, source, snapshots, current, library, mirror, second, sync,
                   restoring, covered>>

Unprotect(f) ==
    /\ f \in protected /\ (IsSyncing => trouble = "list")
    /\ protected' = protected \ {f}
    /\ wanted' = wanted \ {f}
    /\ Edited(f)
    /\ UNCHANGED <<mediaOn, drive, source, snapshots, current, library, mirror, second, sync,
                   restoring, covered>>

SetMedia(on) ==
    /\ trouble \in {"photos", "rsync", "unmount", "clock"}
    /\ mediaOn # on /\ mediaOn' = on
    /\ UNCHANGED <<protected, drive, source, snapshots, current, library, mirror, second, sync,
                   restoring, wanted, covered, overrun>>

\* POST /unmount asks whether a run is under way, and then awaits the unmount.
UnmountAsked ==
    /\ trouble = "unmount"
    /\ drive.active /\ ~drive.leaving /\ ~IsSyncing
    /\ drive' = [drive EXCEPT !.leaving = TRUE]
    /\ UNCHANGED <<protected, mediaOn, source, snapshots, current, library, mirror, second, sync,
                   restoring, wanted, covered, overrun>>

\* The kernel refuses while rsync has files open, and what is not mounted.
Unmounted ==
    /\ drive.leaving
    /\ drive' = IF sync.stage = "copying" \/ ~drive.mounted THEN [drive EXCEPT !.leaving = FALSE]
                ELSE [active |-> FALSE, mounted |-> FALSE, leaving |-> FALSE]
    /\ UNCHANGED <<protected, mediaOn, source, snapshots, current, library, mirror, second, sync,
                   restoring, wanted, covered, overrun>>

------------------------------------------------------------------------------
\* The sync of the protected folders.

Locked == IsSyncing

\* sync_protected_folders: the list is read once, here.
StartDocs ==
    /\ ~Locked /\ drive.active /\ protected # {}
    /\ sync' = [NoSync EXCEPT !.kind = "docs", !.todo = protected, !.list = protected]
    /\ UNCHANGED <<protected, mediaOn, drive, source, snapshots, current, library, mirror, second,
                   restoring, wanted, covered, overrun>>

\* What became of the folder is noted in its record.
DoneWith(f) == [sync EXCEPT !.todo = @ \ {f}, !.stage = "idle"]
\* rsync then writes to the bare mount point, and succeeds.
Elsewhere == ~drive.mounted

\* _sync_one_folder, as far as rsync. A second run within the second copies into the
\* directory of the first.
BeginFolder(f) ==
    /\ sync.kind = "docs" /\ sync.stage = "idle" /\ f \in sync.todo
    /\ IF source[f] = 0
       THEN /\ sync' = DoneWith(f)
            /\ UNCHANGED <<snapshots, overrun>>
       ELSE /\ sync' = [sync EXCEPT !.stage = "copying", !.now = f, !.at = second, !.base = source[f]]
            /\ IF Elsewhere THEN UNCHANGED <<snapshots, overrun>>
               ELSE /\ snapshots' = [snapshots EXCEPT ![SlugOf[f]] =
                           {s \in @ : s.at # second} \cup {Snapshot(second, f, 0, FALSE)}]
                    /\ overrun' = [overrun EXCEPT !.clock = @ \cup
                           IF \E s \in snapshots[SlugOf[f]] : s.at = second THEN Sharing(f) ELSE {}]
    /\ UNCHANGED <<protected, mediaOn, drive, source, current, library, mirror, second, restoring,
                   wanted, covered>>

Copying(f) == sync.kind = "docs" /\ sync.stage = "copying" /\ sync.now = f

\* _prune_old_snapshots, by name.
Kept(snaps) == {s \in snaps : Cardinality({t \in snaps : t.at > s.at}) < SnapshotRetention}
Copied(f) == {s \in snapshots[SlugOf[f]] : s.at # sync.at} \cup {Snapshot(sync.at, f, source[f], TRUE)}

\* The link goes to the folder that was synced last.
EndFolder(f) ==
    /\ Copying(f) /\ source[f] # 0
    /\ IF Elsewhere
       THEN /\ overrun' = [overrun EXCEPT !.astray = @ \cup {f}]
            /\ UNCHANGED <<snapshots, current>>
       ELSE /\ snapshots' = [snapshots EXCEPT ![SlugOf[f]] = Kept(Copied(f))]
            /\ current' = [current EXCEPT ![SlugOf[f]] = sync.at]
            /\ overrun' = [overrun EXCEPT !.astray = (@ \cup Sharing(f)) \ {f}]
    /\ sync' = DoneWith(f)
    /\ covered' = [covered EXCEPT ![f] = sync.base]
    /\ UNCHANGED <<protected, mediaOn, drive, source, library, mirror, second, restoring, wanted>>

\* The copy is whole, but the link is still the old one, or removed with no new one made.
Unlinked(f) ==
    /\ Copying(f) /\ source[f] # 0
    /\ IF Elsewhere THEN UNCHANGED <<snapshots, current, overrun>>
       ELSE /\ snapshots' = [snapshots EXCEPT ![SlugOf[f]] = Copied(f)]
            /\ \/ UNCHANGED <<current, overrun>>
               \/ /\ current' = [current EXCEPT ![SlugOf[f]] = Nothing]
                  /\ overrun' = [overrun EXCEPT !.astray = @ \cup Sharing(f)]

\* unlink or symlink_to raises: the run ends, and with it the results of the other folders.
LinkFails(f) ==
    /\ trouble = "rsync" /\ Unlinked(f)
    /\ sync' = NoSync
    /\ UNCHANGED <<protected, mediaOn, drive, source, library, mirror, second, restoring, wanted,
                   covered>>

FolderFails(f) ==
    /\ Copying(f) /\ (trouble = "rsync" \/ source[f] = 0)
    /\ snapshots' = [snapshots EXCEPT ![SlugOf[f]] =
           IF Elsewhere THEN @ ELSE {s \in @ : s.at # sync.at}]
    /\ sync' = DoneWith(f)
    /\ UNCHANGED <<protected, mediaOn, drive, source, current, library, mirror, second, restoring,
                   wanted, covered, overrun>>

\* The records as they were read, with their results, replace the list.
EndDocs ==
    /\ sync.kind = "docs" /\ sync.stage = "idle" /\ sync.todo = {}
    /\ protected' = sync.list
    /\ sync' = NoSync
    /\ UNCHANGED <<mediaOn, drive, source, snapshots, current, library, mirror, second, restoring,
                   wanted, covered, overrun>>

------------------------------------------------------------------------------
\* The media library, one photo at a time.

\* sync_media_library; with little room left the run ends here.
StartMedia ==
    /\ ~Locked /\ mediaOn /\ drive.active
    /\ sync' = [NoSync EXCEPT !.kind = "media", !.todo = {p \in Photos : library[p] # 0}]
    /\ UNCHANGED <<protected, mediaOn, drive, source, snapshots, current, library, mirror, second,
                   restoring, wanted, covered, overrun>>

MirrorPhoto(p) ==
    /\ sync.kind = "media" /\ p \in sync.todo
    /\ sync' = [sync EXCEPT !.todo = @ \ {p}]
    /\ mirror' = IF Elsewhere \/ library[p] = 0 THEN mirror ELSE [mirror EXCEPT ![p] = library[p]]
    /\ UNCHANGED <<protected, mediaOn, drive, source, snapshots, current, library, second,
                   restoring, wanted, covered, overrun>>

EndMedia ==
    /\ sync.kind \in {"media", "restore"} /\ sync.stage = "idle"
    /\ sync.todo = {} \/ trouble = "rsync"
    /\ sync' = NoSync
    /\ restoring' = IF sync.kind # "restore" THEN restoring
                    ELSE IF sync.todo = {} THEN "completed" ELSE "failed"
    /\ UNCHANGED <<protected, mediaOn, drive, source, snapshots, current, library, mirror, second,
                   wanted, covered, overrun>>

\* POST /restore creates a job; its task finds the lock free or answers already_syncing,
\* which the job takes for success.
AskRestore ==
    /\ restoring = "none" /\ drive.active /\ ~IsSyncing
    /\ restoring' = "running"
    /\ UNCHANGED <<protected, mediaOn, drive, source, snapshots, current, library, mirror, second,
                   sync, wanted, covered, overrun>>

StartRestore ==
    /\ restoring = "running" /\ sync.kind # "restore"
    /\ IF Locked \/ ~drive.active
       THEN restoring' = "completed" /\ UNCHANGED sync
       ELSE /\ sync' = [NoSync EXCEPT !.kind = "restore", !.todo = {p \in Photos : mirror[p] # 0}]
            /\ UNCHANGED restoring
    /\ UNCHANGED <<protected, mediaOn, drive, source, snapshots, current, library, mirror, second,
                   wanted, covered, overrun>>

\* rsync --ignore-existing.
Missing(p) == library[p] = 0

RestorePhoto(p) ==
    /\ sync.kind = "restore" /\ p \in sync.todo
    /\ sync' = [sync EXCEPT !.todo = @ \ {p}]
    /\ library' = IF Missing(p) /\ ~Elsewhere THEN [library EXCEPT ![p] = mirror[p]] ELSE library
    /\ UNCHANGED <<protected, mediaOn, drive, source, snapshots, current, mirror, second,
                   restoring, wanted, covered, overrun>>

------------------------------------------------------------------------------
\* The family, the clock, the process.

EditFolder(f) ==
    /\ trouble = "edit"
    /\ source[f] \in 1..(MaxEdits - 1)
    /\ \E v \in {0, source[f] + 1} : source' = [source EXCEPT ![f] = v]
    /\ UNCHANGED <<protected, mediaOn, drive, snapshots, current, library, mirror, second, sync,
                   restoring, wanted, covered, overrun>>

EditPhoto(p) ==
    /\ trouble = "photos"
    /\ \E v \in {0} \cup (IF library[p] \in 1..(MaxEdits - 1) THEN {library[p] + 1} ELSE {}) :
          v # library[p] /\ library' = [library EXCEPT ![p] = v]
    /\ UNCHANGED <<protected, mediaOn, drive, source, snapshots, current, mirror, second, sync,
                   restoring, wanted, covered, overrun>>

Second ==
    /\ \/ second < MaxSecond /\ second' = second + 1 /\ UNCHANGED overrun
       \/ /\ trouble = "clock" /\ second > 0 /\ overrun.clock # Folders
          /\ second' = 0
          /\ overrun' = [overrun EXCEPT !.clock = Folders]
    /\ UNCHANGED <<protected, mediaOn, drive, source, snapshots, current, library, mirror, sync,
                   restoring, wanted, covered>>

\* try_auto_remount: the saved drive is mounted again, cannot be mounted and stays the active
\* one all the same, or is not there.
Remounted ==
    IF drive.active
    THEN \/ \E mounted \in BOOLEAN :
               drive' = [active |-> TRUE, mounted |-> mounted, leaving |-> FALSE]
         \/ drive' = [active |-> FALSE, mounted |-> FALSE, leaving |-> FALSE]
    ELSE drive' = [drive EXCEPT !.leaving = FALSE]

\* The process ends, or the board with it, at any point of a run, and starts again; the
\* restore job is not known any more.
BackupCrash ==
    /\ trouble = "crash"
    /\ sync' = NoSync
    /\ UNCHANGED <<snapshots, current, overrun>> \/ \E f \in Folders : Unlinked(f)
    /\ restoring' = IF restoring = "running" THEN "none" ELSE restoring
    /\ Remounted
    /\ UNCHANGED <<protected, mediaOn, source, library, mirror, second, wanted, covered>>

BackupNext ==
    \/ UnmountAsked \/ Unmounted \/ StartDocs \/ EndDocs \/ StartMedia \/ EndMedia
    \/ AskRestore \/ StartRestore \/ Second \/ BackupCrash
    \/ \E on \in BOOLEAN : SetMedia(on)
    \/ \E f \in Folders : Protect(f) \/ Unprotect(f) \/ BeginFolder(f) \/ EndFolder(f)
                          \/ FolderFails(f) \/ LinkFails(f) \/ EditFolder(f)
    \/ \E p \in Photos : MirrorPhoto(p) \/ RestorePhoto(p) \/ EditPhoto(p)

------------------------------------------------------------------------------
\* Properties.

\* What "current" names is there and whole, through failures, crashes in the middle of a
\* copy, left-overs of such crashes and the removal of old snapshots (local_backup.py:260-267).
\* Left out: a clock that stepped back, and two syncs in one second.
CurrentWhole ==
    \A f \in Folders :
        current[SlugOf[f]] # Nothing /\ ~Excused(f, "clock")
            => \E s \in snapshots[SlugOf[f]] : s.at = current[SlugOf[f]] /\ s.whole

\* A folder reported as synced can be read from the drive, at least as new as it was when
\* its last successful sync began (local_backup.py:230-278). Left out, until the folder's next
\* good sync: one that was reported while the drive was not mounted, since it was being
\* unmounted or could not be mounted at the start; an old link that is removed while the new
\* one fails or the process ends; and a sync of another folder whose name _slugify takes to
\* the same directory.
SyncedIsThere ==
    \A f \in Folders :
        covered[f] # 0 /\ ~Excused(f, "clock") /\ ~Excused(f, "astray")
            => \E s \in snapshots[SlugOf[f]] :
                   s.at = current[SlugOf[f]] /\ s.of = f /\ s.version >= covered[f]

\* The list of protected folders is what the admin asked for (local_backup_routes.py:194-240);
\* left out: a folder asked for, or not any more, while a sync held the list that it saves at
\* its end.
FoldersAsAsked ==
    \A f \in Folders : (f \in protected <=> f \in wanted) \/ Excused(f, "edited")

\* What the admin was told is backed up is on the drive: "current" is a whole copy, as new as
\* the last sync that reported success, of the folders that were asked for
\* (local_backup.py:224-316, local_backup_routes.py:194-240).
BackupStands == CurrentWhole /\ SyncedIsThere /\ FoldersAsAsked
=============================================================================
