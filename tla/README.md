# Verification of the AiHomeCloud server

This directory holds TLA+ specifications of the server, the TLC configurations
that check them on small instances, and proofs, checked by TLAPS, of what holds
for every instance. The definitions are translated from the Python code under
`app/`; `PROJECT.json` names, for each of them, the lines it stands for.

    tlc -workers 2 -config Storage.cfg StorageMC     # a run
    tlapm StorageProofs.tla                          # a proof

## 1. The system

A single process (FastAPI on one asyncio event loop, with a pool of executor
threads) serves a family's files from one disk. Handlers are coroutines, so what
happens between two awaits is atomic with respect to other handlers and not with
respect to the threads. The disk is shared with SMB clients the process knows
nothing of; privileged work is done by helpers that run outside the process; and
the board loses power without warning.

### Components

| component | state it keeps | operations | talks to |
|---|---|---|---|
| ingest (`ingest.py`) | `.uploading` temp files, files | `ingest`, `stream_to_temp` | media index, allocator; called by both upload routes, Telegram |
| bucket allocator (`media_index.py`, `file_sorter.py`) | table `buckets`, leaf directories | `allocate_bucket_sync`, `repair_bucket_counts` | called by ingest, the sorter, the reconciler |
| upload idempotency (`upload_idempotency.py`) | table `upload_keys` | `begin`, `finish`, `abandon`, `prune` | called by `POST /upload` and the lifespan |
| upload guard (`upload_guard.py`) | a byte count per request | counting `receive`, guarded `send` | wraps every handler |
| media index (`media_index.py`) | `blobs`, `entries`, playback positions | record, find by hash, mark deleted, rename owner, positions | written by ingest, deletes, reconciler |
| media reconciler (`media_reconciler.py`) | none | the nightly pass | media index, disk, allocator |
| trash (`trash_routes.py`, `_soft_delete_resolved`) | `trash.json`, `.ahc_trash/` | delete, restore, permanent delete, purge | json store, media index |
| json store (`store.py`) | JSON files, a 5 s cache | read, write, atomic updates | everything with settings or users |
| accounts (`auth.py`, `auth_routes.py`, `family_routes.py`) | users, PINs, refresh tokens, setup marker, lockouts | create, login, refresh, change PIN, roles, remove | json store, folders, sessions |
| jobs (`job_store.py`), device locks (`device_locks.py`), storage (`storage_routes.py`, `storage_helpers.py`) | job table, busy disks, `storage.json`, the mount, the marker | format, mount, unmount, eject, recover, smart-activate, boot | each other, systemd helpers, Samba |
| inbox sorter (`file_sorter.py`) | the inboxes | the sort pass | allocator, document index, Telegram uploads |
| document index (`document_index.py`, `index_watcher.py`) | `doc_index`, the watcher's state file | index, prune, sweep, re-scan, rename | uploads, deletes, restores, OCR |
| semantic indexer (`semantic_indexer.py`, `vector_store.py`, `vector_index.py`), workload gate (`workload.py`) | a table per shard, approximate indexes, matrices in memory, one run and its pending request; activity | request, run, search, migrate; track, gate | media index, jobs, providers |
| duplicate scanner (`duplicate_scanner.py`, `search_handlers.py`) | two result lists, white lists | scan, review, clean-up | trash, Telegram |
| local backup (`local_backup.py`, `local_backup_routes.py`) | protected folders, snapshots, the link `current`, the mirror | protect, sync, restore, unmount | json store, rsync, storage |
| Telegram bot (`telegram/`, `telegram_bot.py`, `telegram_routes.py`) | linked chats and their folders, pending approvals, uploads and questions, the bot task, a systemd service | link, approve, upload, keep or skip, set up a local server | accounts (by name), ingest's index, sorter, duplicates |
| Wi-Fi (`wifi_manager.py`, `network_routes.py`) | the override, profiles, staged files | toggle, connect, forget, hotspot, monitor | NetworkManager |
| file events, web portal, TLS, other system wrappers, server shell | see `PROJECT.json` | | |

### What is hard in it

* **Retries.** A phone cannot tell a lost upload from a lost answer. It retries,
  perhaps while the first request is still being served (upload idempotency).
* **Await points.** A free file name is looked for before an await and taken after
  it; a delete moves the file and tells the index later; the nightly pass, a scan for
  duplicates and the run of the semantic index act for minutes or hours on what they
  read (ingest, media library, documents, duplicates, semantic index).
* **Helpers that outlive their request.** A format, a mount or an rsync goes on when
  its caller has timed out, was cancelled or died (storage, local backup).
* **Two stores.** Files, SQLite tables, JSON files, a systemd service and the memory
  of the process are written one after the other, and the process may die between
  any two (media library, storage, accounts, Telegram, local server).
* **Caches.** Lists of profiles are changed in place before they are saved; the list
  of block devices is some seconds old; matrices of vectors are kept beside the
  tables they were read from (accounts, storage, semantic index).
* **Names.** Chats are bound to the name of a member, backups and profiles to a
  cleaned-up name, temp files to the name a client sent; names change hands and
  coincide (Telegram, local backup, Wi-Fi, ingest).
* **Reservations.** The allocator counts what will arrive, the repair counts what
  is there (bucket allocator).
* **Power loss** between the write of the bytes and the rename (ingest), or in the
  middle of a format (storage).

What makes the components correct: an acknowledged upload is on disk, whole and
once; nothing leaves the disk unless somebody destroyed it; no drive in use is
formatted and no stranger's drive is served; the state files agree with the mounts;
the house keeps an admin, and a changed PIN stays changed; what is reported as backed
up is on the drive; the indexes end up agreeing with the disk; background work ends.
These are the properties below.

## 2. The modules

| module | what it is |
|---|---|
| `UploadClaim` | abstract: a lock per key that is taken, given up, completed, lost by a restart |
| `UploadIdempotency` | the key table and the handler around it; implements `UploadClaim` |
| `BucketAllocator` | the table `buckets` of one bucket key, its writers and the repair |
| `Ingest`, `IngestMC` | every upload, from the first byte to the answer; EXTENDS `BucketAllocator`, whose writers the uploads are, and implements its specification |
| `MediaLibrary`, `MediaLibraryMC` | files, index, trash, deletes, restores, renames and the reconciler |
| `Storage`, `StorageMC` | drives, disk locks, jobs, helpers, the boot, the backup drive's mount |
| `Focus` | one part of the server under one trouble, chosen at the start of a behaviour |
| `Accounts` | profiles, PINs, sessions, the cached list, the setup marker |
| `LocalBackup` | protected folders, snapshots, the mirror, restore |
| `Documents` | the table of texts, the watcher's sweep, the re-scan |
| `Duplicates` | the scan, its results, the review in the chats of admins |
| `TelegramChats` | who may use the bot and as whom |
| `TelegramUploads` | files sent to the bot, and the questions about duplicates |
| `TelegramRecent` | the list of files sent last, and the buttons that delete them |
| `Positions` | where each member got to in each film |
| `Household`, `HouseholdMC` | composes the eight modules before it |
| `SemanticIndex` | the run, the shards, the approximate index, the cache, the gate |
| `Wifi` | the radio, its monitor, networks, the hotspot |
| `LocalApi` | the jobs that set up a local Bot API server; restarts of the bot |
| `Background`, `BackgroundMC` | composes the three modules before it |
| `UploadIdempotencyProofs`, `BucketProofs`, `IngestProofs`, `MediaLibraryProofs`, `StorageProofs`, `TelegramProofs`, `HouseholdProofs`, `BackgroundProofs` | theorems |

Operators under "Wrong versions of definitions below" are bugs the code might have
had; no specification uses them. Putting one in the place of its definition breaks
the property it is listed with in `PROJECT.json`.

### UploadIdempotency

`row[k]` is the row of `upload_keys`; note that no column says which request holds
a claim. `req[r]` is a request being served, by the await it has reached: `claimed`
(after `begin()`), `missed` (the dedup lookup found nothing), `renamed`, `stored`.
The branches of `begin()` are actions of their own (`BeginFresh`, `BeginTakeOver`,
`BeginDiscard`, `BeginReplay`); the two in which it answers `in_progress` change
nothing. `Finish` is the code from the return of `ingest()` to the 201, which has no
await; `Fail` is the `finally` of `upload_file`, which gives the claim up whatever went
wrong: a `finish()` that raises with the file stored is one of its cases. `Crash`
drops every request, `Start` opens and prunes the table. Time is the age of a row,
capped one past the retention, so that the model needs no clock. `copies`,
`indexed`, `answers` and `excused` are history and what the dedup lookup knows.

One constant is an assumption about the world: with `HolderOutlivesClaim = FALSE`
a request ends before its claim is stale (30 minutes). Nothing in the code
enforces that; the second run shows what happens without it.

### BucketAllocator

`count` is the sequence of counts of the parts 1, 2, ... of one bucket key;
keys share nothing. `slot[w]` is the part a writer has reserved a slot in.
`Reserve` is the transaction of `allocate_bucket_sync`: the lowest part with room,
or a new one. `Place` is the later rename. The repair is four actions, because it
reads all rows first, scans directory after directory, and holds the database only
from its first update to its commit; a reservation between the two is an
interleaving of its own.

The limit holds only in disciplined use. `drift` remembers the departures there
have been: `repair_races` (a repair overlaps a reservation), `index_fails`
(`media.db` fails and `_date_bucket_dir` falls back to part 1), `out_of_band` (a
file arrives without a slot). `Allow` says which of them an instance permits.
`DirWithinLimit` and `CountCovers` are conditioned on `drift = {}`; the docstring of
`_repair_bucket_counts_sync` names the second and third of them itself as what it
heals. Of the first it says nothing; what it does is shown by a run of its own
(`LimitDespiteRepair`).

### Ingest

`pc[u]` is where an upload is: `streaming`, `hashed`, `hit`, `placing`,
`reserved`, `picked`, `moved`, `done`. An inode is named by the upload that created
it; its data has one value per chunk, so that two uploads that write to one inode
can be told apart. `temp` maps the `.uploading` paths and the inbox to inodes,
`file` all others. `synced` are the inodes a power loss leaves intact. The three
modes are the sorted tree, a directory the user named, and a file found in the
inbox by `_sort_file`, which joins the others at `placing`. `UniqueName` is
`_unique_dest` over names made of a stem and suffixes, so that a client may upload
`a_2.jpg` itself. `Move` replaces what is at its destination, as `rename` does.
`Fail` is whatever else ends an upload at any of its awaits: a directory that cannot be
made, the work of a thread, the rename, a cancelled request. It leaves the temp file where
it is, the reserved slot counted and a moved file unrecorded, as the code does: only an
`Exception` of the stream has the temp file removed (`ingest.py:533`). A temp file
may therefore stay for good, and no property says otherwise.

Files are taken away in one step and the index is told in a later one (`marks`), or never: a
folder's files, a rename, a client over SMB. `unmarked` are the paths whose entry is of a
file that was taken away and of which nobody has told the index since.

`Overlap` says whether two uploads in flight may have names of one stem; the
variable `overlap` remembers that they have.

### MediaLibrary

A handler moves a file in one step and tells the index in a later one: `marks`
are the UPDATEs still to come (two for a delete by entry id: one of
`_soft_delete_resolved`, one of `delete_media`; none when the client spelled the path
otherwise than its row does, or the bot removed a duplicate), `closing` the items a restore or
a permanent delete has still to take off the list. `list` is `trash.json`, `bytes` the trash
directory. Listing an item and moving the file have no await between them, so that
they are one action; `Crash` has the outcome in which the process died between
them, and the one in which a purge has unlinked some items and saved nothing.
The pass has one action per executor call: read the rows and look for missing
files, mark them, scan, compare with the signatures, hash a file, record it. Folder
deletes and renames move every file and tell the index nothing, as in the code. An upload
finds its free path in one step (`Pick`) and takes it in another (`Store`). A mark can fail,
and so can the unlinking of any file of a purge or a permanent delete, after which the item
leaves the list all the same.

The variables after `calls` are history. `raced` holds the paths whose last upload or delete met
a late writer of the index that was already on its way, `touched` those that changed since the
pass began, `spoiled` those recorded while they were being replaced, `gone` the contents of
which a copy was destroyed on purpose, `exposed` those that came to a path which an upload had
found free and has yet to take, `stranded` the items of which a file could not be unlinked. They
state the exceptions of the properties instead of hiding them in the guards.

### Storage

The host and the process are two sets of variables. `fs`, `marked`, `stack` (what is mounted at
a target, the last on top), `mkfs` (helpers that are formatting), `early` (those that have
looked at the mounts and wiped nothing yet) and `svc` (the file services) are the host's;
`busy`, `job`, `op`, `seen` (the list of block devices that smart-activate keeps for some
seconds) and `boot` the process's; `state`, `drive` and `saved` are files. A handler is one
action per command it waits for: `op[r].pc` is the command. A helper is started in one action
and ends in another, so that its caller may time out ("stall") or die first; `mkfs` then has an
element whose `by` no longer waits. The helper looks at the mounts in one step and wipes in
another, and a mount takes no lock. The folders that are made once a drive is mounted, and the
save after them, may fail: nothing then undoes the mount. Requests are numbered in the order
they come, which is symmetry by hand. The boot is the lifespan: look for the saved drive or one
with a marker, mount it, save it, read the marker, start the services or not.

`disturbed` names what the properties leave out, by target: `overlap` (two requests changed one
target at once), `stacked` (a drive mounted over another), `slow` (the caller gave up on a
command that worked), `stale` (a drive activated by an old list), `left` and `died` (a boot that
failed or was cut short), `unsaved` (a folder or the save failed after the mount), and by disk,
`shared` (a helper started beside one that outlived its request) and `checked` (a drive mounted
after a helper had looked, before it wiped). Each is a real behaviour of the code; see section
3.

### Focus, Household, Background

Eleven parts of the server share a process and hardly any state. Interleaving them
would multiply their states and show nothing, so that `Household` and `Background`
run one part in each behaviour, `part`, under one kind of trouble, `trouble`. Both are
chosen at the start from `Parts`; in the terms of the code, a behaviour is what
one part does while the others do what does not concern it. Every disjunct of their
`Next` is the `Next` of one part and leaves the others alone. Where two parts do
share state (the inbox watcher and Telegram's temp files, unmount and sync of the
backup drive, names of members and chats), one module has both sides.

### Accounts

A handler is one step from one hash of a PIN (in an executor) or one call on the disk to the
next. `users` is the file; `cached` the cached list where it differs, since most writers change
the cached list in place and save it then: a failed write leaves the change in memory, until the
cache expires or somebody else saves it. A PIN is the change that set it and the rounds of its
hash; `tokens` the refresh tokens not revoked, by the PIN they were given under. `creating` is
`_user_creation_lock`, which `create_user` takes and `add_family` does not. The troubles are
sessions (logins, re-hashes, changes of PIN) and folders (creation, removal, roles and files),
which read different columns of a profile. A change of PIN writes the profile and then the
sessions, and the second write may fail with the PIN saved (`unrevoked`). Wrong PINs, lockouts,
the exchange of a refresh token for an access token, avatars and icons are left out.

### LocalBackup

`sync` is the run under `_sync_lock`: a folder's copy begins and ends in actions of their own,
and a crash leaves it cut short, or done with the old link removed and no new one made; so does
a link that cannot be made, which also ends the run. Snapshots and the link belong to a
directory, which `SlugOf` gives to each folder: two folders may have one. A drive that cannot be
mounted when the process starts stays the active one, and a sync then writes to the bare mount
point and reports success (`astray`). Snapshots are named by the second, so that two of one
second are one. The list of folders saved at the end is the one read before the run.
`drive.leaving` is an unmount between its question whether a sync runs and the unmount itself.
The mirror of the media library and the restore copy what is missing, as `--ignore-existing`
does.

### Documents, Duplicates

`Documents` has a version of each path, and of each row the version its text came from.
Everyone who indexes reads the file in one step and replaces the row in another. The
sweep compares two states of the library, removes the rows of what has gone, indexes
what has changed and saves its state at the end; the re-scan does the same from the
state that was saved, and looks again at every document without text. OCR can fail, a
re-scan be cancelled, a restart lose the state file, and a row's write or removal fail, which
nobody is told of: the sweep goes on and saves the file as seen. A delete through the API leaves the
row, as in the code, which asks for the file after moving it.

`Duplicates` runs the scan beside the review. The two result lists are sets of sets of copies:
they are sorted by size when they are saved and a removal keeps their order, so that
`Before` says all there is to say of the order. The buttons of a chat name sets by hash or by
place in the list (`PlaceOf`); a press looks them up again, so that the lists as they stand are
what can be pressed. A clean-up removes copy after copy with awaits in between and
saves the list at the end. Perceptual hashes within the distance are taken as equal.

### TelegramChats, TelegramUploads, TelegramRecent

`TelegramChats` has both lists (`linked`, `bound`), written one after the other, with a
crash in between as an outcome of the handler; `family` changes by itself, since the
accounts know nothing of the binding. `granted` remembers whom an admin made admin;
`reused` and `halfdone` are the exceptions of the property.

`TelegramUploads` has places for files: in an inbox the first free one, in the
entertainment folder one fixed by the name. The bot handles one update at a time,
downloads included; only the inbox watcher and restarts interleave.

`TelegramRecent` has the one list that serves all chats. An entry's `nr` is its order; a
button carries the place of a file among those of its chat, counted from the oldest, and a
press takes whoever is at that place by then (`Found`). `removals`, `buttons` and `takenOver`
are history: a button is `firm` until a file of its chat leaves the list, and a path is taken
over when somebody else stores a file where an entry of the list points.

### Positions

`position` is the table of playback positions, by name and not by member. A report is decided
in two steps, the SELECT and the INSERT of `_set_position_sync`, which are not one
transaction; `stage[r]` is how far report `r` is. A report under 30 s or past 95 % leaves a
row without a position, whose time goes on turning older reports away (`NewRow`). `overlapped`
and `handed` are the exceptions of the property: keys for which two reports were decided at
once, and names that somebody has given up.

### SemanticIndex

The worker thread is `run`, one action per transaction or batch: look for pending
files of a slice, embed a batch, write it, wait at the gate, build the approximate
index, embed the images, look again, finish. A request during a run sets `late`. Rows
have the content key they were computed for (`key`) and what they were really made of
(`of`): what media.db said of the file, or its bytes, and for a text vector the text of
docs.db (`words`), which another worker writes in its own time and which is left out after an
error. The two differ when a file is edited, or its text arrives, in between. The
enumeration of the shards may fail and fall back on the shared one (`Enumerated`), the build
of a shard's index may fail between any two of its writes (`BuildFails`), and the job
completes all the same. A search that misses the
cache reads the rows and keeps the matrix in two steps. `legacy` is the database of
before the shards; its move runs at every start that finds it.

### Wifi, LocalApi

`Wifi` keeps what the user wants apart from the radio: a request sets `wanted`, saves
it, and runs nmcli; the monitor reads the status, decides, and acts, in three steps.
`staged` are the files with passwords that wait for the helper which installs them, one for
each cleaned-up name in either of two directories; a write that fails half way leaves one
behind (`leftover`), and so does a server that dies.

`LocalApi` has the job step by step (download or build, check, install, start, switch
the bot), the lock `building`, and the other writers of the configuration: disable and
save, several of which may be under way with each other and with the job, and the
supervisor. Each writes the configuration, stops the bot and starts it, in steps of their own.
The reading of the configuration and its write are one step although both are awaited:
nothing suspends inside the sections of `_store_lock` (`store.py:659-682`), so that nobody ever
waits for it and no other task runs in between. `service` tells an active service that answers
from one that is merely active, which a job takes as it is (`CheckService`, history
`taken`). `binary`, `service` and `enabled` outlive a restart; jobs and the bot do not.

## 3. The runs

| run | shows | states | bounds |
|---|---|---|---|
| `UploadIdempotency.cfg` | all its properties, with fairness | 110 thousand | 1 key, 2 users, 3 requests, 2 crashes, 3 copies |
| `UploadIdempotencyStale.cfg` | **violation** of `StoredOnce` | | 1 key, 2 requests that may be slow |
| `BucketAllocator.cfg` | **violation** of `LimitDespiteRepair` | | 2 writers that come back, 3 names, limit 1, 2 parts |
| `Ingest.cfg` | uploads and the allocator in disciplined use | 1.9 million | 3 uploads of 1 chunk, limit 2, 2 parts, 1 power loss |
| `IngestMishaps.cfg` | failing index, races of the repair, colliding names | 1.1 million | 2 uploads of 2 chunks, limit 1, 2 parts, 1 power loss |
| `IngestOverlap.cfg` | **violation** of `AckedIntact` | | 2 uploads of one name |
| `MediaLibrary.cfg` | files, index and trash | 2.3 million | 3 paths, 1 file and 1 upload, 2 calls, any number of passes |
| `MediaLibraryGhost.cfg` | **violation** of `DuplicateIsThere` | | 1 folder delete |
| `MediaLibraryRestore.cfg` | **violation** of `RestoreOnlyAdds` | | 1 delete, 1 restore, 2 uploads |
| `Storage.cfg` | drives, jobs and helpers, with fairness | 818 thousand | 2 drives, 3 partitions, any 2 of 9 calls, 1 crash or power loss |
| `Household.cfg` | accounts, backup, documents, duplicates, Telegram, positions | 1.7 million | per part, below |
| `Background.cfg` | semantic index, Wi-Fi, local Bot API, with fairness | 383 thousand | per part, below |

The longest, `Storage.cfg` and `Background.cfg`, take three to four minutes with two workers,
most of it for the liveness properties.

**Why the bounds are enough to be worth something.** Keys interact only through the
two users of one key; three requests let a retry overlap a request and its own
retry. In `BucketAllocator.cfg` writers come back and a repair may begin at any time. In
`Ingest.cfg` three uploads fill a part and open the next, beside any number of deletes and
repairs; chunks matter where two uploads share a temp file, so that the two chunks are in
`IngestMishaps.cfg`, where suffixes also let a picked name be the very name another client
sends. Two calls next
to an upload and a pass are a delete and a restore, two deletes, a delete and a
crash, and so on, around one path; three paths are the file, its `_restored`, and
the same file in the restored folder.

`Storage.cfg` has a drive used before, a stranger's drive, and a second partition on
the latter; helpers that fail, are slow, or outlive their request; and the boot after a
crash. Two requests are every pair of calls in every interleaving, and a helper
that outlived the first one is a third actor.

`Household.cfg`: two profiles and two names, so that names change hands and the last
admin can go; two requests that wait for a hash; one mishap. Two folders of
one directory and one photo, all in two versions, and two seconds with one snapshot kept, so
that one is removed. One document
in two versions under both sweeps. Three files, two equal and one that only looks
the same. Two chats and two names with three changes of the family: a name is given,
taken and given again. Two chats that send two files of one name, and two places for them.
Three files sent by two chats to three paths, a list of two, which is shown once: the third
file pushes one out, and two presses on one button find two files. Three reports (two while
members come and go) by two members under two names for one film, by clocks of two times.

`Background.cfg`: three files in two shards with a slice of two, the smallest library in
which files of one shard keep another's from being seen; two requests; two resident
matrices of four. Two networks of one profile name, two requests at once, one failure.
Two setup jobs and two overlapping changes of the configuration, so that a job finds what
another has left and a change meets a change and a job.

Symmetry is used over uploads, in runs without liveness only.

**Deadlock** is checked in `UploadIdempotency.cfg`. The other models stop: their
uploads, calls or requests are used up.

**Properties, and the mutant that each one catches.**

* `OneWorker`, `AnswersHold`, `StoredOnce`: a take-over at any age or from
  anyone, an outcome that is not recorded.
* `OrphanRecovers` (liveness): a claim that is never taken over.
* `ImplementsClaim` (refinement): the table, which has no holder, implements a lock
  that has one; the mutant discards a readable response.
* `AckedIntact`, `AckedIntactApart`: a name that is not made unique, a missing fsync.
* `IndexTruth`: recording before the rename. `NoLateDuplicate`: no lookup.
* `DirWithinLimit`, `CountCovers`: room up to the limit instead of below it, a repair that
  counts every part's files in the first directory.
* `BytesListed`, `NothingLost`: a purge that forgets folders, a file stored over another.
* `UploadedIsLive`, `DeletedIsHidden`, `CaughtUp`: a record that keeps the old
  `deleted` flag, a pass that records what it once scanned, signatures that are
  not looked up by path.
* `OneFormatter`, `NothingWipedInUse`: a disk that is not locked, a helper that does not
  ask whether its target is mounted.
* `StateAgrees`: an unmount that keeps the saved state, of the NAS drive or of the backup's.
  `StrangersNotServed`: a boot that takes any drive for its own.
* `JobsEnd` (liveness): a job that ends without giving its lock back.
* `OwnersHold`: a boot that does not close the setup of a board that has users.
  `SessionsHold`: a re-hash that does not ask whether the PIN is still the same.
* `BackupStands`: snapshots removed from the wrong end.
* `TextCaughtUp`: a sweep that looks for new files and not for changed ones.
* `ReviewKeepsOne`: a set of one copy that is still shown.
* `AdminsOfBot`: a chat bound to whatever name it gives, an admin's included.
  `AskedIsThere`: one place in an inbox for all files of a name.
* `RecentDeletes`: a place that is counted among the files of all chats.
  `PositionsHold`: a finished film whose row is removed, a report that need not be newer.
* `VectorsAgree`: a write that invalidates the text matrices alone. `AskedIsFound`: a file
  that is due once and never again. `RunEnds` (liveness): a gate without a bound.
* `WifiSettles` (liveness): a monitor that turns the radio on and never off.
  `PasswordsUnstaged`: a staged file that is kept.
* `LocalIsServed`: a download whose checksum is not looked at, local mode that is turned off
  in the file and not in the settings, a service that is not asked whether it answers.
  `NextSetupMayBegin` (liveness): a job that keeps the lock.

**Fairness.** `FairSpec` of `UploadIdempotency` assumes that time passes, that
systemd restarts the process, that a request ends, because a gap of 60 s between
chunks ends it, and that a client which was not answered goes on retrying its key
(strong fairness: other requests may take its place in between). The code's
clients do retry; if they did not, an orphaned claim would stay until it is pruned,
which hurts nobody. `FairSpec` of `Storage` assumes that a command on the host returns
or its caller gives up on it, as every call of `run_command` has a time-out, and that
the boot goes on. `Background` assumes the same of the worker thread of the semantic
index, of the monitor and the requests of Wi-Fi, and of the steps of a setup job,
each of which has a time-out; it assumes of nobody that he leaves the server alone, which is
what `RunEnds` is about. Nothing is assumed of clients there, nor that batches succeed:
failures are bounded. The reconciler's and the watcher's "eventually" are stated as
safety at the end of a pass (`CaughtUp`, `TextCaughtUp`), since their start depends on
timers and on the workload gate.

### What the violations show

1. `upload_idempotency_stale`: a request slower than 30 minutes has its claim taken
   over while it still works, and both store the file. The comment at
   `upload_idempotency.py:48` assumes such a request has died.
2. `ingest_overlap`: two uploads of one name in flight share `<name>.uploading`, and
   pick the same free name; an acknowledged file is overwritten or mixed. The
   comment at `ingest.py:584` says a suffix saves the data.
3. `media_library_ghost`: a folder delete leaves its entries live, and an upload of
   the same bytes is answered as a duplicate of a file that is in the trash.
   `ingest.py:424` and `media_index.py:319` say every delete flips the flag.
4. `media_library_restore`: a second restore of one path replaces the first.
5. `bucket_repair_race`: the repair sets a count to the files it has seen while a slot that is
   reserved and not yet filled is in no directory; the slot is given out twice, and a
   directory goes over its limit. The comment at `media_index.py:748` says that the
   counter drifts only by a crash or a file dropped in from outside, and `:400` calls the limit
   a structural guarantee.

### Exceptions that the properties name

They were found while stating the properties, as counterexamples of TLC; each stays in
its property as a named exception, so that everything else is still checked.

* **Uploads.** A request that fails, or dies, between the rename and the update of its key has
  stored a file the next attempt does not know of when the index does not know it either, and
  so has one whose answer was pruned or cannot be read (`StoredOnce`, `excused`). An entry
  whose file was taken away by a folder delete, a rename or over SMB, or is about to be marked,
  names a file that is not there (`unmarked`).
* **Media library.** A file that comes to a path after an upload has found it free is replaced
  by the upload's rename (`exposed`, `ingest.py:588` and 607). A file that cannot be unlinked
  stays in the trash directory and leaves the list (`stranded`, `trash_routes.py:137-144`). A
  delete by another spelling of the path, and the bot's removal of a duplicate, leave the row
  live until the next pass (`file_routes.py:584`, `media_index.py:576-582`). A file restored
  from the trash stays hidden, since its row, although deleted, has its signature (`CaughtUp`);
  a late mark of a delete, or a prune, hides a file uploaded to the same path meanwhile
  (`raced`); a file replaced during a pass may be recorded with the hash of one version and the
  signature of the other (`spoiled`).
* **Storage.** A helper that outlived its job can be joined by a second one on the same
  disk (`storage_routes.py:398`). Two changes of one target at once save what the later
  one thinks (426). A chown slower than 30 s makes a mount that worked look failed.
  Smart-activate can mount a second drive over the first, or take an old list of mounts
  for the present one (209-257). A boot that dies between saving the adopted drive and
  reading its marker has the next one trust it (686, 772-779), and a drive that was formatted
  while `storage.json` still named it, after an unmount that was given up, is served again by
  the next start. A drive that is mounted between the helper's look at the mounts and its wipe is
  wiped in use (`scripts/ahc-partition-format-nas.sh:16-17`). A folder or a save that fails after
  a mount leaves a mounted drive that `storage.json` does not name
  (`storage_routes.py:119-123, 450-455, 677-686`), until the next start; at a start, one that was
  found by the scan and whose marker was not looked at.
* **Accounts.** `DELETE /users/family/{id}` removes the last admin too (`family_routes.py:134`);
  a lost user list with no marker opens the setup again; a failed write leaves its change in the
  cache, for the next writer to save (`store.py:579`); a login being verified while the PIN
  changes gets a session (`auth_routes.py:486`); a revocation whose write fails after the PIN
  was saved leaves the sessions of the old PIN (`unrevoked`, `auth_routes.py:595-602`,
  `store.py:574-598`); `add_family` gives a name that is taken; a rename leaves the folder
  behind, and one whose write fails gives the name free in the cached list only.
* **Local backup.** A sync can begin while the drive is being unmounted
  (`local_backup_routes.py:182`); the list saved at its end undoes what the admin changed
  meanwhile (`local_backup.py:295-314`); a clock that steps back makes new snapshots the oldest;
  a crash, or an error, between the removal of the link and the new one leaves none (259-261).
  Folders whose names `_slugify` takes to one directory (64-69) write over each other's link and
  prune each other's snapshots; a drive that could not be mounted at the start is synced to as
  if it were there (160-164, 291-293). These last three, and
  the first, are `astray`; the others `edited` and `clock`.
* **Documents.** A row written from an old reading after the sweep has seen the file
  stays (`document_index.py:468`); so does the row of a file that came and went between
  two sweeps. A failed OCR is not tried again. A row whose write or
  removal failed stays as it was until the file changes (`document_index.py:372-375, 470-477`).
* **Duplicates.** A clean-up keeps the first copy of a set without asking whether it is
  still there (`search_handlers.py:843`).
* **Telegram.** A name that changes hands takes its chat with it (`reused`); a crash
  between the two lists leaves a chat unlinked and bound (`halfdone`). An entertainment
  upload shares its temp file with others of its name (`bot_core.py:600`), and the inbox
  watcher files one that waits for an answer (`file_sorter.py:205`). A second press on a
  button of `/recent` removes the chat's next file, and so does a press after the list was
  cut (`upload_handlers.py:480`): buttons that are no longer `firm`. A path of the list at which
  somebody else has stored a file is deleted as if it were the chat's (`takenOver`).
* **Playback positions.** Two reports for one film that are decided at once may be written
  in the wrong order (`overlapped`, `media_index.py:959`); a name that is given up leaves its
  rows to the next member who takes it (`handed`).
* **Semantic index.** Enough files of one shard ahead of another's and no look reaches
  them (`semantic_indexer.py:333`, against the docstring at 304); a request after the last
  look is dropped (474); a matrix read before a write may be kept after it
  (`vector_store.py:507-528`). A completed run may have passed over the shards that could not be
  enumerated (92-94) and those whose index could not be built (405-411). A vector of a
  document may be made of text older than its key, or of none, and then stays until the file
  changes (209-227, `embedding_context.py:113-161`); of that nothing is promised.
* **Local server and Wi-Fi.** Disabling local mode while a job that has seen the service is
  about to turn it on leaves the bot in local mode with the service stopped
  (`telegram_routes.py:205`); saved settings can turn local mode on without a service (146), and
  a job takes an active service without asking whether it answers (513). A write that fails half
  way (`wifi_manager.py:386-389, 588-591`) and a crash leave a staged password, until the next
  request of that name.

## 4. The proofs

All of them are safety proofs by an inductive invariant, `TypeOK` and named parts, with
one lemma per group of actions.

`UploadIdempotencyProofs` proves, for any number of keys, users, requests and
crashes and for any retention, from the named assumptions on the constants and
`~HolderOutlivesClaim`:

* `Invariance`: `Spec => []Inv`, where `Inv` adds to `TypeOK`, `OneWorker`,
  `AnswerStands` and `ReplayIsOwn` what makes them inductive: `ClaimHeld` (a
  working request has a row of its user, in progress, not yet stale), `DownIsIdle`,
  `DoneHasResponse` and `CopyIsStored`. The core is `ClaimHeld`: since a row in
  progress whose request works is not stale, nobody can take it over, so that the
  row needs no holder. `MayTick` is where the assumption enters.
* `TypeCorrect`, `NeverTwoWorkers`, `ReplaysAreOwn`, `AnswersStand` follow.
* `UploadsStoredOnce`, from the further invariant `OneAtHome`: a user's copy is the only one,
  and its row is done or has a request that has stored the file and will say so, unless the key
  is excused by a process that died or a request that failed in between, by pruning, or by a
  response that cannot be read.
* `TableIsALock`: `Spec` implements `UploadClaim`. The refinement mapping finds the holder
  of a row among the requests that work; `OneWorker` makes it unique. Every action is
  shown to be a step of the lock or a stutter.

`BucketProofs` proves, for every limit, set of writers and names, and number of parts:

* `BucketInvariance`: `BucketSpec => []BInv`. `BInv` is the type invariant,
  `RepairShape` (the repair's sequences have the length it read) and, until the
  first departure, `Covered` and `RepairSafe`: while a repair runs nobody has a
  slot, its counts are those it read, and each directory it has scanned has at most
  as many files now, so that the counts it will set still cover them. `Covered`
  says of the parts without a row that they are empty and unreserved, which
  `CountCovers` alone does not.
* `BucketTypeCorrect`, `CountsCover` and `DirectoriesWithinLimit`.

`IngestProofs` proves of every number of uploads, names, contents, chunks and power losses:

* `IngestUsesAllocator`: `Spec => BucketSpec`, with the identity as refinement mapping, so
  that `UploadsWithinLimit` is the allocator's theorem carried over.
* `IngestInvariance`: `IInv` is `BInv`, `Own` and, until two uploads in flight have had names of
  one stem, `Sound`. Nothing but its name identifies an upload on the way: the temp file is a
  path, the free name is found before an await and taken after it. `Own` (`Types`, `MapTypes`,
  `Inodes`) holds always: every path leads to an inode that was made, and no two temp paths to
  one. `Sound` says that without such a collision (`StemsApart`) every upload has its bytes in
  its own temp file (`Written`), the name it picked is free until it moves (`Placed`), what was
  answered or indexed is intact unless it was taken away (`Kept`), and the index still has what
  it had when the upload began, which is not stored again (`KnownIndexed`, `Late`). That there
  is a free name at all is a pigeonhole argument over the suffixes.
* `AckedStaysIntact`, `AckedAlwaysIntact`, `IndexStaysTrue` and `LateDuplicateCaught` follow;
  the second and the last where names may not collide.

`MediaLibraryProofs` proves, for every stock, number of uploads, calls and deletes, `TypeOK`
(`LibraryTypes`) and all the properties of `MediaLibrary.cfg`: `TrashIsListed`, `NothingIsLost`,
`UploadsStayLive`, `DeletedStaysHidden` and `PassCatchesUp`, from one invariant, `LInv`. A row
is written long after the file was moved, and by whoever remembers its path, so that each
property becomes inductive only when it names everybody who is still on the way to a path.
`Fresh` says of an uploaded file that no mark is due, that the pass does not miss it, and that
an upload or a hash still to be recorded there is of the file that is there; `Dead` says of a
deleted one that nobody is about to record it. Both hold when the file comes or goes because
`raced` takes out the paths where somebody was (`NotLate`). `Follows` is what the pass knows of
a path not touched since it began, one statement per phase; `Matches` says what `spoiled` leaves
true of the signatures. `ClosingEmpty` (who is about to take an item off the list has emptied
it, but for what could not be unlinked) makes `BytesListed` inductive; `Exposed` (what is at the
path an upload is about to take is exposed) goes into `NothingLost`. `NothingLost` is shown
content by content: one that is somewhere stays there, or a copy of it enters `gone` or
`exposed`; that no
two files of an item are restored to one place, and that a rename goes to free names, is what it
rests on.

`StorageProofs` proves, for any drives, partitions and number of requests and crashes, all the
safety properties of `Storage.cfg`. `StorageTypeCorrect`, `OneFormatterHolds` and
`NothingIsWipedInUse` are about formatting. The lock is released by disk and not by holder, and
a helper runs on after its lock is free, so that the lock alone proves nothing. The invariant
adds `Known` (`DevKnown`: what a request works on has the type its phase needs; `HolderHolds`: a
disk's holder is a request that formats it; `HelpersKnown`: a helper somebody waits for works
under that request's lock, on its partition) and `Apart` (`Alone`: two helpers on a disk mean an
abandoned one, and then `disturbed` says so; `AllFree`: a helper on a disk that `disturbed` does
not name has nothing mounted in what it wipes, and once it is past its look what it wipes cannot
be mounted). A mount in that gap is what `disturbed` names; whether a helper is in the gap is
known by `early`.

`StateIsTrue` (`StateAgrees`) and `StrangersKeptOut` (`StrangersNotServed`) rest on
`Agreeing`. While the board serves, `NasServing` and `BackupServing` say of an undisturbed target
that one request at most is changing it and that the saved state is right unless that request
is between the command and the save; while it starts, nobody asks for anything (`Calm`), and
`NasStarting` says phase by phase what the boot knows. That is what the next start finds after
a crash at any point: every property of a started board is re-established by the boot and
carried over from nothing else. `Trusting` follows the trust through it: every marked drive was
activated once, and a drive that nobody vouched for is mounted in the two doubtful phases only,
with the services stopped. The attempt to prove it found a case that the run with its two
requests does not reach: a mount, an unmount that is given up, and a format of the drive that
`storage.json` still names. The model had counted a formatted drive as trusted for ever; it now
forgets the trust with the format, and names the case as an exception.

`TelegramProofs`, used by `HouseholdProofs`, proves `BotAdmins` by `ChatsInv`
(`ChatsTypeOK`, `AdminsByGrant`, `BoundIsLinked`): a chat bound to any name, an admin's or
not, is linked, since the name may become an admin's; and `QuestionsAreAboutFiles` by `UploadsInv`
(`UploadsTypeOK`, `AskedAlone`: no two chats are asked about one place, `FetchingToFree`:
a download goes where nobody waits); and `OwnFilesRemoved` by `RecentInv`. A press counts
places in a list that others change, so that the invariant has to say where a button leads:
`FirmIsThere` (the entry of a firm button is in the list and still at the place the button
names, as those before it cannot have gone and new ones come after) and `PathIsTheirs` (what is at
the path of an entry is its chat's, nobody's, or `takenOver`). That places tell entries apart
is a lemma about cardinalities of initial segments. `HouseholdProofs` lifts the three to the
composed model, in which the other parts leave these variables alone.

`HouseholdProofs` proves of the profiles `OwnersAreKept`, `ChangedPinCounts` and
`AccountsTyped`, for every number of profiles, names, requests, changes and mishaps, and
without the separation into troubles that the run makes. The difficulty is that the list
of profiles is in two places and that either may be what the next reader sees. `AccountsInv`
says of both (`Rolls`) what the properties say of one: each list has an admin (`Governed`), the
names in each are apart and no two of its profiles have files in one folder
(`NamesApart`, `FoldersApart`), each PIN is of the last change (`PinsAgree`). Two conjuncts join
them: the file has no profile that the cached list lacks (`RollsAgree`), and a profile has one name
in both unless "shared" says otherwise. The setup is closed once by the order of the steps
under `_user_creation_lock`: while the first admin is on the way (`SetupOpen`) the list is
empty and nobody else can be there, since whoever is holds the lock (`LockHeld`). Each step is
first shown to be one of a few kinds (an edit, an addition, a removal, a cache that expires or
a list that is lost, or none of it), and each kind to keep the invariant. Looking for the
invariant showed a case beyond the run's one mishap: two renames that fail in the cached
list alone can leave two profiles with one name once the cache expires; it is part of what
`FilesKept` leaves out.

The other parts of `HouseholdProofs`, each with its own invariant:

* `PositionsStand` (`PositionsInv`). The row is read in one step and replaced in another, so
  that the invariant speaks of the report in between: `WriterIsNewest` says that without an
  overlap it is alone and newer than all that were decided. `SignedByOwner` says that a name not
  yet handed on has had one owner, whose the reports under it are, sent or still on the way.
* `BackedUp` (`BackupInv`). `InCopying` describes the snapshot that is being written: it is in
  the folder, not whole, and the newest unless the clock stepped back, so that pruning to the
  newest keeps it and the link goes to it; the folder has been as new as the run believes since
  it looked. What one folder of a directory does to the others is excused until their next good
  sync; every other step leaves the excuses that there are (`ExcusesStay`).
* `TextIsCaughtUp` (`DocInv`). `SomebodyWill`: a row that disagrees with the disk has somebody
  who will put it right, the watcher, which will see the difference with the state it compares
  with, or an indexing under way. `RestartWill` is the same for a process that is about to fall
  back on the saved state, and `FileTells` and `FileWill` say what the state file is good for; a
  write that fails without a word makes the path one of the `strays`; `ReindexAlone` keeps the
  two sweeps from undoing each other.
* `OneIsKept` (`DuplicatesInv`), an action property. `AreGroups` says of every list, saved,
  being made by a scan or being worked through by a clean-up, that it was true of one
  moment: the copies of a set are alike, there are two, and no file is in two sets. `CleanUp`
  says that what a clean-up has removed were copies that another comes before. Every set has one
  that none comes before (`FirstCopy`, by well-founded induction on the natural numbers), so
  that it is still there when the last of the others goes, or the set is out of date.

`BackgroundProofs` proves all the safety properties of `Background.cfg`. `LocalServerAnswers` by
`LocalInv` (`WorkerHasLock`: a job past its
start has the lock, so that there is one; `NoServiceYet`: no service while its binary is
being replaced; `OnlyDisableStops`: who is about to stop the service has turned local mode
off; `ServedOrCrossed`: when local mode is on, or a job is about to turn it on, the service
is there, unless the two have crossed) and `NoPasswordStays` by `WifiInv`: a staged file has a
request that will take it away (`Takes`, `Accounted`).

`VectorsStayTrue` (`VectorsAgree`) and `AskedCanBeFound` (`AskedIsFound`) are about the
semantic index, for any number of files, versions, shards, slices, batches and matrices.

* `VectorsInv`: a row, a pending batch and the legacy database all have a content key that was
  read before what it is stored with, and versions only grow, so that the key of a row is never
  ahead of what it was made of, nor its text older than the text that was there when the key was
  read (`Honest`, of all rows by `RowsOld`, `LegacyOld`, `KeysOld` and `KnownOld`). A resident
  matrix has what the rows of its shard had unless the shard was written since it was read
  (`ResidentFresh`).
* `FoundInv`: `Looked` says of every file that was asked for and whose shard has had its last look
  that it has a row, and `Named` that the approximate index of a shard that was rebuilt knows
  it. What has to be shown is that a look which finds nothing has seen every such file of
  its shard, although it picks a slice of files of all shards; it does unless files of lower
  numbers fill the slice, which is the exception `Starved` of the property. The proof takes the
  file with the smallest number that the look missed. `Building` says that names and rows of
  one index come from one table.
* The order of files is a sequence. Induction over data needs an induction rule without an
  operator as a parameter: `NatSets` and `SeqSets` state it of sets of numbers and of
  sequences, and follow from the well-foundedness of the natural numbers. `Picked`, which picks the
  elements of a set in order, is a recursive function of this project, since
  the library's operators are opaque to the provers.

Assumptions: those each module names for its constants (`BucketAssumption`, `IngestAssumption`,
`LibraryAssumption`, `NoEntryAssumption`, `IdemAssumption`, `NullAssumption`,
`StorageAssumption`, `AccountsAssumption`, `LocalBackupAssumption`, `DocumentsAssumption`,
`DuplicatesAssumption`, `TelegramChatsAssumption`, `TelegramUploadsAssumption`,
`RecentAssumption`, `PositionsAssumption`, `SemanticAssumption`, `WifiAssumption`,
`LocalApiAssumption`): finite sets, positive bounds, null values that are nothing else. TLC
evaluates them in the runs.

Every invariant and every action property of the passing runs is a theorem. Only
model-checked is liveness (`OrphanRecovers`, `JobsEnd`, `RunEnds`, `WifiSettles`,
`NextSetupMayBegin`), which is out of the prover's reach. Of the runs that end in a violation,
`StoredOnce` and `AckedIntact` are theorems under the assumption that the violating run gives up
(requests end in time, names do not collide); the other three properties are not true.

## 5. What is not modelled

Within the modelled parts: file categories, capture dates and durations (they choose the bucket
key, of which the model has one), names and paths as text, permission and name checks that
refuse a request before it changes anything, file events and thumbnails, empty folders, and
restoring a folder when its second name is taken too (the folder would go inside that one).
`/upload-stream` and Telegram share `ingest()` but use no keys. Cancelled requests of an orderly
shutdown are treated as a crash. Of the accounts, lockouts by failed PINs (a counter in memory),
the exchange of tokens, and avatars. Of the Telegram bot, searching and listing, and the upload
page, whose tokens nothing creates (`create_upload_token` has no caller); a bot that a second,
overlapping start has put out of its place, and that may go on polling. Of the semantic index,
everything numerical (vectors, scores, providers, quantisation), and `cancel()`, which has no
caller. The saves of `storage.json` at the start are taken to succeed where no mount goes before
them. Perceptual hashes are compared by equality.

Whole parts:

* the upload guard (`upload_guard.py`): a body without a length that passes the cap is cut
  off and handed to the handler as complete, while the client is told 413. The
  repository promises nothing of what was stored by then;
* the phone's backup (`backup_routes.py`): each call is one step that replaces a record;
* file events: a fan-out in memory; a subscriber who misses one reloads;
* the web portal (HTML and scripts), certificates, and the wrappers around systemctl,
  bluetoothctl and /proc, which keep no state of their own.

## 6. What is left

A model of the upload guard over `Ingest`'s stream, once there is something it is meant to
guarantee; the phone's backup beside the renames of its folders; and an abstract
specification of the media library (a set of files with owners) that `MediaLibrary` implements
but for its named exceptions, by the refinement that `UploadClaim` shows for the key table.
