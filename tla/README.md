# Nexus Storage: TLA+ models and proofs

This directory holds TLA+ specifications of Nexus Storage, TLC configurations
that model-check them on small instances, and TLAPS proofs that hold for every
value of the constants.  Paths below are relative to the repository's root.

Nexus Storage turns files into videos, keeps them on YouTube, and keeps the
index of what is where in a SQLite database that it backs up to Google Drive.
The daemon (`nexus-daemon/`, Go) owns the database, a task queue and the sync;
a Rust library (`nexus-core/`) encrypts, codes and renders; a Flutter
application (`nexus-mobile/`) is a second client of the same Drive files; the
GUI, the CLI and the TUI talk HTTP to the daemon.

## 1. Inventory

| Component | State it keeps | Operations that change it | What makes it hard |
| --- | --- | --- | --- |
| Task queue (`queue.go`) | map of tasks, channel of 100 places, mutex; rows of table `tasks` | AddTask, RemoveTask, worker/processTask, handlers' updateTaskState, cleanupCompletedTasks, CleanupOrphanedVideos, Init | handlers write without the mutex; a send on a bounded channel with the mutex held; goroutines that send later; crash and reload |
| Upload, download, delete handlers (`queue.go`) | rows of files and shards, videos, temporary files | handleUpload (deduplication, chunks, shards), handleDownload, handleDelete | one shard of several fails; deduplication against a video that is going; deletion that fails |
| Cloud sync (`sync.go`) | nexus.db and nexus-sync.json on Drive, breaker and last push in `kv_store` | PushDBToDrive, PullDBFromDrive, RunSyncMatrix, retries, breaker | no lock on Drive, two files per backup, edits go on during push and pull, several devices, lost answers |
| Database (`db.go`) | SQLite tables, LSN (`manifest_version`), trash | SaveFileWithKey, SoftDelete, Restore, PermanentDelete, IncrementLSN, MergeManifest, Wipe, CleanupTrash | row and LSN are two statements; read-modify-write of the LSN in two critical sections |
| HTTP API (`api.go`, `share.go`) | none of its own (auth token) | upload, delete, restore, cloud sync, task list | check-then-act on the database, a sync that runs long |
| Daemon lifecycle (`main.go`) | schedulers | start, nightly purge, orphan cleanup, last push at shutdown | order of start; requests that race the queue |
| Account recovery (`recovery.go`) and RotatePassword (`queue.go:205`) | per-file keys, recovery packet | rotate, recover | a failure half way leaves keys of two passwords |
| Shard cache (`cache.go`) | directory and table of cached shards | Get, Put, Evict, evictIfNeeded | entry and file change in two steps |
| Virtual drive (`vfs.go`) | pending sizes, temporary files | WebDAV calls, Close | waits for a status that may never come |
| Rust core: framing and FEC (`nexus-core/src/streaming.rs`) | encoder's frame buffer, decoder's byte buffer and blocks | push_data, finalize, pad_frames, push_frame, pop_data | symbols cross frames; lost and repeated frames; data that look like a header |
| Rust core: codec and cryptography | none that outlives a call, but the counter of the AEAD stream | pixels, RaptorQ, AEAD, key derivation, compression | pure functions on bytes |
| Mobile application (`nexus-mobile/lib/services/sync_service.dart`, `database_service.dart`, `ui/files_page.dart`) | its own SQLite copy, same Drive files | push, pull with rollback, edits, transfers | second implementation of the sync with another decision and another order of uploads; edits without an LSN step |
| Remote clients (`youtube_auth.go`, `youtube_playlists.go`), cgo bindings (`core.go`), interfaces, packaging | none of the system's | — | — |

How they interact.  The API, the virtual drive and the schedulers call
`AddTask`; the single worker goroutine runs the handlers, which write files and
shards through the database and increment the LSN; a change of the LSN asks the
sync for a push after a debounce.  The sync reads the database (for its hash
and counts, and by a snapshot), and a pull *replaces* it, with the task rows and
the circuit breaker in it.  Devices interact only through the two Drive files.

Properties that make each part correct, and where they are stated:

* Task queue: a task is delivered once, pending tasks are on their way, the list
  and the table agree, a finished task stays finished, accepted uploads survive
  a crash, and tasks make progress (`TaskQueue`, `JobQueue`).
* Cloud sync: a recorded push is on the Drive with its manifest, the manifest
  never announces a database newer than the stored one, the breaker is
  consistent across pulls, sync calls end unless the search for the folder hangs
  (`SyncProtocol`); a phone that shares the Drive keeps the breaker so, and
  catches up (`MobileSync`).  A pull leaves the old database, the whole new one
  or, after a rollback, what its backup holds; it installs no older one
  (`LocalDisk`).
* Files: a row names the video it was saved for, a file whose upload ended has
  all its parts, a download gives the content that was asked for, only videos
  without a row are cleaned up, which is false (`CloudFiles`).
* Keys: a stored key opens its video, with the secret it was stored under; what
  can be read stays readable; a recovery gives back what was backed up
  (`FileKeys`).
* Cache: it serves what one Put was given, whole, and keeps its limit
  (`LocalDisk`).
* Framing and FEC: an intact video gives back the shard, a video that lost frames
  is repaired, blocks of a video that only lost frames keep their order
  (`ShardStream`).

The hazards, each at its line and with the properties that cover it or the
reason why none does, are in `PROJECT.json` (`hazards`).

## 2. Plan

Modules in order; a module is proved about only after TLC has checked it.

1. `TaskQueue`, refining the abstract `JobQueue`; proofs.  **Done.**
2. `SyncProtocol`, the desktops, and `MobileSync`, which composes them with a
   phone; proofs.  **Done.**
3. `CloudFiles`: rows, shards, videos, trash, deduplication, orphan cleanup;
   proofs.  **Done.**
4. `FileKeys`: file keys, sessions, sharing, password change, recovery; proofs.
   **Done.**
5. `LocalDisk`: the pull at the level of files, the sync matrix, the cache;
   proofs.  **Done.**
6. `ShardStream`: the stream of one shard through a video; proofs, of the video
   that arrives intact first, then of faults.  **Done.**

Left, most important first:

* The transfers of the mobile application (`nexus_service.dart`), which share the
  videos but none of the daemon's rows.
* The virtual drive: pending sizes and temporary files (`vfs.go`).

How the modules divide one daemon.  The modules are not composed into one: each
keeps the part of the state its properties speak of and lets the others act on
it as an environment.  `TaskQueue` knows no videos; `CloudFiles` takes over its
queue in short (the entries of downloads and deletions, which decide whether a
deletion is accepted and what a crash forgets) and leaves keys to `FileKeys`;
`FileKeys` has one video per file and lets any deduplication find it gone;
`SyncProtocol` takes a database as a value with a logical hash; `LocalDisk` takes
it as a file with an LSN; `ShardStream` is what makes a video of one shard.

## 3. What is modelled

### TaskQueue (`nexus-daemon/queue.go`, table `tasks` of `db.go`)

| TLA+ | code |
| --- | --- |
| `tasks`, `gen` | `q.tasks`: which object is listed under an id.  `<<i, n>>` is the n-th `*Task` created under id `i` since the start of the process: ids of downloads and deletions are video ids and come again, ids of uploads are made from the clock and do not |
| `kind`, `status`, `done` | fields `Type`, `Status`, `CompletedAt` of the objects |
| `chan`, `senders` | `q.taskChan`; goroutines of the orphan cleanup that wait to send |
| `mu`, `held` | `q.mu`: free, or held across the blocking send of AddTask, or between the two database calls of RemoveTask |
| `wpc`, `cur` | where the worker goroutine is in `processTask` and its handler |
| `rows`, `phase`, `toLoad` | the table; Init reading it after a start |

An action is what runs under one hold of the mutex or between two points where
another goroutine can get in.  The worker is split into Receive, BeginTask (first
critical section), EnterHandler, SaveProgress and ShowProgress (the handler writes
`Status` and calls `updateTaskState` without the mutex), HandlerReturn and
FinishTask (second critical section).  `Crash` keeps only `rows`.

`JobQueue` is what the queue promises without any of that: a job offered enters
the line at most once, the line is served in order, one job at a time, finished
jobs stay finished until a restart.  The refinement maps `offered` to the
objects held by AddTask or a sender goroutine, `line` to the channel, `active` to
the worker's object and `finished` to the objects with a completion time.

### SyncProtocol (`nexus-daemon/sync.go`, and `db.go`, `api.go`)

| TLA+ | code |
| --- | --- |
| `db[d]` | device `d`'s SQLite file: `last_update` per file row (0: no row), trashed ids, task rows, LSN, and the breaker's keys of `kv_store` (failures, suspension), which travel with the file |
| `drive` | `nexus.db` (a database value) and `nexus-sync.json` (LSN, hash, counts, last update) |
| `pc[d]`, `job[d]` | the step of the push or pull that holds `SyncManager.mu`, and its locals: manifest, snapshot, attempts |
| `editing[d]` | a row was written and its `IncrementLSN` has yet to run |

A push is PushStart (integrity check, LSN), Decide (remote manifest, then the
count-based cases of `sync.go:236-298`), Snapshot, ReadHash, ReadStats, UploadDb,
UploadManifest with Retry, Verify, Record; its deferred function counts the
failure (Fail) or clears the breaker (Succeed).  A pull is PullStart, PullDownload,
PullReplace.  `Hang` is getRecoveryFolderID, which precedes every reading of the
manifest, upload and download and whose two requests carry no context
(`recovery.go:423`, `433`): the push or pull that is in it may stay there, with the
mutex, until the daemon dies.  Edits take none of the sync's locks, so they fall
anywhere.  A Drive
call may fail before or after it took effect.  A logical hash is modelled by what
it covers: ids and times, not the trash and not the LSN.

Three deliberate merges.  Decide reads the local counts, hash and time in one
step although they are three queries, and ReadStats reads count and time in one:
the properties compare the hash, which a step of its own reads.  A refused
pull changes nothing and is therefore a stutter.  One edit of a device is under
way at a time, so two concurrent `IncrementLSN` do not occur.

### MobileSync (`nexus-mobile/lib/services/sync_service.dart`, `database_service.dart`, `ui/files_page.dart`)

EXTENDS `SyncProtocol`: the desktops act as there (`Next /\ PhoneStays`), on the
same `drive`, and the phone's actions are added.

| TLA+ | code |
| --- | --- |
| `phone.db`, `phone.changing` | the phone's SQLite file; a row is written and its `incrementLSN` has yet to run |
| `phone.at` | the await of `sync`, `_performPush` or `_performPull` that comes next |
| `phone.man`, `phone.snap`, `phone.old` | the manifest read, or made for the push; `push_tmp` or `.downloading`; `backup_pre_pull` |
| `blank` | the phone has left a `nexus-sync.json` without content |
| `breaks` | calls that failed and deaths of the application so far |

A call of sync() is PhoneStart (the remote manifest) and PhoneDecide; then a push,
PhoneSnapshot, PhoneUpload for the manifest and again for nexus.db, PhoneVerify,
PhoneRecord; or a pull, PhoneBackup, PhoneDownload (or PhoneMisses), PhoneReplace,
PhoneCheck (which rolls back), PhoneAdopt.  PhoneUploadRefused is an answer whose
status nobody looks at, PhoneUploadFails a broken connection.  Either may leave the
Drive as it was (`Ignored`) or, when the file was not there yet, with an empty
file, since the phone creates a file by one request and fills it by the next
(`Created`); a connection may also break after the upload took effect (`Late`).
An empty manifest is no JSON: sync() throws at it from then on (`Unreadable`),
while a daemon takes it for none.  An empty nexus.db opens as a database without
rows.  PhoneLoses is a stop
between the deletion of the old file and the rename of the new one.  Saving,
trashing and settings take an LSN step; restoring and deleting for good on the
files page do not, nor do task rows and the logout.  The instance starts either
from nothing or from a Drive that is one edit ahead of the phone (`Starts`), so
that one more edit suffices to make them diverge.

Merged: PhoneDecide reads LSN, counts, time and hash in one step; one edit of the
phone is under way at a time; PhoneReplace joins Close, delete and rename, with
PhoneLoses for a stop between them.

### CloudFiles (`nexus-daemon/queue.go`, `db.go`, `api.go`, `main.go`)

| TLA+ | code |
| --- | --- |
| `local` | the user's files, which may change at any time |
| `files`, `shards`, `nextId` | the two tables and AUTOINCREMENT; a row's `path` is a base name after an upload, a full path after a deduplication |
| `cloud` | YouTube: what each video holds, under which key, and whether it is still there |
| `queue`, `sending`, `listed` | `q.taskChan`; deletions whose goroutine or caller has yet to reach it; what `q.tasks` holds under a video's id (`dead`: listed after a crash, never run) |
| `sweep` | the orphan cleanup between its query and its loop |
| `run` | the upload in the worker's hands: between the hash and each shard, and between a video, its row and its shard row |
| `uploads` | history, for the properties only: what was hashed, how the upload ended, whether the file changed meanwhile |

An upload is BeginUpload (hash, row of this content?), then LinkExisting,
PurgeStale or, without such a row, SendShard, RecordFile (for shard 0) and
RecordShard per part; FailUpload ends it
anywhere.  A crash falls between any two of these.  Downloads and deletions are
one step each, since nothing else removes a video while the worker is busy.  A
download is served by the disk cache too, so a vanished video may still be
fetched (`Fetched`).

### FileKeys (`queue.go`, `recovery.go`, `share.go`, `api.go`, `core.go`, `db.go`)

| TLA+ | code |
| --- | --- |
| `rows`, `shards`, `nextId` | as above, with the wrapped key (`file_key`) of each row |
| `cloud`, `keys` | the key a video is sealed with; the keys made, with the secret each was stored under (history) |
| `session` | `q.masterKeyHex` |
| `salt`, `salts` | `recovery_salt` of table `recovery_state`, and how many were ever made |
| `packet`, `backups` | `recovery-packet.json` on Drive; packets on their way to it |
| `rotating` | RotatePassword between its last row and the backup |
| `restore` | the loop of ApplyRestoredManifestToDB |

`Encrypt`/`Decrypt` and `EncryptWithKey`/`DecryptWithKey` are two formats: a blob
of one never opens as the other.  That is the point of several properties: the
code stores keys in the first and rotates them with the second.  An upload is two
steps, the choice of its secret (BeginUpload) and the row (FinishUpload), so that
a session may begin or end, and the daemon crash, in between.

### LocalDisk (`sync.go`, `db.go`, `cache.go`, `queue.go`, `main.go`)

| TLA+ | code |
| --- | --- |
| `main`, `wal`, `backup`, `temp`, `aside` | `nexus.db`, its `-wal`, `backup_pre_pull`, `.downloading`, and the file an open handle keeps after it was renamed away |
| `handle` | `db.conn`: open, closed, open on a file that has moved, or the daemon is down |
| `drive` | the manifest's LSN, whether the backup is encrypted, and the file that really lies beside it |
| `pull` | the step of pullDBFromDriveInternal and its locals; of the database it found (`old`), of what its backup holds once the copy was tried (`saved`) and of the one it verified (`new`) |
| `matrix` | RunSyncMatrix between its integrity check, the rename and what follows |
| `entries`, `dir`, `worker` | the cache's table, its directory (a file is absent, partial, or holds a right or a wrong decode), and the download that reads or fills it |
| `foreign`, `cuts` | history: the database was closed or replaced; Puts cut by a crash |

A pull is StartPull, CopyBackup, Fetch, CloseDb, RenameIn, OpenNew,
RemoveBackup, and after a database that does not open RemoveFaulty,
RestoreBackup, Reopen.  Each may fail as the code lets it, and a crash or the
sync matrix (which takes no lock) may fall between any two.  CopyBackup copies
nexus.db without its WAL, and may fail and leave an older backup, a part of one
or none; the pull goes on either way.  FetchShard may give the cache a wrong or
short decode (`Decodes`), because a failed Push is only logged and nothing is
decrypted before Put (`queue.go:1134`, `1143`, `1162`, `1271`).  The cache is in
this module because its table lies in the database that a pull replaces.

### ShardStream (`nexus-core/src/streaming.rs`, loops of `queue.go`)

| TLA+ | code |
| --- | --- |
| `size`, `twins`, `overhead` | chosen at the start: symbols of the shard; data that contain the two marker bytes; how many symbols beyond the source RaptorQ needs |
| `coded`, `frameBuf`, `video` | `current_block_id`, `frame_buffer`, the frames written |
| `at`, `faults`, `wire` | the next frame, what happened to the video, all that arrived (the last two are history) |
| `raw`, `blocks`, `out` | `raw_buffer`, `fec_blocks` with `decoded_blocks`, `output_buffer` |

The upload is PushData, Finalize, PadVideo; the download Deliver, Lose,
Repeat or Damage per frame, then Wait and TakeSymbol until the buffer holds no
whole symbol, then Pop.  A symbol is a marker cell, a header cell and data cells;
what a block decodes to is right exactly when no wrong symbol was accepted for
it, since symbols have no checksum.

## 4. The runs

| Run | Shows | Bounds |
| --- | --- | --- |
| `queue_safety` | TypeOK, DeliveredOnce, PendingIsQueued, PendingUploadIsStored, ListedIsStored, RemovedDoesNotResume, FinishedIsFinal, and the refinement of JobQueue | one upload id, one video id that can be used twice, two places, two crashes |
| `queue_liveness` | AddTaskReturns, QueuedIsFinished, StoredUploadStarts, FinishedIsForgotten | one object per id, one crash, a channel with room for every task |
| `queue_full` (violated) | AddTaskReturns fails when the channel is full | one place |
| `sync_devices` | MobileTypeOK, SuspendedEverywhere, PhoneSettles | one desktop and one phone, one file and one task row, one change of rows, one second, from nothing or with the phone one edit behind, LSNs the phone pushes below 3, one broken call or death of the phone's sync(), threshold 1, one attempt |
| `sync_one` | TypeOK, SuspendedAfterFailures, ManifestNotAhead, RecordedIsOnDrive, SyncEnds | one desktop, one file and one task row, three changes of rows, two seconds, three attempts, threshold 2 |
| `files` | TypeOK, RowNamesItsVideo, WholeFile, DownloadIsGenuine | two files of one base name, contents of one and two parts, two uploads, two tasks waiting, one edit, vanished video or crash |
| `files_trash` (violated) | OnlyOrphansGo | one file of one part, two uploads, two tasks waiting, one fault |
| `keys` | TypeOK, KeyOpensVideo, PasswordOpens, RestoreGivesBack, ReadableStays | two uploads of one content, two passwords, a client with its own salt or the daemon's, one backup, one change of password, one restoration, two of session, share, logout, crash |
| `disk` | TypeOK, OldOrNew, HitIsComplete, DirBounded, NeverOlder | one pull of a plain, an encrypted or a lying backup, one edit, one crash, damaged file or wrong decode, two shards in a cache of one |
| `disk_quarantine` (violated) | HealthyStays | one pull, no fault |
| `stream` | TypeOK, Exact, Repaired, InOrder | blocks of three source and two repair symbols of four cells, frames of six, shards of one and three blocks, two frames lost, repeated or damaged, at most one data cell per block that looks like the marker |
| `stream_loss` (violated) | LossRepaired | the same, one frame lost |

Deadlock is checked only in the two sync runs (a device can always edit its task
rows or ask for a sync); elsewhere the bounds let the system stop.

Why the bounds are enough.  In the queue an interesting case needs at most two
objects of one id (an entry removed and added again while the first is on its
way), a second id to compete for the worker, a channel that can be full and one
that is not, and a crash during the reload after a crash.  The code's 100 places
are 2 or 1 here so that the channel can be full.

In the sync the cases need an edit between two reads of a push, a second one to
tell what was uploaded from what is local, two values of the clock to tell an old
row from a new one (`sync_one`), and a second device to interleave its uploads: in
`sync_devices` the phone, which overwrites the same two files, and whose LSN and
counts need not agree with the desktop's.  There threshold 1 makes one failure
suspend, and `sync_one` has 2 so that a count below the threshold exists too.  The
code's threshold and attempts are both 3.  For any number of desktops, and with a
phone, types and the breaker are proved; liveness of the
phone needs one fault to cut a push and one edit to make it worth repeating.

In `files` an upload meets, by its second request, every kind of row that can
stand in its way: of the same content, of the same name with another content, in
the trash, with its video gone, or left by an upload cut after its first part.
In `keys` the second upload meets the first one's row in the same way; the
history of secrets needs two, a password and a session's key, and a restoration
meets an empty table or rows.  In `disk` one pull meets each failure alone and
with a crash; a second pull would start from states the first already reaches.
The cache needs two shards to evict one.

The stream has the code's shape (symbols cross frames, a block is no whole number
of frames, repair symbols follow) at five symbols a block instead of 200;
`MaxTracked` 2 and `Kept` 0 instead of 10 and 5 make the decoder forget blocks
within three of them.  A frame of six cells touches two or three of the five
symbols; in the code the 7200 bytes of a frame touch eight of 200, the 194400 of
a frame in High mode 189.  A cell stands for several bytes: the two of the
marker, the rest of the header, a stretch of data.  That no frame ends inside a
header is so in the code, where frames (7200 and 194400 bytes) and symbols
(1032) are multiples of 24 and a header is shorter; the model assumes it, and it
matters: a marker whose header is lost reads the bytes that come next as its
block and number.

The properties that are proved (section 6) do not depend on the bounds.
`ManifestNotAhead` and `RecordedIsOnDrive` are checked for one desktop alone because
they are false otherwise: the uploads of two desktops interleave, which nothing in the
code prevents, and a
phone announces its LSN plus one before the database.

### What the violated runs say

* `queue_full`: AddTask sends with `q.mu` held (`queue.go:303`, `317`); with the
  channel full, the worker needs that mutex to finish its task.  README.md:254
  promises uploads that do not block.
* `files_trash`: CleanupOrphanedVideos is there for "permanently deleted files"
  (`queue.go:1353`), whose rows are gone; it asks ListTrash, that is for the files
  in the trash, and queues the deletion of their videos within an hour, although
  `trash_purge_days` keeps those files for 30 days by default (`main.go:257`).  A
  file that is restored meanwhile has lost its video, and a video whose deletion
  failed when its row went for good is never asked for again.
* `disk_quarantine`: IntegrityCheck errs on a closed handle as on a corrupt file,
  and a pull of an encrypted backup removes the file it then renames (`sync.go:520`,
  `561`) and returns with the database closed.  The next sync matrix moves a
  healthy nexus.db to `.corrupt`, which README.md:237-242 keeps for a corrupt
  one.
* `stream_loss`: a lost frame cuts a symbol whose header arrived; the decoder
  completes it with the bytes that follow and accepts it, and the block is
  decoded wrong although enough whole symbols arrive.  `test_fec_recovery`
  (`streaming.rs:583-596`) asserts the contrary, on data of one repeated byte.
  What does hold is `Repaired`: losses that cut no symbol behind its header, and
  damaged headers, are repaired.

### Limits met while modelling

Facts of the code that the models show by a guard, an action or a precondition
of a property, and that have no run of their own.

* Queue.  A handler's save after RemoveTask inserts the row again; it is deleted
  when the handler ends, so the comment at `queue.go:146` fails only if the daemon
  dies before that (`RemovedDoesNotResume` says so).  Only rows that say Pending,
  In Progress or Preparing are resumed after a crash (`queue.go:111`): a task whose
  row says Processing, or anything else that a handler saved, is listed and never
  runs again (`StoredUploadStarts` is about the others).  In `queue_liveness` an id is used once, so that the cleanup of
  an entry that was added again is in `queue_safety` only.
* Sync.  README.md:244 promises a limit of 60 seconds for "all Drive operations" and
  a daemon that never hangs.  The search for the recovery folder has none
  (`recovery.go:423`, `433`), and pushes and pulls make it with the mutex of the sync
  in their hands: one answer that does not come stops every later sync
  (`Hang`, excepted in `SyncEnds`).  A failed post-push verification leaves the
  unmatched pair on the Drive; the next push, by then with the rows that the
  manifest describes, takes it for "already in sync", reports a success and clears
  the breaker, and the Drive keeps a database that pulls refuse
  (`sync.go:239-248`, `387-419`; `InSync`).
* Sync, decisions.  A push decides by counts and not by the LSN (`sync.go:253` against
  README.md:204-210): a smaller LSN with more rows overwrites the Drive's copy.
  Hash and counts are read later than the snapshot: "already in sync" may be
  reported for an edit the Drive lacks (`sync.go:313`), and an empty backup may be
  installed (README.md:223).  A manifest that cannot be read makes the push
  unconditional (`sync.go:219`).  Edits during the download of a pull are lost.
* Phone.  It decides by LSNs where the daemon counts rows, so a desktop with
  more rows and a phone with a larger LSN overwrite each other's backup again
  and again.  A first upload that is cut after the file was made leaves an empty
  `nexus-sync.json`, and sync() of every phone throws until a desktop has pushed
  (`sync_service.dart:428-444`; `Matched` excludes it).  A phone announces its LSN
  plus one, which nexus.db does not hold: a
  desktop that pulls it stays one behind and pulls again at each check.  A push
  cut between its two uploads (or with a refused one, whose status is not looked
  at, `sync_service.dart:415`) leaves a manifest of other rows than nexus.db: a
  desktop refuses the pair and the phone rolls back, until somebody pushes again
  (`Matched` in `PhoneSettles`).  Restoring or deleting a file for good on the
  phone takes no LSN step (`files_page.dart:732`, `763`), so it is not pushed,
  and a later pull brings the row back, although its video is gone.  Edits made
  during a push lose their LSN steps (233); if they only trash files, the hashes
  agree and the phone reports "already in sync".  The phone's `last_modified` is
  not RFC 3339, so the daemon reads 1970 and its own rows are always the later
  ones when the counts agree (`sync.go:274-284`).  A stop between the deletion
  of the old file and the rename (282-285) leaves the phone with an empty
  database, and `finally` deletes the backup.
* Pull.  After a pull of an encrypted backup the local LSN reads 0, so that the next
  unforced pull replaces a newer database (`blind` in `NeverOlder`).  A crash
  between the removal of a bad file and the return of the backup starts the daemon
  on a fresh database; nothing looks at the backup (`OldOrNew`'s last case).  The
  backup is a copy of nexus.db alone (`sync.go:495`, `1103`), without a checkpoint:
  rows that are still in the WAL are not in it, and a copy that failed is only
  logged and leaves a part of it, or an older backup.  A rollback then installs a
  database that is neither the old nor the new one.  `OldOrNew` names this third
  outcome (`pull.saved`) instead of excluding it.
* Cache.  A shard that was decoded wrong, or short, is cached before its decryption
  fails (`queue.go:1162`, `1271`), and from then on is a hit: every retry of the
  download fails in the same way until the entry happens to be evicted, because
  CacheManager.Evict (`cache.go:82`) has no caller.
* Files.  An upload cut after its first part leaves a row that deduplication takes
  for the whole file (`WholeFile` and `DownloadIsGenuine` demand `state = "done"`).
  A changed file uploaded again under its base name keeps the old shard rows
  beside the new ones and cannot be downloaded (`db.go:528`; `clean`).  A shard is
  recorded under whatever row of the content comes first (`queue.go:828`): a
  content that is sent again may give its shards to an older row, which then has
  more than its own parts (`clean` ends there too).  A file
  edited between its hash and its reading is stored under the wrong hash (`torn`).
  A deletion task left over by a crash is listed for ever and keeps the orphan
  cleanup from asking again (`dead`).  handleDelete reports success when YouTube
  refused the deletion.  No promise about the end of a video is stated: the only
  ones asked for again are those of `files_trash`, which should not go.
* Keys.  Keys are stored by `Encrypt` but rotated by `DecryptWithKey`: a change of
  password fails at the first listed key and succeeds only without one.  It never
  re-encrypts anything (`queue.go:258` against `563`), although the comment at
  196-203 says that all keys are decrypted, re-encrypted and stored; a rotation
  cut half way through its rows, which the loop would permit, is therefore never
  reached, and no property speaks of it.  The packet is sealed under a key
  made with the client's salt but stores the daemon's.  A first share of a row
  without a key stores a key its video was not sealed with (`shared` in
  `KeyOpensVideo`); its reading and writing are one step of the model, so two first
  shares at once are not covered.  A crash loses the password of a waiting upload
  (`kept` in
  `PasswordOpens`).  A restoration over existing rows appends their shards again
  (`clean` in `RestoreGivesBack`).
* Stream.  Blocks can come out in another order, or twice, when a marker in the
  data stands before cells that read as a header of the shard (`Astray`), when a
  level is damaged, and when a frame that holds all source symbols of a block
  (in High mode) is shown twice while data look like the marker; `InOrder` names
  these three.  A repeated frame cuts a symbol as a lost one does.  Damage to the data
  of a symbol is never noticed below the AEAD of the shard, so repair symbols do
  not help against it.

## 5. Fairness

`queue_liveness` and `queue_full` assume what Go's scheduler, mutex and channels
give: a goroutine that can run runs (weak fairness); one that waits for the
mutex or for a place in the channel gets it if it is available again and again
(strong fairness: Go's mutex hands over to a starving waiter, channel senders wait
in order).  A handler is assumed to return; it is not assumed to succeed.
Callers, RemoveTask, the orphan cleanup and crashes have no fairness.

`sync_one` assumes that the goroutine of a push or a pull runs on, which the 60
second context of each attempt gives for the calls that carry it; those of
getRecoveryFolderID carry none, and `Hang` lets them end the progress of a push or
a pull wherever it makes them, so that `SyncEnds` says what is left.  It does not
assume that any call succeeds, that anybody asks for a sync, or that edits stop.
`sync_devices` assumes the same, that sync() on the phone runs on, and that it is
asked for again and
again, which each page of the application does after an action
(`files_page.dart:740`).  That the phone's calls return is an assumption about the
network, not about the code: the http package of Dart sets no time limit.  Faults have
no fairness and are finitely many; without
the latter no phone need ever settle.  `PhoneSettles` speaks only of runs in
which the desktops come to rest on a matching pair of files.

## 6. What is proved

Every safety invariant that a passing run checks is also a theorem.
`TaskQueueProofs`, `LocalDiskProofs`, `CloudFilesProofs`, `FileKeysProofs` and
`ShardStreamProofs` EXTEND their modules, `SyncProofs` EXTENDS `MobileSync` and so
`SyncProtocol`, `ShardFaultsProofs` EXTENDS `ShardStreamProofs`; the facts on
sequences they need are in `SequenceLemmas`: appending, subsequences, and the
operator `Selected` of module `Selection`, which two models use for a query's rows
in their order. That its result is what its name says needs induction on the rank;
the prover has no induction over data, but `LeastNat` (a non-empty set of naturals
has a least element, from the library's order of the naturals) gives each such
argument as one on the least counterexample. The assumptions are those declared in
the modules: `QueueAssumption` (upload and video ids are disjoint, capacity and
generations at least 1, `NoTask` is not a task), `SyncAssumption` and
`NoneAssumption` (finite sets of devices and rows, positive bounds, `NoDb` is not
a database), `MobileAssumption` (the phone starts from databases that are not
suspended) and `DiskAssumption` (finitely many videos, backups are manifests with
a file), `FilesAssumption` (there is a content, every content has between one and
MaxParts parts, an upload may be asked for), `KeysAssumption` (the passwords of
uploads are passwords, the clients' keys are master keys, bounds are natural) and
`StreamAssumption` (a block has at least two source symbols and fewer repair
symbols than those, a frame holds a symbol, is no longer than a block and does not
end inside a header, shards have finitely many lengths; all so in the code, with
180 and 20 symbols of 1032 bytes and frames of 7200 or 194400).

* `TaskQueueProofs!TypeCorrect`.  `TypeInv` adds to TypeOK that a held mutex has a
  held object, that a busy worker has one, and that a row to be loaded exists and
  has no object yet.
* `DeliveredOnceHolds`, `PendingIsQueuedHolds`, `FinishedIsFinalHolds`, from the
  inductive `QueueInv`: TypeInv, every object anywhere has a generation that was
  given out, a finished object is not on its way, and the two properties
  themselves.  Without the generations, AddTask could create an object
  that is already in the channel; without the second, a finished task could be
  received again.
* `ListedIsStoredHolds`, from `ListedInv`: QueueInv, that the entry is gone while
  RemoveTask waits to delete the row, and that no handler leaves its object with
  a pending status.
* `PendingUploadIsStoredHolds`, from `UploadInv` over ListedInv: an upload's id has
  one object per run (`OneUpload`), so the object the worker saves for is the
  listed one, and the worker saves no task as Pending.
* `QueueImplementsJobQueue`: initial states map to initial states, and under
  QueueInv every step is an Offer, Enter, Begin, Finish, Restart or a stutter.
* `RemovedDoesNotResumeHolds`, from `ResumeInv`: a row that a restart would take
  up is still to be read, listed, or its task is in the worker's hands.  The
  property speaks of a running daemon only; the invariant must also cover
  the reload, while which rows have no listed task yet.
* `SyncProofs!TypeCorrect`: `JobInv` says which locals a push or a pull has
  at each step (a snapshot from Snapshot on, a manifest from PushStart on), which
  is what makes the uploads well typed.
* `RecordedIsOnDriveHolds`, for one desktop (`Alone`): from the upload of nexus.db on,
  the Drive holds this push's snapshot, from that of the manifest on its manifest
  too, through every retry of either and every answer that came too late; only
  then does Verify's comparison say that the pair on the Drive matches, and
  edits made meanwhile touch neither.
* `SuspendedAfterFailuresHolds`, from `BreakerInv`: not only the local databases,
  but every snapshot in the hands of a push or pull and the Drive's copy must
  agree on suspension and count, because any of them can become a local database.
* `ManifestNotAheadHolds`, for one desktop (`Alone`), from `LsnInv`: neither the
  local LSN nor that of the snapshot of a push falls behind the manifest's, and
  from the upload of nexus.db to that of the manifest the Drive holds that
  snapshot.  The local LSN must be in it because a pull takes it back, though
  only to that of the database beside the manifest.
* In the second half of `SyncProofs` a phone joins: `DesktopInv`, the invariants
  above, and `PhoneInv`, which says
  what sync() holds at each await, are inductive together.  A desktop's step leaves
  the phone alone, so the lemmas of the first half serve; a phone's step
  matters to the desktops only by what it leaves on Drive (`DesktopsStay`).  From it
  `MobileTypeCorrect` and `SuspendedEverywhereHolds`.
* `LocalDiskProofs!TypeCorrect`, from `TypeInv`: an open handle has a file of its
  name, which is what lets a commit be written.
* `OldOrNewHolds` and `NeverOlderHolds`, from `PullInv`: `PullShape` says what each
  step of a pull has in its hands, `OldStays` that the old database, undisturbed,
  is under its name until the new one is in place, and that the backup stays as
  the copy left it (`saved`) until then, `Outcome` what the last result means.
  OldOrNew alone is not inductive: it says nothing of
  the backup before the moment it is needed.
* `HitIsCompleteHolds` and `DirBoundedHolds`, from `CacheInv`: `OwnDatabase`
  (an undisturbed database is the one the cache knows), `PartIsWritten` (a partial
  file is being written or was cut), `EntriesComplete` and `Counted` (each file has
  its entry, or is being written, or is counted in `cuts`).

* `CloudFilesProofs!TypeCorrect`, from `TypeInv`: each upload task that waits pays
  for one key and one row id (`CountInv`), a key seals at most MaxParts videos
  (`CloudBound`), and the running upload has the newest key (`RunBound`).  The
  bounds in TypeOK are not inductive without this bookkeeping.
* `RowNamesItsVideoHolds`, from `RowInv`: ids and paths are unique, every row names
  a first part, a row with a key the one its upload sealed; the queued downloads
  and the row that deduplication has found must name first parts too, since
  LinkExisting saves that video in a new row long after it was read.
* `WholeFileHolds`, from `VideoInv` (what each video holds, that shard rows name
  videos of their position, what the running upload knows of its own) and
  `WholeInv`: a clean upload that runs owns every row of its name and of its
  content, and its row has exactly the parts recorded so far (`OwnOk`); no
  earlier upload of that content is still clean (`LastOk`); a clean row that is
  done has all its parts (`DoneOk`).  `LastOk` is there because RecordShard looks
  its row up by content.  The attempt to prove WholeFile showed that it was too
  strong as first stated: a link row may have a smaller id than the row of a
  content sent before it; when its own purge lets the content be sent again, the
  shards of the new upload go to the older row of that content, which ends with
  too many (24 steps, three names and five uploads, so beyond the run's
  bounds).  `clean` now ends when the content is sent again.
* `DownloadIsGenuineHolds`, an action property, from RowInv, VideoInv and the lemma
  `FetchedParts`: every part that a download fetches comes from its position.
* `FileKeysProofs!TypeCorrect`, from `TypeInv`: `CountInv` bounds keys, videos and
  salts by the requests that wait or have run.
* `KeyOpensVideoHolds` and `PasswordOpensHolds`, from
  `KeyInv` over `TableInv`: not only the rows, but every entry of a manifest under
  way, of the packet on Drive and of the restoration's list must hold a key in
  the format of Encrypt, under the secret the history has and of the entry's
  video, because any of them can become a row.
* `ReadableStaysHolds`, an action property, from the same invariants, with one lemma
  per kind of step (tables that move, grow, lose rows, a row that is linked).
* `RestoreGivesBackHolds`, from `RestoreInv`: `GoalsOk` says that what a manifest
  promises is one readable entry each, in every place a manifest can be, and
  `CleanInv` that in a clean restoration each goal is still waiting or is back.
* `ShardStreamProofs!TypeCorrect`, from `TypeInv`, which contains `Uploaded`: the
  frames written, and the frame begun, are the encoded stream from its start,
  and the finished video is that stream followed by zeros and cells of the last
  block (`Shown`).  The zeros of `finalize` and the repeated last frame make that
  rest; it is in the last block because a frame is no longer than a block.
* `ExactHolds`, from `ExactInv`: while nothing has happened to the video, what
  arrived is that stream and the buffer is its end (`Received`); and either the
  buffer begins with the next symbol, and the blocks known and put out are those
  of the symbols before it (`Midway`, with `Memory`), or the decoder is behind the
  stream (`Settled`).  There it may still find markers, in data repeated from the
  last frame, and read anything as a header; but what is a header names the last
  block, which is decoded, and what is not names a symbol 0, and one symbol
  decodes no block.  The data that look like markers are arbitrary: in the
  stream the decoder never looks at them, behind it they do no harm.
* `ShardFaultsProofs!InOrderHolds`, from two invariants.  While no data look like the
  marker, and for any losses and repetitions, from `OrderInv`, which says where the
  decoder stands (`Reading`) and what it knows (`Known`).  `Buffer`: what waits is the
  rest of the last frame that arrived, behind the start of a
  symbol that the frame before has cut, if any; that symbol may follow those
  taken (`Follows`).  `Position`: nothing before it was passed over but what a cut
  symbol has swallowed.  `Known`: symbols held were taken (`Remembered`), of the
  frame of the last one all but perhaps the first (`NoGap`), and no block before
  the newest one that came out can still be completed, by the symbols held and
  those that may still come (`Outputs`).  InOrder alone says nothing of what can
  still come.  The danger is a repeated frame: it goes back by its own length, at
  most into the block before the newest.  To complete that block it would have
  to hold all source symbols of the newest and one of the block before, when
  nothing of the frame ahead of it was taken, or some of it was swallowed; then
  too few symbols of the block before are there.  The assumption that no frame
  ends inside a header is needed: without it, and with several frames lost in a
  row, TLC finds a header read from zeros as symbol 0 of block 0, and block 0
  comes out after block 1.
  When data look like the marker, symbols can no longer be followed through the
  buffer: the search may stop at any of those data and swallow headers.  Then
  from `SortInv`, which speaks of headers only, over all that ever arrived
  (`Delivered`: frames in the order of the video, none twice if none was shown
  twice).  Each symbol held for a block of the shard has a header in the cells
  passed (`Named`), since what follows false markers names no such block
  (`Astray` is empty), and a block that came out has there one of a symbol not
  below Source - 1, because fewer symbols decode nothing.  Behind that header
  none of an earlier block can come (`NotOvertaken`): frames come in order, and
  one that is shown twice would have to hold the header of the earlier block and
  that of symbol Source - 1 of the later one, for which it is too short.  What the
  repeated last frame holds is of the last block.
* `RepairedHolds`, for every fault, from `RepairInv`.  Repaired speaks of all that
  ever arrived, so the invariant does: `Dropped` says that the buffer is the end
  of it, `History` that it consists of frames in the order of the video, some more
  than once, none again after it was damaged.  Then either the premise of
  Repaired is lost for good (`Spoiled`: too many false markers, one that names a
  block, or a block begun while one before it is short of symbols), or for some m
  the first m blocks have come out (`Good`): only right symbols are held for the
  shard's blocks (`RightOnes`), no others but those of false markers (`FalseOnes`),
  a block that came out is known, or forgotten once the decoder was past it
  (`OldOnes`), and what the decoder passed over stood behind a false marker
  (`NoneMissed`).  Three arguments carry it.  Counting: a false marker hides at
  most one whole symbol, so of a block that arrived well enough and was passed
  enough is held (`HeldEnough`), while false markers cannot fill a block of their
  own (`FalseFew`).  Order: a symbol of an earlier block that comes after one of a
  later block has a higher number and has come before (`SecondTime`), so blocks
  are completed one after the other.  Forgetting: such a symbol is a repair
  symbol (`PassedHigh`), and those alone decode nothing (`HighFew`), so a block
  the decoder has forgotten (`Trim`) does not come out again.  The invariant was
  checked by TLC before it was proved, exhaustively on a small instance and along
  random behaviours of larger ones.

Only model-checked:

* liveness (`AddTaskReturns`, `QueuedIsFinished`, `StoredUploadStarts`,
  `FinishedIsForgotten`, `SyncEnds`, `PhoneSettles`), which
  needs ENABLED, beyond the prover.

## 7. What is not modelled

The virtual drive (`vfs.go`): its state is a map of pending sizes and temporary
files around calls of AddTask, which `TaskQueue` covers; three facts were met
while reading it: RemoveAll trashes the first file of the same base name in any
folder (`vfs.go:154-161`), an interrupted PUT still queues the partial file
(233-250), and a failed upload leaves its pending mark until the task is
forgotten (256).  Of the mobile application the transfers, folders, the trash's
cleanup, a second phone, and overlapping calls of sync(), which nothing
prevents.  The YouTube and Drive clients and OAuth appear only as calls that
succeed, fail, or fail after they took effect.  The codec, key derivation,
compression and the AEAD are functions on bytes: the models use that a blob
opens only under its key and in its format.  The cgo bindings are modelled where
the two formats of ciphertext matter.  `MergeManifest`, `DownloadLatestManifest`
and `pipeline.go` have no caller in the daemon.  The interfaces, the web site
and packaging keep no state that the properties speak of.
