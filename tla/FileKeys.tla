------------------------------ MODULE FileKeys ------------------------------
(***************************************************************************)
(* The keys of the files and the account recovery (nexus-daemon/queue.go,  *)
(* recovery.go, share.go, api.go, core.go, db.go): the secret an upload    *)
(* stores its file key under, sharing, sessions, RotatePassword, the       *)
(* recovery packet on Drive, its restoration row by row, logout and crash. *)
(*                                                                         *)
(* Two formats of ciphertext matter: Encrypt works from a password and     *)
(* writes salt, nonce and ciphertext; EncryptWithKey works from 32 raw     *)
(* bytes and writes nonce and ciphertext.  A blob opens only in its format *)
(* and under its secret.                                                   *)
(*                                                                         *)
(* Left out: parts of large files, failures between them and videos that   *)
(* vanish (CloudFiles; here each file is one video, and any deduplication  *)
(* may find it gone), files of the mobile application, which have no key,  *)
(* manifest_revision, which nothing reads, writes to the database that     *)
(* fail, the second password of a file, and a Drive with two packets.      *)
(***************************************************************************)
EXTENDS Naturals, Sequences, FiniteSets, Selection

CONSTANTS Contents,     \* contents of files, told apart by their SHA-256
          Passwords,    \* what users type
          Given,        \* the passwords that uploads come with
          Clients,      \* the master keys that clients send
          MaxUploads,                \* bound: upload requests
          MaxQueue,                  \* bound: uploads that wait
          MaxBackups, MaxRotations,  \* bounds: requests
          MaxRestores,               \* bound: requests that find a packet
          MaxEvents     \* bound: sessions begun, first shares, logouts, crashes

NoPassword == "none"    \* the empty string of a request
Salts      == 1..(MaxBackups + MaxRotations)
\* The strings Encrypt may be given, and, for hex, the bytes they stand for:
\* DeriveMasterKey(p, salt), a client's own salt being 0.
Master(p, salt) == <<"hex", p, salt>>
Typed(p)        == <<"typed", p>>
AutoKey            == <<"auto">>
Masters == {Master(p, i) : p \in Passwords, i \in {0} \cup Salts}
Secrets == Masters \cup {Typed(p) : p \in Passwords} \cup {AutoKey}
NoMaster == <<>>

ASSUME KeysAssumption ==
  /\ Passwords \subseteq STRING /\ NoPassword \notin Passwords
  /\ Given \subseteq Passwords /\ Clients \subseteq Masters
  /\ MaxUploads \in Nat /\ MaxEvents \in Nat
  /\ MaxBackups \in Nat /\ MaxRotations \in Nat

VARIABLES rows,      \* the files table
          shards,    \* the shards table, in the order of insertion
          nextId,    \* the id AUTOINCREMENT gives next
          cloud,     \* cloud[v]: the key video v is sealed with
          keys,      \* history: the file keys ever made
          session,   \* q.masterKeyHex
          salt,      \* recovery_salt, 0 without a row
          salts,     \* recovery salts generated so far
          packet,    \* recovery-packet.json on Drive
          backups,   \* packets on their way to Drive
          rotating,  \* the new master key of a rotation before its backup
          restore,   \* the restoration under way, or the last one
          queue, run,         \* uploads that wait, the upload that runs
          requests, events    \* counters of the bounds

vars == <<rows, shards, nextId, cloud, keys, session, salt, salts, packet, backups,
          rotating, restore, queue, run, requests, events>>
recovery == <<salt, salts, packet, backups, rotating>>

-----------------------------------------------------------------------------
Keys   == 1..(MaxUploads + MaxEvents)
Videos == 1..MaxUploads
NoKey  == 0
NoWrap == [form |-> "none"]
Wraps  == [form : {"pw", "raw"}, by : Secrets, key : Keys]

\* core.go: the two formats.
Encrypt(k, s)        == [form |-> "pw", by |-> s, key |-> k]
EncryptWithKey(k, m) == [form |-> "raw", by |-> m, key |-> k]
Decrypt(w, s)        == IF w.form = "pw" /\ w.by = s THEN w.key ELSE NoKey
DecryptWithKey(w, m) == IF w.form = "raw" /\ w.by = m THEN w.key ELSE NoKey

\* link: the row is named by a full path, as deduplication names it.
Row   == [id : Nat \ {0}, sha : Contents, link : BOOLEAN, video : Videos,
          wrap : Wraps \cup {NoWrap}, trash : BOOLEAN]
Shard == [file : Nat \ {0}, video : Videos]
\* FileEntry; videos are its ShardEntries.
Entry == [sha : Contents, link : BOOLEAN, video : Videos,
          wrap : Wraps \cup {NoWrap}, videos : Seq(Videos)]
\* goal: history, which contents could be read under which secret.
Manifest == [by : Masters, files : SUBSET Entry, goal : SUBSET (Contents \X Secrets)]
NoPacket == [salt |-> 0]
Requests == {"upload", "backup", "rotate", "restore"}
Idle     == [todo |-> {}, clean |-> FALSE, goal |-> {}]
Task     == [sha : Contents, password : Passwords \cup {NoPassword},
             asked : Passwords \cup {NoPassword}]
NoUpload == [sha |-> "none"]
Running  == [sha : Contents, key : Keys]
\* asked: the password of the request; by: the secret the key was stored
\* under; kept: the daemon had not crashed in between.
Key      == [asked : Passwords \cup {NoPassword}, by : Secrets, kept : BOOLEAN,
             shared : BOOLEAN]

TypeOK ==
  /\ rows \subseteq Row
  /\ shards \in Seq(Shard)
  /\ nextId \in Nat \ {0} /\ \A f \in rows : f.id < nextId
  /\ cloud \in Seq(Keys)
  /\ keys \in Seq(Key)
  /\ session \in Masters \cup {NoMaster}
  /\ salt \in {0} \cup Salts /\ salts \in {0} \cup Salts /\ salt <= salts
  /\ packet \in {NoPacket} \cup [salt : Salts, manifest : Manifest]
  /\ backups \subseteq Manifest
  /\ rotating \in Masters \cup {NoMaster}
  /\ restore \in [todo : SUBSET Entry, clean : BOOLEAN,
                  goal : SUBSET (Contents \X Secrets)]
  /\ queue \in Seq(Task)
  /\ run \in Running \cup {NoUpload}
  /\ requests \in [Requests -> Nat]
  /\ events \in 0..MaxEvents

Init ==
  /\ rows = {} /\ shards = <<>> /\ nextId = 1
  /\ cloud = <<>> /\ keys = <<>>
  /\ session = NoMaster /\ salt = 0 /\ salts = 0
  /\ packet = NoPacket /\ backups = {} /\ rotating = NoMaster
  /\ restore = Idle
  /\ queue = <<>> /\ run = NoUpload
  /\ requests = [r \in Requests |-> 0]
  /\ events = 0
-----------------------------------------------------------------------------
(* The tables.                                                             *)
WithHash(T, c)   == {f \in T : f.sha = c}
FileByHash(T, c) == CHOOSE f \in WithHash(T, c) : \A g \in WithHash(T, c) : f.id <= g.id
Listed(f)        == ~f.trash        \* ListFiles

\* Slip: an upsert that forgets the key.
SaveKeepingKey(T, c, link, v, w) ==
  LET old == {f \in T : f.sha = c /\ f.link = link}
      id  == IF old = {} THEN nextId ELSE (CHOOSE f \in old : TRUE).id
  IN (T \ old) \cup {[id |-> id, sha |-> c, link |-> link, video |-> v, trash |-> FALSE,
                      wrap |-> IF old = {} THEN w ELSE (CHOOSE f \in old : TRUE).wrap]}

\* SaveFileWithKey: a known name keeps its id and leaves the trash.
SaveFileWithKey(T, c, link, v, w) ==
  LET old == {f \in T : f.sha = c /\ f.link = link}
      id  == IF old = {} THEN nextId ELSE (CHOOSE f \in old : TRUE).id
  IN (T \ old) \cup {[id |-> id, sha |-> c, link |-> link, video |-> v,
                      wrap |-> w, trash |-> FALSE]}
\* Slip: the next id forgets the row just saved.
NextIdStays(T, c, link) == nextId
NextId(T, c, link) ==
  IF \E f \in T : f.sha = c /\ f.link = link THEN nextId ELSE nextId + 1

\* GetShardsForFile; the columns of one file, all at position 0.
ShardsOf(id)   == Selected(shards, {i \in 1..Len(shards) : shards[i].file = id})
ShardVideos(id) == LET own == ShardsOf(id) IN [i \in 1..Len(own) |-> own[i].video]

\* handleDownload of row f: the row its hash finds gives the shards and the
\* key; without shards the task's own video is fetched.
Pieces(f) == LET own == ShardVideos(FileByHash(rows, f.sha).id)
             IN IF own = <<>> THEN <<f.video>> ELSE own
\* It writes the content, and writes it once.
Readable(f, s) ==
  LET k == Decrypt(FileByHash(rows, f.sha).wrap, s) IN
  /\ k # NoKey
  /\ Len(Pieces(f)) = 1 /\ cloud[Pieces(f)[1]] = k

\* A client can derive a master key from a salt that exists, or its own.
Known == {m \in Clients : m[3] <= salts}

\* Any other change of the tables ends what a restoration promises.
Touched == [Idle EXCEPT !.todo = restore.todo]
Event == events < MaxEvents /\ events' = events + 1
Count(r) == requests' = [requests EXCEPT ![r] = @ + 1]

-----------------------------------------------------------------------------
(* Sessions and uploads.                                                   *)
StartSession(m) ==
  /\ m \in Known /\ session # m
  /\ Event
  /\ session' = m
  /\ UNCHANGED <<rows, shards, nextId, cloud, keys, recovery, restore, queue, run, requests>>

EndSession ==
  /\ session # NoMaster
  /\ session' = NoMaster
  /\ UNCHANGED <<rows, shards, nextId, cloud, keys, recovery, restore, queue, run,
                 requests, events>>

RequestUpload(c, p) ==
  /\ requests["upload"] < MaxUploads /\ Len(queue) < MaxQueue
  /\ queue' = Append(queue, [sha |-> c, password |-> p, asked |-> p])
  /\ Count("upload")
  /\ UNCHANGED <<rows, shards, nextId, cloud, keys, session, recovery, restore, run, events>>

\* Slip: the session comes before the password.
SessionFirst(p) == IF session # NoMaster THEN session
                   ELSE IF p # NoPassword THEN Typed(p) ELSE AutoKey

\* The password of the task, else the session's key, else the key derived
\* from the Google account.
SecretFor(p) == IF p # NoPassword THEN Typed(p)
                ELSE IF session # NoMaster THEN session ELSE AutoKey

Take(t) == /\ run = NoUpload
           /\ queue # <<>> /\ t = Head(queue)
           /\ queue' = Tail(queue)

\* handleUpload up to the insertion: the row of the same hash, if any, is
\* dropped, for its video is gone; a new key is stored under the secret.
BeginUpload(t) ==
  /\ Take(t)
  /\ rows' = IF WithHash(rows, t.sha) = {} THEN rows
             ELSE rows \ {FileByHash(rows, t.sha)}
  /\ restore' = IF rows' = rows THEN restore ELSE Touched
  /\ keys' = Append(keys, [asked |-> t.asked, by |-> SecretFor(t.password),
                           kept |-> t.asked = t.password, shared |-> FALSE])
  /\ run' = [sha |-> t.sha, key |-> Len(keys) + 1]
  /\ UNCHANGED <<shards, nextId, cloud, session, recovery, requests, events>>

\* Deduplication: the row of the same hash lends its video, not its key.
LinkUpload(t) ==
  /\ Take(t)
  /\ WithHash(rows, t.sha) # {}
  /\ rows'   = SaveFileWithKey(rows, t.sha, TRUE, FileByHash(rows, t.sha).video, NoWrap)
  /\ nextId' = NextId(rows, t.sha, TRUE)
  /\ restore' = Touched
  /\ UNCHANGED <<shards, cloud, keys, session, recovery, run, requests, events>>

FailUpload ==
  /\ run # NoUpload
  /\ run' = NoUpload
  /\ UNCHANGED <<rows, shards, nextId, cloud, keys, session, recovery, restore, queue,
                 requests, events>>

\* The video is inserted; its row and its shard row are saved.
FinishUpload ==
  LET v == Len(cloud) + 1 IN
  /\ run # NoUpload
  /\ cloud'  = Append(cloud, run.key)
  /\ rows'   = SaveFileWithKey(rows, run.sha, FALSE, v, Encrypt(run.key, keys[run.key].by))
  /\ nextId' = NextId(rows, run.sha, FALSE)
  /\ shards' = Append(shards, [file |-> FileByHash(rows', run.sha).id, video |-> v])
  /\ restore' = Touched
  /\ run' = NoUpload
  /\ UNCHANGED <<keys, session, recovery, queue, requests, events>>

SoftDelete(f) ==
  /\ ~f.trash
  /\ rows' = (rows \ {f}) \cup {[f EXCEPT !.trash = TRUE]}
  /\ restore' = Touched
  /\ UNCHANGED <<shards, nextId, cloud, keys, session, recovery, queue, run, requests, events>>

Restore(f) ==
  /\ f.trash
  /\ rows' = (rows \ {f}) \cup {[f EXCEPT !.trash = FALSE]}
  /\ restore' = Touched
  /\ UNCHANGED <<shards, nextId, cloud, keys, session, recovery, queue, run, requests, events>>

PermanentDelete(f) ==
  /\ rows' = rows \ {f}
  /\ restore' = Touched
  /\ UNCHANGED <<shards, nextId, cloud, keys, session, recovery, queue, run, requests, events>>

\* Slip: every share makes a new key.
ShareAnew(f, m) ==
  /\ Event
  /\ m \in Known
  /\ keys' = Append(keys, [asked |-> NoPassword, by |-> m, kept |-> TRUE, shared |-> TRUE])
  /\ rows' = (rows \ {f}) \cup {[f EXCEPT !.wrap = Encrypt(Len(keys) + 1, m)]}
  /\ restore' = Touched
  /\ UNCHANGED <<shards, nextId, cloud, session, recovery, queue, run, requests>>

\* handleShare of a row without a key: a new key is made and stored.  With a
\* key it only answers.
FirstShare(f, m) ==
  /\ Event
  /\ m \in Known
  /\ f.wrap = NoWrap
  /\ keys' = Append(keys, [asked |-> NoPassword, by |-> m, kept |-> TRUE, shared |-> TRUE])
  /\ rows' = (rows \ {f}) \cup {[f EXCEPT !.wrap = Encrypt(Len(keys) + 1, m)]}
  /\ restore' = Touched
  /\ UNCHANGED <<shards, nextId, cloud, session, recovery, queue, run, requests>>

-----------------------------------------------------------------------------
(* Recovery.                                                               *)
\* Slip: the entries lack the key.
EntryWithoutKey(f) == [sha |-> f.sha, link |-> f.link, video |-> f.video,
                       wrap |-> NoWrap, videos |-> ShardVideos(f.id)]

EntryOf(f) == [sha |-> f.sha, link |-> f.link, video |-> f.video, wrap |-> f.wrap,
               videos |-> ShardVideos(f.id)]

\* The rows a restoration is held to: alone in the list with their content,
\* and the ones their hash finds.
Sole(f) == /\ \A g \in WithHash(rows, f.sha) : Listed(g) => g = f
           /\ FileByHash(rows, f.sha) = f

\* BuildDecryptedManifest, encrypted for the master key m.
BuildManifest(m) ==
  LET list == {f \in rows : Listed(f)} IN
  [by |-> m, files |-> {EntryOf(f) : f \in list},
   goal |-> {<<f.sha, f.wrap.by>> : f \in {g \in list : /\ Sole(g) /\ g.wrap # NoWrap
                                                        /\ Readable(g, g.wrap.by)}}]

\* POST /api/recovery/backup, with the key of the body or of the session,
\* which a client gave, too.
RequestBackup(m) ==
  /\ requests["backup"] < MaxBackups
  /\ m \in Known
  /\ backups' = backups \cup {BuildManifest(m)}
  /\ Count("backup")
  /\ UNCHANGED <<rows, shards, nextId, cloud, keys, session, salt, salts, packet, rotating,
                 restore, queue, run, events>>

\* The end of EncryptAndBackupManifest: the first time, a salt is made; the
\* packet on Drive is created or overwritten.
SendPacket(b) ==
  LET new == IF salt = 0 THEN salts + 1 ELSE salt IN
  /\ salt' = new
  /\ salts' = IF salt = 0 THEN salts + 1 ELSE salts
  /\ packet' = [salt |-> new, manifest |-> b]
  /\ backups' = backups \ {b}
  /\ UNCHANGED <<rows, shards, nextId, cloud, keys, session, rotating, restore, queue, run,
                 requests, events>>

\* Drive refuses; the salt may have been stored.
FailBackup(b) ==
  /\ \/ UNCHANGED <<salt, salts>>
     \/ salt = 0 /\ salt' = salts + 1 /\ salts' = salts + 1
  /\ backups' = backups \ {b}
  /\ UNCHANGED <<rows, shards, nextId, cloud, keys, session, packet, rotating, restore,
                 queue, run, requests, events>>

\* RotatePassword up to the backup: the keys are re-encrypted in the order of
\* the list, until one does not open.  No key does that handleUpload stored
\* (queue.go:258 against 563): a rotation ends at the first listed one.
RotatePassword(old, new) ==
  LET was   == Master(old, salt)
      will  == Master(new, salt)
      keyed == {f \in rows : Listed(f) /\ f.wrap # NoWrap}
      shut  == {f \in keyed : DecryptWithKey(f.wrap, was) = NoKey}
      again(f) == [f EXCEPT !.wrap = EncryptWithKey(DecryptWithKey(f.wrap, was), will)]
  IN /\ salt # 0 /\ old # new
     /\ rotating = NoMaster
     /\ requests["rotate"] < MaxRotations
     /\ \E done \in SUBSET (keyed \ shut) :
          /\ shut = {} => done = keyed
          /\ rows' = (rows \ done) \cup {again(f) : f \in done}
     /\ rotating' = IF shut = {} THEN will ELSE NoMaster
     /\ Count("rotate")
     /\ UNCHANGED <<shards, nextId, cloud, keys, session, salt, salts, packet, backups,
                    restore, queue, run, events>>

BackupAfterRotation ==
  /\ rotating # NoMaster
  /\ backups' = backups \cup {BuildManifest(rotating)}
  /\ rotating' = NoMaster
  /\ UNCHANGED <<rows, shards, nextId, cloud, keys, session, salt, salts, packet, restore,
                 queue, run, requests, events>>

\* RestoreManifestFromDrive: the packet opens under its own master key only.
RestoreManifest(m) ==
  /\ requests["restore"] < MaxRestores
  /\ restore.todo = {}
  /\ packet # NoPacket /\ packet.manifest.by = m
  /\ restore' = [todo |-> packet.manifest.files, clean |-> rows = {},
                 goal |-> IF rows = {} THEN packet.manifest.goal ELSE {}]
  /\ Count("restore")
  /\ UNCHANGED <<rows, shards, nextId, cloud, keys, session, recovery, queue, run, events>>

\* One round of ApplyRestoredManifestToDB.  Rows saved in one second are
\* listed in any order, and so are their entries.
ApplyEntry(e) ==
  /\ e \in restore.todo
  /\ rows'   = SaveFileWithKey(rows, e.sha, e.link, e.video, e.wrap)
  /\ nextId' = NextId(rows, e.sha, e.link)
  /\ shards' = shards \o [i \in 1..Len(e.videos) |->
                            [file |-> FileByHash(rows', e.sha).id, video |-> e.videos[i]]]
  /\ restore' = [restore EXCEPT !.todo = @ \ {e}]
  /\ UNCHANGED <<cloud, keys, session, recovery, queue, run, requests, events>>

-----------------------------------------------------------------------------
\* handleAuthLogout: Wipe.  The queue and the session's key stay in memory.
Logout ==
  /\ Event
  /\ rows' = {} /\ shards' = <<>> /\ salt' = 0
  /\ restore' = Touched
  /\ UNCHANGED <<nextId, cloud, keys, session, salts, packet, backups, rotating, queue, run,
                 requests>>

\* Uploads that wait are resumed from the tasks table, which has no column
\* for a password.
Crash ==
  /\ Event
  /\ session' = NoMaster
  /\ queue' = [i \in 1..Len(queue) |-> [queue[i] EXCEPT !.password = NoPassword]]
  /\ run' = NoUpload
  /\ backups' = {} /\ rotating' = NoMaster
  /\ restore' = IF restore.todo = {} THEN restore ELSE Idle
  /\ UNCHANGED <<rows, shards, nextId, cloud, keys, salt, salts, packet, requests>>

Next ==
  \/ \E m \in Known : StartSession(m)
  \/ EndSession
  \/ \E c \in Contents, p \in Given \cup {NoPassword} : RequestUpload(c, p)
  \/ queue # <<>> /\ (BeginUpload(Head(queue)) \/ LinkUpload(Head(queue)))
  \/ FailUpload \/ FinishUpload
  \/ \E f \in rows : \/ SoftDelete(f) \/ Restore(f) \/ PermanentDelete(f)
                     \/ \E m \in Known : FirstShare(f, m)
  \/ \E m \in Known : RequestBackup(m)
  \/ packet # NoPacket /\ RestoreManifest(packet.manifest.by)
  \/ \E b \in backups : SendPacket(b) \/ FailBackup(b)
  \/ \E old, new \in Passwords : RotatePassword(old, new)
  \/ BackupAfterRotation
  \/ \E e \in restore.todo : ApplyEntry(e)
  \/ Logout \/ Crash

Spec == Init /\ [][Next]_vars

-----------------------------------------------------------------------------
(* Whatever was uploaded, linked, shared, rotated, backed up and restored, *)
(* the key of a row still opens with the secret it was stored under, and   *)
(* it is the key its video was sealed with (queue.go:563, 826; recovery.go *)
(* :268) - except a key that sharing made for a row without one.           *)
KeyOpensVideo ==
  \A f \in rows :
    (f.wrap # NoWrap /\ ~keys[f.wrap.key].shared) =>
      Decrypt(f.wrap, keys[f.wrap.key].by) = cloud[f.video]

(* A file uploaded with a password opens with that password, whatever      *)
(* session was begun or ended while it waited (queue.go:542-549), unless   *)
(* the daemon was restarted in between.                                    *)
PasswordOpens ==
  \A f \in rows :
    f.wrap # NoWrap =>
      LET h == keys[f.wrap.key] IN
      (h.asked # NoPassword /\ h.kept) => Decrypt(f.wrap, Typed(h.asked)) = f.wrap.key

(* A restoration into an empty database that ran to its end undisturbed    *)
(* gives back, under the same secret, every file that could be read when   *)
(* the packet was made, if no second row shared its content                *)
(* (recovery.go:61-120, 265-306).                                          *)
RestoreGivesBack ==
  (restore.clean /\ restore.todo = {}) =>
    \A g \in restore.goal :
      \E f \in rows : f.sha = g[1] /\ Listed(f) /\ Readable(f, g[2])

(* A file that can be read stays so: sharing, linking, trashing, password  *)
(* changes, backups, sessions and restarts never take it away; only a step *)
(* that drops a row of its content, or writes one again from an upload or  *)
(* a packet, may (share.go:111-131, queue.go:469, 243-276).                 *)
ReadableStays ==
  [][\A f \in rows, s \in {h.by : h \in {keys[k] : k \in 1..Len(keys)}} :
       (/\ Readable(f, s)
        /\ \A g \in WithHash(rows, f.sha) : \E h \in rows' : h.id = g.id
        /\ cloud' = cloud /\ restore'.todo = restore.todo)
         => (\E g \in rows : g.id = f.id /\ Readable(g, s))']_vars
=============================================================================
