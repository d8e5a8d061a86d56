--------------------------- MODULE FileKeysProofs ---------------------------
(***************************************************************************)
(* Machine-checked proofs about FileKeys, for every set of contents,       *)
(* passwords and clients, and every bound.                                 *)
(***************************************************************************)
EXTENDS FileKeys, SequenceLemmas

-----------------------------------------------------------------------------
(* Kinds of values.                                                        *)
LEMMA SecretKinds ==
  /\ Masters \subseteq Secrets /\ AutoKey \in Secrets
  /\ \A p \in Passwords : Typed(p) \in Secrets
  /\ \A p \in Passwords, i \in {0} \cup Salts : Master(p, i) \in Masters
<1>1. Masters \subseteq Secrets /\ AutoKey \in Secrets
  BY DEF Secrets
<1>2. \A p \in Passwords : Typed(p) \in Secrets
  BY DEF Secrets
<1>3. \A p \in Passwords, i \in {0} \cup Salts : Master(p, i) \in Masters
  BY DEF Masters
<1>4. QED
  BY <1>1, <1>2, <1>3

LEMMA NoMasterKind == NoMaster \notin Masters
  BY DEF Masters, Master, NoMaster

LEMMA Kinds ==
  /\ NoWrap \notin Wraps /\ NoUpload \notin Running
  /\ NoPacket \notin [salt : Salts, manifest : Manifest]
  /\ NoPassword \notin Passwords
  /\ \A x \in {0} \cup Salts : x \in Nat
<1>1. NoWrap \notin Wraps
  BY DEF NoWrap, Wraps
<1>2. NoUpload \notin Running
  BY DEF NoUpload, Running
<1>3. NoPacket \notin [salt : Salts, manifest : Manifest] /\ \A x \in {0} \cup Salts : x \in Nat
  BY KeysAssumption DEF NoPacket, Salts
<1>4. QED
  BY <1>1, <1>2, <1>3, KeysAssumption

-----------------------------------------------------------------------------
(* The tables.                                                             *)

\* GetFileByHash finds the row with the smallest id of those with the hash.
LEMMA FirstRow ==
  ASSUME NEW T, T \subseteq Row, NEW c, WithHash(T, c) # {}
  PROVE  /\ FileByHash(T, c) \in T /\ FileByHash(T, c).sha = c
         /\ \A g \in T : g.sha = c => FileByHash(T, c).id <= g.id
<1> DEFINE W == WithHash(T, c)
           Q == {f.id : f \in W}
<1>1. Q \subseteq Nat /\ Q # {}
  BY DEF WithHash, Row
<1>2. PICK q \in Q : \A r \in Q : q <= r
  <2> HIDE DEF Q
  <2>1. QED
    BY <1>1, LeastNat
<1>3. PICK f \in W : f.id = q
  BY <1>2
<1>4. \A g \in W : f.id <= g.id
  BY <1>2, <1>3
<1> HIDE DEF Q
<1>5. FileByHash(T, c) \in W /\ \A g \in W : FileByHash(T, c).id <= g.id
  BY <1>3, <1>4 DEF FileByHash
<1>6. QED
  BY <1>5 DEF WithHash

\* An upsert replaces the row of the name, keeping its id, or adds one.
SavedAs(R, new, c, link, v, w) ==
  /\ new = [id |-> new.id, sha |-> c, link |-> link, video |-> v, wrap |-> w,
            trash |-> FALSE]
  /\ new.id \in Nat \ {0} /\ new.sha = c /\ new.link = link
  /\ new.video = v /\ new.wrap = w /\ ~new.trash
  /\ new \in R
  /\ R = {f \in rows : ~(f.sha = c /\ f.link = link)} \cup {new}
  /\ \/ /\ \E f \in rows : f.sha = c /\ f.link = link /\ f.id = new.id
        /\ NextId(rows, c, link) = nextId
     \/ /\ ~\E f \in rows : f.sha = c /\ f.link = link
        /\ new.id = nextId /\ NextId(rows, c, link) = nextId + 1

LEMMA Upsert ==
  ASSUME rows \subseteq Row, nextId \in Nat \ {0},
         NEW c, NEW link, NEW v, NEW w
  PROVE  \E new : SavedAs(SaveFileWithKey(rows, c, link, v, w), new, c, link, v, w)
<1> DEFINE old == {f \in rows : f.sha = c /\ f.link = link}
           id  == IF old = {} THEN nextId ELSE (CHOOSE f \in old : TRUE).id
           new == [id |-> id, sha |-> c, link |-> link, video |-> v, wrap |-> w,
                   trash |-> FALSE]
           R   == SaveFileWithKey(rows, c, link, v, w)
<1>1. R = (rows \ old) \cup {new}
  BY DEF SaveFileWithKey
<1>2. /\ new.id = id /\ new.sha = c /\ new.link = link /\ new.video = v
      /\ new.wrap = w /\ ~new.trash
      /\ new = [id |-> new.id, sha |-> c, link |-> link, video |-> v, wrap |-> w,
                trash |-> FALSE]
  OBVIOUS
<1> HIDE DEF new
<1>3. rows \ old = {f \in rows : ~(f.sha = c /\ f.link = link)}
  OBVIOUS
<1>4. CASE old = {}
  <2>1. /\ id = nextId /\ NextId(rows, c, link) = nextId + 1
        /\ ~\E f \in rows : f.sha = c /\ f.link = link
    BY <1>4 DEF NextId
  <2>2. QED
    BY <1>1, <1>2, <1>3, <2>1 DEF SavedAs
<1>5. CASE old # {}
  <2>1. PICK f \in old : id = f.id
    BY <1>5
  <2>2. NextId(rows, c, link) = nextId /\ f.id \in Nat \ {0}
    BY <2>1 DEF NextId, Row
  <2>3. f \in rows /\ f.sha = c /\ f.link = link
    OBVIOUS
  <2> HIDE DEF id, old
  <2>4. QED
    BY <1>1, <1>2, <1>3, <2>1, <2>2, <2>3 DEF SavedAs
<1>6. QED
  BY <1>4, <1>5

-----------------------------------------------------------------------------
(* The inductive invariants.                                               *)

\* The bounds of what is counted by the names of keys, videos and salts.
CountInv ==
  /\ requests["upload"] <= MaxUploads
  /\ requests["backup"] <= MaxBackups /\ requests["rotate"] <= MaxRotations
  /\ Len(keys) + Len(queue) <= requests["upload"] + events
  /\ Len(cloud) + Len(queue) + (IF run = NoUpload THEN 0 ELSE 1) <= requests["upload"]
  /\ IsFiniteSet(backups)
  /\ salts + Cardinality(backups) + (IF rotating = NoMaster THEN 0 ELSE 1)
       <= requests["backup"] + requests["rotate"]
  /\ run # NoUpload => run.key \in 1..Len(keys)

TypeInv == TypeOK /\ CountInv

\* Ids and names of rows are unique; shard rows name ids that were given,
\* and, like the entries of packets, videos that exist.
UniqueRows ==
  /\ \A f, g \in rows : f.id = g.id => f = g
  /\ \A f, g \in rows : f.sha = g.sha /\ f.link = g.link => f = g

ShardOk(h)  == h.file < nextId /\ h.video <= Len(cloud)
PiecesOk(e) == \A i \in 1..Len(e.videos) : e.videos[i] <= Len(cloud)

TableInv ==
  /\ UniqueRows
  /\ \A i \in 1..Len(shards) : ShardOk(shards[i])
  /\ \A b \in backups : \A e \in b.files : PiecesOk(e)
  /\ packet # NoPacket => \A e \in packet.manifest.files : PiecesOk(e)
  /\ \A e \in restore.todo : PiecesOk(e)

\* A stored key: in the format of Encrypt, under the secret the history has;
\* one that an upload made is the key of its video.
WrapOk(w, v) ==
  w # NoWrap =>
    /\ w.form = "pw" /\ w.key \in 1..Len(keys) /\ w.by = keys[w.key].by
    /\ ~keys[w.key].shared => cloud[v] = w.key

\* Of a row or an entry.  A row that deduplication made has no key, or one
\* that sharing made.
KeyOk(f) ==
  /\ f.video <= Len(cloud)
  /\ WrapOk(f.wrap, f.video)
  /\ f.link /\ f.wrap # NoWrap => keys[f.wrap.key].shared

EntriesOk(E) == \A e \in E : KeyOk(e)

KeysOk ==
  /\ \A k \in 1..Len(keys) :
       keys[k].asked # NoPassword /\ keys[k].kept => keys[k].by = Typed(keys[k].asked)
  /\ \A v \in 1..Len(cloud) : cloud[v] <= Len(keys) /\ ~keys[cloud[v]].shared
  /\ run # NoUpload => ~keys[run.key].shared

KeyInv ==
  /\ KeysOk
  /\ EntriesOk(rows)
  /\ \A b \in backups : EntriesOk(b.files)
  /\ packet # NoPacket => EntriesOk(packet.manifest.files)
  /\ EntriesOk(restore.todo)

\* An entry that a download of the restored row will read.
EntryReadable(e, s) ==
  LET pieces == IF e.videos = <<>> THEN <<e.video>> ELSE e.videos
      k      == Decrypt(e.wrap, s)
  IN /\ k # NoKey
     /\ Len(pieces) = 1 /\ pieces[1] <= Len(cloud) /\ cloud[pieces[1]] = k

\* What a manifest promises is one readable entry for each of its goals.
GoalOk(E, goal) ==
  \A g \in goal : \E e \in E : /\ e.sha = g[1] /\ EntryReadable(e, g[2])
                               /\ \A d \in E : d.sha = g[1] => d = e

GoalsOk ==
  /\ \A b \in backups : GoalOk(b.files, b.goal)
  /\ packet # NoPacket => GoalOk(packet.manifest.files, packet.manifest.goal)

\* Each goal of an undisturbed restoration is still an entry, or a row that
\* is alone with its content.
Waiting(g) ==
  /\ GoalOk(restore.todo, {g})
  /\ WithHash(rows, g[1]) = {}

Back(g) ==
  /\ \A d \in restore.todo : d.sha # g[1]
  /\ \E f \in rows : /\ WithHash(rows, g[1]) = {f}
                     /\ Listed(f) /\ Readable(f, g[2])

CleanInv == restore.clean => \A g \in restore.goal : Waiting(g) \/ Back(g)

RestoreInv == GoalsOk /\ CleanInv

-----------------------------------------------------------------------------
(* Types.                                                                  *)

\* GetShardsForFile.
LEMMA ShardsOfType ==
  ASSUME shards \in Seq(Shard), NEW id
  PROVE  ShardsOf(id) \in Seq(Shard) /\ ShardVideos(id) \in Seq(Videos)
<1> DEFINE I == {i \in 1..Len(shards) : shards[i].file = id}
<1>1. I \subseteq 1..Len(shards)
  OBVIOUS
<1>2. IsSelection(shards, I, Shard)
  BY <1>1, SelectedElements, Zenon
<1>3. ShardsOf(id) \in Seq(Shard)
  BY <1>2 DEF ShardsOf, IsSelection
<1>4. ShardVideos(id) \in Seq(Videos)
  <2> DEFINE t == ShardsOf(id)
  <2>1. t \in Seq(Shard)
    BY <1>3
  <2>2. ShardVideos(id) = [i \in 1..Len(t) |-> t[i].video]
    BY DEF ShardVideos
  <2> HIDE DEF t
  <2>3. Len(t) \in Nat /\ \A i \in 1..Len(t) : t[i].video \in Videos
    <3>1. Len(t) \in Nat /\ \A i \in 1..Len(t) : t[i] \in Shard
      BY <2>1
    <3>2. QED
      BY <3>1 DEF Shard
  <2>4. QED
    BY <2>2, <2>3, IsASeq
<1>5. QED
  BY <1>3, <1>4

LEMMA SavedType ==
  ASSUME TypeOK, NEW c \in Contents, NEW link \in BOOLEAN, NEW v \in Videos,
         NEW w \in Wraps \cup {NoWrap}
  PROVE  LET R == SaveFileWithKey(rows, c, link, v, w) IN
         /\ R \subseteq Row
         /\ NextId(rows, c, link) \in Nat \ {0}
         /\ \A f \in R : f.id < NextId(rows, c, link)
         /\ FileByHash(R, c) \in R
<1> DEFINE R == SaveFileWithKey(rows, c, link, v, w)
<1>1. rows \subseteq Row /\ nextId \in Nat \ {0} /\ \A f \in rows : f.id < nextId
  BY DEF TypeOK
<1>2. PICK new : SavedAs(R, new, c, link, v, w)
  BY <1>1, Upsert
<1> HIDE DEF R
<1>3. R = {f \in rows : ~(f.sha = c /\ f.link = link)} \cup {new}
  BY <1>2 DEF SavedAs
<1>4. new \in Row
  <2>1. PICK id \in Nat \ {0} :
          new = [id |-> id, sha |-> c, link |-> link, video |-> v, wrap |-> w,
                 trash |-> FALSE]
    BY <1>2 DEF SavedAs
  <2>2. QED
    BY <2>1 DEF Row
<1>5. R \subseteq Row
  BY <1>1, <1>3, <1>4
<1>6. NextId(rows, c, link) \in Nat \ {0} /\ \A f \in R : f.id < NextId(rows, c, link)
  <2>1. /\ new.id < NextId(rows, c, link) /\ nextId <= NextId(rows, c, link)
        /\ NextId(rows, c, link) \in Nat \ {0}
    BY <1>1, <1>2 DEF SavedAs, Row
  <2>2. ASSUME NEW f \in R PROVE f.id < NextId(rows, c, link)
    BY <1>1, <1>3, <2>1, <1>4 DEF Row
  <2>3. QED
    BY <2>1, <2>2
<1>7. FileByHash(R, c) \in R
  <2>1. WithHash(R, c) # {}
    BY <1>2 DEF SavedAs, WithHash
  <2>2. QED
    BY <2>1, <1>5, FirstRow
<1>8. QED
  BY <1>5, <1>6, <1>7 DEF R

LEMMA TypeInit == Init => TypeInv
<1> SUFFICES ASSUME Init PROVE TypeInv
  OBVIOUS
<1> USE DEF Init
<1>1. TypeOK
  BY KeysAssumption DEF TypeOK, Idle, Requests
<1>2. CountInv
  <2>1. IsFiniteSet(backups) /\ Cardinality(backups) = 0
    BY FS_EmptySet
  <2>2. Len(keys) = 0 /\ Len(queue) = 0 /\ Len(cloud) = 0
    OBVIOUS
  <2>3. QED
    BY <2>1, <2>2, KeysAssumption DEF CountInv, Requests
<1>3. QED
  BY <1>1, <1>2 DEF TypeInv

\* The lengths and counters are naturals, and within the bounds.
LEMMA Counts ==
  ASSUME TypeInv
  PROVE  /\ Len(keys) \in Nat /\ Len(queue) \in Nat /\ Len(cloud) \in Nat
         /\ Cardinality(backups) \in Nat /\ salts \in Nat /\ events \in Nat
         /\ requests["upload"] \in Nat /\ requests["backup"] \in Nat
         /\ requests["rotate"] \in Nat
         /\ MaxUploads \in Nat /\ MaxEvents \in Nat
         /\ MaxBackups \in Nat /\ MaxRotations \in Nat
         /\ events <= MaxEvents
<1>1. salts \in Nat
  BY Kinds DEF TypeInv, TypeOK
<1>2. Cardinality(backups) \in Nat
  BY FS_CardinalityType DEF TypeInv, CountInv
<1>3. Len(keys) \in Nat /\ Len(queue) \in Nat /\ Len(cloud) \in Nat
  BY DEF TypeInv, TypeOK
<1>4. /\ requests["upload"] \in Nat /\ requests["backup"] \in Nat
      /\ requests["rotate"] \in Nat
  BY DEF TypeInv, TypeOK, Requests
<1>5. /\ MaxUploads \in Nat /\ MaxEvents \in Nat
      /\ MaxBackups \in Nat /\ MaxRotations \in Nat
      /\ events \in Nat /\ events <= MaxEvents
  BY KeysAssumption DEF TypeInv, TypeOK
<1>6. QED
  BY <1>1, <1>2, <1>3, <1>4, <1>5

LEMMA CountStep ==
  ASSUME TypeOK, NEW r \in Requests, Count(r)
  PROVE  /\ requests' \in [Requests -> Nat]
         /\ requests'[r] = requests[r] + 1
         /\ \A q \in Requests : q # r => requests'[q] = requests[q]
  BY DEF TypeOK, Count

LEMMA TouchedType ==
  ASSUME TypeOK
  PROVE  Touched \in [todo : SUBSET Entry, clean : BOOLEAN,
                      goal : SUBSET (Contents \X Secrets)]
  BY DEF TypeOK, Touched, Idle

\* BuildDecryptedManifest.
LEMMA ManifestType ==
  ASSUME TypeOK, NEW m \in Masters
  PROVE  BuildManifest(m) \in Manifest
<1> DEFINE list == {f \in rows : Listed(f)}
<1>1. ASSUME NEW f \in rows PROVE EntryOf(f) \in Entry
  <2>1. ShardVideos(f.id) \in Seq(Videos)
    BY ShardsOfType DEF TypeOK
  <2>2. f.sha \in Contents /\ f.link \in BOOLEAN /\ f.video \in Videos
        /\ f.wrap \in Wraps \cup {NoWrap}
    BY DEF TypeOK, Row
  <2>3. QED
    BY <2>1, <2>2 DEF EntryOf, Entry
<1>2. ASSUME NEW f \in rows, f.wrap # NoWrap
      PROVE  <<f.sha, f.wrap.by>> \in Contents \X Secrets
  <2>1. f.sha \in Contents /\ f.wrap \in Wraps
    BY <1>2 DEF TypeOK, Row
  <2>2. f.wrap.by \in Secrets
    BY <2>1 DEF Wraps
  <2>3. QED
    BY <2>1, <2>2
<1>3. {EntryOf(f) : f \in list} \subseteq Entry
  BY <1>1
<1>4. {<<f.sha, f.wrap.by>> : f \in {g \in list : /\ Sole(g) /\ g.wrap # NoWrap
                                                  /\ Readable(g, g.wrap.by)}}
        \subseteq Contents \X Secrets
  BY <1>2
<1>5. QED
  BY <1>3, <1>4 DEF BuildManifest, Manifest

\* The head of the queue, taken.
LEMMA TakeType ==
  ASSUME TypeInv, NEW t, Take(t)
  PROVE  /\ t \in Task /\ queue' \in Seq(Task)
         /\ Len(queue') = Len(queue) - 1 /\ Len(queue) > 0
         /\ SecretFor(t.password) \in Secrets
<1>1. queue \in Seq(Task) /\ queue # <<>>
  BY DEF Take, TypeInv, TypeOK
<1>2. /\ t \in Task /\ queue' \in Seq(Task)
      /\ Len(queue') = Len(queue) - 1 /\ Len(queue) > 0
  BY <1>1 DEF Take
<1>3. t.password \in Passwords \cup {NoPassword}
  BY <1>2 DEF Task
<1>4. session = NoMaster \/ session \in Secrets
  BY SecretKinds DEF TypeInv, TypeOK
<1>5. QED
  BY <1>2, <1>3, <1>4, SecretKinds DEF SecretFor

\* Uploads.
LEMMA UploadType ==
  ASSUME TypeInv,
         \/ \E c \in Contents, p \in Given \cup {NoPassword} : RequestUpload(c, p)
         \/ \E t : BeginUpload(t) \/ LinkUpload(t)
         \/ FailUpload \/ FinishUpload
  PROVE  TypeInv'
<1>a. TypeOK /\ CountInv
  BY DEF TypeInv
<1>b. Touched \in [todo : SUBSET Entry, clean : BOOLEAN, goal : SUBSET (Contents \X Secrets)]
  BY <1>a, TouchedType
<1>c. /\ Len(keys) \in Nat /\ Len(queue) \in Nat /\ Len(cloud) \in Nat
      /\ events \in Nat /\ events <= MaxEvents /\ requests["upload"] \in Nat
      /\ MaxUploads \in Nat /\ MaxEvents \in Nat
  BY Counts
<1>d. /\ Len(keys) + Len(queue) <= requests["upload"] + events
      /\ Len(cloud) + Len(queue) + (IF run = NoUpload THEN 0 ELSE 1) <= requests["upload"]
      /\ requests["upload"] <= MaxUploads
  BY <1>a DEF CountInv
<1>1. ASSUME NEW c \in Contents, NEW p \in Given \cup {NoPassword}, RequestUpload(c, p)
      PROVE  TypeInv'
  <2>1. [sha |-> c, password |-> p, asked |-> p] \in Task
    BY KeysAssumption DEF Task
  <2>2. queue' \in Seq(Task) /\ Len(queue') = Len(queue) + 1
    BY <1>1, <1>a, <2>1 DEF RequestUpload, TypeOK
  <2>3. /\ requests' \in [Requests -> Nat]
        /\ requests'["upload"] = requests["upload"] + 1
        /\ requests'["backup"] = requests["backup"] /\ requests'["rotate"] = requests["rotate"]
    BY <1>1, <1>a, CountStep DEF RequestUpload, Requests
  <2>4. requests'["upload"] <= MaxUploads
    BY <1>1, <1>c, <2>3 DEF RequestUpload
  <2>5. TypeOK'
    BY <1>1, <1>a, <2>2, <2>3 DEF RequestUpload, TypeOK, recovery
  <2>6. CountInv'
    BY <1>1, <1>a, <1>c, <2>2, <2>3, <2>4, SMTT(30) DEF RequestUpload, CountInv, recovery
  <2>7. QED
    BY <2>5, <2>6 DEF TypeInv
<1>2. ASSUME NEW t, BeginUpload(t) PROVE TypeInv'
  <2>1. /\ t \in Task /\ queue' \in Seq(Task)
        /\ Len(queue') = Len(queue) - 1 /\ Len(queue) > 0
        /\ SecretFor(t.password) \in Secrets
    BY <1>2, TakeType DEF BeginUpload
  <2>2. rows' \subseteq rows
    BY <1>2 DEF BeginUpload
  <2>3. Len(keys) + 1 \in Keys
    BY <1>c, <1>d, <2>1 DEF Keys
  <2>4. [asked |-> t.asked, by |-> SecretFor(t.password),
         kept |-> t.asked = t.password, shared |-> FALSE] \in Key
    BY <2>1 DEF Task, Key
  <2>5. keys' \in Seq(Key) /\ Len(keys') = Len(keys) + 1
    BY <1>2, <1>a, <2>4 DEF BeginUpload, TypeOK
  <2>6. run' \in Running /\ run'.key = Len(keys) + 1
    BY <1>2, <2>1, <2>3 DEF BeginUpload, Running, Task
  <2>7. run' # NoUpload /\ run = NoUpload
    BY <1>2, <2>6, Kinds DEF BeginUpload, Take
  <2>8. restore' \in [todo : SUBSET Entry, clean : BOOLEAN, goal : SUBSET (Contents \X Secrets)]
    BY <1>2, <1>a, <1>b DEF BeginUpload, TypeOK
  <2>9. TypeOK'
    BY <1>2, <1>a, <2>1, <2>2, <2>5, <2>6, <2>8 DEF BeginUpload, TypeOK, recovery
  <2>10. CountInv'
    BY <1>2, <1>a, <1>c, <2>1, <2>5, <2>6, <2>7 DEF BeginUpload, CountInv, recovery
  <2>11. QED
    BY <2>9, <2>10 DEF TypeInv
<1>3. ASSUME NEW t, LinkUpload(t) PROVE TypeInv'
  <2>1. /\ t \in Task /\ queue' \in Seq(Task)
        /\ Len(queue') = Len(queue) - 1 /\ Len(queue) > 0
    BY <1>3, TakeType DEF LinkUpload
  <2>2. FileByHash(rows, t.sha) \in Row
    BY <1>3, <1>a, FirstRow DEF LinkUpload, TypeOK
  <2>3. t.sha \in Contents /\ FileByHash(rows, t.sha).video \in Videos
    BY <2>1, <2>2 DEF Task, Row
  <2>4. /\ rows' \subseteq Row /\ nextId' \in Nat \ {0}
        /\ \A f \in rows' : f.id < nextId'
    BY <1>3, <1>a, <2>3, SavedType DEF LinkUpload
  <2>5. TypeOK'
    BY <1>3, <1>a, <1>b, <2>1, <2>4 DEF LinkUpload, TypeOK, recovery
  <2>6. CountInv'
    BY <1>3, <1>a, <1>c, <2>1 DEF LinkUpload, CountInv, recovery
  <2>7. QED
    BY <2>5, <2>6 DEF TypeInv
<1>4. CASE FailUpload
  <2>1. TypeOK'
    BY <1>4, <1>a DEF FailUpload, TypeOK, recovery
  <2>2. CountInv'
    BY <1>4, <1>a, <1>c DEF FailUpload, CountInv, recovery
  <2>3. QED
    BY <2>1, <2>2 DEF TypeInv
<1>5. CASE FinishUpload
  <2> DEFINE v == Len(cloud) + 1
             w == Encrypt(run.key, keys[run.key].by)
  <2>1. run \in Running /\ run.key \in 1..Len(keys) /\ run # NoUpload
    BY <1>5, <1>a DEF FinishUpload, TypeOK, CountInv
  <2>2. run.sha \in Contents /\ run.key \in Keys
    BY <2>1 DEF Running
  <2>3. keys[run.key] \in Key
    BY <2>1, <1>a DEF TypeOK
  <2>4. w \in Wraps
    BY <2>2, <2>3 DEF Encrypt, Wraps, Key
  <2>5. v \in Videos
    BY <2>1, <1>c, <1>d DEF Videos
  <2>6. cloud' \in Seq(Keys) /\ Len(cloud') = Len(cloud) + 1
    BY <1>5, <1>a, <2>2 DEF FinishUpload, TypeOK
  <2> HIDE DEF v, w
  <2>7. rows' = SaveFileWithKey(rows, run.sha, FALSE, v, w)
        /\ nextId' = NextId(rows, run.sha, FALSE)
    BY <1>5 DEF FinishUpload, v, w
  <2>8. /\ rows' \subseteq Row /\ nextId' \in Nat \ {0}
        /\ \A f \in rows' : f.id < nextId'
        /\ FileByHash(rows', run.sha) \in Row
    BY <1>a, <2>2, <2>4, <2>5, <2>7, SavedType
  <2>9. shards' \in Seq(Shard)
    <3>1. [file |-> FileByHash(rows', run.sha).id, video |-> v] \in Shard
      BY <2>5, <2>8 DEF Shard, Row
    <3>2. QED
      BY <3>1, <1>5, <1>a DEF FinishUpload, v, TypeOK
  <2>10. TypeOK'
    BY <1>5, <1>a, <1>b, <2>6, <2>8, <2>9 DEF FinishUpload, TypeOK, recovery
  <2>11. CountInv'
    BY <1>5, <1>a, <1>c, <2>1, <2>6 DEF FinishUpload, CountInv, recovery
  <2>12. QED
    BY <2>10, <2>11 DEF TypeInv
<1>6. QED
  BY <1>1, <1>2, <1>3, <1>4, <1>5

\* Sessions, requests about rows, and what empties memory or tables.
LEMMA RequestType ==
  ASSUME TypeInv,
         \/ \E m \in Known : StartSession(m)
         \/ EndSession
         \/ \E f \in rows : \/ SoftDelete(f) \/ Restore(f) \/ PermanentDelete(f)
                            \/ \E m \in Known : FirstShare(f, m)
         \/ Logout \/ Crash
  PROVE  TypeInv'
<1>a. TypeOK /\ CountInv
  BY DEF TypeInv
<1>b. Touched \in [todo : SUBSET Entry, clean : BOOLEAN, goal : SUBSET (Contents \X Secrets)]
  BY <1>a, TouchedType
<1>c. /\ Len(keys) \in Nat /\ Len(queue) \in Nat /\ Len(cloud) \in Nat
      /\ events \in Nat /\ events <= MaxEvents /\ requests["upload"] \in Nat
      /\ requests["backup"] \in Nat /\ requests["rotate"] \in Nat
      /\ MaxUploads \in Nat /\ MaxEvents \in Nat
      /\ salts \in Nat /\ Cardinality(backups) \in Nat
  BY Counts
<1>d. /\ Len(keys) + Len(queue) <= requests["upload"] + events
      /\ Len(cloud) + Len(queue) <= requests["upload"]
      /\ requests["upload"] <= MaxUploads
  BY <1>a, <1>c, SMTT(30) DEF CountInv
<1>e. Known \subseteq Masters
  BY KeysAssumption DEF Known
<1>1. ASSUME NEW m \in Known, StartSession(m) PROVE TypeInv'
  <2>1. TypeOK'
    BY <1>1, <1>a, <1>c, <1>e DEF StartSession, TypeOK, recovery, Event
  <2>2. CountInv'
    BY <1>1, <1>a, <1>c, SMTT(30) DEF StartSession, CountInv, recovery, Event
  <2>3. QED
    BY <2>1, <2>2 DEF TypeInv
<1>2. CASE EndSession
  <2>1. TypeOK'
    BY <1>2, <1>a DEF EndSession, TypeOK, recovery
  <2>2. CountInv'
    BY <1>2, <1>a DEF EndSession, CountInv, recovery
  <2>3. QED
    BY <2>1, <2>2 DEF TypeInv
<1>3. ASSUME NEW f \in rows, SoftDelete(f) \/ Restore(f) \/ PermanentDelete(f)
      PROVE  TypeInv'
  <2>1. \A b \in BOOLEAN : [f EXCEPT !.trash = b] \in Row /\ [f EXCEPT !.trash = b].id = f.id
    BY <1>a DEF TypeOK, Row
  <2>2. rows' \subseteq Row /\ \A g \in rows' : g.id < nextId
    BY <1>3, <1>a, <2>1 DEF SoftDelete, Restore, PermanentDelete, TypeOK
  <2>3. TypeOK'
    BY <1>3, <1>a, <1>b, <2>2 DEF SoftDelete, Restore, PermanentDelete, TypeOK, recovery
  <2>4. CountInv'
    BY <1>3, <1>a DEF SoftDelete, Restore, PermanentDelete, CountInv, recovery
  <2>5. QED
    BY <2>3, <2>4 DEF TypeInv
<1>4. ASSUME NEW f \in rows, NEW m \in Known, FirstShare(f, m) PROVE TypeInv'
  <2>1. m \in Secrets
    BY <1>e, SecretKinds
  <2>2. Len(keys) + 1 \in Keys /\ events' = events + 1 /\ events' \in 0..MaxEvents
    <3>1. events < MaxEvents /\ events' = events + 1
      BY <1>4 DEF FirstShare, Event
    <3>2. QED
      BY <3>1, <1>c, <1>d, SMTT(30) DEF Keys
  <2>3. [asked |-> NoPassword, by |-> m, kept |-> TRUE, shared |-> TRUE] \in Key
    BY <2>1 DEF Key
  <2>4. keys' \in Seq(Key) /\ Len(keys') = Len(keys) + 1
    BY <1>4, <1>a, <2>3 DEF FirstShare, TypeOK
  <2>5. Encrypt(Len(keys) + 1, m) \in Wraps
    BY <2>1, <2>2 DEF Encrypt, Wraps
  <2>6. \A w \in Wraps : [f EXCEPT !.wrap = w] \in Row /\ [f EXCEPT !.wrap = w].id = f.id
    BY <1>a DEF TypeOK, Row
  <2>7. rows' \subseteq Row /\ \A g \in rows' : g.id < nextId
    BY <1>4, <1>a, <2>5, <2>6 DEF FirstShare, TypeOK
  <2>8. TypeOK'
    BY <1>4, <1>a, <1>b, <2>2, <2>4, <2>7 DEF FirstShare, TypeOK, recovery
  <2>9. CountInv'
    <3>1. UNCHANGED <<cloud, queue, run, requests, salts, backups, rotating>>
      BY <1>4 DEF FirstShare, recovery
    <3>2. Len(keys') + Len(queue') <= requests'["upload"] + events'
      BY <3>1, <1>c, <1>d, <2>2, <2>4, SMTT(30)
    <3>3. run' # NoUpload => run'.key \in 1..Len(keys')
      BY <3>1, <1>a, <1>c, <2>4, SMTT(30) DEF CountInv
    <3>4. QED
      BY <3>1, <3>2, <3>3, <1>a DEF CountInv
  <2>10. QED
    BY <2>8, <2>9 DEF TypeInv
<1>5. CASE Logout
  <2>1. events' = events + 1 /\ events' \in 0..MaxEvents
    BY <1>5, <1>c DEF Logout, Event
  <2>2. TypeOK'
    BY <1>5, <1>a, <1>b, <1>c, <2>1 DEF Logout, TypeOK
  <2>3. CountInv'
    BY <1>5, <1>a, <1>c, <2>1, SMTT(30) DEF Logout, CountInv
  <2>4. QED
    BY <2>2, <2>3 DEF TypeInv
<1>6. CASE Crash
  <2>1. events' = events + 1 /\ events' \in 0..MaxEvents
    BY <1>6, <1>c DEF Crash, Event
  <2>2. queue' \in Seq(Task) /\ Len(queue') = Len(queue)
    <3>1. queue \in Seq(Task)
      BY <1>a DEF TypeOK
    <3>2. \A i \in 1..Len(queue) : [queue[i] EXCEPT !.password = NoPassword] \in Task
      <4>1. \A t \in Task : [t EXCEPT !.password = NoPassword] \in Task
        BY DEF Task
      <4>2. \A i \in 1..Len(queue) : queue[i] \in Task
        BY <3>1
      <4>3. QED
        BY <4>1, <4>2
    <3>3. queue' = [i \in 1..Len(queue) |-> [queue[i] EXCEPT !.password = NoPassword]]
      BY <1>6 DEF Crash
    <3>4. QED
      BY <1>c, <3>2, <3>3, IsASeq, SMTT(30)
  <2>3. restore' \in [todo : SUBSET Entry, clean : BOOLEAN, goal : SUBSET (Contents \X Secrets)]
    BY <1>6, <1>a DEF Crash, TypeOK, Idle
  <2>4. TypeOK'
    BY <1>6, <1>a, <2>1, <2>2, <2>3 DEF Crash, TypeOK
  <2>5. Cardinality({}) = 0 /\ IsFiniteSet({})
    BY FS_EmptySet
  <2>6. CountInv'
    <3>1. /\ UNCHANGED <<keys, cloud, requests, salts>>
          /\ run' = NoUpload /\ rotating' = NoMaster /\ backups' = {}
      BY <1>6 DEF Crash
    <3>2. IsFiniteSet(backups') /\ Cardinality(backups') = 0
      BY <3>1, <2>5
    <3>3. /\ Len(keys') + Len(queue') <= requests'["upload"] + events'
          /\ Len(cloud') + Len(queue') + 0 <= requests'["upload"]
      BY <3>1, <1>c, <1>d, <2>1, <2>2
    <3>4. /\ requests["upload"] <= MaxUploads
          /\ requests["backup"] <= MaxBackups /\ requests["rotate"] <= MaxRotations
          /\ salts + 0 + 0 <= requests["backup"] + requests["rotate"]
      BY <1>a, <1>c, SMTT(30) DEF CountInv
    <3>5. QED
      BY <3>1, <3>2, <3>3, <3>4 DEF CountInv
  <2>7. QED
    BY <2>4, <2>6 DEF TypeInv
<1>7. QED
  BY <1>1, <1>2, <1>3, <1>4, <1>5, <1>6

\* Backups, rotations and restorations.
LEMMA RecoveryType ==
  ASSUME TypeInv,
         \/ \E m \in Known : RequestBackup(m)
         \/ packet # NoPacket /\ RestoreManifest(packet.manifest.by)
         \/ \E b \in backups : SendPacket(b) \/ FailBackup(b)
         \/ \E old, new \in Passwords : RotatePassword(old, new)
         \/ BackupAfterRotation
         \/ \E e \in restore.todo : ApplyEntry(e)
  PROVE  TypeInv'
<1>a. TypeOK /\ CountInv
  BY DEF TypeInv
<1>c. /\ requests["backup"] \in Nat /\ requests["rotate"] \in Nat
      /\ MaxBackups \in Nat /\ MaxRotations \in Nat
      /\ salts \in Nat /\ Cardinality(backups) \in Nat
  BY Counts
<1>d. /\ requests["backup"] <= MaxBackups /\ requests["rotate"] <= MaxRotations
      /\ IsFiniteSet(backups)
      /\ salts + Cardinality(backups) + (IF rotating = NoMaster THEN 0 ELSE 1)
           <= requests["backup"] + requests["rotate"]
  BY <1>a DEF CountInv
<1>e. Known \subseteq Masters
  BY KeysAssumption DEF Known
<1>1. ASSUME NEW m \in Known, RequestBackup(m) PROVE TypeInv'
  <2>1. backups' = backups \cup {BuildManifest(m)}
    BY <1>1 DEF RequestBackup
  <2>2. backups' \subseteq Manifest
    BY <1>a, <1>e, <2>1, ManifestType DEF TypeOK
  <2>3. /\ IsFiniteSet(backups') /\ Cardinality(backups') \in Nat
        /\ Cardinality(backups') <= Cardinality(backups) + 1
    BY <1>c, <1>d, <2>1, FS_AddElement, SMTT(30)
  <2>4. /\ requests' \in [Requests -> Nat]
        /\ requests'["backup"] = requests["backup"] + 1
        /\ requests'["upload"] = requests["upload"] /\ requests'["rotate"] = requests["rotate"]
    BY <1>1, <1>a, CountStep DEF RequestBackup, Requests
  <2>5. requests'["backup"] <= MaxBackups
    BY <1>1, <1>c, <2>4 DEF RequestBackup
  <2>6. TypeOK'
    BY <1>1, <1>a, <2>2, <2>4 DEF RequestBackup, TypeOK
  <2>7. CountInv'
    <3>1. UNCHANGED <<keys, cloud, queue, run, events, salts, rotating>>
      BY <1>1 DEF RequestBackup
    <3>2. salts' + Cardinality(backups') + (IF rotating' = NoMaster THEN 0 ELSE 1)
            <= requests'["backup"] + requests'["rotate"]
      BY <3>1, <1>c, <1>d, <2>3, <2>4
    <3>3. /\ Len(keys') + Len(queue') <= requests'["upload"] + events'
          /\ Len(cloud') + Len(queue') + (IF run' = NoUpload THEN 0 ELSE 1)
               <= requests'["upload"]
          /\ requests'["upload"] <= MaxUploads /\ requests'["rotate"] <= MaxRotations
          /\ run' # NoUpload => run'.key \in 1..Len(keys')
      BY <3>1, <1>a, <2>4 DEF CountInv
    <3>4. QED
      BY <3>2, <3>3, <2>3, <2>5 DEF CountInv
  <2>8. QED
    BY <2>6, <2>7 DEF TypeInv
<1>2. ASSUME packet # NoPacket, RestoreManifest(packet.manifest.by) PROVE TypeInv'
  <2>1. packet.manifest \in Manifest
    BY <1>2, <1>a DEF TypeOK
  <2>2. restore' \in [todo : SUBSET Entry, clean : BOOLEAN, goal : SUBSET (Contents \X Secrets)]
    <3>1. packet.manifest.files \subseteq Entry /\ packet.manifest.goal \subseteq Contents \X Secrets
      BY <2>1 DEF Manifest
    <3>2. QED
      BY <3>1, <1>2 DEF RestoreManifest
  <2>3. /\ requests' \in [Requests -> Nat]
        /\ requests'["backup"] = requests["backup"]
        /\ requests'["upload"] = requests["upload"] /\ requests'["rotate"] = requests["rotate"]
    BY <1>2, <1>a, CountStep DEF RestoreManifest, Requests
  <2>4. TypeOK'
    BY <1>2, <1>a, <2>2, <2>3 DEF RestoreManifest, TypeOK, recovery
  <2>5. CountInv'
    <3>1. UNCHANGED <<keys, cloud, queue, run, events, salts, backups, rotating>>
      BY <1>2 DEF RestoreManifest, recovery
    <3>2. QED
      BY <3>1, <1>a, <2>3 DEF CountInv
  <2>6. QED
    BY <2>4, <2>5 DEF TypeInv
<1>3. ASSUME NEW b \in backups, SendPacket(b) \/ FailBackup(b) PROVE TypeInv'
  <2>1. backups' = backups \ {b}
    BY <1>3 DEF SendPacket, FailBackup
  <2>2. /\ IsFiniteSet(backups') /\ Cardinality(backups') = Cardinality(backups) - 1
    BY <1>d, <2>1, FS_RemoveElement
  <2>3. salts + 1 \in Salts
    <3>1. Cardinality(backups) # 0
      BY <1>d, FS_EmptySet
    <3>2. salts + 1 <= MaxBackups + MaxRotations
      BY <3>1, <1>c, <1>d
    <3>3. QED
      BY <3>2, <1>c DEF Salts
  <2>4. salt \in {0} \cup Salts /\ salts \in {0} \cup Salts /\ salt <= salts /\ salt \in Nat
    BY <1>a, Kinds DEF TypeOK
  <2>5. /\ salt' \in {0} \cup Salts /\ salts' \in {0} \cup Salts
        /\ salt' <= salts' /\ salts' <= salts + 1 /\ salts' \in Nat
    BY <1>3, <1>c, <2>3, <2>4 DEF SendPacket, FailBackup
  <2>6. packet' \in {NoPacket} \cup [salt : Salts, manifest : Manifest]
    <3>1. b \in Manifest /\ packet \in {NoPacket} \cup [salt : Salts, manifest : Manifest]
      BY <1>a DEF TypeOK
    <3>2. CASE SendPacket(b)
      <4>1. (IF salt = 0 THEN salts + 1 ELSE salt) \in Salts
        BY <2>3, <2>4
      <4>2. QED
        BY <3>1, <3>2, <4>1 DEF SendPacket
    <3>3. CASE FailBackup(b)
      BY <3>1, <3>3 DEF FailBackup
    <3>4. QED
      BY <1>3, <3>2, <3>3
  <2>7. UNCHANGED <<rows, shards, nextId, cloud, keys, session, rotating, restore, queue,
                    run, requests, events>>
    BY <1>3 DEF SendPacket, FailBackup
  <2>8. backups' \subseteq Manifest
    BY <1>a, <2>1 DEF TypeOK
  <2>9. TypeOK'
    BY <1>a, <2>5, <2>6, <2>7, <2>8 DEF TypeOK
  <2>10. CountInv'
    <3>1. salts' + Cardinality(backups') + (IF rotating' = NoMaster THEN 0 ELSE 1)
            <= requests'["backup"] + requests'["rotate"]
      BY <1>c, <1>d, <2>2, <2>5, <2>7
    <3>2. QED
      BY <3>1, <1>a, <2>2, <2>7 DEF CountInv
  <2>11. QED
    BY <2>9, <2>10 DEF TypeInv
<1>4. ASSUME NEW old \in Passwords, NEW new \in Passwords, RotatePassword(old, new)
      PROVE  TypeInv'
  <2> DEFINE was   == Master(old, salt)
             will  == Master(new, salt)
             again(f) == [f EXCEPT !.wrap = EncryptWithKey(DecryptWithKey(f.wrap, was), will)]
  <2>1. will \in Masters /\ will \in Secrets
    BY <1>a, SecretKinds DEF TypeOK
  <2>2. ASSUME NEW f \in rows, f.wrap # NoWrap, DecryptWithKey(f.wrap, was) # NoKey
        PROVE  again(f) \in Row /\ again(f).id = f.id
    <3>1. f \in Row /\ f.wrap \in Wraps
      BY <1>a, <2>2 DEF TypeOK, Row
    <3>2. DecryptWithKey(f.wrap, was) \in Keys
      BY <2>2, <3>1 DEF DecryptWithKey, Wraps
    <3>3. EncryptWithKey(DecryptWithKey(f.wrap, was), will) \in Wraps
      BY <2>1, <3>2 DEF EncryptWithKey, Wraps
    <3> HIDE DEF was, will
    <3>4. QED
      BY <3>1, <3>3 DEF Row
  <2>3. PICK done \in SUBSET rows :
          /\ \A f \in done : f.wrap # NoWrap /\ DecryptWithKey(f.wrap, was) # NoKey
          /\ rows' = (rows \ done) \cup {again(f) : f \in done}
    BY <1>4 DEF RotatePassword
  <2>4. rows' \subseteq Row /\ \A g \in rows' : g.id < nextId
    <3>1. \A f \in done : again(f) \in Row /\ again(f).id = f.id
      BY <2>2, <2>3
    <3> HIDE DEF was, will, again
    <3>2. rows \subseteq Row /\ \A g \in rows : g.id < nextId
      BY <1>a DEF TypeOK
    <3>3. QED
      BY <2>3, <3>1, <3>2
  <2>5. rotating' \in Masters \cup {NoMaster} /\ rotating = NoMaster
    BY <1>4, <2>1 DEF RotatePassword
  <2>6. /\ requests' \in [Requests -> Nat]
        /\ requests'["rotate"] = requests["rotate"] + 1
        /\ requests'["upload"] = requests["upload"] /\ requests'["backup"] = requests["backup"]
    BY <1>4, <1>a, CountStep DEF RotatePassword, Requests
  <2>7. requests'["rotate"] <= MaxRotations
    BY <1>4, <1>c, <2>6 DEF RotatePassword
  <2>8. UNCHANGED <<shards, nextId, cloud, keys, session, salt, salts, packet, backups,
                    restore, queue, run, events>>
    BY <1>4 DEF RotatePassword
  <2>9. TypeOK'
    BY <1>a, <2>4, <2>5, <2>6, <2>8 DEF TypeOK
  <2>10. CountInv'
    BY <1>a, <1>c, <2>5, <2>6, <2>7, <2>8 DEF CountInv
  <2>11. QED
    BY <2>9, <2>10 DEF TypeInv
<1>5. CASE BackupAfterRotation
  <2>1. backups' = backups \cup {BuildManifest(rotating)} /\ rotating \in Masters
    BY <1>5, <1>a DEF BackupAfterRotation, TypeOK
  <2>2. backups' \subseteq Manifest
    BY <1>a, <2>1, ManifestType DEF TypeOK
  <2>3. /\ IsFiniteSet(backups') /\ Cardinality(backups') \in Nat
        /\ Cardinality(backups') <= Cardinality(backups) + 1
    BY <1>c, <1>d, <2>1, FS_AddElement
  <2>4. /\ rotating # NoMaster /\ rotating' = NoMaster
        /\ UNCHANGED <<rows, shards, nextId, cloud, keys, session, salt, salts, packet,
                       restore, queue, run, requests, events>>
    BY <1>5 DEF BackupAfterRotation
  <2>5. TypeOK'
    BY <1>a, <2>2, <2>4 DEF TypeOK
  <2>6. CountInv'
    BY <1>a, <1>c, <2>3, <2>4, SMTT(30) DEF CountInv
  <2>7. QED
    BY <2>5, <2>6 DEF TypeInv
<1>6. ASSUME NEW e \in restore.todo, ApplyEntry(e) PROVE TypeInv'
  <2>1. e \in Entry
    BY <1>a DEF TypeOK
  <2>2. /\ e.sha \in Contents /\ e.link \in BOOLEAN /\ e.video \in Videos
        /\ e.wrap \in Wraps \cup {NoWrap} /\ e.videos \in Seq(Videos)
    BY <2>1 DEF Entry
  <2>3. /\ rows' \subseteq Row /\ nextId' \in Nat \ {0}
        /\ \A f \in rows' : f.id < nextId'
        /\ FileByHash(rows', e.sha) \in Row
    BY <1>6, <1>a, <2>2, SavedType DEF ApplyEntry
  <2>4. shards' \in Seq(Shard)
    <3> DEFINE id == FileByHash(rows', e.sha).id
               n  == Len(e.videos)
    <3>1. id \in Nat \ {0}
      BY <2>3 DEF Row
    <3>2. n \in Nat /\ \A i \in 1..n : e.videos[i] \in Videos
      BY <2>2, SMTT(30)
    <3>3. shards' = shards \o [i \in 1..n |-> [file |-> id, video |-> e.videos[i]]]
      BY <1>6 DEF ApplyEntry
    <3> HIDE DEF id, n
    <3>4. \A i \in 1..n : [file |-> id, video |-> e.videos[i]] \in Shard
      BY <3>1, <3>2 DEF Shard
    <3>5. [i \in 1..n |-> [file |-> id, video |-> e.videos[i]]] \in Seq(Shard)
      BY <3>2, <3>4, IsASeq, SMTT(30)
    <3>6. QED
      BY <1>a, <3>3, <3>5, ConcatProperties DEF TypeOK
  <2>5. restore' \in [todo : SUBSET Entry, clean : BOOLEAN, goal : SUBSET (Contents \X Secrets)]
    BY <1>6, <1>a DEF ApplyEntry, TypeOK
  <2>6. UNCHANGED <<cloud, keys, session, recovery, queue, run, requests, events>>
    BY <1>6 DEF ApplyEntry
  <2>7. TypeOK'
    BY <1>a, <2>3, <2>4, <2>5, <2>6 DEF TypeOK, recovery
  <2>8. CountInv'
    BY <1>a, <2>6 DEF CountInv, recovery
  <2>9. QED
    BY <2>7, <2>8 DEF TypeInv
<1>7. QED
  BY <1>1, <1>2, <1>3, <1>4, <1>5, <1>6

LEMMA TypeNext == TypeInv /\ [Next]_vars => TypeInv'
<1> SUFFICES ASSUME TypeInv, [Next]_vars PROVE TypeInv'
  OBVIOUS
<1>1. CASE UNCHANGED vars
  BY <1>1 DEF vars, recovery, TypeInv, TypeOK, CountInv
<1>2. CASE Next
  BY <1>2, UploadType, RequestType, RecoveryType DEF Next
<1>3. QED
  BY <1>1, <1>2

LEMMA TypeAlways == Spec => []TypeInv
  BY TypeInit, TypeNext, PTL DEF Spec

(* Every variable keeps its type: keys, videos and salts never outgrow     *)
(* their requests, ids given to rows are smaller than the next one, and    *)
(* every stored key names a key that was made.                             *)
THEOREM TypeCorrect == Spec => []TypeOK
<1>1. TypeInv => TypeOK
  BY DEF TypeInv
<1>2. QED
  BY TypeAlways, <1>1, PTL

-----------------------------------------------------------------------------
(* Keys.                                                                   *)

\* Keys and videos are only ever added.
Grow ==
  /\ Len(keys') \in Nat /\ Len(keys) <= Len(keys')
  /\ \A k \in 1..Len(keys) : keys'[k] = keys[k]
  /\ Len(cloud') \in Nat /\ Len(cloud) <= Len(cloud')
  /\ \A v \in 1..Len(cloud) : cloud'[v] = cloud[v]

\* A stored key stays right when keys and videos are added.
LEMMA KeyOkGrows ==
  ASSUME TypeInv, Grow, NEW e, e.video \in Videos, KeyOk(e)
  PROVE  KeyOk(e)'
<1>1. Len(keys) \in Nat /\ Len(cloud) \in Nat
  BY Counts
<1>2. e.video \in 1..Len(cloud)
  BY <1>1 DEF KeyOk, Videos
<1>3. e.video <= Len(cloud') /\ cloud'[e.video] = cloud[e.video]
  BY <1>1, <1>2 DEF Grow
<1>4. e.wrap # NoWrap => e.wrap.key \in 1..Len(keys') /\ keys'[e.wrap.key] = keys[e.wrap.key]
  BY <1>1 DEF KeyOk, WrapOk, Grow
<1>5. QED
  BY <1>3, <1>4 DEF KeyOk, WrapOk

\* Manifests move from rows to packets to restorations, unchanged.
LEMMA KeyStep ==
  ASSUME TypeInv, TypeInv', KeyInv, Grow, KeysOk',
         \A f \in rows' : f \in rows \/ KeyOk(f)',
         \A b \in backups' : b \in backups \/ \A e \in b.files : KeyOk(e),
         packet' = packet \/ packet'.manifest \in backups,
         \/ restore'.todo \subseteq restore.todo
         \/ packet # NoPacket /\ restore'.todo = packet.manifest.files
  PROVE  KeyInv'
<1>1. TypeOK
  BY DEF TypeInv
<1>2. \A e \in rows : e.video \in Videos
  BY <1>1 DEF TypeOK, Row
<1>3. \A M \in Manifest : \A e \in M.files : e.video \in Videos
  BY DEF Manifest, Entry
<1>4. ASSUME NEW e, e.video \in Videos, KeyOk(e) PROVE KeyOk(e)'
  BY <1>4, KeyOkGrows
<1>5. EntriesOk(rows)'
  BY <1>2, <1>4 DEF KeyInv, EntriesOk
<1>6. \A b \in backups \cup backups' : \A e \in b.files : KeyOk(e)'
  <2>1. \A b \in backups \cup backups' : b \in Manifest
    BY <1>1 DEF TypeInv, TypeOK
  <2>2. QED
    BY <1>3, <1>4, <2>1 DEF KeyInv, EntriesOk
<1>7. packet # NoPacket => \A e \in packet.manifest.files : KeyOk(e)'
  <2>1. packet # NoPacket => packet.manifest \in Manifest
    BY <1>1 DEF TypeOK
  <2>2. QED
    BY <1>3, <1>4, <2>1 DEF KeyInv, EntriesOk
<1>8. \A e \in restore.todo : KeyOk(e)'
  <2>1. \A e \in restore.todo : e.video \in Videos
    BY <1>1 DEF TypeOK, Entry
  <2>2. QED
    BY <1>4, <2>1 DEF KeyInv, EntriesOk
<1>9. \A b \in backups' : EntriesOk(b.files)'
  BY <1>6 DEF EntriesOk
<1>10. EntriesOk(restore.todo)'
  BY <1>7, <1>8 DEF EntriesOk
<1>11. (packet # NoPacket => EntriesOk(packet.manifest.files))'
  BY <1>6, <1>7 DEF EntriesOk
<1>12. QED
  BY <1>5, <1>9, <1>10, <1>11 DEF KeyInv
\* An entry has the key and the video of its row.
LEMMA ManifestKeys ==
  ASSUME KeyInv, NEW m
  PROVE  \A e \in BuildManifest(m).files : KeyOk(e)
<1>1. ASSUME NEW f \in rows PROVE KeyOk(EntryOf(f))
  <2>1. /\ EntryOf(f).video = f.video /\ EntryOf(f).wrap = f.wrap
        /\ EntryOf(f).link = f.link
    BY DEF EntryOf
  <2>2. QED
    BY <1>1, <2>1 DEF KeyInv, EntriesOk, KeyOk
<1>2. QED
  BY <1>1 DEF BuildManifest

\* The rows after an upsert: the earlier ones, and one of the given values.
LEMMA SavedRows ==
  ASSUME TypeInv, NEW c, NEW link, NEW v, NEW w
  PROVE  \A f \in SaveFileWithKey(rows, c, link, v, w) :
           \/ f \in rows
           \/ f.video = v /\ f.wrap = w /\ f.link = link
<1>1. PICK new : SavedAs(SaveFileWithKey(rows, c, link, v, w), new, c, link, v, w)
  BY Upsert DEF TypeInv, TypeOK
<1>2. QED
  BY <1>1 DEF SavedAs

LEMMA KeyInit == Init => KeyInv
<1> SUFFICES ASSUME Init PROVE KeyInv
  OBVIOUS
<1>1. Len(keys) = 0 /\ Len(cloud) = 0
  BY DEF Init
<1>2. QED
  BY <1>1 DEF Init, Idle, KeyInv, KeysOk, EntriesOk

\* The row a password change writes: none, for no stored key is in the
\* format it expects.
LEMMA RotationFindsNone ==
  ASSUME KeyInv, NEW old \in Passwords, NEW new \in Passwords, RotatePassword(old, new)
  PROVE  rows' = rows
<1>1. ASSUME NEW f \in rows, f.wrap # NoWrap
      PROVE  DecryptWithKey(f.wrap, Master(old, salt)) = NoKey
  BY <1>1 DEF KeyInv, EntriesOk, KeyOk, WrapOk, DecryptWithKey
<1> DEFINE again(f) ==
      [f EXCEPT !.wrap = EncryptWithKey(DecryptWithKey(f.wrap, Master(old, salt)),
                                        Master(new, salt))]
<1>2. PICK done \in SUBSET rows :
        /\ \A f \in done : f.wrap # NoWrap
                            /\ DecryptWithKey(f.wrap, Master(old, salt)) # NoKey
        /\ rows' = (rows \ done) \cup {again(f) : f \in done}
  BY DEF RotatePassword
<1>3. done = {}
  BY <1>1, <1>2
<1>4. QED
  BY <1>2, <1>3

\* Steps that add neither a key nor a video.
LEMMA KeyQuietStep ==
  ASSUME TypeInv, TypeInv', KeyInv, UNCHANGED <<keys, cloud>>,
         run' = run \/ run' = NoUpload,
         \A f \in rows' : f \in rows \/ KeyOk(f),
         \A b \in backups' : b \in backups \/ \A e \in b.files : KeyOk(e),
         packet' = packet \/ packet'.manifest \in backups,
         \/ restore'.todo \subseteq restore.todo
         \/ packet # NoPacket /\ restore'.todo = packet.manifest.files
  PROVE  KeyInv'
<1>1. Grow
  BY Counts DEF Grow
<1>2. KeysOk'
  BY DEF KeyInv, KeysOk
<1>3. \A f : KeyOk(f) => KeyOk(f)'
  BY DEF KeyOk, WrapOk
<1>4. QED
  BY <1>1, <1>2, <1>3, KeyStep

LEMMA KeyUploads ==
  ASSUME TypeInv, TypeInv', KeyInv,
         \/ \E t : BeginUpload(t) \/ LinkUpload(t)
         \/ FinishUpload
         \/ \E f \in rows, m \in Known : FirstShare(f, m)
  PROVE  KeyInv'
<1>a. /\ Len(keys) \in Nat /\ Len(cloud) \in Nat
      /\ TypeOK /\ keys \in Seq(Key) /\ cloud \in Seq(Keys) /\ rows \subseteq Row
  BY Counts DEF TypeInv, TypeOK
<1>b. /\ \A k \in 1..Len(keys) :
           keys[k].asked # NoPassword /\ keys[k].kept => keys[k].by = Typed(keys[k].asked)
      /\ \A v \in 1..Len(cloud) :
           cloud[v] \in 1..Len(keys) /\ ~keys[cloud[v]].shared
      /\ run # NoUpload => run.key \in 1..Len(keys) /\ ~keys[run.key].shared
  <2>1. \A v \in 1..Len(cloud) : cloud[v] \in Keys
    BY <1>a
  <2>2. QED
    BY <2>1, <1>a DEF KeyInv, KeysOk, TypeInv, CountInv, Keys
<1>1. ASSUME NEW t, BeginUpload(t) PROVE KeyInv'
  <2> DEFINE k == [asked |-> t.asked, by |-> SecretFor(t.password),
                   kept |-> t.asked = t.password, shared |-> FALSE]
  <2>1. keys' = Append(keys, k) /\ run'.key = Len(keys) + 1
    BY <1>1 DEF BeginUpload
  <2>2. k.asked # NoPassword /\ k.kept => k.by = Typed(k.asked)
    BY DEF SecretFor
  <2>3. ~k.shared
    OBVIOUS
  <2> HIDE DEF k
  <2>4. /\ UNCHANGED <<cloud, backups, packet>> /\ rows' \subseteq rows
        /\ restore'.todo = restore.todo
    BY <1>1 DEF BeginUpload, recovery, Touched, Idle
  <2>5. /\ Len(keys') = Len(keys) + 1 /\ keys'[Len(keys) + 1] = k
        /\ \A i \in 1..Len(keys) : keys'[i] = keys[i]
    BY <2>1, <1>a
  <2>6. Grow
    BY <1>a, <2>4, <2>5 DEF Grow
  <2>7. KeysOk'
    BY <1>a, <1>b, <2>1, <2>2, <2>3, <2>4, <2>5 DEF KeysOk
  <2>8. QED
    BY <2>4, <2>6, <2>7, KeyStep
<1>2. ASSUME NEW t, LinkUpload(t) PROVE KeyInv'
  <2>1. /\ UNCHANGED <<keys, cloud, backups, packet, run>>
        /\ restore'.todo = restore.todo /\ WithHash(rows, t.sha) # {}
        /\ rows' = SaveFileWithKey(rows, t.sha, TRUE, FileByHash(rows, t.sha).video, NoWrap)
    BY <1>2 DEF LinkUpload, recovery, Touched, Idle
  <2>2. FileByHash(rows, t.sha) \in rows
    BY <1>a, <2>1, FirstRow
  <2> DEFINE v == FileByHash(rows, t.sha).video
  <2>3. \A f \in rows' : f \in rows \/ KeyOk(f)
    <3>1. v <= Len(cloud)
      BY <2>2 DEF KeyInv, EntriesOk, KeyOk
    <3> DEFINE link == TRUE
    <3> HIDE DEF v, link
    <3>2. rows' = SaveFileWithKey(rows, t.sha, link, v, NoWrap)
      BY <2>1 DEF v, link
    <3>3. \A f \in rows' : f \in rows \/ (f.video = v /\ f.wrap = NoWrap)
      BY <3>2, SavedRows
    <3>4. QED
      BY <3>1, <3>3 DEF KeyOk, WrapOk
  <2>4. QED
    BY <2>1, <2>3, KeyQuietStep
<1>3. CASE FinishUpload
  <2> DEFINE w == Encrypt(run.key, keys[run.key].by)
  <2>1. /\ UNCHANGED <<keys, backups, packet>> /\ run # NoUpload /\ run' = NoUpload
        /\ restore'.todo = restore.todo
        /\ cloud' = Append(cloud, run.key)
        /\ rows' = SaveFileWithKey(rows, run.sha, FALSE, Len(cloud) + 1, w)
    BY <1>3 DEF FinishUpload, recovery, Touched, Idle
  <2>2. w.form = "pw" /\ w.key = run.key /\ w.by = keys[run.key].by
    BY DEF Encrypt
  <2> HIDE DEF w
  <2>3. /\ Len(cloud') = Len(cloud) + 1 /\ cloud'[Len(cloud) + 1] = run.key
        /\ \A i \in 1..Len(cloud) : cloud'[i] = cloud[i]
    <3>1. run.key \in Keys
      BY <1>a, <1>b, <2>1, Kinds DEF TypeOK, Running
    <3>2. QED
      BY <1>a, <2>1, <3>1
  <2>4. Grow
    BY <1>a, <2>1, <2>3 DEF Grow
  <2>5. KeysOk'
    BY <1>a, <1>b, <2>1, <2>3 DEF KeysOk
  <2>6. ASSUME NEW f, f.video = Len(cloud) + 1, f.wrap = w, f.link = FALSE
        PROVE  KeyOk(f)'
    BY <1>a, <1>b, <2>1, <2>2, <2>3, <2>6 DEF KeyOk, WrapOk
  <2>7. \A f \in rows' : f \in rows \/ KeyOk(f)'
    <3> DEFINE link == FALSE
               v    == Len(cloud) + 1
    <3>1. rows' = SaveFileWithKey(rows, run.sha, link, v, w)
      BY <2>1
    <3> HIDE DEF link, v
    <3>2. \A f \in rows' : \/ f \in rows
                           \/ f.video = v /\ f.wrap = w /\ f.link = link
      BY <3>1, SavedRows
    <3>3. QED
      BY <2>6, <3>2 DEF link, v
  <2>8. QED
    BY <2>1, <2>4, <2>5, <2>7, KeyStep
<1>4. ASSUME NEW f \in rows, NEW m \in Known, FirstShare(f, m) PROVE KeyInv'
  <2> DEFINE k == [asked |-> NoPassword, by |-> m, kept |-> TRUE, shared |-> TRUE]
             w == Encrypt(Len(keys) + 1, m)
             g == [f EXCEPT !.wrap = w]
  <2>1. /\ UNCHANGED <<cloud, backups, packet, run>> /\ restore'.todo = restore.todo
        /\ keys' = Append(keys, k) /\ rows' = (rows \ {f}) \cup {g}
    BY <1>4 DEF FirstShare, recovery, Touched, Idle
  <2>2. g.wrap = w /\ g.video = f.video
    BY <1>a DEF Row
  <2>3. /\ w.form = "pw" /\ w.key = Len(keys) + 1 /\ w.by = m
        /\ k.asked = NoPassword /\ k.by = m /\ k.shared
    BY DEF Encrypt
  <2> HIDE DEF k, w, g
  <2>4. /\ Len(keys') = Len(keys) + 1 /\ keys'[Len(keys) + 1] = k
        /\ \A i \in 1..Len(keys) : keys'[i] = keys[i]
    BY <2>1, <1>a
  <2>5. Grow
    BY <1>a, <2>1, <2>4 DEF Grow
  <2>6. KeysOk'
    BY <1>a, <1>b, <2>1, <2>3, <2>4 DEF KeysOk
  <2>7. ASSUME NEW h, h.wrap = w, h.video = f.video PROVE KeyOk(h)'
    <3>1. f.video <= Len(cloud')
      BY <2>1 DEF KeyInv, EntriesOk, KeyOk
    <3>2. w.key \in 1..Len(keys') /\ keys'[w.key] = k
      BY <1>a, <2>3, <2>4
    <3>3. QED
      BY <2>3, <2>7, <3>1, <3>2 DEF KeyOk, WrapOk
  <2>8. \A h \in rows' : h \in rows \/ KeyOk(h)'
    BY <2>1, <2>2, <2>7
  <2>9. QED
    BY <2>1, <2>5, <2>6, <2>8, KeyStep
<1>5. QED
  BY <1>1, <1>2, <1>3, <1>4

LEMMA KeyNext == TypeInv /\ TypeInv' /\ KeyInv /\ [Next]_vars => KeyInv'
<1> SUFFICES ASSUME TypeInv, TypeInv', KeyInv, [Next]_vars PROVE KeyInv'
  OBVIOUS
<1>1. CASE UNCHANGED vars
  BY <1>1 DEF vars, recovery, KeyInv, KeysOk, EntriesOk, KeyOk, WrapOk
<1>2. CASE \/ queue # <<>> /\ (BeginUpload(Head(queue)) \/ LinkUpload(Head(queue)))
           \/ FinishUpload
           \/ \E f \in rows, m \in Known : FirstShare(f, m)
  BY <1>2, KeyUploads
<1>3. CASE \/ \E m \in Known : StartSession(m)
           \/ EndSession \/ FailUpload
           \/ \E c \in Contents, p \in Given \cup {NoPassword} : RequestUpload(c, p)
  BY <1>3, KeyQuietStep DEF StartSession, EndSession, FailUpload, RequestUpload, recovery
<1>4. ASSUME NEW f \in rows, SoftDelete(f) \/ Restore(f) \/ PermanentDelete(f) PROVE KeyInv'
  <2>1. /\ UNCHANGED <<keys, cloud, backups, packet, run>>
        /\ restore'.todo = restore.todo
        /\ rows' \subseteq rows \cup {[f EXCEPT !.trash = b] : b \in BOOLEAN}
    BY <1>4 DEF SoftDelete, Restore, PermanentDelete, recovery, Touched, Idle
  <2>2. \A b \in BOOLEAN : KeyOk([f EXCEPT !.trash = b])
    <3>1. KeyOk(f) /\ f \in Row
      BY <1>4 DEF KeyInv, EntriesOk, TypeInv, TypeOK
    <3>2. \A b \in BOOLEAN : LET g == [f EXCEPT !.trash = b] IN
            g.video = f.video /\ g.wrap = f.wrap /\ g.link = f.link
      BY <3>1 DEF Row
    <3>3. QED
      BY <3>1, <3>2 DEF KeyOk
  <2>3. QED
    BY <2>1, <2>2, KeyQuietStep
<1>5. ASSUME NEW m,
             \/ RequestBackup(m)
             \/ m = rotating /\ BackupAfterRotation
      PROVE  KeyInv'
  <2>1. /\ backups' = backups \cup {BuildManifest(m)}
        /\ UNCHANGED <<keys, cloud, rows, packet, run, restore>>
    BY <1>5 DEF RequestBackup, BackupAfterRotation
  <2>2. \A e \in BuildManifest(m).files : KeyOk(e)
    BY ManifestKeys
  <2>3. QED
    BY <2>1, <2>2, KeyQuietStep
<1>6. CASE packet # NoPacket /\ RestoreManifest(packet.manifest.by)
  BY <1>6, KeyQuietStep DEF RestoreManifest, recovery
<1>7. ASSUME NEW b \in backups, SendPacket(b) \/ FailBackup(b) PROVE KeyInv'
  BY <1>7, KeyQuietStep DEF SendPacket, FailBackup
<1>8. ASSUME NEW old \in Passwords, NEW new \in Passwords, RotatePassword(old, new)
      PROVE  KeyInv'
  BY <1>8, RotationFindsNone, KeyQuietStep DEF RotatePassword
<1>9. ASSUME NEW e \in restore.todo, ApplyEntry(e) PROVE KeyInv'
  <2>1. /\ UNCHANGED <<keys, cloud, backups, packet, run>>
        /\ restore'.todo \subseteq restore.todo
        /\ rows' = SaveFileWithKey(rows, e.sha, e.link, e.video, e.wrap)
    BY <1>9 DEF ApplyEntry, recovery, TypeInv, TypeOK
  <2>2. KeyOk(e)
    BY DEF KeyInv, EntriesOk
  <2>3. \A f \in rows' : \/ f \in rows
                         \/ f.video = e.video /\ f.wrap = e.wrap /\ f.link = e.link
    BY <2>1, SavedRows
  <2>4. \A f \in rows' : f \in rows \/ KeyOk(f)
    BY <2>2, <2>3 DEF KeyOk
  <2>5. QED
    BY <2>1, <2>4, KeyQuietStep
<1>10. CASE Logout
  BY <1>10, KeyQuietStep DEF Logout, Touched, Idle
<1>11. CASE Crash
  BY <1>11, KeyQuietStep DEF Crash, Idle
<1>12. QED
  BY <1>1, <1>2, <1>3, <1>4, <1>5, <1>6, <1>7, <1>8, <1>9, <1>10, <1>11 DEF Next

LEMMA KeyAlways == Spec => [](TypeInv /\ KeyInv)
<1>1. Init => TypeInv /\ KeyInv
  BY TypeInit, KeyInit
<1>2. TypeInv /\ KeyInv /\ [Next]_vars => (TypeInv /\ KeyInv)'
  BY TypeNext, KeyNext
<1>3. QED
  BY <1>1, <1>2, PTL DEF Spec

(* Whatever was uploaded, linked, shared, rotated, backed up and restored, *)
(* the key of a row opens with the secret the history has for it and is    *)
(* the key of its video, unless sharing made it (queue.go:563, 826).       *)
THEOREM KeyOpensVideoHolds == Spec => []KeyOpensVideo
<1>1. KeyInv => KeyOpensVideo
  BY DEF KeyInv, EntriesOk, KeyOk, WrapOk, KeyOpensVideo, Decrypt
<1>2. QED
  BY KeyAlways, <1>1, PTL

(* A file uploaded with a password opens with that password, unless the    *)
(* daemon was restarted while it waited (queue.go:542-549).                *)
THEOREM PasswordOpensHolds == Spec => []PasswordOpens
<1>1. KeyInv => PasswordOpens
  BY DEF KeyInv, KeysOk, EntriesOk, KeyOk, WrapOk, PasswordOpens, Decrypt
<1>2. QED
  BY KeyAlways, <1>1, PTL

-----------------------------------------------------------------------------
(* Tables.                                                                 *)

\* The places of a file's shard rows.
Places(id) == {i \in 1..Len(shards) : shards[i].file = id}

\* The pieces of a file are videos of its shard rows.
LEMMA ShardVideosFrom ==
  ASSUME shards \in Seq(Shard), NEW id
  PROVE  \A n \in 1..Len(ShardVideos(id)) :
           \E i \in 1..Len(shards) : shards[i].file = id /\ ShardVideos(id)[n] = shards[i].video
<1> DEFINE I == Places(id)
           t == ShardsOf(id)
<1>1. IsSelection(shards, I, Shard)
  BY SelectedElements, Zenon DEF Places
<1>2. t = Selected(shards, I) /\ t \in Seq(Shard)
  BY ShardsOfType DEF ShardsOf, Places
<1>3. ShardVideos(id) = [n \in 1..Len(t) |-> t[n].video]
  BY DEF ShardVideos
<1>4. \A n \in 1..Len(t) : \E i \in I : t[n] = shards[i]
  BY <1>1, <1>2 DEF IsSelection
<1>5. \A i \in I : i \in 1..Len(shards) /\ shards[i].file = id
  BY DEF Places
<1> HIDE DEF t, I
<1>6. Len(t) \in Nat
  BY <1>2
<1>7. Len(ShardVideos(id)) = Len(t)
  BY <1>3, <1>6
<1>8. QED
  BY <1>3, <1>4, <1>5, <1>7, ZenonT(30)

LEMMA ManifestPieces ==
  ASSUME TypeInv, TableInv, NEW m
  PROVE  \A e \in BuildManifest(m).files : PiecesOk(e)
<1>1. ASSUME NEW f \in rows PROVE PiecesOk(EntryOf(f))
  <2>1. EntryOf(f).videos = ShardVideos(f.id)
    BY DEF EntryOf
  <2>2. \A n \in 1..Len(ShardVideos(f.id)) : ShardVideos(f.id)[n] <= Len(cloud)
    <3>1. shards \in Seq(Shard)
      BY DEF TypeInv, TypeOK
    <3>2. \A i \in 1..Len(shards) : shards[i].video <= Len(cloud)
      BY DEF TableInv, ShardOk
    <3> DEFINE id == f.id
    <3> HIDE DEF id
    <3>3. \A n \in 1..Len(ShardVideos(id)) : \E i \in 1..Len(shards) :
            ShardVideos(id)[n] = shards[i].video
      BY <3>1, ShardVideosFrom
    <3>4. \A n \in 1..Len(ShardVideos(id)) : ShardVideos(id)[n] <= Len(cloud)
      BY <3>2, <3>3
    <3>5. QED
      BY <3>4 DEF id
  <2>3. QED
    BY <2>1, <2>2 DEF PiecesOk
<1>2. QED
  BY <1>1 DEF BuildManifest

\* An upsert keeps ids and names unique.
LEMMA SavedUnique ==
  ASSUME TypeInv, UniqueRows, NEW c, NEW link, NEW v, NEW w,
         rows' = SaveFileWithKey(rows, c, link, v, w)
  PROVE  UniqueRows'
<1>1. rows \subseteq Row /\ nextId \in Nat \ {0} /\ \A f \in rows : f.id < nextId
  BY DEF TypeInv, TypeOK
<1>2. PICK new : SavedAs(rows', new, c, link, v, w)
  BY <1>1, Upsert
<1>3. rows' = {f \in rows : ~(f.sha = c /\ f.link = link)} \cup {new}
  BY <1>2 DEF SavedAs
<1>4. new.sha = c /\ new.link = link
  BY <1>2 DEF SavedAs
<1>5. \A f \in rows : ~(f.sha = c /\ f.link = link) => f.id # new.id
  <2>1. CASE \E f \in rows : f.sha = c /\ f.link = link /\ f.id = new.id
    BY <2>1 DEF UniqueRows
  <2>2. CASE new.id = nextId
    BY <1>1, <2>2 DEF Row
  <2>3. QED
    BY <1>2, <2>1, <2>2 DEF SavedAs
<1>6. QED
  BY <1>3, <1>4, <1>5 DEF UniqueRows

LEMMA SavedNextId ==
  ASSUME TypeInv, NEW c, NEW link
  PROVE  NextId(rows, c, link) \in Nat /\ nextId <= NextId(rows, c, link)
  BY DEF TypeInv, TypeOK, NextId

\* A step that adds to the tables what names given ids and videos.
LEMMA TableStep ==
  ASSUME TypeInv, TypeInv', TableInv, UniqueRows',
         Len(cloud) <= Len(cloud'), nextId <= nextId',
         \A i \in 1..Len(shards') :
           ShardOk(shards[i])' \/ \E j \in 1..Len(shards) : shards'[i] = shards[j],
         \A b \in backups' : b \in backups \/ \A e \in b.files : PiecesOk(e),
         packet' = packet \/ packet'.manifest \in backups,
         \/ restore'.todo \subseteq restore.todo
         \/ packet # NoPacket /\ restore'.todo = packet.manifest.files
  PROVE  TableInv'
<1>1. TypeOK /\ TypeOK' /\ Len(cloud) \in Nat /\ Len(cloud') \in Nat
      /\ nextId \in Nat /\ nextId' \in Nat
  BY SMTT(30) DEF TypeInv, TypeOK
<1>2. ASSUME NEW e \in Entry, PiecesOk(e) PROVE PiecesOk(e)'
  <2>1. e.videos \in Seq(Videos)
    BY DEF Entry
  <2>2. \A i \in 1..Len(e.videos) : e.videos[i] \in Nat
    <3>1. \A i \in 1..Len(e.videos) : e.videos[i] \in Videos
      BY <2>1
    <3>2. QED
      BY <3>1 DEF Videos
  <2>3. ASSUME NEW i \in 1..Len(e.videos) PROVE e.videos[i] <= Len(cloud')
    BY <1>1, <1>2, <2>2 DEF PiecesOk
  <2>4. QED
    BY <2>3 DEF PiecesOk
<1>3. \A b \in backups \cup backups' : \A e \in b.files : PiecesOk(e)'
  <2>1. \A b \in backups \cup backups' : b.files \subseteq Entry
    BY <1>1 DEF TypeOK, Manifest
  <2>2. QED
    BY <1>2, <2>1 DEF TableInv
<1>4. packet # NoPacket => \A e \in packet.manifest.files : PiecesOk(e)'
  <2>1. packet # NoPacket => packet.manifest.files \subseteq Entry
    BY <1>1 DEF TypeOK, Manifest
  <2>2. QED
    BY <1>2, <2>1 DEF TableInv
<1>5. \A e \in restore.todo : PiecesOk(e)'
  BY <1>1, <1>2 DEF TableInv, TypeOK
<1>6. \A i \in 1..Len(shards') : ShardOk(shards[i])'
  <2>1. ASSUME NEW h \in Shard, ShardOk(h) PROVE ShardOk(h)'
    BY <1>1, <2>1 DEF ShardOk, Shard, Videos
  <2>2. \A j \in 1..Len(shards) : shards[j] \in Shard /\ ShardOk(shards[j])
    BY <1>1 DEF TypeOK, TableInv
  <2>3. \A h : (\E j \in 1..Len(shards) : h = shards[j]) => ShardOk(h)'
    BY <2>1, <2>2
  <2>4. ASSUME NEW i \in 1..Len(shards') PROVE ShardOk(shards[i])'
    BY <2>3
  <2>5. QED
    BY <2>4
<1>7. QED
  BY <1>3, <1>4, <1>5, <1>6 DEF TableInv

LEMMA TableInit == Init => TableInv
<1> SUFFICES ASSUME Init PROVE TableInv
  OBVIOUS
<1>1. Len(shards) = 0
  BY DEF Init
<1>2. QED
  BY <1>1 DEF Init, Idle, TableInv, UniqueRows

\* Steps that insert no row.
LEMMA TableQuietStep ==
  ASSUME TypeInv, TypeInv', TableInv, UNCHANGED <<cloud, nextId>>,
         shards' = shards \/ shards' = <<>>,
         \/ rows' \subseteq rows
         \/ \E f \in rows : \E g :
              /\ g.id = f.id /\ g.sha = f.sha /\ g.link = f.link
              /\ rows' = (rows \ {f}) \cup {g},
         \A b \in backups' : b \in backups \/ \A e \in b.files : PiecesOk(e),
         packet' = packet \/ packet'.manifest \in backups,
         \/ restore'.todo \subseteq restore.todo
         \/ packet # NoPacket /\ restore'.todo = packet.manifest.files
  PROVE  TableInv'
<1>1. UniqueRows'
  BY DEF TableInv, UniqueRows
<1>2. Len(cloud) <= Len(cloud') /\ nextId <= nextId'
  BY DEF TypeInv, TypeOK
<1>3. \A i \in 1..Len(shards') : \E j \in 1..Len(shards) : shards'[i] = shards[j]
  <2>1. CASE shards' = <<>>
    <3>1. Len(shards') = 0
      BY <2>1
    <3>2. QED
      BY <3>1
  <2>2. CASE shards' = shards
    BY <2>2
  <2>3. QED
    BY <2>1, <2>2
<1>4. QED
  BY <1>1, <1>2, <1>3, TableStep

LEMMA TableUploads ==
  ASSUME TypeInv, TypeInv', TableInv, KeyInv,
         \/ \E t : LinkUpload(t)
         \/ FinishUpload
         \/ \E e \in restore.todo : ApplyEntry(e)
  PROVE  TableInv'
<1>a. /\ Len(cloud) \in Nat /\ nextId \in Nat /\ nextId' \in Nat /\ rows' \subseteq Row
      /\ shards \in Seq(Shard) /\ Len(shards) \in Nat
      /\ \A f \in rows' : f.id < nextId'
  BY DEF TypeInv, TypeOK
<1>1. ASSUME NEW t, LinkUpload(t) PROVE TableInv'
  <2> DEFINE link == TRUE
             v    == FileByHash(rows, t.sha).video
  <2>1. /\ UNCHANGED <<shards, cloud, backups, packet>> /\ restore'.todo = restore.todo
        /\ rows' = SaveFileWithKey(rows, t.sha, link, v, NoWrap)
        /\ nextId' = NextId(rows, t.sha, link)
    BY <1>1 DEF LinkUpload, recovery, Touched, Idle
  <2> HIDE DEF link, v
  <2>2. UniqueRows'
    BY <2>1, SavedUnique DEF TableInv
  <2>3. nextId <= nextId' /\ Len(cloud) <= Len(cloud')
    BY <1>a, <2>1, SavedNextId
  <2>4. QED
    BY <2>1, <2>2, <2>3, TableStep
<1>2. CASE FinishUpload
  <2> DEFINE link == FALSE
             v    == Len(cloud) + 1
             w    == Encrypt(run.key, keys[run.key].by)
             h    == [file |-> FileByHash(rows', run.sha).id, video |-> v]
  <2>1. /\ UNCHANGED <<backups, packet>> /\ restore'.todo = restore.todo
        /\ rows' = SaveFileWithKey(rows, run.sha, link, v, w)
        /\ nextId' = NextId(rows, run.sha, link)
        /\ cloud' = Append(cloud, run.key) /\ shards' = Append(shards, h)
    BY <1>2 DEF FinishUpload, recovery, Touched, Idle
  <2>2. h.file = FileByHash(rows', run.sha).id /\ h.video = v /\ v = Len(cloud) + 1
    OBVIOUS
  <2> HIDE DEF link, v, w, h
  <2>3. UniqueRows'
    BY <2>1, SavedUnique DEF TableInv
  <2>4. Len(cloud') = Len(cloud) + 1
    BY <2>1, <1>a DEF TypeInv, TypeOK
  <2>5. nextId <= nextId' /\ Len(cloud) <= Len(cloud')
    BY <1>a, <2>1, <2>4, SavedNextId
  <2>6. FileByHash(rows', run.sha).id < nextId'
    <3>1. PICK new : SavedAs(rows', new, run.sha, link, v, w)
      BY <2>1, Upsert DEF TypeInv, TypeOK
    <3>2. WithHash(rows', run.sha) # {}
      BY <3>1 DEF SavedAs, WithHash
    <3>3. QED
      BY <1>a, <3>2, FirstRow
  <2>7. h.file < nextId' /\ h.video <= Len(cloud')
    BY <2>2, <2>4, <2>6
  <2>8. /\ Len(shards') = Len(shards) + 1 /\ shards'[Len(shards) + 1] = h
        /\ \A i \in 1..Len(shards) : shards'[i] = shards[i]
    BY <1>a, <2>1
  <2>9. \A i \in 1..Len(shards') : 
           ShardOk(shards[i])' \/ \E j \in 1..Len(shards) : shards'[i] = shards[j]
    BY <1>a, <2>7, <2>8 DEF ShardOk
  <2>10. QED
    BY <2>1, <2>3, <2>5, <2>9, TableStep
<1>3. ASSUME NEW e \in restore.todo, ApplyEntry(e) PROVE TableInv'
  <2> DEFINE id == FileByHash(rows', e.sha).id
             n  == Len(e.videos)
             t  == [i \in 1..n |-> [file |-> id, video |-> e.videos[i]]]
  <2>1. /\ UNCHANGED <<cloud, backups, packet>> /\ restore'.todo \subseteq restore.todo
        /\ rows' = SaveFileWithKey(rows, e.sha, e.link, e.video, e.wrap)
        /\ nextId' = NextId(rows, e.sha, e.link)
        /\ shards' = shards \o t
    BY <1>3, ZenonT(30) DEF ApplyEntry, recovery, TypeInv, TypeOK
  <2>2. UniqueRows'
    BY <2>1, SavedUnique DEF TableInv
  <2>3. nextId <= nextId' /\ Len(cloud) <= Len(cloud')
    BY <1>a, <2>1, SavedNextId
  <2>4. id < nextId' /\ id \in Nat \ {0}
    <3>1. PICK new : SavedAs(rows', new, e.sha, e.link, e.video, e.wrap)
      BY <2>1, Upsert DEF TypeInv, TypeOK
    <3>2. WithHash(rows', e.sha) # {}
      BY <3>1 DEF SavedAs, WithHash
    <3>3. QED
      BY <1>a, <3>2, FirstRow DEF Row
  <2>5. e.videos \in Seq(Videos) /\ n \in Nat
    BY DEF TypeInv, TypeOK, Entry
  <2>6. \A i \in 1..n : e.videos[i] \in Videos /\ e.videos[i] <= Len(cloud')
    BY <2>1, <2>5 DEF TableInv, PiecesOk
  <2> HIDE DEF id, n
  <2>7. \A i \in 1..n : t[i] \in Shard /\ t[i].file = id /\ t[i].video = e.videos[i]
    BY <2>4, <2>6 DEF Shard
  <2>8. t \in Seq(Shard) /\ Len(t) = n
    BY <2>5, <2>7, IsASeq
  <2> HIDE DEF t
  <2>9. /\ Len(shards') = Len(shards) + n
        /\ \A i \in 1..Len(shards) : shards'[i] = shards[i]
        /\ \A i \in 1..n : shards'[Len(shards) + i] = t[i]
    <3>1. shards \in Seq(Shard)
      BY <1>a
    <3>2. /\ Len(shards \o t) = Len(shards) + Len(t)
          /\ \A i \in 1..Len(shards) : (shards \o t)[i] = shards[i]
          /\ \A i \in 1..Len(t) : (shards \o t)[Len(shards) + i] = t[i]
      BY <3>1, <2>8
    <3>3. QED
      BY <3>2, <2>1, <2>8
  <2>10. ASSUME NEW i \in 1..Len(shards')
         PROVE  ShardOk(shards[i])' \/ \E j \in 1..Len(shards) : shards'[i] = shards[j]
    <3>1. CASE i <= Len(shards)
      BY <1>a, <2>9, <3>1
    <3>2. CASE i > Len(shards)
      <4>1. i - Len(shards) \in 1..n /\ i = Len(shards) + (i - Len(shards))
        BY <1>a, <2>5, <2>9, <3>2
      <4> DEFINE k == i - Len(shards)
      <4>2. shards'[i].file = id /\ shards'[i].video = e.videos[k]
        BY <2>7, <2>9, <4>1
      <4>3. QED
        BY <2>4, <2>6, <4>1, <4>2 DEF ShardOk
    <3>3. QED
      BY <1>a, <2>5, <2>9, <3>1, <3>2
  <2>11. QED
    BY <2>1, <2>2, <2>3, <2>10, TableStep
<1>4. QED
  BY <1>1, <1>2, <1>3

LEMMA TableNext ==
  TypeInv /\ TypeInv' /\ KeyInv /\ TableInv /\ [Next]_vars => TableInv'
<1> SUFFICES ASSUME TypeInv, TypeInv', KeyInv, TableInv, [Next]_vars PROVE TableInv'
  OBVIOUS
<1>1. CASE UNCHANGED vars
  BY <1>1 DEF vars, recovery, TableInv, UniqueRows, ShardOk, PiecesOk
<1>2. CASE \/ queue # <<>> /\ LinkUpload(Head(queue))
           \/ FinishUpload
           \/ \E e \in restore.todo : ApplyEntry(e)
  BY <1>2, TableUploads
<1>3. CASE \/ \E m \in Known : StartSession(m)
           \/ EndSession \/ FailUpload
           \/ \E c \in Contents, p \in Given \cup {NoPassword} : RequestUpload(c, p)
  BY <1>3, TableQuietStep DEF StartSession, EndSession, FailUpload, RequestUpload, recovery
<1>4. ASSUME NEW f \in rows, PermanentDelete(f) PROVE TableInv'
  BY <1>4, TableQuietStep DEF PermanentDelete, recovery, Touched, Idle
<1>5. ASSUME NEW f \in rows,
             \/ SoftDelete(f) \/ Restore(f)
             \/ \E m \in Known : FirstShare(f, m)
      PROVE  TableInv'
  <2>1. f \in Row
    BY DEF TypeInv, TypeOK
  <2>2. ASSUME NEW x
        PROVE  /\ LET g == [f EXCEPT !.trash = x] IN
                     g.id = f.id /\ g.sha = f.sha /\ g.link = f.link
               /\ LET g == [f EXCEPT !.wrap = x] IN
                     g.id = f.id /\ g.sha = f.sha /\ g.link = f.link
    BY <2>1 DEF Row
  <2>3. \E g : /\ g.id = f.id /\ g.sha = f.sha /\ g.link = f.link
               /\ rows' = (rows \ {f}) \cup {g}
    BY <1>5, <2>2 DEF SoftDelete, Restore, FirstShare
  <2>4. /\ UNCHANGED <<cloud, nextId, shards, backups, packet>>
        /\ restore'.todo = restore.todo
    BY <1>5 DEF SoftDelete, Restore, FirstShare, recovery, Touched, Idle
  <2>5. QED
    BY <2>3, <2>4, TableQuietStep
<1>6. ASSUME NEW m,
             \/ RequestBackup(m)
             \/ m = rotating /\ BackupAfterRotation
      PROVE  TableInv'
  <2>1. /\ backups' = backups \cup {BuildManifest(m)}
        /\ UNCHANGED <<rows, cloud, nextId, shards, packet, restore>>
    BY <1>6 DEF RequestBackup, BackupAfterRotation
  <2>2. \A e \in BuildManifest(m).files : PiecesOk(e)
    BY ManifestPieces
  <2>3. QED
    BY <2>1, <2>2, TableQuietStep
<1>7. CASE packet # NoPacket /\ RestoreManifest(packet.manifest.by)
  BY <1>7, TableQuietStep DEF RestoreManifest, recovery
<1>8. ASSUME NEW b \in backups, SendPacket(b) \/ FailBackup(b) PROVE TableInv'
  BY <1>8, TableQuietStep DEF SendPacket, FailBackup
<1>9. ASSUME NEW old \in Passwords, NEW new \in Passwords, RotatePassword(old, new)
      PROVE  TableInv'
  BY <1>9, RotationFindsNone, TableQuietStep DEF RotatePassword
<1>10. CASE Logout
  BY <1>10, TableQuietStep DEF Logout, Touched, Idle
<1>11. CASE Crash
  BY <1>11, TableQuietStep DEF Crash, Idle
<1>12. ASSUME NEW t, BeginUpload(t) PROVE TableInv'
  <2>1. /\ rows' \subseteq rows /\ restore'.todo = restore.todo
        /\ UNCHANGED <<shards, nextId, cloud, backups, packet>>
    BY <1>12 DEF BeginUpload, recovery, Touched, Idle
  <2>2. QED
    BY <2>1, TableQuietStep
<1>13. QED
  BY <1>1, <1>2, <1>3, <1>4, <1>5, <1>6, <1>7, <1>8, <1>9, <1>10, <1>11, <1>12 DEF Next

LEMMA TableAlways == Spec => [](TypeInv /\ KeyInv /\ TableInv)
<1>1. Init => TypeInv /\ KeyInv /\ TableInv
  BY TypeInit, KeyInit, TableInit
<1>2. TypeInv /\ KeyInv /\ TableInv /\ [Next]_vars => (TypeInv /\ KeyInv /\ TableInv)'
  BY TypeNext, KeyNext, TableNext
<1>3. QED
  BY <1>1, <1>2, PTL DEF Spec

-----------------------------------------------------------------------------
(* Reading.                                                                *)

\* The row of a content with the smallest id is the one its hash finds.
LEMMA IsFirst ==
  ASSUME NEW T, T \subseteq Row, \A f, g \in T : f.id = g.id => f = g,
         NEW b \in T, NEW c, b.sha = c, \A g \in T : g.sha = c => b.id <= g.id
  PROVE  FileByHash(T, c) = b
<1>1. WithHash(T, c) # {} /\ b \in WithHash(T, c)
  BY DEF WithHash
<1>2. /\ FileByHash(T, c) \in T /\ FileByHash(T, c).sha = c
      /\ \A g \in T : g.sha = c => FileByHash(T, c).id <= g.id
  BY <1>1, FirstRow
<1>3. FileByHash(T, c).id = b.id
  BY <1>2 DEF Row
<1>4. QED
  BY <1>2, <1>3

\* What a row that can be read is like: the row its hash finds has a key that
\* an upload made, and the one piece is a video sealed with it.
LEMMA ReadableMeans ==
  ASSUME TypeInv, KeyInv, TableInv, NEW f \in rows, NEW s, Readable(f, s)
  PROVE  LET b == FileByHash(rows, f.sha) IN
         /\ b \in rows /\ b.sha = f.sha /\ b.wrap # NoWrap
         /\ \A g \in rows : g.sha = f.sha => b.id <= g.id
         /\ Decrypt(b.wrap, s) = b.wrap.key
         /\ Pieces(f)[1] \in 1..Len(cloud)
         /\ ~keys[b.wrap.key].shared /\ ~b.link
         /\ cloud[b.video] = b.wrap.key
<1> DEFINE b == FileByHash(rows, f.sha)
<1>1. rows \subseteq Row /\ shards \in Seq(Shard) /\ Len(cloud) \in Nat
  BY DEF TypeInv, TypeOK
<1>2. WithHash(rows, f.sha) # {}
  BY DEF WithHash
<1>3. /\ b \in rows /\ b.sha = f.sha
      /\ \A g \in rows : g.sha = f.sha => b.id <= g.id
  BY <1>1, <1>2, FirstRow
<1>4. /\ Decrypt(b.wrap, s) # NoKey /\ Len(Pieces(f)) = 1
      /\ cloud[Pieces(f)[1]] = Decrypt(b.wrap, s)
  BY DEF Readable
<1> HIDE DEF b
<1>5. b.wrap # NoWrap /\ Decrypt(b.wrap, s) = b.wrap.key
  BY <1>4 DEF Decrypt, NoWrap
<1>6. Pieces(f)[1] \in 1..Len(cloud)
  <2> DEFINE own == ShardVideos(b.id)
  <2>1. Pieces(f) = IF own = <<>> THEN <<f.video>> ELSE own
    BY DEF Pieces, b
  <2>2. f.video \in 1..Len(cloud)
    BY <1>1 DEF KeyInv, EntriesOk, KeyOk, Row, Videos
  <2>3. \A n \in 1..Len(own) : own[n] \in 1..Len(cloud)
    <3>1. \A i \in 1..Len(shards) : shards[i] \in Shard /\ ShardOk(shards[i])
      BY <1>1 DEF TableInv
    <3>2. \A i \in 1..Len(shards) : shards[i].video \in 1..Len(cloud)
      BY <1>1, <3>1 DEF ShardOk, Shard, Videos
    <3>3. \A n \in 1..Len(own) : \E i \in 1..Len(shards) : own[n] = shards[i].video
      BY <1>1, ShardVideosFrom
    <3>4. QED
      BY <3>2, <3>3
  <2> HIDE DEF own
  <2>4. QED
    BY <1>4, <2>1, <2>2, <2>3
<1>7. ~keys[b.wrap.key].shared
  BY <1>4, <1>5, <1>6 DEF KeyInv, KeysOk
<1>8. KeyOk(b)
  BY <1>3 DEF KeyInv, EntriesOk
<1>9. ~b.link /\ cloud[b.video] = b.wrap.key
  BY <1>5, <1>7, <1>8 DEF KeyOk, WrapOk
<1>10. QED
  BY <1>3, <1>5, <1>6, <1>7, <1>9 DEF b

\* Reading depends on the found row's id and key, and on the row's video only
\* when there are no pieces.
LEMMA ReadableMoves ==
  ASSUME TypeInv, KeyInv, TableInv, UNCHANGED <<shards, cloud>>,
         NEW f \in rows, NEW s, Readable(f, s), NEW g \in rows', g.sha = f.sha,
         \/ g.video = f.video
         \/ g.video = FileByHash(rows, f.sha).video,
         NEW d, d = FileByHash(rows', f.sha),
         d.id = FileByHash(rows, f.sha).id, d.wrap = FileByHash(rows, f.sha).wrap
  PROVE  Readable(g, s)'
<1> DEFINE b   == FileByHash(rows, f.sha)
           own == ShardVideos(b.id)
<1>1. /\ Decrypt(b.wrap, s) # NoKey /\ Len(Pieces(f)) = 1
      /\ cloud[Pieces(f)[1]] = Decrypt(b.wrap, s)
      /\ Pieces(f) = IF own = <<>> THEN <<f.video>> ELSE own
  BY DEF Readable, Pieces
<1>2. Decrypt(b.wrap, s) = b.wrap.key /\ cloud[b.video] = b.wrap.key
  BY ReadableMeans
<1>3. ShardVideos(d.id)' = ShardVideos(d.id)
  BY DEF ShardVideos, ShardsOf
<1>4. Pieces(g)' = IF own = <<>> THEN <<g.video>> ELSE own
  BY <1>3 DEF Pieces
<1> HIDE DEF own
<1>5. Len(Pieces(g)') = 1 /\ cloud[Pieces(g)'[1]] = Decrypt(b.wrap, s)
  BY <1>1, <1>2, <1>4 DEF b
<1>6. QED
  BY <1>1, <1>5 DEF Readable

\* A file stays readable when the found row keeps its id and key and stays the
\* first, and the file's own row keeps its video or has the found row's.
LEMMA ReadableKept ==
  ASSUME TypeInv, TypeInv', KeyInv, TableInv, TableInv', UNCHANGED <<shards, cloud>>,
         NEW f \in rows, NEW s, Readable(f, s),
         NEW d \in rows', d.id = FileByHash(rows, f.sha).id, d.sha = f.sha,
         d.wrap = FileByHash(rows, f.sha).wrap,
         \A x \in rows' : x.sha = f.sha => d.id <= x.id,
         NEW g \in rows', g.sha = f.sha, g.id = f.id,
         \/ g.video = f.video
         \/ g.video = FileByHash(rows, f.sha).video
  PROVE  (\E h \in rows : h.id = f.id /\ Readable(h, s))'
<1> DEFINE T == rows'
           c == f.sha
<1>1. T \subseteq Row /\ \A x, y \in T : x.id = y.id => x = y
  BY DEF TypeInv, TypeOK, TableInv, UniqueRows
<1>2. d \in T /\ d.sha = c /\ \A x \in T : x.sha = c => d.id <= x.id
  OBVIOUS
<1> HIDE DEF T, c
<1>3. FileByHash(T, c) = d
  BY <1>1, <1>2, IsFirst
<1>4. Readable(g, s)'
  BY <1>3, ReadableMoves DEF T, c
<1>5. QED
  BY <1>4

\* Steps that keep, drop or edit rows.
Edits ==
  \/ rows' \subseteq rows
  \/ \E x \in rows : \E y :
       /\ y.id = x.id /\ y.sha = x.sha /\ y.video = x.video
       /\ y.wrap = x.wrap \/ x.wrap = NoWrap
       /\ rows' = (rows \ {x}) \cup {y}

LEMMA ReadableEdit ==
  ASSUME TypeInv, TypeInv', KeyInv, TableInv, TableInv', UNCHANGED <<shards, cloud>>,
         NEW f \in rows, NEW s, Readable(f, s),
         \A g \in WithHash(rows, f.sha) : \E h \in rows' : h.id = g.id,
         Edits
  PROVE  (\E h \in rows : h.id = f.id /\ Readable(h, s))'
<1> DEFINE b == FileByHash(rows, f.sha)
<1>1. /\ b \in rows /\ b.sha = f.sha /\ b.wrap # NoWrap
      /\ \A g \in rows : g.sha = f.sha => b.id <= g.id
  BY ReadableMeans
<1> HIDE DEF b
<1>2. CASE rows' \subseteq rows
  <2>1. \A g \in rows : g.sha = f.sha => g \in rows'
    BY <1>2 DEF WithHash, TableInv, UniqueRows
  <2>2. QED
    BY <1>1, <1>2, <2>1, ReadableKept DEF b
<1>3. ASSUME NEW x \in rows, NEW y,
             y.id = x.id, y.sha = x.sha, y.video = x.video,
             y.wrap = x.wrap \/ x.wrap = NoWrap,
             rows' = (rows \ {x}) \cup {y}
      PROVE  (\E h \in rows : h.id = f.id /\ Readable(h, s))'
  <2>1. PICK d \in rows' : d.id = b.id /\ d.sha = f.sha /\ d.wrap = b.wrap
    BY <1>1, <1>3
  <2>2. \A z \in rows' : z.sha = f.sha => d.id <= z.id
    BY <1>1, <1>3, <2>1
  <2>3. PICK g \in rows' : g.id = f.id /\ g.sha = f.sha /\ g.video = f.video
    BY <1>3
  <2>4. QED
    BY <2>1, <2>2, <2>3, ReadableKept DEF b
<1>4. QED
  BY <1>2, <1>3 DEF Edits

\* Deduplication never takes the place of the row that is found.
LEMMA ReadableLink ==
  ASSUME TypeInv, TypeInv', KeyInv, TableInv, TableInv',
         NEW f \in rows, NEW s, Readable(f, s), NEW t, LinkUpload(t)
  PROVE  (\E h \in rows : h.id = f.id /\ Readable(h, s))'
<1> DEFINE b    == FileByHash(rows, f.sha)
           v    == FileByHash(rows, t.sha).video
           link == TRUE
<1>1. /\ b \in rows /\ b.sha = f.sha /\ b.wrap # NoWrap /\ ~b.link
      /\ \A g \in rows : g.sha = f.sha => b.id <= g.id
  BY ReadableMeans
<1>2. /\ UNCHANGED <<shards, cloud>>
      /\ rows' = SaveFileWithKey(rows, t.sha, link, v, NoWrap)
  BY DEF LinkUpload
<1>3. t.sha = f.sha => v = b.video
  OBVIOUS
<1>4. link
  OBVIOUS
<1> HIDE DEF b, v, link
<1>5. PICK new : SavedAs(rows', new, t.sha, link, v, NoWrap)
  BY <1>2, Upsert DEF TypeInv, TypeOK
<1>6. /\ new.sha = t.sha /\ new.video = v /\ new \in rows'
      /\ rows' = {x \in rows : ~(x.sha = t.sha /\ x.link = link)} \cup {new}
      /\ (\E x \in rows : x.sha = t.sha /\ x.link = link /\ x.id = new.id)
           \/ (/\ ~\E x \in rows : x.sha = t.sha /\ x.link = link
               /\ new.id = nextId)
  BY <1>5 DEF SavedAs
<1>7. b \in rows'
  BY <1>1, <1>4, <1>6
<1>8. \A x \in rows' : x.sha = f.sha => b.id <= x.id
  <2>1. b.id < nextId /\ b.id \in Nat /\ nextId \in Nat
    BY <1>1 DEF TypeInv, TypeOK, Row
  <2>2. new.sha = f.sha => b.id <= new.id
    BY <1>1, <1>6, <2>1
  <2>3. QED
    BY <1>1, <1>6, <2>2
<1>9. \E g \in rows' : /\ g.id = f.id /\ g.sha = f.sha
                       /\ g.video = f.video \/ g.video = b.video
  <2>1. CASE f.sha = t.sha /\ f.link = link
    <3>1. f.id = new.id
      BY <1>6, <2>1 DEF TableInv, UniqueRows
    <3>2. QED
      BY <1>3, <1>6, <2>1, <3>1
  <2>2. CASE ~(f.sha = t.sha /\ f.link = link)
    BY <1>6, <2>2
  <2>3. QED
    BY <2>1, <2>2
<1>10. PICK g \in rows' : /\ g.id = f.id /\ g.sha = f.sha
                          /\ g.video = f.video \/ g.video = b.video
  BY <1>9
<1>11. QED
  BY <1>1, <1>2, <1>7, <1>8, <1>10, ReadableKept DEF b

LEMMA ReadableStep ==
  ASSUME TypeInv, TypeInv', KeyInv, TableInv, TableInv', [Next]_vars,
         NEW f \in rows, NEW s, Readable(f, s),
         \A g \in WithHash(rows, f.sha) : \E h \in rows' : h.id = g.id,
         cloud' = cloud, restore'.todo = restore.todo
  PROVE  (\E h \in rows : h.id = f.id /\ Readable(h, s))'
<1>1. CASE rows' \subseteq rows /\ shards' = shards
  <2>1. UNCHANGED <<shards, cloud>> /\ Edits
    BY <1>1 DEF Edits
  <2>2. QED
    BY <2>1, ReadableEdit
<1>2. ASSUME NEW x \in rows,
             \/ SoftDelete(x) \/ Restore(x)
             \/ \E m \in Known : FirstShare(x, m)
      PROVE  (\E h \in rows : h.id = f.id /\ Readable(h, s))'
  <2>1. x \in Row
    BY DEF TypeInv, TypeOK
  <2>2. ASSUME NEW z
        PROVE  /\ LET y == [x EXCEPT !.trash = z] IN
                     y.id = x.id /\ y.sha = x.sha /\ y.video = x.video /\ y.wrap = x.wrap
               /\ LET y == [x EXCEPT !.wrap = z] IN
                     y.id = x.id /\ y.sha = x.sha /\ y.video = x.video
    BY <2>1 DEF Row
  <2>3. shards' = shards
    BY <1>2 DEF SoftDelete, Restore, FirstShare
  <2>4. PICK y : /\ y.id = x.id /\ y.sha = x.sha /\ y.video = x.video
                 /\ y.wrap = x.wrap \/ x.wrap = NoWrap
                 /\ rows' = (rows \ {x}) \cup {y}
    BY <1>2, <2>2 DEF SoftDelete, Restore, FirstShare
  <2>5. Edits
    BY <2>4 DEF Edits
  <2>6. QED
    BY <2>3, <2>5, ReadableEdit
<1>3. ASSUME NEW t, LinkUpload(t)
      PROVE  (\E h \in rows : h.id = f.id /\ Readable(h, s))'
  BY <1>3, ReadableLink
<1>4. ASSUME FinishUpload PROVE FALSE
  <2>1. cloud \in Seq(Keys) /\ cloud' = Append(cloud, run.key)
    BY <1>4 DEF FinishUpload, TypeInv, TypeOK
  <2>2. Len(cloud') = Len(cloud) + 1 /\ Len(cloud) \in Nat
    BY <2>1
  <2>3. QED
    BY <2>2
<1>5. ASSUME NEW e \in restore.todo, ApplyEntry(e) PROVE FALSE
  BY <1>5 DEF ApplyEntry, TypeInv, TypeOK
<1>6. ASSUME Logout PROVE FALSE
  BY <1>6 DEF Logout, WithHash
<1>7. ASSUME NEW old \in Passwords, NEW new \in Passwords, RotatePassword(old, new)
      PROVE  rows' = rows /\ shards' = shards
  BY <1>7, RotationFindsNone DEF RotatePassword
<1>8. ASSUME \/ UNCHANGED vars
             \/ \E m \in Known : StartSession(m) \/ RequestBackup(m)
             \/ EndSession \/ FailUpload \/ BackupAfterRotation \/ Crash
             \/ \E c \in Contents, p \in Given \cup {NoPassword} : RequestUpload(c, p)
             \/ \E t : BeginUpload(t)
             \/ \E x \in rows : PermanentDelete(x)
             \/ packet # NoPacket /\ RestoreManifest(packet.manifest.by)
             \/ \E b \in backups : SendPacket(b) \/ FailBackup(b)
      PROVE  rows' \subseteq rows /\ shards' = shards
  BY <1>8 DEF vars, StartSession, RequestBackup, EndSession, FailUpload, BackupAfterRotation,
     Crash, RequestUpload, BeginUpload, PermanentDelete, RestoreManifest, SendPacket, FailBackup
<1>9. QED
  BY <1>1, <1>2, <1>3, <1>4, <1>5, <1>6, <1>7, <1>8 DEF Next

(* A file that can be read stays so while videos, shard rows and the rows  *)
(* of its content stay: sharing, linking, trashing, password changes and   *)
(* restarts never take it away (share.go:111-131, queue.go:469, 243-276).  *)
THEOREM ReadableStaysHolds == Spec => ReadableStays
<1>1. ASSUME TypeInv, TypeInv', KeyInv, TableInv, TableInv', [Next]_vars
      PROVE  [\A f \in rows, s \in {h.by : h \in {keys[k] : k \in 1..Len(keys)}} :
                (/\ Readable(f, s)
                 /\ \A g \in WithHash(rows, f.sha) : \E h \in rows' : h.id = g.id
                 /\ cloud' = cloud /\ restore'.todo = restore.todo)
                  => (\E g \in rows : g.id = f.id /\ Readable(g, s))']_vars
  BY <1>1, ReadableStep
<1>2. QED
  BY TableAlways, <1>1, PTL DEF Spec, ReadableStays

-----------------------------------------------------------------------------
(* Restoration.                                                            *)

\* What a packet promises is among its entries, alone with its content.
LEMMA ManifestGoals ==
  ASSUME TypeInv, KeyInv, TableInv, NEW m
  PROVE  GoalOk(BuildManifest(m).files, BuildManifest(m).goal)
<1> DEFINE list == {f \in rows : Listed(f)}
           good == {g \in list : /\ Sole(g) /\ g.wrap # NoWrap
                                 /\ Readable(g, g.wrap.by)}
<1>1. /\ BuildManifest(m).files = {EntryOf(f) : f \in list}
      /\ BuildManifest(m).goal = {<<f.sha, f.wrap.by>> : f \in good}
  BY DEF BuildManifest
<1>2. ASSUME NEW f \in good
      PROVE  /\ EntryReadable(EntryOf(f), f.wrap.by)
             /\ \A d \in {EntryOf(h) : h \in list} : d.sha = f.sha => d = EntryOf(f)
  <2> DEFINE s   == f.wrap.by
             own == ShardVideos(f.id)
             e   == EntryOf(f)
  <2>1. f \in rows /\ FileByHash(rows, f.sha) = f /\ Readable(f, s)
    BY DEF Sole
  <2>2. Decrypt(f.wrap, s) # NoKey /\ Len(Pieces(f)) = 1 /\ cloud[Pieces(f)[1]] = Decrypt(f.wrap, s)
    BY <2>1 DEF Readable
  <2>3. Pieces(f)[1] \in 1..Len(cloud)
    BY <2>1, ReadableMeans
  <2>4. Pieces(f) = IF own = <<>> THEN <<f.video>> ELSE own
    BY <2>1 DEF Pieces
  <2>5. e.wrap = f.wrap /\ e.video = f.video /\ e.videos = own
    BY DEF EntryOf
  <2> HIDE DEF e, own, s
  <2>6. Pieces(f)[1] <= Len(cloud)
    BY <2>3 DEF TypeInv, TypeOK
  <2>7. EntryReadable(e, s)
    BY <2>2, <2>4, <2>5, <2>6 DEF EntryReadable
  <2>8. ASSUME NEW h \in list, EntryOf(h).sha = f.sha PROVE h = f
    <3>1. h.sha = f.sha
      BY <2>8 DEF EntryOf
    <3>2. QED
      BY <3>1 DEF Sole, WithHash
  <2>9. QED
    BY <2>7, <2>8 DEF e, s
<1>3. ASSUME NEW f \in good
      PROVE  EntryOf(f) \in {EntryOf(h) : h \in list} /\ EntryOf(f).sha = f.sha
  BY DEF EntryOf
<1> HIDE DEF list, good
<1>4. \A g \in {<<f.sha, f.wrap.by>> : f \in good} :
        \E f \in good : g[1] = f.sha /\ g[2] = f.wrap.by
  OBVIOUS
<1>5. QED
  BY <1>1, <1>2, <1>3, <1>4 DEF GoalOk

\* Videos are only ever added.
CloudGrows == /\ Len(cloud) <= Len(cloud')
              /\ \A v \in 1..Len(cloud) : cloud'[v] = cloud[v]

LEMMA GoalOkGrows ==
  ASSUME TypeInv, TypeInv', CloudGrows, NEW E, E \subseteq Entry, NEW goal, GoalOk(E, goal)
  PROVE  GoalOk(E, goal)'
<1>1. Len(cloud) \in Nat /\ Len(cloud') \in Nat
  BY DEF TypeInv, TypeOK
<1>2. ASSUME NEW e \in E, NEW s, EntryReadable(e, s) PROVE EntryReadable(e, s)'
  <2> DEFINE pieces == IF e.videos = <<>> THEN <<e.video>> ELSE e.videos
  <2>1. /\ Decrypt(e.wrap, s) # NoKey /\ Len(pieces) = 1
        /\ pieces[1] <= Len(cloud) /\ cloud[pieces[1]] = Decrypt(e.wrap, s)
    BY <1>2 DEF EntryReadable
  <2>2. pieces[1] \in Videos
    <3>1. e.video \in Videos /\ e.videos \in Seq(Videos)
      BY DEF Entry
    <3>2. CASE e.videos = <<>>
      BY <3>1, <3>2
    <3>3. CASE e.videos # <<>>
      BY <2>1, <3>1, <3>3
    <3>4. QED
      BY <3>2, <3>3
  <2> HIDE DEF pieces
  <2>3. pieces[1] \in 1..Len(cloud)
    BY <1>1, <2>1, <2>2 DEF Videos
  <2>4. pieces[1] <= Len(cloud') /\ cloud'[pieces[1]] = cloud[pieces[1]]
    BY <1>1, <2>3 DEF CloudGrows
  <2>5. QED
    BY <2>1, <2>4 DEF EntryReadable, pieces
<1>3. QED
  BY <1>2 DEF GoalOk

LEMMA GoalsStep ==
  ASSUME TypeInv, TypeInv', RestoreInv, CloudGrows,
         \A b \in backups' : b \in backups \/ GoalOk(b.files, b.goal),
         packet' = packet \/ packet'.manifest \in backups
  PROVE  GoalsOk'
<1>1. ASSUME NEW M \in Manifest, GoalOk(M.files, M.goal) PROVE GoalOk(M.files, M.goal)'
  <2>1. M.files \subseteq Entry
    BY DEF Manifest
  <2>2. QED
    BY <1>1, <2>1, GoalOkGrows
<1>2. \A b \in backups \cup backups' : b \in Manifest /\ GoalOk(b.files, b.goal)
  BY DEF TypeInv, TypeOK, RestoreInv, GoalsOk
<1>3. packet # NoPacket => /\ packet.manifest \in Manifest
                           /\ GoalOk(packet.manifest.files, packet.manifest.goal)
  BY DEF TypeInv, TypeOK, RestoreInv, GoalsOk
<1>4. \A b \in backups' : GoalOk(b.files, b.goal)'
  BY <1>1, <1>2
<1>5. (packet # NoPacket => GoalOk(packet.manifest.files, packet.manifest.goal))'
  <2>1. packet' # NoPacket => /\ packet'.manifest \in Manifest
                              /\ GoalOk(packet'.manifest.files, packet'.manifest.goal)
    BY <1>2, <1>3
  <2>2. QED
    BY <1>1, <2>1
<1>6. QED
  BY <1>4, <1>5 DEF GoalsOk

\* One round of the restoration: the goals of the other entries wait on, the
\* restored rows keep their pieces, and the entry of a goal gives it back.
LEMMA ApplyShards ==
  ASSUME TypeInv, TypeInv', TableInv, TableInv', NEW e \in restore.todo, ApplyEntry(e),
         NEW id, id = FileByHash(rows', e.sha).id
  PROVE  /\ \A i \in Nat : i # id => ShardVideos(i)' = ShardVideos(i)
         /\ id = nextId => ShardVideos(id)' = e.videos
<1> DEFINE n == Len(e.videos)
           t == [i \in 1..n |-> [file |-> id, video |-> e.videos[i]]]
<1>1. shards' = shards \o t
  BY DEF ApplyEntry
<1>2. /\ e.videos \in Seq(Videos) /\ n \in Nat /\ nextId \in Nat
      /\ shards \in Seq(Shard) /\ Len(shards) \in Nat /\ shards' \in Seq(Shard)
  BY DEF TypeInv, TypeOK, Entry
<1>3. \A i \in 1..n : e.videos[i] \in Videos
  BY <1>2
<1>4. id \in Nat \ {0}
  <2>1. rows' = SaveFileWithKey(rows, e.sha, e.link, e.video, e.wrap)
    BY DEF ApplyEntry
  <2>2. PICK new : SavedAs(rows', new, e.sha, e.link, e.video, e.wrap)
    BY <2>1, Upsert DEF TypeInv, TypeOK
  <2>3. WithHash(rows', e.sha) # {} /\ rows' \subseteq Row
    BY <2>2 DEF SavedAs, WithHash, TypeInv, TypeOK
  <2>4. QED
    BY <2>3, FirstRow DEF Row
<1> HIDE DEF n
<1>5. \A i \in 1..n : t[i] \in Shard /\ t[i].file = id /\ t[i].video = e.videos[i]
  BY <1>3, <1>4 DEF Shard
<1>6. t \in Seq(Shard) /\ Len(t) = n
  BY <1>2, <1>5, IsASeq
<1> HIDE DEF t
<1>7. /\ Len(shards') = Len(shards) + n
      /\ \A i \in 1..Len(shards) : shards'[i] = shards[i]
      /\ \A i \in 1..n : shards'[Len(shards) + i] = t[i]
  <2>1. /\ Len(shards \o t) = Len(shards) + Len(t)
        /\ \A i \in 1..Len(shards) : (shards \o t)[i] = shards[i]
        /\ \A i \in 1..Len(t) : (shards \o t)[Len(shards) + i] = t[i]
    <3>1. shards \in Seq(Shard)
      BY <1>2
    <3>2. QED
      BY <3>1, <1>6
  <2>2. QED
    BY <2>1, <1>1, <1>6
<1>8. \A i \in 1..Len(shards') :
        \/ i \in 1..Len(shards)
        \/ i \notin 1..Len(shards) /\ shards'[i].file = id
  <2>1. ASSUME NEW i \in 1..Len(shards'), i \notin 1..Len(shards)
        PROVE  shards'[i].file = id
    <3>1. i - Len(shards) \in 1..n /\ i = Len(shards) + (i - Len(shards))
      BY <1>2, <1>7, <2>1
    <3>2. QED
      BY <3>1, <1>5, <1>7
  <2>2. QED
    BY <2>1
<1>9. ASSUME NEW x \in Nat, x # id PROVE ShardVideos(x)' = ShardVideos(x)
  <2> DEFINE I == {i \in 1..Len(shards) : shards[i].file = x}
  <2>1. {i \in 1..Len(shards') : shards'[i].file = x} = I
    BY <1>2, <1>7, <1>8, <1>9
  <2>2. I \subseteq 1..Len(shards)
    OBVIOUS
  <2>3. ShardsOf(x)' = Selected(shards', I) /\ ShardsOf(x) = Selected(shards, I)
    BY <2>1 DEF ShardsOf
  <2> HIDE DEF I
  <2>4. Selected(shards \o t, I) = Selected(shards, I)
    BY <1>2, <1>6, <2>2, SelectedFromFirst, Zenon
  <2>5. ShardsOf(x)' = ShardsOf(x)
    BY <1>1, <2>3, <2>4
  <2>6. QED
    BY <2>5 DEF ShardVideos
<1>10. ASSUME id = nextId PROVE ShardVideos(id)' = e.videos
  <2> DEFINE I == {i \in 1..Len(shards') : shards'[i].file = id}
  <2>1. \A i \in 1..Len(shards) : shards[i].file # id
    <3>1. \A i \in 1..Len(shards) : shards[i] \in Shard /\ ShardOk(shards[i])
      BY <1>2 DEF TableInv
    <3>2. QED
      BY <1>2, <1>10, <3>1 DEF ShardOk, Shard
  <2>2. I = (Len(shards) + 1)..(Len(shards) + Len(t))
    <3>1. \A i \in I : i \in 1..Len(shards') /\ i \notin 1..Len(shards)
      BY <1>2, <1>7, <1>8, <2>1
    <3>2. \A i \in 1..Len(shards') : i \notin 1..Len(shards) => i \in I
      BY <1>8
    <3> HIDE DEF I
    <3>3. \A i : i \in I <=> i \in 1..(Len(shards) + n) /\ i \notin 1..Len(shards)
      BY <1>7, <3>1, <3>2
    <3>4. \A i : i \in I <=> i \in (Len(shards) + 1)..(Len(shards) + n)
      BY <1>2, <3>3
    <3>5. QED
      BY <1>6, <3>4
  <2>3. ShardsOf(id)' = Selected(shards', I)
    BY DEF ShardsOf
  <2> HIDE DEF I
  <2>4. Selected(shards \o t, I) = t
    BY <1>2, <1>6, <2>2, SelectedSecond, ZenonT(30)
  <2>5. ShardsOf(id)' = t
    BY <1>1, <2>3, <2>4
  <2>6. ShardVideos(id)' = [i \in 1..n |-> t[i].video]
    BY <2>5, <1>6 DEF ShardVideos
  <2>7. [i \in 1..n |-> t[i].video] = [i \in 1..n |-> e.videos[i]]
    BY <1>5
  <2>8. [i \in 1..n |-> e.videos[i]] = e.videos
    BY <1>2 DEF n
  <2>9. QED
    BY <2>6, <2>7, <2>8
<1>11. QED
  BY <1>9, <1>10

LEMMA ApplyGoal ==
  ASSUME TypeInv, TypeInv', TableInv, TableInv', NEW e \in restore.todo, ApplyEntry(e),
         NEW g, Waiting(g) \/ Back(g)
  PROVE  Waiting(g)' \/ Back(g)'
<1>1. /\ rows' = SaveFileWithKey(rows, e.sha, e.link, e.video, e.wrap)
      /\ restore'.todo = restore.todo \ {e} /\ UNCHANGED cloud
  BY DEF ApplyEntry, TypeInv, TypeOK
<1>2. PICK new : SavedAs(rows', new, e.sha, e.link, e.video, e.wrap)
  BY <1>1, Upsert DEF TypeInv, TypeOK
<1>3. /\ rows' = {x \in rows : ~(x.sha = e.sha /\ x.link = e.link)} \cup {new}
      /\ new \in rows' /\ new.sha = e.sha /\ new.video = e.video /\ new.wrap = e.wrap
      /\ ~new.trash
      /\ \/ \E x \in rows : x.sha = e.sha /\ x.link = e.link /\ x.id = new.id
         \/ new.id = nextId
  BY <1>2 DEF SavedAs
<1> DEFINE d == FileByHash(rows', e.sha)
<1>4. d \in rows' /\ d.sha = e.sha
  <2>1. WithHash(rows', e.sha) # {} /\ rows' \subseteq Row
    BY <1>3 DEF WithHash, TypeInv, TypeOK
  <2>2. QED
    BY <2>1, FirstRow
<1>5. PICK id : id = FileByHash(rows', e.sha).id
  OBVIOUS
<1>6. /\ \A i \in Nat : i # id => ShardVideos(i)' = ShardVideos(i)
      /\ id = nextId => ShardVideos(id)' = e.videos
  BY <1>5, ApplyShards
<1>7. CASE Waiting(g) /\ e.sha = g[1]
  <2>1. EntryReadable(e, g[2]) /\ \A x \in restore.todo : x.sha = g[1] => x = e
    BY <1>7 DEF Waiting, GoalOk
  <2>2. WithHash(rows, g[1]) = {}
    BY <1>7 DEF Waiting
  <2>3. WithHash(rows', g[1]) = {new} /\ new.id = nextId
    BY <1>3, <1>7, <2>2 DEF WithHash
  <2>4. FileByHash(rows', g[1]) = new
    BY <2>3 DEF FileByHash, WithHash, TypeInv, TypeOK, Row
  <2>5. id = nextId
    BY <1>5, <1>7, <2>3, <2>4
  <2>6. Pieces(new)' = IF e.videos = <<>> THEN <<e.video>> ELSE e.videos
    <3>1. new.sha = g[1] /\ new.video = e.video
      BY <1>3, <1>7
    <3>2. ShardVideos(id)' = e.videos
      BY <1>6, <2>5
    <3>3. FileByHash(rows', new.sha).id = id
      BY <2>3, <2>4, <2>5, <3>1
    <3>4. ShardVideos(FileByHash(rows, new.sha).id)' = e.videos
      BY <3>2, <3>3 DEF ShardVideos, ShardsOf
    <3>5. QED
      BY <3>1, <3>4 DEF Pieces
  <2>7. Readable(new, g[2])'
    BY <1>1, <1>3, <1>7, <2>1, <2>4, <2>6 DEF Readable, EntryReadable
  <2>8. Back(g)'
    BY <1>1, <1>3, <2>1, <2>3, <2>7 DEF Back, Listed
  <2>9. QED
    BY <2>8
<1>8. CASE Waiting(g) /\ e.sha # g[1]
  <2>1. WithHash(rows', g[1]) = {}
    BY <1>3, <1>8 DEF Waiting, WithHash
  <2>2. GoalOk(restore.todo, {g}) /\ \E x \in restore.todo : x.sha = g[1] /\ EntryReadable(x, g[2])
    BY <1>8 DEF Waiting, GoalOk
  <2>3. \A x : EntryReadable(x, g[2]) => EntryReadable(x, g[2])'
    BY <1>1 DEF EntryReadable
  <2>4. GoalOk(restore.todo, {g})'
    BY <1>1, <1>8, <2>2, <2>3 DEF GoalOk
  <2>5. QED
    BY <2>1, <2>4 DEF Waiting
<1>9. CASE Back(g)
  <2>1. PICK f \in rows : /\ WithHash(rows, g[1]) = {f} /\ Listed(f) /\ Readable(f, g[2])
    BY <1>9 DEF Back
  <2>2. e.sha # g[1] /\ \A x \in restore'.todo : x.sha # g[1]
    BY <1>1, <1>9 DEF Back
  <2>3. WithHash(rows', g[1]) = {f} /\ f \in rows' /\ f.sha = g[1]
    BY <1>3, <2>1, <2>2 DEF WithHash
  <2>4. f.id # id /\ f.id \in Nat
    BY <1>4, <1>5, <2>2, <2>3 DEF TableInv, UniqueRows, TypeInv, TypeOK, Row
  <2>5. ShardVideos(f.id)' = ShardVideos(f.id)
    BY <1>6, <2>4
  <2>6. FileByHash(rows, g[1]) = f /\ FileByHash(rows', g[1]) = f
    BY <2>1, <2>3 DEF FileByHash, TypeInv, TypeOK, Row
  <2>7. Pieces(f)' = Pieces(f)
    BY <2>3, <2>5, <2>6 DEF Pieces
  <2>8. Readable(f, g[2])'
    BY <1>1, <2>1, <2>3, <2>6, <2>7 DEF Readable
  <2>9. Back(g)'
    BY <2>1, <2>2, <2>3, <2>8 DEF Back
  <2>10. QED
    BY <2>9
<1>10. QED
  BY <1>7, <1>8, <1>9

LEMMA RestoreNext ==
  TypeInv /\ TypeInv' /\ KeyInv /\ TableInv /\ TableInv' /\ RestoreInv /\ [Next]_vars
    => RestoreInv'
<1> SUFFICES ASSUME TypeInv, TypeInv', KeyInv, TableInv, TableInv', RestoreInv, [Next]_vars
             PROVE  RestoreInv'
  OBVIOUS
<1>a. Len(cloud) \in Nat /\ cloud \in Seq(Keys)
  BY DEF TypeInv, TypeOK
<1>b. cloud' = cloud => CloudGrows
  BY <1>a DEF CloudGrows
<1>c. UNCHANGED <<rows, shards, cloud, restore>> => CleanInv'
  <2> SUFFICES ASSUME UNCHANGED <<rows, shards, cloud, restore>> PROVE CleanInv'
    OBVIOUS
  <2>1. \A g : Waiting(g) => Waiting(g)'
    BY SMTT(30) DEF Waiting, GoalOk, EntryReadable
  <2>2. \A f, s : Readable(f, s) => Readable(f, s)'
    BY ZenonT(30) DEF Readable, Pieces, ShardVideos, ShardsOf
  <2>3. \A g : Back(g) => Back(g)'
    BY <2>2 DEF Back
  <2>4. QED
    BY <2>1, <2>3 DEF RestoreInv, CleanInv
<1>d. restore'.clean = FALSE => CleanInv'
  BY DEF CleanInv
<1>1. CASE \/ UNCHANGED vars
           \/ \E m \in Known : StartSession(m)
           \/ EndSession \/ FailUpload
           \/ \E c \in Contents, p \in Given \cup {NoPassword} : RequestUpload(c, p)
  <2>1. UNCHANGED <<rows, shards, cloud, restore, backups, packet>>
    BY <1>1 DEF vars, recovery, StartSession, EndSession, FailUpload, RequestUpload
  <2>2. QED
    BY <1>b, <1>c, <2>1, GoalsStep DEF RestoreInv
<1>2. ASSUME NEW m,
             \/ RequestBackup(m)
             \/ m = rotating /\ BackupAfterRotation
      PROVE  RestoreInv'
  <2>1. /\ UNCHANGED <<rows, shards, cloud, restore, packet>>
        /\ backups' = backups \cup {BuildManifest(m)}
    BY <1>2 DEF RequestBackup, BackupAfterRotation
  <2>2. GoalOk(BuildManifest(m).files, BuildManifest(m).goal)
    BY ManifestGoals
  <2>3. QED
    BY <1>b, <1>c, <2>1, <2>2, GoalsStep DEF RestoreInv
<1>3. ASSUME NEW old \in Passwords, NEW new \in Passwords, RotatePassword(old, new)
      PROVE  RestoreInv'
  <2>1. UNCHANGED <<rows, shards, cloud, restore, backups, packet>>
    BY <1>3, RotationFindsNone DEF RotatePassword
  <2>2. QED
    BY <1>b, <1>c, <2>1, GoalsStep DEF RestoreInv
<1>4. ASSUME NEW x, \/ BeginUpload(x) \/ LinkUpload(x)
                    \/ SoftDelete(x) \/ Restore(x) \/ PermanentDelete(x)
                    \/ \E m \in Known : FirstShare(x, m)
                    \/ Logout
      PROVE  RestoreInv'
  <2>1. /\ UNCHANGED <<cloud, backups, packet>>
        /\ restore'.clean = FALSE \/ UNCHANGED <<rows, shards, cloud, restore>>
    BY <1>4 DEF BeginUpload, LinkUpload, SoftDelete, Restore, PermanentDelete, FirstShare,
       Logout, recovery, Touched, Idle
  <2>2. QED
    BY <1>b, <1>c, <1>d, <2>1, GoalsStep DEF RestoreInv
<1>5. CASE FinishUpload
  <2>1. /\ cloud' = Append(cloud, run.key) /\ UNCHANGED <<backups, packet>>
        /\ restore'.clean = FALSE /\ run.key \in Keys
    BY <1>5, Kinds DEF FinishUpload, recovery, Touched, Idle, TypeInv, TypeOK, Running
  <2>2. CloudGrows
    BY <1>a, <2>1 DEF CloudGrows
  <2>3. QED
    BY <1>d, <2>1, <2>2, GoalsStep DEF RestoreInv
<1>6. CASE Crash
  <2>1. /\ UNCHANGED <<rows, shards, cloud, packet>> /\ backups' = {}
        /\ restore'.clean = FALSE \/ restore' = restore
    BY <1>6 DEF Crash, Idle
  <2>2. QED
    BY <1>b, <1>c, <1>d, <2>1, GoalsStep DEF RestoreInv
<1>7. CASE packet # NoPacket /\ RestoreManifest(packet.manifest.by)
  <2>1. /\ UNCHANGED <<rows, shards, cloud, backups, packet>>
        /\ restore' = [todo |-> packet.manifest.files, clean |-> rows = {},
                       goal |-> IF rows = {} THEN packet.manifest.goal ELSE {}]
    BY <1>7 DEF RestoreManifest, recovery
  <2>2. GoalOk(packet.manifest.files, packet.manifest.goal)
    BY <1>7 DEF RestoreInv, GoalsOk
  <2>3. ASSUME rows = {}, NEW g \in packet.manifest.goal PROVE Waiting(g)'
    <3>1. GoalOk(packet.manifest.files, {g})
      BY <2>2 DEF GoalOk
    <3>2. restore'.todo = packet.manifest.files
      BY <2>1
    <3>3. GoalOk(restore.todo, {g})'
      BY <2>1, <3>1, <3>2 DEF GoalOk, EntryReadable
    <3>4. WithHash(rows', g[1]) = {}
      BY <2>1, <2>3 DEF WithHash
    <3>5. QED
      BY <3>3, <3>4 DEF Waiting
  <2>4. CleanInv'
    BY <2>1, <2>3 DEF CleanInv
  <2>5. QED
    BY <1>b, <2>1, <2>4, GoalsStep DEF RestoreInv
<1>8. ASSUME NEW e \in restore.todo, ApplyEntry(e) PROVE RestoreInv'
  <2>1. UNCHANGED <<cloud, backups, packet>> /\ restore'.clean = restore.clean
        /\ restore'.goal = restore.goal
    BY <1>8 DEF ApplyEntry, recovery, TypeInv, TypeOK
  <2>2. CleanInv'
    BY <1>8, <2>1, ApplyGoal DEF RestoreInv, CleanInv
  <2>3. QED
    BY <1>b, <2>1, <2>2, GoalsStep DEF RestoreInv
<1>9. ASSUME NEW b \in backups, SendPacket(b) \/ FailBackup(b) PROVE RestoreInv'
  <2>1. UNCHANGED <<rows, shards, cloud, restore>> /\ backups' \subseteq backups
    BY <1>9 DEF SendPacket, FailBackup
  <2>2. packet' = packet \/ packet'.manifest \in backups
    BY <1>9 DEF SendPacket, FailBackup
  <2>3. QED
    BY <1>b, <1>c, <2>1, <2>2, GoalsStep DEF RestoreInv
<1>10. QED
  BY <1>1, <1>2, <1>3, <1>4, <1>5, <1>6, <1>7, <1>8, <1>9 DEF Next

LEMMA RestoreInit == Init => RestoreInv
  BY DEF Init, Idle, RestoreInv, GoalsOk, CleanInv

(* A restoration into an empty database that ran to its end undisturbed    *)
(* gives back every file that could be read when the packet was made, if   *)
(* no second row shared its content (recovery.go:61-120, 265-306).         *)
THEOREM RestoreGivesBackHolds == Spec => []RestoreGivesBack
<1>1. Init => RestoreInv
  BY RestoreInit
<1>2. TypeInv /\ TypeInv' /\ KeyInv /\ TableInv /\ TableInv' /\ RestoreInv /\ [Next]_vars
        => RestoreInv'
  BY RestoreNext
<1>3. RestoreInv => RestoreGivesBack
  <2> SUFFICES ASSUME RestoreInv, restore.clean, restore.todo = {}, NEW g \in restore.goal
               PROVE  \E f \in rows : f.sha = g[1] /\ Listed(f) /\ Readable(f, g[2])
    BY DEF RestoreGivesBack
  <2>1. ~Waiting(g)
    BY DEF Waiting, GoalOk
  <2>2. Back(g)
    BY <2>1 DEF RestoreInv, CleanInv
  <2>3. QED
    BY <2>2 DEF Back, WithHash
<1>4. Spec => []RestoreInv
  BY TableAlways, <1>1, <1>2, PTL DEF Spec
<1>5. QED
  BY <1>3, <1>4, PTL
=============================================================================
