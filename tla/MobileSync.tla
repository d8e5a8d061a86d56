----------------------------- MODULE MobileSync -----------------------------
(***************************************************************************)
(* A phone beside the desktops (nexus-mobile: sync_service.dart, with the  *)
(* edits of database_service.dart and files_page.dart): another client of  *)
(* the same two files on Drive.  It decides by LSNs where the daemon       *)
(* counts rows, announces its LSN plus one, and uploads the manifest       *)
(* first.                                                                  *)
(*                                                                         *)
(* Covered: the phone's edits, of which some take no LSN step, the         *)
(* decision, the push with uploads whose answer nobody reads, the pull     *)
(* with its backup and rollback, calls that fail with or without effect,   *)
(* and the application killed between any two steps.                       *)
(*                                                                         *)
(* Left out: a second phone, overlapping calls of sync() (nothing prevents *)
(* them), a database that is opened again while a pull has it closed, and  *)
(* copies of nexus.db that the phone leaves on Drive.                      *)
(***************************************************************************)
EXTENDS SyncProtocol

CONSTANTS Starts,    \* what desktops have pushed, and the phone pulled, so far
          MaxLsn,    \* bound: the LSN of a database that the phone pushes
          MaxBreaks  \* bound: failing calls and deaths of the phone's sync()

ASSUME MobileAssumption ==
  /\ {MaxLsn, MaxBreaks} \subseteq Nat
  /\ Starts \subseteq Db \X Db
  /\ \A s \in Starts : ~s[1].susp /\ ~s[2].susp

VARIABLES phone,  \* its database, and where sync() is with its locals
          blank,  \* the phone has left an empty nexus-sync.json on Drive
          breaks  \* faults so far, at most MaxBreaks

allVars  == <<now, edits, db, editing, pc, job, drive, phone, blank, breaks>>
desktops == <<now, db, editing, pc, job>>

PhoneSteps == {"idle", "decide", "snapshot", "manifest", "upload", "verify",
               "record", "backup", "download", "replace", "check", "adopt"}
\* changing: a row is written whose LSN step is to come; man, snap, old: the
\* manifest read or to be uploaded, the database on its way, the backup.
Phone == [db : Db, changing : BOOLEAN, at : PhoneSteps,
          man : Manifest \cup {NoMan}, snap : Db \cup {NoDb}, old : Db \cup {NoDb}]

\* Nothing yet, or a database that all desktops have and an earlier one, or
\* the same, that the phone has.
MobileInit ==
  /\ now = 1 /\ edits = 0
  /\ editing = [d \in Devices |-> FALSE]
  /\ pc = [d \in Devices |-> "idle"]
  /\ job = [d \in Devices |-> NoJob]
  /\ \E s \in Starts :
       LET x == s[1] IN
       /\ db = [d \in Devices |-> x]
       /\ drive = IF x = EmptyDb THEN [db |-> NoDb, man |-> NoMan]
                 ELSE [db |-> x, man |-> [lsn |-> x.lsn, hash |-> Hash(x), total |-> Total(x),
                                          files |-> Cardinality(Rows(x)),
                                          last |-> LastModified(x)]]
       /\ phone = [db |-> s[2], changing |-> FALSE, at |-> "idle",
                   man |-> NoMan, snap |-> NoDb, old |-> NoDb]
  /\ blank = FALSE /\ breaks = 0

-----------------------------------------------------------------------------
(***************************************************************************)
(* Edits on the phone: with an LSN step that follows, or without one.      *)
(***************************************************************************)
PhoneEdit(x, step) ==
  /\ ~phone.changing
  /\ edits < MaxEdits /\ edits' = edits + 1
  /\ phone' = [phone EXCEPT !.db = x, !.changing = step]
  /\ UNCHANGED <<desktops, drive, blank, breaks>>

\* A row whose path is taken is saved under a new id, and the old one goes.
PhoneSaveFile(f, gone) ==
  /\ gone = f \/ (f \notin Rows(phone.db) /\ gone \in Rows(phone.db))
  /\ PhoneEdit([phone.db EXCEPT
                  !.upd = [g \in Files |-> IF g = f THEN now
                                           ELSE IF g = gone THEN 0 ELSE @[g]],
                  !.trash = @ \ {f, gone}], TRUE)

PhoneSoftDelete(f) ==
  /\ f \in Rows(phone.db)
  /\ PhoneEdit([phone.db EXCEPT !.trash = @ \cup {f}], TRUE)

\* The trash page writes these rows itself, without incrementLSN.
PhoneRestore(f) ==
  /\ f \in phone.db.trash
  /\ PhoneEdit([phone.db EXCEPT !.trash = @ \ {f}], FALSE)

PhoneDelete(f) ==
  /\ f \in phone.db.trash
  /\ PhoneEdit([phone.db EXCEPT !.upd[f] = 0, !.trash = @ \ {f}], FALSE)

\* setKV of a setting: an LSN step and no row.
PhoneSetting == PhoneEdit(phone.db, TRUE)

PhoneTask(t) ==
  PhoneEdit([phone.db EXCEPT !.tasks = IF t \in @ THEN @ \ {t} ELSE @ \cup {t}], FALSE)

PhoneLogout ==
  PhoneEdit([phone.db EXCEPT !.upd = EmptyDb.upd, !.trash = {}, !.tasks = {},
                             !.lsn = 0], FALSE)

PhoneIncrementLSN ==
  /\ phone.changing
  /\ phone' = [phone EXCEPT !.db.lsn = @ + 1, !.changing = FALSE]
  /\ UNCHANGED <<desktops, edits, drive, blank, breaks>>

-----------------------------------------------------------------------------
(***************************************************************************)
(* sync(): the decision.                                                   *)
(***************************************************************************)
PhoneIdle(x) == [phone EXCEPT !.db = x, !.at = "idle", !.man = NoMan, !.snap = NoDb,
                              !.old = NoDb]
PhoneGoes(s)  == phone' = s /\ UNCHANGED <<desktops, edits, blank, breaks>>
PhoneBreaks(x) ==
  /\ breaks < MaxBreaks /\ breaks' = breaks + 1
  /\ phone' = PhoneIdle(x)
  /\ UNCHANGED <<desktops, edits>>

\* The empty file is read as no JSON, and sync() throws.  A daemon takes it for
\* no manifest, as all it cannot read, and its first push fills it.
Unreadable == blank /\ drive.man = NoMan

PhoneStart ==
  /\ phone.at = "idle" /\ ~Unreadable
  /\ PhoneGoes([phone EXCEPT !.at = "decide", !.man = drive.man])
  /\ UNCHANGED drive

Bare(x) == x.lsn = 0 \/ Rows(x) = {}
\* Slip: equal LSNs are taken for equal rows.
PullsNewer(x, m) == m # NoMan /\ (Bare(x) \/ m.lsn > x.lsn)

\* Equal LSNs, different rows: the one with more rows wins.
PhonePulls(x, m) ==
  /\ m # NoMan
  /\ \/ Bare(x)
     \/ m.lsn > x.lsn
     \/ m.lsn = x.lsn /\ Hash(x) # m.hash /\ m.total > Total(x)
PhonePushes(x, m) ==
  /\ ~Bare(x)
  /\ m # NoMan => \/ x.lsn > m.lsn
                  \/ x.lsn = m.lsn /\ Hash(x) # m.hash /\ Total(x) > m.total

\* last: the phone writes MAX(last_update) as SQLite keeps it, which is not
\* RFC 3339, and so the daemon reads the year 1970.
PhoneManifest(x) ==
  [lsn |-> x.lsn + 1, hash |-> Hash(x), total |-> Total(x),
   files |-> Cardinality(Rows(x)), last |-> 0]

\* LSN, counts, time and hash are read one after the other; here, together.
PhoneDecide ==
  LET x == phone.db IN
  /\ phone.at = "decide"
  /\ \/ /\ PhonePulls(x, phone.man)
        /\ PhoneGoes([phone EXCEPT !.at = "backup"])
     \/ /\ PhonePushes(x, phone.man) /\ x.lsn < MaxLsn
        /\ PhoneGoes([phone EXCEPT !.at = "snapshot", !.man = PhoneManifest(x)])
     \/ /\ ~PhonePulls(x, phone.man) /\ (PhonePushes(x, phone.man) => x.lsn >= MaxLsn)
        /\ PhoneGoes(PhoneIdle(x))
  /\ UNCHANGED drive

-----------------------------------------------------------------------------
(***************************************************************************)
(* _performPush.                                                           *)
(***************************************************************************)
PhoneSnapshot ==
  /\ phone.at = "snapshot"
  /\ PhoneGoes([phone EXCEPT !.at = "manifest", !.snap = phone.db])
  /\ UNCHANGED drive

\* What the upload in hand makes of the Drive.
Stored == IF phone.at = "manifest" THEN [drive EXCEPT !.man = phone.man]
                                   ELSE [drive EXCEPT !.db = phone.snap]
NextUpload == IF phone.at = "manifest" THEN "upload" ELSE "verify"

PhoneUpload ==
  /\ phone.at \in {"manifest", "upload"}
  /\ phone' = [phone EXCEPT !.at = NextUpload]
  /\ drive' = Stored
  /\ UNCHANGED <<desktops, edits, blank, breaks>>

\* A file that is not there yet is created by one request and filled by the
\* next: the second may fail alone.  An empty nexus.db opens as an empty one.
Created ==
  /\ blank' = (blank \/ (phone.at = "manifest" /\ drive.man = NoMan))
  /\ drive' = IF phone.at = "upload" /\ drive.db = NoDb
              THEN [drive EXCEPT !.db = EmptyDb] ELSE drive
Ignored == UNCHANGED <<drive, blank>>
Late    == drive' = Stored /\ UNCHANGED blank

\* The status of the answer is not looked at: an upload that was refused is
\* taken for one that was stored.
PhoneUploadRefused ==
  /\ phone.at \in {"manifest", "upload"}
  /\ breaks < MaxBreaks /\ breaks' = breaks + 1
  /\ phone' = [phone EXCEPT !.at = NextUpload]
  /\ Ignored \/ Created
  /\ UNCHANGED <<desktops, edits>>

\* The connection breaks: sync() throws.
PhoneUploadFails ==
  /\ phone.at \in {"manifest", "upload"}
  /\ PhoneBreaks(phone.db)
  /\ Ignored \/ Created \/ Late

\* Only the bytes of nexus.db are compared.
PhoneVerify ==
  /\ phone.at = "verify"
  /\ PhoneGoes(IF drive.db = phone.snap THEN [phone EXCEPT !.at = "record"]
                                        ELSE PhoneIdle(phone.db))
  /\ UNCHANGED drive

\* The LSN of the decision plus one, whatever steps it has made since.
PhoneRecord ==
  /\ phone.at = "record"
  /\ PhoneGoes(PhoneIdle([phone.db EXCEPT !.lsn = phone.man.lsn]))
  /\ UNCHANGED drive

-----------------------------------------------------------------------------
(***************************************************************************)
(* _performPull.                                                           *)
(***************************************************************************)
PhoneBackup ==
  /\ phone.at = "backup"
  /\ PhoneGoes([phone EXCEPT !.at = "download", !.old = phone.db])
  /\ UNCHANGED drive

\* Slip: that there may be no nexus.db is forgotten.
DownloadAnything ==
  /\ phone.at = "download"
  /\ PhoneGoes([phone EXCEPT !.at = "replace", !.snap = drive.db])
  /\ UNCHANGED drive

PhoneDownload ==
  /\ phone.at = "download"
  /\ drive.db # NoDb
  /\ PhoneGoes([phone EXCEPT !.at = "replace", !.snap = drive.db])
  /\ UNCHANGED drive

\* "Remote manifest exists but DB file not found."
PhoneMisses ==
  /\ phone.at = "download"
  /\ drive.db = NoDb
  /\ PhoneGoes(PhoneIdle(phone.db))
  /\ UNCHANGED drive

PhoneReplace ==
  /\ phone.at = "replace"
  /\ PhoneGoes([phone EXCEPT !.at = "check", !.db = phone.snap])
  /\ UNCHANGED drive

\* Killed, or failing, between the deletion and the rename: the next access
\* creates an empty database.
PhoneLoses ==
  /\ phone.at = "replace"
  /\ PhoneBreaks(EmptyDb)
  /\ UNCHANGED <<drive, blank>>

\* Another hash than the manifest's: back to the backup.
PhoneCheck ==
  /\ phone.at = "check"
  /\ PhoneGoes(IF Hash(phone.db) = phone.man.hash THEN [phone EXCEPT !.at = "adopt"]
                                                  ELSE PhoneIdle(phone.old))
  /\ UNCHANGED drive

PhoneAdopt ==
  /\ phone.at = "adopt"
  /\ PhoneGoes(PhoneIdle([phone.db EXCEPT !.lsn = phone.man.lsn]))
  /\ UNCHANGED drive

\* A call that fails without effect.  A failure of the check rolls back.
PhoneFails ==
  /\ phone.at \notin {"idle", "manifest", "upload"}
  /\ PhoneBreaks(IF phone.at = "check" THEN phone.old ELSE phone.db)
  /\ UNCHANGED <<drive, blank>>

\* The application is killed: an LSN step to come is lost, and a database that
\* was replaced stays, checked or not.
PhoneCrash ==
  /\ phone.at # "idle" \/ phone.changing
  /\ breaks < MaxBreaks /\ breaks' = breaks + 1
  /\ phone' = [PhoneIdle(phone.db) EXCEPT !.changing = FALSE]
  /\ UNCHANGED <<desktops, edits, drive, blank>>

-----------------------------------------------------------------------------
PhoneEditStep ==
  \/ \E f, gone \in Files : PhoneSaveFile(f, gone)
  \/ \E f \in Files : PhoneSoftDelete(f) \/ PhoneRestore(f) \/ PhoneDelete(f)
  \/ \E t \in TaskIds : PhoneTask(t)
  \/ PhoneSetting \/ PhoneLogout \/ PhoneIncrementLSN

PhoneSync ==
  \/ PhoneDecide \/ PhoneSnapshot \/ PhoneUpload \/ PhoneVerify \/ PhoneRecord
  \/ PhoneBackup \/ PhoneDownload \/ PhoneMisses \/ PhoneReplace \/ PhoneCheck
  \/ PhoneAdopt

PhoneFault ==
  \/ PhoneUploadRefused \/ PhoneUploadFails \/ PhoneLoses \/ PhoneFails \/ PhoneCrash

PhoneNext == PhoneEditStep \/ PhoneStart \/ PhoneSync \/ PhoneFault

PhoneStays == UNCHANGED <<phone, blank, breaks>>

MobileNext ==
  \/ Next /\ PhoneStays
  \/ PhoneNext

MobileSpec == MobileInit /\ [][MobileNext]_allVars

\* The daemon's goroutines run on, and so does sync(), whose calls return; its
\* user asks for it again and again.
MobileFairSpec ==
  /\ MobileSpec
  /\ \A d \in Devices : /\ WF_allVars(PushStep(d) /\ PhoneStays)
                        /\ WF_allVars(PullStep(d) /\ PhoneStays)
  /\ WF_allVars(PhoneSync) /\ WF_allVars(PhoneStart)

-----------------------------------------------------------------------------
\* The phone's variables keep their types, and with them the Drive's.
MobileTypeOK ==
  /\ TypeOK
  /\ phone \in Phone
  /\ blank \in BOOLEAN
  /\ breaks \in 0..MaxBreaks

(* The breaker travels with nexus.db through the phone, which knows        *)
(* nothing of it: neither a phone that pushes back a database it pulled,   *)
(* nor one that rolls back, leaves any database suspended with fewer than  *)
(* Threshold failures counted (sync.go:680-732, sync_service.dart:280-310).*)
SuspendedEverywhere ==
  /\ SuspendedAfterFailures
  /\ phone.db.susp => phone.db.fails = Threshold

\* The manifest on Drive, if any, can be read and describes the database.
Matched ==
  /\ ~Unreadable
  /\ drive.man # NoMan => drive.db # NoDb /\ Hash(drive.db) = drive.man.hash
Resting == \A d \in Devices : pc[d] \in {"idle", "hung"}
Settled ==
  LET x == phone.db  m == drive.man IN
  \/ m = NoMan /\ Bare(x)
  \/ m # NoMan /\ Hash(x) = m.hash
  \/ m # NoMan /\ x.lsn = m.lsn /\ Total(x) = m.total  \* the conflict it reports
  \/ x.lsn >= MaxLsn                                   \* the bound

(* Once the desktops are quiet or hung, and the manifest on Drive can be   *)
(* read and describes its database, a phone that goes on synchronising, in *)
(* calls that return, comes to hold the rows of the backup, or reports a   *)
(* conflict, whatever was edited, cut or rolled back before                *)
(* (sync_service.dart:58-147).                                             *)
PhoneSettles == <>[](Matched /\ Resting) => []<>Settled
=============================================================================
