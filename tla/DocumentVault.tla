--------------------------- MODULE DocumentVault ---------------------------
(***************************************************************************)
(* Where the bytes of a case live: the document store the desktop app      *)
(* writes when a document is registered (documentStorage.ts,               *)
(* documentHandlers.ts), the read-only copy it hands out when the lawyer   *)
(* opens an original (documentOpen.ts), the backup archive (runBackup.ts)  *)
(* and the script that restores an archive into a fresh profile            *)
(* (restore-from-backup.mjs, a process of its own).                        *)
(*                                                                         *)
(* A file is its content: whole, as it was chosen; torn, while a copy is   *)
(* under way or was cut; bad, when the disk altered it; absent.  A digest  *)
(* is the content it is the digest of.  A disk may alter or lose a         *)
(* document or a database, wherever it is, at any moment, MaxDamage times, *)
(* but neither a manifest nor the record of the last backup, which only a  *)
(* death tears; the app or the restore may die at any moment, MaxCrashes   *)
(* times.  A backup that is under way awaits between    *)
(* its phases, and documents are registered and opened meanwhile; what one *)
(* synchronous stretch of code does is one action, and so is a             *)
(* verification, which reads files that only damage can change.  The audit *)
(* chains an archive carries are in CaseBoxAudit; symlinks, path names and *)
(* schema versions are left out.                                           *)
(***************************************************************************)
EXTENDS Naturals

CONSTANTS Docs,       (* ids of documents                                  *)
          Archives,   (* backup directories, one for each backup run       *)
          MaxOpens,   (* bound on the opens asked for                      *)
          MaxDamage,  (* bound on the files a disk alters or loses         *)
          MaxCrashes, (* bound on the deaths of either process             *)
          Null

ASSUME VaultAssumption ==
  /\ MaxOpens \in Nat /\ MaxDamage \in Nat /\ MaxCrashes \in Nat
  /\ Null \notin Docs \cup Archives

VARIABLES files,    (* the document store: doc -> content                  *)
          storing,  (* the registration of each document                   *)
          rows,     (* case_box_documents: doc -> content_hash             *)
          phase,    (* archive -> how far the run that makes it has come   *)
          listed,   (* archive -> the documents its manifest lists         *)
          digest,   (* archive -> the database its manifest digests     *)
          dbs,      (* archive -> the database file in it                  *)
          docs,     (* archive -> the documents in it                      *)
          manifest, (* archive -> its manifest.json                        *)
          before,   (* history: documents registered when it was asked for *)
          record,   (* the backup last recorded as verified                *)
          restore,  (* the restore under way, with its staging directory   *)
          profile,  (* the profile published by a restore                  *)
          wanted,   (* the documents asked to be opened, in that order     *)
          status,   (* open -> how far it has come                         *)
          copies,   (* open -> content of the read-only copy it made       *)
          held,     (* previousCopyDir: the open whose copy is kept, or 0  *)
          stray,    (* history: copies a crash or a failed rm left behind  *)
          damage, crashes

store == <<files, storing, rows>>
run == <<phase, listed, digest, before>>
archive == <<dbs, docs, manifest>>
backup == <<run, archive, record>>
viewer == <<wanted, status, copies, held, stray>>
vars == <<store, backup, restore, profile, viewer, damage, crashes>>

-----------------------------------------------------------------------------
Content == {"absent", "torn", "whole", "bad"}
Contents == [Docs -> Content]
Nothing == [d \in Docs |-> "absent"]

Registered(r) == {d \in Docs : r[d] # "absent"}

(* A database file: its rows, and whether its bytes are the ones written.  *)
Database == [sound: BOOLEAN, rows: Contents]
NoDatabase == [sound |-> FALSE, rows |-> Nothing]

NoRestore == [phase |-> "idle", from |-> Null, db |-> NoDatabase, docs |-> Nothing]

-----------------------------------------------------------------------------
(* Registering a document.                                                 *)

(* copyFile has created the destination and is writing it.                 *)
StartStoring(d) ==
  /\ storing[d] = "none"
  /\ storing' = [storing EXCEPT ![d] = "copying"]
  /\ files' = [files EXCEPT ![d] = "torn"]
  /\ UNCHANGED <<rows, backup, restore, profile, viewer, damage, crashes>>

FinishStoring(d) ==
  /\ storing[d] = "copying"
  /\ storing' = [storing EXCEPT ![d] = "copied"]
  /\ files' = [files EXCEPT ![d] = "whole"]
  /\ UNCHANGED <<rows, backup, restore, profile, viewer, damage, crashes>>

(* The digest is that of the destination, read once the copy has ended.    *)
RegisterDocument(d) ==
  /\ storing[d] = "copied" /\ files[d] # "absent"
  /\ storing' = [storing EXCEPT ![d] = "ended"]
  /\ rows' = [rows EXCEPT ![d] = files[d]]
  /\ UNCHANGED <<files, backup, restore, profile, viewer, damage, crashes>>

RegistrationFailsWithRow(d) ==  \* mutant: the row is written although the copy failed
  /\ storing[d] \in {"copying", "copied"}
  /\ storing' = [storing EXCEPT ![d] = "ended"]
  /\ rows' = [rows EXCEPT ![d] = files[d]]
  /\ UNCHANGED <<files, backup, restore, profile, viewer, damage, crashes>>

(* The copy fails, or the row is refused: the file stays, with no row.     *)
RegistrationFails(d) ==
  /\ storing[d] \in {"copying", "copied"}
  /\ storing' = [storing EXCEPT ![d] = "ended"]
  /\ UNCHANGED <<files, rows, backup, restore, profile, viewer, damage, crashes>>

-----------------------------------------------------------------------------
(* Backup.                                                                 *)

BeginBackup(a) ==
  /\ phase[a] = "none"
  /\ phase' = [phase EXCEPT ![a] = "begun"]
  /\ before' = [before EXCEPT ![a] = Registered(rows)]
  /\ UNCHANGED <<store, listed, digest, archive, record, restore, profile, viewer, damage, crashes>>

DocumentsFirst ==  \* mutant: the documents are copied before the database
  [snapshot |-> [from |-> "copied", to |-> "complete"], copy |-> [from |-> "begun", to |-> "copied"]]

(* The database first, the documents second.                               *)
Order ==
  [snapshot |-> [from |-> "begun", to |-> "copied"], copy |-> [from |-> "copied", to |-> "complete"]]

(* db.backup copies the pages of the live database over several turns and  *)
(* ends with its rows at the last of them.                                 *)
Snapshot(a) ==
  /\ phase[a] = Order.snapshot.from
  /\ phase' = [phase EXCEPT ![a] = Order.snapshot.to]
  /\ dbs' = [dbs EXCEPT ![a] = [sound |-> TRUE, rows |-> rows]]
  /\ UNCHANGED <<store, listed, digest, before, docs, manifest, record, restore, profile, viewer,
                 damage, crashes>>

(* Every file there is, torn ones and orphans too; the manifest will list  *)
(* the digests of the bytes that were read.                                *)
CopyDocuments(a) ==
  /\ phase[a] = Order.copy.from
  /\ phase' = [phase EXCEPT ![a] = Order.copy.to]
  /\ listed' = [listed EXCEPT ![a] = files]
  /\ docs' = [docs EXCEPT ![a] = files]
  /\ UNCHANGED <<store, digest, before, dbs, manifest, record, restore, profile, viewer, damage, crashes>>

(* No drive, no room, a drive pulled out: the directory stays as it is.    *)
BackupFails(a) ==
  /\ phase[a] \in {"begun", "copied", "complete"}
  /\ phase' = [phase EXCEPT ![a] = "failed"]
  /\ UNCHANGED <<store, listed, digest, before, archive, record, restore, profile, viewer, damage, crashes>>

(* What a directory holds, database db and documents kept, agrees with     *)
(* itself and with the manifest of archive a: verifyBackup and             *)
(* verifyArchive find nothing.                                             *)
Agrees(db, kept, dg, a) ==
  /\ db.sound /\ db = dg
  /\ \A d \in Registered(db.rows) : kept[d] = db.rows[d] /\ listed[a][d] = db.rows[d]
  /\ \A d \in Docs : listed[a][d] # "absent" => kept[d] = listed[a][d]

(* The manifest is made of the digest of the archived database as it is    *)
(* now and of the digests listed while copying.                            *)
VerifyBackup(a) ==
  /\ phase[a] = "complete"
  /\ digest' = [digest EXCEPT ![a] = dbs[a]]
  /\ phase' = [phase EXCEPT ![a] = IF Agrees(dbs[a], docs[a], dbs[a], a)
                                   THEN "verified" ELSE "verification_failed"]
  /\ UNCHANGED <<store, listed, before, archive, record, restore, profile, viewer, damage, crashes>>

WriteManifest(a) ==
  /\ phase[a] = "verified"
  /\ phase' = [phase EXCEPT ![a] = "written"]
  /\ manifest' = [manifest EXCEPT ![a] = "whole"]
  /\ UNCHANGED <<store, listed, digest, before, dbs, docs, record, restore, profile, viewer,
                 damage, crashes>>

(* An exception nobody catches; part of the file may be left.              *)
ManifestFails(a) ==
  /\ phase[a] = "verified"
  /\ phase' = [phase EXCEPT ![a] = "failed"]
  /\ \E left \in {"absent", "torn"} : manifest' = [manifest EXCEPT ![a] = left]
  /\ UNCHANGED <<store, listed, digest, before, dbs, docs, record, restore, profile, viewer,
                 damage, crashes>>

(* A record half written reads as no backup.                               *)
SaveRecord(a) ==
  /\ phase[a] = "written"
  /\ phase' = [phase EXCEPT ![a] = "ended"]
  /\ record' \in {a, record, Null}
  /\ UNCHANGED <<store, listed, digest, before, archive, restore, profile, viewer, damage, crashes>>

-----------------------------------------------------------------------------
(* Restore: a process of its own, of any archive at any time.  The one     *)
(* destination is empty until a restore publishes into it.                 *)

(* An archive without a manifest that can be read is refused.              *)
BeginRestore(a) ==
  /\ restore.phase = "idle"
  /\ manifest[a] = "whole"
  /\ restore' = [phase |-> "read", from |-> a, db |-> NoDatabase, docs |-> Nothing]
  /\ UNCHANGED <<store, backup, profile, viewer, damage, crashes>>

(* The archive is verified against its manifest and the destination looked *)
(* at; any finding ends the restore.                                       *)
VerifyArchive(a) ==
  /\ restore.phase = "read" /\ restore.from = a
  /\ restore' = IF Agrees(dbs[a], docs[a], digest[a], a) /\ profile = Null
                THEN [phase |-> "verified", from |-> a, db |-> NoDatabase, docs |-> Nothing]
                ELSE NoRestore
  /\ UNCHANGED <<store, backup, profile, viewer, damage, crashes>>

(* The files of archive a that its manifest lists.                         *)
ToCopy(a) == {d \in Docs : listed[a][d] # "absent"}

Staged(a, db, kept) == [phase |-> "staged", from |-> a, db |-> db, docs |-> kept]

(* A file that is gone ends the restore.                                   *)
CopyToStaging(a) ==
  /\ restore.phase = "verified" /\ restore.from = a
  /\ restore' = IF \E d \in ToCopy(a) : docs[a][d] = "absent" THEN NoRestore
                ELSE Staged(a, dbs[a], [d \in Docs |-> IF d \in ToCopy(a) THEN docs[a][d] ELSE "absent"])
  /\ UNCHANGED <<store, backup, profile, viewer, damage, crashes>>

StagingTrusted(a) ==  \* mutant: what was written to staging is not verified
  TRUE

(* What was written is verified against the manifest read at the start.    *)
StagingVerified(a) == Agrees(restore.db, restore.docs, digest[a], a)

(* One rename makes the staging directory the profile, or it is removed.   *)
Publish(a) ==
  /\ restore.phase = "staged" /\ restore.from = a
  /\ profile' = IF StagingVerified(a) /\ profile = Null
                THEN [from |-> a, rows |-> restore.db.rows, docs |-> restore.docs]
                ELSE profile
  /\ restore' = NoRestore
  /\ UNCHANGED <<store, backup, viewer, damage, crashes>>

-----------------------------------------------------------------------------
(* Opening an original.                                                    *)

Finished == {"ok", "refused", "lost"}

RunsWhenItLikes(k) ==  \* mutant: opens are not queued
  status[k] \notin Finished

(* An open runs when every earlier one has ended.                          *)
AtHead(k) ==
  /\ status[k] \notin Finished
  /\ \A j \in 1..k - 1 : status[j] \in Finished

AskOpen(k, d) ==
  /\ status[k] = "unasked" /\ \A j \in 1..k - 1 : status[j] # "unasked"
  /\ wanted' = [wanted EXCEPT ![k] = d]
  /\ status' = [status EXCEPT ![k] = "asked"]
  /\ UNCHANGED <<store, backup, restore, profile, copies, held, stray, damage, crashes>>

EndOpen(k, result) == status' = [status EXCEPT ![k] = result] /\ wanted' = wanted

(* The row is looked up and the stored file verified against it.           *)
VerifyOriginal(k) ==
  LET d == wanted[k]
  IN /\ status[k] = "asked" /\ AtHead(k)
     /\ EndOpen(k, IF d \in Registered(rows) /\ files[d] = rows[d] THEN "verified" ELSE "refused")
     /\ UNCHANGED <<store, backup, restore, profile, copies, held, stray, damage, crashes>>

(* The bytes are hashed as they are copied into a directory of their own.  *)
CopyOriginal(k) ==
  LET d == wanted[k]
  IN /\ status[k] = "verified" /\ AtHead(k)
     /\ files[d] = rows[d]
     /\ EndOpen(k, "copied")
     /\ copies' = [copies EXCEPT ![k] = files[d]]
     /\ UNCHANGED <<store, backup, restore, profile, held, stray, damage, crashes>>

(* A copy that cannot be finished or has another digest is discarded; the  *)
(* removal may fail, which nobody reports.                                 *)
CopyFails(k) ==
  /\ status[k] = "verified" /\ AtHead(k)
  /\ EndOpen(k, "refused")
  /\ \E left \in {"absent", files[wanted[k]]} :
       /\ copies' = [copies EXCEPT ![k] = left]
       /\ stray' = IF left = "absent" THEN stray ELSE stray \cup {k}
  /\ UNCHANGED <<store, backup, restore, profile, held, damage, crashes>>

(* The copies in C are removed, or they are not and stay.                  *)
Discard(C) ==
  \E removed \in SUBSET C :
    /\ copies' = [k \in 1..MaxOpens |-> IF k \in removed THEN "absent" ELSE copies[k]]
    /\ stray' = stray \cup (C \ removed)

(* The copy has been shown: it is held, and the one held before goes.      *)
RevealSucceeds(k) ==
  /\ status[k] = "copied" /\ AtHead(k)
  /\ EndOpen(k, "ok")
  /\ held' = k
  /\ Discard({held} \ {0})
  /\ UNCHANGED <<store, backup, restore, profile, damage, crashes>>

RevealFails(k) ==
  /\ status[k] = "copied" /\ AtHead(k)
  /\ EndOpen(k, "refused")
  /\ Discard({k})
  /\ UNCHANGED <<store, backup, restore, profile, held, damage, crashes>>

-----------------------------------------------------------------------------
(* Damage and death.  A document of the store, of an archive or of staging *)
(* is altered or lost, or a database is; manifests and the record are not  *)
(* damaged.                                                                *)

Altered(content) == IF content = "absent" THEN {} ELSE {"bad", "absent"} \ {content}

DamageStore(d) ==
  /\ damage < MaxDamage /\ damage' = damage + 1
  /\ \E c \in Altered(files[d]) : files' = [files EXCEPT ![d] = c]
  /\ UNCHANGED <<storing, rows, backup, restore, profile, viewer, crashes>>

DamageArchive(a) ==
  /\ damage < MaxDamage /\ damage' = damage + 1
  /\ \E d \in Docs : \E c \in Altered(docs[a][d]) :
       docs' = [docs EXCEPT ![a] = [docs[a] EXCEPT ![d] = c]]
  /\ UNCHANGED <<store, run, dbs, manifest, record, restore, profile, viewer, crashes>>

DamageDatabase(a) ==
  /\ damage < MaxDamage /\ damage' = damage + 1
  /\ dbs[a].sound
  /\ dbs' = [dbs EXCEPT ![a] = [sound |-> FALSE, rows |-> dbs[a].rows]]
  /\ UNCHANGED <<store, run, docs, manifest, record, restore, profile, viewer, crashes>>

(* The medium keeps something else than it was given.                      *)
DamageStaging ==
  /\ damage < MaxDamage /\ damage' = damage + 1
  /\ restore.phase = "staged"
  /\ \/ \E d \in Docs : \E c \in Altered(restore.docs[d]) :
          restore' = Staged(restore.from, restore.db, [restore.docs EXCEPT ![d] = c])
     \/ /\ restore.db.sound
        /\ restore' = Staged(restore.from, [sound |-> FALSE, rows |-> restore.db.rows], restore.docs)
  /\ UNCHANGED <<store, backup, profile, viewer, crashes>>

(* The app dies.  A file being copied stays torn; a backup stops where it  *)
(* is, in the middle of writing the manifest perhaps, or of the record,    *)
(* which then reads as no backup; the copies handed out stay and are       *)
(* forgotten.                                                              *)
Crash ==
  /\ crashes < MaxCrashes
  /\ crashes' = crashes + 1
  /\ storing' = [d \in Docs |-> IF storing[d] = "none" THEN "none" ELSE "ended"]
  /\ phase' = [a \in Archives |-> IF phase[a] = "none" THEN "none" ELSE "ended"]
  /\ \E torn \in SUBSET {a \in Archives : phase[a] = "verified"} :
       manifest' = [a \in Archives |-> IF a \in torn THEN "torn" ELSE manifest[a]]
  /\ \/ record' = record
     \/ (\E a \in Archives : phase[a] = "written") /\ record' = Null
  /\ status' = [k \in 1..MaxOpens |-> IF status[k] = "unasked" THEN "unasked" ELSE "lost"]
  /\ held' = 0
  /\ stray' = {k \in 1..MaxOpens : copies[k] # "absent"}
  /\ UNCHANGED <<files, rows, listed, digest, before, dbs, docs, restore, profile, wanted, copies, damage>>

(* The restore dies; its staging directory stays and is never looked at.   *)
CrashRestore ==
  /\ crashes < MaxCrashes
  /\ restore.phase # "idle"
  /\ crashes' = crashes + 1
  /\ restore' = NoRestore
  /\ UNCHANGED <<store, backup, profile, viewer, damage>>

-----------------------------------------------------------------------------
Init ==
  /\ files = Nothing /\ rows = Nothing /\ storing = [d \in Docs |-> "none"]
  /\ phase = [a \in Archives |-> "none"] /\ before = [a \in Archives |-> {}]
  /\ listed = [a \in Archives |-> Nothing] /\ digest = [a \in Archives |-> NoDatabase]
  /\ dbs = [a \in Archives |-> NoDatabase] /\ docs = [a \in Archives |-> Nothing]
  /\ manifest = [a \in Archives |-> "absent"]
  /\ record = Null /\ restore = NoRestore /\ profile = Null
  /\ wanted = [k \in 1..MaxOpens |-> Null] /\ status = [k \in 1..MaxOpens |-> "unasked"]
  /\ copies = [k \in 1..MaxOpens |-> "absent"] /\ held = 0 /\ stray = {}
  /\ damage = 0 /\ crashes = 0

Register == \E d \in Docs : StartStoring(d) \/ FinishStoring(d) \/ RegisterDocument(d) \/ RegistrationFails(d)

Backup ==
  \E a \in Archives : BeginBackup(a) \/ Snapshot(a) \/ CopyDocuments(a) \/ BackupFails(a)
                       \/ VerifyBackup(a) \/ WriteManifest(a) \/ ManifestFails(a) \/ SaveRecord(a)

Restore ==
  \E a \in Archives : BeginRestore(a) \/ VerifyArchive(a) \/ CopyToStaging(a) \/ Publish(a)

Open ==
  \E k \in 1..MaxOpens :
    \/ \E d \in Docs : AskOpen(k, d)
    \/ VerifyOriginal(k) \/ CopyOriginal(k) \/ CopyFails(k) \/ RevealSucceeds(k) \/ RevealFails(k)

Damage ==
  \/ \E d \in Docs : DamageStore(d)
  \/ \E a \in Archives : DamageArchive(a) \/ DamageDatabase(a)
  \/ DamageStaging

Next == Register \/ Backup \/ Restore \/ Open \/ Damage \/ Crash \/ CrashRestore

Spec == Init /\ [][Next]_vars

-----------------------------------------------------------------------------
(* Properties.                                                             *)

TypeOK ==
  /\ files \in Contents /\ rows \in Contents
  /\ storing \in [Docs -> {"none", "copying", "copied", "ended"}]
  /\ phase \in [Archives -> {"none", "begun", "copied", "complete", "failed", "verified",
                            "verification_failed", "written", "ended"}]
  /\ before \in [Archives -> SUBSET Docs]
  /\ listed \in [Archives -> Contents] /\ digest \in [Archives -> Database]
  /\ dbs \in [Archives -> Database] /\ docs \in [Archives -> Contents]
  /\ manifest \in [Archives -> {"absent", "torn", "whole"}]
  /\ record \in Archives \cup {Null}
  /\ restore \in [phase: {"idle", "read", "verified", "staged"}, from: Archives \cup {Null},
                  db: Database, docs: Contents]
  /\ profile \in {Null} \cup [from: Archives, rows: Contents, docs: Contents]
  /\ wanted \in [1..MaxOpens -> Docs \cup {Null}]
  /\ status \in [1..MaxOpens -> {"unasked", "asked", "verified", "copied"} \cup Finished]
  /\ \A k \in 1..MaxOpens : status[k] # "unasked" => wanted[k] \in Docs
  /\ copies \in [1..MaxOpens -> Content] /\ held \in 0..MaxOpens /\ stray \subseteq 1..MaxOpens
  /\ damage \in 0..MaxDamage /\ crashes \in 0..MaxCrashes
  /\ \A d \in Docs : rows[d] \in {"absent", "whole", "bad"}

(* A backup never fails its own verification over a store and an archive   *)
(* no disk has touched, whatever is registered, cut short by a crash or    *)
(* refused while it runs; and the backup the app says it has is one whose  *)
(* manifest was written (runBackup's order of database and documents,      *)
(* storeDocumentFile's digest of the destination, backupRunHandler).       *)
BackupIsHonest ==
  /\ damage = 0 => \A a \in Archives : phase[a] # "verification_failed"
  /\ record # Null => manifest[record] = "whole"

(* A profile a restore has published opens complete: it holds every        *)
(* document that was registered when the backup was asked for, and the     *)
(* bytes of each row are the bytes registered - though files are altered   *)
(* or lost in the store, in the archive before, between and after the      *)
(* verifications, and on the way to staging, and either process may die at *)
(* any moment (verifyBackup, restoreFromBackup).                           *)
RestoredIsComplete ==
  profile # Null =>
    /\ before[profile.from] \subseteq Registered(profile.rows)
    /\ \A d \in Registered(profile.rows) :
         profile.rows[d] = rows[d] /\ profile.docs[d] = rows[d]

(* Of the documents opened, the copy of the one asked for last is there    *)
(* and holds the registered bytes, however long an earlier open took; and  *)
(* every other copy on the disk is still being shown, or a crash or a      *)
(* failed removal left it (openRegisteredOriginal, runOpen).               *)
LatestCopyKept ==
  LET shown == {k \in 1..MaxOpens : status[k] = "ok"}
  IN /\ \A k \in shown : (\A j \in shown : j <= k) => copies[k] = rows[wanted[k]]
     /\ \A k \in 1..MaxOpens : copies[k] # "absent" =>
          k = held \/ k \in stray \/ status[k] = "copied"
=============================================================================
