------------------------ MODULE DocumentVaultProofs ------------------------
(***************************************************************************)
(* Proofs about DocumentVault, for every set of documents and archives and *)
(* every number of opens, damaged files and crashes: the types, and the    *)
(* three properties the run checks.                                        *)
(*                                                                         *)
(* What a published profile holds goes back to the snapshot it came from,  *)
(* through the digest in the manifest; so the invariant follows the rows   *)
(* along that way.  A snapshot covers what was registered when the backup  *)
(* was asked for and agrees with the live rows, which never change once    *)
(* written; the digest of a manifest is the one of such a snapshot and     *)
(* stays as it is; a restore only ever works under a whole manifest, and   *)
(* publishes only what agrees with it.                                     *)
(***************************************************************************)
EXTENDS DocumentVault, TLAPS

-----------------------------------------------------------------------------
(* The inductive invariant.                                                *)

RowsAreFinal ==
  \A d \in Docs : storing[d] \in {"none", "copying", "copied"} => rows[d] = "absent"

BeforeIsRegistered ==
  \A a \in Archives, d \in Docs : d \in before[a] => rows[d] # "absent"

Covers(a, db) ==
  \A d \in Docs : /\ d \in before[a] => db.rows[d] # "absent"
                  /\ db.rows[d] # "absent" => db.rows[d] = rows[d]

SnapshotCovers ==
  \A a \in Archives : phase[a] \in {"copied", "complete"} => Covers(a, dbs[a])

ManifestCovers ==
  \A a \in Archives : phase[a] = "verified" \/ manifest[a] = "whole" =>
                        Covers(a, digest[a])

ManifestIsLast ==
  \A a \in Archives : /\ manifest[a] = "whole" => phase[a] \in {"written", "ended"}
                      /\ phase[a] = "written" => manifest[a] = "whole"

Whole(a) == a \in Archives /\ manifest[a] = "whole"

ReadersHaveManifest ==
  /\ restore.phase # "idle" => Whole(restore.from)
  /\ profile # Null => Whole(profile.from)
  /\ record # Null => Whole(record)

StoreIntact ==
  damage = 0 => \A d \in Docs : rows[d] # "absent" => files[d] = rows[d]

ArchivesIntact ==
  damage = 0 => \A a \in Archives :
    /\ phase[a] # "verification_failed"
    /\ phase[a] \in {"copied", "complete"} => dbs[a].sound
    /\ phase[a] = "complete" =>
         /\ docs[a] = listed[a]
         /\ \A d \in Docs : dbs[a].rows[d] # "absent" => listed[a][d] = rows[d]

VaultInv ==
  /\ RowsAreFinal /\ BeforeIsRegistered /\ SnapshotCovers /\ ManifestCovers /\ ManifestIsLast
  /\ ReadersHaveManifest /\ StoreIntact /\ ArchivesIntact /\ RestoredIsComplete

(* Opens are asked for in order, one runs at a time, and the copy held is  *)
(* that of the last one shown.                                             *)
OpensInOrder ==
  \A j, k \in 1..MaxOpens : j < k =>
    /\ status[j] = "unasked" => status[k] = "unasked"
    /\ status[j] \notin Finished => status[k] \in {"unasked", "asked"}

HeldIsLatest ==
  /\ \A k \in 1..MaxOpens : status[k] = "ok" => k <= held
  /\ held # 0 => status[held] = "ok"

CopyIsRegistered ==
  \A k \in 1..MaxOpens : (k = held \/ status[k] = "copied") =>
    copies[k] = rows[wanted[k]] /\ rows[wanted[k]] # "absent"

CopiesAccounted ==
  \A k \in 1..MaxOpens : copies[k] # "absent" =>
    k = held \/ k \in stray \/ status[k] = "copied"

VerifiedIsRegistered ==
  \A k \in 1..MaxOpens : status[k] = "verified" => rows[wanted[k]] # "absent"

ViewerInv ==
  OpensInOrder /\ HeldIsLatest /\ CopyIsRegistered /\ CopiesAccounted /\ VerifiedIsRegistered

-----------------------------------------------------------------------------
(* Types.                                                                  *)

(* A copy that has ended is not torn: what makes the last conjunct of      *)
(* TypeOK inductive.                                                       *)
TypeInv == TypeOK /\ \A d \in Docs : storing[d] = "copied" => files[d] # "torn"

LEMMA TypeInit == Init => TypeInv
BY VaultAssumption
   DEF Init, TypeInv, TypeOK, Content, Contents, Nothing, Database, NoDatabase, NoRestore, Finished

LEMMA TypeStep == TypeInv /\ [Next]_vars => TypeInv'
<1> SUFFICES ASSUME TypeInv, [Next]_vars PROVE TypeInv'
  OBVIOUS
<1> USE VaultAssumption DEF TypeInv, TypeOK, Content, Contents, Database, Finished
<1>1. ASSUME NEW d \in Docs, StartStoring(d) PROVE TypeInv'
  BY <1>1 DEF StartStoring, backup, run, archive, viewer
<1>2. ASSUME NEW d \in Docs, FinishStoring(d) PROVE TypeInv'
  BY <1>2 DEF FinishStoring, backup, run, archive, viewer
<1>3. ASSUME NEW d \in Docs, RegisterDocument(d) PROVE TypeInv'
  BY <1>3 DEF RegisterDocument, backup, run, archive, viewer
<1>4. ASSUME NEW d \in Docs, RegistrationFails(d) PROVE TypeInv'
  BY <1>4 DEF RegistrationFails, backup, run, archive, viewer
<1>5. ASSUME NEW a \in Archives, BeginBackup(a) PROVE TypeInv'
  BY <1>5 DEF BeginBackup, Registered, store, archive, viewer
<1>6. ASSUME NEW a \in Archives, Snapshot(a) PROVE TypeInv'
  BY <1>6 DEF Snapshot, Order, store, viewer
<1>7. ASSUME NEW a \in Archives, CopyDocuments(a) PROVE TypeInv'
  BY <1>7 DEF CopyDocuments, Order, store, viewer
<1>8. ASSUME NEW a \in Archives, BackupFails(a) PROVE TypeInv'
  BY <1>8 DEF BackupFails, store, archive, viewer
<1>9. ASSUME NEW a \in Archives, VerifyBackup(a) PROVE TypeInv'
  BY <1>9 DEF VerifyBackup, store, archive, viewer
<1>10. ASSUME NEW a \in Archives, WriteManifest(a) PROVE TypeInv'
  BY <1>10 DEF WriteManifest, store, viewer
<1>11. ASSUME NEW a \in Archives, ManifestFails(a) PROVE TypeInv'
  BY <1>11 DEF ManifestFails, store, viewer
<1>12. ASSUME NEW a \in Archives, SaveRecord(a) PROVE TypeInv'
  BY <1>12 DEF SaveRecord, store, archive, viewer
<1>13. ASSUME NEW a \in Archives, BeginRestore(a) PROVE TypeInv'
  BY <1>13 DEF BeginRestore, NoDatabase, Nothing, store, backup, run, archive, viewer
<1>14. ASSUME NEW a \in Archives, VerifyArchive(a) PROVE TypeInv'
  BY <1>14 DEF VerifyArchive, NoRestore, NoDatabase, Nothing, store, backup, run, archive, viewer
<1>15. ASSUME NEW a \in Archives, CopyToStaging(a) PROVE TypeInv'
  BY <1>15 DEF CopyToStaging, Staged, NoRestore, NoDatabase, Nothing, store, backup, run, archive, viewer
<1>16. ASSUME NEW a \in Archives, Publish(a) PROVE TypeInv'
  BY <1>16 DEF Publish, NoRestore, NoDatabase, Nothing, store, backup, run, archive, viewer
<1>17. ASSUME NEW k \in 1..MaxOpens, NEW d \in Docs, AskOpen(k, d) PROVE TypeInv'
  BY <1>17 DEF AskOpen, store, backup, run, archive
<1>18. ASSUME NEW k \in 1..MaxOpens, VerifyOriginal(k) PROVE TypeInv'
  BY <1>18 DEF VerifyOriginal, EndOpen, store, backup, run, archive
<1>19. ASSUME NEW k \in 1..MaxOpens, CopyOriginal(k) PROVE TypeInv'
  BY <1>19 DEF CopyOriginal, EndOpen, store, backup, run, archive
<1>20. ASSUME NEW k \in 1..MaxOpens, CopyFails(k) PROVE TypeInv'
  <2>1. wanted[k] \in Docs /\ files[wanted[k]] \in Content
    BY <1>20 DEF CopyFails
  <2>2. copies' \in [1..MaxOpens -> Content] /\ stray' \subseteq 1..MaxOpens
    BY <1>20, <2>1 DEF CopyFails
  <2> QED BY <1>20, <2>2 DEF CopyFails, EndOpen, store, backup, run, archive
<1>21. ASSUME NEW k \in 1..MaxOpens, RevealSucceeds(k) PROVE TypeInv'
  BY <1>21 DEF RevealSucceeds, EndOpen, Discard, store, backup, run, archive
<1>22. ASSUME NEW k \in 1..MaxOpens, RevealFails(k) PROVE TypeInv'
  BY <1>22 DEF RevealFails, EndOpen, Discard, store, backup, run, archive
<1>23. ASSUME NEW d \in Docs, DamageStore(d) PROVE TypeInv'
  BY <1>23 DEF DamageStore, Altered, backup, run, archive, viewer
<1>24. ASSUME NEW a \in Archives, DamageArchive(a) PROVE TypeInv'
  BY <1>24 DEF DamageArchive, Altered, store, run, viewer
<1>25. ASSUME NEW a \in Archives, DamageDatabase(a) PROVE TypeInv'
  BY <1>25 DEF DamageDatabase, store, run, viewer
<1>26. CASE DamageStaging
  <2>1. restore.from \in Archives \cup {Null} /\ restore.db \in Database /\ restore.docs \in Contents
    OBVIOUS
  <2>2. ASSUME NEW d \in Docs, NEW c \in Altered(restore.docs[d]),
               restore' = Staged(restore.from, restore.db, [restore.docs EXCEPT ![d] = c])
        PROVE  TypeInv'
    <3>1. [restore.docs EXCEPT ![d] = c] \in Contents
      BY <2>1, <2>2 DEF Altered
    <3>2. restore' \in [phase: {"idle", "read", "verified", "staged"}, from: Archives \cup {Null},
                         db: Database, docs: Contents]
      BY <2>1, <2>2, <3>1 DEF Staged
    <3> QED BY <1>26, <3>2 DEF DamageStaging, store, backup, run, archive, viewer
  <2>3. ASSUME restore' = Staged(restore.from, [sound |-> FALSE, rows |-> restore.db.rows],
                                 restore.docs)
        PROVE  TypeInv'
    <3>1. restore' \in [phase: {"idle", "read", "verified", "staged"}, from: Archives \cup {Null},
                         db: Database, docs: Contents]
      BY <2>1, <2>3 DEF Staged
    <3> QED BY <1>26, <3>1 DEF DamageStaging, store, backup, run, archive, viewer
  <2> QED BY <1>26, <2>2, <2>3 DEF DamageStaging
<1>27. CASE Crash
  BY <1>27 DEF Crash
<1>28. CASE CrashRestore
  BY <1>28 DEF CrashRestore, NoRestore, NoDatabase, Nothing, store, backup, run, archive, viewer
<1>29. CASE UNCHANGED vars
  BY <1>29 DEF vars, store, backup, run, archive, viewer
<1> QED
  BY <1>1, <1>2, <1>3, <1>4, <1>5, <1>6, <1>7, <1>8, <1>9, <1>10, <1>11, <1>12, <1>13, <1>14, <1>15,
     <1>16, <1>17, <1>18, <1>19, <1>20, <1>21, <1>22, <1>23, <1>24, <1>25, <1>26, <1>27, <1>28,
     <1>29
     DEF Next, Register, Backup, Restore, Open, Damage

(* Every variable keeps its type, whatever registers, backs up, restores,  *)
(* opens, is damaged or dies: in particular no row ever records the digest *)
(* of a copy that was cut short (storeDocumentFile hashes the destination  *)
(* only when the copy has ended).                                          *)
THEOREM TypeCorrect == Spec => []TypeOK
<1>1. TypeInv => TypeOK
  BY DEF TypeInv
<1> QED BY <1>1, TypeInit, TypeStep, PTL DEF Spec

-----------------------------------------------------------------------------
(* The vault.                                                              *)

LEMMA VaultInit == Init => VaultInv
BY VaultAssumption
   DEF Init, VaultInv, RowsAreFinal, BeforeIsRegistered, SnapshotCovers, ManifestCovers, ManifestIsLast,
       ReadersHaveManifest, StoreIntact, ArchivesIntact, RestoredIsComplete, NoRestore, Nothing

LEMMA VaultStep == TypeInv /\ VaultInv /\ [Next]_vars => VaultInv'
<1> SUFFICES ASSUME TypeInv, VaultInv, [Next]_vars PROVE VaultInv'
  OBVIOUS
<1> USE VaultAssumption DEF TypeInv, TypeOK, Contents, Database, VaultInv
<1>1. ASSUME NEW d \in Docs, StartStoring(d) PROVE VaultInv'
  <2>1. RowsAreFinal'
    BY <1>1 DEF RowsAreFinal, StartStoring, backup, run, archive
  <2>2. StoreIntact'
    BY <1>1 DEF StoreIntact, RowsAreFinal, StartStoring, backup, run, archive
  <2> QED
    BY <1>1, <2>1, <2>2 DEF BeforeIsRegistered, SnapshotCovers, Covers, ManifestCovers,
       ManifestIsLast, ReadersHaveManifest, Whole, ArchivesIntact, RestoredIsComplete, Registered,
       StartStoring, backup, run, archive
<1>2. ASSUME NEW d \in Docs, FinishStoring(d) PROVE VaultInv'
  <2>1. RowsAreFinal'
    BY <1>2 DEF RowsAreFinal, FinishStoring, backup, run, archive
  <2>2. StoreIntact'
    BY <1>2 DEF StoreIntact, RowsAreFinal, FinishStoring, backup, run, archive
  <2> QED
    BY <1>2, <2>1, <2>2 DEF BeforeIsRegistered, SnapshotCovers, Covers, ManifestCovers,
       ManifestIsLast, ReadersHaveManifest, Whole, ArchivesIntact, RestoredIsComplete, Registered,
       FinishStoring, backup, run, archive
<1>3. ASSUME NEW d \in Docs, RegisterDocument(d) PROVE VaultInv'
  <2>1. /\ rows[d] = "absent" /\ rows' = [rows EXCEPT ![d] = files[d]]
        /\ UNCHANGED <<backup, files, profile, damage>>
    BY <1>3 DEF RegisterDocument, RowsAreFinal
  <2>2. RowsAreFinal'
    BY <1>3 DEF RowsAreFinal, RegisterDocument, backup, run, archive
  <2>3. BeforeIsRegistered'
    BY <2>1 DEF BeforeIsRegistered, backup, run, archive
  <2>4. SnapshotCovers'
    BY <2>1 DEF SnapshotCovers, Covers, backup, run, archive
  <2>5. ManifestCovers'
    BY <2>1 DEF ManifestCovers, Covers, backup, run, archive
  <2>6. StoreIntact'
    BY <2>1 DEF StoreIntact, backup, run, archive
  <2>7. ArchivesIntact'
    BY <2>1 DEF ArchivesIntact, SnapshotCovers, Covers, backup, run, archive
  <2>8. RestoredIsComplete'
    BY <2>1 DEF RestoredIsComplete, Registered, backup, run, archive
  <2> QED
    BY <1>3, <2>2, <2>3, <2>4, <2>5, <2>6, <2>7, <2>8 DEF ManifestIsLast, ReadersHaveManifest,
       Whole, RegisterDocument, backup, run, archive
<1>4. ASSUME NEW d \in Docs, RegistrationFails(d) PROVE VaultInv'
  <2>1. RowsAreFinal'
    BY <1>4 DEF RowsAreFinal, RegistrationFails, backup, run, archive
  <2> QED
    BY <1>4, <2>1 DEF BeforeIsRegistered, SnapshotCovers, Covers, ManifestCovers, ManifestIsLast,
       ReadersHaveManifest, Whole, StoreIntact, ArchivesIntact, RestoredIsComplete, Registered,
       RegistrationFails, backup, run, archive
<1>5. ASSUME NEW a \in Archives, BeginBackup(a) PROVE VaultInv'
  <2>1. BeforeIsRegistered'
    BY <1>5 DEF BeforeIsRegistered, Registered, BeginBackup, store, archive
  <2>2. SnapshotCovers'
    BY <1>5 DEF SnapshotCovers, Covers, BeginBackup, store, archive
  <2>3. ManifestCovers'
    <3>1. phase'[a] # "verified" /\ manifest[a] # "whole" /\ UNCHANGED <<digest, manifest, rows>>
      BY <1>5 DEF ManifestIsLast, BeginBackup, store, archive
    <3>2. \A b \in Archives \ {a} : before'[b] = before[b] /\ phase'[b] = phase[b]
      BY <1>5 DEF BeginBackup
    <3> QED BY <3>1, <3>2 DEF ManifestCovers, Covers
  <2>4. ManifestIsLast'
    BY <1>5 DEF ManifestIsLast, BeginBackup, store, archive
  <2>5. ArchivesIntact'
    BY <1>5 DEF ArchivesIntact, BeginBackup, store, archive
  <2>6. RestoredIsComplete'
    <3>1. profile # Null => profile.from \in Archives /\ profile.from # a
      BY <1>5 DEF ReadersHaveManifest, Whole, ManifestIsLast, BeginBackup
    <3>2. UNCHANGED <<profile, rows>> /\ \A b \in Archives \ {a} : before'[b] = before[b]
      BY <1>5 DEF BeginBackup, store
    <3> QED BY <3>1, <3>2 DEF RestoredIsComplete, Registered
  <2> QED
    BY <1>5, <2>1, <2>2, <2>3, <2>4, <2>5, <2>6 DEF RowsAreFinal, ReadersHaveManifest, Whole,
       StoreIntact, BeginBackup, store, archive
<1>6. ASSUME NEW a \in Archives, Snapshot(a) PROVE VaultInv'
  <2>1. SnapshotCovers'
    BY <1>6 DEF SnapshotCovers, Covers, BeforeIsRegistered, Order, Snapshot, store
  <2>2. ManifestCovers'
    BY <1>6 DEF ManifestCovers, Covers, Order, Snapshot, store
  <2>3. ManifestIsLast'
    BY <1>6 DEF ManifestIsLast, Order, Snapshot, store
  <2>4. ArchivesIntact'
    BY <1>6 DEF ArchivesIntact, Order, Snapshot, store
  <2> QED
    BY <1>6, <2>1, <2>2, <2>3, <2>4 DEF RowsAreFinal, BeforeIsRegistered, ReadersHaveManifest,
       Whole, StoreIntact, RestoredIsComplete, Registered, Snapshot, store
<1>7. ASSUME NEW a \in Archives, CopyDocuments(a) PROVE VaultInv'
  <2>1. SnapshotCovers'
    BY <1>7 DEF SnapshotCovers, Covers, Order, CopyDocuments, store
  <2>2. ManifestCovers'
    BY <1>7 DEF ManifestCovers, Covers, Order, CopyDocuments, store
  <2>3. ManifestIsLast'
    BY <1>7 DEF ManifestIsLast, Order, CopyDocuments, store
  <2>4. ArchivesIntact'
    BY <1>7 DEF ArchivesIntact, SnapshotCovers, Covers, StoreIntact, Order, CopyDocuments, store
  <2> QED
    BY <1>7, <2>1, <2>2, <2>3, <2>4 DEF RowsAreFinal, BeforeIsRegistered, ReadersHaveManifest,
       Whole, StoreIntact, RestoredIsComplete, Registered, CopyDocuments, store
<1>8. ASSUME NEW a \in Archives, BackupFails(a) PROVE VaultInv'
  <2>1. SnapshotCovers'
    BY <1>8 DEF SnapshotCovers, Covers, BackupFails, store, archive
  <2>2. ManifestCovers'
    BY <1>8 DEF ManifestCovers, Covers, BackupFails, store, archive
  <2>3. ManifestIsLast'
    BY <1>8 DEF ManifestIsLast, BackupFails, store, archive
  <2>4. ArchivesIntact'
    BY <1>8 DEF ArchivesIntact, BackupFails, store, archive
  <2> QED
    BY <1>8, <2>1, <2>2, <2>3, <2>4 DEF RowsAreFinal, BeforeIsRegistered, ReadersHaveManifest,
       Whole, StoreIntact, RestoredIsComplete, Registered, BackupFails, store, archive
<1>9. ASSUME NEW a \in Archives, VerifyBackup(a) PROVE VaultInv'
  <2>1. SnapshotCovers'
    BY <1>9 DEF SnapshotCovers, Covers, VerifyBackup, store, archive
  <2>2. ManifestCovers'
    BY <1>9 DEF ManifestCovers, Covers, SnapshotCovers, ManifestIsLast, VerifyBackup, store, archive
  <2>3. ManifestIsLast'
    BY <1>9 DEF ManifestIsLast, VerifyBackup, store, archive
  <2>4. ArchivesIntact'
    BY <1>9 DEF ArchivesIntact, SnapshotCovers, Covers, Agrees, Registered, VerifyBackup, store,
       archive
  <2> QED
    BY <1>9, <2>1, <2>2, <2>3, <2>4 DEF RowsAreFinal, BeforeIsRegistered, ReadersHaveManifest,
       Whole, StoreIntact, RestoredIsComplete, Registered, VerifyBackup, store, archive
<1>10. ASSUME NEW a \in Archives, WriteManifest(a) PROVE VaultInv'
  <2>1. SnapshotCovers'
    BY <1>10 DEF SnapshotCovers, Covers, WriteManifest, store
  <2>2. ManifestCovers'
    BY <1>10 DEF ManifestCovers, Covers, WriteManifest, store
  <2>3. ManifestIsLast'
    BY <1>10 DEF ManifestIsLast, WriteManifest, store
  <2>4. ReadersHaveManifest'
    BY <1>10 DEF ReadersHaveManifest, Whole, WriteManifest, store
  <2>5. ArchivesIntact'
    BY <1>10 DEF ArchivesIntact, WriteManifest, store
  <2> QED
    BY <1>10, <2>1, <2>2, <2>3, <2>4, <2>5 DEF RowsAreFinal, BeforeIsRegistered, StoreIntact,
       RestoredIsComplete, Registered, WriteManifest, store
<1>11. ASSUME NEW a \in Archives, ManifestFails(a) PROVE VaultInv'
  <2>1. SnapshotCovers'
    BY <1>11 DEF SnapshotCovers, Covers, ManifestFails, store
  <2>2. ManifestCovers'
    BY <1>11 DEF ManifestCovers, Covers, ManifestFails, store
  <2>3. ManifestIsLast'
    BY <1>11 DEF ManifestIsLast, ManifestFails, store
  <2>4. ReadersHaveManifest'
    <3>1. \A b : Whole(b) => Whole(b)'
      BY <1>11 DEF Whole, ManifestIsLast, ManifestFails
    <3>2. UNCHANGED <<restore, profile, record>>
      BY <1>11 DEF ManifestFails
    <3> QED
      BY <3>1, <3>2 DEF ReadersHaveManifest, Whole
  <2>5. ArchivesIntact'
    BY <1>11 DEF ArchivesIntact, ManifestFails, store
  <2> QED
    BY <1>11, <2>1, <2>2, <2>3, <2>4, <2>5 DEF RowsAreFinal, BeforeIsRegistered, StoreIntact,
       RestoredIsComplete, Registered, ManifestFails, store
<1>12. ASSUME NEW a \in Archives, SaveRecord(a) PROVE VaultInv'
  <2>1. SnapshotCovers'
    BY <1>12 DEF SnapshotCovers, Covers, SaveRecord, store, archive
  <2>2. ManifestCovers'
    BY <1>12 DEF ManifestCovers, Covers, SaveRecord, store, archive
  <2>3. ManifestIsLast'
    BY <1>12 DEF ManifestIsLast, SaveRecord, store, archive
  <2>4. ReadersHaveManifest'
    BY <1>12 DEF ReadersHaveManifest, Whole, ManifestIsLast, SaveRecord, store, archive
  <2>5. ArchivesIntact'
    BY <1>12 DEF ArchivesIntact, SaveRecord, store, archive
  <2> QED
    BY <1>12, <2>1, <2>2, <2>3, <2>4, <2>5 DEF RowsAreFinal, BeforeIsRegistered, StoreIntact,
       RestoredIsComplete, Registered, SaveRecord, store, archive
<1>13. ASSUME NEW a \in Archives, BeginRestore(a) PROVE VaultInv'
  <2>1. ReadersHaveManifest'
    BY <1>13 DEF ReadersHaveManifest, Whole, BeginRestore, store, backup, run, archive
  <2> QED
    BY <1>13, <2>1 DEF RowsAreFinal, BeforeIsRegistered, SnapshotCovers, Covers, ManifestCovers,
       ManifestIsLast, StoreIntact, ArchivesIntact, RestoredIsComplete, Registered, BeginRestore,
       store, backup, run, archive
<1>14. ASSUME NEW a \in Archives, VerifyArchive(a) PROVE VaultInv'
  <2>1. ReadersHaveManifest'
    BY <1>14 DEF ReadersHaveManifest, Whole, NoRestore, VerifyArchive, store, backup, run, archive
  <2> QED
    BY <1>14, <2>1 DEF RowsAreFinal, BeforeIsRegistered, SnapshotCovers, Covers, ManifestCovers,
       ManifestIsLast, StoreIntact, ArchivesIntact, RestoredIsComplete, Registered, VerifyArchive,
       store, backup, run, archive
<1>15. ASSUME NEW a \in Archives, CopyToStaging(a) PROVE VaultInv'
  <2>1. ReadersHaveManifest'
    BY <1>15 DEF ReadersHaveManifest, Whole, Staged, NoRestore, CopyToStaging, store, backup, run,
       archive
  <2> QED
    BY <1>15, <2>1 DEF RowsAreFinal, BeforeIsRegistered, SnapshotCovers, Covers, ManifestCovers,
       ManifestIsLast, StoreIntact, ArchivesIntact, RestoredIsComplete, Registered, CopyToStaging,
       store, backup, run, archive
<1>16. ASSUME NEW a \in Archives, Publish(a) PROVE VaultInv'
  <2>1. ReadersHaveManifest'
    BY <1>16 DEF ReadersHaveManifest, Whole, NoRestore, Publish, store, backup, run, archive
  <2>2. RestoredIsComplete'
    BY <1>16 DEF RestoredIsComplete, Registered, ReadersHaveManifest, Whole, ManifestCovers, Covers,
       StagingVerified, Agrees, Publish, store, backup, run, archive
  <2> QED
    BY <1>16, <2>1, <2>2 DEF RowsAreFinal, BeforeIsRegistered, SnapshotCovers, Covers,
       ManifestCovers, ManifestIsLast, StoreIntact, ArchivesIntact, Publish, store, backup, run,
       archive
<1>17. ASSUME NEW d \in Docs, DamageStore(d) PROVE VaultInv'
  <2>1. StoreIntact'
    BY <1>17 DEF StoreIntact, DamageStore, backup, run, archive
  <2>2. ArchivesIntact'
    BY <1>17 DEF ArchivesIntact, DamageStore, backup, run, archive
  <2> QED
    BY <1>17, <2>1, <2>2 DEF RowsAreFinal, BeforeIsRegistered, SnapshotCovers, Covers,
       ManifestCovers, ManifestIsLast, ReadersHaveManifest, Whole, RestoredIsComplete, Registered,
       DamageStore, backup, run, archive
<1>18. ASSUME NEW a \in Archives, DamageArchive(a) PROVE VaultInv'
  <2>1. StoreIntact'
    BY <1>18 DEF StoreIntact, DamageArchive, store, run
  <2>2. ArchivesIntact'
    BY <1>18 DEF ArchivesIntact, DamageArchive, store, run
  <2> QED
    BY <1>18, <2>1, <2>2 DEF RowsAreFinal, BeforeIsRegistered, SnapshotCovers, Covers,
       ManifestCovers, ManifestIsLast, ReadersHaveManifest, Whole, RestoredIsComplete, Registered,
       DamageArchive, store, run
<1>19. ASSUME NEW a \in Archives, DamageDatabase(a) PROVE VaultInv'
  <2>1. SnapshotCovers'
    BY <1>19 DEF SnapshotCovers, Covers, DamageDatabase, store, run
  <2>2. StoreIntact'
    BY <1>19 DEF StoreIntact, DamageDatabase, store, run
  <2>3. ArchivesIntact'
    BY <1>19 DEF ArchivesIntact, DamageDatabase, store, run
  <2> QED
    BY <1>19, <2>1, <2>2, <2>3 DEF RowsAreFinal, BeforeIsRegistered, ManifestCovers, Covers,
       ManifestIsLast, ReadersHaveManifest, Whole, RestoredIsComplete, Registered, DamageDatabase,
       store, run
<1>20. CASE DamageStaging
  <2>1. ReadersHaveManifest'
    BY <1>20 DEF ReadersHaveManifest, Whole, Staged, DamageStaging, store, backup, run, archive
  <2>2. StoreIntact'
    BY <1>20 DEF StoreIntact, Staged, DamageStaging, store, backup, run, archive
  <2>3. ArchivesIntact'
    BY <1>20 DEF ArchivesIntact, Staged, DamageStaging, store, backup, run, archive
  <2> QED
    BY <1>20, <2>1, <2>2, <2>3 DEF RowsAreFinal, BeforeIsRegistered, SnapshotCovers, Covers,
       ManifestCovers, ManifestIsLast, RestoredIsComplete, Registered, DamageStaging, store, backup,
       run, archive
<1>21. CASE Crash
  <2>1. RowsAreFinal'
    BY <1>21 DEF RowsAreFinal, Crash
  <2>2. SnapshotCovers'
    BY <1>21 DEF SnapshotCovers, Covers, Crash
  <2>3. ManifestCovers'
    BY <1>21 DEF ManifestCovers, Covers, Crash
  <2>4. \A a \in Archives :
          /\ manifest'[a] = manifest[a] \/ (phase[a] = "verified" /\ manifest'[a] = "torn")
          /\ phase'[a] = IF phase[a] = "none" THEN "none" ELSE "ended"
    <3>1. PICK torn \in SUBSET {a \in Archives : phase[a] = "verified"} :
            manifest' = [a \in Archives |-> IF a \in torn THEN "torn" ELSE manifest[a]]
      BY <1>21 DEF Crash
    <3> QED BY <1>21, <3>1 DEF Crash
  <2>5. ManifestIsLast'
    BY <1>21, <2>4 DEF ManifestIsLast
  <2>6. ReadersHaveManifest'
    <3>1. UNCHANGED <<restore, profile>> /\ (record' = record \/ record' = Null)
      BY <1>21 DEF Crash
    <3>2. \A a \in Archives : manifest[a] = "whole" => manifest'[a] = "whole"
      BY <2>4 DEF ManifestIsLast
    <3> QED BY <3>1, <3>2 DEF ReadersHaveManifest, Whole
  <2>7. ArchivesIntact'
    BY <1>21 DEF ArchivesIntact, Crash
  <2> QED
    BY <1>21, <2>1, <2>2, <2>3, <2>4, <2>5, <2>6, <2>7 DEF BeforeIsRegistered, StoreIntact,
       RestoredIsComplete, Registered, Crash
<1>22. CASE CrashRestore
  <2>1. ReadersHaveManifest'
    BY <1>22 DEF ReadersHaveManifest, Whole, NoRestore, CrashRestore, store, backup, run, archive
  <2> QED
    BY <1>22, <2>1 DEF RowsAreFinal, BeforeIsRegistered, SnapshotCovers, Covers, ManifestCovers,
       ManifestIsLast, StoreIntact, ArchivesIntact, RestoredIsComplete, Registered, CrashRestore,
       store, backup, run, archive
<1>23. CASE Open \/ UNCHANGED vars
  <2>1. UNCHANGED <<files, storing, rows, phase, listed, digest, before, dbs, docs, manifest, record,
                    restore, profile, damage>>
    BY <1>23 DEF Open, AskOpen, VerifyOriginal, CopyOriginal, CopyFails, RevealSucceeds, RevealFails,
       vars, store, backup, run, archive
  <2> QED
    BY <2>1 DEF RowsAreFinal, BeforeIsRegistered, SnapshotCovers, ManifestCovers, ManifestIsLast,
       ReadersHaveManifest, StoreIntact, ArchivesIntact, RestoredIsComplete, Covers, Whole,
       Registered
<1> QED
  BY <1>1, <1>2, <1>3, <1>4, <1>5, <1>6, <1>7, <1>8, <1>9, <1>10, <1>11, <1>12, <1>13, <1>14, <1>15,
     <1>16, <1>17, <1>18, <1>19, <1>20, <1>21, <1>22, <1>23
     DEF Next, Register, Backup, Restore, Damage

LEMMA VaultAlways == Spec => [](TypeInv /\ VaultInv)
BY TypeInit, TypeStep, VaultInit, VaultStep, PTL DEF Spec

(* A published profile is complete, for any number of documents, archives, *)
(* damaged files and deaths (restoreFromBackup).                           *)
THEOREM RestoredComplete == Spec => []RestoredIsComplete
<1>1. VaultInv => RestoredIsComplete
  BY DEF VaultInv
<1> QED BY <1>1, VaultAlways, PTL

(* No backup over an undamaged disk fails its verification, and a backup   *)
(* recorded as verified has its manifest (runBackup, backupRunHandler).    *)
THEOREM BackupHonest == Spec => []BackupIsHonest
<1>1. VaultInv => BackupIsHonest
  BY DEF VaultInv, ArchivesIntact, ReadersHaveManifest, Whole, BackupIsHonest
<1> QED BY <1>1, VaultAlways, PTL

-----------------------------------------------------------------------------
(* Opening.                                                                *)

LEMMA ViewerStep == TypeInv /\ VaultInv /\ ViewerInv /\ [Next]_vars => ViewerInv'
<1> SUFFICES ASSUME TypeInv, VaultInv, ViewerInv, [Next]_vars PROVE ViewerInv'
  OBVIOUS
<1> USE VaultAssumption DEF TypeInv, TypeOK, Contents, Content, Finished, ViewerInv
<1>1. ASSUME NEW k \in 1..MaxOpens, NEW d \in Docs, AskOpen(k, d) PROVE ViewerInv'
  <2>1. OpensInOrder'
    BY <1>1 DEF OpensInOrder, AskOpen, store
  <2>2. HeldIsLatest'
    BY <1>1 DEF HeldIsLatest, AskOpen, store
  <2>3. CopyIsRegistered'
    BY <1>1 DEF CopyIsRegistered, HeldIsLatest, AskOpen, store
  <2>4. CopiesAccounted'
    BY <1>1 DEF CopiesAccounted, AskOpen, store
  <2>5. VerifiedIsRegistered'
    BY <1>1 DEF VerifiedIsRegistered, AskOpen, store
  <2> QED BY <2>1, <2>2, <2>3, <2>4, <2>5
<1>2. ASSUME NEW k \in 1..MaxOpens, VerifyOriginal(k) PROVE ViewerInv'
  <2>1. OpensInOrder'
    BY <1>2 DEF OpensInOrder, VerifyOriginal, AtHead, EndOpen, Registered, store
  <2>2. HeldIsLatest'
    BY <1>2 DEF HeldIsLatest, VerifyOriginal, AtHead, EndOpen, Registered, store
  <2>3. CopyIsRegistered'
    BY <1>2 DEF CopyIsRegistered, VerifyOriginal, AtHead, EndOpen, Registered, store
  <2>4. CopiesAccounted'
    <3>1. /\ status[k] = "asked" /\ UNCHANGED <<copies, held, stray>>
          /\ \A j \in (1..MaxOpens) \ {k} : status'[j] = status[j]
      BY <1>2 DEF VerifyOriginal, EndOpen
    <3> QED BY <3>1 DEF CopiesAccounted
  <2>5. VerifiedIsRegistered'
    BY <1>2 DEF VerifiedIsRegistered, VerifyOriginal, AtHead, EndOpen, Registered, store
  <2> QED BY <2>1, <2>2, <2>3, <2>4, <2>5
<1>3. ASSUME NEW k \in 1..MaxOpens, CopyOriginal(k) PROVE ViewerInv'
  <2>1. OpensInOrder'
    BY <1>3 DEF OpensInOrder, CopyOriginal, AtHead, EndOpen, store
  <2>2. HeldIsLatest'
    BY <1>3 DEF HeldIsLatest, CopyOriginal, AtHead, EndOpen, store
  <2>3. CopyIsRegistered'
    BY <1>3 DEF CopyIsRegistered, HeldIsLatest, VerifiedIsRegistered, CopyOriginal, AtHead, EndOpen,
       store
  <2>4. CopiesAccounted'
    <3>1. /\ status'[k] = "copied" /\ UNCHANGED <<held, stray>>
          /\ \A j \in (1..MaxOpens) \ {k} : status'[j] = status[j] /\ copies'[j] = copies[j]
      BY <1>3 DEF CopyOriginal, EndOpen
    <3> QED BY <3>1 DEF CopiesAccounted
  <2>5. VerifiedIsRegistered'
    BY <1>3 DEF VerifiedIsRegistered, CopyOriginal, AtHead, EndOpen, store
  <2> QED BY <2>1, <2>2, <2>3, <2>4, <2>5
<1>4. ASSUME NEW k \in 1..MaxOpens, CopyFails(k) PROVE ViewerInv'
  <2>1. OpensInOrder'
    BY <1>4 DEF OpensInOrder, CopyFails, AtHead, EndOpen, store
  <2>2. HeldIsLatest'
    BY <1>4 DEF HeldIsLatest, CopyFails, AtHead, EndOpen, store
  <2>3. CopyIsRegistered'
    BY <1>4 DEF CopyIsRegistered, HeldIsLatest, CopyFails, AtHead, EndOpen, store
  <2>4. CopiesAccounted'
    BY <1>4 DEF CopiesAccounted, CopyFails, AtHead, EndOpen, store
  <2>5. VerifiedIsRegistered'
    BY <1>4 DEF VerifiedIsRegistered, CopyFails, AtHead, EndOpen, store
  <2> QED BY <2>1, <2>2, <2>3, <2>4, <2>5
<1>5. ASSUME NEW k \in 1..MaxOpens, RevealSucceeds(k) PROVE ViewerInv'
  <2>1. OpensInOrder'
    BY <1>5 DEF OpensInOrder, RevealSucceeds, AtHead, EndOpen, Discard, store
  <2>2. HeldIsLatest'
    <3>1. status[k] = "copied" /\ held' = k /\ status' = [status EXCEPT ![k] = "ok"]
      BY <1>5 DEF RevealSucceeds, EndOpen
    <3>2. ASSUME NEW j \in 1..MaxOpens, status'[j] = "ok" PROVE j <= k
      <4>1. ASSUME k < j PROVE FALSE
        <5>1. status[j] = "ok"
          BY <3>1, <3>2, <4>1
        <5>2. status[j] \in {"unasked", "asked"}
          BY <3>1, <4>1 DEF OpensInOrder
        <5> QED BY <5>1, <5>2
      <4> QED BY <4>1
    <3>3. status'[k] = "ok"
      BY <3>1
    <3> QED BY <3>1, <3>2, <3>3 DEF HeldIsLatest
  <2>3. CopyIsRegistered'
    BY <1>5 DEF CopyIsRegistered, HeldIsLatest, OpensInOrder, RevealSucceeds, AtHead, EndOpen,
       Discard, store
  <2>4. CopiesAccounted'
    BY <1>5 DEF CopiesAccounted, RevealSucceeds, AtHead, EndOpen, Discard, store
  <2>5. VerifiedIsRegistered'
    BY <1>5 DEF VerifiedIsRegistered, RevealSucceeds, AtHead, EndOpen, Discard, store
  <2> QED BY <2>1, <2>2, <2>3, <2>4, <2>5
<1>6. ASSUME NEW k \in 1..MaxOpens, RevealFails(k) PROVE ViewerInv'
  <2>1. OpensInOrder'
    BY <1>6 DEF OpensInOrder, RevealFails, AtHead, EndOpen, Discard, store
  <2>2. HeldIsLatest'
    BY <1>6 DEF HeldIsLatest, RevealFails, AtHead, EndOpen, Discard, store
  <2>3. CopyIsRegistered'
    BY <1>6 DEF CopyIsRegistered, HeldIsLatest, RevealFails, AtHead, EndOpen, Discard, store
  <2>4. CopiesAccounted'
    BY <1>6 DEF CopiesAccounted, RevealFails, AtHead, EndOpen, Discard, store
  <2>5. VerifiedIsRegistered'
    BY <1>6 DEF VerifiedIsRegistered, RevealFails, AtHead, EndOpen, Discard, store
  <2> QED BY <2>1, <2>2, <2>3, <2>4, <2>5
<1>7. CASE Crash
  <2>1. OpensInOrder'
    BY <1>7 DEF OpensInOrder, Crash
  <2>2. HeldIsLatest'
    BY <1>7 DEF HeldIsLatest, Crash
  <2>3. CopyIsRegistered'
    BY <1>7 DEF CopyIsRegistered, Crash
  <2>4. CopiesAccounted'
    BY <1>7 DEF CopiesAccounted, Crash
  <2>5. VerifiedIsRegistered'
    BY <1>7 DEF VerifiedIsRegistered, Crash
  <2> QED BY <2>1, <2>2, <2>3, <2>4, <2>5
<1>8. ASSUME NEW d \in Docs, RegisterDocument(d) PROVE ViewerInv'
  <2>1. rows[d] = "absent" /\ rows' = [rows EXCEPT ![d] = files[d]] /\ UNCHANGED viewer
    BY <1>8 DEF RegisterDocument, VaultInv, RowsAreFinal
  <2> QED
    BY <2>1 DEF viewer, OpensInOrder, HeldIsLatest, CopyIsRegistered, CopiesAccounted, VerifiedIsRegistered
<1>9. ASSUME UNCHANGED <<rows, viewer>> PROVE ViewerInv'
  BY <1>9 DEF viewer, OpensInOrder, HeldIsLatest, CopyIsRegistered, CopiesAccounted, VerifiedIsRegistered
<1>10. Next /\ ~Open /\ ~Crash /\ ~(\E d \in Docs : RegisterDocument(d)) => UNCHANGED <<rows, viewer>>
  BY DEF Next, Register, Backup, Restore, Damage, StartStoring, FinishStoring, RegistrationFails, BeginBackup,
     Snapshot, CopyDocuments, BackupFails, VerifyBackup, WriteManifest, ManifestFails, SaveRecord,
     BeginRestore, VerifyArchive, CopyToStaging, Publish, DamageStore, DamageArchive, DamageDatabase,
     DamageStaging, CrashRestore, store
<1>11. UNCHANGED vars => UNCHANGED <<rows, viewer>>
  BY DEF vars, store
<1> QED
  BY <1>1, <1>2, <1>3, <1>4, <1>5, <1>6, <1>7, <1>8, <1>9, <1>10, <1>11 DEF Open

LEMMA ViewerInit == Init => ViewerInv
BY VaultAssumption
   DEF Init, ViewerInv, OpensInOrder, HeldIsLatest, CopyIsRegistered, CopiesAccounted, VerifiedIsRegistered,
       Nothing, Finished

(* The copy of the original asked for last is there with the registered    *)
(* bytes, and no other is left but by a crash or a removal that failed,    *)
(* for any number of opens (openRegisteredOriginal, runOpen).              *)
THEOREM LatestKept == Spec => []LatestCopyKept
<1>1. ASSUME TypeInv, ViewerInv PROVE LatestCopyKept
  <2>1. ASSUME NEW k \in 1..MaxOpens, status[k] = "ok", k # held PROVE
          \E j \in {i \in 1..MaxOpens : status[i] = "ok"} : ~(j <= k)
    <3>1. held \in 1..MaxOpens /\ status[held] = "ok" /\ k <= held
      BY <1>1, <2>1, VaultAssumption DEF TypeInv, TypeOK, ViewerInv, HeldIsLatest
    <3> QED BY <2>1, <3>1, VaultAssumption
  <2>2. \A k \in 1..MaxOpens : k = held => copies[k] = rows[wanted[k]]
    BY <1>1 DEF ViewerInv, CopyIsRegistered
  <2> QED BY <1>1, <2>1, <2>2 DEF LatestCopyKept, ViewerInv, CopiesAccounted
<1> QED BY <1>1, VaultAlways, ViewerInit, ViewerStep, PTL DEF Spec
=============================================================================
