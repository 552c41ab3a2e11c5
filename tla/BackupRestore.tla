---------------------------- MODULE BackupRestore ----------------------------
(***************************************************************************)
(* The commands that act on a whole data directory while the control plane *)
(* may be running on it: backup, restore and doctor, the backup lock that  *)
(* keeps grants and publications out of a snapshot, and the import of a    *)
(* workspace bundle, which writes the same tables and the same tree.       *)
(*                                                                         *)
(* A directory tree is what is seen of it and what would be left of it if  *)
(* the power failed now.  Creating and unlinking a name change only what   *)
(* is seen; fsync of a directory makes its own entries durable.  A file    *)
(* is whole once its bytes are written, flushed and verified.              *)
(***************************************************************************)
EXTENDS Naturals, FiniteSets

CONSTANTS
    Uploads,    \* artifacts that the runner publishes
    Imports,    \* artifacts that the imported bundle carries
    MaxLoss     \* bound: power failures

Artifacts == Uploads \cup Imports

\* The other names of a backup and of a data directory.
Entries == {"marker", "manifest", "sqlite", "evidence", "published", "staging", "db"}

\* An artifact has an identity of its own, and is named by it.
ASSUME StorageAssumption ==
    /\ Uploads \cap Imports = {}
    /\ Artifacts \cap Entries = {}
    /\ MaxLoss \in Nat

VARIABLES
    files,      \* artifacts under evidence/published of the live directory
    rows,       \* artifacts with an evidence_artifacts row
    upload,     \* upload[a]: the grant of a and how far its completion is
    import,     \* the request that imports the bundle
    doctor,     \* the evidence check: the rows it read, what it reported of them
    backup,     \* where runBackup is
    snap,       \* the artifact rows of the database copy
    list,       \* the artifacts of the manifest
    dst,        \* the backup directory
    restore,    \* where runRestore is
    tgt,        \* the directory restored into
    served,     \* a control plane was started on it
    losses

liveVars == <<files, rows, upload, import>>
backupVars == <<backup, snap, list, dst>>
restoreVars == <<restore, tgt, served>>
vars == <<liveVars, doctor, backupVars, restoreVars, losses>>

\* Before the lock is held; under it; after it was released.
Snapshotting == {"locked", "tree", "copied", "renamed", "copying", "synced", "truncated",
                 "finalized", "unmarked"}
Restoring == {"verified", "marked", "tree", "copying", "synced", "unmarked"}

Directories == [seen : SUBSET (Entries \cup Artifacts), kept : SUBSET (Entries \cup Artifacts),
                whole : SUBSET (Entries \cup Artifacts),
                manifest : {"none", "started", "complete"}]

Empty == [seen |-> {}, kept |-> {}, whole |-> {}, manifest |-> "none"]

TypeOK ==
    /\ files \subseteq Artifacts /\ rows \subseteq Artifacts
    /\ snap \subseteq Artifacts /\ list \subseteq Artifacts
    /\ upload \in [Uploads -> {"none", "granted", "completing", "renamed", "published"}]
    /\ import \in {"idle", "running", "done", "failed", "lost"}
    /\ doctor \in [busy : BOOLEAN, rows : SUBSET Artifacts,
                  missing : SUBSET Artifacts, extra : SUBSET Artifacts]
    /\ backup \in {"idle", "marked", "refused", "failed", "complete"} \cup Snapshotting
    /\ restore \in {"idle", "failed", "complete"} \cup Restoring
    /\ dst \in Directories /\ tgt \in Directories
    /\ served \in BOOLEAN
    /\ losses \in 0..MaxLoss

Init ==
    /\ files = {} /\ rows = {} /\ upload = [a \in Uploads |-> "none"]
    /\ import = "idle"
    /\ doctor = [busy |-> FALSE, rows |-> {}, missing |-> {}, extra |-> {}]
    /\ backup = "idle" /\ snap = {} /\ list = {} /\ dst = Empty
    /\ restore = "idle" /\ tgt = Empty /\ served = FALSE
    /\ losses = 0

-----------------------------------------------------------------------------
(* Directories.                                                            *)

\* The directory an entry is in: of a backup, and of a data directory, where
\* the database is at the root.
Parent == [e \in Entries \cup Artifacts |->
    CASE e \in {"marker", "manifest", "sqlite", "evidence"} -> "root"
      [] e \in {"published", "staging"} -> "evidence"
      [] e = "db" -> "sqlite"
      [] OTHER -> "published"]

DataParent == [Parent EXCEPT !["db"] = "root"]

\* O_CREAT | O_EXCL, bytes, fsync of the file.
Added(d, es) == [d EXCEPT !.seen = @ \cup es, !.whole = @ \cup es]
Unlinked(d, e) == [d EXCEPT !.seen = @ \ {e}, !.whole = @ \ {e}]

\* fsync of directories: their entries are durable, and so is what was
\* removed from them.
Synced(d, dirs, parent) ==
    [d EXCEPT !.kept = {e \in @ : parent[e] \notin dirs} \cup {e \in d.seen : parent[e] \in dirs}]

\* What a power failure may leave of it.
Reachable(S, parent) ==
    LET up(e) == parent[e] \in S \cup {"root"}
    IN {e \in S : up(e) /\ (parent[e] # "root" => up(parent[e]))}

Survivors(d, parent) ==
    {[d EXCEPT !.seen = Reachable(S, parent), !.kept = Reachable(S, parent),
               !.whole = @ \cap Reachable(S, parent)] :
        S \in {(d.seen \cap d.kept) \cup T :
                 T \in SUBSET ((d.seen \cup d.kept) \ (d.seen \cap d.kept))}}

-----------------------------------------------------------------------------
(* The live directory.                                                     *)

\* Slip: the lock is advisory and nobody asks.
QuiescedSlip == FALSE

\* The exclusive side of the lock is held from the first byte of the snapshot
\* to the end of the process, however it ends.
Quiesced == backup \in Snapshotting

\* Completions hold the shared side across rename and commit.
Publishing == \E a \in Uploads : upload[a] \in {"completing", "renamed"}

\* A grant is admitted in one transaction under the shared side.
AdmitGrant(a) ==
    /\ upload[a] = "none" /\ ~Quiesced
    /\ upload' = [upload EXCEPT ![a] = "granted"]
    /\ UNCHANGED <<files, rows, import>>

BeginComplete(a) ==
    /\ upload[a] = "granted" /\ ~Quiesced
    /\ upload' = [upload EXCEPT ![a] = "completing"]
    /\ UNCHANGED <<files, rows, import>>

\* Slip: the row is committed first.
RenameSlip(a) ==
    /\ upload[a] = "completing"
    /\ rows' = rows \cup {a}
    /\ upload' = [upload EXCEPT ![a] = "renamed"]
    /\ UNCHANGED <<files, import>>

\* Rename into published/ and fsync of that directory.
Rename(a) ==
    /\ upload[a] = "completing"
    /\ files' = files \cup {a}
    /\ upload' = [upload EXCEPT ![a] = "renamed"]
    /\ UNCHANGED <<rows, import>>

Commit(a) ==
    /\ upload[a] = "renamed"
    /\ rows' = rows \cup {a} /\ files' = files \cup {a}
    /\ upload' = [upload EXCEPT ![a] = "published"]
    /\ UNCHANGED import

\* The request fails between two of its steps; the grant can be completed
\* again.
AbandonComplete(a) ==
    /\ upload[a] \in {"completing", "renamed"}
    /\ upload' = [upload EXCEPT ![a] = "granted"]
    /\ UNCHANGED <<files, rows, import>>

\* Up to the first await: the engagement, its notes, the synthetic Action and
\* Run that own the artifacts.  The import does not ask for the lock.
BeginImport ==
    /\ import = "idle"
    /\ import' = "running"
    /\ UNCHANGED <<files, rows, upload>>

\* One artifact: staged, renamed, its row inserted.
ImportArtifact(a) ==
    /\ import = "running" /\ a \notin files
    /\ files' = files \cup {a} /\ rows' = rows \cup {a}
    /\ UNCHANGED <<upload, import>>

\* Leads, objectives, secrets, findings, attempts, excerpts, attachments.
FinishImport ==
    /\ import = "running" /\ Imports \subseteq rows
    /\ import' = "done"
    /\ UNCHANGED <<files, rows, upload>>

\* A step fails, perhaps after the rename of a file whose row is then missing.
\* compensateImport: every row the import made, in reverse order of their
\* dependencies, each delete a transaction of its own.  The files stay.
FailImport(F) ==
    /\ import = "running"
    /\ import' = "failed"
    /\ files' = files \cup F /\ rows' = rows \ Imports
    /\ UNCHANGED upload

\* What a crash of the control plane leaves of its requests.
RequestsDie ==
    /\ upload' = [a \in Uploads |-> IF upload[a] \in {"completing", "renamed"}
                                    THEN "granted" ELSE upload[a]]
    /\ import' = IF import = "running" THEN "lost" ELSE import

ControlPlaneCrash ==
    /\ Publishing \/ import = "running"
    /\ RequestsDie
    /\ UNCHANGED <<files, rows>>

-----------------------------------------------------------------------------
(* Doctor: it takes no lock.                                               *)

DoctorReadsRows ==
    /\ ~doctor.busy
    /\ doctor' = [busy |-> TRUE, rows |-> rows, missing |-> {}, extra |-> {}]

\* The files of the rows are looked at, then the tree is listed.
DoctorReports ==
    /\ doctor.busy
    /\ doctor' = [busy |-> FALSE, rows |-> {}, missing |-> doctor.rows \ files,
                  extra |-> files \ doctor.rows]

-----------------------------------------------------------------------------
(* Backup.                                                                 *)

Tree == {"sqlite", "evidence", "published"}

\* The destination must be empty; the marker comes before anything else.
BeginBackup ==
    /\ backup = "idle" /\ dst.seen = {}
    /\ backup' = "marked" /\ dst' = Added(dst, {"marker"})
    /\ UNCHANGED <<snap, list>>

TakeLock ==
    /\ backup = "marked" /\ ~Publishing
    /\ backup' = "locked"
    /\ UNCHANGED <<snap, list, dst>>

\* storage_busy: the marker is removed again.
RefuseLock ==
    /\ backup = "marked" /\ Publishing
    /\ backup' = "refused" /\ dst' = Unlinked(dst, "marker")
    /\ UNCHANGED <<snap, list>>

MakeTree ==
    /\ backup = "locked"
    /\ backup' = "tree" /\ dst' = Added(dst, Tree)
    /\ UNCHANGED <<snap, list>>

\* sqlite.backup() into a staging name: the rows of one moment.
CopyDatabase ==
    /\ backup = "tree"
    /\ backup' = "copied" /\ snap' = rows
    /\ UNCHANGED <<list, dst>>

RenameDatabase ==
    /\ backup = "copied"
    /\ backup' = "renamed" /\ dst' = Synced(Added(dst, {"db"}), {"sqlite"}, Parent)
    /\ UNCHANGED <<snap, list>>

\* Membership comes from the frozen copy.
Members == snap

\* The started manifest, flushed with the names at the root.
StartManifest ==
    /\ backup = "renamed"
    /\ backup' = "copying" /\ list' = Members
    /\ dst' = Synced([Added(dst, {"manifest"}) EXCEPT !.manifest = "started"], {"root"}, Parent)
    /\ UNCHANGED snap

\* The name exists from the open on, the file is whole when the copy was
\* verified.
OpenCopy(a) ==
    /\ backup = "copying" /\ a \in list \ dst.seen /\ a \in files
    /\ list \cap dst.seen \subseteq dst.whole
    /\ dst' = [dst EXCEPT !.seen = @ \cup {a}]
    /\ UNCHANGED <<backup, snap, list>>

VerifyCopy(a) ==
    /\ backup = "copying" /\ a \in (list \cap dst.seen) \ dst.whole
    /\ dst' = [dst EXCEPT !.whole = @ \cup {a}]
    /\ UNCHANGED <<backup, snap, list>>

\* Slip: the directory of the artifacts is left to the kernel.
TreeDirsSlip == {"evidence", "sqlite"}

TreeDirs == {"published", "evidence", "sqlite"}

SyncTree ==
    /\ backup = "copying" /\ list \subseteq dst.whole
    /\ backup' = "synced" /\ dst' = Synced(dst, TreeDirs, Parent)
    /\ UNCHANGED <<snap, list>>

\* finalizeManifestFile: truncated in place, written, flushed.
TruncateManifest ==
    /\ backup = "synced"
    /\ backup' = "truncated" /\ dst' = [dst EXCEPT !.whole = @ \ {"manifest"}]
    /\ UNCHANGED <<snap, list>>

WriteManifest ==
    /\ backup = "truncated"
    /\ backup' = "finalized"
    /\ dst' = Synced([dst EXCEPT !.whole = @ \cup {"manifest"}, !.manifest = "complete"],
                     {"root"}, Parent)
    /\ UNCHANGED <<snap, list>>

DropMarker ==
    /\ backup = "finalized"
    /\ backup' = "unmarked" /\ dst' = Unlinked(dst, "marker")
    /\ UNCHANGED <<snap, list>>

\* The last fsync of the root, of a backup.
LastSync(d) == Synced(d, {"root"}, Parent)

\* Only now is the outcome "complete"; the lock is released.
CompleteBackup ==
    /\ backup = "unmarked"
    /\ backup' = "complete" /\ dst' = LastSync(dst)
    /\ UNCHANGED <<snap, list>>

\* An error of any step, or the end of the process.
FailBackup ==
    /\ backup \in Snapshotting \cup {"marked"}
    /\ backup' = "failed"
    /\ UNCHANGED <<snap, list, dst>>

-----------------------------------------------------------------------------
(* Restore.                                                                *)

\* What restore asks of a backup before it verifies the contents.
Restorable(d) ==
    /\ "marker" \notin d.seen
    /\ {"manifest"} \subseteq d.seen \cap d.whole /\ d.manifest = "complete"

\* The database copy is there, the published directory holds the listed
\* artifacts and nothing else, and every digest is right.
Verified(d) ==
    /\ {"db"} \cup Tree \subseteq d.seen /\ "db" \in d.whole
    /\ snap = list /\ d.seen \cap Artifacts = list
    /\ list \subseteq d.whole

VerifyBackup ==
    /\ restore = "idle" /\ tgt.seen = {}
    /\ Restorable(dst) /\ Verified(dst)
    /\ restore' = "verified"
    /\ UNCHANGED <<tgt, served>>

MarkTarget ==
    /\ restore = "verified"
    /\ restore' = "marked" /\ tgt' = Added(tgt, {"marker"})
    /\ UNCHANGED served

MakeDataTree ==
    /\ restore = "marked"
    /\ restore' = "tree"
    /\ tgt' = Synced(Added(tgt, {"evidence", "published", "staging"}), {"evidence"}, DataParent)
    /\ UNCHANGED served

\* The database comes before the artifacts.  Its name must not exist yet.
RestoreDatabase ==
    /\ restore = "tree" /\ "db" \notin tgt.seen
    /\ restore' = "copying" /\ tgt' = Added(tgt, {"db"})
    /\ UNCHANGED served

RestoreArtifact(a) ==
    /\ restore = "copying" /\ a \in list \ tgt.seen
    /\ tgt' = Added(tgt, {a})
    /\ UNCHANGED <<restore, served>>

\* Slip: the same for the data directory.
DataDirsSlip == {"evidence", "root"}

DataDirs == {"published", "evidence", "root"}

SyncData ==
    /\ restore = "copying" /\ list \subseteq tgt.whole
    /\ restore' = "synced" /\ tgt' = Synced(tgt, DataDirs, DataParent)
    /\ UNCHANGED served

UnmarkTarget ==
    /\ restore = "synced"
    /\ restore' = "unmarked" /\ tgt' = Unlinked(tgt, "marker")
    /\ UNCHANGED served

CompleteRestore ==
    /\ restore = "unmarked"
    /\ restore' = "complete" /\ tgt' = Synced(tgt, {"root"}, DataParent)
    /\ UNCHANGED served

FailRestore ==
    /\ restore \in Restoring
    /\ restore' = "failed"
    /\ UNCHANGED <<tgt, served>>

\* A control plane is started on the directory.  It opens the database it
\* finds, or creates one; nothing asks for the marker.
Serve ==
    /\ tgt.seen # {} /\ ~served
    /\ served' = TRUE
    /\ tgt' = Added(tgt, {"db"})
    /\ UNCHANGED restore

-----------------------------------------------------------------------------

PowerLoss ==
    /\ losses < MaxLoss
    /\ losses' = losses + 1
    /\ RequestsDie
    /\ backup' = IF backup \in Snapshotting \cup {"marked"} THEN "failed" ELSE backup
    /\ restore' = IF restore \in Restoring THEN "failed" ELSE restore
    /\ dst' \in Survivors(dst, Parent)
    /\ tgt' \in Survivors(tgt, DataParent)
    /\ doctor' = [doctor EXCEPT !.busy = FALSE, !.rows = {}]
    /\ UNCHANGED <<files, rows, snap, list, served>>

Publication(a) == AdmitGrant(a) \/ BeginComplete(a) \/ Rename(a) \/ Commit(a) \/ AbandonComplete(a)

LiveStep ==
    \/ \E a \in Uploads : Publication(a)
    \/ BeginImport \/ FinishImport \/ ControlPlaneCrash
    \/ \E a \in Imports : ImportArtifact(a)
    \/ \E F \in {{}} \cup {{a} : a \in Imports} : FailImport(F)

BackupStep ==
    \/ BeginBackup \/ TakeLock \/ RefuseLock \/ MakeTree \/ CopyDatabase \/ RenameDatabase
    \/ StartManifest \/ SyncTree \/ TruncateManifest \/ WriteManifest \/ DropMarker
    \/ CompleteBackup \/ FailBackup
    \/ \E a \in Artifacts : OpenCopy(a) \/ VerifyCopy(a)

RestoreStep ==
    \/ VerifyBackup \/ MarkTarget \/ MakeDataTree \/ RestoreDatabase \/ SyncData
    \/ UnmarkTarget \/ CompleteRestore \/ FailRestore \/ Serve
    \/ \E a \in Artifacts : RestoreArtifact(a)

Next ==
    \/ LiveStep /\ UNCHANGED <<doctor, backupVars, restoreVars, losses>>
    \/ (DoctorReadsRows \/ DoctorReports) /\ UNCHANGED <<liveVars, backupVars, restoreVars, losses>>
    \/ BackupStep /\ UNCHANGED <<liveVars, doctor, restoreVars, losses>>
    \/ RestoreStep /\ UNCHANGED <<liveVars, doctor, backupVars, losses>>
    \/ PowerLoss

Spec == Init /\ [][Next]_vars

-----------------------------------------------------------------------------
(* Properties.                                                             *)

\* Whatever was interrupted, by an error, a kill or a power failure: a
\* directory that restore would begin to read holds the copy of the database
\* and every file its rows name, so that verification never has to refuse it;
\* and one that was reported complete can be restored, also when the power
\* fails right after the report.
RestorableIsWhole ==
    /\ Restorable(dst) => Verified(dst)
    /\ backup = "complete" => Restorable(dst)

\* While a snapshot is taken the runner's evidence stands still: no grant is
\* admitted, no file of a grant is renamed, no row of one is committed.
SnapshotIsQuiet ==
    [][{backup, backup'} \subseteq Snapshotting =>
         /\ upload' = upload
         /\ files' \cap Uploads = files \cap Uploads
         /\ rows' \cap Uploads = rows \cap Uploads]_vars

\* A restore that was reported complete has every file, unmarked, and keeps
\* them when the power fails; one that was interrupted is recognisable: a
\* database whose rows name files that are not there has the marker beside it.
RestoredIsWhole ==
    /\ restore = "complete" =>
         /\ "marker" \notin tgt.seen
         /\ {"db"} \cup list \subseteq tgt.seen \cap tgt.whole
    /\ losses = 0 /\ restore # "idle" /\ "db" \in tgt.seen /\ ~(list \subseteq tgt.whole)
         => "marker" \in tgt.seen

\* Doctor takes no lock and runs while artifacts are published, imported and
\* taken back: it never reports the file of a row as missing.
NothingIsMissing == doctor.missing = {}
=============================================================================
