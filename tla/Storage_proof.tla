--------------------------- MODULE Storage_proof ---------------------------
(***************************************************************************)
(* What is promised of the data directory with its backups, of the         *)
(* redacted output, and of saved scope, proved for every value of the      *)
(* constants.                                                              *)
(*                                                                         *)
(* The directory.  LiveInv: every row of the live directory has its file,  *)
(* before and after each step, and no publication is under way while a     *)
(* snapshot is taken.  BackupInv: a backup has a complete manifest only    *)
(* over a copy that is whole and durable.  RestoreInv: the marker of a     *)
(* restore stays until what it marks is whole and durable.  A power        *)
(* failure keeps every durable name whose directories are durable          *)
(* (SurvivorFacts): the two directory invariants name such sets of         *)
(* entries.                                                                *)
(*                                                                         *)
(* The redactor.  Cont(s, mode) is what goes out when the bytes s come in  *)
(* a mode and nothing after them.  StreamInv: what was produced, followed  *)
(* by what the stash would give with whatever comes next, is the           *)
(* redaction of all that was read.  A turn of the loop keeps it            *)
(* (TurnRedacts, GoRedacts), so the loop does (LoopRedacts), so a chunk    *)
(* does (ChunkRedacts), and a close empties the stash (ChunkFlushes).      *)
(*                                                                         *)
(* Saved scope.  A merge holds what its ranges hold, in order and apart    *)
(* (MergeFacts); a mask compares equal exactly if the blocks are inside    *)
(* one another (CidrInside).  From these, the comparison is containment    *)
(* and the estimate the size of a union.                                   *)
(*                                                                         *)
(* A recursive function is its definition only if that has a solution:     *)
(* Recursion gives one where each call lowers a measure.  What it computes *)
(* follows by taking the least argument that would refute it.              *)
(***************************************************************************)
EXTENDS MCStorage, FiniteSetTheorems, SequenceTheorems, WellFoundedInduction,
        NaturalsInduction, TLAPS

-----------------------------------------------------------------------------
(* Directories.                                                            *)

LEMMA Parents ==
    /\ Parent["marker"] = "root" /\ Parent["manifest"] = "root"
    /\ Parent["sqlite"] = "root" /\ Parent["evidence"] = "root"
    /\ Parent["published"] = "evidence" /\ Parent["db"] = "sqlite"
    /\ \A a \in Artifacts : Parent[a] = "published"
  BY StorageAssumption DEF Parent, Entries

LEMMA DataParents ==
    /\ DataParent["marker"] = "root" /\ DataParent["evidence"] = "root"
    /\ DataParent["published"] = "evidence" /\ DataParent["staging"] = "evidence"
    /\ DataParent["db"] = "root"
    /\ \A a \in Artifacts : DataParent[a] = "published"
  BY Parents, StorageAssumption DEF DataParent, Parent, Entries

\* What the steps on a directory do to it, one field at a time.
LEMMA AddedFacts ==
    ASSUME NEW d \in Directories, NEW es \in SUBSET (Entries \cup Artifacts)
    PROVE  /\ Added(d, es) \in Directories
           /\ Added(d, es).seen = d.seen \cup es /\ Added(d, es).whole = d.whole \cup es
           /\ Added(d, es).kept = d.kept /\ Added(d, es).manifest = d.manifest
  BY DEF Added, Directories

LEMMA UnlinkedFacts ==
    ASSUME NEW d \in Directories, NEW e
    PROVE  /\ Unlinked(d, e) \in Directories
           /\ Unlinked(d, e).seen = d.seen \ {e} /\ Unlinked(d, e).whole = d.whole \ {e}
           /\ Unlinked(d, e).kept = d.kept /\ Unlinked(d, e).manifest = d.manifest
  BY DEF Unlinked, Directories

LEMMA SyncedFacts ==
    ASSUME NEW d \in Directories, NEW dirs, NEW parent
    PROVE  /\ Synced(d, dirs, parent) \in Directories
           /\ Synced(d, dirs, parent).seen = d.seen /\ Synced(d, dirs, parent).whole = d.whole
           /\ Synced(d, dirs, parent).manifest = d.manifest
           /\ Synced(d, dirs, parent).kept \subseteq d.seen \cup d.kept
           /\ \A e \in d.seen : parent[e] \in dirs => e \in Synced(d, dirs, parent).kept
           /\ \A e \in d.kept : parent[e] \notin dirs => e \in Synced(d, dirs, parent).kept
           /\ \A e \in d.kept : parent[e] \in dirs /\ e \notin d.seen
                => e \notin Synced(d, dirs, parent).kept
  BY DEF Synced, Directories

\* A power failure leaves what is seen and durable, as far as the directories
\* it is in are.
Closed(X, parent) ==
    \A e \in X : /\ parent[e] \in X \cup {"root"}
                 /\ parent[e] # "root" => parent[parent[e]] \in X \cup {"root"}

LEMMA SurvivorFacts ==
    ASSUME NEW d \in Directories, NEW parent, NEW s \in Survivors(d, parent)
    PROVE  /\ s \in Directories /\ s.kept = s.seen /\ s.seen \subseteq d.seen \cup d.kept
           /\ s.whole = d.whole \cap s.seen /\ s.manifest = d.manifest
           /\ \A X \in SUBSET (d.seen \cap d.kept) : Closed(X, parent) => X \subseteq s.seen
  <1>1. PICK T \in SUBSET ((d.seen \cup d.kept) \ (d.seen \cap d.kept)) :
          LET S == (d.seen \cap d.kept) \cup T
          IN  s = [d EXCEPT !.seen = Reachable(S, parent), !.kept = Reachable(S, parent),
                            !.whole = @ \cap Reachable(S, parent)]
    BY DEF Survivors
  <1> DEFINE S == (d.seen \cap d.kept) \cup T
             R == Reachable(S, parent)
  <1>2. R \subseteq S /\ S \subseteq d.seen \cup d.kept
    BY DEF Reachable
  <1>3. d.seen \cup d.kept \subseteq Entries \cup Artifacts /\ d.whole \subseteq Entries \cup Artifacts
    BY DEF Directories
  <1>4. ASSUME NEW X \in SUBSET (d.seen \cap d.kept), Closed(X, parent) PROVE X \subseteq R
    BY <1>4 DEF Reachable, Closed
  <1> HIDE DEF S, R
  <1>5. s = [d EXCEPT !.seen = R, !.kept = R, !.whole = d.whole \cap R]
    BY <1>1 DEF R, S
  <1>6. R \in SUBSET (Entries \cup Artifacts)
    BY <1>2, <1>3
  <1>7. s \in Directories /\ s.kept = R /\ s.seen = R /\ s.whole = d.whole \cap R /\ s.manifest = d.manifest
    BY <1>3, <1>5, <1>6 DEF Directories
  <1>8. QED
    BY <1>2, <1>4, <1>7

-----------------------------------------------------------------------------
(* The live directory.  Every row has its file, before and after each step,*)
(* and no publication is under way while a snapshot is taken.              *)

LiveInv ==
    /\ upload \in [Uploads -> {"none", "granted", "completing", "renamed", "published"}]
    /\ rows \subseteq files /\ rows \subseteq Artifacts
    /\ doctor \in [busy : BOOLEAN, rows : SUBSET Artifacts,
                  missing : SUBSET Artifacts, extra : SUBSET Artifacts]
    /\ doctor.rows \subseteq files /\ doctor.missing = {} /\ files \subseteq Artifacts
    /\ Quiesced => ~Publishing

LEMMA LiveSteps ==
    ASSUME LiveInv, LiveStep, UNCHANGED <<doctor, backup>>
    PROVE  /\ LiveInv' /\ files \subseteq files'
           /\ Quiesced => /\ upload' = upload
                          /\ files' \cap Uploads = files \cap Uploads
                          /\ rows' \cap Uploads = rows \cap Uploads
  <1> USE DEF LiveInv, Quiesced, Publishing
  <1>1. ASSUME NEW a \in Uploads, Publication(a)
        PROVE  /\ LiveInv' /\ files \subseteq files' /\ ~Quiesced
    BY <1>1 DEF Publication, AdmitGrant, BeginComplete, Rename, Commit, AbandonComplete, Artifacts
  <1>2. CASE BeginImport \/ FinishImport
    BY <1>2 DEF BeginImport, FinishImport
  <1>3. CASE ControlPlaneCrash
    <2>1. \A a \in Uploads : /\ upload'[a] \notin {"completing", "renamed"}
                             /\ upload[a] \notin {"completing", "renamed"} => upload'[a] = upload[a]
      BY <1>3 DEF ControlPlaneCrash, RequestsDie
    <2>2. upload' \in [Uploads -> {"none", "granted", "completing", "renamed", "published"}]
      BY <1>3 DEF ControlPlaneCrash, RequestsDie
    <2>3. Quiesced => upload' = upload
      BY <2>1, <2>2
    <2>4. QED
      BY <1>3, <2>1, <2>2, <2>3 DEF ControlPlaneCrash
  <1>4. ASSUME NEW a \in Imports, ImportArtifact(a)
        PROVE  /\ LiveInv' /\ files \subseteq files' /\ upload' = upload
               /\ files' \cap Uploads = files \cap Uploads /\ rows' \cap Uploads = rows \cap Uploads
    BY <1>4, StorageAssumption DEF ImportArtifact, Artifacts
  <1>5. ASSUME NEW F \in {{}} \cup {{a} : a \in Imports}, FailImport(F)
        PROVE  /\ LiveInv' /\ files \subseteq files' /\ upload' = upload
               /\ files' \cap Uploads = files \cap Uploads /\ rows' \cap Uploads = rows \cap Uploads
    <2>1. F \subseteq Imports
      OBVIOUS
    <2>2. QED
      BY <1>5, <2>1, StorageAssumption DEF FailImport, Artifacts
  <1>6. QED
    BY <1>1, <1>2, <1>3, <1>4, <1>5 DEF LiveStep

LEMMA LiveInvariant == Spec => []LiveInv
  <1>1. Init => LiveInv
    BY DEF Init, LiveInv, Quiesced, Snapshotting
  <1>2. LiveInv /\ [Next]_vars => LiveInv'
    <2> SUFFICES ASSUME LiveInv, [Next]_vars PROVE LiveInv'
      OBVIOUS
    <2> USE DEF LiveInv, Quiesced, Publishing, Snapshotting
    <2>1. CASE LiveStep /\ UNCHANGED <<doctor, backupVars, restoreVars, losses>>
      BY <2>1, LiveSteps DEF backupVars
    <2>2. CASE (DoctorReadsRows \/ DoctorReports) /\ UNCHANGED <<liveVars, backupVars, restoreVars, losses>>
      <3>1. UNCHANGED <<upload, rows, files, backup>>
        BY <2>2 DEF liveVars, backupVars
      <3>2. CASE DoctorReadsRows
        BY <3>1, <3>2 DEF DoctorReadsRows
      <3>3. CASE DoctorReports
        <4>1. doctor.rows \ files = {} /\ files \ doctor.rows \in SUBSET Artifacts
          OBVIOUS
        <4>2. QED
          BY <3>1, <3>3, <4>1 DEF DoctorReports
      <3>4. QED
        BY <2>2, <3>2, <3>3
    <2>3. CASE BackupStep /\ UNCHANGED <<liveVars, doctor, restoreVars, losses>>
      BY <2>3 DEF BackupStep, BeginBackup, TakeLock, RefuseLock, MakeTree, CopyDatabase,
         RenameDatabase, StartManifest, SyncTree, TruncateManifest, WriteManifest, DropMarker,
         CompleteBackup, FailBackup, OpenCopy, VerifyCopy, liveVars
    <2>4. CASE RestoreStep /\ UNCHANGED <<liveVars, doctor, backupVars, losses>>
      BY <2>4 DEF liveVars, backupVars
    <2>5. CASE PowerLoss
      <3>1. upload' \in [Uploads -> {"none", "granted", "completing", "renamed", "published"}]
        BY <2>5 DEF PowerLoss, RequestsDie
      <3>2. UNCHANGED <<files, rows>> /\ backup' \notin Snapshotting
        BY <2>5 DEF PowerLoss
      <3>3. /\ doctor' \in [busy : BOOLEAN, rows : SUBSET Artifacts,
                              missing : SUBSET Artifacts, extra : SUBSET Artifacts]
            /\ doctor'.rows = {} /\ doctor'.missing = doctor.missing
        BY <2>5 DEF PowerLoss
      <3>4. QED
        BY <3>1, <3>2, <3>3
    <2>6. CASE UNCHANGED vars
      BY <2>6 DEF vars, liveVars, backupVars
    <2>7. QED
      BY <2>1, <2>2, <2>3, <2>4, <2>5, <2>6 DEF Next
  <1>3. QED
    BY <1>1, <1>2, PTL DEF Spec

-----------------------------------------------------------------------------
(* Backup.                                                                 *)

\* Everything that restore will look for is there, durable, and whole, and no
\* file beside it.
Core == {"db"} \cup Tree

Held(d) ==
    /\ snap = list
    /\ Core \cup list \subseteq d.seen \cap d.kept
    /\ {"db"} \cup list \subseteq d.whole
    /\ (d.seen \cup d.kept) \cap Artifacts \subseteq list

\* The backup is as far as the manifest says: until it is finalized the
\* directory cannot be taken for a backup, and it is finalized only over a
\* copy that is durable.
BackupInv ==
    /\ dst \in Directories /\ dst.whole \subseteq dst.seen
    /\ snap \subseteq Artifacts /\ list \subseteq Artifacts
    /\ backup \in {"idle", "marked", "refused", "failed", "complete"} \cup Snapshotting
    /\ backup \in {"idle", "marked", "refused", "locked", "tree", "copied", "renamed",
                   "copying", "synced", "truncated"} => dst.manifest # "complete"
    /\ backup = "idle" => dst.seen = {} /\ dst.kept = {}
    /\ backup \in {"idle", "marked", "refused", "locked", "tree", "copied", "renamed"}
         => (dst.seen \cup dst.kept) \cap Artifacts = {}
    /\ backup \in {"tree", "copied", "renamed", "copying"} => Tree \subseteq dst.seen
    /\ backup \in {"renamed", "copying"} => "db" \in dst.seen \cap dst.kept \cap dst.whole
    /\ backup = "copying" => /\ snap = list
                             /\ {"sqlite", "evidence", "manifest"} \subseteq dst.seen \cap dst.kept
                             /\ (dst.seen \cup dst.kept) \cap Artifacts \subseteq list
    /\ backup \in {"synced", "truncated"} => Held(dst) /\ "manifest" \in dst.seen \cap dst.kept
    /\ dst.manifest = "complete" => Held(dst)
    /\ backup \in {"finalized", "unmarked", "complete"} =>
         dst.manifest = "complete" /\ "manifest" \in dst.seen \cap dst.kept \cap dst.whole
    /\ backup \in {"unmarked", "complete"} => "marker" \notin dst.seen
    /\ backup = "complete" => "marker" \notin dst.kept

LEMMA BackupSteps ==
    ASSUME BackupInv, BackupStep, rows \subseteq Artifacts PROVE BackupInv'
  <1> USE DEF BackupInv, Snapshotting
  <1>1. CASE BeginBackup
    <2>1. {"marker"} \in SUBSET (Entries \cup Artifacts) /\ "marker" \notin Artifacts
      BY StorageAssumption DEF Entries
    <2>2. QED
      BY <1>1, <2>1, AddedFacts DEF BeginBackup
  <1>2. CASE TakeLock
    BY <1>2 DEF TakeLock
  <1>3. CASE RefuseLock
    BY <1>3, UnlinkedFacts DEF RefuseLock
  <1>4. CASE MakeTree
    <2>1. Tree \in SUBSET (Entries \cup Artifacts) /\ Tree \cap Artifacts = {}
      BY StorageAssumption DEF Entries, Tree
    <2>2. QED
      BY <1>4, <2>1, AddedFacts DEF MakeTree
  <1>5. CASE CopyDatabase
    BY <1>5 DEF CopyDatabase
  <1>6. CASE RenameDatabase
    <2> DEFINE d == Added(dst, {"db"})
               e == Synced(d, {"sqlite"}, Parent)
    <2>1. {"db"} \in SUBSET (Entries \cup Artifacts) /\ "db" \notin Artifacts
      BY StorageAssumption DEF Entries
    <2>2. /\ d \in Directories /\ d.seen = dst.seen \cup {"db"} /\ d.whole = dst.whole \cup {"db"}
          /\ d.kept = dst.kept /\ d.manifest = dst.manifest
      BY <2>1, AddedFacts
    <2>3. dst' = e /\ UNCHANGED <<snap, list>> /\ backup = "copied" /\ backup' = "renamed"
      BY <1>6 DEF RenameDatabase
    <2> HIDE DEF d
    <2>4. /\ e \in Directories /\ e.seen = d.seen /\ e.whole = d.whole /\ e.manifest = d.manifest
          /\ e.kept \subseteq d.seen \cup d.kept /\ "db" \in e.kept
      BY <2>2, SyncedFacts, Parents
    <2> HIDE DEF e
    <2>5. QED
      BY <2>1, <2>2, <2>3, <2>4
  <1>7. CASE StartManifest
    <2> DEFINE c == Added(dst, {"manifest"})
               d == [c EXCEPT !.manifest = "started"]
               e == Synced(d, {"root"}, Parent)
    <2>1. {"manifest"} \in SUBSET (Entries \cup Artifacts) /\ "manifest" \notin Artifacts
      BY StorageAssumption DEF Entries
    <2>2. /\ c \in Directories /\ c.seen = dst.seen \cup {"manifest"}
          /\ c.whole = dst.whole \cup {"manifest"} /\ c.kept = dst.kept
      BY <2>1, AddedFacts
    <2>3. dst' = e /\ snap' = snap /\ list' = snap /\ backup = "renamed" /\ backup' = "copying"
      BY <1>7 DEF StartManifest, Members
    <2> HIDE DEF c
    <2>4. d \in Directories /\ d.seen = c.seen /\ d.whole = c.whole /\ d.kept = c.kept /\ d.manifest = "started"
      BY <2>2 DEF Directories
    <2> HIDE DEF d
    <2>5. /\ e \in Directories /\ e.seen = d.seen /\ e.whole = d.whole /\ e.manifest = d.manifest
          /\ e.kept \subseteq d.seen \cup d.kept
          /\ \A x \in d.seen : Parent[x] \in {"root"} => x \in e.kept
          /\ \A x \in d.kept : Parent[x] \notin {"root"} => x \in e.kept
      BY <2>4, SyncedFacts
    <2> HIDE DEF e
    <2>6. "sqlite" \in e.kept /\ "evidence" \in e.kept /\ "manifest" \in e.kept /\ "db" \in e.kept
      BY <2>2, <2>3, <2>4, <2>5, Parents DEF Tree
    <2>7. (e.seen \cup e.kept) \cap Artifacts = {}
      BY <2>1, <2>2, <2>3, <2>4, <2>5
    <2>8. QED
      BY <2>2, <2>3, <2>4, <2>5, <2>6, <2>7 DEF Tree
  <1>8. CASE SyncTree
    <2> DEFINE e == Synced(dst, TreeDirs, Parent)
    <2>1. dst' = e /\ UNCHANGED <<snap, list>> /\ backup = "copying" /\ backup' = "synced"
          /\ list \subseteq dst.whole
      BY <1>8 DEF SyncTree
    <2>2. /\ e \in Directories /\ e.seen = dst.seen /\ e.whole = dst.whole /\ e.manifest = dst.manifest
          /\ e.kept \subseteq dst.seen \cup dst.kept
          /\ \A x \in dst.seen : Parent[x] \in TreeDirs => x \in e.kept
          /\ \A x \in dst.kept : Parent[x] \notin TreeDirs => x \in e.kept
      BY SyncedFacts
    <2> HIDE DEF e
    <2>3. /\ "db" \in e.kept /\ "published" \in e.kept /\ "sqlite" \in e.kept /\ "evidence" \in e.kept
          /\ "manifest" \in e.kept /\ list \subseteq e.kept
      BY <2>1, <2>2, Parents DEF Tree, TreeDirs
    <2>4. Held(e)
      BY <2>1, <2>2, <2>3 DEF Held, Core, Tree
    <2>5. Held(dst)'
      BY <2>1, <2>4 DEF Held
    <2>6. QED
      BY <2>1, <2>2, <2>3, <2>5
  <1>9. CASE TruncateManifest
    <2> DEFINE e == [dst EXCEPT !.whole = @ \ {"manifest"}]
    <2>1. dst' = e /\ UNCHANGED <<snap, list>> /\ backup = "synced" /\ backup' = "truncated"
      BY <1>9 DEF TruncateManifest
    <2>2. /\ e \in Directories /\ e.seen = dst.seen /\ e.kept = dst.kept /\ e.manifest = dst.manifest
          /\ e.whole = dst.whole \ {"manifest"}
      BY DEF Directories
    <2> HIDE DEF e
    <2>3. Held(e)
      BY <2>1, <2>2, StorageAssumption DEF Held, Entries
    <2>4. Held(dst)'
      BY <2>1, <2>3 DEF Held
    <2>5. QED
      BY <2>1, <2>2, <2>4
  <1>10. CASE WriteManifest
    <2> DEFINE d == [dst EXCEPT !.whole = @ \cup {"manifest"}, !.manifest = "complete"]
               e == Synced(d, {"root"}, Parent)
    <2>1. dst' = e /\ UNCHANGED <<snap, list>> /\ backup = "truncated" /\ backup' = "finalized"
      BY <1>10 DEF WriteManifest
    <2>2. /\ d \in Directories /\ d.seen = dst.seen /\ d.kept = dst.kept /\ d.manifest = "complete"
          /\ d.whole = dst.whole \cup {"manifest"}
      BY DEF Directories, Entries
    <2> HIDE DEF d
    <2>3. /\ e \in Directories /\ e.seen = d.seen /\ e.whole = d.whole /\ e.manifest = d.manifest
          /\ e.kept \subseteq d.seen \cup d.kept
          /\ \A x \in d.seen : Parent[x] \in {"root"} => x \in e.kept
          /\ \A x \in d.kept : Parent[x] \notin {"root"} => x \in e.kept
      BY <2>2, SyncedFacts
    <2> HIDE DEF e
    <2>4. d.seen \cap d.kept \subseteq e.kept
      BY <2>3
    <2>5. Held(e)
      BY <2>1, <2>2, <2>3, <2>4 DEF Held
    <2>6. Held(dst)'
      BY <2>1, <2>5 DEF Held
    <2>7. QED
      BY <2>1, <2>2, <2>3, <2>4, <2>6
  <1>11. CASE DropMarker
    <2>1. /\ dst' \in Directories /\ dst'.seen = dst.seen \ {"marker"}
          /\ dst'.whole = dst.whole \ {"marker"} /\ dst'.kept = dst.kept /\ dst'.manifest = dst.manifest
          /\ UNCHANGED <<snap, list>> /\ backup = "finalized" /\ backup' = "unmarked"
      BY <1>11, UnlinkedFacts DEF DropMarker
    <2>2. "marker" \notin Artifacts
      BY StorageAssumption DEF Entries
    <2>3. Held(dst)'
      BY <2>1, <2>2 DEF Held, Core, Tree
    <2>4. QED
      BY <2>1, <2>3
  <1>12. CASE CompleteBackup
    <2> DEFINE e == Synced(dst, {"root"}, Parent)
    <2>1. dst' = e /\ UNCHANGED <<snap, list>> /\ backup = "unmarked" /\ backup' = "complete"
      BY <1>12 DEF CompleteBackup, LastSync
    <2>2. /\ e \in Directories /\ e.seen = dst.seen /\ e.whole = dst.whole /\ e.manifest = dst.manifest
          /\ e.kept \subseteq dst.seen \cup dst.kept
          /\ \A x \in dst.seen : Parent[x] \in {"root"} => x \in e.kept
          /\ \A x \in dst.kept : Parent[x] \notin {"root"} => x \in e.kept
          /\ \A x \in dst.kept : Parent[x] \in {"root"} /\ x \notin dst.seen => x \notin e.kept
      BY SyncedFacts
    <2> HIDE DEF e
    <2>3. dst.seen \cap dst.kept \subseteq e.kept
      BY <2>2
    <2>4. "marker" \notin e.kept
      BY <2>1, <2>2, Parents
    <2>5. Held(e)
      BY <2>1, <2>2, <2>3 DEF Held
    <2>6. Held(dst)'
      BY <2>1, <2>5 DEF Held
    <2>7. QED
      BY <2>1, <2>2, <2>3, <2>4, <2>6
  <1>13. CASE FailBackup
    BY <1>13 DEF FailBackup, Held
  <1>14. ASSUME NEW a \in Artifacts, OpenCopy(a) \/ VerifyCopy(a) PROVE BackupInv'
    <2>1. backup = "copying" /\ a \in list /\ UNCHANGED <<backup, snap, list>>
      BY <1>14 DEF OpenCopy, VerifyCopy
    <2>2. PICK S \in SUBSET (Entries \cup Artifacts), W \in SUBSET (Entries \cup Artifacts) :
            /\ dst' = [dst EXCEPT !.seen = S, !.whole = W]
            /\ W \subseteq S /\ S \subseteq dst.seen \cup {a} /\ dst.seen \subseteq S /\ dst.whole \subseteq W
      <3>1. CASE OpenCopy(a)
        <4>1. dst' = [dst EXCEPT !.seen = dst.seen \cup {a}, !.whole = dst.whole]
          BY <3>1 DEF OpenCopy, Directories
        <4> dst.seen \cup {a} \in SUBSET (Entries \cup Artifacts)
            /\ dst.whole \in SUBSET (Entries \cup Artifacts)
          BY DEF Directories
        <4>3. dst.whole \subseteq dst.seen \cup {a}
          OBVIOUS
        <4>4. WITNESS dst.seen \cup {a} \in SUBSET (Entries \cup Artifacts),
                      dst.whole \in SUBSET (Entries \cup Artifacts)
        <4>5. QED
          BY <4>1, <4>3
      <3>2. CASE VerifyCopy(a)
        <4>1. dst' = [dst EXCEPT !.seen = dst.seen, !.whole = dst.whole \cup {a}] /\ a \in dst.seen
          BY <3>2 DEF VerifyCopy, Directories
        <4> dst.whole \cup {a} \in SUBSET (Entries \cup Artifacts)
            /\ dst.seen \in SUBSET (Entries \cup Artifacts)
          BY DEF Directories
        <4>3. dst.whole \cup {a} \subseteq dst.seen
          BY <4>1
        <4>4. WITNESS dst.seen \in SUBSET (Entries \cup Artifacts),
                      dst.whole \cup {a} \in SUBSET (Entries \cup Artifacts)
        <4>5. QED
          BY <4>1, <4>3
      <3>3. QED
        BY <1>14, <3>1, <3>2
    <2>3. /\ dst' \in Directories /\ dst'.seen = S /\ dst'.whole = W
          /\ dst'.kept = dst.kept /\ dst'.manifest = dst.manifest
      BY <2>2 DEF Directories
    <2>4. QED
      BY <2>1, <2>2, <2>3
  <1>15. QED
    BY <1>1, <1>2, <1>3, <1>4, <1>5, <1>6, <1>7, <1>8, <1>9, <1>10, <1>11, <1>12, <1>13, <1>14
       DEF BackupStep

\* What a power failure leaves of a backup.
LEMMA BackupPowerLoss ==
    ASSUME BackupInv, PowerLoss PROVE BackupInv'
  <1> USE DEF BackupInv
  <1>1. PICK s : s = dst'
    OBVIOUS
  <1>2. s \in Survivors(dst, Parent) /\ UNCHANGED <<snap, list>>
    BY <1>1 DEF PowerLoss
  <1>3. /\ s \in Directories /\ s.kept = s.seen /\ s.seen \subseteq dst.seen \cup dst.kept
        /\ s.whole = dst.whole \cap s.seen /\ s.manifest = dst.manifest
        /\ \A X \in SUBSET (dst.seen \cap dst.kept) : Closed(X, Parent) => X \subseteq s.seen
    BY <1>2, SurvivorFacts
  <1>4. ASSUME dst.manifest = "complete" PROVE Held(s)
    <2>1. Held(dst)
      BY <1>4
    <2>2. Closed(Core \cup list, Parent)
      <3>1. \A e \in Core \cup list :
              Parent[e] \in {"root", "evidence", "sqlite", "published"}
        BY Parents DEF Core, Tree
      <3>2. QED
        BY <3>1, Parents DEF Closed, Core, Tree
    <2>3. Core \cup list \subseteq s.seen
      BY <1>3, <2>1, <2>2 DEF Held
    <2>4. QED
      BY <1>3, <2>1, <2>3 DEF Held, Core
  <1>5. ASSUME "manifest" \in dst.seen \cap dst.kept PROVE "manifest" \in s.seen
    <2>1. Closed({"manifest"}, Parent)
      BY Parents DEF Closed
    <2>2. {"manifest"} \in SUBSET (dst.seen \cap dst.kept)
      BY <1>5
    <2>3. QED
      BY <1>3, <2>1, <2>2
  <1>6. backup' \in {"idle", "refused", "failed", "complete"}
        /\ (backup' # "failed" => backup' = backup)
    BY DEF PowerLoss, Snapshotting
  <1>7. ASSUME dst'.manifest = "complete" PROVE Held(dst)'
    BY <1>1, <1>2, <1>3, <1>4, <1>7 DEF Held
  <1>8. QED
    BY <1>1, <1>2, <1>3, <1>5, <1>6, <1>7

LEMMA BackupInvariant == Spec => []BackupInv
  <1>1. Init => BackupInv
    BY DEF Init, BackupInv, Empty, Directories, Snapshotting
  <1>2. LiveInv /\ BackupInv /\ [Next]_vars => BackupInv'
    <2> SUFFICES ASSUME LiveInv, BackupInv, [Next]_vars PROVE BackupInv'
      OBVIOUS
    <2>1. CASE BackupStep
      BY <2>1, BackupSteps DEF LiveInv
    <2>2. CASE PowerLoss
      BY <2>2, BackupPowerLoss
    <2>3. CASE UNCHANGED backupVars
      BY <2>3 DEF BackupInv, Held, backupVars
    <2>4. QED
      BY <2>1, <2>2, <2>3 DEF Next, vars
  <1>3. QED
    BY <1>1, <1>2, LiveInvariant, PTL DEF Spec

-----------------------------------------------------------------------------

\* Doctor never reports the file of a row as missing, however long it takes
\* between the table and the tree (runDoctor, verifyEvidence).
THEOREM DoctorFindsEveryFile == Spec => []NothingIsMissing
  <1>1. LiveInv => NothingIsMissing
    BY DEF LiveInv, NothingIsMissing
  <1>2. QED
    BY <1>1, LiveInvariant, PTL

\* The runner's evidence stands still under the exclusive backup lock
\* (runBackup, acquireExclusiveBackupLock, withSharedBackupLock).
THEOREM SnapshotsAreQuiet == Spec => SnapshotIsQuiet
  <1> DEFINE Still == {backup, backup'} \subseteq Snapshotting =>
                        /\ upload' = upload
                        /\ files' \cap Uploads = files \cap Uploads
                        /\ rows' \cap Uploads = rows \cap Uploads
  <1>1. LiveInv /\ [Next]_vars => [Still]_vars
    <2> SUFFICES ASSUME LiveInv, Next PROVE Still
      OBVIOUS
    <2>1. CASE LiveStep /\ UNCHANGED <<doctor, backup>>
      BY <2>1, LiveSteps DEF Quiesced
    <2>2. CASE PowerLoss
      BY <2>2 DEF PowerLoss, Snapshotting
    <2>3. CASE UNCHANGED liveVars
      BY <2>3 DEF liveVars
    <2>4. QED
      BY <2>1, <2>2, <2>3 DEF Next, backupVars
  <1>2. QED
    BY <1>1, LiveInvariant, PTL DEF Spec, SnapshotIsQuiet

\* A directory that restore would begin to read is a whole backup, after any
\* failure of the command, of the process or of the power, and one that was
\* reported complete is such a directory (runBackup, finalizeManifestFile,
\* verifyBackupDirectory).
THEOREM RestorableBackupsAreWhole == Spec => []RestorableIsWhole
  <1>1. BackupInv => RestorableIsWhole
    BY DEF BackupInv, RestorableIsWhole, Restorable, Verified, Held, Core
  <1>2. QED
    BY <1>1, BackupInvariant, PTL

-----------------------------------------------------------------------------
(* Restore.                                                                *)

\* The backup that was verified stays complete, so what it lists is what is
\* copied; and as long as the power does not fail, a directory that is not
\* empty and lacks a listed file has the marker.
RestoreInv ==
    /\ tgt \in Directories /\ tgt.whole \subseteq tgt.seen
    /\ losses \in Nat
    /\ restore \in {"idle", "failed", "complete"} \cup Restoring
    /\ restore # "idle" => dst.manifest = "complete"
    /\ restore \in {"idle", "verified"} => tgt.seen = {} /\ tgt.kept = {}
    /\ restore \in {"marked", "tree", "copying"} => "marker" \in tgt.seen
    /\ restore \in {"tree", "copying"} => {"evidence", "published"} \subseteq tgt.seen
    /\ restore = "copying" => "db" \in tgt.whole
    /\ restore \in {"synced", "unmarked", "complete"} =>
         /\ {"db"} \cup list \subseteq tgt.whole
         /\ {"db", "evidence", "published"} \cup list \subseteq tgt.seen \cap tgt.kept
    /\ restore \in {"unmarked", "complete"} => "marker" \notin tgt.seen
    /\ restore = "complete" => "marker" \notin tgt.kept
    /\ losses = 0 /\ restore # "idle" =>
         tgt.seen = {} \/ "marker" \in tgt.seen \/ list \subseteq tgt.whole

LEMMA RestoreSteps ==
    ASSUME BackupInv, RestoreInv, RestoreStep, UNCHANGED <<backupVars, losses>>
    PROVE  RestoreInv'
  <1> USE DEF RestoreInv, Restoring
  <1>0. UNCHANGED <<list, dst, losses>> /\ list \subseteq Artifacts
        /\ "marker" \notin Artifacts /\ "db" \notin Artifacts
    BY StorageAssumption DEF backupVars, BackupInv, Entries
  <1>1. CASE VerifyBackup
    BY <1>0, <1>1 DEF VerifyBackup, Restorable
  <1>2. CASE MarkTarget
    <2>1. {"marker"} \in SUBSET (Entries \cup Artifacts)
      BY DEF Entries
    <2>2. QED
      BY <1>0, <1>2, <2>1, AddedFacts DEF MarkTarget
  <1>3. CASE MakeDataTree
    <2> DEFINE new == {"evidence", "published", "staging"}
               d == Added(tgt, new)
               e == Synced(d, {"evidence"}, DataParent)
    <2>1. new \in SUBSET (Entries \cup Artifacts)
      BY DEF Entries
    <2>2. /\ d \in Directories /\ d.seen = tgt.seen \cup new /\ d.whole = tgt.whole \cup new
      BY <2>1, AddedFacts
    <2>3. tgt' = e /\ restore = "marked" /\ restore' = "tree"
      BY <1>3 DEF MakeDataTree
    <2> HIDE DEF d
    <2>4. e \in Directories /\ e.seen = d.seen /\ e.whole = d.whole
      BY <2>2, SyncedFacts
    <2> HIDE DEF e
    <2>5. QED
      BY <1>0, <2>2, <2>3, <2>4
  <1>4. CASE RestoreDatabase
    <2>1. {"db"} \in SUBSET (Entries \cup Artifacts)
      BY DEF Entries
    <2>2. QED
      BY <1>0, <1>4, <2>1, AddedFacts DEF RestoreDatabase
  <1>5. CASE SyncData
    <2> DEFINE e == Synced(tgt, DataDirs, DataParent)
    <2>1. tgt' = e /\ restore = "copying" /\ restore' = "synced" /\ list \subseteq tgt.whole
      BY <1>5 DEF SyncData
    <2>2. /\ e \in Directories /\ e.seen = tgt.seen /\ e.whole = tgt.whole
          /\ \A x \in tgt.seen : DataParent[x] \in DataDirs => x \in e.kept
      BY SyncedFacts
    <2> HIDE DEF e
    <2>3. {"db", "evidence", "published"} \cup list \subseteq tgt.seen
      BY <2>1
    <2>4. {"db", "evidence", "published"} \cup list \subseteq e.kept
      BY <1>0, <2>2, <2>3, DataParents DEF DataDirs
    <2>5. QED
      BY <1>0, <2>1, <2>2, <2>3, <2>4
  <1>6. CASE UnmarkTarget
    <2>1. /\ tgt' \in Directories /\ tgt'.seen = tgt.seen \ {"marker"}
          /\ tgt'.whole = tgt.whole \ {"marker"} /\ tgt'.kept = tgt.kept
          /\ restore = "synced" /\ restore' = "unmarked"
      BY <1>6, UnlinkedFacts DEF UnmarkTarget
    <2>2. list \subseteq tgt'.whole
      BY <1>0, <2>1
    <2>3. QED
      BY <1>0, <2>1, <2>2
  <1>7. CASE CompleteRestore
    <2> DEFINE e == Synced(tgt, {"root"}, DataParent)
    <2>1. tgt' = e /\ restore = "unmarked" /\ restore' = "complete"
      BY <1>7 DEF CompleteRestore
    <2>2. /\ e \in Directories /\ e.seen = tgt.seen /\ e.whole = tgt.whole
          /\ \A x \in tgt.seen : DataParent[x] \in {"root"} => x \in e.kept
          /\ \A x \in tgt.kept : DataParent[x] \notin {"root"} => x \in e.kept
          /\ \A x \in tgt.kept : DataParent[x] \in {"root"} /\ x \notin tgt.seen => x \notin e.kept
          /\ e.kept \subseteq tgt.seen \cup tgt.kept
      BY SyncedFacts
    <2> HIDE DEF e
    <2>3. tgt.seen \cap tgt.kept \subseteq e.kept
      BY <2>2
    <2>4. "marker" \notin e.kept
      BY <2>1, <2>2, DataParents
    <2>5. QED
      BY <1>0, <2>1, <2>2, <2>3, <2>4
  <1>8. CASE FailRestore
    BY <1>0, <1>8 DEF FailRestore
  <1>9. CASE Serve
    <2>1. {"db"} \in SUBSET (Entries \cup Artifacts)
      BY DEF Entries
    <2>2. /\ tgt' \in Directories /\ tgt'.seen = tgt.seen \cup {"db"}
          /\ tgt'.whole = tgt.whole \cup {"db"} /\ tgt'.kept = tgt.kept
          /\ tgt.seen # {} /\ restore' = restore
      BY <1>9, <2>1, AddedFacts DEF Serve
    <2>3. QED
      BY <1>0, <2>2
  <1>10. ASSUME NEW a \in Artifacts, RestoreArtifact(a) PROVE RestoreInv'
    <2>1. {a} \in SUBSET (Entries \cup Artifacts)
      OBVIOUS
    <2>2. QED
      BY <1>0, <1>10, <2>1, AddedFacts DEF RestoreArtifact
  <1>11. QED
    BY <1>1, <1>2, <1>3, <1>4, <1>5, <1>6, <1>7, <1>8, <1>9, <1>10 DEF RestoreStep

\* What a power failure leaves of the target.
LEMMA RestorePowerLoss ==
    ASSUME BackupInv, RestoreInv, PowerLoss PROVE RestoreInv'
  <1> USE DEF RestoreInv
  <1>1. PICK s : s = tgt'
    OBVIOUS
  <1>2. s \in Survivors(tgt, DataParent) /\ UNCHANGED list /\ list \subseteq Artifacts
    BY <1>1 DEF PowerLoss, BackupInv
  <1>3. /\ s \in Directories /\ s.kept = s.seen /\ s.seen \subseteq tgt.seen \cup tgt.kept
        /\ s.whole = tgt.whole \cap s.seen
        /\ \A X \in SUBSET (tgt.seen \cap tgt.kept) : Closed(X, DataParent) => X \subseteq s.seen
    BY <1>2, SurvivorFacts
  <1>4. dst'.manifest = dst.manifest
    <2>1. PICK b : b = dst'
      OBVIOUS
    <2>2. b \in Survivors(dst, Parent) /\ dst \in Directories
      BY <2>1 DEF PowerLoss, BackupInv
    <2>3. QED
      BY <2>1, <2>2, SurvivorFacts
  <1>5. ASSUME restore = "complete"
        PROVE  {"db", "evidence", "published"} \cup list \subseteq s.seen
    <2> DEFINE X == {"db", "evidence", "published"} \cup list
    <2>1. X \in SUBSET (tgt.seen \cap tgt.kept)
      BY <1>5
    <2>2. Closed(X, DataParent)
      <3>1. \A e \in X : DataParent[e] \in {"root", "evidence", "published"}
        BY <1>2, DataParents
      <3>2. QED
        BY <3>1, DataParents DEF Closed
    <2>3. QED
      BY <1>3, <2>1, <2>2
  <1>6. /\ restore' \in {"idle", "failed", "complete"}
        /\ restore' # "failed" => restore' = restore
        /\ restore' = "failed" => restore # "idle"
        /\ losses' \in Nat /\ losses' # 0
    BY DEF PowerLoss, Restoring
  <1>7. QED
    BY <1>1, <1>2, <1>3, <1>4, <1>5, <1>6

\* Nothing else writes the target, and once a backup was verified no step
\* changes what it lists.
LEMMA BackupStaysComplete ==
    ASSUME BackupInv, BackupStep, dst.manifest = "complete"
    PROVE  dst'.manifest = "complete" /\ list' = list
  <1> USE DEF BackupInv
  <1>1. backup \in {"finalized", "unmarked", "failed", "complete"}
    BY DEF Snapshotting
  <1>2. CASE DropMarker
    BY <1>2, UnlinkedFacts DEF DropMarker
  <1>3. CASE CompleteBackup
    BY <1>3, SyncedFacts DEF CompleteBackup, LastSync
  <1>4. CASE FailBackup
    BY <1>4 DEF FailBackup
  <1>5. QED
    BY <1>1, <1>2, <1>3, <1>4
       DEF BackupStep, BeginBackup, TakeLock, RefuseLock, MakeTree, CopyDatabase, RenameDatabase,
           StartManifest, SyncTree, TruncateManifest, WriteManifest, OpenCopy, VerifyCopy

LEMMA RestoreInvariant == Spec => []RestoreInv
  <1>1. Init => RestoreInv
    BY DEF Init, RestoreInv, Empty, Directories, Restoring
  <1>2. BackupInv /\ RestoreInv /\ [Next]_vars => RestoreInv'
    <2> SUFFICES ASSUME BackupInv, RestoreInv, [Next]_vars PROVE RestoreInv'
      OBVIOUS
    <2>1. CASE RestoreStep /\ UNCHANGED <<backupVars, losses>>
      BY <2>1, RestoreSteps
    <2>2. CASE PowerLoss
      BY <2>2, RestorePowerLoss
    <2>3. CASE BackupStep /\ UNCHANGED <<restoreVars, losses>>
      <3>1. UNCHANGED <<restore, tgt, losses>>
        BY <2>3 DEF restoreVars
      <3>2. restore # "idle" => dst'.manifest = "complete" /\ list' = list
        BY <2>3, BackupStaysComplete DEF RestoreInv
      <3>3. QED
        BY <3>1, <3>2 DEF RestoreInv, Restoring
    <2>4. CASE UNCHANGED <<backupVars, restoreVars, losses>>
      BY <2>4 DEF RestoreInv, backupVars, restoreVars
    <2>5. QED
      BY <2>1, <2>2, <2>3, <2>4 DEF Next, vars
  <1>3. QED
    BY <1>1, <1>2, BackupInvariant, PTL DEF Spec

\* A restore that was reported complete has every file and keeps it, and one
\* that was interrupted by anything but the power is recognisable by its
\* marker (runRestore).
THEOREM RestoredDirectoriesAreWhole == Spec => []RestoredIsWhole
  <1>1. RestoreInv => RestoredIsWhole
    BY DEF RestoreInv, RestoredIsWhole
  <1>2. QED
    BY <1>1, RestoreInvariant, PTL

-----------------------------------------------------------------------------
(* Types.  The three invariants have most of it.                           *)

TypeInv ==
    /\ import \in {"idle", "running", "done", "failed", "lost"}
    /\ served \in BOOLEAN
    /\ losses \in 0..MaxLoss

LEMMA TypeInvariant == Spec => []TypeInv
  <1>1. Init => TypeInv
    <2>1. Init => served \in BOOLEAN
      BY Zenon DEF Init
    <2>2. Init => losses \in 0..MaxLoss
      BY StorageAssumption DEF Init
    <2>3. Init => import = "idle"
      BY DEF Init
    <2>4. QED
      BY <2>1, <2>2, <2>3 DEF TypeInv
  <1>2. TypeInv /\ [Next]_vars => TypeInv'
    <2> SUFFICES ASSUME TypeInv, [Next]_vars PROVE TypeInv'
      OBVIOUS
    <2> USE DEF TypeInv
    <2>1. CASE LiveStep /\ UNCHANGED <<restoreVars, losses>>
      BY <2>1 DEF LiveStep, Publication, AdmitGrant, BeginComplete, Rename, Commit,
         AbandonComplete, BeginImport, FinishImport, ControlPlaneCrash,
         RequestsDie, ImportArtifact, FailImport, restoreVars
    <2>2. CASE RestoreStep /\ UNCHANGED <<liveVars, losses>>
      BY <2>2 DEF RestoreStep, VerifyBackup, MarkTarget, MakeDataTree, RestoreDatabase,
         RestoreArtifact, SyncData, UnmarkTarget, CompleteRestore, FailRestore, Serve, liveVars
    <2>3. CASE PowerLoss
      BY <2>3, StorageAssumption DEF PowerLoss, RequestsDie
    <2>4. CASE UNCHANGED <<liveVars, restoreVars, losses>>
      BY <2>4 DEF liveVars, restoreVars
    <2>5. QED
      BY <2>1, <2>2, <2>3, <2>4 DEF Next, vars
  <1>3. QED
    BY <1>1, <1>2, PTL DEF Spec

\* Every variable of the storage model keeps its type, the bound on power
\* failures included (backup-restore.ts, doctor.ts).
THEOREM TypeCorrect == Spec => []TypeOK
  <1>1. LiveInv /\ BackupInv /\ RestoreInv /\ TypeInv => TypeOK
    BY DEF LiveInv, BackupInv, RestoreInv, TypeInv, TypeOK
  <1>2. QED
    BY <1>1, LiveInvariant, BackupInvariant, RestoreInvariant, TypeInvariant, PTL

-----------------------------------------------------------------------------
(* Recursion and induction.                                                *)

\* Every non-empty set of numbers has a least one.
LEMMA Least ==
    ASSUME NEW S \in SUBSET Nat, S # {}
    PROVE  \E n \in S : \A m \in S : n <= m
  <1> DEFINE R == {ss \in Nat \X Nat : ss[1] < ss[2]}
  <1>1. IsWellFoundedOn(R, Nat)
    BY NatLessThanWellFounded DEF OpToRel
  <1> HIDE DEF R
  <1>2. PICK n \in S : \A m \in S : ~(<<m, n>> \in R)
    BY <1>1, WFMin
  <1>3. \A x, y \in Nat : y < x => <<y, x>> \in R
    BY DEF R
  <1>4. \A m \in S : n <= m
    <2> SUFFICES ASSUME NEW m \in S PROVE n <= m
      OBVIOUS
    <2>1. n \in Nat /\ m \in Nat
      BY <1>2
    <2>2. ~(m < n)
      BY <1>2, <1>3, <2>1
    <2>3. QED
      BY <2>1, <2>2
  <1>5. QED
    BY <1>2, <1>4

\* Of the things that have a property, one has the least measure.
LEMMA LeastOf ==
    ASSUME NEW D, NEW m \in [D -> Nat], NEW B \in SUBSET D, B # {}
    PROVE  \E d \in B : \A e \in B : ~(m[e] < m[d])
  <1> DEFINE N == {m[d] : d \in B}
  <1>1. N \in SUBSET Nat /\ N # {}
    OBVIOUS
  <1>2. PICK n \in N : \A k \in N : n <= k
    BY <1>1, Least
  <1>3. PICK d \in B : n = m[d]
    BY <1>2
  <1>4. ASSUME NEW e \in B PROVE ~(m[e] < m[d])
    <2>1. m[e] \in Nat /\ m[d] \in Nat /\ m[d] <= m[e]
      BY <1>2, <1>3, <1>4
    <2>2. QED
      BY <2>1
  <1>5. QED
    BY <1>3, <1>4

\* f is defined on D by recursion: where it does not stop, from one value that
\* it has elsewhere.
Solves(f, D, stop, next, base, op) ==
    f = [d \in D |-> IF stop[d] THEN base[d] ELSE op[d][f[next[d]]]]

\* Such a recursion has a solution, if each step lowers a measure.
LEMMA Recursion ==
    ASSUME NEW D, NEW V, NEW m \in [D -> Nat], NEW stop, NEW next, NEW base, NEW op,
           \A d \in D : IF stop[d] THEN base[d] \in V
                        ELSE next[d] \in D /\ m[next[d]] < m[d] /\ op[d] \in [V -> V]
    PROVE  \E f \in [D -> V] : Solves(f, D, stop, next, base, op)
  <1> DEFINE To(n) == {d \in D : m[d] <= n}
             Given(g, d) == IF stop[d] THEN base[d] ELSE op[d][g[next[d]]]
             Upto(n, g) == g \in [To(n) -> V] /\ \A d \in To(n) : g[d] = Given(g, d)
             Bad == {n \in Nat : ~\E g : Upto(n, g)}
             G(n) == CHOOSE g : Upto(n, g)
  <1>1. \A n \in Nat : \A d \in To(n) : ~stop[d] => /\ next[d] \in To(n)
                                                  /\ n # 0 /\ next[d] \in To(n - 1)
    OBVIOUS
  <1>2. Bad = {}
    <2> SUFFICES ASSUME Bad # {} PROVE FALSE
      OBVIOUS
    <2>1. PICK n \in Bad : \A k \in Bad : n <= k
      <3>1. Bad \in SUBSET Nat
        OBVIOUS
      <3> HIDE DEF Bad
      <3>2. QED
        BY <3>1, Least
    <2>2. n \in Nat /\ \E g : n # 0 => Upto(n - 1, g)
      <3>1. n \in Nat
        BY <2>1
      <3>2. CASE n = 0
        BY <3>1, <3>2
      <3>3. CASE n # 0
        <4>1. n - 1 \in Nat /\ ~(n <= n - 1)
          BY <3>1, <3>3
        <4>2. n - 1 \notin Bad
          <5> HIDE DEF Bad
          <5>1. QED
            BY <2>1, <4>1
        <4>3. QED
          BY <3>1, <4>1, <4>2
      <3>4. QED
        BY <3>2, <3>3
    <2>3. PICK g : n # 0 => Upto(n - 1, g)
      BY <2>2
    <2> DEFINE h == [d \in To(n) |-> Given(g, d)]
    <2>4. \A d \in To(n) : h[d] \in V
      <3> SUFFICES ASSUME NEW d \in To(n) PROVE Given(g, d) \in V
        OBVIOUS
      <3>1. CASE stop[d]
        BY <3>1
      <3>2. CASE ~stop[d]
        <4>1. n # 0 /\ next[d] \in To(n - 1)
          BY <1>1, <2>2, <3>2
        <4>2. g[next[d]] \in V
          BY <2>3, <4>1
        <4>3. op[d] \in [V -> V]
          BY <3>2
        <4>4. QED
          BY <3>2, <4>2, <4>3
      <3>3. QED
        BY <3>1, <3>2
    <2>5. \A d \in To(n) : n # 0 /\ d \in To(n - 1) => h[d] = g[d]
      BY <2>3
    <2>6. \A d \in To(n) : h[d] = Given(h, d)
      <3> SUFFICES ASSUME NEW d \in To(n) PROVE h[d] = Given(h, d)
        OBVIOUS
      <3>1. CASE stop[d]
        BY <3>1
      <3>2. CASE ~stop[d]
        <4>1. h[next[d]] = g[next[d]]
          BY <1>1, <2>2, <2>5, <3>2
        <4>2. h[d] = Given(g, d)
          OBVIOUS
        <4> HIDE DEF h
        <4>3. QED
          BY <3>2, <4>1, <4>2
      <3>3. QED
        BY <3>1, <3>2
    <2>7. Upto(n, h)
      <3>1. h \in [To(n) -> V]
        BY <2>4
      <3> HIDE DEF h
      <3>2. QED
        BY <2>6, <3>1
    <2>8. n \notin Bad
      BY <2>7
    <2> HIDE DEF Bad
    <2>9. QED
      BY <2>1, <2>8
  <1>3. \A n \in Nat : Upto(n, G(n))
    <2> HIDE DEF Upto
    <2>1. QED
      BY <1>2
  \* Two solutions agree where both are defined.
  <1>4. ASSUME NEW k \in Nat, NEW l \in Nat, NEW g, NEW h, Upto(k, g), Upto(l, h)
        PROVE  \A d \in To(k) \cap To(l) : g[d] = h[d]
    <2> DEFINE B == {d \in To(k) \cap To(l) : g[d] # h[d]}
    <2> SUFFICES ASSUME B # {} PROVE FALSE
      OBVIOUS
    <2>1. PICK d \in B : \A e \in B : ~(m[e] < m[d])
      <3>1. B \in SUBSET D
        OBVIOUS
      <3> HIDE DEF B
      <3>2. QED
        BY <3>1, LeastOf
    <2>2. d \in To(k) /\ d \in To(l) /\ g[d] # h[d]
      BY <2>1
    <2>3. g[d] = Given(g, d) /\ h[d] = Given(h, d)
      BY <1>4, <2>2
    <2>4. ~stop[d]
      BY <2>2, <2>3
    <2>5. g[next[d]] # h[next[d]]
      BY <2>2, <2>3, <2>4
    <2>6. next[d] \in To(k) /\ next[d] \in To(l)
      BY <1>1, <2>2, <2>4
    <2>7. next[d] \in B
      BY <2>5, <2>6
    <2>8. m[next[d]] < m[d]
      BY <2>2, <2>4
    <2> HIDE DEF B
    <2>9. QED
      BY <2>1, <2>7, <2>8
  <1> DEFINE f == [d \in D |-> G(m[d])[d]]
  <1>5. \A d \in D : d \in To(m[d]) /\ m[d] \in Nat
    OBVIOUS
  <1> HIDE DEF G
  <1>6. \A d \in D : f[d] \in V
    BY <1>3, <1>5
  <1>7. ASSUME NEW d \in D PROVE f[d] = Given(f, d)
    <2>1. G(m[d])[d] = Given(G(m[d]), d)
      BY <1>3, <1>5
    <2>2. CASE stop[d]
      BY <2>1, <2>2
    <2>3. CASE ~stop[d]
      <3>1. next[d] \in D /\ next[d] \in To(m[d])
        BY <1>1, <1>5, <2>3
      <3>2. next[d] \in To(m[next[d]]) /\ m[next[d]] \in Nat /\ m[d] \in Nat
        BY <1>5, <3>1
      <3> HIDE DEF To, Upto
      <3>3. G(m[d])[next[d]] = G(m[next[d]])[next[d]]
        BY <1>3, <1>4, <3>1, <3>2
      <3>4. QED
        BY <2>1, <2>3, <3>1, <3>3
    <2>4. QED
      BY <2>2, <2>3
  <1>8. f \in [D -> V]
    BY <1>6
  <1>9. f = [d \in D |-> Given(f, d)]
    <2> HIDE DEF Given
    <2>1. f = [d \in D |-> f[d]]
      OBVIOUS
    <2> HIDE DEF f
    <2>2. QED
      BY <1>7, <2>1
  <1> HIDE DEF f
  <1>10. QED
    BY <1>8, <1>9 DEF Solves

-----------------------------------------------------------------------------
(* The redactor: sequences.                                                *)

\* What is left of a sequence, what is taken of it, and its first n elements.
LEMMA DropFacts ==
    ASSUME NEW S, NEW s \in Seq(S), NEW n \in 0..Len(s)
    PROVE  /\ Drop(s, n) \in Seq(S) /\ Len(Drop(s, n)) = Len(s) - n
           /\ \A i \in 1..(Len(s) - n) : Drop(s, n)[i] = s[n + i]
  <1>1. Len(s) \in Nat /\ \A i \in 1..Len(s) : s[i] \in S
    BY LenProperties, ElementOfSeq
  <1>2. \A i \in (n + 1)..Len(s) : s[i] \in S
    BY <1>1
  <1>3. n + 1 \in Int /\ Len(s) \in Int
    BY <1>1
  <1>4. /\ SubSeq(s, n + 1, Len(s)) \in Seq(S)
        /\ Len(SubSeq(s, n + 1, Len(s))) = IF n + 1 <= Len(s) THEN Len(s) - (n + 1) + 1 ELSE 0
        /\ \A i \in 1..(Len(s) - (n + 1) + 1) : SubSeq(s, n + 1, Len(s))[i] = s[n + 1 + i - 1]
    BY <1>2, <1>3, SubSeqProperties
  <1>5. QED
    BY <1>1, <1>4 DEF Drop

\* The first n elements of a sequence that has as many.
LEMMA TakeFacts ==
    ASSUME NEW S, NEW s \in Seq(S), NEW n \in 0..Len(s)
    PROVE  /\ SubSeq(s, 1, n) \in Seq(S) /\ Len(SubSeq(s, 1, n)) = n
           /\ \A i \in 1..n : SubSeq(s, 1, n)[i] = s[i]
  <1>1. Len(s) \in Nat /\ \A i \in 1..Len(s) : s[i] \in S
    BY LenProperties, ElementOfSeq
  <1>2. \A i \in 1..n : s[i] \in S
    BY <1>1
  <1>3. /\ SubSeq(s, 1, n) \in Seq(S)
        /\ Len(SubSeq(s, 1, n)) = IF 1 <= n THEN n - 1 + 1 ELSE 0
        /\ \A i \in 1..(n - 1 + 1) : SubSeq(s, 1, n)[i] = s[1 + i - 1]
    BY <1>2, SubSeqProperties
  <1>4. QED
    BY <1>1, <1>3

\* The first n elements of a sequence, or all of them.
LEMMA UpToFacts ==
    ASSUME NEW S, NEW s \in Seq(S), NEW n \in Nat
    PROVE  /\ UpTo(s, n) \in Seq(S) /\ Len(UpTo(s, n)) = (IF Len(s) < n THEN Len(s) ELSE n)
           /\ \A i \in 1..Len(UpTo(s, n)) : UpTo(s, n)[i] = s[i]
  BY TakeFacts, LenProperties DEF UpTo

\* Taking and dropping bytes that are there, whatever comes after them.
LEMMA DropConcat ==
    ASSUME NEW S, NEW s \in Seq(S), NEW w \in Seq(S), NEW n \in 0..Len(s)
    PROVE  /\ Drop(s \o w, n) = Drop(s, n) \o w
           /\ SubSeq(s \o w, 1, n) = SubSeq(s, 1, n)
  <1>1. Len(s) \in Nat /\ Len(w) \in Nat
    BY LenProperties
  <1>2. /\ s \o w \in Seq(S) /\ Len(s \o w) = Len(s) + Len(w)
        /\ \A i \in 1..(Len(s) + Len(w)) : (s \o w)[i] = IF i <= Len(s) THEN s[i] ELSE w[i - Len(s)]
    BY ConcatProperties
  <1>3. n \in 0..Len(s \o w)
    BY <1>1, <1>2
  <1>4. /\ Drop(s \o w, n) \in Seq(S) /\ Len(Drop(s \o w, n)) = Len(s) + Len(w) - n
        /\ \A i \in 1..(Len(s) + Len(w) - n) : Drop(s \o w, n)[i] = (s \o w)[n + i]
    <2> DEFINE x == s \o w
    <2>1. x \in Seq(S) /\ Len(x) = Len(s) + Len(w) /\ n \in 0..Len(x)
      BY <1>2, <1>3
    <2> HIDE DEF x
    <2>2. /\ Drop(x, n) \in Seq(S) /\ Len(Drop(x, n)) = Len(x) - n
          /\ \A i \in 1..(Len(x) - n) : Drop(x, n)[i] = x[n + i]
      BY <2>1, DropFacts
    <2>3. QED
      BY <2>1, <2>2 DEF x
  <1>5. /\ Drop(s, n) \in Seq(S) /\ Len(Drop(s, n)) = Len(s) - n
        /\ \A i \in 1..(Len(s) - n) : Drop(s, n)[i] = s[n + i]
    BY DropFacts
  <1>6. /\ Drop(s, n) \o w \in Seq(S) /\ Len(Drop(s, n) \o w) = Len(s) - n + Len(w)
        /\ \A i \in 1..(Len(s) - n + Len(w)) :
             (Drop(s, n) \o w)[i] = IF i <= Len(s) - n THEN Drop(s, n)[i] ELSE w[i - (Len(s) - n)]
    <2> DEFINE d == Drop(s, n)
    <2>1. d \in Seq(S) /\ Len(d) = Len(s) - n
      BY <1>5
    <2> HIDE DEF d
    <2>2. /\ d \o w \in Seq(S) /\ Len(d \o w) = Len(d) + Len(w)
          /\ \A i \in 1..(Len(d) + Len(w)) : (d \o w)[i] = IF i <= Len(d) THEN d[i] ELSE w[i - Len(d)]
      BY <2>1, ConcatProperties
    <2>3. QED
      BY <2>1, <2>2 DEF d
  <1>7. Drop(s \o w, n) = Drop(s, n) \o w
    <2>1. Len(Drop(s \o w, n)) = Len(Drop(s, n) \o w)
      BY <1>1, <1>4, <1>6
    <2>2. ASSUME NEW i \in 1..Len(Drop(s \o w, n)) PROVE Drop(s \o w, n)[i] = (Drop(s, n) \o w)[i]
      <3>1. i \in 1..(Len(s) + Len(w) - n) /\ n + i \in 1..(Len(s) + Len(w))
        BY <1>1, <1>4
      <3>2. Drop(s \o w, n)[i] = IF n + i <= Len(s) THEN s[n + i] ELSE w[n + i - Len(s)]
        BY <1>2, <1>4, <3>1
      <3>3. i \in 1..(Len(s) - n + Len(w))
        BY <1>1, <3>1
      <3>4. CASE n + i <= Len(s)
        <4>1. i \in 1..(Len(s) - n) /\ i <= Len(s) - n
          BY <1>1, <3>1, <3>4
        <4>2. QED
          BY <1>5, <1>6, <3>2, <3>3, <3>4, <4>1
      <3>5. CASE ~(n + i <= Len(s))
        <4>1. ~(i <= Len(s) - n) /\ i - (Len(s) - n) = n + i - Len(s)
          BY <1>1, <3>1, <3>5
        <4>2. QED
          BY <1>6, <3>2, <3>3, <3>5, <4>1
      <3>6. QED
        BY <3>4, <3>5
    <2>3. QED
      BY <1>4, <1>6, <2>1, <2>2, SeqEqual
  <1>8. SubSeq(s \o w, 1, n) = SubSeq(s, 1, n)
    <2>1. /\ SubSeq(s \o w, 1, n) \in Seq(S) /\ Len(SubSeq(s \o w, 1, n)) = n
          /\ \A i \in 1..n : SubSeq(s \o w, 1, n)[i] = (s \o w)[i]
      BY <1>2, <1>3, TakeFacts
    <2>2. /\ SubSeq(s, 1, n) \in Seq(S) /\ Len(SubSeq(s, 1, n)) = n
          /\ \A i \in 1..n : SubSeq(s, 1, n)[i] = s[i]
      BY TakeFacts
    <2>3. \A i \in 1..n : i \in 1..(Len(s) + Len(w)) /\ i <= Len(s)
      BY <1>1
    <2>4. \A i \in 1..n : SubSeq(s \o w, 1, n)[i] = SubSeq(s, 1, n)[i]
      BY <1>2, <2>1, <2>2, <2>3
    <2>5. QED
      BY <2>1, <2>2, <2>4, SeqEqual
  <1>9. QED
    BY <1>7, <1>8

\* Dropping twice is dropping once.
LEMMA DropDrop ==
    ASSUME NEW S, NEW s \in Seq(S), NEW n \in 0..Len(s), NEW k \in 0..(Len(s) - n)
    PROVE  Drop(Drop(s, n), k) = Drop(s, n + k)
  <1>1. Len(s) \in Nat /\ n + k \in 0..Len(s)
    BY LenProperties
  <1>2. /\ Drop(s, n) \in Seq(S) /\ Len(Drop(s, n)) = Len(s) - n
        /\ \A i \in 1..(Len(s) - n) : Drop(s, n)[i] = s[n + i]
    BY DropFacts
  <1>3. /\ Drop(Drop(s, n), k) \in Seq(S) /\ Len(Drop(Drop(s, n), k)) = Len(s) - n - k
        /\ \A i \in 1..(Len(s) - n - k) : Drop(Drop(s, n), k)[i] = Drop(s, n)[k + i]
    BY <1>2, DropFacts
  <1>4. /\ Drop(s, n + k) \in Seq(S) /\ Len(Drop(s, n + k)) = Len(s) - (n + k)
        /\ \A i \in 1..(Len(s) - (n + k)) : Drop(s, n + k)[i] = s[n + k + i]
    BY <1>1, DropFacts
  <1>5. Len(Drop(Drop(s, n), k)) = Len(Drop(s, n + k))
    <2>1. Len(s) - n - k = Len(s) - (n + k)
      BY <1>1
    <2>2. QED
      BY <1>3, <1>4, <2>1
  <1>6. ASSUME NEW i \in 1..Len(Drop(Drop(s, n), k)) PROVE Drop(Drop(s, n), k)[i] = Drop(s, n + k)[i]
    <2>1. /\ i \in 1..(Len(s) - n - k) /\ i \in 1..(Len(s) - (n + k)) /\ k + i \in 1..(Len(s) - n)
          /\ n + (k + i) = n + k + i
      BY <1>1, <1>3
    <2>2. QED
      BY <1>2, <1>3, <1>4, <2>1
  <1>7. QED
    BY <1>3, <1>4, <1>5, <1>6, SeqEqual

\* Dropping nothing, and dropping everything.
LEMMA DropEnds ==
    ASSUME NEW S, NEW s \in Seq(S)
    PROVE  Drop(s, 0) = s /\ Drop(s, Len(s)) = <<>> /\ (s = <<>> <=> Len(s) = 0)
  <1>1. Len(s) \in Nat
    BY LenProperties
  <1>2. Drop(s, 0) = s
    BY SubSeqFull DEF Drop
  <1>3. Drop(s, Len(s)) = <<>>
    BY <1>1, SubSeqEmpty DEF Drop
  <1>4. s = <<>> <=> Len(s) = 0
    BY EmptySeq
  <1>5. QED
    BY <1>2, <1>3, <1>4

\* The first place of a byte in E, 0 for none.
LEMMA FirstInFacts ==
    ASSUME NEW S, NEW s \in Seq(S), NEW E
    PROVE  /\ FirstIn(s, E) \in 0..Len(s)
           /\ FirstIn(s, E) = 0 => \A i \in 1..Len(s) : s[i] \notin E
           /\ FirstIn(s, E) # 0 => s[FirstIn(s, E)] \in E
           /\ \A i \in 1..Len(s) : i < FirstIn(s, E) => s[i] \notin E
  <1> DEFINE I == {i \in 1..Len(s) : s[i] \in E}
  <1>1. Len(s) \in Nat
    BY LenProperties
  <1>2. FirstIn(s, E) = IF I # {} THEN Min(I) ELSE 0
    BY DEF FirstIn, SelectInSeq
  <1>3. CASE I = {}
    BY <1>1, <1>2, <1>3
  <1>4. CASE I # {}
    <2>1. I \in SUBSET Nat
      BY <1>1
    <2>2. \E n \in I : \A k \in I : n <= k
      BY <1>4, <2>1, Least
    <2>3. Min(I) \in I /\ \A k \in I : Min(I) <= k
      BY <2>2 DEF Min
    <2>4. PICK n : n = FirstIn(s, E) /\ n \in I /\ \A k \in I : n <= k
      BY <1>2, <1>4, <2>3
    <2>5. \A i \in 1..Len(s) : i < n => s[i] \notin E
      BY <1>1, <2>4
    <2>6. n \in 1..Len(s) /\ s[n] \in E
      BY <2>4
    <2>7. QED
      BY <1>1, <2>4, <2>5, <2>6
  <1>5. QED
    BY <1>3, <1>4

\* The first element of a set is the one before which there is none.
LEMMA FirstInIs ==
    ASSUME NEW S, NEW s \in Seq(S), NEW E, NEW e \in 1..Len(s), s[e] \in E,
           \A i \in 1..Len(s) : i < e => s[i] \notin E
    PROVE  FirstIn(s, E) = e
  <1>1. Len(s) \in Nat
    BY LenProperties
  <1>2. FirstIn(s, E) # 0 /\ FirstIn(s, E) \in 0..Len(s) /\ s[FirstIn(s, E)] \in E
    BY FirstInFacts
  <1>3. ~(FirstIn(s, E) < e)
    BY <1>1, <1>2
  <1>4. ~(e < FirstIn(s, E))
    BY FirstInFacts
  <1>5. QED
    BY <1>1, <1>2, <1>3, <1>4

\* A prefix, element by element.
LEMMA PrefixFacts ==
    ASSUME NEW S, NEW p \in Seq(S), NEW s \in Seq(S)
    PROVE  IsPrefix(p, s) <=> Len(p) <= Len(s) /\ \A i \in 1..Len(p) : p[i] = s[i]
  <1>1. Len(p) \in Nat /\ Len(s) \in Nat /\ SubSeq(p, 1, Len(p)) = p
    BY LenProperties, SubSeqFull
  <1>2. CASE Len(p) <= Len(s)
    <2>1. /\ SubSeq(s, 1, Len(p)) \in Seq(S) /\ Len(SubSeq(s, 1, Len(p))) = Len(p)
          /\ \A i \in 1..Len(p) : SubSeq(s, 1, Len(p))[i] = s[i]
      BY <1>1, <1>2, TakeFacts
    <2>2. (\A i \in 1..Len(p) : p[i] = s[i]) => p = SubSeq(s, 1, Len(p))
      BY <2>1, SeqEqual
    <2>3. QED
      BY <1>1, <1>2, <2>1, <2>2 DEF IsPrefix
  <1>3. QED
    BY <1>2 DEF IsPrefix

\* What starts s, with more bytes to come.
LEMMA PrefixConcat ==
    ASSUME NEW S, NEW p \in Seq(S), NEW s \in Seq(S), NEW w \in Seq(S)
    PROVE  /\ IsPrefix(p, s) => IsPrefix(p, s \o w)
           /\ IsPrefix(p, s \o w) => IsPrefix(p, s) \/ IsStrictPrefix(s, p)
  <1>1. Len(p) \in Nat /\ Len(s) \in Nat /\ Len(w) \in Nat
    BY LenProperties
  <1>2. /\ s \o w \in Seq(S) /\ Len(s \o w) = Len(s) + Len(w)
        /\ \A i \in 1..(Len(s) + Len(w)) : (s \o w)[i] = IF i <= Len(s) THEN s[i] ELSE w[i - Len(s)]
    BY ConcatProperties
  <1>3. \A i \in 1..Len(s) : (s \o w)[i] = s[i]
    BY <1>1, <1>2
  <1>4. IsPrefix(p, s \o w) <=> Len(p) <= Len(s) + Len(w) /\ \A i \in 1..Len(p) : p[i] = (s \o w)[i]
    BY <1>2, PrefixFacts
  <1>5. IsPrefix(p, s) <=> Len(p) <= Len(s) /\ \A i \in 1..Len(p) : p[i] = s[i]
    BY PrefixFacts
  <1>6. IsPrefix(s, p) <=> Len(s) <= Len(p) /\ \A i \in 1..Len(s) : s[i] = p[i]
    BY PrefixFacts
  <1>7. ASSUME IsPrefix(p, s) PROVE IsPrefix(p, s \o w)
    <2>1. Len(p) <= Len(s) /\ \A i \in 1..Len(p) : i \in 1..Len(s)
      BY <1>1, <1>5, <1>7
    <2>2. QED
      BY <1>1, <1>3, <1>4, <1>5, <1>7, <2>1
  <1>8. ASSUME IsPrefix(p, s \o w), ~IsPrefix(p, s) PROVE IsPrefix(s, p) /\ s # p
    <2>1. CASE Len(p) <= Len(s)
      <3>1. \A i \in 1..Len(p) : i \in 1..Len(s)
        BY <1>1, <2>1
      <3>2. QED
        BY <1>3, <1>4, <1>5, <1>8, <2>1, <3>1
    <2>2. CASE ~(Len(p) <= Len(s))
      <3>1. Len(s) <= Len(p) /\ Len(s) # Len(p) /\ \A i \in 1..Len(s) : i \in 1..Len(p)
        BY <1>1, <2>2
      <3>2. QED
        BY <1>3, <1>4, <1>6, <1>8, <3>1
    <2>3. QED
      BY <2>1, <2>2
  <1>9. QED
    BY <1>7, <1>8 DEF IsStrictPrefix

\* Two that start the same bytes start one another.
LEMMA PrefixesCompare ==
    ASSUME NEW S, NEW p \in Seq(S), NEW q \in Seq(S), NEW s \in Seq(S), IsPrefix(p, s), IsPrefix(q, s)
    PROVE  IsPrefix(p, q) \/ IsPrefix(q, p)
  <1>1. Len(p) \in Nat /\ Len(q) \in Nat /\ Len(s) \in Nat
    BY LenProperties
  <1>2. /\ Len(p) <= Len(s) /\ \A i \in 1..Len(p) : p[i] = s[i]
        /\ Len(q) <= Len(s) /\ \A i \in 1..Len(q) : q[i] = s[i]
    BY PrefixFacts
  <1>3. CASE Len(p) <= Len(q)
    <2>1. \A i \in 1..Len(p) : p[i] = q[i]
      BY <1>1, <1>2, <1>3
    <2>2. QED
      BY <1>3, <2>1, PrefixFacts
  <1>4. CASE ~(Len(p) <= Len(q))
    <2>1. Len(q) <= Len(p) /\ \A i \in 1..Len(q) : q[i] = p[i]
      BY <1>1, <1>2, <1>4
    <2>2. QED
      BY <2>1, PrefixFacts
  <1>5. QED
    BY <1>3, <1>4

\* The bytes of what goes out.
Symbols == Bytes \cup ToSet(Mark)

\* What goes out is bytes and the mark.
LEMMA MarkType == Mark \in Seq(Symbols) /\ Seq(Bytes) \subseteq Seq(Symbols)
  <1>1. Mark \in Seq(Symbols)
    BY RedactionAssumption, SeqMonotonic DEF Symbols
  <1>2. \A s \in Seq(Bytes) : s \in Seq(Symbols)
    BY SeqMonotonic DEF Symbols
  <1>3. QED
    BY <1>1, <1>2

\* Concatenation is associative.
LEMMA Regroup ==
    ASSUME NEW a \in Seq(Symbols), NEW b \in Seq(Symbols), NEW c \in Seq(Symbols)
    PROVE  a \o (b \o c) = (a \o b) \o c
  BY ConcatAssociative

\* A secret or a credential prefix that starts the bytes is not empty and lies in them.
LEMMA StartFacts ==
    ASSUME NEW s \in Seq(Bytes), NEW p \in Secrets \cup CredentialPrefixes, IsPrefix(p, s)
    PROVE  p \in Seq(Bytes) /\ Len(p) \in 1..Len(s)
  <1>1. p \in Seq(Bytes) /\ p # <<>>
    BY RedactionAssumption
  <1>2. Len(p) \in Nat \ {0} /\ Len(s) \in Nat
    BY <1>1, EmptySeq, LenProperties
  <1>3. QED
    BY <1>1, <1>2, PrefixFacts

\* At most one credential prefix and one secret start the bytes.
LEMMA OneStart ==
    ASSUME NEW s \in Seq(Bytes)
    PROVE  /\ \A p, q \in StartingAt(s, CredentialPrefixes) : p = q
           /\ \A p, q \in StartingAt(s, Secrets) : p = q
           /\ \A p \in StartingAt(s, CredentialPrefixes) : StartingAt(s, CredentialPrefixes) = {p}
           /\ \A p \in StartingAt(s, Secrets) : StartingAt(s, Secrets) = {p}
  <1>1. ASSUME NEW p \in StartingAt(s, CredentialPrefixes), NEW q \in StartingAt(s, CredentialPrefixes)
        PROVE  p = q
    <2>1. p \in Seq(Bytes) /\ q \in Seq(Bytes) /\ IsPrefix(p, s) /\ IsPrefix(q, s)
      BY RedactionAssumption DEF StartingAt
    <2>2. IsPrefix(p, q) \/ IsPrefix(q, p)
      BY <2>1, PrefixesCompare
    <2>3. QED
      BY <2>2, RedactionAssumption DEF StartingAt
  <1>2. ASSUME NEW p \in StartingAt(s, Secrets), NEW q \in StartingAt(s, Secrets)
        PROVE  p = q
    <2>1. p \in Seq(Bytes) /\ q \in Seq(Bytes) /\ IsPrefix(p, s) /\ IsPrefix(q, s)
      BY RedactionAssumption DEF StartingAt
    <2>2. IsPrefix(p, q) \/ IsPrefix(q, p)
      BY <2>1, PrefixesCompare
    <2>3. QED
      BY <2>2, RedactionAssumption DEF StartingAt
  <1>3. QED
    BY <1>1, <1>2

\* What starts the bytes is settled when more of them come: by a prefix or a
\* secret that is there, or when the bytes start none.
LEMMA StartsStay ==
    ASSUME NEW s \in Seq(Bytes), NEW w \in Seq(Bytes)
    PROVE  /\ (StartingAt(s, CredentialPrefixes) # {}) =>
                (StartingAt(s \o w, CredentialPrefixes) = StartingAt(s, CredentialPrefixes))
           /\ (StartingAt(s, Secrets) # {} /\ StartingAt(s, CredentialPrefixes) = {}) =>
                (/\ StartingAt(s \o w, CredentialPrefixes) = {}
                 /\ StartingAt(s \o w, Secrets) = StartingAt(s, Secrets))
           /\ (/\ StartingAt(s, Secrets) = {} /\ StartingAt(s, CredentialPrefixes) = {}
               /\ ~IsPrefixOfAny(s, Secrets \cup CredentialPrefixes)) =>
                (StartingAt(s \o w, CredentialPrefixes) = {} /\ StartingAt(s \o w, Secrets) = {})
  <1> DEFINE x == s \o w
  <1>1. x \in Seq(Bytes)
    BY ConcatProperties
  <1>2. ASSUME NEW p \in Secrets \cup CredentialPrefixes
        PROVE  /\ p \in Seq(Bytes)
               /\ IsPrefix(p, s) => IsPrefix(p, x)
               /\ IsPrefix(p, x) => IsPrefix(p, s) \/ IsStrictPrefix(s, p)
    <2>1. p \in Seq(Bytes)
      BY RedactionAssumption
    <2>2. QED
      BY <2>1, PrefixConcat
  <1> HIDE DEF x
  <1>3. ASSUME NEW p \in StartingAt(s, CredentialPrefixes)
        PROVE  StartingAt(x, CredentialPrefixes) = StartingAt(s, CredentialPrefixes)
    <2>1. p \in StartingAt(x, CredentialPrefixes)
      BY <1>2 DEF StartingAt
    <2>2. QED
      BY <1>1, <2>1, OneStart
  <1>4. ASSUME NEW p \in StartingAt(s, Secrets), StartingAt(s, CredentialPrefixes) = {}
        PROVE  /\ StartingAt(x, CredentialPrefixes) = {}
               /\ StartingAt(x, Secrets) = StartingAt(s, Secrets)
    <2>1. p \in StartingAt(x, Secrets)
      BY <1>2 DEF StartingAt
    <2>2. StartingAt(x, Secrets) = StartingAt(s, Secrets)
      BY <1>1, <2>1, OneStart
    <2>3. ASSUME NEW q \in StartingAt(x, CredentialPrefixes) PROVE FALSE
      <3>1. q \in CredentialPrefixes /\ IsPrefix(q, x) /\ ~IsPrefix(q, s)
        BY <1>4, <2>3 DEF StartingAt
      <3>2. q \in Seq(Bytes) /\ p \in Seq(Bytes) /\ p \in Secrets /\ IsPrefix(p, s)
        BY <1>2, <3>1 DEF StartingAt
      <3>3. IsPrefix(s, q)
        BY <1>2, <3>1 DEF IsStrictPrefix
      <3>4. IsPrefix(p, q)
        <4>1. Len(p) \in Nat /\ Len(q) \in Nat /\ Len(s) \in Nat
          BY <3>2, LenProperties
        <4>2. Len(p) <= Len(s) /\ \A i \in 1..Len(p) : p[i] = s[i]
          BY <3>2, PrefixFacts
        <4>3. Len(s) <= Len(q) /\ \A i \in 1..Len(s) : s[i] = q[i]
          BY <3>2, <3>3, PrefixFacts
        <4>4. Len(p) <= Len(q) /\ \A i \in 1..Len(p) : p[i] = q[i]
          BY <4>1, <4>2, <4>3
        <4>5. QED
          BY <3>2, <4>4, PrefixFacts
      <3>5. p = q
        BY <3>1, <3>2, <3>4, RedactionAssumption
      <3>6. QED
        BY <3>1, <3>2, <3>5
    <2>4. QED
      BY <2>2, <2>3
  <1>5. ASSUME StartingAt(s, Secrets) = {}, StartingAt(s, CredentialPrefixes) = {},
               ~IsPrefixOfAny(s, Secrets \cup CredentialPrefixes)
        PROVE  StartingAt(x, CredentialPrefixes) = {} /\ StartingAt(x, Secrets) = {}
    <2>1. ASSUME NEW p \in Secrets \cup CredentialPrefixes, IsPrefix(p, x) PROVE FALSE
      BY <1>2, <1>5, <2>1 DEF StartingAt, IsPrefixOfAny
    <2>2. QED
      BY <2>1 DEF StartingAt
  <1>6. QED
    BY <1>3, <1>4, <1>5 DEF x

\* A value is kept as far as its mark, and the byte that ends it.
LEMMA KeptType ==
    ASSUME NEW s \in Seq(Bytes), NEW n \in 0..Len(s)
    PROVE  /\ SubSeq(s, 1, n) \o Mark \in Seq(Symbols)
           /\ \A b \in Bytes : (SubSeq(s, 1, n) \o Mark) \o <<b>> \in Seq(Symbols)
  <1>1. SubSeq(s, 1, n) \in Seq(Symbols)
    BY TakeFacts, MarkType
  <1>2. SubSeq(s, 1, n) \o Mark \in Seq(Symbols)
    BY <1>1, MarkType, ConcatProperties
  <1>3. ASSUME NEW b \in Bytes PROVE (SubSeq(s, 1, n) \o Mark) \o <<b>> \in Seq(Symbols)
    <2>1. <<b>> \in Seq(Symbols)
      BY DEF Symbols
    <2>2. QED
      BY <1>2, <2>1, ConcatProperties
  <1>4. QED
    BY <1>2, <1>3

\* Where a value ends is at or after its start.
LEMMA ValueToFacts ==
    ASSUME NEW s \in Seq(Bytes), NEW n \in 0..Len(s), NEW E
    PROVE  /\ ValueTo(s, n, E).emit \in Seq(Symbols)
           /\ ValueTo(s, n, E).take \in n..Len(s)
           /\ n = 0 \/ ValueTo(s, n, E).take # 0
  <1> DEFINE v == Drop(s, n)
             e == FirstIn(v, E)
  <1>1. Len(s) \in Nat
    BY LenProperties
  <1>2. v \in Seq(Bytes) /\ Len(v) = Len(s) - n
    BY DropFacts
  <1>3. e \in 0..(Len(s) - n)
    <2> HIDE DEF v
    <2>1. QED
      BY <1>2, FirstInFacts
  <1> HIDE DEF v, e
  <1>4. ValueTo(s, n, E) = IF e = 0 THEN [emit |-> SubSeq(s, 1, n) \o Mark, take |-> Len(s)]
                           ELSE [emit |-> (SubSeq(s, 1, n) \o Mark) \o <<s[n + e]>>, take |-> n + e]
    BY DEF ValueTo, v, e
  <1>5. CASE e = 0
    <2>1. ValueTo(s, n, E).emit = SubSeq(s, 1, n) \o Mark /\ ValueTo(s, n, E).take = Len(s)
      BY <1>4, <1>5
    <2>2. QED
      BY <1>1, <2>1, KeptType
  <1>6. CASE e # 0
    <2>1. /\ ValueTo(s, n, E).emit = (SubSeq(s, 1, n) \o Mark) \o <<s[n + e]>>
          /\ ValueTo(s, n, E).take = n + e
      BY <1>4, <1>6
    <2>2. n + e \in 1..Len(s)
      BY <1>1, <1>3, <1>6
    <2>3. s[n + e] \in Bytes
      BY <2>2, ElementOfSeq
    <2>4. QED
      BY <1>1, <1>3, <1>6, <2>1, <2>3, KeptType
  <1>7. QED
    BY <1>5, <1>6

\* A piece is not empty and lies in the bytes.
LEMMA PieceFacts ==
    ASSUME NEW s \in Seq(Bytes), s # <<>>
    PROVE  Piece(s).emit \in Seq(Symbols) /\ Piece(s).take \in 1..Len(s)
  <1>1. Len(s) \in Nat \ {0}
    BY EmptySeq
  <1>2. CASE StartingAt(s, CredentialPrefixes) # {}
    <2> DEFINE p == CHOOSE q \in StartingAt(s, CredentialPrefixes) : TRUE
    <2>1. p \in StartingAt(s, CredentialPrefixes)
      BY <1>2
    <2> HIDE DEF p
    <2>2. p \in Secrets \cup CredentialPrefixes /\ IsPrefix(p, s)
      BY <2>1 DEF StartingAt
    <2>3. Len(p) \in 1..Len(s)
      BY <2>2, StartFacts
    <2>4. Piece(s) = IF Len(s) > Len(p) /\ s[Len(p) + 1] \in Quotes
                     THEN ValueTo(s, Len(p) + 1, {s[Len(p) + 1]}) ELSE ValueTo(s, Len(p), Delimiters)
      BY <1>2 DEF Piece, p
    <2>5. CASE Len(s) > Len(p) /\ s[Len(p) + 1] \in Quotes
      <3>1. Len(p) + 1 \in 0..Len(s) /\ Piece(s) = ValueTo(s, Len(p) + 1, {s[Len(p) + 1]})
        BY <1>1, <2>3, <2>4, <2>5
      <3>2. /\ Piece(s).emit \in Seq(Symbols) /\ Piece(s).take \in (Len(p) + 1)..Len(s)
        BY <3>1, ValueToFacts
      <3>3. QED
        BY <1>1, <2>3, <3>2
    <2>6. CASE ~(Len(s) > Len(p) /\ s[Len(p) + 1] \in Quotes)
      <3>1. Len(p) \in 0..Len(s) /\ Piece(s) = ValueTo(s, Len(p), Delimiters)
        BY <1>1, <2>3, <2>4, <2>6
      <3>2. /\ Piece(s).emit \in Seq(Symbols) /\ Piece(s).take \in Len(p)..Len(s)
        BY <3>1, ValueToFacts
      <3>3. QED
        BY <1>1, <2>3, <3>2
    <2>7. QED
      BY <2>5, <2>6
  <1>3. CASE StartingAt(s, CredentialPrefixes) = {} /\ StartingAt(s, Secrets) # {}
    <2>1. PICK p : p \in StartingAt(s, Secrets)
      BY <1>3
    <2>2. StartingAt(s, Secrets) = {p}
      BY <2>1, OneStart
    <2>3. Longest(StartingAt(s, Secrets)) = p
      <3>1. Len(p) <= Len(p)
        <4>1. p \in Secrets \cup CredentialPrefixes /\ IsPrefix(p, s)
          BY <2>1 DEF StartingAt
        <4>2. QED
          BY <4>1, StartFacts
      <3>2. QED
        BY <2>2, <3>1 DEF Longest
    <2>4. Len(p) \in 1..Len(s)
      <3>1. p \in Secrets \cup CredentialPrefixes /\ IsPrefix(p, s)
        BY <2>1 DEF StartingAt
      <3>2. QED
        BY <3>1, StartFacts
    <2>5. Piece(s) = [emit |-> Mark, take |-> Len(p)]
      BY <1>3, <2>3 DEF Piece
    <2>6. QED
      BY <2>4, <2>5, MarkType
  <1>4. CASE StartingAt(s, CredentialPrefixes) = {} /\ StartingAt(s, Secrets) = {}
    <2>1. Piece(s) = [emit |-> <<Head(s)>>, take |-> 1]
      BY <1>4 DEF Piece
    <2>2. Head(s) \in Bytes
      BY HeadTailProperties
    <2>3. <<Head(s)>> \in Seq(Symbols)
      BY <2>2 DEF Symbols
    <2>4. QED
      BY <1>1, <2>1, <2>3
  <1>5. QED
    BY <1>2, <1>3, <1>4

\* The redaction of a whole stream, piece by piece.
LEMMA RedactedFacts ==
    /\ Redacted \in [Seq(Bytes) -> Seq(Symbols)]
    /\ Redacted[<<>>] = <<>>
    /\ \A s \in Seq(Bytes) : s # <<>> =>
         Redacted[s] = Piece(s).emit \o Redacted[Drop(s, Piece(s).take)]
  <1> DEFINE D == Seq(Bytes)
             V == Seq(Symbols)
             m == [s \in D |-> Len(s)]
             stop == [s \in D |-> s = <<>>]
             next == [s \in D |-> Drop(s, Piece(s).take)]
             base == [s \in D |-> <<>>]
             op == [s \in D |-> [v \in V |-> Piece(s).emit \o v]]
             Body(f, s) == IF s = <<>> THEN <<>> ELSE Piece(s).emit \o f[Drop(s, Piece(s).take)]
  <1>1. m \in [D -> Nat]
    BY LenProperties
  <1>2. ASSUME NEW s \in D
        PROVE  IF stop[s] THEN base[s] \in V
               ELSE next[s] \in D /\ m[next[s]] < m[s] /\ op[s] \in [V -> V]
    <2>1. CASE s = <<>>
      <3>1. <<>> \in V
        BY EmptySeq
      <3>2. QED
        BY <2>1, <3>1
    <2>2. CASE s # <<>>
      <3>1. Piece(s).emit \in V /\ Piece(s).take \in 1..Len(s) /\ Len(s) \in Nat
        BY <2>2, PieceFacts, LenProperties
      <3>2. Piece(s).take \in 0..Len(s)
        BY <3>1
      <3>3. next[s] \in D /\ Len(next[s]) = Len(s) - Piece(s).take
        BY <3>2, DropFacts
      <3>4. m[next[s]] < m[s]
        BY <3>1, <3>3
      <3>5. op[s] = [v \in V |-> Piece(s).emit \o v] /\ ~stop[s]
        BY <2>2
      <3>6. op[s] \in [V -> V]
        BY <3>1, <3>5, ConcatProperties
      <3>7. QED
        BY <3>3, <3>4, <3>5, <3>6
    <2>3. QED
      BY <2>1, <2>2
  <1> HIDE DEF D, V, m, stop, next, base, op
  <1>3. PICK f \in [D -> V] : Solves(f, D, stop, next, base, op)
    BY <1>1, <1>2, Recursion
  <1>4. ASSUME NEW s \in D
        PROVE  f[s] = Body(f, s)
    <2>1. f[s] = IF stop[s] THEN base[s] ELSE op[s][f[next[s]]]
      BY <1>3 DEF Solves
    <2>2. CASE s = <<>>
      BY <2>1, <2>2 DEF stop, base
    <2>3. CASE s # <<>>
      <3>1. ~stop[s]
        BY <2>3 DEF stop
      <3>2. next[s] \in D /\ next[s] = Drop(s, Piece(s).take)
        BY <1>2, <3>1 DEF next
      <3>3. f[next[s]] \in V
        BY <1>3, <3>2
      <3>4. op[s][f[next[s]]] = Piece(s).emit \o f[next[s]]
        BY <3>3 DEF op
      <3>5. QED
        BY <2>1, <2>3, <3>1, <3>2, <3>4
    <2>4. QED
      BY <2>2, <2>3
  <1>5. f = [s \in D |-> Body(f, s)]
    <2> HIDE DEF Body
    <2>1. f = [s \in D |-> f[s]]
      BY <1>3
    <2>2. QED
      BY <1>4, <2>1
  <1>6. Redacted = CHOOSE g : g = [s \in D |-> Body(g, s)]
    BY DEF Redacted, D
  <1>7. Redacted = [s \in D |-> Body(Redacted, s)]
    <2> HIDE DEF Body
    <2>1. QED
      BY <1>5, <1>6
  <1>8. \A s \in D : Redacted[s] = Body(Redacted, s)
    <2> HIDE DEF Body
    <2>1. QED
      BY <1>7
  <1>9. \A s \in D : Redacted[s] \in V
    <2> DEFINE B == {s \in D : Redacted[s] \notin V}
    <2> SUFFICES ASSUME B # {} PROVE FALSE
      OBVIOUS
    <2>1. PICK s \in B : \A t \in B : ~(m[t] < m[s])
      <3>1. B \in SUBSET D
        OBVIOUS
      <3> HIDE DEF B
      <3>2. QED
        BY <1>1, <3>1, LeastOf
    <2>2. s \in D /\ Redacted[s] \notin V
      BY <2>1
    <2>3. CASE stop[s]
      BY <1>2, <1>8, <2>2, <2>3 DEF stop, base
    <2>4. CASE ~stop[s]
      <3>1. next[s] \in D /\ m[next[s]] < m[s] /\ next[s] = Drop(s, Piece(s).take) /\ s # <<>>
        BY <1>2, <2>2, <2>4 DEF next, stop
      <3>2. next[s] \notin B
        <4> HIDE DEF B
        <4>1. QED
          BY <2>1, <3>1
      <3>3. Redacted[next[s]] \in V
        BY <3>1, <3>2
      <3>4. Piece(s).emit \in V
        BY <2>2, <3>1, PieceFacts DEF D, V
      <3>5. Redacted[s] = Piece(s).emit \o Redacted[next[s]]
        BY <1>8, <2>2, <3>1
      <3>6. QED
        BY <2>2, <3>3, <3>4, <3>5, ConcatProperties DEF V
    <2>5. QED
      BY <2>3, <2>4
  <1>10. Redacted \in [D -> V]
    <2> HIDE DEF Body
    <2>1. QED
      BY <1>7, <1>9
  <1>11. <<>> \in D
    BY EmptySeq DEF D
  <1>12. QED
    BY <1>8, <1>10, <1>11 DEF D, V

\* What ends the value that is thrown away in a mode, and what goes out when
\* the bytes s come in that mode and nothing comes after them.
Modes == {"no", "unquoted"} \cup Quotes
Ends(mode) == IF mode = "unquoted" THEN Delimiters ELSE {mode}
Cont(s, mode) ==
    IF mode = "no" THEN Redacted[s]
    ELSE IF FirstIn(s, Ends(mode)) = 0 THEN <<>>
    ELSE <<s[FirstIn(s, Ends(mode))]>> \o Redacted[Drop(s, FirstIn(s, Ends(mode)))]

\* Where the value of a leading credential starts, and how it is enclosed.
NameLen(s) == Len(CHOOSE p \in StartingAt(s, CredentialPrefixes) : TRUE)
Quoted(s) == Len(s) > NameLen(s) /\ s[NameLen(s) + 1] \in Quotes
From(s) == IF StartingAt(s, CredentialPrefixes) = {} THEN 0
           ELSE IF Quoted(s) THEN NameLen(s) + 1 ELSE NameLen(s)
Enclosed(s) == IF Quoted(s) THEN s[NameLen(s) + 1] ELSE "unquoted"

\* An end that is in sight stays where it is when more bytes come; one that is
\* not is not among the first bytes.
LEMMA FirstInSight ==
    ASSUME NEW s \in Seq(Bytes), NEW w \in Seq(Bytes), NEW n \in Nat, NEW E
    PROVE  /\ FirstIn(UpTo(s, n), E) \in 0..Len(s)
           /\ FirstIn(UpTo(s, n), E) # 0 => FirstIn(s \o w, E) = FirstIn(UpTo(s, n), E)
           /\ FirstIn(UpTo(s, n), E) = 0 => \A i \in 1..Len(s) : i <= n => s[i] \notin E
  <1> DEFINE u == UpTo(s, n)
             e == FirstIn(u, E)
             x == s \o w
  <1>1. Len(s) \in Nat /\ Len(w) \in Nat
    BY LenProperties
  <1>2. /\ u \in Seq(Bytes) /\ Len(u) = (IF Len(s) < n THEN Len(s) ELSE n)
        /\ \A i \in 1..Len(u) : u[i] = s[i]
    BY UpToFacts
  <1>3. /\ x \in Seq(Bytes) /\ Len(x) = Len(s) + Len(w)
        /\ \A i \in 1..(Len(s) + Len(w)) : x[i] = IF i <= Len(s) THEN s[i] ELSE w[i - Len(s)]
    BY ConcatProperties
  <1> HIDE DEF u, x
  <1>4. /\ e \in 0..Len(u) /\ (e = 0 => \A i \in 1..Len(u) : u[i] \notin E)
        /\ (e # 0 => u[e] \in E) /\ \A i \in 1..Len(u) : i < e => u[i] \notin E
    BY <1>2, FirstInFacts
  <1> HIDE DEF e
  <1>5. Len(u) \in Nat /\ Len(u) <= Len(s)
    BY <1>1, <1>2
  <1>6. ASSUME e # 0 PROVE FirstIn(x, E) = e
    <2>1. e \in 1..Len(x) /\ e \in 1..Len(u)
      BY <1>1, <1>3, <1>4, <1>5, <1>6
    <2>2. x[e] \in E
      BY <1>1, <1>2, <1>3, <1>4, <1>5, <1>6, <2>1
    <2>3. \A i \in 1..Len(x) : i < e => x[i] \notin E
      BY <1>1, <1>2, <1>3, <1>4, <1>5, <2>1
    <2>4. QED
      BY <1>3, <2>1, <2>2, <2>3, FirstInIs
  <1>7. ASSUME e = 0 PROVE \A i \in 1..Len(s) : i <= n => s[i] \notin E
    BY <1>1, <1>2, <1>4, <1>7
  <1>8. QED
    BY <1>1, <1>4, <1>5, <1>6, <1>7 DEF e, u, x

\* Looking past bytes that hold no end.
LEMMA FirstInPast ==
    ASSUME NEW x \in Seq(Bytes), NEW E, NEW k \in 0..Len(x), \A i \in 1..k : x[i] \notin E
    PROVE  FirstIn(x, E) = IF FirstIn(Drop(x, k), E) = 0 THEN 0 ELSE k + FirstIn(Drop(x, k), E)
  <1> DEFINE y == Drop(x, k)
             f == FirstIn(y, E)
  <1>1. Len(x) \in Nat
    BY LenProperties
  <1>2. y \in Seq(Bytes) /\ Len(y) = Len(x) - k /\ \A i \in 1..(Len(x) - k) : y[i] = x[k + i]
    BY DropFacts
  <1> HIDE DEF y
  <1>3. /\ f \in 0..Len(y) /\ (f = 0 => \A i \in 1..Len(y) : y[i] \notin E)
        /\ (f # 0 => y[f] \in E) /\ \A i \in 1..Len(y) : i < f => y[i] \notin E
    BY <1>2, FirstInFacts
  <1> HIDE DEF f
  <1>4. CASE f = 0
    <2>1. \A i \in 1..Len(x) : x[i] \notin E
      <3> TAKE i \in 1..Len(x)
      <3>1. CASE i <= k
        BY <3>1
      <3>2. CASE ~(i <= k)
        <4>1. i - k \in 1..(Len(x) - k) /\ k + (i - k) = i
          BY <1>1, <3>2
        <4>2. y[i - k] = x[i]
          BY <1>2, <4>1
        <4>3. QED
          BY <1>2, <1>3, <1>4, <4>1, <4>2
      <3>3. QED
        BY <3>1, <3>2
    <2>2. FirstIn(x, E) \in 0..Len(x) /\ (FirstIn(x, E) # 0 => x[FirstIn(x, E)] \in E)
      BY FirstInFacts
    <2>3. FirstIn(x, E) = 0
      BY <1>1, <2>1, <2>2
    <2>4. QED
      BY <1>4, <2>3 DEF f, y
  <1>5. CASE f # 0
    <2>1. k + f \in 1..Len(x) /\ f \in 1..(Len(x) - k) /\ f \in 1..Len(y)
      BY <1>1, <1>2, <1>3, <1>5
    <2>2. x[k + f] \in E
      BY <1>2, <1>3, <1>5, <2>1
    <2>3. \A i \in 1..Len(x) : i < k + f => x[i] \notin E
      <3> TAKE i \in 1..Len(x)
      <3>1. CASE i <= k
        BY <3>1
      <3>2. CASE ~(i <= k)
        <4>1. i - k \in 1..(Len(x) - k) /\ k + (i - k) = i /\ (i < k + f => i - k < f)
          BY <1>1, <2>1, <3>2
        <4>2. y[i - k] = x[i]
          BY <1>2, <4>1
        <4>3. QED
          BY <1>2, <1>3, <4>1, <4>2
      <3>3. QED
        BY <3>1, <3>2
    <2>4. FirstIn(x, E) = k + f
      BY <2>1, <2>2, <2>3, FirstInIs
    <2>5. QED
      BY <1>5, <2>4 DEF f, y
  <1>6. QED
    BY <1>4, <1>5

\* One turn u of the loop at the head of s, when n bytes are not of the value:
\* it waits with a value that is not over long, or goes on, or leaves a value
\* that is; and then what it emits begins the redaction `whole` of s and w.
Turned(s, w, n, u, whole) ==
    \/ u = Wait /\ Len(s) <= n + MaxValue
    \/ /\ u.emit \in Seq(Symbols) /\ u.take \in 0..Len(s) /\ u.mode \in Modes
       /\ \/ u.stop = FALSE /\ u.mode = "no" /\ u.take > n
          \/ u.stop = TRUE /\ u.mode # "no" /\ u.take = n + MaxValue /\ u.take < Len(s)
       /\ whole = u.emit \o Cont(Drop(s, u.take) \o w, u.mode)

\* The redaction of x, given the piece v at its head.
Onward(x, v) == v.emit \o Redacted[Drop(x, v.take)]

\* The value of a credential: what one turn of the loop makes of it agrees with
\* the redaction of the whole stream, whatever comes after.
LEMMA ValueTurn ==
    ASSUME NEW s \in Seq(Bytes), NEW w \in Seq(Bytes), NEW n \in 0..Len(s),
           NEW mode \in Modes \ {"no"},
           NEW final \in BOOLEAN, ~final
    PROVE  Turned(s, w, n, Value(s, n, Ends(mode), mode, final),
                  Onward(s \o w, ValueTo(s \o w, n, Ends(mode))))
  <1> DEFINE E == Ends(mode)
             u == Value(s, n, E, mode, final)
             x == s \o w
             v == ValueTo(x, n, E)
             value == Drop(s, n)
             end == FirstIn(UpTo(value, MaxValue + 1), E)
             kept == SubSeq(s, 1, n) \o Mark
  <1> SUFFICES Turned(s, w, n, u, Onward(x, v))
    OBVIOUS
  <1>1. Len(s) \in Nat /\ Len(w) \in Nat /\ MaxValue \in Nat
    BY LenProperties, RedactionAssumption
  <1>2. /\ x \in Seq(Bytes) /\ Len(x) = Len(s) + Len(w)
        /\ \A i \in 1..(Len(s) + Len(w)) : x[i] = IF i <= Len(s) THEN s[i] ELSE w[i - Len(s)]
    BY ConcatProperties
  <1>3. /\ value \in Seq(Bytes) /\ Len(value) = Len(s) - n
        /\ \A i \in 1..(Len(s) - n) : value[i] = s[n + i]
    BY DropFacts
  <1>4. Drop(x, n) = value \o w /\ SubSeq(x, 1, n) = SubSeq(s, 1, n)
    BY DropConcat
  <1>5. /\ kept \in Seq(Symbols)
        /\ \A b \in Bytes : kept \o <<b>> \in Seq(Symbols)
    BY KeptType
  <1>6. u = IF end # 0 THEN Go(kept \o <<value[end]>>, n + end)
            ELSE IF Len(value) < MaxValue + 1 THEN Wait
            ELSE IF Len(value) > MaxValue THEN Stop(kept, n + MaxValue, mode)
            ELSE Stop(kept, Len(s), "no")
    BY DEF Value
  <1>7. v = IF FirstIn(Drop(x, n), E) = 0 THEN [emit |-> SubSeq(x, 1, n) \o Mark, take |-> Len(x)]
            ELSE [emit |-> (SubSeq(x, 1, n) \o Mark) \o <<x[n + FirstIn(Drop(x, n), E)]>>,
                  take |-> n + FirstIn(Drop(x, n), E)]
    BY DEF ValueTo
  <1>8. mode # "no" /\ mode \in Modes
    OBVIOUS
  <1> HIDE DEF E, u, v, x, value, kept
  <1>9. /\ end \in 0..Len(value)
        /\ end # 0 => FirstIn(value \o w, E) = end
        /\ end = 0 => \A i \in 1..Len(value) : i <= MaxValue + 1 => value[i] \notin E
    BY <1>1, <1>3, FirstInSight
  <1> HIDE DEF end
  <1>10. CASE end # 0
    <2>1. u.emit = kept \o <<value[end]>> /\ u.take = n + end /\ u.stop = FALSE /\ u.mode = "no"
      BY <1>6, <1>10 DEF Go
    <2>2. n + end \in 1..Len(s) /\ n + end > n /\ end \in 1..(Len(s) - n)
      BY <1>1, <1>3, <1>9, <1>10
    <2>3. value[end] = s[n + end] /\ x[n + end] = s[n + end] /\ s[n + end] \in Bytes
      BY <1>1, <1>2, <1>3, <2>2, ElementOfSeq
    <2>4. v.emit = kept \o <<s[n + end]>> /\ v.take = n + end
      BY <1>4, <1>7, <1>9, <1>10, <2>3 DEF kept
    <2>5. Drop(x, n + end) = Drop(s, n + end) \o w
      <3> DEFINE j == n + end
      <3>1. j \in 0..Len(s)
        BY <1>1, <2>2
      <3> HIDE DEF j
      <3>2. Drop(s \o w, j) = Drop(s, j) \o w
        BY <3>1, DropConcat
      <3>3. QED
        BY <3>2 DEF x, j
    <2>6. u.emit \in Seq(Symbols)
      BY <1>5, <2>1, <2>3
    <2>7. Onward(x, v) = u.emit \o Cont(Drop(s, u.take) \o w, u.mode)
      BY <2>1, <2>3, <2>4, <2>5 DEF Cont, Onward
    <2>8. u.take \in 0..Len(s) /\ u.take > n /\ u.mode \in Modes
      BY <1>1, <2>1, <2>2 DEF Modes
    <2>9. QED
      BY <2>1, <2>6, <2>7, <2>8 DEF Turned, x
  <1>11. CASE end = 0 /\ Len(value) < MaxValue + 1
    <2>1. u = Wait
      BY <1>6, <1>11
    <2>2. Len(s) <= n + MaxValue
      BY <1>1, <1>3, <1>11
    <2>3. QED
      BY <2>1, <2>2 DEF Turned
  <1>12. CASE end = 0 /\ ~(Len(value) < MaxValue + 1)
    <2> DEFINE y == value \o w
               k == n + MaxValue
               z == Drop(s, k) \o w
               f == FirstIn(z, E)
    <2>1. Len(value) > MaxValue /\ k \in 0..Len(s) /\ k < Len(s) /\ MaxValue \in 0..Len(value) /\ k \in Nat
      BY <1>1, <1>3, <1>12
    <2>2. u.emit = kept /\ u.take = k /\ u.stop = TRUE /\ u.mode = mode
      BY <1>6, <1>12, <2>1 DEF Stop
    <2>3. /\ y \in Seq(Bytes) /\ Len(y) = Len(value) + Len(w)
          /\ \A i \in 1..(Len(value) + Len(w)) : y[i] = IF i <= Len(value) THEN value[i] ELSE w[i - Len(value)]
      BY <1>3, ConcatProperties
    <2>4. Drop(x, k) = z /\ Len(z) = Len(x) - k /\ z \in Seq(Bytes)
      <3>1. Drop(x, k) = z
        BY <2>1, DropConcat DEF x
      <3>2. k \in 0..Len(x)
        BY <1>1, <1>2, <2>1
      <3>3. QED
        BY <1>2, <3>1, <3>2, DropFacts
    <2>5. Drop(y, MaxValue) = z
      <3>1. n \in 0..Len(x) /\ MaxValue \in 0..(Len(x) - n)
        BY <1>1, <1>2, <1>3, <2>1
      <3>2. Drop(Drop(x, n), MaxValue) = Drop(x, n + MaxValue)
        BY <1>2, <3>1, DropDrop
      <3>3. QED
        BY <1>4, <2>4, <3>2
    <2>6. \A i \in 1..MaxValue : y[i] \notin E
      BY <1>1, <1>3, <1>9, <1>12, <2>1, <2>3, LenProperties
    <2>7. MaxValue \in 0..Len(y)
      BY <1>1, <1>3, <2>1, <2>3
    <2> HIDE DEF k, y, z, f
    <2>8. FirstIn(y, E) = IF f = 0 THEN 0 ELSE MaxValue + f
      BY <2>3, <2>5, <2>6, <2>7, FirstInPast DEF f
    <2>9. f \in 0..Len(z) /\ Len(z) \in Nat
      BY <2>4, FirstInFacts, LenProperties DEF f
    <2>10. FirstIn(Drop(x, n), E) = IF f = 0 THEN 0 ELSE MaxValue + f
      BY <1>4, <2>8 DEF y
    <2>13. /\ u.emit \in Seq(Symbols) /\ u.take \in 0..Len(s) /\ u.mode \in Modes
           /\ u.stop = TRUE /\ u.mode # "no" /\ u.take = n + MaxValue /\ u.take < Len(s)
      BY <1>5, <1>8, <2>1, <2>2 DEF k
    <2>11. CASE f = 0
      <3>1. v.emit = kept /\ v.take = Len(x)
        BY <1>4, <1>7, <2>10, <2>11 DEF kept
      <3>2. Redacted[Drop(x, v.take)] = <<>>
        BY <1>2, <3>1, DropEnds, RedactedFacts
      <3>3. Cont(z, mode) = <<>>
        BY <1>8, <2>11 DEF Cont, E, f
      <3>4. Onward(x, v) = u.emit \o Cont(Drop(s, u.take) \o w, u.mode)
        BY <2>2, <3>1, <3>2, <3>3 DEF z, Onward
      <3>5. QED
        BY <2>13, <3>4 DEF x, Turned
    <2>12. CASE f # 0
      <3>1. v.emit = kept \o <<x[n + (MaxValue + f)]>> /\ v.take = n + (MaxValue + f)
        BY <1>1, <1>4, <1>7, <2>9, <2>10, <2>12 DEF kept
      <3>2. n + (MaxValue + f) = k + f /\ f \in 1..(Len(x) - k) /\ k \in 0..Len(x)
        BY <1>1, <1>2, <2>1, <2>4, <2>9, <2>12 DEF k
      <3>3. z[f] = x[k + f]
        BY <1>2, <2>4, <3>2, DropFacts
      <3>4. Drop(z, f) = Drop(x, k + f)
        <4>1. f \in 0..(Len(x) - k)
          BY <1>1, <1>2, <2>4, <3>2
        <4>2. QED
          BY <1>2, <2>4, <3>2, <4>1, DropDrop
      <3>5. Cont(z, mode) = <<z[f]>> \o Redacted[Drop(z, f)]
        BY <1>8, <2>12 DEF Cont, E, f
      <3>6. kept \in Seq(Symbols) /\ <<z[f]>> \in Seq(Symbols) /\ Redacted[Drop(z, f)] \in Seq(Symbols)
        <4>1. z[f] \in Bytes /\ f \in 0..Len(z)
          BY <2>4, <2>9, <2>12, ElementOfSeq
        <4>2. Drop(z, f) \in Seq(Bytes)
          BY <2>4, <4>1, DropFacts
        <4>3. Redacted[Drop(z, f)] \in Seq(Symbols)
          BY <4>2, RedactedFacts
        <4>4. <<z[f]>> \in Seq(Symbols)
          BY <4>1 DEF Symbols
        <4>5. QED
          BY <1>5, <4>3, <4>4
      <3>7. (kept \o <<z[f]>>) \o Redacted[Drop(z, f)] = kept \o (<<z[f]>> \o Redacted[Drop(z, f)])
        <4> DEFINE b == <<z[f]>>
                   c == Redacted[Drop(z, f)]
        <4>1. kept \in Seq(Symbols) /\ b \in Seq(Symbols) /\ c \in Seq(Symbols)
          BY <3>6
        <4> HIDE DEF b, c
        <4>2. (kept \o b) \o c = kept \o (b \o c)
          BY <4>1, Regroup
        <4>3. QED
          BY <4>2 DEF b, c
      <3>8. Onward(x, v) = u.emit \o Cont(Drop(s, u.take) \o w, u.mode)
        BY <2>2, <3>1, <3>2, <3>3, <3>4, <3>5, <3>7 DEF z, Onward
      <3>9. QED
        BY <2>13, <3>8 DEF x, Turned
    <2>14. QED
      BY <2>11, <2>12
  <1>13. QED
    BY <1>10, <1>11, <1>12

\* The turn over a credential that is in sight.
LEMMA CredentialTurn ==
    ASSUME NEW s \in Seq(Bytes), StartingAt(s, CredentialPrefixes) # {}, NEW final \in BOOLEAN
    PROVE  /\ NameLen(s) \in 1..Len(s)
           /\ From(s) \in NameLen(s)..Len(s)
           /\ Enclosed(s) \in Modes \ {"no"}
           /\ Turn(s, final) = Value(s, From(s), Ends(Enclosed(s)), Enclosed(s), final)
           /\ Piece(s) = ValueTo(s, From(s), Ends(Enclosed(s)))
  <1> DEFINE p == CHOOSE q \in StartingAt(s, CredentialPrefixes) : TRUE
             n == Len(p)
  <1>1. p \in StartingAt(s, CredentialPrefixes)
    OBVIOUS
  <1>2. NameLen(s) = n
    BY DEF NameLen
  <1>3. Turn(s, final) = Credential(s, p, final)
    BY DEF Turn
  <1>4. Piece(s) = IF Len(s) > n /\ s[n + 1] \in Quotes
                   THEN ValueTo(s, n + 1, {s[n + 1]}) ELSE ValueTo(s, n, Delimiters)
    BY DEF Piece
  <1> HIDE DEF p
  <1>5. n \in 1..Len(s) /\ Len(s) \in Nat /\ MaxValue \in Nat
    <2>1. p \in Secrets \cup CredentialPrefixes /\ IsPrefix(p, s)
      BY <1>1 DEF StartingAt
    <2>2. QED
      BY <2>1, StartFacts, LenProperties, RedactionAssumption
  <1> HIDE DEF n
  <1>6. Quoted(s) <=> Len(s) > n /\ s[n + 1] \in Quotes
    BY <1>2 DEF Quoted
  <1>7. CASE Quoted(s)
    <2>1. From(s) = n + 1 /\ Enclosed(s) = s[n + 1] /\ n + 1 <= Len(s) /\ Len(s) # n
      BY <1>2, <1>5, <1>6, <1>7 DEF From, Enclosed
    <2>2. s[n + 1] \in Quotes /\ s[n + 1] # "no" /\ s[n + 1] # "unquoted"
      BY <1>6, <1>7, RedactionAssumption
    <2>3. Enclosed(s) \in Modes \ {"no"} /\ Ends(Enclosed(s)) = {s[n + 1]}
      BY <2>1, <2>2 DEF Modes, Ends
    <2>4. Turn(s, final) = Value(s, n + 1, {s[n + 1]}, s[n + 1], final)
      BY <1>3, <2>1, <2>2 DEF Credential, n
    <2>5. QED
      BY <1>2, <1>4, <1>5, <1>6, <1>7, <2>1, <2>3, <2>4
  <1>8. CASE ~Quoted(s)
    <2>1. From(s) = n /\ Enclosed(s) = "unquoted"
      BY <1>2, <1>8 DEF From, Enclosed
    <2>2. Enclosed(s) \in Modes \ {"no"} /\ Ends(Enclosed(s)) = Delimiters
      BY <2>1 DEF Modes, Ends
    <2>3. CASE Len(s) # n
      <3>1. Turn(s, final) = Value(s, n, Delimiters, "unquoted", final)
        <4>1. s[n + 1] \notin Quotes
          BY <1>5, <1>6, <1>8, <2>3
        <4>2. QED
          BY <1>3, <2>3, <4>1 DEF Credential, n
      <3>2. QED
        BY <1>2, <1>4, <1>5, <1>6, <1>8, <2>1, <2>2, <3>1
    <2>4. CASE Len(s) = n
      <3> DEFINE value == Drop(s, n)
                 end == FirstIn(UpTo(value, MaxValue + 1), Delimiters)
      <3>1. Turn(s, final) = IF final THEN Stop(s \o Mark, n, "no") ELSE Wait
        BY <1>3, <2>4 DEF Credential, n
      <3>2. value = <<>> /\ Len(value) = 0
        BY <2>4, DropEnds
      <3>3. end = 0
        <4>1. value \in Seq(Bytes)
          BY <3>2, EmptySeq
        <4>2. UpTo(value, MaxValue + 1) \in Seq(Bytes) /\ Len(UpTo(value, MaxValue + 1)) = 0
          BY <1>5, <3>2, <4>1, UpToFacts
        <4> HIDE DEF value
        <4>3. FirstIn(UpTo(value, MaxValue + 1), Delimiters) \in 0..0
          BY <4>2, FirstInFacts
        <4>4. QED
          BY <4>3
      <3>4. SubSeq(s, 1, n) \o Mark = s \o Mark
        BY <2>4, SubSeqFull
      <3>5. Value(s, n, Delimiters, "unquoted", final)
              = IF end # 0 THEN Go((SubSeq(s, 1, n) \o Mark) \o <<value[end]>>, n + end)
                ELSE IF ~final /\ Len(value) < MaxValue + 1 THEN Wait
                ELSE IF Len(value) > MaxValue /\ (~final \/ "unquoted" = "unquoted")
                  THEN Stop(SubSeq(s, 1, n) \o Mark, n + MaxValue, "unquoted")
                ELSE Stop(SubSeq(s, 1, n) \o Mark, Len(s), "no")
        BY DEF Value
      <3>6. Turn(s, final) = Value(s, n, Delimiters, "unquoted", final)
        <4> HIDE DEF value, end
        <4>1. 0 < MaxValue + 1 /\ ~(0 > MaxValue)
          BY <1>5
        <4>2. CASE final
          BY <2>4, <3>1, <3>2, <3>3, <3>4, <3>5, <4>1, <4>2
        <4>3. CASE ~final
          BY <3>1, <3>2, <3>3, <3>5, <4>1, <4>3
        <4>4. QED
          BY <4>2, <4>3
      <3>7. QED
        BY <1>2, <1>4, <1>5, <1>6, <1>8, <2>1, <2>2, <3>6
    <2>5. QED
      BY <2>3, <2>4
  <1>9. QED
    BY <1>7, <1>8

\* A credential that starts the bytes does so when more of them come, and its
\* value starts where it did, once a byte after the name is there.
LEMMA CredentialStays ==
    ASSUME NEW s \in Seq(Bytes), NEW w \in Seq(Bytes), StartingAt(s, CredentialPrefixes) # {}
    PROVE  /\ StartingAt(s \o w, CredentialPrefixes) # {}
           /\ From(s) <= From(s \o w)
           /\ Len(s) > NameLen(s) => From(s \o w) = From(s) /\ Enclosed(s \o w) = Enclosed(s)
  <1> DEFINE x == s \o w
  <1>1. StartingAt(x, CredentialPrefixes) = StartingAt(s, CredentialPrefixes)
    BY StartsStay
  <1>2. NameLen(x) = NameLen(s)
    BY <1>1 DEF NameLen
  <1>3. NameLen(s) \in 1..Len(s) /\ Len(s) \in Nat /\ Len(w) \in Nat
    BY CredentialTurn, LenProperties
  <1>4. /\ x \in Seq(Bytes) /\ Len(x) = Len(s) + Len(w)
        /\ \A i \in 1..(Len(s) + Len(w)) : x[i] = IF i <= Len(s) THEN s[i] ELSE w[i - Len(s)]
    BY ConcatProperties
  <1> HIDE DEF x
  <1>5. ASSUME Len(s) > NameLen(s)
        PROVE  (Quoted(x) <=> Quoted(s)) /\ x[NameLen(s) + 1] = s[NameLen(s) + 1]
    <2>1. x[NameLen(s) + 1] = s[NameLen(s) + 1]
      BY <1>3, <1>4, <1>5
    <2>2. Len(x) > NameLen(s)
      BY <1>3, <1>4, <1>5
    <2>3. QED
      BY <1>2, <1>5, <2>1, <2>2 DEF Quoted
  <1>6. CASE Len(s) > NameLen(s)
    <2>1. From(x) = From(s) /\ Enclosed(x) = Enclosed(s)
      BY <1>1, <1>2, <1>5, <1>6 DEF From, Enclosed
    <2>2. From(s) \in NameLen(s)..Len(s)
      BY CredentialTurn
    <2>3. From(s) <= From(x)
      BY <1>3, <2>1, <2>2
    <2>4. QED
      BY <1>1, <2>1, <2>3 DEF x
  <1>7. CASE ~(Len(s) > NameLen(s))
    <2>1. From(s) = NameLen(s)
      BY <1>7 DEF From, Quoted
    <2>2. From(x) = NameLen(s) \/ From(x) = NameLen(s) + 1
      BY <1>1, <1>2 DEF From
    <2>3. From(s) <= From(x)
      BY <1>3, <2>1, <2>2
    <2>4. QED
      BY <1>1, <1>7, <2>3 DEF x
  <1>8. QED
    BY <1>6, <1>7

\* The value of a credential starts in the bytes.
LEMMA FromFacts ==
    ASSUME NEW s \in Seq(Bytes)
    PROVE  From(s) \in 0..Len(s) /\ Len(s) \in Nat /\ MaxValue \in Nat
  <1>1. Len(s) \in Nat /\ MaxValue \in Nat
    BY LenProperties, RedactionAssumption
  <1>2. CASE StartingAt(s, CredentialPrefixes) # {}
    <2>1. NameLen(s) \in 1..Len(s) /\ From(s) \in NameLen(s)..Len(s)
      BY <1>2, CredentialTurn
    <2>2. QED
      BY <1>1, <2>1
  <1>3. CASE StartingAt(s, CredentialPrefixes) = {}
    BY <1>1, <1>3 DEF From
  <1>4. QED
    BY <1>2, <1>3

\* A secret, and what is neither secret nor credential.
LEMMA PlainTurn ==
    ASSUME NEW s \in Seq(Bytes), s # <<>>, StartingAt(s, CredentialPrefixes) = {},
           NEW final \in BOOLEAN
    PROVE  /\ Piece(s).take \in 1..Len(s) /\ Piece(s).emit \in Seq(Symbols)
           /\ \/ /\ ~final /\ StartingAt(s, Secrets) = {}
                 /\ IsPrefixOfAny(s, Secrets \cup CredentialPrefixes)
                 /\ Turn(s, final) = Wait /\ Len(s) <= MaxValue
              \/ /\ final \/ StartingAt(s, Secrets) # {} \/ ~IsPrefixOfAny(s, Secrets \cup CredentialPrefixes)
                 /\ Turn(s, final) = Go(Piece(s).emit, Piece(s).take)
  <1>1. Piece(s).take \in 1..Len(s) /\ Piece(s).emit \in Seq(Symbols)
    BY PieceFacts
  <1>2. CASE StartingAt(s, Secrets) # {}
    <2>1. Turn(s, final) = Go(Mark, Len(Longest(StartingAt(s, Secrets))))
      BY <1>2 DEF Turn
    <2>2. Piece(s) = [emit |-> Mark, take |-> Len(Longest(StartingAt(s, Secrets)))]
      BY <1>2 DEF Piece
    <2>3. QED
      BY <1>1, <1>2, <2>1, <2>2
  <1>3. CASE StartingAt(s, Secrets) = {}
    <2>1. Turn(s, final) = IF ~final /\ IsPrefixOfAny(s, Secrets \cup CredentialPrefixes) THEN Wait
                           ELSE Go(<<Head(s)>>, 1)
      BY <1>3 DEF Turn
    <2>2. Piece(s) = [emit |-> <<Head(s)>>, take |-> 1]
      BY <1>3 DEF Piece
    <2>3. ASSUME IsPrefixOfAny(s, Secrets \cup CredentialPrefixes) PROVE Len(s) <= MaxValue
      <3>1. PICK p \in Secrets \cup CredentialPrefixes : IsStrictPrefix(s, p)
        BY <2>3 DEF IsPrefixOfAny
      <3>2. p \in Seq(Bytes) /\ Len(p) <= MaxValue + 1 /\ MaxValue \in Nat
        BY RedactionAssumption
      <3>3. IsPrefix(s, p) /\ s # p
        BY <3>1 DEF IsStrictPrefix
      <3>4. Len(s) \in Nat /\ Len(p) \in Nat /\ Len(s) <= Len(p) /\ \A i \in 1..Len(s) : s[i] = p[i]
        BY <3>2, <3>3, PrefixFacts, LenProperties
      <3>5. Len(s) # Len(p)
        BY <3>2, <3>3, <3>4, SeqEqual
      <3>6. QED
        BY <3>2, <3>4, <3>5
    <2>4. QED
      BY <1>1, <1>3, <2>1, <2>2, <2>3
  <1>4. QED
    BY <1>2, <1>3

\* The bytes stay what they start with: the piece at their head is the same
\* when more of them come.
LEMMA PlainStays ==
    ASSUME NEW s \in Seq(Bytes), NEW w \in Seq(Bytes), s # <<>>,
           StartingAt(s, CredentialPrefixes) = {},
           StartingAt(s, Secrets) # {} \/ ~IsPrefixOfAny(s, Secrets \cup CredentialPrefixes)
    PROVE  s \o w # <<>> /\ Piece(s \o w) = Piece(s)
  <1> DEFINE x == s \o w
  <1>1. x \in Seq(Bytes) /\ Len(x) = Len(s) + Len(w) /\ Len(s) \in Nat \ {0} /\ Len(w) \in Nat
    BY ConcatProperties, LenProperties, EmptySeq
  <1>2. x[1] = s[1]
    BY <1>1, ConcatProperties
  <1>3. StartingAt(x, CredentialPrefixes) = {} /\ StartingAt(x, Secrets) = StartingAt(s, Secrets)
    BY StartsStay
  <1> HIDE DEF x
  <1>4. x # <<>> /\ Head(x) = Head(s)
    BY <1>1, <1>2, EmptySeq
  <1>5. Piece(x) = Piece(s)
    BY <1>3, <1>4 DEF Piece
  <1>6. QED
    BY <1>4, <1>5 DEF x

\* One turn of the loop agrees with the redaction of the whole stream.
LEMMA TurnFacts ==
    ASSUME NEW s \in Seq(Bytes), NEW w \in Seq(Bytes), s # <<>>, NEW final \in BOOLEAN, ~final
    PROVE  Turned(s, w, From(s), Turn(s, final), Redacted[s \o w])
  <1> DEFINE u == Turn(s, final)
             x == s \o w
  <1>1. x \in Seq(Bytes) /\ Len(x) = Len(s) + Len(w) /\ Len(s) \in Nat \ {0} /\ Len(w) \in Nat
    BY ConcatProperties, LenProperties, EmptySeq
  <1>2. Redacted[x] = Onward(x, Piece(x))
    <2> HIDE DEF x
    <2>1. x # <<>>
      BY <1>1, EmptySeq
    <2>2. QED
      BY <1>1, <2>1, RedactedFacts DEF Onward
  <1>3. CASE StartingAt(s, CredentialPrefixes) # {}
    <2> DEFINE mode == Enclosed(s)
               n == From(s)
               v == ValueTo(x, n, Ends(mode))
    <2>1. mode \in Modes \ {"no"} /\ NameLen(s) \in 1..Len(s) /\ n \in NameLen(s)..Len(s)
      BY <1>3, CredentialTurn
    <2>2. u = Value(s, n, Ends(mode), mode, final)
      BY <1>3, CredentialTurn
    <2>3. n \in 0..Len(s)
      BY <2>1
    <2> HIDE DEF mode, n
    <2>4. Turned(s, w, n, u, Onward(x, v))
      <3> HIDE DEF u
      <3>1. Turned(s, w, n, Value(s, n, Ends(mode), mode, final), Onward(x, v))
        BY <2>1, <2>3, ValueTurn
      <3>2. QED
        BY <2>2, <3>1
    <2> HIDE DEF u
    <2>5. CASE u = Wait /\ Len(s) <= n + MaxValue
      <3>1. Turned(s, w, n, u, Redacted[x])
        BY <2>5 DEF Turned
      <3>2. QED
        BY <3>1 DEF u, n, x
    <2>6. CASE ~(u = Wait /\ Len(s) <= n + MaxValue)
      <3>1. u.take \in 0..Len(s) /\ (u.take > n \/ (u.take < Len(s) /\ u.take = n + MaxValue))
        BY <2>4, <2>6 DEF Turned
      <3>2. MaxValue \in Nat
        BY RedactionAssumption
      <3>3. Len(s) > NameLen(s)
        BY <1>1, <2>1, <3>1, <3>2
      <3>4. StartingAt(x, CredentialPrefixes) # {} /\ From(x) = n /\ Enclosed(x) = mode
        BY <1>3, <3>3, CredentialStays DEF n, mode
      <3>5. Piece(x) = v
        <4> HIDE DEF x
        <4>1. Piece(x) = ValueTo(x, From(x), Ends(Enclosed(x)))
          BY <1>1, <3>4, CredentialTurn
        <4>2. QED
          BY <3>4, <4>1
      <3> HIDE DEF v, x
      <3>6. Turned(s, w, n, u, Redacted[x])
        BY <1>2, <2>4, <3>5
      <3>7. QED
        BY <3>6 DEF u, n, x
    <2>7. QED
      BY <2>5, <2>6
  <1>4. CASE StartingAt(s, CredentialPrefixes) = {}
    <2>1. From(s) = 0 /\ MaxValue \in Nat
      BY <1>4, RedactionAssumption DEF From
    <2>2. Piece(s).take \in 1..Len(s) /\ Piece(s).emit \in Seq(Symbols)
      BY <1>4, PlainTurn
    <2>3. \/ u = Wait /\ Len(s) <= MaxValue
          \/ /\ StartingAt(s, Secrets) # {} \/ ~IsPrefixOfAny(s, Secrets \cup CredentialPrefixes)
             /\ u = Go(Piece(s).emit, Piece(s).take)
      BY <1>4, PlainTurn
    <2> HIDE DEF u
    <2>4. CASE u = Wait /\ Len(s) <= MaxValue
      <3>1. Len(s) <= From(s) + MaxValue
        BY <1>1, <2>1, <2>4
      <3>2. QED
        BY <2>4, <3>1 DEF Turned, u
    <2>5. CASE ~(u = Wait /\ Len(s) <= MaxValue)
      <3>1. Piece(x) = Piece(s)
        BY <1>4, <2>3, <2>5, PlainStays
      <3>2. u = Go(Piece(s).emit, Piece(s).take)
        BY <2>3, <2>5
      <3>3. Drop(x, Piece(s).take) = Drop(s, Piece(s).take) \o w
        <4> DEFINE j == Piece(s).take
        <4>1. j \in 0..Len(s)
          BY <2>2
        <4> HIDE DEF j
        <4>2. Drop(x, j) = Drop(s, j) \o w
          BY <4>1, DropConcat
        <4>3. QED
          BY <4>2 DEF j
      <3> HIDE DEF x
      <3>4. u.emit = Piece(s).emit /\ u.take = Piece(s).take /\ u.mode = "no" /\ u.stop = FALSE
        BY <3>2 DEF Go
      <3>5. Redacted[x] = u.emit \o Cont(Drop(s, u.take) \o w, u.mode)
        BY <1>2, <3>1, <3>3, <3>4 DEF Cont, Onward
      <3>6. u.emit \in Seq(Symbols) /\ u.take \in 0..Len(s) /\ u.mode \in Modes /\ u.take > From(s)
        BY <1>1, <2>1, <2>2, <3>4 DEF Modes
      <3>7. Turned(s, w, From(s), u, Redacted[x])
        BY <3>4, <3>5, <3>6 DEF Turned
      <3>8. QED
        BY <3>7 DEF u, x
    <2>6. QED
      BY <2>4, <2>5
  <1>5. QED
    BY <1>3, <1>4

\* A turn u of the flush at the head of s.
Flushed(s, u) ==
    /\ u.emit = Piece(s).emit /\ u.take = Piece(s).take /\ u.mode = "no"
    /\ \/ u.stop = TRUE /\ u.take = Len(s)
       \/ u.stop = FALSE /\ u.take > From(s)

\* At the end of the stream a turn is a piece of the redaction, if no value that
\* is still held back is too long for it.
LEMMA FlushTurn ==
    ASSUME NEW s \in Seq(Bytes), s # <<>>, Len(s) <= From(s) + MaxValue, NEW final \in BOOLEAN, final
    PROVE  Flushed(s, Turn(s, final))
  <1> DEFINE u == Turn(s, final)
  <1>1. Len(s) \in Nat \ {0} /\ MaxValue \in Nat
    BY LenProperties, EmptySeq, RedactionAssumption
  <1>2. CASE StartingAt(s, CredentialPrefixes) # {}
    <2> DEFINE mode == Enclosed(s)
               E == Ends(mode)
               n == From(s)
               value == Drop(s, n)
               near == FirstIn(UpTo(value, MaxValue + 1), E)
               end == FirstIn(value, E)
               kept == SubSeq(s, 1, n) \o Mark
    <2>1. /\ NameLen(s) \in 1..Len(s) /\ n \in NameLen(s)..Len(s)
          /\ u = Value(s, n, E, mode, final) /\ Piece(s) = ValueTo(s, n, E)
      BY <1>2, CredentialTurn
    <2>2. n \in 0..Len(s)
      BY <2>1
    <2>3. /\ value \in Seq(Bytes) /\ Len(value) = Len(s) - n
          /\ \A i \in 1..(Len(s) - n) : value[i] = s[n + i]
      BY <2>2, DropFacts
    <2>4. UpTo(value, MaxValue + 1) = value
      <3> HIDE DEF n, value
      <3>1. Len(value) < MaxValue + 1
        BY <1>1, <2>2, <2>3 DEF n
      <3>2. QED
        BY <2>3, <3>1, SubSeqFull DEF UpTo
    <2>5. u = IF near # 0 THEN Go(kept \o <<value[near]>>, n + near)
              ELSE IF Len(value) > MaxValue /\ mode = "unquoted" THEN Stop(kept, n + MaxValue, mode)
              ELSE Stop(kept, Len(s), "no")
      BY <2>1 DEF Value
    <2>6. Piece(s) = IF end = 0 THEN [emit |-> kept, take |-> Len(s)]
                     ELSE [emit |-> kept \o <<s[n + end]>>, take |-> n + end]
      BY <2>1 DEF ValueTo
    <2>7. near = end
      BY <2>4
    <2> HIDE DEF near, kept, value, n, mode, E
    <2>8. end \in 0..(Len(s) - n)
      BY <2>3, FirstInFacts
    <2> HIDE DEF end, u
    <2>9. ~(Len(value) > MaxValue)
      BY <1>1, <2>2, <2>3 DEF n
    <2>10. CASE end = 0
      <3>1. u = Stop(kept, Len(s), "no")
        BY <2>5, <2>7, <2>9, <2>10
      <3>2. Piece(s).emit = kept /\ Piece(s).take = Len(s)
        BY <2>6, <2>10
      <3>3. Flushed(s, u)
        BY <3>1, <3>2 DEF Stop, Flushed
      <3>4. QED
        BY <3>3 DEF u
    <2>11. CASE end # 0
      <3>1. value[end] = s[n + end] /\ n + end > n
        BY <1>1, <2>2, <2>3, <2>8, <2>11
      <3>2. u = Go(kept \o <<s[n + end]>>, n + end)
        BY <2>5, <2>7, <2>11, <3>1
      <3>3. Piece(s).emit = kept \o <<s[n + end]>> /\ Piece(s).take = n + end
        BY <2>6, <2>11
      <3>4. u.emit = Piece(s).emit /\ u.take = Piece(s).take /\ u.mode = "no" /\ u.stop = FALSE
        BY <3>2, <3>3 DEF Go
      <3>5. u.take > From(s)
        BY <3>1, <3>3, <3>4 DEF n
      <3>6. Flushed(s, u)
        BY <3>4, <3>5 DEF Flushed
      <3>7. QED
        BY <3>6 DEF u
    <2>12. QED
      BY <2>10, <2>11
  <1>3. CASE StartingAt(s, CredentialPrefixes) = {}
    <2>1. u = Go(Piece(s).emit, Piece(s).take) /\ Piece(s).take \in 1..Len(s)
      BY <1>3, PlainTurn
    <2>2. From(s) = 0
      BY <1>3 DEF From
    <2> HIDE DEF u
    <2>3. u.emit = Piece(s).emit /\ u.take = Piece(s).take /\ u.mode = "no" /\ u.stop = FALSE
      BY <2>1 DEF Go
    <2>4. u.take > From(s)
      BY <1>1, <2>1, <2>2, <2>3
    <2>5. Flushed(s, u)
      BY <2>3, <2>4 DEF Flushed
    <2>6. QED
      BY <2>5 DEF u
  <1>4. QED
    BY <1>2, <1>3

\* What a turn may be.
TurnType(s, u) ==
    /\ u.emit \in Seq(Symbols) /\ u.take \in 0..Len(s) /\ u.mode \in Modes
    /\ u.stop = TRUE \/ (u.stop = FALSE /\ u.take > 0)

\* A turn that goes on takes at least one byte.
LEMMA TurnTyped ==
    ASSUME NEW s \in Seq(Bytes), s # <<>>, NEW final \in BOOLEAN
    PROVE  TurnType(s, Turn(s, final))
  <1> DEFINE u == Turn(s, final)
  <1>1. Len(s) \in Nat \ {0} /\ MaxValue \in Nat /\ <<>> \in Seq(Symbols) /\ 0 \in 0..Len(s)
    BY LenProperties, EmptySeq, RedactionAssumption
  <1>2. ASSUME u = Wait PROVE TurnType(s, u)
    BY <1>1, <1>2 DEF Wait, Stop, Modes, TurnType
  <1>3. ASSUME NEW emit \in Seq(Symbols), NEW take \in 1..Len(s), u = Go(emit, take)
        PROVE  TurnType(s, u)
    <2> HIDE DEF u
    <2>1. take \in 0..Len(s) /\ take > 0
      BY <1>1
    <2>2. u.emit = emit /\ u.take = take /\ u.mode = "no" /\ u.stop = FALSE
      BY <1>3 DEF Go
    <2>3. QED
      BY <2>1, <2>2 DEF TurnType, Modes
  <1>4. ASSUME NEW emit \in Seq(Symbols), NEW take \in 0..Len(s), NEW mode \in Modes,
               u = Stop(emit, take, mode)
        PROVE  TurnType(s, u)
    <2> HIDE DEF u
    <2>1. u.emit = emit /\ u.take = take /\ u.mode = mode /\ u.stop = TRUE
      BY <1>4 DEF Stop
    <2>2. QED
      BY <2>1 DEF TurnType
  <1>5. CASE StartingAt(s, CredentialPrefixes) # {}
    <2> DEFINE mode == Enclosed(s)
               E == Ends(mode)
               n == From(s)
               value == Drop(s, n)
               near == FirstIn(UpTo(value, MaxValue + 1), E)
               kept == SubSeq(s, 1, n) \o Mark
    <2>1. /\ NameLen(s) \in 1..Len(s) /\ n \in NameLen(s)..Len(s)
          /\ u = Value(s, n, E, mode, final) /\ mode \in Modes
      BY <1>5, CredentialTurn
    <2>2. n \in 0..Len(s)
      BY <2>1
    <2>3. /\ value \in Seq(Bytes) /\ Len(value) = Len(s) - n
          /\ \A i \in 1..(Len(s) - n) : value[i] = s[n + i]
      BY <2>2, DropFacts
    <2>4. kept \in Seq(Symbols) /\ \A b \in Bytes : kept \o <<b>> \in Seq(Symbols)
      BY <2>2, KeptType
    <2>5. u = IF near # 0 THEN Go(kept \o <<value[near]>>, n + near)
              ELSE IF ~final /\ Len(value) < MaxValue + 1 THEN Wait
              ELSE IF Len(value) > MaxValue /\ (~final \/ mode = "unquoted") THEN Stop(kept, n + MaxValue, mode)
              ELSE Stop(kept, Len(s), "no")
      BY <2>1 DEF Value
    <2> HIDE DEF kept, value, n, mode, E
    <2>6. near \in 0..Len(value)
      BY <1>1, <2>3, FirstInSight
    <2> HIDE DEF near, u
    <2>7. CASE near # 0
      <3>1. value[near] \in Bytes /\ n + near \in 1..Len(s)
        BY <1>1, <2>2, <2>3, <2>6, <2>7, ElementOfSeq
      <3>2. u = Go(kept \o <<value[near]>>, n + near)
        BY <2>5, <2>7
      <3>3. kept \o <<value[near]>> \in Seq(Symbols)
        BY <2>4, <3>1
      <3>4. TurnType(s, u)
        BY <1>3, <3>1, <3>2, <3>3
      <3>5. QED
        BY <3>4 DEF u
    <2>8. CASE near = 0
      <3>1. Len(s) \in 0..Len(s) /\ "no" \in Modes
        BY <1>1 DEF Modes
      <3>2. Len(value) > MaxValue => n + MaxValue \in 0..Len(s)
        BY <1>1, <2>2, <2>3
      <3>3. TurnType(s, u)
        BY <1>2, <1>4, <2>1, <2>4, <2>5, <2>8, <3>1, <3>2
      <3>4. QED
        BY <3>3 DEF u
    <2>9. QED
      BY <2>7, <2>8
  <1>6. CASE StartingAt(s, CredentialPrefixes) = {}
    <2>1. /\ u = Wait \/ u = Go(Piece(s).emit, Piece(s).take)
          /\ Piece(s).take \in 1..Len(s) /\ Piece(s).emit \in Seq(Symbols)
      BY <1>6, PlainTurn
    <2>2. TurnType(s, u)
      BY <1>2, <1>3, <2>1
    <2>3. QED
      BY <2>2
  <1>7. QED
    BY <1>5, <1>6

\* What a run of the loop returns, and how it is built from one turn.
Outcomes == [out : Seq(Symbols), stash : Seq(Bytes), mode : Modes]
After(f, s, t) ==
    IF t.stop = TRUE THEN [out |-> t.emit, stash |-> Drop(s, t.take), mode |-> t.mode]
    ELSE [f[Drop(s, t.take)] EXCEPT !.out = t.emit \o @]

\* One turn and what follows it give an outcome.
LEMMA AfterType ==
    ASSUME NEW s \in Seq(Bytes), NEW t, TurnType(s, t), NEW f \in [Seq(Bytes) -> Outcomes]
    PROVE  Drop(s, t.take) \in Seq(Bytes) /\ After(f, s, t) \in Outcomes
  <1>1. t.emit \in Seq(Symbols) /\ t.take \in 0..Len(s) /\ t.mode \in Modes
    BY DEF TurnType
  <1>2. Drop(s, t.take) \in Seq(Bytes)
    BY <1>1, DropFacts
  <1>3. CASE t.stop = TRUE
    BY <1>1, <1>2, <1>3 DEF After, Outcomes
  <1>4. CASE t.stop # TRUE
    <2> DEFINE r == f[Drop(s, t.take)]
               o == t.emit \o r.out
    <2>1. r \in Outcomes
      BY <1>2
    <2>2. r.out \in Seq(Symbols) /\ r.stash \in Seq(Bytes) /\ r.mode \in Modes
      BY <2>1 DEF Outcomes
    <2> HIDE DEF r
    <2>3. o \in Seq(Symbols)
      BY <1>1, <2>2, ConcatProperties
    <2> HIDE DEF o
    <2>4. [r EXCEPT !.out = o] \in Outcomes
      BY <2>1, <2>3 DEF Outcomes
    <2>5. After(f, s, t) = [r EXCEPT !.out = o]
      BY <1>4 DEF After, r, o
    <2>6. QED
      BY <1>2, <2>4, <2>5
  <1>5. QED
    BY <1>2, <1>3, <1>4

\* The loop is defined on every stash, turn by turn.
LEMMA LoopFacts ==
    ASSUME NEW final \in BOOLEAN
    PROVE  /\ Loop(final) \in [Seq(Bytes) -> Outcomes]
           /\ Loop(final)[<<>>] = [out |-> <<>>, stash |-> <<>>, mode |-> "no"]
           /\ \A s \in Seq(Bytes) : s # <<>> => Loop(final)[s] = After(Loop(final), s, Turn(s, final))
  <1> DEFINE D == Seq(Bytes)
             V == Outcomes
             T(s) == Turn(s, final)
             m == [s \in D |-> Len(s)]
             stop == [s \in D |-> s = <<>> \/ T(s).stop = TRUE]
             next == [s \in D |-> Drop(s, T(s).take)]
             nothing == [out |-> <<>>, stash |-> <<>>, mode |-> "no"]
             base == [s \in D |-> IF s = <<>> THEN nothing
                                  ELSE [out |-> T(s).emit, stash |-> Drop(s, T(s).take), mode |-> T(s).mode]]
             op == [s \in D |-> [v \in V |-> [v EXCEPT !.out = T(s).emit \o @]]]
             Body(f, s) == IF s = <<>> THEN nothing ELSE After(f, s, T(s))
  <1>1. m \in [D -> Nat]
    BY LenProperties
  <1>2. \A s \in D : s # <<>> => TurnType(s, T(s))
    BY TurnTyped
  <1>3. nothing \in V /\ <<>> \in D
    BY EmptySeq DEF Outcomes, Modes
  <1>4. V # {}
    BY <1>3
  <1> HIDE DEF T, nothing
  <1>5. ASSUME NEW s \in D
        PROVE  IF stop[s] THEN base[s] \in V
               ELSE next[s] \in D /\ m[next[s]] < m[s] /\ op[s] \in [V -> V]
    <2>1. CASE s = <<>>
      BY <1>3, <2>1
    <2>2. CASE s # <<>>
      <3>1. TurnType(s, T(s))
        BY <1>2, <2>2
      <3>2. PICK f \in [D -> V] : TRUE
        <4>1. [d \in D |-> nothing] \in [D -> V]
          BY <1>3
        <4>2. QED
          BY <4>1
      <3>3. CASE T(s).stop = TRUE
        <4>1. base[s] = After(f, s, T(s))
          BY <2>2, <3>3 DEF After
        <4>2. stop[s]
          BY <3>3
        <4>3. QED
          BY <3>1, <3>2, <4>1, <4>2, AfterType
      <3>4. CASE T(s).stop # TRUE
        <4>1. ~stop[s]
          BY <2>2, <3>4
        <4>2. T(s).take \in 0..Len(s) /\ T(s).take > 0 /\ Len(s) \in Nat /\ T(s).emit \in Seq(Symbols)
          BY <3>1, <3>4, LenProperties DEF TurnType
        <4>3. next[s] \in D /\ Len(next[s]) = Len(s) - T(s).take
          BY <4>2, DropFacts
        <4>4. m[next[s]] < m[s]
          BY <4>2, <4>3
        <4>5. ASSUME NEW v \in V PROVE [v EXCEPT !.out = T(s).emit \o @] \in V
          <5> DEFINE o == T(s).emit \o v.out
          <5>1. v.out \in Seq(Symbols)
            BY DEF Outcomes
          <5>2. o \in Seq(Symbols)
            BY <4>2, <5>1, ConcatProperties
          <5> HIDE DEF o
          <5>3. [v EXCEPT !.out = o] \in V
            BY <5>2 DEF Outcomes
          <5>4. QED
            BY <5>3 DEF o
        <4>6. op[s] \in [V -> V]
          BY <4>5
        <4>7. QED
          BY <4>1, <4>3, <4>4, <4>6
      <3>5. QED
        BY <3>3, <3>4
    <2>3. QED
      BY <2>1, <2>2
  <1> HIDE DEF D, V, m, stop, next, base, op
  <1>6. PICK f \in [D -> V] : Solves(f, D, stop, next, base, op)
    BY <1>1, <1>5, Recursion
  <1>7. ASSUME NEW s \in D
        PROVE  f[s] = Body(f, s)
    <2>1. f[s] = IF stop[s] THEN base[s] ELSE op[s][f[next[s]]]
      BY <1>6 DEF Solves
    <2>2. CASE s = <<>>
      BY <2>1, <2>2 DEF stop, base
    <2>3. CASE s # <<>> /\ T(s).stop = TRUE
      <3>1. stop[s]
        BY <2>3 DEF stop
      <3>2. base[s] = After(f, s, T(s))
        BY <2>3 DEF base, After
      <3>3. QED
        BY <2>1, <2>3, <3>1, <3>2
    <2>4. CASE s # <<>> /\ T(s).stop # TRUE
      <3>1. ~stop[s]
        BY <2>4 DEF stop
      <3>2. next[s] \in D /\ next[s] = Drop(s, T(s).take)
        BY <1>5, <3>1 DEF next
      <3>3. f[next[s]] \in V
        BY <1>6, <3>2
      <3>4. op[s][f[next[s]]] = [f[next[s]] EXCEPT !.out = T(s).emit \o @]
        BY <3>3 DEF op
      <3>5. op[s][f[next[s]]] = After(f, s, T(s))
        BY <2>4, <3>2, <3>4 DEF After
      <3>6. QED
        BY <2>1, <2>4, <3>1, <3>5
    <2>5. QED
      BY <2>2, <2>3, <2>4
  <1>8. f = [s \in D |-> Body(f, s)]
    <2> HIDE DEF Body
    <2>1. f = [s \in D |-> f[s]]
      BY <1>6
    <2>2. QED
      BY <1>7, <2>1
  <1> DEFINE L == Loop(final)
  <1>9. L = CHOOSE g : g = [s \in D |-> IF s = <<>> THEN nothing
                                        ELSE IF T(s).stop
                                          THEN [out |-> T(s).emit, stash |-> Drop(s, T(s).take), mode |-> T(s).mode]
                                        ELSE [g[Drop(s, T(s).take)] EXCEPT !.out = T(s).emit \o @]]
    BY DEF Loop, D, T, nothing
  <1>10. \A g : [s \in D |-> IF s = <<>> THEN nothing
                             ELSE IF T(s).stop
                               THEN [out |-> T(s).emit, stash |-> Drop(s, T(s).take), mode |-> T(s).mode]
                             ELSE [g[Drop(s, T(s).take)] EXCEPT !.out = T(s).emit \o @]]
                 = [s \in D |-> Body(g, s)]
    <2>1. \A s \in D : s # <<>> => (T(s).stop <=> T(s).stop = TRUE)
      BY <1>2 DEF TurnType
    <2>2. QED
      BY <2>1 DEF After
  <1>11. L = CHOOSE g : g = [s \in D |-> Body(g, s)]
    <2> HIDE DEF Body, L
    <2>1. QED
      BY <1>9, <1>10
  <1> HIDE DEF L
  <1>12. L = [s \in D |-> Body(L, s)]
    <2> HIDE DEF Body
    <2>1. QED
      BY <1>8, <1>11
  <1>13. \A s \in D : L[s] = Body(L, s)
    <2> HIDE DEF Body
    <2>1. QED
      BY <1>12
  <1>14. \A s \in D : L[s] \in V
    <2> DEFINE B == {s \in D : L[s] \notin V}
    <2> SUFFICES ASSUME B # {} PROVE FALSE
      OBVIOUS
    <2>1. PICK s \in B : \A t \in B : ~(m[t] < m[s])
      <3>1. B \in SUBSET D
        OBVIOUS
      <3> HIDE DEF B
      <3>2. QED
        BY <1>1, <3>1, LeastOf
    <2>2. s \in D /\ L[s] \notin V
      BY <2>1
    <2>3. s # <<>>
      BY <1>3, <1>13, <2>2
    <2>4. L[s] = After(L, s, T(s)) /\ TurnType(s, T(s))
      BY <1>2, <1>13, <2>2, <2>3
    <2>5. CASE T(s).stop = TRUE
      <3>1. After(L, s, T(s)) = After(f, s, T(s))
        BY <2>5 DEF After
      <3>2. QED
        BY <1>6, <2>2, <2>4, <3>1, AfterType DEF D, V
    <2>6. CASE T(s).stop # TRUE
      <3>1. ~stop[s]
        BY <2>2, <2>3, <2>6 DEF stop
      <3>2. next[s] \in D /\ m[next[s]] < m[s] /\ next[s] = Drop(s, T(s).take)
        BY <1>5, <2>2, <3>1 DEF next
      <3>3. next[s] \notin B
        <4> HIDE DEF B
        <4>1. QED
          BY <2>1, <3>2
      <3>4. L[next[s]] \in V
        BY <3>2, <3>3
      <3> DEFINE h == [d \in D |-> IF d = next[s] THEN L[d] ELSE f[d]]
      <3>5. h \in [D -> V]
        BY <1>6, <3>4
      <3>6. After(h, s, T(s)) = After(L, s, T(s))
        <4>1. h[Drop(s, T(s).take)] = L[Drop(s, T(s).take)]
          BY <3>2
        <4> HIDE DEF h
        <4>2. QED
          BY <4>1 DEF After
      <3> HIDE DEF h
      <3>7. QED
        BY <2>2, <2>4, <3>5, <3>6, AfterType DEF D, V
    <2>7. QED
      BY <2>5, <2>6
  <1>15. L \in [D -> V]
    <2> HIDE DEF Body
    <2>1. QED
      BY <1>12, <1>14
  <1>16. QED
    BY <1>3, <1>13, <1>15 DEF D, V, L, T, nothing

\* Bytes that are withheld: the loop cannot yet tell what they are.
Withheld(s, final) == s = <<>> \/ Turn(s, final) = Wait

\* What a run of the loop over s returns, against the redaction of s and w.
Redacts(s, w, r, final) ==
    /\ Redacted[s \o w] = r.out \o Cont(r.stash \o w, r.mode)
    /\ r.mode = "no" => Withheld(r.stash, final)
    /\ (Len(s) <= From(s) + MaxValue + MaxChunk /\ r.mode # "no") => Len(r.stash) <= MaxChunk

\* A turn that ends the loop redacts, with what it leaves for later.
LEMMA TurnRedacts ==
    ASSUME NEW s \in Seq(Bytes), NEW w \in Seq(Bytes), s # <<>>, NEW final \in BOOLEAN, ~final,
           NEW t, t = Turn(s, final), t.stop = TRUE
    PROVE  Redacts(s, w, [out |-> t.emit, stash |-> Drop(s, t.take), mode |-> t.mode], final)
  <1>1. Turned(s, w, From(s), t, Redacted[s \o w])
    BY TurnFacts
  <1>2. /\ From(s) \in 0..Len(s) /\ Len(s) \in Nat /\ MaxValue \in Nat /\ MaxChunk \in Nat
        /\ Redacted[s \o w] \in Seq(Symbols)
    <2>1. From(s) \in 0..Len(s) /\ Len(s) \in Nat
      BY FromFacts
    <2>2. MaxValue \in Nat /\ MaxChunk \in Nat
      BY RedactionAssumption
    <2>3. s \o w \in Seq(Bytes)
      BY ConcatProperties
    <2>4. Redacted[s \o w] \in Seq(Symbols)
      BY <2>3, RedactedFacts
    <2>5. QED
      BY <2>1, <2>2, <2>4
  <1>3. CASE t = Wait
    <2>1. t.emit = <<>> /\ t.take = 0 /\ t.mode = "no"
      BY <1>3 DEF Wait, Stop
    <2>2. Drop(s, t.take) = s
      BY <2>1, DropEnds
    <2>3. t.emit \o Cont(s \o w, t.mode) = Redacted[s \o w]
      BY <1>2, <2>1, ConcatEmptySeq DEF Cont
    <2>4. Withheld(s, final)
      BY <1>3 DEF Withheld
    <2>5. QED
      BY <2>1, <2>2, <2>3, <2>4 DEF Redacts
  <1>4. CASE t # Wait
    <2>1. /\ t.take \in 0..Len(s) /\ t.mode # "no" /\ t.take = From(s) + MaxValue
          /\ Redacted[s \o w] = t.emit \o Cont(Drop(s, t.take) \o w, t.mode)
      BY <1>1, <1>4 DEF Turned
    <2>2. Len(Drop(s, t.take)) = Len(s) - t.take
      BY <2>1, DropFacts
    <2>3. Len(s) <= From(s) + MaxValue + MaxChunk => Len(Drop(s, t.take)) <= MaxChunk
      BY <1>2, <2>1, <2>2
    <2>4. QED
      BY <2>1, <2>3 DEF Redacts
  <1>5. QED
    BY <1>3, <1>4

\* A turn that goes on redacts, if what follows it does.
LEMMA GoRedacts ==
    ASSUME NEW s \in Seq(Bytes), NEW w \in Seq(Bytes), s # <<>>, NEW final \in BOOLEAN, ~final,
           NEW t, t = Turn(s, final), t.stop # TRUE,
           NEW r \in Outcomes, Redacts(Drop(s, t.take), w, r, final)
    PROVE  Redacts(s, w, [r EXCEPT !.out = t.emit \o @], final)
  <1> DEFINE rest == Drop(s, t.take)
             q == [r EXCEPT !.out = t.emit \o @]
  <1>1. Turned(s, w, From(s), t, Redacted[s \o w])
    BY TurnFacts
  <1>2. /\ From(s) \in 0..Len(s) /\ Len(s) \in Nat /\ MaxValue \in Nat /\ MaxChunk \in Nat
    BY FromFacts, RedactionAssumption
  <1>3. t # Wait
    <2>1. Wait.stop = TRUE
      BY DEF Wait, Stop
    <2>2. QED
      BY <2>1
  <1>4. /\ t.emit \in Seq(Symbols) /\ t.take \in 0..Len(s) /\ t.mode = "no" /\ t.take > From(s)
        /\ Redacted[s \o w] = t.emit \o Cont(rest \o w, t.mode)
    BY <1>1, <1>3 DEF Turned
  <1>5. rest \in Seq(Bytes) /\ Len(rest) = Len(s) - t.take
    BY <1>4, DropFacts
  <1>6. Redacted[s \o w] = t.emit \o Redacted[rest \o w]
    BY <1>4 DEF Cont
  <1>7. r.out \in Seq(Symbols) /\ r.stash \in Seq(Bytes) /\ r.mode \in Modes
    BY DEF Outcomes
  <1>8. q.out = t.emit \o r.out /\ q.stash = r.stash /\ q.mode = r.mode
    BY DEF Outcomes
  <1> HIDE DEF q, rest
  <1>9. /\ Redacted[rest \o w] = r.out \o Cont(r.stash \o w, r.mode)
        /\ r.mode = "no" => Withheld(r.stash, final)
        /\ (Len(rest) <= From(rest) + MaxValue + MaxChunk /\ r.mode # "no") => Len(r.stash) <= MaxChunk
    BY DEF Redacts, rest
  <1>10. Cont(r.stash \o w, r.mode) \in Seq(Symbols)
    <2> DEFINE x == r.stash \o w
    <2>1. x \in Seq(Bytes)
      BY <1>7, ConcatProperties
    <2> HIDE DEF x
    <2>2. Redacted[x] \in Seq(Symbols) /\ <<>> \in Seq(Symbols)
      BY <2>1, RedactedFacts, EmptySeq
    <2> DEFINE f == FirstIn(x, Ends(r.mode))
    <2>3. f \in 0..Len(x) /\ Len(x) \in Nat
      BY <2>1, FirstInFacts, LenProperties
    <2> HIDE DEF f
    <2>4. f # 0 => <<x[f]>> \o Redacted[Drop(x, f)] \in Seq(Symbols)
      <3> HAVE f # 0
      <3>1. x[f] \in Bytes
        BY <2>1, <2>3, ElementOfSeq
      <3> DEFINE b == <<x[f]>>
                 c == Redacted[Drop(x, f)]
      <3>2. b \in Seq(Symbols)
        BY <3>1 DEF Symbols
      <3>3. Drop(x, f) \in Seq(Bytes)
        BY <2>1, <2>3, DropFacts
      <3>4. c \in Seq(Symbols)
        BY <3>3, RedactedFacts
      <3> HIDE DEF b, c
      <3>5. b \o c \in Seq(Symbols)
        BY <3>2, <3>4, ConcatProperties
      <3>6. QED
        BY <3>5 DEF b, c
    <2>5. Cont(x, r.mode) \in Seq(Symbols)
      BY <2>2, <2>4 DEF Cont, f
    <2>6. QED
      BY <2>5 DEF x
  <1>11. Redacted[s \o w] = q.out \o Cont(q.stash \o w, q.mode)
    <2> DEFINE c == Cont(r.stash \o w, r.mode)
    <2>1. Redacted[s \o w] = t.emit \o (r.out \o c)
      BY <1>6, <1>9
    <2>2. c \in Seq(Symbols)
      BY <1>10
    <2> HIDE DEF c
    <2>3. t.emit \o (r.out \o c) = (t.emit \o r.out) \o c
      BY <1>4, <1>7, <2>2, Regroup
    <2>4. QED
      BY <1>8, <2>1, <2>3 DEF c
  <1>12. (Len(s) <= From(s) + MaxValue + MaxChunk /\ q.mode # "no") => Len(q.stash) <= MaxChunk
    <2> HAVE Len(s) <= From(s) + MaxValue + MaxChunk /\ q.mode # "no"
    <2>1. From(rest) \in 0..Len(rest) /\ Len(rest) \in Nat
      BY <1>5, FromFacts
    <2>2. Len(rest) <= From(rest) + MaxValue + MaxChunk
      BY <1>2, <1>4, <1>5, <2>1
    <2>3. QED
      BY <1>8, <1>9, <2>2
  <1>13. q.mode = "no" => Withheld(q.stash, final)
    BY <1>8, <1>9
  <1>14. QED
    BY <1>11, <1>12, <1>13 DEF Redacts, q

\* The loop agrees with the redaction of the whole stream, whatever comes after.
LEMMA LoopRedacts ==
    ASSUME NEW s \in Seq(Bytes), NEW w \in Seq(Bytes), NEW final \in BOOLEAN, ~final
    PROVE  Redacts(s, w, Loop(final)[s], final)
  <1> DEFINE D == Seq(Bytes)
             m == [d \in D |-> Len(d)]
             L == Loop(final)
             B == {d \in D : ~Redacts(d, w, L[d], final)}
  <1>1. m \in [D -> Nat]
    BY LenProperties
  <1>2. /\ L \in [D -> Outcomes]
        /\ L[<<>>] = [out |-> <<>>, stash |-> <<>>, mode |-> "no"]
        /\ \A d \in D : d # <<>> => L[d] = After(L, d, Turn(d, final))
    BY LoopFacts
  <1> HIDE DEF L
  <1> SUFFICES ASSUME B # {} PROVE FALSE
    BY DEF L
  <1>3. PICK d \in B : \A e \in B : ~(m[e] < m[d])
    <2>1. B \in SUBSET D
      OBVIOUS
    <2> HIDE DEF B, m, D
    <2>2. QED
      BY <1>1, <2>1, LeastOf
  <1>4. d \in D /\ ~Redacts(d, w, L[d], final)
    BY <1>3
  <1>5. CASE d = <<>>
    <2>1. Redacted[w] \in Seq(Symbols)
      BY RedactedFacts
    <2>2. <<>> \o w = w /\ <<>> \o Redacted[w] = Redacted[w]
      BY <2>1, ConcatEmptySeq
    <2> DEFINE r == [out |-> <<>>, stash |-> <<>>, mode |-> "no"]
    <2>3. Redacts(<<>>, w, r, final)
      <3>1. r.out = <<>> /\ r.stash = <<>> /\ r.mode = "no"
        OBVIOUS
      <3> HIDE DEF r
      <3>2. r.out \o Cont(r.stash \o w, r.mode) = Redacted[w]
        BY <2>2, <3>1 DEF Cont
      <3>3. QED
        BY <2>2, <3>1, <3>2 DEF Redacts, Withheld
    <2>4. QED
      BY <1>2, <1>4, <1>5, <2>3
  <1>6. CASE d # <<>>
    <2> DEFINE t == Turn(d, final)
    <2>1. L[d] = After(L, d, t) /\ TurnType(d, t)
      BY <1>2, <1>4, <1>6, TurnTyped
    <2>2. CASE t.stop = TRUE
      <3>1. L[d] = [out |-> t.emit, stash |-> Drop(d, t.take), mode |-> t.mode]
        BY <2>1, <2>2 DEF After
      <3>2. Redacts(d, w, [out |-> t.emit, stash |-> Drop(d, t.take), mode |-> t.mode], final)
        <4> HIDE DEF t
        <4>1. t = Turn(d, final)
          BY DEF t
        <4>2. QED
          BY <1>4, <1>6, <2>2, <4>1, TurnRedacts
      <3>3. QED
        BY <1>4, <3>1, <3>2
    <2>3. CASE t.stop # TRUE
      <3> DEFINE rest == Drop(d, t.take)
      <3>1. t.take \in 0..Len(d) /\ t.take > 0 /\ Len(d) \in Nat
        BY <1>4, <2>1, <2>3, LenProperties DEF TurnType
      <3>2. rest \in D /\ Len(rest) = Len(d) - t.take
        BY <1>4, <3>1, DropFacts
      <3>3. m[rest] < m[d]
        BY <1>4, <3>1, <3>2
      <3>4. rest \notin B
        <4> HIDE DEF B, m, D
        <4>1. QED
          BY <1>3, <3>3
      <3>5. Redacts(rest, w, L[rest], final)
        BY <3>2, <3>4
      <3>6. L[rest] \in Outcomes
        BY <1>2, <3>2
      <3>7. L[d] = [L[rest] EXCEPT !.out = t.emit \o @]
        BY <2>1, <2>3 DEF After
      <3>8. Redacts(d, w, [L[rest] EXCEPT !.out = t.emit \o @], final)
        <4> DEFINE r == L[rest]
        <4>1. r \in Outcomes /\ Redacts(Drop(d, t.take), w, r, final)
          BY <3>5, <3>6
        <4> HIDE DEF r, t
        <4>2. t = Turn(d, final)
          BY DEF t
        <4>3. Redacts(d, w, [r EXCEPT !.out = t.emit \o @], final)
          BY <1>4, <1>6, <2>3, <4>1, <4>2, GoRedacts
        <4>4. QED
          BY <4>3 DEF r
      <3>9. QED
        BY <1>4, <3>7, <3>8
    <2>4. QED
      BY <2>2, <2>3
  <1>7. QED
    BY <1>5, <1>6

\* At the end of the stream the loop leaves nothing: what it returns is the
\* redaction of the bytes that were withheld.
LEMMA LoopFlushes ==
    ASSUME NEW s \in Seq(Bytes), Len(s) <= From(s) + MaxValue, NEW final \in BOOLEAN, final
    PROVE  Loop(final)[s].out = Redacted[s] /\ Loop(final)[s].stash = <<>>
  <1> DEFINE D == Seq(Bytes)
             m == [d \in D |-> Len(d)]
             L == Loop(final)
             Good(d) == Len(d) <= From(d) + MaxValue => L[d].out = Redacted[d] /\ L[d].stash = <<>>
             B == {d \in D : ~Good(d)}
  <1>1. m \in [D -> Nat]
    BY LenProperties
  <1>2. /\ L \in [D -> Outcomes]
        /\ L[<<>>] = [out |-> <<>>, stash |-> <<>>, mode |-> "no"]
        /\ \A d \in D : d # <<>> => L[d] = After(L, d, Turn(d, final))
    BY LoopFacts
  <1> HIDE DEF L
  <1> SUFFICES ASSUME B # {} PROVE FALSE
    BY DEF L
  <1>3. PICK d \in B : \A e \in B : ~(m[e] < m[d])
    <2>1. B \in SUBSET D
      OBVIOUS
    <2> HIDE DEF B, m, D
    <2>2. QED
      BY <1>1, <2>1, LeastOf
  <1>4. d \in D /\ Len(d) <= From(d) + MaxValue /\ ~(L[d].out = Redacted[d] /\ L[d].stash = <<>>)
    BY <1>3
  <1>5. CASE d = <<>>
    <2>1. L[d].out = <<>> /\ L[d].stash = <<>>
      BY <1>2, <1>5
    <2>2. QED
      BY <1>4, <1>5, <2>1, RedactedFacts
  <1>6. CASE d # <<>>
    <2> DEFINE t == Turn(d, final)
    <2>1. L[d] = After(L, d, t) /\ TurnType(d, t)
      BY <1>2, <1>4, <1>6, TurnTyped
    <2>2. Flushed(d, t)
      BY <1>4, <1>6, FlushTurn
    <2>3. t.emit \in Seq(Symbols) /\ t.take \in 0..Len(d) /\ t.emit = Piece(d).emit /\ t.take = Piece(d).take
      BY <2>1, <2>2 DEF TurnType, Flushed
    <2>4. Redacted[d] = t.emit \o Redacted[Drop(d, t.take)]
      BY <1>4, <1>6, <2>3, RedactedFacts
    <2> HIDE DEF t
    <2>5. CASE t.stop = TRUE
      <3>1. L[d] = [out |-> t.emit, stash |-> Drop(d, t.take), mode |-> t.mode]
        BY <2>1, <2>5 DEF After
      <3>2. t.take = Len(d)
        BY <2>2, <2>5 DEF Flushed
      <3>3. Drop(d, t.take) = <<>>
        BY <1>4, <3>2, DropEnds
      <3>4. Redacted[d] = t.emit
        BY <2>3, <2>4, <3>3, RedactedFacts, ConcatEmptySeq
      <3>5. QED
        BY <1>4, <3>1, <3>3, <3>4
    <2>6. CASE t.stop # TRUE
      <3> DEFINE rest == Drop(d, t.take)
                 r == L[rest]
      <3>1. t.take > From(d)
        BY <2>2, <2>6 DEF Flushed
      <3>2. From(d) \in 0..Len(d) /\ Len(d) \in Nat /\ MaxValue \in Nat
        BY <1>4, FromFacts
      <3>3. rest \in D /\ Len(rest) = Len(d) - t.take
        BY <1>4, <2>3, DropFacts
      <3>4. From(rest) \in 0..Len(rest)
        BY <3>3, FromFacts
      <3>5. m[rest] < m[d] /\ Len(rest) <= From(rest) + MaxValue
        BY <1>4, <2>3, <3>1, <3>2, <3>3, <3>4
      <3>6. rest \notin B
        <4> HIDE DEF B, m, D
        <4>1. QED
          BY <1>3, <3>5
      <3>7. r.out = Redacted[rest] /\ r.stash = <<>> /\ r \in Outcomes
        BY <1>2, <3>3, <3>5, <3>6
      <3>8. L[d] = [r EXCEPT !.out = t.emit \o @]
        BY <2>1, <2>6 DEF After
      <3> HIDE DEF r
      <3>9. L[d].out = t.emit \o r.out /\ L[d].stash = r.stash
        BY <3>7, <3>8 DEF Outcomes
      <3>10. QED
        BY <1>4, <2>4, <3>7, <3>9
    <2>7. QED
      BY <2>5, <2>6
  <1>7. QED
    BY <1>5, <1>6

\* What goes out in any mode is bytes and the mark.
LEMMA ContType ==
    ASSUME NEW s \in Seq(Bytes), NEW mode \in Modes
    PROVE  Cont(s, mode) \in Seq(Symbols)
  <1> DEFINE f == FirstIn(s, Ends(mode))
             b == <<s[f]>>
             c == Redacted[Drop(s, f)]
  <1>1. Redacted[s] \in Seq(Symbols) /\ <<>> \in Seq(Symbols)
    BY RedactedFacts, EmptySeq
  <1>2. f \in 0..Len(s) /\ Len(s) \in Nat
    BY FirstInFacts, LenProperties
  <1> HIDE DEF f
  <1>3. ASSUME f # 0 PROVE b \o c \in Seq(Symbols)
    <2>1. s[f] \in Bytes
      BY <1>2, <1>3, ElementOfSeq
    <2>2. b \in Seq(Symbols)
      BY <2>1 DEF Symbols
    <2>3. Drop(s, f) \in Seq(Bytes)
      BY <1>2, DropFacts
    <2>4. c \in Seq(Symbols)
      BY <2>3, RedactedFacts
    <2> HIDE DEF b, c
    <2>5. QED
      BY <2>2, <2>4, ConcatProperties
  <1>4. QED
    BY <1>1, <1>3 DEF Cont, f

\* What the loop withholds is no longer than a value may be.
LEMMA HeldShort ==
    ASSUME NEW s \in Seq(Bytes), NEW final \in BOOLEAN, ~final, Withheld(s, final)
    PROVE  Len(s) <= From(s) + MaxValue
  <1>1. From(s) \in 0..Len(s) /\ Len(s) \in Nat /\ MaxValue \in Nat
    BY FromFacts
  <1>2. CASE s = <<>>
    BY <1>1, <1>2
  <1>3. CASE s # <<>>
    <2>1. Turned(s, <<>>, From(s), Wait, Redacted[s \o <<>>])
      <3>1. <<>> \in Seq(Bytes)
        BY EmptySeq
      <3>2. Turned(s, <<>>, From(s), Turn(s, final), Redacted[s \o <<>>])
        BY <1>3, <3>1, TurnFacts
      <3>3. QED
        BY <1>3, <3>2 DEF Withheld
    <2>2. Wait.stop = TRUE /\ Wait.mode = "no"
      BY DEF Wait, Stop
    <2>3. QED
      BY <2>1, <2>2 DEF Turned
  <1>4. QED
    BY <1>2, <1>3

\* Bytes that are told apart stay so when more come.
LEMMA HeldGrows ==
    ASSUME NEW s \in Seq(Bytes), NEW final \in BOOLEAN, ~final, Withheld(s, final),
           NEW c \in Seq(Bytes), Len(c) <= MaxChunk
    PROVE  Len(s \o c) <= From(s \o c) + MaxValue + MaxChunk
  <1>1. Len(s) <= From(s) + MaxValue
    BY HeldShort
  <1>2. /\ Len(s \o c) = Len(s) + Len(c) /\ Len(c) \in Nat /\ s \o c \in Seq(Bytes)
    BY ConcatProperties, LenProperties
  <1>3. From(s) \in 0..Len(s) /\ Len(s) \in Nat /\ MaxValue \in Nat /\ MaxChunk \in Nat
    BY FromFacts, RedactionAssumption
  <1>4. From(s \o c) \in 0..Len(s \o c)
    BY <1>2, FromFacts
  <1>5. From(s) <= From(s \o c)
    <2>1. CASE StartingAt(s, CredentialPrefixes) # {}
      BY <2>1, CredentialStays
    <2>2. CASE StartingAt(s, CredentialPrefixes) = {}
      BY <1>2, <1>3, <1>4, <2>2 DEF From
    <2>3. QED
      BY <2>1, <2>2
  <1>6. QED
    BY <1>1, <1>2, <1>3, <1>4, <1>5

\* What a chunk leaves behind, against the redaction of what it was given and
\* of w after it.
Small(s, mode) ==
    /\ mode = "no" => Len(s) <= From(s) + MaxValue + MaxChunk
    /\ mode # "no" => Len(s) <= MaxChunk + MaxChunk
Chunked(s, mode, w, r, final) ==
    /\ r.out \in Seq(Symbols) /\ r.stash \in Seq(Bytes) /\ r.mode \in Modes
    /\ Cont(s \o w, mode) = r.out \o Cont(r.stash \o w, r.mode)
    /\ r.mode = "no" => Withheld(r.stash, final)
    /\ Small(s, mode) /\ r.mode # "no" => Len(r.stash) <= MaxChunk

\* processChunk(false) redacts what it is given, with what it leaves for later.
LEMMA ChunkRedacts ==
    ASSUME NEW s \in Seq(Bytes), NEW mode \in Modes, NEW w \in Seq(Bytes), NEW final \in BOOLEAN, ~final
    PROVE  Chunked(s, mode, w, ProcessChunk(s, mode, final), final)
  <1> DEFINE r == ProcessChunk(s, mode, final)
             E == Ends(mode)
             end == FirstIn(s, E)
             x == s \o w
             L == Loop(final)
  <1>1. r = IF mode = "no" THEN L[s]
            ELSE IF end # 0 THEN [L[Drop(s, end)] EXCEPT !.out = <<s[end]>> \o @]
            ELSE [out |-> <<>>, stash |-> <<>>, mode |-> mode]
    BY DEF ProcessChunk, Ends
  <1>2. /\ x \in Seq(Bytes) /\ Len(x) = Len(s) + Len(w) /\ Len(s) \in Nat /\ Len(w) \in Nat
        /\ \A i \in 1..(Len(s) + Len(w)) : x[i] = IF i <= Len(s) THEN s[i] ELSE w[i - Len(s)]
    BY ConcatProperties, LenProperties
  <1>3. end \in 0..Len(s) /\ (end = 0 => \A i \in 1..Len(s) : s[i] \notin E)
    BY FirstInFacts
  <1>4. L \in [Seq(Bytes) -> Outcomes]
    BY LoopFacts
  <1>5. MaxValue \in Nat /\ MaxChunk \in Nat /\ MaxChunk <= MaxValue
    BY RedactionAssumption
  <1>6. mode = "no" \/ Cont(x, mode) = IF FirstIn(x, E) = 0 THEN <<>>
                                       ELSE <<x[FirstIn(x, E)]>> \o Redacted[Drop(x, FirstIn(x, E))]
    BY DEF Cont
  <1>7. Cont(x, "no") = Redacted[x]
    BY DEF Cont
  <1>8. \A t \in Seq(Bytes) : Redacts(t, w, L[t], final) /\ L[t] \in Outcomes
    <2> TAKE t \in Seq(Bytes)
    <2>1. Redacts(t, w, L[t], final)
      BY LoopRedacts
    <2>2. QED
      BY <1>4, <2>1
  <1> HIDE DEF r, E, x, L
  <1>9. CASE mode = "no"
    <2>1. r = L[s] /\ r \in Outcomes /\ Redacts(s, w, r, final)
      BY <1>1, <1>8, <1>9
    <2>2. r.out \in Seq(Symbols) /\ r.stash \in Seq(Bytes) /\ r.mode \in Modes
      BY <2>1 DEF Outcomes
    <2>3. /\ Redacted[x] = r.out \o Cont(r.stash \o w, r.mode)
          /\ r.mode = "no" => Withheld(r.stash, final)
          /\ (Len(s) <= From(s) + MaxValue + MaxChunk /\ r.mode # "no") => Len(r.stash) <= MaxChunk
      BY <2>1 DEF Redacts, x
    <2>4. Chunked(s, mode, w, r, final)
      BY <1>7, <1>9, <2>2, <2>3 DEF Chunked, Small, x
    <2>5. QED
      BY <2>4 DEF r
  <1>10. CASE mode # "no" /\ end # 0
    <2> DEFINE t == Drop(s, end)
               q == L[t]
               b == <<s[end]>>
    <2>1. t \in Seq(Bytes) /\ Len(t) = Len(s) - end
      BY <1>3, DropFacts
    <2>2. FirstIn(x, E) = end
      <3>1. UpTo(s, Len(s)) = s
        BY <1>2, SubSeqFull DEF UpTo
      <3>2. FirstIn(UpTo(s, Len(s)), E) # 0 => FirstIn(s \o w, E) = FirstIn(UpTo(s, Len(s)), E)
        BY <1>2, FirstInSight
      <3>3. QED
        BY <1>10, <3>1, <3>2 DEF x
    <2>3. x[end] = s[end] /\ s[end] \in Bytes
      BY <1>2, <1>3, <1>10, ElementOfSeq
    <2>4. Drop(x, end) = t \o w
      <3> HIDE DEF end
      <3>1. QED
        BY <1>3, DropConcat DEF x
    <2>5. b \in Seq(Symbols)
      BY <2>3 DEF Symbols
    <2>6. q \in Outcomes /\ Redacts(t, w, q, final)
      BY <1>8, <2>1
    <2>7. r = [q EXCEPT !.out = b \o @]
      BY <1>1, <1>10
    <2>8. Cont(x, mode) = b \o Redacted[t \o w]
      BY <1>6, <1>10, <2>2, <2>3, <2>4
    <2>9. Len(s) <= MaxChunk + MaxChunk => Len(t) <= From(t) + MaxValue + MaxChunk
      <3>1. From(t) \in 0..Len(t) /\ Len(t) \in Nat
        BY <2>1, FromFacts
      <3>2. QED
        BY <1>2, <1>3, <1>5, <2>1, <3>1
    <2> HIDE DEF q, b, t, end
    <2>10. /\ q.out \in Seq(Symbols) /\ q.stash \in Seq(Bytes) /\ q.mode \in Modes
           /\ r.out = b \o q.out /\ r.stash = q.stash /\ r.mode = q.mode
      BY <2>6, <2>7 DEF Outcomes
    <2>11. r.out \in Seq(Symbols)
      BY <2>5, <2>10, ConcatProperties
    <2>12. /\ Redacted[t \o w] = q.out \o Cont(q.stash \o w, q.mode)
           /\ q.mode = "no" => Withheld(q.stash, final)
           /\ (Len(t) <= From(t) + MaxValue + MaxChunk /\ q.mode # "no") => Len(q.stash) <= MaxChunk
      BY <2>6 DEF Redacts
    <2>13. Cont(q.stash \o w, q.mode) \in Seq(Symbols)
      <3>1. q.stash \o w \in Seq(Bytes)
        BY <2>10, ConcatProperties
      <3>2. QED
        BY <2>10, <3>1, ContType
    <2>14. b \o (q.out \o Cont(q.stash \o w, q.mode)) = (b \o q.out) \o Cont(q.stash \o w, q.mode)
      BY <2>5, <2>10, <2>13, Regroup
    <2>15. Cont(x, mode) = r.out \o Cont(r.stash \o w, r.mode)
      BY <2>8, <2>10, <2>12, <2>14
    <2>16. Chunked(s, mode, w, r, final)
      <3>1. r.mode = "no" => Withheld(r.stash, final)
        BY <2>10, <2>12
      <3>2. Small(s, mode) /\ r.mode # "no" => Len(r.stash) <= MaxChunk
        BY <1>10, <2>9, <2>10, <2>12 DEF Small
      <3>3. QED
        BY <2>10, <2>11, <2>15, <3>1, <3>2 DEF Chunked, x
    <2>17. QED
      BY <2>16 DEF r
  <1>11. CASE mode # "no" /\ end = 0
    <2> DEFINE f == FirstIn(w, E)
               k == Len(s)
    <2>1. r.out = <<>> /\ r.stash = <<>> /\ r.mode = mode
      BY <1>1, <1>11
    <2>2. k \in 0..Len(x) /\ k \in 0..Len(s) /\ k \in Nat
      BY <1>2
    <2>3. Drop(x, k) = w
      <3>1. Drop(x, k) = Drop(s, k) \o w
        BY <2>2, DropConcat DEF x
      <3>2. Drop(s, k) = <<>>
        BY DropEnds
      <3>3. QED
        BY <3>1, <3>2, ConcatEmptySeq
    <2>4. \A i \in 1..k : x[i] \notin E
      BY <1>2, <1>3, <1>11
    <2>5. FirstIn(x, E) = IF FirstIn(Drop(x, k), E) = 0 THEN 0 ELSE k + FirstIn(Drop(x, k), E)
      <3> HIDE DEF k
      <3>1. QED
        BY <1>2, <2>2, <2>4, FirstInPast
    <2>6. f \in 0..Len(w)
      BY FirstInFacts
    <2>7. FirstIn(x, E) = IF f = 0 THEN 0 ELSE k + f
      BY <2>3, <2>5
    <2> HIDE DEF f
    <2>8. Cont(x, mode) = Cont(w, mode)
      <3>1. Cont(w, mode) = IF f = 0 THEN <<>> ELSE <<w[f]>> \o Redacted[Drop(w, f)]
        BY <1>11 DEF Cont, f, E
      <3>2. CASE f = 0
        BY <1>6, <1>11, <2>7, <3>1, <3>2
      <3>3. CASE f # 0
        <4>1. FirstIn(x, E) = k + f /\ k + f # 0
          BY <2>2, <2>6, <2>7, <3>3
        <4>2. x[k + f] = w[f]
          BY <1>2, <2>2, <2>6, <3>3
        <4>3. Drop(x, k + f) = Drop(w, f)
          <5>1. f \in 0..(Len(x) - k)
            BY <1>2, <2>6
          <5> HIDE DEF k
          <5>2. Drop(Drop(x, k), f) = Drop(x, k + f)
            BY <1>2, <2>2, <5>1, DropDrop
          <5>3. QED
            BY <2>3, <5>2
        <4>4. QED
          BY <1>6, <1>11, <3>1, <3>3, <4>1, <4>2, <4>3
      <3>4. QED
        BY <3>2, <3>3
    <2>9. <<>> \o w = w /\ <<>> \o Cont(w, mode) = Cont(w, mode)
      <3>1. Cont(w, mode) \in Seq(Symbols)
        BY ContType
      <3>2. QED
        BY <3>1, ConcatEmptySeq
    <2>10. Cont(x, mode) = r.out \o Cont(r.stash \o w, r.mode)
      BY <2>1, <2>8, <2>9
    <2>11. r.out \in Seq(Symbols) /\ r.stash \in Seq(Bytes) /\ Len(r.stash) = 0
      BY <2>1, EmptySeq
    <2>12. Chunked(s, mode, w, r, final)
      BY <1>5, <1>11, <2>1, <2>10, <2>11 DEF Chunked, x
    <2>13. QED
      BY <2>12 DEF r
  <1>12. QED
    BY <1>9, <1>10, <1>11

\* What is left to redact when the stream is over.
LEMMA ChunkFlushes ==
    ASSUME NEW s \in Seq(Bytes), NEW mode \in Modes, NEW final \in BOOLEAN, final,
           mode = "no" => Len(s) <= From(s) + MaxValue,
           mode # "no" => Len(s) <= MaxChunk
    PROVE  LET r == ProcessChunk(s, mode, final) IN r.out \o r.stash = Cont(s, mode)
  <1> DEFINE r == ProcessChunk(s, mode, final)
             E == Ends(mode)
             end == FirstIn(s, E)
             L == Loop(final)
  <1>1. r = IF mode = "no" THEN L[s]
            ELSE IF end # 0 THEN [L[Drop(s, end)] EXCEPT !.out = <<s[end]>> \o @]
            ELSE [out |-> <<>>, stash |-> <<>>, mode |-> "no"]
    BY DEF ProcessChunk, Ends
  <1>2. end \in 0..Len(s) /\ Len(s) \in Nat
    BY FirstInFacts, LenProperties
  <1>3. L \in [Seq(Bytes) -> Outcomes]
    BY LoopFacts
  <1>4. MaxValue \in Nat /\ MaxChunk \in Nat /\ MaxChunk <= MaxValue
    BY RedactionAssumption
  <1>5. Cont(s, mode) = IF mode = "no" THEN Redacted[s]
                        ELSE IF end = 0 THEN <<>> ELSE <<s[end]>> \o Redacted[Drop(s, end)]
    BY DEF Cont
  <1>6. \A t \in Seq(Bytes) : Len(t) <= From(t) + MaxValue => L[t].out = Redacted[t] /\ L[t].stash = <<>>
    BY LoopFlushes
  <1>7. Cont(s, mode) \in Seq(Symbols)
    BY ContType
  <1> SUFFICES r.out = Cont(s, mode) /\ r.stash = <<>>
    BY <1>7, ConcatEmptySeq
  <1> HIDE DEF r, L, E, end
  <1>8. CASE mode = "no"
    BY <1>1, <1>5, <1>6, <1>8
  <1>9. CASE mode # "no" /\ end # 0
    <2> DEFINE t == Drop(s, end)
               q == L[t]
    <2>1. t \in Seq(Bytes) /\ Len(t) = Len(s) - end
      BY <1>2, DropFacts
    <2>2. From(t) \in 0..Len(t) /\ Len(t) \in Nat
      BY <2>1, FromFacts
    <2>3. Len(t) <= From(t) + MaxValue
      BY <1>2, <1>4, <1>9, <2>1, <2>2
    <2>4. q.out = Redacted[t] /\ q.stash = <<>> /\ q \in Outcomes
      BY <1>3, <1>6, <2>1, <2>3
    <2>5. r = [q EXCEPT !.out = <<s[end]>> \o @]
      BY <1>1, <1>9
    <2> HIDE DEF q
    <2>6. r.out = <<s[end]>> \o q.out /\ r.stash = q.stash
      BY <2>4, <2>5 DEF Outcomes
    <2>7. QED
      BY <1>5, <1>9, <2>4, <2>6
  <1>10. CASE mode # "no" /\ end = 0
    BY <1>1, <1>5, <1>10
  <1>11. QED
    BY <1>8, <1>9, <1>10

\* Retaining what fits, chunk after chunk, retains what fits of the whole.
LEMMA UpToConcat ==
    ASSUME NEW e \in Seq(Symbols), NEW o \in Seq(Symbols), NEW n \in Nat
    PROVE  /\ n - Len(UpTo(e, n)) \in Nat
           /\ UpTo(e \o o, n) = UpTo(e, n) \o UpTo(o, n - Len(UpTo(e, n)))
  <1> DEFINE room == n - Len(UpTo(e, n))
             a == UpTo(e, n)
             x == e \o o
  <1>1. Len(e) \in Nat /\ Len(o) \in Nat
    BY LenProperties
  <1>2. a \in Seq(Symbols) /\ Len(a) = (IF Len(e) < n THEN Len(e) ELSE n) /\ \A i \in 1..Len(a) : a[i] = e[i]
    BY UpToFacts
  <1>3. /\ x \in Seq(Symbols) /\ Len(x) = Len(e) + Len(o)
        /\ \A i \in 1..(Len(e) + Len(o)) : x[i] = IF i <= Len(e) THEN e[i] ELSE o[i - Len(e)]
    BY ConcatProperties
  <1>4. room \in Nat
    BY <1>1, <1>2
  <1> HIDE DEF room, a, x
  <1> DEFINE b == UpTo(o, room)
             y == UpTo(x, n)
             z == a \o b
  <1>5. b \in Seq(Symbols) /\ Len(b) = (IF Len(o) < room THEN Len(o) ELSE room) /\ \A i \in 1..Len(b) : b[i] = o[i]
    BY <1>4, UpToFacts
  <1>6. y \in Seq(Symbols) /\ Len(y) = (IF Len(x) < n THEN Len(x) ELSE n) /\ \A i \in 1..Len(y) : y[i] = x[i]
    BY <1>3, UpToFacts
  <1> HIDE DEF b, y
  <1>7. /\ z \in Seq(Symbols) /\ Len(z) = Len(a) + Len(b)
        /\ \A i \in 1..(Len(a) + Len(b)) : z[i] = IF i <= Len(a) THEN a[i] ELSE b[i - Len(a)]
    BY <1>2, <1>5, ConcatProperties
  <1> HIDE DEF z
  <1>8. room = n - Len(a)
    BY DEF room, a
  <1>9. Len(y) = Len(z) /\ Len(a) \in Nat /\ Len(b) \in Nat /\ Len(y) = Len(a) + Len(b)
    <2>1. /\ Len(a) = (IF Len(e) < n THEN Len(e) ELSE n) /\ Len(x) = Len(e) + Len(o)
          /\ Len(b) = (IF Len(o) < room THEN Len(o) ELSE room)
          /\ Len(y) = (IF Len(x) < n THEN Len(x) ELSE n)
          /\ Len(z) = Len(a) + Len(b)
      BY <1>2, <1>3, <1>5, <1>6, <1>7
    <2>2. Len(a) \in Nat /\ Len(b) \in Nat
      BY <1>1, <1>4, <2>1
    <2>3. CASE Len(e) < n
      BY <1>1, <1>4, <1>8, <2>1, <2>2, <2>3
    <2>4. CASE ~(Len(e) < n)
      BY <1>1, <1>4, <1>8, <2>1, <2>2, <2>4
    <2>5. QED
      BY <2>2, <2>3, <2>4
  <1>10. ASSUME NEW i \in 1..Len(y) PROVE y[i] = z[i]
    <2>1. Len(a) \in Nat /\ Len(b) \in Nat /\ i \in Nat /\ i \in 1..(Len(a) + Len(b))
      BY <1>9
    <2>2. CASE i <= Len(a)
      <3>1. z[i] = e[i]
        BY <1>2, <1>7, <2>1, <2>2
      <3>2. i <= Len(e)
        BY <1>1, <1>2, <2>1, <2>2
      <3>3. y[i] = e[i]
        BY <1>1, <1>3, <1>6, <2>1, <3>2
      <3>4. QED
        BY <3>1, <3>3
    <2>3. CASE ~(i <= Len(a))
      <3>1. Len(a) = Len(e)
        BY <1>1, <1>2, <1>6, <2>1, <2>3
      <3>2. z[i] = o[i - Len(e)]
        BY <1>5, <1>7, <2>1, <2>3, <3>1
      <3>3. y[i] = o[i - Len(e)]
        <4>1. i \in 1..(Len(e) + Len(o))
          BY <1>1, <1>3, <1>6, <2>1
        <4>2. QED
          BY <1>3, <1>6, <2>3, <3>1, <4>1
      <3>4. QED
        BY <3>2, <3>3
    <2>4. QED
      BY <2>2, <2>3
  <1>11. y = z
    BY <1>6, <1>7, <1>9, <1>10, SeqEqual
  <1>12. QED
    BY <1>4, <1>11 DEF y, z, a, b, room, x

\* processChunk returns an outcome.
LEMMA ChunkType ==
    ASSUME NEW chunk \in Chunks
    PROVE  chunk \in Seq(Bytes) /\ Len(chunk) <= MaxChunk
  <1>1. PICK n \in 1..MaxChunk : chunk \in [1..n -> Bytes]
    BY DEF Chunks
  <1>2. n \in Nat /\ MaxChunk \in Nat /\ n <= MaxChunk
    BY RedactionAssumption
  <1>3. chunk \in Seq(Bytes) /\ DOMAIN chunk = 1..n
    BY <1>1, <1>2, SeqDef
  <1>4. Len(chunk) \in Nat /\ DOMAIN chunk = 1..Len(chunk)
    BY <1>3, LenProperties
  <1>5. Len(chunk) = n
    BY <1>2, <1>3, <1>4
  <1>6. QED
    BY <1>2, <1>3, <1>5

\* The collector has been given e.
Collected(e) ==
    /\ retained = UpTo(e, limit)
    /\ produced = Len(e)
    /\ firstDropped = IF Len(e) > limit THEN limit ELSE -1

\* What the collector retains is the first bytes of what was emitted.
LEMMA CollectFacts ==
    ASSUME NEW e \in Seq(Symbols), NEW o \in Seq(Symbols), limit \in Nat, UNCHANGED limit,
           Collected(e), Collect(o)
    PROVE  Collected(e \o o)'
  <1> DEFINE x == e \o o
             room == limit - Len(retained)
  <1>1. Len(e) \in Nat /\ Len(o) \in Nat /\ Len(x) = Len(e) + Len(o)
    BY LenProperties, ConcatProperties
  <1>2. retained = UpTo(e, limit) /\ produced = Len(e) /\ firstDropped = IF Len(e) > limit THEN limit ELSE -1
    BY DEF Collected
  <1>3. Len(retained) = (IF Len(e) < limit THEN Len(e) ELSE limit)
    BY <1>2, UpToFacts
  <1>4. /\ produced' = produced + Len(o)
        /\ retained' = retained \o UpTo(o, room)
        /\ firstDropped' = IF Len(o) > room /\ firstDropped = -1 THEN limit ELSE firstDropped
    BY DEF Collect
  <1>5. UpTo(x, limit) = retained \o UpTo(o, room)
    BY <1>2, UpToConcat
  <1> HIDE DEF x, room
  <1>6. firstDropped' = IF Len(x) > limit THEN limit ELSE -1
    <2>1. room = limit - Len(retained)
      BY DEF room
    <2>2. CASE Len(e) > limit
      <3>1. firstDropped = limit /\ limit # -1 /\ Len(x) > limit
        BY <1>1, <1>2, <2>2
      <3>2. QED
        BY <1>4, <3>1
    <2>3. CASE ~(Len(e) > limit)
      <3>1. firstDropped = -1
        BY <1>2, <2>3
      <3>2. Len(retained) = Len(e)
        BY <1>1, <1>3, <2>3
      <3>3. Len(o) > room <=> Len(x) > limit
        BY <1>1, <2>1, <3>2
      <3>4. QED
        BY <1>4, <3>1, <3>3
    <2>4. QED
      BY <2>2, <2>3
  <1>7. produced' = Len(x)
    BY <1>1, <1>2, <1>4
  <1>8. QED
    BY <1>4, <1>5, <1>6, <1>7 DEF Collected, x

\* Some e has gone out, which begins the redaction of every stream that begins
\* with what has been seen, and the stash and the mode say how it goes on.
Begins(e) == \A w \in Seq(Bytes) : Redacted[seen \o w] = e \o Cont(stash \o w, discarding)
StreamInv ==
    /\ seen \in Seq(Bytes) /\ stash \in Seq(Bytes) /\ discarding \in Modes
    /\ limit \in Nat /\ closed \in BOOLEAN
    /\ ~closed => /\ \E e \in Seq(Symbols) : Collected(e) /\ Begins(e)
                  /\ discarding = "no" => Withheld(stash, FALSE)
                  /\ discarding # "no" => Len(stash) <= MaxChunk
    /\ closed => Collected(Redacted[seen])

\* The invariant holds before the first byte.
LEMMA StreamInvInit == StreamInit => StreamInv
  <1> SUFFICES ASSUME StreamInit PROVE StreamInv
    OBVIOUS
  <1>1. /\ seen = <<>> /\ stash = <<>> /\ discarding = "no" /\ retained = <<>> /\ produced = 0
        /\ firstDropped = -1 /\ limit \in Nat /\ closed = FALSE
    BY RedactionAssumption DEF StreamInit
  <1>2. <<>> \in Seq(Bytes) /\ <<>> \in Seq(Symbols) /\ Len(<<>>) = 0
    BY EmptySeq
  <1>3. Collected(<<>>)
    <2>1. PICK e \in Seq(Symbols) : e = <<>> /\ Len(e) = 0
      BY <1>2
    <2>2. UpTo(e, limit) \in Seq(Symbols) /\ Len(UpTo(e, limit)) = 0
      <3>1. PICK n \in Nat : n = limit
        BY <1>1
      <3>2. UpTo(e, n) \in Seq(Symbols) /\ Len(UpTo(e, n)) = (IF Len(e) < n THEN Len(e) ELSE n)
        BY UpToFacts
      <3>3. (IF Len(e) < n THEN Len(e) ELSE n) = 0
        BY <2>1
      <3>4. QED
        BY <3>1, <3>2, <3>3
    <2>3. UpTo(e, limit) = <<>>
      BY <2>2, EmptySeq
    <2>4. Collected(e)
      BY <1>1, <2>1, <2>3 DEF Collected
    <2>5. QED
      BY <2>1, <2>4
  <1>4. Begins(<<>>)
    <2> SUFFICES ASSUME NEW w \in Seq(Bytes)
                 PROVE  Redacted[<<>> \o w] = <<>> \o Cont(<<>> \o w, "no")
      BY <1>1 DEF Begins
    <2>1. <<>> \o w = w /\ Redacted[w] \in Seq(Symbols)
      BY ConcatEmptySeq, RedactedFacts
    <2>2. <<>> \o Redacted[w] = Redacted[w]
      BY <2>1, ConcatEmptySeq
    <2>3. QED
      BY <2>1, <2>2 DEF Cont
  <1>5. Withheld(stash, FALSE)
    BY <1>1 DEF Withheld
  <1>6. discarding \in Modes
    BY <1>1 DEF Modes
  <1>7. QED
    BY <1>1, <1>2, <1>3, <1>4, <1>5, <1>6 DEF StreamInv

\* Concatenation of bytes is associative.
LEMMA RegroupBytes ==
    ASSUME NEW a \in Seq(Bytes), NEW b \in Seq(Bytes), NEW c \in Seq(Bytes)
    PROVE  (a \o b) \o c = a \o (b \o c)
  BY ConcatAssociative

\* Reading a chunk keeps the invariant.
LEMMA ReadStep ==
    ASSUME StreamInv, NEW chunk \in Chunks, Read(chunk)
    PROVE  StreamInv'
  <1> DEFINE no == FALSE
             s == stash \o chunk
             r == ProcessChunk(s, discarding, no)
  <1>1. /\ ~closed /\ closed' = closed /\ limit' = limit /\ seen' = seen \o chunk
        /\ stash' = r.stash /\ discarding' = r.mode /\ Collect(r.out)
    BY DEF Read
  <1>2. /\ seen \in Seq(Bytes) /\ stash \in Seq(Bytes) /\ discarding \in Modes
        /\ limit \in Nat /\ closed \in BOOLEAN
        /\ discarding # "no" => Len(stash) <= MaxChunk
    BY <1>1 DEF StreamInv
  <1>3. no \in BOOLEAN /\ ~no
    OBVIOUS
  <1>4. discarding = "no" => Withheld(stash, no)
    BY <1>1 DEF StreamInv
  <1>5. PICK e \in Seq(Symbols) : Collected(e) /\ Begins(e)
    BY <1>1 DEF StreamInv
  <1>6. chunk \in Seq(Bytes) /\ Len(chunk) <= MaxChunk
    BY ChunkType
  <1>7. s \in Seq(Bytes) /\ Len(s) = Len(stash) + Len(chunk) /\ seen \o chunk \in Seq(Bytes)
    BY <1>2, <1>6, ConcatProperties
  <1> HIDE DEF no, s, r
  <1>8. Small(s, discarding)
    <2>1. CASE discarding = "no"
      <3>1. Len(s) <= From(s) + MaxValue + MaxChunk
        BY <1>2, <1>3, <1>4, <1>6, <2>1, HeldGrows DEF s
      <3>2. QED
        BY <2>1, <3>1 DEF Small
    <2>2. CASE discarding # "no"
      <3>1. Len(stash) \in Nat /\ Len(chunk) \in Nat /\ MaxChunk \in Nat
        BY <1>2, <1>6, LenProperties, RedactionAssumption
      <3>2. Len(s) <= MaxChunk + MaxChunk
        BY <1>2, <1>6, <1>7, <2>2, <3>1
      <3>3. QED
        BY <2>2, <3>2 DEF Small
    <2>3. QED
      BY <2>1, <2>2
  <1>9. \A w \in Seq(Bytes) : Chunked(s, discarding, w, r, no)
    BY <1>2, <1>3, <1>7, ChunkRedacts DEF r
  <1>10. /\ r.out \in Seq(Symbols) /\ r.stash \in Seq(Bytes) /\ r.mode \in Modes
         /\ r.mode = "no" => Withheld(r.stash, no)
         /\ r.mode # "no" => Len(r.stash) <= MaxChunk
    <2>1. <<>> \in Seq(Bytes)
      BY EmptySeq
    <2>2. Chunked(s, discarding, <<>>, r, no)
      BY <1>9, <2>1
    <2>3. QED
      BY <1>8, <2>2 DEF Chunked
  <1>11. \A w \in Seq(Bytes) : Redacted[(seen \o chunk) \o w] = (e \o r.out) \o Cont(r.stash \o w, r.mode)
    <2> SUFFICES ASSUME NEW w \in Seq(Bytes)
                 PROVE  Redacted[(seen \o chunk) \o w] = (e \o r.out) \o Cont(r.stash \o w, r.mode)
      OBVIOUS
    <2>1. chunk \o w \in Seq(Bytes)
      BY <1>6, ConcatProperties
    <2>2. (seen \o chunk) \o w = seen \o (chunk \o w) /\ (stash \o chunk) \o w = stash \o (chunk \o w)
      BY <1>2, <1>6, RegroupBytes
    <2>3. Redacted[seen \o (chunk \o w)] = e \o Cont(stash \o (chunk \o w), discarding)
      BY <1>5, <2>1 DEF Begins
    <2>4. Cont(s \o w, discarding) = r.out \o Cont(r.stash \o w, r.mode)
      BY <1>9 DEF Chunked
    <2>5. Cont(r.stash \o w, r.mode) \in Seq(Symbols)
      <3>1. r.stash \o w \in Seq(Bytes)
        BY <1>10, ConcatProperties
      <3>2. QED
        BY <1>10, <3>1, ContType
    <2>6. e \o (r.out \o Cont(r.stash \o w, r.mode)) = (e \o r.out) \o Cont(r.stash \o w, r.mode)
      BY <1>10, <2>5, Regroup
    <2>7. QED
      BY <2>2, <2>3, <2>4, <2>6 DEF s
  <1>12. PICK o \in Seq(Symbols) : o = r.out
    BY <1>10
  <1>13. Collected(e \o o)'
    BY <1>1, <1>2, <1>5, <1>12, CollectFacts
  <1>14. Begins(e \o o)'
    BY <1>1, <1>11, <1>12 DEF Begins
  <1>15. e \o o \in Seq(Symbols)
    BY ConcatProperties
  <1>16. discarding' = "no" => Withheld(stash', no)
    BY <1>1, <1>10
  <1>17. discarding' # "no" => Len(stash') <= MaxChunk
    BY <1>1, <1>10
  <1>18. \E d \in Seq(Symbols) : Collected(d)' /\ Begins(d)'
    BY <1>13, <1>14, <1>15
  <1>19. QED
    BY <1>1, <1>2, <1>7, <1>10, <1>16, <1>17, <1>18 DEF StreamInv, no

\* Closing the stream keeps the invariant.
LEMMA CloseStep ==
    ASSUME StreamInv, Close
    PROVE  StreamInv'
  <1> DEFINE no == FALSE
             yes == TRUE
             r == ProcessChunk(stash, discarding, yes)
  <1>1. /\ ~closed /\ closed' = TRUE /\ limit' = limit /\ seen' = seen
        /\ stash' = <<>> /\ discarding' = "no" /\ Collect(r.out \o r.stash)
    BY DEF Close, Flush
  <1>2. /\ seen \in Seq(Bytes) /\ stash \in Seq(Bytes) /\ discarding \in Modes
        /\ limit \in Nat
        /\ discarding # "no" => Len(stash) <= MaxChunk
    BY <1>1 DEF StreamInv
  <1>3. no \in BOOLEAN /\ ~no /\ yes \in BOOLEAN /\ yes
    OBVIOUS
  <1>4. discarding = "no" => Withheld(stash, no)
    BY <1>1 DEF StreamInv
  <1>5. PICK e \in Seq(Symbols) : Collected(e) /\ Begins(e)
    BY <1>1 DEF StreamInv
  <1>6. <<>> \in Seq(Bytes)
    BY EmptySeq
  <1> HIDE DEF no, yes
  <1>7. discarding = "no" => Len(stash) <= From(stash) + MaxValue
    BY <1>2, <1>3, <1>4, HeldShort
  <1>8. r.out \o r.stash = Cont(stash, discarding)
    BY <1>2, <1>3, <1>7, ChunkFlushes
  <1>9. Cont(stash, discarding) \in Seq(Symbols)
    BY <1>2, ContType
  <1>10. Redacted[seen] = e \o Cont(stash, discarding)
    <2>1. Redacted[seen \o <<>>] = e \o Cont(stash \o <<>>, discarding)
      BY <1>5, <1>6 DEF Begins
    <2>2. seen \o <<>> = seen /\ stash \o <<>> = stash
      BY <1>2, ConcatEmptySeq
    <2>3. QED
      BY <2>1, <2>2
  <1> HIDE DEF r
  <1>11. PICK o \in Seq(Symbols) : o = Cont(stash, discarding)
    BY <1>9
  <1>12. Collected(e \o o)'
    BY <1>1, <1>2, <1>5, <1>8, <1>11, CollectFacts
  <1>13. PICK d : d = e \o o /\ d = Redacted[seen]
    BY <1>10, <1>11
  <1>14. Collected(d)'
    BY <1>12, <1>13
  <1>15. d = Redacted[seen']
    BY <1>1, <1>13
  <1>16. Collected(Redacted[seen])'
    BY <1>14, <1>15 DEF Collected
  <1>17. QED
    BY <1>1, <1>2, <1>6, <1>16 DEF StreamInv, Modes

\* Every step of a stream keeps the invariant.
LEMMA StreamStep ==
    ASSUME StreamInv, [StreamNext]_streamVars
    PROVE  StreamInv'
  <1>1. CASE \E chunk \in Chunks : Read(chunk)
    BY <1>1, ReadStep
  <1>2. CASE Close
    BY <1>2, CloseStep
  <1>3. CASE UNCHANGED streamVars
    BY <1>3 DEF streamVars, StreamInv, Collected, Begins
  <1>4. QED
    BY <1>1, <1>2, <1>3 DEF StreamNext

\* The invariant says what is retained.
LEMMA StreamInvMeans == StreamInv => KeptIsRedactedPrefix
  BY DEF StreamInv, Collected, KeptIsRedactedPrefix

(***************************************************************************)
(* However a stream is cut into chunks, what the bounded collector retains *)
(* is a prefix of the redaction of the whole stream: of the part read, no  *)
(* byte of a secret or of the value of a credential is ever kept, and      *)
(* nothing else is lost or repeated (redaction.ts, bounded-output.ts).     *)
(***************************************************************************)
THEOREM StreamsKeepRedactedPrefix == StreamSpec => []KeptIsRedactedPrefix
  BY StreamInvInit, StreamStep, StreamInvMeans, PTL DEF StreamSpec

-----------------------------------------------------------------------------
(* Saved scope: powers of two, merged ranges, hosts and ports.             *)

\* The powers of two.
LEMMA TwoToFacts ==
    /\ TwoTo \in [Nat -> Nat \ {0}]
    /\ TwoTo[0] = 1
    /\ \A n \in Nat : TwoTo[n + 1] = 2 * TwoTo[n]
  <1> DEFINE D == Nat
             V == Nat \ {0}
             m == [n \in D |-> n]
             stop == [n \in D |-> n = 0]
             next == [n \in D |-> n - 1]
             base == [n \in D |-> 1]
             op == [n \in D |-> [v \in V |-> 2 * v]]
             Body(f, n) == IF n = 0 THEN 1 ELSE 2 * f[n - 1]
  <1>1. m \in [D -> Nat]
    OBVIOUS
  <1>2. ASSUME NEW n \in D
        PROVE  IF stop[n] THEN base[n] \in V
               ELSE next[n] \in D /\ m[next[n]] < m[n] /\ op[n] \in [V -> V]
    <2>1. op[n] \in [V -> V]
      <3>1. \A v \in V : 2 * v \in V
        OBVIOUS
      <3>2. QED
        BY <3>1
    <2>2. n # 0 => n - 1 \in D /\ m[n - 1] < m[n]
      OBVIOUS
    <2>3. CASE n = 0
      <3>1. stop[n] /\ base[n] = 1
        BY <2>3
      <3>2. 1 \in V
        OBVIOUS
      <3> HIDE DEF D, V, m, stop, next, base, op
      <3>3. QED
        BY <3>1, <3>2
    <2>4. CASE n # 0
      <3>1. ~stop[n] /\ next[n] = n - 1
        BY <2>4
      <3> HIDE DEF D, V, m, stop, next, base, op
      <3>2. QED
        BY <2>1, <2>2, <2>4, <3>1
    <2>5. QED
      BY <2>3, <2>4
  <1> HIDE DEF D, V, m, stop, next, base, op
  <1>3. PICK f \in [D -> V] : Solves(f, D, stop, next, base, op)
    BY <1>1, <1>2, Recursion
  <1>4. ASSUME NEW n \in D PROVE f[n] = Body(f, n)
    <2>1. f[n] = IF stop[n] THEN base[n] ELSE op[n][f[next[n]]]
      BY <1>3 DEF Solves
    <2>2. CASE n = 0
      BY <2>1, <2>2 DEF stop, base
    <2>3. CASE n # 0
      <3>1. ~stop[n] /\ next[n] = n - 1
        BY <2>3 DEF stop, next
      <3>2. f[next[n]] \in V
        BY <1>2, <1>3, <3>1
      <3>3. op[n][f[next[n]]] = 2 * f[next[n]]
        BY <3>2 DEF op
      <3>4. QED
        BY <2>1, <2>3, <3>1, <3>3
    <2>4. QED
      BY <2>2, <2>3
  <1>5. f = [n \in D |-> Body(f, n)]
    <2> HIDE DEF Body
    <2>1. f = [n \in D |-> f[n]]
      BY <1>3
    <2>2. QED
      BY <1>4, <2>1
  <1>6. TwoTo = CHOOSE g : g = [n \in D |-> Body(g, n)]
    BY DEF TwoTo, D
  <1>7. TwoTo = [n \in D |-> Body(TwoTo, n)]
    <2> HIDE DEF Body
    <2>1. QED
      BY <1>5, <1>6
  <1>8. \A n \in Nat : TwoTo[n] = Body(TwoTo, n)
    <2> HIDE DEF Body
    <2>1. QED
      BY <1>7 DEF D
  <1>9. \A n \in Nat : TwoTo[n + 1] = 2 * TwoTo[n]
    <2> TAKE n \in Nat
    <2>1. n + 1 \in Nat /\ n + 1 # 0 /\ (n + 1) - 1 = n
      OBVIOUS
    <2>2. TwoTo[n + 1] = Body(TwoTo, n + 1)
      BY <1>8, <2>1
    <2>3. QED
      BY <2>1, <2>2
  <1>10. TwoTo[0] = 1
    BY <1>8
  <1>11. \A n \in Nat : TwoTo[n] \in Nat \ {0}
    <2> DEFINE B == {n \in Nat : TwoTo[n] \notin Nat \ {0}}
    <2> SUFFICES ASSUME B # {} PROVE FALSE
      OBVIOUS
    <2>1. PICK n \in B : \A k \in B : n <= k
      <3>1. B \in SUBSET Nat
        OBVIOUS
      <3> HIDE DEF B
      <3>2. QED
        BY <3>1, Least
    <2>2. n \in Nat /\ n # 0 /\ n - 1 \in Nat /\ n - 1 \notin B /\ (n - 1) + 1 = n
      BY <1>10, <2>1
    <2>3. TwoTo[n] = 2 * TwoTo[n - 1] /\ TwoTo[n - 1] \in Nat \ {0}
      BY <1>9, <2>2
    <2>4. TwoTo[n] \in Nat \ {0}
      BY <2>3
    <2>5. QED
      BY <2>1, <2>4
  <1>12. TwoTo \in [Nat -> Nat \ {0}]
    <2> HIDE DEF Body
    <2>1. DOMAIN TwoTo = Nat /\ TwoTo = [n \in Nat |-> TwoTo[n]]
      BY <1>7 DEF D
    <2>2. QED
      BY <1>11, <2>1
  <1>13. QED
    BY <1>9, <1>10, <1>12

\* A higher power of two is a multiple of a lower one.
LEMMA TwoToMultiple ==
    ASSUME NEW a \in Nat, NEW b \in Nat
    PROVE  \E k \in Nat \ {0} : /\ TwoTo[a + b] = TwoTo[a] * k
                                /\ (b # 0 => k >= 2)
  <1> DEFINE P(n) == \E k \in Nat \ {0} : TwoTo[a + n] = TwoTo[a] * k /\ (n # 0 => k >= 2)
             B == {n \in Nat : ~P(n)}
  <1> SUFFICES ASSUME B # {} PROVE FALSE
    OBVIOUS
  <1>1. PICK n \in B : \A k \in B : n <= k
    <2>1. B \in SUBSET Nat
      OBVIOUS
    <2> HIDE DEF B
    <2>2. QED
      BY <2>1, Least
  <1>2. n \in Nat /\ ~P(n)
    BY <1>1
  <1>3. TwoTo[a] \in Nat \ {0}
    BY TwoToFacts
  <1>4. P(0)
    <2>1. TwoTo[a + 0] = TwoTo[a] * 1
      BY <1>3
    <2>2. 1 \in Nat \ {0} /\ (0 # 0 => 1 >= 2)
      OBVIOUS
    <2>3. QED
      BY <2>1, <2>2
  <1>5. n # 0
    <2> HIDE DEF P
    <2>1. QED
      BY <1>2, <1>4
  <1>6. n - 1 \in Nat /\ n - 1 \notin B
    <2> HIDE DEF B
    <2>1. QED
      BY <1>1, <1>2, <1>5
  <1>7. PICK k \in Nat \ {0} : TwoTo[a + (n - 1)] = TwoTo[a] * k
    BY <1>6
  <1>8. TwoTo[a + n] = 2 * TwoTo[a + (n - 1)]
    <2>1. a + (n - 1) \in Nat /\ (a + (n - 1)) + 1 = a + n
      BY <1>6
    <2>2. TwoTo[(a + (n - 1)) + 1] = 2 * TwoTo[a + (n - 1)]
      BY <2>1, TwoToFacts
    <2>3. QED
      BY <2>1, <2>2
  <1>9. TwoTo[a + n] = TwoTo[a] * (2 * k)
    <2> DEFINE t == TwoTo[a]
    <2>1. t \in Nat
      BY <1>3
    <2> HIDE DEF t
    <2>2. 2 * (t * k) = t * (2 * k)
      BY <2>1
    <2>3. QED
      BY <1>7, <1>8, <2>2 DEF t
  <1>10. 2 * k \in Nat \ {0} /\ 2 * k >= 2
    OBVIOUS
  <1>11. P(n)
    BY <1>9, <1>10
  <1>12. QED
    BY <1>2, <1>11

\* Two multiples of a number are that far apart.
LEMMA Apart ==
    ASSUME NEW A \in Nat, NEW i \in Int, NEW j \in Int, i < j
    PROVE  A * i + A <= A * j
  <1>1. j - i - 1 \in Nat
    OBVIOUS
  <1>2. A * (j - i - 1) \in Nat
    BY <1>1
  <1>3. A * (j - i - 1) = A * j - A * i - A
    OBVIOUS
  <1>4. A * i \in Int /\ A * j \in Int
    OBVIOUS
  <1>5. QED
    BY <1>2, <1>3, <1>4

\* Division by the size of a block names the block.
LEMMA Block ==
    ASSUME NEW A \in Nat \ {0}, NEW i \in Nat, NEW a \in Nat
    PROVE  a \div A = i <=> A * i <= a /\ a < A * i + A
  <1> DEFINE q == a \div A
  <1>1. q \in Int /\ A * q <= a /\ a < A * q + A
    BY SMTT(30)
  <1> HIDE DEF q
  <1>2. A * q \in Int /\ A * i \in Int
    BY <1>1
  <1>3. CASE q < i
    <2>1. A * q + A <= A * i
      BY <1>1, <1>3, Apart
    <2>2. QED
      BY <1>1, <1>2, <1>3, <2>1 DEF q
  <1>4. CASE i < q
    <2>1. A * i + A <= A * q
      BY <1>1, <1>4, Apart
    <2>2. QED
      BY <1>1, <1>2, <1>4, <2>1 DEF q
  <1>5. CASE q = i
    BY <1>1, <1>5 DEF q
  <1>6. QED
    BY <1>1, <1>3, <1>4, <1>5

\* A number without remainder is a multiple.
LEMMA Multiple ==
    ASSUME NEW A \in Nat \ {0}, NEW n \in Nat, n % A = 0
    PROVE  \E i \in Nat : n = A * i
  <1>1. n = A * (n \div A) + (n % A) /\ n \div A \in Nat
    BY SMTT(30)
  <1>2. QED
    BY <1>1

Spans == {r \in [from : Int, to : Int] : r.from <= r.to}

\* A finite, non-empty set of spans has a latest one.
LEMMA LatestFacts ==
    ASSUME NEW S \in SUBSET Spans, IsFiniteSet(S), S # {}
    PROVE  Latest(S) \in S /\ \A q \in S : Earlier(q, Latest(S))
  <1> DEFINE Has(T) == \E r \in T : \A q \in T : Earlier(q, r)
             D == SUBSET S
             m == [T \in D |-> Cardinality(T)]
             B == {T \in D : T # {} /\ ~Has(T)}
  <1>1. Has(S)
    <2> SUFFICES ASSUME ~Has(S) PROVE FALSE
      OBVIOUS
    <2>1. m \in [D -> Nat]
      <3>1. \A T \in D : Cardinality(T) \in Nat
        BY FS_Subset, FS_CardinalityType
      <3>2. QED
        BY <3>1
    <2>2. B \in SUBSET D /\ S \in B
      BY S # {}
    <2>3. PICK T \in B : \A U \in B : ~(m[U] < m[T])
      <3> HIDE DEF B, D, m
      <3>1. QED
        BY <2>1, <2>2, LeastOf
    <2>4. T \in SUBSET S /\ T # {} /\ ~Has(T) /\ IsFiniteSet(T)
      BY <2>3, FS_Subset
    <2>5. PICK x \in T : TRUE
      BY <2>4
    <2>6. x \in Spans /\ \A q \in T : q \in Spans
      BY <2>4, <2>5
    <2>7. Earlier(x, x)
      BY <2>6 DEF Earlier, Spans
    <2> DEFINE U == T \ {x}
    <2>8. U # {}
      BY <2>4, <2>5, <2>7
    <2>9. U \in SUBSET S /\ Cardinality(U) = Cardinality(T) - 1 /\ Cardinality(T) \in Nat
      BY <2>4, <2>5, FS_RemoveElement, FS_CardinalityType
    <2>10. m[U] < m[T]
      <3>1. m[U] = Cardinality(U) /\ m[T] = Cardinality(T)
        BY <2>4, <2>9
      <3> HIDE DEF m, U
      <3>2. QED
        BY <2>9, <3>1
    <2>11. U \notin B
      <3> HIDE DEF B, m, U
      <3>1. QED
        BY <2>3, <2>10
    <2>12. Has(U)
      BY <2>8, <2>9, <2>11
    <2>13. PICK y \in U : \A q \in U : Earlier(q, y)
      BY <2>12
    <2>14. y \in T /\ y \in Spans
      BY <2>6, <2>13
    <2>15. CASE Earlier(x, y)
      <3>1. \A q \in T : Earlier(q, y)
        BY <2>13, <2>15
      <3>2. QED
        BY <2>4, <2>14, <3>1
    <2>16. CASE ~Earlier(x, y)
      <3>1. \A q \in U : Earlier(q, x)
        <4> SUFFICES ASSUME NEW q \in U PROVE Earlier(q, x)
          OBVIOUS
        <4>1. Earlier(q, y) /\ q \in Spans
          BY <2>6, <2>13
        <4>2. QED
          BY <2>6, <2>14, <2>16, <4>1 DEF Earlier, Spans
      <3>2. \A q \in T : Earlier(q, x)
        BY <2>7, <3>1
      <3>3. QED
        BY <2>4, <2>5, <3>2
    <2>17. QED
      BY <2>15, <2>16
  <1>2. QED
    BY <1>1 DEF Latest

\* Merging a set of spans goes from the set without its latest one to the set.
LEMMA MergeSteps ==
    ASSUME NEW S \in SUBSET Spans, IsFiniteSet(S)
    PROVE  \E g : /\ Merge(S) = g[S] /\ g[{}] = <<>>
                  /\ \A T \in SUBSET S : T # {} => g[T] = Join(g[T \ {Latest(T)}], Latest(T))
  <1> DEFINE D == SUBSET S
             V == Seq([from : Int, to : Int])
             m == [T \in D |-> Cardinality(T)]
             stop == [T \in D |-> T = {}]
             next == [T \in D |-> T \ {Latest(T)}]
             base == [T \in D |-> <<>>]
             op == [T \in D |-> [v \in V |-> Join(v, Latest(T))]]
             Body(g, T) == IF T = {} THEN <<>> ELSE Join(g[T \ {Latest(T)}], Latest(T))
             G == CHOOSE g : g = [T \in D |-> Body(g, T)]
  <1>1. \A T \in D : Cardinality(T) \in Nat /\ IsFiniteSet(T)
    BY FS_Subset, FS_CardinalityType
  <1>2. m \in [D -> Nat]
    BY <1>1
  <1>3. \A v \in V, r \in Spans : Join(v, r) \in V
    <2> SUFFICES ASSUME NEW v \in V, NEW r \in Spans PROVE Join(v, r) \in V
      OBVIOUS
    <2>1. r \in [from : Int, to : Int]
      BY DEF Spans
    <2>2. CASE v = <<>> \/ r.from > Last(v).to + 1
      <3>1. Join(v, r) = Append(v, r)
        BY <2>2 DEF Join
      <3>2. QED
        BY <2>1, <3>1, AppendProperties
    <2>3. CASE ~(v = <<>> \/ r.from > Last(v).to + 1)
      <3>1. Join(v, r) = [v EXCEPT ![Len(v)].to = MaxOf(@, r.to)]
        BY <2>3 DEF Join
      <3>2. Len(v) \in 1..Len(v) /\ v[Len(v)] \in [from : Int, to : Int]
        <4>1. v # <<>>
          BY <2>3
        <4>2. Len(v) \in Nat /\ Len(v) # 0
          BY <4>1, EmptySeq
        <4>3. Len(v) \in 1..Len(v)
          BY <4>2
        <4> DEFINE n == Len(v)
        <4>4. n \in 1..Len(v)
          BY <4>3
        <4> HIDE DEF n
        <4>5. v[n] \in [from : Int, to : Int]
          BY <4>4, ElementOfSeq
        <4>6. QED
          BY <4>3, <4>5 DEF n
      <3>3. MaxOf(v[Len(v)].to, r.to) \in Int
        BY <2>1, <3>2 DEF MaxOf
      <3>4. QED
        BY <3>1, <3>2, <3>3
    <2>4. QED
      BY <2>2, <2>3
  <1>4. ASSUME NEW T \in D
        PROVE  IF stop[T] THEN base[T] \in V
               ELSE next[T] \in D /\ m[next[T]] < m[T] /\ op[T] \in [V -> V]
    <2>1. CASE T = {}
      <3>1. stop[T] /\ base[T] = <<>>
        BY <2>1
      <3>2. <<>> \in V
        OBVIOUS
      <3> HIDE DEF D, V, m, stop, next, base, op
      <3>3. QED
        BY <3>1, <3>2
    <2>2. CASE T # {}
      <3>1. Latest(T) \in T /\ Latest(T) \in Spans
        BY <1>1, <2>2, LatestFacts
      <3>2. ~stop[T] /\ next[T] = T \ {Latest(T)} /\ op[T] = [v \in V |-> Join(v, Latest(T))]
        BY <2>2
      <3>3. op[T] \in [V -> V]
        <4> HIDE DEF op, V
        <4>1. QED
          BY <1>3, <3>1, <3>2
      <3>4. next[T] \in D /\ Cardinality(next[T]) = Cardinality(T) - 1
        <4>1. T \ {Latest(T)} \in D
          OBVIOUS
        <4>2. Cardinality(T \ {Latest(T)}) = Cardinality(T) - 1
          BY <1>1, <3>1, FS_RemoveElement
        <4>3. QED
          BY <3>2, <4>1, <4>2
      <3>5. m[next[T]] = Cardinality(next[T]) /\ m[T] = Cardinality(T)
        <4> HIDE DEF next
        <4>1. QED
          BY <3>4
      <3>6. m[next[T]] < m[T]
        <4> HIDE DEF m, next, D
        <4>1. QED
          BY <1>1, <3>4, <3>5
      <3> HIDE DEF D, V, m, stop, next, base, op
      <3>7. QED
        BY <3>2, <3>3, <3>4, <3>6
    <2>3. QED
      BY <2>1, <2>2
  <1> HIDE DEF V, m, stop, next, base, op
  <1>5. PICK f \in [D -> V] : Solves(f, D, stop, next, base, op)
    <2> HIDE DEF D
    <2>1. QED
      BY <1>2, <1>4, Recursion
  <1>6. ASSUME NEW T \in D PROVE f[T] = Body(f, T)
    <2>1. f[T] = IF stop[T] THEN base[T] ELSE op[T][f[next[T]]]
      BY <1>5 DEF Solves
    <2>2. CASE T = {}
      BY <2>1, <2>2 DEF stop, base
    <2>3. CASE T # {}
      <3>1. ~stop[T] /\ next[T] = T \ {Latest(T)}
        BY <2>3 DEF stop, next
      <3>2. f[next[T]] \in V
        BY <1>4, <1>5, <3>1
      <3>3. op[T][f[next[T]]] = Join(f[next[T]], Latest(T))
        BY <3>2 DEF op
      <3>4. QED
        BY <2>1, <2>3, <3>1, <3>3
    <2>4. QED
      BY <2>2, <2>3
  <1>7. f = [T \in D |-> Body(f, T)]
    <2> HIDE DEF Body, D
    <2>1. f = [T \in D |-> f[T]]
      BY <1>5
    <2>2. QED
      BY <1>6, <2>1
  <1>8. G = [T \in D |-> Body(G, T)]
    <2> HIDE DEF Body, D
    <2>1. QED
      BY <1>7
  <1>9. Merge(S) = G[S]
    BY DEF Merge, MapThenFoldSet
  <1> HIDE DEF G
  <1>10. \A T \in D : G[T] = Body(G, T)
    <2> HIDE DEF Body, D
    <2>1. QED
      BY <1>8
  <1>11. G[{}] = <<>>
    BY <1>10
  <1>12. \A T \in SUBSET S : T # {} => G[T] = Join(G[T \ {Latest(T)}], Latest(T))
    BY <1>10
  <1>13. QED
    BY <1>9, <1>11, <1>12

In(p, r) == r.from <= p /\ p <= r.to

\* m holds what the spans of T hold, in order and apart.
Merged(m, T) ==
    /\ m \in Seq([from : Int, to : Int])
    /\ \A i \in 1..Len(m) : m[i].from <= m[i].to /\ \E r \in T : m[i].from = r.from
    /\ \A i \in 1..Len(m), j \in 1..Len(m) : i < j => m[i].to + 1 < m[j].from
    /\ \A p \in Int : (\E i \in 1..Len(m) : In(p, m[i])) <=> (\E r \in T : In(p, r))

\* Joining the latest span to the others merged gives all of them merged.
LEMMA JoinMerged ==
    ASSUME NEW T \in SUBSET Spans, NEW x \in T, \A q \in T : Earlier(q, x),
           NEW m, Merged(m, T \ {x})
    PROVE  Merged(Join(m, x), T)
  <1> DEFINE n == Len(m)
             R == [from : Int, to : Int]
  <1>1. m \in Seq(R) /\ x \in R /\ x.from <= x.to
    BY DEF Merged, Spans
  <1>2. n \in Nat /\ DOMAIN m = 1..n /\ \A i \in 1..n : m[i] \in R /\ m[i].from \in Int /\ m[i].to \in Int
    <2>1. n \in Nat /\ DOMAIN m = 1..n
      BY <1>1, LenProperties
    <2>2. \A i \in 1..n : m[i] \in R
      BY <1>1, ElementOfSeq
    <2>3. QED
      BY <2>1, <2>2
  <1>3. \A i \in 1..n : m[i].from <= m[i].to /\ m[i].from <= x.from
    <2> SUFFICES ASSUME NEW i \in 1..n PROVE m[i].from <= m[i].to /\ m[i].from <= x.from
      OBVIOUS
    <2>1. m[i].from <= m[i].to
      BY DEF Merged
    <2>2. PICK r \in T \ {x} : m[i].from = r.from
      BY DEF Merged
    <2>3. r \in Spans /\ Earlier(r, x)
      BY <2>2
    <2>4. r.from <= x.from
      BY <1>1, <2>3 DEF Earlier, Spans
    <2>5. QED
      BY <2>1, <2>2, <2>4
  <1>4. \A i \in 1..n : \E r \in T : m[i].from = r.from
    BY DEF Merged
  <1>5. \A i \in 1..n, j \in 1..n : i < j => m[i].to + 1 < m[j].from
    BY DEF Merged
  <1>6. \A p \in Int : (\E r \in T : In(p, r)) <=> (\E i \in 1..n : In(p, m[i])) \/ In(p, x)
    <2> SUFFICES ASSUME NEW p \in Int
                 PROVE  (\E r \in T : In(p, r)) <=> (\E i \in 1..n : In(p, m[i])) \/ In(p, x)
      OBVIOUS
    <2>1. (\E i \in 1..n : In(p, m[i])) <=> (\E r \in T \ {x} : In(p, r))
      BY DEF Merged
    <2>2. (\E r \in T : In(p, r)) <=> (\E r \in T \ {x} : In(p, r)) \/ In(p, x)
      OBVIOUS
    <2>3. QED
      BY <2>1, <2>2
  <1>7. CASE m = <<>> \/ x.from > Last(m).to + 1
    <2> DEFINE k == Append(m, x)
    <2>1. Join(m, x) = k
      BY <1>7 DEF Join
    <2>2. k \in Seq(R) /\ Len(k) = n + 1 /\ (\A i \in 1..n : k[i] = m[i]) /\ k[n + 1] = x
      BY <1>1, AppendProperties
    <2> HIDE DEF k
    <2>3. \A i \in 1..n : m[i].to + 1 < x.from
      <3> SUFFICES ASSUME NEW i \in 1..n PROVE m[i].to + 1 < x.from
        OBVIOUS
      <3>1. m # <<>> /\ n \in 1..n
        BY <1>1, <1>2, EmptySeq
      <3>2. m[n].to + 1 < x.from
        <4>1. x.from > m[n].to + 1
          BY <1>7, <3>1 DEF Last
        <4>2. QED
          BY <1>1, <1>2, <3>1, <4>1
      <3>3. CASE i = n
        BY <3>2, <3>3
      <3>4. CASE i # n
        <4>0. i < n
          <5> HIDE DEF n
          <5>1. QED
            BY <1>2, <3>4
        <4>1. m[i].to + 1 < m[n].from /\ m[n].from <= m[n].to
          <5> HIDE DEF n
          <5>1. QED
            BY <1>3, <1>5, <3>1, <4>0
        <4>2. m[i].to \in Int /\ m[n].from \in Int /\ m[n].to \in Int /\ x.from \in Int
          BY <1>1, <1>2, <3>1
        <4>3. QED
          BY <3>2, <4>1, <4>2
      <3>5. QED
        BY <3>3, <3>4
    <2>4. \A i \in 1..(n + 1) : i \in 1..n \/ i = n + 1
      BY <1>2
    <2>5. \A i \in 1..(n + 1) : k[i].from <= k[i].to /\ \E r \in T : k[i].from = r.from
      <3> SUFFICES ASSUME NEW i \in 1..(n + 1)
                   PROVE  k[i].from <= k[i].to /\ \E r \in T : k[i].from = r.from
        OBVIOUS
      <3>1. CASE i \in 1..n
        BY <1>3, <1>4, <2>2, <3>1
      <3>2. CASE i = n + 1
        BY <1>1, <2>2, <3>2
      <3>3. QED
        BY <2>4, <3>1, <3>2
    <2>6. \A i \in 1..(n + 1), j \in 1..(n + 1) : i < j => k[i].to + 1 < k[j].from
      <3> SUFFICES ASSUME NEW i \in 1..(n + 1), NEW j \in 1..(n + 1), i < j
                   PROVE  k[i].to + 1 < k[j].from
        OBVIOUS
      <3>1. i \in 1..n
        BY <1>2
      <3>2. CASE j \in 1..n
        BY <1>5, <2>2, <3>1, <3>2
      <3>3. CASE j = n + 1
        BY <2>2, <2>3, <3>1, <3>3
      <3>4. QED
        BY <2>4, <3>2, <3>3
    <2>7. \A p \in Int : (\E i \in 1..(n + 1) : In(p, k[i])) <=> (\E i \in 1..n : In(p, m[i])) \/ In(p, x)
      <3> SUFFICES ASSUME NEW p \in Int
                   PROVE  (\E i \in 1..(n + 1) : In(p, k[i])) <=> (\E i \in 1..n : In(p, m[i])) \/ In(p, x)
        OBVIOUS
      <3>1. 1..(n + 1) = 1..n \cup {n + 1}
        BY <1>2
      <3>2. QED
        BY <2>2, <3>1
    <2>8. Merged(k, T)
      <3> HIDE DEF n
      <3>1. QED
        BY <1>6, <2>2, <2>5, <2>6, <2>7 DEF Merged
    <2>9. QED
      BY <2>1, <2>8
  <1>8. CASE ~(m = <<>> \/ x.from > Last(m).to + 1)
    <2>1. n \in 1..n
      BY <1>1, <1>2, <1>8, EmptySeq
    <2> DEFINE e == [m[n] EXCEPT !.to = MaxOf(@, x.to)]
               k == [m EXCEPT ![n] = e]
    <2>2. Join(m, x) = k
      <3>1. Join(m, x) = [m EXCEPT ![Len(m)].to = MaxOf(@, x.to)]
        BY <1>8 DEF Join
      <3>2. QED
        BY <3>1
    <2>3. e \in R /\ e.from = m[n].from /\ e.to = MaxOf(m[n].to, x.to) /\ MaxOf(m[n].to, x.to) \in Int
      <3>1. m[n] \in R
        BY <1>2, <2>1
      <3>2. MaxOf(m[n].to, x.to) \in Int
        BY <1>1, <3>1 DEF MaxOf
      <3>3. QED
        BY <3>1, <3>2
    <2> HIDE DEF e
    <2>4. k \in Seq(R) /\ Len(k) = n /\ \A i \in 1..n : k[i] = IF i = n THEN e ELSE m[i]
      <3>1. n \in 1..Len(m)
        BY <2>1
      <3> HIDE DEF n
      <3>2. k \in Seq(R) /\ Len(k) = Len(m) /\ \A i \in 1..Len(m) : k[i] = IF i = n THEN e ELSE m[i]
        BY <1>1, <2>3, <3>1, ExceptSeq
      <3>3. QED
        BY <3>2 DEF n
    <2> HIDE DEF k
    <2>5. m[n].from <= x.from /\ x.from <= m[n].to + 1 /\ m[n].from <= m[n].to
      <3>1. ~(x.from > m[n].to + 1)
        BY <1>8 DEF Last
      <3>2. QED
        BY <1>1, <1>2, <1>3, <2>1, <3>1
    <2>6. m[n].from \in Int /\ m[n].to \in Int /\ x.from \in Int /\ x.to \in Int /\ x.from <= x.to
      BY <1>1, <1>2, <2>1
    <2>7. e.to = (IF m[n].to < x.to THEN x.to ELSE m[n].to) /\ e.from = m[n].from
      BY <2>3 DEF MaxOf
    <2>8. \A i \in 1..n : k[i].from = m[i].from
      BY <2>3, <2>4
    <2>9. \A i \in 1..n : i # n => k[i] = m[i]
      BY <2>4
    <2>10. k[n] = e /\ k[n].to = e.to
      BY <2>1, <2>4
    <2>11. \A i \in 1..n : k[i].from <= k[i].to /\ \E r \in T : k[i].from = r.from
      <3> SUFFICES ASSUME NEW i \in 1..n
                   PROVE  k[i].from <= k[i].to /\ \E r \in T : k[i].from = r.from
        OBVIOUS
      <3>1. \E r \in T : k[i].from = r.from
        BY <1>4, <2>8
      <3>2. k[i].from <= k[i].to
        <4>1. CASE i = n
          <5>1. e.from <= e.to
            BY <2>5, <2>6, <2>7
          <5>2. QED
            BY <2>10, <4>1, <5>1
        <4>2. CASE i # n
          BY <1>3, <2>9, <4>2
        <4>3. QED
          BY <4>1, <4>2
      <3>3. QED
        BY <3>1, <3>2
    <2>12. \A i \in 1..n, j \in 1..n : i < j => k[i].to + 1 < k[j].from
      <3> SUFFICES ASSUME NEW i \in 1..n, NEW j \in 1..n, i < j
                   PROVE  k[i].to + 1 < k[j].from
        OBVIOUS
      <3>1. i # n
        <4> HIDE DEF n
        <4>1. QED
          BY <1>2
      <3>2. k[i] = m[i] /\ k[j].from = m[j].from
        BY <2>8, <2>9, <3>1
      <3>3. QED
        BY <1>5, <3>2
    <2>13. \A p \in Int : In(p, e) <=> In(p, m[n]) \/ In(p, x)
      <3> SUFFICES ASSUME NEW p \in Int PROVE In(p, e) <=> In(p, m[n]) \/ In(p, x)
        OBVIOUS
      <3> DEFINE a == m[n].from
                 b == m[n].to
                 c == x.from
                 d == x.to
                 f == IF b < d THEN d ELSE b
      <3>1. a \in Int /\ b \in Int /\ c \in Int /\ d \in Int /\ a <= c /\ c <= b + 1 /\ a <= b /\ c <= d
        BY <2>5, <2>6
      <3> HIDE DEF a, b, c, d
      <3>2. (a <= p /\ p <= f) <=> ((a <= p /\ p <= b) \/ (c <= p /\ p <= d))
        BY <3>1
      <3>3. In(p, e) <=> (a <= p /\ p <= f)
        <4>1. e.from = a /\ e.to = f
          BY <2>7 DEF a, b, d
        <4>2. QED
          BY <4>1 DEF In
      <3>4. (In(p, m[n]) <=> (a <= p /\ p <= b)) /\ (In(p, x) <=> (c <= p /\ p <= d))
        BY DEF In, a, b, c, d
      <3>5. QED
        BY <3>2, <3>3, <3>4
    <2>14. \A p \in Int : (\E i \in 1..n : In(p, k[i])) <=> (\E i \in 1..n : In(p, m[i])) \/ In(p, x)
      <3> SUFFICES ASSUME NEW p \in Int
                   PROVE  (\E i \in 1..n : In(p, k[i])) <=> (\E i \in 1..n : In(p, m[i])) \/ In(p, x)
        OBVIOUS
      <3>1. In(p, k[n]) <=> In(p, m[n]) \/ In(p, x)
        BY <2>10, <2>13
      <3>2. \A i \in 1..n : i # n => (In(p, k[i]) <=> In(p, m[i]))
        BY <2>9
      <3> HIDE DEF n
      <3>3. QED
        BY <2>1, <3>1, <3>2
    <2>15. Merged(k, T)
      <3> HIDE DEF n
      <3>1. QED
        BY <1>6, <2>4, <2>11, <2>12, <2>14 DEF Merged
    <2>16. QED
      BY <2>2, <2>15
  <1>9. QED
    BY <1>7, <1>8

\* Merging holds exactly what the spans hold, in order and apart.
LEMMA MergeFacts ==
    ASSUME NEW S \in SUBSET Spans, IsFiniteSet(S)
    PROVE  Merged(Merge(S), S)
  <1>1. PICK g : /\ Merge(S) = g[S] /\ g[{}] = <<>>
                 /\ \A T \in SUBSET S : T # {} => g[T] = Join(g[T \ {Latest(T)}], Latest(T))
    BY MergeSteps
  <1> DEFINE D == SUBSET S
             m == [T \in D |-> Cardinality(T)]
             B == {T \in D : ~Merged(g[T], T)}
  <1>2. \A T \in D : Cardinality(T) \in Nat /\ IsFiniteSet(T)
    BY FS_Subset, FS_CardinalityType
  <1>3. Merged(g[S], S)
    <2> SUFFICES ASSUME ~Merged(g[S], S) PROVE FALSE
      OBVIOUS
    <2>1. m \in [D -> Nat]
      BY <1>2
    <2>2. B \in SUBSET D /\ S \in B
      OBVIOUS
    <2>3. PICK T \in B : \A U \in B : ~(m[U] < m[T])
      <3> HIDE DEF B, D, m
      <3>1. QED
        BY <2>1, <2>2, LeastOf
    <2>4. T \in SUBSET S /\ ~Merged(g[T], T) /\ IsFiniteSet(T)
      BY <1>2, <2>3
    <2>5. T # {}
      <3>1. Merged(<<>>, {})
        <4>1. <<>> \in Seq([from : Int, to : Int]) /\ Len(<<>>) = 0
          BY EmptySeq
        <4>2. QED
          BY <4>1 DEF Merged
      <3>2. QED
        BY <1>1, <2>4, <3>1
    <2> DEFINE x == Latest(T)
               U == T \ {x}
    <2>6. x \in T /\ (\A q \in T : Earlier(q, x)) /\ T \in SUBSET Spans
      BY <2>4, <2>5, LatestFacts
    <2>7. g[T] = Join(g[U], x)
      BY <1>1, <2>4, <2>5
    <2>8. U \in SUBSET S /\ Cardinality(U) = Cardinality(T) - 1
      BY <2>4, <2>6, FS_RemoveElement
    <2> HIDE DEF x
    <2>9. m[U] < m[T]
      <3>1. m[U] = Cardinality(U) /\ m[T] = Cardinality(T) /\ Cardinality(T) \in Nat
        BY <1>2, <2>4, <2>8
      <3> HIDE DEF m, U
      <3>2. QED
        BY <2>8, <3>1
    <2>10. U \notin B
      <3> HIDE DEF B, m, U
      <3>1. QED
        BY <2>3, <2>9
    <2>11. Merged(g[U], U)
      BY <2>8, <2>10
    <2>12. Merged(Join(g[U], x), T)
      BY <2>6, <2>11, JoinMerged
    <2>13. QED
      BY <2>4, <2>7, <2>12
  <1>4. QED
    BY <1>1, <1>3

Space == 0..(TwoTo[Bits] - 1)

CidrLike(c) ==
    /\ c.network \in Space /\ c.prefix \in 0..Bits
    /\ c.network % TwoTo[Bits - c.prefix] = 0

\* The block of a CIDR: a multiple of its size, below the end of the space.
LEMMA CidrFacts ==
    ASSUME Bits \in Nat, NEW c, CidrLike(c)
    PROVE  /\ c.network \in Nat /\ c.network < TwoTo[Bits]
           /\ Bits - c.prefix \in Nat /\ TwoTo[Bits - c.prefix] \in Nat \ {0}
           /\ \E i \in Nat : c.network = TwoTo[Bits - c.prefix] * i
           /\ c.network + TwoTo[Bits - c.prefix] <= TwoTo[Bits]
  <1>1. Bits - c.prefix \in Nat /\ c.prefix \in Nat
    BY DEF CidrLike
  <1> DEFINE C == TwoTo[Bits - c.prefix]
             E == TwoTo[Bits]
             n == c.network
  <1>2. C \in Nat \ {0} /\ E \in Nat \ {0}
    BY <1>1, TwoToFacts
  <1>3. n \in Nat /\ n < E /\ n % C = 0
    <2>1. n \in 0..(E - 1)
      BY DEF CidrLike, Space
    <2>2. n % C = 0
      BY DEF CidrLike
    <2> HIDE DEF n, C, E
    <2>3. QED
      BY <1>2, <2>1, <2>2
  <1>4. PICK l \in Nat \ {0} : E = C * l
    <2>1. \E l \in Nat \ {0} : TwoTo[(Bits - c.prefix) + c.prefix] = TwoTo[Bits - c.prefix] * l
      BY <1>1, TwoToMultiple
    <2>2. (Bits - c.prefix) + c.prefix = Bits
      BY <1>1
    <2>3. QED
      BY <2>1, <2>2
  <1> HIDE DEF C, E, n
  <1>5. PICK j \in Nat : n = C * j
    BY <1>2, <1>3, Multiple
  <1>6. j < l
    <2> SUFFICES ASSUME ~(j < l) PROVE FALSE
      OBVIOUS
    <2>1. l < j \/ l = j
      OBVIOUS
    <2>2. C * l \in Nat /\ C * j \in Nat
      BY <1>2
    <2>3. CASE l < j
      <3>1. C * l + C <= C * j
        BY <1>2, <2>3, Apart
      <3>2. QED
        BY <1>2, <1>3, <1>4, <1>5, <2>2, <3>1
    <2>4. CASE l = j
      BY <1>3, <1>4, <1>5, <2>2, <2>4
    <2>5. QED
      BY <2>1, <2>3, <2>4
  <1>7. n + C <= E
    <2>1. C * j + C <= C * l
      BY <1>2, <1>6, Apart
    <2>2. QED
      BY <1>4, <1>5, <2>1
  <1>8. QED
    BY <1>1, <1>2, <1>3, <1>5, <1>7 DEF C, E, n

\* An address has the network bits of a CIDR exactly if it is in its block.
LEMMA AddressInside ==
    ASSUME Bits \in Nat, NEW c, CidrLike(c), NEW a \in Nat
    PROVE  Shift(a, c.prefix) = Shift(c.network, c.prefix)
             <=> c.network <= a /\ a < c.network + TwoTo[Bits - c.prefix]
  <1> DEFINE A == TwoTo[Bits - c.prefix]
  <1>1. PICK i \in Nat : c.network = A * i
    BY CidrFacts
  <1>2. A \in Nat \ {0}
    BY CidrFacts
  <1> HIDE DEF A
  <1>3. A * i \in Nat /\ A * i < A * i + A
    BY <1>2
  <1> DEFINE n == A * i
  <1>4. n \in Nat /\ n <= n /\ n < n + A
    BY <1>3
  <1>5. n \div A = i <=> A * i <= n /\ n < A * i + A
    <2> HIDE DEF n
    <2>1. QED
      BY <1>2, <1>4, Block
  <1>6. n \div A = i
    BY <1>4, <1>5
  <1>7. a \div A = i <=> A * i <= a /\ a < A * i + A
    BY <1>2, Block
  <1>8. QED
    BY <1>1, <1>6, <1>7 DEF Shift, A

\* A CIDR contains another, by its mask, exactly if it has all its addresses.
LEMMA CidrInside ==
    ASSUME Bits \in Nat, NEW c, CidrLike(c), NEW t, CidrLike(t)
    PROVE  CidrContains(c, t.family, t.network, t.prefix)
             <=> t.family = c.family /\ Addresses(t) \subseteq Addresses(c)
  <1> DEFINE A == TwoTo[Bits - c.prefix]
             C == TwoTo[Bits - t.prefix]
             E == TwoTo[Bits]
             m == c.network
             n == t.network
  <1>1. m \in Nat /\ n \in Nat /\ A \in Nat \ {0} /\ C \in Nat \ {0} /\ E \in Nat
    BY CidrFacts, TwoToFacts
  <1>2. n < E /\ n + C <= E
    BY CidrFacts
  <1>3. c.prefix \in 0..Bits /\ t.prefix \in 0..Bits /\ Bits - c.prefix \in Nat /\ Bits - t.prefix \in Nat
    BY CidrFacts DEF CidrLike
  <1>4. Shift(n, c.prefix) = Shift(m, c.prefix) <=> m <= n /\ n < m + A
    <2> HIDE DEF n
    <2>1. QED
      BY <1>1, AddressInside
  <1>5. Addresses(t) = {a \in 0..(E - 1) : n <= a /\ a < n + C}
    BY DEF Addresses
  <1>6. Addresses(c) = {a \in 0..(E - 1) : m <= a /\ a < m + A}
    BY DEF Addresses
  <1>7. PICK j \in Nat : n = C * j
    BY CidrFacts
  <1>8. PICK i \in Nat : m = A * i
    BY CidrFacts
  <1>9. c.prefix <= t.prefix => \E k \in Nat : A = C * k
    <2> SUFFICES ASSUME c.prefix <= t.prefix PROVE \E k \in Nat : A = C * k
      OBVIOUS
    <2>1. t.prefix - c.prefix \in Nat /\ (Bits - t.prefix) + (t.prefix - c.prefix) = Bits - c.prefix
      BY <1>3
    <2>2. \E k \in Nat \ {0} : TwoTo[(Bits - t.prefix) + (t.prefix - c.prefix)] = TwoTo[Bits - t.prefix] * k
      BY <1>3, <2>1, TwoToMultiple
    <2>3. QED
      BY <2>1, <2>2
  <1>10. t.prefix < c.prefix => A < C
    <2> SUFFICES ASSUME t.prefix < c.prefix PROVE A < C
      OBVIOUS
    <2>1. /\ c.prefix - t.prefix \in Nat /\ c.prefix - t.prefix # 0
          /\ (Bits - c.prefix) + (c.prefix - t.prefix) = Bits - t.prefix
      BY <1>3
    <2>2. \E k \in Nat \ {0} : /\ TwoTo[(Bits - c.prefix) + (c.prefix - t.prefix)] = TwoTo[Bits - c.prefix] * k
                               /\ (c.prefix - t.prefix # 0 => k >= 2)
      BY <1>3, <2>1, TwoToMultiple
    <2>3. PICK k \in Nat \ {0} : C = A * k /\ k >= 2
      BY <2>1, <2>2
    <2> HIDE DEF A, C
    <2>4. A * 1 + A <= A * k
      BY <1>1, <2>3, Apart
    <2>5. QED
      BY <1>1, <2>3, <2>4
  <1> HIDE DEF A, C, E, m, n
  <1>11. ASSUME c.prefix <= t.prefix, m <= n, n < m + A
         PROVE  Addresses(t) \subseteq Addresses(c)
    <2>1. PICK k \in Nat : A = C * k
      BY <1>9, <1>11
    <2> DEFINE q == k * i + k
    <2>2. q \in Nat /\ C * q = m + A
      <3>1. C * (k * i + k) = (C * k) * i + C * k
        BY <1>1
      <3>2. QED
        BY <1>8, <2>1, <3>1
    <2> HIDE DEF q
    <2>3. j < q
      <3> SUFFICES ASSUME ~(j < q) PROVE FALSE
        OBVIOUS
      <3>1. CASE q < j
        <4>1. C * q + C <= C * j
          BY <1>1, <2>2, <3>1, Apart
        <4>2. QED
          BY <1>1, <1>7, <1>11, <2>2, <4>1
      <3>2. CASE q = j
        BY <1>1, <1>7, <1>11, <2>2, <3>2
      <3>3. QED
        BY <2>2, <3>1, <3>2
    <2>4. C * j + C <= C * q
      BY <1>1, <2>2, <2>3, Apart
    <2>5. n + C <= m + A
      BY <1>7, <2>2, <2>4
    <2>6. QED
      BY <1>1, <1>5, <1>6, <1>11, <2>5
  <1>12. ASSUME Addresses(t) \subseteq Addresses(c)
         PROVE  c.prefix <= t.prefix /\ m <= n /\ n < m + A
    <2>1. n \in Addresses(t)
      BY <1>1, <1>2, <1>5
    <2>2. m <= n /\ n < m + A
      BY <1>6, <1>12, <2>1
    <2>3. ~(t.prefix < c.prefix)
      <3> SUFFICES ASSUME t.prefix < c.prefix PROVE FALSE
        OBVIOUS
      <3>1. A < C
        BY <1>10
      <3>2. n + A \in Addresses(t)
        BY <1>1, <1>2, <1>5, <3>1
      <3>3. n + A < m + A
        BY <1>6, <1>12, <3>2
      <3>4. QED
        BY <1>1, <2>2, <3>3
    <2>4. QED
      BY <1>3, <2>2, <2>3
  <1>13. QED
    BY <1>4, <1>11, <1>12 DEF CidrContains, m, n

\* The set of a finite sequence's elements is finite.
LEMMA ToSetFinite ==
    ASSUME NEW R, NEW s \in Seq(R)
    PROVE  IsFiniteSet(ToSet(s)) /\ ToSet(s) \subseteq R
  <1> DEFINE n == Len(s)
             f == [i \in 1..n |-> s[i]]
  <1>1. n \in Nat /\ DOMAIN s = 1..n /\ \A i \in 1..n : s[i] \in R
    BY LenProperties, ElementOfSeq
  <1>2. ToSet(s) = {s[i] : i \in 1..n}
    BY <1>1 DEF ToSet
  <1> HIDE DEF n
  <1>3. f \in Surjection(1..n, ToSet(s))
    BY <1>1, <1>2 DEF Surjection
  <1>4. IsFiniteSet(1..n)
    BY <1>1, FS_Interval
  <1>5. QED
    BY <1>1, <1>2, <1>3, <1>4, FS_Surjection

Listed(ports) == ports \in Seq([from : Int, to : Int])

\* Merged, the ranges hold the ports they held.
LEMMA PortsMerged ==
    ASSUME MaxPort \in Nat, NEW ports, Listed(ports), \A r \in ToSet(ports) : ValidRange(r)
    PROVE  /\ Listed(Merge(ToSet(ports)))
           /\ \A p \in Int : Within(p, Merge(ToSet(ports)))
                               <=> p \in UNION {r.from..r.to : r \in ToSet(ports)}
  <1> DEFINE S == ToSet(ports)
             m == Merge(S)
  <1>1. IsFiniteSet(S) /\ S \subseteq [from : Int, to : Int]
    BY ToSetFinite DEF Listed
  <1>2. \A r \in S : r.from <= r.to
    BY <1>1 DEF ValidRange
  <1>3. S \in SUBSET Spans
    BY <1>1, <1>2 DEF Spans
  <1> HIDE DEF S
  <1>4. Merged(m, S)
    BY <1>1, <1>3, MergeFacts
  <1> HIDE DEF m
  <1>5. m \in Seq([from : Int, to : Int])
    BY <1>4 DEF Merged
  <1>6. DOMAIN m = 1..Len(m)
    BY <1>5, LenProperties
  <1>7. ASSUME NEW p \in Int PROVE Within(p, m) <=> p \in UNION {r.from..r.to : r \in S}
    <2>1. Within(p, m) <=> \E i \in 1..Len(m) : In(p, m[i])
      BY <1>6 DEF Within, In
    <2>2. (\E i \in 1..Len(m) : In(p, m[i])) <=> (\E r \in S : In(p, r))
      BY <1>4 DEF Merged
    <2>3. (\E r \in S : In(p, r)) <=> \E r \in S : p \in r.from..r.to
      <3>1. \A r \in S : r.from \in Int /\ r.to \in Int
        BY <1>1
      <3>2. \A r \in S : In(p, r) <=> p \in r.from..r.to
        BY <3>1 DEF In
      <3>3. QED
        BY <3>2
    <2>4. QED
      BY <2>1, <2>2, <2>3
  <1>8. QED
    BY <1>5, <1>7 DEF Listed, S, m

RuleLike(r) ==
    /\ r = [f \in DOMAIN r |-> r[f]] /\ "kind" \in DOMAIN r /\ "ports" \in DOMAIN r
    /\ r.ports = Anywhere \/ Listed(r.ports)
    /\ \/ r.kind = "ip" /\ "target" \in DOMAIN r
       \/ r.kind = "cidr" /\ "target" \in DOMAIN r /\ CidrLike(r.target)
       \/ r.kind = "domain" /\ "target" \in DOMAIN r /\ "subdomains" \in DOMAIN r
       \/ r.kind = "url-origin" /\ "origin" \in DOMAIN r

SubjectLike(s) ==
    /\ s.target.kind = "cidr" => CidrLike(s.target)
    /\ IpOf(s.target).kind = "ip" => IpOf(s.target).address \in Space
    /\ s.ports = Unspecified \/ s.ports \subseteq 1..MaxPort

\* A rule's host predicate says which hosts it stands for.
LEMMA HostsCovered ==
    ASSUME Bits \in Nat, NEW r, RuleLike(r), NEW s, SubjectLike(s)
    PROVE  HostMatches(r, s) <=> Covers(r, s)
  <1> DEFINE t == s.target
             ip == IpOf(t)
             c == r.target
  <1>1. CASE r.kind # "cidr"
    BY <1>1 DEF Covers
  <1>2. CASE r.kind = "cidr" /\ t.kind = "cidr"
    <2>1. HostMatches(r, s) <=> CidrContains(c, t.family, t.network, t.prefix)
      BY <1>2 DEF HostMatches
    <2>2. Covers(r, s) <=> t.family = c.family /\ Addresses(t) \subseteq Addresses(c)
      BY <1>2 DEF Covers
    <2>3. CidrLike(c) /\ CidrLike(t)
      BY <1>2 DEF RuleLike, SubjectLike
    <2> HIDE DEF c, t
    <2>4. QED
      BY <2>1, <2>2, <2>3, CidrInside
  <1>3. CASE r.kind = "cidr" /\ t.kind # "cidr"
    <2>1. HostMatches(r, s) <=> ip.kind = "ip" /\ CidrContains(c, ip.family, ip.address, Bits)
      BY <1>3 DEF HostMatches
    <2>2. Covers(r, s) <=> ip.kind = "ip" /\ ip.family = c.family /\ ip.address \in Addresses(c)
      BY <1>3 DEF Covers
    <2>3. CidrLike(c) /\ (ip.kind = "ip" => ip.address \in Space)
      BY <1>3 DEF RuleLike, SubjectLike
    <2> HIDE DEF c, ip
    <2>4. CASE ip.kind # "ip"
      BY <2>1, <2>2, <2>4
    <2>5. CASE ip.kind = "ip"
      <3> DEFINE a == ip.address
      <3>1. a \in Space /\ a \in Nat
        BY <2>3, <2>5 DEF Space
      <3> HIDE DEF a
      <3>2. Shift(a, c.prefix) = Shift(c.network, c.prefix)
              <=> c.network <= a /\ a < c.network + TwoTo[Bits - c.prefix]
        BY <2>3, <3>1, AddressInside
      <3>3. a \in Addresses(c) <=> c.network <= a /\ a < c.network + TwoTo[Bits - c.prefix]
        BY <3>1 DEF Addresses, Space
      <3>4. c.prefix <= Bits
        BY <2>3 DEF CidrLike
      <3>5. CidrContains(c, ip.family, a, Bits) <=> ip.family = c.family /\ a \in Addresses(c)
        BY <3>2, <3>3, <3>4 DEF CidrContains
      <3>6. QED
        BY <2>1, <2>2, <2>5, <3>5 DEF a
    <2>6. QED
      BY <2>4, <2>5
  <1>4. QED
    BY <1>1, <1>2, <1>3

\* Normalising its ports leaves the hosts of a rule alone.
LEMMA HostsNormalized ==
    ASSUME NEW r, RuleLike(r), NEW s
    PROVE  HostMatches(NormalizePorts(r), s) <=> HostMatches(r, s)
  <1> DEFINE n == NormalizePorts(r)
             x == Merge(ToSet(r.ports))
  <1>1. CASE r.ports = Anywhere
    BY <1>1 DEF NormalizePorts
  <1>2. CASE r.ports # Anywhere
    <2>1. n = [r EXCEPT !.ports = x]
      BY <1>2 DEF NormalizePorts
    <2> HIDE DEF n, x
    <2>2. \A f \in DOMAIN r : f # "ports" => n[f] = r[f]
      BY <2>1
    <2>3. n.kind = r.kind
      BY <2>2 DEF RuleLike
    <2>4. "target" \in DOMAIN r => n.target = r.target
      BY <2>2
    <2>5. "subdomains" \in DOMAIN r => n.subdomains = r.subdomains
      BY <2>2
    <2>6. "origin" \in DOMAIN r => n.origin = r.origin
      BY <2>2
    <2>7. CASE r.kind = "ip" /\ "target" \in DOMAIN r
      BY <2>3, <2>4, <2>7 DEF HostMatches, n
    <2>8. CASE r.kind = "cidr" /\ "target" \in DOMAIN r
      BY <2>3, <2>4, <2>8 DEF HostMatches, n
    <2>9. CASE r.kind = "domain" /\ "target" \in DOMAIN r /\ "subdomains" \in DOMAIN r
      BY <2>3, <2>4, <2>5, <2>9 DEF HostMatches, n
    <2>10. CASE r.kind = "url-origin" /\ "origin" \in DOMAIN r
      BY <2>3, <2>6, <2>10 DEF HostMatches, n
    <2>11. QED
      BY <2>7, <2>8, <2>9, <2>10 DEF RuleLike
  <1>3. QED
    BY <1>1, <1>2

\* A normalised rule leaves no port of the subject out exactly if the ports
\* of the subject are among those the rule allows.
PortsInScope(r, s) ==
    IF s.ports = Unspecified THEN r.ports = Anywhere ELSE s.ports \subseteq PortsOf(r)

\* A matched rule leaves no port of the subject out.
LEMMA PortsCovered ==
    ASSUME MaxPort \in Nat, \A m : Listed(m) => m # Anywhere,
           NEW r, RuleLike(r), NEW s, SubjectLike(s),
           r.ports # Anywhere => \A q \in ToSet(r.ports) : ValidRange(q)
    PROVE  ~Unbounded(s, NormalizePorts(r)) /\ Uncovered(s.ports, NormalizePorts(r).ports) = {}
             <=> PortsInScope(r, s)
  <1> DEFINE n == NormalizePorts(r)
             x == Merge(ToSet(r.ports))
  <1>1. CASE r.ports = Anywhere
    <2>1. n = r
      BY <1>1 DEF NormalizePorts
    <2>2. ~Unbounded(s, n) /\ Uncovered(s.ports, n.ports) = {}
      BY <1>1, <2>1 DEF Unbounded, Uncovered
    <2>3. PortsOf(r) = 1..MaxPort
      BY <1>1 DEF PortsOf
    <2>4. PortsInScope(r, s)
      BY <1>1, <2>3 DEF PortsInScope, SubjectLike
    <2>5. QED
      BY <2>2, <2>4
  <1>2. CASE r.ports # Anywhere
    <2>1. n = [r EXCEPT !.ports = x]
      BY <1>2 DEF NormalizePorts
    <2>2. Listed(r.ports)
      BY <1>2 DEF RuleLike
    <2>3. Listed(x) /\ \A p \in Int : Within(p, x) <=> p \in UNION {q.from..q.to : q \in ToSet(r.ports)}
      BY <1>2, <2>2, PortsMerged
    <2>4. PortsOf(r) = UNION {q.from..q.to : q \in ToSet(r.ports)}
      BY <1>2 DEF PortsOf
    <2> HIDE DEF n, x
    <2>5. n.ports = x /\ x # Anywhere
      BY <2>1, <2>3 DEF RuleLike
    <2>6. Unbounded(s, n) <=> s.ports = Unspecified
      BY <2>5 DEF Unbounded
    <2>7. CASE s.ports = Unspecified
      BY <1>2, <2>6, <2>7 DEF PortsInScope, n
    <2>8. CASE s.ports # Unspecified
      <3>1. s.ports \subseteq 1..MaxPort
        BY <2>8 DEF SubjectLike
      <3>2. \A p \in s.ports : p \in Int
        BY <3>1
      <3>3. \A p \in s.ports : Within(p, x) <=> p \in PortsOf(r)
        BY <2>3, <2>4, <3>2
      <3>4. Uncovered(s.ports, n.ports) = {p \in s.ports : ~Within(p, x)}
        BY <2>5 DEF Uncovered
      <3>5. Uncovered(s.ports, n.ports) = {} <=> s.ports \subseteq PortsOf(r)
        BY <3>3, <3>4
      <3>6. PortsInScope(r, s) <=> s.ports \subseteq PortsOf(r)
        BY <2>8 DEF PortsInScope
      <3>7. QED
        BY <2>6, <2>8, <3>5, <3>6 DEF n
    <2>9. QED
      BY <2>7, <2>8
  <1>3. QED
    BY <1>1, <1>2

QuestionLike(q) ==
    /\ q.active \in BOOLEAN
    /\ \A i \in DOMAIN q.rules : RuleLike(q.rules[i])
    /\ SubjectLike(q.subject)

\* compareSavedScope (saved-scope.ts) answers every question of scope as
\* containment of the addresses, names and ports does: whatever the rules, their
\* masks, and the number, order, overlap or adjacency of their port ranges.
THEOREM ComparisonIsContainment ==
    ASSUME NEW q, QuestionLike(q)
    PROVE  ContainmentHolds(q, Comparison(q))
  <1> DEFINE D == DOMAIN q.rules
             s == q.subject
             rules == [i \in D |-> NormalizePorts(q.rules[i])]
             hosts == HostRules(s, rules)
             matched == MatchedRules(s, rules)
             a == Comparison(q)
  <1>0. Bits \in Nat /\ MaxPort \in Nat /\ \A m : Listed(m) => m # Anywhere
    BY ScopeAssumption DEF Listed
  <1>1. CASE Refusal(q) # "none"
    <2>1. a = [error |-> Refusal(q)]
      BY <1>1 DEF Comparison
    <2>2. a.error # "none"
      BY <1>1, <2>1
    <2>3. QED
      BY <2>2 DEF ContainmentHolds
  <1>2. CASE Refusal(q) = "none"
    <2>1. \A i \in D : q.rules[i].ports # Anywhere => \A r \in ToSet(q.rules[i].ports) : ValidRange(r)
      BY <1>2 DEF Refusal
    <2>2. a = [error |-> "none",
               outside |-> q.active /\ matched = {},
               matched |-> IF q.active THEN matched ELSE {},
               reason |-> IF q.active /\ matched = {} THEN OutsideReason(s, rules) ELSE "none"]
      BY <1>2 DEF Comparison
    <2> HIDE DEF D, s, matched, a
    <2>3. a.outside <=> q.active /\ matched = {}
      BY <2>2
    <2>4. q.active /\ matched = {} => a.reason = OutsideReason(s, rules)
      BY <2>2
    <2>5. \A i \in D : rules[i] = NormalizePorts(q.rules[i])
      OBVIOUS
    <2>6. DOMAIN rules = D /\ (rules = <<>> => D = {})
      <3>1. DOMAIN rules = D
        OBVIOUS
      <3> HIDE DEF rules
      <3>2. rules = <<>> => D = {}
        BY <3>1
      <3>3. QED
        BY <3>1, <3>2
    <2> HIDE DEF rules
    <2>7. SubjectLike(s) /\ \A i \in D : RuleLike(q.rules[i])
      BY DEF QuestionLike, D, s
    <2>8. \A i \in D : HostMatches(rules[i], s) <=> Covers(q.rules[i], s)
      <3> SUFFICES ASSUME NEW i \in D PROVE HostMatches(rules[i], s) <=> Covers(q.rules[i], s)
        OBVIOUS
      <3>1. HostMatches(NormalizePorts(q.rules[i]), s) <=> HostMatches(q.rules[i], s)
        BY <2>7, HostsNormalized
      <3>2. HostMatches(q.rules[i], s) <=> Covers(q.rules[i], s)
        BY <1>0, <2>7, HostsCovered
      <3>3. QED
        BY <2>5, <3>1, <3>2
    <2>9. \A i \in D : ~Unbounded(s, rules[i]) /\ Uncovered(s.ports, rules[i].ports) = {}
                         <=> PortsInScope(q.rules[i], s)
      BY <1>0, <2>1, <2>5, <2>7, PortsCovered
    <2>10. hosts = {i \in D : Covers(q.rules[i], s)}
      BY <2>6, <2>8 DEF HostRules
    <2> HIDE DEF hosts
    <2>11. matched = {i \in D : Covers(q.rules[i], s) /\ PortsInScope(q.rules[i], s)}
      <3>1. matched = {i \in hosts : ~Unbounded(s, rules[i]) /\ Uncovered(s.ports, rules[i].ports) = {}}
        BY DEF MatchedRules, matched, hosts
      <3>2. QED
        BY <2>9, <2>10, <3>1
    <2>12. InScope(q) <=> \E i \in D : Covers(q.rules[i], s) /\ PortsInScope(q.rules[i], s)
      BY DEF InScope, PortsInScope, D, s
    <2>13. a.outside <=> (q.active /\ ~InScope(q))
      BY <2>3, <2>11, <2>12
    <2>14. OutsideReason(s, rules) \in {"ports_unspecified", "ports_uncovered"} <=> hosts # {}
      <3>1. CASE rules = <<>>
        <4>1. OutsideReason(s, rules) = "active_scope_empty"
          BY <3>1 DEF OutsideReason
        <4>2. hosts = {}
          BY <2>6, <2>10, <3>1
        <4>3. QED
          BY <4>1, <4>2
      <3>2. CASE rules # <<>> /\ hosts # {}
        <4>1. OutsideReason(s, rules) = IF \E i \in hosts : Unbounded(s, rules[i])
                                          THEN "ports_unspecified" ELSE "ports_uncovered"
          BY <3>2 DEF OutsideReason, hosts
        <4>2. QED
          BY <3>2, <4>1
      <3>3. CASE rules # <<>> /\ hosts = {}
        <4>1. OutsideReason(s, rules)
                \in {"redirect_origin_outside_scope", "origin_mismatch",
                     "no_exact_ip_rule", "host_outside_scope"}
          BY <3>3 DEF OutsideReason, hosts
        <4>2. QED
          BY <3>3, <4>1
      <3>4. QED
        BY <3>1, <3>2, <3>3
    <2>15. a.outside => (a.reason \in {"ports_unspecified", "ports_uncovered"}
                           <=> \E i \in D : Covers(q.rules[i], s))
      BY <2>3, <2>4, <2>10, <2>14
    <2>16. QED
      BY <2>13, <2>15 DEF ContainmentHolds, D, s, a
  <1>3. QED
    BY <1>1, <1>2

-----------------------------------------------------------------------------
(* Saved scope: the questions asked.                                       *)

\* What the addresses, CIDRs and hostnames of the questions are.
LEMMA ExactLike ==
    /\ \A t \in Ips : t.kind = "ip" /\ t.address \in Space
    /\ \A t \in Cidrs : t.kind = "cidr" /\ CidrLike(t)
    /\ \A t \in Hostnames : t.kind = "hostname"
  <1>1. \A t \in Ips : t.kind = "ip" /\ t.address \in Space
    BY DEF Ips, Space
  <1>2. \A t \in Cidrs : t.kind = "cidr" /\ CidrLike(t)
    BY DEF Cidrs, CidrLike, Space
  <1>3. \A t \in Hostnames : t.kind = "hostname"
    BY DEF Hostnames
  <1>4. QED
    BY <1>1, <1>2, <1>3

\* The host of a URL is a hostname or an address.
LEMMA UrlLike ==
    ASSUME NEW t \in Urls
    PROVE  t.kind = "url" /\ IpOf(t) = t.host /\ (t.host \in Hostnames \/ t.host \in Ips)
  <1>1. PICK o \in Origins : t = [kind |-> "url", scheme |-> o.scheme, host |-> o.host, port |-> o.port]
    BY DEF Urls
  <1>2. o.host \in Hostnames \cup Ips
    BY DEF Origins
  <1>3. QED
    BY <1>1, <1>2 DEF IpOf

\* The target of a subject is one normalizeTarget returns.
LEMMA TargetLike ==
    ASSUME NEW t \in Ips \cup Cidrs \cup Hostnames \cup Urls
    PROVE  /\ t.kind = "cidr" => CidrLike(t)
           /\ IpOf(t).kind = "ip" => IpOf(t).address \in Space
  <1>1. CASE t \in Ips
    BY <1>1, ExactLike DEF IpOf
  <1>2. CASE t \in Cidrs
    BY <1>2, ExactLike DEF IpOf
  <1>3. CASE t \in Hostnames
    BY <1>3, ExactLike DEF IpOf
  <1>4. CASE t \in Urls
    <2>1. t.kind = "url" /\ IpOf(t) = t.host /\ (t.host \in Hostnames \/ t.host \in Ips)
      BY <1>4, UrlLike
    <2>2. QED
      BY <2>1, ExactLike
  <1>5. QED
    BY <1>1, <1>2, <1>3, <1>4

PortsLike(ports) == \A p \in ports : p = Anywhere \/ Listed(p)

\* The rules of the questions are rules.
LEMMA TargetsLike ==
    ASSUME NEW ports, PortsLike(ports), NEW r \in Targets(ports), NEW id
    PROVE  RuleLike(WithId(r, id))
  <1> DEFINE w == WithId(r, id)
  <1>1. w = [f \in DOMAIN r \cup {"id"} |-> IF f = "id" THEN id ELSE r[f]]
    BY DEF WithId
  <1>2. /\ w = [f \in DOMAIN w |-> w[f]] /\ DOMAIN r \subseteq DOMAIN w
        /\ \A f \in DOMAIN r : f # "id" => w[f] = r[f]
    BY <1>1
  <1> HIDE DEF w
  <1>3. CASE r \in [kind : {"ip"}, target : Ips, ports : ports]
    <2>1. {"kind", "target", "ports"} \subseteq DOMAIN r /\ r.kind = "ip" /\ r.ports \in ports
      BY <1>3
    <2>2. w.kind = "ip" /\ w.ports \in ports /\ {"kind", "target", "ports"} \subseteq DOMAIN w
      BY <1>2, <2>1
    <2>3. QED
      BY <1>2, <2>2 DEF RuleLike, PortsLike, w
  <1>4. CASE r \in [kind : {"cidr"}, target : Cidrs, ports : ports]
    <2>1. /\ {"kind", "target", "ports"} \subseteq DOMAIN r /\ r.kind = "cidr"
          /\ r.ports \in ports /\ r.target \in Cidrs
      BY <1>4
    <2>2. /\ w.kind = "cidr" /\ w.ports \in ports
          /\ {"kind", "target", "ports"} \subseteq DOMAIN w /\ w.target \in Cidrs
      BY <1>2, <2>1
    <2>3. CidrLike(w.target)
      BY <2>2, ExactLike
    <2>4. QED
      BY <1>2, <2>2, <2>3 DEF RuleLike, PortsLike, w
  <1>5. CASE r \in [kind : {"domain"}, target : Hostnames, subdomains : BOOLEAN, ports : ports]
    <2>1. /\ {"kind", "target", "subdomains", "ports"} \subseteq DOMAIN r
          /\ r.kind = "domain" /\ r.ports \in ports
      BY <1>5
    <2>2. /\ w.kind = "domain" /\ w.ports \in ports
          /\ {"kind", "target", "subdomains", "ports"} \subseteq DOMAIN w
      BY <1>2, <2>1
    <2>3. QED
      BY <1>2, <2>2 DEF RuleLike, PortsLike, w
  <1>6. CASE r \in [kind : {"url-origin"}, origin : Origins, ports : ports]
    <2>1. {"kind", "origin", "ports"} \subseteq DOMAIN r /\ r.kind = "url-origin" /\ r.ports \in ports
      BY <1>6
    <2>2. w.kind = "url-origin" /\ w.ports \in ports /\ {"kind", "origin", "ports"} \subseteq DOMAIN w
      BY <1>2, <2>1
    <2>3. QED
      BY <1>2, <2>2 DEF RuleLike, PortsLike, w
  <1>7. QED
    BY <1>3, <1>4, <1>5, <1>6 DEF Targets

\* The port ranges of the questions are lists of ranges.
LEMMA PortsListed ==
    /\ \A r \in RangeSeqs : Listed(r)
    /\ PortsLike(FewPorts)
    /\ PortsLike({Anywhere, <<[from |-> 2, to |-> 2]>>})
  <1>1. ASSUME NEW r \in RangeSeqs PROVE Listed(r)
    <2>1. PICK n \in 0..MaxRanges : r \in [1..n -> PortRange]
      BY DEF RangeSeqs
    <2>2. n \in Nat
      BY QuestionAssumption
    <2>3. PortRange \subseteq [from : Int, to : Int]
      BY ScopeAssumption DEF PortRange
    <2>4. r \in [1..n -> [from : Int, to : Int]]
      BY <2>1, <2>3
    <2> DEFINE R == [from : Int, to : Int]
    <2>5. r \in [1..n -> R]
      BY <2>4
    <2> HIDE DEF R
    <2>6. r \in Seq(R)
      BY <2>2, <2>5
    <2>7. QED
      BY <2>6 DEF Listed, R
  <1>2. ASSUME NEW k \in Int PROVE Listed(<<[from |-> k, to |-> k]>>)
    <2> DEFINE e == [from |-> k, to |-> k]
               R == [from : Int, to : Int]
    <2>1. e \in R
      OBVIOUS
    <2> HIDE DEF e, R
    <2>2. <<e>> \in Seq(R)
      BY <2>1
    <2>3. QED
      BY <2>2 DEF Listed, e, R
  <1>3. QED
    BY <1>1, <1>2 DEF PortsLike, FewPorts

\* The subjects of the questions are subjects.
LEMMA SubjectsLike ==
    ASSUME NEW ports, \A p \in ports : p = Unspecified \/ p \subseteq 1..MaxPort,
           NEW s, s.target \in Ips \cup Cidrs \cup Hostnames \cup Urls, s.ports \in ports
    PROVE  SubjectLike(s)
  BY TargetLike DEF SubjectLike

\* So the questions are questions.
LEMMA QuestionsLike ==
    ASSUME Questions PROVE QuestionLike(question)
  <1>1. ASSUME NEW r, NEW s, NEW a, Asked(r, s, a),
               a \in BOOLEAN, \A i \in DOMAIN r : RuleLike(r[i]), SubjectLike(s)
        PROVE  QuestionLike(question)
    BY <1>1 DEF Asked, QuestionLike
  <1>2. \A p \in {Unspecified, {1}, {1, 2}} : p = Unspecified \/ p \subseteq 1..MaxPort
    <2>1. 1 \in 1..MaxPort /\ 2 \in 1..MaxPort
      BY ScopeAssumption, QuestionAssumption
    <2>2. QED
      BY <2>1
  <1>3. ASSUME NEW s \in HostSubjects PROVE SubjectLike(s)
    <2> DEFINE T == Ips \cup Cidrs \cup Hostnames \cup Urls
    <2>1. PICK t \in T : s \in [target : {t}, ports : {Unspecified, {1}, {1, 2}}, provenance : Provenances(t)]
      BY DEF HostSubjects, Subjects
    <2>2. s.target = t /\ s.ports \in {Unspecified, {1}, {1, 2}}
      BY <2>1
    <2>3. s.target \in T
      BY <2>2
    <2> HIDE DEF T
    <2>4. QED
      BY <1>2, <2>2, <2>3, SubjectsLike DEF T
  <1>4. CASE \E r \in RangeSeqs, a \in BOOLEAN, s \in PortSubjects : Asked(PortRules(r), s, a)
    <2>1. PICK r \in RangeSeqs, a \in BOOLEAN, s \in PortSubjects : Asked(PortRules(r), s, a)
      BY <1>4
    <2>2. AHost \in Hostnames
      <3>1. Hostnames # {}
        <4>1. PICK n \in Names : TRUE
          BY QuestionAssumption
        <4>2. [kind |-> "hostname", name |-> n] \in Hostnames
          BY DEF Hostnames
        <4>3. QED
          BY <4>2
      <3>2. QED
        BY <3>1 DEF AHost
    <2> DEFINE x == [kind |-> "domain", target |-> AHost, subdomains |-> FALSE, ports |-> r, id |-> 1]
    <2>3. PortRules(r) = <<x>>
      BY DEF PortRules
    <2>4. RuleLike(x)
      BY PortsListed DEF RuleLike
    <2>5. \A i \in DOMAIN PortRules(r) : RuleLike(PortRules(r)[i])
      <3> HIDE DEF x
      <3>1. QED
        BY <2>3, <2>4
    <2>6. SubjectLike(s)
      <3> DEFINE P == {Unspecified} \cup (SUBSET (1..MaxPort) \ {{}})
      <3>1. s.target = AHost /\ s.ports \in P
        BY DEF PortSubjects
      <3>2. \A p \in P : p = Unspecified \/ p \subseteq 1..MaxPort
        OBVIOUS
      <3> HIDE DEF P
      <3>3. QED
        BY <2>2, <3>1, <3>2, SubjectsLike
    <2>7. QED
      BY <1>1, <2>1, <2>5, <2>6
  <1>5. CASE \E r \in Targets(FewPorts), s \in HostSubjects : Asked(<<WithId(r, 1)>>, s, TRUE)
    <2>1. PICK r \in Targets(FewPorts), s \in HostSubjects : Asked(<<WithId(r, 1)>>, s, TRUE)
      BY <1>5
    <2> DEFINE x == WithId(r, 1)
    <2>2. RuleLike(x)
      BY PortsListed, TargetsLike
    <2> HIDE DEF x
    <2>3. \A i \in DOMAIN <<x>> : RuleLike(<<x>>[i])
      BY <2>2
    <2>4. SubjectLike(s)
      BY <1>3
    <2> DEFINE a == TRUE
    <2>5. a \in BOOLEAN /\ Asked(<<x>>, s, a)
      BY <2>1 DEF x
    <2> HIDE DEF a
    <2>6. QED
      BY <1>1, <2>3, <2>4, <2>5
  <1>6. CASE \E r \in Blocks(FewPorts), q \in Blocks({Anywhere, <<[from |-> 2, to |-> 2]>>}),
                i \in {1, 2}, s \in PairSubjects : Asked(<<WithId(r, 1), WithId(q, i)>>, s, TRUE)
    <2>1. PICK r \in Blocks(FewPorts), q \in Blocks({Anywhere, <<[from |-> 2, to |-> 2]>>}),
               j \in {1, 2}, s \in PairSubjects : Asked(<<WithId(r, 1), WithId(q, j)>>, s, TRUE)
      BY <1>6
    <2>2. r \in Targets(FewPorts) /\ q \in Targets({Anywhere, <<[from |-> 2, to |-> 2]>>})
      BY DEF Blocks
    <2> DEFINE x == WithId(r, 1)
               y == WithId(q, j)
    <2>3. RuleLike(x) /\ RuleLike(y)
      BY <2>2, PortsListed, TargetsLike
    <2> DEFINE a == TRUE
    <2>4. a \in BOOLEAN /\ Asked(<<x, y>>, s, a)
      BY <2>1
    <2> HIDE DEF x, y, a
    <2>5. \A i \in DOMAIN <<x, y>> : RuleLike(<<x, y>>[i])
      BY <2>3
    <2>6. SubjectLike(s)
      <3> DEFINE P == {Unspecified, {1, 2}}
                 T == Ips \cup Cidrs \cup Hostnames \cup Urls
      <3>1. s.target \in T /\ s.ports \in P
        BY DEF PairSubjects
      <3>2. \A p \in P : p = Unspecified \/ p \subseteq 1..MaxPort
        BY <1>2
      <3> HIDE DEF P, T
      <3>3. QED
        BY <3>1, <3>2, SubjectsLike DEF T
    <2>7. QED
      BY <1>1, <2>4, <2>5, <2>6
  <1>7. CASE \E a \in BOOLEAN, s \in HostSubjects : Asked(<<>>, s, a)
    <2>1. PICK a \in BOOLEAN, s \in HostSubjects : Asked(<<>>, s, a)
      BY <1>7
    <2>2. \A i \in DOMAIN <<>> : RuleLike(<<>>[i])
      OBVIOUS
    <2>3. SubjectLike(s)
      BY <1>3
    <2>4. QED
      BY <1>1, <2>1, <2>2, <2>3
  <1>8. QED
    BY <1>4, <1>5, <1>6, <1>7 DEF Questions

ScopeInv ==
    /\ part = "compare" => QuestionLike(question)
    /\ part = "compared" => ContainmentHolds(question, answer)

\* Every question of scope that is asked is answered as containment does
\* (saved-scope.ts, compareSavedScope).
THEOREM ComparisonsMeanContainment == MCSpec => []ComparisonMeansContainment
  <1>1. MCInit => ScopeInv
    <2> SUFFICES ASSUME MCInit PROVE ScopeInv
      OBVIOUS
    <2>1. part \in {"stream", "directory", "compare", "estimate"} /\ (part = "compare" => Questions)
      BY DEF MCInit
    <2>2. QED
      BY <2>1, QuestionsLike DEF ScopeInv
  <1>2. ScopeInv /\ [MCNext]_<<vars, streamVars, part, question, answer>> => ScopeInv'
    <2> SUFFICES ASSUME ScopeInv, [MCNext]_<<vars, streamVars, part, question, answer>> PROVE ScopeInv'
      OBVIOUS
    <2>1. CASE UNCHANGED <<part, question, answer>>
      BY <2>1 DEF ScopeInv
    <2>2. CASE Compare
      <3>1. /\ QuestionLike(question)
            /\ part' = "compared" /\ question' = question /\ answer' = Comparison(question)
        BY <2>2 DEF Compare, ScopeInv
      <3>2. ContainmentHolds(question, Comparison(question))
        BY <3>1, ComparisonIsContainment
      <3>3. QED
        BY <3>1, <3>2 DEF ScopeInv
    <2>3. CASE Count
      BY <2>3 DEF Count, ScopeInv
    <2>4. QED
      BY <2>1, <2>2, <2>3 DEF MCNext, Directory, Stream
  <1>3. ScopeInv => ComparisonMeansContainment
    BY DEF ScopeInv, ComparisonMeansContainment
  <1>4. QED
    BY <1>1, <1>2, <1>3, PTL DEF MCSpec

-----------------------------------------------------------------------------
(* Saved scope: the number of addresses.                                   *)

\* A non-empty set of positions has a last one.
LEMMA MaxFacts ==
    ASSUME NEW n \in Nat, NEW S \in SUBSET (1..n), S # {}
    PROVE  Max(S) \in S /\ \A i \in S : i <= Max(S)
  <1> DEFINE m == [i \in 1..n |-> n - i]
  <1>1. m \in [1..n -> Nat]
    OBVIOUS
  <1>2. PICK k \in S : \A i \in S : ~(m[i] < m[k])
    <2> HIDE DEF m
    <2>1. QED
      BY <1>1, LeastOf
  <1>3. \A i \in S : i <= k
    <2> SUFFICES ASSUME NEW i \in S PROVE i <= k
      OBVIOUS
    <2>1. i \in 1..n /\ k \in 1..n
      BY <1>2
    <2>2. m[i] = n - i /\ m[k] = n - k
      BY <2>1
    <2>3. ~(m[i] < m[k])
      BY <1>2
    <2> HIDE DEF m
    <2>4. QED
      BY <2>1, <2>2, <2>3
  <1>4. \A i \in S : k >= i
    BY <1>3
  <1>5. Max(S) \in S /\ \A i \in S : Max(S) >= i
    BY <1>2, <1>4 DEF Max
  <1>6. QED
    BY <1>5

\* The total goes from the spans without the last to all of them.
LEMMA TotalSteps ==
    ASSUME NEW m \in Seq([from : Int, to : Int])
    PROVE  \E g : /\ Total(m) = g[1..Len(m)] /\ g[{}] = 0
                  /\ \A S \in SUBSET (1..Len(m)) : S # {} => g[S] = Length(g[S \ {Max(S)}], m[Max(S)])
  <1> DEFINE n == Len(m)
             D == SUBSET (1..n)
             c == [S \in D |-> Cardinality(S)]
             stop == [S \in D |-> S = {}]
             next == [S \in D |-> S \ {Max(S)}]
             base == [S \in D |-> 0]
             op == [S \in D |-> [v \in Int |-> Length(v, m[Max(S)])]]
             Body(g, S) == IF S = {} THEN 0 ELSE Length(g[S \ {Max(S)}], m[Max(S)])
             G == CHOOSE g : g = [S \in D |-> Body(g, S)]
  <1>0. n \in Nat /\ DOMAIN m = 1..n /\ \A i \in 1..n : m[i] \in [from : Int, to : Int]
    <2>1. n \in Nat /\ DOMAIN m = 1..n
      BY LenProperties
    <2>2. \A i \in 1..n : m[i] \in [from : Int, to : Int]
      BY ElementOfSeq
    <2>3. QED
      BY <2>1, <2>2
  <1>9. Total(m) = G[1..n]
    <2>1. Total(m) = (CHOOSE g : g = [S \in SUBSET DOMAIN m |-> Body(g, S)])[DOMAIN m]
      BY DEF Total, FoldLeft, MapThenFoldSet
    <2> HIDE DEF Body, n
    <2>2. QED
      BY <1>0, <2>1
  <1> HIDE DEF n
  <1>1. \A S \in D : Cardinality(S) \in Nat /\ IsFiniteSet(S)
    <2>1. IsFiniteSet(1..n)
      BY <1>0, FS_Interval
    <2>2. \A S \in D : IsFiniteSet(S)
      BY <2>1, FS_Subset
    <2>3. QED
      BY <2>2, FS_CardinalityType
  <1>2. c \in [D -> Nat]
    BY <1>1
  <1>3. \A v \in Int, i \in 1..n : Length(v, m[i]) \in Int
    BY <1>0 DEF Length
  <1>4. ASSUME NEW S \in D
        PROVE  IF stop[S] THEN base[S] \in Int
               ELSE next[S] \in D /\ c[next[S]] < c[S] /\ op[S] \in [Int -> Int]
    <2>1. CASE S = {}
      <3>1. stop[S] /\ base[S] = 0
        BY <2>1
      <3> HIDE DEF D, c, stop, next, base, op
      <3>2. QED
        BY <3>1
    <2>2. CASE S # {}
      <3>1. Max(S) \in S /\ Max(S) \in 1..n
        BY <1>0, <2>2, MaxFacts
      <3>2. ~stop[S] /\ next[S] = S \ {Max(S)} /\ op[S] = [v \in Int |-> Length(v, m[Max(S)])]
        BY <2>2
      <3>3. op[S] \in [Int -> Int]
        <4> HIDE DEF op
        <4>1. QED
          BY <1>3, <3>1, <3>2
      <3>4. next[S] \in D /\ Cardinality(next[S]) = Cardinality(S) - 1
        <4>1. S \ {Max(S)} \in D
          OBVIOUS
        <4>2. Cardinality(S \ {Max(S)}) = Cardinality(S) - 1
          BY <1>1, <3>1, FS_RemoveElement
        <4>3. QED
          BY <3>2, <4>1, <4>2
      <3>5. c[next[S]] = Cardinality(next[S]) /\ c[S] = Cardinality(S)
        <4> HIDE DEF next
        <4>1. QED
          BY <3>4
      <3>6. c[next[S]] < c[S]
        <4> HIDE DEF c, next, D
        <4>1. QED
          BY <1>1, <3>4, <3>5
      <3> HIDE DEF D, c, stop, next, base, op
      <3>7. QED
        BY <3>2, <3>3, <3>4, <3>6
    <2>3. QED
      BY <2>1, <2>2
  <1> HIDE DEF c, stop, next, base, op
  <1>5. PICK f \in [D -> Int] : Solves(f, D, stop, next, base, op)
    <2> HIDE DEF D
    <2>1. QED
      BY <1>2, <1>4, Recursion
  <1>6. ASSUME NEW S \in D PROVE f[S] = Body(f, S)
    <2>1. f[S] = IF stop[S] THEN base[S] ELSE op[S][f[next[S]]]
      BY <1>5 DEF Solves
    <2>2. CASE S = {}
      BY <2>1, <2>2 DEF stop, base
    <2>3. CASE S # {}
      <3>1. ~stop[S] /\ next[S] = S \ {Max(S)}
        BY <2>3 DEF stop, next
      <3>2. f[next[S]] \in Int
        BY <1>4, <1>5, <3>1
      <3>3. op[S][f[next[S]]] = Length(f[next[S]], m[Max(S)])
        BY <3>2 DEF op
      <3>4. QED
        BY <2>1, <2>3, <3>1, <3>3
    <2>4. QED
      BY <2>2, <2>3
  <1>7. f = [S \in D |-> Body(f, S)]
    <2> HIDE DEF Body, D
    <2>1. f = [S \in D |-> f[S]]
      BY <1>5
    <2>2. QED
      BY <1>6, <2>1
  <1>8. G = [S \in D |-> Body(G, S)]
    <2> HIDE DEF Body, D
    <2>1. QED
      BY <1>7
  <1> HIDE DEF G
  <1>10. \A S \in D : G[S] = Body(G, S)
    <2> HIDE DEF Body, D
    <2>1. QED
      BY <1>8
  <1>11. G[{}] = 0
    BY <1>10
  <1>12. \A S \in SUBSET (1..n) : S # {} => G[S] = Length(G[S \ {Max(S)}], m[Max(S)])
    BY <1>10
  <1>13. QED
    BY <1>9, <1>11, <1>12 DEF n

HeldIn(m, k) == {p \in Int : \E i \in 1..k : In(p, m[i])}

\* The lengths of spans that are apart add up to what they hold.
LEMMA TotalFacts ==
    ASSUME NEW m, NEW T, Merged(m, T)
    PROVE  IsFiniteSet(HeldIn(m, Len(m))) /\ Total(m) = Cardinality(HeldIn(m, Len(m)))
  <1> DEFINE n == Len(m)
             R == [from : Int, to : Int]
  <1>1. m \in Seq(R)
    BY DEF Merged
  <1>2. PICK g : /\ Total(m) = g[1..n] /\ g[{}] = 0
                 /\ \A S \in SUBSET (1..n) : S # {} => g[S] = Length(g[S \ {Max(S)}], m[Max(S)])
    BY <1>1, TotalSteps
  <1>3. n \in Nat
    BY <1>1, LenProperties
  <1>4. \A i \in 1..n : m[i] \in R /\ m[i].from \in Int /\ m[i].to \in Int /\ m[i].from <= m[i].to
    <2>1. \A i \in 1..n : m[i] \in R
      BY <1>1, ElementOfSeq
    <2>2. \A i \in 1..n : m[i].from <= m[i].to
      BY DEF Merged
    <2>3. QED
      BY <2>1, <2>2
  <1>5. \A i \in 1..n, j \in 1..n : i < j => m[i].to + 1 < m[j].from
    BY DEF Merged
  <1> DEFINE P(k) == IsFiniteSet(HeldIn(m, k)) /\ g[1..k] = Cardinality(HeldIn(m, k))
             B == {k \in 0..n : ~P(k)}
  <1> HIDE DEF n
  <1>6. P(0)
    <2>1. 1..0 = {}
      OBVIOUS
    <2>2. HeldIn(m, 0) = {}
      BY <2>1 DEF HeldIn
    <2>3. QED
      BY <1>2, <2>1, <2>2, FS_EmptySet
  <1>7. P(n)
    <2> SUFFICES ASSUME ~P(n) PROVE FALSE
      OBVIOUS
    <2>1. n \in B /\ B \in SUBSET Nat
      BY <1>3
    <2>2. PICK k \in B : \A l \in B : k <= l
      <3> HIDE DEF B
      <3>1. QED
        BY <2>1, Least
    <2>3. k \in 0..n /\ ~P(k)
      BY <2>2
    <2>4. k # 0
      <3> HIDE DEF P
      <3>1. QED
        BY <1>6, <2>3
    <2> DEFINE l == k - 1
    <2>5. l \in 0..n /\ l \in Nat /\ k = l + 1 /\ k \in 1..n /\ ~(k <= l)
      BY <1>3, <2>3, <2>4
    <2> HIDE DEF l
    <2>6. P(l)
      <3>1. l \notin B
        <4> HIDE DEF B
        <4>1. QED
          BY <2>2, <2>5
      <3>2. QED
        BY <2>5, <3>1
    <2> DEFINE a == m[k].from
               b == m[k].to
    <2>7. a \in Int /\ b \in Int /\ a <= b
      BY <1>4, <2>5
    <2>8. HeldIn(m, k) = HeldIn(m, l) \cup (a..b)
      <3>1. 1..k = 1..l \cup {k}
        BY <2>5
      <3>2. \A p \in Int : In(p, m[k]) <=> p \in a..b
        BY <2>7 DEF In
      <3>3. (a..b) \subseteq Int
        OBVIOUS
      <3> HIDE DEF a, b
      <3>4. QED
        BY <3>1, <3>2, <3>3 DEF HeldIn
    <2>9. HeldIn(m, l) \cap (a..b) = {}
      <3> SUFFICES ASSUME NEW p \in HeldIn(m, l), p \in a..b PROVE FALSE
        OBVIOUS
      <3>1. PICK i \in 1..l : In(p, m[i])
        BY DEF HeldIn
      <3>2. i \in 1..n /\ i < k
        <4> HIDE DEF a, b, P, B
        <4>1. QED
          BY <1>3, <2>5
      <3>3. m[i].to + 1 < a /\ m[i].to \in Int
        BY <1>4, <1>5, <2>5, <3>2
      <3>4. p \in Int /\ p <= m[i].to /\ a <= p
        BY <2>7, <3>1 DEF In
      <3> HIDE DEF a
      <3>5. QED
        BY <2>7, <3>3, <3>4
    <2>10. IsFiniteSet(a..b) /\ Cardinality(a..b) = b - a + 1
      <3> HIDE DEF a, b
      <3>1. QED
        BY <2>7, FS_Interval
    <2>11. g[1..k] = Length(g[1..l], m[k])
      <3>1. 1..k \in SUBSET (1..n) /\ 1..k # {} /\ (1..k) \ {k} = 1..l
        BY <1>3, <2>5
      <3>2. Max(1..k) = k
        <4>1. 1..k # {} /\ k \in Nat /\ k \in 1..k
          BY <2>5
        <4>2. Max(1..k) \in 1..k /\ k <= Max(1..k)
          BY <4>1, MaxFacts
        <4> DEFINE x == Max(1..k)
        <4> HIDE DEF x
        <4>3. x \in 1..k /\ k <= x => x = k
          BY <4>1
        <4>4. QED
          BY <4>2, <4>3 DEF x
      <3>3. QED
        BY <1>2, <3>1, <3>2
    <2>12. /\ IsFiniteSet(HeldIn(m, k))
           /\ Cardinality(HeldIn(m, k)) = Cardinality(HeldIn(m, l)) + (b - a + 1)
      <3> DEFINE H == HeldIn(m, l)
      <3>1. IsFiniteSet(H) /\ Cardinality(H) \in Nat
        BY <2>6, FS_CardinalityType
      <3> HIDE DEF H, a, b
      <3>2. /\ IsFiniteSet(H \cup (a..b))
            /\ Cardinality(H \cup (a..b))
                 = Cardinality(H) + Cardinality(a..b) - Cardinality(H \cap (a..b))
        BY <2>10, <3>1, FS_Union
      <3>3. Cardinality(H \cap (a..b)) = 0
        BY <2>9, FS_EmptySet DEF H
      <3>4. QED
        BY <2>7, <2>8, <2>10, <3>1, <3>2, <3>3 DEF H
    <2>13. Cardinality(HeldIn(m, l)) \in Nat /\ g[1..l] = Cardinality(HeldIn(m, l))
      BY <2>6, FS_CardinalityType
    <2>14. g[1..k] = Cardinality(HeldIn(m, k))
      <3>1. g[1..k] = g[1..l] + b - a + 1
        BY <2>11 DEF Length
      <3> HIDE DEF a, b
      <3>2. QED
        BY <2>7, <2>12, <2>13, <3>1
    <2>15. QED
      BY <2>3, <2>12, <2>14
  <1>8. QED
    BY <1>2, <1>7 DEF n

ConcreteLike(t) ==
    /\ t.family \in {4, 6}
    /\ \/ t.kind = "cidr" /\ CidrLike(t)
       \/ /\ t.kind = "ip" /\ t.address \in Space /\ t.zone # "any"
          /\ t = [kind |-> "ip", family |-> t.family, address |-> t.address, zone |-> t.zone]

\* The interval of a CIDR holds its addresses.
LEMMA IntervalFacts ==
    ASSUME Bits \in Nat, NEW c, CidrLike(c)
    PROVE  Interval(c) \in Spans /\ \A p \in Int : In(p, Interval(c)) <=> p \in Addresses(c)
  <1> DEFINE n == c.network
             C == TwoTo[Bits - c.prefix]
             E == TwoTo[Bits]
  <1>1. n \in Nat /\ C \in Nat \ {0} /\ n + C <= E /\ E \in Nat
    BY CidrFacts, TwoToFacts
  <1>2. Interval(c) = [from |-> n, to |-> n + C - 1]
    BY DEF Interval
  <1>3. \A p : p \in Addresses(c) <=> p \in 0..(E - 1) /\ n <= p /\ p < n + C
    BY DEF Addresses
  <1> HIDE DEF n, C, E
  <1>4. n + C - 1 \in Int /\ n <= n + C - 1
    BY <1>1
  <1>5. Interval(c) \in Spans
    BY <1>1, <1>2, <1>4 DEF Spans
  <1>6. \A p \in Int : In(p, Interval(c)) <=> n <= p /\ p <= n + C - 1
    BY <1>2 DEF In
  <1>7. \A p \in Int : (n <= p /\ p <= n + C - 1) <=> p \in 0..(E - 1) /\ n <= p /\ p < n + C
    BY <1>1
  <1>8. QED
    BY <1>3, <1>5, <1>6, <1>7

InFamily(p, targets, f) == \E c \in targets : c.kind = "cidr" /\ c.family = f /\ p \in Addresses(c)

\* The merged intervals of a family hold the addresses of its CIDRs.
LEMMA FamilyFacts ==
    ASSUME Bits \in Nat, NEW targets, IsFiniteSet(targets), \A t \in targets : ConcreteLike(t), NEW f
    PROVE  LET m == MergedIntervals(targets, f)
               W == {p \in Int : InFamily(p, targets, f)}
           IN  /\ IsFiniteSet(W) /\ Total(m) = Cardinality(W)
               /\ \A p \in Int : Within(p, m) <=> InFamily(p, targets, f)
  <1> DEFINE X == {u \in targets : u.kind = "cidr" /\ u.family = f}
             I == {Interval(t) : t \in X}
             m == MergedIntervals(targets, f)
             W == {p \in Int : InFamily(p, targets, f)}
             h == [t \in X |-> Interval(t)]
  <1>1. m = Merge(I)
    BY DEF MergedIntervals
  <1>2. \A t \in X : CidrLike(t)
    BY DEF ConcreteLike
  <1>3. IsFiniteSet(X)
    BY FS_Subset
  <1>4. h \in Surjection(X, I)
    BY DEF Surjection
  <1>5. IsFiniteSet(I)
    <2> HIDE DEF X, I, h
    <2>1. QED
      BY <1>3, <1>4, FS_Surjection
  <1>6. I \in SUBSET Spans
    BY <1>2, IntervalFacts
  <1>7. Merged(m, I)
    <2> HIDE DEF I, m
    <2>1. QED
      BY <1>1, <1>5, <1>6, MergeFacts
  <1>8. \A p \in Int : (\E r \in I : In(p, r)) <=> InFamily(p, targets, f)
    <2> SUFFICES ASSUME NEW p \in Int PROVE (\E r \in I : In(p, r)) <=> InFamily(p, targets, f)
      OBVIOUS
    <2>1. (\E r \in I : In(p, r)) <=> \E t \in X : In(p, Interval(t))
      OBVIOUS
    <2>2. \A t \in X : In(p, Interval(t)) <=> p \in Addresses(t)
      BY <1>2, IntervalFacts
    <2>3. InFamily(p, targets, f) <=> \E t \in X : p \in Addresses(t)
      BY DEF InFamily
    <2> HIDE DEF X, I
    <2>4. QED
      BY <2>1, <2>2, <2>3
  <1> HIDE DEF I, m
  <1>9. DOMAIN m = 1..Len(m)
    <2>1. m \in Seq([from : Int, to : Int])
      BY <1>7 DEF Merged
    <2>2. QED
      BY <2>1, LenProperties
  <1>10. \A p \in Int : Within(p, m) <=> InFamily(p, targets, f)
    <2> SUFFICES ASSUME NEW p \in Int PROVE Within(p, m) <=> InFamily(p, targets, f)
      OBVIOUS
    <2>1. Within(p, m) <=> \E i \in 1..Len(m) : In(p, m[i])
      BY <1>9 DEF Within, In
    <2>2. (\E i \in 1..Len(m) : In(p, m[i])) <=> (\E r \in I : In(p, r))
      BY <1>7 DEF Merged
    <2>3. QED
      BY <1>8, <2>1, <2>2
  <1>11. HeldIn(m, Len(m)) = W
    <2>1. \A p \in Int : (\E i \in 1..Len(m) : In(p, m[i])) <=> InFamily(p, targets, f)
      BY <1>7, <1>8 DEF Merged
    <2>2. QED
      BY <2>1 DEF HeldIn
  <1>12. IsFiniteSet(W) /\ Total(m) = Cardinality(W)
    BY <1>7, <1>11, TotalFacts
  <1>13. QED
    BY <1>10, <1>12 DEF m

\* Naming the members of a set apart does not change how many there are.
LEMMA Renamed ==
    ASSUME NEW S, IsFiniteSet(S), NEW h, NEW T, h \in [S -> T],
           \A x \in S, y \in S : h[x] = h[y] => x = y
    PROVE  IsFiniteSet({h[x] : x \in S}) /\ Cardinality({h[x] : x \in S}) = Cardinality(S)
  <1> DEFINE U == {h[x] : x \in S}
             g == [x \in S |-> h[x]]
  <1>1. g \in [S -> U] /\ \A x \in S : g[x] = h[x]
    OBVIOUS
  <1>2. g \in Injection(S, U)
    <2> HIDE DEF g, U
    <2>1. QED
      BY <1>1 DEF Injection, IsInjective
  <1>3. g \in Surjection(S, U)
    BY DEF Surjection
  <1>4. ExistsBijection(S, U)
    <2> HIDE DEF g, U
    <2>1. QED
      BY <1>2, <1>3 DEF ExistsBijection, Bijection
  <1>5. QED
    BY <1>4, FS_Bijection

\* estimateConcreteTargetCardinality (saved-scope.ts) counts the addresses that any
\* finite set of targets stands for, each once, up to one more than the threshold.
THEOREM EstimateIsUnion ==
    ASSUME NEW targets, IsFiniteSet(targets), \A t \in targets : ConcreteLike(t)
    PROVE  CardinalityHolds(targets, Estimate(targets))
  <1> DEFINE cidrs == {t \in targets : t.kind = "cidr"}
             A(f) == {p \in Int : InFamily(p, targets, f)}
             W(f) == {<<f, p, "any">> : p \in A(f)}
             lone == LoneIps(targets)
             name == [t \in lone |-> <<t.family, t.address, t.zone>>]
             L == {name[t] : t \in lone}
             U == UNION {Identities(t, cidrs) : t \in targets}
             M(f) == MergedIntervals(targets, f)
  <1>1. \A f : /\ IsFiniteSet(A(f)) /\ Total(M(f)) = Cardinality(A(f))
               /\ \A p \in Int : Within(p, M(f)) <=> InFamily(p, targets, f)
    BY ScopeAssumption, FamilyFacts
  <1>2. ASSUME NEW f PROVE IsFiniteSet(W(f)) /\ Cardinality(W(f)) = Cardinality(A(f))
    <2> DEFINE S == A(f)
               h == [p \in S |-> <<f, p, "any">>]
               T == {<<f, p, "any">> : p \in S}
    <2>1. IsFiniteSet(S)
      BY <1>1
    <2> HIDE DEF S
    <2>2. h \in [S -> T] /\ \A x \in S, y \in S : h[x] = h[y] => x = y
      OBVIOUS
    <2>3. {h[p] : p \in S} = T
      OBVIOUS
    <2> HIDE DEF h, T
    <2>4. IsFiniteSet({h[p] : p \in S}) /\ Cardinality({h[p] : p \in S}) = Cardinality(S)
      BY <2>1, <2>2, Renamed
    <2>5. IsFiniteSet(T) /\ Cardinality(T) = Cardinality(S)
      BY <2>3, <2>4
    <2>6. QED
      BY <2>5 DEF S, T
  <1>3. lone = {t \in targets : t.kind = "ip" /\ ~InFamily(t.address, targets, t.family)}
    <2>1. \A t \in targets : t.kind = "ip" => t.address \in Int
      BY DEF ConcreteLike, Space
    <2>2. \A t \in targets : t.kind = "ip" =>
              (Within(t.address, M(t.family)) <=> InFamily(t.address, targets, t.family))
      <3> HIDE DEF M
      <3>1. QED
        BY <1>1, <2>1
    <2>3. lone = {t \in targets : t.kind = "ip" /\ ~Within(t.address, M(t.family))}
      BY DEF LoneIps
    <2> HIDE DEF lone, M
    <2>4. QED
      BY <2>2, <2>3
  <1>4. IsFiniteSet(L) /\ Cardinality(L) = Cardinality(lone) /\ IsFiniteSet(lone)
    <2>1. IsFiniteSet(lone)
      BY <1>3, FS_Subset
    <2>2. \A t \in lone : t = [kind |-> "ip", family |-> t.family, address |-> t.address, zone |-> t.zone]
      BY <1>3 DEF ConcreteLike
    <2> DEFINE T == {<<t.family, t.address, t.zone>> : t \in lone}
    <2> HIDE DEF lone
    <2>3. name \in [lone -> T]
      OBVIOUS
    <2>4. ASSUME NEW x \in lone, NEW y \in lone, name[x] = name[y] PROVE x = y
      <3>1. x.family = y.family /\ x.address = y.address /\ x.zone = y.zone
        BY <2>4
      <3>2. QED
        BY <2>2, <3>1
    <2> HIDE DEF name, T
    <2>5. QED
      BY <2>1, <2>3, <2>4, Renamed
  <1>5. U = (W(4) \cup W(6)) \cup L
    <2>1. L = {<<t.family, t.address, t.zone>> : t \in lone}
      OBVIOUS
    <2>2. \A t \in targets : t.family \in {4, 6} /\ t.kind \in {"cidr", "ip"}
      BY DEF ConcreteLike
    <2>3. \A t \in targets : t.kind = "cidr" => Addresses(t) \subseteq Int
      BY DEF Addresses
    <2>4. \A p, f : InFamily(p, targets, f) <=> \E c \in cidrs : c.family = f /\ p \in Addresses(c)
      BY DEF InFamily
    <2>5. \A t \in targets : t.kind = "cidr" =>
              Identities(t, cidrs) = {<<t.family, p, "any">> : p \in Addresses(t)}
      BY DEF Identities
    <2>6. \A t \in targets : t.kind = "ip" =>
              Identities(t, cidrs) = IF InFamily(t.address, targets, t.family)
                                     THEN {<<t.family, t.address, "any">>}
                                     ELSE {<<t.family, t.address, t.zone>>}
      <3> SUFFICES ASSUME NEW t \in targets, t.kind = "ip"
                   PROVE Identities(t, cidrs) = IF InFamily(t.address, targets, t.family)
                                     THEN {<<t.family, t.address, "any">>}
                                     ELSE {<<t.family, t.address, t.zone>>}
        OBVIOUS
      <3> HIDE DEF cidrs
      <3>1. InFamily(t.address, targets, t.family)
              <=> \E c \in cidrs : c.family = t.family /\ t.address \in Addresses(c)
        BY <2>4
      <3>2. QED
        BY <3>1 DEF Identities
    <2>7. \A t \in targets : t.kind = "ip" => t.address \in Int
      BY DEF ConcreteLike, Space
    <2>8. ASSUME NEW x \in U PROVE x \in (W(4) \cup W(6)) \cup L
      <3>1. PICK t \in targets : x \in Identities(t, cidrs)
        OBVIOUS
      <3>2. ASSUME NEW p \in Int, InFamily(p, targets, t.family), x = <<t.family, p, "any">>
            PROVE  x \in W(4) \cup W(6)
        <4>1. p \in A(t.family)
          BY <3>2
        <4>2. t.family = 4 \/ t.family = 6
          BY <2>2
        <4> HIDE DEF A
        <4>3. QED
          BY <3>2, <4>1, <4>2
      <3>3. CASE t.kind = "cidr"
        <4>1. PICK p \in Addresses(t) : x = <<t.family, p, "any">>
          BY <2>5, <3>1, <3>3
        <4>2. p \in Int /\ InFamily(p, targets, t.family)
          BY <2>3, <3>3, <4>1 DEF InFamily
        <4> HIDE DEF W, L
        <4>3. QED
          BY <3>2, <4>1, <4>2
      <3>4. CASE t.kind = "ip" /\ InFamily(t.address, targets, t.family)
        <4>1. x = <<t.family, t.address, "any">>
          BY <2>6, <3>1, <3>4
        <4> HIDE DEF W, L
        <4>2. QED
          BY <2>7, <3>2, <3>4, <4>1
      <3>5. CASE t.kind = "ip" /\ ~InFamily(t.address, targets, t.family)
        <4>1. x = <<t.family, t.address, t.zone>>
          BY <2>6, <3>1, <3>5
        <4>2. t \in lone
          BY <1>3, <3>5
        <4> HIDE DEF lone, L, W
        <4>3. QED
          BY <2>1, <4>1, <4>2
      <3>6. QED
        BY <2>2, <3>3, <3>4, <3>5
    <2>9. ASSUME NEW x \in (W(4) \cup W(6)) \cup L PROVE x \in U
      <3>1. ASSUME NEW f, x \in W(f) PROVE x \in U
        <4>1. PICK p \in Int : InFamily(p, targets, f) /\ x = <<f, p, "any">>
          BY <3>1
        <4>2. PICK c \in targets : c.kind = "cidr" /\ c.family = f /\ p \in Addresses(c)
          BY <4>1 DEF InFamily
        <4>3. x \in Identities(c, cidrs)
          <5> HIDE DEF cidrs
          <5>1. QED
            BY <2>5, <4>1, <4>2
        <4> HIDE DEF cidrs
        <4>4. QED
          BY <4>2, <4>3
      <3>2. CASE x \in L
        <4>1. PICK t \in lone : x = <<t.family, t.address, t.zone>>
          <5> HIDE DEF lone, L
          <5>1. QED
            BY <2>1, <3>2
        <4>2. t \in targets /\ t.kind = "ip" /\ ~InFamily(t.address, targets, t.family)
          BY <1>3
        <4>3. x \in Identities(t, cidrs)
          <5> HIDE DEF cidrs
          <5>1. QED
            BY <2>6, <4>1, <4>2
        <4> HIDE DEF cidrs
        <4>4. QED
          BY <4>2, <4>3
      <3> HIDE DEF U, W, L
      <3>3. QED
        BY <2>9, <3>1, <3>2
    <2> HIDE DEF U, W, L
    <2>10. QED
      BY <2>8, <2>9
  <1>6. W(4) \cap W(6) = {} /\ (W(4) \cup W(6)) \cap L = {}
    <2>1. W(4) \cap W(6) = {}
      OBVIOUS
    <2>2. \A t \in lone : t.zone # "any"
      BY <1>3 DEF ConcreteLike
    <2>3. \A x \in L : x[3] # "any"
      <3> HIDE DEF lone
      <3>1. QED
        BY <2>2
    <2>4. \A x \in W(4) \cup W(6) : x[3] = "any"
      OBVIOUS
    <2> HIDE DEF W, L
    <2>5. QED
      BY <2>1, <2>3, <2>4
  <1> DEFINE n == Cardinality(U)
             count == Total(M(4)) + Total(M(6)) + Cardinality(lone)
  <1>7. n = count
    <2> HIDE DEF A, W, L, U, M, lone
    <2>1. \A S : IsFiniteSet(S) => Cardinality(S) \in Nat
      BY FS_CardinalityType
    <2>2. /\ IsFiniteSet(W(4) \cup W(6))
          /\ Cardinality(W(4) \cup W(6)) = Cardinality(W(4)) + Cardinality(W(6)) - Cardinality(W(4) \cap W(6))
      BY <1>2, FS_Union
    <2>3. Cardinality(U) = Cardinality(W(4) \cup W(6)) + Cardinality(L) - Cardinality((W(4) \cup W(6)) \cap L)
      BY <1>4, <1>5, <2>2, FS_Union
    <2>4. Cardinality(W(4) \cap W(6)) = 0 /\ Cardinality((W(4) \cup W(6)) \cap L) = 0
      BY <1>6, FS_EmptySet
    <2>5. /\ Cardinality(W(4)) = Total(M(4)) /\ Cardinality(W(6)) = Total(M(6))
          /\ Cardinality(L) = Cardinality(lone)
      BY <1>1, <1>2, <1>4
    <2>6. Cardinality(W(4)) \in Nat /\ Cardinality(W(6)) \in Nat /\ Cardinality(L) \in Nat
      BY <1>2, <1>4, <2>1
    <2>7. QED
      BY <2>2, <2>3, <2>4, <2>5, <2>6
  <1>8. Estimate(targets) = IF count > Threshold THEN [count |-> Threshold + 1, large |-> TRUE]
                            ELSE [count |-> count, large |-> FALSE]
    BY DEF Estimate
  <1>9. CardinalityHolds(targets, Estimate(targets))
          <=> Estimate(targets) = IF n > Threshold THEN [count |-> Threshold + 1, large |-> TRUE]
                                  ELSE [count |-> n, large |-> FALSE]
    BY DEF CardinalityHolds
  <1> HIDE DEF n, count
  <1>10. QED
    BY <1>7, <1>8, <1>9

\* The targets counted are addresses and CIDRs.
LEMMA ExactConcrete == \A t \in Exact : ConcreteLike(t)
  <1> SUFFICES ASSUME NEW t \in Exact PROVE ConcreteLike(t)
    OBVIOUS
  <1>1. CASE t \in [kind : {"ip"}, family : {4} \cap Families, address : 0..(TwoTo[Bits] - 1),
                    zone : {"none"}]
    BY <1>1 DEF ConcreteLike, Space
  <1>2. CASE t \in [kind : {"ip"}, family : {6} \cap Families, address : 0..(TwoTo[Bits] - 1),
                    zone : Zones \cup {"none"}]
    BY <1>2, QuestionAssumption DEF ConcreteLike, Space
  <1>3. CASE t \in Cidrs
    BY <1>3, QuestionAssumption DEF ConcreteLike, CidrLike, Cidrs, Space
  <1>4. QED
    BY <1>1, <1>2, <1>3 DEF Exact, Ips

CountInv ==
    /\ part = "estimate" => IsFiniteSet(question) /\ \A t \in question : ConcreteLike(t)
    /\ part = "counted" => CardinalityHolds(question, answer)

\* Every set of targets that is counted is counted as the union of what they
\* stand for (saved-scope.ts, estimateConcreteTargetCardinality).
THEOREM CardinalitiesAreUnions == MCSpec => []CardinalityIsUnion
  <1>1. MCInit => CountInv
    <2> SUFFICES ASSUME MCInit PROVE CountInv
      OBVIOUS
    <2>1. CASE part = "estimate"
      <3>1. PICK t \in Exact, u \in Exact, v \in Exact : question = {t, u, v}
        BY <2>1 DEF MCInit
      <3>2. IsFiniteSet({t, u, v})
        <4>1. {t, u, v} = (({} \cup {t}) \cup {u}) \cup {v}
          OBVIOUS
        <4>2. IsFiniteSet({} \cup {t})
          BY FS_EmptySet, FS_AddElement
        <4>3. IsFiniteSet(({} \cup {t}) \cup {u})
          BY <4>2, FS_AddElement
        <4>4. IsFiniteSet((({} \cup {t}) \cup {u}) \cup {v})
          BY <4>3, FS_AddElement
        <4>5. QED
          BY <4>1, <4>4
      <3>3. QED
        BY <2>1, <3>1, <3>2, ExactConcrete DEF CountInv
    <2>2. CASE part # "estimate"
      BY <2>2 DEF MCInit, CountInv
    <2>3. QED
      BY <2>1, <2>2
  <1>2. CountInv /\ [MCNext]_<<vars, streamVars, part, question, answer>> => CountInv'
    <2> SUFFICES ASSUME CountInv, [MCNext]_<<vars, streamVars, part, question, answer>> PROVE CountInv'
      OBVIOUS
    <2>1. CASE UNCHANGED <<part, question, answer>>
      BY <2>1 DEF CountInv
    <2>2. CASE Count
      <3>1. /\ IsFiniteSet(question) /\ \A t \in question : ConcreteLike(t)
            /\ part' = "counted" /\ question' = question /\ answer' = Estimate(question)
        BY <2>2 DEF Count, CountInv
      <3>2. CardinalityHolds(question, Estimate(question))
        BY <3>1, EstimateIsUnion
      <3>3. QED
        BY <3>1, <3>2 DEF CountInv
    <2>3. CASE Compare
      BY <2>3 DEF Compare, CountInv
    <2>4. QED
      BY <2>1, <2>2, <2>3 DEF MCNext, Directory, Stream
  <1>3. CountInv => CardinalityIsUnion
    BY DEF CountInv, CardinalityIsUnion
  <1>4. QED
    BY <1>1, <1>2, <1>3, PTL DEF MCSpec

-----------------------------------------------------------------------------
(* The composition.                                                        *)

\* The directory and the stream of the composition are those of their own
\* specifications, so what is proved of each holds of it: no step of one
\* part disturbs another.
THEOREM StorageComposes == MCSpec => Spec /\ StreamSpec
  <1>1. MCInit => Init /\ StreamInit
    BY DEF MCInit
  <1>2. [MCNext]_<<vars, streamVars, part, question, answer>>
          => [Next]_vars /\ [StreamNext]_streamVars
    BY DEF MCNext, Directory, Stream, Compare, Count
  <1>3. QED
    BY <1>1, <1>2, PTL DEF MCSpec, Spec, StreamSpec

=============================================================================
