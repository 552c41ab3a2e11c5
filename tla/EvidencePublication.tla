------------------------ MODULE EvidencePublication ------------------------
(***************************************************************************)
(* How the bytes of one Run's artifacts become evidence: the grants that   *)
(* packages/db/src/evidence-grant.ts admits, the files the API process     *)
(* writes under staging/ and renames into published/, and the metadata     *)
(* rows that make a file evidence.  Rows are committed by IMMEDIATE        *)
(* transactions of a SQLite database that syncs every commit; a file       *)
(* survives a power loss only as far as it, and the directory that names   *)
(* it, were fsynced.                                                       *)
(*                                                                         *)
(* The API process is one thread.  A step is what runs between two awaits: *)
(* PUT bodies and the hashing of an existing destination await, the path   *)
(* from the authority check to the metadata row does not.  A request that  *)
(* is refused, or that is answered as a replay, changes nothing and is not *)
(* a step.  The runner may send any request at any time, and repeat it.    *)
(*                                                                         *)
(* Bytes are counted, not kept: two streams differ when their lengths do.  *)
(***************************************************************************)
EXTENDS Integers, FiniteSets, Functions

CONSTANTS
    Grants,         \* upload ids; each names one artifact id as well
    MaxSlot,        \* artifact slots 1..MaxSlot of one event
    MaxFence,       \* bound: leases of the Run
    MaxEvent,       \* bound: events appended under one lease
    PerArtifact,    \* quota perArtifactBytes
    PerRun,         \* quotas perRunPublishedBytes and totalPublishedBytes
    MaxStaging,     \* quota maxInFlightStagingBytes
    MaxUploads,     \* quota maxConcurrentUploadsPerRunner
    MaxInspecting   \* bound: complete requests inspecting one destination

ASSUME EvidenceAssumption ==
    /\ MaxSlot \in Nat
    /\ MaxFence \in Nat
    /\ MaxEvent \in Nat
    /\ PerArtifact \in Nat
    /\ PerRun \in Nat
    /\ MaxStaging \in Nat
    /\ MaxUploads \in Nat
    /\ MaxInspecting \in Nat

VARIABLES
    grant,      \* grant[g]: the evidence_grants row of g
    artifact,   \* artifact[g]: the evidence_artifacts row of g's artifact id
    file,       \* file[g]: the file with g's staging or published name
    put,        \* put[g]: the PUT request at work on g's staging file
    inspecting, \* inspecting[g]: complete requests of g awaiting the hash of
                \* a destination that is already there
    lease       \* the Run's lease as the authority check sees it

vars == <<grant, artifact, file, put, inspecting, lease>>

GrantRow ==
    [state : {"none", "in_progress", "upload_interrupted", "published"},
     fence : 0..MaxFence, seq : 0..(MaxEvent + 1), slot : 0..MaxSlot,
     reservation : 0..PerArtifact, finalized : BOOLEAN, bytes : 0..PerArtifact]

ArtifactRow == [stored : BOOLEAN, bytes : 0..PerArtifact]

\* place is the name the running system sees, kept the name that is left if
\* the power fails before another directory fsync.  unwritten counts the bytes
\* that the PUT took for written and the disk did not take: no one reads it.
FileState ==
    [place : {"none", "staging", "published"},
     kept : {"none", "staging", "published"},
     bytes : 0..PerArtifact, unwritten : 0..PerArtifact, synced : BOOLEAN]

PutStage == {"idle", "streaming", "overflowed", "flushed"}

\* lost: no lease holds authority; ended: the Run is terminal.
LeaseRow == [fence : 0..MaxFence, event : 0..MaxEvent, state : {"live", "lost", "ended"}]

TypeOK ==
    /\ grant \in [Grants -> GrantRow]
    /\ artifact \in [Grants -> ArtifactRow]
    /\ file \in [Grants -> FileState]
    /\ put \in [Grants -> PutStage]
    /\ inspecting \in [Grants -> 0..MaxInspecting]
    /\ lease \in LeaseRow

NoGrant == [state |-> "none", fence |-> 0, seq |-> 0, slot |-> 0,
            reservation |-> 0, finalized |-> FALSE, bytes |-> 0]
NoFile  == [place |-> "none", kept |-> "none", bytes |-> 0, unwritten |-> 0,
            synced |-> FALSE]

Init ==
    /\ grant = [g \in Grants |-> NoGrant]
    /\ artifact = [g \in Grants |-> [stored |-> FALSE, bytes |-> 0]]
    /\ file = [g \in Grants |-> NoFile]
    /\ put = [g \in Grants |-> "idle"]
    /\ inspecting = [g \in Grants |-> 0]
    /\ lease = [fence |-> 0, event |-> 0, state |-> "lost"]

-----------------------------------------------------------------------------
(* What the queries of the grant repository compute.                       *)

Identity(g) == <<grant[g].fence, grant[g].seq, grant[g].slot>>

InProgress == {g \in Grants : grant[g].state = "in_progress"}

Reserved == SumFunctionOnSet([g \in Grants |-> grant[g].reservation], InProgress)

Stored == {g \in Grants : artifact[g].stored}

PublishedBytes == SumFunctionOnSet([g \in Grants |-> artifact[g].bytes], Stored)

\* publishedArtifactForIdentity, and the unique index of evidence_artifacts.
IdentityStored(g) == \E h \in Stored : Identity(h) = Identity(g)

Smaller(m, n) == IF m < n THEN m ELSE n

\* Slip: the reservation is not clamped to what staging has left.
ReservationSlip == PerArtifact

Reservation == Smaller(PerArtifact, MaxStaging - Reserved)

\* Slip: only the first slot's upload is looked at.
UploadAtNextEventSlip ==
    \E g \in InProgress :
      /\ grant[g].fence = lease.fence
      /\ grant[g].seq = lease.event + 1
      /\ grant[g].slot = 1

\* hasInProgressGrantAtSequence, as the event and the completion ask it.
UploadAtNextEvent ==
    \E g \in InProgress :
      /\ grant[g].fence = lease.fence
      /\ grant[g].seq = lease.event + 1

\* checkUploadLeaseAuthority
HasAuthority(g) == lease.state = "live" /\ lease.fence = grant[g].fence

-----------------------------------------------------------------------------
(* The Run's lease, as far as uploads depend on it (RunControl has it all).*)

\* A queued Run is leased: at first, or again if its lease expired before the
\* runner's first event.
GrantLease ==
    /\ lease.state = "lost"
    /\ lease.event = 0
    /\ lease.fence < MaxFence
    /\ lease' = [fence |-> lease.fence + 1, event |-> 0, state |-> "live"]
    /\ UNCHANGED <<grant, artifact, file, put, inspecting>>

\* The lease reaches its expiry, or the runner is revoked.
LoseLease ==
    /\ lease.state = "live"
    /\ lease' = [lease EXCEPT !.state = "lost"]
    /\ UNCHANGED <<grant, artifact, file, put, inspecting>>

AppendEvent ==
    /\ lease.state = "live"
    /\ lease.event < MaxEvent
    /\ ~UploadAtNextEvent
    /\ lease' = [lease EXCEPT !.event = @ + 1]
    /\ UNCHANGED <<grant, artifact, file, put, inspecting>>

CompleteRun ==
    /\ lease.state = "live"
    /\ ~UploadAtNextEvent
    /\ lease' = [lease EXCEPT !.state = "ended"]
    /\ UNCHANGED <<grant, artifact, file, put, inspecting>>

-----------------------------------------------------------------------------
(* Admission.                                                              *)

AdmitEvidenceGrant(g, slot) ==
    /\ grant[g].state = "none"
    /\ lease.state = "live"
    /\ \A h \in InProgress : Identity(h) # <<lease.fence, lease.event + 1, slot>>
    /\ Cardinality(InProgress) < MaxUploads
    /\ MaxStaging - Reserved > 0
    /\ PerRun - PublishedBytes - Reserved >= Reservation
    /\ grant' = [grant EXCEPT ![g] =
                   [state |-> "in_progress", fence |-> lease.fence,
                    seq |-> lease.event + 1, slot |-> slot,
                    reservation |-> Reservation, finalized |-> FALSE, bytes |-> 0]]
    /\ UNCHANGED <<artifact, file, put, inspecting, lease>>

\* transitionGrantState: only a grant in progress can be interrupted.
MarkInterrupted(g) ==
    grant' = IF grant[g].state = "in_progress"
             THEN [grant EXCEPT ![g].state = "upload_interrupted"]
             ELSE grant

-----------------------------------------------------------------------------
(* PUT: handlePut, from one await to the next.                             *)

\* O_EXCL: a staging name that is there, whatever left it, is never reused.
OpenPut(g) ==
    /\ grant[g].state = "in_progress"
    /\ ~grant[g].finalized
    /\ file[g].place = "none"
    /\ put' = [put EXCEPT ![g] = "streaming"]
    /\ file' = [file EXCEPT ![g] = [NoFile EXCEPT !.place = "staging"]]
    /\ UNCHANGED <<grant, artifact, inspecting, lease>>

\* acceptedBytes, the lengths of the chunks handed to writeStagedChunk.
Accepted(g) == file[g].bytes + file[g].unwritten

\* fs.write reports how much it wrote; nobody looks, and a chunk that a full
\* disk took a part of counts as accepted.
StreamChunk(g) ==
    /\ put[g] = "streaming"
    /\ Accepted(g) < grant[g].reservation
    /\ \/ file' = [file EXCEPT ![g].bytes = @ + 1]
       \/ file' = [file EXCEPT ![g].unwritten = @ + 1]
    /\ UNCHANGED <<grant, artifact, put, inspecting, lease>>

\* A chunk beyond the reservation is not written; the file is closed ...
Overflow(g) ==
    /\ put[g] = "streaming"
    /\ Accepted(g) = grant[g].reservation
    /\ put' = [put EXCEPT ![g] = "overflowed"]
    /\ UNCHANGED <<grant, artifact, file, inspecting, lease>>

\* ... and the grant interrupted.
InterruptOverflow(g) ==
    /\ put[g] = "overflowed"
    /\ put' = [put EXCEPT ![g] = "idle"]
    /\ MarkInterrupted(g)
    /\ UNCHANGED <<artifact, file, inspecting, lease>>

\* Slip: the file is closed without being synced.
FlushPutSlip(g) ==
    /\ put[g] = "streaming"
    /\ put' = [put EXCEPT ![g] = "flushed"]
    /\ UNCHANGED <<grant, artifact, file, inspecting, lease>>

\* The body ends: fsync of the file.
FlushPut(g) ==
    /\ put[g] = "streaming"
    /\ put' = [put EXCEPT ![g] = "flushed"]
    /\ file' = [file EXCEPT ![g].synced = TRUE]
    /\ UNCHANGED <<grant, artifact, inspecting, lease>>

\* After the close: fsync of staging/, then finalizePut.
FinalizePut(g) ==
    /\ put[g] = "flushed"
    /\ grant[g].state = "in_progress"
    /\ ~grant[g].finalized
    /\ put' = [put EXCEPT ![g] = "idle"]
    /\ file' = [file EXCEPT ![g].kept = "staging"]
    /\ grant' = [grant EXCEPT ![g].finalized = TRUE, ![g].bytes = Accepted(g)]
    /\ UNCHANGED <<artifact, inspecting, lease>>

\* The database is busy: the bytes are there and the grant does not say so.
FinalizeRefused(g) ==
    /\ put[g] = "flushed"
    /\ put' = [put EXCEPT ![g] = "idle"]
    /\ file' = [file EXCEPT ![g].kept = "staging"]
    /\ UNCHANGED <<grant, artifact, inspecting, lease>>

\* The body fails, an fsync fails, or the interruption is refused as busy: the
\* PUT ends, and the grant and the staging file stay.
DropPut(g) ==
    /\ put[g] # "idle"
    /\ put' = [put EXCEPT ![g] = "idle"]
    /\ UNCHANGED <<grant, artifact, file, inspecting, lease>>

-----------------------------------------------------------------------------
(* POST complete: completeUnderSharedLock.                                 *)

Completable(g) ==
    /\ grant[g].state = "in_progress"
    /\ grant[g].finalized
    /\ HasAuthority(g)

\* The declared size or digest is not the streamed one.
InterruptMismatch(g) ==
    /\ Completable(g)
    /\ MarkInterrupted(g)
    /\ UNCHANGED <<artifact, file, put, inspecting, lease>>

\* The metadata row of a file, and the grant with it; a grant interrupted in
\* the meantime stays interrupted.
RecordPublication(g) ==
    /\ artifact' = [artifact EXCEPT ![g] = [stored |-> TRUE, bytes |-> grant[g].bytes]]
    /\ grant' = IF grant[g].state = "in_progress"
                THEN [grant EXCEPT ![g].state = "published"]
                ELSE grant

\* The file has the size that was declared, which is the one accepted.
SizeAsAccepted(g) == file[g].bytes = grant[g].bytes

\* Rename without replacement, fsync of published/, metadata row.  A staging
\* file of another size is refused before the rename, and nothing changes.
PublishArtifact(g) ==
    /\ Completable(g)
    /\ ~IdentityStored(g)
    /\ file[g].place = "staging"
    /\ SizeAsAccepted(g)
    /\ file' = [file EXCEPT ![g].place = "published", ![g].kept = "published"]
    /\ RecordPublication(g)
    /\ UNCHANGED <<put, inspecting, lease>>

\* The same, but the fsync fails or the database is busy.
PublishWithoutRow(g) ==
    /\ Completable(g)
    /\ ~IdentityStored(g)
    /\ file[g].place = "staging"
    /\ SizeAsAccepted(g)
    /\ \E kept \in {"staging", "published"} :
         file' = [file EXCEPT ![g].place = "published", ![g].kept = kept]
    /\ UNCHANGED <<grant, artifact, put, inspecting, lease>>

\* The staging name is gone: the destination is opened and hashed.
BeginInspection(g) ==
    /\ Completable(g)
    /\ ~IdentityStored(g)
    /\ file[g].place = "published"
    /\ inspecting[g] < MaxInspecting
    /\ inspecting' = [inspecting EXCEPT ![g] = @ + 1]
    /\ UNCHANGED <<grant, artifact, file, put, lease>>

InspectionEnds(g) ==
    /\ inspecting[g] > 0
    /\ inspecting' = [inspecting EXCEPT ![g] = @ - 1]
    /\ UNCHANGED <<put, lease>>

\* Slip: published/ is not synced again before the row is committed.
CommitInspectedUnsyncedSlip(g) ==
    /\ InspectionEnds(g)
    /\ SizeAsAccepted(g)
    /\ UNCHANGED file
    /\ IF IdentityStored(g) THEN UNCHANGED <<grant, artifact>> ELSE RecordPublication(g)

\* Slip: the identity index is not consulted.
CommitInspectedTwiceSlip(g) ==
    /\ InspectionEnds(g)
    /\ SizeAsAccepted(g)
    /\ file' = [file EXCEPT ![g].kept = "published"]
    /\ RecordPublication(g)

\* The hash is there and matches: fsync of published/, then the row, unless
\* the identity has one by now.
CommitInspected(g) ==
    /\ InspectionEnds(g)
    /\ SizeAsAccepted(g)
    /\ file' = [file EXCEPT ![g].kept = "published"]
    /\ IF IdentityStored(g) THEN UNCHANGED <<grant, artifact>> ELSE RecordPublication(g)

\* The fsync fails, or the database is busy after it.
CommitRefused(g) ==
    /\ InspectionEnds(g)
    /\ SizeAsAccepted(g)
    /\ \E kept \in {file[g].kept, "published"} : file' = [file EXCEPT ![g].kept = kept]
    /\ UNCHANGED <<grant, artifact>>

\* A destination that cannot be read, or that differs, counts as a collision
\* with another file.
InterruptInspected(g) ==
    /\ InspectionEnds(g)
    /\ MarkInterrupted(g)
    /\ UNCHANGED <<artifact, file>>

-----------------------------------------------------------------------------
(* Crashes.                                                                *)

ProcessCrash ==
    /\ put' = [g \in Grants |-> "idle"]
    /\ inspecting' = [g \in Grants |-> 0]
    /\ UNCHANGED <<grant, artifact, file, lease>>

\* What is left of a file that loses its unsynced bytes beyond the first n.
LeftAfterPowerLoss(f, undone, n) ==
    LET place == IF undone THEN f.kept ELSE f.place IN
    IF place = "none"
    THEN NoFile
    ELSE [place |-> place, kept |-> place,
          bytes |-> IF f.synced THEN f.bytes ELSE Smaller(f.bytes, n),
          unwritten |-> f.unwritten, synced |-> TRUE]

\* Directory entries that were not synced are kept or undone, one by one, and
\* unsynced files keep a prefix.  What the restart finds is on disk.
PowerLoss ==
    /\ \E undone \in SUBSET {g \in Grants : file[g].kept # file[g].place},
          cut \in [{g \in Grants : file[g].place # "none" /\ ~file[g].synced}
                     -> 0..PerArtifact] :
         file' = [g \in Grants |->
                    LeftAfterPowerLoss(file[g], g \in undone,
                                       IF g \in DOMAIN cut THEN cut[g] ELSE 0)]
    /\ put' = [g \in Grants |-> "idle"]
    /\ inspecting' = [g \in Grants |-> 0]
    /\ UNCHANGED <<grant, artifact, lease>>

-----------------------------------------------------------------------------
LeaseNext == GrantLease \/ LoseLease \/ AppendEvent \/ CompleteRun

PutNext(g) ==
    \/ OpenPut(g)
    \/ StreamChunk(g)
    \/ Overflow(g)
    \/ InterruptOverflow(g)
    \/ FlushPut(g)
    \/ FinalizePut(g)
    \/ FinalizeRefused(g)
    \/ DropPut(g)

CompleteNext(g) ==
    \/ InterruptMismatch(g)
    \/ PublishArtifact(g)
    \/ PublishWithoutRow(g)
    \/ BeginInspection(g)
    \/ CommitInspected(g)
    \/ CommitRefused(g)
    \/ InterruptInspected(g)

Next ==
    \/ LeaseNext
    \/ \E g \in Grants :
         \/ \E slot \in 1..MaxSlot : AdmitEvidenceGrant(g, slot)
         \/ PutNext(g)
         \/ CompleteNext(g)
    \/ ProcessCrash
    \/ PowerLoss

Spec == Init /\ [][Next]_vars

-----------------------------------------------------------------------------
(* Properties.                                                             *)

\* ADR 0003, metadata after file: a committed row names a published file with
\* exactly the bytes the row tells, and no power loss can take them away.
ArtifactsAreDurable ==
    \A g \in Stored :
      /\ file[g].place = "published"
      /\ file[g].kept = "published"
      /\ file[g].synced
      /\ file[g].bytes = artifact[g].bytes

\* putFinalized is durable truth, up to what the disk took: from the moment a
\* grant says its bytes are there, those that were written are, under one of
\* the file's two names, whatever crashes; and under the published name there
\* are all that were accepted.
FinalizedBytesAreKept ==
    \A g \in Grants :
      grant[g].finalized =>
        /\ file[g].place # "none"
        /\ file[g].kept # "none"
        /\ file[g].synced
        /\ Accepted(g) = grant[g].bytes
        /\ file[g].place = "published" => SizeAsAccepted(g)

\* Grants bind the next event sequence without consuming it, and no event
\* overtakes one: under the current lease an upload in progress is always at
\* the next sequence, in whichever order grants, events and losses come.
UploadHoldsItsSequence ==
    \A g \in InProgress :
      lease.state = "live" /\ grant[g].fence = lease.fence
        => grant[g].seq = lease.event + 1

\* A grant says published only if its own row is there: one that lost the race
\* for its identity to another grant does not claim that grant's artifact.
PublishedGrantHasItsArtifact ==
    \A g \in Grants :
      grant[g].state = "published" =>
        artifact[g].stored /\ artifact[g].bytes = grant[g].bytes

\* However admissions, streams and ends of uploads interleave, the files of the
\* uploads in progress never hold more than maxInFlightStagingBytes.
StagedBytesWithinQuota ==
    SumFunctionOnSet([g \in Grants |-> file[g].bytes], InProgress) <= MaxStaging

-----------------------------------------------------------------------------
(* What readers of the evidence see.                                       *)

evidence == {<<Identity(g), artifact[g].bytes>> : g \in Stored}

Store == INSTANCE ArtifactStore WITH artifacts <- evidence

\* Evidence is written once per (fence, event sequence, slot) of the Run and
\* never replaced, dropped or re-bound, by any race of completes, second
\* grants for the same identity, and crashes.
ImplementsArtifactStore == Store!Spec
=============================================================================
