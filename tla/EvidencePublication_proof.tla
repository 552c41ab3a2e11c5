--------------------- MODULE EvidencePublication_proof ---------------------
(***************************************************************************)
(* Durability of evidence, for any number of grants, slots, leases and     *)
(* bytes: the bytes a grant or an artifact row speaks of are on disk,      *)
(* whichever of the crashes comes between the steps of its publication.    *)
(* And the quota of staging, a sum over the grants in progress.            *)
(***************************************************************************)
EXTENDS EvidencePublication, FiniteSetTheorems, TLAPS

\* What durability needs of types: which fields there are to update.  The
\* ranges of the fields rest on the quota, and come with it at the end.
Shape ==
    /\ DOMAIN grant = Grants
    /\ \A g \in Grants : DOMAIN grant[g] = {"state", "fence", "seq", "slot",
                                            "reservation", "finalized", "bytes"}
    /\ DOMAIN artifact = Grants
    /\ DOMAIN file = Grants
    /\ \A g \in Grants : DOMAIN file[g] = {"place", "kept", "bytes", "unwritten", "synced"}
    /\ DOMAIN put = Grants
    /\ inspecting \in [Grants -> Int]

\* A PUT at work has a staging file that nothing else speaks of yet; once
\* flushed, the file is synced.
PutOwnsStaging(g) ==
    /\ put[g] # "idle" => file[g].place = "staging" /\ ~grant[g].finalized
    /\ put[g] = "flushed" => file[g].synced
    /\ grant[g].state = "none" => ~grant[g].finalized

\* What a finalized grant says of its file.
FinalizedKept(g) ==
    grant[g].finalized =>
      /\ file[g].place # "none"
      /\ file[g].kept # "none"
      /\ file[g].synced
      /\ Accepted(g) = grant[g].bytes
      /\ "published" \in {file[g].place, file[g].kept} => SizeAsAccepted(g)

\* Who hashes a destination hashes a file that only a power loss can move.
InspectsPublished(g) ==
    inspecting[g] > 0 => grant[g].finalized /\ file[g].place = "published"

\* A row repeats what its grant says, and its file has reached its last name.
RowDurable(g) ==
    /\ artifact[g].stored =>
         /\ grant[g].finalized
         /\ artifact[g].bytes = grant[g].bytes
         /\ file[g].place = "published"
         /\ file[g].kept = "published"
    /\ grant[g].state = "published" => artifact[g].stored

DurableAt(g) ==
    PutOwnsStaging(g) /\ FinalizedKept(g) /\ InspectsPublished(g) /\ RowDurable(g)

\* The inductive invariant: ArtifactsAreDurable alone is not one, because the
\* row is written from what the grant says and not from the file.
DurableInv == Shape /\ \A g \in Grants : DurableAt(g)

\* In the initial state there is no file and no row.
LEMMA DurableInit == Init => DurableInv
  BY DEF Init, DurableInv, Shape, DurableAt, PutOwnsStaging, FinalizedKept,
         InspectsPublished, RowDurable, NoGrant, NoFile

\* Every step keeps the fields of the rows and files.
LEMMA ShapeStep == Shape /\ [Next]_vars => Shape'
<1> SUFFICES ASSUME Shape, [Next]_vars PROVE Shape'
  OBVIOUS
<1> USE DEF Shape
<1>1. CASE LeaseNext
  BY <1>1 DEF LeaseNext, GrantLease, LoseLease, AppendEvent, CompleteRun
<1>2. ASSUME NEW g \in Grants, NEW slot \in 1..MaxSlot, AdmitEvidenceGrant(g, slot)
      PROVE  Shape'
  BY <1>2 DEF AdmitEvidenceGrant
<1>3. ASSUME NEW g \in Grants, PutNext(g)
      PROVE  Shape'
  <2>1. CASE OpenPut(g)
    BY <2>1 DEF OpenPut, NoFile
  <2>2. CASE StreamChunk(g)
    BY <2>2 DEF StreamChunk
  <2>3. CASE Overflow(g)
    BY <2>3 DEF Overflow
  <2>4. CASE InterruptOverflow(g)
    BY <2>4 DEF InterruptOverflow, MarkInterrupted
  <2>5. CASE FlushPut(g)
    BY <2>5 DEF FlushPut
  <2>6. CASE FinalizePut(g)
    BY <2>6 DEF FinalizePut
  <2>7. CASE FinalizeRefused(g)
    BY <2>7 DEF FinalizeRefused
  <2>8. CASE DropPut(g)
    BY <2>8 DEF DropPut
  <2> QED
    BY <1>3, <2>1, <2>2, <2>3, <2>4, <2>5, <2>6, <2>7, <2>8 DEF PutNext
<1>4. ASSUME NEW g \in Grants, CompleteNext(g)
      PROVE  Shape'
  <2>1. CASE InterruptMismatch(g)
    BY <2>1 DEF InterruptMismatch, MarkInterrupted
  <2>2. CASE PublishArtifact(g)
    BY <2>2 DEF PublishArtifact, RecordPublication
  <2>3. CASE PublishWithoutRow(g)
    BY <2>3 DEF PublishWithoutRow
  <2>4. CASE BeginInspection(g)
    BY <2>4 DEF BeginInspection
  <2>5. CASE CommitInspected(g)
    BY <2>5 DEF CommitInspected, InspectionEnds, RecordPublication
  <2>6. CASE CommitRefused(g)
    BY <2>6 DEF CommitRefused, InspectionEnds
  <2>7. CASE InterruptInspected(g)
    BY <2>7 DEF InterruptInspected, InspectionEnds, MarkInterrupted
  <2> QED
    BY <1>4, <2>1, <2>2, <2>3, <2>4, <2>5, <2>6, <2>7 DEF CompleteNext
<1>5. CASE ProcessCrash
  BY <1>5 DEF ProcessCrash
<1>6. CASE PowerLoss
  BY <1>6 DEF PowerLoss, LeftAfterPowerLoss, NoFile
<1>7. CASE UNCHANGED vars
  BY <1>7 DEF vars
<1> QED
  BY <1>1, <1>2, <1>3, <1>4, <1>5, <1>6, <1>7 DEF Next

\* Every step keeps what grants, files and rows say of each other.
LEMMA DurableStep == DurableInv /\ [Next]_vars => DurableInv'
<1> SUFFICES ASSUME DurableInv, [Next]_vars, Shape', NEW h \in Grants
             PROVE  DurableAt(h)'
  BY ShapeStep DEF DurableInv
<1>1. Shape /\ DurableAt(h)
  BY DEF DurableInv
<1> USE <1>1 DEF Shape, DurableAt, PutOwnsStaging, FinalizedKept, InspectsPublished, RowDurable,
                 Accepted, SizeAsAccepted
<1>2. CASE LeaseNext
  BY <1>2 DEF LeaseNext, GrantLease, LoseLease, AppendEvent, CompleteRun
<1>3. ASSUME NEW g \in Grants, NEW slot \in 1..MaxSlot, AdmitEvidenceGrant(g, slot)
      PROVE  DurableAt(h)'
  BY <1>3 DEF AdmitEvidenceGrant
<1>4. ASSUME NEW g \in Grants, PutNext(g)
      PROVE  DurableAt(h)'
  <2>1. CASE OpenPut(g)
    BY <2>1 DEF OpenPut, NoFile
  <2>2. CASE StreamChunk(g)
    BY <2>2 DEF StreamChunk
  <2>3. CASE Overflow(g)
    BY <2>3 DEF Overflow
  <2>4. CASE InterruptOverflow(g)
    BY <2>4 DEF InterruptOverflow, MarkInterrupted
  <2>5. CASE FlushPut(g)
    BY <2>5 DEF FlushPut
  <2>6. CASE FinalizePut(g)
    BY <2>6 DEF FinalizePut
  <2>7. CASE FinalizeRefused(g)
    BY <2>7 DEF FinalizeRefused
  <2>8. CASE DropPut(g)
    BY <2>8 DEF DropPut
  <2> QED
    BY <1>4, <2>1, <2>2, <2>3, <2>4, <2>5, <2>6, <2>7, <2>8 DEF PutNext
<1>5. ASSUME NEW g \in Grants, CompleteNext(g)
      PROVE  DurableAt(h)'
  <2>1. CASE InterruptMismatch(g)
    BY <2>1 DEF InterruptMismatch, Completable, MarkInterrupted
  <2>2. CASE PublishArtifact(g)
    BY <2>2 DEF PublishArtifact, Completable, RecordPublication
  <2>3. CASE PublishWithoutRow(g)
    BY <2>3 DEF PublishWithoutRow, Completable
  <2>4. CASE BeginInspection(g)
    BY <2>4 DEF BeginInspection, Completable
  <2>5. CASE CommitInspected(g)
    BY <2>5 DEF CommitInspected, InspectionEnds, RecordPublication
  <2>6. CASE CommitRefused(g)
    BY <2>6 DEF CommitRefused, InspectionEnds
  <2>7. CASE InterruptInspected(g)
    BY <2>7 DEF InterruptInspected, InspectionEnds, MarkInterrupted
  <2> QED
    BY <1>5, <2>1, <2>2, <2>3, <2>4, <2>5, <2>6, <2>7 DEF CompleteNext
<1>6. CASE ProcessCrash
  BY <1>6 DEF ProcessCrash
<1>7. CASE PowerLoss
  <2>1. PICK undone \in SUBSET {g \in Grants : file[g].kept # file[g].place},
             cut \in [{g \in Grants : file[g].place # "none" /\ ~file[g].synced}
                        -> 0..PerArtifact] :
          file' = [g \in Grants |->
                     LeftAfterPowerLoss(file[g], g \in undone,
                                        IF g \in DOMAIN cut THEN cut[g] ELSE 0)]
    BY <1>7 DEF PowerLoss
  <2>2. UNCHANGED <<grant, artifact>> /\ put'[h] = "idle" /\ inspecting'[h] = 0
    BY <1>7 DEF PowerLoss
  <2>3. CASE grant[h].finalized
    BY <2>1, <2>2, <2>3 DEF LeftAfterPowerLoss
  <2>4. CASE ~grant[h].finalized
    BY <2>2, <2>4
  <2> QED
    BY <2>3, <2>4
<1>8. CASE UNCHANGED vars
  BY <1>8 DEF vars
<1> QED
  BY <1>2, <1>3, <1>4, <1>5, <1>6, <1>7, <1>8 DEF Next

\* The inductive invariant holds in every reachable state.
THEOREM Durable == Spec => []DurableInv
  BY DurableInit, DurableStep, PTL DEF Spec

\* ADR 0003, metadata after file: no order of requests and crashes leaves a
\* committed row whose published file is not there with the row's bytes.
THEOREM EvidenceIsDurable == Spec => []ArtifactsAreDurable
<1>1. DurableInv => ArtifactsAreDurable
  BY DEF DurableInv, DurableAt, FinalizedKept, RowDurable, ArtifactsAreDurable, Stored,
         SizeAsAccepted
<1> QED
  BY <1>1, Durable, PTL

\* putFinalized is never true of a file that a crash can take bytes away from,
\* and no file that is short of what was accepted gets its published name.
THEOREM FinalizedIsKept == Spec => []FinalizedBytesAreKept
<1>1. DurableInv => FinalizedBytesAreKept
  BY DEF DurableInv, DurableAt, FinalizedKept, FinalizedBytesAreKept
<1> QED
  BY <1>1, Durable, PTL
\* A grant says published only when its own row is there.
THEOREM PublishedHasArtifact == Spec => []PublishedGrantHasItsArtifact
<1>1. DurableInv => PublishedGrantHasItsArtifact
  BY DEF DurableInv, DurableAt, RowDurable, PublishedGrantHasItsArtifact
<1> QED
  BY <1>1, Durable, PTL

-----------------------------------------------------------------------------
\* Why no upload is overtaken: fences only grow, so a fresh lease has no upload
\* yet, and under the current lease the uploads in progress are all at the next
\* sequence, so the one event that could overtake any of them is refused.
SequenceInv ==
    /\ Shape
    /\ DOMAIN lease = {"fence", "event", "state"}
    /\ lease.fence \in Int /\ lease.event \in Int
    /\ \A g \in InProgress : grant[g].fence \in Int /\ grant[g].fence <= lease.fence
    /\ UploadHoldsItsSequence

\* Steps that leave the lease alone and start no upload keep it.
LEMMA SequenceQuiet ==
    ASSUME SequenceInv, Shape', lease' = lease,
           \A g \in Grants :
             grant'[g].state = "in_progress" =>
               grant[g].state = "in_progress" /\ Identity(g)' = Identity(g)
    PROVE  SequenceInv'
<1>1. \A g \in InProgress' : g \in InProgress /\ grant'[g].fence = grant[g].fence
                                              /\ grant'[g].seq = grant[g].seq
  BY DEF InProgress, Identity
<1> QED
  BY <1>1 DEF SequenceInv, UploadHoldsItsSequence

\* Every step keeps it.
LEMMA SequenceStep == SequenceInv /\ [Next]_vars => SequenceInv'
<1> SUFFICES ASSUME SequenceInv, [Next]_vars, Shape' PROVE SequenceInv'
  BY ShapeStep DEF SequenceInv
<1>1. /\ Shape
      /\ lease.fence \in Int /\ lease.event \in Int
      /\ DOMAIN lease = {"fence", "event", "state"}
      /\ \A g \in InProgress : grant[g].fence \in Int /\ grant[g].fence <= lease.fence
      /\ UploadHoldsItsSequence
  BY DEF SequenceInv
<1>2. CASE GrantLease
  <2>1. \A g \in InProgress : grant[g].fence # lease'.fence
    BY <1>2 DEF GrantLease, SequenceInv
  <2> QED
    BY <1>2, <2>1 DEF GrantLease, SequenceInv, UploadHoldsItsSequence, InProgress
<1>3. CASE LoseLease
  BY <1>3 DEF LoseLease, SequenceInv, UploadHoldsItsSequence, InProgress
<1>4. CASE AppendEvent
  <2>1. \A g \in InProgress : grant[g].fence # lease.fence
    BY <1>4 DEF AppendEvent, UploadAtNextEvent, SequenceInv, UploadHoldsItsSequence
  <2> QED
    BY <1>4, <2>1 DEF AppendEvent, SequenceInv, UploadHoldsItsSequence, InProgress
<1>5. CASE CompleteRun
  BY <1>5 DEF CompleteRun, SequenceInv, UploadHoldsItsSequence, InProgress
<1>6. ASSUME NEW g \in Grants, NEW slot \in 1..MaxSlot, AdmitEvidenceGrant(g, slot)
      PROVE  SequenceInv'
  BY <1>1, <1>6 DEF AdmitEvidenceGrant, SequenceInv, UploadHoldsItsSequence, InProgress
<1>7. ASSUME NEW g \in Grants, PutNext(g)
      PROVE  SequenceInv'
  <2>1. CASE InterruptOverflow(g)
    BY <1>1, <2>1, SequenceQuiet DEF InterruptOverflow, MarkInterrupted, Identity, Shape
  <2>2. CASE FinalizePut(g)
    <3>1. \A h \in Grants : /\ grant'[h].state = grant[h].state
                            /\ Identity(h)' = Identity(h)
      BY <1>1, <2>2 DEF FinalizePut, Identity, Shape
    <3> QED
      BY <2>2, <3>1, SequenceQuiet DEF FinalizePut
  <2>3. CASE grant' = grant /\ lease' = lease
    BY <2>3, SequenceQuiet DEF Identity
  <2> QED
    BY <1>7, <2>1, <2>2, <2>3
       DEF PutNext, OpenPut, StreamChunk, Overflow, FlushPut, FinalizeRefused, DropPut
<1>8. ASSUME NEW g \in Grants, CompleteNext(g)
      PROVE  SequenceInv'
  <2>1. CASE InterruptMismatch(g)
    BY <1>1, <2>1, SequenceQuiet DEF InterruptMismatch, MarkInterrupted, Identity
  <2>2. CASE PublishArtifact(g)
    BY <1>1, <2>2, SequenceQuiet DEF PublishArtifact, RecordPublication, Identity
  <2>3. CASE PublishWithoutRow(g) \/ BeginInspection(g) \/ CommitRefused(g)
    BY <1>1, <2>3, SequenceQuiet
       DEF PublishWithoutRow, BeginInspection, CommitRefused, InspectionEnds, Identity
  <2>4. CASE CommitInspected(g)
    <3>1. CASE IdentityStored(g)
      BY <2>4, <3>1, SequenceQuiet DEF CommitInspected, InspectionEnds, Identity
    <3>2. CASE ~IdentityStored(g)
      BY <1>1, <2>4, <3>2, SequenceQuiet
         DEF CommitInspected, InspectionEnds, RecordPublication, Identity, Shape
    <3> QED
      BY <3>1, <3>2
  <2>5. CASE InterruptInspected(g)
    BY <1>1, <2>5, SequenceQuiet
       DEF InterruptInspected, InspectionEnds, MarkInterrupted, Identity
  <2> QED
    BY <1>8, <2>1, <2>2, <2>3, <2>4, <2>5 DEF CompleteNext
<1>9. CASE ProcessCrash \/ PowerLoss \/ UNCHANGED vars
  BY <1>1, <1>9, SequenceQuiet DEF ProcessCrash, PowerLoss, vars, Identity
<1> QED
  BY <1>2, <1>3, <1>4, <1>5, <1>6, <1>7, <1>8, <1>9 DEF Next, LeaseNext

\* In the initial state no upload is in progress.
LEMMA SequenceInit == Init => SequenceInv
  BY DEF Init, SequenceInv, Shape, InProgress, UploadHoldsItsSequence, NoGrant, NoFile

\* An upload in progress under the current lease is at the next event sequence:
\* no event or completion has overtaken it.
THEOREM UploadsAreNotOvertaken == Spec => []UploadHoldsItsSequence
<1>1. SequenceInv => UploadHoldsItsSequence
  BY DEF SequenceInv
<1> QED
  BY <1>1, SequenceInit, SequenceStep, PTL DEF Spec

-----------------------------------------------------------------------------
(* EvidencePublication implements ArtifactStore.                           *)

\* A step that leaves the rows and the grants behind them leaves the evidence.
LEMMA EvidenceQuiet ==
    ASSUME artifact' = artifact, \A g \in Stored : Identity(g)' = Identity(g)
    PROVE  evidence' = evidence
  BY DEF evidence, Stored

\* A row recorded for an identity that has none publishes that identity.
LEMMA EvidenceGrows ==
    ASSUME Shape, NEW g \in Grants, ~IdentityStored(g), RecordPublication(g)
    PROVE  Store!Next
<1> DEFINE new == <<Identity(g), grant[g].bytes>>
<1> USE DEF Shape
<1>1. g \notin Stored
  BY DEF IdentityStored
<1>2. Stored' = Stored \cup {g} /\ artifact'[g].bytes = grant[g].bytes
  BY DEF RecordPublication, Stored
<1>3. \A h \in Grants : Identity(h)' = Identity(h)
  BY DEF RecordPublication, Identity
<1>4. \A h \in Stored : artifact'[h] = artifact[h]
  BY <1>1 DEF RecordPublication, Stored
<1>5. evidence' = evidence \cup {new}
  BY <1>2, <1>3, <1>4 DEF evidence, Stored
<1>6. \A a \in evidence : a[1] # Identity(g)
  BY DEF evidence, IdentityStored
<1>7. new \in evidence' \ evidence /\ new[1] = Identity(g) /\ new[2] = grant[g].bytes
  BY <1>5, <1>6
<1>8. Store!Publish(new[1], new[2])
  BY <1>5, <1>6, <1>7 DEF Store!Publish
<1> QED
  BY <1>7, <1>8 DEF Store!Next

\* Every step publishes one new identity or changes no evidence.
LEMMA EvidenceStep == DurableInv /\ [Next]_vars => [Store!Next]_evidence
<1> SUFFICES ASSUME DurableInv, [Next]_vars PROVE Store!Next \/ evidence' = evidence
  OBVIOUS
<1> USE DEF Shape
<1>1. Shape
  BY DEF DurableInv
<1>2. \A g \in Stored : grant[g].state # "none"
  BY DEF DurableInv, DurableAt, RowDurable, PutOwnsStaging, Stored
<1>3. CASE LeaseNext
  BY <1>3, EvidenceQuiet DEF LeaseNext, GrantLease, LoseLease, AppendEvent, CompleteRun, Identity
<1>4. ASSUME NEW g \in Grants, NEW slot \in 1..MaxSlot, AdmitEvidenceGrant(g, slot)
      PROVE  evidence' = evidence
  <2>1. \A h \in Stored : grant'[h] = grant[h]
    BY <1>1, <1>2, <1>4 DEF AdmitEvidenceGrant, Stored
  <2> QED
    BY <1>4, <2>1, EvidenceQuiet DEF AdmitEvidenceGrant, Identity
<1>5. ASSUME NEW g \in Grants, PutNext(g)
      PROVE  evidence' = evidence
  BY <1>1, <1>5, EvidenceQuiet
     DEF PutNext, OpenPut, StreamChunk, Overflow, InterruptOverflow, MarkInterrupted, FlushPut,
         FinalizePut, FinalizeRefused, DropPut, Identity, Stored
<1>6. ASSUME NEW g \in Grants, CompleteNext(g)
      PROVE  Store!Next \/ evidence' = evidence
  <2>1. CASE PublishArtifact(g)
    BY <1>1, <2>1, EvidenceGrows DEF PublishArtifact
  <2>2. CASE CommitInspected(g)
    <3>1. CASE IdentityStored(g)
      BY <2>2, <3>1, EvidenceQuiet DEF CommitInspected, Identity
    <3> QED
      BY <1>1, <2>2, <3>1, EvidenceGrows DEF CommitInspected
  <2>3. CASE InterruptMismatch(g) \/ InterruptInspected(g)
    BY <1>1, <2>3, EvidenceQuiet
       DEF InterruptMismatch, InterruptInspected, MarkInterrupted, Identity, Stored
  <2>4. CASE PublishWithoutRow(g) \/ BeginInspection(g) \/ CommitRefused(g)
    BY <2>4, EvidenceQuiet DEF PublishWithoutRow, BeginInspection, CommitRefused, Identity
  <2> QED
    BY <1>6, <2>1, <2>2, <2>3, <2>4 DEF CompleteNext
<1>7. CASE ProcessCrash \/ PowerLoss \/ UNCHANGED vars
  BY <1>7, EvidenceQuiet DEF ProcessCrash, PowerLoss, vars, Identity
<1> QED
  BY <1>3, <1>4, <1>5, <1>6, <1>7 DEF Next

\* Readers see a store in which each identity is bound once and for ever.
THEOREM StoreIsImplemented == Spec => ImplementsArtifactStore
<1>1. Init => Store!Init
  BY DEF Init, Store!Init, evidence, Stored
<1> QED
  BY <1>1, EvidenceStep, Durable, PTL DEF Spec, ImplementsArtifactStore, Store!Spec

-----------------------------------------------------------------------------
(* Sums over finite sets.  A least counterexample stands in for induction. *)

\* Every non-empty set of numbers has a least one.
LEMMA Least ==
    ASSUME NEW S \in SUBSET Nat, S # {}
    PROVE  \E n \in S : \A m \in S : n <= m
  <1> DEFINE R == {ss \in Nat \X Nat : ss[1] < ss[2]}
  <1>1. IsWellFoundedOn(R, Nat)
    BY NatLessThanWellFounded DEF OpToRel
  <1> HIDE DEF R
  <1>2. PICK n \in S : \A m \in S : ~(<<m, n>> \in R)
    BY <1>1, WFMin
  <1>3. \A x, y \in Nat : y < x => <<y, x>> \in R
    BY DEF R
  <1>4. \A m \in S : n <= m
    <2> SUFFICES ASSUME NEW m \in S PROVE n <= m
      OBVIOUS
    <2>1. n \in Nat /\ m \in Nat
      BY <1>2
    <2>2. ~(m < n)
      BY <1>2, <1>3, <2>1
    <2>3. QED
      BY <2>1, <2>2
  <1>5. QED
    BY <1>2, <1>4

\* Of the subsets of a finite set that have a property, some have it and none
\* of the sets with one element less.
LEMMA LeastSubset ==
    ASSUME NEW S, IsFiniteSet(S), NEW B \in SUBSET SUBSET S, B # {}
    PROVE  \E s \in B : \A x \in s : s \ {x} \notin B
  <1> DEFINE N == {Cardinality(s) : s \in B}
  <1>1. \A s \in SUBSET S : IsFiniteSet(s) /\ Cardinality(s) \in Nat
    BY FS_Subset, FS_CardinalityType
  <1>2. N \in SUBSET Nat /\ N # {}
    BY <1>1
  <1>3. PICK n \in N : \A m \in N : n <= m
    BY <1>2, Least
  <1>4. PICK s \in B : n = Cardinality(s)
    BY <1>3
  <1>5. ASSUME NEW x \in s, s \ {x} \in B PROVE FALSE
    <2>1. IsFiniteSet(s) /\ Cardinality(s) \in Nat /\ s \ {x} \in SUBSET S
      BY <1>1
    <2>2. Cardinality(s \ {x}) = Cardinality(s) - 1
      BY <2>1, FS_RemoveElement
    <2>3. Cardinality(s \ {x}) \in N
      BY <1>5
    <2>4. Cardinality(s) <= Cardinality(s) - 1
      BY <1>3, <1>4, <2>2, <2>3
    <2>5. QED
      BY <2>1, <2>4
  <1>6. QED
    BY <1>4, <1>5

Pick(s) == CHOOSE x \in s : TRUE

\* What SumFunctionOnSet is over the subsets of S.
Sums(f, S, sum) ==
    sum = [s \in SUBSET S |-> IF s = {} THEN 0 ELSE f[Pick(s)] + sum[s \ {Pick(s)}]]

LEMMA SumDef ==
    ASSUME NEW f, NEW S
    PROVE  SumFunctionOnSet(f, S) = (CHOOSE sum : Sums(f, S, sum))[S]
  BY DEF SumFunctionOnSet, FoldFunctionOnSet, MapThenFoldSet, Sums, Pick

LEMMA Picked == ASSUME NEW s, s # {} PROVE Pick(s) \in s
  BY DEF Pick

\* The recursion has a solution, size by size.
LEMMA SumExists ==
    ASSUME NEW f, NEW S, IsFiniteSet(S)
    PROVE  \E sum : Sums(f, S, sum)
  <1> DEFINE To(n) == {s \in SUBSET S : Cardinality(s) <= n}
             Upto(n, g) == g = [s \in To(n) |->
                             IF s = {} THEN 0 ELSE f[Pick(s)] + g[s \ {Pick(s)}]]
             Bad == {n \in Nat : ~\E g : Upto(n, g)}
  <1>1. \A s \in SUBSET S : IsFiniteSet(s) /\ Cardinality(s) \in Nat /\ Cardinality(s) <= Cardinality(S)
    BY FS_Subset, FS_CardinalityType
  <1>2. Bad = {}
    <2> SUFFICES ASSUME Bad # {} PROVE FALSE
      OBVIOUS
    <2>1. PICK n \in Bad : \A m \in Bad : n <= m
      <3>1. Bad \in SUBSET Nat
        OBVIOUS
      <3> HIDE DEF Bad
      <3>2. QED
        BY <3>1, Least
    <2>2. CASE n = 0
      <3> DEFINE g == [s \in To(0) |-> 0]
      <3>1. \A s \in To(0) : s = {}
        BY <1>1, FS_EmptySet
      <3>2. g = [s \in To(0) |-> IF s = {} THEN 0 ELSE f[Pick(s)] + g[s \ {Pick(s)}]]
        BY <3>1
      <3>3. Upto(0, g)
        BY <3>2
      <3>4. QED
        BY <2>1, <2>2, <3>3
    <2>3. CASE n # 0
      <3>1. n \in Nat /\ n - 1 \in Nat /\ n - 1 \notin Bad
        <4>1. n \in Nat
          BY <2>1
        <4>2. n - 1 \in Nat /\ ~(n <= n - 1)
          BY <2>3, <4>1
        <4> HIDE DEF Bad
        <4>3. QED
          BY <2>1, <4>1, <4>2
      <3>2. PICK g : Upto(n - 1, g)
        BY <3>1
      <3> DEFINE h == [s \in To(n) |-> IF s = {} THEN 0 ELSE f[Pick(s)] + g[s \ {Pick(s)}]]
      <3>3. \A s \in To(n) : s # {} => s \ {Pick(s)} \in To(n - 1) /\ s \ {Pick(s)} \in To(n)
        <4> SUFFICES ASSUME NEW s \in To(n), s # {}
                     PROVE  s \ {Pick(s)} \in To(n - 1) /\ s \ {Pick(s)} \in To(n)
          OBVIOUS
        <4>1. Cardinality(s \ {Pick(s)}) = Cardinality(s) - 1
          BY <1>1, Picked, FS_RemoveElement
        <4>2. QED
          BY <1>1, <3>1, <4>1
      <3>4. \A t \in To(n - 1) : t \in To(n)
        BY <1>1, <3>1
      <3> HIDE DEF To
      <3>5. \A t \in To(n - 1) : h[t] = g[t]
        BY <3>2, <3>4
      <3>6. h = [s \in To(n) |-> IF s = {} THEN 0 ELSE f[Pick(s)] + h[s \ {Pick(s)}]]
        <4>1. \A s \in To(n) : (IF s = {} THEN 0 ELSE f[Pick(s)] + g[s \ {Pick(s)}])
                             = (IF s = {} THEN 0 ELSE f[Pick(s)] + h[s \ {Pick(s)}])
          BY <3>3, <3>5
        <4> DEFINE H(s) == IF s = {} THEN 0 ELSE f[Pick(s)] + h[s \ {Pick(s)}]
                   G(s) == IF s = {} THEN 0 ELSE f[Pick(s)] + g[s \ {Pick(s)}]
        <4>2. h = [s \in To(n) |-> G(s)] /\ \A s \in To(n) : G(s) = H(s)
          BY <4>1
        <4> HIDE DEF h, G, H
        <4>3. h = [s \in To(n) |-> H(s)]
          BY <4>2
        <4>4. QED
          BY <4>3 DEF H
      <3>7. Upto(n, h)
        BY <3>6
      <3>8. QED
        BY <2>1, <3>7
    <2>4. QED
      BY <2>2, <2>3
  <1>3. Cardinality(S) \in Nat /\ To(Cardinality(S)) = SUBSET S
    BY <1>1, FS_CardinalityType
  <1>4. PICK g : Upto(Cardinality(S), g)
    BY <1>2, <1>3
  <1>5. Sums(f, S, g)
    BY <1>3, <1>4 DEF Sums
  <1>6. QED
    BY <1>5

\* A solution, one element of the recursion at a time.
LEMMA Unfold ==
    ASSUME NEW f, NEW S, NEW u, Sums(f, S, u)
    PROVE  /\ u[{}] = 0
           /\ \A s \in SUBSET S : s # {} => /\ Pick(s) \in s /\ s \ {Pick(s)} \in SUBSET S
                                            /\ u[s] = f[Pick(s)] + u[s \ {Pick(s)}]
  <1>1. \A s \in SUBSET S : u[s] = IF s = {} THEN 0 ELSE f[Pick(s)] + u[s \ {Pick(s)}]
    BY DEF Sums
  <1>2. QED
    BY <1>1, Picked

LEMMA SumsAgree ==
    ASSUME NEW f, NEW T, IsFiniteSet(T), NEW S \in SUBSET T,
           NEW u, NEW v, Sums(f, S, u), Sums(f, T, v)
    PROVE  u[S] = v[S]
  <1> DEFINE B == {s \in SUBSET S : u[s] # v[s]}
  <1>1. IsFiniteSet(S) /\ B \in SUBSET SUBSET S
    BY FS_Subset
  <1>2. ASSUME B # {} PROVE FALSE
    <2>1. PICK s \in B : \A x \in s : s \ {x} \notin B
      <3> HIDE DEF B
      <3>1. QED
        BY <1>1, <1>2, LeastSubset
    <2>2. CASE s = {}
      BY <2>1, <2>2, Unfold
    <2>3. CASE s # {}
      <3>1. s \in SUBSET S /\ u[s] # v[s] /\ Pick(s) \in s
        BY <2>1, <2>3, Picked
      <3>2. u[s \ {Pick(s)}] = v[s \ {Pick(s)}]
        BY <2>1, <3>1
      <3>3. QED
        BY <2>3, <3>1, <3>2, Unfold
    <2>4. QED
      BY <2>2, <2>3
  <1>3. QED
    BY <1>2

LEMMA SumsNat ==
    ASSUME NEW f, NEW S, IsFiniteSet(S), NEW u, Sums(f, S, u), \A x \in S : f[x] \in Nat
    PROVE  \A s \in SUBSET S : u[s] \in Nat
  <1> DEFINE B == {s \in SUBSET S : u[s] \notin Nat}
  <1>1. ASSUME B # {} PROVE FALSE
    <2>1. PICK s \in B : \A x \in s : s \ {x} \notin B
      <3>1. B \in SUBSET SUBSET S
        OBVIOUS
      <3> HIDE DEF B
      <3>2. QED
        BY <1>1, <3>1, LeastSubset
    <2>2. s \in SUBSET S /\ u[s] \notin Nat
      BY <2>1
    <2>3. s # {} /\ Pick(s) \in s /\ u[s] = f[Pick(s)] + u[s \ {Pick(s)}]
      <3>1. u[{}] = 0
        BY Unfold
      <3>2. s # {}
        BY <2>2, <3>1
      <3>3. QED
        BY <2>2, <3>2, Unfold
    <2>4. u[s \ {Pick(s)}] \in Nat /\ f[Pick(s)] \in Nat
      BY <2>1, <2>2, <2>3
    <2>5. QED
      BY <2>2, <2>3, <2>4
  <1>2. QED
    BY <1>1

\* The order in which the recursion takes the elements does not matter.
LEMMA SumsRemove ==
    ASSUME NEW f, NEW S, IsFiniteSet(S), NEW u, Sums(f, S, u), \A x \in S : f[x] \in Nat
    PROVE  \A s \in SUBSET S : \A y \in s : u[s] = f[y] + u[s \ {y}]
  <1> DEFINE B == {s \in SUBSET S : \E y \in s : u[s] # f[y] + u[s \ {y}]}
  <1>1. ASSUME B # {} PROVE FALSE
    <2>1. PICK s \in B : \A x \in s : s \ {x} \notin B
      <3>1. B \in SUBSET SUBSET S
        OBVIOUS
      <3> HIDE DEF B
      <3>2. QED
        BY <1>1, <3>1, LeastSubset
    <2>2. s \in SUBSET S
      BY <2>1
    <2>3. PICK y \in s : u[s] # f[y] + u[s \ {y}]
      BY <2>1
    <2>4. PICK c : c = Pick(s)
      OBVIOUS
    <2>5. c \in s /\ u[s] = f[c] + u[s \ {c}]
      BY <2>2, <2>3, <2>4, Unfold
    <2>6. c # y
      BY <2>3, <2>5
    <2>7. s \ {c} \in SUBSET S /\ s \ {c} \notin B /\ y \in s \ {c}
      BY <2>1, <2>2, <2>3, <2>5, <2>6
    <2>8. s \ {y} \in SUBSET S /\ s \ {y} \notin B /\ c \in s \ {y}
      BY <2>1, <2>2, <2>3, <2>5, <2>6
    <2>9. u[s \ {c}] = f[y] + u[(s \ {c}) \ {y}]
      BY <2>7
    <2>10. u[s \ {y}] = f[c] + u[(s \ {y}) \ {c}]
      BY <2>8
    <2>11. (s \ {c}) \ {y} = (s \ {y}) \ {c} /\ (s \ {c}) \ {y} \in SUBSET S
      BY <2>2
    <2>12. u[(s \ {c}) \ {y}] \in Nat /\ f[c] \in Nat /\ f[y] \in Nat
      BY <2>2, <2>3, <2>5, <2>11, SumsNat
    <2> HIDE DEF B
    <2>13. QED
      BY <2>3, <2>5, <2>9, <2>10, <2>11, <2>12
  <1>2. QED
    BY <1>1

\* What the sum is, for any finite set and any numbers.
LEMMA SumSolution ==
    ASSUME NEW f, NEW S, IsFiniteSet(S)
    PROVE  \E u : Sums(f, S, u) /\ SumFunctionOnSet(f, S) = u[S]
  <1> DEFINE u == CHOOSE sum : Sums(f, S, sum)
  <1>1. Sums(f, S, u)
    BY SumExists
  <1>2. QED
    BY <1>1, SumDef

LEMMA SumType ==
    ASSUME NEW f, NEW S, IsFiniteSet(S), \A x \in S : f[x] \in Nat
    PROVE  SumFunctionOnSet(f, S) \in Nat
  <1>1. PICK u : Sums(f, S, u) /\ SumFunctionOnSet(f, S) = u[S]
    BY SumSolution
  <1>2. S \in SUBSET S
    OBVIOUS
  <1>3. QED
    BY <1>1, <1>2, SumsNat

LEMMA SumEmpty == ASSUME NEW f PROVE SumFunctionOnSet(f, {}) = 0
  <1>1. PICK u : Sums(f, {}, u) /\ SumFunctionOnSet(f, {}) = u[{}]
    BY SumSolution, FS_EmptySet
  <1>2. QED
    BY <1>1, Unfold

LEMMA SumWith ==
    ASSUME NEW f, NEW S, IsFiniteSet(S), NEW y, y \notin S, \A x \in S \cup {y} : f[x] \in Nat
    PROVE  SumFunctionOnSet(f, S \cup {y}) = f[y] + SumFunctionOnSet(f, S)
  <1> DEFINE T == S \cup {y}
  <1>1. IsFiniteSet(T) /\ S \in SUBSET T /\ T \in SUBSET T /\ y \in T /\ T \ {y} = S
    BY FS_AddElement
  <1>2. PICK u : Sums(f, S, u) /\ SumFunctionOnSet(f, S) = u[S]
    BY SumSolution
  <1> HIDE DEF T
  <1>3. PICK v : Sums(f, T, v) /\ SumFunctionOnSet(f, T) = v[T]
    BY <1>1, SumSolution
  <1>4. u[S] = v[S]
    BY <1>1, <1>2, <1>3, SumsAgree
  <1>5. \A x \in T : f[x] \in Nat
    BY DEF T
  <1>6. v[T] = f[y] + v[T \ {y}]
    BY <1>1, <1>3, <1>5, SumsRemove
  <1>7. QED
    BY <1>1, <1>2, <1>3, <1>4, <1>6 DEF T

LEMMA SumLess ==
    ASSUME NEW S, IsFiniteSet(S), NEW f, NEW g,
           \A x \in S : f[x] \in Nat /\ g[x] \in Nat /\ f[x] <= g[x]
    PROVE  SumFunctionOnSet(f, S) <= SumFunctionOnSet(g, S)
  <1>1. PICK u : Sums(f, S, u) /\ SumFunctionOnSet(f, S) = u[S]
    BY SumSolution
  <1>2. PICK v : Sums(g, S, v) /\ SumFunctionOnSet(g, S) = v[S]
    BY SumSolution
  <1>3. \A s \in SUBSET S : u[s] \in Nat /\ v[s] \in Nat
    BY <1>1, <1>2, SumsNat
  <1> DEFINE B == {s \in SUBSET S : ~(u[s] <= v[s])}
  <1>4. ASSUME B # {} PROVE FALSE
    <2>1. PICK s \in B : \A x \in s : s \ {x} \notin B
      <3>1. B \in SUBSET SUBSET S
        OBVIOUS
      <3> HIDE DEF B
      <3>2. QED
        BY <1>4, <3>1, LeastSubset
    <2>2. s \in SUBSET S /\ ~(u[s] <= v[s])
      BY <2>1
    <2>3. CASE s = {}
      BY <1>1, <1>2, <2>2, <2>3, Unfold
    <2>4. CASE s # {}
      <3>1. PICK c : c = Pick(s)
        OBVIOUS
      <3>2. c \in s /\ u[s] = f[c] + u[s \ {c}] /\ v[s] = g[c] + v[s \ {c}] /\ s \ {c} \in SUBSET S
        BY <1>1, <1>2, <2>2, <2>4, <3>1, Unfold
      <3>3. u[s \ {c}] <= v[s \ {c}]
        BY <2>1, <3>2
      <3>4. f[c] \in Nat /\ g[c] \in Nat /\ f[c] <= g[c]
        BY <2>2, <3>2
      <3>5. u[s \ {c}] \in Nat /\ v[s \ {c}] \in Nat
        BY <1>3, <3>2
      <3> HIDE DEF B
      <3>6. QED
        BY <2>2, <3>2, <3>3, <3>4, <3>5
    <2>5. QED
      BY <2>3, <2>4
  <1>5. S \in SUBSET S /\ u[S] <= v[S]
    BY <1>4
  <1>6. QED
    BY <1>1, <1>2, <1>5

-----------------------------------------------------------------------------
(* The quota of staging.                                                   *)

\* What the PUT counts of a file: what was written and what was lost of it.
Size(fl) == fl.bytes + fl.unwritten

\* What is reserved covers what is accepted: a file of an upload in progress
\* is within its reservation, and starts from nothing.
QuotaAt(g) ==
    /\ grant[g].state = "none" => file[g] = NoFile /\ put[g] = "idle" /\ inspecting[g] = 0
    /\ grant[g].state = "in_progress" => Size(file[g]) <= grant[g].reservation

\* Types belong to it: the clamped reservation is a number because the guard
\* of the admission makes it one.
QuotaInv ==
    /\ TypeOK /\ IsFiniteSet(InProgress) /\ Reserved <= MaxStaging
    /\ \A g \in Grants : QuotaAt(g)

Reservations == [g \in Grants |-> grant[g].reservation]

LEMMA ReservedType ==
    ASSUME TypeOK, IsFiniteSet(InProgress)
    PROVE  Reserved \in Nat
  <1>1. \A g \in InProgress : Reservations[g] \in Nat
    BY EvidenceAssumption DEF TypeOK, GrantRow, InProgress, Reservations
  <1>2. QED
    BY <1>1, SumType DEF Reserved, Reservations

LEMMA ReservationType ==
    ASSUME TypeOK, IsFiniteSet(InProgress), MaxStaging - Reserved > 0
    PROVE  Reservation \in 0..PerArtifact /\ Reserved + Reservation <= MaxStaging
  BY ReservedType, EvidenceAssumption DEF Reservation, Smaller

\* The row of a grant as a step that is not its admission may leave it.
Left(g, r) ==
    /\ r \in GrantRow /\ r.reservation = grant[g].reservation
    /\ r.state \in {grant[g].state, "upload_interrupted", "published"}
    /\ grant[g].state = "none" => r.state = "none"

\* Such a step gives a reservation back or changes none.
LEMMA GrantLeft ==
    ASSUME QuotaInv, NEW g \in Grants, NEW r, Left(g, r), grant' = [grant EXCEPT ![g] = r]
    PROVE  /\ grant' \in [Grants -> GrantRow] /\ IsFiniteSet(InProgress') /\ Reserved' <= MaxStaging
           /\ \A h \in Grants : /\ grant'[h].state = "none" => grant[h].state = "none"
                                /\ grant'[h].state = "in_progress" => grant[h].state = "in_progress"
                                /\ grant'[h].reservation = grant[h].reservation
  <1>1. grant \in [Grants -> GrantRow] /\ r \in GrantRow
    BY DEF QuotaInv, TypeOK, Left
  <1>2. /\ grant' \in [Grants -> GrantRow] /\ grant'[g] = r
        /\ \A h \in Grants : h # g => grant'[h] = grant[h]
    BY <1>1
  <1>3. \A h \in Grants : /\ grant'[h].state = "none" => grant[h].state = "none"
                          /\ grant'[h].state = "in_progress" => grant[h].state = "in_progress"
                          /\ grant'[h].reservation = grant[h].reservation
    BY <1>2 DEF Left
  <1>4. Reservations' = Reservations
    BY <1>3 DEF Reservations
  <1>5. InProgress' = InProgress \/ (g \in InProgress /\ InProgress' = InProgress \ {g})
    BY <1>2, <1>3 DEF InProgress
  <1>6. IsFiniteSet(InProgress) /\ Reserved <= MaxStaging
    BY DEF QuotaInv
  <1>7. CASE InProgress' = InProgress
    <2>1. Reserved' = Reserved
      BY <1>4, <1>7 DEF Reserved, Reservations
    <2>2. QED
      BY <1>2, <1>3, <1>6, <1>7, <2>1
  <1>8. CASE g \in InProgress /\ InProgress' = InProgress \ {g}
    <2> DEFINE S == InProgress \ {g}
    <2>1. IsFiniteSet(S) /\ S \cup {g} = InProgress /\ g \notin S
      BY <1>6, <1>8, FS_RemoveElement
    <2>2. \A h \in InProgress : Reservations[h] \in Nat
      BY <1>1, EvidenceAssumption DEF GrantRow, InProgress, Reservations
    <2> HIDE DEF S
    <2>3. SumFunctionOnSet(Reservations, S \cup {g})
            = Reservations[g] + SumFunctionOnSet(Reservations, S)
      BY <2>1, <2>2, SumWith
    <2>4. SumFunctionOnSet(Reservations, S) \in Nat /\ Reservations[g] \in Nat
      BY <1>8, <2>1, <2>2, SumType
    <2>5. Reserved = SumFunctionOnSet(Reservations, S \cup {g})
      BY <2>1 DEF Reserved, Reservations
    <2>6. Reserved' = SumFunctionOnSet(Reservations, S)
      BY <1>4, <1>8 DEF S, Reserved, Reservations
    <2>7. Reserved' <= MaxStaging
      BY <1>6, <2>3, <2>4, <2>5, <2>6, EvidenceAssumption
    <2>8. QED
      BY <1>2, <1>3, <1>8, <2>1, <2>7 DEF S
  <1>9. QED
    BY <1>5, <1>7, <1>8

\* What a step must leave, when the grants are left so.
LEMMA QuotaKept ==
    ASSUME QuotaInv, NEW g \in Grants, NEW r, Left(g, r), grant' = [grant EXCEPT ![g] = r],
           artifact' \in [Grants -> ArtifactRow], file' \in [Grants -> FileState],
           put' \in [Grants -> PutStage], inspecting' \in [Grants -> 0..MaxInspecting],
           lease' \in LeaseRow,
           \A h \in Grants :
             /\ grant[h].state = "none" => file'[h] = NoFile /\ put'[h] = "idle" /\ inspecting'[h] = 0
             /\ grant[h].state = "in_progress" => Size(file'[h]) <= grant[h].reservation
    PROVE  QuotaInv'
  BY GrantLeft DEF QuotaInv, QuotaAt, TypeOK

LEMMA Unchanged ==
    ASSUME QuotaInv, NEW g \in Grants
    PROVE  Left(g, grant[g]) /\ grant = [grant EXCEPT ![g] = grant[g]]
  BY DEF QuotaInv, TypeOK, Left, GrantRow

LEMMA Interrupted ==
    ASSUME QuotaInv, NEW g \in Grants, MarkInterrupted(g)
    PROVE  \E r : Left(g, r) /\ grant' = [grant EXCEPT ![g] = r]
  <1> DEFINE r == [grant[g] EXCEPT !.state = "upload_interrupted"]
  <1>1. grant[g] \in GrantRow
    BY DEF QuotaInv, TypeOK
  <1>2. CASE grant[g].state = "in_progress"
    <2>1. Left(g, r)
      BY <1>1, <1>2 DEF Left, GrantRow
    <2>2. grant' = [grant EXCEPT ![g] = r]
      BY <1>2 DEF MarkInterrupted
    <2>3. QED
      BY <2>1, <2>2
  <1>3. CASE grant[g].state # "in_progress"
    BY <1>3, Unchanged DEF MarkInterrupted
  <1>4. QED
    BY <1>2, <1>3

LEMMA Recorded ==
    ASSUME QuotaInv, NEW g \in Grants, RecordPublication(g)
    PROVE  /\ \E r : Left(g, r) /\ grant' = [grant EXCEPT ![g] = r]
           /\ artifact' \in [Grants -> ArtifactRow]
  <1> DEFINE r == [grant[g] EXCEPT !.state = "published"]
  <1>1. grant[g] \in GrantRow /\ artifact \in [Grants -> ArtifactRow]
    BY DEF QuotaInv, TypeOK
  <1>2. [stored |-> TRUE, bytes |-> grant[g].bytes] \in ArtifactRow
    BY <1>1 DEF GrantRow, ArtifactRow
  <1>3. artifact' \in [Grants -> ArtifactRow]
    BY <1>1, <1>2 DEF RecordPublication
  <1>4. CASE grant[g].state = "in_progress"
    <2>1. Left(g, r)
      BY <1>1, <1>4 DEF Left, GrantRow
    <2>2. grant' = [grant EXCEPT ![g] = r]
      BY <1>4 DEF RecordPublication
    <2>3. QED
      BY <1>3, <2>1, <2>2
  <1>5. CASE grant[g].state # "in_progress"
    BY <1>3, <1>5, Unchanged DEF RecordPublication
  <1>6. QED
    BY <1>4, <1>5

\* An admission reserves at most what staging has left.
LEMMA Admission ==
    ASSUME QuotaInv, NEW g \in Grants, NEW slot \in 1..MaxSlot, AdmitEvidenceGrant(g, slot)
    PROVE  QuotaInv'
  <1> DEFINE r == [state |-> "in_progress", fence |-> lease.fence,
                   seq |-> lease.event + 1, slot |-> slot,
                   reservation |-> Reservation, finalized |-> FALSE, bytes |-> 0]
  <1>1. /\ grant \in [Grants -> GrantRow] /\ lease \in LeaseRow
        /\ IsFiniteSet(InProgress) /\ grant[g].state = "none" /\ file[g] = NoFile
    BY DEF QuotaInv, TypeOK, QuotaAt, AdmitEvidenceGrant
  <1>2. Reservation \in 0..PerArtifact /\ Reserved + Reservation <= MaxStaging
    BY ReservationType DEF QuotaInv, AdmitEvidenceGrant
  <1>3. r \in GrantRow
    BY <1>1, <1>2, EvidenceAssumption DEF GrantRow, LeaseRow
  <1>4. r.state = "in_progress" /\ r.reservation = Reservation
    OBVIOUS
  <1>5. grant' = [grant EXCEPT ![g] = r] /\ UNCHANGED <<artifact, file, put, inspecting, lease>>
    BY DEF AdmitEvidenceGrant
  <1> HIDE DEF r
  <1>6. /\ grant' \in [Grants -> GrantRow] /\ grant'[g] = r
        /\ \A h \in Grants : h # g => grant'[h] = grant[h]
    BY <1>1, <1>3, <1>5
  <1>7. InProgress' = InProgress \cup {g} /\ g \notin InProgress
    BY <1>1, <1>4, <1>6 DEF InProgress
  <1>8. IsFiniteSet(InProgress')
    BY <1>1, <1>7, FS_AddElement
  <1> DEFINE Old == Reservations
             New == [h \in Grants |-> grant'[h].reservation]
  <1>9. \A h \in InProgress : Old[h] \in Nat /\ New[h] \in Nat /\ New[h] <= Old[h]
    BY <1>1, <1>6, <1>7, EvidenceAssumption DEF InProgress, GrantRow, Reservations
  <1>10. New[g] = Reservation /\ Reservation \in Nat
    BY <1>2, <1>4, <1>6, EvidenceAssumption
  <1>11. Reserved = SumFunctionOnSet(Old, InProgress)
    BY DEF Reserved, Reservations
  <1>12. Reserved' = SumFunctionOnSet(New, InProgress \cup {g})
    BY <1>7 DEF Reserved
  <1> HIDE DEF Old, New
  <1>13. SumFunctionOnSet(New, InProgress) <= SumFunctionOnSet(Old, InProgress)
    BY <1>1, <1>9, SumLess
  <1>14. SumFunctionOnSet(New, InProgress \cup {g}) = New[g] + SumFunctionOnSet(New, InProgress)
    BY <1>1, <1>7, <1>9, <1>10, SumWith
  <1>15. SumFunctionOnSet(New, InProgress) \in Nat /\ SumFunctionOnSet(Old, InProgress) \in Nat
    BY <1>1, <1>9, SumType
  <1>16. Reserved' <= MaxStaging
    BY <1>2, <1>10, <1>11, <1>12, <1>13, <1>14, <1>15, EvidenceAssumption
  <1>17. \A h \in Grants : QuotaAt(h)'
    <2>1. Size(file[g]) <= r.reservation
      BY <1>1, <1>2, <1>4, EvidenceAssumption DEF NoFile, Size
    <2>2. QED
      BY <1>4, <1>5, <1>6, <2>1 DEF QuotaInv, QuotaAt
  <1>18. QED
    BY <1>5, <1>6, <1>8, <1>16, <1>17 DEF QuotaInv, TypeOK

\* A step that touches the file, the request and the count of one grant.
LEMMA OneUpload ==
    ASSUME QuotaInv, NEW g \in Grants,
           NEW fl \in FileState, NEW p \in PutStage, NEW n \in 0..MaxInspecting,
           file' = [file EXCEPT ![g] = fl], put' = [put EXCEPT ![g] = p],
           inspecting' = [inspecting EXCEPT ![g] = n],
           grant[g].state # "none",
           grant[g].state = "in_progress" => Size(fl) <= grant[g].reservation
    PROVE  /\ file' \in [Grants -> FileState] /\ put' \in [Grants -> PutStage]
           /\ inspecting' \in [Grants -> 0..MaxInspecting]
           /\ \A h \in Grants :
                /\ grant[h].state = "none" =>
                     file'[h] = NoFile /\ put'[h] = "idle" /\ inspecting'[h] = 0
                /\ grant[h].state = "in_progress" => Size(file'[h]) <= grant[h].reservation
  <1>1. /\ file \in [Grants -> FileState] /\ put \in [Grants -> PutStage]
        /\ inspecting \in [Grants -> 0..MaxInspecting]
    BY DEF QuotaInv, TypeOK
  <1>2. /\ file' \in [Grants -> FileState] /\ put' \in [Grants -> PutStage]
        /\ inspecting' \in [Grants -> 0..MaxInspecting]
        /\ file'[g] = fl /\ put'[g] = p /\ inspecting'[g] = n
        /\ \A h \in Grants : h # g => /\ file'[h] = file[h] /\ put'[h] = put[h]
                                      /\ inspecting'[h] = inspecting[h]
    BY <1>1
  <1>3. QED
    BY <1>2 DEF QuotaInv, QuotaAt

\* The fields of a file one at a time: what the handlers write of it.
LEMMA FileWritten ==
    ASSUME NEW fl \in FileState, NEW place \in {"none", "staging", "published"},
           NEW kept \in {"none", "staging", "published"}
    PROVE  /\ [fl EXCEPT !.place = place] \in FileState
           /\ Size([fl EXCEPT !.place = place]) = Size(fl)
           /\ [fl EXCEPT !.kept = kept] \in FileState
           /\ Size([fl EXCEPT !.kept = kept]) = Size(fl)
           /\ [fl EXCEPT !.place = place, !.kept = kept] \in FileState
           /\ Size([fl EXCEPT !.place = place, !.kept = kept]) = Size(fl)
           /\ [fl EXCEPT !.synced = TRUE] \in FileState
           /\ Size([fl EXCEPT !.synced = TRUE]) = Size(fl)
  BY DEF FileState, Size

LEMMA NewFile ==
    /\ NoFile \in FileState /\ [NoFile EXCEPT !.place = "staging"] \in FileState
    /\ Size(NoFile) = 0 /\ Size([NoFile EXCEPT !.place = "staging"]) = 0
  <1>1. 0 \in 0..PerArtifact
    BY EvidenceAssumption
  <1>2. NoFile \in FileState /\ Size(NoFile) = 0
    BY <1>1 DEF NoFile, FileState, Size
  <1>3. QED
    BY <1>2, FileWritten

\* A byte more is within the reservation, wherever it went.
LEMMA ChunkWritten ==
    ASSUME NEW fl \in FileState, NEW r \in 0..PerArtifact, Size(fl) < r
    PROVE  /\ [fl EXCEPT !.bytes = @ + 1] \in FileState
           /\ Size([fl EXCEPT !.bytes = @ + 1]) <= r
           /\ [fl EXCEPT !.unwritten = @ + 1] \in FileState
           /\ Size([fl EXCEPT !.unwritten = @ + 1]) <= r
  <1>1. /\ fl.bytes \in 0..PerArtifact /\ fl.unwritten \in 0..PerArtifact
        /\ fl.bytes + fl.unwritten < r /\ r <= PerArtifact
    BY EvidenceAssumption DEF FileState, Size
  <1>2. /\ fl.bytes + 1 \in 0..PerArtifact /\ fl.unwritten + 1 \in 0..PerArtifact
        /\ (fl.bytes + 1) + fl.unwritten <= r /\ fl.bytes + (fl.unwritten + 1) <= r
    BY <1>1, EvidenceAssumption
  <1>3. QED
    BY <1>1, <1>2 DEF FileState, Size

LEMMA PutStep ==
    ASSUME QuotaInv, NEW g \in Grants, PutNext(g)
    PROVE  QuotaInv'
  <1>1. /\ grant[g] \in GrantRow /\ file[g] \in FileState /\ put[g] \in PutStage
        /\ inspecting[g] \in 0..MaxInspecting
        /\ file = [file EXCEPT ![g] = file[g]] /\ put = [put EXCEPT ![g] = put[g]]
        /\ inspecting = [inspecting EXCEPT ![g] = inspecting[g]]
        /\ artifact \in [Grants -> ArtifactRow] /\ lease \in LeaseRow
        /\ file \in [Grants -> FileState]
    BY DEF QuotaInv, TypeOK
  <1>2. UNCHANGED <<artifact, lease, inspecting>>
    BY DEF PutNext, OpenPut, StreamChunk, Overflow, InterruptOverflow, FlushPut, FinalizePut,
           FinalizeRefused, DropPut
  <1>3. grant[g].state # "none"
    BY DEF QuotaInv, QuotaAt, PutNext, OpenPut, StreamChunk, Overflow, InterruptOverflow, FlushPut,
           FinalizePut, FinalizeRefused, DropPut
  <1>4. \E r : Left(g, r) /\ grant' = [grant EXCEPT ![g] = r]
    <2>1. CASE InterruptOverflow(g)
      BY <2>1, Interrupted DEF InterruptOverflow
    <2>2. CASE FinalizePut(g)
      <3> DEFINE r == [grant[g] EXCEPT !.finalized = TRUE, !.bytes = Accepted(g)]
      <3>0. Accepted(g) \in 0..PerArtifact
        <4>1. Accepted(g) <= grant[g].reservation
          BY <2>2 DEF FinalizePut, QuotaInv, QuotaAt, Accepted, Size
        <4>2. QED
          BY <1>1, <4>1, EvidenceAssumption DEF GrantRow, FileState, Accepted
      <3>1. r \in GrantRow /\ r.reservation = grant[g].reservation /\ r.state = grant[g].state
        BY <1>1, <3>0 DEF GrantRow
      <3>2. grant' = [grant EXCEPT ![g] = r]
        BY <2>2 DEF FinalizePut
      <3>3. QED
        BY <3>1, <3>2 DEF Left
    <2>3. CASE UNCHANGED grant
      BY <2>3, Unchanged
    <2>4. QED
      BY <2>1, <2>2, <2>3
         DEF PutNext, OpenPut, StreamChunk, Overflow, FlushPut, FinalizeRefused, DropPut
  <1>5. \E p \in PutStage : put' = [put EXCEPT ![g] = p]
    <2>1. CASE UNCHANGED put
      BY <1>1, <2>1
    <2>2. CASE \E p \in {"idle", "streaming", "overflowed", "flushed"} : put' = [put EXCEPT ![g] = p]
      BY <2>2 DEF PutStage
    <2>3. QED
      BY <2>1, <2>2 DEF PutNext, OpenPut, StreamChunk, Overflow, InterruptOverflow, FlushPut,
         FinalizePut, FinalizeRefused, DropPut
  <1>6. \E fl \in FileState : /\ file' = [file EXCEPT ![g] = fl]
                              /\ grant[g].state = "in_progress" => Size(fl) <= grant[g].reservation
    <2>0. grant[g].state = "in_progress" => Size(file[g]) <= grant[g].reservation
      BY DEF QuotaInv, QuotaAt
    <2>1. CASE OpenPut(g)
      <3>1. 0 <= grant[g].reservation
        BY <1>1, EvidenceAssumption DEF GrantRow
      <3>2. file' = [file EXCEPT ![g] = [NoFile EXCEPT !.place = "staging"]]
        BY <2>1 DEF OpenPut
      <3>3. QED
        BY <3>1, <3>2, NewFile
    <2>2. CASE StreamChunk(g)
      <3>1. Size(file[g]) < grant[g].reservation /\ grant[g].reservation \in 0..PerArtifact
        BY <1>1, <2>2 DEF StreamChunk, Accepted, Size, GrantRow
      <3>2. \/ file' = [file EXCEPT ![g] = [file[g] EXCEPT !.bytes = @ + 1]]
            \/ file' = [file EXCEPT ![g] = [file[g] EXCEPT !.unwritten = @ + 1]]
        BY <2>2 DEF StreamChunk
      <3>3. QED
        BY <1>1, <3>1, <3>2, ChunkWritten
    <2>3. CASE FlushPut(g)
      <3>1. file' = [file EXCEPT ![g] = [file[g] EXCEPT !.synced = TRUE]]
        BY <1>1, <2>3 DEF FlushPut
      <3>2. QED
        BY <1>1, <2>0, <3>1, FileWritten
    <2>4. CASE FinalizePut(g) \/ FinalizeRefused(g)
      <3>1. file' = [file EXCEPT ![g] = [file[g] EXCEPT !.kept = "staging"]]
        BY <1>1, <2>4 DEF FinalizePut, FinalizeRefused
      <3>2. QED
        BY <1>1, <2>0, <3>1, FileWritten
    <2>5. CASE UNCHANGED file
      BY <1>1, <2>0, <2>5
    <2>6. QED
      BY <2>1, <2>2, <2>3, <2>4, <2>5 DEF PutNext, Overflow, InterruptOverflow, DropPut
  <1>7. PICK r : Left(g, r) /\ grant' = [grant EXCEPT ![g] = r]
    BY <1>4
  <1>8. PICK p \in PutStage : put' = [put EXCEPT ![g] = p]
    BY <1>5
  <1>9. PICK fl \in FileState : /\ file' = [file EXCEPT ![g] = fl]
                                /\ grant[g].state = "in_progress" => Size(fl) <= grant[g].reservation
    BY <1>6
  <1>10. PICK n \in 0..MaxInspecting : inspecting' = [inspecting EXCEPT ![g] = n]
    BY <1>1, <1>2
  <1>11. QED
    BY <1>1, <1>2, <1>3, <1>7, <1>8, <1>9, <1>10, OneUpload, QuotaKept

LEMMA CompleteStep ==
    ASSUME QuotaInv, NEW g \in Grants, CompleteNext(g)
    PROVE  QuotaInv'
  <1>1. /\ grant[g] \in GrantRow /\ file[g] \in FileState /\ put[g] \in PutStage
        /\ inspecting[g] \in 0..MaxInspecting
        /\ file = [file EXCEPT ![g] = file[g]] /\ put = [put EXCEPT ![g] = put[g]]
        /\ inspecting = [inspecting EXCEPT ![g] = inspecting[g]]
        /\ artifact \in [Grants -> ArtifactRow] /\ lease \in LeaseRow
        /\ file \in [Grants -> FileState]
    BY DEF QuotaInv, TypeOK
  <1>2. UNCHANGED <<put, lease>>
    BY DEF CompleteNext, InterruptMismatch, PublishArtifact, PublishWithoutRow, BeginInspection,
           CommitInspected, CommitRefused, InterruptInspected, InspectionEnds
  <1>3. grant[g].state # "none"
    BY <1>1, EvidenceAssumption
       DEF QuotaInv, QuotaAt, CompleteNext, InterruptMismatch, PublishArtifact, PublishWithoutRow,
           BeginInspection, CommitInspected, CommitRefused, InterruptInspected, InspectionEnds,
           Completable
  <1>4. /\ \E r : Left(g, r) /\ grant' = [grant EXCEPT ![g] = r]
        /\ artifact' \in [Grants -> ArtifactRow]
    <2>1. CASE MarkInterrupted(g) /\ UNCHANGED artifact
      BY <1>1, <2>1, Interrupted
    <2>2. CASE RecordPublication(g)
      BY <2>2, Recorded
    <2>3. CASE UNCHANGED <<grant, artifact>>
      BY <1>1, <2>3, Unchanged
    <2>4. QED
      BY <2>1, <2>2, <2>3
         DEF CompleteNext, InterruptMismatch, PublishArtifact, PublishWithoutRow, BeginInspection,
             CommitInspected, CommitRefused, InterruptInspected
  <1>5. \E n \in 0..MaxInspecting : inspecting' = [inspecting EXCEPT ![g] = n]
    <2>1. CASE UNCHANGED inspecting
      BY <1>1, <2>1
    <2>2. CASE BeginInspection(g)
      <3>1. inspecting[g] + 1 \in 0..MaxInspecting
        BY <1>1, <2>2, EvidenceAssumption DEF BeginInspection
      <3>2. QED
        BY <2>2, <3>1 DEF BeginInspection
    <2>3. CASE InspectionEnds(g)
      <3>1. inspecting[g] - 1 \in 0..MaxInspecting
        BY <1>1, <2>3, EvidenceAssumption DEF InspectionEnds
      <3>2. QED
        BY <2>3, <3>1 DEF InspectionEnds
    <2>4. QED
      BY <2>1, <2>2, <2>3
         DEF CompleteNext, InterruptMismatch, PublishArtifact, PublishWithoutRow,
             CommitInspected, CommitRefused, InterruptInspected
  <1>6. \E fl \in FileState : file' = [file EXCEPT ![g] = fl] /\ Size(fl) = Size(file[g])
    <2>1. CASE UNCHANGED file
      BY <1>1, <2>1
    <2>2. CASE PublishArtifact(g) \/ PublishWithoutRow(g)
      <3>1. PICK kept \in {"staging", "published"} :
              file' = [file EXCEPT ![g] = [file[g] EXCEPT !.place = "published", !.kept = kept]]
        BY <1>1, <2>2 DEF PublishArtifact, PublishWithoutRow
      <3> DEFINE fl == [file[g] EXCEPT !.place = "published", !.kept = kept]
      <3>2. fl \in FileState /\ Size(fl) = Size(file[g])
        BY <1>1, FileWritten
      <3>3. file' = [file EXCEPT ![g] = fl]
        BY <3>1
      <3> HIDE DEF fl
      <3>4. QED
        BY <3>2, <3>3
    <2>3. CASE CommitInspected(g) \/ CommitRefused(g)
      <3>1. PICK kept \in {file[g].kept, "published"} :
              file' = [file EXCEPT ![g] = [file[g] EXCEPT !.kept = kept]]
        BY <1>1, <2>3 DEF CommitInspected, CommitRefused
      <3>2. kept \in {"none", "staging", "published"}
        BY <1>1, <3>1 DEF FileState
      <3> DEFINE fl == [file[g] EXCEPT !.kept = kept]
      <3>3. fl \in FileState /\ Size(fl) = Size(file[g])
        BY <1>1, <3>2, FileWritten
      <3>4. file' = [file EXCEPT ![g] = fl]
        BY <3>1
      <3> HIDE DEF fl
      <3>5. QED
        BY <3>3, <3>4
    <2>4. QED
      BY <2>1, <2>2, <2>3 DEF CompleteNext, InterruptMismatch, BeginInspection, InterruptInspected
  <1>7. PICK r : Left(g, r) /\ grant' = [grant EXCEPT ![g] = r]
    BY <1>4
  <1>8. PICK n \in 0..MaxInspecting : inspecting' = [inspecting EXCEPT ![g] = n]
    BY <1>5
  <1>9. PICK fl \in FileState : file' = [file EXCEPT ![g] = fl] /\ Size(fl) = Size(file[g])
    BY <1>6
  <1>10. grant[g].state = "in_progress" => Size(fl) <= grant[g].reservation
    BY <1>9 DEF QuotaInv, QuotaAt
  <1>11. PICK p \in PutStage : put' = [put EXCEPT ![g] = p]
    BY <1>1, <1>2
  <1>12. QED
    BY <1>1, <1>2, <1>3, <1>4, <1>7, <1>8, <1>9, <1>10, <1>11, OneUpload, QuotaKept

\* A power failure only takes bytes away.
LEMMA LossStep ==
    ASSUME QuotaInv, ProcessCrash \/ PowerLoss
    PROVE  QuotaInv'
  <1>1. /\ grant \in [Grants -> GrantRow] /\ file \in [Grants -> FileState]
        /\ artifact \in [Grants -> ArtifactRow] /\ lease \in LeaseRow
    BY DEF QuotaInv, TypeOK
  <1>2. /\ UNCHANGED <<grant, artifact, lease>>
        /\ put' = [g \in Grants |-> "idle"] /\ inspecting' = [g \in Grants |-> 0]
    BY DEF ProcessCrash, PowerLoss
  <1>3. /\ file' \in [Grants -> FileState]
        /\ \A g \in Grants : /\ Size(file'[g]) <= Size(file[g])
                             /\ file[g] = NoFile => file'[g] = NoFile
    <2>1. CASE ProcessCrash
      BY <1>1, <2>1, EvidenceAssumption DEF ProcessCrash, FileState, Size
    <2>2. CASE PowerLoss
      <3>1. PICK undone \in SUBSET {g \in Grants : file[g].kept # file[g].place},
                 cut \in [{g \in Grants : file[g].place # "none" /\ ~file[g].synced}
                            -> 0..PerArtifact] :
              file' = [g \in Grants |->
                         LeftAfterPowerLoss(file[g], g \in undone,
                                            IF g \in DOMAIN cut THEN cut[g] ELSE 0)]
        BY <2>2 DEF PowerLoss
      <3>2. ASSUME NEW fl \in FileState, NEW u \in BOOLEAN, NEW n \in 0..PerArtifact
            PROVE  /\ LeftAfterPowerLoss(fl, u, n) \in FileState
                   /\ Size(LeftAfterPowerLoss(fl, u, n)) <= Size(fl)
                   /\ fl = NoFile => LeftAfterPowerLoss(fl, u, n) = NoFile
        <4> DEFINE place == IF u THEN fl.kept ELSE fl.place
                   left == IF fl.synced THEN fl.bytes ELSE Smaller(fl.bytes, n)
                   rest == [place |-> place, kept |-> place, bytes |-> left,
                            unwritten |-> fl.unwritten, synced |-> TRUE]
        <4>1. place \in {"none", "staging", "published"} /\ (fl = NoFile => place = "none")
          BY DEF FileState, NoFile
        <4>2. left \in 0..PerArtifact /\ left <= fl.bytes
          BY EvidenceAssumption DEF FileState, Smaller
        <4> HIDE DEF place, left
        <4>3. rest \in FileState /\ Size(rest) = left + fl.unwritten
          BY <4>1, <4>2 DEF FileState, Size
        <4>4. LeftAfterPowerLoss(fl, u, n) = IF place = "none" THEN NoFile ELSE rest
          BY DEF LeftAfterPowerLoss, place, left
        <4>5. 0 <= Size(fl) /\ left + fl.unwritten <= Size(fl)
          BY <4>2, EvidenceAssumption DEF FileState, Size
        <4> HIDE DEF rest
        <4>6. QED
          BY <4>1, <4>2, <4>3, <4>4, <4>5, NewFile
      <3>3. \A g \in Grants : (IF g \in DOMAIN cut THEN cut[g] ELSE 0) \in 0..PerArtifact
        BY <3>1, EvidenceAssumption
      <3>4. \A g \in Grants : \E u \in BOOLEAN, n \in 0..PerArtifact :
              file'[g] = LeftAfterPowerLoss(file[g], u, n)
        <4> SUFFICES ASSUME NEW g \in Grants
                     PROVE  \E u \in BOOLEAN, n \in 0..PerArtifact :
                              file'[g] = LeftAfterPowerLoss(file[g], u, n)
          OBVIOUS
        <4>1. PICK u : u = (g \in undone)
          OBVIOUS
        <4>2. PICK n : n = IF g \in DOMAIN cut THEN cut[g] ELSE 0
          OBVIOUS
        <4>3. u \in BOOLEAN
          BY <4>1
        <4>4. n \in 0..PerArtifact
          BY <3>3, <4>2
        <4>5. file'[g] = LeftAfterPowerLoss(file[g], u, n)
          BY <3>1, <4>1, <4>2
        <4>6. QED
          BY <4>3, <4>4, <4>5
      <3>5. DOMAIN file' = Grants /\ file' = [g \in Grants |-> file'[g]]
        BY <3>1
      <3>6. QED
        BY <1>1, <3>2, <3>4, <3>5
    <2>3. QED
      BY <2>1, <2>2
  <1>4. put' \in [Grants -> PutStage] /\ inspecting' \in [Grants -> 0..MaxInspecting]
    BY <1>2, EvidenceAssumption DEF PutStage
  <1>5. TypeOK'
    BY <1>1, <1>2, <1>3, <1>4 DEF TypeOK
  <1>6. InProgress' = InProgress /\ Reserved' = Reserved
    BY <1>2 DEF InProgress, Reserved
  <1>7. \A g \in Grants : QuotaAt(g)'
    <2> SUFFICES ASSUME NEW g \in Grants PROVE QuotaAt(g)'
      OBVIOUS
    <2>1. /\ Size(file[g]) \in Nat /\ Size(file'[g]) \in Nat /\ grant[g].reservation \in Nat
      BY <1>1, <1>3, EvidenceAssumption DEF FileState, GrantRow, Size
    <2>2. QED
      BY <1>2, <1>3, <2>1 DEF QuotaInv, QuotaAt
  <1>8. QED
    BY <1>5, <1>6, <1>7 DEF QuotaInv

LEMMA LeaseStep ==
    ASSUME QuotaInv, LeaseNext
    PROVE  QuotaInv'
  <1>1. UNCHANGED <<grant, artifact, file, put, inspecting>> /\ lease \in LeaseRow
    BY DEF LeaseNext, GrantLease, LoseLease, AppendEvent, CompleteRun, QuotaInv, TypeOK
  <1>2. lease' \in LeaseRow
    BY <1>1, EvidenceAssumption
       DEF LeaseNext, GrantLease, LoseLease, AppendEvent, CompleteRun, LeaseRow
  <1>3. InProgress' = InProgress /\ Reserved' = Reserved
    BY <1>1 DEF InProgress, Reserved
  <1>4. QED
    BY <1>1, <1>2, <1>3 DEF QuotaInv, TypeOK, QuotaAt

LEMMA QuotaInit == Init => QuotaInv
  <1> SUFFICES ASSUME Init PROVE QuotaInv
    OBVIOUS
  <1>1. InProgress = {}
    BY DEF Init, InProgress, NoGrant
  <1>2. Reserved = 0
    BY <1>1, SumEmpty DEF Reserved
  <1>3. NoGrant \in GrantRow /\ NoFile \in FileState
    BY NewFile, EvidenceAssumption DEF NoGrant, GrantRow
  <1>4. /\ [stored |-> FALSE, bytes |-> 0] \in ArtifactRow
        /\ [fence |-> 0, event |-> 0, state |-> "lost"] \in LeaseRow
        /\ 0 \in 0..MaxInspecting
    BY EvidenceAssumption DEF ArtifactRow, LeaseRow
  <1>5. TypeOK
    BY <1>3, <1>4 DEF Init, TypeOK, PutStage
  <1>6. \A g \in Grants : QuotaAt(g)
    BY DEF Init, QuotaAt, NoGrant
  <1>7. QED
    BY <1>1, <1>2, <1>5, <1>6, FS_EmptySet, EvidenceAssumption DEF QuotaInv

LEMMA QuotaInvariant == Spec => []QuotaInv
  <1>1. QuotaInv /\ [Next]_vars => QuotaInv'
    <2> SUFFICES ASSUME QuotaInv, [Next]_vars PROVE QuotaInv'
      OBVIOUS
    <2>1. CASE LeaseNext
      BY <2>1, LeaseStep
    <2>2. CASE ProcessCrash \/ PowerLoss
      BY <2>2, LossStep
    <2>3. CASE UNCHANGED vars
      <3>1. InProgress' = InProgress /\ Reserved' = Reserved
        BY <2>3 DEF vars, InProgress, Reserved
      <3>2. QED
        BY <2>3, <3>1 DEF vars, QuotaInv, TypeOK, QuotaAt
    <2>4. CASE \E g \in Grants : \/ \E slot \in 1..MaxSlot : AdmitEvidenceGrant(g, slot)
                                 \/ PutNext(g)
                                 \/ CompleteNext(g)
      BY <2>4, Admission, PutStep, CompleteStep
    <2>5. QED
      BY <2>1, <2>2, <2>3, <2>4 DEF Next
  <1>2. QED
    BY <1>1, QuotaInit, PTL DEF Spec

\* The rows, the files and the requests keep their types, the clamped
\* reservation included.
THEOREM TypeCorrect == Spec => []TypeOK
  <1>1. QuotaInv => TypeOK
    BY DEF QuotaInv
  <1>2. QED
    BY <1>1, QuotaInvariant, PTL

\* However admissions, streams, ends of uploads and crashes interleave, the
\* files of the uploads in progress stay within the staging quota
\* (admitEvidenceGrant, handlePut).
THEOREM StagingStaysWithinQuota == Spec => []StagedBytesWithinQuota
  <1>1. QuotaInv => StagedBytesWithinQuota
    <2> SUFFICES ASSUME QuotaInv PROVE StagedBytesWithinQuota
      OBVIOUS
    <2> DEFINE Bytes == [g \in Grants |-> file[g].bytes]
    <2>1. \A g \in InProgress : /\ Bytes[g] \in Nat /\ Reservations[g] \in Nat
                                /\ Bytes[g] <= Reservations[g]
      BY EvidenceAssumption
         DEF QuotaInv, QuotaAt, TypeOK, FileState, GrantRow, InProgress, Reservations, Size
    <2>2. IsFiniteSet(InProgress) /\ SumFunctionOnSet(Reservations, InProgress) <= MaxStaging
      BY DEF QuotaInv, Reserved, Reservations
    <2> HIDE DEF Bytes
    <2>3. /\ SumFunctionOnSet(Bytes, InProgress) <= SumFunctionOnSet(Reservations, InProgress)
          /\ SumFunctionOnSet(Bytes, InProgress) \in Nat
          /\ SumFunctionOnSet(Reservations, InProgress) \in Nat
      BY <2>1, <2>2, SumLess, SumType
    <2>4. QED
      BY <2>2, <2>3, EvidenceAssumption DEF StagedBytesWithinQuota, Bytes
  <1>2. QED
    BY <1>1, QuotaInvariant, PTL
=============================================================================
