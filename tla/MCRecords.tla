----------------------------- MODULE MCRecords -----------------------------
(***************************************************************************)
(* The start of an engagement and its records for TLC: notes under their   *)
(* editors, evidence images under their view, leads.  They share no state, *)
(* so a behaviour moves only one of them: the run explores the sum of      *)
(* their state spaces and not the product.                                 *)
(***************************************************************************)
EXTENDS Naturals, TLC

CONSTANTS Tabs, Texts, NoDraft, NoNotes, NoText, MaxRevision, MaxInFlight,
          Engagements, Numbers, MaxVersion, MaxOps, MaxReads,
          Leads, Attempts, Reasons, Conditions, MaxMoves,
          Targets, MaxRevisions, MaxSubmits, MaxAtOnce, MaxLate, None

VARIABLES notes, cache, editor, load, recovery, saves,
          stored, here, rows, loadError, opSeq, marks, reads, writes,
          archived, lead, attempt, moves,
          engagements, commands, scans, late, dialog, runs, resets, submits,
          part    \* the part that moves

N == INSTANCE NotesEditor WITH Empty <- NoDraft
A == INSTANCE Attachments
L == INSTANCE Leads
S == INSTANCE StartEngagement WITH stored <- commands

ASSUME RecordsAssumption == MaxRevisions \in Nat /\ None \notin S!Rows

notesVars == <<notes, cache, editor, load, recovery, saves>>
imageVars == <<stored, here, rows, loadError, opSeq, marks, reads, writes>>
leadVars == <<archived, lead, attempt, moves>>
startVars == <<engagements, commands, scans, late, dialog, runs, resets, submits>>
vars == <<notesVars, imageVars, leadVars, startVars, part>>

Init ==
    /\ N!Init /\ A!Init /\ L!Init /\ S!Init
    /\ part \in {"notes", "images", "leads", "start"}
    /\ part # "images" => here = CHOOSE e \in Engagements : TRUE

Next ==
    \/ part = "notes" /\ N!Next /\ UNCHANGED <<imageVars, leadVars, startVars, part>>
    \/ part = "images" /\ A!Next /\ UNCHANGED <<notesVars, leadVars, startVars, part>>
    \/ part = "leads" /\ L!Next /\ UNCHANGED <<notesVars, imageVars, startVars, part>>
    \/ part = "start" /\ S!Next /\ UNCHANGED <<notesVars, imageVars, leadVars, part>>

Spec == Init /\ [][Next]_vars

Symmetry == Permutations(Texts)

NoSilentOverwrite == N!NoSilentOverwrite
DraftIsKept == N!DraftIsKept
ReadKeepsOwnWrites == A!ReadKeepsOwnWrites
RevisitCitesThisParking == L!RevisitCitesThisParking
RepeatsWereHeard == S!RepeatsWereHeard
RetainedPairWasReal == S!RetainedPairWasReal
=============================================================================
