------------------------------- MODULE Leads -------------------------------
(***************************************************************************)
(* The leads of one engagement, their attempts and the quiet suggestion to *)
(* revisit a parked one (packages/db leads.ts over packages/domain         *)
(* leads.ts).  Each handler is one synchronous step of the control plane;  *)
(* what can go wrong is a long sequence of legal calls.  Reasons and tested*)
(* conditions are members of small sets; a condition is already normalised *)
(* (trimmed, spaces joined, lower case).                                   *)
(***************************************************************************)
EXTENDS Naturals, FiniteSets, FiniteSetsExt

CONSTANTS
    Leads,
    Attempts,
    Reasons,        \* why a lead was parked
    Conditions,     \* what was tested, or would be
    None,           \* no reason, condition, suggestion or lead
    MaxMoves        \* bound: times attempts are recorded or attached

VARIABLES
    archived,   \* whether the engagement is archived
    lead,       \* the lead rows
    attempt,    \* the attempt rows
    moves       \* how often an attempt arrived at a lead

vars == <<archived, lead, attempt, moves>>

NoLead == [disposition |-> "none", parkReason |-> None, tested |-> None, revisit |-> None]
OpenLead == [NoLead EXCEPT !.disposition = "open"]

Unrecorded == [lead |-> None, sequence |-> 0]   \* an attempt under no lead

Init ==
    /\ archived = FALSE
    /\ lead = [l \in Leads |-> NoLead]
    /\ attempt = [a \in Attempts |-> Unrecorded]
    /\ moves = 0

Exists(l) == lead[l].disposition # "none"

Of(l) == {a \in Attempts : attempt[a].lead = l}

-----------------------------------------------------------------------------
CreateLead(l) ==
    /\ ~archived
    /\ ~Exists(l)
    /\ lead' = [lead EXCEPT ![l] = OpenLead]
    /\ UNCHANGED <<archived, attempt, moves>>

ParkLead(l, reason, conditions) ==
    /\ ~archived
    /\ lead[l].disposition = "open"
    /\ lead' = [lead EXCEPT ![l].disposition = "parked",
                            ![l].parkReason = reason, ![l].tested = conditions]
    /\ UNCHANGED <<archived, attempt, moves>>

\* Reopening and closing both clear the parking and its suggestion.
ReopenedSlip(r) == [r EXCEPT !.disposition = "open", !.parkReason = None, !.tested = None]
Reopened(r) == OpenLead

ReopenLead(l) ==
    /\ ~archived
    /\ lead[l].disposition \in {"parked", "closed"}
    /\ lead' = [lead EXCEPT ![l] = Reopened(@)]
    /\ UNCHANGED <<archived, attempt, moves>>

CloseLead(l) ==
    /\ ~archived
    /\ lead[l].disposition \in {"open", "parked"}
    /\ lead' = [lead EXCEPT ![l] = [NoLead EXCEPT !.disposition = "closed"]]
    /\ UNCHANGED <<archived, attempt, moves>>

\* What suppresses a suggestion: the lead is not parked, one is outstanding,
\* or the same anonymous check was already made.
Suppressed(l, anonymous, conditions) ==
    \/ lead[l].disposition # "parked"
    \/ lead[l].revisit # None /\ ~lead[l].revisit.dismissed
    \/ anonymous /\ conditions # None /\ conditions = lead[l].tested

SuggestRevisit(l, anonymous, conditions) ==
    /\ ~archived
    /\ Exists(l)
    /\ ~Suppressed(l, anonymous, conditions)
    /\ lead' = [lead EXCEPT ![l].revisit =
          [cites |-> lead[l].parkReason, dismissed |-> FALSE]]
    /\ UNCHANGED <<archived, attempt, moves>>

DismissRevisit(l) ==
    /\ ~archived
    /\ lead[l].revisit # None
    /\ lead' = [lead EXCEPT ![l].revisit.dismissed = TRUE]
    /\ UNCHANGED <<archived, attempt, moves>>

-----------------------------------------------------------------------------
\* One past the greatest sequence of the lead's attempts, not their number:
\* attaching moves attempts away and leaves gaps.
NextAttemptSequence(l) == Max({attempt[a].sequence : a \in Of(l)} \cup {0}) + 1

Arrives(a, l) ==
    /\ moves < MaxMoves
    /\ moves' = moves + 1
    /\ attempt' = [attempt EXCEPT ![a] =
          [lead |-> l, sequence |-> NextAttemptSequence(l)]]
    /\ UNCHANGED <<archived, lead>>

RecordAttempt(a, l) ==
    /\ ~archived
    /\ Exists(l)
    /\ attempt[a].lead = None
    /\ Arrives(a, l)

\* Onto any lead of the engagement, its own included.
AttachAttempt(a, l) ==
    /\ ~archived
    /\ Exists(l)
    /\ attempt[a].lead # None
    /\ Arrives(a, l)

SetArchived ==
    /\ archived' = ~archived
    /\ UNCHANGED <<lead, attempt, moves>>

Next ==
    \/ SetArchived
    \/ \E l \in Leads :
         \/ CreateLead(l) \/ ReopenLead(l) \/ CloseLead(l) \/ DismissRevisit(l)
         \/ \E reason \in Reasons, c \in Conditions \cup {None} : ParkLead(l, reason, c)
         \/ \E anonymous \in BOOLEAN, c \in Conditions \cup {None} :
              SuggestRevisit(l, anonymous, c)
         \/ \E a \in Attempts : RecordAttempt(a, l) \/ AttachAttempt(a, l)

Spec == Init /\ [][Next]_vars

-----------------------------------------------------------------------------
TypeOK ==
    /\ archived \in BOOLEAN
    /\ lead \in [Leads ->
         [disposition : {"none", "open", "parked", "closed"},
          parkReason : Reasons \cup {None}, tested : Conditions \cup {None},
          revisit : [cites : Reasons \cup {None}, dismissed : BOOLEAN] \cup {None}]]
    /\ attempt \in [Attempts -> [lead : Leads \cup {None}, sequence : Nat]]
    /\ moves \in Nat

\* A suggestion to revisit, shown or dismissed, belongs to the parking it
\* cites: it never outlives a reopening or a close to be read beside another
\* reason (leads.ts:288, and the citation at :352).
RevisitCitesThisParking ==
    \A l \in Leads :
        lead[l].revisit # None =>
            /\ lead[l].disposition = "parked"
            /\ lead[l].revisit.cites = lead[l].parkReason
=============================================================================
