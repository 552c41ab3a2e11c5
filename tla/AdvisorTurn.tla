---------------------------- MODULE AdvisorTurn -----------------------------
(***************************************************************************)
(* Advisor turns: a question about recorded evidence is put to a model     *)
(* provider outside, once per idempotency key, while its requester may     *)
(* hang up, ask again, or ask something else under the same key, and while *)
(* the Engagement may be archived and the process may restart.             *)
(*                                                                         *)
(* A request is four stretches of code between the points where it waits:  *)
(* its arrival (early replay), the assembly of its context, the reservation*)
(* that ends in the call of the provider, and the answer.  Within a        *)
(* stretch nothing else runs.                                              *)
(***************************************************************************)
EXTENDS Naturals, FiniteSets

CONSTANTS
    Requests,       \* requests under way at one time
    Keys,           \* idempotency keys
    Questions,      \* what a key's request digest tells apart
    ExpiryTicks,    \* ADVISOR_TURN_EXPIRY_MS
    CleanupLimit    \* ADVISOR_TURN_EXPIRY_CLEANUP_LIMIT

ASSUME AdvisorAssumption ==
    /\ IsFiniteSet(Keys) /\ Keys # {} /\ Questions # {}
    /\ ExpiryTicks \in Nat \ {0} /\ CleanupLimit \in Nat \ {0}

VARIABLES
    archived,   \* of the Engagement
    turns,      \* key -> its row of advisor_turns
    calls,      \* key -> times the provider was called for it
    req,        \* the requests
    said        \* the answer this step gave, with the question it answers

vars == <<archived, turns, calls, req, said>>

Terminal == {"succeeded", "parse_error", "provider_error", "cancelled", "expired"}
Statuses == {"none", "pending"} \cup Terminal
Errors == {"none", "engagement_archived", "idempotency_conflict", "turn_in_progress",
           "refused", "storage_busy", "internal"}

AnyQuestion == CHOOSE q \in Questions : TRUE
NoRow == [status |-> "none", question |-> AnyQuestion, age |-> 0]
AnyKey == CHOOSE k \in Keys : TRUE
Idle == [at |-> "idle", key |-> AnyKey, question |-> AnyQuestion, gone |-> FALSE]

\* An answer carries a turn or an error.
TurnOf(row) == [status |-> row.status, question |-> row.question]
ErrorOf(code) == [status |-> code, question |-> AnyQuestion]
Silence == [status |-> "none", question |-> AnyQuestion, asked |-> AnyQuestion]

Ages == 0..(ExpiryTicks + 1)
Rows == [status : Statuses, question : Questions, age : Ages]
Answers == [status : Terminal \cup Errors, question : Questions, asked : Questions]

TypeOK ==
    /\ archived \in BOOLEAN
    /\ turns \in [Keys -> Rows]
    /\ calls \in [Keys -> Nat]
    /\ req \in [Requests -> [at : {"idle", "assembling", "calling"}, key : Keys,
                             question : Questions, gone : BOOLEAN]]
    /\ said \in Answers

Init ==
    /\ archived = FALSE
    /\ turns = [k \in Keys |-> NoRow]
    /\ calls = [k \in Keys |-> 0]
    /\ req = [r \in Requests |-> Idle]
    /\ said = Silence

-----------------------------------------------------------------------------
(* The rows (packages/db/src/advisor-turns.ts).                            *)

IsStale(row) == row.status = "pending" /\ row.age > ExpiryTicks
Stale == {k \in Keys : IsStale(turns[k])}

\* Slip: nothing is expired before the row is read again.
SweepSlip(S) == S = {}

\* expireStalePendingTx takes the oldest stale rows, up to a limit.
Sweep(S) ==
    /\ S \subseteq Stale
    /\ Cardinality(S) <= CleanupLimit
    /\ S # Stale => Cardinality(S) = CleanupLimit

Expired(S) == [k \in Keys |-> IF k \in S THEN [turns[k] EXCEPT !.status = "expired"] ELSE turns[k]]

\* Slip: an expired turn gives its key back.
TakenSlip(row) == row.status \notin {"none", "expired"}

Taken(row) == row.status # "none"

SameRequest(row, q) == row.question = q

\* What a request that finds a row of its key is answered.
Replayed(row, q) ==
    IF ~SameRequest(row, q) THEN ErrorOf("idempotency_conflict")
    ELSE IF row.status = "pending" THEN ErrorOf("turn_in_progress")
    ELSE TurnOf(row)

Open(row) == row.status = "pending"

\* Slip: the Engagement was active when the question was asked.
ClosedToAnswersSlip == FALSE

ClosedToAnswers == archived

\* completeTurn: an archived Engagement turns the answer away, an expired row
\* expires here at the latest, and only a pending row takes the outcome.
Completed(row, outcome) ==
    [row EXCEPT !.status =
        IF ClosedToAnswers THEN (IF @ = "pending" THEN "cancelled" ELSE @)
        ELSE IF IsStale(row) THEN "expired"
        ELSE IF Open(row) THEN outcome ELSE @]

\* What the requester is told: the outcome, the row as an archived Engagement
\* or the expiry left it, or that the row is no longer pending.
CompletionReply(row, outcome) ==
    IF archived \/ row.status \in {"pending", "expired"} THEN TurnOf(Completed(row, outcome))
    ELSE ErrorOf("internal")

-----------------------------------------------------------------------------
(* The route (apps/api/src/advisor/advisor-turn-routes.ts).                *)

\* The request ends; a requester that hung up hears nothing.
Answer(r, message, q) ==
    /\ req' = [req EXCEPT ![r] = Idle]
    /\ said' = IF req[r].gone THEN Silence
               ELSE [status |-> message.status, question |-> message.question, asked |-> q]

\* Early replay: a row of this key answers at once, a pending one after stale
\* rows are expired.
Arrive(r, k, q) ==
    /\ req[r].at = "idle"
    /\ ~archived
    /\ \/ /\ ~Taken(turns[k])
          /\ req' = [req EXCEPT ![r] = [at |-> "assembling", key |-> k, question |-> q,
                                        gone |-> FALSE]]
          /\ UNCHANGED turns /\ said' = Silence
       \/ /\ Taken(turns[k]) /\ (turns[k].status # "pending" \/ ~SameRequest(turns[k], q))
          /\ Answer(r, Replayed(turns[k], q), q)
          /\ UNCHANGED turns
       \/ /\ turns[k].status = "pending" /\ SameRequest(turns[k], q)
          /\ \E S \in SUBSET Keys :
               /\ Sweep(S)
               /\ turns' = Expired(S)
               /\ Answer(r, Replayed(turns'[k], q), q)
    /\ UNCHANGED <<archived, calls>>

\* Nothing is looked at in an archived Engagement; the advisor is not set up;
\* or the database is busy.
ArriveInVain(r) ==
    /\ req[r].at = "idle"
    /\ Answer(r, ErrorOf(IF archived THEN "engagement_archived" ELSE "refused"), AnyQuestion)
    /\ UNCHANGED <<archived, turns, calls>>

\* The context could not be put together, or the requester is gone by then.
AssemblyFails(r) ==
    /\ req[r].at = "assembling"
    /\ Answer(r, ErrorOf("refused"), req[r].question)
    /\ UNCHANGED <<archived, turns, calls>>

\* reserveOrReplay in one transaction, and the call of the provider by the
\* request whose row it is.
Reserve(r) ==
    LET k == req[r].key IN
    /\ req[r].at = "assembling" /\ ~req[r].gone
    /\ \/ /\ archived
          /\ Answer(r, ErrorOf("engagement_archived"), req[r].question)
          /\ UNCHANGED <<turns, calls>>
       \/ /\ ~archived
          /\ \E S \in SUBSET Keys :
               /\ Sweep(S)
               /\ IF Taken(Expired(S)[k])
                  THEN /\ turns' = Expired(S)
                       /\ Answer(r, Replayed(Expired(S)[k], req[r].question),
                                 req[r].question)
                       /\ UNCHANGED calls
                  ELSE /\ turns' = [Expired(S) EXCEPT ![k] =
                                      [status |-> "pending", question |-> req[r].question,
                                       age |-> 0]]
                       /\ calls' = [calls EXCEPT ![k] = @ + 1]
                       /\ req' = [req EXCEPT ![r].at = "calling"]
                       /\ said' = Silence
    /\ UNCHANGED archived

\* What comes of the call: the provider's words pass or fail the schema, the
\* transport fails or runs into its deadline, or the requester has hung up.
Outcomes(r) ==
    IF req[r].gone THEN {"cancelled"} ELSE {"succeeded", "parse_error", "provider_error"}

Finish(r) ==
    LET k == req[r].key IN
    /\ req[r].at = "calling"
    /\ \E outcome \in Outcomes(r) :
         /\ turns' = [turns EXCEPT ![k] = Completed(@, outcome)]
         /\ Answer(r, CompletionReply(turns[k], outcome), req[r].question)
    /\ UNCHANGED <<archived, calls>>

\* The transaction cannot start: the outcome is lost and the row stays.
Busy(r) ==
    /\ req[r].at # "idle"
    /\ Answer(r, ErrorOf("storage_busy"), req[r].question)
    /\ UNCHANGED <<archived, turns, calls>>

\* The connection closes before the answer.
HangUp(r) ==
    /\ req[r].at # "idle" /\ ~req[r].gone
    /\ req' = [req EXCEPT ![r].gone = TRUE]
    /\ said' = Silence
    /\ UNCHANGED <<archived, turns, calls>>

Tick ==
    /\ \E k \in Keys : turns[k].status = "pending" /\ ~IsStale(turns[k])
    /\ turns' = [k \in Keys |->
                   IF turns[k].status = "pending" /\ ~IsStale(turns[k])
                   THEN [turns[k] EXCEPT !.age = @ + 1] ELSE turns[k]]
    /\ said' = Silence
    /\ UNCHANGED <<archived, calls, req>>

SetArchived ==
    /\ archived' = ~archived
    /\ said' = Silence
    /\ UNCHANGED <<turns, calls, req>>

\* The control plane restarts: its requests are gone, the rows are not.
Crash ==
    /\ \E r \in Requests : req[r].at # "idle"
    /\ req' = [r \in Requests |-> Idle]
    /\ said' = Silence
    /\ UNCHANGED <<archived, turns, calls>>

Next ==
    \/ \E r \in Requests :
         \/ \E k \in Keys, q \in Questions : Arrive(r, k, q)
         \/ ArriveInVain(r) \/ AssemblyFails(r) \/ Reserve(r) \/ Finish(r) \/ Busy(r) \/ HangUp(r)
    \/ Tick \/ SetArchived \/ Crash

Spec == Init /\ [][Next]_vars

\* The client of a pending turn retries it.
Retry(k) == \E r \in Requests : turns[k].status = "pending" /\ Arrive(r, k, turns[k].question)

FairSpec ==
    /\ Spec
    /\ WF_vars(Tick)
    /\ \A r \in Requests : WF_vars(Finish(r)) /\ WF_vars(AssemblyFails(r) \/ Reserve(r))
    /\ \A k \in Keys : SF_vars(Retry(k))

-----------------------------------------------------------------------------
(* Properties.                                                             *)

\* However often and however concurrently a key is sent, before and after its
\* turn expires and across restarts, the provider is called for it once.
OneCallPerKey == \A k \in Keys : calls[k] <= 1

\* Terminal rows never change: an answer that comes after its turn expired or
\* was cancelled is not stored.
TurnIsFinal ==
    [][\A k \in Keys : turns[k].status \in Terminal => turns'[k] = turns[k]]_vars

\* Whoever is answered with a turn is answered with the turn of the question
\* that was asked, also when another question was sent under its key.
AnswersTheQuestion == said.status \in Terminal => said.question = said.asked

\* No model output is stored in an Engagement that was archived meanwhile.
NothingStoredOnceArchived ==
    [][\A k \in Keys : turns'[k].status \in {"succeeded", "parse_error", "provider_error"}
                         /\ turns'[k] # turns[k] => ~archived]_vars

\* A turn that a dead request left pending does not block its key for ever:
\* as long as its client asks again it ends, unless the Engagement is archived.
PendingTurnEnds ==
    \A k \in Keys : [](turns[k].status = "pending" => <>(turns[k].status # "pending" \/ archived))
=============================================================================
