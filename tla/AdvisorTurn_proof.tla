------------------------- MODULE AdvisorTurn_proof -------------------------
(***************************************************************************)
(* Advisor turns, for any number of requests, keys and questions: a key    *)
(* pays for one call of the provider, and a turn that has ended stays as   *)
(* it is.  The invariant counts the calls by the row they leave, and ties  *)
(* the request that waits for the provider to the row it reserved.         *)
(***************************************************************************)
EXTENDS AdvisorTurn, TLAPS

\* A key has been called for once if it has a row, and not yet if it has none.
CallsMatchRows == \A k \in Keys : calls[k] = IF turns[k].status = "none" THEN 0 ELSE 1

\* Whoever calls the provider holds the row of its own question.
CallerHasRow ==
    \A r \in Requests : req[r].at = "calling" =>
        /\ turns[req[r].key].status # "none"
        /\ turns[req[r].key].question = req[r].question

IInv == TypeOK /\ CallsMatchRows /\ CallerHasRow /\ AnswersTheQuestion

\* What every step does to the rows: one appears with its call, or a pending
\* one keeps its question and takes words of the model only while the
\* Engagement is active.
RowStep ==
    \A k \in Keys :
        \/ turns'[k] = turns[k]
        \/ turns[k].status = "none" /\ turns'[k].status = "pending"
        \/ turns[k].status = "pending" /\ turns'[k].status # "none"
             /\ turns'[k].question = turns[k].question
             /\ (turns'[k].status \in {"succeeded", "parse_error", "provider_error"} => ~archived)

USE DEF Terminal, Statuses, Errors, Silence, Idle

LEMMA Chosen == AnyQuestion \in Questions /\ AnyKey \in Keys
  BY AdvisorAssumption, Zenon DEF AnyQuestion, AnyKey

LEMMA AgesNat == ExpiryTicks \in Nat /\ 0 \in Ages /\ (\A a \in Ages : a <= ExpiryTicks => a + 1 \in Ages)
  BY AdvisorAssumption DEF Ages

\* Expiring stale rows only turns pending into expired.
LEMMA ExpiredRows ==
  ASSUME TypeOK, NEW S \in SUBSET Keys, Sweep(S)
  PROVE  /\ Expired(S) \in [Keys -> Rows]
         /\ \A k \in Keys : /\ Expired(S)[k].question = turns[k].question
                            /\ \/ Expired(S)[k] = turns[k]
                               \/ turns[k].status = "pending" /\ Expired(S)[k].status = "expired"
  BY DEF TypeOK, Rows, Sweep, Stale, IsStale, Expired

LEMMA CompletedRow ==
  ASSUME NEW row \in Rows, NEW outcome \in {"succeeded", "parse_error", "provider_error", "cancelled"}
  PROVE  /\ Completed(row, outcome) \in Rows
         /\ Completed(row, outcome).question = row.question
         /\ row.status # "pending" => Completed(row, outcome) = row
         /\ row.status = "pending" => Completed(row, outcome).status \in Terminal
         /\ archived /\ row.status = "pending" => Completed(row, outcome).status = "cancelled"
  BY DEF Rows, Completed, ClosedToAnswers, Open, IsStale

LEMMA AnswerTyped ==
  ASSUME TypeOK, NEW r \in Requests, NEW q \in Questions,
         NEW m \in [status : Terminal \cup Errors, question : Questions],
         m.status \in Terminal => m.question = q,
         Answer(r, m, q)
  PROVE  /\ said' \in Answers
         /\ req' \in [Requests -> [at : {"idle", "assembling", "calling"}, key : Keys,
                             question : Questions, gone : BOOLEAN]]
         /\ AnswersTheQuestion'
         /\ \A s \in Requests : req'[s].at = "calling" => req'[s] = req[s]
  BY Chosen DEF TypeOK, Answers, Answer, AnswersTheQuestion

LEMMA ErrorTyped ==
  ASSUME NEW code \in Errors
  PROVE  /\ ErrorOf(code) \in [status : Terminal \cup Errors, question : Questions]
         /\ ErrorOf(code).status \notin Terminal
  BY Chosen DEF ErrorOf

\* A replay speaks of the question asked, or carries an error.
LEMMA ReplayTyped ==
  ASSUME NEW row \in Rows, NEW q \in Questions, row.status # "none"
  PROVE  /\ Replayed(row, q) \in [status : Terminal \cup Errors, question : Questions]
         /\ Replayed(row, q).status \in Terminal => Replayed(row, q).question = q
  BY Chosen DEF Rows, Replayed, SameRequest, ErrorOf, TurnOf

LEMMA InitOK == Init => IInv
<1> SUFFICES ASSUME Init PROVE IInv  OBVIOUS
<1>1. archived \in BOOLEAN  BY DEF Init
<1>2. turns \in [Keys -> Rows] /\ calls \in [Keys -> Nat]
  BY Chosen, AgesNat DEF Init, NoRow, Rows
<1>3. /\ req \in [Requests -> [at : {"idle", "assembling", "calling"}, key : Keys,
                                question : Questions, gone : BOOLEAN]]
      /\ said \in Answers /\ AnswersTheQuestion
  BY Chosen DEF Init, Answers, AnswersTheQuestion
<1>4. CallsMatchRows /\ CallerHasRow  BY DEF Init, NoRow, CallsMatchRows, CallerHasRow
<1> QED BY <1>1, <1>2, <1>3, <1>4 DEF IInv, TypeOK

\* A step that leaves the rows alone and answers with an error.
LEMMA ErrorStep ==
  ASSUME IInv, NEW r \in Requests, NEW code \in Errors, NEW q \in Questions,
         Answer(r, ErrorOf(code), q), UNCHANGED <<turns, calls>>, archived' \in BOOLEAN
  PROVE  IInv' /\ RowStep
<1>1. TypeOK' /\ AnswersTheQuestion' /\ \A s \in Requests : req'[s].at = "calling" => req'[s] = req[s]
  BY AnswerTyped, ErrorTyped DEF IInv, TypeOK
<1>2. CallsMatchRows' /\ CallerHasRow' /\ RowStep
  BY <1>1 DEF IInv, CallsMatchRows, CallerHasRow, RowStep
<1> QED BY <1>1, <1>2 DEF IInv

LEMMA ArriveOK ==
  ASSUME IInv, NEW r \in Requests, NEW k \in Keys, NEW q \in Questions, Arrive(r, k, q)
  PROVE  IInv' /\ RowStep
<1> turns[k] \in Rows /\ turns \in [Keys -> Rows] /\ TypeOK  BY DEF IInv, TypeOK
<1>1. CASE /\ req' = [req EXCEPT ![r] = [at |-> "assembling", key |-> k, question |-> q,
                                        gone |-> FALSE]]
           /\ UNCHANGED turns /\ said' = Silence
  <2>1. TypeOK' /\ AnswersTheQuestion'
    BY <1>1, Chosen DEF IInv, Arrive, TypeOK, Answers, AnswersTheQuestion
  <2>2. CallsMatchRows' /\ CallerHasRow' /\ RowStep
    BY <1>1 DEF IInv, Arrive, TypeOK, CallsMatchRows, CallerHasRow, RowStep
  <2> QED BY <2>1, <2>2 DEF IInv
<1>2. CASE Taken(turns[k]) /\ Answer(r, Replayed(turns[k], q), q) /\ UNCHANGED turns
  <2>1. TypeOK' /\ AnswersTheQuestion' /\ \A s \in Requests : req'[s].at = "calling" => req'[s] = req[s]
    BY <1>2, AnswerTyped, ReplayTyped DEF Arrive, TypeOK, Taken
  <2>2. CallsMatchRows' /\ CallerHasRow' /\ RowStep
    BY <1>2, <2>1 DEF IInv, Arrive, CallsMatchRows, CallerHasRow, RowStep
  <2> QED BY <2>1, <2>2 DEF IInv
<1>3. ASSUME NEW S \in SUBSET Keys, turns[k].status = "pending", Sweep(S), turns' = Expired(S),
             Answer(r, Replayed(turns'[k], q), q)
      PROVE  IInv' /\ RowStep
  <2>1. turns' \in [Keys -> Rows] /\ turns'[k] \in Rows /\ turns'[k].status # "none"
    BY <1>3, ExpiredRows
  <2>2. TypeOK' /\ AnswersTheQuestion' /\ \A s \in Requests : req'[s].at = "calling" => req'[s] = req[s]
    <3>1. /\ said' \in Answers /\ AnswersTheQuestion'
          /\ req' \in [Requests -> [at : {"idle", "assembling", "calling"}, key : Keys,
                                    question : Questions, gone : BOOLEAN]]
          /\ \A s \in Requests : req'[s].at = "calling" => req'[s] = req[s]
      BY <1>3, <2>1, AnswerTyped, ReplayTyped
    <3> QED BY <3>1, <2>1 DEF Arrive, TypeOK
  <2>3. UNCHANGED calls  BY DEF Arrive
  <2>4. CallsMatchRows'  BY <1>3, <2>3, ExpiredRows DEF IInv, CallsMatchRows
  <2>5. CallerHasRow'
    <3> SUFFICES ASSUME NEW s \in Requests, req'[s].at = "calling"
                 PROVE  turns'[req'[s].key].status # "none"
                          /\ turns'[req'[s].key].question = req'[s].question
        BY DEF CallerHasRow
    <3>1. /\ req'[s] = req[s] /\ req[s].key \in Keys /\ turns[req[s].key].status # "none"
          /\ turns[req[s].key].question = req[s].question
      BY <2>2 DEF IInv, TypeOK, CallerHasRow
    <3> QED BY <3>1, <1>3, ExpiredRows
  <2>6. RowStep  BY <1>3, ExpiredRows DEF RowStep
  <2> QED BY <2>2, <2>4, <2>5, <2>6 DEF IInv
<1> QED BY <1>1, <1>2, <1>3 DEF Arrive

LEMMA ReserveOK ==
  ASSUME IInv, NEW r \in Requests, Reserve(r)
  PROVE  IInv' /\ RowStep
<1> DEFINE k == req[r].key
           q == req[r].question
<1> k \in Keys /\ q \in Questions /\ turns \in [Keys -> Rows] /\ TypeOK  BY DEF IInv, TypeOK
<1>1. CASE archived
  BY <1>1, ErrorStep DEF Reserve, IInv, TypeOK
<1>2. ASSUME NEW S \in SUBSET Keys, Sweep(S), Taken(Expired(S)[k]), turns' = Expired(S),
             Answer(r, Replayed(Expired(S)[k], q), q), UNCHANGED <<archived, calls>>
      PROVE  IInv' /\ RowStep
  <2>1. turns' \in [Keys -> Rows] /\ turns'[k] \in Rows /\ turns'[k].status # "none"
    BY <1>2, ExpiredRows DEF Taken
  <2>2. /\ said' \in Answers /\ AnswersTheQuestion'
        /\ req' \in [Requests -> [at : {"idle", "assembling", "calling"}, key : Keys,
                                  question : Questions, gone : BOOLEAN]]
        /\ \A s \in Requests : req'[s].at = "calling" => req'[s] = req[s]
    BY <1>2, <2>1, AnswerTyped, ReplayTyped
  <2>3. TypeOK' BY <1>2, <2>1, <2>2 DEF TypeOK
  <2>4. CallsMatchRows'  BY <1>2, ExpiredRows DEF IInv, CallsMatchRows
  <2>5. CallerHasRow'
    BY <1>2, <2>2, ExpiredRows DEF IInv, TypeOK, CallerHasRow
  <2>6. RowStep  BY <1>2, ExpiredRows DEF RowStep
  <2> QED BY <2>2, <2>3, <2>4, <2>5, <2>6 DEF IInv
<1>3. ASSUME NEW S \in SUBSET Keys, Sweep(S), ~Taken(Expired(S)[k]),
             turns' = [Expired(S) EXCEPT ![k] = [status |-> "pending", question |-> q, age |-> 0]],
             calls' = [calls EXCEPT ![k] = @ + 1],
             req' = [req EXCEPT ![r].at = "calling"], said' = Silence, UNCHANGED archived
      PROVE  IInv' /\ RowStep
  <2>1. /\ turns[k].status = "none" /\ Expired(S) \in [Keys -> Rows]
        /\ turns'[k] = [status |-> "pending", question |-> q, age |-> 0]
        /\ \A j \in Keys \ {k} : turns'[j] = Expired(S)[j]
    BY <1>3, ExpiredRows DEF Taken
  <2>2. turns' \in [Keys -> Rows]
    BY <1>3, <2>1, AgesNat DEF Rows
  <2>3. calls' \in [Keys -> Nat] /\ calls'[k] = 1 /\ \A j \in Keys \ {k} : calls'[j] = calls[j]
    BY <1>3, <2>1 DEF TypeOK, IInv, CallsMatchRows
  <2>4. /\ req' \in [Requests -> [at : {"idle", "assembling", "calling"}, key : Keys,
                                  question : Questions, gone : BOOLEAN]]
        /\ \A s \in Requests : req'[s].key = req[s].key /\ req'[s].question = req[s].question
        /\ \A s \in Requests \ {r} : req'[s] = req[s]
    BY <1>3 DEF TypeOK
  <2>5. TypeOK' /\ AnswersTheQuestion'
    BY <1>3, <2>2, <2>3, <2>4, Chosen DEF TypeOK, Answers, AnswersTheQuestion
  <2>6. RowStep BY <1>3, <2>1, ExpiredRows DEF RowStep
  <2>7. CallsMatchRows'
    BY <2>1, <2>3, ExpiredRows, <1>3 DEF IInv, CallsMatchRows
  <2>8. CallerHasRow'
    <3> SUFFICES ASSUME NEW s \in Requests, req'[s].at = "calling"
                 PROVE  turns'[req'[s].key].status # "none"
                          /\ turns'[req'[s].key].question = req'[s].question
        BY DEF CallerHasRow
    <3>1. CASE s = r  BY <3>1, <2>1, <2>4
    <3>2. CASE s # r
      <4>1. /\ req[s].at = "calling" /\ req[s].key \in Keys /\ turns[req[s].key].status # "none"
            /\ turns[req[s].key].question = req[s].question
        BY <3>2, <2>4 DEF IInv, CallerHasRow, TypeOK
      <4>2. req[s].key # k  BY <4>1, <2>1
      <4> QED BY <4>1, <4>2, <2>1, <2>4, <1>3, ExpiredRows
    <3> QED BY <3>1, <3>2
  <2> QED BY <2>5, <2>6, <2>7, <2>8 DEF IInv
<1> QED BY <1>1, <1>2, <1>3 DEF Reserve

LEMMA FinishOK ==
  ASSUME IInv, NEW r \in Requests, Finish(r)
  PROVE  IInv' /\ RowStep
<1> DEFINE k == req[r].key
           q == req[r].question
<1> /\ k \in Keys /\ q \in Questions /\ turns \in [Keys -> Rows] /\ turns[k] \in Rows /\ TypeOK
    /\ turns[k].status # "none" /\ turns[k].question = q
  BY DEF IInv, TypeOK, Finish, CallerHasRow
<1> PICK outcome \in {"succeeded", "parse_error", "provider_error", "cancelled"} :
         /\ turns' = [turns EXCEPT ![k] = Completed(turns[k], outcome)]
         /\ Answer(r, CompletionReply(turns[k], outcome), q)
  BY DEF Finish, Outcomes
<1> UNCHANGED <<archived, calls>>  BY DEF Finish
<1> DEFINE row == Completed(turns[k], outcome)
<1>1. /\ row \in Rows /\ row.question = q /\ row.status # "none"
      /\ turns[k].status # "pending" => row = turns[k]
      /\ row.status # "pending"
      /\ archived /\ turns[k].status = "pending" => row.status = "cancelled"
  <2>1. row.status # "pending"
    BY CompletedRow
  <2> QED BY <2>1, CompletedRow DEF Rows
<1>2. /\ CompletionReply(turns[k], outcome) \in [status : Terminal \cup Errors, question : Questions]
      /\ CompletionReply(turns[k], outcome).status \in Terminal
           => CompletionReply(turns[k], outcome).question = q
  BY <1>1, ErrorTyped DEF CompletionReply, TurnOf, ErrorOf, Rows
<1>3. /\ said' \in Answers /\ AnswersTheQuestion'
      /\ req' \in [Requests -> [at : {"idle", "assembling", "calling"}, key : Keys,
                                question : Questions, gone : BOOLEAN]]
      /\ \A s \in Requests : req'[s].at = "calling" => req'[s] = req[s]
  BY <1>2, AnswerTyped
<1>4. turns' \in [Keys -> Rows] /\ turns'[k] = row /\ \A j \in Keys \ {k} : turns'[j] = turns[j]
  BY <1>1
<1>5. RowStep  BY <1>1, <1>4 DEF RowStep, Rows
<1>6. TypeOK'  BY <1>3, <1>4 DEF TypeOK
<1>7. CallsMatchRows'  BY <1>1, <1>4 DEF IInv, CallsMatchRows
<1>8. CallerHasRow'
  BY <1>1, <1>3, <1>4 DEF IInv, CallerHasRow, TypeOK
<1> QED BY <1>3, <1>5, <1>6, <1>7, <1>8 DEF IInv

LEMMA HangUpOK ==
  ASSUME IInv, NEW r \in Requests, HangUp(r)
  PROVE  IInv' /\ RowStep
<1>1. TypeOK' /\ AnswersTheQuestion'
  <2>1. said' \in Answers /\ AnswersTheQuestion'
    BY Chosen DEF HangUp, Answers, AnswersTheQuestion
  <2>2. req' \in [Requests -> [at : {"idle", "assembling", "calling"}, key : Keys,
                              question : Questions, gone : BOOLEAN]]
    BY DEF HangUp, IInv, TypeOK
  <2> QED BY <2>1, <2>2 DEF HangUp, IInv, TypeOK
<1>2. CallsMatchRows' /\ RowStep
  BY DEF HangUp, IInv, CallsMatchRows, RowStep
<1>3. CallerHasRow'
  BY DEF HangUp, IInv, TypeOK, CallerHasRow
<1> QED BY <1>1, <1>2, <1>3 DEF IInv

LEMMA RestOK ==
  ASSUME IInv, SetArchived \/ Crash
  PROVE  IInv' /\ RowStep
<1>1. archived' \in BOOLEAN  BY Zenon DEF SetArchived, Crash, IInv, TypeOK
<1>2. /\ req' \in [Requests -> [at : {"idle", "assembling", "calling"}, key : Keys,
                                question : Questions, gone : BOOLEAN]]
      /\ \A r \in Requests : req'[r].at = "calling" => req'[r] = req[r]
      /\ UNCHANGED <<turns, calls>>
  <2>1. CASE Crash  BY <2>1, Chosen DEF Crash
  <2>2. CASE SetArchived
    <3>1. UNCHANGED <<req, turns, calls>>  BY <2>2, Zenon DEF SetArchived
    <3> QED BY <3>1 DEF IInv, TypeOK
  <2> QED BY <2>1, <2>2
<1>3. said' \in Answers /\ AnswersTheQuestion'
  BY Chosen DEF SetArchived, Crash, Answers, AnswersTheQuestion
<1>4. TypeOK'  BY <1>1, <1>2, <1>3 DEF IInv, TypeOK
<1>5. CallsMatchRows' /\ CallerHasRow' /\ RowStep
  BY <1>2 DEF IInv, CallsMatchRows, CallerHasRow, RowStep
<1> QED BY <1>3, <1>4, <1>5 DEF IInv

LEMMA TickOK ==
  ASSUME IInv, Tick
  PROVE  IInv' /\ RowStep
<1>1. /\ turns' \in [Keys -> Rows]
      /\ \A k \in Keys : turns'[k].status = turns[k].status /\ turns'[k].question = turns[k].question
      /\ \A k \in Keys : turns[k].status # "pending" => turns'[k] = turns[k]
  BY AgesNat DEF IInv, TypeOK, Tick, Rows, IsStale, Ages
<1>2. TypeOK' /\ AnswersTheQuestion'
  BY <1>1, Chosen DEF IInv, TypeOK, Tick, Answers, AnswersTheQuestion
<1>3. CallsMatchRows' /\ CallerHasRow' /\ RowStep
  BY <1>1 DEF IInv, TypeOK, Tick, CallsMatchRows, CallerHasRow, RowStep
<1> QED BY <1>2, <1>3 DEF IInv

LEMMA StepOK == IInv /\ [Next]_vars => IInv' /\ RowStep
<1> SUFFICES ASSUME IInv, [Next]_vars PROVE IInv' /\ RowStep  OBVIOUS
<1>1. CASE UNCHANGED vars
  BY <1>1 DEF vars, IInv, TypeOK, CallsMatchRows, CallerHasRow, AnswersTheQuestion, RowStep
<1>2. ASSUME NEW r \in Requests, NEW k \in Keys, NEW q \in Questions, Arrive(r, k, q)
      PROVE  IInv' /\ RowStep
  BY <1>2, ArriveOK
<1>3. ASSUME NEW r \in Requests, ArriveInVain(r) \/ AssemblyFails(r) \/ Busy(r)
      PROVE  IInv' /\ RowStep
  <2>1. PICK code \in Errors, q \in Questions : Answer(r, ErrorOf(code), q)
    BY <1>3, Chosen DEF ArriveInVain, AssemblyFails, Busy, IInv, TypeOK
  <2> QED BY <1>3, <2>1, ErrorStep DEF ArriveInVain, AssemblyFails, Busy, IInv, TypeOK
<1>4. ASSUME NEW r \in Requests, Reserve(r) PROVE IInv' /\ RowStep  BY <1>4, ReserveOK
<1>5. ASSUME NEW r \in Requests, Finish(r) PROVE IInv' /\ RowStep  BY <1>5, FinishOK
<1>6. ASSUME NEW r \in Requests, HangUp(r) PROVE IInv' /\ RowStep  BY <1>6, HangUpOK
<1>7. CASE Tick  BY <1>7, TickOK
<1>8. CASE SetArchived \/ Crash  BY <1>8, RestOK
<1> QED BY <1>1, <1>2, <1>3, <1>4, <1>5, <1>6, <1>7, <1>8 DEF Next

THEOREM Invariance == Spec => []IInv
<1>1. Init => IInv  BY InitOK
<1>2. IInv /\ [Next]_vars => IInv'  BY StepOK
<1> QED BY <1>1, <1>2, PTL DEF Spec

\* However a key is sent, concurrently, after its turn expired or after a
\* restart, the provider is called for it at most once.
THEOREM OneCall == Spec => []OneCallPerKey
<1>1. IInv => OneCallPerKey
  BY DEF IInv, CallsMatchRows, OneCallPerKey, TypeOK
<1> QED BY <1>1, Invariance, PTL

\* Whoever is answered with a turn is answered with the turn of its question.
THEOREM AnswersMatch == Spec => []AnswersTheQuestion
<1>1. IInv => AnswersTheQuestion  BY DEF IInv
<1> QED BY <1>1, Invariance, PTL

\* Once the Engagement is archived no answer of the provider is stored.
THEOREM QuietOnceArchived == Spec => NothingStoredOnceArchived
<1> DEFINE Stored(k) == turns'[k].status \in {"succeeded", "parse_error", "provider_error"}
                          /\ turns'[k] # turns[k]
<1>1. IInv /\ [Next]_vars => [\A k \in Keys : Stored(k) => ~archived]_vars
  <2> SUFFICES ASSUME RowStep, NEW k \in Keys, Stored(k) PROVE ~archived
    BY StepOK, Zenon
  <2>1. CASE turns[k].status = "none" /\ turns'[k].status = "pending"  BY <2>1
  <2>2. CASE turns'[k].status \in {"succeeded", "parse_error", "provider_error"} => ~archived
    BY <2>2, Zenon
  <2> QED BY <2>1, <2>2, Zenon DEF RowStep
<1> QED BY <1>1, Invariance, PTL DEF Spec, NothingStoredOnceArchived

\* A turn that has ended is never written again.
THEOREM Final == Spec => TurnIsFinal
<1>1. IInv /\ [Next]_vars =>
        [\A k \in Keys : turns[k].status \in Terminal => turns'[k] = turns[k]]_vars
  <2> SUFFICES ASSUME RowStep, NEW k \in Keys, turns[k].status \in Terminal
               PROVE  turns'[k] = turns[k]
    BY StepOK, Zenon
  <2>1. turns[k].status # "none" /\ turns[k].status # "pending"  OBVIOUS
  <2> QED BY <2>1, Zenon DEF RowStep
<1> QED BY <1>1, Invariance, PTL DEF Spec, TurnIsFinal
=============================================================================
