-------------------------- MODULE StartEngagement --------------------------
(***************************************************************************)
(* "Start an engagement" (CreateEngagementDialog of apps/web               *)
(* create-dialog.tsx) over the operator commands it sends.  One submit     *)
(* creates the Engagement, saves its targets as scope and plans the first  *)
(* scan, three commands under three keys, each of which may be refused,    *)
(* lost before or after it is carried out, or arrive late; a retry resumes *)
(* where the last one stopped.  The form is its target list, None for a    *)
(* challenge file alone, and the scope box.  A scope revision is named by  *)
(* the Engagement revision that it made, a draft of scope rules by a       *)
(* number, 0 for none, in place of its rule ids.                           *)
(***************************************************************************)
EXTENDS Naturals, FiniteSets, FiniteSetsExt

CONSTANTS
    Targets,         \* target lists
    None,            \* no targets, progress, run or answer
    MaxRevisions,    \* bound: revisions of Engagements, creations included
    MaxSubmits,      \* bound: presses of Start
    MaxAtOnce,       \* bound: submits under way at once, stale ones and ours
    MaxLate          \* bound: lost requests still under way

\* An Engagement row, with the pairs of revision and scope it has had.
Rows == [targets : Targets \cup {None}, revision : Nat, scope : Nat, archived : BOOLEAN,
         had : SUBSET (Nat \X Nat)]

Slots == 1..MaxAtOnce

VARIABLES
    engagements, \* the Engagement rows, by the order of their creation
    stored,      \* operator_command_idempotency: requests and their answers
    scans,       \* the requests under which first scans were planned
    late,        \* requests given up by the dialog, still under way
    dialog,      \* open, the form, what is retained (started), what is pending
    runs,        \* runSubmit at its awaits
    resets,      \* intents whose key was dropped, once for each time
    submits      \* presses so far

vars == <<engagements, stored, scans, late, dialog, runs, resets, submits>>

Ids == 1..MaxRevisions
Created == {e \in Ids : engagements[e] # None}
Revisions == MapThenSumSet(LAMBDA e : engagements[e].revision, Created)

\* The dialog as the effect on closing leaves it.
Blank == [open |-> FALSE, targets |-> None, save |-> FALSE, started |-> None,
          starting |-> FALSE, creating |-> 0]

Init ==
    /\ engagements = [e \in Ids |-> None]
    /\ stored = {} /\ scans = {} /\ late = {}
    /\ dialog = Blank
    /\ runs = [s \in Slots |-> None]
    /\ resets = {}
    /\ submits = 0

-----------------------------------------------------------------------------
(* Keys.  A key is its intent and how often the holder has dropped one for  *)
(* it.  The intent of a scope append leaves the rules out.  A reset drops   *)
(* the key the intent has by then, whichever request was answered.          *)
Request(op, eng, revision, scope, targets, rules) ==
    [op |-> op, eng |-> eng, revision |-> revision, scope |-> scope,
     targets |-> targets, rules |-> rules, drop |-> 0]
Intent(q) == [q EXCEPT !.rules = 0, !.drop = 0]
Creation(targets) == Request("create", 0, 0, 0, targets, 0)

Drops(q) == Cardinality({r \in resets : r.intent = Intent(q)})
KeySlip(q) == [q EXCEPT !.drop = submits]   \* a slip: a key for each press
Key(q) == [q EXCEPT !.drop = Drops(q)]
Reset(q) == resets \cup {[intent |-> Intent(q), drop |-> Drops(q)]}

-----------------------------------------------------------------------------
(* The control plane: what a request is answered, and what it changes.      *)
Answer(code, eng, revision, scope) ==
    [code |-> code, eng |-> eng, revision |-> revision, scope |-> scope]
Refusal(code) == Answer(code, 0, 0, 0)

SameKey(q) == {c \in stored : [c.q EXCEPT !.rules = 0] = [q EXCEPT !.rules = 0]}

Fresh(q) ==
    IF q.op = "create" THEN Answer("ok", Cardinality(Created) + 1, 1, 0)
    ELSE LET e == engagements[q.eng]
         IN  IF e.revision # q.revision THEN Refusal("revision_conflict")
             ELSE IF e.archived THEN Refusal("engagement_archived")
             ELSE IF q.op = "scope" THEN Answer("ok", q.eng, q.revision + 1, q.revision + 1)
             ELSE IF e.scope # q.scope THEN Refusal("invalid_request")
             ELSE Answer("ok", q.eng, q.revision, q.scope)

\* The answer of executeOperatorCommand: a stored one again, a conflict when
\* the body is another, or that of the command.
Outcome(q) ==
    IF SameKey(q) = {} THEN Fresh(q)
    ELSE IF \E c \in SameKey(q) : c.q = q
    THEN (CHOOSE c \in SameKey(q) : c.q = q).answer
    ELSE Refusal("idempotency_conflict")

Revised(e, scope) ==
    [e EXCEPT !.revision = @ + 1, !.scope = scope, !.had = @ \cup {<<e.revision + 1, scope>>}]

\* One transaction: the command with its stored answer, or nothing.
Execute(q) ==
    IF SameKey(q) # {} THEN UNCHANGED <<engagements, stored, scans>>
    ELSE LET a == Fresh(q)
         IN  /\ stored' = stored \cup {[q |-> q, answer |-> a]}
             /\ engagements' =
                  CASE a.code # "ok" \/ q.op = "action" -> engagements
                    [] a.code = "ok" /\ q.op = "create" -> [engagements EXCEPT ![a.eng] =
                         [targets |-> q.targets, revision |-> 1, scope |-> 0,
                          archived |-> FALSE, had |-> {<<1, 0>>}]]
                    [] OTHER -> [engagements EXCEPT ![q.eng] = Revised(@, q.revision + 1)]
             /\ scans' = IF q.op = "action" /\ a.code = "ok"
                         THEN scans \cup {q} ELSE scans

\* The bound: on all revisions, and so on the Engagements, which have one each.
CanExecute(q) ==
    SameKey(q) = {} /\ Fresh(q).code = "ok" /\ q.op # "action" =>
        Revisions < MaxRevisions /\ Cardinality(Created) < MaxRevisions

\* Another tab changes the Engagement, its scope or its status.
OtherTab(e, change) ==
    /\ engagements[e] # None
    /\ Revisions < MaxRevisions
    /\ change \in {"settings", "scope"} => ~engagements[e].archived
    /\ LET row == engagements[e]
           scope == IF change = "scope" THEN row.revision + 1 ELSE row.scope
           archived == IF change = "status" THEN ~row.archived ELSE row.archived
       IN  engagements' = [engagements EXCEPT ![e] =
                             [Revised(row, scope) EXCEPT !.archived = archived]]
    /\ UNCHANGED <<stored, scans, late, dialog, runs, resets, submits>>

-----------------------------------------------------------------------------
(* The dialog.                                                              *)
Pending == dialog.starting \/ dialog.creating # 0
ScopeLocked == dialog.started # None /\ dialog.started.scopeDone

Idle == UNCHANGED <<engagements, stored, scans, late, runs, resets, submits>>

Open ==
    /\ ~dialog.open
    /\ dialog' = [dialog EXCEPT !.open = TRUE]
    /\ Idle

\* Cancel, Escape and the backdrop wait for the submit.
Cancel ==
    /\ dialog.open /\ ~Pending
    /\ dialog' = Blank
    /\ Idle

\* The link to the retained Engagement does not.
OpenEngagement ==
    /\ dialog.open /\ dialog.started # None
    /\ dialog' = Blank
    /\ Idle

Discard ==
    /\ dialog.open /\ dialog.started # None /\ ~Pending
    /\ dialog' = [dialog EXCEPT !.started = None]
    /\ Idle

Edit(targets, save) ==
    /\ dialog.open /\ ~Pending /\ ~ScopeLocked
    /\ <<targets, save>> # <<dialog.targets, dialog.save>>
    /\ dialog' = [dialog EXCEPT !.targets = targets, !.save = save]
    /\ Idle

-----------------------------------------------------------------------------
(* runSubmit, from one await to the next.                                   *)
Waiting(run, phase, p, q) ==
    [run EXCEPT !.phase = phase, !.progress = p, !.q = q, !.answer = None]

\* Its end: it closes the dialog, or leaves it, whoever it belongs to now.
Ended(s) == runs' = [runs EXCEPT ![s] = None]
Left(d) == [d EXCEPT !.starting = FALSE]
Closed(d) == IF d.open THEN Blank ELSE Left(d)

\* The challenge notes are saved as well as can be, then the dialog closes;
\* file says whether there are any.
Finish(s, run, d) ==
    \/ runs' = [runs EXCEPT ![s] = Waiting(run, "notes", run.progress, None)] /\ dialog' = d
    \/ Ended(s) /\ run.targets # None /\ dialog' = Closed(d)

\* After the Engagement is there: the scope append, the first scan, or notes.
Draft(run, p) == IF p.scopeTargets = run.targets THEN p.rules ELSE run.press

ScopePhase(run, p) == run.save /\ run.targets # None /\ ~p.scopeDone

Proceed(s, run, p, d) ==
    IF ScopePhase(run, p)
    THEN LET rules == Draft(run, p)
             kept == [p EXCEPT !.scopeTargets = run.targets, !.rules = rules]
             q == Key(Request("scope", p.eng, p.revision, 0, run.targets, rules))
         IN  /\ runs' = [runs EXCEPT ![s] = Waiting(run, "scope", kept, q)]
             /\ dialog' = [d EXCEPT !.started = IF rules = p.rules THEN @ ELSE kept]
    ELSE IF run.targets # None
    THEN LET q == Key(Request("action", p.eng, p.revision, p.scope, run.targets, 0))
         IN  runs' = [runs EXCEPT ![s] = Waiting(run, "action", p, q)] /\ dialog' = d
    ELSE Finish(s, [run EXCEPT !.progress = p], d)

Submit(s) ==
    /\ dialog.open /\ ~Pending
    /\ runs[s] = None /\ \A t \in Slots : t < s => runs[t] # None
    /\ submits < MaxSubmits
    /\ submits' = submits + 1
    /\ LET run == [phase |-> "create", press |-> submits + 1, targets |-> dialog.targets,
                   save |-> dialog.save, progress |-> None, q |-> None, answer |-> None]
           q == Key(Creation(run.targets))
       IN  IF dialog.started = None
           THEN /\ runs' = [runs EXCEPT ![s] = Waiting(run, "create", None, q)]
                /\ dialog' = [dialog EXCEPT !.starting = TRUE, !.creating = s]
           ELSE Proceed(s, run, dialog.started, [dialog EXCEPT !.starting = TRUE])
    /\ UNCHANGED <<engagements, stored, scans, late, resets>>

-----------------------------------------------------------------------------
Commands == {"create", "scope", "action"}
Awaits(s, phases) == runs[s] # None /\ runs[s].phase \in phases

\* The command reaches the control plane.
Serve(s) ==
    /\ Awaits(s, Commands) /\ runs[s].answer = None
    /\ CanExecute(runs[s].q)
    /\ Execute(runs[s].q)
    /\ runs' = [runs EXCEPT ![s].answer = Outcome(runs[s].q)]
    /\ UNCHANGED <<late, dialog, resets, submits>>

ServeLate(q) ==
    /\ CanExecute(q)
    /\ Execute(q)
    /\ late' = late \ {q}
    /\ UNCHANGED <<dialog, runs, resets, submits>>

\* The creation that the mutation's observer follows settles.
Settled(s, d) == IF d.creating = s THEN [d EXCEPT !.creating = 0] ELSE d
Landed(s) == Awaits(s, Commands) /\ runs[s].answer # None
Good(s) == Landed(s) /\ runs[s].answer.code = "ok"

CreateLands(s) ==
    /\ Good(s) /\ runs[s].phase = "create"
    /\ resets' = Reset(runs[s].q)
    /\ LET run == runs[s]
           p == [eng |-> run.answer.eng, revision |-> run.answer.revision,
                 scope |-> run.answer.scope, scopeDone |-> ~(run.save /\ run.targets # None),
                 scopeTargets |-> None, rules |-> 0]
       IN  Proceed(s, run, p, [Settled(s, dialog) EXCEPT !.started = p])
    /\ UNCHANGED <<engagements, stored, scans, late, submits>>

ScopeSaved(p, a) == [p EXCEPT !.revision = @ + 1, !.scope = a.scope, !.scopeDone = TRUE]

ScopeLands(s) ==
    /\ Good(s) /\ runs[s].phase = "scope"
    /\ resets' = Reset(runs[s].q)
    /\ LET p == ScopeSaved(runs[s].progress, runs[s].answer)
       IN  Proceed(s, runs[s], p, [dialog EXCEPT !.started = p])
    /\ UNCHANGED <<engagements, stored, scans, late, submits>>

ActionLands(s) ==
    /\ Good(s) /\ runs[s].phase = "action"
    /\ resets' = Reset(runs[s].q)
    /\ Finish(s, runs[s], dialog)
    /\ UNCHANGED <<engagements, stored, scans, late, submits>>

NotesEnd(s) ==
    /\ Awaits(s, {"notes"})
    /\ Ended(s)
    /\ dialog' = Closed(dialog)
    /\ UNCHANGED <<engagements, stored, scans, late, resets, submits>>

-----------------------------------------------------------------------------
(* Failure.                                                                 *)
Retained == \* the runs whose Engagement is the one retained
    {s \in Slots : /\ runs[s] # None /\ runs[s].progress # None
                   /\ dialog.started # None /\ runs[s].progress.eng = dialog.started.eng}

RefusalLands(s) ==
    /\ Landed(s) /\ ~Good(s)
    /\ CASE runs[s].answer.code = "revision_conflict" ->
              /\ runs' = [runs EXCEPT ![s] = Waiting(@, "refresh", @.progress, None)]
              /\ UNCHANGED dialog
         [] runs[s].answer.code = "engagement_archived" ->
              Ended(s) /\ dialog' = [Left(dialog) EXCEPT !.started = None]
         [] OTHER -> Ended(s) /\ dialog' = Left(Settled(s, dialog))
    /\ UNCHANGED <<engagements, stored, scans, late, resets, submits>>

\* storage_busy, or no answer: the request was not or may yet be carried out,
\* or only the answer is gone.  Carried out once, it changes nothing again.
Fails(s) ==
    /\ Awaits(s, Commands \cup {"refresh"})
    /\ Ended(s)
    /\ dialog' = Left(Settled(s, dialog))
    /\ \/ UNCHANGED late
       \/ /\ Awaits(s, Commands) /\ SameKey(runs[s].q) = {}
          /\ Cardinality(late) < MaxLate
          /\ late' = late \cup {runs[s].q}
    /\ UNCHANGED <<engagements, stored, scans, resets, submits>>

\* fetchEngagementDetail, answered and applied.
ServeRefresh(s) ==
    /\ Awaits(s, {"refresh"}) /\ runs[s].answer = None
    /\ LET e == runs[s].progress.eng
       IN  runs' = [runs EXCEPT ![s].answer =
             Answer(IF engagements[e].archived THEN "archived" ELSE "active", e,
                    engagements[e].revision, engagements[e].scope)]
    /\ UNCHANGED <<engagements, stored, scans, late, dialog, resets, submits>>

RefreshedSlip(p, a) == [p EXCEPT !.revision = a.revision]
Refreshed(p, a) == [p EXCEPT !.revision = a.revision, !.scope = a.scope]

RefreshLands(s) ==
    /\ Awaits(s, {"refresh"}) /\ runs[s].answer # None
    /\ Ended(s)
    /\ LET a == runs[s].answer
       IN  dialog' = [Left(dialog) EXCEPT !.started =
             IF s \notin Retained THEN @
             ELSE IF a.code = "archived" THEN None ELSE Refreshed(@, a)]
    /\ UNCHANGED <<engagements, stored, scans, late, resets, submits>>

Next ==
    \/ Open \/ Cancel \/ OpenEngagement \/ Discard
    \/ \E t \in Targets \cup {None}, save \in BOOLEAN : Edit(t, save)
    \/ \E e \in Ids, change \in {"settings", "scope", "status"} : OtherTab(e, change)
    \/ \E q \in late : ServeLate(q)
    \/ \E s \in Slots :
         \/ Submit(s) \/ Serve(s) \/ CreateLands(s) \/ ScopeLands(s) \/ ActionLands(s)
         \/ NotesEnd(s) \/ RefusalLands(s) \/ Fails(s) \/ ServeRefresh(s) \/ RefreshLands(s)

Spec == Init /\ [][Next]_vars

-----------------------------------------------------------------------------
\* Of the times that an intent was carried out, all but one have a success that
\* the dialog heard: lost answers, late requests and retries alone make no second
\* Engagement and no second first scan (create-dialog.tsx:181, :383).
RepeatsWereHeard ==
    /\ \A e \in Created :
         LET targets == engagements[e].targets
         IN  Cardinality({d \in Created : engagements[d].targets = targets})
               <= Drops(Creation(targets)) + 1
    /\ \A q \in scans : Cardinality({p \in scans : Intent(p) = Intent(q)}) <= Drops(q) + 1

\* The retained revision and scope are a pair the retained Engagement once had:
\* a pair it never had would be refused with the right revision, which no
\* refresh repairs (create-dialog.tsx:535).
RetainedPairWasReal ==
    dialog.started # None =>
      <<dialog.started.revision, dialog.started.scope>> \in engagements[dialog.started.eng].had

\* A changed body gets a new key, so that no retry is refused as another
\* request (create-dialog.tsx:181, :408).
ChangedBodyGetsNewKey ==
    \A s \in Slots : Landed(s) => runs[s].answer.code # "idempotency_conflict"
=============================================================================
