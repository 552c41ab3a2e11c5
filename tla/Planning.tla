------------------------------ MODULE Planning -------------------------------
(***************************************************************************)
(* Operators plan Actions: browser tabs over one Engagement, each with the *)
(* data it last fetched and the idempotency keys it holds, and the control *)
(* plane, which answers a command once per key and writes the Engagement,  *)
(* its scope revisions and its Actions under their revisions.              *)
(*                                                                         *)
(* A request may be lost before or after it is carried out, and one that   *)
(* the browser gave up on may still arrive.  What becomes of an Action     *)
(* once its Run is queued is RunControl's matter; here it only moves on    *)
(* and takes revisions while it does.                                      *)
(***************************************************************************)
EXTENDS Naturals, Sequences, FiniteSets

CONSTANTS
    Tabs,           \* browser tabs of the operator
    Targets,        \* what an Action may be aimed at
    Kinds,          \* subset of {"plain", "risky"}
    Operations,     \* the commands the tabs use
    MaxRevision,    \* bound: revisions of the Engagement and of an Action
    MaxActions,     \* bound: Actions planned
    MaxKeys,        \* bound: idempotency keys drawn
    MaxStray        \* bound: requests given up on and still under way

ASSUME PlanningAssumption ==
    /\ Kinds \subseteq {"plain", "risky"}
    /\ Operations \subseteq {"plan", "continue", "add_scope", "cancel", "archive", "reopen",
                             "update", "append_scope"}
    /\ {MaxRevision, MaxActions, MaxKeys, MaxStray} \subseteq Nat

VARIABLES
    eng,        \* the Engagement with its active scope revision
    actions,    \* the Actions
    stored,     \* operator_command_idempotency: key -> command and answer
    tab,        \* the tabs
    stray,      \* requests nobody waits for
    nextKey     \* keys are random: drawn from 1, 2, 3, ...

vars == <<eng, actions, stored, tab, stray, nextKey>>

Ids == 1..MaxActions
Keys == 1..MaxKeys

NoAction == [rev |-> 0, state |-> "none", target |-> "none", kind |-> "plain", snaps |-> <<>>,
             queued |-> 0, ack |-> [snap |-> 0, reasons |-> {}, source |-> "none"],
             plan |-> [scope |-> 0, auto |-> FALSE]]

\* A command.  Fields an operation does not send keep these values.
NoCommand == [op |-> "none", act |-> 0, erev |-> 0, arev |-> 0, scope |-> 0, rules |-> {},
              auto |-> FALSE, target |-> "none", kind |-> "plain", snap |-> 0]

\* A tab shows what it fetched, holds a key per pending intent, waits for one
\* answer at a time, and was told that the Engagement is archived.
NoTab == [eng |-> eng, actions |-> actions, keys |-> <<>>, told |-> {}, wait |-> NoCommand]

States == {"none", "paused_for_warning", "queued", "active", "cancelling", "cancelled", "ended"}

TypeOK ==
    /\ eng.rev \in 1..MaxRevision /\ eng.scope \in 0..MaxRevision
    /\ eng.rules \subseteq Targets /\ eng.status \in {"active", "archived"}
    /\ \A a \in Ids : /\ actions[a].state \in States
                      /\ actions[a].queued \in 0..Len(actions[a].snaps)
                      /\ actions[a].ack.snap \in 0..Len(actions[a].snaps)
    /\ DOMAIN stored \subseteq 1..(nextKey - 1)
    /\ \A t \in Tabs : \A c \in DOMAIN tab[t].keys : tab[t].keys[c] \in 1..(nextKey - 1)

Init ==
    /\ eng = [rev |-> 1, status |-> "active", auto |-> FALSE, scope |-> 0, rules |-> {}]
    /\ actions = [a \in Ids |-> NoAction]
    /\ stored = <<>>
    /\ tab = [t \in Tabs |-> NoTab]
    /\ stray = {} /\ nextKey = 1

-----------------------------------------------------------------------------
(* Planning an Action (packages/domain, packages/db).                      *)

\* compareSavedScope: without a scope revision nothing is outside.
OutsideScope(target, e) == e.scope # 0 /\ target \notin e.rules

\* A large target set, or an operation of risk tier T2, warns in any scope.
TierReasons(kind) == IF kind = "risky" THEN {"risk"} ELSE {}

WarningReasons(target, kind, e) ==
    (IF OutsideScope(target, e) THEN {"outside_scope"} ELSE {}) \cup TierReasons(kind)

Snapshot(target, kind, e) == [scope |-> e.scope, reasons |-> WarningReasons(target, kind, e)]

Acknowledgment(version, reasons, source) ==
    [snap |-> version, reasons |-> reasons, source |-> source]

\* planAction: queued, queued on the Engagement's policy, or paused.
Planned(c, e) ==
    LET snapshot == Snapshot(c.target, c.kind, e)
        quiet == snapshot.reasons = {}
        base == [NoAction EXCEPT !.rev = 1, !.target = c.target, !.kind = c.kind,
                                 !.snaps = <<snapshot>>,
                                 !.plan = [scope |-> c.scope, auto |-> c.auto]]
    IN IF quiet \/ e.auto
       THEN [base EXCEPT !.state = "queued", !.queued = 1,
               !.ack = IF quiet THEN @ ELSE Acknowledgment(1, snapshot.reasons, "engagement_policy")]
       ELSE [base EXCEPT !.state = "paused_for_warning"]

\* continueAction: the acknowledgment is bound to the latest snapshot.
Continued(x) ==
    [x EXCEPT !.state = "queued", !.queued = Len(x.snaps),
              !.ack = Acknowledgment(Len(x.snaps), x.snaps[Len(x.snaps)].reasons,
                                     "operator_continue")]

\* Slip: the warning the operator saw is acknowledged, not the one rechecked.
ScopeAddedSlip(x, snapshot) ==
    [x EXCEPT !.state = "queued", !.snaps = Append(x.snaps, snapshot),
              !.queued = Len(x.snaps) + 1,
              !.ack = Acknowledgment(Len(x.snaps), x.snaps[Len(x.snaps)].reasons,
                                     "add_scope_and_run")]

\* addScopeAndRun: a new snapshot, checked against the new scope revision.
ScopeAdded(x, snapshot) ==
    [x EXCEPT !.state = "queued", !.snaps = Append(x.snaps, snapshot),
              !.queued = Len(x.snaps) + 1,
              !.ack = Acknowledgment(Len(x.snaps) + 1, snapshot.reasons, "add_scope_and_run")]

\* cancelAction: an active Action is cancelled when its Run has been.
Cancelled(x) ==
    [x EXCEPT !.state = IF x.state = "active" THEN "cancelling" ELSE "cancelled"]

-----------------------------------------------------------------------------
(* The commands.  Each is decided in the order of the code's checks and    *)
(* gives the answer with the Engagement and the Actions after it.          *)

Outcome(answer, e, as) == [answer |-> answer, act |-> 0, eng |-> e, actions |-> as]
Rejected(answer) == Outcome(answer, eng, actions)

\* Slip: a writer that is behind is let through.
StaleSlip(expected, actual) == expected > actual

\* expectedRevision, compared before anything is written.
Stale(expected, actual) == expected # actual

Archived == eng.status = "archived"

\* Slip: the plan is not tied to the Engagement its operator was looking at.
PlanIsStaleSlip(c) == FALSE

PlanIsStale(c) == Stale(c.erev, eng.rev)

Plan(c) ==
    IF PlanIsStale(c) THEN Rejected("revision_conflict")
    ELSE IF Archived THEN Rejected("engagement_archived")
    ELSE IF c.scope # eng.scope THEN Rejected("refused")
    ELSE LET a == CHOOSE n \in Ids : actions[n].state = "none"
         IN [Outcome("ok", eng, [actions EXCEPT ![a] = Planned(c, eng)]) EXCEPT !.act = a]

\* Slip: mutateAction trusts its callers to have looked at the Engagement.
MayMutateSlip(c) ==
    IF Stale(c.arev, actions[c.act].rev) THEN "revision_conflict" ELSE "ok"

\* mutateAction's checks.
MayMutate(c) ==
    IF Archived THEN "engagement_archived"
    ELSE IF Stale(c.arev, actions[c.act].rev) THEN "revision_conflict" ELSE "ok"

\* writeActionProjection: the next state under the next revision.
Write(c, e, x) == Outcome("ok", e, [actions EXCEPT ![c.act] = [x EXCEPT !.rev = @ + 1]])

Continue(c) ==
    LET x == actions[c.act] IN
    IF MayMutate(c) # "ok" THEN Rejected(MayMutate(c))
    ELSE IF x.state # "paused_for_warning" \/ x.queued # 0 \/ c.snap # Len(x.snaps)
    THEN Rejected("refused")
    ELSE Write(c, eng, Continued(x))

Cancel(c) ==
    LET x == actions[c.act] IN
    IF MayMutate(c) # "ok" THEN Rejected(MayMutate(c))
    ELSE IF x.state \notin {"paused_for_warning", "queued", "active"} THEN Rejected("refused")
    ELSE Write(c, eng, Cancelled(x))

\* appendScopeRevision.
NewScope(rules) == [eng EXCEPT !.rev = @ + 1, !.scope = @ + 1, !.rules = rules]

AppendScope(c) ==
    IF Stale(c.erev, eng.rev) THEN Rejected("revision_conflict")
    ELSE IF Archived THEN Rejected("engagement_archived")
    ELSE Outcome("ok", NewScope(c.rules), actions)

\* addScopeAndRunOperatorAction: both writes are in one transaction.
AddScopeAndRun(c) ==
    LET x == actions[c.act] IN
    IF Stale(c.arev, x.rev) THEN Rejected("revision_conflict")
    ELSE IF x.state # "paused_for_warning" THEN Rejected("refused")
    ELSE IF AppendScope(c).answer # "ok" THEN AppendScope(c)
    ELSE Write(c, NewScope(c.rules),
               ScopeAdded(x, Snapshot(x.target, x.kind, NewScope(c.rules))))

\* setStatus.
SetStatus(c, status) ==
    IF Stale(c.erev, eng.rev) THEN Rejected("revision_conflict")
    ELSE IF eng.status = status THEN Rejected("refused")
    ELSE Outcome("ok", [eng EXCEPT !.status = status, !.rev = @ + 1], actions)

\* updateAutoContinueWarnings; updateDeadline has the same checks.
Update(c) ==
    IF Stale(c.erev, eng.rev) THEN Rejected("revision_conflict")
    ELSE IF Archived THEN Rejected("engagement_archived")
    ELSE Outcome("ok", [eng EXCEPT !.auto = c.auto, !.rev = @ + 1], actions)

Mutation(c) ==
    CASE c.op = "plan" -> Plan(c)
      [] c.op = "continue" -> Continue(c)
      [] c.op = "add_scope" -> AddScopeAndRun(c)
      [] c.op = "cancel" -> Cancel(c)
      [] c.op = "archive" -> SetStatus(c, "archived")
      [] c.op = "reopen" -> SetStatus(c, "active")
      [] c.op = "update" -> Update(c)
      [] c.op = "append_scope" -> AppendScope(c)

\* The bounds: a command that would pass them is not carried out.
HasRoom(c) == c.op = "plan" => \E a \in Ids : actions[a].state = "none"
WithinBounds(m) ==
    m.eng.rev <= MaxRevision /\ \A a \in Ids : m.actions[a].rev <= MaxRevision

-----------------------------------------------------------------------------
(* executeOperatorCommand: one transaction.                                *)

\* Slip: the stored answer is looked for after the command was carried out.
KnownSlip(k) == FALSE

Known(k) == k \in DOMAIN stored

AnswerTo(k, c) ==
    IF ~Known(k) THEN Mutation(c).answer
    ELSE IF stored[k].command # c THEN "idempotency_conflict"
    ELSE stored[k].answer

With(f, x, value) == [y \in DOMAIN f \cup {x} |-> IF y = x THEN value ELSE f[y]]
Without(f, x) == [y \in DOMAIN f \ {x} |-> f[y]]

\* Refusals are stored as well as successes.
Execute(k, c) ==
    \/ Known(k) /\ UNCHANGED <<eng, actions, stored>>
    \/ ~Known(k) /\ HasRoom(c) /\
       LET m == Mutation(c) IN
       /\ WithinBounds(m)
       /\ eng' = m.eng
       /\ actions' = m.actions
       /\ stored' = With(stored, k, [command |-> c, answer |-> m.answer, act |-> m.act])

-----------------------------------------------------------------------------
(* A tab.                                                                  *)

Of(op) == [NoCommand EXCEPT !.op = op]

\* A command carries the revision its tab shows, of the Engagement or of the
\* Action.
OnEng(t, op) == [Of(op) EXCEPT !.erev = tab[t].eng.rev]
OnAct(t, op, a) == [Of(op) EXCEPT !.act = a, !.arev = tab[t].actions[a].rev]

\* WarningCard: Continue, Add to scope & run.
Shows(t, states) == {a \in Ids : tab[t].actions[a].state \in states}
ShownSnapshot(t, a) == tab[t].actions[a].snaps[Len(tab[t].actions[a].snaps)]

ContinueOf(t, a) == [OnAct(t, "continue", a) EXCEPT !.snap = Len(tab[t].actions[a].snaps)]
AddScopeOf(t, a) ==
    [OnAct(t, "add_scope", a) EXCEPT !.erev = tab[t].eng.rev,
        !.rules = tab[t].eng.rules \cup {tab[t].actions[a].target}]
CancelOf(t, a) == OnAct(t, "cancel", a)

\* The planner, the deadline, the scope editor.
PlanOf(t, target, kind) ==
    [OnEng(t, "plan") EXCEPT !.scope = tab[t].eng.scope, !.auto = tab[t].eng.auto,
        !.target = target, !.kind = kind]
UpdateOf(t) == [OnEng(t, "update") EXCEPT !.auto = ~tab[t].eng.auto]
AppendScopeOf(t, rules) == [OnEng(t, "append_scope") EXCEPT !.rules = rules]

Warned(t) == Shows(t, {"paused_for_warning"})

\* The warning card stays usable when the Engagement is shown as archived.
Cards(t) ==
    {ContinueOf(t, a) : a \in Warned(t)}
    \cup {AddScopeOf(t, a) : a \in {b \in Warned(t) : "outside_scope" \in ShownSnapshot(t, b).reasons}}
    \cup {CancelOf(t, a) : a \in Shows(t, {"paused_for_warning", "queued", "active"})}

Forms(t) ==
    {PlanOf(t, target, kind) : target \in Targets, kind \in Kinds}
    \cup {AppendScopeOf(t, rules) : rules \in SUBSET Targets}
    \cup {OnEng(t, "archive"), UpdateOf(t)}

\* What a tab can ask for, given what it shows.
Offers(t) ==
    { c \in Cards(t) \cup (IF tab[t].eng.status = "active" THEN Forms(t) ELSE {OnEng(t, "reopen")}) :
      c.op \in Operations }

\* keyFor: one key for one intent until it succeeds.
HasKey(t, c) == c \in DOMAIN tab[t].keys
KeyFor(t, c) == IF HasKey(t, c) THEN tab[t].keys[c] ELSE nextKey

\* A button is pressed; the buttons are disabled until the request ends.
Click(t) ==
    /\ tab[t].wait = NoCommand
    /\ \E c \in Offers(t) :
         /\ HasKey(t, c) \/ nextKey \in Keys
         /\ tab' = [tab EXCEPT ![t].wait = c, ![t].keys = With(@, c, KeyFor(t, c))]
         /\ nextKey' = IF HasKey(t, c) THEN nextKey ELSE nextKey + 1
    /\ UNCHANGED <<eng, actions, stored, stray>>

Waiting(t) == tab[t].wait # NoCommand
KeyInUse(t) == tab[t].keys[tab[t].wait]

\* The mutation's callbacks: a success drops the key, an error keeps it.
Settled(t, answer) ==
    IF answer = "ok" THEN [tab[t] EXCEPT !.wait = NoCommand, !.keys = Without(@, tab[t].wait)]
    ELSE [tab[t] EXCEPT !.wait = NoCommand,
            !.told = IF answer = "engagement_archived" THEN @ \cup {KeyInUse(t)} ELSE @]

\* The request is carried out and answered.
Serve(t) ==
    /\ Waiting(t)
    /\ Execute(KeyInUse(t), tab[t].wait)
    /\ tab' = [tab EXCEPT ![t] = Settled(t, AnswerTo(KeyInUse(t), tab[t].wait))]
    /\ UNCHANGED <<stray, nextKey>>

\* The tab stops waiting and knows nothing: it keeps the key.
Abandon(t) == tab' = [tab EXCEPT ![t].wait = NoCommand]

\* The request is carried out and its answer is lost.
ServeUnheard(t) ==
    /\ Waiting(t)
    /\ Execute(KeyInUse(t), tab[t].wait)
    /\ Abandon(t)
    /\ UNCHANGED <<stray, nextKey>>

\* fetch rejects, or the transaction could not start within five seconds and
\* the answer is storage_busy: nothing is stored.
ServeBusy(t) ==
    /\ Waiting(t)
    /\ Abandon(t)
    /\ UNCHANGED <<eng, actions, stored, stray, nextKey>>

\* fetch rejects, and the request is still to arrive.
Broken(t) ==
    /\ Waiting(t)
    /\ Cardinality(stray) < MaxStray
    /\ stray' = stray \cup {[key |-> KeyInUse(t), command |-> tab[t].wait]}
    /\ Abandon(t)
    /\ UNCHANGED <<eng, actions, stored, nextKey>>

ServeStray(r) ==
    /\ stray' = stray \ {r}
    /\ Execute(r.key, r.command)
    /\ UNCHANGED <<tab, nextKey>>

\* The Engagement and the Action are fetched by requests of their own.
RefreshEngagement(t) ==
    /\ tab[t].eng # eng
    /\ tab' = [tab EXCEPT ![t].eng = eng]
    /\ UNCHANGED <<eng, actions, stored, stray, nextKey>>

RefreshActions(t) ==
    /\ tab[t].actions # actions
    /\ tab' = [tab EXCEPT ![t].actions = actions]
    /\ UNCHANGED <<eng, actions, stored, stray, nextKey>>

\* A panel is closed or the page loaded again: the keys it held are gone.
Forget(t) ==
    /\ ~Waiting(t) /\ tab[t].keys # <<>>
    /\ tab' = [tab EXCEPT ![t].keys = <<>>, ![t].told = {}]
    /\ UNCHANGED <<eng, actions, stored, stray, nextKey>>

\* The runner takes the Run up, and it ends (see RunControl).
RunMoves(a) ==
    /\ actions[a].state \in {"queued", "active", "cancelling"}
    /\ actions[a].rev < MaxRevision
    /\ actions' = [actions EXCEPT ![a].rev = @ + 1,
                     ![a].state = IF @ = "queued" THEN "active"
                                  ELSE IF @ = "active" THEN "ended" ELSE "cancelled"]
    /\ UNCHANGED <<eng, stored, tab, stray, nextKey>>

Next ==
    \/ \E t \in Tabs : \/ Click(t)
                       \/ Serve(t) \/ ServeUnheard(t) \/ ServeBusy(t) \/ Broken(t)
                       \/ RefreshEngagement(t) \/ RefreshActions(t) \/ Forget(t)
    \/ \E r \in stray : ServeStray(r)
    \/ \E a \in Ids : RunMoves(a)

Spec == Init /\ [][Next]_vars

-----------------------------------------------------------------------------
(* Properties.                                                             *)

Succeeded == {k \in DOMAIN stored : stored[k].answer = "ok"}

OnEngagement == {"archive", "reopen", "update", "append_scope", "add_scope"}
OnAction     == {"continue", "cancel", "add_scope"}

Wrote(ops) == {k \in Succeeded : stored[k].command.op \in ops}

\* Every command has its effect exactly as often as it is answered with
\* success, however often its request arrives: each revision of the
\* Engagement and each Action comes from one stored answer.
OneEffectPerCommand ==
    /\ eng.rev = 1 + Cardinality(Wrote(OnEngagement))
    /\ Cardinality({a \in Ids : actions[a].state # "none"}) = Cardinality(Wrote({"plan"}))

\* No two commands succeed from the same revision: neither of two tabs ever
\* overwrites what the other wrote and it had not seen.
NoLostUpdate ==
    \A j, k \in Succeeded :
      LET c == stored[j].command
          d == stored[k].command
      IN j # k => /\ {c.op, d.op} \subseteq OnEngagement => c.erev # d.erev
                  /\ {c.op, d.op} \subseteq OnAction /\ c.act = d.act => c.arev # d.arev

\* Nothing is queued past a warning that was not acknowledged: the reasons of
\* the very snapshot that runs are in the acknowledgment bound to it.
QueuedIsAcknowledged ==
    \A a \in Ids :
      LET x == actions[a] IN
      x.queued # 0 /\ x.snaps[x.queued].reasons # {} =>
        x.ack.snap = x.queued /\ x.snaps[x.queued].reasons \subseteq x.ack.reasons

\* An Action is judged under the scope its operator was shown, and skips the
\* warning only under a policy that he was shown.
PlannedAsShown ==
    \A a \in Ids :
      LET x == actions[a] IN
      x.state # "none" => /\ x.snaps[1].scope = x.plan.scope
                          /\ x.ack.source = "engagement_policy" => x.plan.auto

\* Nothing is queued while the Engagement is archived, whichever tab has not
\* noticed yet and whichever request arrives late (mutateAction, persistPlannedAction).
ArchivedIsQuiet ==
    [][\A a \in Ids : actions'[a].state = "queued" /\ actions[a].state # "queued"
                        => eng.status = "active"]_vars

\* A tab that was told of a refusal and asks again is told that the
\* Engagement is archived only while it is.
RefusalsAreCurrent ==
    [][\A t \in Tabs :
         Serve(t) /\ KeyInUse(t) \in tab[t].told
           /\ AnswerTo(KeyInUse(t), tab[t].wait) = "engagement_archived"
         => eng.status = "archived"]_vars
=============================================================================
