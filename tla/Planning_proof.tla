--------------------------- MODULE Planning_proof ---------------------------
(***************************************************************************)
(* Planning, for any number of tabs, targets, Actions, keys and requests   *)
(* under way.  A command is carried out once, under the revisions it       *)
(* names; what follows for the rows needs only what one command does to    *)
(* them, and that a tab's copy of the Engagement is the Engagement for as  *)
(* long as it has the same revision.                                       *)
(***************************************************************************)
EXTENDS Planning, FiniteSetTheorems, TLAPS

AllOperations == OnEngagement \cup OnAction \cup {"plan"}
Reasons == {"outside_scope", "risk"}
Sources == {"none", "engagement_policy", "operator_continue", "add_scope_and_run"}

SnapRow == [scope : Nat, reasons : SUBSET Reasons]
EngRow  == [rev : Nat, status : {"active", "archived"}, auto : BOOLEAN, scope : Nat,
            rules : SUBSET Targets]
ActionRow == [rev : Nat, state : States, target : Targets \cup {"none"}, kind : {"plain", "risky"},
              snaps : Seq(SnapRow), queued : Nat,
              ack : [snap : Nat, reasons : SUBSET Reasons, source : Sources],
              plan : [scope : Nat, auto : BOOLEAN]]
Command == [op : AllOperations, act : Ids \cup {0}, erev : Nat, arev : Nat, scope : Nat,
            rules : SUBSET Targets, auto : BOOLEAN, target : Targets \cup {"none"},
            kind : {"plain", "risky"}, snap : Nat]

\* A copy x of the Engagement e is current for as long as its revision is.
Current(x, e) == x.rev <= e.rev /\ (x.rev = e.rev => x = e)

\* What a tab sent was written in sight of some revision of the Engagement e.
SentAt(c, e) ==
    /\ c \in Command
    /\ c.op \in OnAction => c.act \in Ids
    /\ c.op \in OnEngagement \cup {"plan"} => c.erev <= e.rev
    /\ c.op = "plan" => /\ c.erev = e.rev => c.auto = e.auto
                        /\ c.target \in Targets
Sent(c) == SentAt(c, eng)

\* An Action that was planned has a snapshot and runs under one that was
\* acknowledged; the first was taken of the scope its operator was shown.
Judged(x) ==
    /\ x.state = "none" => x = NoAction
    /\ x.state # "none" => /\ Len(x.snaps) >= 1 /\ x.snaps[1].scope = x.plan.scope
                           /\ x.target \in Targets
    /\ x.queued <= Len(x.snaps) /\ x.ack.snap <= Len(x.snaps)
    /\ x.queued # 0 /\ x.snaps[x.queued].reasons # {} =>
         x.ack.snap = x.queued /\ x.snaps[x.queued].reasons \subseteq x.ack.reasons
    /\ x.ack.source = "engagement_policy" => x.plan.auto

RowsTyped ==
    /\ eng \in EngRow
    /\ actions \in [Ids -> ActionRow]

\* What a tab shows and waits for while the Engagement is e.
TabOk(v, e) ==
    /\ DOMAIN v = {"eng", "actions", "keys", "told", "wait"}
    /\ v.eng \in EngRow /\ Current(v.eng, e)
    /\ v.actions \in [Ids -> ActionRow]
    /\ \A a \in Ids : Judged(v.actions[a])
    /\ v.wait # NoCommand => SentAt(v.wait, e)

TabsTyped ==
    /\ tab = [t \in Tabs |-> tab[t]]
    /\ \A t \in Tabs : TabOk(tab[t], eng)
    /\ \A r \in stray : Sent(r.command)

RowsJudged == \A a \in Ids : Judged(actions[a])

\* What a success was written under has been passed.
Passed(j) ==
    /\ stored[j].command \in Command
    /\ stored[j].command.op \in OnEngagement => stored[j].command.erev < eng.rev
    /\ stored[j].command.op \in OnAction =>
         /\ stored[j].command.act \in Ids
         /\ stored[j].command.arev < actions[stored[j].command.act].rev

StoredPassed == \A j \in Succeeded : Passed(j)

IInv == RowsTyped /\ TabsTyped /\ RowsJudged /\ StoredPassed /\ NoLostUpdate

-----------------------------------------------------------------------------
(* What one command does.                                                  *)

\* A write of an Action row by a command that names it, or by its Run.
RowWritten(x, y) ==
    /\ y \in ActionRow /\ y.rev = x.rev + 1
    /\ x.state # "none" /\ y.state # "none" /\ Judged(y)
    /\ y.state = "queued" => eng.status = "active"

RowPlanned(x, y) ==
    /\ y \in ActionRow /\ x.state = "none" /\ y.state # "none" /\ Judged(y)
    /\ y.state = "queued" => eng.status = "active"

EffectOf(c, m) ==
    /\ m.answer # "ok" => m.eng = eng /\ m.actions = actions
    /\ m.answer = "ok" /\ c.op \in OnEngagement =>
         c.erev = eng.rev /\ m.eng \in EngRow /\ m.eng.rev = eng.rev + 1
    /\ m.answer = "ok" /\ c.op \notin OnEngagement => m.eng = eng
    /\ m.answer = "ok" /\ c.op \in OnAction =>
         /\ c.arev = actions[c.act].rev
         /\ \E y : RowWritten(actions[c.act], y) /\ m.actions = [actions EXCEPT ![c.act] = y]
    /\ m.answer = "ok" /\ c.op = "plan" =>
         \E a \in Ids : \E y : RowPlanned(actions[a], y) /\ m.actions = [actions EXCEPT ![a] = y]
    /\ m.answer = "ok" /\ c.op \notin OnAction \cup {"plan"} => m.actions = actions

LEMMA SnapshotTyped ==
    ASSUME NEW target, NEW kind, NEW e \in EngRow
    PROVE  /\ Snapshot(target, kind, e) \in SnapRow
           /\ Snapshot(target, kind, e).scope = e.scope
  BY DEF Snapshot, SnapRow, EngRow, WarningReasons, TierReasons, Reasons

LEMMA PlannedRow ==
    ASSUME NEW c, Sent(c), c.op = "plan", RowsTyped, eng.status = "active",
           c.scope = eng.scope, c.erev = eng.rev,
           NEW x \in ActionRow, x.state = "none"
    PROVE  RowPlanned(x, Planned(c, eng))
  <1> DEFINE s == Snapshot(c.target, c.kind, eng)
             Unread == [snap |-> 0, reasons |-> {}, source |-> "none"]
             Policy == [snap |-> 1, reasons |-> s.reasons, source |-> "engagement_policy"]
             base == [NoAction EXCEPT !.rev = 1, !.target = c.target, !.kind = c.kind,
                                      !.snaps = <<s>>,
                                      !.plan = [scope |-> c.scope, auto |-> c.auto]]
  <1>1. s \in SnapRow /\ s.scope = c.scope /\ eng.auto = c.auto /\ eng.auto \in BOOLEAN
    BY SnapshotTyped DEF Sent, SentAt, RowsTyped, EngRow
  <1>2. c.target \in Targets /\ c.kind \in {"plain", "risky"} /\ c.scope \in Nat /\ c.auto \in BOOLEAN
    BY DEF Sent, SentAt, Command
  <1>3. Planned(c, eng) = IF s.reasons = {} \/ eng.auto
          THEN [base EXCEPT !.state = "queued", !.queued = 1,
                  !.ack = IF s.reasons = {} THEN @ ELSE Policy]
          ELSE [base EXCEPT !.state = "paused_for_warning"]
    BY DEF Planned, Acknowledgment
  <1> HIDE DEF s
  <1>4. <<s>> \in Seq(SnapRow) /\ Len(<<s>>) = 1 /\ <<s>>[1] = s
    BY <1>1
  <1>5. s.reasons \in SUBSET Reasons
    BY <1>1 DEF SnapRow
  <1>6. NoAction \in ActionRow
    BY DEF NoAction, ActionRow, States, Sources
  <1>7. /\ base \in ActionRow /\ base.snaps = <<s>> /\ base.ack = Unread /\ base.queued = 0
        /\ base.plan = [scope |-> c.scope, auto |-> c.auto] /\ base.target = c.target
    BY <1>2, <1>4, <1>6 DEF ActionRow, NoAction
  <1> HIDE DEF base
  <1>8. CASE s.reasons = {} \/ eng.auto
    <2> DEFINE ack == IF s.reasons = {} THEN base.ack ELSE Policy
               y == [base EXCEPT !.state = "queued", !.queued = 1, !.ack = ack]
    <2>1. Planned(c, eng) = y
      BY <1>3, <1>8
    <2>2. ack \in [snap : Nat, reasons : SUBSET Reasons, source : Sources]
      BY <1>5, <1>7 DEF Sources
    <2>3. s.reasons # {} => ack.snap = 1 /\ ack.reasons = s.reasons
      OBVIOUS
    <2>4. ack.snap <= 1 /\ (ack.source = "engagement_policy" => s.reasons # {})
      BY <1>7
    <2> HIDE DEF ack
    <2>5. /\ y \in ActionRow /\ y.snaps = <<s>> /\ y.ack = ack /\ y.queued = 1
          /\ y.plan = base.plan /\ y.target = base.target /\ y.state = "queued"
      BY <1>7, <2>2 DEF ActionRow, States
    <2> HIDE DEF y
    <2>6. Judged(y)
      BY <1>1, <1>2, <1>4, <1>7, <1>8, <2>3, <2>4, <2>5 DEF Judged
    <2>7. QED
      BY <1>1, <2>1, <2>5, <2>6 DEF RowPlanned
  <1>9. CASE ~(s.reasons = {} \/ eng.auto)
    <2> DEFINE y == [base EXCEPT !.state = "paused_for_warning"]
    <2>1. /\ y \in ActionRow /\ y.snaps = <<s>> /\ y.ack = Unread /\ y.queued = 0
          /\ y.plan = base.plan /\ y.target = base.target /\ y.state = "paused_for_warning" /\ Planned(c, eng) = y
      BY <1>3, <1>7, <1>9 DEF ActionRow, States
    <2> HIDE DEF y
    <2>2. Judged(y)
      BY <1>1, <1>2, <1>4, <1>7, <2>1 DEF Judged
    <2>3. QED
      BY <2>1, <2>2 DEF RowPlanned
  <1>10. QED
    BY <1>8, <1>9

\* A row is written under the next revision with everything else as it was.
LEMMA NextRevision ==
    ASSUME NEW x \in ActionRow, Judged(x)
    PROVE  LET y == [x EXCEPT !.rev = @ + 1] IN
           y \in ActionRow /\ y.rev = x.rev + 1 /\ y.state = x.state /\ (x.state # "none" => Judged(y))
  BY DEF ActionRow, Judged

LEMMA ContinuedRow ==
    ASSUME NEW x \in ActionRow, Judged(x), x.state = "paused_for_warning"
    PROVE  /\ Continued(x) \in ActionRow /\ Continued(x).rev = x.rev
           /\ Continued(x).state = "queued" /\ Judged(Continued(x))
  <1> DEFINE n == Len(x.snaps)
             ack == [snap |-> n, reasons |-> x.snaps[n].reasons, source |-> "operator_continue"]
             y == [x EXCEPT !.state = "queued", !.queued = n, !.ack = ack]
  <1>1. x.snaps \in Seq(SnapRow) /\ n \in Nat \ {0} /\ x.snaps[n] \in SnapRow
    BY DEF ActionRow, Judged
  <1>2. ack \in [snap : Nat, reasons : SUBSET Reasons, source : Sources]
    BY <1>1 DEF SnapRow, Sources
  <1>3. /\ y \in ActionRow /\ y.rev = x.rev /\ y.state = "queued" /\ y.snaps = x.snaps
        /\ y.queued = n /\ y.ack = ack /\ y.plan = x.plan /\ y.target = x.target /\ Continued(x) = y
    BY <1>1, <1>2 DEF ActionRow, States, Continued, Acknowledgment
  <1> HIDE DEF y
  <1>4. Judged(y)
    BY <1>1, <1>3 DEF Judged
  <1>5. QED
    BY <1>3, <1>4

LEMMA ScopeAddedRow ==
    ASSUME NEW x \in ActionRow, Judged(x), x.state = "paused_for_warning", NEW s \in SnapRow
    PROVE  /\ ScopeAdded(x, s) \in ActionRow /\ ScopeAdded(x, s).rev = x.rev
           /\ ScopeAdded(x, s).state = "queued" /\ Judged(ScopeAdded(x, s))
  <1> DEFINE n == Len(x.snaps) + 1
             snaps == Append(x.snaps, s)
             ack == [snap |-> n, reasons |-> s.reasons, source |-> "add_scope_and_run"]
             y == [x EXCEPT !.state = "queued", !.snaps = snaps, !.queued = n, !.ack = ack]
  <1>1. /\ x.snaps \in Seq(SnapRow) /\ Len(x.snaps) \in Nat \ {0} /\ n \in Nat
        /\ snaps \in Seq(SnapRow) /\ Len(snaps) = n /\ snaps[n] = s /\ snaps[1] = x.snaps[1]
    BY DEF ActionRow, Judged
  <1>2. ack \in [snap : Nat, reasons : SUBSET Reasons, source : Sources]
    BY <1>1 DEF SnapRow, Sources
  <1> HIDE DEF snaps
  <1>3. /\ y \in ActionRow /\ y.rev = x.rev /\ y.state = "queued" /\ y.snaps = snaps
        /\ y.queued = n /\ y.ack = ack /\ y.plan = x.plan /\ y.target = x.target
    BY <1>1, <1>2 DEF ActionRow, States
  <1>4. ScopeAdded(x, s) = y
    BY DEF ScopeAdded, Acknowledgment, snaps
  <1> HIDE DEF y
  <1>5. Judged(y)
    BY <1>1, <1>3 DEF Judged
  <1>6. QED
    BY <1>3, <1>4, <1>5

LEMMA StateWritten ==
    ASSUME NEW x \in ActionRow, Judged(x), x.state # "none", NEW state \in States \ {"none"}
    PROVE  LET y == [x EXCEPT !.state = state] IN
           y \in ActionRow /\ y.rev = x.rev /\ y.state = state /\ Judged(y)
  BY DEF ActionRow, Judged

-----------------------------------------------------------------------------
(* The commands.                                                           *)

LEMMA RejectedEffect ==
    ASSUME NEW c, NEW answer, answer # "ok"
    PROVE  EffectOf(c, Rejected(answer))
  BY DEF EffectOf, Rejected, Outcome

\* An Action is written by the command that names it.
LEMMA WriteEffect ==
    ASSUME RowsTyped, NEW c, c.act \in Ids, c.op \in OnAction, c.arev = actions[c.act].rev,
           NEW e, NEW x \in ActionRow,
           x.rev = actions[c.act].rev, actions[c.act].state # "none", x.state # "none", Judged(x),
           x.state = "queued" => eng.status = "active",
           IF c.op \in OnEngagement
             THEN c.erev = eng.rev /\ e \in EngRow /\ e.rev = eng.rev + 1
             ELSE e = eng
    PROVE  EffectOf(c, Write(c, e, x))
  <1> DEFINE y == [x EXCEPT !.rev = @ + 1]
  <1>1. RowWritten(actions[c.act], y)
    BY NextRevision DEF RowWritten
  <1>2. /\ Write(c, e, x).answer = "ok" /\ Write(c, e, x).eng = e
        /\ Write(c, e, x).actions = [actions EXCEPT ![c.act] = y]
    BY DEF Write, Outcome
  <1> HIDE DEF y
  <1>3. c.op # "plan"
    BY DEF OnAction
  <1>4. QED
    BY <1>1, <1>2, <1>3 DEF EffectOf

LEMMA PlanEffect ==
    ASSUME RowsTyped, NEW c, Sent(c), c.op = "plan", HasRoom(c)
    PROVE  EffectOf(c, Plan(c))
  <1>1. CASE PlanIsStale(c) \/ Archived \/ c.scope # eng.scope
    BY <1>1, RejectedEffect DEF Plan
  <1>2. CASE ~(PlanIsStale(c) \/ Archived \/ c.scope # eng.scope)
    <2> DEFINE a == CHOOSE n \in Ids : actions[n].state = "none"
               y == Planned(c, eng)
    <2>1. a \in Ids /\ actions[a].state = "none"
      BY DEF HasRoom
    <2>2. eng.status = "active" /\ c.scope = eng.scope /\ c.erev = eng.rev
      BY <1>2 DEF PlanIsStale, Stale, Archived, RowsTyped, EngRow
    <2>3. Plan(c) = [Outcome("ok", eng, [actions EXCEPT ![a] = y]) EXCEPT !.act = a]
      BY <1>2 DEF Plan
    <2> HIDE DEF a, y
    <2>4. RowPlanned(actions[a], y)
      BY <2>1, <2>2, PlannedRow DEF y, RowsTyped
    <2>5. /\ Plan(c).answer = "ok" /\ Plan(c).eng = eng
          /\ Plan(c).actions = [actions EXCEPT ![a] = y]
      BY <2>3 DEF Outcome
    <2>6. c.op \notin OnEngagement \cup OnAction
      BY DEF OnEngagement, OnAction
    <2>7. QED
      BY <2>1, <2>4, <2>5, <2>6 DEF EffectOf
  <1>3. QED
    BY <1>1, <1>2

LEMMA ContinueEffect ==
    ASSUME RowsTyped, RowsJudged, NEW c, Sent(c), c.op = "continue"
    PROVE  EffectOf(c, Continue(c))
  <1> DEFINE x == actions[c.act]
  <1>1. c.act \in Ids /\ c.op \in OnAction /\ c.op \notin OnEngagement
    BY DEF Sent, SentAt, OnAction, OnEngagement
  <1>2. x \in ActionRow /\ Judged(x)
    BY <1>1 DEF RowsTyped, RowsJudged
  <1>3. CASE MayMutate(c) # "ok" \/ x.state # "paused_for_warning" \/ x.queued # 0 \/ c.snap # Len(x.snaps)
    BY <1>3, RejectedEffect DEF Continue
  <1>4. CASE ~(MayMutate(c) # "ok" \/ x.state # "paused_for_warning" \/ x.queued # 0 \/ c.snap # Len(x.snaps))
    <2>1. c.arev = x.rev /\ eng.status = "active" /\ x.state = "paused_for_warning"
      BY <1>4 DEF MayMutate, Stale, Archived, RowsTyped, EngRow
    <2>2. Continue(c) = Write(c, eng, Continued(x))
      BY <1>4 DEF Continue
    <2> HIDE DEF x
    <2>3. /\ Continued(x) \in ActionRow /\ Continued(x).rev = x.rev
          /\ Continued(x).state = "queued" /\ Judged(Continued(x))
      BY <1>2, <2>1, ContinuedRow
    <2>4. QED
      BY <1>1, <2>1, <2>2, <2>3, WriteEffect DEF x
  <1>5. QED
    BY <1>3, <1>4

LEMMA CancelEffect ==
    ASSUME RowsTyped, RowsJudged, NEW c, Sent(c), c.op = "cancel"
    PROVE  EffectOf(c, Cancel(c))
  <1> DEFINE x == actions[c.act]
  <1>1. c.act \in Ids /\ c.op \in OnAction /\ c.op \notin OnEngagement
    BY DEF Sent, SentAt, OnAction, OnEngagement
  <1>2. x \in ActionRow /\ Judged(x)
    BY <1>1 DEF RowsTyped, RowsJudged
  <1> DEFINE live == x.state \in {"paused_for_warning", "queued", "active"}
  <1>3. CASE MayMutate(c) # "ok" \/ ~live
    BY <1>3, RejectedEffect DEF Cancel
  <1>4. CASE ~(MayMutate(c) # "ok" \/ ~live)
    <2>1. c.arev = x.rev /\ live
      BY <1>4 DEF MayMutate, Stale
    <2>2. Cancel(c) = Write(c, eng, Cancelled(x))
      BY <1>4 DEF Cancel
    <2> HIDE DEF x
    <2>3. /\ Cancelled(x) \in ActionRow /\ Cancelled(x).rev = x.rev /\ Judged(Cancelled(x))
          /\ Cancelled(x).state \in {"cancelling", "cancelled"}
      BY <1>2, <2>1, StateWritten DEF Cancelled, States
    <2>4. QED
      BY <1>1, <2>1, <2>2, <2>3, WriteEffect DEF x
  <1>5. QED
    BY <1>3, <1>4

LEMMA NewScopeTyped ==
    ASSUME RowsTyped, NEW rules \in SUBSET Targets
    PROVE  NewScope(rules) \in EngRow /\ NewScope(rules).rev = eng.rev + 1
  <1> DEFINE e == [eng EXCEPT !.rev = eng.rev + 1, !.scope = eng.scope + 1, !.rules = rules]
  <1>1. NewScope(rules) = e
    BY DEF NewScope
  <1>2. eng.rev + 1 \in Nat /\ eng.scope + 1 \in Nat
    BY DEF RowsTyped, EngRow
  <1>3. e \in EngRow /\ e.rev = eng.rev + 1
    BY <1>2 DEF RowsTyped, EngRow
  <1>4. QED
    BY <1>1, <1>3

LEMMA AppendScopeEffect ==
    ASSUME RowsTyped, NEW c, Sent(c), c.op = "append_scope"
    PROVE  EffectOf(c, AppendScope(c))
  <1>1. c.op \in OnEngagement /\ c.op \notin OnAction \cup {"plan"} /\ c.rules \in SUBSET Targets
    BY DEF Sent, SentAt, Command, OnAction, OnEngagement
  <1>2. CASE Stale(c.erev, eng.rev) \/ Archived
    BY <1>2, RejectedEffect DEF AppendScope
  <1>3. CASE ~(Stale(c.erev, eng.rev) \/ Archived)
    <2>1. AppendScope(c) = Outcome("ok", NewScope(c.rules), actions)
      BY <1>3 DEF AppendScope
    <2>2. QED
      BY <1>1, <1>3, <2>1, NewScopeTyped DEF EffectOf, Outcome, Stale
  <1>4. QED
    BY <1>2, <1>3

LEMMA AddScopeEffect ==
    ASSUME RowsTyped, RowsJudged, NEW c, Sent(c), c.op = "add_scope"
    PROVE  EffectOf(c, AddScopeAndRun(c))
  <1> DEFINE x == actions[c.act]
             e == NewScope(c.rules)
             s == Snapshot(x.target, x.kind, e)
  <1>1. c.act \in Ids /\ c.op \in OnAction /\ c.op \in OnEngagement /\ c.rules \in SUBSET Targets
    BY DEF Sent, SentAt, Command, OnAction, OnEngagement
  <1>2. x \in ActionRow /\ Judged(x)
    BY <1>1 DEF RowsTyped, RowsJudged
  <1>3. CASE Stale(c.arev, x.rev) \/ x.state # "paused_for_warning"
    BY <1>3, RejectedEffect DEF AddScopeAndRun
  <1>4. CASE ~(Stale(c.arev, x.rev) \/ x.state # "paused_for_warning") /\ (Stale(c.erev, eng.rev) \/ Archived)
    <2>1. \E answer : answer # "ok" /\ AppendScope(c) = Rejected(answer)
      BY <1>4 DEF AppendScope
    <2>2. AppendScope(c).answer # "ok"
      BY <2>1 DEF Rejected, Outcome
    <2>3. AddScopeAndRun(c) = AppendScope(c)
      BY <1>4, <2>2 DEF AddScopeAndRun
    <2>4. QED
      BY <2>1, <2>3, RejectedEffect
  <1>5. CASE ~(Stale(c.arev, x.rev) \/ x.state # "paused_for_warning" \/ Stale(c.erev, eng.rev) \/ Archived)
    <2>1. AppendScope(c).answer = "ok"
      BY <1>5 DEF AppendScope, Outcome
    <2>2. AddScopeAndRun(c) = Write(c, e, ScopeAdded(x, s))
      BY <1>5, <2>1 DEF AddScopeAndRun
    <2>3. c.arev = x.rev /\ x.state = "paused_for_warning" /\ c.erev = eng.rev /\ eng.status = "active"
      BY <1>5 DEF Stale, Archived, RowsTyped, EngRow
    <2>4. e \in EngRow /\ e.rev = eng.rev + 1
      BY <1>1, NewScopeTyped
    <2>5. s \in SnapRow
      BY <2>4, SnapshotTyped
    <2> HIDE DEF x, e, s
    <2>6. /\ ScopeAdded(x, s) \in ActionRow /\ ScopeAdded(x, s).rev = x.rev
          /\ ScopeAdded(x, s).state = "queued" /\ Judged(ScopeAdded(x, s))
      BY <1>2, <2>3, <2>5, ScopeAddedRow
    <2>7. QED
      BY <1>1, <2>2, <2>3, <2>4, <2>6, WriteEffect DEF x
  <1>6. QED
    BY <1>3, <1>4, <1>5

LEMMA SetStatusEffect ==
    ASSUME RowsTyped, NEW c, c.op \in {"archive", "reopen"}, NEW status \in {"active", "archived"}
    PROVE  EffectOf(c, SetStatus(c, status))
  <1>1. c.op \in OnEngagement /\ c.op \notin OnAction \cup {"plan"}
    BY DEF OnAction, OnEngagement
  <1>2. CASE Stale(c.erev, eng.rev) \/ eng.status = status
    BY <1>2, RejectedEffect DEF SetStatus
  <1>3. CASE ~(Stale(c.erev, eng.rev) \/ eng.status = status)
    <2> DEFINE e == [eng EXCEPT !.status = status, !.rev = eng.rev + 1]
    <2>1. SetStatus(c, status) = Outcome("ok", e, actions)
      BY <1>3 DEF SetStatus
    <2>0. eng.rev + 1 \in Nat
      BY DEF RowsTyped, EngRow
    <2>2. e \in EngRow /\ e.rev = eng.rev + 1
      BY <2>0 DEF RowsTyped, EngRow
    <2> HIDE DEF e
    <2>3. QED
      BY <1>1, <1>3, <2>1, <2>2 DEF EffectOf, Outcome, Stale
  <1>4. QED
    BY <1>2, <1>3

LEMMA UpdateEffect ==
    ASSUME RowsTyped, NEW c, Sent(c), c.op = "update"
    PROVE  EffectOf(c, Update(c))
  <1>1. c.op \in OnEngagement /\ c.op \notin OnAction \cup {"plan"} /\ c.auto \in BOOLEAN
    BY DEF Sent, SentAt, Command, OnAction, OnEngagement
  <1>2. CASE Stale(c.erev, eng.rev) \/ Archived
    BY <1>2, RejectedEffect DEF Update
  <1>3. CASE ~(Stale(c.erev, eng.rev) \/ Archived)
    <2> DEFINE e == [eng EXCEPT !.auto = c.auto, !.rev = eng.rev + 1]
    <2>1. Update(c) = Outcome("ok", e, actions)
      BY <1>3 DEF Update
    <2>0. eng.rev + 1 \in Nat
      BY DEF RowsTyped, EngRow
    <2>2. e \in EngRow /\ e.rev = eng.rev + 1
      BY <1>1, <2>0 DEF RowsTyped, EngRow
    <2> HIDE DEF e
    <2>3. QED
      BY <1>1, <1>3, <2>1, <2>2 DEF EffectOf, Outcome, Stale
  <1>4. QED
    BY <1>2, <1>3

LEMMA MutationEffect ==
    ASSUME RowsTyped, RowsJudged, NEW c, Sent(c), HasRoom(c)
    PROVE  EffectOf(c, Mutation(c))
  <1>1. c.op \in {"plan", "continue", "add_scope", "cancel", "archive", "reopen", "update", "append_scope"}
    BY DEF Sent, SentAt, Command, AllOperations, OnAction, OnEngagement
  <1>2. CASE c.op = "plan"
    BY <1>2, PlanEffect DEF Mutation
  <1>3. CASE c.op = "continue"
    BY <1>3, ContinueEffect DEF Mutation
  <1>4. CASE c.op = "add_scope"
    BY <1>4, AddScopeEffect DEF Mutation
  <1>5. CASE c.op = "cancel"
    BY <1>5, CancelEffect DEF Mutation
  <1>6. CASE c.op \in {"archive", "reopen"}
    BY <1>6, SetStatusEffect DEF Mutation
  <1>7. CASE c.op = "update"
    BY <1>7, UpdateEffect DEF Mutation
  <1>8. CASE c.op = "append_scope"
    BY <1>8, AppendScopeEffect DEF Mutation
  <1>9. QED
    BY <1>1, <1>2, <1>3, <1>4, <1>5, <1>6, <1>7, <1>8

-----------------------------------------------------------------------------
(* What a tab can send.                                                    *)

LEMMA OffersSent ==
    ASSUME RowsTyped, TabsTyped, NEW t \in Tabs, NEW c \in Offers(t)
    PROVE  Sent(c)
  <1> DEFINE v == tab[t]
  <1> USE DEF Of, OnEng, OnAct, Sent, SentAt, Command, NoCommand, AllOperations, OnAction, OnEngagement
  <1>1. /\ v.eng.rev \in Nat /\ v.eng.scope \in Nat /\ v.eng.auto \in BOOLEAN
        /\ v.eng.rules \in SUBSET Targets /\ Current(v.eng, eng) /\ eng.rev \in Nat
    BY DEF RowsTyped, TabsTyped, TabOk, EngRow
  <1>2. \A a \in Ids : /\ v.actions[a].rev \in Nat /\ Len(v.actions[a].snaps) \in Nat
                       /\ v.actions[a].state = "paused_for_warning" => v.actions[a].target \in Targets
    BY DEF TabsTyped, TabOk, ActionRow, Judged
  <1>3. \A a \in Ids : Sent(ContinueOf(t, a)) /\ Sent(CancelOf(t, a))
    BY <1>2 DEF ContinueOf, CancelOf
  <1>4. \A a \in Ids : v.actions[a].state = "paused_for_warning" => Sent(AddScopeOf(t, a))
    BY <1>1, <1>2 DEF AddScopeOf, Current
  <1>5. \A target \in Targets, kind \in Kinds : Sent(PlanOf(t, target, kind))
    BY <1>1, PlanningAssumption DEF PlanOf, Current
  <1>6. Sent(OnEng(t, "archive")) /\ Sent(OnEng(t, "reopen"))
    BY <1>1 DEF Current
  <1>7. Sent(UpdateOf(t))
    BY <1>1 DEF UpdateOf, Current
  <1>8. \A rules \in SUBSET Targets : Sent(AppendScopeOf(t, rules))
    BY <1>1 DEF AppendScopeOf, Current
  <1> HIDE DEF Of, OnEng, OnAct, Sent, SentAt
  <1>9. ASSUME c \in Cards(t) PROVE Sent(c)
    BY <1>3, <1>4, <1>9 DEF Cards, Warned, Shows
  <1>10. ASSUME c \in Forms(t) PROVE Sent(c)
    BY <1>5, <1>6, <1>7, <1>8, <1>10 DEF Forms
  <1>11. QED
    BY <1>6, <1>9, <1>10 DEF Offers

-----------------------------------------------------------------------------
(* Steps.                                                                  *)

\* What any step does to the rows: revisions only grow, and nothing is queued
\* in an archived Engagement.
Advance(e, as) ==
    /\ e \in EngRow /\ as \in [Ids -> ActionRow] /\ \A a \in Ids : Judged(as[a])
    /\ e = eng \/ e.rev > eng.rev
    /\ \A a \in Ids : as[a].rev >= actions[a].rev
    /\ \A a \in Ids : as[a].state = "queued" /\ actions[a].state # "queued" => eng.status = "active"

LEMMA RowsAdvance ==
    ASSUME RowsTyped, RowsJudged, NEW c, Sent(c), HasRoom(c)
    PROVE  Advance(Mutation(c).eng, Mutation(c).actions)
  <1> DEFINE m == Mutation(c)
  <1>1. EffectOf(c, m)
    BY MutationEffect
  <1> SUFFICES Advance(m.eng, m.actions)
    OBVIOUS
  <1> HIDE DEF m
  <1>2. /\ eng \in EngRow /\ eng.rev \in Nat /\ actions \in [Ids -> ActionRow]
        /\ \A a \in Ids : actions[a] \in ActionRow /\ actions[a].rev \in Nat
    BY DEF RowsTyped, EngRow, ActionRow
  <1>3. m.eng \in EngRow /\ (m.eng = eng \/ m.eng.rev > eng.rev)
    BY <1>1, <1>2 DEF EffectOf
  <1>4. ASSUME NEW a \in Ids, NEW y, m.actions = [actions EXCEPT ![a] = y],
               RowWritten(actions[a], y) \/ RowPlanned(actions[a], y)
        PROVE  /\ m.actions \in [Ids -> ActionRow] /\ \A b \in Ids : Judged(m.actions[b])
               /\ \A b \in Ids : m.actions[b].rev >= actions[b].rev
               /\ \A b \in Ids : m.actions[b].state = "queued" /\ actions[b].state # "queued"
                                  => eng.status = "active"
    <2>1. y \in ActionRow /\ y.rev \in Nat /\ Judged(y) /\ (y.state = "queued" => eng.status = "active")
      BY <1>4 DEF RowWritten, RowPlanned, ActionRow
    <2>2. y.rev >= actions[a].rev
      BY <1>2, <1>4, <2>1 DEF RowWritten, RowPlanned, RowsJudged, Judged, NoAction
    <2>3. \A b \in Ids : m.actions[b] = IF b = a THEN y ELSE actions[b]
      BY <1>2, <1>4
    <2>4. m.actions \in [Ids -> ActionRow]
      BY <1>2, <1>4, <2>1
    <2>5. QED
      BY <1>2, <2>1, <2>2, <2>3, <2>4 DEF RowsJudged
  <1>5. CASE m.actions = actions
    BY <1>2, <1>3, <1>5 DEF Advance, RowsJudged
  <1>6. CASE m.actions # actions
    <2>1. m.answer = "ok" /\ c.op \in OnAction \cup {"plan"}
      BY <1>1, <1>6 DEF EffectOf
    <2>2. \E a \in Ids : \E y : /\ m.actions = [actions EXCEPT ![a] = y]
                                /\ RowWritten(actions[a], y) \/ RowPlanned(actions[a], y)
      BY <1>1, <2>1 DEF EffectOf, Sent, SentAt
    <2>3. QED
      BY <1>3, <1>4, <2>2 DEF Advance
  <1>7. QED
    BY <1>5, <1>6

LEMMA RunMovesAdvance ==
    ASSUME RowsTyped, RowsJudged, NEW a \in Ids, RunMoves(a)
    PROVE  Advance(eng', actions')
  <1> DEFINE x == actions[a]
             st == IF x.state = "queued" THEN "active"
                   ELSE IF x.state = "active" THEN "ended" ELSE "cancelled"
             z == [x EXCEPT !.rev = @ + 1]
             y == [z EXCEPT !.state = st]
  <1>1. x \in ActionRow /\ Judged(x) /\ x.rev \in Nat
    BY DEF RowsTyped, RowsJudged, ActionRow
  <1>2. x.state # "none" /\ st \in States \ {"none"} /\ st # "queued"
    BY DEF RunMoves, States
  <1>3. actions' = [actions EXCEPT ![a] = y] /\ eng' = eng
    <2>1. actions \in [Ids -> ActionRow] /\ DOMAIN x = DOMAIN z /\ z.state = x.state
      BY <1>1 DEF RowsTyped, ActionRow
    <2>2. actions' = [actions EXCEPT ![a].rev = @ + 1, ![a].state = IF @ = "queued" THEN "active"
                                  ELSE IF @ = "active" THEN "ended" ELSE "cancelled"]
      BY DEF RunMoves
    <2>3. QED
      BY <2>1, <2>2 DEF RunMoves
  <1> HIDE DEF x, st
  <1>4. y \in ActionRow /\ Judged(y) /\ y.rev = x.rev + 1 /\ y.state # "queued"
    BY <1>1, <1>2, StateWritten, NextRevision
  <1> HIDE DEF y
  <1>5. \A b \in Ids : actions'[b] = IF b = a THEN y ELSE actions[b]
    BY <1>3 DEF RowsTyped
  <1>6. actions' \in [Ids -> ActionRow]
    BY <1>3, <1>4 DEF RowsTyped
  <1>7. \A b \in Ids : actions[b].rev \in Nat
    BY DEF RowsTyped, ActionRow
  <1>8. QED
    BY <1>1, <1>3, <1>4, <1>5, <1>6, <1>7 DEF Advance, RowsTyped, RowsJudged, x

LEMMA StillAdvance ==
    ASSUME RowsTyped, RowsJudged
    PROVE  Advance(eng, actions)
  BY DEF Advance, RowsTyped, RowsJudged, ActionRow

\* Copies and commands stay what they are when the Engagement moves on.
LEMMA CopiesStay ==
    ASSUME RowsTyped, NEW e, NEW as, Advance(e, as), NEW x \in EngRow, Current(x, eng)
    PROVE  Current(x, e)
  BY DEF RowsTyped, Advance, EngRow, Current

LEMMA SentStays ==
    ASSUME RowsTyped, NEW e, NEW as, Advance(e, as), NEW c, Sent(c)
    PROVE  SentAt(c, e)
  BY DEF RowsTyped, Advance, EngRow, Sent, SentAt, Command

LEMMA TabStays ==
    ASSUME RowsTyped, NEW e, NEW as, Advance(e, as), NEW v, TabOk(v, eng)
    PROVE  TabOk(v, e)
  BY CopiesStay, SentStays DEF TabOk, Sent

\* What is stored is never written again; a new answer is of a command that
\* was carried out under the revisions it names.
LEMMA StoredAfter ==
    ASSUME NEW k, NEW c, ~Known(k), Execute(k, c)
    PROVE  LET m == Mutation(c) IN
           /\ HasRoom(c) /\ eng' = m.eng /\ actions' = m.actions
           /\ DOMAIN stored' = DOMAIN stored \cup {k}
           /\ \A j \in DOMAIN stored : stored'[j] = stored[j]
           /\ stored'[k].command = c /\ stored'[k].answer = m.answer
           /\ Succeeded' = Succeeded \cup (IF m.answer = "ok" THEN {k} ELSE {})
  <1> DEFINE m == Mutation(c)
             r == [command |-> c, answer |-> m.answer, act |-> m.act]
  <1>1. /\ HasRoom(c) /\ eng' = m.eng /\ actions' = m.actions /\ stored' = With(stored, k, r)
        /\ k \notin DOMAIN stored
    BY DEF Execute, Known
  <1>2. r.command = c /\ r.answer = m.answer
    OBVIOUS
  <1> SUFFICES /\ DOMAIN stored' = DOMAIN stored \cup {k}
               /\ \A j \in DOMAIN stored : stored'[j] = stored[j]
               /\ stored'[k] = r
               /\ Succeeded' = Succeeded \cup (IF r.answer = "ok" THEN {k} ELSE {})
    BY <1>1, <1>2
  <1> HIDE DEF r, m
  <1>3. /\ DOMAIN stored' = DOMAIN stored \cup {k}
        /\ \A j \in DOMAIN stored : stored'[j] = stored[j]
        /\ stored'[k] = r
    BY <1>1 DEF With
  <1>4. QED
    BY <1>1, <1>3 DEF Succeeded

LEMMA PassedStays ==
    ASSUME RowsTyped, Advance(eng', actions'), NEW j, Passed(j), stored'[j] = stored[j]
    PROVE  Passed(j)'
  <1> DEFINE c == stored[j].command
  <1>1. c \in Command /\ stored'[j].command = c
    BY DEF Passed
  <1>2. c.op \in OnEngagement => c.erev < eng.rev
    BY DEF Passed
  <1>3. c.op \in OnAction => c.act \in Ids /\ c.arev < actions[c.act].rev
    BY DEF Passed
  <1>4. c.erev \in Nat /\ c.arev \in Nat
    BY <1>1 DEF Command
  <1> HIDE DEF c
  <1>5. eng.rev \in Nat /\ eng'.rev \in Nat /\ eng.rev <= eng'.rev
    BY DEF Advance, RowsTyped, EngRow
  <1>6. c.op \in OnEngagement => c.erev < eng'.rev
    BY <1>2, <1>4, <1>5
  <1>7. ASSUME c.op \in OnAction PROVE c.act \in Ids /\ c.arev < actions'[c.act].rev
    <2>1. /\ actions[c.act].rev \in Nat /\ actions'[c.act].rev \in Nat
          /\ actions[c.act].rev <= actions'[c.act].rev
      BY <1>3, <1>7 DEF Advance, RowsTyped, ActionRow
    <2>2. QED
      BY <1>3, <1>4, <1>7, <2>1
  <1>8. QED
    BY <1>1, <1>6, <1>7 DEF Passed, c

LEMMA StoredKept ==
    ASSUME IInv, stored' = stored, Advance(eng', actions')
    PROVE  StoredPassed' /\ NoLostUpdate'
  <1>1. Succeeded' = Succeeded
    BY DEF Succeeded
  <1>2. ASSUME NEW j \in Succeeded PROVE Passed(j)'
    <2>1. Passed(j) /\ stored'[j] = stored[j]
      BY <1>2 DEF IInv, StoredPassed
    <2>2. QED
      BY <2>1, PassedStays DEF IInv
  <1>3. QED
    BY <1>1, <1>2 DEF IInv, StoredPassed, NoLostUpdate

LEMMA ExecuteStep ==
    ASSUME IInv, NEW k, NEW c, Sent(c), Execute(k, c)
    PROVE  Advance(eng', actions') /\ StoredPassed' /\ NoLostUpdate'
  <1>1. CASE Known(k)
    <2>1. eng' = eng /\ actions' = actions /\ stored' = stored
      BY <1>1 DEF Execute
    <2>2. Advance(eng', actions')
      BY <2>1, StillAdvance DEF IInv
    <2>3. QED
      BY <2>1, <2>2, StoredKept
  <1>2. CASE ~Known(k)
    <2> DEFINE m == Mutation(c)
    <2>1. /\ HasRoom(c) /\ eng' = m.eng /\ actions' = m.actions
          /\ \A j \in DOMAIN stored : stored'[j] = stored[j]
          /\ stored'[k].command = c /\ k \notin DOMAIN stored
          /\ Succeeded' = Succeeded \cup (IF m.answer = "ok" THEN {k} ELSE {})
      BY <1>2, StoredAfter DEF Known
    <2>2. Advance(eng', actions')
      BY <2>1, RowsAdvance DEF IInv
    <2>3. EffectOf(c, m)
      BY <2>1, MutationEffect DEF IInv
    <2> HIDE DEF m
    <2>4. ASSUME NEW j \in Succeeded
          PROVE  stored'[j].command = stored[j].command /\ Passed(j) /\ Passed(j)'
      <3>1. j \in DOMAIN stored
        BY DEF Succeeded
      <3>2. stored'[j] = stored[j]
        BY <2>1, <3>1
      <3>3. Passed(j)
        BY DEF IInv, StoredPassed
      <3>4. QED
        BY <2>2, <3>2, <3>3, PassedStays DEF IInv
    <2>5. ASSUME m.answer = "ok"
          PROVE  /\ c.op \in OnEngagement => c.erev = eng.rev /\ c.erev < eng'.rev
                 /\ c.op \in OnAction => /\ c.act \in Ids /\ c.arev = actions[c.act].rev
                                         /\ c.arev < actions'[c.act].rev
      <3>1. c.op \in OnEngagement => c.erev = eng.rev /\ c.erev < eng'.rev
        BY <2>1, <2>3, <2>5 DEF EffectOf, IInv, RowsTyped, EngRow
      <3>2. ASSUME c.op \in OnAction
            PROVE  c.act \in Ids /\ c.arev = actions[c.act].rev /\ c.arev < actions'[c.act].rev
        <4>1. c.act \in Ids
          BY <3>2 DEF Sent, SentAt
        <4>2. PICK y : RowWritten(actions[c.act], y) /\ m.actions = [actions EXCEPT ![c.act] = y]
          BY <2>3, <2>5, <3>2 DEF EffectOf
        <4>3. actions'[c.act] = y /\ actions[c.act].rev \in Nat
          BY <2>1, <4>1, <4>2 DEF IInv, RowsTyped, ActionRow
        <4>4. QED
          BY <2>3, <2>5, <3>2, <4>1, <4>2, <4>3 DEF EffectOf, RowWritten
      <3>3. QED
        BY <3>1, <3>2
    <2>6. StoredPassed'
      BY <2>1, <2>4, <2>5 DEF StoredPassed, Passed, Sent, SentAt
    <2>7. NoLostUpdate'
      <3> SUFFICES ASSUME NEW j \in Succeeded', NEW l \in Succeeded', j # l
                   PROVE  LET a == stored'[j].command
                              b == stored'[l].command
                          IN /\ {a.op, b.op} \subseteq OnEngagement => a.erev # b.erev
                             /\ {a.op, b.op} \subseteq OnAction /\ a.act = b.act => a.arev # b.arev
        BY DEF NoLostUpdate
      <3>1. CASE j \in Succeeded /\ l \in Succeeded
        BY <2>4, <3>1 DEF IInv, NoLostUpdate
      <3>2. CASE j = k /\ l \in Succeeded /\ m.answer = "ok"
        <4> DEFINE d == stored[l].command
        <4>1. Passed(l) /\ d \in Command /\ stored'[l].command = d /\ stored'[j].command = c
          BY <2>1, <2>4, <3>2 DEF Passed
        <4>2. d.op \in OnEngagement /\ c.op \in OnEngagement => d.erev # c.erev
          BY <2>5, <3>2, <4>1 DEF Passed, Command, IInv, RowsTyped, EngRow
        <4>3. d.op \in OnAction /\ c.op \in OnAction /\ d.act = c.act => d.arev # c.arev
          BY <2>5, <3>2, <4>1 DEF Passed, Command, IInv, RowsTyped, ActionRow
        <4> HIDE DEF d
        <4>4. QED
          BY <3>2, <4>1, <4>2, <4>3
      <3>3. CASE l = k /\ j \in Succeeded /\ m.answer = "ok"
        <4> DEFINE d == stored[j].command
        <4>1. Passed(j) /\ d \in Command /\ stored'[j].command = d /\ stored'[l].command = c
          BY <2>1, <2>4, <3>3 DEF Passed
        <4>2. d.op \in OnEngagement /\ c.op \in OnEngagement => d.erev # c.erev
          BY <2>5, <3>3, <4>1 DEF Passed, Command, IInv, RowsTyped, EngRow
        <4>3. d.op \in OnAction /\ c.op \in OnAction /\ d.act = c.act => d.arev # c.arev
          BY <2>5, <3>3, <4>1 DEF Passed, Command, IInv, RowsTyped, ActionRow
        <4> HIDE DEF d
        <4>4. QED
          BY <3>3, <4>1, <4>2, <4>3
      <3>4. QED
        BY <2>1, <3>1, <3>2, <3>3
    <2>8. QED
      BY <2>2, <2>6, <2>7
  <1>3. QED
    BY <1>1, <1>2

-----------------------------------------------------------------------------
\* The tabs.  A step of one of them leaves the others as they are, or moves
\* the Engagement on under them.
LEMMA OneTab ==
    ASSUME IInv, Advance(eng', actions'), NEW t \in Tabs,
           tab' = [s \in Tabs |-> tab'[s]], \A s \in Tabs : s # t => tab'[s] = tab[s],
           TabOk(tab'[t], eng'), \A r \in stray' : r \in stray \/ Sent(r.command)
    PROVE  TabsTyped'
  <1>1. \A s \in Tabs : s # t => TabOk(tab'[s], eng')
    BY TabStays DEF IInv, TabsTyped
  <1>2. \A r \in stray' : SentAt(r.command, eng')
    BY SentStays DEF IInv, TabsTyped
  <1>3. QED
    BY <1>1, <1>2 DEF TabsTyped, Sent

LEMMA NoTabMoves ==
    ASSUME IInv, Advance(eng', actions'), tab' = tab, stray' \subseteq stray
    PROVE  TabsTyped'
  <1>1. \A s \in Tabs : TabOk(tab'[s], eng')
    BY TabStays DEF IInv, TabsTyped
  <1>2. \A r \in stray' : SentAt(r.command, eng')
    BY SentStays DEF IInv, TabsTyped
  <1>3. QED
    BY <1>1, <1>2 DEF IInv, TabsTyped, Sent

\* Pressing a button and settling touch only what the tab waits for and the
\* keys it holds.
LEMMA WaitSet ==
    ASSUME NEW v, NEW e, TabOk(v, e), NEW w, DOMAIN w = DOMAIN v, w.eng = v.eng,
           w.actions = v.actions, w.wait # NoCommand => SentAt(w.wait, e)
    PROVE  TabOk(w, e)
  BY DEF TabOk

LEMMA AbandonedTab ==
    ASSUME IInv, Advance(eng', actions'), NEW t \in Tabs, Abandon(t),
           \A r \in stray' : r \in stray \/ Sent(r.command)
    PROVE  TabsTyped'
  <1>1. TabOk(tab[t], eng) /\ tab = [s \in Tabs |-> tab[s]]
    BY DEF IInv, TabsTyped
  <1>2. tab' = [tab EXCEPT ![t] = [tab[t] EXCEPT !.wait = NoCommand]]
    BY <1>1 DEF Abandon
  <1>3. /\ tab' = [s \in Tabs |-> tab'[s]] /\ \A s \in Tabs : s # t => tab'[s] = tab[s]
        /\ tab'[t] = [tab[t] EXCEPT !.wait = NoCommand]
    BY <1>1, <1>2
  <1>4. TabOk(tab[t], eng')
    BY <1>1, TabStays DEF IInv
  <1>5. TabOk(tab'[t], eng')
    BY <1>3, <1>4, WaitSet DEF TabOk
  <1>6. QED
    BY <1>3, <1>5, OneTab

LEMMA SettledTab ==
    ASSUME IInv, Advance(eng', actions'), NEW t \in Tabs, NEW answer,
           tab' = [tab EXCEPT ![t] = Settled(t, answer)], stray' = stray
    PROVE  TabsTyped'
  <1>1. TabOk(tab[t], eng) /\ tab = [s \in Tabs |-> tab[s]]
    BY DEF IInv, TabsTyped
  <1>2. /\ tab' = [s \in Tabs |-> tab'[s]] /\ \A s \in Tabs : s # t => tab'[s] = tab[s]
        /\ tab'[t] = Settled(t, answer)
    BY <1>1
  <1>3. TabOk(tab[t], eng')
    BY <1>1, TabStays DEF IInv
  <1>4. /\ DOMAIN tab'[t] = DOMAIN tab[t] /\ tab'[t].eng = tab[t].eng
        /\ tab'[t].actions = tab[t].actions /\ tab'[t].wait = NoCommand
    BY <1>1, <1>2 DEF Settled, TabOk
  <1>5. TabOk(tab'[t], eng')
    BY <1>3, <1>4, WaitSet
  <1>6. QED
    BY <1>2, <1>5, OneTab

LEMMA ClickedTab ==
    ASSUME IInv, NEW t \in Tabs, Click(t)
    PROVE  TabsTyped'
  <1>1. TabOk(tab[t], eng) /\ tab = [s \in Tabs |-> tab[s]] /\ Advance(eng', actions')
    BY StillAdvance DEF IInv, TabsTyped, Click
  <1>2. PICK c \in Offers(t) :
             tab' = [tab EXCEPT ![t].wait = c, ![t].keys = With(@, c, KeyFor(t, c))]
    BY DEF Click
  <1>3. Sent(c) /\ eng' = eng /\ stray' = stray
    BY OffersSent DEF IInv, Click
  <1>4. /\ tab' = [s \in Tabs |-> tab'[s]] /\ \A s \in Tabs : s # t => tab'[s] = tab[s]
        /\ DOMAIN tab'[t] = DOMAIN tab[t] /\ tab'[t].eng = tab[t].eng
        /\ tab'[t].actions = tab[t].actions /\ tab'[t].wait = c
    BY <1>1, <1>2 DEF TabOk
  <1>5. TabOk(tab'[t], eng')
    BY <1>1, <1>3, <1>4, WaitSet DEF Sent
  <1>6. QED
    BY <1>1, <1>3, <1>4, <1>5, OneTab

LEMMA RefreshedTab ==
    ASSUME IInv, NEW t \in Tabs, RefreshEngagement(t) \/ RefreshActions(t) \/ Forget(t)
    PROVE  TabsTyped'
  <1>1. /\ TabOk(tab[t], eng) /\ tab = [s \in Tabs |-> tab[s]] /\ Advance(eng', actions')
        /\ eng' = eng /\ stray' = stray
    BY StillAdvance DEF IInv, TabsTyped, RefreshEngagement, RefreshActions, Forget
  <1>2. /\ tab' = [s \in Tabs |-> tab'[s]] /\ \A s \in Tabs : s # t => tab'[s] = tab[s]
        /\ DOMAIN tab'[t] = DOMAIN tab[t] /\ tab'[t].wait = tab[t].wait
        /\ tab'[t].eng \in {tab[t].eng, eng} /\ tab'[t].actions \in {tab[t].actions, actions}
    BY <1>1 DEF RefreshEngagement, RefreshActions, Forget, TabOk
  <1>3. Current(eng, eng)
    BY DEF Current, IInv, RowsTyped, EngRow
  <1>4. TabOk(tab'[t], eng')
    BY <1>1, <1>2, <1>3 DEF TabOk, IInv, RowsTyped, RowsJudged
  <1>5. QED
    BY <1>1, <1>2, <1>4, OneTab

-----------------------------------------------------------------------------
LEMMA InitIInv == Init => IInv
  <1> SUFFICES ASSUME Init PROVE IInv
    OBVIOUS
  <1>1. eng \in EngRow /\ Current(eng, eng)
    BY DEF Init, EngRow, Current
  <1>2. NoAction \in ActionRow /\ Judged(NoAction)
    <2>1. /\ NoAction.snaps \in Seq(SnapRow) /\ Len(NoAction.snaps) = 0
          /\ "none" \in States
      BY DEF NoAction, States
    <2>2. QED
      BY <2>1 DEF NoAction, ActionRow, Judged, Reasons, Sources
  <1>3. actions \in [Ids -> ActionRow] /\ \A a \in Ids : Judged(actions[a])
    BY <1>2 DEF Init
  <1>4. TabsTyped
    BY <1>1, <1>3 DEF Init, TabsTyped, TabOk, NoTab
  <1>5. StoredPassed /\ NoLostUpdate
    BY DEF Init, StoredPassed, NoLostUpdate, Succeeded
  <1>6. QED
    BY <1>1, <1>3, <1>4, <1>5 DEF IInv, RowsTyped, RowsJudged

\* Every step moves the rows on by at most what one command may do.
LEMMA StepAdvances ==
    ASSUME IInv, [Next]_vars
    PROVE  Advance(eng', actions') /\ StoredPassed' /\ NoLostUpdate' /\ TabsTyped'
  <1> DEFINE Goal == Advance(eng', actions') /\ StoredPassed' /\ NoLostUpdate' /\ TabsTyped'
  <1>1. ASSUME eng' = eng, actions' = actions, stored' = stored
        PROVE  Advance(eng', actions') /\ StoredPassed' /\ NoLostUpdate'
    BY <1>1, StillAdvance, StoredKept DEF IInv
  <1>2. CASE UNCHANGED vars
    <2>1. Advance(eng', actions') /\ StoredPassed' /\ NoLostUpdate'
      BY <1>1, <1>2 DEF vars
    <2>2. QED
      BY <1>2, <2>1, NoTabMoves DEF vars
  <1>3. ASSUME NEW t \in Tabs, Waiting(t), Execute(KeyInUse(t), tab[t].wait)
        PROVE  Advance(eng', actions') /\ StoredPassed' /\ NoLostUpdate'
    <2>1. Sent(tab[t].wait)
      BY <1>3 DEF IInv, TabsTyped, TabOk, Waiting, Sent
    <2>2. QED
      BY <1>3, <2>1, ExecuteStep
  <1>4. ASSUME NEW t \in Tabs, Click(t) PROVE Goal
    BY <1>1, <1>4, ClickedTab DEF Click
  <1>5. ASSUME NEW t \in Tabs, Serve(t) PROVE Goal
    BY <1>3, <1>5, SettledTab DEF Serve
  <1>6. ASSUME NEW t \in Tabs, ServeUnheard(t) PROVE Goal
    BY <1>3, <1>6, AbandonedTab DEF ServeUnheard
  <1>7. ASSUME NEW t \in Tabs, ServeBusy(t) PROVE Goal
    BY <1>1, <1>7, AbandonedTab DEF ServeBusy
  <1>8. ASSUME NEW t \in Tabs, Broken(t) PROVE Goal
    <2>1. Sent(tab[t].wait)
      BY <1>8 DEF IInv, TabsTyped, TabOk, Waiting, Broken, Sent
    <2>2. \A r \in stray' : r \in stray \/ Sent(r.command)
      BY <1>8, <2>1 DEF Broken
    <2>3. QED
      BY <1>1, <1>8, <2>2, AbandonedTab DEF Broken
  <1>9. ASSUME NEW t \in Tabs, RefreshEngagement(t) \/ RefreshActions(t) \/ Forget(t)
        PROVE  Goal
    BY <1>1, <1>9, RefreshedTab DEF RefreshEngagement, RefreshActions, Forget
  <1>10. ASSUME NEW r \in stray, ServeStray(r) PROVE Goal
    <2>1. Sent(r.command)
      BY DEF IInv, TabsTyped
    <2>2. QED
      BY <1>10, <2>1, ExecuteStep, NoTabMoves DEF ServeStray
  <1>11. ASSUME NEW a \in Ids, RunMoves(a) PROVE Goal
    <2>1. Advance(eng', actions')
      BY <1>11, RunMovesAdvance DEF IInv
    <2>2. QED
      BY <1>11, <2>1, StoredKept, NoTabMoves DEF RunMoves
  <1>12. QED
    BY <1>2, <1>4, <1>5, <1>6, <1>7, <1>8, <1>9, <1>10, <1>11 DEF Next

-----------------------------------------------------------------------------
THEOREM Invariance == Spec => []IInv
  <1>1. Init => IInv
    BY InitIInv
  <1>2. IInv /\ [Next]_vars => IInv'
    <2> SUFFICES ASSUME IInv, [Next]_vars PROVE IInv'
      OBVIOUS
    <2>1. Advance(eng', actions') /\ StoredPassed' /\ NoLostUpdate' /\ TabsTyped'
      BY StepAdvances
    <2>2. RowsTyped' /\ RowsJudged'
      BY <2>1 DEF Advance, RowsTyped, RowsJudged
    <2>3. QED
      BY <2>1, <2>2 DEF IInv
  <1>3. QED
    BY <1>1, <1>2, PTL DEF Spec

\* Of any number of tabs, none overwrites what another wrote and it had not
\* seen: two successes on the Engagement, or on one Action, never name the
\* same revision, however late a request arrives (expectedRevision).
THEOREM NoUpdateIsLost == Spec => []NoLostUpdate
  <1>1. IInv => NoLostUpdate
    BY DEF IInv
  <1>2. QED
    BY <1>1, Invariance, PTL

\* No Action is queued past a warning: the reasons of the snapshot it runs
\* under are in the acknowledgment bound to that snapshot (planAction,
\* continueAction, addScopeAndRun).
THEOREM WarningsAreAcknowledged == Spec => []QueuedIsAcknowledged
  <1>1. IInv => QueuedIsAcknowledged
    BY DEF IInv, RowsJudged, Judged, QueuedIsAcknowledged
  <1>2. QED
    BY <1>1, Invariance, PTL

\* An Action is judged under the scope revision its operator was shown, and
\* skips its warning only under a policy that was on the screen
\* (persistPlannedAction).
THEOREM ActionsArePlannedAsShown == Spec => []PlannedAsShown
  <1>1. IInv => PlannedAsShown
    BY DEF IInv, RowsJudged, Judged, PlannedAsShown
  <1>2. QED
    BY <1>1, Invariance, PTL

\* Nothing is queued while the Engagement is archived, whichever tab has not
\* noticed and whichever request arrives late (mutateAction).
THEOREM ArchivedStaysQuiet == Spec => ArchivedIsQuiet
  <1>1. IInv /\ [Next]_vars =>
          [\A a \in Ids : actions'[a].state = "queued" /\ actions[a].state # "queued"
                            => eng.status = "active"]_vars
    BY StepAdvances DEF Advance
  <1>2. QED
    BY <1>1, Invariance, PTL DEF Spec, ArchivedIsQuiet

-----------------------------------------------------------------------------
\* Counting the effects: a command that is carried out adds one answer and
\* one effect of its kind, and nothing else adds either.
PlannedIds == {a \in Ids : actions[a].state # "none"}

Counted ==
    /\ IsFiniteSet(DOMAIN stored)
    /\ eng.rev = 1 + Cardinality(Wrote(OnEngagement))
    /\ Cardinality(PlannedIds) = Cardinality(Wrote({"plan"}))

LEMMA PlannedIdsFinite == IsFiniteSet(PlannedIds)
  <1>1. MaxActions \in Int
    BY PlanningAssumption
  <1>2. IsFiniteSet(Ids) /\ PlannedIds \in SUBSET Ids
    BY <1>1, FS_Interval DEF Ids, PlannedIds
  <1>3. QED
    BY <1>2, FS_Subset

LEMMA WroteAfter ==
    ASSUME NEW k, NEW c, ~Known(k), Execute(k, c), NEW ops
    PROVE  /\ k \notin Wrote(ops)
           /\ Wrote(ops)' = Wrote(ops) \cup
                (IF Mutation(c).answer = "ok" /\ c.op \in ops THEN {k} ELSE {})
  <1>1. /\ Succeeded' = Succeeded \cup (IF Mutation(c).answer = "ok" THEN {k} ELSE {})
        /\ stored'[k].command = c
        /\ \A j \in DOMAIN stored : stored'[j] = stored[j]
    BY StoredAfter
  <1>2. k \notin DOMAIN stored /\ Succeeded \subseteq DOMAIN stored
    BY DEF Known, Succeeded
  <1>3. QED
    BY <1>1, <1>2 DEF Wrote

LEMMA ExecuteCounts ==
    ASSUME IInv, Counted, NEW k, NEW c, Sent(c), Execute(k, c)
    PROVE  Counted'
  <1>1. CASE Known(k)
    <2>1. eng' = eng /\ actions' = actions /\ stored' = stored
      BY <1>1 DEF Execute
    <2>2. QED
      BY <2>1 DEF Counted, PlannedIds, Wrote, Succeeded
  <1>2. CASE ~Known(k)
    <2> DEFINE m == Mutation(c)
    <2>1. /\ HasRoom(c) /\ eng' = m.eng /\ actions' = m.actions
          /\ DOMAIN stored' = DOMAIN stored \cup {k}
      BY <1>2, StoredAfter
    <2>2. EffectOf(c, m)
      BY <2>1, MutationEffect DEF IInv
    <2>3. \A ops : /\ k \notin Wrote(ops)
                   /\ Wrote(ops)' = Wrote(ops) \cup (IF m.answer = "ok" /\ c.op \in ops THEN {k} ELSE {})
      BY <1>2, WroteAfter
    <2> HIDE DEF m
    <2>4. IsFiniteSet(DOMAIN stored')
      BY <2>1, FS_AddElement DEF Counted
    <2>5. \A ops : IsFiniteSet(Wrote(ops)) /\ Cardinality(Wrote(ops)) \in Nat
      BY FS_Subset, FS_CardinalityType DEF Counted, Wrote, Succeeded
    <2>6. \A ops : Cardinality(Wrote(ops)') = Cardinality(Wrote(ops))
                     + (IF m.answer = "ok" /\ c.op \in ops THEN 1 ELSE 0)
      <3> SUFFICES ASSUME NEW ops
                   PROVE  Cardinality(Wrote(ops)') = Cardinality(Wrote(ops))
                            + (IF m.answer = "ok" /\ c.op \in ops THEN 1 ELSE 0)
        OBVIOUS
      <3>1. Cardinality(Wrote(ops) \cup {k}) = Cardinality(Wrote(ops)) + 1
        BY <2>3, <2>5, FS_AddElement
      <3>2. CASE m.answer = "ok" /\ c.op \in ops
        <4>1. Wrote(ops)' = Wrote(ops) \cup {k}
          BY <2>3, <3>2
        <4>2. QED
          BY <3>1, <3>2, <4>1
      <3>3. CASE ~(m.answer = "ok" /\ c.op \in ops)
        <4>1. Wrote(ops)' = Wrote(ops) /\ Cardinality(Wrote(ops)) \in Nat
          BY <2>3, <2>5, <3>3
        <4>2. QED
          BY <3>3, <4>1
      <3>4. QED
        BY <3>2, <3>3
    <2>7. eng'.rev = 1 + Cardinality(Wrote(OnEngagement)')
      <3>1. eng'.rev = eng.rev + (IF m.answer = "ok" /\ c.op \in OnEngagement THEN 1 ELSE 0)
        BY <2>1, <2>2 DEF EffectOf, IInv, RowsTyped, EngRow
      <3>2. Cardinality(Wrote(OnEngagement)) \in Nat
        BY <2>5
      <3>3. Cardinality(Wrote(OnEngagement)') = Cardinality(Wrote(OnEngagement))
                     + (IF m.answer = "ok" /\ c.op \in OnEngagement THEN 1 ELSE 0)
        BY <2>6
      <3>4. QED
        BY <3>1, <3>2, <3>3 DEF Counted
    <2>8. Cardinality(PlannedIds') = Cardinality(Wrote({"plan"})')
      <3>1. IsFiniteSet(PlannedIds) /\ Cardinality(PlannedIds) \in Nat
        BY PlannedIdsFinite, FS_CardinalityType
      <3>2. Cardinality(Wrote({"plan"})') = Cardinality(PlannedIds)
                     + (IF m.answer = "ok" /\ c.op = "plan" THEN 1 ELSE 0)
        BY <2>6 DEF Counted
      <3>3. CASE m.answer = "ok" /\ c.op = "plan"
        <4>1. PICK a \in Ids : \E y : RowPlanned(actions[a], y) /\ m.actions = [actions EXCEPT ![a] = y]
          BY <2>2, <3>3 DEF EffectOf
        <4>2. PICK y : RowPlanned(actions[a], y) /\ m.actions = [actions EXCEPT ![a] = y]
          BY <4>1
        <4>3. PlannedIds' = PlannedIds \cup {a} /\ a \notin PlannedIds
          BY <2>1, <4>2 DEF PlannedIds, RowPlanned, IInv, RowsTyped
        <4>4. QED
          BY <3>1, <3>2, <3>3, <4>3, FS_AddElement
      <3>4. CASE m.answer = "ok" /\ c.op \in OnAction
        <4>1. PICK y : RowWritten(actions[c.act], y) /\ m.actions = [actions EXCEPT ![c.act] = y]
          BY <2>2, <3>4 DEF EffectOf
        <4>2. PlannedIds' = PlannedIds
          BY <2>1, <4>1 DEF PlannedIds, RowWritten, IInv, RowsTyped
        <4>3. c.op # "plan"
          BY <3>4 DEF OnAction
        <4>4. QED
          BY <3>1, <3>2, <4>2, <4>3
      <3>5. CASE m.answer # "ok" \/ c.op \notin OnAction \cup {"plan"}
        <4>1. PlannedIds' = PlannedIds
          BY <2>1, <2>2, <3>5 DEF PlannedIds, EffectOf
        <4>2. QED
          BY <3>1, <3>2, <3>5, <4>1
      <3>6. QED
        BY <3>3, <3>4, <3>5
    <2>9. QED
      BY <2>4, <2>7, <2>8 DEF Counted
  <1>3. QED
    BY <1>1, <1>2

LEMMA CountedStep ==
    ASSUME IInv, Counted, [Next]_vars
    PROVE  Counted'
  <1>1. ASSUME eng' = eng, actions' = actions, stored' = stored PROVE Counted'
    BY <1>1 DEF Counted, PlannedIds, Wrote, Succeeded
  <1>2. ASSUME NEW t \in Tabs, Waiting(t), Execute(KeyInUse(t), tab[t].wait) PROVE Counted'
    <2>1. Sent(tab[t].wait)
      BY <1>2 DEF IInv, TabsTyped, TabOk, Waiting, Sent
    <2>2. QED
      BY <1>2, <2>1, ExecuteCounts
  <1>3. ASSUME NEW r \in stray, ServeStray(r) PROVE Counted'
    <2>1. Sent(r.command)
      BY DEF IInv, TabsTyped
    <2>2. QED
      BY <1>3, <2>1, ExecuteCounts DEF ServeStray
  <1>4. ASSUME NEW a \in Ids, RunMoves(a) PROVE Counted'
    <2>1. eng' = eng /\ stored' = stored
      BY <1>4 DEF RunMoves
    <2>2. \A b \in Ids : (actions'[b].state # "none") <=> (actions[b].state # "none")
      BY <1>4 DEF RunMoves, IInv, RowsTyped, ActionRow
    <2>3. PlannedIds' = PlannedIds
      BY <2>2 DEF PlannedIds
    <2>4. QED
      BY <2>1, <2>3 DEF Counted, Wrote, Succeeded
  <1>5. QED
    BY <1>1, <1>2, <1>3, <1>4 DEF Next, vars, Click, Serve, ServeUnheard, ServeBusy, Broken,
       RefreshEngagement, RefreshActions, Forget

\* A command has its effect exactly as often as it is answered with success:
\* every revision of the Engagement and every Action comes of one stored
\* answer, however often the request arrives (executeOperatorCommand).
THEOREM EffectsAreCounted == Spec => []OneEffectPerCommand
  <1>1. Init => Counted
    <2> SUFFICES ASSUME Init PROVE Counted
      OBVIOUS
    <2>1. DOMAIN stored = {} /\ eng.rev = 1
      BY DEF Init
    <2>2. Wrote(OnEngagement) = {} /\ Wrote({"plan"}) = {}
      BY <2>1 DEF Wrote, Succeeded
    <2>3. PlannedIds = {}
      BY DEF Init, PlannedIds, NoAction
    <2>4. IsFiniteSet({}) /\ Cardinality({}) = 0
      BY FS_EmptySet
    <2>5. IsFiniteSet(DOMAIN stored)
      BY <2>1, <2>4
    <2>6. Cardinality(Wrote(OnEngagement)) = 0 /\ Cardinality(Wrote({"plan"})) = 0
      BY <2>2, <2>4
    <2>7. Cardinality(PlannedIds) = 0
      BY <2>3, <2>4
    <2>8. QED
      BY <2>1, <2>5, <2>6, <2>7 DEF Counted
  <1>2. IInv /\ Counted /\ [Next]_vars => Counted'
    BY CountedStep
  <1>3. Counted => OneEffectPerCommand
    BY DEF Counted, OneEffectPerCommand, PlannedIds
  <1>4. QED
    BY <1>1, <1>2, <1>3, Invariance, PTL DEF Spec
=============================================================================
