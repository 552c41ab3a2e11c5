----------------------------- MODULE RunControl -----------------------------
(***************************************************************************)
(* The control plane's side of the Action / Run / lease protocol: what the *)
(* SQLite rows written by packages/db hold, and what each repository       *)
(* operation does to them.  Every operation runs in one IMMEDIATE          *)
(* transaction, so it is one action here; what interleaves is the ORDER of *)
(* operations asked for by the operator, by a runner process whose         *)
(* requests may be delayed, repeated or sent by a dead session, by the     *)
(* clock and by the owner who revokes the runner.                          *)
(*                                                                         *)
(* A request that the code refuses changes no row and is not a step.  A    *)
(* runner request is presented under ANY lease ever issued, by any         *)
(* session, at any time: that is what loss, duplication and reordering on  *)
(* the control channel amount to for the server.                           *)
(***************************************************************************)
EXTENDS Naturals, FiniteSets

CONSTANTS
    Actions,        \* identities of operator Actions
    Runners,        \* runner identities an enrollment may create
    Sessions,       \* session ids runner processes draw
    SessionOwner,   \* [Sessions -> Runners]: which identity drew the session
    NoSession,      \* no session / no lease owner
    MaxAttempt,     \* bound: runs allocated under one Action
    MaxFence,       \* MAX_FENCING_TOKEN, the signed 64-bit limit made small
    LeaseTicks,     \* lease duration, in ticks of the control plane's clock
    MaxHeartbeat,   \* bound: heartbeat sequence numbers under one lease
    MaxEvent        \* bound: runner event sequence numbers under one lease

ASSUME ConstantsAssumption ==
    /\ SessionOwner \in [Sessions -> Runners]
    /\ NoSession \notin Sessions
    /\ MaxAttempt \in Nat \ {0}
    /\ MaxFence \in Nat \ {0}
    /\ LeaseTicks \in Nat \ {0}
    /\ MaxHeartbeat \in Nat
    /\ MaxEvent \in Nat \ {0}

VARIABLES
    action,     \* action[a]: the actions row of a
    attempt,    \* attempt[a]: highest attempt allocated under a (0: none)
    run,        \* run[a][n]: the runs row of a's n-th attempt
    lease,      \* lease[a][n][f]: the run_leases row issued with fence f
    events,     \* events[a][n]: the runner-sequenced run_events rows
    older,      \* <<a, b>>: the latest run of a was created before that of b
    runner,     \* runner[rn]: runner_identities.status
    session,    \* session[rn]: the current runner_sessions row of rn
    uploading   \* <<a, n, f>>: an evidence grant in progress at the lease's
                \* next event sequence

vars == <<action, attempt, run, lease, events, older, runner, session, uploading>>

Attempts == 1..MaxAttempt
Fences   == 1..MaxFence

-----------------------------------------------------------------------------
(* Row types.                                                              *)

ActionStates == {"absent", "paused_for_warning", "capability_error", "queued",
                 "active", "active_paused_for_warning",
                 "succeeded", "failed", "cancelled"}
TerminalKinds == {"succeeded", "failed", "cancelled"}
RunStates == {"absent", "queued", "leased", "running", "cancel_requested"}
                \cup TerminalKinds
Reasons == {"none", "reported", "operator_cancelled", "fencing_exhausted",
            "runner_lost", "runner_lost_during_cancel"}

ActionRow == [state : ActionStates, runState : {"none", "running", "cancel_requested"},
              acknowledged : BOOLEAN, pending : BOOLEAN, interactions : {0, 1},
              resumeRequested : BOOLEAN, cleanupRequired : BOOLEAN]
RunRow    == [state : RunStates, fence : 0..MaxFence, lease : 0..MaxFence, reason : Reasons]
LeaseRow  == [session : Sessions \cup {NoSession}, left : 0..LeaseTicks,
              heartbeat : 0..MaxHeartbeat, event : 0..MaxEvent, current : BOOLEAN]
EventRow  == [fence : Fences, seq : 1..MaxEvent, type : {"started"} \cup TerminalKinds]

NoAction == [state |-> "absent", runState |-> "none", acknowledged |-> FALSE,
             pending |-> FALSE, interactions |-> 0,
             resumeRequested |-> FALSE, cleanupRequired |-> FALSE]
NoRun    == [state |-> "absent", fence |-> 0, lease |-> 0, reason |-> "none"]
NewRun   == [state |-> "queued", fence |-> 0, lease |-> 0, reason |-> "none"]
NoLease  == [session |-> NoSession, left |-> 0, heartbeat |-> 0, event |-> 0,
             current |-> FALSE]

TypeOK ==
    /\ action \in [Actions -> ActionRow]
    /\ attempt \in [Actions -> 0..MaxAttempt]
    /\ run \in [Actions -> [Attempts -> RunRow]]
    /\ lease \in [Actions -> [Attempts -> [Fences -> LeaseRow]]]
    /\ events \in [Actions -> [Attempts -> SUBSET EventRow]]
    /\ older \subseteq Actions \X Actions
    /\ runner \in [Runners -> {"unknown", "enabled", "revoked"}]
    /\ session \in [Runners -> Sessions \cup {NoSession}]
    /\ uploading \subseteq Actions \X Attempts \X Fences

-----------------------------------------------------------------------------
(* One row written, the others of its table left alone.                    *)

WriteAction(a, row)      == action' = [action EXCEPT ![a] = row]
WriteRun(a, n, row)      == run' = [run EXCEPT ![a][n] = row]
WriteLease(a, n, f, row) == lease' = [lease EXCEPT ![a][n][f] = row]
InsertEvent(a, n, row)   == events' = [events EXCEPT ![a][n] = @ \cup {row}]

Dropped(l) == [l EXCEPT !.current = FALSE]

(* Rules shared by the operations.                                         *)

RunTransitions ==
    {<<"queued", "leased">>, <<"queued", "cancelled">>, <<"queued", "failed">>,
     <<"leased", "queued">>, <<"leased", "running">>,
     <<"leased", "cancel_requested">>, <<"leased", "failed">>,
     <<"running", "cancel_requested">>, <<"running", "succeeded">>, <<"running", "failed">>,
     <<"cancel_requested", "cancelled">>, <<"cancel_requested", "failed">>}

CanMove(from, to) == <<from, to>> \in RunTransitions

ActiveStates == {"active", "active_paused_for_warning"}

\* The cross-field refinements every row must pass when it is read back.
Readable(act) ==
    /\ act.pending => ~act.acknowledged
    /\ act.pending <=> act.state \in {"paused_for_warning", "active_paused_for_warning"}
    /\ act.state \in ActiveStates <=> act.runState # "none"
    /\ act.cleanupRequired
         <=> act.state \in ActiveStates /\ act.runState = "cancel_requested"
    /\ act.resumeRequested => act.state = "active" /\ act.runState = "running"

\* bumpAction with the fields its callers leave out: cleanupRequired and the
\* pending warning are kept, resumeRequested is reset.
Bumped(act, state, runState) ==
    [act EXCEPT !.state = state, !.runState = runState, !.resumeRequested = FALSE]

\* Slip: an ended Run is left on the Action row.
SettledSlip(act, state) ==
    [act EXCEPT !.state = state, !.cleanupRequired = FALSE, !.pending = FALSE]

\* bumpAction as every operation that ends or requeues the work calls it.
Settled(act, state) ==
    [act EXCEPT !.state = state, !.runState = "none", !.resumeRequested = FALSE,
                !.cleanupRequired = FALSE, !.pending = FALSE]

\* Slip: the lease is found by its id, current or not.
AuthoritySlip(a, n, f, s) ==
    /\ lease[a][n][f].session = s
    /\ lease[a][n][f].left > 0

\* The lease the request was made under is the run's current lease, belongs to
\* the presenting session and has not expired.
Authority(a, n, f, s) ==
    /\ lease[a][n][f].current
    /\ lease[a][n][f].session = s
    /\ lease[a][n][f].left > 0

Allocatable(a) ==
    /\ attempt[a] < MaxAttempt
    /\ \A n \in 1..attempt[a] : run[a][n].state \in {"failed", "cancelled"}

\* allocateQueuedRun: the next attempt of a, last in the queue order.
AllocateRun(a) ==
    /\ Allocatable(a)
    /\ attempt' = [attempt EXCEPT ![a] = @ + 1]
    /\ WriteRun(a, attempt[a] + 1, NewRun)
    /\ older' = {p \in older : p[1] # a /\ p[2] # a}
                  \cup {<<b, a>> : b \in {c \in Actions \ {a} : attempt[c] > 0}}

\* selectOldestQueuedRun, by creation time of the Run.
OldestQueued(a) ==
    /\ attempt[a] > 0
    /\ run[a][attempt[a]].state = "queued"
    /\ \A b \in Actions \ {a} :
         attempt[b] > 0 /\ run[b][attempt[b]].state = "queued" => <<a, b>> \in older

Init ==
    /\ action = [a \in Actions |-> NoAction]
    /\ attempt = [a \in Actions |-> 0]
    /\ run = [a \in Actions |-> [n \in Attempts |-> NoRun]]
    /\ lease = [a \in Actions |-> [n \in Attempts |-> [f \in Fences |-> NoLease]]]
    /\ events = [a \in Actions |-> [n \in Attempts |-> {}]]
    /\ older = {}
    /\ runner = [rn \in Runners |-> "unknown"]
    /\ session = [rn \in Runners |-> NoSession]
    /\ uploading = {}

-----------------------------------------------------------------------------
(* Operator commands.  Each loads the Action through the row parser, so it *)
(* is refused on a row that is not Readable; RetryRun alone reads it raw.  *)

\* A plan with no executable representation never gets a Run.
PlanUnrepresentable(a) ==
    /\ action[a].state = "absent"
    /\ WriteAction(a, [action[a] EXCEPT !.state = "capability_error"])
    /\ UNCHANGED <<attempt, run, lease, events, older, runner, session, uploading>>

\* No warning, or a warning the engagement's policy acknowledges at once.
PlanQueued(a, acknowledged) ==
    /\ action[a].state = "absent"
    /\ WriteAction(a, [action[a] EXCEPT !.state = "queued", !.acknowledged = acknowledged])
    /\ AllocateRun(a)
    /\ UNCHANGED <<lease, events, runner, session, uploading>>

PlanPaused(a) ==
    /\ action[a].state = "absent"
    /\ WriteAction(a, [action[a] EXCEPT !.state = "paused_for_warning", !.pending = TRUE,
                                        !.interactions = 1])
    /\ UNCHANGED <<attempt, run, lease, events, older, runner, session, uploading>>

\* Continue and "add scope and run": both acknowledge and queue.  They differ
\* in the snapshot they bind, which this module does not hold.
ContinueAction(a) ==
    /\ Readable(action[a])
    /\ action[a].state = "paused_for_warning"
    /\ WriteAction(a, [action[a] EXCEPT !.state = "queued", !.pending = FALSE,
                                        !.acknowledged = TRUE])
    /\ AllocateRun(a)
    /\ UNCHANGED <<lease, events, runner, session, uploading>>

CancelPaused(a) ==
    /\ Readable(action[a])
    /\ action[a].state = "paused_for_warning"
    /\ WriteAction(a, [action[a] EXCEPT !.state = "cancelled", !.pending = FALSE])
    /\ UNCHANGED <<attempt, run, lease, events, older, runner, session, uploading>>

\* A queued Action is cancelled with the Run that waits for it.  A latest Run
\* already terminal is left alone; one that cannot move to cancelled makes the
\* transaction roll back.
CancelQueued(a) ==
    LET n == attempt[a] IN
    /\ Readable(action[a])
    /\ action[a].state = "queued"
    /\ WriteAction(a, [action[a] EXCEPT !.state = "cancelled"])
    /\ IF n = 0 \/ run[a][n].state \in TerminalKinds
       THEN UNCHANGED <<run, lease>>
       ELSE LET f == run[a][n].lease IN
            /\ CanMove(run[a][n].state, "cancelled")
            /\ WriteRun(a, n, [run[a][n] EXCEPT !.state = "cancelled", !.lease = 0,
                                                !.reason = "operator_cancelled"])
            /\ IF f = 0 THEN UNCHANGED lease
                        ELSE WriteLease(a, n, f, Dropped(lease[a][n][f]))
    /\ UNCHANGED <<attempt, events, older, runner, session, uploading>>

CancelRequested(act) ==
    [act EXCEPT !.runState = "cancel_requested", !.resumeRequested = FALSE,
                !.cleanupRequired = TRUE]

\* Cancelling live work only records the intent; the runner, which keeps its
\* lease so that it can publish what it captured, reports the outcome.
CancelActive(a) ==
    LET n == attempt[a] IN
    /\ Readable(action[a])
    /\ action[a].state \in ActiveStates
    /\ action[a].runState = "running"
    /\ n > 0
    /\ CanMove(run[a][n].state, "cancel_requested")
    /\ WriteAction(a, CancelRequested(action[a]))
    /\ WriteRun(a, n, [run[a][n] EXCEPT !.state = "cancel_requested"])
    /\ UNCHANGED <<attempt, lease, events, older, runner, session, uploading>>

RetryRun(a) ==
    /\ action[a].state \in {"failed", "cancelled"}
    /\ attempt[a] > 0
    /\ WriteAction(a, Settled(action[a], "queued"))
    /\ AllocateRun(a)
    /\ UNCHANGED <<lease, events, runner, session, uploading>>

NotCovered(act) == ~act.acknowledged

\* A late destination with no acknowledgment on record pauses the Action, or
\* is acknowledged by the engagement's policy.  (With one on record it is only
\* appended to what that acknowledgment covers.)
RecordLateWarning(a, autoContinue) ==
    /\ Readable(action[a])
    /\ action[a].state = "active"
    /\ action[a].runState = "running"
    /\ NotCovered(action[a])
    /\ WriteAction(a, IF autoContinue
                      THEN [action[a] EXCEPT !.acknowledged = TRUE]
                      ELSE [action[a] EXCEPT !.state = "active_paused_for_warning",
                                             !.pending = TRUE, !.interactions = 1])
    /\ UNCHANGED <<attempt, run, lease, events, older, runner, session, uploading>>

ContinueLateWarning(a) ==
    /\ Readable(action[a])
    /\ action[a].state = "active_paused_for_warning"
    /\ action[a].runState = "running"
    /\ WriteAction(a, [action[a] EXCEPT !.state = "active", !.pending = FALSE,
                                        !.acknowledged = TRUE, !.resumeRequested = TRUE])
    /\ UNCHANGED <<attempt, run, lease, events, older, runner, session, uploading>>

-----------------------------------------------------------------------------
(* Runner requests.                                                        *)

\* A handshake makes its session the runner's only current one.  It does not
\* look at leases; a repeated handshake of an old session is accepted too.
AcceptHandshake(s) ==
    /\ runner[SessionOwner[s]] = "enabled"
    /\ session' = [session EXCEPT ![SessionOwner[s]] = s]
    /\ UNCHANGED <<action, attempt, run, lease, events, older, runner, uploading>>

\* The lease route: the oldest queued Run of any Action, for the current
\* session of an enabled runner.
Leasable(a, s) ==
    /\ runner[SessionOwner[s]] = "enabled"
    /\ session[SessionOwner[s]] = s
    /\ OldestQueued(a)
    /\ Readable(action[a])
    /\ \A f \in Fences : ~lease[a][attempt[a]][f].current

\* Slip: a requeued Run is leased again under the fence it had.
NextFenceSlip(r) == IF r.fence = 0 THEN 1 ELSE r.fence

NextFence(r) == r.fence + 1

AcquireLease(a, s) ==
    LET n == attempt[a]
        f == NextFence(run[a][n])
    IN
    /\ Leasable(a, s)
    /\ f <= MaxFence
    /\ action[a].state \in {"queued", "active"}
    /\ WriteRun(a, n, [run[a][n] EXCEPT !.state = "leased", !.fence = f, !.lease = f])
    /\ WriteLease(a, n, f, [session |-> s, left |-> LeaseTicks, heartbeat |-> 0,
                            event |-> 0, current |-> TRUE])
    /\ WriteAction(a, IF action[a].state = "queued"
                      THEN Bumped(action[a], "active", "running") ELSE action[a])
    /\ UNCHANGED <<attempt, events, older, runner, session, uploading>>

\* Slip: the limit of the fencing token is judged one too late.
ExhaustFencingSlip(a, s) ==
    LET n == attempt[a] IN
    /\ Leasable(a, s)
    /\ run[a][n].fence > MaxFence
    /\ WriteRun(a, n, [run[a][n] EXCEPT !.state = "failed", !.reason = "fencing_exhausted"])
    /\ WriteAction(a, Settled(action[a], "failed"))
    /\ UNCHANGED <<attempt, lease, events, older, runner, session, uploading>>

\* The fencing token cannot grow any further: the Run fails unleased.
ExhaustFencing(a, s) ==
    LET n == attempt[a] IN
    /\ Leasable(a, s)
    /\ run[a][n].fence = MaxFence
    /\ WriteRun(a, n, [run[a][n] EXCEPT !.state = "failed", !.reason = "fencing_exhausted"])
    /\ WriteAction(a, Settled(action[a], "failed"))
    /\ UNCHANGED <<attempt, lease, events, older, runner, session, uploading>>

\* Any sequence above the latest renews; a repeated one is answered from the
\* row and renews nothing, a lower one is refused.
Heartbeat(a, n, f, s) ==
    /\ Authority(a, n, f, s)
    /\ \E q \in (lease[a][n][f].heartbeat + 1)..MaxHeartbeat :
         WriteLease(a, n, f, [lease[a][n][f] EXCEPT !.heartbeat = q, !.left = LeaseTicks])
    /\ UNCHANGED <<action, attempt, run, events, older, runner, session, uploading>>

\* Every new runner event takes the lease's next sequence, and waits while an
\* upload grant holds that sequence.
NextSequenceFree(a, n, f) ==
    /\ lease[a][n][f].event < MaxEvent
    /\ <<a, n, f>> \notin uploading

\* Slip: started always makes the Run running.
StartedStateSlip(state) == "running"

\* If a cancellation won the race the event is recorded and the Run stays
\* cancel_requested.
StartedState(state) == IF state = "cancel_requested" THEN state ELSE "running"

\* started: committed before anything is spawned.
AppendStarted(a, n, f, s) ==
    LET q == lease[a][n][f].event + 1 IN
    /\ Authority(a, n, f, s)
    /\ run[a][n].state \notin TerminalKinds
    /\ NextSequenceFree(a, n, f)
    /\ run[a][n].state = "cancel_requested" \/ CanMove(run[a][n].state, "running")
    /\ InsertEvent(a, n, [fence |-> f, seq |-> q, type |-> "started"])
    /\ WriteLease(a, n, f, [lease[a][n][f] EXCEPT !.event = q])
    /\ WriteRun(a, n, [run[a][n] EXCEPT !.state = StartedState(@)])
    /\ UNCHANGED <<action, attempt, older, runner, session, uploading>>

\* A Run that a completion of kind k ends; only success needs no reason.
Completed(r, k) ==
    [r EXCEPT !.state = k, !.lease = 0,
              !.reason = IF k = "succeeded" THEN "none" ELSE "reported"]

\* A completion presented under a lease.
CompleteRun(a, n, f, s, k) ==
    LET q == lease[a][n][f].event + 1 IN
    /\ run[a][n].state \notin TerminalKinds
    /\ Authority(a, n, f, s)
    /\ NextSequenceFree(a, n, f)
    /\ CanMove(run[a][n].state, k)
    /\ InsertEvent(a, n, [fence |-> f, seq |-> q, type |-> k])
    /\ WriteLease(a, n, f, [Dropped(lease[a][n][f]) EXCEPT !.event = q])
    /\ WriteRun(a, n, Completed(run[a][n], k))
    /\ WriteAction(a, Settled(action[a], k))
    /\ UNCHANGED <<attempt, older, runner, session, uploading>>

\* An upload grant needs the same authority as an event and binds the lease's
\* next sequence without consuming it.
AdmitUpload(a, n, f, s) ==
    /\ run[a][n].state \notin TerminalKinds
    /\ Authority(a, n, f, s)
    /\ uploading' = uploading \cup {<<a, n, f>>}
    /\ UNCHANGED <<action, attempt, run, lease, events, older, runner, session>>

\* The last grant at that sequence is published or interrupted.
CloseUpload(a, n, f) ==
    /\ <<a, n, f>> \in uploading
    /\ uploading' = uploading \ {<<a, n, f>>}
    /\ UNCHANGED <<action, attempt, run, lease, events, older, runner, session>>

-----------------------------------------------------------------------------
(* The control plane, the owner and the clock.                             *)

\* Slip: nothing is done about a runner lost while it cancels.
CancelNotExpiredSlip(actState, runState) ==
    IF runState = "leased"
    THEN [ok |-> actState = "active", action |-> "queued", run |-> "queued", reason |-> "none"]
    ELSE [ok |-> runState = "running" /\ actState \in ActiveStates,
          action |-> "failed", run |-> "failed", reason |-> "runner_lost"]

\* What the expiry of the current lease makes of <<action state, run state>>.
ExpiryOutcome(actState, runState) ==
    CASE runState = "leased" /\ actState = "active" ->
           [ok |-> TRUE, action |-> "queued", run |-> "queued", reason |-> "none"]
      [] runState = "running" /\ actState \in ActiveStates ->
           [ok |-> TRUE, action |-> "failed", run |-> "failed", reason |-> "runner_lost"]
      [] runState = "cancel_requested" /\ actState \in ActiveStates ->
           [ok |-> TRUE, action |-> "failed", run |-> "failed",
            reason |-> "runner_lost_during_cancel"]
      [] OTHER -> [ok |-> FALSE, action |-> actState, run |-> runState, reason |-> "none"]

ExpireLease(a, n, f) ==
    LET outcome == ExpiryOutcome(action[a].state, run[a][n].state) IN
    /\ lease[a][n][f].current
    /\ lease[a][n][f].left = 0
    /\ outcome.ok
    /\ WriteLease(a, n, f, Dropped(lease[a][n][f]))
    /\ WriteRun(a, n, [run[a][n] EXCEPT !.state = outcome.run, !.lease = 0,
                                        !.reason = outcome.reason])
    /\ WriteAction(a, Settled(action[a], outcome.action))
    /\ UNCHANGED <<attempt, events, older, runner, session, uploading>>

\* Slip: the sequence already advanced is advanced again.
CompletionSequenceSlip(l) == IF l.current THEN l.event + 2 ELSE 1

CompletionSequence(l) == IF l.current THEN l.event + 1 ELSE 1

\* completeRun with no lease presented: the fence is the current lease's or
\* the last one issued, the sequence the one after the current lease's latest
\* event, or 1.  A sequence already taken breaks the unique index and the
\* transaction rolls back.
CompleteUnpresented(a, n, k) ==
    LET f == run[a][n].fence
        q == CompletionSequence(lease[a][n][f])
    IN
    /\ run[a][n].state \notin TerminalKinds
    /\ CanMove(run[a][n].state, k)
    /\ f > 0
    /\ q <= MaxEvent
    /\ <<a, n, f>> \notin uploading
    /\ \A e \in events[a][n] : e.fence = f => e.seq # q
    /\ InsertEvent(a, n, [fence |-> f, seq |-> q, type |-> k])
    /\ IF lease[a][n][f].current
       THEN WriteLease(a, n, f, [Dropped(lease[a][n][f]) EXCEPT !.event = q])
       ELSE UNCHANGED lease
    /\ WriteRun(a, n, Completed(run[a][n], k))
    /\ WriteAction(a, Settled(action[a], k))
    /\ UNCHANGED <<attempt, older, runner, session, uploading>>

\* At most one identity is enabled at a time.
ConfirmEnrollment(rn) ==
    /\ runner[rn] = "unknown"
    /\ \A other \in Runners : runner[other] # "enabled"
    /\ runner' = [runner EXCEPT ![rn] = "enabled"]
    /\ UNCHANGED <<action, attempt, run, lease, events, older, session, uploading>>

HeldBy(rn, a, n, f) ==
    lease[a][n][f].current /\ SessionOwner[lease[a][n][f].session] = rn

\* Slip: the Run keeps naming the lease it lost.
FencedRunSlip(rn, a, n) ==
    IF (\E f \in Fences : HeldBy(rn, a, n, f)) /\ run[a][n].state \in {"leased", "running"}
    THEN [run[a][n] EXCEPT !.state = "cancel_requested"]
    ELSE run[a][n]

\* fenceCurrentLeasesForRunner: every current lease of the runner is dropped;
\* a Run that was leased or running is asked to cancel.
FencedRun(rn, a, n) ==
    IF \A f \in Fences : ~HeldBy(rn, a, n, f) THEN run[a][n]
    ELSE [run[a][n] EXCEPT !.lease = 0,
                           !.state = IF @ \in {"leased", "running"} THEN "cancel_requested"
                                                                    ELSE @]

FencedAction(rn, a) ==
    IF \E n \in Attempts, f \in Fences :
         HeldBy(rn, a, n, f) /\ run[a][n].state \in {"leased", "running"}
    THEN Bumped(action[a], action[a].state, "cancel_requested")
    ELSE action[a]

RevokeRunner(rn) ==
    /\ runner[rn] = "enabled"
    /\ runner' = [runner EXCEPT ![rn] = "revoked"]
    /\ session' = [session EXCEPT ![rn] = NoSession]
    /\ run' = [a \in Actions |-> [n \in Attempts |-> FencedRun(rn, a, n)]]
    /\ action' = [a \in Actions |-> FencedAction(rn, a)]
    /\ lease' = [a \in Actions |-> [n \in Attempts |-> [f \in Fences |->
                   IF HeldBy(rn, a, n, f) THEN Dropped(lease[a][n][f])
                                          ELSE lease[a][n][f]]]]
    /\ UNCHANGED <<attempt, events, older, uploading>>

\* One tick of the control plane's clock.  Only what is left of a current
\* lease is ever compared with it.
Tick ==
    /\ \E a \in Actions, n \in Attempts, f \in Fences :
         lease[a][n][f].current /\ lease[a][n][f].left > 0
    /\ lease' = [a \in Actions |-> [n \in Attempts |-> [f \in Fences |->
                   IF lease[a][n][f].current /\ lease[a][n][f].left > 0
                   THEN [lease[a][n][f] EXCEPT !.left = @ - 1]
                   ELSE lease[a][n][f]]]]
    /\ UNCHANGED <<action, attempt, run, events, older, runner, session, uploading>>

-----------------------------------------------------------------------------
(* Specifications.  The operations fall in three groups: what the HTTP API *)
(* of the running server performs, what only the repository's own          *)
(* interface offers, and the clock.                                        *)

OperatorCommand(a) ==
    \/ PlanUnrepresentable(a)
    \/ \E acknowledged \in BOOLEAN : PlanQueued(a, acknowledged)
    \/ PlanPaused(a)
    \/ ContinueAction(a)
    \/ CancelPaused(a)
    \/ CancelQueued(a)
    \/ CancelActive(a)
    \/ ContinueLateWarning(a)

LeaseRequest(s) ==
    \/ AcceptHandshake(s)
    \/ \E a \in Actions : AcquireLease(a, s) \/ ExhaustFencing(a, s)

FencedRequest(a, n, f) ==
    \/ \E s \in Sessions : Heartbeat(a, n, f, s)
    \/ \E s \in Sessions : AppendStarted(a, n, f, s)
    \/ \E s \in Sessions, k \in TerminalKinds : CompleteRun(a, n, f, s, k)
    \/ \E s \in Sessions : AdmitUpload(a, n, f, s)
    \/ CloseUpload(a, n, f)

OwnerCommand(rn) == ConfirmEnrollment(rn) \/ RevokeRunner(rn)

\* Operations the repository offers and its tests exercise, which no route of
\* apps/api calls.
RepositoryOnly(a) ==
    \/ RetryRun(a)
    \/ \E autoContinue \in BOOLEAN : RecordLateWarning(a, autoContinue)
    \/ \E n \in Attempts, f \in Fences : ExpireLease(a, n, f)
    \/ \E n \in Attempts, k \in TerminalKinds : CompleteUnpresented(a, n, k)

ApiNext ==
    \/ \E a \in Actions : OperatorCommand(a)
    \/ \E s \in Sessions : LeaseRequest(s)
    \/ \E a \in Actions, n \in Attempts, f \in Fences : FencedRequest(a, n, f)
    \/ \E rn \in Runners : OwnerCommand(rn)
    \/ Tick

Next == ApiNext \/ \E a \in Actions : RepositoryOnly(a)

Spec == Init /\ [][Next]_vars

\* What apps/api serves, with the lease expiry that the repository offers
\* beside it: a leased Run whose lease ran out is queued again.
RecoveringNext ==
    \/ ApiNext
    \/ \E a \in Actions, n \in Attempts, f \in Fences : ExpireLease(a, n, f)

RecoveringSpec == Init /\ [][RecoveringNext]_vars

\* A runner process awaits the work of its lease before it asks for another:
\* the session is busy while it holds a lease that has not run out.
Busy(s) ==
    \E a \in Actions, n \in Attempts, f \in Fences :
      Authority(a, n, f, s)

\* A lease request of an idle session that finds work or fails it.
LeasePoll ==
    \E a \in Actions, s \in Sessions :
      ~Busy(s) /\ (AcquireLease(a, s) \/ ExhaustFencing(a, s))

\* The loop of a process that runs nothing asks for a lease again and again.
PollingSpec == RecoveringSpec /\ WF_vars(LeasePoll)

-----------------------------------------------------------------------------
(* Safety.                                                                 *)

Latest(a) == run[a][attempt[a]]

Agrees(a) ==
    /\ action[a].state = "queued" <=> attempt[a] > 0 /\ Latest(a).state = "queued"
    /\ action[a].runState = "running"
         <=> attempt[a] > 0 /\ Latest(a).state \in {"leased", "running"}
    /\ action[a].runState = "cancel_requested"
         <=> attempt[a] > 0 /\ Latest(a).state = "cancel_requested"
    /\ attempt[a] > 0 /\ Latest(a).state \in TerminalKinds
         => action[a].state = Latest(a).state
    /\ \A n \in Attempts :
         /\ n < attempt[a] => run[a][n].state \in {"failed", "cancelled"}
         /\ n > attempt[a] <=> run[a][n].state = "absent"

\* Two rows describe one piece of work: an Action and the latest of its Runs.
\* Whatever order operator, runner, clock and revocation act in, they agree:
\* queued with queued, live with live (and cancelling with cancelling), ended
\* with the same end; every earlier Run of the Action failed or was cancelled.
ActionRunAgreement == \A a \in Actions : Agrees(a)

LeasesAgree(a, n) ==
    /\ run[a][n].lease \in {0, run[a][n].fence}
    /\ \A f \in Fences :
         /\ lease[a][n][f].current <=> run[a][n].lease = f
         /\ f > run[a][n].fence <=> lease[a][n][f].session = NoSession
         /\ lease[a][n][f].current
              => runner[SessionOwner[lease[a][n][f].session]] = "enabled"
    /\ run[a][n].state \in {"leased", "running"} => run[a][n].lease > 0
    /\ run[a][n].lease > 0
         => run[a][n].state \in {"leased", "running", "cancel_requested"}

\* A Run and its leases: at most one lease is current, it is the one the Run
\* names and carries the highest fence ever issued for the Run, its runner is
\* still enabled, and only a cancelling Run may be live without one.
LeaseAgreement == \A a \in Actions, n \in Attempts : LeasesAgree(a, n)

\* The runner events of one fence are numbered 1, 2, 3, ... without a gap or a
\* repeated number, and nothing follows a completion, which there is at most
\* one of and which is the Run's own end.  Work that may have started is never
\* handed out again: a started event carries the last fence issued.
EventsContiguous ==
    \A a \in Actions, n \in Attempts :
      /\ \A e \in events[a][n] :
           /\ e.type = "started" => e.fence = run[a][n].fence
           /\ \A q \in 1..(e.seq - 1) :
                \E d \in events[a][n] : d.fence = e.fence /\ d.seq = q
           /\ \A d \in events[a][n] :
                d.fence = e.fence /\ d.seq = e.seq => d = e
           /\ e.type # "started" =>
                /\ run[a][n].state = e.type
                /\ \A d \in events[a][n] :
                     d # e => d.type = "started" /\ d.fence <= e.fence /\ d.seq < e.seq

\* Whatever state a lease expires in, expiry has an outcome: no loss of a
\* runner leaves a Run that the expiry could not end.  (Of RecoveringSpec: it
\* records no late warning, which pauses the Action.)
LostLeaseIsRecoverable ==
    \A a \in Actions, n \in Attempts, f \in Fences :
      lease[a][n][f].current => ExpiryOutcome(action[a].state, run[a][n].state).ok

\* Fences only grow, and the row of an issued lease keeps its owner and never
\* becomes current again: no request revives a lease that was lost.
LeasesAreNotRevived ==
    [][\A a \in Actions, n \in Attempts :
         /\ run'[a][n].fence >= run[a][n].fence
         /\ \A f \in Fences :
              lease[a][n][f].session # NoSession =>
                /\ lease'[a][n][f].session = lease[a][n][f].session
                /\ lease'[a][n][f].current => lease[a][n][f].current]_vars

\* A decision that was taken stands, whatever arrives after it: an ended Run
\* and its events never change, a Run asked to cancel ends as cancelled or
\* failed under the fence it had, and a warning once acknowledged does not
\* pause the Action again.
DecisionsStand ==
    [][\A a \in Actions :
         /\ \A n \in Attempts :
              /\ run[a][n].state \in TerminalKinds
                   => run'[a][n] = run[a][n] /\ events'[a][n] = events[a][n]
              /\ run[a][n].state = "cancel_requested" =>
                   /\ run'[a][n].state \in {"cancel_requested", "cancelled", "failed"}
                   /\ run'[a][n].fence = run[a][n].fence
         /\ action[a].acknowledged => action'[a].acknowledged /\ ~action'[a].pending]_vars

\* A fence that has been lost is silent: nothing is recorded under it any
\* more, in any order its requests arrive.  (Of RecoveringSpec: every request
\* names the lease it is made under.)
LostFenceIsSilent ==
    [][\A a \in Actions, n \in Attempts, f \in Fences :
         lease[a][n][f].session # NoSession /\ ~lease[a][n][f].current =>
           {e \in events'[a][n] : e.fence = f} = {e \in events[a][n] : e.fence = f}]_vars

-----------------------------------------------------------------------------
(* Liveness.                                                               *)

Waiting(a) == attempt[a] > 0 /\ Latest(a).state = "queued"

Polled == \E rn \in Runners : runner[rn] = "enabled" /\ session[rn] # NoSession

\* No Run blocks the queue for those behind it, not even one requeued at the
\* last fencing token: as long as an enabled runner has a session and every
\* execution ends (by completion, or by losing its lease), each queued Run is
\* taken, failed or cancelled.
QueueProgress ==
    (\A s \in Sessions : []<>~Busy(s))
      => \A a \in Actions : Waiting(a) ~> (~Waiting(a) \/ ~Polled)
=============================================================================
