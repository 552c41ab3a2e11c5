---------------------------- MODULE RunnerProcess ----------------------------
(***************************************************************************)
(* The runner process of apps/runner: one iteration of its loop from the   *)
(* lease request to the completion, await by await, with the child process *)
(* it supervises, the requests it has recorded in its outbox, and as much  *)
(* of the control plane as answers it.                                     *)
(*                                                                         *)
(* Time is counted down, not up.  left[n] is what remains of the lease of  *)
(* Run n on the control plane's clock, trust what remains until the        *)
(* runner's own authorityDeadlineMonotonic.  The two clocks run at the     *)
(* same rate and are never compared.  A timer of the runner that is due    *)
(* runs before time passes: the event loop is not blocked.                 *)
(***************************************************************************)
EXTENDS Naturals, FiniteSets

CONSTANTS
    Runs,           \* the Runs that are queued, in their order: 1..k
    LeaseTicks,     \* leaseDurationMs
    Margin,         \* 7000 ms: work stops this long before the deadline
    CheckTicks,     \* 500 ms: the interval of the fence check
    TermTicks,      \* 5000 ms: from SIGTERM to SIGKILL
    KillTicks,      \* 2000 ms: from SIGKILL to giving up
    MaxCrash        \* bound: crashes of the runner process

ASSUME RunnerAssumption ==
    /\ Runs \subseteq Nat \ {0}
    /\ {LeaseTicks, Margin, CheckTicks, TermTicks, KillTicks} \subseteq Nat \ {0}
    /\ MaxCrash \in Nat
    /\ CheckTicks + TermTicks < Margin
    /\ Margin < LeaseTicks

VARIABLES
    tool,       \* tool[n]: what n executes, a child or HTTP probes
    pc,         \* where runOnce is; "idle" between two iterations
    why,        \* which of the places that await this the runner is at
    me,         \* the Run it holds a lease of (0: none)
    trust,      \* ticks until authorityDeadlineMonotonic
    stop,       \* stop() was called: the abort signal
    hb,         \* heartbeat state
    cancelSeen, \* cancellationRequested
    proc,       \* the supervised work
    alive,      \* Runs whose process group has a live member
    stuck,      \* Runs whose process group no signal reaches
    req,        \* the request that is awaited
    stray,      \* requests given up on that may still be delivered
    outbox,     \* requests with a key on disk
    pub,        \* pub[n]: what is stored as evidence of n
    srv,        \* srv[n]: the runs row
    held,       \* Runs with a current lease
    left,       \* left[n]: ticks until the latest lease of n expires (0: it
                \* has, or the Run has ended)
    enabled,    \* the runner identity is not revoked
    crashes

runnerVars == <<pc, why, me, trust, stop, hb, cancelSeen, req>>
procVars   == <<proc, alive, stuck>>
srvVars    == <<srv, held, left, enabled>>
vars == <<tool, runnerVars, procVars, srvVars, stray, outbox, pub, crashes>>

TerminalKinds == {"succeeded", "failed", "cancelled"}
Requests == [op : {"started", "complete"}, run : Runs, kind : {"none"} \cup TerminalKinds]

NoHeartbeat == [flight |-> "none", pending |-> FALSE, age |-> 0, ahead |-> FALSE,
                wire |-> FALSE, failed |-> FALSE]
NoWork      == [main |-> "none", kill |-> "no", timer |-> 0, failed |-> FALSE,
                due |-> 0, out |-> "none"]
NoRequest   == [op |-> "none", kind |-> "none", answer |-> "none"]

Heartbeats == [flight : {"none", "sent", "ok", "cancel", "refused"}, pending : BOOLEAN,
               age : 0..LeaseTicks, ahead : BOOLEAN, wire : BOOLEAN, failed : BOOLEAN]
Works      == [main : {"none", "running", "closed"}, kill : {"no", "term", "kill", "done"},
               timer : 0..(TermTicks + KillTicks), failed : BOOLEAN, due : 0..CheckTicks,
               out : {"none", "good", "bad", "cut"}]
Exchanges  == [op : {"none", "lease", "started", "complete"}, kind : {"none"} \cup TerminalKinds,
               answer : {"none", "ok", "empty", "conflict", "refused"}]
\* The labels of the streams ("some": not all of them were stored) and of the
\* output the tool itself wrote ("noJson": none, the child being a discovery
\* whose JSON could not be read).  Whether the child wrote more than is
\* retained of it is looked at with the labels.
Evidence   == [streams : {"none", "some", "complete", "partial", "truncated"}, cut : BOOLEAN,
               result : {"none", "noJson", "complete", "partial"}]
NoEvidence == [streams |-> "none", cut |-> FALSE, result |-> "none"]
RunStates  == {"queued", "leased", "running", "cancel_requested"} \cup TerminalKinds

TypeOK ==
    /\ tool \in [Runs -> {"command", "probe"}]
    /\ pc \in {"idle", "leasing", "starting", "ready", "polling", "awaiting", "preparing",
               "working", "stopping", "publishing", "completing", "stopped", "down"}
    /\ why \in {"none", "before", "after", "conflict", "ok", "cancel", "lost", "quit"}
    /\ me \in Runs \cup {0} /\ trust \in 0..LeaseTicks
    /\ hb \in Heartbeats /\ proc \in Works /\ req \in Exchanges
    /\ alive \subseteq Runs /\ stuck \subseteq Runs /\ held \subseteq Runs
    /\ stray \subseteq Requests /\ outbox \subseteq Requests
    /\ pub \in [Runs -> Evidence]
    /\ srv \in [Runs -> RunStates] /\ left \in [Runs -> 0..LeaseTicks]
    /\ stop \in BOOLEAN /\ cancelSeen \in BOOLEAN /\ enabled \in BOOLEAN
    /\ crashes \in 0..MaxCrash

Init ==
    /\ tool \in [Runs -> {"command", "probe"}]
    /\ pc = "idle" /\ why = "none" /\ me = 0 /\ trust = 0 /\ stop = FALSE
    /\ hb = NoHeartbeat /\ cancelSeen = FALSE /\ req = NoRequest
    /\ proc = NoWork /\ alive = {} /\ stuck = {}
    /\ stray = {} /\ outbox = {} /\ pub = [n \in Runs |-> NoEvidence]
    /\ srv = [n \in Runs |-> "queued"] /\ held = {} /\ left = [n \in Runs |-> 0]
    /\ enabled = TRUE /\ crashes = 0

-----------------------------------------------------------------------------
(* What the control plane does with a request (see RunControl).            *)

Authority(n) == enabled /\ n \in held /\ left[n] > 0

\* The state a Run is in after an accepted request, or its state now.
After(r) ==
    CASE r.op = "started" /\ srv[r.run] = "leased" -> "running"
      [] r.op = "complete" -> r.kind
      [] OTHER -> srv[r.run]

Acceptable(r) ==
    /\ Authority(r.run)
    /\ \/ r.op = "started" /\ srv[r.run] \in {"leased", "cancel_requested"}
       \/ r.op = "complete" /\ r.kind = "succeeded" /\ srv[r.run] = "running"
       \/ r.op = "complete" /\ r.kind = "cancelled" /\ srv[r.run] = "cancel_requested"
       \/ r.op = "complete" /\ r.kind = "failed"
            /\ srv[r.run] \in {"leased", "running", "cancel_requested"}

Answer(r) ==
    IF Acceptable(r) THEN "ok"
    ELSE IF Authority(r.run) /\ srv[r.run] = "cancel_requested" THEN "conflict"
    ELSE "refused"

Apply(r) ==
    IF Acceptable(r)
    THEN /\ srv' = [srv EXCEPT ![r.run] = After(r)]
         /\ held' = IF r.op = "complete" THEN held \ {r.run} ELSE held
         /\ left' = IF r.op = "complete" THEN [left EXCEPT ![r.run] = 0] ELSE left
    ELSE UNCHANGED <<srv, held, left>>

\* The request that is awaited now, as the control plane sees it.
Awaited == [op |-> req.op, run |-> me, kind |-> req.kind]

-----------------------------------------------------------------------------
(* The control plane's side.                                               *)

Serve ==
    /\ req.op \in {"started", "complete"} /\ req.answer = "none"
    /\ Apply(Awaited)
    /\ req' = [req EXCEPT !.answer = Answer(Awaited)]
    /\ UNCHANGED <<pc, why, me, trust, stop, hb, cancelSeen, procVars, enabled,
                   stray, outbox, pub, crashes>>

\* The lease route hands out the oldest queued Run.
ServeLease ==
    /\ req.op = "lease" /\ req.answer = "none"
    /\ \/ /\ enabled
          /\ \E n \in Runs :
               /\ srv[n] = "queued"
               /\ \A m \in Runs : srv[m] = "queued" => n <= m
               /\ me' = n
               /\ srv' = [srv EXCEPT ![n] = "leased"]
               /\ held' = held \cup {n}
               /\ left' = [left EXCEPT ![n] = LeaseTicks]
          /\ req' = [req EXCEPT !.answer = "ok"]
       \/ /\ enabled => \A n \in Runs : srv[n] # "queued"
          /\ req' = [req EXCEPT !.answer = IF enabled THEN "empty" ELSE "refused"]
          /\ UNCHANGED <<me, srv, held, left>>
    /\ UNCHANGED <<pc, why, trust, stop, hb, cancelSeen, procVars, enabled, stray, outbox,
                   pub, crashes>>

\* A request the runner gave up on is delivered after all.
ServeStray(r) ==
    /\ r \in stray
    /\ stray' = stray \ {r}
    /\ Apply(r)
    /\ UNCHANGED <<runnerVars, procVars, enabled, outbox, pub, crashes>>

\* A new sequence renews the lease; a repeated one is answered from the row
\* and renews nothing.  Either way the answer says whether to cancel.
ServeHeartbeat ==
    /\ hb.wire
    /\ IF Authority(me)
       THEN /\ left' = IF hb.ahead THEN left ELSE [left EXCEPT ![me] = LeaseTicks]
            /\ hb' = [hb EXCEPT !.wire = FALSE, !.ahead = TRUE,
                        !.flight = IF @ # "sent" THEN @
                                   ELSE IF srv[me] = "cancel_requested" THEN "cancel" ELSE "ok"]
       ELSE /\ left' = left
            /\ hb' = [hb EXCEPT !.wire = FALSE,
                                !.flight = IF @ # "sent" THEN @ ELSE "refused"]
    /\ UNCHANGED <<pc, why, me, trust, stop, cancelSeen, req, procVars, srv, held, enabled,
                   stray, outbox, pub, crashes>>

OperatorCancel(n) ==
    /\ srv[n] \in {"queued", "leased", "running"}
    /\ srv' = [srv EXCEPT ![n] = IF @ = "queued" THEN "cancelled" ELSE "cancel_requested"]
    /\ UNCHANGED <<runnerVars, procVars, held, left, enabled, stray, outbox, pub, crashes>>

\* Revocation drops every lease and asks what was live to cancel.
RevokeRunner ==
    /\ enabled
    /\ enabled' = FALSE
    /\ held' = {}
    /\ srv' = [n \in Runs |-> IF n \in held /\ srv[n] \in {"leased", "running"}
                              THEN "cancel_requested" ELSE srv[n]]
    /\ UNCHANGED <<runnerVars, procVars, left, stray, outbox, pub, crashes>>

-----------------------------------------------------------------------------
(* The runner: authority, heartbeats.                                      *)

\* Slip: the margin that the cleanup needs is forgotten.
AuthorityLostSlip == stop \/ hb.failed \/ trust = 0

\* isAuthorityLost: shut down, told so, or seven seconds from the deadline.
AuthorityLost == stop \/ hb.failed \/ trust <= Margin

InLease == pc \in {"ready", "polling", "awaiting", "preparing", "working", "stopping",
                   "publishing", "completing"}

\* pendingHeartbeatSentMonotonic is kept until an answer arrives.
SentHeartbeat ==
    [hb EXCEPT !.flight = "sent", !.wire = TRUE, !.pending = TRUE,
               !.age = IF hb.pending THEN @ ELSE 0]

\* pollHeartbeat, called by the interval or by runOnce.
PollHeartbeat ==
    IF AuthorityLost THEN hb' = [hb EXCEPT !.failed = TRUE]
    ELSE IF hb.flight # "none" THEN hb' = hb
    ELSE hb' = SentHeartbeat

HeartbeatTimer ==
    /\ InLease /\ ~stop /\ hb.flight = "none"
    /\ PollHeartbeat
    /\ UNCHANGED <<pc, why, me, trust, stop, cancelSeen, req, procVars, srvVars, stray, outbox,
                   pub, crashes>>

\* The answer counts only while the authority it would extend still stands.
HeartbeatAnswered ==
    /\ hb.flight \in {"ok", "cancel"}
    /\ IF hb.failed \/ trust <= Margin
       THEN hb' = [hb EXCEPT !.flight = "none", !.failed = TRUE] /\ UNCHANGED <<trust, cancelSeen>>
       ELSE /\ hb' = [hb EXCEPT !.flight = "none", !.pending = FALSE, !.age = 0, !.ahead = FALSE]
            /\ trust' = LeaseTicks - hb.age
            /\ cancelSeen' = (cancelSeen \/ hb.flight = "cancel")
    /\ UNCHANGED <<pc, why, me, stop, req, procVars, srvVars, stray, outbox, pub, crashes>>

HeartbeatRefused ==
    /\ hb.flight = "refused"
    /\ hb' = [hb EXCEPT !.flight = "none", !.failed = TRUE]
    /\ UNCHANGED <<pc, why, me, trust, stop, cancelSeen, req, procVars, srvVars, stray, outbox,
                   pub, crashes>>

\* Aborted after five seconds, or broken: what was sent may still arrive.
HeartbeatUnanswered ==
    /\ hb.flight # "none"
    /\ hb' = [hb EXCEPT !.flight = "none"]
    /\ UNCHANGED <<pc, why, me, trust, stop, cancelSeen, req, procVars, srvVars, stray, outbox,
                   pub, crashes>>

\* "awaiting" is left when the heartbeat in flight, if any, has ended.
StartPoll ==
    /\ pc = "polling"
    /\ PollHeartbeat
    /\ pc' = "awaiting"
    /\ UNCHANGED <<why, me, trust, stop, cancelSeen, req, procVars, srvVars, stray, outbox, pub,
                   crashes>>

-----------------------------------------------------------------------------
(* The runner: requests.                                                   *)

Goto(p, w) == pc' = p /\ why' = w

Release ==
    /\ pc' = IF stop THEN "stopped" ELSE "idle"
    /\ why' = "none" /\ me' = 0 /\ trust' = 0 /\ hb' = NoHeartbeat /\ cancelSeen' = FALSE
    /\ req' = NoRequest /\ proc' = NoWork

\* Slip: the request goes out and its key is written down afterwards.
RecordSlip(r) == outbox' = outbox

\* getOrCreateOutboxEntry, fsynced before the request is sent.
Record(r) == outbox' = outbox \cup {r}

\* removeOutboxAtomically, once there is a response of any kind.
Forget == outbox' = outbox \ {Awaited}

\* completeRun.
Send(kind) ==
    /\ Goto("completing", "none")
    /\ req' = [op |-> "complete", kind |-> kind, answer |-> "none"]
    /\ Record([op |-> "complete", run |-> me, kind |-> kind])

RequestLease ==
    /\ pc = "idle" /\ ~stop
    /\ Goto("leasing", "none")
    /\ trust' = LeaseTicks
    /\ req' = [op |-> "lease", kind |-> "none", answer |-> "none"]
    /\ UNCHANGED <<me, stop, hb, cancelSeen, procVars, srvVars, stray, outbox, pub, crashes>>

LeaseAnswered ==
    /\ pc = "leasing" /\ req.answer # "none"
    /\ IF stop \/ req.answer # "ok"
       THEN Release /\ UNCHANGED outbox
       ELSE /\ Goto("starting", "none")
            /\ req' = [op |-> "started", kind |-> "none", answer |-> "none"]
            /\ Record([op |-> "started", run |-> me, kind |-> "none"])
            /\ UNCHANGED <<me, trust, hb, cancelSeen, proc>>
    /\ UNCHANGED <<stop, alive, stuck, srvVars, stray, pub, crashes>>

\* started is recorded by the control plane before anything runs.
StartedAnswered ==
    /\ pc = "starting" /\ req.answer # "none"
    /\ IF req.answer # "ok"
       THEN Forget /\ Release
       ELSE /\ IF stop
               THEN /\ Goto("completing", "none")
                    /\ req' = [op |-> "complete", kind |-> "failed", answer |-> "none"]
                    /\ outbox' = (outbox \ {Awaited})
                         \cup {[op |-> "complete", run |-> me, kind |-> "failed"]}
               ELSE Goto("ready", "before") /\ req' = NoRequest /\ Forget
            /\ UNCHANGED <<me, trust, hb, cancelSeen, proc>>
    /\ UNCHANGED <<stop, alive, stuck, srvVars, stray, pub, crashes>>

CompleteAnswered ==
    /\ pc = "completing" /\ req.answer # "none"
    /\ Forget
    /\ IF req.answer = "conflict" /\ req.kind = "succeeded"
       THEN Goto("polling", "conflict") /\ req' = NoRequest
            /\ UNCHANGED <<me, trust, hb, cancelSeen, proc>>
       ELSE Release
    /\ UNCHANGED <<stop, alive, stuck, srvVars, stray, pub, crashes>>

\* fetch rejects, or the entry cannot be removed: runOnce gives up on the Run.
\* What was sent may still be delivered; its outbox entry stays.
RequestBroken ==
    /\ pc \in {"leasing", "starting", "completing"}
    /\ Release
    /\ stray' = IF req.op # "lease" /\ req.answer = "none" THEN stray \cup {Awaited} ELSE stray
    /\ UNCHANGED <<stop, alive, stuck, srvVars, outbox, pub, crashes>>

-----------------------------------------------------------------------------
(* The runner: the work.                                                   *)

Kept == UNCHANGED <<me, trust, stop, hb, cancelSeen, alive, stuck, srvVars, stray, crashes>>

\* Preparation and the executable's verification, then the first poll.
Prepare ==
    /\ pc = "ready"
    /\ IF AuthorityLost THEN Send("failed")
                        ELSE Goto("polling", "before") /\ UNCHANGED <<req, outbox>>
    /\ Kept /\ UNCHANGED <<proc, pub>>

\* Work that cannot be prepared (invalid snapshot, no executable) fails.
CannotPrepare ==
    /\ pc = "preparing"
    /\ Send("failed")
    /\ Kept /\ UNCHANGED <<proc, pub>>

BeforeWork ==
    /\ pc = "awaiting" /\ why = "before" /\ hb.flight = "none"
    /\ \/ AuthorityLost /\ Send("failed")
       \/ ~AuthorityLost /\ cancelSeen /\ Goto("publishing", "cancel") /\ UNCHANGED <<req, outbox>>
       \/ ~AuthorityLost /\ ~cancelSeen /\ Goto("preparing", "before") /\ UNCHANGED <<req, outbox>>
    /\ Kept /\ UNCHANGED <<proc, pub>>

\* Intent is looked at again where the child is spawned or the URL fetched.
Spawnable == ~cancelSeen /\ ~AuthorityLost

Spawn ==
    /\ pc = "preparing"
    /\ Goto("working", "none")
    /\ IF Spawnable
       THEN /\ proc' = [NoWork EXCEPT !.main = "running", !.due = CheckTicks]
            /\ alive' = alive \cup {me}
            /\ \/ stuck' = stuck
               \/ tool[me] = "command" /\ stuck' = stuck \cup {me}
       ELSE /\ proc' = [NoWork EXCEPT !.main = "closed", !.out = "cut"]
            /\ UNCHANGED <<alive, stuck>>
    /\ UNCHANGED <<me, trust, stop, hb, cancelSeen, req, srvVars, stray, outbox, pub, crashes>>

\* The child exits on its own or of a signal, or the last URL is fetched.  A
\* child may leave descendants behind in its group.
WorkEnds ==
    /\ proc.main = "running"
    /\ \E out \in {"good", "bad", "cut"} :
         /\ out = "cut" => proc.kill # "no"
         /\ proc' = [proc EXCEPT !.main = "closed", !.out = out, !.due = 0]
    /\ \/ alive' = alive \ {me}
       \/ tool[me] = "command" /\ alive' = alive
    /\ UNCHANGED <<runnerVars, stuck, srvVars, stray, outbox, pub, crashes>>

DescendantsEnd(n) ==
    /\ n \in alive
    /\ n = me => proc.main # "running"
    /\ alive' = alive \ {n}
    /\ UNCHANGED <<runnerVars, proc, stuck, srvVars, stray, outbox, pub, crashes>>

\* cancel(): SIGTERM to the group; repeated calls share one cancellation.
Cancelled(p) ==
    IF p.kill # "no" \/ p.main = "none" THEN p
    ELSE [p EXCEPT !.kill = "term", !.timer = TermTicks]

\* The 500 ms interval.  An HTTP probe in flight is aborted at once.
FenceCheck ==
    /\ proc.main = "running" /\ proc.kill = "no" /\ proc.due = 0
    /\ IF cancelSeen \/ AuthorityLost
       THEN IF tool[me] = "probe"
            THEN /\ proc' = [proc EXCEPT !.main = "closed", !.out = "cut"]
                 /\ alive' = alive \ {me}
            ELSE proc' = [Cancelled(proc) EXCEPT !.due = 0] /\ alive' = alive
       ELSE proc' = [proc EXCEPT !.due = CheckTicks] /\ alive' = alive
    /\ UNCHANGED <<runnerVars, stuck, srvVars, stray, outbox, pub, crashes>>

\* The result settles when the cancellation ends, close event or not.  The
\* cleanup failed if the group is still there, or if a signal was refused.
SettleWork ==
    \E failed \in BOOLEAN :
      /\ me \in alive => failed
      /\ failed => me \in alive \cup stuck
      /\ proc' = [proc EXCEPT !.kill = "done", !.failed = failed, !.main = "closed",
                              !.timer = 0, !.out = IF proc.main = "running" THEN "cut" ELSE @]

\* Slip: a cancellation that SIGKILL did not end waits for the close event.
GiveUpSlip == proc.main = "closed"

\* After the last wait the result settles whatever the group does.
GiveUp == proc.kill = "kill" /\ proc.timer = 0

\* The escalation: SIGTERM, SIGKILL, then the verdict on the cleanup.
Escalate ==
    /\ proc.kill \in {"term", "kill"}
    /\ \/ (me \notin alive \/ GiveUp) /\ SettleWork /\ UNCHANGED alive
       \/ /\ proc.kill = "term" /\ me \in alive /\ proc.timer = 0
          /\ proc' = [proc EXCEPT !.kill = "kill", !.timer = KillTicks,
                                  !.main = IF me \in stuck THEN @ ELSE "closed",
                                  !.out = IF me \in stuck \/ @ # "none" THEN @ ELSE "cut"]
          /\ alive' = IF me \in stuck THEN alive ELSE alive \ {me}
    /\ UNCHANGED <<runnerVars, stuck, srvVars, stray, outbox, pub, crashes>>

Settled == proc.main = "closed" /\ proc.kill \in {"no", "done"}

\* The result is in: poll once more before deciding what to report.
WorkSettled ==
    /\ pc = "working" /\ Settled
    /\ Goto("polling", "after")
    /\ UNCHANGED <<me, trust, stop, hb, cancelSeen, req, procVars, srvVars, stray, outbox, pub,
                   crashes>>

\* Slip: work that has already ended is not asked to stop.
StopNativeSlip == proc' = proc

\* stopNative: nothing to stop for a probe or before the first spawn.
StopNative == proc' = IF tool[me] = "command" THEN Cancelled(proc) ELSE proc

\* Lost authority wins over a cancellation; probes of which one failed have
\* nothing to publish.
ProbesFailed == tool[me] = "probe" /\ proc.out # "good"

AfterWork ==
    /\ pc = "awaiting" /\ why = "after" /\ hb.flight = "none"
    /\ \/ AuthorityLost /\ StopNative /\ Goto("stopping", "lost") /\ UNCHANGED <<req, outbox>>
       \/ ~AuthorityLost /\ cancelSeen /\ StopNative /\ Goto("stopping", "cancel")
            /\ UNCHANGED <<req, outbox>>
       \/ ~AuthorityLost /\ ~cancelSeen /\ ProbesFailed /\ Send("failed") /\ proc' = proc
       \/ ~AuthorityLost /\ ~cancelSeen /\ ~ProbesFailed /\ Goto("publishing", "ok")
            /\ proc' = proc /\ UNCHANGED <<req, outbox>>
    /\ Kept /\ UNCHANGED pub

\* The control plane had a cancellation first: what was published stays, the
\* cleanup is verified and reported.
AfterConflict ==
    /\ pc = "awaiting" /\ why = "conflict" /\ hb.flight = "none"
    /\ \/ AuthorityLost /\ StopNative /\ Goto("stopping", "quit") /\ UNCHANGED <<req, outbox>>
       \/ ~AuthorityLost /\ cancelSeen /\ StopNative /\ Goto("stopping", "conflict")
            /\ UNCHANGED <<req, outbox>>
    /\ Kept /\ UNCHANGED pub

\* ... or it did not: the error is thrown and the Run given up.
ConflictUnexplained ==
    /\ pc = "awaiting" /\ why = "conflict" /\ hb.flight = "none"
    /\ ~AuthorityLost /\ ~cancelSeen
    /\ Release
    /\ UNCHANGED <<stop, alive, stuck, srvVars, stray, outbox, pub, crashes>>

CleanedKind == IF proc.failed THEN "failed" ELSE "cancelled"

\* Whether what the stopped work left is published: of a cancellation while
\* the authority stands, of a lost child always, of lost probes if every URL
\* was fetched and only a shutdown ended the authority.
Keeps ==
    \/ why = "lost" /\ tool[me] = "command"
    \/ why = "lost" /\ proc.out = "good" /\ ~hb.failed /\ trust > Margin
    \/ why = "cancel" /\ ~AuthorityLost

NativeStopped ==
    /\ pc = "stopping" /\ proc.kill \in {"no", "done"}
    /\ IF Keeps THEN Goto("publishing", why) /\ UNCHANGED <<req, outbox>>
                ELSE Send(IF why = "conflict" /\ ~AuthorityLost THEN CleanedKind ELSE "failed")
    /\ Kept /\ UNCHANGED <<proc, pub>>

-----------------------------------------------------------------------------
(* The runner: publication (see EvidencePublication) and the report.       *)

\* The label of a stream: a cut wins over a cancellation.
Label(cut) == IF cut THEN "truncated" ELSE IF why = "ok" THEN "complete" ELSE "partial"

\* The labels the tool's own output can have.  That of work that did not end
\* well is partial, or is complete although a signal ended the child, or could
\* not be read: nothing tells these apart, and "partial" stands for them.
ResultLabels ==
    IF proc.main = "none" THEN {"none"}
    ELSE IF why # "ok" \/ proc.out # "good" THEN {"partial"}
    ELSE IF tool[me] = "probe" THEN {"complete"}
    ELSE {"complete", "none", "noJson"}

PublishedKind ==
    IF why = "lost" \/ AuthorityLost THEN "failed"
    ELSE IF why = "cancel" THEN CleanedKind
    ELSE IF proc.out = "good" THEN "succeeded" ELSE "failed"

\* A scan that ended well without a readable XML fails; a discovery that did
\* not parse is reported without another look at the authority.
MustFail(result) == why = "ok" /\ proc.out = "good" /\ result = "none"

MayFail(result) == MustFail(result) \/ (why = "ok" /\ proc.out # "good")

\* Every artifact was stored and every answer arrived.
Published ==
    /\ pc = "publishing"
    /\ Authority(me) /\ srv[me] \notin TerminalKinds
    /\ \E cut \in BOOLEAN, result \in ResultLabels :
         /\ cut => tool[me] = "command" /\ proc.main # "none"
         /\ pub' = [pub EXCEPT ![me] = [streams |-> Label(cut), cut |-> cut, result |-> result]]
         /\ \/ MayFail(result) /\ Send("failed") /\ proc' = proc
            \/ /\ ~MustFail(result) /\ why = "ok" /\ AuthorityLost
               /\ Goto("stopping", "quit") /\ StopNative /\ UNCHANGED <<req, outbox>>
            \/ /\ ~MustFail(result) /\ ~(why = "ok" /\ AuthorityLost)
               /\ Send(PublishedKind) /\ proc' = proc
    /\ Kept

\* Slip: after a failed publication the result is reported all the same.
UnpublishedKindSlip == IF why = "ok" /\ proc.out = "good" THEN "succeeded" ELSE "failed"

UnpublishedKind == "failed"

\* A grant, an upload or an answer failed; what was stored stays stored.
PublicationFailed ==
    /\ pc = "publishing"
    /\ \/ pub' = pub
       \/ /\ Authority(me) /\ srv[me] \notin TerminalKinds
          /\ pub' = [pub EXCEPT ![me].streams = IF @ = "none" THEN "some" ELSE @]
    /\ Send(UnpublishedKind)
    /\ Kept /\ UNCHANGED proc

-----------------------------------------------------------------------------
(* Shutdown, crash, time.                                                  *)

Stop ==
    /\ ~stop /\ pc # "down"
    /\ stop' = TRUE
    /\ pc' = IF pc = "idle" THEN "stopped" ELSE pc
    /\ UNCHANGED <<why, me, trust, hb, cancelSeen, req, procVars, srvVars, stray, outbox, pub,
                   crashes>>

\* The child runs in a process group of its own and survives the runner.
Crash ==
    /\ crashes < MaxCrash /\ pc \notin {"down", "stopped"}
    /\ crashes' = crashes + 1
    /\ pc' = "down" /\ why' = "none" /\ me' = 0 /\ trust' = 0 /\ hb' = NoHeartbeat
    /\ cancelSeen' = FALSE /\ req' = NoRequest /\ proc' = NoWork /\ stop' = FALSE
    /\ stray' = IF req.op \in {"started", "complete"} /\ req.answer = "none"
                THEN stray \cup {Awaited} ELSE stray
    /\ UNCHANGED <<alive, stuck, srvVars, outbox, pub>>

\* A new session.  Neither the outbox nor the old Run is looked at.
Restart ==
    /\ pc = "down"
    /\ pc' = "idle"
    /\ UNCHANGED <<why, me, trust, stop, hb, cancelSeen, req, procVars, srvVars, stray, outbox,
                   pub, crashes>>

Less(t) == IF t = 0 THEN 0 ELSE t - 1

TimerDue ==
    \/ proc.main = "running" /\ proc.kill = "no" /\ proc.due = 0
    \/ proc.kill \in {"term", "kill"} /\ proc.timer = 0

Tick ==
    /\ ~TimerDue
    /\ trust' = Less(trust)
    /\ left' = [n \in Runs |-> Less(left[n])]
    /\ hb' = [hb EXCEPT !.age = IF hb.pending /\ @ < LeaseTicks THEN @ + 1 ELSE @]
    /\ proc' = [proc EXCEPT !.timer = Less(@), !.due = Less(@)]
    /\ UNCHANGED <<pc, why, me, stop, cancelSeen, req, alive, stuck, srv, held, enabled, stray,
                   outbox, pub, crashes>>

-----------------------------------------------------------------------------
ControlPlane ==
    \/ Serve \/ ServeLease \/ ServeHeartbeat
    \/ \E r \in stray : ServeStray(r)
    \/ \E n \in Runs : OperatorCancel(n)
    \/ RevokeRunner

Runner ==
    \/ HeartbeatTimer \/ HeartbeatAnswered \/ HeartbeatRefused \/ HeartbeatUnanswered
    \/ StartPoll \/ RequestLease \/ LeaseAnswered \/ StartedAnswered \/ CompleteAnswered
    \/ RequestBroken \/ Prepare \/ CannotPrepare \/ BeforeWork \/ Spawn \/ FenceCheck
    \/ Escalate \/ WorkSettled \/ AfterWork \/ AfterConflict \/ ConflictUnexplained
    \/ NativeStopped \/ Published \/ PublicationFailed

Environment ==
    \/ WorkEnds \/ (\E n \in Runs : DescendantsEnd(n))
    \/ Stop \/ Crash \/ Restart \/ Tick

Next == (ControlPlane \/ Runner \/ Environment) /\ UNCHANGED tool

Spec == Init /\ [][Next]_vars

\* The steps of runOnce itself.  Every fetch it awaits ends, with an answer or
\* an error; timers fire; the operating system reports what exits.
Iteration ==
    \/ StartPoll \/ LeaseAnswered \/ StartedAnswered \/ CompleteAnswered \/ RequestBroken
    \/ Prepare \/ CannotPrepare \/ BeforeWork \/ Spawn \/ FenceCheck \/ WorkSettled
    \/ AfterWork \/ AfterConflict \/ ConflictUnexplained \/ NativeStopped
    \/ Published \/ PublicationFailed

HeartbeatEnds == HeartbeatAnswered \/ HeartbeatRefused \/ HeartbeatUnanswered

FairSpec ==
    /\ Spec
    /\ WF_vars(Iteration /\ UNCHANGED tool)
    /\ WF_vars(HeartbeatEnds /\ UNCHANGED tool)
    /\ WF_vars(Escalate /\ UNCHANGED tool)
    /\ WF_vars(Tick /\ UNCHANGED tool)

-----------------------------------------------------------------------------
(* Properties.                                                             *)

\* A child that signals can reach, and every probe, has ended before the lease
\* of its Run runs out (the seven seconds of isAuthorityLost).
NoWorkPastLease ==
    proc.main = "running" /\ me \notin stuck => left[me] > 0

\* A Run that is reported cancelled has no process left, descendants of an
\* exited child included (finishOperatorCancellation, stopNative).
CancelledMeansStopped ==
    \A n \in Runs :
      ~(srv[n] = "cancelled" /\ n \in alive)

\* All of it is stored, the streams labelled complete, or truncated where the
\* child wrote more than is retained, and the tool's own output complete,
\* which only a discovery may lack.
Whole(evidence) ==
    /\ evidence.streams = IF evidence.cut THEN "truncated" ELSE "complete"
    /\ evidence.result \in {"complete", "noJson"}

\* A Run that succeeded has all of its evidence, under the labels that say
\* what is missing from it (evidence-client.ts:31, runner.ts:686-699, 840-853
\* and 1110-1135).
SucceededMeansPublished ==
    \A n \in Runs : srv[n] = "succeeded" => Whole(pub[n])

\* Whatever the control plane recorded of a Run without the runner knowing,
\* the request's key is still in the outbox, after a crash too.
UnansweredRequestIsRecorded ==
    /\ stray \subseteq outbox
    /\ req.op \in {"started", "complete"} => Awaited \in outbox

\* A stop of the runner ends, with a child that no signal reaches, with
\* requests that are never answered, at any point of an iteration.
StopEnds == stop ~> pc \in {"stopped", "down"}
=============================================================================
