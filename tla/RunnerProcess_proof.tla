------------------------ MODULE RunnerProcess_proof ------------------------
(***************************************************************************)
(* The safety of the runner process, for every value of the constants that *)
(* RunnerAssumption allows.  IInv is the inductive invariant: which place  *)
(* of the iteration goes with which request, Run and child (Base), what the*)
(* requests that are still under way claim (Strays, Stored), where a       *)
(* process can be left (Quiet), and how the runner's own deadline, the     *)
(* heartbeat in flight and the lease are ordered (Beats, Time).            *)
(***************************************************************************)
EXTENDS RunnerProcess, TLAPS

Live == {"leased", "running", "cancel_requested"}

\* The runner holds a lease of me and has not been told that its report of
\* the end was accepted.
Engaged == me # 0 /\ ~(pc = "completing" /\ req.answer = "ok")

\* Which request, Run and work each place of the iteration goes with.
ReqPlaces ==
    /\ req.op = "lease" <=> pc = "leasing"
    /\ req.op = "started" <=> pc = "starting"
    /\ req.op = "complete" <=> pc = "completing"
    /\ req.op = "none" => req.answer = "none"
    /\ req.op = "complete" <=> req.kind # "none"

MePlaces ==
    /\ pc \in {"idle", "stopped", "down"} => me = 0
    /\ pc = "leasing" => (me # 0 <=> req.answer = "ok")
    /\ pc \notin {"idle", "stopped", "down", "leasing"} => me # 0
    /\ pc \in {"idle", "leasing", "starting", "stopped", "down"} => hb = NoHeartbeat

WorkPlaces ==
    /\ pc \in {"idle", "stopped", "down", "leasing", "starting", "ready", "preparing"} =>
         proc = NoWork
    /\ pc \in {"polling", "awaiting"} => why \in {"before", "after", "conflict"}
    /\ pc \in {"polling", "awaiting"} /\ why = "before" => proc = NoWork
    /\ pc \in {"polling", "awaiting"} /\ why # "before" => proc.main = "closed"
    /\ proc.main = "running" => pc = "working"
    /\ pc = "working" => proc.main # "none"
    /\ pc = "stopping" => proc.main = "closed" /\ why \in {"lost", "cancel", "conflict", "quit"}
    /\ pc = "publishing" => why \in {"ok", "cancel", "lost"}
    /\ pc = "publishing" /\ why = "ok" => proc.main = "closed"
    /\ pc = "completing" /\ req.kind = "succeeded" => proc.main = "closed"
    /\ proc.main = "none" => proc = NoWork

RunLive ==
    /\ Engaged => srv[me] \in Live
    /\ me # 0 => srv[me] # "queued"

Strays ==
    \A r \in stray :
      /\ r.run # me
      /\ srv[r.run] # "queued"
      /\ r.op = "complete" <=> r.kind # "none"
      /\ r.kind = "cancelled" => r.run \notin alive
      /\ r.kind = "succeeded" => Whole(pub[r.run])

Quiet ==
    /\ \A n \in Runs : srv[n] = "queued" => n \notin alive
    /\ me # 0 /\ proc.main = "none" => me \notin alive
    /\ proc.kill = "done" => (me \in alive => proc.failed) /\ proc.main # "running"
    /\ me # 0 /\ tool[me] = "probe" => proc.kill = "no" /\ (proc.main # "running" => me \notin alive)
    /\ pc = "stopping" /\ tool[me] = "command" => proc.kill # "no"
    /\ pc = "publishing" /\ why = "cancel" => (me \in alive => proc.failed)
    /\ req.kind = "cancelled" => me \notin alive

Stored == pc = "completing" /\ req.kind = "succeeded" => Whole(pub[me])

Beats ==
    /\ hb.flight \in {"ok", "cancel"} => ~hb.wire /\ hb.ahead
    /\ hb.flight = "refused" => ~hb.wire
    /\ hb.ahead => hb.pending
    /\ hb.wire => hb.pending
    /\ hb.flight = "sent" => hb.pending
    /\ hb.pending => trust + hb.age <= LeaseTicks
    /\ Engaged /\ hb.ahead => LeaseTicks <= left[me] + hb.age

Time ==
    /\ Engaged => trust <= left[me]
    /\ proc.main = "running" /\ proc.kill = "no" => trust + CheckTicks > Margin + proc.due
    /\ proc.main = "running" /\ proc.kill = "term" =>
         trust + CheckTicks + TermTicks > Margin + proc.timer
    /\ proc.main = "running" /\ proc.kill = "kill" => me \in stuck

\* The shape of the runner's state.
Base == TypeOK /\ ReqPlaces /\ MePlaces /\ WorkPlaces

IInv ==
    /\ Base /\ RunLive /\ Strays /\ Quiet /\ Stored /\ Beats /\ Time
    /\ UnansweredRequestIsRecorded /\ SucceededMeansPublished /\ CancelledMeansStopped

-----------------------------------------------------------------------------
\* RunnerAssumption, one constant at a time.
LEMMA Durations ==
    /\ Runs \subseteq Nat \ {0} /\ MaxCrash \in Nat
    /\ LeaseTicks \in Nat /\ Margin \in Nat /\ CheckTicks \in Nat
    /\ TermTicks \in Nat /\ KillTicks \in Nat
    /\ LeaseTicks > 0 /\ Margin > 0 /\ CheckTicks > 0 /\ TermTicks > 0 /\ KillTicks > 0
    /\ CheckTicks + TermTicks < Margin /\ Margin < LeaseTicks
  BY RunnerAssumption

\* What the timers are set to is in the range of the timers.
LEMMA Ranges ==
    /\ 0 \in 0..LeaseTicks /\ LeaseTicks \in 0..LeaseTicks
    /\ 0 \in 0..CheckTicks /\ CheckTicks \in 0..CheckTicks
    /\ {0, TermTicks, KillTicks} \subseteq 0..(TermTicks + KillTicks)
    /\ 0 \in 0..MaxCrash
  BY Durations

\* A count that goes down, or up to a limit, stays in its range.
LEMMA Counting ==
    ASSUME NEW k \in Nat, NEW x \in 0..k
    PROVE  /\ Less(x) \in 0..k
           /\ x < k => x + 1 \in 0..k
           /\ k - x \in 0..k
  BY DEF Less

\* The empty heartbeat, work and request.
LEMMA Constants == NoHeartbeat \in Heartbeats /\ NoWork \in Works /\ NoRequest \in Exchanges
  BY Ranges DEF NoHeartbeat, Heartbeats, NoWork, Works, NoRequest, Exchanges

\* Asking work to stop leaves it work.
LEMMA CancelledType == \A p \in Works : Cancelled(p) \in Works
  BY Ranges DEF Cancelled, Works

\* A heartbeat that is sent is one.
LEMMA SentType == hb \in Heartbeats => SentHeartbeat \in Heartbeats
  <1> SUFFICES ASSUME hb \in Heartbeats PROVE SentHeartbeat \in Heartbeats
    OBVIOUS
  <1>1. (IF hb.pending THEN hb.age ELSE 0) \in 0..LeaseTicks
    BY Ranges DEF Heartbeats
  <1>2. QED
    BY <1>1 DEF SentHeartbeat, Heartbeats

\* So is one that is polled.
LEMMA PollType == hb \in Heartbeats /\ PollHeartbeat => hb' \in Heartbeats
  <1> SUFFICES ASSUME hb \in Heartbeats, PollHeartbeat PROVE hb' \in Heartbeats
    OBVIOUS
  <1>1. [hb EXCEPT !.failed = TRUE] \in Heartbeats
    BY DEF Heartbeats
  <1>2. QED
    BY <1>1, SentType DEF PollHeartbeat

\* Asking work to stop starts the escalation once and nothing else.
LEMMA CancelledKeeps ==
    ASSUME NEW p \in Works
    PROVE  /\ Cancelled(p).main = p.main /\ Cancelled(p).out = p.out
           /\ Cancelled(p).failed = p.failed
           /\ \/ Cancelled(p) = p /\ (p.kill # "no" \/ p.main = "none")
              \/ /\ p.main # "none" /\ p.kill = "no"
                 /\ Cancelled(p).kill = "term" /\ Cancelled(p).timer = TermTicks
  <1>1. CASE p.kill # "no" \/ p.main = "none"
    BY <1>1 DEF Cancelled
  <1>2. CASE p.kill = "no" /\ p.main # "none"
    <2>1. Cancelled(p) = [p EXCEPT !.kill = "term", !.timer = TermTicks]
      BY <1>2 DEF Cancelled
    <2>2. QED
      BY <1>2, <2>1 DEF Works
  <1>3. QED
    BY <1>1, <1>2

\* The two things Escalate does.
LEMMA EscalateDoes ==
    ASSUME TypeOK, Escalate
    PROVE  \/ /\ me \notin alive \/ (proc.kill = "kill" /\ proc.timer = 0)
              /\ alive' = alive
              /\ proc'.kill = "done" /\ proc'.main = "closed"
              /\ proc'.failed \in BOOLEAN /\ (me \in alive => proc'.failed)
              /\ proc'.failed => me \in alive \cup stuck
           \/ /\ proc.kill = "term" /\ me \in alive /\ proc.timer = 0
              /\ proc'.kill = "kill" /\ proc'.failed = proc.failed
              /\ \/ me \in stuck /\ alive' = alive /\ proc'.main = proc.main
                 \/ me \notin stuck /\ alive' = alive \ {me} /\ proc'.main = "closed"
  <1> USE DEF TypeOK, Works
  <1>1. CASE (me \notin alive \/ GiveUp) /\ SettleWork /\ UNCHANGED alive
    <2>1. PICK f \in BOOLEAN :
            /\ me \in alive => f
            /\ f => me \in alive \cup stuck
            /\ proc' = [proc EXCEPT !.kill = "done", !.failed = f, !.main = "closed",
                          !.timer = 0, !.out = IF proc.main = "running" THEN "cut" ELSE @]
      BY <1>1 DEF SettleWork
    <2>2. QED
      BY <1>1, <2>1 DEF GiveUp
  <1>2. CASE ~((me \notin alive \/ GiveUp) /\ SettleWork /\ UNCHANGED alive)
    <2>1. PICK o \in {"none", "good", "bad", "cut"} :
            proc' = [proc EXCEPT !.kill = "kill", !.timer = KillTicks,
                       !.main = IF me \in stuck THEN @ ELSE "closed", !.out = o]
      BY <1>2 DEF Escalate
    <2>2. /\ proc.kill = "term" /\ me \in alive /\ proc.timer = 0
          /\ alive' = IF me \in stuck THEN alive ELSE alive \ {me}
      BY <1>2 DEF Escalate
    <2>3. QED
      BY <2>1, <2>2
  <1>3. QED
    BY <1>1, <1>2

\* What an accepted request does to the rows.
LEMMA ApplyDoes ==
    ASSUME TypeOK, NEW r \in Requests, r.op = "complete" <=> r.kind # "none", Apply(r)
    PROVE  \A n \in Runs :
             \/ srv'[n] = srv[n]
             \/ n = r.run /\ srv[n] = "leased" /\ srv'[n] = "running" /\ r.op = "started"
             \/ n = r.run /\ srv[n] \in Live /\ srv'[n] = r.kind /\ r.op = "complete"
  BY DEF Apply, After, Acceptable, Authority, TypeOK, Requests, RunStates, Live, TerminalKinds

\* stopNative on work that has run.
LEMMA StopNativeDoes ==
    ASSUME TypeOK, proc.main # "none", StopNative
    PROVE  /\ proc'.main = proc.main /\ proc'.out = proc.out /\ proc'.failed = proc.failed
           /\ proc' = proc \/ (tool[me] = "command" /\ proc.kill = "no" /\ proc'.kill = "term"
                               /\ proc'.timer = TermTicks)
           /\ tool[me] = "command" => proc'.kill # "no"
  BY CancelledKeeps DEF StopNative, TypeOK

\* What a publication stores and where it leads: a success is reported of
\* whole evidence only, a cancellation of work that was cleaned up.
LEMMA PublishedDoes ==
    ASSUME TypeOK, WorkPlaces, Published
    PROVE  /\ pc = "publishing" /\ me \in Runs
           /\ \E e \in Evidence :
                /\ pub' = [pub EXCEPT ![me] = e]
                /\ \/ /\ why = "ok" /\ pc' = "stopping" /\ why' = "quit"
                      /\ StopNative /\ UNCHANGED <<req, outbox>>
                   \/ \E kind \in TerminalKinds :
                        /\ Send(kind) /\ proc' = proc
                        /\ kind = "succeeded" => Whole(e)
                        /\ kind = "cancelled" => why = "cancel" /\ ~proc.failed
  <1>1. pc = "publishing" /\ me \in Runs /\ why \in {"ok", "cancel", "lost"}
    BY DEF Published, Authority, TypeOK, WorkPlaces
  <1>2. PICK cut \in BOOLEAN, result \in ResultLabels :
          /\ pub' = [pub EXCEPT ![me] = [streams |-> Label(cut), cut |-> cut, result |-> result]]
          /\ \/ MayFail(result) /\ Send("failed") /\ proc' = proc
             \/ /\ ~MustFail(result) /\ why = "ok" /\ AuthorityLost
                /\ Goto("stopping", "quit") /\ StopNative /\ UNCHANGED <<req, outbox>>
             \/ /\ ~MustFail(result) /\ ~(why = "ok" /\ AuthorityLost)
                /\ Send(PublishedKind) /\ proc' = proc
    BY DEF Published
  <1> DEFINE e == [streams |-> Label(cut), cut |-> cut, result |-> result]
  <1>3. e \in Evidence
    BY DEF Label, ResultLabels, Evidence
  <1>4. PublishedKind \in TerminalKinds
    BY DEF PublishedKind, CleanedKind, TerminalKinds
  <1>5. PublishedKind = "succeeded" => why = "ok" /\ proc.out = "good"
    BY <1>1 DEF PublishedKind, CleanedKind
  <1>6. PublishedKind = "cancelled" => why = "cancel" /\ ~proc.failed
    BY <1>1 DEF PublishedKind, CleanedKind
  <1>7. why = "ok" /\ proc.out = "good" /\ ~MustFail(result) => Whole(e)
    BY DEF MustFail, ResultLabels, Label, Whole
  <1> HIDE DEF e
  <1>8. CASE MayFail(result) /\ Send("failed") /\ proc' = proc
    BY <1>1, <1>2, <1>3, <1>8 DEF TerminalKinds, e
  <1>9. CASE /\ ~MustFail(result) /\ why = "ok" /\ AuthorityLost
             /\ Goto("stopping", "quit") /\ StopNative /\ UNCHANGED <<req, outbox>>
    BY <1>1, <1>2, <1>3, <1>9 DEF Goto, e
  <1>10. CASE /\ ~MustFail(result) /\ ~(why = "ok" /\ AuthorityLost)
              /\ Send(PublishedKind) /\ proc' = proc
    <2>1. PublishedKind = "succeeded" => Whole(e)
      BY <1>5, <1>7, <1>10
    <2>2. pub' = [pub EXCEPT ![me] = e]
      BY <1>2 DEF e
    <2>3. QED
      BY <1>1, <1>3, <1>4, <1>6, <1>10, <2>1, <2>2
  <1>11. QED
    BY <1>2, <1>8, <1>9, <1>10

\* The poll of a heartbeat, field by field.
LEMMA PollDoes ==
    ASSUME TypeOK, PollHeartbeat
    PROVE  /\ hb'.ahead = hb.ahead
           /\ \/ /\ hb'.flight = hb.flight /\ hb'.pending = hb.pending /\ hb'.age = hb.age
                 /\ hb'.wire = hb.wire
              \/ /\ hb'.flight = "sent" /\ hb'.pending /\ hb'.wire /\ hb.flight = "none"
                 /\ hb'.age = IF hb.pending THEN hb.age ELSE 0
                 /\ ~AuthorityLost
           /\ hb'.failed = (hb.failed \/ AuthorityLost)
  <1> USE DEF TypeOK, Heartbeats
  <1>1. CASE AuthorityLost
    BY <1>1 DEF PollHeartbeat
  <1>2. CASE ~AuthorityLost /\ hb.flight # "none"
    BY <1>2 DEF PollHeartbeat
  <1>3. CASE ~AuthorityLost /\ hb.flight = "none"
    <2>1. hb' = SentHeartbeat
      BY <1>3 DEF PollHeartbeat
    <2>2. QED
      BY <1>3, <2>1 DEF SentHeartbeat, AuthorityLost
  <1>4. QED
    BY <1>1, <1>2, <1>3

\* What each action leaves alone.
LEMMA Frames ==
    /\ Serve => UNCHANGED <<pc, why, me, trust, stop, hb, cancelSeen, proc, alive, stuck,
           stray, outbox, pub, enabled, crashes>>
    /\ ServeLease => UNCHANGED <<pc, why, trust, stop, hb, cancelSeen, proc, alive, stuck,
           stray, outbox, pub, enabled, crashes>>
    /\ \A r \in stray : ServeStray(r) => UNCHANGED <<pc, why, me, trust, stop, hb,
           cancelSeen, proc, alive, stuck, req, outbox, pub, enabled, crashes>>
    /\ ServeHeartbeat => UNCHANGED <<pc, why, me, trust, stop, cancelSeen, proc, alive,
           stuck, req, stray, outbox, pub, srv, held, enabled, crashes>>
    /\ \A n \in Runs : OperatorCancel(n) => UNCHANGED <<pc, why, me, trust, stop, hb,
           cancelSeen, proc, alive, stuck, req, stray, outbox, pub, held, left, enabled,
           crashes>>
    /\ RevokeRunner => UNCHANGED <<pc, why, me, trust, stop, hb, cancelSeen, proc, alive,
           stuck, req, stray, outbox, pub, left, crashes>>
    /\ HeartbeatTimer => UNCHANGED <<pc, why, me, trust, stop, cancelSeen, proc, alive,
           stuck, req, stray, outbox, pub, srv, held, left, enabled, crashes>>
    /\ HeartbeatAnswered => UNCHANGED <<pc, why, me, stop, proc, alive, stuck, req, stray,
           outbox, pub, srv, held, left, enabled, crashes>>
    /\ HeartbeatRefused => UNCHANGED <<pc, why, me, trust, stop, cancelSeen, proc, alive,
           stuck, req, stray, outbox, pub, srv, held, left, enabled, crashes>>
    /\ HeartbeatUnanswered => UNCHANGED <<pc, why, me, trust, stop, cancelSeen, proc, alive,
           stuck, req, stray, outbox, pub, srv, held, left, enabled, crashes>>
    /\ StartPoll => UNCHANGED <<why, me, trust, stop, cancelSeen, proc, alive, stuck, req,
           stray, outbox, pub, srv, held, left, enabled, crashes>>
    /\ RequestLease => UNCHANGED <<me, stop, hb, cancelSeen, proc, alive, stuck, stray,
           outbox, pub, srv, held, left, enabled, crashes>>
    /\ LeaseAnswered => UNCHANGED <<stop, alive, stuck, stray, pub, srv, held, left, enabled,
           crashes>>
    /\ StartedAnswered => UNCHANGED <<stop, alive, stuck, stray, pub, srv, held, left,
           enabled, crashes>>
    /\ CompleteAnswered => UNCHANGED <<stop, alive, stuck, stray, pub, srv, held, left,
           enabled, crashes>>
    /\ RequestBroken => UNCHANGED <<stop, alive, stuck, outbox, pub, srv, held, left,
           enabled, crashes>>
    /\ Prepare => UNCHANGED <<me, trust, stop, hb, cancelSeen, proc, alive, stuck, stray,
           pub, srv, held, left, enabled, crashes>>
    /\ CannotPrepare => UNCHANGED <<me, trust, stop, hb, cancelSeen, proc, alive, stuck,
           stray, pub, srv, held, left, enabled, crashes>>
    /\ BeforeWork => UNCHANGED <<me, trust, stop, hb, cancelSeen, proc, alive, stuck, stray,
           pub, srv, held, left, enabled, crashes>>
    /\ Spawn => UNCHANGED <<me, trust, stop, hb, cancelSeen, req, stray, outbox, pub, srv,
           held, left, enabled, crashes>>
    /\ FenceCheck => UNCHANGED <<pc, why, me, trust, stop, hb, cancelSeen, stuck, req, stray,
           outbox, pub, srv, held, left, enabled, crashes>>
    /\ Escalate => UNCHANGED <<pc, why, me, trust, stop, hb, cancelSeen, stuck, req, stray,
           outbox, pub, srv, held, left, enabled, crashes>>
    /\ WorkSettled => UNCHANGED <<me, trust, stop, hb, cancelSeen, proc, alive, stuck, req,
           stray, outbox, pub, srv, held, left, enabled, crashes>>
    /\ AfterWork => UNCHANGED <<me, trust, stop, hb, cancelSeen, alive, stuck, stray,
           pub, srv, held, left, enabled, crashes>>
    /\ AfterConflict => UNCHANGED <<me, trust, stop, hb, cancelSeen, alive, stuck, stray,
           pub, srv, held, left, enabled, crashes>>
    /\ ConflictUnexplained => UNCHANGED <<stop, alive, stuck, stray, outbox, pub, srv, held,
           left, enabled, crashes>>
    /\ NativeStopped => UNCHANGED <<me, trust, stop, hb, cancelSeen, proc, alive, stuck,
           stray, pub, srv, held, left, enabled, crashes>>
    /\ Published => UNCHANGED <<me, trust, stop, hb, cancelSeen, alive, stuck, stray, srv,
           held, left, enabled, crashes>>
    /\ PublicationFailed => UNCHANGED <<me, trust, stop, hb, cancelSeen, proc, alive, stuck,
           stray, srv, held, left, enabled, crashes>>
    /\ WorkEnds => UNCHANGED <<pc, why, me, trust, stop, hb, cancelSeen, stuck, req, stray,
           outbox, pub, srv, held, left, enabled, crashes>>
    /\ \A n \in Runs : DescendantsEnd(n) => UNCHANGED <<pc, why, me, trust, stop, hb,
           cancelSeen, proc, stuck, req, stray, outbox, pub, srv, held, left, enabled, crashes>>
    /\ Stop => UNCHANGED <<why, me, trust, hb, cancelSeen, proc, alive, stuck, req, stray,
           outbox, pub, srv, held, left, enabled, crashes>>
    /\ Crash => UNCHANGED <<alive, stuck, outbox, pub, srv, held, left, enabled>>
    /\ Restart => UNCHANGED <<why, me, trust, stop, hb, cancelSeen, proc, alive, stuck, req,
           stray, outbox, pub, srv, held, left, enabled, crashes>>
    /\ Tick => UNCHANGED <<pc, why, me, stop, cancelSeen, alive, stuck, req, stray, outbox,
           pub, srv, held, enabled, crashes>>
  <1> USE DEF runnerVars, procVars, srvVars
  <1>1. Serve => UNCHANGED <<pc, why, me, trust, stop, hb, cancelSeen, proc, alive, stuck,
           stray, outbox, pub, enabled, crashes>>
    BY DEF Serve, Apply
  <1>2. ServeLease => UNCHANGED <<pc, why, trust, stop, hb, cancelSeen, proc, alive, stuck,
           stray, outbox, pub, enabled, crashes>>
    BY DEF ServeLease
  <1>3. \A r \in stray : ServeStray(r) => UNCHANGED <<pc, why, me, trust, stop, hb,
           cancelSeen, proc, alive, stuck, req, outbox, pub, enabled, crashes>>
    BY DEF ServeStray, Apply
  <1>4. ServeHeartbeat => UNCHANGED <<pc, why, me, trust, stop, cancelSeen, proc, alive,
           stuck, req, stray, outbox, pub, srv, held, enabled, crashes>>
    BY DEF ServeHeartbeat
  <1>5. \A n \in Runs : OperatorCancel(n) => UNCHANGED <<pc, why, me, trust, stop, hb,
           cancelSeen, proc, alive, stuck, req, stray, outbox, pub, held, left, enabled,
           crashes>>
    BY DEF OperatorCancel
  <1>6. RevokeRunner => UNCHANGED <<pc, why, me, trust, stop, hb, cancelSeen, proc, alive,
           stuck, req, stray, outbox, pub, left, crashes>>
    BY DEF RevokeRunner
  <1>7. HeartbeatTimer => UNCHANGED <<pc, why, me, trust, stop, cancelSeen, proc, alive,
           stuck, req, stray, outbox, pub, srv, held, left, enabled, crashes>>
    BY DEF HeartbeatTimer
  <1>8. HeartbeatAnswered => UNCHANGED <<pc, why, me, stop, proc, alive, stuck, req, stray,
           outbox, pub, srv, held, left, enabled, crashes>>
    BY DEF HeartbeatAnswered
  <1>9. HeartbeatRefused => UNCHANGED <<pc, why, me, trust, stop, cancelSeen, proc, alive,
           stuck, req, stray, outbox, pub, srv, held, left, enabled, crashes>>
    BY DEF HeartbeatRefused
  <1>10. HeartbeatUnanswered => UNCHANGED <<pc, why, me, trust, stop, cancelSeen, proc, alive,
           stuck, req, stray, outbox, pub, srv, held, left, enabled, crashes>>
    BY DEF HeartbeatUnanswered
  <1>11. StartPoll => UNCHANGED <<why, me, trust, stop, cancelSeen, proc, alive, stuck, req,
           stray, outbox, pub, srv, held, left, enabled, crashes>>
    BY DEF StartPoll
  <1>12. RequestLease => UNCHANGED <<me, stop, hb, cancelSeen, proc, alive, stuck, stray,
           outbox, pub, srv, held, left, enabled, crashes>>
    BY DEF RequestLease, Goto
  <1>13. LeaseAnswered => UNCHANGED <<stop, alive, stuck, stray, pub, srv, held, left, enabled,
           crashes>>
    BY DEF LeaseAnswered, Goto, Release
  <1>14. StartedAnswered => UNCHANGED <<stop, alive, stuck, stray, pub, srv, held, left,
           enabled, crashes>>
    BY DEF StartedAnswered, Goto, Release
  <1>15. CompleteAnswered => UNCHANGED <<stop, alive, stuck, stray, pub, srv, held, left,
           enabled, crashes>>
    BY DEF CompleteAnswered, Goto, Release
  <1>16. RequestBroken => UNCHANGED <<stop, alive, stuck, outbox, pub, srv, held, left,
           enabled, crashes>>
    BY DEF RequestBroken, Release
  <1>17. Prepare => UNCHANGED <<me, trust, stop, hb, cancelSeen, proc, alive, stuck, stray,
           pub, srv, held, left, enabled, crashes>>
    BY DEF Prepare, Kept, Goto, Send
  <1>18. CannotPrepare => UNCHANGED <<me, trust, stop, hb, cancelSeen, proc, alive, stuck,
           stray, pub, srv, held, left, enabled, crashes>>
    BY DEF CannotPrepare, Kept, Goto, Send
  <1>19. BeforeWork => UNCHANGED <<me, trust, stop, hb, cancelSeen, proc, alive, stuck, stray,
           pub, srv, held, left, enabled, crashes>>
    BY DEF BeforeWork, Kept, Goto, Send
  <1>20. Spawn => UNCHANGED <<me, trust, stop, hb, cancelSeen, req, stray, outbox, pub, srv,
           held, left, enabled, crashes>>
    BY DEF Spawn, Goto
  <1>21. FenceCheck => UNCHANGED <<pc, why, me, trust, stop, hb, cancelSeen, stuck, req, stray,
           outbox, pub, srv, held, left, enabled, crashes>>
    BY DEF FenceCheck
  <1>22. Escalate => UNCHANGED <<pc, why, me, trust, stop, hb, cancelSeen, stuck, req, stray,
           outbox, pub, srv, held, left, enabled, crashes>>
    BY DEF Escalate
  <1>23. WorkSettled => UNCHANGED <<me, trust, stop, hb, cancelSeen, proc, alive, stuck, req,
           stray, outbox, pub, srv, held, left, enabled, crashes>>
    BY DEF WorkSettled, Goto
  <1>24. AfterWork => UNCHANGED <<me, trust, stop, hb, cancelSeen, alive, stuck, stray,
           pub, srv, held, left, enabled, crashes>>
    BY DEF AfterWork, Kept, Goto, StopNative, Send
  <1>25. AfterConflict => UNCHANGED <<me, trust, stop, hb, cancelSeen, alive, stuck, stray,
           pub, srv, held, left, enabled, crashes>>
    BY DEF AfterConflict, Kept, Goto, StopNative
  <1>26. ConflictUnexplained => UNCHANGED <<stop, alive, stuck, stray, outbox, pub, srv, held,
           left, enabled, crashes>>
    BY DEF ConflictUnexplained, Release
  <1>27. NativeStopped => UNCHANGED <<me, trust, stop, hb, cancelSeen, proc, alive, stuck,
           stray, pub, srv, held, left, enabled, crashes>>
    BY DEF NativeStopped, Kept, Goto, Send
  <1>28. Published => UNCHANGED <<me, trust, stop, hb, cancelSeen, alive, stuck, stray, srv,
           held, left, enabled, crashes>>
    BY DEF Published, Kept, Goto, Send
  <1>29. PublicationFailed => UNCHANGED <<me, trust, stop, hb, cancelSeen, proc, alive, stuck,
           stray, srv, held, left, enabled, crashes>>
    BY DEF PublicationFailed, Kept, Goto, Send
  <1>30. WorkEnds => UNCHANGED <<pc, why, me, trust, stop, hb, cancelSeen, stuck, req, stray,
           outbox, pub, srv, held, left, enabled, crashes>>
    BY DEF WorkEnds
  <1>31. \A n \in Runs : DescendantsEnd(n) => UNCHANGED <<pc, why, me, trust, stop, hb,
           cancelSeen, proc, stuck, req, stray, outbox, pub, srv, held, left, enabled, crashes>>
    BY DEF DescendantsEnd
  <1>32. Stop => UNCHANGED <<why, me, trust, hb, cancelSeen, proc, alive, stuck, req, stray,
           outbox, pub, srv, held, left, enabled, crashes>>
    BY DEF Stop
  <1>33. Crash => UNCHANGED <<alive, stuck, outbox, pub, srv, held, left, enabled>>
    BY DEF Crash
  <1>34. Restart => UNCHANGED <<why, me, trust, stop, hb, cancelSeen, proc, alive, stuck, req,
           stray, outbox, pub, srv, held, left, enabled, crashes>>
    BY DEF Restart
  <1>35. Tick => UNCHANGED <<pc, why, me, stop, cancelSeen, alive, stuck, req, stray, outbox,
           pub, srv, held, enabled, crashes>>
    BY DEF Tick
  <1>36. QED
    BY <1>1, <1>2, <1>3, <1>4, <1>5, <1>6, <1>7, <1>8, <1>9, <1>10, <1>11, <1>12, <1>13, <1>14, <1>15, <1>16, <1>17, <1>18, <1>19, <1>20, <1>21, <1>22, <1>23, <1>24, <1>25, <1>26, <1>27, <1>28, <1>29, <1>30, <1>31, <1>32, <1>33, <1>34, <1>35

-----------------------------------------------------------------------------
\* Types.  The request written down names a Run: it is sent only while the
\* runner holds one.
LEMMA TypeStep ==
    ASSUME TypeOK, ReqPlaces, MePlaces, WorkPlaces, [Next]_vars
    PROVE  TypeOK'
  <1> USE DEF runnerVars, procVars, srvVars, TypeOK, ReqPlaces, MePlaces
  <1>1. ASSUME Serve, UNCHANGED tool PROVE TypeOK'
    <2>1. srv' \in [Runs -> RunStates]
      BY <1>1, Ranges, Constants, CancelledType, SentType DEF Serve, Apply, After, Acceptable, Authority, Answer, Awaited, RunStates, TerminalKinds, Requests, Exchanges
    <2>2. left' \in [Runs -> 0..LeaseTicks]
      BY <1>1, Ranges, Constants, CancelledType, SentType DEF Serve, Apply, After, Acceptable, Authority, Answer, Awaited
    <2>3. held' \subseteq Runs
      BY <1>1, Ranges, Constants, CancelledType, SentType DEF Serve, Apply, After, Acceptable, Authority, Answer, Awaited, Requests
    <2>4. req' \in Exchanges
      BY <1>1, Ranges, Constants, CancelledType, SentType DEF Serve, Apply, After, Acceptable, Authority, Answer, Awaited, Exchanges, NoRequest, TerminalKinds
    <2>5. QED
      BY <1>1, <2>1, <2>2, <2>3, <2>4 DEF Serve, Apply, After, Acceptable, Authority, Answer, Awaited
  <1>2. ASSUME ServeLease, UNCHANGED tool PROVE TypeOK'
    <2>1. me' \in Runs \cup {0}
      BY <1>2, Ranges, Constants, CancelledType, SentType DEF ServeLease
    <2>2. srv' \in [Runs -> RunStates]
      BY <1>2, Ranges, Constants, CancelledType, SentType DEF ServeLease, RunStates, TerminalKinds, Requests, Exchanges
    <2>3. held' \subseteq Runs
      BY <1>2, Ranges, Constants, CancelledType, SentType DEF ServeLease, Requests
    <2>4. left' \in [Runs -> 0..LeaseTicks]
      BY <1>2, Ranges, Constants, CancelledType, SentType DEF ServeLease
    <2>5. req' \in Exchanges
      BY <1>2, Ranges, Constants, CancelledType, SentType DEF ServeLease, Exchanges, NoRequest, TerminalKinds
    <2>6. QED
      BY <1>2, <2>1, <2>2, <2>3, <2>4, <2>5 DEF ServeLease
  <1>3. ASSUME NEW r \in stray, ServeStray(r), UNCHANGED tool PROVE TypeOK'
    <2>1. srv' \in [Runs -> RunStates]
      BY <1>3, Ranges, Constants, CancelledType, SentType DEF ServeStray, Apply, After, Acceptable, Authority, RunStates, TerminalKinds, Requests, Exchanges
    <2>2. left' \in [Runs -> 0..LeaseTicks]
      BY <1>3, Ranges, Constants, CancelledType, SentType DEF ServeStray, Apply, After, Acceptable, Authority
    <2>3. held' \subseteq Runs
      BY <1>3, Ranges, Constants, CancelledType, SentType DEF ServeStray, Apply, After, Acceptable, Authority, Requests
    <2>4. stray' \subseteq Requests
      BY <1>3, Ranges, Constants, CancelledType, SentType DEF ServeStray, Apply, After, Acceptable, Authority, Requests, Exchanges
    <2>5. QED
      BY <1>3, <2>1, <2>2, <2>3, <2>4 DEF ServeStray, Apply, After, Acceptable, Authority
  <1>4. ASSUME ServeHeartbeat, UNCHANGED tool PROVE TypeOK'
    <2>1. left' \in [Runs -> 0..LeaseTicks]
      BY <1>4, Ranges, Constants, CancelledType, SentType DEF ServeHeartbeat, Authority
    <2>2. hb' \in Heartbeats
      <3>1. \A f \in {"none", "sent", "ok", "cancel", "refused"} :
              /\ [hb EXCEPT !.wire = FALSE, !.ahead = TRUE, !.flight = f] \in Heartbeats
              /\ [hb EXCEPT !.wire = FALSE, !.flight = f] \in Heartbeats
        BY DEF Heartbeats
      <3>2. hb.flight \in {"none", "sent", "ok", "cancel", "refused"}
        BY DEF Heartbeats
      <3>3. QED
        BY <1>4, <3>1, <3>2 DEF ServeHeartbeat
    <2>3. QED
      BY <1>4, <2>1, <2>2 DEF ServeHeartbeat, Authority
  <1>5. ASSUME NEW n \in Runs, OperatorCancel(n), UNCHANGED tool PROVE TypeOK'
    <2>1. srv' \in [Runs -> RunStates]
      BY <1>5, Ranges, Constants, CancelledType, SentType DEF OperatorCancel, RunStates, TerminalKinds, Requests, Exchanges
    <2>2. QED
      BY <1>5, <2>1 DEF OperatorCancel
  <1>6. ASSUME RevokeRunner, UNCHANGED tool PROVE TypeOK'
    <2>1. held' \subseteq Runs
      BY <1>6, Ranges, Constants, CancelledType, SentType DEF RevokeRunner, Requests
    <2>2. srv' \in [Runs -> RunStates]
      BY <1>6, Ranges, Constants, CancelledType, SentType DEF RevokeRunner, RunStates, TerminalKinds, Requests, Exchanges
    <2>3. QED
      BY <1>6, <2>1, <2>2 DEF RevokeRunner
  <1>7. ASSUME HeartbeatTimer, UNCHANGED tool PROVE TypeOK'
    <2>1. hb' \in Heartbeats
      BY <1>7, PollType DEF HeartbeatTimer
    <2>2. QED
      BY <1>7, <2>1 DEF HeartbeatTimer, InLease, PollHeartbeat, AuthorityLost, SentHeartbeat
  <1>8. ASSUME HeartbeatAnswered, UNCHANGED tool PROVE TypeOK'
    <2>1. hb' \in Heartbeats
      <3>1. /\ [hb EXCEPT !.flight = "none", !.failed = TRUE] \in Heartbeats
            /\ [hb EXCEPT !.flight = "none", !.pending = FALSE, !.age = 0, !.ahead = FALSE] \in Heartbeats
        BY Ranges DEF Heartbeats
      <3>2. QED
        BY <1>8, <3>1 DEF HeartbeatAnswered
    <2>2. trust' \in 0..LeaseTicks
      <3>1. LeaseTicks - hb.age \in 0..LeaseTicks
        BY Durations DEF Heartbeats
      <3>2. QED
        BY <1>8, <3>1 DEF HeartbeatAnswered
    <2>3. cancelSeen' \in BOOLEAN
      BY <1>8, Ranges, Constants, CancelledType, SentType DEF HeartbeatAnswered
    <2>4. QED
      BY <1>8, <2>1, <2>2, <2>3 DEF HeartbeatAnswered
  <1>9. ASSUME HeartbeatRefused, UNCHANGED tool PROVE TypeOK'
    <2>1. hb' \in Heartbeats
      BY <1>9, Ranges, Constants, CancelledType, SentType DEF HeartbeatRefused, Heartbeats
    <2>2. QED
      BY <1>9, <2>1 DEF HeartbeatRefused
  <1>10. ASSUME HeartbeatUnanswered, UNCHANGED tool PROVE TypeOK'
    <2>1. hb' \in Heartbeats
      BY <1>10, Ranges, Constants, CancelledType, SentType DEF HeartbeatUnanswered, Heartbeats
    <2>2. QED
      BY <1>10, <2>1 DEF HeartbeatUnanswered
  <1>11. ASSUME StartPoll, UNCHANGED tool PROVE TypeOK'
    <2>1. hb' \in Heartbeats
      BY <1>11, PollType DEF StartPoll
    <2>2. QED
      BY <1>11, <2>1 DEF StartPoll, PollHeartbeat, AuthorityLost, SentHeartbeat
  <1>12. ASSUME RequestLease, UNCHANGED tool PROVE TypeOK'
    <2>1. trust' \in 0..LeaseTicks
      BY <1>12, Ranges, Constants, CancelledType, SentType DEF RequestLease, Goto
    <2>2. req' \in Exchanges
      BY <1>12, Ranges, Constants, CancelledType, SentType DEF RequestLease, Goto, Exchanges, NoRequest, TerminalKinds
    <2>3. QED
      BY <1>12, <2>1, <2>2 DEF RequestLease, Goto
  <1>13. ASSUME LeaseAnswered, UNCHANGED tool PROVE TypeOK'
    <2>1. (pc \in {"idle", "leasing", "starting", "ready", "polling", "awaiting", "preparing",
               "working", "stopping", "publishing", "completing", "stopped", "down"}
      /\ why \in {"none", "before", "after", "conflict", "ok", "cancel", "lost", "quit"})'
      BY <1>13, Ranges, Constants, CancelledType, SentType DEF LeaseAnswered, Goto, Record, Release
    <2>2. me' \in Runs \cup {0}
      BY <1>13, Ranges, Constants, CancelledType, SentType DEF LeaseAnswered, Goto, Record, Release
    <2>3. trust' \in 0..LeaseTicks
      BY <1>13, Ranges, Constants, CancelledType, SentType DEF LeaseAnswered, Goto, Record, Release
    <2>4. hb' \in Heartbeats
      BY <1>13, Ranges, Constants, CancelledType, SentType DEF LeaseAnswered, Goto, Record, Release
    <2>5. req' \in Exchanges
      BY <1>13, Ranges, Constants, CancelledType, SentType DEF LeaseAnswered, Goto, Record, Release, Exchanges, NoRequest, TerminalKinds
    <2>6. proc' \in Works
      BY <1>13, Ranges, Constants, CancelledType, SentType DEF LeaseAnswered, Goto, Record, Release
    <2>7. outbox' \subseteq Requests
      BY <1>13, Ranges, Constants, CancelledType, SentType DEF LeaseAnswered, Goto, Record, Release, Requests, Exchanges, TerminalKinds
    <2>8. QED
      BY <1>13, <2>1, <2>2, <2>3, <2>4, <2>5, <2>6, <2>7 DEF LeaseAnswered, Goto, Record, Release
  <1>14. ASSUME StartedAnswered, UNCHANGED tool PROVE TypeOK'
    <2>1. (pc \in {"idle", "leasing", "starting", "ready", "polling", "awaiting", "preparing",
               "working", "stopping", "publishing", "completing", "stopped", "down"}
      /\ why \in {"none", "before", "after", "conflict", "ok", "cancel", "lost", "quit"})'
      BY <1>14, Ranges, Constants, CancelledType, SentType DEF StartedAnswered, Goto, Forget, Awaited, Release
    <2>2. me' \in Runs \cup {0}
      BY <1>14, Ranges, Constants, CancelledType, SentType DEF StartedAnswered, Goto, Forget, Awaited, Release
    <2>3. trust' \in 0..LeaseTicks
      BY <1>14, Ranges, Constants, CancelledType, SentType DEF StartedAnswered, Goto, Forget, Awaited, Release
    <2>4. hb' \in Heartbeats
      BY <1>14, Ranges, Constants, CancelledType, SentType DEF StartedAnswered, Goto, Forget, Awaited, Release
    <2>5. req' \in Exchanges
      BY <1>14, Ranges, Constants, CancelledType, SentType DEF StartedAnswered, Goto, Forget, Awaited, Release, Exchanges, NoRequest, TerminalKinds
    <2>6. proc' \in Works
      BY <1>14, Ranges, Constants, CancelledType, SentType DEF StartedAnswered, Goto, Forget, Awaited, Release
    <2>7. outbox' \subseteq Requests
      BY <1>14, Ranges, Constants, CancelledType, SentType DEF StartedAnswered, Goto, Forget, Awaited, Release, Requests, Exchanges, TerminalKinds
    <2>8. QED
      BY <1>14, <2>1, <2>2, <2>3, <2>4, <2>5, <2>6, <2>7 DEF StartedAnswered, Goto, Forget, Awaited, Release
  <1>15. ASSUME CompleteAnswered, UNCHANGED tool PROVE TypeOK'
    <2>1. (pc \in {"idle", "leasing", "starting", "ready", "polling", "awaiting", "preparing",
               "working", "stopping", "publishing", "completing", "stopped", "down"}
      /\ why \in {"none", "before", "after", "conflict", "ok", "cancel", "lost", "quit"})'
      BY <1>15, Ranges, Constants, CancelledType, SentType DEF CompleteAnswered, Goto, Forget, Awaited, Release
    <2>2. me' \in Runs \cup {0}
      BY <1>15, Ranges, Constants, CancelledType, SentType DEF CompleteAnswered, Goto, Forget, Awaited, Release
    <2>3. trust' \in 0..LeaseTicks
      BY <1>15, Ranges, Constants, CancelledType, SentType DEF CompleteAnswered, Goto, Forget, Awaited, Release
    <2>4. hb' \in Heartbeats
      BY <1>15, Ranges, Constants, CancelledType, SentType DEF CompleteAnswered, Goto, Forget, Awaited, Release
    <2>5. req' \in Exchanges
      BY <1>15, Ranges, Constants, CancelledType, SentType DEF CompleteAnswered, Goto, Forget, Awaited, Release, Exchanges, NoRequest, TerminalKinds
    <2>6. proc' \in Works
      BY <1>15, Ranges, Constants, CancelledType, SentType DEF CompleteAnswered, Goto, Forget, Awaited, Release
    <2>7. outbox' \subseteq Requests
      BY <1>15, Ranges, Constants, CancelledType, SentType DEF CompleteAnswered, Goto, Forget, Awaited, Release, Requests, Exchanges, TerminalKinds
    <2>8. QED
      BY <1>15, <2>1, <2>2, <2>3, <2>4, <2>5, <2>6, <2>7 DEF CompleteAnswered, Goto, Forget, Awaited, Release
  <1>16. ASSUME RequestBroken, UNCHANGED tool PROVE TypeOK'
    <2>1. (pc \in {"idle", "leasing", "starting", "ready", "polling", "awaiting", "preparing",
               "working", "stopping", "publishing", "completing", "stopped", "down"}
      /\ why \in {"none", "before", "after", "conflict", "ok", "cancel", "lost", "quit"})'
      BY <1>16, Ranges, Constants, CancelledType, SentType DEF RequestBroken, Release, Awaited
    <2>2. me' \in Runs \cup {0}
      BY <1>16, Ranges, Constants, CancelledType, SentType DEF RequestBroken, Release, Awaited
    <2>3. trust' \in 0..LeaseTicks
      BY <1>16, Ranges, Constants, CancelledType, SentType DEF RequestBroken, Release, Awaited
    <2>4. hb' \in Heartbeats
      BY <1>16, Ranges, Constants, CancelledType, SentType DEF RequestBroken, Release, Awaited
    <2>5. req' \in Exchanges
      BY <1>16, Ranges, Constants, CancelledType, SentType DEF RequestBroken, Release, Awaited, Exchanges, NoRequest, TerminalKinds
    <2>6. proc' \in Works
      BY <1>16, Ranges, Constants, CancelledType, SentType DEF RequestBroken, Release, Awaited
    <2>7. stray' \subseteq Requests
      BY <1>16, Ranges, Constants, CancelledType, SentType DEF RequestBroken, Release, Awaited, Requests, Exchanges
    <2>8. QED
      BY <1>16, <2>1, <2>2, <2>3, <2>4, <2>5, <2>6, <2>7 DEF RequestBroken, Release, Awaited
  <1>17. ASSUME Prepare, UNCHANGED tool PROVE TypeOK'
    <2>1. (pc \in {"idle", "leasing", "starting", "ready", "polling", "awaiting", "preparing",
               "working", "stopping", "publishing", "completing", "stopped", "down"}
      /\ why \in {"none", "before", "after", "conflict", "ok", "cancel", "lost", "quit"})'
      BY <1>17, Ranges, Constants, CancelledType, SentType DEF Prepare, Kept, Goto, Send, Record
    <2>2. req' \in Exchanges
      BY <1>17, Ranges, Constants, CancelledType, SentType DEF Prepare, Kept, Goto, Send, Record, Exchanges, NoRequest, TerminalKinds
    <2>3. outbox' \subseteq Requests
      BY <1>17, Ranges, Constants, CancelledType, SentType DEF Prepare, Kept, Goto, Send, Record, Requests, Exchanges, TerminalKinds
    <2>4. QED
      BY <1>17, <2>1, <2>2, <2>3 DEF Prepare, Kept, Goto, Send, Record
  <1>18. ASSUME CannotPrepare, UNCHANGED tool PROVE TypeOK'
    <2>1. req' \in Exchanges
      BY <1>18, Ranges, Constants, CancelledType, SentType DEF CannotPrepare, Kept, Goto, Send, Record, Exchanges, NoRequest, TerminalKinds
    <2>2. outbox' \subseteq Requests
      BY <1>18, Ranges, Constants, CancelledType, SentType DEF CannotPrepare, Kept, Goto, Send, Record, Requests, Exchanges, TerminalKinds
    <2>3. QED
      BY <1>18, <2>1, <2>2 DEF CannotPrepare, Kept, Goto, Send, Record
  <1>19. ASSUME BeforeWork, UNCHANGED tool PROVE TypeOK'
    <2>1. (pc \in {"idle", "leasing", "starting", "ready", "polling", "awaiting", "preparing",
               "working", "stopping", "publishing", "completing", "stopped", "down"}
      /\ why \in {"none", "before", "after", "conflict", "ok", "cancel", "lost", "quit"})'
      BY <1>19, Ranges, Constants, CancelledType, SentType DEF BeforeWork, Kept, Goto, Send, Record
    <2>2. req' \in Exchanges
      BY <1>19, Ranges, Constants, CancelledType, SentType DEF BeforeWork, Kept, Goto, Send, Record, Exchanges, NoRequest, TerminalKinds
    <2>3. outbox' \subseteq Requests
      BY <1>19, Ranges, Constants, CancelledType, SentType DEF BeforeWork, Kept, Goto, Send, Record, Requests, Exchanges, TerminalKinds
    <2>4. QED
      BY <1>19, <2>1, <2>2, <2>3 DEF BeforeWork, Kept, Goto, Send, Record
  <1>20. ASSUME Spawn, UNCHANGED tool PROVE TypeOK'
    <2>1. proc' \in Works
      <3>1. /\ [NoWork EXCEPT !.main = "running", !.due = CheckTicks] \in Works
            /\ [NoWork EXCEPT !.main = "closed", !.out = "cut"] \in Works
        BY Ranges, Constants DEF Works
      <3>2. QED
        BY <1>20, <3>1 DEF Spawn
    <2>2. alive' \subseteq Runs
      BY <1>20, Ranges, Constants, CancelledType, SentType DEF Spawn, Spawnable, AuthorityLost, Goto
    <2>3. stuck' \subseteq Runs
      BY <1>20, Ranges, Constants, CancelledType, SentType DEF Spawn, Spawnable, AuthorityLost, Goto
    <2>4. QED
      BY <1>20, <2>1, <2>2, <2>3 DEF Spawn, Spawnable, AuthorityLost, Goto
  <1>21. ASSUME FenceCheck, UNCHANGED tool PROVE TypeOK'
    <2>1. proc' \in Works
      <3>1. /\ [proc EXCEPT !.main = "closed", !.out = "cut"] \in Works
            /\ [proc EXCEPT !.due = CheckTicks] \in Works
        BY Ranges DEF Works
      <3>2. [Cancelled(proc) EXCEPT !.due = 0] \in Works
        BY Ranges, CancelledType DEF Works
      <3>3. QED
        BY <1>21, <3>1, <3>2 DEF FenceCheck
    <2>2. alive' \subseteq Runs
      BY <1>21, Ranges, Constants, CancelledType, SentType DEF FenceCheck, Cancelled
    <2>3. QED
      BY <1>21, <2>1, <2>2 DEF FenceCheck, Cancelled
  <1>22. ASSUME Escalate, UNCHANGED tool PROVE TypeOK'
    <2>1. proc' \in Works
      <3>1. \A f \in BOOLEAN, o \in {"none", "good", "bad", "cut"} :
              [proc EXCEPT !.kill = "done", !.failed = f, !.main = "closed", !.timer = 0, !.out = o]
                \in Works
        BY Ranges DEF Works
      <3>2. \A m \in {"none", "running", "closed"}, o \in {"none", "good", "bad", "cut"} :
              [proc EXCEPT !.kill = "kill", !.timer = KillTicks, !.main = m, !.out = o] \in Works
        BY Ranges DEF Works
      <3>3. proc.main \in {"none", "running", "closed"} /\ proc.out \in {"none", "good", "bad", "cut"}
        BY DEF Works
      <3>4. CASE SettleWork
        <4>1. PICK f \in BOOLEAN :
                proc' = [proc EXCEPT !.kill = "done", !.failed = f, !.main = "closed",
                           !.timer = 0, !.out = IF proc.main = "running" THEN "cut" ELSE @]
          BY <3>4 DEF SettleWork
        <4>2. QED
          BY <4>1, <3>1, <3>3
      <3>5. CASE proc' = [proc EXCEPT !.kill = "kill", !.timer = KillTicks,
                              !.main = IF me \in stuck THEN @ ELSE "closed",
                              !.out = IF me \in stuck \/ @ # "none" THEN @ ELSE "cut"]
        BY <3>2, <3>3, <3>5
      <3>6. QED
        BY <1>22, <3>4, <3>5 DEF Escalate
    <2>2. alive' \subseteq Runs
      BY <1>22, Ranges, Constants, CancelledType, SentType DEF Escalate, SettleWork, GiveUp
    <2>3. QED
      BY <1>22, <2>1, <2>2 DEF Escalate, SettleWork, GiveUp
  <1>23. ASSUME WorkSettled, UNCHANGED tool PROVE TypeOK'
    BY <1>23, Ranges, Constants, CancelledType, SentType DEF WorkSettled, Settled, Goto
  <1>24. ASSUME AfterWork, UNCHANGED tool PROVE TypeOK'
    <2>1. proc' \in Works
      BY <1>24, Ranges, Constants, CancelledType, SentType DEF AfterWork, Kept, Goto, StopNative
    <2>2. (pc \in {"idle", "leasing", "starting", "ready", "polling", "awaiting", "preparing",
               "working", "stopping", "publishing", "completing", "stopped", "down"}
      /\ why \in {"none", "before", "after", "conflict", "ok", "cancel", "lost", "quit"})'
      BY <1>24 DEF AfterWork, Goto, Send
    <2>3. \/ UNCHANGED <<req, outbox>>
          \/ Send("failed")
      BY <1>24 DEF AfterWork
    <2>4. me \in Runs
      BY <1>24 DEF AfterWork
    <2>5. req' \in Exchanges /\ outbox' \subseteq Requests
      BY <2>3, <2>4 DEF Send, Record, Exchanges, Requests, TerminalKinds
    <2>6. QED
      BY <1>24, <2>1, <2>2, <2>5 DEF AfterWork, Kept
  <1>25. ASSUME AfterConflict, UNCHANGED tool PROVE TypeOK'
    <2>1. proc' \in Works
      BY <1>25, Ranges, Constants, CancelledType, SentType DEF AfterConflict, Kept, Goto, StopNative
    <2>2. (pc \in {"idle", "leasing", "starting", "ready", "polling", "awaiting", "preparing",
               "working", "stopping", "publishing", "completing", "stopped", "down"}
      /\ why \in {"none", "before", "after", "conflict", "ok", "cancel", "lost", "quit"})'
      BY <1>25, Ranges, Constants, CancelledType, SentType DEF AfterConflict, Kept, Goto, StopNative, Cancelled
    <2>3. req' \in Exchanges
      BY <1>25, Ranges, Constants, CancelledType, SentType DEF AfterConflict, Kept, Goto, StopNative, Cancelled, Exchanges, NoRequest, TerminalKinds
    <2>4. outbox' \subseteq Requests
      BY <1>25, Ranges, Constants, CancelledType, SentType DEF AfterConflict, Kept, Goto, StopNative, Cancelled, Requests, Exchanges, TerminalKinds
    <2>5. QED
      BY <1>25, <2>1, <2>2, <2>3, <2>4 DEF AfterConflict, Kept, Goto, StopNative, Cancelled
  <1>26. ASSUME ConflictUnexplained, UNCHANGED tool PROVE TypeOK'
    <2>1. (pc \in {"idle", "leasing", "starting", "ready", "polling", "awaiting", "preparing",
               "working", "stopping", "publishing", "completing", "stopped", "down"}
      /\ why \in {"none", "before", "after", "conflict", "ok", "cancel", "lost", "quit"})'
      BY <1>26, Ranges, Constants, CancelledType, SentType DEF ConflictUnexplained, Release
    <2>2. me' \in Runs \cup {0}
      BY <1>26, Ranges, Constants, CancelledType, SentType DEF ConflictUnexplained, Release
    <2>3. trust' \in 0..LeaseTicks
      BY <1>26, Ranges, Constants, CancelledType, SentType DEF ConflictUnexplained, Release
    <2>4. hb' \in Heartbeats
      BY <1>26, Ranges, Constants, CancelledType, SentType DEF ConflictUnexplained, Release
    <2>5. req' \in Exchanges
      BY <1>26, Ranges, Constants, CancelledType, SentType DEF ConflictUnexplained, Release, Exchanges, NoRequest, TerminalKinds
    <2>6. proc' \in Works
      BY <1>26, Ranges, Constants, CancelledType, SentType DEF ConflictUnexplained, Release
    <2>7. QED
      BY <1>26, <2>1, <2>2, <2>3, <2>4, <2>5, <2>6 DEF ConflictUnexplained, Release
  <1>27. ASSUME NativeStopped, UNCHANGED tool PROVE TypeOK'
    <2>1. (pc \in {"idle", "leasing", "starting", "ready", "polling", "awaiting", "preparing",
               "working", "stopping", "publishing", "completing", "stopped", "down"}
      /\ why \in {"none", "before", "after", "conflict", "ok", "cancel", "lost", "quit"})'
      BY <1>27, Ranges, Constants, CancelledType, SentType DEF NativeStopped, Kept, Goto, Send, Record, CleanedKind, Keeps
    <2>2. req' \in Exchanges
      BY <1>27, Ranges, Constants, CancelledType, SentType DEF NativeStopped, Kept, Goto, Send, Record, CleanedKind, Keeps, Exchanges, NoRequest, TerminalKinds
    <2>3. outbox' \subseteq Requests
      BY <1>27, Ranges, Constants, CancelledType, SentType DEF NativeStopped, Kept, Goto, Send, Record, CleanedKind, Keeps, Requests, Exchanges, TerminalKinds
    <2>4. QED
      BY <1>27, <2>1, <2>2, <2>3 DEF NativeStopped, Kept, Goto, Send, Record, CleanedKind, Keeps
  <1>28. ASSUME Published, UNCHANGED tool PROVE TypeOK'
    <2>1. (pc \in {"idle", "leasing", "starting", "ready", "polling", "awaiting", "preparing",
               "working", "stopping", "publishing", "completing", "stopped", "down"}
      /\ why \in {"none", "before", "after", "conflict", "ok", "cancel", "lost", "quit"})'
      BY <1>28, Ranges, Constants, CancelledType, SentType DEF Published, Kept, Goto, Send, Record, CleanedKind, Label, Cancelled, PublishedKind, StopNative
    <2>2. req' \in Exchanges
      <3>1. PICK k \in TerminalKinds : \/ req' = [op |-> "complete", kind |-> k, answer |-> "none"]
                                      \/ req' = req
        BY <1>28 DEF Published, PublishedKind, StopNative, Send, Goto, CleanedKind, TerminalKinds
      <3>2. QED
        BY <3>1 DEF Exchanges
    <2>3. outbox' \subseteq Requests
      <3>1. PICK k \in TerminalKinds : \/ outbox' = outbox \cup {[op |-> "complete", run |-> me, kind |-> k]}
                                      \/ outbox' = outbox
        BY <1>28 DEF Published, PublishedKind, StopNative, Send, Goto, Record, CleanedKind, TerminalKinds
      <3>2. me \in Runs
        BY <1>28 DEF Published
      <3>3. QED
        BY <3>1, <3>2 DEF Requests
    <2>4. proc' \in Works
      BY <1>28, Ranges, Constants, CancelledType, SentType DEF Published, Kept, Goto, Send, Record, CleanedKind, Label, PublishedKind, StopNative
    <2>5. pub' \in [Runs -> Evidence]
      BY <1>28, PublishedDoes
    <2>6. QED
      BY <1>28, <2>1, <2>2, <2>3, <2>4, <2>5 DEF Published, Kept, Goto, Send, Record, CleanedKind, Label, Cancelled, PublishedKind, StopNative
  <1>29. ASSUME PublicationFailed, UNCHANGED tool PROVE TypeOK'
    <2>1. (pc \in {"idle", "leasing", "starting", "ready", "polling", "awaiting", "preparing",
               "working", "stopping", "publishing", "completing", "stopped", "down"}
      /\ why \in {"none", "before", "after", "conflict", "ok", "cancel", "lost", "quit"})'
      BY <1>29, Ranges, Constants, CancelledType, SentType DEF PublicationFailed, Kept, Goto, Send, Record, UnpublishedKind
    <2>2. req' \in Exchanges
      BY <1>29, Ranges, Constants, CancelledType, SentType DEF PublicationFailed, Kept, Goto, Send, Record, UnpublishedKind, Exchanges, NoRequest, TerminalKinds
    <2>3. outbox' \subseteq Requests
      BY <1>29, Ranges, Constants, CancelledType, SentType DEF PublicationFailed, Kept, Goto, Send, Record, UnpublishedKind, Requests, Exchanges, TerminalKinds
    <2>4. pub' \in [Runs -> Evidence]
      BY <1>29 DEF PublicationFailed, Evidence
    <2>5. QED
      BY <1>29, <2>1, <2>2, <2>3, <2>4 DEF PublicationFailed, Kept, Goto, Send, Record, UnpublishedKind
  <1>30. ASSUME WorkEnds, UNCHANGED tool PROVE TypeOK'
    <2>1. proc' \in Works
      BY <1>30, Ranges, Constants, CancelledType, SentType DEF WorkEnds, Works
    <2>2. alive' \subseteq Runs
      BY <1>30, Ranges, Constants, CancelledType, SentType DEF WorkEnds
    <2>3. QED
      BY <1>30, <2>1, <2>2 DEF WorkEnds
  <1>31. ASSUME NEW n \in Runs, DescendantsEnd(n), UNCHANGED tool PROVE TypeOK'
    <2>1. alive' \subseteq Runs
      BY <1>31, Ranges, Constants, CancelledType, SentType DEF DescendantsEnd
    <2>2. QED
      BY <1>31, <2>1 DEF DescendantsEnd
  <1>32. ASSUME Stop, UNCHANGED tool PROVE TypeOK'
    <2>1. (pc \in {"idle", "leasing", "starting", "ready", "polling", "awaiting", "preparing",
               "working", "stopping", "publishing", "completing", "stopped", "down"}
      /\ why \in {"none", "before", "after", "conflict", "ok", "cancel", "lost", "quit"})'
      BY <1>32, Ranges, Constants, CancelledType, SentType DEF Stop
    <2>2. QED
      BY <1>32, <2>1 DEF Stop
  <1>33. ASSUME Crash, UNCHANGED tool PROVE TypeOK'
    <2>1. hb' \in Heartbeats
      BY <1>33, Ranges, Constants, CancelledType, SentType DEF Crash, Awaited
    <2>2. proc' \in Works
      BY <1>33, Ranges, Constants, CancelledType, SentType DEF Crash, Awaited
    <2>3. req' \in Exchanges
      BY <1>33, Ranges, Constants, CancelledType, SentType DEF Crash, Awaited, Exchanges, NoRequest, TerminalKinds
    <2>4. stray' \subseteq Requests
      BY <1>33, Ranges, Constants, CancelledType, SentType DEF Crash, Awaited, Requests, Exchanges
    <2>5. trust' \in 0..LeaseTicks
      BY <1>33, Ranges, Constants, CancelledType, SentType DEF Crash, Awaited
    <2>6. crashes' \in 0..MaxCrash
      BY <1>33, Durations DEF Crash
    <2>7. QED
      BY <1>33, <2>1, <2>2, <2>3, <2>4, <2>5, <2>6 DEF Crash, Awaited
  <1>34. ASSUME Restart, UNCHANGED tool PROVE TypeOK'
    BY <1>34, Ranges, Constants, CancelledType, SentType DEF Restart
  <1>35. ASSUME Tick, UNCHANGED tool PROVE TypeOK'
    <2>1. trust' \in 0..LeaseTicks
      BY <1>35, Ranges, Constants, CancelledType, SentType DEF Tick, TimerDue, Less
    <2>2. left' \in [Runs -> 0..LeaseTicks]
      BY <1>35, Ranges, Constants, CancelledType, SentType DEF Tick, TimerDue, Less
    <2>3. hb' \in Heartbeats
      <3>1. \A n \in 0..LeaseTicks : [hb EXCEPT !.age = n] \in Heartbeats
        BY DEF Heartbeats
      <3>2. (IF hb.pending /\ hb.age < LeaseTicks THEN hb.age + 1 ELSE hb.age) \in 0..LeaseTicks
        BY Durations, Counting DEF Heartbeats
      <3>3. QED
        BY <1>35, <3>1, <3>2 DEF Tick
    <2>4. proc' \in Works
      <3>1. \A t \in 0..(TermTicks + KillTicks), d \in 0..CheckTicks :
              [proc EXCEPT !.timer = t, !.due = d] \in Works
        BY DEF Works
      <3>2. Less(proc.timer) \in 0..(TermTicks + KillTicks) /\ Less(proc.due) \in 0..CheckTicks
        BY Durations, Counting DEF Works
      <3>3. QED
        BY <1>35, <3>1, <3>2 DEF Tick
    <2>5. QED
      BY <1>35, <2>1, <2>2, <2>3, <2>4 DEF Tick, TimerDue, Less
  <1>36. ASSUME UNCHANGED vars PROVE TypeOK'
    BY <1>36 DEF vars
  <1>37. QED
    BY <1>1, <1>2, <1>3, <1>4, <1>5, <1>6, <1>7, <1>8, <1>9, <1>10, <1>11, <1>12, <1>13, <1>14, <1>15, <1>16, <1>17, <1>18, <1>19, <1>20, <1>21, <1>22, <1>23, <1>24, <1>25, <1>26, <1>27, <1>28, <1>29, <1>30, <1>31, <1>32, <1>33, <1>34, <1>35, <1>36 DEF Next, ControlPlane, Runner, Environment

\* The request that is awaited fits the place of the iteration.
LEMMA ReqStep ==
    ASSUME TypeOK, ReqPlaces, [Next]_vars
    PROVE  ReqPlaces'
  <1> USE DEF runnerVars, procVars, srvVars, ReqPlaces, NoRequest, TypeOK, Exchanges, TerminalKinds
  <1>1. ASSUME Serve, UNCHANGED tool PROVE ReqPlaces'
    BY <1>1 DEF Serve, Apply, After, Acceptable, Authority, Answer, Awaited
  <1>2. ASSUME ServeLease, UNCHANGED tool PROVE ReqPlaces'
    BY <1>2 DEF ServeLease
  <1>3. ASSUME StartPoll, UNCHANGED tool PROVE ReqPlaces'
    BY <1>3 DEF StartPoll, PollHeartbeat, AuthorityLost, SentHeartbeat
  <1>4. ASSUME RequestLease, UNCHANGED tool PROVE ReqPlaces'
    BY <1>4 DEF RequestLease, Goto
  <1>5. ASSUME LeaseAnswered, UNCHANGED tool PROVE ReqPlaces'
    BY <1>5 DEF LeaseAnswered, Goto, Record, Release
  <1>6. ASSUME StartedAnswered, UNCHANGED tool PROVE ReqPlaces'
    BY <1>6 DEF StartedAnswered, Goto, Forget, Awaited, Release
  <1>7. ASSUME CompleteAnswered, UNCHANGED tool PROVE ReqPlaces'
    BY <1>7 DEF CompleteAnswered, Goto, Forget, Awaited, Release
  <1>8. ASSUME RequestBroken, UNCHANGED tool PROVE ReqPlaces'
    BY <1>8 DEF RequestBroken, Release, Awaited
  <1>9. ASSUME Prepare, UNCHANGED tool PROVE ReqPlaces'
    BY <1>9 DEF Prepare, Kept, Goto, Send, Record
  <1>10. ASSUME CannotPrepare, UNCHANGED tool PROVE ReqPlaces'
    BY <1>10 DEF CannotPrepare, Kept, Goto, Send, Record
  <1>11. ASSUME BeforeWork, UNCHANGED tool PROVE ReqPlaces'
    BY <1>11 DEF BeforeWork, Kept, Goto, Send, Record
  <1>12. ASSUME Spawn, UNCHANGED tool PROVE ReqPlaces'
    BY <1>12 DEF Spawn, Spawnable, AuthorityLost, Goto
  <1>13. ASSUME WorkSettled, UNCHANGED tool PROVE ReqPlaces'
    BY <1>13 DEF WorkSettled, Settled, Goto
  <1>14. ASSUME AfterWork, UNCHANGED tool PROVE ReqPlaces'
    BY <1>14 DEF AfterWork, Kept, Goto, StopNative, Cancelled, Send, Record
  <1>15. ASSUME AfterConflict, UNCHANGED tool PROVE ReqPlaces'
    BY <1>15 DEF AfterConflict, Kept, Goto, StopNative, Cancelled
  <1>16. ASSUME ConflictUnexplained, UNCHANGED tool PROVE ReqPlaces'
    BY <1>16 DEF ConflictUnexplained, Release
  <1>17. ASSUME NativeStopped, UNCHANGED tool PROVE ReqPlaces'
    BY <1>17 DEF NativeStopped, Kept, Goto, Send, Record, CleanedKind, Keeps
  <1>18. ASSUME Published, UNCHANGED tool PROVE ReqPlaces'
    BY <1>18 DEF Published, Kept, Goto, Send, Record, CleanedKind, Label, Cancelled,
        PublishedKind, StopNative
  <1>19. ASSUME PublicationFailed, UNCHANGED tool PROVE ReqPlaces'
    BY <1>19 DEF PublicationFailed, Kept, Goto, Send, Record, UnpublishedKind
  <1>20. ASSUME Stop, UNCHANGED tool PROVE ReqPlaces'
    BY <1>20 DEF Stop
  <1>21. ASSUME Crash, UNCHANGED tool PROVE ReqPlaces'
    BY <1>21 DEF Crash, Awaited
  <1>22. ASSUME Restart, UNCHANGED tool PROVE ReqPlaces'
    BY <1>22 DEF Restart
  <1>23. ASSUME (\E r \in stray : ServeStray(r)) \/ ServeHeartbeat \/ (\E n \in Runs :
          OperatorCancel(n)) \/ RevokeRunner \/ HeartbeatTimer \/ HeartbeatAnswered \/
          HeartbeatRefused \/ HeartbeatUnanswered \/ FenceCheck \/ Escalate \/ WorkEnds \/ (\E n
          \in Runs : DescendantsEnd(n)) \/ Tick, UNCHANGED tool PROVE ReqPlaces'
    BY <1>23, Frames
  <1>24. ASSUME UNCHANGED vars PROVE ReqPlaces'
    BY <1>24 DEF vars
  <1>25. QED
    BY <1>1, <1>2, <1>3, <1>4, <1>5, <1>6, <1>7, <1>8, <1>9, <1>10, <1>11, <1>12, <1>13,
        <1>14, <1>15, <1>16, <1>17, <1>18, <1>19, <1>20, <1>21, <1>22, <1>23, <1>24 DEF Next,
        ControlPlane, Runner, Environment

\* The runner holds a Run exactly from the answer to its lease request on.
LEMMA MeStep ==
    ASSUME TypeOK, ReqPlaces, MePlaces, [Next]_vars
    PROVE  MePlaces'
  <1> USE DEF runnerVars, procVars, srvVars, ReqPlaces, MePlaces, NoRequest, NoHeartbeat, TypeOK, Exchanges, Heartbeats
  <1>1. ASSUME Serve, UNCHANGED tool PROVE MePlaces'
    BY <1>1 DEF Serve, Apply, After, Acceptable, Authority, Answer, Awaited
  <1>2. ASSUME ServeLease, UNCHANGED tool PROVE MePlaces'
    BY <1>2, Durations DEF ServeLease
  <1>3. ASSUME ServeHeartbeat, UNCHANGED tool PROVE MePlaces'
    BY <1>3 DEF ServeHeartbeat, Authority
  <1>4. ASSUME HeartbeatTimer, UNCHANGED tool PROVE MePlaces'
    BY <1>4 DEF HeartbeatTimer, InLease, PollHeartbeat, AuthorityLost, SentHeartbeat
  <1>5. ASSUME HeartbeatAnswered, UNCHANGED tool PROVE MePlaces'
    BY <1>5 DEF HeartbeatAnswered
  <1>6. ASSUME HeartbeatRefused, UNCHANGED tool PROVE MePlaces'
    BY <1>6 DEF HeartbeatRefused
  <1>7. ASSUME HeartbeatUnanswered, UNCHANGED tool PROVE MePlaces'
    BY <1>7 DEF HeartbeatUnanswered
  <1>8. ASSUME StartPoll, UNCHANGED tool PROVE MePlaces'
    BY <1>8 DEF StartPoll, PollHeartbeat, AuthorityLost, SentHeartbeat
  <1>9. ASSUME RequestLease, UNCHANGED tool PROVE MePlaces'
    BY <1>9 DEF RequestLease, Goto
  <1>10. ASSUME LeaseAnswered, UNCHANGED tool PROVE MePlaces'
    BY <1>10 DEF LeaseAnswered, Goto, Record, Release
  <1>11. ASSUME StartedAnswered, UNCHANGED tool PROVE MePlaces'
    BY <1>11 DEF StartedAnswered, Goto, Forget, Awaited, Release
  <1>12. ASSUME CompleteAnswered, UNCHANGED tool PROVE MePlaces'
    BY <1>12 DEF CompleteAnswered, Goto, Forget, Awaited, Release
  <1>13. ASSUME RequestBroken, UNCHANGED tool PROVE MePlaces'
    BY <1>13 DEF RequestBroken, Release, Awaited
  <1>14. ASSUME Prepare, UNCHANGED tool PROVE MePlaces'
    BY <1>14 DEF Prepare, Kept, Goto, Send, Record
  <1>15. ASSUME CannotPrepare, UNCHANGED tool PROVE MePlaces'
    BY <1>15 DEF CannotPrepare, Kept, Goto, Send, Record
  <1>16. ASSUME BeforeWork, UNCHANGED tool PROVE MePlaces'
    BY <1>16 DEF BeforeWork, Kept, Goto, Send, Record
  <1>17. ASSUME Spawn, UNCHANGED tool PROVE MePlaces'
    BY <1>17 DEF Spawn, Spawnable, AuthorityLost, Goto
  <1>18. ASSUME WorkSettled, UNCHANGED tool PROVE MePlaces'
    BY <1>18 DEF WorkSettled, Settled, Goto
  <1>19. ASSUME AfterWork, UNCHANGED tool PROVE MePlaces'
    BY <1>19 DEF AfterWork, Kept, Goto, StopNative, Cancelled, Send, Record
  <1>20. ASSUME AfterConflict, UNCHANGED tool PROVE MePlaces'
    BY <1>20 DEF AfterConflict, Kept, Goto, StopNative, Cancelled
  <1>21. ASSUME ConflictUnexplained, UNCHANGED tool PROVE MePlaces'
    BY <1>21 DEF ConflictUnexplained, Release
  <1>22. ASSUME NativeStopped, UNCHANGED tool PROVE MePlaces'
    BY <1>22 DEF NativeStopped, Kept, Goto, Send, Record, CleanedKind, Keeps
  <1>23. ASSUME Published, UNCHANGED tool PROVE MePlaces'
    BY <1>23 DEF Published, Kept, Goto, Send, Record, CleanedKind, Label, Cancelled,
        PublishedKind, StopNative
  <1>24. ASSUME PublicationFailed, UNCHANGED tool PROVE MePlaces'
    BY <1>24 DEF PublicationFailed, Kept, Goto, Send, Record, UnpublishedKind
  <1>25. ASSUME Stop, UNCHANGED tool PROVE MePlaces'
    BY <1>25 DEF Stop
  <1>26. ASSUME Crash, UNCHANGED tool PROVE MePlaces'
    BY <1>26 DEF Crash, Awaited
  <1>27. ASSUME Restart, UNCHANGED tool PROVE MePlaces'
    BY <1>27 DEF Restart
  <1>28. ASSUME Tick, UNCHANGED tool PROVE MePlaces'
    <2>1. hb = NoHeartbeat => hb' = NoHeartbeat
      BY <1>28 DEF Tick
    <2>2. QED
      BY <1>28, <2>1 DEF Tick
  <1>29. ASSUME (\E r \in stray : ServeStray(r)) \/ (\E n \in Runs :
          OperatorCancel(n)) \/ RevokeRunner \/ FenceCheck \/ Escalate \/ WorkEnds \/ (\E n \in
          Runs : DescendantsEnd(n)), UNCHANGED tool PROVE MePlaces'
    BY <1>29, Frames
  <1>30. ASSUME UNCHANGED vars PROVE MePlaces'
    BY <1>30 DEF vars
  <1>31. QED
    BY <1>1, <1>2, <1>3, <1>4, <1>5, <1>6, <1>7, <1>8, <1>9, <1>10, <1>11, <1>12, <1>13,
        <1>14, <1>15, <1>16, <1>17, <1>18, <1>19, <1>20, <1>21, <1>22, <1>23, <1>24, <1>25,
        <1>26, <1>27, <1>28, <1>29, <1>30 DEF Next, ControlPlane, Runner, Environment

\* There is work only where the iteration has, or has had, a child.
LEMMA WorkStep ==
    ASSUME TypeOK, ReqPlaces, MePlaces, WorkPlaces, [Next]_vars
    PROVE  WorkPlaces'
  <1> USE DEF runnerVars, procVars, srvVars, ReqPlaces, WorkPlaces, NoWork, NoRequest, TypeOK, Works, Exchanges
  <1>1. ASSUME Serve, UNCHANGED tool PROVE WorkPlaces'
    BY <1>1 DEF Serve, Apply, After, Acceptable, Authority, Answer, Awaited
  <1>2. ASSUME ServeLease, UNCHANGED tool PROVE WorkPlaces'
    BY <1>2 DEF ServeLease
  <1>3. ASSUME StartPoll, UNCHANGED tool PROVE WorkPlaces'
    BY <1>3 DEF StartPoll, PollHeartbeat, AuthorityLost, SentHeartbeat
  <1>4. ASSUME RequestLease, UNCHANGED tool PROVE WorkPlaces'
    BY <1>4 DEF RequestLease, Goto
  <1>5. ASSUME LeaseAnswered, UNCHANGED tool PROVE WorkPlaces'
    BY <1>5 DEF LeaseAnswered, Goto, Record, Release
  <1>6. ASSUME StartedAnswered, UNCHANGED tool PROVE WorkPlaces'
    BY <1>6 DEF StartedAnswered, Goto, Forget, Awaited, Release
  <1>7. ASSUME CompleteAnswered, UNCHANGED tool PROVE WorkPlaces'
    BY <1>7 DEF CompleteAnswered, Goto, Forget, Awaited, Release
  <1>8. ASSUME RequestBroken, UNCHANGED tool PROVE WorkPlaces'
    BY <1>8 DEF RequestBroken, Release, Awaited
  <1>9. ASSUME Prepare, UNCHANGED tool PROVE WorkPlaces'
    BY <1>9 DEF Prepare, Kept, Goto, Send, Record
  <1>10. ASSUME CannotPrepare, UNCHANGED tool PROVE WorkPlaces'
    BY <1>10 DEF CannotPrepare, Kept, Goto, Send, Record
  <1>11. ASSUME BeforeWork, UNCHANGED tool PROVE WorkPlaces'
    BY <1>11 DEF BeforeWork, Kept, Goto, Send, Record
  <1>12. ASSUME Spawn, UNCHANGED tool PROVE WorkPlaces'
    BY <1>12 DEF Spawn, Spawnable, AuthorityLost, Goto
  <1>13. ASSUME FenceCheck, UNCHANGED tool PROVE WorkPlaces'
    BY <1>13 DEF FenceCheck, Cancelled
  <1>14. ASSUME Escalate, UNCHANGED tool PROVE WorkPlaces'
    <2>1. proc.main # "none" /\ proc.main' # "none" /\ (proc.main = "closed" => proc.main' = "closed")
      <3>1. CASE SettleWork
        <4>1. PICK f \in BOOLEAN :
                proc' = [proc EXCEPT !.kill = "done", !.failed = f, !.main = "closed",
                           !.timer = 0, !.out = IF proc.main = "running" THEN "cut" ELSE @]
          BY <3>1 DEF SettleWork
        <4>2. QED
          BY <1>14, <4>1 DEF Escalate
      <3>2. CASE ~SettleWork
        <4>1. PICK m \in {proc.main, "closed"}, o \in {"none", "good", "bad", "cut"} :
                proc' = [proc EXCEPT !.kill = "kill", !.timer = KillTicks, !.main = m, !.out = o]
          BY <1>14, <3>2 DEF Escalate
        <4>2. proc.main # "none"
          BY <1>14 DEF Escalate
        <4>3. QED
          BY <4>1, <4>2
      <3>3. QED
        BY <3>1, <3>2
    <2>2. UNCHANGED <<pc, why, req>>
      BY <1>14, Frames
    <2>3. QED
      BY <2>1, <2>2
  <1>15. ASSUME WorkSettled, UNCHANGED tool PROVE WorkPlaces'
    BY <1>15 DEF WorkSettled, Settled, Goto
  <1>16. ASSUME AfterWork, UNCHANGED tool PROVE WorkPlaces'
    BY <1>16 DEF AfterWork, Kept, Goto, StopNative, Cancelled, Send, Record
  <1>17. ASSUME AfterConflict, UNCHANGED tool PROVE WorkPlaces'
    BY <1>17 DEF AfterConflict, Kept, Goto, StopNative, Cancelled
  <1>18. ASSUME ConflictUnexplained, UNCHANGED tool PROVE WorkPlaces'
    BY <1>18 DEF ConflictUnexplained, Release
  <1>19. ASSUME NativeStopped, UNCHANGED tool PROVE WorkPlaces'
    BY <1>19 DEF NativeStopped, Kept, Goto, Send, Record, CleanedKind, Keeps
  <1>20. ASSUME Published, UNCHANGED tool PROVE WorkPlaces'
    <2>1. proc.main' = proc.main /\ (proc = NoWork => proc' = NoWork)
      <3>1. proc' = proc \/ proc' = Cancelled(proc)
        BY <1>20 DEF Published, StopNative
      <3>2. QED
        BY <3>1, CancelledKeeps
    <2>2. \/ pc' = "completing" /\ why' = "none"
             /\ (req'.kind = "succeeded" => why = "ok")
          \/ pc' = "stopping" /\ why' = "quit" /\ why = "ok"
      BY <1>20 DEF Published, PublishedKind, StopNative, Send, Goto, CleanedKind
    <2>3. pc = "publishing"
      BY <1>20 DEF Published
    <2>4. QED
      BY <2>1, <2>2, <2>3
  <1>21. ASSUME PublicationFailed, UNCHANGED tool PROVE WorkPlaces'
    BY <1>21 DEF PublicationFailed, Kept, Goto, Send, Record, UnpublishedKind
  <1>22. ASSUME WorkEnds, UNCHANGED tool PROVE WorkPlaces'
    BY <1>22 DEF WorkEnds
  <1>23. ASSUME Stop, UNCHANGED tool PROVE WorkPlaces'
    BY <1>23 DEF Stop
  <1>24. ASSUME Crash, UNCHANGED tool PROVE WorkPlaces'
    BY <1>24 DEF Crash, Awaited
  <1>25. ASSUME Restart, UNCHANGED tool PROVE WorkPlaces'
    BY <1>25 DEF Restart
  <1>26. ASSUME Tick, UNCHANGED tool PROVE WorkPlaces'
    <2>1. proc.main' = proc.main /\ (proc = NoWork => proc' = NoWork)
      <3>1. proc' = [proc EXCEPT !.timer = Less(@), !.due = Less(@)]
        BY <1>26 DEF Tick
      <3>2. Less(0) = 0
        BY DEF Less
      <3>3. proc.main' = proc.main
        BY <3>1
      <3>4. ASSUME proc = NoWork PROVE proc' = NoWork
        BY <3>1, <3>2, <3>4
      <3>5. QED
        BY <3>3, <3>4
    <2>2. UNCHANGED <<pc, why, req>>
      BY <1>26, Frames
    <2>3. QED
      BY <2>1, <2>2
  <1>27. ASSUME (\E r \in stray : ServeStray(r)) \/ ServeHeartbeat \/ (\E n \in Runs :
          OperatorCancel(n)) \/ RevokeRunner \/ HeartbeatTimer \/ HeartbeatAnswered \/
          HeartbeatRefused \/ HeartbeatUnanswered \/ (\E n \in Runs : DescendantsEnd(n)),
          UNCHANGED tool PROVE WorkPlaces'
    BY <1>27, Frames
  <1>28. ASSUME UNCHANGED vars PROVE WorkPlaces'
    BY <1>28 DEF vars
  <1>29. QED
    BY <1>1, <1>2, <1>3, <1>4, <1>5, <1>6, <1>7, <1>8, <1>9, <1>10, <1>11, <1>12, <1>13,
        <1>14, <1>15, <1>16, <1>17, <1>18, <1>19, <1>20, <1>21, <1>22, <1>23, <1>24, <1>25,
        <1>26, <1>27, <1>28 DEF Next, ControlPlane, Runner, Environment

\* The Run the runner holds is leased, running or asked to cancel: only the
\* runner's own report ends it, and no stray request is about it.
LEMMA LiveStep ==
    ASSUME Base, RunLive, Strays, [Next]_vars
    PROVE  RunLive'
  <1> USE DEF runnerVars, procVars, srvVars, Base, RunLive, Engaged, Live, TypeOK, ReqPlaces, MePlaces, NoRequest, Exchanges, RunStates, Requests, TerminalKinds
  <1>1. ASSUME Serve, UNCHANGED tool PROVE RunLive'
    BY <1>1, Durations DEF Serve, Apply, After, Acceptable, Authority, Answer, Awaited
  <1>2. ASSUME ServeLease, UNCHANGED tool PROVE RunLive'
    BY <1>2, Durations DEF ServeLease
  <1>3. ASSUME NEW r \in stray, ServeStray(r), UNCHANGED tool PROVE RunLive'
    <2>1. r \in Requests /\ r.run # me /\ (r.op = "complete" <=> r.kind # "none")
      BY <1>3 DEF Strays
    <2>2. Apply(r) /\ UNCHANGED <<pc, me, req, alive, pub>>
      BY <1>3 DEF ServeStray
    <2>3. \A n \in Runs : srv'[n] = srv[n] \/ n = r.run
      BY <2>1, <2>2, ApplyDoes
    <2>4. QED
      BY <2>2, <2>1, <2>3, Durations
  <1>4. ASSUME NEW n \in Runs, OperatorCancel(n), UNCHANGED tool PROVE RunLive'
    BY <1>4, Durations DEF OperatorCancel
  <1>5. ASSUME RevokeRunner, UNCHANGED tool PROVE RunLive'
    BY <1>5, Durations DEF RevokeRunner
  <1>6. ASSUME StartPoll, UNCHANGED tool PROVE RunLive'
    BY <1>6, Durations DEF StartPoll, PollHeartbeat, AuthorityLost, SentHeartbeat
  <1>7. ASSUME RequestLease, UNCHANGED tool PROVE RunLive'
    BY <1>7, Durations DEF RequestLease, Goto
  <1>8. ASSUME LeaseAnswered, UNCHANGED tool PROVE RunLive'
    BY <1>8, Durations DEF LeaseAnswered, Goto, Record, Release
  <1>9. ASSUME StartedAnswered, UNCHANGED tool PROVE RunLive'
    BY <1>9, Durations DEF StartedAnswered, Goto, Forget, Awaited, Release
  <1>10. ASSUME CompleteAnswered, UNCHANGED tool PROVE RunLive'
    BY <1>10, Durations DEF CompleteAnswered, Goto, Forget, Awaited, Release
  <1>11. ASSUME RequestBroken, UNCHANGED tool PROVE RunLive'
    BY <1>11, Durations DEF RequestBroken, Release, Awaited
  <1>12. ASSUME Prepare, UNCHANGED tool PROVE RunLive'
    BY <1>12, Durations DEF Prepare, Kept, Goto, Send, Record
  <1>13. ASSUME CannotPrepare, UNCHANGED tool PROVE RunLive'
    BY <1>13, Durations DEF CannotPrepare, Kept, Goto, Send, Record
  <1>14. ASSUME BeforeWork, UNCHANGED tool PROVE RunLive'
    BY <1>14, Durations DEF BeforeWork, Kept, Goto, Send, Record
  <1>15. ASSUME Spawn, UNCHANGED tool PROVE RunLive'
    BY <1>15, Durations DEF Spawn, Spawnable, AuthorityLost, Goto
  <1>16. ASSUME WorkSettled, UNCHANGED tool PROVE RunLive'
    BY <1>16, Durations DEF WorkSettled, Settled, Goto
  <1>17. ASSUME AfterWork, UNCHANGED tool PROVE RunLive'
    BY <1>17, Durations DEF AfterWork, Kept, Goto, StopNative, Cancelled, Send, Record
  <1>18. ASSUME AfterConflict, UNCHANGED tool PROVE RunLive'
    BY <1>18, Durations DEF AfterConflict, Kept, Goto, StopNative, Cancelled
  <1>19. ASSUME ConflictUnexplained, UNCHANGED tool PROVE RunLive'
    BY <1>19, Durations DEF ConflictUnexplained, Release
  <1>20. ASSUME NativeStopped, UNCHANGED tool PROVE RunLive'
    BY <1>20, Durations DEF NativeStopped, Kept, Goto, Send, Record, CleanedKind, Keeps
  <1>21. ASSUME Published, UNCHANGED tool PROVE RunLive'
    BY <1>21, Durations DEF Published, Kept, Goto, Send, Record, CleanedKind, Label,
        Cancelled, PublishedKind, StopNative
  <1>22. ASSUME PublicationFailed, UNCHANGED tool PROVE RunLive'
    BY <1>22, Durations DEF PublicationFailed, Kept, Goto, Send, Record, UnpublishedKind
  <1>23. ASSUME Stop, UNCHANGED tool PROVE RunLive'
    BY <1>23, Durations DEF Stop
  <1>24. ASSUME Crash, UNCHANGED tool PROVE RunLive'
    BY <1>24, Durations DEF Crash, Awaited
  <1>25. ASSUME Restart, UNCHANGED tool PROVE RunLive'
    BY <1>25, Durations DEF Restart
  <1>26. ASSUME ServeHeartbeat \/ HeartbeatTimer \/ HeartbeatAnswered \/
          HeartbeatRefused \/ HeartbeatUnanswered \/ FenceCheck \/ Escalate \/ WorkEnds \/ (\E n
          \in Runs : DescendantsEnd(n)) \/ Tick, UNCHANGED tool PROVE RunLive'
    BY <1>26, Frames
  <1>27. ASSUME UNCHANGED vars PROVE RunLive'
    BY <1>27 DEF vars
  <1>28. QED
    BY <1>1, <1>2, <1>3, <1>4, <1>5, <1>6, <1>7, <1>8, <1>9, <1>10, <1>11, <1>12, <1>13,
        <1>14, <1>15, <1>16, <1>17, <1>18, <1>19, <1>20, <1>21, <1>22, <1>23, <1>24, <1>25,
        <1>26, <1>27 DEF Next, ControlPlane, Runner, Environment

\* A request given up on is about a Run of an earlier iteration, and what it
\* claims of that Run was true when it was sent and stays true.
LEMMA StrayStep ==
    ASSUME Base, RunLive, Strays, Quiet, Stored, [Next]_vars
    PROVE  Strays'
  <1> USE DEF runnerVars, procVars, srvVars, Base, RunLive, Strays, TypeOK, ReqPlaces, MePlaces, NoRequest, Exchanges, RunStates, Requests, TerminalKinds
  <1>1. ASSUME Serve, UNCHANGED tool PROVE Strays'
    BY <1>1, Durations DEF Serve, Apply, After, Acceptable, Authority, Answer, Awaited
  <1>2. ASSUME ServeLease, UNCHANGED tool PROVE Strays'
    BY <1>2, Durations DEF ServeLease
  <1>3. ASSUME NEW r \in stray, ServeStray(r), UNCHANGED tool PROVE Strays'
    BY <1>3, Durations DEF ServeStray, Apply, After, Acceptable, Authority
  <1>4. ASSUME NEW n \in Runs, OperatorCancel(n), UNCHANGED tool PROVE Strays'
    BY <1>4, Durations DEF OperatorCancel
  <1>5. ASSUME RevokeRunner, UNCHANGED tool PROVE Strays'
    BY <1>5, Durations DEF RevokeRunner
  <1>6. ASSUME LeaseAnswered, UNCHANGED tool PROVE Strays'
    BY <1>6, Durations DEF LeaseAnswered, Goto, Record, Release
  <1>7. ASSUME StartedAnswered, UNCHANGED tool PROVE Strays'
    BY <1>7, Durations DEF StartedAnswered, Goto, Forget, Awaited, Release
  <1>8. ASSUME CompleteAnswered, UNCHANGED tool PROVE Strays'
    BY <1>8, Durations DEF CompleteAnswered, Goto, Forget, Awaited, Release
  <1>9. ASSUME RequestBroken, UNCHANGED tool PROVE Strays'
    BY <1>9, Durations DEF RequestBroken, Release, Awaited, Quiet, Stored
  <1>10. ASSUME Spawn, UNCHANGED tool PROVE Strays'
    BY <1>10, Durations DEF Spawn, Spawnable, AuthorityLost, Goto
  <1>11. ASSUME FenceCheck, UNCHANGED tool PROVE Strays'
    BY <1>11, Durations DEF FenceCheck, Cancelled
  <1>12. ASSUME Escalate, UNCHANGED tool PROVE Strays'
    BY <1>12, Durations DEF Escalate, SettleWork, GiveUp
  <1>13. ASSUME ConflictUnexplained, UNCHANGED tool PROVE Strays'
    BY <1>13, Durations DEF ConflictUnexplained, Release
  <1>14. ASSUME Published, UNCHANGED tool PROVE Strays'
    BY <1>14, Durations DEF Published, Kept, Goto, Send, Record, CleanedKind, Label,
        Cancelled, PublishedKind, StopNative
  <1>15. ASSUME PublicationFailed, UNCHANGED tool PROVE Strays'
    <2>1. \A n \in Runs : Whole(pub[n]) => Whole(pub'[n])
      BY <1>15 DEF PublicationFailed, Evidence, Whole
    <2>2. UNCHANGED <<stray, me, srv, alive>>
      BY <1>15, Frames
    <2>3. QED
      BY <2>1, <2>2
  <1>16. ASSUME WorkEnds, UNCHANGED tool PROVE Strays'
    BY <1>16, Durations DEF WorkEnds
  <1>17. ASSUME NEW n \in Runs, DescendantsEnd(n), UNCHANGED tool PROVE Strays'
    BY <1>17, Durations DEF DescendantsEnd
  <1>18. ASSUME Crash, UNCHANGED tool PROVE Strays'
    BY <1>18, Durations DEF Crash, Awaited, Quiet, Stored
  <1>19. ASSUME ServeHeartbeat \/ HeartbeatTimer \/ HeartbeatAnswered \/
          HeartbeatRefused \/ HeartbeatUnanswered \/ StartPoll \/ RequestLease \/ Prepare \/
          CannotPrepare \/ BeforeWork \/ WorkSettled \/ AfterWork \/ AfterConflict \/
          NativeStopped \/ Stop \/ Restart \/ Tick, UNCHANGED tool PROVE Strays'
    BY <1>19, Frames
  <1>20. ASSUME UNCHANGED vars PROVE Strays'
    BY <1>20 DEF vars
  <1>21. QED
    BY <1>1, <1>2, <1>3, <1>4, <1>5, <1>6, <1>7, <1>8, <1>9, <1>10, <1>11, <1>12, <1>13,
        <1>14, <1>15, <1>16, <1>17, <1>18, <1>19, <1>20 DEF Next, ControlPlane, Runner,
        Environment

\* Forget removes the key of the request just answered, which is not astray.
LEMMA RecordedStep ==
    ASSUME Base, Strays, UnansweredRequestIsRecorded, [Next]_vars
    PROVE  UnansweredRequestIsRecorded'
  <1> USE DEF runnerVars, procVars, srvVars, Base, UnansweredRequestIsRecorded, TypeOK, ReqPlaces, MePlaces, NoRequest, Exchanges, Requests, Awaited
  <1>1. ASSUME Serve, UNCHANGED tool PROVE UnansweredRequestIsRecorded'
    BY <1>1, Durations DEF Serve, Apply, After, Acceptable, Authority, Answer, Awaited
  <1>2. ASSUME ServeLease, UNCHANGED tool PROVE UnansweredRequestIsRecorded'
    BY <1>2, Durations DEF ServeLease
  <1>3. ASSUME NEW r \in stray, ServeStray(r), UNCHANGED tool PROVE UnansweredRequestIsRecorded'
    BY <1>3, Durations DEF ServeStray, Apply, After, Acceptable, Authority
  <1>4. ASSUME RequestLease, UNCHANGED tool PROVE UnansweredRequestIsRecorded'
    BY <1>4, Durations DEF RequestLease, Goto
  <1>5. ASSUME LeaseAnswered, UNCHANGED tool PROVE UnansweredRequestIsRecorded'
    BY <1>5, Durations DEF LeaseAnswered, Goto, Record, Release
  <1>6. ASSUME StartedAnswered, UNCHANGED tool PROVE UnansweredRequestIsRecorded'
    <2>1. Awaited \notin stray
      BY DEF Strays
    <2>2. UNCHANGED stray /\ outbox \ {Awaited} \subseteq outbox'
      BY <1>6 DEF StartedAnswered, Goto, Forget, Release
    <2>3. req'.op \in {"started", "complete"} => Awaited' \in outbox'
      BY <1>6 DEF StartedAnswered, Goto, Forget, Release
    <2>4. QED
      BY <2>1, <2>2, <2>3
  <1>7. ASSUME CompleteAnswered, UNCHANGED tool PROVE UnansweredRequestIsRecorded'
    <2>1. Awaited \notin stray
      BY DEF Strays
    <2>2. UNCHANGED stray /\ outbox \ {Awaited} \subseteq outbox'
      BY <1>7 DEF CompleteAnswered, Goto, Forget, Release
    <2>3. req'.op \in {"started", "complete"} => Awaited' \in outbox'
      BY <1>7 DEF CompleteAnswered, Goto, Forget, Release
    <2>4. QED
      BY <2>1, <2>2, <2>3
  <1>8. ASSUME RequestBroken, UNCHANGED tool PROVE UnansweredRequestIsRecorded'
    BY <1>8, Durations DEF RequestBroken, Release, Awaited
  <1>9. ASSUME Prepare, UNCHANGED tool PROVE UnansweredRequestIsRecorded'
    BY <1>9, Durations DEF Prepare, Kept, Goto, Send, Record
  <1>10. ASSUME CannotPrepare, UNCHANGED tool PROVE UnansweredRequestIsRecorded'
    BY <1>10, Durations DEF CannotPrepare, Kept, Goto, Send, Record
  <1>11. ASSUME BeforeWork, UNCHANGED tool PROVE UnansweredRequestIsRecorded'
    BY <1>11, Durations DEF BeforeWork, Kept, Goto, Send, Record
  <1>12. ASSUME AfterConflict, UNCHANGED tool PROVE UnansweredRequestIsRecorded'
    BY <1>12, Durations DEF AfterConflict, Kept, Goto, StopNative, Cancelled
  <1>13. ASSUME ConflictUnexplained, UNCHANGED tool PROVE UnansweredRequestIsRecorded'
    BY <1>13, Durations DEF ConflictUnexplained, Release
  <1>14. ASSUME NativeStopped, UNCHANGED tool PROVE UnansweredRequestIsRecorded'
    BY <1>14, Durations DEF NativeStopped, Kept, Goto, Send, Record, CleanedKind, Keeps
  <1>15. ASSUME Published, UNCHANGED tool PROVE UnansweredRequestIsRecorded'
    BY <1>15, Durations DEF Published, Kept, Goto, Send, Record, CleanedKind, Label,
        Cancelled, PublishedKind, StopNative
  <1>16. ASSUME PublicationFailed, UNCHANGED tool PROVE UnansweredRequestIsRecorded'
    BY <1>16, Durations DEF PublicationFailed, Kept, Goto, Send, Record, UnpublishedKind
  <1>17. ASSUME Crash, UNCHANGED tool PROVE UnansweredRequestIsRecorded'
    BY <1>17, Durations DEF Crash, Awaited
  <1>18. ASSUME ServeHeartbeat \/ (\E n \in Runs : OperatorCancel(n)) \/ RevokeRunner
          \/ HeartbeatTimer \/ HeartbeatAnswered \/ HeartbeatRefused \/ HeartbeatUnanswered \/
          StartPoll \/ Spawn \/ FenceCheck \/ Escalate \/ WorkSettled \/ WorkEnds
          \/ (\E n \in Runs : DescendantsEnd(n)) \/ Stop \/ Restart \/ Tick, UNCHANGED tool
          PROVE UnansweredRequestIsRecorded'
    BY <1>18, Frames
  <1>19. ASSUME AfterWork, UNCHANGED tool PROVE UnansweredRequestIsRecorded'
    BY <1>19, Durations DEF AfterWork, Kept, Goto, Send, Record
  <1>20. ASSUME UNCHANGED vars PROVE UnansweredRequestIsRecorded'
    BY <1>20 DEF vars
  <1>21. QED
    BY <1>1, <1>2, <1>3, <1>4, <1>5, <1>6, <1>7, <1>8, <1>9, <1>10, <1>11, <1>12, <1>13,
        <1>14, <1>15, <1>16, <1>17, <1>18, <1>19, <1>20 DEF Next, ControlPlane, Runner,
        Environment

\* Only a report that was sent after the publication turns a Run succeeded.
LEMMA SucceededStep ==
    ASSUME Base, RunLive, Strays, Stored, SucceededMeansPublished, [Next]_vars
    PROVE  SucceededMeansPublished'
  <1> USE DEF runnerVars, procVars, srvVars, Base, SucceededMeansPublished, TypeOK, ReqPlaces, MePlaces, Stored, RunStates, TerminalKinds
  <1>1. ASSUME Serve, UNCHANGED tool PROVE SucceededMeansPublished'
    BY <1>1, Durations DEF Serve, Apply, After, Acceptable, Authority, Answer, Awaited
  <1>2. ASSUME ServeLease, UNCHANGED tool PROVE SucceededMeansPublished'
    BY <1>2, Durations DEF ServeLease
  <1>3. ASSUME NEW r \in stray, ServeStray(r), UNCHANGED tool PROVE SucceededMeansPublished'
    <2>1. r \in Requests /\ r.run # me /\ (r.op = "complete" <=> r.kind # "none")
      BY <1>3 DEF Strays
    <2>2. Apply(r) /\ UNCHANGED <<pc, me, req, alive, pub>>
      BY <1>3 DEF ServeStray
    <2>3. r.kind = "succeeded" => Whole(pub[r.run])
      BY <1>3 DEF Strays
    <2>4. QED
      BY <2>2, <2>1, <2>3, ApplyDoes DEF Live
  <1>4. ASSUME NEW n \in Runs, OperatorCancel(n), UNCHANGED tool PROVE SucceededMeansPublished'
    BY <1>4, Durations DEF OperatorCancel
  <1>5. ASSUME RevokeRunner, UNCHANGED tool PROVE SucceededMeansPublished'
    BY <1>5, Durations DEF RevokeRunner
  <1>6. ASSUME Published, UNCHANGED tool PROVE SucceededMeansPublished'
    BY <1>6, Durations DEF Published, Kept, Goto, Send, Record, CleanedKind, Label,
        Cancelled, PublishedKind, StopNative
  <1>7. ASSUME PublicationFailed, UNCHANGED tool PROVE SucceededMeansPublished'
    BY <1>7, Durations DEF PublicationFailed, Kept, Goto, Send, Record, UnpublishedKind
  <1>8. ASSUME ServeHeartbeat \/ HeartbeatTimer \/ HeartbeatAnswered \/
          HeartbeatRefused \/ HeartbeatUnanswered \/ StartPoll \/ RequestLease \/ LeaseAnswered
          \/ StartedAnswered \/ CompleteAnswered \/ RequestBroken \/ Prepare \/ CannotPrepare \/
          BeforeWork \/ Spawn \/ FenceCheck \/ Escalate \/ WorkSettled \/ AfterWork \/
          AfterConflict \/ ConflictUnexplained \/ NativeStopped \/ WorkEnds \/ (\E n \in Runs :
          DescendantsEnd(n)) \/ Stop \/ Crash \/ Restart \/ Tick, UNCHANGED tool PROVE
          SucceededMeansPublished'
    BY <1>8, Frames
  <1>9. ASSUME UNCHANGED vars PROVE SucceededMeansPublished'
    BY <1>9 DEF vars
  <1>10. QED
    BY <1>1, <1>2, <1>3, <1>4, <1>5, <1>6, <1>7, <1>8, <1>9 DEF Next, ControlPlane,
        Runner, Environment

\* Only a report that was sent after the cleanup turns a Run cancelled, and
\* nothing of that Run is spawned afterwards.
LEMMA CancelledStep ==
    ASSUME Base, RunLive, Strays, Quiet, CancelledMeansStopped, [Next]_vars
    PROVE  CancelledMeansStopped'
  <1> USE DEF runnerVars, procVars, srvVars, Base, CancelledMeansStopped, TypeOK, ReqPlaces, MePlaces, RunStates, TerminalKinds
  <1>1. ASSUME Serve, UNCHANGED tool PROVE CancelledMeansStopped'
    <2>1. Awaited \in Requests /\ (req.op = "complete" <=> req.kind # "none")
      BY <1>1 DEF Serve, Awaited, Requests, Exchanges
    <2>2. Apply(Awaited) /\ UNCHANGED alive
      BY <1>1 DEF Serve
    <2>3. req.kind = "cancelled" => me \notin alive
      BY DEF Quiet
    <2>4. QED
      BY <2>1, <2>2, <2>3, ApplyDoes DEF Live, Awaited
  <1>2. ASSUME ServeLease, UNCHANGED tool PROVE CancelledMeansStopped'
    BY <1>2, Durations DEF ServeLease
  <1>3. ASSUME NEW r \in stray, ServeStray(r), UNCHANGED tool PROVE CancelledMeansStopped'
    <2>1. r \in Requests /\ r.run # me /\ (r.op = "complete" <=> r.kind # "none")
      BY <1>3 DEF Strays
    <2>2. Apply(r) /\ UNCHANGED <<pc, me, req, alive, pub>>
      BY <1>3 DEF ServeStray
    <2>3. r.kind = "cancelled" => r.run \notin alive
      BY <1>3 DEF Strays
    <2>4. QED
      BY <2>2, <2>1, <2>3, ApplyDoes DEF Live
  <1>4. ASSUME NEW n \in Runs, OperatorCancel(n), UNCHANGED tool PROVE CancelledMeansStopped'
    BY <1>4, Durations DEF OperatorCancel, Quiet
  <1>5. ASSUME RevokeRunner, UNCHANGED tool PROVE CancelledMeansStopped'
    BY <1>5, Durations DEF RevokeRunner
  <1>6. ASSUME Spawn, UNCHANGED tool PROVE CancelledMeansStopped'
    <2>1. me \in Runs /\ srv[me] # "cancelled"
      BY <1>6, Durations DEF Spawn, RunLive, Engaged, Live
    <2>2. srv' = srv /\ alive' \subseteq alive \cup {me}
      BY <1>6 DEF Spawn
    <2>3. QED
      BY <2>1, <2>2
  <1>7. ASSUME FenceCheck, UNCHANGED tool PROVE CancelledMeansStopped'
    BY <1>7, Durations DEF FenceCheck, Cancelled
  <1>8. ASSUME Escalate, UNCHANGED tool PROVE CancelledMeansStopped'
    BY <1>8, Durations DEF Escalate, SettleWork, GiveUp
  <1>9. ASSUME WorkEnds, UNCHANGED tool PROVE CancelledMeansStopped'
    BY <1>9, Durations DEF WorkEnds
  <1>10. ASSUME NEW n \in Runs, DescendantsEnd(n), UNCHANGED tool PROVE CancelledMeansStopped'
    BY <1>10, Durations DEF DescendantsEnd
  <1>11. ASSUME ServeHeartbeat \/ HeartbeatTimer \/ HeartbeatAnswered \/
          HeartbeatRefused \/ HeartbeatUnanswered \/ StartPoll \/ RequestLease \/ LeaseAnswered
          \/ StartedAnswered \/ CompleteAnswered \/ RequestBroken \/ Prepare \/ CannotPrepare \/
          BeforeWork \/ WorkSettled \/ AfterWork \/ AfterConflict \/ ConflictUnexplained \/
          NativeStopped \/ Published \/ PublicationFailed \/ Stop \/ Crash \/ Restart \/ Tick,
          UNCHANGED tool PROVE CancelledMeansStopped'
    BY <1>11, Frames
  <1>12. ASSUME UNCHANGED vars PROVE CancelledMeansStopped'
    BY <1>12 DEF vars
  <1>13. QED
    BY <1>1, <1>2, <1>3, <1>4, <1>5, <1>6, <1>7, <1>8, <1>9, <1>10, <1>11, <1>12 DEF
        Next, ControlPlane, Runner, Environment

\* Where processes can be left, and what the cleanup said of them.
LEMMA QuietStep ==
    ASSUME Base, RunLive, Strays, Quiet, [Next]_vars
    PROVE  Quiet'
  <1> USE DEF runnerVars, procVars, srvVars, Base, TypeOK, ReqPlaces, MePlaces, WorkPlaces, NoRequest, Exchanges, Works, RunStates, TerminalKinds, Quiet, NoWork
  <1>1. ASSUME Serve, UNCHANGED tool PROVE Quiet'
    BY <1>1, Durations DEF Serve, Apply, After, Acceptable, Authority, Answer, Awaited
  <1>2. ASSUME ServeLease, UNCHANGED tool PROVE Quiet'
    BY <1>2, Durations DEF ServeLease
  <1>3. ASSUME NEW r \in stray, ServeStray(r), UNCHANGED tool PROVE Quiet'
    <2>1. r \in Requests /\ r.run # me /\ (r.op = "complete" <=> r.kind # "none")
      BY <1>3 DEF Strays
    <2>2. Apply(r) /\ UNCHANGED <<pc, why, me, req, proc, alive, stuck, tool>>
      BY <1>3 DEF ServeStray
    <2>3. \A n \in Runs : srv'[n] = "queued" => srv[n] = "queued"
      BY <2>1, <2>2, ApplyDoes DEF Requests
    <2>4. QED
      BY <2>2, <2>3
  <1>4. ASSUME NEW n \in Runs, OperatorCancel(n), UNCHANGED tool PROVE Quiet'
    BY <1>4, Durations DEF OperatorCancel
  <1>5. ASSUME RevokeRunner, UNCHANGED tool PROVE Quiet'
    BY <1>5, Durations DEF RevokeRunner
  <1>6. ASSUME StartPoll, UNCHANGED tool PROVE Quiet'
    BY <1>6, Durations DEF StartPoll, PollHeartbeat, AuthorityLost, SentHeartbeat
  <1>7. ASSUME RequestLease, UNCHANGED tool PROVE Quiet'
    BY <1>7, Durations DEF RequestLease, Goto
  <1>8. ASSUME LeaseAnswered, UNCHANGED tool PROVE Quiet'
    BY <1>8, Durations DEF LeaseAnswered, Goto, Record, Release
  <1>9. ASSUME StartedAnswered, UNCHANGED tool PROVE Quiet'
    BY <1>9, Durations DEF StartedAnswered, Goto, Forget, Awaited, Release
  <1>10. ASSUME CompleteAnswered, UNCHANGED tool PROVE Quiet'
    BY <1>10, Durations DEF CompleteAnswered, Goto, Forget, Awaited, Release
  <1>11. ASSUME RequestBroken, UNCHANGED tool PROVE Quiet'
    BY <1>11, Durations DEF RequestBroken, Release, Awaited
  <1>12. ASSUME Prepare, UNCHANGED tool PROVE Quiet'
    BY <1>12, Durations DEF Prepare, Kept, Goto, Send, Record
  <1>13. ASSUME CannotPrepare, UNCHANGED tool PROVE Quiet'
    BY <1>13, Durations DEF CannotPrepare, Kept, Goto, Send, Record
  <1>14. ASSUME BeforeWork, UNCHANGED tool PROVE Quiet'
    BY <1>14, Durations DEF BeforeWork, Kept, Goto, Send, Record
  <1>15. ASSUME Spawn, UNCHANGED tool PROVE Quiet'
    <2>1. me \in Runs /\ srv[me] # "queued" /\ req.kind # "cancelled"
      BY <1>15, Durations DEF Spawn, RunLive
    <2>2. UNCHANGED <<tool, srv, me, req>> /\ pc' = "working" /\ alive' \subseteq alive \cup {me}
      BY <1>15 DEF Spawn, Goto
    <2>3. proc'.kill = "no" /\ (proc'.main = "running" \/ (proc'.main = "closed" /\ alive' = alive))
      BY <1>15 DEF Spawn
    <2>4. me \notin alive
      BY <1>15 DEF Spawn
    <2>5. QED
      BY <2>1, <2>2, <2>3, <2>4
  <1>16. ASSUME FenceCheck, UNCHANGED tool PROVE Quiet'
    <2>1. UNCHANGED <<tool, srv, me, pc, why, req, stuck>> /\ pc = "working" /\ req.kind # "cancelled"
          /\ proc.main = "running" /\ proc.kill = "no"
      BY <1>16 DEF FenceCheck
    <2>2. CASE (cancelSeen \/ AuthorityLost) /\ tool[me] = "probe"
      <3>1. proc'.main = "closed" /\ proc'.kill = "no" /\ alive' = alive \ {me}
        BY <1>16, <2>2 DEF FenceCheck
      <3>2. QED
        BY <2>1, <2>2, <3>1
    <2>3. CASE (cancelSeen \/ AuthorityLost) /\ tool[me] # "probe"
      <3>1. alive' = alive /\ proc' = [Cancelled(proc) EXCEPT !.due = 0]
        BY <1>16, <2>3 DEF FenceCheck
      <3>2. proc'.main = "running" /\ proc'.kill = "term"
        BY <2>1, <3>1, CancelledKeeps, CancelledType
      <3>3. QED
        BY <2>1, <2>3, <3>1, <3>2
    <2>4. CASE ~(cancelSeen \/ AuthorityLost)
      <3>1. alive' = alive /\ proc' = [proc EXCEPT !.due = CheckTicks]
        BY <1>16, <2>4 DEF FenceCheck
      <3>2. QED
        BY <2>1, <3>1
    <2>5. QED
      BY <2>2, <2>3, <2>4
  <1>17. ASSUME Escalate, UNCHANGED tool PROVE Quiet'
    <2>1. UNCHANGED <<tool, srv, me, pc, why, req, stuck>>
      BY <1>17, Frames
    <2>2. QED
      BY <1>17, <2>1, EscalateDoes DEF Escalate
  <1>18. ASSUME WorkSettled, UNCHANGED tool PROVE Quiet'
    BY <1>18, Durations DEF WorkSettled, Settled, Goto
  <1>19. ASSUME AfterWork, UNCHANGED tool PROVE Quiet'
    <2>1. pc = "awaiting" /\ UNCHANGED <<tool, srv, me, alive, stuck>> /\ proc.main = "closed"
          /\ req.kind # "cancelled"
      BY <1>19 DEF AfterWork, Kept
    <2>2. \/ StopNative /\ pc' = "stopping" /\ req' = req
          \/ proc' = proc /\ pc' = "publishing" /\ why' = "ok" /\ req' = req
          \/ proc' = proc /\ pc' = "completing" /\ req'.kind = "failed"
      BY <1>19 DEF AfterWork, Goto, Send
    <2>3. CASE StopNative /\ pc' = "stopping" /\ req' = req
      BY <2>1, <2>3, StopNativeDoes
    <2>4. CASE proc' = proc /\ pc' = "publishing" /\ why' = "ok" /\ req' = req
      BY <2>1, <2>4
    <2>5. CASE proc' = proc /\ pc' = "completing" /\ req'.kind = "failed"
      BY <2>1, <2>5
    <2>6. QED
      BY <2>2, <2>3, <2>4, <2>5
  <1>20. ASSUME AfterConflict, UNCHANGED tool PROVE Quiet'
    <2>1. pc = "awaiting" /\ UNCHANGED <<tool, srv, me, req, alive, stuck>> /\ proc.main = "closed"
          /\ req.kind # "cancelled" /\ pc' = "stopping" /\ StopNative
      BY <1>20 DEF AfterConflict, Kept, Goto
    <2>2. QED
      BY <2>1, StopNativeDoes
  <1>21. ASSUME ConflictUnexplained, UNCHANGED tool PROVE Quiet'
    BY <1>21, Durations DEF ConflictUnexplained, Release
  <1>22. ASSUME NativeStopped, UNCHANGED tool PROVE Quiet'
    BY <1>22, Durations DEF NativeStopped, Kept, Goto, Send, Record, CleanedKind, Keeps
  <1>23. ASSUME Published, UNCHANGED tool PROVE Quiet'
    <2>1. pc = "publishing" /\ UNCHANGED <<tool, srv, me, alive, stuck>> /\ req.kind # "cancelled"
      BY <1>23, Frames, PublishedDoes
    <2>2. \/ /\ why = "ok" /\ pc' = "stopping" /\ proc.main = "closed"
             /\ StopNative /\ req' = req
          \/ /\ pc' = "completing" /\ proc' = proc
             /\ req'.kind = "cancelled" => why = "cancel" /\ ~proc.failed
      BY <1>23, PublishedDoes DEF Send, Goto
    <2>3. CASE /\ why = "ok" /\ pc' = "stopping" /\ proc.main = "closed"
               /\ StopNative /\ req' = req
      BY <2>1, <2>3, StopNativeDoes
    <2>4. CASE /\ pc' = "completing" /\ proc' = proc
               /\ req'.kind = "cancelled" => why = "cancel" /\ ~proc.failed
      BY <2>1, <2>4
    <2>5. QED
      BY <2>2, <2>3, <2>4
  <1>24. ASSUME PublicationFailed, UNCHANGED tool PROVE Quiet'
    BY <1>24, Durations DEF PublicationFailed, Kept, Goto, Send, Record, UnpublishedKind
  <1>25. ASSUME WorkEnds, UNCHANGED tool PROVE Quiet'
    BY <1>25, Durations DEF WorkEnds
  <1>26. ASSUME NEW n \in Runs, DescendantsEnd(n), UNCHANGED tool PROVE Quiet'
    BY <1>26, Durations DEF DescendantsEnd
  <1>27. ASSUME Stop, UNCHANGED tool PROVE Quiet'
    BY <1>27, Durations DEF Stop
  <1>28. ASSUME Crash, UNCHANGED tool PROVE Quiet'
    BY <1>28, Durations DEF Crash, Awaited
  <1>29. ASSUME Restart, UNCHANGED tool PROVE Quiet'
    BY <1>29, Durations DEF Restart
  <1>30. ASSUME Tick, UNCHANGED tool PROVE Quiet'
    BY <1>30, Durations DEF Tick, TimerDue, Less
  <1>31. ASSUME ServeHeartbeat \/ HeartbeatTimer \/ HeartbeatAnswered \/
          HeartbeatRefused \/ HeartbeatUnanswered, UNCHANGED tool PROVE Quiet'
    BY <1>31, Frames
  <1>32. ASSUME UNCHANGED vars PROVE Quiet'
    BY <1>32 DEF vars
  <1>33. QED
    BY <1>1, <1>2, <1>3, <1>4, <1>5, <1>6, <1>7, <1>8, <1>9, <1>10, <1>11, <1>12, <1>13,
        <1>14, <1>15, <1>16, <1>17, <1>18, <1>19, <1>20, <1>21, <1>22, <1>23, <1>24, <1>25,
        <1>26, <1>27, <1>28, <1>29, <1>30, <1>31, <1>32 DEF Next, ControlPlane, Runner,
        Environment

\* A report of success leaves after everything was stored.
LEMMA StoredStep ==
    ASSUME Base, Strays, Stored, [Next]_vars
    PROVE  Stored'
  <1> USE DEF runnerVars, procVars, srvVars, Base, TypeOK, ReqPlaces, MePlaces, WorkPlaces, NoRequest, Exchanges, Works, RunStates, TerminalKinds, Stored
  <1>1. ASSUME Serve, UNCHANGED tool PROVE Stored'
    BY <1>1, Durations DEF Serve, Apply, After, Acceptable, Authority, Answer, Awaited
  <1>2. ASSUME ServeLease, UNCHANGED tool PROVE Stored'
    BY <1>2, Durations DEF ServeLease
  <1>3. ASSUME StartPoll, UNCHANGED tool PROVE Stored'
    BY <1>3, Durations DEF StartPoll, PollHeartbeat, AuthorityLost, SentHeartbeat
  <1>4. ASSUME RequestLease, UNCHANGED tool PROVE Stored'
    BY <1>4, Durations DEF RequestLease, Goto
  <1>5. ASSUME LeaseAnswered, UNCHANGED tool PROVE Stored'
    BY <1>5, Durations DEF LeaseAnswered, Goto, Record, Release
  <1>6. ASSUME StartedAnswered, UNCHANGED tool PROVE Stored'
    BY <1>6, Durations DEF StartedAnswered, Goto, Forget, Awaited, Release
  <1>7. ASSUME CompleteAnswered, UNCHANGED tool PROVE Stored'
    BY <1>7, Durations DEF CompleteAnswered, Goto, Forget, Awaited, Release
  <1>8. ASSUME RequestBroken, UNCHANGED tool PROVE Stored'
    BY <1>8, Durations DEF RequestBroken, Release, Awaited
  <1>9. ASSUME Prepare, UNCHANGED tool PROVE Stored'
    BY <1>9, Durations DEF Prepare, Kept, Goto, Send, Record
  <1>10. ASSUME CannotPrepare, UNCHANGED tool PROVE Stored'
    BY <1>10, Durations DEF CannotPrepare, Kept, Goto, Send, Record
  <1>11. ASSUME BeforeWork, UNCHANGED tool PROVE Stored'
    BY <1>11, Durations DEF BeforeWork, Kept, Goto, Send, Record
  <1>12. ASSUME Spawn, UNCHANGED tool PROVE Stored'
    BY <1>12, Durations DEF Spawn, Spawnable, AuthorityLost, Goto
  <1>13. ASSUME WorkSettled, UNCHANGED tool PROVE Stored'
    BY <1>13, Durations DEF WorkSettled, Settled, Goto
  <1>14. ASSUME AfterWork, UNCHANGED tool PROVE Stored'
    BY <1>14, Durations DEF AfterWork, Kept, Goto, StopNative, Cancelled, Send, Record
  <1>15. ASSUME AfterConflict, UNCHANGED tool PROVE Stored'
    BY <1>15, Durations DEF AfterConflict, Kept, Goto, StopNative, Cancelled
  <1>16. ASSUME ConflictUnexplained, UNCHANGED tool PROVE Stored'
    BY <1>16, Durations DEF ConflictUnexplained, Release
  <1>17. ASSUME NativeStopped, UNCHANGED tool PROVE Stored'
    BY <1>17, Durations DEF NativeStopped, Kept, Goto, Send, Record, CleanedKind, Keeps
  <1>18. ASSUME Published, UNCHANGED tool PROVE Stored'
    <2>1. PICK e \in Evidence :
            /\ pub' = [pub EXCEPT ![me] = e]
            /\ \/ pc' = "stopping"
               \/ \E kind \in TerminalKinds : Send(kind) /\ (kind = "succeeded" => Whole(e))
      BY <1>18, PublishedDoes
    <2>2. pub'[me'] = e
      BY <1>18, <2>1, PublishedDoes, Frames
    <2>3. QED
      BY <2>1, <2>2 DEF Send
  <1>19. ASSUME PublicationFailed, UNCHANGED tool PROVE Stored'
    BY <1>19, Durations DEF PublicationFailed, Kept, Goto, Send, Record, UnpublishedKind
  <1>20. ASSUME Stop, UNCHANGED tool PROVE Stored'
    BY <1>20, Durations DEF Stop
  <1>21. ASSUME Crash, UNCHANGED tool PROVE Stored'
    BY <1>21, Durations DEF Crash, Awaited
  <1>22. ASSUME Restart, UNCHANGED tool PROVE Stored'
    BY <1>22, Durations DEF Restart
  <1>23. ASSUME (\E r \in stray : ServeStray(r)) \/ ServeHeartbeat \/ (\E n \in Runs :
          OperatorCancel(n)) \/ RevokeRunner \/ HeartbeatTimer \/ HeartbeatAnswered \/
          HeartbeatRefused \/ HeartbeatUnanswered \/ FenceCheck \/ Escalate \/ WorkEnds \/ (\E n
          \in Runs : DescendantsEnd(n)) \/ Tick, UNCHANGED tool PROVE Stored'
    BY <1>23, Frames
  <1>24. ASSUME UNCHANGED vars PROVE Stored'
    BY <1>24 DEF vars
  <1>25. QED
    BY <1>1, <1>2, <1>3, <1>4, <1>5, <1>6, <1>7, <1>8, <1>9, <1>10, <1>11, <1>12, <1>13,
        <1>14, <1>15, <1>16, <1>17, <1>18, <1>19, <1>20, <1>21, <1>22, <1>23, <1>24 DEF Next,
        ControlPlane, Runner, Environment

\* What a heartbeat in flight can do to the two deadlines: the control plane
\* extends its own before the runner extends its own from the time it sent.
LEMMA BeatsStep ==
    ASSUME Base, RunLive, Strays, Beats, Time, [Next]_vars
    PROVE  Beats'
  <1> USE DEF runnerVars, procVars, srvVars, Base, TypeOK, ReqPlaces, MePlaces, Beats, Engaged, Heartbeats, NoHeartbeat, NoRequest, Exchanges
  <1>1. ASSUME Serve, UNCHANGED tool PROVE Beats'
    BY <1>1, Durations DEF Serve, Apply, After, Acceptable, Authority, Answer, Awaited
  <1>2. ASSUME ServeLease, UNCHANGED tool PROVE Beats'
    BY <1>2, Durations DEF ServeLease
  <1>3. ASSUME NEW r \in stray, ServeStray(r), UNCHANGED tool PROVE Beats'
    <2>1. r.run # me /\ UNCHANGED <<hb, trust, me, pc, req>>
      BY <1>3 DEF ServeStray, Strays
    <2>2. left' = left \/ left' = [left EXCEPT ![r.run] = 0]
      BY <1>3 DEF ServeStray, Apply
    <2>3. QED
      BY <2>1, <2>2, Durations
  <1>4. ASSUME ServeHeartbeat, UNCHANGED tool PROVE Beats'
    <2>1. UNCHANGED <<trust, me, pc, req>> /\ me \in Runs /\ hb.pending
      BY <1>4 DEF ServeHeartbeat
    <2>2. CASE Authority(me)
      <3>1. PICK f \in {hb.flight, "cancel", "ok"} :
              /\ hb' = [hb EXCEPT !.wire = FALSE, !.ahead = TRUE, !.flight = f]
              /\ hb.flight # "sent" => f = hb.flight
              /\ hb.flight = "sent" => f # "sent"
        BY <1>4, <2>2 DEF ServeHeartbeat
      <3>2. hb.ahead \/ left'[me] = LeaseTicks
        BY <1>4, <2>1, <2>2 DEF ServeHeartbeat
      <3>3. hb.ahead => left' = left
        BY <1>4, <2>2 DEF ServeHeartbeat
      <3>4. QED
        BY <2>1, <3>1, <3>2, <3>3, Durations
    <2>3. CASE ~Authority(me)
      <3>1. PICK f \in {hb.flight, "refused"} :
              /\ hb' = [hb EXCEPT !.wire = FALSE, !.flight = f]
        BY <1>4, <2>3 DEF ServeHeartbeat
      <3>2. left' = left
        BY <1>4, <2>3 DEF ServeHeartbeat
      <3>3. QED
        BY <2>1, <3>1, <3>2
    <2>4. QED
      BY <2>2, <2>3
  <1>5. ASSUME HeartbeatTimer, UNCHANGED tool PROVE Beats'
    <2>1. UNCHANGED <<trust, me, pc, req, left>>
      BY <1>5, Frames
    <2>2. PollHeartbeat
      BY <1>5 DEF HeartbeatTimer
    <2>3. QED
      BY <2>1, <2>2, PollDoes, Durations
  <1>6. ASSUME HeartbeatAnswered, UNCHANGED tool PROVE Beats'
    <2>1. UNCHANGED <<me, pc, req, left>> /\ hb.flight \in {"ok", "cancel"}
      BY <1>6 DEF HeartbeatAnswered
    <2>2. CASE hb.failed \/ trust <= Margin
      <3>1. hb' = [hb EXCEPT !.flight = "none", !.failed = TRUE] /\ trust' = trust
        BY <1>6, <2>2 DEF HeartbeatAnswered
      <3>2. QED
        BY <2>1, <3>1
    <2>3. CASE ~(hb.failed \/ trust <= Margin)
      <3>1. hb' = [hb EXCEPT !.flight = "none", !.pending = FALSE, !.age = 0, !.ahead = FALSE]
        BY <1>6, <2>3 DEF HeartbeatAnswered
      <3>2. QED
        BY <2>1, <3>1
    <2>4. QED
      BY <2>2, <2>3
  <1>7. ASSUME HeartbeatRefused, UNCHANGED tool PROVE Beats'
    BY <1>7, Durations DEF HeartbeatRefused
  <1>8. ASSUME HeartbeatUnanswered, UNCHANGED tool PROVE Beats'
    BY <1>8, Durations DEF HeartbeatUnanswered
  <1>9. ASSUME StartPoll, UNCHANGED tool PROVE Beats'
    <2>1. UNCHANGED <<trust, me, req, left>> /\ pc = "polling" /\ pc' = "awaiting"
      BY <1>9 DEF StartPoll
    <2>2. PollHeartbeat
      BY <1>9 DEF StartPoll
    <2>3. QED
      BY <2>1, <2>2, PollDoes, Durations
  <1>10. ASSUME RequestLease, UNCHANGED tool PROVE Beats'
    BY <1>10, Durations DEF RequestLease, Goto
  <1>11. ASSUME LeaseAnswered, UNCHANGED tool PROVE Beats'
    BY <1>11, Durations DEF LeaseAnswered, Goto, Record, Release
  <1>12. ASSUME StartedAnswered, UNCHANGED tool PROVE Beats'
    BY <1>12, Durations DEF StartedAnswered, Goto, Forget, Awaited, Release
  <1>13. ASSUME CompleteAnswered, UNCHANGED tool PROVE Beats'
    BY <1>13, Durations DEF CompleteAnswered, Goto, Forget, Awaited, Release
  <1>14. ASSUME RequestBroken, UNCHANGED tool PROVE Beats'
    BY <1>14, Durations DEF RequestBroken, Release, Awaited
  <1>15. ASSUME Prepare, UNCHANGED tool PROVE Beats'
    BY <1>15, Durations DEF Prepare, Kept, Goto, Send, Record
  <1>16. ASSUME CannotPrepare, UNCHANGED tool PROVE Beats'
    BY <1>16, Durations DEF CannotPrepare, Kept, Goto, Send, Record
  <1>17. ASSUME BeforeWork, UNCHANGED tool PROVE Beats'
    BY <1>17, Durations DEF BeforeWork, Kept, Goto, Send, Record
  <1>18. ASSUME Spawn, UNCHANGED tool PROVE Beats'
    BY <1>18, Durations DEF Spawn, Spawnable, AuthorityLost, Goto
  <1>19. ASSUME WorkSettled, UNCHANGED tool PROVE Beats'
    BY <1>19, Durations DEF WorkSettled, Settled, Goto
  <1>20. ASSUME AfterWork, UNCHANGED tool PROVE Beats'
    BY <1>20, Durations DEF AfterWork, Kept, Goto, StopNative, Cancelled, Send, Record
  <1>21. ASSUME AfterConflict, UNCHANGED tool PROVE Beats'
    BY <1>21, Durations DEF AfterConflict, Kept, Goto, StopNative, Cancelled
  <1>22. ASSUME ConflictUnexplained, UNCHANGED tool PROVE Beats'
    BY <1>22, Durations DEF ConflictUnexplained, Release
  <1>23. ASSUME NativeStopped, UNCHANGED tool PROVE Beats'
    BY <1>23, Durations DEF NativeStopped, Kept, Goto, Send, Record, CleanedKind, Keeps
  <1>24. ASSUME Published, UNCHANGED tool PROVE Beats'
    BY <1>24, Durations DEF Published, Kept, Goto, Send, Record, CleanedKind, Label,
        Cancelled, PublishedKind, StopNative
  <1>25. ASSUME PublicationFailed, UNCHANGED tool PROVE Beats'
    BY <1>25, Durations DEF PublicationFailed, Kept, Goto, Send, Record, UnpublishedKind
  <1>26. ASSUME Stop, UNCHANGED tool PROVE Beats'
    BY <1>26, Durations DEF Stop
  <1>27. ASSUME Crash, UNCHANGED tool PROVE Beats'
    BY <1>27, Durations DEF Crash, Awaited
  <1>28. ASSUME Restart, UNCHANGED tool PROVE Beats'
    BY <1>28, Durations DEF Restart
  <1>29. ASSUME Tick, UNCHANGED tool PROVE Beats'
    BY <1>29, Durations DEF Tick, TimerDue, Less
  <1>30. ASSUME (\E n \in Runs : OperatorCancel(n)) \/ RevokeRunner \/ FenceCheck \/
          Escalate \/ WorkEnds \/ (\E n \in Runs : DescendantsEnd(n)), UNCHANGED tool PROVE
          Beats'
    BY <1>30, Frames
  <1>31. ASSUME UNCHANGED vars PROVE Beats'
    BY <1>31 DEF vars
  <1>32. QED
    BY <1>1, <1>2, <1>3, <1>4, <1>5, <1>6, <1>7, <1>8, <1>9, <1>10, <1>11, <1>12, <1>13,
        <1>14, <1>15, <1>16, <1>17, <1>18, <1>19, <1>20, <1>21, <1>22, <1>23, <1>24, <1>25,
        <1>26, <1>27, <1>28, <1>29, <1>30, <1>31 DEF Next, ControlPlane, Runner, Environment

\* The runner's deadline is never later than the lease, and a child that can
\* be killed is killed while the margin lasts.
LEMMA TimeStep ==
    ASSUME Base, RunLive, Strays, Beats, Time, [Next]_vars
    PROVE  Time'
  <1> USE DEF runnerVars, procVars, srvVars, Base, TypeOK, ReqPlaces, MePlaces, WorkPlaces, Time, Engaged, Works, NoWork, NoRequest, Exchanges
  <1>1. ASSUME Serve, UNCHANGED tool PROVE Time'
    BY <1>1, Durations DEF Serve, Apply, After, Acceptable, Authority, Answer, Awaited
  <1>2. ASSUME ServeLease, UNCHANGED tool PROVE Time'
    BY <1>2, Durations DEF ServeLease
  <1>3. ASSUME NEW r \in stray, ServeStray(r), UNCHANGED tool PROVE Time'
    <2>1. r.run # me /\ UNCHANGED <<trust, me, pc, req, proc, stuck>>
      BY <1>3 DEF ServeStray, Strays
    <2>2. left' = left \/ left' = [left EXCEPT ![r.run] = 0]
      BY <1>3 DEF ServeStray, Apply
    <2>3. QED
      BY <2>1, <2>2, Durations
  <1>4. ASSUME ServeHeartbeat, UNCHANGED tool PROVE Time'
    BY <1>4, Durations DEF ServeHeartbeat, Authority
  <1>5. ASSUME HeartbeatAnswered, UNCHANGED tool PROVE Time'
    <2>1. UNCHANGED <<me, pc, req, left, proc, stuck>> /\ hb.flight \in {"ok", "cancel"}
      BY <1>5 DEF HeartbeatAnswered
    <2>2. /\ trust' = trust \/ trust' = LeaseTicks - hb.age
          /\ hb.age \in 0..LeaseTicks /\ trust + hb.age <= LeaseTicks
          /\ Engaged => LeaseTicks <= left[me] + hb.age
      BY <1>5 DEF HeartbeatAnswered, Beats, Heartbeats, Engaged
    <2>3. trust <= trust' /\ trust' \in Nat
      BY <2>2, Durations
    <2>4. Engaged => trust' <= left'[me]
      BY <2>1, <2>2, Durations DEF Engaged
    <2>5. QED
      BY <2>1, <2>3, <2>4, Durations
  <1>6. ASSUME StartPoll, UNCHANGED tool PROVE Time'
    BY <1>6, Durations DEF StartPoll, PollHeartbeat, AuthorityLost, SentHeartbeat
  <1>7. ASSUME RequestLease, UNCHANGED tool PROVE Time'
    BY <1>7, Durations DEF RequestLease, Goto
  <1>8. ASSUME LeaseAnswered, UNCHANGED tool PROVE Time'
    BY <1>8, Durations DEF LeaseAnswered, Goto, Record, Release
  <1>9. ASSUME StartedAnswered, UNCHANGED tool PROVE Time'
    BY <1>9, Durations DEF StartedAnswered, Goto, Forget, Awaited, Release
  <1>10. ASSUME CompleteAnswered, UNCHANGED tool PROVE Time'
    BY <1>10, Durations DEF CompleteAnswered, Goto, Forget, Awaited, Release
  <1>11. ASSUME RequestBroken, UNCHANGED tool PROVE Time'
    BY <1>11, Durations DEF RequestBroken, Release, Awaited
  <1>12. ASSUME Prepare, UNCHANGED tool PROVE Time'
    BY <1>12, Durations DEF Prepare, Kept, Goto, Send, Record
  <1>13. ASSUME CannotPrepare, UNCHANGED tool PROVE Time'
    BY <1>13, Durations DEF CannotPrepare, Kept, Goto, Send, Record
  <1>14. ASSUME BeforeWork, UNCHANGED tool PROVE Time'
    BY <1>14, Durations DEF BeforeWork, Kept, Goto, Send, Record
  <1>15. ASSUME Spawn, UNCHANGED tool PROVE Time'
    <2>1. UNCHANGED <<trust, me, left, req>> /\ pc' = "working" /\ stuck \subseteq stuck'
      BY <1>15 DEF Spawn, Goto
    <2>2. proc'.main = "running" => proc'.kill = "no" /\ proc'.due = CheckTicks /\ trust > Margin
      <3>1. CASE Spawnable
        <4>1. trust > Margin
          BY <3>1, Durations DEF Spawnable, AuthorityLost
        <4>2. QED
          BY <1>15, <3>1, <4>1 DEF Spawn
      <3>2. CASE ~Spawnable
        BY <1>15, <3>2 DEF Spawn
      <3>3. QED
        BY <3>1, <3>2
    <2>3. Engaged /\ pc # "completing"
      BY <1>15 DEF Spawn
    <2>4. QED
      BY <2>1, <2>2, <2>3, Durations
  <1>16. ASSUME FenceCheck, UNCHANGED tool PROVE Time'
    <2>1. UNCHANGED <<trust, me, left, req, pc, stuck>> /\ proc.main = "running" /\ proc.kill = "no"
          /\ proc.due = 0
      BY <1>16 DEF FenceCheck
    <2>2. \/ proc'.main = "closed"
          \/ proc' = [Cancelled(proc) EXCEPT !.due = 0]
          \/ proc' = [proc EXCEPT !.due = CheckTicks] /\ trust > Margin
      <3>1. AuthorityLost \/ trust > Margin
        BY Durations DEF AuthorityLost
      <3>2. CASE cancelSeen \/ AuthorityLost
        BY <1>16, <3>2 DEF FenceCheck
      <3>3. CASE ~(cancelSeen \/ AuthorityLost)
        BY <1>16, <3>1, <3>3 DEF FenceCheck
      <3>4. QED
        BY <3>2, <3>3
    <2>3. CASE proc' = [Cancelled(proc) EXCEPT !.due = 0]
      <3>1. proc'.kill = "term" /\ proc'.timer = TermTicks
        BY <2>1, <2>3, CancelledKeeps, CancelledType
      <3>2. QED
        BY <2>1, <3>1, Durations
    <2>4. QED
      BY <2>1, <2>2, <2>3, Durations
  <1>17. ASSUME Escalate, UNCHANGED tool PROVE Time'
    <2>1. UNCHANGED <<trust, me, left, req, pc, stuck>>
      BY <1>17, Frames
    <2>2. QED
      BY <1>17, <2>1, EscalateDoes
  <1>18. ASSUME WorkSettled, UNCHANGED tool PROVE Time'
    BY <1>18, Durations DEF WorkSettled, Settled, Goto
  <1>19. ASSUME AfterWork, UNCHANGED tool PROVE Time'
    BY <1>19, Durations DEF AfterWork, Kept, Goto, StopNative, Cancelled, Send, Record
  <1>20. ASSUME AfterConflict, UNCHANGED tool PROVE Time'
    BY <1>20, Durations DEF AfterConflict, Kept, Goto, StopNative, Cancelled
  <1>21. ASSUME ConflictUnexplained, UNCHANGED tool PROVE Time'
    BY <1>21, Durations DEF ConflictUnexplained, Release
  <1>22. ASSUME NativeStopped, UNCHANGED tool PROVE Time'
    BY <1>22, Durations DEF NativeStopped, Kept, Goto, Send, Record, CleanedKind, Keeps
  <1>23. ASSUME Published, UNCHANGED tool PROVE Time'
    BY <1>23, Durations DEF Published, Kept, Goto, Send, Record, CleanedKind, Label,
        Cancelled, PublishedKind, StopNative
  <1>24. ASSUME PublicationFailed, UNCHANGED tool PROVE Time'
    BY <1>24, Durations DEF PublicationFailed, Kept, Goto, Send, Record, UnpublishedKind
  <1>25. ASSUME WorkEnds, UNCHANGED tool PROVE Time'
    BY <1>25, Durations DEF WorkEnds
  <1>26. ASSUME Stop, UNCHANGED tool PROVE Time'
    BY <1>26, Durations DEF Stop
  <1>27. ASSUME Crash, UNCHANGED tool PROVE Time'
    BY <1>27, Durations DEF Crash, Awaited
  <1>28. ASSUME Restart, UNCHANGED tool PROVE Time'
    BY <1>28, Durations DEF Restart
  <1>29. ASSUME Tick, UNCHANGED tool PROVE Time'
    <2>1. /\ UNCHANGED <<me, req, pc, stuck>> /\ trust' = Less(trust)
          /\ proc'.main = proc.main /\ proc'.kill = proc.kill
          /\ proc'.timer = Less(proc.timer) /\ proc'.due = Less(proc.due)
      BY <1>29 DEF Tick
    <2>2. me # 0 => left'[me] = Less(left[me])
      BY <1>29 DEF Tick
    <2>3. /\ proc.main = "running" /\ proc.kill = "no" => proc.due # 0
          /\ proc.kill = "term" => proc.timer # 0
      BY <1>29 DEF Tick, TimerDue
    <2>4. Engaged => trust' <= left'[me]
      BY <2>1, <2>2, Durations DEF Less
    <2>5. QED
      BY <2>1, <2>3, <2>4, Durations DEF Less
  <1>30. ASSUME (\E n \in Runs : OperatorCancel(n)) \/ RevokeRunner \/ HeartbeatTimer
          \/ HeartbeatRefused \/ HeartbeatUnanswered \/ (\E n \in Runs : DescendantsEnd(n)),
          UNCHANGED tool PROVE Time'
    BY <1>30, Frames
  <1>31. ASSUME UNCHANGED vars PROVE Time'
    BY <1>31 DEF vars
  <1>32. QED
    BY <1>1, <1>2, <1>3, <1>4, <1>5, <1>6, <1>7, <1>8, <1>9, <1>10, <1>11, <1>12, <1>13,
        <1>14, <1>15, <1>16, <1>17, <1>18, <1>19, <1>20, <1>21, <1>22, <1>23, <1>24, <1>25,
        <1>26, <1>27, <1>28, <1>29, <1>30, <1>31 DEF Next, ControlPlane, Runner, Environment

-----------------------------------------------------------------------------
LEMMA InitIInv == Init => IInv
  <1> SUFFICES ASSUME Init PROVE IInv
    OBVIOUS
  <1> USE DEF Init
  <1>1. TypeOK
    BY Ranges, Constants DEF TypeOK, RunStates, Evidence, NoEvidence
  <1>2. ReqPlaces /\ MePlaces /\ WorkPlaces
    BY DEF ReqPlaces, MePlaces, WorkPlaces, NoRequest, NoWork
  <1>3. RunLive /\ Strays /\ Quiet /\ Stored
    BY DEF RunLive, Engaged, Strays, Quiet, Stored, NoRequest, NoWork
  <1>4. Beats /\ Time
    BY DEF Beats, Time, Engaged, NoHeartbeat, NoWork
  <1>5. UnansweredRequestIsRecorded /\ SucceededMeansPublished /\ CancelledMeansStopped
    BY DEF UnansweredRequestIsRecorded, SucceededMeansPublished, CancelledMeansStopped, NoRequest
  <1>6. QED
    BY <1>1, <1>2, <1>3, <1>4, <1>5 DEF IInv, Base

LEMMA StepIInv == IInv /\ [Next]_vars => IInv'
  <1> SUFFICES ASSUME IInv, [Next]_vars PROVE IInv'
    OBVIOUS
  <1>1. Base'
    BY TypeStep, ReqStep, MeStep, WorkStep DEF IInv, Base
  <1>2. RunLive' /\ Strays' /\ Quiet' /\ Stored'
    BY LiveStep, StrayStep, QuietStep, StoredStep DEF IInv
  <1>3. Beats' /\ Time'
    BY BeatsStep, TimeStep DEF IInv
  <1>4. UnansweredRequestIsRecorded' /\ SucceededMeansPublished' /\ CancelledMeansStopped'
    BY RecordedStep, SucceededStep, CancelledStep DEF IInv
  <1>5. QED
    BY <1>1, <1>2, <1>3, <1>4 DEF IInv

\* IInv holds in every reachable state of the runner and the control plane.
THEOREM Invariance == Spec => []IInv
  <1>1. Init => IInv
    BY InitIInv
  <1>2. IInv /\ [Next]_vars => IInv'
    BY StepIInv
  <1>3. QED
    BY <1>1, <1>2, PTL DEF Spec

\* The variables keep their types: what is awaited, astray or recorded always
\* names a Run that was leased.
THEOREM Typed == Spec => []TypeOK
  <1>1. IInv => TypeOK
    BY DEF IInv, Base
  <1>2. QED
    BY <1>1, Invariance, PTL

\* The seven seconds of isAuthorityLost are enough: with a fence check and a
\* SIGTERM that together take less than the margin, a child that signals can
\* reach, and every probe, is gone before the lease of its Run runs out, with
\* any heartbeat lost, late or answered twice.
THEOREM NoWorkPastLeaseHolds == Spec => []NoWorkPastLease
  <1>1. IInv => NoWorkPastLease
    <2> SUFFICES ASSUME IInv, proc.main = "running", me \notin stuck PROVE left[me] > 0
      BY DEF NoWorkPastLease
    <2>1. /\ pc = "working" /\ me \in Runs
          /\ proc.kill \in {"no", "term"}
          /\ proc.timer \in Nat /\ proc.due \in Nat /\ trust \in Nat /\ left[me] \in Nat
      BY Durations DEF IInv, Base, TypeOK, Works, WorkPlaces, MePlaces, Quiet, Time
    <2>2. trust <= left[me]
      BY <2>1, Durations DEF IInv, Time, Engaged
    <2>3. trust > 0
      BY <2>1, Durations DEF IInv, Time
    <2>4. QED
      BY <2>1, <2>2, <2>3
  <1>2. QED
    BY <1>1, Invariance, PTL

\* A Run that the control plane shows as cancelled has no process of it left,
\* whichever of the runner's reports, awaited or astray, made it so.
THEOREM CancelledMeansStoppedHolds == Spec => []CancelledMeansStopped
  <1>1. IInv => CancelledMeansStopped
    BY DEF IInv
  <1>2. QED
    BY <1>1, Invariance, PTL

\* A Run that the control plane shows as succeeded has all of its evidence.
THEOREM SucceededMeansPublishedHolds == Spec => []SucceededMeansPublished
  <1>1. IInv => SucceededMeansPublished
    BY DEF IInv
  <1>2. QED
    BY <1>1, Invariance, PTL

\* No request whose effect the runner does not know is without its key in the
\* outbox, with crashes at any point.
THEOREM UnansweredRequestIsRecordedHolds == Spec => []UnansweredRequestIsRecorded
  <1>1. IInv => UnansweredRequestIsRecorded
    BY DEF IInv
  <1>2. QED
    BY <1>1, Invariance, PTL
=============================================================================
