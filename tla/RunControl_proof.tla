-------------------------- MODULE RunControl_proof --------------------------
(***************************************************************************)
(* Proofs about RunControl that hold for every value of its constants, in  *)
(* four parts.  Types: what writing a row does, and TypeOK.  Agreement: the*)
(* Action row, the latest Run and its leases say the same.  Steps: what a  *)
(* step may do to a Run, its leases and its events, and what follows from  *)
(* it: leases that were lost stay lost, decisions that were taken stand,   *)
(* and the events of a fence are numbered without a gap.  Refinement: a    *)
(* step writes the Action row, its latest Run and at most one event, and   *)
(* each such write is a step of RunLifecycle or none.                      *)
(***************************************************************************)
EXTENDS RunControlRefinement, TLAPS

-----------------------------------------------------------------------------
(* Writing one row: what the table holds afterwards, and its type.         *)

LEMMA WriteActionFacts ==
    ASSUME TypeOK, NEW a \in Actions, NEW row \in ActionRow, WriteAction(a, row)
    PROVE  /\ action' \in [Actions -> ActionRow]
           /\ \A b \in Actions : action'[b] = IF b = a THEN row ELSE action[b]
  BY DEF WriteAction, TypeOK

LEMMA WriteRunFacts ==
    ASSUME TypeOK, NEW a \in Actions, NEW n \in Attempts, NEW row \in RunRow,
           WriteRun(a, n, row)
    PROVE  /\ run' \in [Actions -> [Attempts -> RunRow]]
           /\ \A b \in Actions, m \in Attempts :
                run'[b][m] = IF b = a /\ m = n THEN row ELSE run[b][m]
  <1>1. run \in [Actions -> [Attempts -> RunRow]] /\ run[a] \in [Attempts -> RunRow]
    BY DEF TypeOK
  <1>2. run' = [run EXCEPT ![a] = [run[a] EXCEPT ![n] = row]]
    BY DEF WriteRun
  <1>3. [run[a] EXCEPT ![n] = row] \in [Attempts -> RunRow]
    BY <1>1
  <1>4. QED
    BY <1>1, <1>2, <1>3

LEMMA WriteLeaseFacts ==
    ASSUME TypeOK, NEW a \in Actions, NEW n \in Attempts, NEW f \in Fences,
           NEW row \in LeaseRow, WriteLease(a, n, f, row)
    PROVE  /\ lease' \in [Actions -> [Attempts -> [Fences -> LeaseRow]]]
           /\ \A b \in Actions, m \in Attempts, g \in Fences :
                lease'[b][m][g] = IF b = a /\ m = n /\ g = f THEN row ELSE lease[b][m][g]
  <1> DEFINE inner == [lease[a][n] EXCEPT ![f] = row]
             outer == [lease[a] EXCEPT ![n] = inner]
  <1>1. /\ lease \in [Actions -> [Attempts -> [Fences -> LeaseRow]]]
        /\ lease[a] \in [Attempts -> [Fences -> LeaseRow]]
        /\ lease[a][n] \in [Fences -> LeaseRow]
    BY DEF TypeOK
  <1>2. lease' = [lease EXCEPT ![a] = outer]
    BY DEF WriteLease
  <1>3. /\ inner \in [Fences -> LeaseRow]
        /\ \A g \in Fences : inner[g] = IF g = f THEN row ELSE lease[a][n][g]
    BY <1>1
  <1> HIDE DEF inner
  <1>4. /\ outer \in [Attempts -> [Fences -> LeaseRow]]
        /\ \A m \in Attempts : outer[m] = IF m = n THEN inner ELSE lease[a][m]
    BY <1>1, <1>3
  <1> HIDE DEF outer
  <1>5. /\ lease' \in [Actions -> [Attempts -> [Fences -> LeaseRow]]]
        /\ \A b \in Actions : lease'[b] = IF b = a THEN outer ELSE lease[b]
    BY <1>1, <1>2, <1>4
  <1>6. QED
    BY <1>3, <1>4, <1>5

LEMMA InsertEventFacts ==
    ASSUME TypeOK, NEW a \in Actions, NEW n \in Attempts, NEW row \in EventRow,
           InsertEvent(a, n, row)
    PROVE  /\ events' \in [Actions -> [Attempts -> SUBSET EventRow]]
           /\ \A b \in Actions, m \in Attempts :
                events'[b][m] = IF b = a /\ m = n THEN events[a][n] \cup {row} ELSE events[b][m]
  <1> DEFINE inner == [events[a] EXCEPT ![n] = events[a][n] \cup {row}]
  <1>1. /\ events \in [Actions -> [Attempts -> SUBSET EventRow]]
        /\ events[a] \in [Attempts -> SUBSET EventRow]
        /\ events[a][n] \in SUBSET EventRow
    BY DEF TypeOK
  <1>2. events' = [events EXCEPT ![a] = inner]
    BY DEF InsertEvent
  <1>3. events[a][n] \cup {row} \in SUBSET EventRow
    BY <1>1
  <1>4. /\ inner \in [Attempts -> SUBSET EventRow]
        /\ \A m \in Attempts : inner[m] = IF m = n THEN events[a][n] \cup {row} ELSE events[a][m]
    BY <1>1, <1>3
  <1> HIDE DEF inner
  <1>5. QED
    BY <1>1, <1>2, <1>4

-----------------------------------------------------------------------------
(* Row types.                                                              *)

LEMMA RowTypes ==
    ASSUME TypeOK
    PROVE  /\ NoAction \in ActionRow /\ NoRun \in RunRow /\ NewRun \in RunRow
           /\ NoLease \in LeaseRow
           /\ \A a \in Actions : action[a] \in ActionRow /\ attempt[a] \in 0..MaxAttempt
           /\ \A a \in Actions, n \in Attempts : run[a][n] \in RunRow
           /\ \A a \in Actions, n \in Attempts, f \in Fences : lease[a][n][f] \in LeaseRow
  <1>1. NoAction \in ActionRow
    BY DEF NoAction, ActionRow, ActionStates, TerminalKinds
  <1>2. NoRun \in RunRow /\ NewRun \in RunRow
    BY ConstantsAssumption DEF NoRun, NewRun, RunRow, RunStates, Reasons, TerminalKinds
  <1>3. NoLease \in LeaseRow
    BY ConstantsAssumption DEF NoLease, LeaseRow
  <1>4. QED
    BY <1>1, <1>2, <1>3 DEF TypeOK

\* The rows the operations derive from the rows they read.
LEMMA DerivedActionRows ==
    ASSUME NEW act \in ActionRow, NEW st \in ActionStates, NEW b \in BOOLEAN
    PROVE  /\ [act EXCEPT !.state = st] \in ActionRow
           /\ [act EXCEPT !.state = "queued", !.acknowledged = b] \in ActionRow
           /\ [act EXCEPT !.state = "paused_for_warning", !.pending = TRUE,
                          !.interactions = 1] \in ActionRow
           /\ [act EXCEPT !.state = "queued", !.pending = FALSE,
                          !.acknowledged = TRUE] \in ActionRow
           /\ [act EXCEPT !.state = "cancelled", !.pending = FALSE] \in ActionRow
           /\ CancelRequested(act) \in ActionRow
           /\ Settled(act, st) \in ActionRow
           /\ [act EXCEPT !.acknowledged = TRUE] \in ActionRow
           /\ [act EXCEPT !.state = "active_paused_for_warning", !.pending = TRUE,
                          !.interactions = 1] \in ActionRow
           /\ [act EXCEPT !.state = "active", !.pending = FALSE, !.acknowledged = TRUE,
                          !.resumeRequested = TRUE] \in ActionRow
           /\ Bumped(act, st, "running") \in ActionRow
           /\ Bumped(act, st, "cancel_requested") \in ActionRow
  <1>1. [act EXCEPT !.state = st] \in ActionRow
    BY DEF ActionRow
  <1>2. [act EXCEPT !.state = "queued", !.acknowledged = b] \in ActionRow
    BY DEF ActionRow, ActionStates
  <1>3. [act EXCEPT !.state = "paused_for_warning", !.pending = TRUE,
                !.interactions = 1] \in ActionRow
    BY DEF ActionRow, ActionStates
  <1>4. [act EXCEPT !.state = "queued", !.pending = FALSE,
                !.acknowledged = TRUE] \in ActionRow
    BY DEF ActionRow, ActionStates
  <1>5. [act EXCEPT !.state = "cancelled", !.pending = FALSE] \in ActionRow
    BY DEF ActionRow, ActionStates, TerminalKinds
  <1>6. CancelRequested(act) \in ActionRow
    BY DEF ActionRow, CancelRequested
  <1>7. Settled(act, st) \in ActionRow
    BY DEF ActionRow, Settled
  <1>8. [act EXCEPT !.acknowledged = TRUE] \in ActionRow
    BY DEF ActionRow
  <1>9. [act EXCEPT !.state = "active_paused_for_warning", !.pending = TRUE,
                !.interactions = 1] \in ActionRow
    BY DEF ActionRow, ActionStates
  <1>10. [act EXCEPT !.state = "active", !.pending = FALSE, !.acknowledged = TRUE,
                !.resumeRequested = TRUE] \in ActionRow
    BY DEF ActionRow, ActionStates
  <1>11. Bumped(act, st, "running") \in ActionRow
    BY DEF ActionRow, Bumped
  <1>12. Bumped(act, st, "cancel_requested") \in ActionRow
    BY DEF ActionRow, Bumped
  <1>13. QED
    BY <1>1, <1>2, <1>3, <1>4, <1>5, <1>6, <1>7, <1>8, <1>9, <1>10, <1>11, <1>12

LEMMA DerivedRunRows ==
    ASSUME NEW r \in RunRow, NEW st \in RunStates, NEW k \in TerminalKinds,
           NEW f \in Fences, NEW why \in Reasons
    PROVE  /\ [r EXCEPT !.state = st] \in RunRow
           /\ [r EXCEPT !.state = st, !.reason = why] \in RunRow
           /\ [r EXCEPT !.state = st, !.lease = 0] \in RunRow
           /\ [r EXCEPT !.state = st, !.lease = 0, !.reason = why] \in RunRow
           /\ [r EXCEPT !.state = st, !.fence = f, !.lease = f] \in RunRow
           /\ Completed(r, k) \in RunRow
  <1>0. 0 \in 0..MaxFence /\ f \in 0..MaxFence /\ k \in RunStates
    BY ConstantsAssumption DEF Fences, RunStates
  <1>1. [r EXCEPT !.state = st] \in RunRow
    BY <1>0 DEF RunRow
  <1>2. [r EXCEPT !.state = st, !.reason = why] \in RunRow
    BY <1>0 DEF RunRow
  <1>3. [r EXCEPT !.state = st, !.lease = 0] \in RunRow
    BY <1>0 DEF RunRow
  <1>4. [r EXCEPT !.state = st, !.lease = 0, !.reason = why] \in RunRow
    BY <1>0 DEF RunRow
  <1>5. [r EXCEPT !.state = st, !.fence = f, !.lease = f] \in RunRow
    BY <1>0 DEF RunRow
  <1>6. Completed(r, k) \in RunRow
    BY <1>0 DEF RunRow, Completed, Reasons
  <1>7. QED
    BY <1>1, <1>2, <1>3, <1>4, <1>5, <1>6

LEMMA DerivedLeaseRows ==
    ASSUME NEW l \in LeaseRow
    PROVE  /\ Dropped(l) \in LeaseRow
           /\ \A q \in 0..MaxEvent : /\ [l EXCEPT !.event = q] \in LeaseRow
                                     /\ [Dropped(l) EXCEPT !.event = q] \in LeaseRow
           /\ \A q \in 0..MaxHeartbeat :
                [l EXCEPT !.heartbeat = q, !.left = LeaseTicks] \in LeaseRow
           /\ l.left > 0 => [l EXCEPT !.left = @ - 1] \in LeaseRow
           /\ \A s \in Sessions :
                [session |-> s, left |-> LeaseTicks, heartbeat |-> 0, event |-> 0,
                 current |-> TRUE] \in LeaseRow
  <1>1. Dropped(l) \in LeaseRow
    BY ConstantsAssumption DEF LeaseRow, Dropped
  <1>2. \A q \in 0..MaxEvent : /\ [l EXCEPT !.event = q] \in LeaseRow
                           /\ [Dropped(l) EXCEPT !.event = q] \in LeaseRow
    BY ConstantsAssumption DEF LeaseRow, Dropped
  <1>3. \A q \in 0..MaxHeartbeat :
      [l EXCEPT !.heartbeat = q, !.left = LeaseTicks] \in LeaseRow
    <2>1. LeaseTicks \in 0..LeaseTicks
      BY ConstantsAssumption
    <2>2. QED
      BY <2>1 DEF LeaseRow
  <1>4. l.left > 0 => [l EXCEPT !.left = @ - 1] \in LeaseRow
    BY ConstantsAssumption DEF LeaseRow, Dropped
  <1>5. \A s \in Sessions :
      [session |-> s, left |-> LeaseTicks, heartbeat |-> 0, event |-> 0,
       current |-> TRUE] \in LeaseRow
    <2>1. LeaseTicks \in 0..LeaseTicks /\ 0 \in 0..MaxHeartbeat /\ 0 \in 0..MaxEvent
      BY ConstantsAssumption
    <2>2. QED
      BY <2>1 DEF LeaseRow
  <1>6. QED
    BY <1>1, <1>2, <1>3, <1>4, <1>5

-----------------------------------------------------------------------------
(* Type correctness.                                                       *)

LEMMA TypeAllocate ==
    ASSUME TypeOK, NEW a \in Actions, AllocateRun(a)
    PROVE  /\ attempt' \in [Actions -> 0..MaxAttempt]
           /\ run' \in [Actions -> [Attempts -> RunRow]]
           /\ older' \subseteq Actions \X Actions
  <1>1. attempt[a] \in Nat /\ attempt[a] + 1 \in Attempts /\ attempt[a] + 1 \in 0..MaxAttempt
    BY ConstantsAssumption DEF TypeOK, AllocateRun, Allocatable, Attempts
  <1>2. attempt' \in [Actions -> 0..MaxAttempt]
    BY <1>1 DEF TypeOK, AllocateRun
  <1>3. run' \in [Actions -> [Attempts -> RunRow]]
    BY <1>1, RowTypes, WriteRunFacts DEF AllocateRun
  <1>4. older' \subseteq Actions \X Actions
    BY DEF TypeOK, AllocateRun
  <1>5. QED
    BY <1>2, <1>3, <1>4

LEMMA TypeOperator ==
    ASSUME TypeOK, NEW a \in Actions, OperatorCommand(a)
    PROVE  TypeOK'
  <1>0. action[a] \in ActionRow /\ {"capability_error", "cancelled"} \subseteq ActionStates
    BY RowTypes DEF ActionStates, TerminalKinds
  <1>1. CASE PlanUnrepresentable(a)
    <2>1. action' \in [Actions -> ActionRow]
      BY <1>0, <1>1, DerivedActionRows, WriteActionFacts DEF PlanUnrepresentable
    <2>2. QED
      BY <1>1, <2>1 DEF PlanUnrepresentable, TypeOK
  <1>2. CASE \E acknowledged \in BOOLEAN : PlanQueued(a, acknowledged)
    <2> PICK acknowledged \in BOOLEAN : PlanQueued(a, acknowledged)
      BY <1>2
    <2>1. action' \in [Actions -> ActionRow]
      BY <1>0, DerivedActionRows, WriteActionFacts DEF PlanQueued
    <2>2. QED
      BY <2>1, TypeAllocate DEF PlanQueued, TypeOK
  <1>3. CASE PlanPaused(a)
    <2>1. action' \in [Actions -> ActionRow]
      BY <1>0, <1>3, DerivedActionRows, WriteActionFacts DEF PlanPaused
    <2>2. QED
      BY <1>3, <2>1 DEF PlanPaused, TypeOK
  <1>4. CASE ContinueAction(a)
    <2>1. action' \in [Actions -> ActionRow]
      BY <1>0, <1>4, DerivedActionRows, WriteActionFacts DEF ContinueAction
    <2>2. QED
      BY <1>4, <2>1, TypeAllocate DEF ContinueAction, TypeOK
  <1>5. CASE CancelPaused(a)
    <2>1. action' \in [Actions -> ActionRow]
      BY <1>0, <1>5, DerivedActionRows, WriteActionFacts DEF CancelPaused
    <2>2. QED
      BY <1>5, <2>1 DEF CancelPaused, TypeOK
  <1>6. CASE CancelQueued(a)
    <2>1. action' \in [Actions -> ActionRow]
      BY <1>0, <1>6, DerivedActionRows, WriteActionFacts DEF CancelQueued
    <2>2. CASE attempt[a] = 0 \/ run[a][attempt[a]].state \in TerminalKinds
      BY <1>6, <2>1, <2>2 DEF CancelQueued, TypeOK
    <2>3. CASE ~(attempt[a] = 0 \/ run[a][attempt[a]].state \in TerminalKinds)
      <3> DEFINE n == attempt[a]
                 f == run[a][n].lease
      <3>1. n \in Attempts /\ run[a][n] \in RunRow /\ f \in 0..MaxFence
        BY <2>3, ConstantsAssumption DEF TypeOK, Attempts, RunRow
      <3>2. run' \in [Actions -> [Attempts -> RunRow]]
        <4>1. "cancelled" \in RunStates /\ "operator_cancelled" \in Reasons
          BY DEF RunStates, TerminalKinds, Reasons
        <4> 0 \in 0..MaxFence
          BY ConstantsAssumption
        <4>2. [run[a][n] EXCEPT !.state = "cancelled", !.lease = 0,
                                !.reason = "operator_cancelled"] \in RunRow
          BY <3>1, <4>1 DEF RunRow
        <4>3. QED
          BY <1>6, <2>3, <3>1, <4>2, WriteRunFacts DEF CancelQueued
      <3>3. lease' \in [Actions -> [Attempts -> [Fences -> LeaseRow]]]
        <4>1. CASE f = 0
          BY <1>6, <2>3, <4>1 DEF CancelQueued, TypeOK
        <4>2. CASE f # 0
          <5>1. f \in Fences
            BY <3>1, <4>2, ConstantsAssumption DEF Fences
          <5>2. QED
            BY <1>6, <2>3, <3>1, <4>2, <5>1, RowTypes, DerivedLeaseRows, WriteLeaseFacts
            DEF CancelQueued
        <4>3. QED
          BY <4>1, <4>2
      <3>4. QED
        BY <1>6, <2>1, <3>2, <3>3 DEF CancelQueued, TypeOK
    <2>4. QED
      BY <2>2, <2>3
  <1>7. CASE CancelActive(a)
    <2>1. action' \in [Actions -> ActionRow]
      BY <1>0, <1>7, DerivedActionRows, WriteActionFacts DEF CancelActive
    <2>2. attempt[a] \in Attempts /\ run[a][attempt[a]] \in RunRow
      BY <1>7, ConstantsAssumption DEF CancelActive, TypeOK, Attempts
    <2>3. [run[a][attempt[a]] EXCEPT !.state = "cancel_requested"] \in RunRow
      BY <2>2 DEF RunRow, RunStates
    <2>4. run' \in [Actions -> [Attempts -> RunRow]]
      BY <1>7, <2>2, <2>3, WriteRunFacts DEF CancelActive
    <2>5. QED
      BY <1>7, <2>1, <2>4 DEF CancelActive, TypeOK
  <1>8. CASE ContinueLateWarning(a)
    <2>1. action' \in [Actions -> ActionRow]
      BY <1>0, <1>8, DerivedActionRows, WriteActionFacts DEF ContinueLateWarning
    <2>2. QED
      BY <1>8, <2>1 DEF ContinueLateWarning, TypeOK
  <1>9. QED
    BY <1>1, <1>2, <1>3, <1>4, <1>5, <1>6, <1>7, <1>8 DEF OperatorCommand

LEMMA TypeLeaseRequest ==
    ASSUME TypeOK, NEW s \in Sessions, LeaseRequest(s)
    PROVE  TypeOK'
  <1>1. CASE AcceptHandshake(s)
    BY <1>1, ConstantsAssumption DEF AcceptHandshake, TypeOK
  <1>2. ASSUME NEW a \in Actions, AcquireLease(a, s)
        PROVE  TypeOK'
    <2> DEFINE n == attempt[a]
               f == NextFence(run[a][n])
    <2>1. n \in Attempts /\ run[a][n] \in RunRow /\ action[a] \in ActionRow
      BY <1>2, ConstantsAssumption
      DEF AcquireLease, Leasable, OldestQueued, TypeOK, Attempts
    <2>2. f \in Fences
      BY <1>2, <2>1, ConstantsAssumption DEF AcquireLease, NextFence, RunRow, Fences
    <2>3. run' \in [Actions -> [Attempts -> RunRow]]
      <3>1. "leased" \in RunStates /\ "failed" \in TerminalKinds /\ "none" \in Reasons
        BY DEF RunStates, TerminalKinds, Reasons
      <3>2. [run[a][n] EXCEPT !.state = "leased", !.fence = f, !.lease = f] \in RunRow
        BY <2>1, <2>2, <3>1, DerivedRunRows
      <3>3. QED
        BY <1>2, <2>1, <3>2, WriteRunFacts DEF AcquireLease
    <2>4. lease' \in [Actions -> [Attempts -> [Fences -> LeaseRow]]]
      BY <1>2, <2>1, <2>2, RowTypes, DerivedLeaseRows, WriteLeaseFacts DEF AcquireLease
    <2>5. action' \in [Actions -> ActionRow]
      <3>1. "active" \in ActionStates
        BY DEF ActionStates
      <3>2. (IF action[a].state = "queued"
             THEN Bumped(action[a], "active", "running") ELSE action[a]) \in ActionRow
        BY <2>1, <3>1, DerivedActionRows
      <3>3. QED
        BY <1>2, <3>2, WriteActionFacts DEF AcquireLease
    <2>6. QED
      BY <1>2, <2>3, <2>4, <2>5 DEF AcquireLease, TypeOK
  <1>3. ASSUME NEW a \in Actions, ExhaustFencing(a, s)
        PROVE  TypeOK'
    <2>1. attempt[a] \in Attempts /\ run[a][attempt[a]] \in RunRow /\ action[a] \in ActionRow
      BY <1>3, ConstantsAssumption
      DEF ExhaustFencing, Leasable, OldestQueued, TypeOK, Attempts
    <2>2. run' \in [Actions -> [Attempts -> RunRow]]
      <3>1. "failed" \in RunStates /\ "fencing_exhausted" \in Reasons
        BY DEF RunStates, TerminalKinds, Reasons
      <3>2. [run[a][attempt[a]] EXCEPT !.state = "failed",
                                       !.reason = "fencing_exhausted"] \in RunRow
        BY <2>1, <3>1 DEF RunRow
      <3>3. QED
        BY <1>3, <2>1, <3>2, WriteRunFacts DEF ExhaustFencing
    <2>3. action' \in [Actions -> ActionRow]
      <3>1. "failed" \in ActionStates
        BY DEF ActionStates, TerminalKinds
      <3>2. QED
        BY <1>3, <2>1, <3>1, DerivedActionRows, WriteActionFacts DEF ExhaustFencing
    <2>4. QED
      BY <1>3, <2>2, <2>3 DEF ExhaustFencing, TypeOK
  <1>4. QED
    BY <1>1, <1>2, <1>3 DEF LeaseRequest

\* What ends a Run, however it is ended, leaves rows of their types.
LEMMA TypeEnding ==
    ASSUME TypeOK, NEW a \in Actions, NEW n \in Attempts, NEW k \in TerminalKinds
    PROVE  /\ WriteAction(a, Settled(action[a], k)) => action' \in [Actions -> ActionRow]
           /\ WriteRun(a, n, Completed(run[a][n], k))
                => run' \in [Actions -> [Attempts -> RunRow]]
  <1>1. k \in ActionStates
    BY DEF ActionStates, TerminalKinds
  <1>2. Settled(action[a], k) \in ActionRow
    BY <1>1, RowTypes, DerivedActionRows
  <1>3. Completed(run[a][n], k) \in RunRow
    <2>1. 1 \in Fences /\ "queued" \in RunStates /\ "none" \in Reasons
      BY ConstantsAssumption DEF Fences, RunStates, Reasons
    <2>2. QED
      BY <2>1, RowTypes, DerivedRunRows
  <1>4. QED
    BY <1>2, <1>3, WriteActionFacts, WriteRunFacts

LEMMA TypeFencedRequest ==
    ASSUME TypeOK, NEW a \in Actions, NEW n \in Attempts, NEW f \in Fences,
           FencedRequest(a, n, f)
    PROVE  TypeOK'
  <1>0. lease[a][n][f] \in LeaseRow /\ run[a][n] \in RunRow
    BY RowTypes
  <1>1. ASSUME NEW s \in Sessions, Heartbeat(a, n, f, s)
        PROVE  TypeOK'
    <2>1. PICK q \in (lease[a][n][f].heartbeat + 1)..MaxHeartbeat :
            WriteLease(a, n, f, [lease[a][n][f] EXCEPT !.heartbeat = q, !.left = LeaseTicks])
      BY <1>1 DEF Heartbeat
    <2>2. q \in 0..MaxHeartbeat
      BY <1>0, ConstantsAssumption DEF LeaseRow
    <2>3. lease' \in [Actions -> [Attempts -> [Fences -> LeaseRow]]]
      BY <1>0, <2>1, <2>2, DerivedLeaseRows, WriteLeaseFacts
    <2>4. QED
      BY <1>1, <2>3 DEF Heartbeat, TypeOK
  <1>2. ASSUME NEW s \in Sessions, AppendStarted(a, n, f, s)
        PROVE  TypeOK'
    <2> DEFINE q == lease[a][n][f].event + 1
    <2>1. q \in 1..MaxEvent /\ q \in 0..MaxEvent
      BY <1>0, <1>2, ConstantsAssumption DEF AppendStarted, NextSequenceFree, LeaseRow
    <2> HIDE DEF q
    <2>2. events' \in [Actions -> [Attempts -> SUBSET EventRow]]
      <3>1. [fence |-> f, seq |-> q, type |-> "started"] \in EventRow
        BY <2>1 DEF EventRow
      <3>2. QED
        BY <1>2, <3>1, InsertEventFacts DEF AppendStarted, q
    <2>3. lease' \in [Actions -> [Attempts -> [Fences -> LeaseRow]]]
      BY <1>0, <1>2, <2>1, DerivedLeaseRows, WriteLeaseFacts DEF AppendStarted, q
    <2>4. run' \in [Actions -> [Attempts -> RunRow]]
      <3>1. StartedState(run[a][n].state) \in RunStates
        BY <1>0 DEF StartedState, RunRow, RunStates
      <3>2. [run[a][n] EXCEPT !.state = StartedState(@)] \in RunRow
        BY <1>0, <3>1 DEF RunRow
      <3>3. QED
        BY <1>2, <3>2, WriteRunFacts DEF AppendStarted
    <2>5. QED
      BY <1>2, <2>2, <2>3, <2>4 DEF AppendStarted, TypeOK
  <1>3. ASSUME NEW s \in Sessions, NEW k \in TerminalKinds, CompleteRun(a, n, f, s, k)
        PROVE  TypeOK'
    <2> DEFINE q == lease[a][n][f].event + 1
    <2>1. q \in 1..MaxEvent /\ q \in 0..MaxEvent
      BY <1>0, <1>3, ConstantsAssumption DEF CompleteRun, NextSequenceFree, LeaseRow
    <2> HIDE DEF q
    <2>2. events' \in [Actions -> [Attempts -> SUBSET EventRow]]
      <3>1. [fence |-> f, seq |-> q, type |-> k] \in EventRow
        BY <2>1 DEF EventRow
      <3>2. QED
        BY <1>3, <3>1, InsertEventFacts DEF CompleteRun, q
    <2>3. lease' \in [Actions -> [Attempts -> [Fences -> LeaseRow]]]
      BY <1>0, <1>3, <2>1, DerivedLeaseRows, WriteLeaseFacts DEF CompleteRun, q
    <2>4. QED
      BY <1>3, <2>2, <2>3, TypeEnding DEF CompleteRun, TypeOK
  <1>4. ASSUME NEW s \in Sessions, AdmitUpload(a, n, f, s)
        PROVE  TypeOK'
    BY <1>4 DEF AdmitUpload, TypeOK
  <1>5. CASE CloseUpload(a, n, f)
    BY <1>5 DEF CloseUpload, TypeOK
  <1>6. QED
    BY <1>1, <1>2, <1>3, <1>4, <1>5 DEF FencedRequest

LEMMA TypeRepositoryOnly ==
    ASSUME TypeOK, NEW a \in Actions, RepositoryOnly(a)
    PROVE  TypeOK'
  <1>0. action[a] \in ActionRow
    BY RowTypes
  <1>1. CASE RetryRun(a)
    <2>1. "queued" \in ActionStates
      BY DEF ActionStates
    <2>2. action' \in [Actions -> ActionRow]
      BY <1>0, <1>1, <2>1, DerivedActionRows, WriteActionFacts DEF RetryRun
    <2>3. QED
      BY <1>1, <2>2, TypeAllocate DEF RetryRun, TypeOK
  <1>2. ASSUME NEW autoContinue \in BOOLEAN, RecordLateWarning(a, autoContinue)
        PROVE  TypeOK'
    <2>1. "queued" \in ActionStates /\ TRUE \in BOOLEAN
      BY DEF ActionStates
    <2>2. action' \in [Actions -> ActionRow]
      <3>1. CASE autoContinue
        BY <1>0, <1>2, <2>1, <3>1, DerivedActionRows, WriteActionFacts DEF RecordLateWarning
      <3>2. CASE ~autoContinue
        BY <1>0, <1>2, <2>1, <3>2, DerivedActionRows, WriteActionFacts DEF RecordLateWarning
      <3>3. QED
        BY <3>1, <3>2
    <2>3. QED
      BY <1>2, <2>2 DEF RecordLateWarning, TypeOK
  <1>3. ASSUME NEW n \in Attempts, NEW f \in Fences, ExpireLease(a, n, f)
        PROVE  TypeOK'
    <2> DEFINE outcome == ExpiryOutcome(action[a].state, run[a][n].state)
    <2>0. run[a][n] \in RunRow /\ lease[a][n][f] \in LeaseRow
      BY RowTypes
    <2>1. outcome.action \in ActionStates /\ outcome.run \in RunStates /\ outcome.reason \in Reasons
      BY <1>3 DEF ExpireLease, ExpiryOutcome, ActionStates, RunStates, Reasons, TerminalKinds
    <2> HIDE DEF outcome
    <2>2. lease' \in [Actions -> [Attempts -> [Fences -> LeaseRow]]]
      BY <1>3, <2>0, DerivedLeaseRows, WriteLeaseFacts DEF ExpireLease
    <2>3. run' \in [Actions -> [Attempts -> RunRow]]
      <3>1. "failed" \in TerminalKinds
        BY DEF TerminalKinds
      <3>2. [run[a][n] EXCEPT !.state = outcome.run, !.lease = 0,
                              !.reason = outcome.reason] \in RunRow
        BY <2>0, <2>1, <3>1, DerivedRunRows
      <3>3. QED
        BY <1>3, <3>2, WriteRunFacts DEF ExpireLease, outcome
    <2>4. action' \in [Actions -> ActionRow]
      BY <1>0, <1>3, <2>1, DerivedActionRows, WriteActionFacts DEF ExpireLease, outcome
    <2>5. QED
      BY <1>3, <2>2, <2>3, <2>4 DEF ExpireLease, TypeOK
  <1>4. ASSUME NEW n \in Attempts, NEW k \in TerminalKinds, CompleteUnpresented(a, n, k)
        PROVE  TypeOK'
    <2> DEFINE f == run[a][n].fence
               q == CompletionSequence(lease[a][n][f])
    <2>0. f \in Fences /\ lease[a][n][f] \in LeaseRow
      <3>1. run[a][n] \in RunRow
        BY RowTypes
      <3>2. f \in Fences
        BY <1>4, <3>1, ConstantsAssumption DEF CompleteUnpresented, RunRow, Fences
      <3>3. QED
        BY <3>2, RowTypes
    <2>1. q \in 1..MaxEvent /\ q \in 0..MaxEvent
      <3>1. q <= MaxEvent
        BY <1>4 DEF CompleteUnpresented
      <3>2. lease[a][n][f].event \in 0..MaxEvent
        BY <2>0 DEF LeaseRow
      <3>3. q \in Nat \ {0}
        BY <3>2 DEF CompletionSequence
      <3>4. QED
        BY <3>1, <3>3, ConstantsAssumption
    <2> HIDE DEF q
    <2>2. events' \in [Actions -> [Attempts -> SUBSET EventRow]]
      <3>1. [fence |-> f, seq |-> q, type |-> k] \in EventRow
        BY <2>0, <2>1 DEF EventRow
      <3>2. QED
        BY <1>4, <3>1, InsertEventFacts DEF CompleteUnpresented, q
    <2>3. lease' \in [Actions -> [Attempts -> [Fences -> LeaseRow]]]
      <3>1. CASE lease[a][n][f].current
        BY <1>4, <2>0, <2>1, <3>1, DerivedLeaseRows, WriteLeaseFacts
        DEF CompleteUnpresented, q
      <3>2. CASE ~lease[a][n][f].current
        BY <1>4, <3>2 DEF CompleteUnpresented, TypeOK
      <3>3. QED
        BY <3>1, <3>2
    <2>4. QED
      BY <1>4, <2>2, <2>3, TypeEnding DEF CompleteUnpresented, TypeOK
  <1>5. QED
    BY <1>1, <1>2, <1>3, <1>4 DEF RepositoryOnly

LEMMA TypeOwnerCommand ==
    ASSUME TypeOK, NEW rn \in Runners, OwnerCommand(rn)
    PROVE  TypeOK'
  <1>1. CASE ConfirmEnrollment(rn)
    BY <1>1 DEF ConfirmEnrollment, TypeOK
  <1>2. CASE RevokeRunner(rn)
    <2>1. runner' \in [Runners -> {"unknown", "enabled", "revoked"}]
          /\ session' \in [Runners -> Sessions \cup {NoSession}]
      BY <1>2 DEF RevokeRunner, TypeOK
    <2>2. ASSUME NEW a \in Actions, NEW n \in Attempts
          PROVE  FencedRun(rn, a, n) \in RunRow
      <3>1. run[a][n] \in RunRow /\ "cancel_requested" \in RunStates /\ 0 \in 0..MaxFence
        BY RowTypes, ConstantsAssumption DEF RunStates
      <3>2. [run[a][n] EXCEPT !.lease = 0, !.state = "cancel_requested"] \in RunRow
        BY <3>1 DEF RunRow
      <3>3. [run[a][n] EXCEPT !.lease = 0, !.state = run[a][n].state] \in RunRow
        BY <3>1 DEF RunRow
      <3>4. [run[a][n] EXCEPT !.lease = 0,
                              !.state = IF @ \in {"leased", "running"} THEN "cancel_requested"
                                                                       ELSE @] \in RunRow
        BY <3>2, <3>3
      <3>5. QED
        BY <3>1, <3>4 DEF FencedRun
    <2>3. ASSUME NEW a \in Actions
          PROVE  FencedAction(rn, a) \in ActionRow
      <3>1. action[a] \in ActionRow /\ action[a].state \in ActionStates /\ TRUE \in BOOLEAN
        BY RowTypes DEF ActionRow
      <3>2. QED
        BY <3>1, DerivedActionRows DEF FencedAction
    <2>4. ASSUME NEW a \in Actions, NEW n \in Attempts, NEW f \in Fences
          PROVE  (IF HeldBy(rn, a, n, f) THEN Dropped(lease[a][n][f])
                                         ELSE lease[a][n][f]) \in LeaseRow
      BY RowTypes, DerivedLeaseRows
    <2>5. QED
      BY <1>2, <2>1, <2>2, <2>3, <2>4 DEF RevokeRunner, TypeOK
  <1>3. QED
    BY <1>1, <1>2 DEF OwnerCommand

LEMMA TypeTick ==
    ASSUME TypeOK, Tick
    PROVE  TypeOK'
  <1>1. ASSUME NEW a \in Actions, NEW n \in Attempts, NEW f \in Fences
        PROVE  (IF lease[a][n][f].current /\ lease[a][n][f].left > 0
                THEN [lease[a][n][f] EXCEPT !.left = @ - 1]
                ELSE lease[a][n][f]) \in LeaseRow
    BY RowTypes, DerivedLeaseRows
  <1>2. lease' \in [Actions -> [Attempts -> [Fences -> LeaseRow]]]
    BY <1>1 DEF Tick
  <1>3. QED
    BY <1>2 DEF Tick, TypeOK

LEMMA TypeStep ==
    ASSUME TypeOK, [Next]_vars
    PROVE  TypeOK'
  <1>1. CASE Next
    BY <1>1, TypeOperator, TypeLeaseRequest, TypeFencedRequest, TypeRepositoryOnly,
       TypeOwnerCommand, TypeTick
    DEF Next, ApiNext
  <1>2. CASE UNCHANGED vars
    BY <1>2 DEF vars, TypeOK
  <1>3. QED
    BY <1>1, <1>2

\* The rows stay rows of their tables: every operation, whatever it was asked
\* by and when, writes fences, sequences, clocks and states within bounds.
THEOREM TypeCorrect == Spec => []TypeOK
  <1>1. Init => TypeOK
    BY ConstantsAssumption
    DEF Init, TypeOK, NoAction, NoRun, NoLease, ActionRow, RunRow, LeaseRow, ActionStates,
        RunStates, TerminalKinds, Reasons
  <1>2. TypeOK /\ [Next]_vars => TypeOK'
    BY TypeStep
  <1>3. QED
    BY <1>1, <1>2, PTL DEF Spec

-----------------------------------------------------------------------------
(* Agreement of the rows.                                                  *)

Unqueued == {"absent", "paused_for_warning", "capability_error"}

\* What the two agreements need to be inductive: an Action row says live
\* exactly while it names a run state, it has a Run exactly since it was first
\* queued, and a Run not yet allocated was never leased.
Sound(a) ==
    /\ action[a].state \in ActiveStates <=> action[a].runState # "none"
    /\ action[a].state \in Unqueued => attempt[a] = 0
    /\ attempt[a] = 0 => action[a].state \in Unqueued \cup {"cancelled"}
    /\ \A n \in Attempts : run[a][n].state = "absent" => run[a][n].fence = 0

Holds(a) == Agrees(a) /\ Sound(a) /\ \A n \in Attempts : LeasesAgree(a, n)

AgreementInv == TypeOK /\ \A a \in Actions : Holds(a)

-----------------------------------------------------------------------------
(* Most operations touch the rows of one Action.                           *)

SameRows(b) ==
    /\ action'[b] = action[b] /\ attempt'[b] = attempt[b]
    /\ \A n \in Attempts : run'[b][n] = run[b][n]
    /\ \A n \in Attempts, f \in Fences : lease'[b][n][f] = lease[b][n][f]

LEMMA WrittenRows ==
    ASSUME TypeOK, NEW a \in Actions
    PROVE  /\ \A row : WriteAction(a, row) =>
                \A b \in Actions : action'[b] = IF b = a THEN row ELSE action[b]
           /\ \A n \in Attempts : \A row : WriteRun(a, n, row) =>
                \A b \in Actions, m \in Attempts :
                  run'[b][m] = IF b = a /\ m = n THEN row ELSE run[b][m]
           /\ \A n \in Attempts, f \in Fences : \A row : WriteLease(a, n, f, row) =>
                \A b \in Actions, m \in Attempts, g \in Fences :
                  lease'[b][m][g] = IF b = a /\ m = n /\ g = f THEN row ELSE lease[b][m][g]
  <1>1. ASSUME NEW row, WriteAction(a, row)
        PROVE  \A b \in Actions : action'[b] = IF b = a THEN row ELSE action[b]
    BY <1>1 DEF WriteAction, TypeOK
  <1>2. ASSUME NEW n \in Attempts, NEW row, WriteRun(a, n, row)
        PROVE  \A b \in Actions, m \in Attempts :
                 run'[b][m] = IF b = a /\ m = n THEN row ELSE run[b][m]
    BY <1>2 DEF WriteRun, TypeOK
  <1>3. ASSUME NEW n \in Attempts, NEW f \in Fences, NEW row, WriteLease(a, n, f, row)
        PROVE  \A b \in Actions, m \in Attempts, g \in Fences :
                 lease'[b][m][g] = IF b = a /\ m = n /\ g = f THEN row ELSE lease[b][m][g]
    BY <1>3 DEF WriteLease, TypeOK
  <1>4. QED
    BY <1>1, <1>2, <1>3

LEMMA Frame ==
    ASSUME AgreementInv, TypeOK', runner' = runner, NEW b \in Actions, SameRows(b)
    PROVE  Holds(b)'
  <1>1. Holds(b)
    BY DEF AgreementInv
  <1>2. attempt[b] \in 0..MaxAttempt
    BY DEF AgreementInv, TypeOK
  <1>3. Sound(b)'
    BY <1>1 DEF Holds, Sound, SameRows
  <1>4. Agrees(b)'
    <2>1. attempt[b] > 0 => attempt[b] \in Attempts
      BY <1>2, ConstantsAssumption DEF Attempts
    <2>2. QED
      BY <1>1, <2>1 DEF Holds, Agrees, Latest, SameRows
  <1>5. \A n \in Attempts : LeasesAgree(b, n)'
    BY <1>1 DEF Holds, LeasesAgree, SameRows
  <1>6. QED
    BY <1>3, <1>4, <1>5 DEF Holds

LEMMA OneAction ==
    ASSUME AgreementInv, TypeOK', runner' = runner, NEW a \in Actions,
           \A b \in Actions \ {a} : SameRows(b), Holds(a)'
    PROVE  AgreementInv'
  <1>1. \A b \in Actions : Holds(b)'
    BY Frame
  <1>2. QED
    BY <1>1 DEF AgreementInv

\* Operations that write the Action row alone, between states that tell the
\* same of its Run.
LEMMA ActionRowOnly ==
    ASSUME AgreementInv, TypeOK', NEW a \in Actions, NEW row,
           WriteAction(a, row), UNCHANGED <<attempt, run, lease, runner>>,
           \/ row.state = action[a].state
           \/ row.state \in ActiveStates /\ action[a].state \in ActiveStates
           \/ row.state \in {"paused_for_warning", "capability_error", "cancelled"}
              /\ action[a].state \in Unqueued,
           row.runState = action[a].runState
    PROVE  AgreementInv'
  <1>1. Holds(a) /\ attempt[a] \in 0..MaxAttempt
    BY DEF AgreementInv, TypeOK
  <1>2. action'[a] = row /\ \A b \in Actions \ {a} : action'[b] = action[b]
    BY WrittenRows DEF AgreementInv
  <1>3. \A b \in Actions \ {a} : SameRows(b)
    BY <1>2 DEF SameRows
  <1>4. Sound(a)'
    BY <1>1, <1>2 DEF Holds, Sound, Unqueued, ActiveStates
  <1>5. Agrees(a)'
    BY <1>1, <1>2 DEF Holds, Sound, Agrees, Latest, Unqueued, ActiveStates, TerminalKinds
  <1>6. \A n \in Attempts : LeasesAgree(a, n)'
    BY <1>1 DEF Holds, LeasesAgree
  <1>7. QED
    BY <1>3, <1>4, <1>5, <1>6, OneAction DEF Holds

\* Operations that write the Action row and its latest Run, n, and drop or
\* touch nothing else: st and rs are the states they leave.
LEMMA LatestRunOnly ==
    ASSUME AgreementInv, TypeOK', NEW a \in Actions, NEW n \in Attempts, n = attempt[a],
           NEW row, WriteAction(a, row),
           NEW r, WriteRun(a, n, r),
           UNCHANGED <<attempt, runner>>,
           \A b \in Actions, m \in Attempts, f \in Fences :
             b # a \/ m # n => lease'[b][m][f] = lease[b][m][f],
           r.state # "absent",
           row.state \notin Unqueued,
           row.state \in ActiveStates <=> row.runState # "none",
           row.state = "queued" <=> r.state = "queued",
           row.runState = "running" <=> r.state \in {"leased", "running"},
           row.runState = "cancel_requested" <=> r.state = "cancel_requested",
           r.state \in TerminalKinds => row.state = r.state,
           LeasesAgree(a, n)'
    PROVE  AgreementInv'
  <1>1. Holds(a) /\ attempt[a] \in 0..MaxAttempt
    BY DEF AgreementInv, TypeOK
  <1>2. action'[a] = row /\ \A b \in Actions \ {a} : action'[b] = action[b]
    BY WrittenRows DEF AgreementInv
  <1>3. \A b \in Actions, m \in Attempts :
          run'[b][m] = IF b = a /\ m = n THEN r ELSE run[b][m]
    BY WrittenRows DEF AgreementInv
  <1>4. \A b \in Actions \ {a} : SameRows(b)
    BY <1>2, <1>3 DEF SameRows
  <1>5. Sound(a)'
    BY <1>1, <1>2, <1>3, ConstantsAssumption DEF Holds, Sound, Attempts
  <1>6. Agrees(a)'
    BY <1>1, <1>2, <1>3, ConstantsAssumption DEF Holds, Agrees, Latest, Attempts
  <1>7. \A m \in Attempts : LeasesAgree(a, m)'
    <2>1. ASSUME NEW m \in Attempts, m # n
          PROVE  LeasesAgree(a, m)'
      BY <1>1, <1>3, <2>1 DEF Holds, LeasesAgree
    <2>2. QED
      BY <2>1
  <1>8. QED
    BY <1>4, <1>5, <1>6, <1>7, OneAction DEF Holds

\* A Run that holds a lease, or is in any other live state, is the latest.
LEMMA LiveIsLatest ==
    ASSUME AgreementInv, NEW a \in Actions, NEW n \in Attempts,
           run[a][n].state \notin TerminalKinds \cup {"absent"}
    PROVE  n = attempt[a]
  <1>1. Agrees(a) /\ attempt[a] \in 0..MaxAttempt
    BY DEF AgreementInv, TypeOK, Holds
  <1>2. ~(n < attempt[a]) /\ ~(n > attempt[a])
    BY <1>1 DEF Agrees, TerminalKinds
  <1>3. QED
    BY <1>1, <1>2, ConstantsAssumption DEF Attempts

LEMMA CurrentIsLive ==
    ASSUME AgreementInv, NEW a \in Actions, NEW n \in Attempts, NEW f \in Fences,
           lease[a][n][f].current
    PROVE  /\ run[a][n].state \in {"leased", "running", "cancel_requested"}
           /\ run[a][n].lease = f /\ run[a][n].fence = f
           /\ n = attempt[a]
  <1>1. LeasesAgree(a, n) /\ run[a][n] \in RunRow
    BY RowTypes DEF AgreementInv, Holds
  <1>2. run[a][n].lease = f /\ f > 0
    BY <1>1, ConstantsAssumption DEF LeasesAgree, Fences
  <1>3. run[a][n].fence = f
    BY <1>1, <1>2 DEF LeasesAgree
  <1>4. run[a][n].state \in {"leased", "running", "cancel_requested"}
    BY <1>1, <1>2 DEF LeasesAgree
  <1>5. QED
    BY <1>2, <1>3, <1>4, LiveIsLatest DEF TerminalKinds

LEMMA CurrentOwner ==
    ASSUME AgreementInv, NEW a \in Actions, NEW n \in Attempts, NEW f \in Fences,
           lease[a][n][f].current
    PROVE  /\ lease[a][n][f].session \in Sessions
           /\ SessionOwner[lease[a][n][f].session] \in Runners
           /\ \A g \in Fences : lease[a][n][g].current => g = f
  <1>1. LeasesAgree(a, n) /\ lease[a][n][f] \in LeaseRow
    BY RowTypes DEF AgreementInv, Holds
  <1>2. run[a][n].fence = f /\ run[a][n].lease = f
    BY CurrentIsLive
  <1>3. lease[a][n][f].session \in Sessions
    BY <1>1, <1>2, ConstantsAssumption DEF LeasesAgree, LeaseRow, Fences
  <1>4. QED
    BY <1>1, <1>2, <1>3, ConstantsAssumption DEF LeasesAgree

\* Operations that touch no more than a lease's clock and counters, and never
\* disable a runner.
LEMMA NoRowThatMatters ==
    ASSUME AgreementInv, TypeOK', UNCHANGED <<action, attempt, run>>,
           \A rn \in Runners : runner[rn] = "enabled" => runner'[rn] = "enabled",
           \A a \in Actions, n \in Attempts, f \in Fences :
             /\ lease'[a][n][f].session = lease[a][n][f].session
             /\ lease'[a][n][f].current = lease[a][n][f].current
    PROVE  AgreementInv'
  <1>1. ASSUME NEW a \in Actions
        PROVE  Holds(a)'
    <2>1. Holds(a)
      BY DEF AgreementInv
    <2>2. Agrees(a)' /\ Sound(a)'
      BY <2>1 DEF Holds, Agrees, Sound, Latest
    <2>3. ASSUME NEW n \in Attempts
          PROVE  LeasesAgree(a, n)'
      <3>1. \A f \in Fences : lease[a][n][f].current =>
              SessionOwner[lease[a][n][f].session] \in Runners
        BY CurrentOwner
      <3>2. QED
        BY <2>1, <3>1 DEF Holds, LeasesAgree
    <2>4. QED
      BY <2>2, <2>3 DEF Holds
  <1>2. QED
    BY <1>1 DEF AgreementInv

\* The leases of a Run whose row keeps its fence and its lease, and one whose
\* row lets its lease go.
LEMMA LeaseKept ==
    ASSUME AgreementInv, NEW a \in Actions, NEW n \in Attempts, runner' = runner,
           run'[a][n].fence = run[a][n].fence, run'[a][n].lease = run[a][n].lease,
           \A f \in Fences : /\ lease'[a][n][f].session = lease[a][n][f].session
                             /\ lease'[a][n][f].current = lease[a][n][f].current,
           run'[a][n].state \in {"leased", "running"} => run[a][n].lease > 0,
           run[a][n].lease > 0 => run'[a][n].state \in {"leased", "running", "cancel_requested"}
    PROVE  LeasesAgree(a, n)'
  <1>1. LeasesAgree(a, n)
    BY DEF AgreementInv, Holds
  <1>2. QED
    BY <1>1 DEF LeasesAgree

LEMMA LeaseLetGo ==
    ASSUME AgreementInv, NEW a \in Actions, NEW n \in Attempts,
           run'[a][n].fence = run[a][n].fence, run'[a][n].lease = 0,
           \A f \in Fences : /\ lease'[a][n][f].session = lease[a][n][f].session
                             /\ ~lease'[a][n][f].current,
           run'[a][n].state \notin {"leased", "running"}
    PROVE  LeasesAgree(a, n)'
  <1>1. LeasesAgree(a, n)
    BY DEF AgreementInv, Holds
  <1>2. \A f \in Fences : f # 0
    BY ConstantsAssumption DEF Fences
  <1>3. QED
    BY <1>1, <1>2 DEF LeasesAgree

-----------------------------------------------------------------------------
(* Operator commands.                                                      *)

LEMMA AllocatePreserves ==
    ASSUME AgreementInv, TypeOK', NEW a \in Actions, AllocateRun(a),
           NEW row, WriteAction(a, row), UNCHANGED <<lease, runner>>,
           row.state = "queued", row.runState = "none"
    PROVE  AgreementInv'
  <1>1. Holds(a) /\ attempt[a] \in 0..MaxAttempt
    BY DEF AgreementInv, TypeOK
  <1>2. PICK n \in Attempts : n = attempt[a] + 1
    BY <1>1, ConstantsAssumption DEF AllocateRun, Allocatable, Attempts
  <1>3. action'[a] = row /\ \A b \in Actions \ {a} : action'[b] = action[b]
    BY WrittenRows DEF AgreementInv
  <1>4. attempt'[a] = n /\ \A b \in Actions \ {a} : attempt'[b] = attempt[b]
    <2>1. attempt \in [Actions -> 0..MaxAttempt]
      BY DEF AgreementInv, TypeOK
    <2>2. attempt' = [attempt EXCEPT ![a] = attempt[a] + 1]
      BY DEF AllocateRun
    <2>3. QED
      BY <1>2, <2>1, <2>2
  <1>5. \A b \in Actions, m \in Attempts :
          run'[b][m] = IF b = a /\ m = n THEN NewRun ELSE run[b][m]
    <2>1. WriteRun(a, n, NewRun)
      BY <1>2 DEF AllocateRun
    <2>2. QED
      BY <2>1, WrittenRows DEF AgreementInv
  <1>6. \A b \in Actions \ {a} : SameRows(b)
    BY <1>3, <1>4, <1>5 DEF SameRows
  <1>7. run[a][n].state = "absent" /\ run[a][n].fence = 0
    BY <1>1, <1>2 DEF Holds, Agrees, Sound
  <1>8. \A m \in 1..attempt[a] : run[a][m].state \in {"failed", "cancelled"}
    BY DEF AllocateRun, Allocatable
  <1>9. Sound(a)'
    BY <1>1, <1>3, <1>4, <1>5, ConstantsAssumption
       DEF Holds, Sound, Unqueued, ActiveStates, NewRun, Attempts
  <1>10. Agrees(a)'
    <2>1. Latest(a)'.state = "queued" /\ attempt'[a] > 0
      <3>1. n > 0 /\ run'[a][n] = NewRun
        BY <1>5, ConstantsAssumption DEF Attempts
      <3>2. QED
        BY <1>4, <3>1 DEF Latest, NewRun
    <2>2. ASSUME NEW m \in Attempts
          PROVE  /\ m < n => run'[a][m].state \in {"failed", "cancelled"}
                 /\ m > n <=> run'[a][m].state = "absent"
      <3>1. m \in Nat \ {0}
        BY ConstantsAssumption DEF Attempts
      <3>2. CASE m < n
        BY <1>1, <1>2, <1>5, <1>8, <3>1, <3>2
      <3>3. CASE m = n
        BY <1>1, <1>2, <1>5, <3>1, <3>3 DEF NewRun
      <3>4. CASE m > n
        BY <1>1, <1>2, <1>5, <3>1, <3>4 DEF Holds, Agrees
      <3>5. QED
        BY <1>1, <1>2, <3>1, <3>2, <3>3, <3>4
    <2>3. QED
      BY <1>3, <1>4, <2>1, <2>2 DEF Agrees, TerminalKinds
  <1>11. \A m \in Attempts : LeasesAgree(a, m)'
    <2>1. LeasesAgree(a, n)'
      <3>1. run[a][n].lease = 0
        BY <1>1, <1>2, <1>7 DEF Holds, LeasesAgree
      <3>2. QED
        BY <1>1, <1>2, <1>5, <1>7, <3>1 DEF Holds, LeasesAgree, NewRun
    <2>2. ASSUME NEW m \in Attempts, m # n
          PROVE  LeasesAgree(a, m)'
      BY <1>1, <1>5, <2>2 DEF Holds, LeasesAgree
    <2>3. QED
      BY <2>1, <2>2
  <1>12. QED
    BY <1>6, <1>9, <1>10, <1>11, OneAction DEF Holds

LEMMA AgreementOperator ==
    ASSUME AgreementInv, TypeOK', NEW a \in Actions, OperatorCommand(a)
    PROVE  AgreementInv'
  <1>0. Holds(a) /\ action[a] \in ActionRow /\ attempt[a] \in 0..MaxAttempt
    BY RowTypes DEF AgreementInv, TypeOK
  <1>1. CASE PlanUnrepresentable(a)
    <2> DEFINE row == [action[a] EXCEPT !.state = "capability_error"]
    <2>1. row.state = "capability_error" /\ row.runState = action[a].runState
      BY <1>0 DEF ActionRow
    <2> HIDE DEF row
    <2>2. WriteAction(a, row) /\ action[a].state \in Unqueued
      BY <1>1 DEF PlanUnrepresentable, Unqueued, row
    <2>3. QED
      BY <1>1, <2>1, <2>2, ActionRowOnly DEF PlanUnrepresentable
  <1>2. CASE \E acknowledged \in BOOLEAN : PlanQueued(a, acknowledged)
    <2>1. PICK acknowledged \in BOOLEAN : PlanQueued(a, acknowledged)
      BY <1>2
    <2> DEFINE row == [action[a] EXCEPT !.state = "queued", !.acknowledged = acknowledged]
    <2>2. row.state = "queued" /\ row.runState = "none"
      BY <1>0, <2>1 DEF ActionRow, PlanQueued, Holds, Sound, ActiveStates
    <2> HIDE DEF row
    <2>3. WriteAction(a, row)
      BY <2>1 DEF PlanQueued, row
    <2>4. QED
      BY <2>1, <2>2, <2>3, AllocatePreserves DEF PlanQueued
  <1>3. CASE PlanPaused(a)
    <2> DEFINE row == [action[a] EXCEPT !.state = "paused_for_warning", !.pending = TRUE,
                                        !.interactions = 1]
    <2>1. row.state = "paused_for_warning" /\ row.runState = action[a].runState
      BY <1>0 DEF ActionRow
    <2> HIDE DEF row
    <2>2. WriteAction(a, row) /\ action[a].state \in Unqueued
      BY <1>3 DEF PlanPaused, Unqueued, row
    <2>3. QED
      BY <1>3, <2>1, <2>2, ActionRowOnly DEF PlanPaused
  <1>4. CASE ContinueAction(a)
    <2> DEFINE row == [action[a] EXCEPT !.state = "queued", !.pending = FALSE,
                                        !.acknowledged = TRUE]
    <2>1. row.state = "queued" /\ row.runState = "none"
      BY <1>0, <1>4 DEF ActionRow, ContinueAction, Holds, Sound, ActiveStates
    <2> HIDE DEF row
    <2>2. WriteAction(a, row)
      BY <1>4 DEF ContinueAction, row
    <2>3. QED
      BY <1>4, <2>1, <2>2, AllocatePreserves DEF ContinueAction
  <1>5. CASE CancelPaused(a)
    <2> DEFINE row == [action[a] EXCEPT !.state = "cancelled", !.pending = FALSE]
    <2>1. row.state = "cancelled" /\ row.runState = action[a].runState
      BY <1>0 DEF ActionRow
    <2> HIDE DEF row
    <2>2. WriteAction(a, row) /\ action[a].state \in Unqueued
      BY <1>5 DEF CancelPaused, Unqueued, row
    <2>3. QED
      BY <1>5, <2>1, <2>2, ActionRowOnly DEF CancelPaused
  <1>6. CASE CancelQueued(a)
    <2>1. attempt[a] > 0 /\ run[a][attempt[a]].state = "queued"
      BY <1>0, <1>6 DEF CancelQueued, Holds, Agrees, Latest
    <2>2. PICK n \in Attempts : n = attempt[a]
      BY <1>0, <2>1, ConstantsAssumption DEF Attempts
    <2>3. /\ run[a][n].lease = 0 /\ run[a][n] \in RunRow
          /\ \A f \in Fences : ~lease[a][n][f].current
      <3>1. LeasesAgree(a, n) /\ run[a][n] \in RunRow
        BY <1>0, RowTypes DEF Holds, AgreementInv
      <3>2. ~(run[a][n].lease > 0) /\ run[a][n].lease \in 0..MaxFence
        BY <2>1, <2>2, <3>1 DEF LeasesAgree, RunRow
      <3>3. run[a][n].lease = 0
        BY <3>2, ConstantsAssumption
      <3>4. \A f \in Fences : f # 0
        BY ConstantsAssumption DEF Fences
      <3>5. QED
        BY <3>1, <3>3, <3>4 DEF LeasesAgree
    <2> DEFINE row == [action[a] EXCEPT !.state = "cancelled"]
               r   == [run[a][n] EXCEPT !.state = "cancelled", !.lease = 0,
                                        !.reason = "operator_cancelled"]
    <2>4. row.state = "cancelled" /\ row.runState = "none"
      BY <1>0, <1>6 DEF ActionRow, CancelQueued, Holds, Sound, ActiveStates
    <2>5. r.state = "cancelled" /\ r.lease = 0 /\ r.fence = run[a][n].fence
      BY <2>3 DEF RunRow
    <2>6. WriteAction(a, row) /\ WriteRun(a, n, r) /\ UNCHANGED <<attempt, lease, runner>>
      BY <1>6, <2>1, <2>2, <2>3 DEF CancelQueued, TerminalKinds
    <2> HIDE DEF row, r
    <2>7. run'[a][n] = r
      BY <2>6, WrittenRows DEF AgreementInv
    <2>8. LeasesAgree(a, n)'
      BY <2>3, <2>5, <2>6, <2>7, LeaseLetGo
    <2>9. QED
      BY <2>2, <2>4, <2>5, <2>6, <2>8, LatestRunOnly
      DEF Unqueued, ActiveStates, TerminalKinds
  <1>7. CASE CancelActive(a)
    <2>1. PICK n \in Attempts : n = attempt[a]
      BY <1>0, <1>7, ConstantsAssumption DEF CancelActive, Attempts
    <2>2. run[a][n].state \in {"leased", "running"} /\ run[a][n] \in RunRow
      BY <1>0, <1>7, <2>1, RowTypes DEF CancelActive, Holds, Agrees, Latest, AgreementInv
    <2> DEFINE row == CancelRequested(action[a])
               r   == [run[a][n] EXCEPT !.state = "cancel_requested"]
    <2>3. row.state = action[a].state /\ row.runState = "cancel_requested"
      BY <1>0 DEF ActionRow, CancelRequested
    <2>4. /\ r.state = "cancel_requested" /\ r.lease = run[a][n].lease
          /\ r.fence = run[a][n].fence
      BY <2>2 DEF RunRow
    <2>5. WriteAction(a, row) /\ WriteRun(a, n, r) /\ UNCHANGED <<attempt, lease, runner>>
      BY <1>7, <2>1 DEF CancelActive
    <2> HIDE DEF row, r
    <2>6. run'[a][n] = r
      BY <2>5, WrittenRows DEF AgreementInv
    <2>7. LeasesAgree(a, n)'
      BY <2>4, <2>5, <2>6, LeaseKept
    <2>8. row.state \in ActiveStates
      BY <1>7, <2>3 DEF CancelActive
    <2>9. QED
      BY <2>1, <2>3, <2>4, <2>5, <2>7, <2>8, LatestRunOnly
      DEF Unqueued, ActiveStates, TerminalKinds
  <1>8. CASE ContinueLateWarning(a)
    <2> DEFINE row == [action[a] EXCEPT !.state = "active", !.pending = FALSE,
                                        !.acknowledged = TRUE, !.resumeRequested = TRUE]
    <2>1. row.state = "active" /\ row.runState = action[a].runState
      BY <1>0 DEF ActionRow
    <2> HIDE DEF row
    <2>2. /\ WriteAction(a, row)
          /\ row.state \in ActiveStates /\ action[a].state \in ActiveStates
      BY <1>8, <2>1 DEF ContinueLateWarning, ActiveStates, row
    <2>3. QED
      BY <1>8, <2>1, <2>2, ActionRowOnly DEF ContinueLateWarning
  <1>9. QED
    BY <1>1, <1>2, <1>3, <1>4, <1>5, <1>6, <1>7, <1>8 DEF OperatorCommand

-----------------------------------------------------------------------------
(* Runner requests.                                                        *)

\* What holds of a queued latest Run.
LEMMA QueuedRun ==
    ASSUME AgreementInv, NEW a \in Actions, attempt[a] > 0,
           run[a][attempt[a]].state = "queued"
    PROVE  /\ attempt[a] \in Attempts
           /\ action[a].state = "queued" /\ action[a].runState = "none"
           /\ run[a][attempt[a]].lease = 0
           /\ \A f \in Fences : ~lease[a][attempt[a]][f].current
  <1>1. Holds(a) /\ attempt[a] \in 0..MaxAttempt
    BY RowTypes DEF AgreementInv, TypeOK
  <1>2. attempt[a] \in Attempts
    BY <1>1, ConstantsAssumption DEF Attempts
  <1>3. action[a].state = "queued"
    BY <1>1 DEF Holds, Agrees, Latest
  <1>4. action[a].runState = "none"
    BY <1>1, <1>3 DEF Holds, Sound, ActiveStates
  <1>5. LeasesAgree(a, attempt[a]) /\ run[a][attempt[a]].lease \in 0..MaxFence
    BY <1>1, <1>2, RowTypes DEF Holds, AgreementInv, RunRow
  <1>6. run[a][attempt[a]].lease = 0
    BY <1>5, ConstantsAssumption DEF LeasesAgree
  <1>7. QED
    BY <1>2, <1>3, <1>4, <1>5, <1>6, ConstantsAssumption DEF LeasesAgree, Fences

LEMMA AgreementLeaseRequest ==
    ASSUME AgreementInv, TypeOK', NEW s \in Sessions, LeaseRequest(s)
    PROVE  AgreementInv'
  <1>1. CASE AcceptHandshake(s)
    BY <1>1, NoRowThatMatters DEF AcceptHandshake
  <1>2. ASSUME NEW a \in Actions, AcquireLease(a, s)
        PROVE  AgreementInv'
    <2>1. attempt[a] > 0 /\ run[a][attempt[a]].state = "queued" /\ action[a] \in ActionRow
      BY <1>2, RowTypes DEF AcquireLease, Leasable, OldestQueued, AgreementInv
    <2>2. PICK n \in Attempts : n = attempt[a]
      BY <2>1, QueuedRun
    <2>3. /\ action[a].state = "queued" /\ run[a][n] \in RunRow
          /\ LeasesAgree(a, n) /\ \A g \in Fences : ~lease[a][n][g].current
      BY <2>1, <2>2, QueuedRun, RowTypes DEF AgreementInv, Holds
    <2>4. PICK f \in Fences : f = run[a][n].fence + 1
      BY <1>2, <2>2, <2>3, ConstantsAssumption DEF AcquireLease, NextFence, RunRow, Fences
    <2> DEFINE row == Bumped(action[a], "active", "running")
               r   == [run[a][n] EXCEPT !.state = "leased", !.fence = f, !.lease = f]
               l   == [session |-> s, left |-> LeaseTicks, heartbeat |-> 0, event |-> 0,
                       current |-> TRUE]
    <2>5. row.state = "active" /\ row.runState = "running"
      BY <2>1 DEF ActionRow, Bumped
    <2>6. r.state = "leased" /\ r.lease = f /\ r.fence = f
      BY <2>3 DEF RunRow
    <2>7. l.session = s /\ l.current = TRUE
      OBVIOUS
    <2>8. /\ WriteAction(a, row) /\ WriteRun(a, n, r) /\ WriteLease(a, n, f, l)
          /\ UNCHANGED <<attempt, runner>> /\ runner[SessionOwner[s]] = "enabled"
      BY <1>2, <2>2, <2>3, <2>4 DEF AcquireLease, NextFence, Leasable
    <2> HIDE DEF row, r, l
    <2>9. /\ run'[a][n] = r
          /\ \A b \in Actions, m \in Attempts, g \in Fences :
               lease'[b][m][g] = IF b = a /\ m = n /\ g = f THEN l ELSE lease[b][m][g]
      BY <2>8, WrittenRows DEF AgreementInv
    <2>10. LeasesAgree(a, n)'
      <3>1. s # NoSession
        BY ConstantsAssumption
      <3>2. ASSUME NEW g \in Fences
            PROVE  /\ lease'[a][n][g].current <=> g = f
                   /\ g > f <=> lease'[a][n][g].session = NoSession
                   /\ lease'[a][n][g].current
                        => runner[SessionOwner[lease'[a][n][g].session]] = "enabled"
        <4>1. CASE g = f
          BY <2>7, <2>8, <2>9, <3>1, <4>1, ConstantsAssumption DEF Fences
        <4>2. CASE g # f
          <5>1. lease'[a][n][g] = lease[a][n][g]
            BY <2>9, <4>2
          <5>2. g > f <=> g > run[a][n].fence
            BY <2>3, <2>4, <4>2, ConstantsAssumption DEF Fences, RunRow
          <5>3. QED
            BY <2>3, <4>2, <5>1, <5>2 DEF LeasesAgree
        <4>3. QED
          BY <4>1, <4>2
      <3>3. f > 0
        BY ConstantsAssumption DEF Fences
      <3>4. QED
        BY <2>6, <2>8, <2>9, <3>2, <3>3 DEF LeasesAgree
    <2>11. QED
      BY <2>2, <2>5, <2>6, <2>8, <2>9, <2>10, LatestRunOnly
      DEF Unqueued, ActiveStates, TerminalKinds
  <1>3. ASSUME NEW a \in Actions, ExhaustFencing(a, s)
        PROVE  AgreementInv'
    <2>1. attempt[a] > 0 /\ run[a][attempt[a]].state = "queued" /\ action[a] \in ActionRow
      BY <1>3, RowTypes DEF ExhaustFencing, Leasable, OldestQueued, AgreementInv
    <2>2. PICK n \in Attempts : n = attempt[a]
      BY <2>1, QueuedRun
    <2>3. /\ run[a][n] \in RunRow /\ run[a][n].lease = 0
          /\ \A g \in Fences : ~lease[a][n][g].current
      BY <2>1, <2>2, QueuedRun, RowTypes DEF AgreementInv
    <2> DEFINE row == Settled(action[a], "failed")
               r   == [run[a][n] EXCEPT !.state = "failed", !.reason = "fencing_exhausted"]
    <2>4. row.state = "failed" /\ row.runState = "none"
      BY <2>1 DEF ActionRow, Settled
    <2>5. r.state = "failed" /\ r.lease = 0 /\ r.fence = run[a][n].fence
      BY <2>3 DEF RunRow
    <2>6. WriteAction(a, row) /\ WriteRun(a, n, r) /\ UNCHANGED <<attempt, lease, runner>>
      BY <1>3, <2>2 DEF ExhaustFencing
    <2> HIDE DEF row, r
    <2>7. run'[a][n] = r
      BY <2>6, WrittenRows DEF AgreementInv
    <2>8. LeasesAgree(a, n)'
      BY <2>3, <2>5, <2>6, <2>7, LeaseLetGo
    <2>9. QED
      BY <2>2, <2>4, <2>5, <2>6, <2>8, LatestRunOnly
      DEF Unqueued, ActiveStates, TerminalKinds
  <1>4. QED
    BY <1>1, <1>2, <1>3 DEF LeaseRequest

\* The latest Run lets its lease go and ends, or waits in the queue again,
\* and the Action with it.
LEMMA RunLetGo ==
    ASSUME AgreementInv, TypeOK', NEW a \in Actions, NEW n \in Attempts,
           run[a][n].state \notin TerminalKinds \cup {"absent"},
           NEW st \in {"queued"} \cup TerminalKinds, WriteAction(a, Settled(action[a], st)),
           NEW r, WriteRun(a, n, r), r.state = st, r.lease = 0, r.fence = run[a][n].fence,
           UNCHANGED <<attempt, runner>>,
           \A b \in Actions, m \in Attempts, g \in Fences :
             /\ b # a \/ m # n => lease'[b][m][g] = lease[b][m][g]
             /\ lease'[a][n][g].session = lease[a][n][g].session
             /\ ~lease'[a][n][g].current
    PROVE  AgreementInv'
  <1> DEFINE row == Settled(action[a], st)
  <1>1. action[a] \in ActionRow
    BY RowTypes DEF AgreementInv
  <1>2. row.state = st /\ row.runState = "none" /\ WriteAction(a, row)
    BY <1>1 DEF ActionRow, Settled
  <1> HIDE DEF row
  <1>3. n = attempt[a]
    BY LiveIsLatest
  <1>4. run'[a][n] = r
    BY WrittenRows DEF AgreementInv
  <1>5. LeasesAgree(a, n)'
    BY <1>4, LeaseLetGo DEF TerminalKinds
  <1>6. QED
    BY <1>2, <1>3, <1>5, LatestRunOnly DEF Unqueued, ActiveStates, TerminalKinds

LEMMA DroppedLeaseFacts ==
    ASSUME AgreementInv, NEW a \in Actions, NEW n \in Attempts, NEW f \in Fences,
           lease[a][n][f].current, NEW l, WriteLease(a, n, f, l),
           l.session = lease[a][n][f].session, l.current = FALSE
    PROVE  \A b \in Actions, m \in Attempts, g \in Fences :
             /\ b # a \/ m # n => lease'[b][m][g] = lease[b][m][g]
             /\ lease'[a][n][g].session = lease[a][n][g].session
             /\ ~lease'[a][n][g].current
  <1>1. \A b \in Actions, m \in Attempts, g \in Fences :
          lease'[b][m][g] = IF b = a /\ m = n /\ g = f THEN l ELSE lease[b][m][g]
    BY WrittenRows DEF AgreementInv
  <1>2. \A g \in Fences : lease[a][n][g].current => g = f
    BY CurrentOwner
  <1>3. QED
    BY <1>1, <1>2

LEMMA AgreementFencedRequest ==
    ASSUME AgreementInv, TypeOK', NEW a \in Actions, NEW n \in Attempts, NEW f \in Fences,
           FencedRequest(a, n, f)
    PROVE  AgreementInv'
  <1>0. /\ action[a] \in ActionRow /\ run[a][n] \in RunRow /\ lease[a][n][f] \in LeaseRow
        /\ Holds(a)
    BY RowTypes DEF AgreementInv
  <1>1. ASSUME NEW s \in Sessions, Heartbeat(a, n, f, s)
        PROVE  AgreementInv'
    <2>1. PICK q : WriteLease(a, n, f, [lease[a][n][f] EXCEPT !.heartbeat = q,
                                                               !.left = LeaseTicks])
      BY <1>1 DEF Heartbeat
    <2> DEFINE l == [lease[a][n][f] EXCEPT !.heartbeat = q, !.left = LeaseTicks]
    <2>2. l.session = lease[a][n][f].session /\ l.current = lease[a][n][f].current
      BY <1>0 DEF LeaseRow
    <2> HIDE DEF l
    <2>3. \A b \in Actions, m \in Attempts, g \in Fences :
            lease'[b][m][g] = IF b = a /\ m = n /\ g = f THEN l ELSE lease[b][m][g]
      BY <2>1, WrittenRows DEF AgreementInv, l
    <2>4. QED
      BY <1>1, <2>2, <2>3, NoRowThatMatters DEF Heartbeat
  <1>2. ASSUME NEW s \in Sessions, AppendStarted(a, n, f, s)
        PROVE  AgreementInv'
    <2>1. PICK q : q = lease[a][n][f].event + 1
      OBVIOUS
    <2>2. n = attempt[a] /\ run[a][n].lease = f /\ f > 0
      BY <1>2, CurrentIsLive, ConstantsAssumption DEF AppendStarted, Authority, Fences
    <2>3. run[a][n].state \in {"leased", "cancel_requested"}
      BY <1>2 DEF AppendStarted, CanMove, RunTransitions
    <2> DEFINE r == [run[a][n] EXCEPT !.state = StartedState(@)]
               l == [lease[a][n][f] EXCEPT !.event = q]
               row == action[a]
    <2>4. /\ r.state = IF run[a][n].state = "leased" THEN "running" ELSE run[a][n].state
          /\ r.lease = run[a][n].lease /\ r.fence = run[a][n].fence
      BY <1>0, <2>3 DEF RunRow, StartedState
    <2>5. l.session = lease[a][n][f].session /\ l.current = lease[a][n][f].current
      BY <1>0 DEF LeaseRow
    <2>6. /\ WriteRun(a, n, r) /\ WriteLease(a, n, f, l)
          /\ UNCHANGED <<action, attempt, runner>>
      BY <1>2, <2>1 DEF AppendStarted
    <2>7. WriteAction(a, row)
      BY <2>6 DEF WriteAction, AgreementInv, TypeOK
    <2> HIDE DEF r, l
    <2>8. /\ run'[a][n] = r
          /\ \A b \in Actions, m \in Attempts, g \in Fences :
               lease'[b][m][g] = IF b = a /\ m = n /\ g = f THEN l ELSE lease[b][m][g]
      BY <2>6, WrittenRows DEF AgreementInv
    <2>9. LeasesAgree(a, n)'
      BY <2>2, <2>3, <2>4, <2>5, <2>6, <2>8, LeaseKept
    <2>10. /\ row.runState = IF run[a][n].state = "leased" THEN "running" ELSE "cancel_requested"
           /\ row.state \in ActiveStates
      BY <1>0, <2>2, <2>3, ConstantsAssumption DEF Holds, Agrees, Sound, Latest, Attempts
    <2> HIDE DEF row
    <2>11. QED
      BY <2>2, <2>3, <2>4, <2>6, <2>7, <2>8, <2>9, <2>10, LatestRunOnly
      DEF Unqueued, ActiveStates, TerminalKinds
  <1>3. ASSUME NEW s \in Sessions, NEW k \in TerminalKinds, CompleteRun(a, n, f, s, k)
        PROVE  AgreementInv'
    <2>1. PICK q : q = lease[a][n][f].event + 1
      OBVIOUS
    <2> DEFINE r == Completed(run[a][n], k)
               l == [Dropped(lease[a][n][f]) EXCEPT !.event = q]
    <2>2. r.state = k /\ r.lease = 0 /\ r.fence = run[a][n].fence
      BY <1>0 DEF RunRow, Completed
    <2>3. l.session = lease[a][n][f].session /\ l.current = FALSE
      BY <1>0 DEF LeaseRow, Dropped
    <2>4. /\ lease[a][n][f].current /\ run[a][n].state \notin TerminalKinds \cup {"absent"}
          /\ WriteAction(a, Settled(action[a], k)) /\ WriteRun(a, n, r)
          /\ WriteLease(a, n, f, l) /\ UNCHANGED <<attempt, runner>>
      BY <1>3, <2>1 DEF CompleteRun, Authority, CanMove, RunTransitions
    <2> HIDE DEF r, l
    <2>5. \A b \in Actions, m \in Attempts, g \in Fences :
            /\ b # a \/ m # n => lease'[b][m][g] = lease[b][m][g]
            /\ lease'[a][n][g].session = lease[a][n][g].session
            /\ ~lease'[a][n][g].current
      BY <2>3, <2>4, DroppedLeaseFacts
    <2>6. QED
      BY <2>2, <2>4, <2>5, RunLetGo
  <1>4. ASSUME NEW s \in Sessions, AdmitUpload(a, n, f, s)
        PROVE  AgreementInv'
    BY <1>4, NoRowThatMatters DEF AdmitUpload
  <1>5. CASE CloseUpload(a, n, f)
    BY <1>5, NoRowThatMatters DEF CloseUpload
  <1>6. QED
    BY <1>1, <1>2, <1>3, <1>4, <1>5 DEF FencedRequest

-----------------------------------------------------------------------------
(* The repository's own operations, the owner and the clock.               *)

LEMMA AgreementRepositoryOnly ==
    ASSUME AgreementInv, TypeOK', NEW a \in Actions, RepositoryOnly(a)
    PROVE  AgreementInv'
  <1>0. action[a] \in ActionRow
    BY RowTypes DEF AgreementInv
  <1>1. CASE RetryRun(a)
    <2> DEFINE row == Settled(action[a], "queued")
    <2>1. row.state = "queued" /\ row.runState = "none"
      BY <1>0 DEF ActionRow, Settled
    <2> HIDE DEF row
    <2>2. WriteAction(a, row)
      BY <1>1 DEF RetryRun, row
    <2>3. QED
      BY <1>1, <2>1, <2>2, AllocatePreserves DEF RetryRun
  <1>2. ASSUME NEW autoContinue \in BOOLEAN, RecordLateWarning(a, autoContinue)
        PROVE  AgreementInv'
    <2>1. CASE autoContinue
      <3> DEFINE row == [action[a] EXCEPT !.acknowledged = TRUE]
      <3>1. row.state = action[a].state /\ row.runState = action[a].runState
        BY <1>0 DEF ActionRow
      <3>2. WriteAction(a, row)
        BY <1>2, <2>1 DEF RecordLateWarning
      <3> HIDE DEF row
      <3>3. QED
        BY <1>2, <3>1, <3>2, ActionRowOnly DEF RecordLateWarning
    <2>2. CASE ~autoContinue
      <3> DEFINE row == [action[a] EXCEPT !.state = "active_paused_for_warning",
                                          !.pending = TRUE, !.interactions = 1]
      <3>1. row.state \in ActiveStates /\ row.runState = action[a].runState
        BY <1>0 DEF ActionRow, ActiveStates
      <3>2. WriteAction(a, row) /\ action[a].state \in ActiveStates
        BY <1>2, <2>2 DEF RecordLateWarning, ActiveStates
      <3> HIDE DEF row
      <3>3. QED
        BY <1>2, <3>1, <3>2, ActionRowOnly DEF RecordLateWarning
    <2>3. QED
      BY <2>1, <2>2
  <1>3. ASSUME NEW n \in Attempts, NEW f \in Fences, ExpireLease(a, n, f)
        PROVE  AgreementInv'
    <2>1. PICK outcome : outcome = ExpiryOutcome(action[a].state, run[a][n].state)
      OBVIOUS
    <2> DEFINE r == [run[a][n] EXCEPT !.state = outcome.run, !.lease = 0,
                                      !.reason = outcome.reason]
               l == Dropped(lease[a][n][f])
    <2>2. run[a][n] \in RunRow /\ lease[a][n][f] \in LeaseRow
      BY RowTypes DEF AgreementInv
    <2>3. /\ lease[a][n][f].current /\ outcome.ok
          /\ WriteAction(a, Settled(action[a], outcome.action)) /\ WriteRun(a, n, r)
          /\ WriteLease(a, n, f, l) /\ UNCHANGED <<attempt, runner>>
      BY <1>3, <2>1 DEF ExpireLease
    <2>4. outcome.run = outcome.action /\ outcome.run \in {"queued"} \cup TerminalKinds
      BY <2>1, <2>3 DEF ExpiryOutcome, TerminalKinds
    <2>5. r.state = outcome.run /\ r.lease = 0 /\ r.fence = run[a][n].fence
      BY <2>2 DEF RunRow
    <2>6. l.session = lease[a][n][f].session /\ l.current = FALSE
      BY <2>2 DEF LeaseRow, Dropped
    <2>7. run[a][n].state \notin TerminalKinds \cup {"absent"}
      BY <2>3, CurrentIsLive DEF TerminalKinds
    <2> HIDE DEF r, l
    <2>8. \A b \in Actions, m \in Attempts, g \in Fences :
            /\ b # a \/ m # n => lease'[b][m][g] = lease[b][m][g]
            /\ lease'[a][n][g].session = lease[a][n][g].session
            /\ ~lease'[a][n][g].current
      BY <2>3, <2>6, DroppedLeaseFacts
    <2>9. PICK st \in {"queued"} \cup TerminalKinds :
             st = outcome.run /\ WriteAction(a, Settled(action[a], st))
      BY <2>3, <2>4
    <2>10. QED
      BY <2>3, <2>5, <2>7, <2>8, <2>9, RunLetGo
  <1>4. ASSUME NEW n \in Attempts, NEW k \in TerminalKinds, CompleteUnpresented(a, n, k)
        PROVE  AgreementInv'
    <2>1. LeasesAgree(a, n) /\ run[a][n] \in RunRow
      BY RowTypes DEF AgreementInv, Holds
    <2>2. PICK f \in Fences : f = run[a][n].fence
      BY <1>4, <2>1, ConstantsAssumption DEF CompleteUnpresented, RunRow, Fences
    <2>3. PICK q : q = CompletionSequence(lease[a][n][f])
      OBVIOUS
    <2> DEFINE r == Completed(run[a][n], k)
               l == [Dropped(lease[a][n][f]) EXCEPT !.event = q]
    <2>4. lease[a][n][f] \in LeaseRow
      BY RowTypes DEF AgreementInv
    <2>5. r.state = k /\ r.lease = 0 /\ r.fence = run[a][n].fence
      BY <2>1 DEF RunRow, Completed
    <2>6. l.session = lease[a][n][f].session /\ l.current = FALSE
      BY <2>4 DEF LeaseRow, Dropped
    <2>7. /\ run[a][n].state \notin TerminalKinds \cup {"absent"}
          /\ WriteAction(a, Settled(action[a], k)) /\ WriteRun(a, n, r)
          /\ IF lease[a][n][f].current THEN WriteLease(a, n, f, l) ELSE UNCHANGED lease
          /\ UNCHANGED <<attempt, runner>>
      BY <1>4, <2>2, <2>3 DEF CompleteUnpresented, CanMove, RunTransitions
    <2> HIDE DEF r, l
    <2>8. \A b \in Actions, m \in Attempts, g \in Fences :
            /\ b # a \/ m # n => lease'[b][m][g] = lease[b][m][g]
            /\ lease'[a][n][g].session = lease[a][n][g].session
            /\ ~lease'[a][n][g].current
      <3>1. CASE lease[a][n][f].current
        BY <2>6, <2>7, <3>1, DroppedLeaseFacts
      <3>2. CASE ~lease[a][n][f].current
        <4>1. \A g \in Fences : ~lease[a][n][g].current
          BY <2>1, <2>2, <3>2, ConstantsAssumption DEF LeasesAgree, Fences
        <4>2. QED
          BY <2>7, <3>2, <4>1
      <3>3. QED
        BY <3>1, <3>2
    <2>9. QED
      BY <2>5, <2>7, <2>8, RunLetGo
  <1>5. QED
    BY <1>1, <1>2, <1>3, <1>4 DEF RepositoryOnly

LEMMA AgreementRevoke ==
    ASSUME AgreementInv, TypeOK', NEW rn \in Runners, RevokeRunner(rn)
    PROVE  AgreementInv'
  <1>1. /\ attempt' = attempt
        /\ \A other \in Runners \ {rn} : runner'[other] = runner[other]
        /\ \A a \in Actions : action'[a] = FencedAction(rn, a)
        /\ \A a \in Actions, n \in Attempts : run'[a][n] = FencedRun(rn, a, n)
        /\ \A a \in Actions, n \in Attempts, f \in Fences :
             lease'[a][n][f] = IF HeldBy(rn, a, n, f) THEN Dropped(lease[a][n][f])
                                                      ELSE lease[a][n][f]
    BY DEF RevokeRunner, AgreementInv, TypeOK
  <1>2. ASSUME NEW a \in Actions, NEW n \in Attempts,
               \A f \in Fences : ~HeldBy(rn, a, n, f)
        PROVE  run'[a][n] = run[a][n] /\ LeasesAgree(a, n)'
    <2>1. run'[a][n] = run[a][n] /\ \A f \in Fences : lease'[a][n][f] = lease[a][n][f]
      <3>1. FencedRun(rn, a, n) = run[a][n]
        BY <1>2 DEF FencedRun
      <3>2. QED
        BY <1>1, <1>2, <3>1
    <2>2. \A f \in Fences : lease[a][n][f].current =>
            runner'[SessionOwner[lease[a][n][f].session]]
              = runner[SessionOwner[lease[a][n][f].session]]
      BY <1>1, <1>2, CurrentOwner DEF HeldBy
    <2>3. LeasesAgree(a, n)
      BY DEF AgreementInv, Holds
    <2>4. QED
      BY <2>1, <2>2, <2>3 DEF LeasesAgree
  <1>3. ASSUME NEW a \in Actions, NEW n \in Attempts, NEW f \in Fences,
               HeldBy(rn, a, n, f)
        PROVE  Holds(a)'
    <2>1. /\ lease[a][n][f].current /\ n = attempt[a] /\ n > 0
          /\ run[a][n].state \in {"leased", "running", "cancel_requested"}
      BY <1>3, CurrentIsLive, ConstantsAssumption DEF HeldBy, Attempts
    <2>2. /\ Holds(a) /\ action[a] \in ActionRow /\ run[a][n] \in RunRow
          /\ \A g \in Fences : lease[a][n][g] \in LeaseRow
      BY RowTypes DEF AgreementInv
    <2>3. /\ run'[a][n].state = "cancel_requested" /\ run'[a][n].lease = 0
          /\ run'[a][n].fence = run[a][n].fence
      <3>1. FencedRun(rn, a, n) =
              [run[a][n] EXCEPT !.lease = 0,
                                !.state = IF @ \in {"leased", "running"}
                                          THEN "cancel_requested" ELSE @]
        BY <1>3 DEF FencedRun
      <3>2. run'[a][n] = FencedRun(rn, a, n)
        BY <1>1
      <3>3. QED
        BY <2>1, <2>2, <3>1, <3>2 DEF RunRow
    <2>4. \A m \in Attempts : m # n => \A g \in Fences : ~HeldBy(rn, a, m, g)
      BY <2>1, CurrentIsLive DEF HeldBy
    <2>5. \A m \in Attempts : m # n => run'[a][m] = run[a][m] /\ LeasesAgree(a, m)'
      BY <1>2, <2>4
    <2>6. LeasesAgree(a, n)'
      <3>1. \A g \in Fences : lease[a][n][g].current => g = f
        BY <2>1, CurrentOwner
      <3>2. \A g \in Fences : /\ lease'[a][n][g].session = lease[a][n][g].session
                              /\ ~lease'[a][n][g].current
        BY <1>1, <1>3, <2>2, <3>1 DEF Dropped, LeaseRow
      <3>3. QED
        BY <2>3, <3>2, LeaseLetGo
    <2>7. /\ action[a].runState =
               IF run[a][n].state = "cancel_requested" THEN "cancel_requested" ELSE "running"
          /\ action[a].state \in ActiveStates
      BY <2>1, <2>2 DEF Holds, Agrees, Sound, Latest
    <2>8. action'[a].state = action[a].state /\ action'[a].runState = "cancel_requested"
      <3>1. CASE run[a][n].state = "cancel_requested"
        <4>1. \A m \in Attempts, g \in Fences :
                HeldBy(rn, a, m, g) => run[a][m].state \notin {"leased", "running"}
          BY <2>4, <3>1
        <4>2. action'[a] = action[a]
          BY <1>1, <4>1 DEF FencedAction
        <4>3. QED
          BY <2>7, <3>1, <4>2
      <3>2. CASE run[a][n].state # "cancel_requested"
        <4>1. action'[a] = Bumped(action[a], action[a].state, "cancel_requested")
          BY <1>1, <1>3, <2>1, <3>2 DEF FencedAction
        <4>2. QED
          BY <2>2, <4>1 DEF Bumped, ActionRow
      <3>3. QED
        BY <3>1, <3>2
    <2>9. Agrees(a)'
      BY <1>1, <2>1, <2>2, <2>3, <2>5, <2>7, <2>8
      DEF Holds, Agrees, Latest, ActiveStates, TerminalKinds
    <2>10. Sound(a)'
      BY <1>1, <2>1, <2>2, <2>3, <2>5, <2>7, <2>8
      DEF Holds, Sound, ActiveStates, Unqueued
    <2>11. QED
      BY <2>5, <2>6, <2>9, <2>10 DEF Holds
  <1>4. ASSUME NEW a \in Actions, \A n \in Attempts, f \in Fences : ~HeldBy(rn, a, n, f)
        PROVE  Holds(a)'
    <2>1. Holds(a) /\ attempt[a] \in 0..MaxAttempt
      BY RowTypes DEF AgreementInv
    <2>2. action'[a] = action[a]
      BY <1>1, <1>4 DEF FencedAction
    <2>3. \A n \in Attempts : run'[a][n] = run[a][n] /\ LeasesAgree(a, n)'
      BY <1>2, <1>4
    <2>4. attempt[a] > 0 => attempt[a] \in Attempts
      BY <2>1, ConstantsAssumption DEF Attempts
    <2>5. Agrees(a)' /\ Sound(a)'
      BY <1>1, <2>1, <2>2, <2>3, <2>4 DEF Holds, Agrees, Sound, Latest
    <2>6. QED
      BY <2>3, <2>5 DEF Holds
  <1>5. QED
    BY <1>3, <1>4 DEF AgreementInv

LEMMA AgreementTick ==
    ASSUME AgreementInv, TypeOK', Tick
    PROVE  AgreementInv'
  <1>1. \A a \in Actions, n \in Attempts, f \in Fences :
          /\ lease[a][n][f] \in LeaseRow
          /\ lease'[a][n][f] = IF lease[a][n][f].current /\ lease[a][n][f].left > 0
                               THEN [lease[a][n][f] EXCEPT !.left = @ - 1]
                               ELSE lease[a][n][f]
    BY RowTypes DEF Tick, AgreementInv, TypeOK
  <1>2. \A a \in Actions, n \in Attempts, f \in Fences :
          /\ lease'[a][n][f].session = lease[a][n][f].session
          /\ lease'[a][n][f].current = lease[a][n][f].current
    BY <1>1 DEF LeaseRow
  <1>3. QED
    BY <1>2, NoRowThatMatters DEF Tick

-----------------------------------------------------------------------------

LEMMA InitAgreement ==
    ASSUME Init
    PROVE  AgreementInv
  <1>1. TypeOK
    BY ConstantsAssumption
    DEF Init, TypeOK, NoAction, NoRun, NoLease, ActionRow, RunRow, LeaseRow, ActionStates,
        RunStates, TerminalKinds, Reasons
  <1>2. ASSUME NEW a \in Actions PROVE Holds(a)
    <2>1. Agrees(a) /\ Sound(a)
      BY ConstantsAssumption
      DEF Init, Agrees, Sound, NoAction, NoRun, Attempts, ActiveStates, Unqueued,
          TerminalKinds
    <2>2. \A n \in Attempts : LeasesAgree(a, n)
      BY ConstantsAssumption DEF Init, LeasesAgree, NoRun, NoLease, Fences
    <2>3. QED
      BY <2>1, <2>2 DEF Holds
  <1>3. QED
    BY <1>1, <1>2 DEF AgreementInv

LEMMA AgreementStep ==
    ASSUME AgreementInv, [Next]_vars
    PROVE  AgreementInv'
  <1>1. TypeOK'
    BY TypeStep DEF AgreementInv
  <1>2. CASE \E a \in Actions : OperatorCommand(a)
    BY <1>1, <1>2, AgreementOperator
  <1>3. CASE \E s \in Sessions : LeaseRequest(s)
    BY <1>1, <1>3, AgreementLeaseRequest
  <1>4. CASE \E a \in Actions, n \in Attempts, f \in Fences : FencedRequest(a, n, f)
    BY <1>1, <1>4, AgreementFencedRequest
  <1>5. ASSUME NEW rn \in Runners, OwnerCommand(rn)
        PROVE  AgreementInv'
    <2>1. CASE ConfirmEnrollment(rn)
      BY <1>1, <2>1, NoRowThatMatters DEF ConfirmEnrollment, AgreementInv, TypeOK
    <2>2. QED
      BY <1>1, <1>5, <2>1, AgreementRevoke DEF OwnerCommand
  <1>6. CASE Tick
    BY <1>1, <1>6, AgreementTick
  <1>7. CASE \E a \in Actions : RepositoryOnly(a)
    BY <1>1, <1>7, AgreementRepositoryOnly
  <1>8. CASE UNCHANGED vars
    BY <1>1, <1>8, NoRowThatMatters DEF vars
  <1>9. QED
    BY <1>2, <1>3, <1>4, <1>5, <1>6, <1>7, <1>8 DEF Next, ApiNext

LEMMA AgreementInvariant == Spec => []AgreementInv
  <1>1. Init => AgreementInv
    BY InitAgreement
  <1>2. AgreementInv /\ [Next]_vars => AgreementInv'
    BY AgreementStep
  <1>3. QED
    BY <1>1, <1>2, PTL DEF Spec

\* In every reachable state the Action row says of its latest Run what the Run
\* row says, and every earlier Run failed or was cancelled: no interleaving of
\* operator, runner, clock and revocation lets the two rows drift apart.
THEOREM RowsAgree == Spec => []ActionRunAgreement
  <1>1. AgreementInv => ActionRunAgreement
    BY DEF AgreementInv, Holds, ActionRunAgreement
  <1>2. QED
    BY <1>1, AgreementInvariant, PTL

\* In every reachable state a Run has at most one current lease, the one it
\* names, issued with its highest fence to a runner still enabled; leased or
\* running work always has one.
THEOREM LeasesAgreeWithRuns == Spec => []LeaseAgreement
  <1>1. AgreementInv => LeaseAgreement
    BY DEF AgreementInv, Holds, LeaseAgreement
  <1>2. QED
    BY <1>1, AgreementInvariant, PTL

-----------------------------------------------------------------------------
(* Steps.                                                                  *)

\* Leases keep their owners and their event counts, and none becomes current.
LeasesFade(b, m) ==
    \A g \in Fences :
      /\ lease'[b][m][g].session = lease[b][m][g].session
      /\ lease'[b][m][g].event = lease[b][m][g].event
      /\ lease'[b][m][g].current => lease[b][m][g].current

SameEvents(b, m) == events'[b][m] = events[b][m]

Ongoing(b, m) == run[b][m].state \notin TerminalKinds \cup {"absent"}

Keeps(b, m) == run'[b][m] = run[b][m] /\ SameEvents(b, m) /\ LeasesFade(b, m)

Allocates(b, m) ==
    /\ run[b][m].state = "absent" /\ run'[b][m] = NewRun
    /\ SameEvents(b, m) /\ LeasesFade(b, m)

\* A change of state that no runner reported.
Moves(b, m) ==
    /\ Ongoing(b, m)
    /\ run'[b][m].fence = run[b][m].fence
    /\ run'[b][m].state \in {"queued", "cancel_requested"} \cup TerminalKinds
    /\ run'[b][m].state = "queued" => run[b][m].state \in {"queued", "leased"}
    /\ run[b][m].state = "cancel_requested" =>
         run'[b][m].state \in {"cancel_requested", "cancelled", "failed"}
    /\ SameEvents(b, m) /\ LeasesFade(b, m)

Leases(b, m) ==
    \E f \in Fences :
      /\ f = run[b][m].fence + 1
      /\ run[b][m].state = "queued"
      /\ run'[b][m].state = "leased" /\ run'[b][m].fence = f
      /\ SameEvents(b, m)
      /\ lease'[b][m][f].event = 0
      /\ \A g \in Fences \ {f} : lease'[b][m][g] = lease[b][m][g]

\* The event of type k that a runner reports under fence f.
Reports(b, m, f, q, k) ==
    /\ f = run[b][m].fence /\ run'[b][m].fence = f
    /\ q \in 1..MaxEvent
    /\ events'[b][m] = events[b][m] \cup {[fence |-> f, seq |-> q, type |-> k]}
    /\ \A g \in Fences : /\ lease'[b][m][g].session = lease[b][m][g].session
                         /\ lease'[b][m][g].current => lease[b][m][g].current

Starts(b, m) ==
    \E f \in Fences :
      LET q == lease[b][m][f].event + 1 IN
      /\ Reports(b, m, f, q, "started")
      /\ run[b][m].state \in {"leased", "cancel_requested"}
      /\ run'[b][m].state = IF run[b][m].state = "leased" THEN "running" ELSE "cancel_requested"
      /\ \A g \in Fences : lease'[b][m][g].event = IF g = f THEN q ELSE lease[b][m][g].event

\* Under the next number of the current lease, or as the first event of a
\* fence that is nobody's.
Ends(b, m) ==
    \E f \in Fences, q \in 1..MaxEvent, k \in TerminalKinds :
      /\ Ongoing(b, m)
      /\ Reports(b, m, f, q, k)
      /\ run'[b][m].state = k
      /\ run[b][m].state = "cancel_requested" => k # "succeeded"
      /\ \/ q = lease[b][m][f].event + 1
         \/ q = 1 /\ \A e \in events[b][m] : e.fence = f => e.seq # 1

RowMove(b, m) ==
    Keeps(b, m) \/ Allocates(b, m) \/ Moves(b, m) \/ Leases(b, m) \/ Starts(b, m) \/ Ends(b, m)

EveryRow == \A b \in Actions, m \in Attempts : RowMove(b, m)

-----------------------------------------------------------------------------
(* Steps that write one Run.                                               *)

OthersKeep(a, n) == \A b \in Actions, m \in Attempts : b # a \/ m # n => Keeps(b, m)

LEMMA OneRunMoves ==
    ASSUME NEW a \in Actions, NEW n \in Attempts, OthersKeep(a, n), RowMove(a, n)
    PROVE  EveryRow
  BY DEF EveryRow, OthersKeep, RowMove

LEMMA NothingMoves ==
    ASSUME UNCHANGED <<run, events>>, \A b \in Actions, m \in Attempts : LeasesFade(b, m)
    PROVE  EveryRow
  BY DEF EveryRow, RowMove, Keeps, SameEvents

LEMMA LeasesUntouched ==
    ASSUME UNCHANGED lease
    PROVE  \A b \in Actions, m \in Attempts : LeasesFade(b, m)
  BY DEF LeasesFade

LEMMA AllocateMoves ==
    ASSUME AgreementInv, NEW a \in Actions, AllocateRun(a), UNCHANGED <<lease, events>>
    PROVE  EveryRow
  <1>1. Agrees(a) /\ attempt[a] \in 0..MaxAttempt
    BY DEF AgreementInv, Holds, TypeOK
  <1>2. PICK n \in Attempts : n = attempt[a] + 1
    BY <1>1, ConstantsAssumption DEF AllocateRun, Allocatable, Attempts
  <1>3. run[a][n].state = "absent"
    BY <1>1, <1>2 DEF Agrees
  <1>4. WriteRun(a, n, NewRun)
    BY <1>2 DEF AllocateRun
  <1>5. \A b \in Actions, m \in Attempts :
          run'[b][m] = IF b = a /\ m = n THEN NewRun ELSE run[b][m]
    BY <1>4, WrittenRows DEF AgreementInv
  <1>6. \A b \in Actions, m \in Attempts : LeasesFade(b, m) /\ SameEvents(b, m)
    BY LeasesUntouched DEF SameEvents
  <1>7. RowMove(a, n)
    BY <1>3, <1>5, <1>6 DEF RowMove, Allocates
  <1>8. OthersKeep(a, n)
    BY <1>5, <1>6 DEF OthersKeep, Keeps
  <1>9. QED
    BY <1>7, <1>8, OneRunMoves

\* A Run is written, its leases fade, and nobody reported anything.
LEMMA RunWrittenMoves ==
    ASSUME AgreementInv, NEW a \in Actions, NEW n \in Attempts, NEW r, WriteRun(a, n, r),
           UNCHANGED events, \A b \in Actions, m \in Attempts : LeasesFade(b, m),
           Ongoing(a, n), r.fence = run[a][n].fence,
           r.state \in {"queued", "cancel_requested"} \cup TerminalKinds,
           r.state = "queued" => run[a][n].state \in {"queued", "leased"},
           run[a][n].state = "cancel_requested" => r.state \in {"cancelled", "failed"}
    PROVE  EveryRow
  <1>1. \A b \in Actions, m \in Attempts :
          run'[b][m] = IF b = a /\ m = n THEN r ELSE run[b][m]
    BY WrittenRows DEF AgreementInv
  <1>2. RowMove(a, n)
    BY <1>1 DEF RowMove, Moves, SameEvents
  <1>3. OthersKeep(a, n)
    BY <1>1 DEF OthersKeep, Keeps, SameEvents
  <1>4. QED
    BY <1>2, <1>3, OneRunMoves

LEMMA OneLeaseFades ==
    ASSUME AgreementInv, NEW a \in Actions, NEW n \in Attempts, NEW f \in Fences,
           NEW l, WriteLease(a, n, f, l), l.session = lease[a][n][f].session,
           l.event = lease[a][n][f].event, l.current => lease[a][n][f].current
    PROVE  \A b \in Actions, m \in Attempts : LeasesFade(b, m)
  <1>1. \A b \in Actions, m \in Attempts, g \in Fences :
          lease'[b][m][g] = IF b = a /\ m = n /\ g = f THEN l ELSE lease[b][m][g]
    BY WrittenRows DEF AgreementInv
  <1>2. QED
    BY <1>1 DEF LeasesFade

-----------------------------------------------------------------------------
(* The operations, one by one.                                             *)

LEMMA OperatorMoves ==
    ASSUME AgreementInv, NEW a \in Actions, OperatorCommand(a)
    PROVE  EveryRow
  <1>1. CASE PlanUnrepresentable(a) \/ PlanPaused(a) \/ CancelPaused(a) \/ ContinueLateWarning(a)
    BY <1>1, LeasesUntouched, NothingMoves
    DEF PlanUnrepresentable, PlanPaused, CancelPaused, ContinueLateWarning
  <1>2. CASE ContinueAction(a) \/ \E acknowledged \in BOOLEAN : PlanQueued(a, acknowledged)
    BY <1>2, AllocateMoves DEF ContinueAction, PlanQueued
  <1>3. CASE CancelQueued(a)
    <2>1. attempt[a] > 0 /\ run[a][attempt[a]].state = "queued"
      BY <1>3 DEF CancelQueued, AgreementInv, Holds, Agrees, Latest
    <2>2. PICK n \in Attempts : n = attempt[a]
      BY <2>1, QueuedRun
    <2>3. run[a][n].lease = 0 /\ run[a][n] \in RunRow
      BY <2>1, <2>2, QueuedRun, RowTypes DEF AgreementInv
    <2> DEFINE r == [run[a][n] EXCEPT !.state = "cancelled", !.lease = 0,
                                      !.reason = "operator_cancelled"]
    <2>4. r.state = "cancelled" /\ r.fence = run[a][n].fence
      BY <2>3 DEF RunRow
    <2>5. WriteRun(a, n, r) /\ UNCHANGED <<lease, events>>
      BY <1>3, <2>1, <2>2, <2>3 DEF CancelQueued, TerminalKinds
    <2> HIDE DEF r
    <2>6. QED
      BY <2>1, <2>2, <2>4, <2>5, LeasesUntouched, RunWrittenMoves DEF Ongoing, TerminalKinds
  <1>4. CASE CancelActive(a)
    <2>1. PICK n \in Attempts : n = attempt[a]
      BY <1>4, ConstantsAssumption DEF CancelActive, Attempts, AgreementInv, TypeOK
    <2>2. run[a][n].state \in {"leased", "running"} /\ run[a][n] \in RunRow
      BY <1>4, <2>1, RowTypes DEF CancelActive, CanMove, RunTransitions, AgreementInv
    <2> DEFINE r == [run[a][n] EXCEPT !.state = "cancel_requested"]
    <2>3. r.state = "cancel_requested" /\ r.fence = run[a][n].fence
      BY <2>2 DEF RunRow
    <2>4. WriteRun(a, n, r) /\ UNCHANGED <<lease, events>>
      BY <1>4, <2>1 DEF CancelActive
    <2> HIDE DEF r
    <2>5. QED
      BY <2>2, <2>3, <2>4, LeasesUntouched, RunWrittenMoves DEF Ongoing, TerminalKinds
  <1>5. QED
    BY <1>1, <1>2, <1>3, <1>4 DEF OperatorCommand

LEMMA LeaseRequestMoves ==
    ASSUME AgreementInv, NEW s \in Sessions, LeaseRequest(s)
    PROVE  EveryRow
  <1>1. CASE AcceptHandshake(s)
    BY <1>1, LeasesUntouched, NothingMoves DEF AcceptHandshake
  <1>2. ASSUME NEW a \in Actions, AcquireLease(a, s)
        PROVE  EveryRow
    <2>1. attempt[a] > 0 /\ run[a][attempt[a]].state = "queued"
      BY <1>2 DEF AcquireLease, Leasable, OldestQueued
    <2>2. PICK n \in Attempts : n = attempt[a]
      BY <2>1, QueuedRun
    <2>3. run[a][n] \in RunRow
      BY RowTypes DEF AgreementInv
    <2>4. PICK f \in Fences : f = run[a][n].fence + 1
      BY <1>2, <2>2, <2>3, ConstantsAssumption DEF AcquireLease, NextFence, RunRow, Fences
    <2> DEFINE r == [run[a][n] EXCEPT !.state = "leased", !.fence = f, !.lease = f]
               l == [session |-> s, left |-> LeaseTicks, heartbeat |-> 0, event |-> 0,
                     current |-> TRUE]
    <2>5. r.state = "leased" /\ r.fence = f
      BY <2>3 DEF RunRow
    <2>6. l.event = 0
      OBVIOUS
    <2>7. WriteRun(a, n, r) /\ WriteLease(a, n, f, l) /\ UNCHANGED events
      BY <1>2, <2>2, <2>4 DEF AcquireLease, NextFence
    <2> HIDE DEF r, l
    <2>8. /\ \A b \in Actions, m \in Attempts :
               run'[b][m] = IF b = a /\ m = n THEN r ELSE run[b][m]
          /\ \A b \in Actions, m \in Attempts, g \in Fences :
               lease'[b][m][g] = IF b = a /\ m = n /\ g = f THEN l ELSE lease[b][m][g]
      BY <2>7, WrittenRows DEF AgreementInv
    <2>9. Leases(a, n)
      BY <2>1, <2>2, <2>4, <2>5, <2>6, <2>7, <2>8 DEF Leases, SameEvents
    <2>10. OthersKeep(a, n)
      BY <2>7, <2>8 DEF OthersKeep, Keeps, SameEvents, LeasesFade
    <2>11. QED
      BY <2>9, <2>10, OneRunMoves DEF RowMove
  <1>3. ASSUME NEW a \in Actions, ExhaustFencing(a, s)
        PROVE  EveryRow
    <2>1. attempt[a] > 0 /\ run[a][attempt[a]].state = "queued"
      BY <1>3 DEF ExhaustFencing, Leasable, OldestQueued
    <2>2. PICK n \in Attempts : n = attempt[a]
      BY <2>1, QueuedRun
    <2>3. run[a][n] \in RunRow
      BY RowTypes DEF AgreementInv
    <2> DEFINE r == [run[a][n] EXCEPT !.state = "failed", !.reason = "fencing_exhausted"]
    <2>4. r.state = "failed" /\ r.fence = run[a][n].fence
      BY <2>3 DEF RunRow
    <2>5. WriteRun(a, n, r) /\ UNCHANGED <<lease, events>>
      BY <1>3, <2>2 DEF ExhaustFencing
    <2> HIDE DEF r
    <2>6. QED
      BY <2>1, <2>2, <2>4, <2>5, LeasesUntouched, RunWrittenMoves DEF Ongoing, TerminalKinds
  <1>4. QED
    BY <1>1, <1>2, <1>3 DEF LeaseRequest

\* A Run is written together with an event under its own fence.
LEMMA ReportMoves ==
    ASSUME AgreementInv, NEW a \in Actions, NEW n \in Attempts, NEW f \in Fences,
           NEW q \in 1..MaxEvent, NEW k \in {"started"} \cup TerminalKinds,
           NEW r, WriteRun(a, n, r), r.fence = f, run[a][n].fence = f,
           InsertEvent(a, n, [fence |-> f, seq |-> q, type |-> k]),
           \A b \in Actions, m \in Attempts : b # a \/ m # n => LeasesFade(b, m),
           \A g \in Fences : /\ lease'[a][n][g].session = lease[a][n][g].session
                             /\ lease'[a][n][g].current => lease[a][n][g].current
    PROVE  /\ OthersKeep(a, n)
           /\ run'[a][n] = r
           /\ Reports(a, n, f, q, k)
  <1> DEFINE new == [fence |-> f, seq |-> q, type |-> k]
  <1>1. new \in EventRow /\ InsertEvent(a, n, new)
    BY DEF EventRow
  <1> HIDE DEF new
  <1>2. \A b \in Actions, m \in Attempts :
          events'[b][m] = IF b = a /\ m = n THEN events[a][n] \cup {new} ELSE events[b][m]
    BY <1>1, InsertEventFacts DEF AgreementInv
  <1>3. \A b \in Actions, m \in Attempts :
          run'[b][m] = IF b = a /\ m = n THEN r ELSE run[b][m]
    BY WrittenRows DEF AgreementInv
  <1>4. OthersKeep(a, n)
    BY <1>2, <1>3 DEF OthersKeep, Keeps, SameEvents
  <1>5. QED
    BY <1>2, <1>3, <1>4 DEF Reports, new

LEMMA FencedRequestMoves ==
    ASSUME AgreementInv, NEW a \in Actions, NEW n \in Attempts, NEW f \in Fences,
           FencedRequest(a, n, f)
    PROVE  EveryRow
  <1>0. run[a][n] \in RunRow /\ lease[a][n][f] \in LeaseRow
    BY RowTypes DEF AgreementInv
  <1>1. ASSUME NEW s \in Sessions, Heartbeat(a, n, f, s)
        PROVE  EveryRow
    <2>1. PICK q : WriteLease(a, n, f, [lease[a][n][f] EXCEPT !.heartbeat = q,
                                                               !.left = LeaseTicks])
      BY <1>1 DEF Heartbeat
    <2> DEFINE l == [lease[a][n][f] EXCEPT !.heartbeat = q, !.left = LeaseTicks]
    <2>2. /\ l.session = lease[a][n][f].session /\ l.current = lease[a][n][f].current
          /\ l.event = lease[a][n][f].event
      BY <1>0 DEF LeaseRow
    <2> HIDE DEF l
    <2>3. \A b \in Actions, m \in Attempts : LeasesFade(b, m)
      BY <2>1, <2>2, OneLeaseFades DEF l
    <2>4. QED
      BY <1>1, <2>3, NothingMoves DEF Heartbeat
  <1>2. ASSUME NEW s \in Sessions, AppendStarted(a, n, f, s)
        PROVE  EveryRow
    <2>1. PICK q \in 1..MaxEvent : q = lease[a][n][f].event + 1
      BY <1>0, <1>2, ConstantsAssumption DEF AppendStarted, NextSequenceFree, LeaseRow
    <2>2. run[a][n].fence = f
      BY <1>2, CurrentIsLive DEF AppendStarted, Authority
    <2>3. run[a][n].state \in {"leased", "cancel_requested"}
      BY <1>2 DEF AppendStarted, CanMove, RunTransitions
    <2> DEFINE r == [run[a][n] EXCEPT !.state = StartedState(@)]
               l == [lease[a][n][f] EXCEPT !.event = q]
    <2>4. /\ r.state = IF run[a][n].state = "leased" THEN "running" ELSE "cancel_requested"
          /\ r.fence = f
      BY <1>0, <2>2, <2>3 DEF RunRow, StartedState
    <2>5. /\ l.session = lease[a][n][f].session /\ l.current = lease[a][n][f].current
          /\ l.event = q
      BY <1>0 DEF LeaseRow
    <2>6. /\ WriteRun(a, n, r) /\ WriteLease(a, n, f, l)
          /\ InsertEvent(a, n, [fence |-> f, seq |-> q, type |-> "started"])
      BY <1>2, <2>1 DEF AppendStarted
    <2> HIDE DEF r, l
    <2>7. \A b \in Actions, m \in Attempts, g \in Fences :
            lease'[b][m][g] = IF b = a /\ m = n /\ g = f THEN l ELSE lease[b][m][g]
      BY <2>6, WrittenRows DEF AgreementInv
    <2>8. /\ \A b \in Actions, m \in Attempts : b # a \/ m # n => LeasesFade(b, m)
          /\ \A g \in Fences : /\ lease'[a][n][g].session = lease[a][n][g].session
                               /\ lease'[a][n][g].current => lease[a][n][g].current
                               /\ lease'[a][n][g].event = IF g = f THEN q
                                                          ELSE lease[a][n][g].event
      BY <2>5, <2>7 DEF LeasesFade
    <2>9. OthersKeep(a, n) /\ run'[a][n] = r /\ Reports(a, n, f, q, "started")
      BY <2>2, <2>4, <2>6, <2>8, ReportMoves
    <2>10. Starts(a, n)
      BY <2>1, <2>3, <2>4, <2>8, <2>9 DEF Starts
    <2>11. QED
      BY <2>9, <2>10, OneRunMoves DEF RowMove
  <1>3. ASSUME NEW s \in Sessions, NEW k \in TerminalKinds, CompleteRun(a, n, f, s, k)
        PROVE  EveryRow
    <2>1. PICK q \in 1..MaxEvent : q = lease[a][n][f].event + 1
      BY <1>0, <1>3, ConstantsAssumption DEF CompleteRun, NextSequenceFree, LeaseRow
    <2>2. run[a][n].fence = f
      BY <1>3, CurrentIsLive DEF CompleteRun, Authority
    <2> DEFINE r == Completed(run[a][n], k)
               l == [Dropped(lease[a][n][f]) EXCEPT !.event = q]
    <2>3. r.state = k /\ r.fence = f
      BY <1>0, <2>2 DEF RunRow, Completed
    <2>4. l.session = lease[a][n][f].session /\ l.current = FALSE
      BY <1>0 DEF LeaseRow, Dropped
    <2>5. /\ WriteRun(a, n, r) /\ WriteLease(a, n, f, l)
          /\ InsertEvent(a, n, [fence |-> f, seq |-> q, type |-> k])
          /\ CanMove(run[a][n].state, k) /\ lease[a][n][f].current
      BY <1>3, <2>1 DEF CompleteRun, Authority
    <2> HIDE DEF r, l
    <2>6. \A b \in Actions, m \in Attempts, g \in Fences :
            lease'[b][m][g] = IF b = a /\ m = n /\ g = f THEN l ELSE lease[b][m][g]
      BY <2>5, WrittenRows DEF AgreementInv
    <2>7. /\ \A b \in Actions, m \in Attempts : b # a \/ m # n => LeasesFade(b, m)
          /\ \A g \in Fences : /\ lease'[a][n][g].session = lease[a][n][g].session
                               /\ lease'[a][n][g].current => lease[a][n][g].current
      BY <2>4, <2>6 DEF LeasesFade
    <2>8. OthersKeep(a, n) /\ run'[a][n] = r /\ Reports(a, n, f, q, k)
      BY <2>2, <2>3, <2>5, <2>7, ReportMoves
    <2>9. Ongoing(a, n) /\ (run[a][n].state = "cancel_requested" => k # "succeeded")
      BY <2>5 DEF CanMove, RunTransitions, Ongoing, TerminalKinds
    <2>10. Ends(a, n)
      BY <2>1, <2>3, <2>8, <2>9 DEF Ends
    <2>11. QED
      BY <2>8, <2>10, OneRunMoves DEF RowMove
  <1>4. ASSUME NEW s \in Sessions, AdmitUpload(a, n, f, s)
        PROVE  EveryRow
    BY <1>4, LeasesUntouched, NothingMoves DEF AdmitUpload
  <1>5. CASE CloseUpload(a, n, f)
    BY <1>5, LeasesUntouched, NothingMoves DEF CloseUpload
  <1>6. QED
    BY <1>1, <1>2, <1>3, <1>4, <1>5 DEF FencedRequest

LEMMA RepositoryOnlyMoves ==
    ASSUME AgreementInv, NEW a \in Actions, RepositoryOnly(a)
    PROVE  EveryRow
  <1>1. CASE RetryRun(a)
    BY <1>1, AllocateMoves DEF RetryRun
  <1>2. CASE \E autoContinue \in BOOLEAN : RecordLateWarning(a, autoContinue)
    BY <1>2, LeasesUntouched, NothingMoves DEF RecordLateWarning
  <1>3. ASSUME NEW n \in Attempts, NEW f \in Fences, ExpireLease(a, n, f)
        PROVE  EveryRow
    <2>0. run[a][n] \in RunRow /\ lease[a][n][f] \in LeaseRow
      BY RowTypes DEF AgreementInv
    <2>1. PICK outcome : outcome = ExpiryOutcome(action[a].state, run[a][n].state)
      OBVIOUS
    <2> DEFINE r == [run[a][n] EXCEPT !.state = outcome.run, !.lease = 0,
                                      !.reason = outcome.reason]
               l == Dropped(lease[a][n][f])
    <2>2. /\ outcome.ok /\ WriteRun(a, n, r) /\ WriteLease(a, n, f, l) /\ UNCHANGED events
      BY <1>3, <2>1 DEF ExpireLease
    <2>3. /\ run[a][n].state \in {"leased", "running", "cancel_requested"}
          /\ outcome.run = IF run[a][n].state = "leased" THEN "queued" ELSE "failed"
      BY <2>1, <2>2 DEF ExpiryOutcome
    <2>4. r.state = outcome.run /\ r.fence = run[a][n].fence
      BY <2>0 DEF RunRow
    <2>5. /\ l.session = lease[a][n][f].session /\ l.event = lease[a][n][f].event
          /\ l.current = FALSE
      BY <2>0 DEF LeaseRow, Dropped
    <2> HIDE DEF r, l
    <2>6. \A b \in Actions, m \in Attempts : LeasesFade(b, m)
      BY <2>2, <2>5, OneLeaseFades
    <2>7. QED
      BY <2>2, <2>3, <2>4, <2>6, RunWrittenMoves DEF Ongoing, TerminalKinds
  <1>4. ASSUME NEW n \in Attempts, NEW k \in TerminalKinds, CompleteUnpresented(a, n, k)
        PROVE  EveryRow
    <2>1. run[a][n] \in RunRow
      BY RowTypes DEF AgreementInv
    <2>2. PICK f \in Fences : f = run[a][n].fence
      BY <1>4, <2>1, ConstantsAssumption DEF CompleteUnpresented, RunRow, Fences
    <2>3. lease[a][n][f] \in LeaseRow
      BY RowTypes DEF AgreementInv
    <2>4. PICK q \in 1..MaxEvent : q = CompletionSequence(lease[a][n][f])
      <3>1. CompletionSequence(lease[a][n][f]) <= MaxEvent
        BY <1>4, <2>2 DEF CompleteUnpresented
      <3>2. CompletionSequence(lease[a][n][f]) \in Nat \ {0}
        BY <2>3, ConstantsAssumption DEF CompletionSequence, LeaseRow
      <3>3. QED
        BY <3>1, <3>2, ConstantsAssumption
    <2> DEFINE r == Completed(run[a][n], k)
               l == [Dropped(lease[a][n][f]) EXCEPT !.event = q]
    <2>5. r.state = k /\ r.fence = f
      BY <2>1, <2>2 DEF RunRow, Completed
    <2>6. l.session = lease[a][n][f].session /\ l.current = FALSE
      BY <2>3 DEF LeaseRow, Dropped
    <2>7. /\ CanMove(run[a][n].state, k) /\ WriteRun(a, n, r)
          /\ InsertEvent(a, n, [fence |-> f, seq |-> q, type |-> k])
          /\ IF lease[a][n][f].current THEN WriteLease(a, n, f, l) ELSE UNCHANGED lease
          /\ \A e \in events[a][n] : e.fence = f => e.seq # q
      BY <1>4, <2>2, <2>4 DEF CompleteUnpresented
    <2> HIDE DEF r, l
    <2>8. /\ \A b \in Actions, m \in Attempts : b # a \/ m # n => LeasesFade(b, m)
          /\ \A g \in Fences : /\ lease'[a][n][g].session = lease[a][n][g].session
                               /\ lease'[a][n][g].current => lease[a][n][g].current
      <3>1. CASE lease[a][n][f].current
        <4>1. \A b \in Actions, m \in Attempts, g \in Fences :
                lease'[b][m][g] = IF b = a /\ m = n /\ g = f THEN l ELSE lease[b][m][g]
          BY <2>7, <3>1, WrittenRows DEF AgreementInv
        <4>2. QED
          BY <2>6, <4>1 DEF LeasesFade
      <3>2. CASE ~lease[a][n][f].current
        BY <2>7, <3>2 DEF LeasesFade
      <3>3. QED
        BY <3>1, <3>2
    <2>9. OthersKeep(a, n) /\ run'[a][n] = r /\ Reports(a, n, f, q, k)
      BY <2>2, <2>5, <2>7, <2>8, ReportMoves
    <2>10. Ongoing(a, n) /\ (run[a][n].state = "cancel_requested" => k # "succeeded")
      BY <2>7 DEF CanMove, RunTransitions, Ongoing, TerminalKinds
    <2>11. \/ q = lease[a][n][f].event + 1
           \/ q = 1 /\ \A e \in events[a][n] : e.fence = f => e.seq # 1
      BY <2>4, <2>7 DEF CompletionSequence
    <2>12. Ends(a, n)
      BY <2>5, <2>9, <2>10, <2>11 DEF Ends
    <2>13. QED
      BY <2>9, <2>12, OneRunMoves DEF RowMove
  <1>5. QED
    BY <1>1, <1>2, <1>3, <1>4 DEF RepositoryOnly

LEMMA RevokeMoves ==
    ASSUME AgreementInv, NEW rn \in Runners, RevokeRunner(rn)
    PROVE  EveryRow
  <1>1. /\ events' = events
        /\ \A a \in Actions, n \in Attempts : run'[a][n] = FencedRun(rn, a, n)
        /\ \A a \in Actions, n \in Attempts, f \in Fences :
             lease'[a][n][f] = IF HeldBy(rn, a, n, f) THEN Dropped(lease[a][n][f])
                                                      ELSE lease[a][n][f]
    BY DEF RevokeRunner, AgreementInv, TypeOK
  <1>2. \A a \in Actions, n \in Attempts, f \in Fences : lease[a][n][f] \in LeaseRow
    BY RowTypes DEF AgreementInv
  <1>3. \A a \in Actions, n \in Attempts : LeasesFade(a, n)
    <2>1. \A l \in LeaseRow : /\ Dropped(l).session = l.session /\ Dropped(l).event = l.event
                             /\ ~Dropped(l).current
      BY DEF Dropped, LeaseRow
    <2>2. QED
      BY <1>1, <1>2, <2>1 DEF LeasesFade
  <1>4. ASSUME NEW a \in Actions, NEW n \in Attempts
        PROVE  RowMove(a, n)
    <2>1. CASE \A f \in Fences : ~HeldBy(rn, a, n, f)
      BY <1>1, <1>3, <2>1 DEF RowMove, Keeps, SameEvents, FencedRun
    <2>2. ASSUME NEW f \in Fences, HeldBy(rn, a, n, f)
          PROVE  RowMove(a, n)
      <3>1. /\ run[a][n].state \in {"leased", "running", "cancel_requested"}
            /\ run[a][n] \in RunRow
        BY <2>2, CurrentIsLive, RowTypes DEF HeldBy, AgreementInv
      <3>2. run'[a][n] = [run[a][n] EXCEPT !.lease = 0,
                            !.state = IF @ \in {"leased", "running"} THEN "cancel_requested"
                                                                     ELSE @]
        BY <1>1, <2>2 DEF FencedRun
      <3>3. run'[a][n].state = "cancel_requested" /\ run'[a][n].fence = run[a][n].fence
        BY <3>1, <3>2 DEF RunRow
      <3>4. QED
        BY <1>1, <1>3, <3>1, <3>3 DEF RowMove, Moves, Ongoing, SameEvents, TerminalKinds
    <2>3. QED
      BY <2>1, <2>2
  <1>5. QED
    BY <1>4 DEF EveryRow

LEMMA TickMoves ==
    ASSUME AgreementInv, Tick
    PROVE  EveryRow
  <1>1. \A a \in Actions, n \in Attempts, f \in Fences :
          /\ lease[a][n][f] \in LeaseRow
          /\ lease'[a][n][f] = IF lease[a][n][f].current /\ lease[a][n][f].left > 0
                               THEN [lease[a][n][f] EXCEPT !.left = @ - 1]
                               ELSE lease[a][n][f]
    BY RowTypes DEF Tick, AgreementInv
  <1>2. \A a \in Actions, n \in Attempts : LeasesFade(a, n)
    <2>1. \A l \in LeaseRow :
            LET aged == [l EXCEPT !.left = @ - 1] IN
            aged.session = l.session /\ aged.event = l.event /\ aged.current = l.current
      BY DEF LeaseRow
    <2>2. QED
      BY <1>1, <2>1 DEF LeasesFade
  <1>3. QED
    BY <1>2, NothingMoves DEF Tick

LEMMA StepMoves ==
    ASSUME AgreementInv, [Next]_vars
    PROVE  EveryRow
  <1>1. CASE \E rn \in Runners : ConfirmEnrollment(rn)
    BY <1>1, LeasesUntouched, NothingMoves DEF ConfirmEnrollment
  <1>2. CASE UNCHANGED vars
    BY <1>2, LeasesUntouched, NothingMoves DEF vars
  <1>3. QED
    BY <1>1, <1>2, OperatorMoves, LeaseRequestMoves, FencedRequestMoves, RepositoryOnlyMoves,
       RevokeMoves, TickMoves DEF Next, ApiNext, OwnerCommand

-----------------------------------------------------------------------------
(* Leases.                                                                 *)

\* No step lowers the fence of a Run, gives an issued lease another owner or
\* makes one current again: whatever a runner that lost its lease sends, in
\* whatever order it arrives, its lease stays lost.
THEOREM LostLeasesStayLost == Spec => LeasesAreNotRevived
  <1>1. ASSUME AgreementInv, [Next]_vars, NEW a \in Actions, NEW n \in Attempts
        PROVE  /\ run'[a][n].fence >= run[a][n].fence
               /\ \A f \in Fences :
                    lease[a][n][f].session # NoSession =>
                      /\ lease'[a][n][f].session = lease[a][n][f].session
                      /\ lease'[a][n][f].current => lease[a][n][f].current
    <2>1. RowMove(a, n)
      BY <1>1, StepMoves DEF EveryRow
    <2>2. /\ run[a][n] \in RunRow /\ LeasesAgree(a, n) /\ Sound(a)
      BY <1>1, RowTypes DEF AgreementInv, Holds
    <2>3. run[a][n].fence \in Nat
      BY <2>2, ConstantsAssumption DEF RunRow
    <2>4. CASE Leases(a, n)
      <3>1. PICK f \in Fences :
              /\ f = run[a][n].fence + 1 /\ run'[a][n].fence = f
              /\ \A g \in Fences \ {f} : lease'[a][n][g] = lease[a][n][g]
        BY <2>4 DEF Leases
      <3>2. lease[a][n][f].session = NoSession
        BY <2>2, <2>3, <3>1 DEF LeasesAgree
      <3>3. QED
        BY <2>3, <3>1, <3>2
    <2>5. CASE Allocates(a, n)
      BY <2>2, <2>3, <2>5 DEF Allocates, Sound, NewRun, LeasesFade
    <2>6. CASE Keeps(a, n) \/ Moves(a, n)
      BY <2>3, <2>6 DEF Keeps, Moves, LeasesFade
    <2>7. CASE Starts(a, n) \/ Ends(a, n)
      BY <2>3, <2>7 DEF Starts, Ends, Reports
    <2>8. QED
      BY <2>1, <2>4, <2>5, <2>6, <2>7 DEF RowMove
  <1>2. AgreementInv /\ [Next]_vars =>
          [\A a \in Actions, n \in Attempts :
             /\ run'[a][n].fence >= run[a][n].fence
             /\ \A f \in Fences :
                  lease[a][n][f].session # NoSession =>
                    /\ lease'[a][n][f].session = lease[a][n][f].session
                    /\ lease'[a][n][f].current => lease[a][n][f].current]_vars
    BY <1>1
  <1>3. QED
    BY <1>2, AgreementInvariant, PTL DEF Spec, LeasesAreNotRevived

-----------------------------------------------------------------------------
(* Events.                                                                 *)

\* EventsContiguous, of one Run.
Contiguous(a, n) ==
    \A e \in events[a][n] :
      /\ e.type = "started" => e.fence = run[a][n].fence
      /\ \A q \in 1..(e.seq - 1) :
           \E d \in events[a][n] : d.fence = e.fence /\ d.seq = q
      /\ \A d \in events[a][n] :
           d.fence = e.fence /\ d.seq = e.seq => d = e
      /\ e.type # "started" =>
           /\ run[a][n].state = e.type
           /\ \A d \in events[a][n] :
                d # e => d.type = "started" /\ d.fence <= e.fence /\ d.seq < e.seq

\* Until a Run ends, the events of a fence are as many as its lease counts,
\* and there are none before the Run was leased and started.
Counted(a, n) ==
    run[a][n].state \notin TerminalKinds =>
      /\ \A e \in events[a][n] : e.type = "started"
      /\ \A e \in events[a][n] : e.seq <= lease[a][n][e.fence].event
      /\ \A f \in Fences : \A q \in 1..lease[a][n][f].event :
           \E e \in events[a][n] : e.fence = f /\ e.seq = q
      /\ run[a][n].state \in {"absent", "queued", "leased"} => events[a][n] = {}

EventInv == AgreementInv /\ \A a \in Actions, n \in Attempts : Contiguous(a, n) /\ Counted(a, n)

LEMMA EventStep ==
    ASSUME EventInv, TypeOK', NEW a \in Actions, NEW n \in Attempts, RowMove(a, n)
    PROVE  Contiguous(a, n)' /\ Counted(a, n)'
  <1>0. /\ Contiguous(a, n) /\ Counted(a, n)
        /\ events[a][n] \subseteq EventRow
        /\ \A f \in Fences : lease[a][n][f].event \in Nat
        /\ \A f \in Fences : f \in Nat \ {0}
        /\ \A e \in EventRow : e.fence \in Fences /\ e.seq \in Nat \ {0}
    <2>1. TypeOK /\ Contiguous(a, n) /\ Counted(a, n)
      BY DEF EventInv, AgreementInv
    <2>2. events[a][n] \subseteq EventRow
      BY <2>1 DEF TypeOK
    <2>3. \A f \in Fences : lease[a][n][f].event \in Nat
      BY <2>1, RowTypes, ConstantsAssumption DEF LeaseRow
    <2>4. \A f \in Fences : f \in Nat \ {0}
      BY ConstantsAssumption DEF Fences
    <2>5. \A e \in EventRow : e.fence \in Fences /\ e.seq \in Nat \ {0}
      BY ConstantsAssumption DEF EventRow
    <2>6. QED
      BY <2>1, <2>2, <2>3, <2>4, <2>5
  <1>1. CASE Keeps(a, n)
    BY <1>0, <1>1 DEF Keeps, SameEvents, LeasesFade, Contiguous, Counted
  <1>2. CASE Allocates(a, n)
    <2>1. events[a][n] = {} /\ events'[a][n] = {} /\ run'[a][n].state = "queued"
      BY <1>0, <1>2 DEF Allocates, SameEvents, Counted, TerminalKinds, NewRun
    <2>2. \A f \in Fences : lease'[a][n][f].event = lease[a][n][f].event
      BY <1>2 DEF Allocates, LeasesFade
    <2>3. \A f \in Fences : \A q \in 1..lease[a][n][f].event :
            \E e \in events[a][n] : e.fence = f /\ e.seq = q
      BY <1>0, <1>2 DEF Allocates, Counted, TerminalKinds
    <2>4. QED
      BY <2>1, <2>2, <2>3 DEF Contiguous, Counted
  <1>3. CASE Moves(a, n)
    <2>1. /\ run[a][n].state \notin TerminalKinds /\ run'[a][n].fence = run[a][n].fence
          /\ events'[a][n] = events[a][n]
          /\ \A f \in Fences : lease'[a][n][f].event = lease[a][n][f].event
      BY <1>3 DEF Moves, Ongoing, SameEvents, LeasesFade
    <2>2. Contiguous(a, n)'
      BY <1>0, <2>1 DEF Contiguous, Counted
    <2>3. run'[a][n].state \in {"absent", "queued", "leased"} => events[a][n] = {}
      BY <1>0, <1>3, <2>1 DEF Moves, Counted, TerminalKinds
    <2>4. Counted(a, n)'
      BY <1>0, <2>1, <2>3 DEF Counted
    <2>5. QED
      BY <2>2, <2>4
  <1>4. CASE Leases(a, n)
    <2>1. PICK f \in Fences :
            /\ run'[a][n].state = "leased"
            /\ lease'[a][n][f].event = 0
            /\ \A g \in Fences \ {f} : lease'[a][n][g] = lease[a][n][g]
      BY <1>4 DEF Leases
    <2>2. events[a][n] = {} /\ events'[a][n] = {}
      BY <1>0, <1>4 DEF Leases, SameEvents, Counted, TerminalKinds
    <2>3. \A g \in Fences : \A q \in 1..lease[a][n][g].event :
            \E e \in events[a][n] : e.fence = g /\ e.seq = q
      BY <1>0, <1>4 DEF Leases, Counted, TerminalKinds
    <2>4. \A g \in Fences : \A q \in 1..lease'[a][n][g].event : FALSE
      BY <2>1, <2>2, <2>3
    <2>5. QED
      BY <2>1, <2>2, <2>4 DEF Contiguous, Counted
  <1>5. CASE Starts(a, n)
    <2>1. PICK f \in Fences, q \in Nat \ {0} :
            /\ q = lease[a][n][f].event + 1
            /\ Reports(a, n, f, q, "started")
            /\ run[a][n].state \in {"leased", "cancel_requested"}
            /\ run'[a][n].state \in {"running", "cancel_requested"}
            /\ \A g \in Fences : lease'[a][n][g].event = IF g = f THEN q
                                                         ELSE lease[a][n][g].event
      BY <1>0, <1>5 DEF Starts
    <2> DEFINE new == [fence |-> f, seq |-> q, type |-> "started"]
    <2>2. /\ new.fence = f /\ new.seq = q /\ new.type = "started"
      OBVIOUS
    <2>3. /\ events'[a][n] = events[a][n] \cup {new}
          /\ f = run[a][n].fence /\ run'[a][n].fence = f
      BY <2>1 DEF Reports
    <2> HIDE DEF new
    <2>4. /\ \A e \in events[a][n] : /\ e.type = "started" /\ e.fence = f
                                     /\ e.seq \in Nat \ {0} /\ e.seq < q
          /\ \A p \in 1..(q - 1) : \E e \in events[a][n] : e.fence = f /\ e.seq = p
      <3>1. run[a][n].state \notin TerminalKinds
        BY <2>1 DEF TerminalKinds
      <3>2. \A e \in events[a][n] : e.type = "started" /\ e.fence = f
        BY <1>0, <2>3, <3>1 DEF Counted, Contiguous
      <3>3. \A e \in events[a][n] : /\ e.seq \in Nat \ {0}
                                   /\ e.seq <= lease[a][n][f].event
        BY <1>0, <3>1, <3>2 DEF Counted
      <3>4. \A p \in 1..lease[a][n][f].event :
              \E e \in events[a][n] : e.fence = f /\ e.seq = p
        BY <1>0, <3>1 DEF Counted
      <3>5. lease[a][n][f].event \in Nat /\ lease[a][n][f].event = q - 1
        BY <1>0, <2>1
      <3>6. QED
        BY <3>2, <3>3, <3>4, <3>5
    <2>5. Contiguous(a, n)'
      <3>1. ASSUME NEW e \in events'[a][n], NEW p \in 1..(e.seq - 1)
            PROVE  \E d \in events'[a][n] : d.fence = e.fence /\ d.seq = p
        BY <1>0, <2>2, <2>3, <2>4, <3>1 DEF Contiguous
      <3>2. \A e, d \in events'[a][n] : d.fence = e.fence /\ d.seq = e.seq => d = e
        BY <1>0, <2>2, <2>3, <2>4 DEF Contiguous
      <3>3. \A e \in events'[a][n] : e.type = "started" /\ e.fence = f
        BY <2>2, <2>3, <2>4
      <3>4. QED
        BY <2>3, <3>1, <3>2, <3>3 DEF Contiguous
    <2>6. Counted(a, n)'
      <3>1. \A e \in events'[a][n] : /\ e.type = "started"
                                     /\ e.seq <= lease'[a][n][e.fence].event
        <4>1. lease'[a][n][f].event = q
          BY <2>1
        <4>2. \A e \in events'[a][n] : e.type = "started" /\ e.fence = f /\ e.seq <= q
          BY <2>2, <2>3, <2>4
        <4>3. QED
          BY <4>1, <4>2
      <3>2. ASSUME NEW g \in Fences, NEW p \in 1..lease'[a][n][g].event
            PROVE  \E e \in events'[a][n] : e.fence = g /\ e.seq = p
        <4>1. CASE g = f
          <5>1. p \in 1..q
            BY <2>1, <3>2, <4>1
          <5>2. CASE p = q
            BY <2>2, <2>3, <4>1, <5>2
          <5>3. CASE p # q
            <6>1. p \in 1..(q - 1)
              BY <5>1, <5>3
            <6>2. QED
              BY <2>3, <2>4, <4>1, <6>1
          <5>4. QED
            BY <5>2, <5>3
        <4>2. CASE g # f
          BY <1>0, <2>1, <2>3, <3>2, <4>2 DEF Counted, TerminalKinds
        <4>3. QED
          BY <4>1, <4>2
      <3>3. QED
        BY <2>1, <3>1, <3>2 DEF Counted
    <2>7. QED
      BY <2>5, <2>6
  <1>6. CASE Ends(a, n)
    <2>1. PICK f \in Fences, q \in 1..MaxEvent, k \in TerminalKinds :
            /\ Ongoing(a, n) /\ Reports(a, n, f, q, k) /\ run'[a][n].state = k
            /\ \/ q = lease[a][n][f].event + 1
               \/ q = 1 /\ \A e \in events[a][n] : e.fence = f => e.seq # 1
      BY <1>6 DEF Ends
    <2> DEFINE new == [fence |-> f, seq |-> q, type |-> k]
    <2>2. new.fence = f /\ new.seq = q /\ new.type = k /\ k # "started" /\ q \in Nat \ {0}
      BY ConstantsAssumption DEF TerminalKinds
    <2>3. /\ events'[a][n] = events[a][n] \cup {new}
          /\ f = run[a][n].fence /\ run'[a][n].fence = f
      BY <2>1 DEF Reports
    <2> HIDE DEF new
    <2>4. \A e \in events[a][n] : e.type = "started" /\ e.fence = f /\ e.seq \in Nat \ {0}
      BY <1>0, <2>1, <2>3 DEF Counted, Contiguous, Ongoing
    <2>5. /\ \A e \in events[a][n] : e.seq < q
          /\ \A p \in 1..(q - 1) : \E e \in events[a][n] : e.fence = f /\ e.seq = p
      <3>1. CASE q = lease[a][n][f].event + 1
        BY <1>0, <2>1, <2>4, <3>1 DEF Counted, Ongoing
      <3>2. CASE q = 1 /\ \A e \in events[a][n] : e.fence = f => e.seq # 1
        <4>1. ASSUME NEW e \in events[a][n] PROVE FALSE
          <5>1. e.seq \in Nat \ {0} /\ e.fence = f /\ e.seq # 1
            BY <2>4, <3>2
          <5>2. 1 \in 1..(e.seq - 1)
            BY <5>1
          <5>3. QED
            BY <1>0, <3>2, <5>1, <5>2 DEF Contiguous
        <4>2. QED
          BY <3>2, <4>1
      <3>3. QED
        BY <2>1, <3>1, <3>2
    <2>6. Contiguous(a, n)'
      <3>1. ASSUME NEW e \in events'[a][n], NEW p \in 1..(e.seq - 1)
            PROVE  \E d \in events'[a][n] : d.fence = e.fence /\ d.seq = p
        BY <1>0, <2>2, <2>3, <2>4, <2>5, <3>1 DEF Contiguous
      <3>2. \A e, d \in events'[a][n] : d.fence = e.fence /\ d.seq = e.seq => d = e
        BY <1>0, <2>2, <2>3, <2>4, <2>5 DEF Contiguous
      <3>3. \A e \in events'[a][n] : e.fence = f /\ (e.type # "started" => e = new)
        BY <2>2, <2>3, <2>4
      <3>4. \A d \in events'[a][n] : d # new => d.type = "started" /\ d.fence <= f /\ d.seq < q
        BY <1>0, <2>3, <2>4, <2>5
      <3>5. QED
        BY <2>1, <2>2, <2>3, <3>1, <3>2, <3>3, <3>4 DEF Contiguous
    <2>7. Counted(a, n)'
      BY <2>1 DEF Counted
    <2>8. QED
      BY <2>6, <2>7
  <1>7. QED
    BY <1>1, <1>2, <1>3, <1>4, <1>5, <1>6 DEF RowMove

LEMMA EventInvariant == Spec => []EventInv
  <1>1. Init => AgreementInv
    BY InitAgreement
  <1>2. Init => \A a \in Actions, n \in Attempts : Contiguous(a, n) /\ Counted(a, n)
    BY ConstantsAssumption DEF Init, Contiguous, Counted, NoRun, NoLease
  <1>3. EventInv /\ [Next]_vars => EventInv'
    <2> SUFFICES ASSUME EventInv, [Next]_vars PROVE EventInv'
      OBVIOUS
    <2>1. AgreementInv'
      BY AgreementStep DEF EventInv
    <2>2. EveryRow
      BY StepMoves DEF EventInv
    <2>3. QED
      BY <2>1, <2>2, EventStep DEF EventInv, EveryRow, AgreementInv
  <1>4. QED
    BY <1>1, <1>2, <1>3, PTL DEF Spec, EventInv

\* The events of every fence are numbered 1, 2, 3, ... and end with the Run's
\* own completion; a started event carries the last fence issued, so work that
\* may have begun is never handed out again.
THEOREM EventsAreContiguous == Spec => []EventsContiguous
  <1>1. EventInv => EventsContiguous
    BY DEF EventInv, Contiguous, EventsContiguous
  <1>2. QED
    BY <1>1, EventInvariant, PTL

-----------------------------------------------------------------------------
(* Acknowledgments.                                                        *)

\* There is no warning on what was not planned, and what was acknowledged is
\* not pending.
Answered(a) ==
    /\ action[a].state = "absent" => ~action[a].acknowledged /\ ~action[a].pending
    /\ action[a].acknowledged => ~action[a].pending

AnswerInv == AgreementInv /\ \A a \in Actions : Answered(a)

\* What a step makes of an Action row.
AnswerKept(b) == Answered(b)' /\ (action[b].acknowledged => action'[b].acknowledged)

LEMMA RowAnswered ==
    ASSUME AnswerInv, NEW a \in Actions, NEW row, WriteAction(a, row), row.state # "absent",
           row.acknowledged => ~row.pending, action[a].acknowledged => row.acknowledged
    PROVE  \A b \in Actions : AnswerKept(b)
  <1>1. \A b \in Actions : action'[b] = IF b = a THEN row ELSE action[b]
    BY WrittenRows DEF AnswerInv, AgreementInv
  <1>2. QED
    BY <1>1 DEF AnswerInv, AnswerKept, Answered

LEMMA SettledAnswered ==
    ASSUME AnswerInv, NEW a \in Actions, NEW st, st # "absent",
           WriteAction(a, Settled(action[a], st))
    PROVE  \A b \in Actions : AnswerKept(b)
  <1> DEFINE row == Settled(action[a], st)
  <1>1. row.state = st /\ ~row.pending /\ row.acknowledged = action[a].acknowledged
    BY RowTypes DEF AnswerInv, AgreementInv, Settled, ActionRow
  <1> HIDE DEF row
  <1>2. WriteAction(a, row)
    BY DEF row
  <1>3. QED
    BY <1>1, <1>2, RowAnswered

LEMMA SameAnswers ==
    ASSUME AnswerInv, action' = action
    PROVE  \A b \in Actions : AnswerKept(b)
  BY DEF AnswerInv, AnswerKept, Answered

\* What an operator command makes of the row of its Action.
Answers(a, row) ==
    /\ row.state # "absent"
    /\ row.state = "active_paused_for_warning" => row.state = action[a].state
    /\ Answered(a) => /\ row.acknowledged => ~row.pending
                      /\ action[a].acknowledged => row.acknowledged

LEMMA OperatorRow ==
    ASSUME AgreementInv, NEW a \in Actions, OperatorCommand(a)
    PROVE  \E row : WriteAction(a, row) /\ Answers(a, row)
  <1>0. action[a] \in ActionRow
    BY RowTypes DEF AgreementInv
  <1>1. CASE PlanUnrepresentable(a)
    <2> DEFINE row == [action[a] EXCEPT !.state = "capability_error"]
    <2>1. WriteAction(a, row)
      BY <1>1 DEF PlanUnrepresentable
    <2>2. Answers(a, row)
      BY <1>0, <1>1 DEF PlanUnrepresentable, ActionRow, Answers, Answered
    <2> HIDE DEF row
    <2>3. QED
      BY <2>1, <2>2
  <1>2. ASSUME NEW acknowledged \in BOOLEAN, PlanQueued(a, acknowledged)
        PROVE  \E row : WriteAction(a, row) /\ Answers(a, row)
    <2> DEFINE row == [action[a] EXCEPT !.state = "queued", !.acknowledged = acknowledged]
    <2>1. WriteAction(a, row)
      BY <1>2 DEF PlanQueued
    <2>2. Answers(a, row)
      BY <1>0, <1>2 DEF PlanQueued, ActionRow, Answers, Answered
    <2> HIDE DEF row
    <2>3. QED
      BY <2>1, <2>2
  <1>3. CASE PlanPaused(a)
    <2> DEFINE row == [action[a] EXCEPT !.state = "paused_for_warning", !.pending = TRUE,
                                        !.interactions = 1]
    <2>1. WriteAction(a, row)
      BY <1>3 DEF PlanPaused
    <2>2. Answers(a, row)
      BY <1>0, <1>3 DEF PlanPaused, ActionRow, Answers, Answered
    <2> HIDE DEF row
    <2>3. QED
      BY <2>1, <2>2
  <1>4. CASE ContinueAction(a)
    <2> DEFINE row == [action[a] EXCEPT !.state = "queued", !.pending = FALSE,
                                        !.acknowledged = TRUE]
    <2>1. WriteAction(a, row)
      BY <1>4 DEF ContinueAction
    <2>2. Answers(a, row)
      BY <1>0, <1>4 DEF ContinueAction, ActionRow, Answers, Answered
    <2> HIDE DEF row
    <2>3. QED
      BY <2>1, <2>2
  <1>5. CASE CancelPaused(a)
    <2> DEFINE row == [action[a] EXCEPT !.state = "cancelled", !.pending = FALSE]
    <2>1. WriteAction(a, row)
      BY <1>5 DEF CancelPaused
    <2>2. Answers(a, row)
      BY <1>0, <1>5 DEF CancelPaused, ActionRow, Answers, Answered
    <2> HIDE DEF row
    <2>3. QED
      BY <2>1, <2>2
  <1>6. CASE CancelQueued(a)
    <2> DEFINE row == [action[a] EXCEPT !.state = "cancelled"]
    <2>1. WriteAction(a, row)
      BY <1>6 DEF CancelQueued
    <2>2. Answers(a, row)
      BY <1>0, <1>6 DEF CancelQueued, ActionRow, Answers, Answered
    <2> HIDE DEF row
    <2>3. QED
      BY <2>1, <2>2
  <1>7. CASE CancelActive(a)
    <2> DEFINE row == CancelRequested(action[a])
    <2>1. WriteAction(a, row)
      BY <1>7 DEF CancelActive
    <2>2. Answers(a, row)
      BY <1>0, <1>7 DEF CancelActive, ActiveStates, CancelRequested, ActionRow, Answers, Answered
    <2> HIDE DEF row
    <2>3. QED
      BY <2>1, <2>2
  <1>8. CASE ContinueLateWarning(a)
    <2> DEFINE row == [action[a] EXCEPT !.state = "active", !.pending = FALSE,
                                        !.acknowledged = TRUE, !.resumeRequested = TRUE]
    <2>1. WriteAction(a, row)
      BY <1>8 DEF ContinueLateWarning
    <2>2. Answers(a, row)
      BY <1>0, <1>8 DEF ContinueLateWarning, ActionRow, Answers, Answered
    <2> HIDE DEF row
    <2>3. QED
      BY <2>1, <2>2
  <1>9. QED
    BY <1>1, <1>2, <1>3, <1>4, <1>5, <1>6, <1>7, <1>8 DEF OperatorCommand

LEMMA OperatorAnswers ==
    ASSUME AnswerInv, NEW a \in Actions, OperatorCommand(a)
    PROVE  \A b \in Actions : AnswerKept(b)
  <1>1. PICK row : WriteAction(a, row) /\ Answers(a, row)
    BY OperatorRow DEF AnswerInv
  <1>2. Answered(a)
    BY DEF AnswerInv
  <1>3. QED
    BY <1>1, <1>2, RowAnswered DEF Answers

LEMMA LeaseRequestAnswers ==
    ASSUME AnswerInv, NEW s \in Sessions, LeaseRequest(s)
    PROVE  \A b \in Actions : AnswerKept(b)
  <1>1. CASE AcceptHandshake(s)
    BY <1>1, SameAnswers DEF AcceptHandshake
  <1>2. ASSUME NEW a \in Actions, AcquireLease(a, s)
        PROVE  \A b \in Actions : AnswerKept(b)
    <2>1. action[a] \in ActionRow /\ Answered(a)
      BY RowTypes DEF AnswerInv, AgreementInv
    <2> DEFINE row == IF action[a].state = "queued" THEN Bumped(action[a], "active", "running")
                                                    ELSE action[a]
    <2>2. /\ row.state # "absent" /\ row.acknowledged = action[a].acknowledged
          /\ row.pending = action[a].pending
      BY <1>2, <2>1 DEF AcquireLease, ActionRow, Bumped
    <2>3. WriteAction(a, row)
      BY <1>2 DEF AcquireLease
    <2> HIDE DEF row
    <2>4. QED
      BY <2>1, <2>2, <2>3, RowAnswered DEF Answered
  <1>3. ASSUME NEW a \in Actions, ExhaustFencing(a, s)
        PROVE  \A b \in Actions : AnswerKept(b)
    BY <1>3, SettledAnswered DEF ExhaustFencing
  <1>4. QED
    BY <1>1, <1>2, <1>3 DEF LeaseRequest

LEMMA FencedRequestAnswers ==
    ASSUME AnswerInv, NEW a \in Actions, NEW n \in Attempts, NEW f \in Fences,
           FencedRequest(a, n, f)
    PROVE  \A b \in Actions : AnswerKept(b)
  <1>1. ASSUME NEW s \in Sessions, NEW k \in TerminalKinds, CompleteRun(a, n, f, s, k)
        PROVE  \A b \in Actions : AnswerKept(b)
    BY <1>1, SettledAnswered DEF CompleteRun, TerminalKinds
  <1>2. ASSUME NEW s \in Sessions,
               Heartbeat(a, n, f, s) \/ AppendStarted(a, n, f, s) \/ AdmitUpload(a, n, f, s)
        PROVE  \A b \in Actions : AnswerKept(b)
    BY <1>2, SameAnswers DEF Heartbeat, AppendStarted, AdmitUpload
  <1>3. CASE CloseUpload(a, n, f)
    BY <1>3, SameAnswers DEF CloseUpload
  <1>4. QED
    BY <1>1, <1>2, <1>3 DEF FencedRequest

LEMMA RepositoryOnlyAnswers ==
    ASSUME AnswerInv, NEW a \in Actions, RepositoryOnly(a)
    PROVE  \A b \in Actions : AnswerKept(b)
  <1>0. action[a] \in ActionRow /\ Answered(a)
    BY RowTypes DEF AnswerInv, AgreementInv
  <1>1. CASE RetryRun(a)
    BY <1>1, SettledAnswered DEF RetryRun
  <1>2. ASSUME NEW autoContinue \in BOOLEAN, RecordLateWarning(a, autoContinue)
        PROVE  \A b \in Actions : AnswerKept(b)
    <2>1. ~action[a].acknowledged /\ ~action[a].pending /\ action[a].state = "active"
      BY <1>2 DEF RecordLateWarning, NotCovered, Readable
    <2> DEFINE row == IF autoContinue
                      THEN [action[a] EXCEPT !.acknowledged = TRUE]
                      ELSE [action[a] EXCEPT !.state = "active_paused_for_warning",
                                             !.pending = TRUE, !.interactions = 1]
    <2>2. row.state # "absent" /\ (row.acknowledged => ~row.pending)
      BY <1>0, <2>1 DEF ActionRow
    <2>3. WriteAction(a, row)
      BY <1>2 DEF RecordLateWarning
    <2> HIDE DEF row
    <2>4. QED
      BY <2>1, <2>2, <2>3, RowAnswered
  <1>3. ASSUME NEW n \in Attempts, NEW f \in Fences, ExpireLease(a, n, f)
        PROVE  \A b \in Actions : AnswerKept(b)
    <2>1. PICK outcome : outcome = ExpiryOutcome(action[a].state, run[a][n].state)
      OBVIOUS
    <2>2. outcome.ok /\ WriteAction(a, Settled(action[a], outcome.action))
      BY <1>3, <2>1 DEF ExpireLease
    <2>3. outcome.action # "absent"
      BY <2>1, <2>2 DEF ExpiryOutcome
    <2>4. QED
      BY <2>2, <2>3, SettledAnswered
  <1>4. ASSUME NEW n \in Attempts, NEW k \in TerminalKinds, CompleteUnpresented(a, n, k)
        PROVE  \A b \in Actions : AnswerKept(b)
    BY <1>4, SettledAnswered DEF CompleteUnpresented, TerminalKinds
  <1>5. QED
    BY <1>1, <1>2, <1>3, <1>4 DEF RepositoryOnly

LEMMA RevokeAnswers ==
    ASSUME AnswerInv, NEW rn \in Runners, RevokeRunner(rn)
    PROVE  \A b \in Actions : AnswerKept(b)
  <1> TAKE b \in Actions
  <1>1. action[b] \in ActionRow /\ Answered(b)
    BY RowTypes DEF AnswerInv, AgreementInv
  <1>2. action'[b] = FencedAction(rn, b)
    BY DEF RevokeRunner
  <1>3. /\ action'[b].state = action[b].state /\ action'[b].pending = action[b].pending
        /\ action'[b].acknowledged = action[b].acknowledged
    BY <1>1, <1>2 DEF FencedAction, Bumped, ActionRow
  <1>4. QED
    BY <1>1, <1>3 DEF AnswerKept, Answered

LEMMA AnswerStep ==
    ASSUME AnswerInv, [Next]_vars
    PROVE  \A b \in Actions : AnswerKept(b)
  <1>1. CASE UNCHANGED vars \/ Tick \/ \E rn \in Runners : ConfirmEnrollment(rn)
    BY <1>1, SameAnswers DEF vars, Tick, ConfirmEnrollment
  <1>2. QED
    BY <1>1, OperatorAnswers, LeaseRequestAnswers, FencedRequestAnswers, RevokeAnswers,
       RepositoryOnlyAnswers DEF Next, ApiNext, OwnerCommand

LEMMA AnswerInvariant == Spec => []AnswerInv
  <1>1. Init => AnswerInv
    <2>1. Init => AgreementInv
      BY InitAgreement
    <2>2. Init => \A a \in Actions : Answered(a)
      BY DEF Init, Answered, NoAction
    <2>3. QED
      BY <2>1, <2>2 DEF AnswerInv
  <1>2. AnswerInv /\ [Next]_vars => AnswerInv'
    <2> SUFFICES ASSUME AnswerInv, [Next]_vars PROVE AnswerInv'
      OBVIOUS
    <2>1. AgreementInv'
      BY AgreementStep DEF AnswerInv
    <2>2. QED
      BY <2>1, AnswerStep DEF AnswerInv, AnswerKept
  <1>3. QED
    BY <1>1, <1>2, PTL DEF Spec

\* No step changes a Run that has ended or its events, takes a Run asked to
\* cancel anywhere but to cancelled or failed, or pauses an Action again for a
\* warning that was acknowledged.
THEOREM TakenDecisionsStand == Spec => DecisionsStand
  <1> DEFINE Stands == \A a \in Actions :
        /\ \A n \in Attempts :
             /\ run[a][n].state \in TerminalKinds
                  => run'[a][n] = run[a][n] /\ events'[a][n] = events[a][n]
             /\ run[a][n].state = "cancel_requested" =>
                  /\ run'[a][n].state \in {"cancel_requested", "cancelled", "failed"}
                  /\ run'[a][n].fence = run[a][n].fence
        /\ action[a].acknowledged => action'[a].acknowledged /\ ~action'[a].pending
  <1>1. ASSUME AnswerInv, [Next]_vars PROVE Stands
    <2>1. EveryRow
      BY <1>1, StepMoves DEF AnswerInv
    <2>2. ASSUME NEW a \in Actions, NEW n \in Attempts, run[a][n].state \in TerminalKinds
          PROVE  run'[a][n] = run[a][n] /\ events'[a][n] = events[a][n]
      <3>1. Keeps(a, n)
        BY <2>1, <2>2
        DEF EveryRow, RowMove, Allocates, Moves, Leases, Starts, Ends, Ongoing, TerminalKinds
      <3>2. QED
        BY <3>1 DEF Keeps, SameEvents
    <2>3. ASSUME NEW a \in Actions, NEW n \in Attempts, run[a][n].state = "cancel_requested"
          PROVE  /\ run'[a][n].state \in {"cancel_requested", "cancelled", "failed"}
                 /\ run'[a][n].fence = run[a][n].fence
      <3>1. Keeps(a, n) \/ Moves(a, n) \/ Starts(a, n) \/ Ends(a, n)
        BY <2>1, <2>3 DEF EveryRow, RowMove, Allocates, Leases
      <3>2. QED
        BY <2>3, <3>1 DEF Keeps, Moves, Starts, Ends, Reports, TerminalKinds
    <2>4. \A a \in Actions : AnswerKept(a)
      BY <1>1, AnswerStep
    <2>5. QED
      BY <2>2, <2>3, <2>4 DEF AnswerKept, Answered
  <1>2. AnswerInv /\ [Next]_vars => [Stands]_vars
    BY <1>1
  <1>3. QED
    BY <1>2, AnswerInvariant, PTL DEF Spec, DecisionsStand, Stands

-----------------------------------------------------------------------------
(* The server as it runs: nothing of RepositoryOnly.                       *)

\* No late warning is ever recorded, so no live Action is paused for one.
Unpaused == \A a \in Actions : action[a].state # "active_paused_for_warning"

ServerInv == AgreementInv /\ Unpaused

LEMMA NotPaused ==
    ASSUME ServerInv, NEW a \in Actions, NEW row, WriteAction(a, row),
           row.state # "active_paused_for_warning"
    PROVE  Unpaused'
  BY WrittenRows DEF ServerInv, AgreementInv, Unpaused

LEMMA SettledNotPaused ==
    ASSUME ServerInv, NEW a \in Actions, NEW st, st # "active_paused_for_warning",
           WriteAction(a, Settled(action[a], st))
    PROVE  Unpaused'
  <1>1. Settled(action[a], st).state = st
    BY RowTypes DEF ServerInv, AgreementInv, Settled, ActionRow
  <1>2. QED
    BY <1>1, NotPaused

LEMMA OperatorUnpaused ==
    ASSUME ServerInv, NEW a \in Actions, OperatorCommand(a)
    PROVE  Unpaused'
  <1>1. PICK row : WriteAction(a, row) /\ Answers(a, row)
    BY OperatorRow DEF ServerInv
  <1>2. QED
    BY <1>1, NotPaused DEF ServerInv, Unpaused, Answers

LEMMA RunnerUnpaused ==
    ASSUME ServerInv, NEW s \in Sessions, NEW a \in Actions,
           \/ AcquireLease(a, s) \/ ExhaustFencing(a, s)
           \/ \E n \in Attempts, f \in Fences, k \in TerminalKinds : CompleteRun(a, n, f, s, k)
    PROVE  Unpaused'
  <1>1. CASE AcquireLease(a, s)
    <2> DEFINE row == IF action[a].state = "queued" THEN Bumped(action[a], "active", "running")
                                                    ELSE action[a]
    <2>1. WriteAction(a, row)
      BY <1>1 DEF AcquireLease
    <2>2. row.state # "active_paused_for_warning"
      BY RowTypes DEF ServerInv, AgreementInv, Unpaused, Bumped, ActionRow
    <2> HIDE DEF row
    <2>3. QED
      BY <2>1, <2>2, NotPaused
  <1>2. CASE ExhaustFencing(a, s)
    BY <1>2, SettledNotPaused DEF ExhaustFencing
  <1>3. ASSUME NEW n \in Attempts, NEW f \in Fences, NEW k \in TerminalKinds,
               CompleteRun(a, n, f, s, k)
        PROVE  Unpaused'
    BY <1>3, SettledNotPaused DEF CompleteRun, TerminalKinds
  <1>4. QED
    BY <1>1, <1>2, <1>3

LEMMA ServerStep ==
    ASSUME ServerInv, [RecoveringNext]_vars
    PROVE  ServerInv'
  <1>1. AgreementInv'
    <2>1. [Next]_vars
      BY DEF Next, RecoveringNext, RepositoryOnly
    <2>2. QED
      BY <2>1, AgreementStep DEF ServerInv
  <1> SUFFICES Unpaused'
    BY <1>1 DEF ServerInv
  <1>2. action' = action => Unpaused'
    BY DEF ServerInv, Unpaused
  <1>3. ASSUME NEW rn \in Runners, RevokeRunner(rn)
        PROVE  Unpaused'
    <2>1. ASSUME NEW a \in Actions
          PROVE  action'[a].state # "active_paused_for_warning"
      <3>1. action[a] \in ActionRow /\ action[a].state # "active_paused_for_warning"
        BY RowTypes DEF ServerInv, AgreementInv, Unpaused
      <3>2. action'[a] = FencedAction(rn, a)
        BY <1>3 DEF RevokeRunner
      <3>3. QED
        BY <3>1, <3>2 DEF FencedAction, Bumped, ActionRow
    <2>2. QED
      BY <2>1 DEF Unpaused
  <1>4. CASE \E s \in Sessions : LeaseRequest(s)
    BY <1>2, <1>4, RunnerUnpaused DEF LeaseRequest, AcceptHandshake
  <1>5. ASSUME NEW a \in Actions, NEW n \in Attempts, NEW f \in Fences, FencedRequest(a, n, f)
        PROVE  Unpaused'
    <2>1. CASE \E s \in Sessions, k \in TerminalKinds : CompleteRun(a, n, f, s, k)
      BY <2>1, RunnerUnpaused
    <2>2. CASE \E s \in Sessions : \/ Heartbeat(a, n, f, s)
                                   \/ AppendStarted(a, n, f, s) \/ AdmitUpload(a, n, f, s)
      BY <1>2, <2>2 DEF Heartbeat, AppendStarted, AdmitUpload
    <2>3. CASE CloseUpload(a, n, f)
      BY <1>2, <2>3 DEF CloseUpload
    <2>4. QED
      BY <1>5, <2>1, <2>2, <2>3 DEF FencedRequest
  <1>6. CASE UNCHANGED vars \/ Tick \/ \E rn \in Runners : ConfirmEnrollment(rn)
    BY <1>2, <1>6 DEF vars, Tick, ConfirmEnrollment
  <1>7. ASSUME NEW a \in Actions, NEW n \in Attempts, NEW f \in Fences, ExpireLease(a, n, f)
        PROVE  Unpaused'
    <2> DEFINE outcome == ExpiryOutcome(action[a].state, run[a][n].state)
    <2>1. WriteAction(a, Settled(action[a], outcome.action)) /\ outcome.ok
      BY <1>7 DEF ExpireLease
    <2>2. outcome.action # "active_paused_for_warning"
      BY <2>1 DEF ExpiryOutcome
    <2> HIDE DEF outcome
    <2>3. QED
      BY <2>1, <2>2, SettledNotPaused
  <1>8. QED
    BY <1>3, <1>4, <1>5, <1>6, <1>7, OperatorUnpaused
    DEF RecoveringNext, ApiNext, OwnerCommand

LEMMA ServerInvariant == RecoveringSpec => []ServerInv
  <1>1. Init => ServerInv
    <2>1. Init => AgreementInv
      BY InitAgreement
    <2>2. QED
      BY <2>1 DEF Init, NoAction, ServerInv, Unpaused
  <1>2. ServerInv /\ [RecoveringNext]_vars => ServerInv'
    BY ServerStep
  <1>3. QED
    BY <1>1, <1>2, PTL DEF RecoveringSpec

\* Whatever a runner was doing when its lease expires, the expiry has an
\* outcome and ends or requeues the Run.
THEOREM ExpiryHasAnOutcome == RecoveringSpec => []LostLeaseIsRecoverable
  <1>1. ASSUME ServerInv, NEW a \in Actions, NEW n \in Attempts, NEW f \in Fences,
               lease[a][n][f].current
        PROVE  ExpiryOutcome(action[a].state, run[a][n].state).ok
    <2>1. run[a][n].state \in {"leased", "running", "cancel_requested"} /\ n = attempt[a]
      BY <1>1, CurrentIsLive DEF ServerInv
    <2>2. action[a].runState # "none"
      BY <1>1, <2>1, ConstantsAssumption
      DEF ServerInv, AgreementInv, Holds, Agrees, Latest, Attempts
    <2>3. action[a].state = "active"
      BY <1>1, <2>2 DEF ServerInv, AgreementInv, Holds, Sound, ActiveStates, Unpaused
    <2>4. QED
      BY <2>1, <2>3 DEF ExpiryOutcome, ActiveStates
  <1>2. ServerInv => LostLeaseIsRecoverable
    BY <1>1 DEF LostLeaseIsRecoverable
  <1>3. QED
    BY <1>2, ServerInvariant, PTL

LEMMA OtherFencesKept ==
    ASSUME TypeOK, NEW b \in Actions, NEW m \in Attempts, NEW row \in EventRow,
           InsertEvent(b, m, row),
           NEW a \in Actions, NEW n \in Attempts, NEW f,
           a = b /\ n = m => row.fence # f
    PROVE  {e \in events'[a][n] : e.fence = f} = {e \in events[a][n] : e.fence = f}
  <1>1. \A c \in Actions, o \in Attempts :
          events'[c][o] = IF c = b /\ o = m THEN events[b][m] \cup {row} ELSE events[c][o]
    BY InsertEventFacts
  <1>2. QED
    BY <1>1

\* What is recorded under a fence that has been lost stays as it is, in
\* whatever order the requests made under it arrive.
THEOREM LostFencesAreSilent == RecoveringSpec => LostFenceIsSilent
  <1>1. ASSUME ServerInv, [RecoveringNext]_vars, NEW a \in Actions, NEW n \in Attempts,
               NEW f \in Fences, ~lease[a][n][f].current
        PROVE  {e \in events'[a][n] : e.fence = f} = {e \in events[a][n] : e.fence = f}
    <2>1. CASE events' = events
      BY <2>1
    <2>2. ASSUME NEW b \in Actions, NEW m \in Attempts, NEW g \in Fences, NEW row \in EventRow,
                 row.fence = g, lease[b][m][g].current, InsertEvent(b, m, row)
          PROVE  {e \in events'[a][n] : e.fence = f} = {e \in events[a][n] : e.fence = f}
      <3>1. TypeOK
        BY <1>1 DEF ServerInv, AgreementInv
      <3>2. a = b /\ n = m => row.fence # f
        BY <1>1, <2>2
      <3>3. QED
        BY <2>2, <3>1, <3>2, OtherFencesKept
    <2>3. ASSUME NEW b \in Actions, NEW m \in Attempts, NEW g \in Fences, NEW s \in Sessions,
                 NEW k \in {"started"} \cup TerminalKinds,
                 \/ k = "started" /\ AppendStarted(b, m, g, s)
                 \/ k \in TerminalKinds /\ CompleteRun(b, m, g, s, k)
          PROVE  {e \in events'[a][n] : e.fence = f} = {e \in events[a][n] : e.fence = f}
      <3>1. lease[b][m][g].event \in Nat
        BY <1>1, RowTypes, ConstantsAssumption DEF ServerInv, AgreementInv, LeaseRow
      <3>2. PICK q \in 1..MaxEvent : q = lease[b][m][g].event + 1
        <4>1. lease[b][m][g].event < MaxEvent
          BY <2>3 DEF AppendStarted, CompleteRun, NextSequenceFree
        <4>2. QED
          BY <3>1, <4>1, ConstantsAssumption
      <3> DEFINE row == [fence |-> g, seq |-> q, type |-> k]
      <3>3. row \in EventRow /\ row.fence = g
        BY DEF EventRow
      <3>4. InsertEvent(b, m, row) /\ lease[b][m][g].current
        BY <2>3, <3>2 DEF AppendStarted, CompleteRun, Authority, TerminalKinds
      <3> HIDE DEF row
      <3>5. QED
        BY <2>2, <3>3, <3>4
    <2>4. CASE \E b \in Actions, m \in Attempts, g \in Fences : FencedRequest(b, m, g)
      <3>1. ASSUME NEW b \in Actions, NEW m \in Attempts, NEW g \in Fences,
                   FencedRequest(b, m, g), events' # events
            PROVE  \E s \in Sessions, k \in {"started"} \cup TerminalKinds :
                     \/ k = "started" /\ AppendStarted(b, m, g, s)
                     \/ k \in TerminalKinds /\ CompleteRun(b, m, g, s, k)
        BY <3>1 DEF FencedRequest, Heartbeat, AdmitUpload, CloseUpload
      <3>2. QED
        BY <2>1, <2>3, <2>4, <3>1
    <2>5. CASE (\E b \in Actions : OperatorCommand(b)) \/ \E s \in Sessions : LeaseRequest(s)
      BY <2>1, <2>5
      DEF OperatorCommand, PlanUnrepresentable, PlanQueued, PlanPaused, ContinueAction,
          CancelPaused, CancelQueued, CancelActive, ContinueLateWarning,
          LeaseRequest, AcceptHandshake, AcquireLease, ExhaustFencing
    <2>6. CASE (\E rn \in Runners : OwnerCommand(rn)) \/ Tick \/ UNCHANGED vars
      BY <2>1, <2>6 DEF OwnerCommand, ConfirmEnrollment, RevokeRunner, Tick, vars
    <2>7. CASE \E b \in Actions, m \in Attempts, g \in Fences : ExpireLease(b, m, g)
      BY <2>1, <2>7 DEF ExpireLease
    <2>8. QED
      BY <1>1, <2>4, <2>5, <2>6, <2>7 DEF RecoveringNext, ApiNext
  <1>2. ServerInv /\ [RecoveringNext]_vars =>
          [\A a \in Actions, n \in Attempts, f \in Fences :
             lease[a][n][f].session # NoSession /\ ~lease[a][n][f].current =>
               {e \in events'[a][n] : e.fence = f} = {e \in events[a][n] : e.fence = f}]_vars
    BY <1>1
  <1>3. QED
    BY <1>2, ServerInvariant, PTL DEF RecoveringSpec, LostFenceIsSilent

-----------------------------------------------------------------------------
(* Refinement.  What RunLifecycle sees of the rows.                        *)

Status == [a \in Actions |-> action[a].state]
Phase  == [a \in Actions |-> [n \in Attempts |-> run[a][n].state]]
Token  == [a \in Actions |-> [n \in Attempts |-> run[a][n].fence]]
Begun  == [a \in Actions |-> [n \in Attempts |->
            {e.fence : e \in {d \in events[a][n] : d.type = "started"}}]]

\* A step of the lifecycle, or none.
Mapped == Lifecycle!Next \/ UNCHANGED <<Status, attempt, Phase, Token, Begun>>

-----------------------------------------------------------------------------
(* What the writes are.                                                    *)

LEMMA StatusWritten ==
    ASSUME TypeOK, NEW a \in Actions, NEW row, WriteAction(a, row)
    PROVE  Lifecycle!Become(a, row.state)
  <1>1. action \in [Actions -> ActionRow] /\ action' = [action EXCEPT ![a] = row]
    BY DEF TypeOK, WriteAction
  <1>2. [b \in Actions |-> action'[b].state]
          = [[b \in Actions |-> action[b].state] EXCEPT ![a] = row.state]
    BY <1>1
  <1>3. QED
    BY <1>2 DEF Lifecycle!Become

LEMMA StatusKept ==
    ASSUME TypeOK, NEW a \in Actions, NEW row, WriteAction(a, row),
           row.state = action[a].state
    PROVE  Status' = Status
  <1>1. \A b \in Actions : action'[b] = IF b = a THEN row ELSE action[b]
    BY WrittenRows
  <1>2. QED
    BY <1>1 DEF Status

LEMMA PhaseWritten ==
    ASSUME TypeOK, NEW a \in Actions, NEW n \in Attempts, n = attempt[a],
           NEW r, WriteRun(a, n, r)
    PROVE  Lifecycle!Move(a, r.state)
  <1>1. \A b \in Actions, m \in Attempts :
          run'[b][m] = IF b = a /\ m = n THEN r ELSE run[b][m]
    BY WrittenRows
  <1>2. [Phase EXCEPT ![a][n] = r.state]
          = [b \in Actions |-> [m \in Attempts |-> IF b = a /\ m = n THEN r.state ELSE Phase[b][m]]]
    BY DEF Phase
  <1>3. Phase' = [Phase EXCEPT ![a][n] = r.state]
    BY <1>1, <1>2 DEF Phase
  <1>4. QED
    BY <1>3 DEF Lifecycle!Move, Phase

LEMMA TokenKept ==
    ASSUME TypeOK, NEW a \in Actions, NEW n \in Attempts, NEW r, WriteRun(a, n, r),
           r.fence = run[a][n].fence
    PROVE  Token' = Token
  <1>1. \A b \in Actions, m \in Attempts :
          run'[b][m] = IF b = a /\ m = n THEN r ELSE run[b][m]
    BY WrittenRows
  <1>2. QED
    BY <1>1 DEF Token

LEMMA RunsKept ==
    ASSUME run' = run
    PROVE  Phase' = Phase /\ Token' = Token
  BY DEF Phase, Token

LEMMA InsertedRows ==
    ASSUME TypeOK, NEW a \in Actions, NEW n \in Attempts, NEW row, InsertEvent(a, n, row)
    PROVE  /\ events'[a][n] = events[a][n] \cup {row}
           /\ \A b \in Actions, m \in Attempts : b # a \/ m # n => events'[b][m] = events[b][m]
  BY DEF InsertEvent, TypeOK

IsStart(row) == row.type = "started"
StartsAmong(evs) == {d \in evs : d.type = "started"}

\* The fences of the started events among evs.
Fenced(evs) == {e.fence : e \in StartsAmong(evs)}

LEMMA AddedStart ==
    ASSUME NEW evs, NEW row
    PROVE  /\ IsStart(row) => Fenced(evs \cup {row}) = Fenced(evs) \cup {row.fence}
           /\ ~IsStart(row) => Fenced(evs \cup {row}) = Fenced(evs)
  <1>1. CASE IsStart(row)
    <2>1. StartsAmong(evs \cup {row}) = StartsAmong(evs) \cup {row}
      BY <1>1 DEF StartsAmong, IsStart
    <2>2. QED
      BY <1>1, <2>1 DEF Fenced
  <1>2. CASE ~IsStart(row)
    <2>1. StartsAmong(evs \cup {row}) = StartsAmong(evs)
      BY <1>2 DEF StartsAmong, IsStart
    <2>2. QED
      BY <1>2, <2>1 DEF Fenced
  <1>3. QED
    BY <1>1, <1>2

LEMMA BegunFenced ==
    /\ Begun = [b \in Actions |-> [m \in Attempts |-> Fenced(events[b][m])]]
    /\ Begun' = [b \in Actions |-> [m \in Attempts |-> Fenced(events'[b][m])]]
  BY DEF Begun, Fenced, StartsAmong

LEMMA BegunKept ==
    ASSUME TypeOK, NEW a \in Actions, NEW n \in Attempts, NEW row, ~IsStart(row),
           InsertEvent(a, n, row)
    PROVE  Begun' = Begun
  <1>1. ASSUME NEW b \in Actions, NEW m \in Attempts
        PROVE  Fenced(events'[b][m]) = Fenced(events[b][m])
    BY InsertedRows, AddedStart
  <1>2. QED
    BY <1>1, BegunFenced

LEMMA BegunWritten ==
    ASSUME TypeOK, NEW a \in Actions, NEW n \in Attempts, NEW row, IsStart(row),
           InsertEvent(a, n, row)
    PROVE  Begun' = [Begun EXCEPT ![a][n] = @ \cup {row.fence}]
  <1>1. /\ Fenced(events'[a][n]) = Fenced(events[a][n]) \cup {row.fence}
        /\ \A b \in Actions, m \in Attempts :
             b # a \/ m # n => Fenced(events'[b][m]) = Fenced(events[b][m])
    BY InsertedRows, AddedStart
  <1> DEFINE new == Begun[a][n] \cup {row.fence}
  <1>2. Begun'[a][n] = new
    BY <1>1, BegunFenced
  <1>3. \A b \in Actions, m \in Attempts : b # a \/ m # n => Begun'[b][m] = Begun[b][m]
    BY <1>1, BegunFenced
  <1> HIDE DEF new
  <1>4. [Begun EXCEPT ![a][n] = new]
          = [b \in Actions |-> [m \in Attempts |-> IF b = a /\ m = n THEN new ELSE Begun[b][m]]]
    BY BegunFenced
  <1>5. Begun' = [b \in Actions |-> [m \in Attempts |-> Begun'[b][m]]]
    BY BegunFenced
  <1>6. Begun' = [Begun EXCEPT ![a][n] = new]
    BY <1>2, <1>3, <1>4, <1>5
  <1>7. QED
    BY <1>6 DEF new

LEMMA NothingShown ==
    ASSUME action' = action, attempt' = attempt, run' = run, events' = events
    PROVE  Mapped
  BY DEF Mapped, Status, Phase, Token, Begun

-----------------------------------------------------------------------------
(* What the operations are.                                                *)

\* Only the Action row is written.
LEMMA RestKept ==
    ASSUME UNCHANGED <<attempt, run, events>>
    PROVE  attempt' = attempt /\ Phase' = Phase /\ Token' = Token /\ Begun' = Begun
  BY DEF Phase, Token, Begun

LEMMA QueueMapped ==
    ASSUME AgreementInv, NEW a \in Actions, NEW row, WriteAction(a, row), row.state = "queued",
           AllocateRun(a), events' = events,
           \/ action[a].state \in {"absent", "paused_for_warning"}
           \/ action[a].state \in {"failed", "cancelled"} /\ attempt[a] > 0
    PROVE  Mapped
  <1>1. /\ TypeOK /\ Agrees(a) /\ Sound(a) /\ attempt[a] \in 0..MaxAttempt
        /\ attempt[a] < MaxAttempt
    BY DEF AgreementInv, Holds, TypeOK, AllocateRun, Allocatable
  <1>2. PICK n \in Attempts : n = attempt[a] + 1
    BY <1>1, ConstantsAssumption DEF Attempts
  <1>3. run[a][n].state = "absent" /\ run[a][n].fence = 0 /\ n > attempt[a]
    BY <1>1, <1>2 DEF Agrees, Sound
  <1>4. WriteRun(a, n, NewRun) /\ attempt' = [attempt EXCEPT ![a] = @ + 1]
    BY <1>2 DEF AllocateRun
  <1>5. \A b \in Actions, m \in Attempts :
          run'[b][m] = IF b = a /\ m = n THEN NewRun ELSE run[b][m]
    BY <1>1, <1>4, WrittenRows
  <1>6. Phase' = [Phase EXCEPT ![a][n] = "queued"]
    <2>1. [Phase EXCEPT ![a][n] = "queued"]
            = [b \in Actions |-> [m \in Attempts |->
                 IF b = a /\ m = n THEN "queued" ELSE Phase[b][m]]]
      BY DEF Phase
    <2>2. NewRun.state = "queued"
      BY DEF NewRun
    <2>3. QED
      BY <1>5, <2>1, <2>2 DEF Phase
  <1>7. Token' = Token
    BY <1>1, <1>3, <1>4, TokenKept DEF NewRun
  <1>8. Begun' = Begun
    BY DEF Begun
  <1>9. Lifecycle!Become(a, "queued")
    BY <1>1, StatusWritten
  <1>10. Lifecycle!Enqueue(a)
    BY <1>1, <1>2, <1>4, <1>6, <1>7, <1>8, <1>9 DEF Lifecycle!Enqueue, Phase, Token, Begun
  <1>11. action[a].state \in {"failed", "cancelled"} /\ attempt[a] > 0 =>
           attempt[a] \in Attempts /\ run[a][attempt[a]].state \in {"failed", "cancelled"}
    <2>1. attempt[a] > 0 => attempt[a] \in Attempts /\ ~(attempt[a] > attempt[a])
      BY <1>1, ConstantsAssumption DEF Attempts
    <2>2. \A m \in 1..attempt[a] : run[a][m].state \in {"failed", "cancelled"}
      BY DEF AllocateRun, Allocatable
    <2>3. QED
      BY <1>1, <2>1, <2>2
  <1>12. Lifecycle!Queue(a)
    BY <1>10, <1>11 DEF Lifecycle!Queue, Lifecycle!In
  <1>13. QED
    BY <1>12 DEF Mapped, Lifecycle!Next

\* The latest Run of a ends, by a move that is legal, as its Action does.
LEMMA EndMapped ==
    ASSUME AgreementInv, NEW a \in Actions, NEW n \in Attempts, n = attempt[a],
           NEW k \in TerminalKinds, CanMove(run[a][n].state, k),
           NEW row, WriteAction(a, row), row.state = k,
           NEW r, WriteRun(a, n, r), r.state = k, r.fence = run[a][n].fence,
           attempt' = attempt, Begun' = Begun
    PROVE  Mapped
  <1>1. TypeOK /\ Agrees(a) /\ Sound(a) /\ attempt[a] > 0
    BY ConstantsAssumption DEF AgreementInv, Holds, Attempts
  <1>2. Lifecycle!Become(a, k) /\ Lifecycle!Move(a, k) /\ Token' = Token
    BY <1>1, StatusWritten, PhaseWritten, TokenKept
  <1>3. CASE run[a][n].state = "queued"
    <2>1. action[a].state = "queued" /\ k \in {"failed", "cancelled"}
      BY <1>1, <1>3 DEF Agrees, Latest, CanMove, RunTransitions, TerminalKinds
    <2>2. Lifecycle!Withdraw(a, k)
      BY <1>1, <1>2, <1>3, <2>1 DEF Lifecycle!Withdraw, Lifecycle!In, Token, Begun
    <2>3. QED
      BY <2>1, <2>2 DEF Mapped, Lifecycle!Next
  <1>4. CASE run[a][n].state # "queued"
    <2>1. /\ run[a][n].state \in {"leased", "running", "cancel_requested"}
          /\ k = "succeeded" => run[a][n].state = "running"
          /\ k = "cancelled" => run[a][n].state = "cancel_requested"
      BY <1>4 DEF CanMove, RunTransitions, TerminalKinds
    <2>2. action[a].state \in ActiveStates
      BY <1>1, <2>1 DEF Agrees, Sound, Latest
    <2>3. Lifecycle!Finish(a, k)
      BY <1>1, <1>2, <2>1, <2>2
      DEF Lifecycle!Finish, Lifecycle!In, Lifecycle!LiveStatus, ActiveStates, TerminalKinds,
          Token, Begun
    <2>4. QED
      BY <2>3 DEF Mapped, Lifecycle!Next, Lifecycle!Ends, TerminalKinds
  <1>5. QED
    BY <1>3, <1>4

LEMMA OperatorMapped ==
    ASSUME AgreementInv, NEW a \in Actions, OperatorCommand(a)
    PROVE  Mapped
  <1>0. TypeOK /\ action[a] \in ActionRow /\ attempt[a] \in 0..MaxAttempt
    BY RowTypes DEF AgreementInv
  <1>1. CASE PlanUnrepresentable(a)
    <2>1. Lifecycle!Become(a, "capability_error")
      BY <1>0, <1>1, StatusWritten DEF PlanUnrepresentable, ActionRow
    <2>2. Lifecycle!Plan(a)
      BY <1>1, <2>1, RestKept
      DEF PlanUnrepresentable, Lifecycle!Plan, Phase, Token, Begun
    <2>3. QED
      BY <2>2 DEF Mapped, Lifecycle!Next
  <1>2. ASSUME NEW acknowledged \in BOOLEAN, PlanQueued(a, acknowledged)
        PROVE  Mapped
    <2> DEFINE row == [action[a] EXCEPT !.state = "queued", !.acknowledged = acknowledged]
    <2>1. row.state = "queued"
      BY <1>0 DEF ActionRow
    <2>2. WriteAction(a, row) /\ AllocateRun(a) /\ events' = events /\ action[a].state = "absent"
      BY <1>2 DEF PlanQueued
    <2> HIDE DEF row
    <2>3. QED
      BY <2>1, <2>2, QueueMapped
  <1>3. CASE PlanPaused(a)
    <2> DEFINE row == [action[a] EXCEPT !.state = "paused_for_warning", !.pending = TRUE,
                                        !.interactions = 1]
    <2>1. row.state = "paused_for_warning" /\ WriteAction(a, row)
      BY <1>0, <1>3 DEF PlanPaused, ActionRow
    <2> HIDE DEF row
    <2>2. Lifecycle!Become(a, "paused_for_warning")
      BY <1>0, <2>1, StatusWritten
    <2>3. Lifecycle!Plan(a)
      BY <1>3, <2>2, RestKept DEF PlanPaused, Lifecycle!Plan, Phase, Token, Begun
    <2>4. QED
      BY <2>3 DEF Mapped, Lifecycle!Next
  <1>4. CASE ContinueAction(a)
    <2> DEFINE row == [action[a] EXCEPT !.state = "queued", !.pending = FALSE,
                                        !.acknowledged = TRUE]
    <2>1. row.state = "queued"
      BY <1>0 DEF ActionRow
    <2>2. /\ WriteAction(a, row) /\ AllocateRun(a) /\ events' = events
          /\ action[a].state = "paused_for_warning"
      BY <1>4 DEF ContinueAction
    <2> HIDE DEF row
    <2>3. QED
      BY <2>1, <2>2, QueueMapped
  <1>5. CASE CancelPaused(a)
    <2> DEFINE row == [action[a] EXCEPT !.state = "cancelled", !.pending = FALSE]
    <2>1. row.state = "cancelled" /\ WriteAction(a, row)
      BY <1>0, <1>5 DEF CancelPaused, ActionRow
    <2> HIDE DEF row
    <2>2. Lifecycle!Become(a, "cancelled")
      BY <1>0, <2>1, StatusWritten
    <2>3. Lifecycle!Decline(a)
      BY <1>5, <2>2, RestKept DEF CancelPaused, Lifecycle!Decline, Phase, Token, Begun
    <2>4. QED
      BY <2>3 DEF Mapped, Lifecycle!Next
  <1>6. CASE CancelQueued(a)
    <2>1. attempt[a] > 0 /\ run[a][attempt[a]].state = "queued"
      BY <1>6 DEF CancelQueued, AgreementInv, Holds, Agrees, Latest
    <2>2. PICK n \in Attempts : n = attempt[a]
      BY <2>1, QueuedRun
    <2>3. run[a][n] \in RunRow /\ CanMove(run[a][n].state, "cancelled")
      BY <1>0, <2>1, <2>2, RowTypes DEF CanMove, RunTransitions
    <2> DEFINE row == [action[a] EXCEPT !.state = "cancelled"]
               r == [run[a][n] EXCEPT !.state = "cancelled", !.lease = 0,
                                      !.reason = "operator_cancelled"]
    <2>4. row.state = "cancelled" /\ r.state = "cancelled" /\ r.fence = run[a][n].fence
      BY <1>0, <2>3 DEF ActionRow, RunRow
    <2>5. /\ WriteAction(a, row) /\ WriteRun(a, n, r) /\ attempt' = attempt /\ events' = events
      BY <1>6, <2>1, <2>2 DEF CancelQueued, TerminalKinds
    <2> HIDE DEF row, r
    <2>6. QED
      BY <2>2, <2>3, <2>4, <2>5, EndMapped DEF Begun, TerminalKinds
  <1>7. CASE CancelActive(a)
    <2>1. PICK n \in Attempts : n = attempt[a]
      BY <1>0, <1>7, ConstantsAssumption DEF CancelActive, Attempts
    <2>2. run[a][n].state \in {"leased", "running"} /\ run[a][n] \in RunRow
      BY <1>0, <1>7, <2>1, RowTypes DEF CancelActive, CanMove, RunTransitions
    <2> DEFINE row == CancelRequested(action[a])
               r == [run[a][n] EXCEPT !.state = "cancel_requested"]
    <2>3. /\ row.state = action[a].state
          /\ r.state = "cancel_requested" /\ r.fence = run[a][n].fence
      BY <1>0, <2>2 DEF CancelRequested, ActionRow, RunRow
    <2>4. WriteAction(a, row) /\ WriteRun(a, n, r) /\ attempt' = attempt /\ events' = events
      BY <1>7, <2>1 DEF CancelActive
    <2> HIDE DEF row, r
    <2>5. Status' = Status /\ Token' = Token /\ Begun' = Begun
      BY <1>0, <2>3, <2>4, StatusKept, TokenKept DEF Begun
    <2>6. \A b \in Actions, m \in Attempts :
            run'[b][m] = IF b = a /\ m = n THEN r ELSE run[b][m]
      BY <1>0, <2>4, WrittenRows
    <2>7. Lifecycle!AskCancel({a})
      <3>1. Phase' = [b \in Actions |-> [m \in Attempts |->
                        IF b \in {a} /\ m = attempt[b] THEN "cancel_requested"
                                                       ELSE run[b][m].state]]
        BY <2>1, <2>3, <2>6 DEF Phase
      <3>2. Lifecycle!In(a, {"leased", "running"})
        BY <1>7, <2>1, <2>2 DEF Lifecycle!In, CancelActive
      <3>3. QED
        BY <2>4, <2>5, <3>1, <3>2
        DEF Lifecycle!AskCancel, Lifecycle!Attempts, Attempts, Phase, Status, Token, Begun
    <2>8. QED
      BY <2>7 DEF Mapped, Lifecycle!Next
  <1>8. CASE ContinueLateWarning(a)
    <2> DEFINE row == [action[a] EXCEPT !.state = "active", !.pending = FALSE,
                                        !.acknowledged = TRUE, !.resumeRequested = TRUE]
    <2>1. row.state = "active" /\ WriteAction(a, row)
      BY <1>0, <1>8 DEF ContinueLateWarning, ActionRow
    <2> HIDE DEF row
    <2>2. Lifecycle!Become(a, "active")
      BY <1>0, <2>1, StatusWritten
    <2>3. attempt[a] \in Attempts /\ run[a][attempt[a]].state \in {"leased", "running"}
      BY <1>0, <1>8, ConstantsAssumption
      DEF ContinueLateWarning, AgreementInv, Holds, Agrees, Latest, Attempts
    <2>4. Lifecycle!Resume(a)
      BY <1>8, <2>2, <2>3, RestKept, ConstantsAssumption
      DEF ContinueLateWarning, Lifecycle!Resume, Lifecycle!In, Phase, Token, Begun, Attempts
    <2>5. QED
      BY <2>4 DEF Mapped, Lifecycle!Next
  <1>9. QED
    BY <1>1, <1>2, <1>3, <1>4, <1>5, <1>6, <1>7, <1>8 DEF OperatorCommand

LEMMA LeaseRequestMapped ==
    ASSUME AgreementInv, NEW s \in Sessions, LeaseRequest(s)
    PROVE  Mapped
  <1>1. CASE AcceptHandshake(s)
    BY <1>1, NothingShown DEF AcceptHandshake
  <1>2. ASSUME NEW a \in Actions, AcquireLease(a, s)
        PROVE  Mapped
    <2>1. attempt[a] > 0 /\ run[a][attempt[a]].state = "queued"
      BY <1>2 DEF AcquireLease, Leasable, OldestQueued
    <2>2. PICK n \in Attempts : n = attempt[a]
      BY <2>1, QueuedRun
    <2>3. /\ TypeOK /\ action[a] \in ActionRow /\ action[a].state = "queued"
          /\ run[a][n] \in RunRow /\ run[a][n].fence \in Nat
      BY <2>1, <2>2, QueuedRun, RowTypes, ConstantsAssumption DEF AgreementInv, RunRow
    <2>4. PICK f \in Fences : f = run[a][n].fence + 1
      BY <1>2, <2>2, <2>3, ConstantsAssumption DEF AcquireLease, NextFence, Fences
    <2> DEFINE r == [run[a][n] EXCEPT !.state = "leased", !.fence = f, !.lease = f]
               row == Bumped(action[a], "active", "running")
    <2>5. r.state = "leased" /\ r.fence = f /\ row.state = "active"
      BY <2>3 DEF RunRow, ActionRow, Bumped
    <2>6. WriteRun(a, n, r) /\ WriteAction(a, row) /\ attempt' = attempt /\ events' = events
      BY <1>2, <2>2, <2>3, <2>4 DEF AcquireLease, NextFence
    <2> HIDE DEF r, row
    <2>7. Lifecycle!Become(a, "active") /\ Lifecycle!Move(a, "leased") /\ Begun' = Begun
      BY <2>2, <2>3, <2>5, <2>6, StatusWritten, PhaseWritten DEF Begun
    <2>8. Token' = [Token EXCEPT ![a][n] = @ + 1]
      <3>1. \A b \in Actions, m \in Attempts :
              run'[b][m] = IF b = a /\ m = n THEN r ELSE run[b][m]
        BY <2>3, <2>6, WrittenRows
      <3>2. [Token EXCEPT ![a][n] = @ + 1]
              = [b \in Actions |-> [m \in Attempts |->
                   IF b = a /\ m = n THEN f ELSE Token[b][m]]]
        BY <2>4 DEF Token
      <3>3. QED
        BY <2>5, <3>1, <3>2 DEF Token
    <2>9. Lifecycle!HandOut(a)
      <3>1. run[a][n].fence < MaxFence
        BY <2>3, <2>4, ConstantsAssumption DEF Fences
      <3>2. QED
        BY <2>1, <2>2, <2>3, <2>6, <2>7, <2>8, <3>1
        DEF Lifecycle!HandOut, Lifecycle!In, Phase, Token, Begun
    <2>10. QED
      BY <2>9 DEF Mapped, Lifecycle!Next
  <1>3. ASSUME NEW a \in Actions, ExhaustFencing(a, s)
        PROVE  Mapped
    <2>1. attempt[a] > 0 /\ run[a][attempt[a]].state = "queued"
      BY <1>3 DEF ExhaustFencing, Leasable, OldestQueued
    <2>2. PICK n \in Attempts : n = attempt[a]
      BY <2>1, QueuedRun
    <2>3. /\ action[a] \in ActionRow /\ run[a][n] \in RunRow
          /\ CanMove(run[a][n].state, "failed")
      BY <2>1, <2>2, RowTypes DEF AgreementInv, CanMove, RunTransitions
    <2> DEFINE r == [run[a][n] EXCEPT !.state = "failed", !.reason = "fencing_exhausted"]
               row == Settled(action[a], "failed")
    <2>4. r.state = "failed" /\ r.fence = run[a][n].fence /\ row.state = "failed"
      BY <2>3 DEF RunRow, ActionRow, Settled
    <2>5. WriteRun(a, n, r) /\ WriteAction(a, row) /\ attempt' = attempt /\ events' = events
      BY <1>3, <2>2 DEF ExhaustFencing
    <2> HIDE DEF r, row
    <2>6. QED
      BY <2>2, <2>3, <2>4, <2>5, EndMapped DEF Begun, TerminalKinds
  <1>4. QED
    BY <1>1, <1>2, <1>3 DEF LeaseRequest

\* A completion, presented or not: k, with an event of that type.
LEMMA CompletionMapped ==
    ASSUME AgreementInv, NEW a \in Actions, NEW n \in Attempts, NEW k \in TerminalKinds,
           NEW f, NEW q, InsertEvent(a, n, [fence |-> f, seq |-> q, type |-> k]),
           run[a][n].state \notin TerminalKinds, CanMove(run[a][n].state, k),
           WriteRun(a, n, Completed(run[a][n], k)), WriteAction(a, Settled(action[a], k)),
           attempt' = attempt
    PROVE  Mapped
  <1>1. TypeOK /\ action[a] \in ActionRow /\ run[a][n] \in RunRow
    BY RowTypes DEF AgreementInv
  <1>2. n = attempt[a]
    BY LiveIsLatest DEF CanMove, RunTransitions, TerminalKinds
  <1> DEFINE r == Completed(run[a][n], k)
             row == Settled(action[a], k)
             ev == [fence |-> f, seq |-> q, type |-> k]
  <1>3. r.state = k /\ r.fence = run[a][n].fence /\ row.state = k /\ ~IsStart(ev)
    BY <1>1 DEF RunRow, ActionRow, Completed, Settled, IsStart, TerminalKinds
  <1>4. WriteRun(a, n, r) /\ WriteAction(a, row) /\ InsertEvent(a, n, ev)
    OBVIOUS
  <1> HIDE DEF r, row, ev
  <1>5. Begun' = Begun
    BY <1>1, <1>3, <1>4, BegunKept
  <1>6. QED
    BY <1>2, <1>3, <1>4, <1>5, EndMapped

LEMMA FencedRequestMapped ==
    ASSUME AgreementInv, NEW a \in Actions, NEW n \in Attempts, NEW f \in Fences,
           FencedRequest(a, n, f)
    PROVE  Mapped
  <1>1. ASSUME NEW s \in Sessions, Heartbeat(a, n, f, s) \/ AdmitUpload(a, n, f, s)
        PROVE  Mapped
    BY <1>1, NothingShown DEF Heartbeat, AdmitUpload
  <1>2. CASE CloseUpload(a, n, f)
    BY <1>2, NothingShown DEF CloseUpload
  <1>3. ASSUME NEW s \in Sessions, NEW k \in TerminalKinds, CompleteRun(a, n, f, s, k)
        PROVE  Mapped
    <2>1. PICK q : q = lease[a][n][f].event + 1
      OBVIOUS
    <2>2. /\ InsertEvent(a, n, [fence |-> f, seq |-> q, type |-> k])
          /\ run[a][n].state \notin TerminalKinds /\ CanMove(run[a][n].state, k)
          /\ WriteRun(a, n, Completed(run[a][n], k)) /\ WriteAction(a, Settled(action[a], k))
          /\ attempt' = attempt
      BY <1>3, <2>1 DEF CompleteRun
    <2>3. QED
      BY <2>2, CompletionMapped
  <1>4. ASSUME NEW s \in Sessions, AppendStarted(a, n, f, s)
        PROVE  Mapped
    <2>1. /\ TypeOK /\ run[a][n] \in RunRow /\ n = attempt[a] /\ run[a][n].fence = f
          /\ attempt[a] > 0
      BY <1>4, CurrentIsLive, RowTypes, ConstantsAssumption
      DEF AgreementInv, AppendStarted, Authority, Attempts
    <2>2. run[a][n].state \in {"leased", "cancel_requested"}
      BY <1>4 DEF AppendStarted, CanMove, RunTransitions
    <2>3. PICK q : q = lease[a][n][f].event + 1
      OBVIOUS
    <2> DEFINE r == [run[a][n] EXCEPT !.state = StartedState(@)]
               ev == [fence |-> f, seq |-> q, type |-> "started"]
    <2>4. /\ r.state = IF run[a][n].state = "leased" THEN "running" ELSE run[a][n].state
          /\ r.fence = run[a][n].fence /\ IsStart(ev) /\ ev.fence = f
      BY <2>1, <2>2 DEF RunRow, StartedState, IsStart
    <2>5. /\ WriteRun(a, n, r) /\ InsertEvent(a, n, ev)
          /\ action' = action /\ attempt' = attempt
      BY <1>4, <2>3 DEF AppendStarted
    <2> HIDE DEF r, ev
    <2>6. Status' = Status /\ Token' = Token
      BY <2>1, <2>4, <2>5, TokenKept DEF Status
    <2>7. Begun' = [Begun EXCEPT ![a][n] = @ \cup {f}]
      BY <2>1, <2>4, <2>5, BegunWritten
    <2>8. PICK ph : ph = r.state /\ Lifecycle!Move(a, ph)
      BY <2>1, <2>5, PhaseWritten
    <2>9. Lifecycle!Start(a)
      <3>1. Lifecycle!In(a, {"leased", "cancel_requested"})
        BY <2>1, <2>2 DEF Lifecycle!In
      <3>2. Phase' = [Phase EXCEPT ![a][n] = ph]
        BY <2>1, <2>8 DEF Lifecycle!Move, Phase
      <3>3. ph = IF Phase[a][n] = "leased" THEN "running" ELSE Phase[a][n]
        BY <2>4, <2>8 DEF Phase
      <3>4. Token[a][n] = f
        BY <2>1 DEF Token
      <3>5. Phase' = [Phase EXCEPT ![a][n] = IF Phase[a][n] = "leased" THEN "running"
                                                                       ELSE Phase[a][n]]
        BY <3>2, <3>3
      <3>6. Begun' = [Begun EXCEPT ![a][n] = @ \cup {Token[a][n]}]
        BY <2>7, <3>4
      <3>7. QED
        BY <2>1, <2>5, <2>6, <3>1, <3>5, <3>6
        DEF Lifecycle!Start, Lifecycle!Move, Status, Phase, Token, Begun
    <2>10. QED
      BY <2>9 DEF Mapped, Lifecycle!Next
  <1>5. QED
    BY <1>1, <1>2, <1>3, <1>4 DEF FencedRequest

LEMMA RepositoryOnlyMapped ==
    ASSUME AgreementInv, NEW a \in Actions, RepositoryOnly(a)
    PROVE  Mapped
  <1>0. TypeOK /\ action[a] \in ActionRow /\ attempt[a] \in 0..MaxAttempt
    BY RowTypes DEF AgreementInv
  <1>1. CASE RetryRun(a)
    <2> DEFINE row == Settled(action[a], "queued")
    <2>1. row.state = "queued"
      BY <1>0 DEF Settled, ActionRow
    <2>2. /\ WriteAction(a, row) /\ AllocateRun(a) /\ events' = events
          /\ action[a].state \in {"failed", "cancelled"} /\ attempt[a] > 0
      BY <1>1 DEF RetryRun
    <2> HIDE DEF row
    <2>3. QED
      BY <2>1, <2>2, QueueMapped
  <1>2. ASSUME NEW autoContinue \in BOOLEAN, RecordLateWarning(a, autoContinue)
        PROVE  Mapped
    <2>1. attempt[a] \in Attempts /\ run[a][attempt[a]].state \in {"leased", "running"}
      BY <1>0, <1>2, ConstantsAssumption
      DEF RecordLateWarning, AgreementInv, Holds, Agrees, Latest, Attempts
    <2>2. attempt' = attempt /\ Phase' = Phase /\ Token' = Token /\ Begun' = Begun
      BY <1>2, RestKept DEF RecordLateWarning
    <2>3. CASE autoContinue
      <3> DEFINE row == [action[a] EXCEPT !.acknowledged = TRUE]
      <3>1. row.state = action[a].state /\ WriteAction(a, row)
        BY <1>0, <1>2, <2>3 DEF RecordLateWarning, ActionRow
      <3> HIDE DEF row
      <3>2. QED
        BY <1>0, <2>2, <3>1, StatusKept DEF Mapped
    <2>4. CASE ~autoContinue
      <3> DEFINE row == [action[a] EXCEPT !.state = "active_paused_for_warning",
                                          !.pending = TRUE, !.interactions = 1]
      <3>1. row.state = "active_paused_for_warning" /\ WriteAction(a, row)
        BY <1>0, <1>2, <2>4 DEF RecordLateWarning, ActionRow
      <3> HIDE DEF row
      <3>2. Lifecycle!Become(a, "active_paused_for_warning")
        BY <1>0, <3>1, StatusWritten
      <3>3. Lifecycle!Pause(a)
        BY <1>2, <2>1, <2>2, <3>2, ConstantsAssumption
        DEF RecordLateWarning, Lifecycle!Pause, Lifecycle!In, Phase, Token, Begun, Attempts
      <3>4. QED
        BY <3>3 DEF Mapped, Lifecycle!Next
    <2>5. QED
      BY <2>3, <2>4
  <1>3. ASSUME NEW n \in Attempts, NEW f \in Fences, ExpireLease(a, n, f)
        PROVE  Mapped
    <2>1. PICK outcome : outcome = ExpiryOutcome(action[a].state, run[a][n].state)
      OBVIOUS
    <2>2. run[a][n] \in RunRow /\ n = attempt[a] /\ attempt[a] > 0
      BY <1>3, CurrentIsLive, RowTypes, ConstantsAssumption
      DEF AgreementInv, ExpireLease, Attempts
    <2> DEFINE r == [run[a][n] EXCEPT !.state = outcome.run, !.lease = 0,
                                      !.reason = outcome.reason]
               row == Settled(action[a], outcome.action)
    <2>3. r.state = outcome.run /\ r.fence = run[a][n].fence /\ row.state = outcome.action
      BY <1>0, <2>2 DEF RunRow, ActionRow, Settled
    <2>4. /\ outcome.ok /\ WriteRun(a, n, r) /\ WriteAction(a, row)
          /\ attempt' = attempt /\ events' = events
      BY <1>3, <2>1 DEF ExpireLease
    <2> HIDE DEF r, row
    <2>5. Begun' = Begun
      BY <2>4 DEF Begun
    <2>6. CASE run[a][n].state = "leased"
      <3>1. outcome.run = "queued" /\ outcome.action = "queued" /\ action[a].state = "active"
        BY <2>1, <2>4, <2>6 DEF ExpiryOutcome
      <3>2. /\ Lifecycle!Become(a, "queued") /\ Lifecycle!Move(a, "queued")
            /\ Token' = Token
        BY <1>0, <2>2, <2>3, <2>4, <3>1, StatusWritten, PhaseWritten, TokenKept
      <3>3. Lifecycle!TakeBack(a)
        BY <2>2, <2>4, <2>5, <2>6, <3>1, <3>2
        DEF Lifecycle!TakeBack, Lifecycle!In, Token, Begun
      <3>4. QED
        BY <3>3 DEF Mapped, Lifecycle!Next
    <2>7. CASE run[a][n].state # "leased"
      <3>1. /\ outcome.run = "failed" /\ outcome.action = "failed"
            /\ CanMove(run[a][n].state, "failed")
        BY <2>1, <2>4, <2>7 DEF ExpiryOutcome, CanMove, RunTransitions
      <3>2. QED
        BY <2>2, <2>3, <2>4, <2>5, <3>1, EndMapped DEF TerminalKinds
    <2>8. QED
      BY <2>6, <2>7
  <1>4. ASSUME NEW n \in Attempts, NEW k \in TerminalKinds, CompleteUnpresented(a, n, k)
        PROVE  Mapped
    <2>1. PICK f, q : f = run[a][n].fence /\ q = CompletionSequence(lease[a][n][f])
      OBVIOUS
    <2>2. /\ InsertEvent(a, n, [fence |-> f, seq |-> q, type |-> k])
          /\ run[a][n].state \notin TerminalKinds /\ CanMove(run[a][n].state, k)
          /\ WriteRun(a, n, Completed(run[a][n], k)) /\ WriteAction(a, Settled(action[a], k))
          /\ attempt' = attempt
      BY <1>4, <2>1 DEF CompleteUnpresented
    <2>3. QED
      BY <2>2, CompletionMapped
  <1>5. QED
    BY <1>1, <1>2, <1>3, <1>4 DEF RepositoryOnly

LEMMA RevokeMapped ==
    ASSUME AgreementInv, NEW rn \in Runners, RevokeRunner(rn)
    PROVE  Mapped
  <1>0. PICK Stopped \in SUBSET Actions :
          \A a \in Actions : a \in Stopped <=>
            \E n \in Attempts, f \in Fences :
              HeldBy(rn, a, n, f) /\ run[a][n].state \in {"leased", "running"}
    <2> DEFINE held == {a \in Actions : \E n \in Attempts, f \in Fences :
                          HeldBy(rn, a, n, f) /\ run[a][n].state \in {"leased", "running"}}
    <2>1. held \in SUBSET Actions
      OBVIOUS
    <2>2. QED
      BY <2>1
  <1>1. /\ TypeOK /\ attempt' = attempt /\ events' = events
        /\ \A a \in Actions : action'[a] = FencedAction(rn, a)
        /\ \A a \in Actions, n \in Attempts : run'[a][n] = FencedRun(rn, a, n)
    BY DEF RevokeRunner, AgreementInv
  <1>2. Status' = Status
    <2>1. ASSUME NEW a \in Actions
          PROVE  action'[a].state = action[a].state
      BY <1>1, RowTypes DEF FencedAction, Bumped, ActionRow
    <2>2. QED
      BY <2>1 DEF Status
  <1>3. ASSUME NEW a \in Actions, NEW n \in Attempts
        PROVE  /\ run'[a][n].fence = run[a][n].fence
               /\ run'[a][n].state = IF a \in Stopped /\ n = attempt[a]
                                     THEN "cancel_requested" ELSE run[a][n].state
    <2>1. run[a][n] \in RunRow
      BY <1>1, RowTypes
    <2>2. \A m \in Attempts, f \in Fences : HeldBy(rn, a, m, f) =>
            /\ m = attempt[a]
            /\ run[a][m].state \in {"leased", "running", "cancel_requested"}
      BY CurrentIsLive DEF HeldBy
    <2>3. CASE \A f \in Fences : ~HeldBy(rn, a, n, f)
      <3>1. run'[a][n] = run[a][n]
        BY <1>1, <2>3 DEF FencedRun
      <3>2. ~(a \in Stopped /\ n = attempt[a])
        BY <1>0, <2>2, <2>3
      <3>3. QED
        BY <3>1, <3>2
    <2>4. ASSUME NEW f \in Fences, HeldBy(rn, a, n, f)
          PROVE  /\ run'[a][n].fence = run[a][n].fence
                 /\ run'[a][n].state = IF a \in Stopped /\ n = attempt[a]
                                       THEN "cancel_requested" ELSE run[a][n].state
      <3>1. n = attempt[a] /\ run[a][n].state \in {"leased", "running", "cancel_requested"}
        BY <2>2, <2>4
      <3>2. run'[a][n] = [run[a][n] EXCEPT !.lease = 0,
                            !.state = IF @ \in {"leased", "running"} THEN "cancel_requested"
                                                                     ELSE @]
        BY <1>1, <2>4 DEF FencedRun
      <3>3. run'[a][n].fence = run[a][n].fence /\ run'[a][n].state = "cancel_requested"
        BY <2>1, <3>1, <3>2 DEF RunRow
      <3>4. a \in Stopped <=> run[a][n].state \in {"leased", "running"}
        BY <1>0, <2>2, <2>4, <3>1
      <3>5. QED
        BY <3>1, <3>3, <3>4
    <2>5. QED
      BY <2>3, <2>4
  <1>4. Lifecycle!AskCancel(Stopped)
    <2>1. \A a \in Stopped : Lifecycle!In(a, {"leased", "running"})
      <3>1. ASSUME NEW a \in Stopped
            PROVE  Lifecycle!In(a, {"leased", "running"})
        <4>1. PICK n \in Attempts, f \in Fences :
                HeldBy(rn, a, n, f) /\ run[a][n].state \in {"leased", "running"}
          BY <1>0
        <4>2. n = attempt[a] /\ n > 0
          BY <4>1, CurrentIsLive, ConstantsAssumption DEF HeldBy, Attempts
        <4>3. QED
          BY <4>1, <4>2 DEF Lifecycle!In
      <3>2. QED
        BY <3>1
    <2>2. Phase' = [a \in Actions |-> [n \in Attempts |->
                      IF a \in Stopped /\ n = attempt[a] THEN "cancel_requested"
                                                         ELSE run[a][n].state]]
      BY <1>3 DEF Phase
    <2>3. Token' = Token /\ Begun' = Begun
      BY <1>1, <1>3 DEF Token, Begun
    <2>4. QED
      BY <1>1, <1>2, <2>1, <2>2, <2>3
      DEF Lifecycle!AskCancel, Lifecycle!Attempts, Attempts, Phase, Status, Token, Begun
  <1>5. QED
    BY <1>4 DEF Mapped, Lifecycle!Next

LEMMA StepMapped ==
    ASSUME AgreementInv, [Next]_vars
    PROVE  Mapped
  <1>1. CASE UNCHANGED vars \/ Tick \/ \E rn \in Runners : ConfirmEnrollment(rn)
    BY <1>1, NothingShown DEF vars, Tick, ConfirmEnrollment
  <1>2. QED
    BY <1>1, OperatorMapped, LeaseRequestMapped, FencedRequestMapped, RepositoryOnlyMapped,
       RevokeMapped DEF Next, ApiNext, OwnerCommand

\* The leases, fences, event rows and revocations of the database implement
\* the promise: every step of theirs, in any interleaving, is a step of the
\* lifecycle or changes nothing of it.
THEOREM LifecycleIsImplemented == Spec => ImplementsLifecycle
  <1>1. Init => Lifecycle!Init
    <2> SUFFICES ASSUME Init PROVE Lifecycle!Init
      OBVIOUS
    <2>1. \A a \in Actions, n \in Attempts :
            {e.fence : e \in {d \in events[a][n] : d.type = "started"}} = {}
      BY DEF Init
    <2>2. QED
      BY <2>1 DEF Init, NoAction, NoRun, Lifecycle!Init, Lifecycle!Attempts, Attempts
  <1>2. AgreementInv /\ [Next]_vars => [Lifecycle!Next]_(Lifecycle!vars)
    BY StepMapped DEF Mapped, Lifecycle!vars, Status, Phase, Token, Begun
  <1>3. QED
    BY <1>1, <1>2, AgreementInvariant, PTL DEF Spec, ImplementsLifecycle, Lifecycle!Spec

\* What the promise is for: whatever becomes of leases, runners and requests,
\* a Run is started under one fence only, and is not handed out after that.
THEOREM RunsStartOnce == Spec => []Lifecycle!StartedOnce
  <1>1. EventInv => Lifecycle!StartedOnce
    <2> SUFFICES ASSUME EventInv, NEW a \in Actions, NEW n \in Attempts
                 PROVE  /\ \A f, g \in Fenced(events[a][n]) : f = g
                        /\ Fenced(events[a][n]) # {} => run[a][n].state \notin {"queued", "leased"}
      BY DEF Lifecycle!StartedOnce, Lifecycle!Attempts, Attempts, Fenced, StartsAmong
    <2>1. Contiguous(a, n) /\ Counted(a, n)
      BY DEF EventInv
    <2>2. \A f \in Fenced(events[a][n]) : f = run[a][n].fence /\ events[a][n] # {}
      BY <2>1 DEF Contiguous, Fenced, StartsAmong
    <2>3. run[a][n].state \in {"queued", "leased"} => events[a][n] = {}
      BY <2>1 DEF Counted, TerminalKinds
    <2>4. QED
      BY <2>2, <2>3
  <1>2. QED
    BY <1>1, EventInvariant, PTL
=============================================================================
