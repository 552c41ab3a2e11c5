------------------------- MODULE RunLifecycle_proof -------------------------
(***************************************************************************)
(* The promise of RunLifecycle, for any number of Actions, attempts and    *)
(* tokens: a Run is started under one token and never handed out again.    *)
(* StartedOnce alone is not inductive: a new attempt must find no start on     *)
(* record, and a token is renewed only while there is none.                *)
(***************************************************************************)
EXTENDS RunLifecycle, TLAPS

Phases == {"absent", "queued", "leased", "running", "cancel_requested"} \cup Ends

Typed ==
    /\ latest \in [Actions -> 0..MaxAttempt]
    /\ phase \in [Actions -> [Attempts -> Phases]]
    /\ token \in [Actions -> [Attempts -> Nat]]
    /\ startedBy \in [Actions -> [Attempts -> SUBSET Nat]]

Unused(a, n) == phase[a][n] = "absent" /\ startedBy[a][n] = {}

OneStart(a, n) ==
    /\ n > latest[a] => Unused(a, n)
    /\ \A s \in startedBy[a][n] : s = token[a][n]
    /\ startedBy[a][n] # {} => phase[a][n] \notin {"absent", "queued", "leased"}

IInv == Typed /\ \A a \in Actions, n \in Attempts : OneStart(a, n)

\* The bounds are numbers; a system without Actions is not excluded.
BoundsAreNumbers == MaxAttempt \in Nat /\ MaxFence \in Nat

\* A step that changes the phase of the newest Run only, to a phase that is
\* neither queued nor leased, or leaves every phase as it was.
LEMMA PhaseOnly ==
    ASSUME BoundsAreNumbers, IInv, UNCHANGED <<latest, token, startedBy>>,
           phase' \in [Actions -> [Attempts -> Phases]],
           \A a \in Actions, n \in Attempts :
             phase'[a][n] # phase[a][n] =>
               n = latest[a] /\ (startedBy[a][n] = {} \/ phase'[a][n] \notin {"absent", "queued", "leased"})
    PROVE  IInv'
<1>1. Typed' BY DEF IInv, Typed
<1>2. ASSUME NEW a \in Actions, NEW n \in Attempts PROVE OneStart(a, n)'
  <2>1. CASE phase'[a][n] = phase[a][n]
    BY <2>1 DEF IInv, OneStart, Unused
  <2>2. CASE phase'[a][n] # phase[a][n]
    <3>1. n = latest[a] /\ latest[a] \in Nat
      BY <2>2 DEF IInv, Typed, BoundsAreNumbers
    <3>2. ~(n > latest'[a]) BY <3>1
    <3>. QED BY <2>2, <3>2 DEF IInv, OneStart
  <2>. QED BY <2>1, <2>2
<1>. QED BY <1>1, <1>2 DEF IInv

LEMMA MoveTyped ==
    ASSUME BoundsAreNumbers, IInv, NEW a \in Actions, NEW ph \in Phases, Move(a, ph), latest[a] > 0
    PROVE  /\ phase' \in [Actions -> [Attempts -> Phases]]
           /\ latest[a] \in Attempts
           /\ phase'[a][latest[a]] = ph
           /\ \A b \in Actions, n \in Attempts :
                phase'[b][n] # phase[b][n] => b = a /\ n = latest[a]
  BY DEF IInv, Typed, Move, BoundsAreNumbers, Attempts

\* Induction step.
LEMMA Step == ASSUME BoundsAreNumbers, IInv, [Next]_vars PROVE IInv'
<1>1. ASSUME NEW a \in Actions, Plan(a) \/ Decline(a) \/ Pause(a) \/ Resume(a) PROVE IInv'
  <2>1. UNCHANGED <<latest, phase, token, startedBy>>
    BY <1>1 DEF Plan, Decline, Pause, Resume
  <2>. QED BY <2>1 DEF IInv, Typed, OneStart, Unused
<1>2. ASSUME NEW a \in Actions, Queue(a) PROVE IInv'
  <2>1. /\ latest[a] < MaxAttempt
        /\ latest' = [latest EXCEPT ![a] = @ + 1]
        /\ phase' = [phase EXCEPT ![a][latest[a] + 1] = "queued"]
        /\ UNCHANGED <<token, startedBy>>
    BY <1>2 DEF Queue, Enqueue
  <2>2. latest[a] + 1 \in Attempts /\ startedBy[a][latest[a] + 1] = {}
    <3>1. latest[a] \in 0..MaxAttempt BY DEF IInv, Typed
    <3>2. latest[a] + 1 \in Attempts /\ latest[a] + 1 > latest[a]
      BY <2>1, <3>1 DEF BoundsAreNumbers, Attempts
    <3>. QED BY <3>2 DEF IInv, OneStart, Unused
  <2>3. Typed'
    BY <2>1, <2>2 DEF IInv, Typed, Phases, BoundsAreNumbers, Attempts
  <2>4. ASSUME NEW b \in Actions, NEW n \in Attempts PROVE OneStart(b, n)'
    <3>1. CASE b = a /\ n = latest[a] + 1
      BY <2>1, <2>2, <3>1 DEF IInv, Typed, OneStart, Unused, Attempts
    <3>2. CASE ~(b = a /\ n = latest[a] + 1)
      <4>1. phase'[b][n] = phase[b][n] BY <2>1, <2>2, <3>2 DEF IInv, Typed
      <4>2. n > latest'[b] => n > latest[b] BY <2>1, <3>2 DEF IInv, Typed, Attempts
      <4>. QED BY <2>1, <4>1, <4>2 DEF IInv, OneStart, Unused
    <3>. QED BY <3>1, <3>2
  <2>. QED BY <2>3, <2>4 DEF IInv
<1>3. ASSUME NEW a \in Actions, NEW k \in {"failed", "cancelled"}, Withdraw(a, k) PROVE IInv'
  <2>1. k \in Phases /\ Move(a, k) /\ latest[a] > 0 /\ UNCHANGED <<latest, token, startedBy>>
    BY <1>3 DEF Withdraw, In, Phases, Ends
  <2>. QED BY <2>1, MoveTyped, PhaseOnly
<1>4. ASSUME NEW a \in Actions, HandOut(a) PROVE IInv'
  <2>1. /\ Move(a, "leased") /\ latest[a] > 0 /\ "leased" \in Phases
        /\ phase[a][latest[a]] = "queued"
        /\ token' = [token EXCEPT ![a][latest[a]] = @ + 1]
        /\ UNCHANGED <<latest, startedBy>>
    BY <1>4 DEF HandOut, In, Phases
  <2>2. /\ phase' \in [Actions -> [Attempts -> Phases]]
        /\ latest[a] \in Attempts
        /\ phase'[a][latest[a]] = "leased"
        /\ \A b \in Actions, n \in Attempts :
             phase'[b][n] # phase[b][n] => b = a /\ n = latest[a]
    BY <2>1, MoveTyped
  <2>3. startedBy[a][latest[a]] = {} BY <2>1, <2>2 DEF IInv, OneStart
  <2>4. token' \in [Actions -> [Attempts -> Nat]] BY <2>1, <2>2 DEF IInv, Typed
  <2>5. ASSUME NEW b \in Actions, NEW n \in Attempts PROVE OneStart(b, n)'
    <3>1. CASE b = a /\ n = latest[a]
      BY <2>1, <2>2, <2>3, <3>1 DEF IInv, Typed, OneStart, Attempts
    <3>2. CASE ~(b = a /\ n = latest[a])
      <4>1. phase'[b][n] = phase[b][n] /\ token'[b][n] = token[b][n]
        BY <2>1, <2>2, <3>2 DEF IInv, Typed
      <4>. QED BY <2>1, <4>1 DEF IInv, OneStart, Unused
    <3>. QED BY <3>1, <3>2
  <2>. QED BY <2>1, <2>2, <2>4, <2>5 DEF IInv, Typed
<1>5. ASSUME NEW a \in Actions, TakeBack(a) PROVE IInv'
  <2>1. /\ Move(a, "queued") /\ latest[a] > 0 /\ "queued" \in Phases
        /\ phase[a][latest[a]] = "leased"
        /\ UNCHANGED <<latest, token, startedBy>>
    BY <1>5 DEF TakeBack, In, Phases
  <2>2. latest[a] \in Attempts BY <2>1, MoveTyped
  <2>3. startedBy[a][latest[a]] = {} BY <2>1, <2>2 DEF IInv, OneStart
  <2>. QED BY <2>1, <2>3, MoveTyped, PhaseOnly
<1>6. ASSUME NEW a \in Actions, Start(a) PROVE IInv'
  <2>. DEFINE ph == IF phase[a][latest[a]] = "leased" THEN "running" ELSE phase[a][latest[a]]
  <2>1. /\ Move(a, ph) /\ latest[a] > 0
        /\ phase[a][latest[a]] \in {"leased", "cancel_requested"}
        /\ startedBy' = [startedBy EXCEPT ![a][latest[a]] = @ \cup {token[a][latest[a]]}]
        /\ UNCHANGED <<latest, token>>
    BY <1>6 DEF Start, In
  <2>2. ph \in {"running", "cancel_requested"} /\ ph \in Phases BY <2>1 DEF Phases
  <2>. HIDE DEF ph
  <2>3. /\ phase' \in [Actions -> [Attempts -> Phases]]
        /\ latest[a] \in Attempts
        /\ phase'[a][latest[a]] = ph
        /\ \A b \in Actions, n \in Attempts :
             phase'[b][n] # phase[b][n] => b = a /\ n = latest[a]
    BY <2>1, <2>2, MoveTyped
  <2>4. startedBy' \in [Actions -> [Attempts -> SUBSET Nat]]
    BY <2>1, <2>3 DEF IInv, Typed
  <2>5. ASSUME NEW b \in Actions, NEW n \in Attempts PROVE OneStart(b, n)'
    <3>1. CASE b = a /\ n = latest[a]
      <4>1. startedBy'[b][n] = startedBy[a][n] \cup {token[a][n]}
        BY <2>1, <2>3, <3>1 DEF IInv, Typed
      <4>2. ~(n > latest'[b]) BY <2>1, <2>3, <3>1 DEF Attempts
      <4>. QED BY <2>1, <2>2, <2>3, <3>1, <4>1, <4>2 DEF IInv, OneStart
    <3>2. CASE ~(b = a /\ n = latest[a])
      <4>1. phase'[b][n] = phase[b][n] /\ startedBy'[b][n] = startedBy[b][n]
        BY <2>1, <2>3, <3>2 DEF IInv, Typed
      <4>. QED BY <2>1, <4>1 DEF IInv, OneStart, Unused
    <3>. QED BY <3>1, <3>2
  <2>. QED BY <2>1, <2>3, <2>4, <2>5 DEF IInv, Typed
<1>7. ASSUME NEW S \in SUBSET Actions, AskCancel(S) PROVE IInv'
  <2>1. phase' \in [Actions -> [Attempts -> Phases]]
    BY <1>7 DEF AskCancel, IInv, Typed, Phases
  <2>2. \A a \in Actions, n \in Attempts :
          phase'[a][n] # phase[a][n] => n = latest[a] /\ phase'[a][n] = "cancel_requested"
    BY <1>7 DEF AskCancel
  <2>3. UNCHANGED <<latest, token, startedBy>> BY <1>7 DEF AskCancel
  <2>. QED BY <2>1, <2>2, <2>3, PhaseOnly
<1>8. ASSUME NEW a \in Actions, NEW k \in Ends, Finish(a, k) PROVE IInv'
  <2>1. k \in Phases /\ Move(a, k) /\ latest[a] > 0 /\ UNCHANGED <<latest, token, startedBy>>
    BY <1>8 DEF Finish, In, Phases
  <2>2. k \notin {"absent", "queued", "leased"} BY DEF Ends
  <2>. QED BY <2>1, <2>2, MoveTyped, PhaseOnly
<1>9. CASE UNCHANGED vars
  BY <1>9 DEF vars, IInv, Typed, OneStart, Unused
<1>. QED BY <1>1, <1>2, <1>3, <1>4, <1>5, <1>6, <1>7, <1>8, <1>9 DEF Next

\* The abstract lifecycle keeps its promise (RunLifecycle.StartedOnce), and
\* with ImplementsLifecycle so do the rows of the control plane.
THEOREM StartsOnce == ASSUME BoundsAreNumbers PROVE Spec => []StartedOnce
<1>1. Init => IInv
  BY DEF BoundsAreNumbers, Init, IInv, Typed, OneStart, Unused, Phases, Attempts
<1>2. IInv /\ [Next]_vars => IInv'
  BY Step
<1>3. IInv => StartedOnce
  <2>1. ASSUME IInv, NEW a \in Actions, NEW n \in Attempts
        PROVE  /\ \A s, t \in startedBy[a][n] : s = t
               /\ startedBy[a][n] # {} => phase[a][n] \notin {"queued", "leased"}
    BY <2>1 DEF IInv, OneStart
  <2>. QED BY <2>1 DEF StartedOnce
<1>. QED BY <1>1, <1>2, <1>3, PTL DEF Spec
=============================================================================
