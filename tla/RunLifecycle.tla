---------------------------- MODULE RunLifecycle ----------------------------
(***************************************************************************)
(* What the control plane promises about an Action and the Runs made for   *)
(* it, with none of the machinery that keeps the promise: no leases, no    *)
(* sessions, no clock, no sequence numbers, no runner identities.  Work is *)
(* queued, handed out under a token nobody had before, taken back only     *)
(* while it has not started, started under the token it was last handed    *)
(* out with, and ends once.                                                *)
(***************************************************************************)
EXTENDS Naturals, FiniteSets

\* MaxAttempt and MaxFence bound the Runs of an Action and the tokens of a Run.
CONSTANTS Actions, MaxAttempt, MaxFence

VARIABLES
    status,     \* status[a]: state of the Action
    latest,     \* latest[a]: its newest Run, 0 before there is one
    phase,      \* phase[a][n]: state of its n-th Run
    token,      \* token[a][n]: the token that Run was last handed out with
    startedBy   \* startedBy[a][n]: the tokens under which it was started

vars == <<status, latest, phase, token, startedBy>>

Attempts == 1..MaxAttempt
Ends == {"succeeded", "failed", "cancelled"}
LiveStatus == {"active", "active_paused_for_warning"}

Init ==
    /\ status = [a \in Actions |-> "absent"]
    /\ latest = [a \in Actions |-> 0]
    /\ phase = [a \in Actions |-> [n \in Attempts |-> "absent"]]
    /\ token = [a \in Actions |-> [n \in Attempts |-> 0]]
    /\ startedBy = [a \in Actions |-> [n \in Attempts |-> {}]]

Become(a, st) == status' = [status EXCEPT ![a] = st]
Move(a, ph) == phase' = [phase EXCEPT ![a][latest[a]] = ph]
In(a, phases) == latest[a] > 0 /\ phase[a][latest[a]] \in phases

\* The Action waits in the queue with a Run of its own.
Enqueue(a) ==
    /\ latest[a] < MaxAttempt
    /\ Become(a, "queued")
    /\ latest' = [latest EXCEPT ![a] = @ + 1]
    /\ phase' = [phase EXCEPT ![a][latest[a] + 1] = "queued"]
    /\ UNCHANGED <<token, startedBy>>

\* Planned, asked about, or refused for want of a way to run it.
Plan(a) ==
    /\ status[a] = "absent"
    /\ Become(a, "capability_error") \/ Become(a, "paused_for_warning")
    /\ UNCHANGED <<latest, phase, token, startedBy>>

Decline(a) ==
    /\ status[a] = "paused_for_warning"
    /\ Become(a, "cancelled")
    /\ UNCHANGED <<latest, phase, token, startedBy>>

Queue(a) ==
    /\ \/ status[a] \in {"absent", "paused_for_warning"}
       \/ status[a] \in {"failed", "cancelled"} /\ In(a, {"failed", "cancelled"})
    /\ Enqueue(a)

\* Queued work is withdrawn, or turns out to be impossible.
Withdraw(a, k) ==
    /\ status[a] = "queued"
    /\ In(a, {"queued"})
    /\ Become(a, k)
    /\ Move(a, k)
    /\ UNCHANGED <<latest, token, startedBy>>

HandOut(a) ==
    LET n == latest[a] IN
    /\ status[a] = "queued"
    /\ In(a, {"queued"})
    /\ token[a][n] < MaxFence
    /\ Become(a, "active")
    /\ Move(a, "leased")
    /\ token' = [token EXCEPT ![a][n] = @ + 1]
    /\ UNCHANGED <<latest, startedBy>>

TakeBack(a) ==
    /\ status[a] = "active"
    /\ In(a, {"leased"})
    /\ Become(a, "queued")
    /\ Move(a, "queued")
    /\ UNCHANGED <<latest, token, startedBy>>

\* A start that loses the race against a cancellation is put on record too.
Start(a) ==
    LET n == latest[a] IN
    /\ In(a, {"leased", "cancel_requested"})
    /\ Move(a, IF phase[a][n] = "leased" THEN "running" ELSE phase[a][n])
    /\ startedBy' = [startedBy EXCEPT ![a][n] = @ \cup {token[a][n]}]
    /\ UNCHANGED <<status, latest, token>>

\* Started work may come upon something it has to ask the operator about.
Pause(a) ==
    /\ status[a] = "active"
    /\ In(a, {"leased", "running"})
    /\ Become(a, "active_paused_for_warning")
    /\ UNCHANGED <<latest, phase, token, startedBy>>

Resume(a) ==
    /\ status[a] = "active_paused_for_warning"
    /\ In(a, {"leased", "running"})
    /\ Become(a, "active")
    /\ UNCHANGED <<latest, phase, token, startedBy>>

\* One command of the operator, or all the work of one runner at once.
AskCancel(S) ==
    /\ \A a \in S : In(a, {"leased", "running"})
    /\ phase' = [a \in Actions |-> [n \in Attempts |->
                   IF a \in S /\ n = latest[a] THEN "cancel_requested" ELSE phase[a][n]]]
    /\ UNCHANGED <<status, latest, token, startedBy>>

\* Only running work succeeds, only cancelling work is cancelled.
Finish(a, k) ==
    /\ status[a] \in LiveStatus
    /\ In(a, CASE k = "succeeded" -> {"running"}
               [] k = "failed"    -> {"leased", "running", "cancel_requested"}
               [] k = "cancelled" -> {"cancel_requested"})
    /\ Become(a, k)
    /\ Move(a, k)
    /\ UNCHANGED <<latest, token, startedBy>>

Next ==
    \/ \E a \in Actions :
         \/ Plan(a) \/ Decline(a) \/ Queue(a)
         \/ \E k \in {"failed", "cancelled"} : Withdraw(a, k)
         \/ HandOut(a) \/ TakeBack(a) \/ Start(a) \/ Pause(a) \/ Resume(a)
         \/ \E k \in Ends : Finish(a, k)
    \/ \E S \in SUBSET Actions : AskCancel(S)

Spec == Init /\ [][Next]_vars

-----------------------------------------------------------------------------
\* Execution has effects outside that nothing undoes, so a Run is started
\* under at most one token, and once it has been it never waits in the queue.
StartedOnce ==
    \A a \in Actions, n \in Attempts :
      /\ \A s, t \in startedBy[a][n] : s = t
      /\ startedBy[a][n] # {} => phase[a][n] \notin {"queued", "leased"}
=============================================================================
