----------------------------- MODULE RetryLoop -----------------------------
(***************************************************************************)
(* One logical remote call: the host loop that drives plan_rpc_retry.      *)
(*                                                                         *)
(* The planner is the code of rpc_retry.rs.  The loop is the host's and is *)
(* external: it is modelled from what the planner takes (attempts          *)
(* completed, monotonic elapsed time, a fresh jitter sample, cancellation  *)
(* observed now) and from the duties its comments give the host, above all *)
(* "Recheck deadline/cancellation before each send".  The server answers   *)
(* with any status; an answer that never comes surfaces as the status of   *)
(* the bounded transport timeout.                                          *)
(***************************************************************************)
EXTENDS RpcRetry

CONSTANTS
    HostPolicies,   \* the policies a host may configure, valid or not
    Failures,       \* status numbers an attempt can end with
    Jitters,        \* jitter samples a host may draw
    Minimums,       \* retry_after_ms values a server may send, None included
    MaxTime         \* bound on the clock, beyond every timeout

ASSUME HostAssumption ==
    /\ HostPolicies \subseteq Policies
    /\ Failures \subseteq Nat
    /\ Jitters \subseteq Nat
    /\ Minimums \subseteq Nat \cup {None}
    /\ MaxTime \in Nat

VARIABLES
    policy,         \* chosen once
    replay_safe,    \* trusted metadata of the method
    phase,          \* "ready" to send, "inflight", "sleeping" or "stopped"
    now,            \* monotonic milliseconds since the call began
    cancelled,      \* the caller has given up
    sends,          \* attempts sent
    completed,      \* attempts that came back with a failure
    wakeAt,         \* when the planned delay is over
    notBefore,      \* the server's own minimum, as a time
    code,           \* status of the last failed attempt
    reason          \* why the loop stopped

vars == <<policy, replay_safe, phase, now, cancelled, sends, completed, wakeAt,
          notBefore, code, reason>>

TypeOK ==
    /\ policy \in Policies
    /\ replay_safe \in BOOLEAN
    /\ phase \in {"ready", "inflight", "sleeping", "stopped"}
    /\ now \in Nat
    /\ cancelled \in BOOLEAN
    /\ sends \in Nat /\ completed \in Nat
    /\ wakeAt \in Nat /\ notBefore \in Nat
    /\ code \in Nat
    /\ reason \in Reasons \cup {"Running", "Succeeded", "HostStopped"}

Init ==
    /\ policy \in HostPolicies
    /\ replay_safe \in BOOLEAN
    /\ phase = "ready"
    /\ now = 0
    /\ cancelled = FALSE
    /\ sends = 0 /\ completed = 0
    /\ wakeAt = 0 /\ notBefore = 0
    /\ code = 0
    /\ reason = "Running"

\* Deadline and cancellation are checked, then the request goes out.
Send ==
    /\ phase = "ready"
    /\ ~cancelled /\ now < policy.timeout_ms
    /\ phase' = "inflight"
    /\ sends' = sends + 1
    /\ UNCHANGED <<policy, replay_safe, now, cancelled, completed, wakeAt,
                   notBefore, code, reason>>

\* The check before sending fails: the host stops without asking the planner.
HostStop ==
    /\ phase = "ready"
    /\ cancelled \/ now >= policy.timeout_ms
    /\ phase' = "stopped"
    /\ reason' = "HostStopped"
    /\ UNCHANGED <<policy, replay_safe, now, cancelled, sends, completed, wakeAt,
                   notBefore, code>>

Succeed ==
    /\ phase = "inflight"
    /\ phase' = "stopped"
    /\ reason' = "Succeeded"
    /\ UNCHANGED <<policy, replay_safe, now, cancelled, sends, completed, wakeAt,
                   notBefore, code>>

\* What the host tells the planner about a failed attempt.
Observed(status, jitter, minimum) ==
    [attempts_completed |-> completed + 1, elapsed_ms |-> now, code |-> status,
     cancelled |-> cancelled, replay_safe |-> replay_safe,
     jitter_permille |-> jitter, retry_after_ms |-> minimum]

\* An attempt fails: plan_rpc_retry says sleep, or stop.
Fail(status, jitter, minimum) ==
    /\ phase = "inflight"
    /\ completed' = completed + 1
    /\ code' = status
    /\ notBefore' = IF minimum = None THEN now ELSE now + minimum
    /\ LET plan == plan_rpc_retry(policy, Observed(status, jitter, minimum)) IN
        \/ /\ plan.retry
           /\ phase' = "sleeping"
           /\ wakeAt' = now + plan.delay_ms
           /\ UNCHANGED reason
        \/ /\ ~plan.retry
           /\ phase' = "stopped"
           /\ reason' = plan.reason
           /\ UNCHANGED wakeAt
    /\ UNCHANGED <<policy, replay_safe, now, cancelled, sends>>

\* The sleep is over; the scheduler may be late.
Wake ==
    /\ phase = "sleeping" /\ now >= wakeAt
    /\ phase' = "ready"
    /\ UNCHANGED <<policy, replay_safe, now, cancelled, sends, completed, wakeAt,
                   notBefore, code, reason>>

Cancel ==
    /\ phase # "stopped" /\ ~cancelled
    /\ cancelled' = TRUE
    /\ UNCHANGED <<policy, replay_safe, phase, now, sends, completed, wakeAt,
                   notBefore, code, reason>>

Tick ==
    /\ phase # "stopped" /\ now < MaxTime
    /\ now' = now + 1
    /\ UNCHANGED <<policy, replay_safe, phase, cancelled, sends, completed,
                   wakeAt, notBefore, code, reason>>

AttemptFails ==
    \E status \in Failures, jitter \in Jitters, minimum \in Minimums :
        Fail(status, jitter, minimum)

Next == Send \/ HostStop \/ Succeed \/ AttemptFails \/ Wake \/ Cancel \/ Tick

Spec == Init /\ [][Next]_vars

-----------------------------------------------------------------------------
(* Properties.                                                             *)

\* max_attempts includes the initial call: it bounds the sends of the whole
\* loop, and a policy the planner rejects never leads to a second send.
AttemptBudgetKept ==
    /\ ValidPolicy(policy) => sends <= policy.max_attempts
    /\ ~ValidPolicy(policy) => sends <= 1

\* A call is sent again only if its method is replay safe and the attempt
\* before ended unavailable or overloaded; in particular a transaction conflict
\* is never replayed as a whole call.
OnlySafeCallsRepeat ==
    sends > 1 /\ phase = "inflight" =>
        /\ replay_safe
        /\ code \in {database_failure_status["Unavailable"],
                    database_failure_status["Overloaded"]}

\* A server minimum is never shortened, neither by the backoff cap nor to fit
\* the deadline: no second send before it has passed.
ServerMinimumHonoured ==
    [][sends' > sends /\ sends > 0 => now >= notBefore]_vars

\* A planned sleep ends while there is time left for the call.
SleepsFitDeadline == phase = "sleeping" => wakeAt < policy.timeout_ms

\* The planner does not give up early: it reports an exhausted deadline only
\* when neither the longest backoff nor the server's minimum leaves time to send.
NeverGivesUpEarly ==
    reason = "DeadlineExhausted" =>
        \/ now + policy.max_backoff_ms >= policy.timeout_ms
        \/ notBefore >= policy.timeout_ms

-----------------------------------------------------------------------------
(* The inductive invariant the proofs of RetryLoop_proofs.tla rest on.     *)

\* Sends and failures are in step; only a stopped loop may have neither the
\* answer of its last send nor a failure for it.
CountsAgree ==
    /\ phase \in {"ready", "sleeping"} => sends = completed
    /\ phase = "inflight" => sends = completed + 1
    /\ phase = "stopped" <=> reason # "Running"

\* A loop that goes on after a failure does so on the planner's word.
RetriesArePlanned ==
    phase # "stopped" /\ completed > 0 =>
        /\ ValidPolicy(policy)
        /\ completed < policy.max_attempts
        /\ replay_safe
        /\ code \in RetryableCodes
        /\ notBefore <= wakeAt
        /\ phase # "sleeping" => wakeAt <= now

IInv ==
    /\ TypeOK
    /\ CountsAgree
    /\ RetriesArePlanned
    /\ AttemptBudgetKept
    /\ SleepsFitDeadline
    /\ NeverGivesUpEarly
=============================================================================
