------------------------------ MODULE RpcRetry ------------------------------
(***************************************************************************)
(* plan_rpc_retry of langs/rust/src/rpc_retry.rs: the pure function that   *)
(* decides, after a failed attempt of a remote call, whether and when the  *)
(* call may be sent again.  Field and reason names are the source's.       *)
(*                                                                         *)
(* The literal bounds of the code are constants here, so that TLC can      *)
(* exhaust a scaled-down planner while the theorems of RetryLoop_proofs    *)
(* hold of the planner with the code's own bounds.  u32 arithmetic appears *)
(* as arithmetic on Nat: the lemmas NoShiftOverflow and NoProductOverflow  *)
(* there show that no intermediate reaches 2^32 under the code's bounds.   *)
(***************************************************************************)
EXTENDS Naturals

CONSTANTS
    AttemptLimit,   \* 8
    TimeoutLimit,   \* 3_600_000 ms
    BackoffLimit,   \* 60_000 ms
    CodeLimit,      \* 16, the last gRPC status number
    JitterScale,    \* 1000, the scale of jitter_permille
    None            \* an absent retry_after_ms

\* The shift of the code is by at most seven places.
ASSUME AttemptLimitAssumption == AttemptLimit \in 1..8
ASSUME BoundsAssumption ==
    /\ TimeoutLimit \in Nat \ {0}
    /\ BackoffLimit \in Nat \ {0}
    /\ CodeLimit \in Nat
    /\ JitterScale \in Nat \ {0}
ASSUME NoneIsNoNumber == None \notin Nat

Policies ==
    [max_attempts : Nat, timeout_ms : Nat,
     initial_backoff_ms : Nat, max_backoff_ms : Nat]

Attempts ==
    [attempts_completed : Nat, elapsed_ms : Nat, code : Nat,
     cancelled : BOOLEAN, replay_safe : BOOLEAN,
     jitter_permille : Nat, retry_after_ms : Nat \cup {None}]

\* RetryReason
Reasons == {"Retry", "InvalidInput", "Cancelled", "UnsafeReplay",
            "AttemptsExhausted", "DeadlineExhausted", "NonRetryable"}

Decisions == [retry : BOOLEAN, delay_ms : Nat, reason : Reasons]

stop(reason) == [retry |-> FALSE, delay_ms |-> 0, reason |-> reason]

\* Mutant: a transaction conflict is retried as a whole call.
RetryableAndAborted == {8, 10, 14}

\* resource-exhausted and unavailable
RetryableCodes == {8, 14}

ValidPolicy(policy) ==
    /\ policy.max_attempts \in 1..AttemptLimit
    /\ policy.timeout_ms \in 1..TimeoutLimit
    /\ policy.initial_backoff_ms \in 1..BackoffLimit
    /\ policy.max_backoff_ms \in policy.initial_backoff_ms..BackoffLimit

ValidAttempt(attempt) ==
    /\ attempt.attempts_completed \in 1..AttemptLimit
    /\ attempt.elapsed_ms <= TimeoutLimit
    /\ attempt.code <= CodeLimit
    /\ attempt.jitter_permille <= JitterScale
    /\ attempt.retry_after_ms # None => attempt.retry_after_ms <= TimeoutLimit

\* 1 << (n - 1)
Shifted == <<1, 2, 4, 8, 16, 32, 64, 128>>

Smaller(a, b) == IF a <= b THEN a ELSE b
Larger(a, b) == IF a >= b THEN a ELSE b

\* Mutant: the cap is forgotten.
Uncapped(policy, attempt) ==
    policy.initial_backoff_ms * Shifted[attempt.attempts_completed]

\* The exponential backoff, capped.
Cap(policy, attempt) ==
    Smaller(policy.max_backoff_ms,
            policy.initial_backoff_ms * Shifted[attempt.attempts_completed])

\* Mutant: the server's minimum is cut to the largest backoff.
DelayCutsMinimum(policy, attempt) ==
    Smaller(policy.max_backoff_ms,
            Larger((Cap(policy, attempt) * attempt.jitter_permille) \div JitterScale,
                   IF attempt.retry_after_ms = None THEN 0
                   ELSE attempt.retry_after_ms))

\* Full jitter below the cap, never below the server's minimum.
Delay(policy, attempt) ==
    Larger((Cap(policy, attempt) * attempt.jitter_permille) \div JitterScale,
           IF attempt.retry_after_ms = None THEN 0 ELSE attempt.retry_after_ms)

\* Mutant: max_attempts counts the retries only.
ExhaustedLate(policy, attempt) == attempt.attempts_completed > policy.max_attempts

\* max_attempts includes the initial call.
Exhausted(policy, attempt) == attempt.attempts_completed >= policy.max_attempts

\* Mutant: a delay that reaches the deadline exactly is accepted.
TooLateByOne(policy, attempt) ==
    Delay(policy, attempt) > policy.timeout_ms - attempt.elapsed_ms

\* The delay leaves no time to send.
TooLate(policy, attempt) ==
    Delay(policy, attempt) >= policy.timeout_ms - attempt.elapsed_ms

\* The early returns of the code, in the code's order.
plan_rpc_retry(policy, attempt) ==
    IF ~(ValidPolicy(policy) /\ ValidAttempt(attempt)) THEN stop("InvalidInput")
    ELSE IF attempt.cancelled THEN stop("Cancelled")
    ELSE IF ~attempt.replay_safe THEN stop("UnsafeReplay")
    ELSE IF Exhausted(policy, attempt) THEN stop("AttemptsExhausted")
    ELSE IF attempt.elapsed_ms >= policy.timeout_ms THEN stop("DeadlineExhausted")
    ELSE IF attempt.code \notin RetryableCodes THEN stop("NonRetryable")
    ELSE IF TooLate(policy, attempt) THEN stop("DeadlineExhausted")
    ELSE [retry |-> TRUE, delay_ms |-> Delay(policy, attempt), reason |-> "Retry"]

\* DatabaseFailure and its public status number.
DatabaseFailures == {"Unavailable", "Overloaded", "NotFound", "AlreadyExists",
                     "TransactionConflict", "PermissionDenied", "Internal"}

database_failure_status ==
    [failure \in DatabaseFailures |->
        CASE failure = "Unavailable" -> 14
          [] failure = "Overloaded" -> 8
          [] failure = "NotFound" -> 5
          [] failure = "AlreadyExists" -> 6
          [] failure = "TransactionConflict" -> 10
          [] failure = "PermissionDenied" -> 7
          [] failure = "Internal" -> 13]
=============================================================================
