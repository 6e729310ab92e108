--------------------------- MODULE RetryRuntimes ---------------------------
(***************************************************************************)
(* The planner is implemented three times.  RpcRetry is the Rust one; this *)
(* module adds the JavaScript and the Dart one, each with the inputs its   *)
(* language admits, and the caller that hands one request to all three.    *)
(*                                                                         *)
(* A JavaScript record is a function from its own property names to their  *)
(* values.  Two values stand for what a u32 or a boolean cannot be: Junk   *)
(* (undefined, null, a string, a fraction) and Accessor (a getter).        *)
(***************************************************************************)
EXTENDS Integers, RpcRetry

CONSTANTS
    Junk, Accessor,     \* property values that are no number and no boolean
    Numbers,            \* numbers a caller may put in a numeric field
    SomePolicies,       \* requests that are well typed in all three languages
    SomeAttempts

\* What stands for no number, no boolean and no decision is none.
ASSUME RequestAssumption ==
    /\ SomePolicies \subseteq Policies /\ SomeAttempts \subseteq Attempts /\ Numbers \subseteq Int
    /\ Junk \notin Int \cup BOOLEAN /\ Accessor \notin Int \cup BOOLEAN
    /\ None \notin Int \cup Decisions

VARIABLES
    request, observation,   \* what the caller hands over, in JavaScript's terms
    spoiled,                \* a field was tampered with
    plans                   \* the decision of each runtime, None before

requestVars == <<request, observation, spoiled, plans>>

-----------------------------------------------------------------------------
(* langs/typescript/src/rpc-retry.js                                       *)

POLICY_KEYS == {"max_attempts", "timeout_ms", "initial_backoff_ms",
                "max_backoff_ms"}
ATTEMPT_KEYS == {"attempts_completed", "elapsed_ms", "code", "cancelled",
                 "replay_safe", "jitter_permille"}

bounded(value, min, max) == value \in Int /\ value >= min /\ value <= max

record(value, required, optional) ==
    /\ required \subseteq DOMAIN value
    /\ DOMAIN value \subseteq required \cup optional
    /\ \A key \in DOMAIN value : value[key] # Accessor

JsValid(p, a) ==
    /\ record(p, POLICY_KEYS, {})
    /\ record(a, ATTEMPT_KEYS, {"retry_after_ms"})
    /\ bounded(p.max_attempts, 1, AttemptLimit)
    /\ bounded(p.timeout_ms, 1, TimeoutLimit)
    /\ bounded(p.initial_backoff_ms, 1, BackoffLimit)
    /\ bounded(p.max_backoff_ms, p.initial_backoff_ms, BackoffLimit)
    /\ bounded(a.attempts_completed, 1, AttemptLimit)
    /\ bounded(a.elapsed_ms, 0, TimeoutLimit)
    /\ bounded(a.code, 0, CodeLimit)
    /\ a.cancelled # Junk /\ a.replay_safe # Junk
    /\ bounded(a.jitter_permille, 0, JitterScale)
    /\ "retry_after_ms" \in DOMAIN a => bounded(a.retry_after_ms, 0, TimeoutLimit)

\* Mutant: the exponent counts the attempts, not the retries before this one.
JsDelayDoubled(p, a) ==
    LET cap == Smaller(p.max_backoff_ms,
                       p.initial_backoff_ms * 2 ^ a.attempts_completed)
        jittered == (cap * a.jitter_permille) \div JitterScale
    IN  Larger(jittered,
               IF "retry_after_ms" \in DOMAIN a THEN a.retry_after_ms ELSE 0)

JsDelay(p, a) ==
    LET cap == Smaller(p.max_backoff_ms,
                       p.initial_backoff_ms * 2 ^ (a.attempts_completed - 1))
        jittered == (cap * a.jitter_permille) \div JitterScale
    IN  Larger(jittered,
               IF "retry_after_ms" \in DOMAIN a THEN a.retry_after_ms ELSE 0)

JsPlan(p, a) ==
    IF ~JsValid(p, a) THEN stop("InvalidInput")
    ELSE IF a.cancelled THEN stop("Cancelled")
    ELSE IF ~a.replay_safe THEN stop("UnsafeReplay")
    ELSE IF a.attempts_completed >= p.max_attempts THEN stop("AttemptsExhausted")
    ELSE IF a.elapsed_ms >= p.timeout_ms THEN stop("DeadlineExhausted")
    ELSE IF a.code # 8 /\ a.code # 14 THEN stop("NonRetryable")
    ELSE IF JsDelay(p, a) >= p.timeout_ms - a.elapsed_ms
         THEN stop("DeadlineExhausted")
    ELSE [retry |-> TRUE, delay_ms |-> JsDelay(p, a), reason |-> "Retry"]

-----------------------------------------------------------------------------
(* langs/dart/lib/rpc_retry.dart: signed integers, null for no minimum.    *)

\* Mutant: the elapsed time is trusted to be non-negative.
DartValidUnsigned(p, a) ==
    /\ bounded(p.max_attempts, 1, AttemptLimit)
    /\ bounded(p.timeout_ms, 1, TimeoutLimit)
    /\ bounded(p.initial_backoff_ms, 1, BackoffLimit)
    /\ bounded(p.max_backoff_ms, p.initial_backoff_ms, BackoffLimit)
    /\ bounded(a.attempts_completed, 1, AttemptLimit)
    /\ a.elapsed_ms <= TimeoutLimit
    /\ bounded(a.code, 0, CodeLimit)
    /\ bounded(a.jitter_permille, 0, JitterScale)
    /\ a.retry_after_ms = None \/ bounded(a.retry_after_ms, 0, TimeoutLimit)

DartValid(p, a) ==
    /\ bounded(p.max_attempts, 1, AttemptLimit)
    /\ bounded(p.timeout_ms, 1, TimeoutLimit)
    /\ bounded(p.initial_backoff_ms, 1, BackoffLimit)
    /\ bounded(p.max_backoff_ms, p.initial_backoff_ms, BackoffLimit)
    /\ bounded(a.attempts_completed, 1, AttemptLimit)
    /\ bounded(a.elapsed_ms, 0, TimeoutLimit)
    /\ bounded(a.code, 0, CodeLimit)
    /\ bounded(a.jitter_permille, 0, JitterScale)
    /\ a.retry_after_ms = None \/ bounded(a.retry_after_ms, 0, TimeoutLimit)

DartDelay(p, a) ==
    LET exponential == p.initial_backoff_ms * 2 ^ (a.attempts_completed - 1)
        cap == IF exponential < p.max_backoff_ms THEN exponential
               ELSE p.max_backoff_ms
        jittered == (cap * a.jitter_permille) \div JitterScale
        serverMinimum == IF a.retry_after_ms = None THEN 0 ELSE a.retry_after_ms
    IN  IF jittered > serverMinimum THEN jittered ELSE serverMinimum

DartPlan(p, a) ==
    IF ~DartValid(p, a) THEN stop("InvalidInput")
    ELSE IF a.cancelled THEN stop("Cancelled")
    ELSE IF ~a.replay_safe THEN stop("UnsafeReplay")
    ELSE IF a.attempts_completed >= p.max_attempts THEN stop("AttemptsExhausted")
    ELSE IF a.elapsed_ms >= p.timeout_ms THEN stop("DeadlineExhausted")
    ELSE IF a.code # 8 /\ a.code # 14 THEN stop("NonRetryable")
    ELSE IF DartDelay(p, a) >= p.timeout_ms - a.elapsed_ms
         THEN stop("DeadlineExhausted")
    ELSE [retry |-> TRUE, delay_ms |-> DartDelay(p, a), reason |-> "Retry"]

-----------------------------------------------------------------------------
(* One request, three runtimes.                                            *)

\* JavaScript leaves an absent minimum out of the record; Rust and Dart name it.
ToJs(a) ==
    IF a.retry_after_ms = None
    THEN [key \in (DOMAIN a) \ {"retry_after_ms"} |-> a[key]]
    ELSE a

FromJs(a) ==
    IF "retry_after_ms" \in DOMAIN a THEN a
    ELSE [key \in DOMAIN a \cup {"retry_after_ms"} |->
             IF key = "retry_after_ms" THEN None ELSE a[key]]

AllKeys == ATTEMPT_KEYS \cup {"retry_after_ms"}

\* The values of a record are those its Dart class can hold.
DartTyped(p, a) ==
    /\ DOMAIN p = POLICY_KEYS
    /\ ATTEMPT_KEYS \subseteq DOMAIN a /\ DOMAIN a \subseteq AllKeys
    /\ \A key \in DOMAIN p : p[key] \notin {Junk, Accessor}
    /\ \A key \in DOMAIN a : a[key] \notin {Junk, Accessor}

\* ... and the Rust struct: no negative numbers either.
RustTyped(p, a) ==
    /\ DartTyped(p, a)
    /\ \A key \in DOMAIN p : p[key] >= 0
    /\ \A key \in DOMAIN a \ {"cancelled", "replay_safe"} : a[key] >= 0

RuntimesInit ==
    /\ request \in SomePolicies
    /\ observation \in {ToJs(a) : a \in SomeAttempts}
    /\ spoiled = FALSE
    /\ plans = None

With(r, key, v) == [r EXCEPT ![key] = v]
Without(r, key) == [k \in DOMAIN r \ {key} |-> r[k]]

\* The records a caller may hand over instead of r: one property replaced, left
\* out, or one too many.
Spoilt(r) ==
    {With(r, key, v) : key \in DOMAIN r, v \in {Junk, Accessor}}
      \cup {With(r, key, n) : key \in DOMAIN r \ {"cancelled", "replay_safe"}, n \in Numbers}
      \cup {Without(r, key) : key \in DOMAIN r}
      \cup {[k \in DOMAIN r \cup {"extra"} |-> IF k = "extra" THEN 1 ELSE r[k]]}

Spoil ==
    /\ plans = None /\ ~spoiled
    /\ spoiled' = TRUE
    /\ \/ observation' \in Spoilt(observation) /\ UNCHANGED request
       \/ request' \in Spoilt(request) /\ UNCHANGED observation
    /\ UNCHANGED plans

Plan ==
    /\ plans = None
    /\ plans' =
        [js |-> JsPlan(request, observation),
         dart |-> IF DartTyped(request, observation)
                  THEN DartPlan(request, FromJs(observation)) ELSE None,
         rust |-> IF RustTyped(request, observation)
                  THEN plan_rpc_retry(request, FromJs(observation)) ELSE None]
    /\ UNCHANGED <<request, observation, spoiled>>

RuntimesNext == Spoil \/ Plan

RuntimesSpec == RuntimesInit /\ [][RuntimesNext]_requestVars

\* Every request all three languages can express gets one decision from all.
OneDecision ==
    plans # None /\ plans.rust # None =>
        plans.js = plans.rust /\ plans.dart = plans.rust

\* A request only the looser languages can express fails closed in them.
LooseInputsFailClosed ==
    plans # None /\ plans.rust = None =>
        /\ plans.js = stop("InvalidInput")
        /\ plans.dart \in {None, stop("InvalidInput")}

\* The three planners never differ.
RuntimesAgree == OneDecision /\ LooseInputsFailClosed
=============================================================================
