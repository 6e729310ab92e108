-------------------------- MODULE RetryLoop_proofs --------------------------
(***************************************************************************)
(* Proofs about the retry planner, for every policy and every observation, *)
(* about the loop it drives, for every host and every server, and about    *)
(* the planners of the other languages, for every request.                 *)
(***************************************************************************)
EXTENDS Integers, RetryLoop, RetryRuntimes, TLAPS

-----------------------------------------------------------------------------
(* Arithmetic.                                                             *)

\* The shift factor is a positive number of at most 128.
LEMMA ShiftIsBounded == \A n \in 1..AttemptLimit : Shifted[n] \in 1..128
  BY AttemptLimitAssumption DEF Shifted

\* A larger factor does not make a product smaller.
LEMMA ProductIsMonotone ==
    ASSUME NEW a \in Nat, NEW b \in Nat, NEW c \in Nat, NEW d \in Nat,
           a <= c, b <= d
    PROVE  a * b \in Nat /\ a * b <= c * d
<1>1. a * b <= c * b
  OBVIOUS
<1>2. c * b <= c * d
  OBVIOUS
<1> QED BY <1>1, <1>2

\* Scaling by at most the whole, and rounding down, does not enlarge.
LEMMA ScalingShrinks ==
    ASSUME NEW a \in Nat, NEW j \in Nat, NEW s \in Nat \ {0}, j <= s
    PROVE  (a * j) \div s \in Nat /\ (a * j) \div s <= a
<1>1. a * j <= a * s /\ a * j \in Nat
  BY ProductIsMonotone
<1>2. (a * j) \div s \in Nat
  BY <1>1
<1>3. (a * j) \div s <= a
  BY <1>1
<1> QED BY <1>2, <1>3

\* A valid policy keeps both backoffs within the limit.
LEMMA BackoffsAreBounded ==
    ASSUME NEW p \in Policies, ValidPolicy(p)
    PROVE  /\ p.initial_backoff_ms \in Nat /\ p.initial_backoff_ms <= BackoffLimit
           /\ p.max_backoff_ms \in Nat /\ p.max_backoff_ms <= BackoffLimit
  BY BoundsAssumption DEF ValidPolicy, Policies

\* With the code's bounds the shifted backoff stays below 2^32: u32 arithmetic
\* is exact ("every product below u32::MAX").
LEMMA NoShiftOverflow ==
    ASSUME BackoffLimit = 60000,
           NEW p \in Policies, NEW a \in Attempts,
           ValidPolicy(p), ValidAttempt(a)
    PROVE  p.initial_backoff_ms * Shifted[a.attempts_completed]
             < 4294967296
<1>1. p.initial_backoff_ms \in Nat /\ p.initial_backoff_ms <= BackoffLimit
  BY BackoffsAreBounded
<1>2. /\ Shifted[a.attempts_completed] \in Nat
      /\ Shifted[a.attempts_completed] <= 128
  BY ShiftIsBounded DEF ValidAttempt
<1>3. p.initial_backoff_ms * Shifted[a.attempts_completed]
        <= BackoffLimit * 128
  BY <1>1, <1>2, BoundsAssumption, ProductIsMonotone
<1> QED BY <1>1, <1>2, <1>3, ProductIsMonotone

-----------------------------------------------------------------------------
(* The planner.                                                            *)

\* The capped exponential backoff never exceeds max_backoff_ms.
LEMMA CapIsBounded ==
    ASSUME NEW p \in Policies, NEW a \in Attempts, ValidPolicy(p), ValidAttempt(a)
    PROVE  Cap(p, a) \in Nat /\ Cap(p, a) <= p.max_backoff_ms
<1>1. Shifted[a.attempts_completed] \in Nat
  BY ShiftIsBounded DEF ValidAttempt
<1>2. p.initial_backoff_ms \in Nat /\ p.max_backoff_ms \in Nat
  BY DEF Policies
<1>3. p.initial_backoff_ms * Shifted[a.attempts_completed] \in Nat
  BY <1>1, <1>2
<1> QED BY <1>2, <1>3 DEF Cap, Smaller

\* With the code's bounds the jittered product stays below 2^32 as well.
LEMMA NoProductOverflow ==
    ASSUME BackoffLimit = 60000, JitterScale = 1000,
           NEW p \in Policies, NEW a \in Attempts, ValidPolicy(p), ValidAttempt(a)
    PROVE  Cap(p, a) * a.jitter_permille < 4294967296
<1>1. Cap(p, a) \in Nat /\ Cap(p, a) <= BackoffLimit
  BY CapIsBounded, BackoffsAreBounded
<1>2. a.jitter_permille \in Nat /\ a.jitter_permille <= JitterScale
  BY DEF ValidAttempt, Attempts
<1>3. /\ Cap(p, a) * a.jitter_permille \in Nat
      /\ Cap(p, a) * a.jitter_permille <= BackoffLimit * JitterScale
  BY <1>1, <1>2, BoundsAssumption, ProductIsMonotone
<1> QED BY <1>3

\* The delay respects the server's minimum, and exceeds the longest backoff
\* only to do so.
LEMMA DelayIsBounded ==
    ASSUME NEW p \in Policies, NEW a \in Attempts, ValidPolicy(p), ValidAttempt(a)
    PROVE  /\ Delay(p, a) \in Nat
           /\ a.retry_after_ms # None => Delay(p, a) >= a.retry_after_ms
           /\ \/ Delay(p, a) <= p.max_backoff_ms
              \/ a.retry_after_ms # None /\ Delay(p, a) = a.retry_after_ms
<1> DEFINE jittered == (Cap(p, a) * a.jitter_permille) \div JitterScale
<1>1. Cap(p, a) \in Nat /\ Cap(p, a) <= p.max_backoff_ms /\ p.max_backoff_ms \in Nat
  BY CapIsBounded DEF Policies
<1>2. a.jitter_permille \in Nat /\ a.jitter_permille <= JitterScale
  BY DEF ValidAttempt, Attempts
<1>3. jittered \in Nat /\ jittered <= Cap(p, a)
  BY <1>1, <1>2, BoundsAssumption, ScalingShrinks
<1>4. jittered <= p.max_backoff_ms
  BY <1>1, <1>3
<1>5. Delay(p, a) =
        Larger(jittered, IF a.retry_after_ms = None THEN 0 ELSE a.retry_after_ms)
  BY DEF Delay
<1>6. a.retry_after_ms \in Nat \cup {None}
  BY DEF Attempts
<1> HIDE DEF jittered
<1> QED BY <1>1, <1>3, <1>4, <1>5, <1>6, NoneIsNoNumber DEF Larger

\* plan_rpc_retry, whatever it is given: a retry is only planned for a valid,
\* live, replay-safe call with attempts and time left and a retryable status, no
\* earlier than the server allows; stop decisions have no delay; and an
\* exhausted deadline is reported only when it really leaves no room.
THEOREM PlannerIsSafe ==
    ASSUME NEW p \in Policies, NEW a \in Attempts
    PROVE  LET d == plan_rpc_retry(p, a) IN
           /\ d \in Decisions
           /\ d.retry => /\ ValidPolicy(p) /\ ValidAttempt(a)
                         /\ ~a.cancelled /\ a.replay_safe
                         /\ a.attempts_completed < p.max_attempts
                         /\ a.code \in RetryableCodes
                         /\ a.elapsed_ms + d.delay_ms < p.timeout_ms
                         /\ a.retry_after_ms # None => d.delay_ms >= a.retry_after_ms
           /\ ~d.retry => d.delay_ms = 0 /\ d.reason # "Retry"
           /\ d.reason = "DeadlineExhausted" =>
                \/ a.elapsed_ms + p.max_backoff_ms >= p.timeout_ms
                \/ /\ a.retry_after_ms # None
                   /\ a.elapsed_ms + a.retry_after_ms >= p.timeout_ms
<1>1. CASE ~(ValidPolicy(p) /\ ValidAttempt(a))
  BY <1>1 DEF plan_rpc_retry, stop, Decisions, Reasons
<1>2. CASE ValidPolicy(p) /\ ValidAttempt(a)
  <2>1. /\ Delay(p, a) \in Nat
        /\ a.retry_after_ms # None => Delay(p, a) >= a.retry_after_ms
        /\ \/ Delay(p, a) <= p.max_backoff_ms
           \/ a.retry_after_ms # None /\ Delay(p, a) = a.retry_after_ms
    BY <1>2, DelayIsBounded
  <2>2. /\ p.max_attempts \in Nat /\ p.timeout_ms \in Nat
        /\ p.max_backoff_ms \in Nat /\ a.attempts_completed \in Nat
        /\ a.elapsed_ms \in Nat /\ a.code \in Nat
        /\ a.retry_after_ms \in Nat \cup {None}
    BY DEF Policies, Attempts
  <2>3. CASE \/ a.cancelled \/ ~a.replay_safe
             \/ a.attempts_completed >= p.max_attempts
    BY <1>2, <2>2, <2>3 DEF plan_rpc_retry, Exhausted, stop, Decisions, Reasons
  <2>4. CASE /\ ~a.cancelled /\ a.replay_safe
             /\ ~(a.attempts_completed >= p.max_attempts)
    BY <1>2, <2>1, <2>2, <2>4
       DEF plan_rpc_retry, Exhausted, TooLate, stop, Decisions, Reasons
  <2> QED BY <2>3, <2>4
<1> QED BY <1>1, <1>2

-----------------------------------------------------------------------------
(* The loop.                                                               *)

\* What the host reports is an observation the planner is specified for.
LEMMA ObservationsAreTyped ==
    ASSUME TypeOK, NEW status \in Failures, NEW jitter \in Jitters,
           NEW minimum \in Minimums
    PROVE  /\ policy \in Policies
           /\ Observed(status, jitter, minimum) \in Attempts
  BY HostAssumption DEF TypeOK, Observed, Attempts

\* A failed attempt preserves the invariant: the planner decides.
LEMMA FailPreserves ==
    ASSUME IInv, NEW status \in Failures, NEW jitter \in Jitters,
           NEW minimum \in Minimums, Fail(status, jitter, minimum)
    PROVE  IInv'
<1> DEFINE a == Observed(status, jitter, minimum)
           d == plan_rpc_retry(policy, a)
<1>1. TypeOK /\ policy \in Policies /\ a \in Attempts
  BY ObservationsAreTyped DEF IInv
<1>2. /\ d \in Decisions
      /\ d.retry => /\ ValidPolicy(policy)
                    /\ a.replay_safe
                    /\ a.attempts_completed < policy.max_attempts
                    /\ a.code \in RetryableCodes
                    /\ a.elapsed_ms + d.delay_ms < policy.timeout_ms
                    /\ a.retry_after_ms # None => d.delay_ms >= a.retry_after_ms
      /\ ~d.retry => d.reason # "Retry"
      /\ d.reason = "DeadlineExhausted" =>
            \/ a.elapsed_ms + policy.max_backoff_ms >= policy.timeout_ms
            \/ /\ a.retry_after_ms # None
               /\ a.elapsed_ms + a.retry_after_ms >= policy.timeout_ms
  BY <1>1, PlannerIsSafe
<1>3. /\ a.attempts_completed = completed + 1 /\ a.elapsed_ms = now
      /\ a.code = status /\ a.replay_safe = replay_safe
      /\ a.retry_after_ms = minimum
  BY DEF Observed
<1>4. /\ phase = "inflight" /\ completed' = completed + 1 /\ code' = status
      /\ notBefore' = (IF minimum = None THEN now ELSE now + minimum)
      /\ \/ d.retry /\ phase' = "sleeping" /\ wakeAt' = now + d.delay_ms /\ reason' = reason
         \/ ~d.retry /\ phase' = "stopped" /\ reason' = d.reason /\ wakeAt' = wakeAt
      /\ UNCHANGED <<policy, replay_safe, now, cancelled, sends>>
  BY DEF Fail
<1>5. minimum \in Nat \cup {None} /\ status \in Nat
  BY HostAssumption
<1> HIDE DEF a, d
<1>6. d.reason \in Reasons /\ d.delay_ms \in Nat
  BY <1>2 DEF Decisions
<1>7. notBefore' \in Nat /\ wakeAt' \in Nat
  BY <1>1, <1>4, <1>5, <1>6, NoneIsNoNumber DEF TypeOK
<1>8. TypeOK'
  BY <1>1, <1>4, <1>5, <1>6, <1>7 DEF TypeOK
<1>9. CountsAgree'
  BY <1>4, <1>6 DEF IInv, CountsAgree, Reasons
<1>10. RetriesArePlanned' /\ SleepsFitDeadline'
  BY <1>1, <1>2, <1>3, <1>4, <1>5, <1>6, NoneIsNoNumber
     DEF TypeOK, RetriesArePlanned, SleepsFitDeadline, ValidPolicy
<1>11. AttemptBudgetKept'
  BY <1>4 DEF IInv, AttemptBudgetKept, ValidPolicy
<1>12. NeverGivesUpEarly'
  BY <1>1, <1>2, <1>3, <1>4, <1>5, <1>6 DEF TypeOK, IInv, NeverGivesUpEarly, CountsAgree
<1> QED BY <1>8, <1>9, <1>10, <1>11, <1>12 DEF IInv

\* Sending keeps the attempt budget: a planned retry leaves room for one more.
LEMMA SendPreserves == ASSUME IInv, Send PROVE IInv'
<1> USE DEF IInv, Send
<1>1. TypeOK' /\ CountsAgree' /\ SleepsFitDeadline' /\ NeverGivesUpEarly'
  BY DEF TypeOK, CountsAgree, SleepsFitDeadline, NeverGivesUpEarly
<1>2. RetriesArePlanned'
  BY DEF TypeOK, RetriesArePlanned, ValidPolicy
<1>3. AttemptBudgetKept'
  <2>1. CASE completed = 0
    BY <2>1 DEF TypeOK, CountsAgree, AttemptBudgetKept, ValidPolicy
  <2>2. CASE completed > 0
    BY <2>2 DEF TypeOK, CountsAgree, AttemptBudgetKept, ValidPolicy, Policies,
       RetriesArePlanned
  <2> QED BY <2>1, <2>2 DEF TypeOK
<1> QED BY <1>1, <1>2, <1>3

\* The other steps neither send nor plan.
LEMMA QuietStepsPreserve ==
    ASSUME IInv, HostStop \/ Succeed \/ Wake \/ Cancel \/ Tick \/ UNCHANGED vars
    PROVE  IInv'
<1> USE DEF IInv, HostStop, Succeed, Wake, Cancel, Tick, vars
<1>1. TypeOK'
  <2>1. CASE Cancel
    BY <2>1 DEF TypeOK
  <2>2. CASE Tick
    BY <2>2 DEF TypeOK
  <2>3. CASE HostStop \/ Succeed \/ Wake
    BY <2>3 DEF TypeOK
  <2>4. CASE UNCHANGED vars
    BY <2>4 DEF TypeOK
  <2> QED BY <2>1, <2>2, <2>3, <2>4
<1>2. CountsAgree' /\ SleepsFitDeadline'
  BY DEF TypeOK, CountsAgree, SleepsFitDeadline
<1>3. RetriesArePlanned' /\ AttemptBudgetKept'
  BY DEF TypeOK, RetriesArePlanned, AttemptBudgetKept, ValidPolicy
<1>4. NeverGivesUpEarly'
  BY DEF TypeOK, NeverGivesUpEarly, CountsAgree
<1> QED BY <1>1, <1>2, <1>3, <1>4

\* The inductive invariant holds in every reachable state of every host.
THEOREM Invariance == Spec => []IInv
<1>1. Init => IInv
  <2> SUFFICES ASSUME Init PROVE IInv
    OBVIOUS
  <2> USE DEF Init
  <2>1. TypeOK
    BY HostAssumption DEF TypeOK
  <2>2. CountsAgree /\ RetriesArePlanned /\ SleepsFitDeadline /\ NeverGivesUpEarly
    BY DEF CountsAgree, RetriesArePlanned, SleepsFitDeadline, NeverGivesUpEarly
  <2>3. AttemptBudgetKept
    BY <2>1 DEF TypeOK, AttemptBudgetKept, ValidPolicy, Policies
  <2> QED BY <2>1, <2>2, <2>3 DEF IInv
<1>2. IInv /\ [Next]_vars => IInv'
  BY FailPreserves, SendPreserves, QuietStepsPreserve DEF Next, AttemptFails
<1> QED BY <1>1, <1>2, PTL DEF Spec

\* The attempt budget includes the initial call and bounds the whole loop.
THEOREM BudgetIsKept == Spec => []AttemptBudgetKept
<1>1. IInv => AttemptBudgetKept
  BY DEF IInv
<1> QED BY <1>1, Invariance, PTL

\* Only replay-safe calls that failed unavailable or overloaded are repeated.
THEOREM RepeatsAreSafe == Spec => []OnlySafeCallsRepeat
<1>1. IInv => OnlySafeCallsRepeat
  BY DEF IInv, TypeOK, CountsAgree, RetriesArePlanned, OnlySafeCallsRepeat,
     RetryableCodes, database_failure_status, DatabaseFailures
<1> QED BY <1>1, Invariance, PTL

\* Every planned sleep ends before the deadline.
THEOREM SleepsFit == Spec => []SleepsFitDeadline
<1>1. IInv => SleepsFitDeadline
  BY DEF IInv
<1> QED BY <1>1, Invariance, PTL

\* An exhausted deadline is never reported with room to spare.
THEOREM GivesUpLate == Spec => []NeverGivesUpEarly
<1>1. IInv => NeverGivesUpEarly
  BY DEF IInv
<1> QED BY <1>1, Invariance, PTL

\* No send precedes the minimum the server asked for.
THEOREM MinimumIsHonoured == Spec => ServerMinimumHonoured
<1>1. ASSUME IInv, [Next]_vars
      PROVE  [sends' > sends /\ sends > 0 => now >= notBefore]_vars
  <2>1. CASE Send
    BY <1>1, <2>1 DEF IInv, TypeOK, CountsAgree, RetriesArePlanned, Send
  <2>2. CASE ~Send
    BY <1>1, <2>2 DEF IInv, TypeOK, Next, HostStop, Succeed, AttemptFails, Fail,
       Wake, Cancel, Tick, vars
  <2> QED BY <2>1, <2>2
<1> QED BY <1>1, Invariance, PTL DEF Spec, ServerMinimumHonoured

-----------------------------------------------------------------------------
(* The three runtimes.                                                     *)

Flags == {"cancelled", "replay_safe"}

\* What a caller may hand over: properties may be missing, strange or one too many.
PolicyShaped(p) ==
    /\ p = [key \in DOMAIN p |-> p[key]]
    /\ \A key \in DOMAIN p : p[key] \in Int \cup {Junk, Accessor}
AttemptShaped(a) ==
    /\ a = [key \in DOMAIN a |-> a[key]]
    /\ \A key \in DOMAIN a : a[key] \in (IF key \in Flags THEN BOOLEAN ELSE Int) \cup {Junk, Accessor}

\* The table of the shift is the power JavaScript and Dart compute.
LEMMA ShiftIsPower == \A n \in 1 .. AttemptLimit : Shifted[n] = 2 ^ (n - 1)
<1>1. /\ 2 ^ 0 = 1 /\ 2 ^ 1 = 2 /\ 2 ^ 2 = 4 /\ 2 ^ 3 = 8 /\ 2 ^ 4 = 16 /\ 2 ^ 5 = 32
      /\ 2 ^ 6 = 64 /\ 2 ^ 7 = 128
  OBVIOUS
<1>2. ASSUME NEW m \in {0, 1, 2, 3, 4, 5, 6, 7} PROVE Shifted[m + 1] = 2 ^ m
  <2>1. CASE m = 0
    BY <1>1, <2>1 DEF Shifted
  <2>2. CASE m = 1
    BY <1>1, <2>2 DEF Shifted
  <2>3. CASE m = 2
    BY <1>1, <2>3 DEF Shifted
  <2>4. CASE m = 3
    BY <1>1, <2>4 DEF Shifted
  <2>5. CASE m = 4
    BY <1>1, <2>5 DEF Shifted
  <2>6. CASE m = 5
    BY <1>1, <2>6 DEF Shifted
  <2>7. CASE m = 6
    BY <1>1, <2>7 DEF Shifted
  <2>8. CASE m = 7
    BY <1>1, <2>8 DEF Shifted
  <2> QED BY <2>1, <2>2, <2>3, <2>4, <2>5, <2>6, <2>7, <2>8
<1>3. ASSUME NEW n \in 1 .. AttemptLimit PROVE Shifted[n] = 2 ^ (n - 1)
  <2> DEFINE m == n - 1
  <2>1. m \in {0, 1, 2, 3, 4, 5, 6, 7} /\ m + 1 = n
    BY AttemptLimitAssumption
  <2> HIDE DEF m
  <2>2. Shifted[n] = 2 ^ m
    BY <1>2, <2>1
  <2> QED BY <2>2 DEF m
<1> QED BY <1>3

\* Naming the absent minimum changes no other property.
LEMMA FromJsFields ==
    ASSUME NEW a, AttemptShaped(a), ATTEMPT_KEYS \subseteq DOMAIN a
    PROVE  /\ \A key \in ATTEMPT_KEYS : FromJs(a)[key] = a[key]
           /\ FromJs(a).retry_after_ms =
                IF "retry_after_ms" \in DOMAIN a THEN a.retry_after_ms ELSE None
BY DEF FromJs, ATTEMPT_KEYS

\* A request the Rust struct can hold.
LEMMA TypedRequest ==
    ASSUME NEW p, NEW a, PolicyShaped(p), AttemptShaped(a), RustTyped(p, a)
    PROVE  /\ p \in Policies
           /\ FromJs(a) \in Attempts
<1>1. /\ DOMAIN p = POLICY_KEYS /\ ATTEMPT_KEYS \subseteq DOMAIN a
      /\ DOMAIN a \subseteq AllKeys
      /\ \A key \in DOMAIN p : p[key] \in Nat
      /\ \A key \in DOMAIN a \ Flags : a[key] \in Nat
      /\ \A key \in Flags : a[key] \in BOOLEAN
  BY DEF RustTyped, DartTyped, PolicyShaped, AttemptShaped, Flags, ATTEMPT_KEYS,
         AllKeys
<1>2. p \in Policies
  BY <1>1 DEF Policies, PolicyShaped, POLICY_KEYS
<1>3. FromJs(a) = [key \in AllKeys |->
         IF key \in DOMAIN a THEN a[key] ELSE None]
  BY <1>1 DEF FromJs, AttemptShaped, AllKeys
<1>4. FromJs(a) \in Attempts
  BY <1>1, <1>3 DEF Attempts, AllKeys, ATTEMPT_KEYS, Flags
<1> QED BY <1>2, <1>4

\* All three validate alike, whoever can hold the request ...
LEMMA JsAcceptsTyped ==
    ASSUME NEW p, NEW a, PolicyShaped(p), AttemptShaped(a), JsValid(p, a)
    PROVE  RustTyped(p, a)
<1>1. /\ DOMAIN p = POLICY_KEYS /\ ATTEMPT_KEYS \subseteq DOMAIN a
      /\ DOMAIN a \subseteq AllKeys
      /\ \A key \in DOMAIN p : p[key] # Accessor
      /\ \A key \in DOMAIN a : a[key] # Accessor
  BY DEF JsValid, record, AllKeys
<1>2. \A key \in DOMAIN p : p[key] \in Int /\ p[key] >= 0
  BY <1>1, BoundsAssumption DEF JsValid, bounded, POLICY_KEYS
<1>3. \A key \in DOMAIN a \ Flags : a[key] \in Int /\ a[key] >= 0
  BY <1>1 DEF JsValid, bounded, ATTEMPT_KEYS, AllKeys, Flags
<1>4. \A key \in Flags : a[key] # Junk
  BY DEF JsValid, Flags
<1> QED BY <1>1, <1>2, <1>3, <1>4, RequestAssumption DEF RustTyped, DartTyped, Flags

LEMMA DartAcceptsTyped ==
    ASSUME NEW p, NEW a, PolicyShaped(p), AttemptShaped(a),
           DartTyped(p, a), DartValid(p, FromJs(a))
    PROVE  RustTyped(p, a)
<1>1. /\ DOMAIN p = POLICY_KEYS /\ ATTEMPT_KEYS \subseteq DOMAIN a
      /\ DOMAIN a \subseteq AllKeys
  BY DEF DartTyped
<1>2. \A key \in DOMAIN p : p[key] >= 0
  BY <1>1 DEF DartValid, bounded, POLICY_KEYS
<1>3. \A key \in ATTEMPT_KEYS \ Flags : a[key] >= 0
  BY <1>1, FromJsFields DEF DartValid, bounded, ATTEMPT_KEYS, Flags
<1>4. "retry_after_ms" \in DOMAIN a => a.retry_after_ms >= 0
  BY <1>1, FromJsFields, RequestAssumption DEF DartValid, bounded, AttemptShaped,
     DartTyped, Flags
<1> QED BY <1>1, <1>2, <1>3, <1>4 DEF RustTyped, AllKeys, Flags

\* ... and agree on what is valid and on the delay.
LEMMA SameValidity ==
    ASSUME NEW p, NEW a, PolicyShaped(p), AttemptShaped(a), RustTyped(p, a)
    PROVE  LET b == FromJs(a) IN
           /\ JsValid(p, a) <=> ValidPolicy(p) /\ ValidAttempt(b)
           /\ DartValid(p, b) <=> ValidPolicy(p) /\ ValidAttempt(b)
<1> DEFINE b == FromJs(a)
<1>1. p \in Policies /\ b \in Attempts
  BY TypedRequest
<1>2. /\ ATTEMPT_KEYS \subseteq DOMAIN a
      /\ record(p, POLICY_KEYS, {})
      /\ record(a, ATTEMPT_KEYS, {"retry_after_ms"})
      /\ a.cancelled # Junk /\ a.replay_safe # Junk
  BY DEF RustTyped, DartTyped, record, AllKeys, ATTEMPT_KEYS
<1>3. /\ b.attempts_completed = a.attempts_completed /\ b.elapsed_ms = a.elapsed_ms
      /\ b.code = a.code /\ b.jitter_permille = a.jitter_permille
      /\ b.retry_after_ms = IF "retry_after_ms" \in DOMAIN a THEN a.retry_after_ms ELSE None
  BY <1>2, FromJsFields DEF ATTEMPT_KEYS
<1>4. "retry_after_ms" \in DOMAIN a => a.retry_after_ms \in Nat
  BY DEF AttemptShaped, RustTyped, DartTyped, Flags
<1> HIDE DEF b
<1>5. DartValid(p, b) <=> ValidPolicy(p) /\ ValidAttempt(b)
  BY <1>1, BoundsAssumption, AttemptLimitAssumption, NoneIsNoNumber
     DEF DartValid, bounded, ValidPolicy, ValidAttempt, Policies, Attempts
<1>6. JsValid(p, a) <=> DartValid(p, b)
  BY <1>2, <1>3, <1>4, NoneIsNoNumber DEF JsValid, DartValid, bounded
<1> QED BY <1>5, <1>6 DEF b

LEMMA SameDelay ==
    ASSUME NEW p, NEW a, PolicyShaped(p), AttemptShaped(a), RustTyped(p, a),
           ValidPolicy(p), ValidAttempt(FromJs(a))
    PROVE  /\ JsDelay(p, a) = Delay(p, FromJs(a))
           /\ DartDelay(p, FromJs(a)) = Delay(p, FromJs(a))
<1> DEFINE b == FromJs(a)
           minimum == IF b.retry_after_ms = None THEN 0 ELSE b.retry_after_ms
           jittered == (Cap(p, b) * b.jitter_permille) \div JitterScale
<1>1. p \in Policies /\ b \in Attempts
  BY TypedRequest
<1>2. /\ b.attempts_completed = a.attempts_completed /\ b.jitter_permille = a.jitter_permille
      /\ b.retry_after_ms = IF "retry_after_ms" \in DOMAIN a THEN a.retry_after_ms ELSE None
      /\ "retry_after_ms" \in DOMAIN a => a.retry_after_ms # None
  <2>1. "retry_after_ms" \in DOMAIN a => a.retry_after_ms \in Nat
    BY DEF AttemptShaped, RustTyped, DartTyped, Flags
  <2>2. ATTEMPT_KEYS \subseteq DOMAIN a
    BY DEF RustTyped, DartTyped
  <2> QED BY <2>1, <2>2, NoneIsNoNumber, FromJsFields DEF ATTEMPT_KEYS
<1> HIDE DEF b
<1>3. Shifted[b.attempts_completed] = 2 ^ (b.attempts_completed - 1)
  BY ShiftIsPower DEF ValidAttempt, b
<1>4. Cap(p, b) \in Nat /\ Delay(p, b) = Larger(jittered, minimum)
  BY <1>1, CapIsBounded DEF Delay, b
<1>5. jittered \in Nat
  BY <1>1, <1>4, ScalingShrinks, BoundsAssumption DEF ValidAttempt, Attempts, b
<1>6. minimum \in Nat
  BY <1>1 DEF Attempts
<1> DEFINE exponential == p.initial_backoff_ms * 2 ^ (b.attempts_completed - 1)
<1>7. exponential \in Nat /\ p.max_backoff_ms \in Nat
  <2>1. Shifted[b.attempts_completed] \in Nat
    BY ShiftIsBounded DEF ValidAttempt, b
  <2> QED BY <1>1, <1>3, <2>1 DEF Policies
<1>8. Cap(p, b) = Smaller(p.max_backoff_ms, exponential)
  BY <1>3 DEF Cap
<1>9. JsDelay(p, a) = Larger(jittered, minimum)
  BY <1>2, <1>8 DEF JsDelay, Smaller, Larger
<1>10. DartDelay(p, b) = Larger(jittered, minimum)
  <2>1. Cap(p, b) = IF exponential < p.max_backoff_ms THEN exponential ELSE p.max_backoff_ms
    BY <1>7, <1>8 DEF Smaller
  <2>2. DartDelay(p, b) = IF jittered > minimum THEN jittered ELSE minimum
    BY <2>1 DEF DartDelay
  <2> HIDE DEF jittered, minimum
  <2> QED BY <1>5, <1>6, <2>2 DEF Larger
<1> QED BY <1>4, <1>9, <1>10 DEF b

\* One decision for a request that all three languages can express.
LEMMA SameDecision ==
    ASSUME NEW p, NEW a, PolicyShaped(p), AttemptShaped(a), RustTyped(p, a)
    PROVE  LET d == plan_rpc_retry(p, FromJs(a)) IN
           JsPlan(p, a) = d /\ DartPlan(p, FromJs(a)) = d
<1> DEFINE b == FromJs(a)
<1>1. /\ b.cancelled = a.cancelled /\ b.replay_safe = a.replay_safe /\ b.code = a.code
      /\ b.attempts_completed = a.attempts_completed /\ b.elapsed_ms = a.elapsed_ms
  BY FromJsFields DEF RustTyped, DartTyped, ATTEMPT_KEYS
<1>2. CASE ~ (ValidPolicy(p) /\ ValidAttempt(b))
  <2>1. ~ JsValid(p, a) /\ ~ DartValid(p, b)
    BY <1>2, SameValidity
  <2> HIDE DEF b
  <2> QED BY <1>2, <2>1 DEF JsPlan, DartPlan, plan_rpc_retry, stop, b
<1>3. CASE ValidPolicy(p) /\ ValidAttempt(b)
  <2>1. JsValid(p, a) /\ DartValid(p, b)
    BY <1>3, SameValidity
  <2>2. JsDelay(p, a) = Delay(p, b) /\ DartDelay(p, b) = Delay(p, b)
    BY <1>3, SameDelay
  <2> HIDE DEF b
  <2>3. JsPlan(p, a) = plan_rpc_retry(p, b)
    BY <1>1, <1>3, <2>1, <2>2 DEF JsPlan, plan_rpc_retry, stop, TooLate, Exhausted,
       RetryableCodes
  <2>4. DartPlan(p, b) = plan_rpc_retry(p, b)
    BY <1>1, <1>3, <2>1, <2>2 DEF DartPlan, plan_rpc_retry, stop, TooLate, Exhausted,
       RetryableCodes
  <2> QED BY <2>3, <2>4 DEF b
<1> QED BY <1>2, <1>3

\* A request stays one that a caller may hand over, and a decision is the planners' of it.
Shaped == PolicyShaped(request) /\ AttemptShaped(observation)
Planned ==
    plans # None =>
        plans = [js |-> JsPlan(request, observation),
                 dart |-> IF DartTyped(request, observation)
                          THEN DartPlan(request, FromJs(observation)) ELSE None,
                 rust |-> IF RustTyped(request, observation)
                          THEN plan_rpc_retry(request, FromJs(observation)) ELSE None]

LEMMA ShapedInit ==
    RuntimesInit => Shaped /\ Planned
<1> SUFFICES ASSUME RuntimesInit PROVE Shaped /\ Planned
  OBVIOUS
<1>1. request \in Policies /\ plans = None
  BY RequestAssumption DEF RuntimesInit
<1>2. PICK a \in Attempts : observation = ToJs(a)
  BY RequestAssumption DEF RuntimesInit
<1>3. PolicyShaped(request)
  BY <1>1 DEF Policies, PolicyShaped
<1>4. AttemptShaped(a) \/ a.retry_after_ms = None
  BY DEF Attempts, AttemptShaped, Flags
<1>5. AttemptShaped(observation)
  BY <1>2, <1>4 DEF ToJs, Attempts, AttemptShaped, Flags
<1> QED BY <1>1, <1>3, <1>5 DEF Shaped, Planned

\* Tampering keeps the shape.
LEMMA SpoiltForms ==
    ASSUME NEW r, NEW q \in Spoilt(r)
    PROVE  \/ \E key \in DOMAIN r, v \in {Junk, Accessor} : q = With(r, key, v)
           \/ \E key \in DOMAIN r \ Flags, n \in Numbers : q = With(r, key, n)
           \/ \E key \in DOMAIN r : q = Without(r, key)
           \/ q = [k \in DOMAIN r \cup {"extra"} |-> IF k = "extra" THEN 1 ELSE r[k]]
BY DEF Spoilt, Flags

LEMMA SpoiltPolicy ==
    ASSUME NEW p, PolicyShaped(p), NEW q \in Spoilt(p)
    PROVE  PolicyShaped(q)
<1>1. CASE \E key \in DOMAIN p, v \in {Junk, Accessor} : q = With(p, key, v)
  BY <1>1, RequestAssumption DEF PolicyShaped, With
<1>2. CASE \E key \in DOMAIN p \ Flags, n \in Numbers : q = With(p, key, n)
  BY <1>2, RequestAssumption DEF PolicyShaped, With
<1>3. CASE \E key \in DOMAIN p : q = Without(p, key)
  BY <1>3 DEF PolicyShaped, Without
<1>4. CASE q = [k \in DOMAIN p \cup {"extra"} |-> IF k = "extra" THEN 1 ELSE p[k]]
  BY <1>4 DEF PolicyShaped
<1> QED BY <1>1, <1>2, <1>3, <1>4, SpoiltForms

LEMMA SpoiltAttempt ==
    ASSUME NEW a, AttemptShaped(a), NEW b \in Spoilt(a)
    PROVE  AttemptShaped(b)
<1>1. CASE \E key \in DOMAIN a, v \in {Junk, Accessor} : b = With(a, key, v)
  BY <1>1, RequestAssumption DEF AttemptShaped, With, Flags
<1>2. CASE \E key \in DOMAIN a \ Flags, n \in Numbers : b = With(a, key, n)
  BY <1>2, RequestAssumption DEF AttemptShaped, With, Flags
<1>3. CASE \E key \in DOMAIN a : b = Without(a, key)
  BY <1>3 DEF AttemptShaped, Without, Flags
<1>4. CASE b = [k \in DOMAIN a \cup {"extra"} |-> IF k = "extra" THEN 1 ELSE a[k]]
  BY <1>4 DEF AttemptShaped, Flags
<1> QED BY <1>1, <1>2, <1>3, <1>4, SpoiltForms

LEMMA ShapedNext ==
    Shaped /\ Planned /\ [RuntimesNext]_requestVars => (Shaped /\ Planned)'
<1> SUFFICES ASSUME Shaped, Planned, [RuntimesNext]_requestVars PROVE (Shaped /\ Planned)'
  OBVIOUS
<1>1. CASE Spoil
  <2>1. Planned'
    BY <1>1 DEF Spoil, Planned
  <2>2. Shaped'
    BY <1>1, SpoiltPolicy, SpoiltAttempt DEF Spoil, Shaped
  <2> QED BY <2>1, <2>2
<1>2. CASE Plan
  BY <1>2 DEF Plan, Shaped, Planned
<1>3. CASE UNCHANGED requestVars
  BY <1>3 DEF requestVars, Shaped, Planned
<1> QED BY <1>1, <1>2, <1>3 DEF RuntimesNext

LEMMA Agreement ==
    ASSUME Shaped, Planned
    PROVE  RuntimesAgree
<1> DEFINE b == FromJs(observation)
<1> USE DEF Shaped
<1>1. CASE plans # None /\ RustTyped(request, observation)
  <2>1. DartTyped(request, observation)
    BY <1>1 DEF RustTyped
  <2>2. plan_rpc_retry(request, b) \in Decisions
    BY <1>1, TypedRequest, PlannerIsSafe
  <2>3. /\ JsPlan(request, observation) = plan_rpc_retry(request, b)
        /\ DartPlan(request, b) = plan_rpc_retry(request, b)
    BY <1>1, SameDecision
  <2>4. /\ plans.rust = plan_rpc_retry(request, b) /\ plans.js = plans.rust /\ plans.dart = plans.rust
    BY <1>1, <2>1, <2>3 DEF Planned
  <2>5. plans.rust # None
    BY <2>2, <2>4, RequestAssumption
  <2> QED BY <2>4, <2>5 DEF RuntimesAgree, OneDecision, LooseInputsFailClosed
<1>2. CASE plans # None /\ ~ RustTyped(request, observation)
  <2>1. JsPlan(request, observation) = stop("InvalidInput")
    BY <1>2, JsAcceptsTyped DEF JsPlan
  <2>2. DartTyped(request, observation) => DartPlan(request, b) = stop("InvalidInput")
    BY <1>2, DartAcceptsTyped DEF DartPlan
  <2>3. /\ plans.rust = None /\ plans.js = stop("InvalidInput")
        /\ plans.dart \in {None, stop("InvalidInput")}
    BY <1>2, <2>1, <2>2 DEF Planned
  <2> QED BY <2>3 DEF RuntimesAgree, OneDecision, LooseInputsFailClosed
<1> QED BY <1>1, <1>2 DEF RuntimesAgree, OneDecision, LooseInputsFailClosed

\* The planners of the three languages never differ on a request that all of them can express, and
\* a request that only the looser languages can express fails closed in them, for every bound,
\* every request and every way to tamper with one property (rpc_retry.rs, rpc-retry.js,
\* rpc_retry.dart).
THEOREM RuntimesNeverDiffer ==
    RuntimesSpec => []RuntimesAgree
<1>1. RuntimesSpec => [](Shaped /\ Planned)
  BY ShapedInit, ShapedNext, PTL DEF RuntimesSpec
<1> QED BY <1>1, Agreement, PTL
=============================================================================
