SPECIFICATION MCSpec
CONSTANTS
    AttemptLimit = 3
    TimeoutLimit = 5
    BackoffLimit = 3
    CodeLimit = 16
    JitterScale = 2
    None = None
    Junk = Junk
    Accessor = Accessor
    HostPolicies <- MCPolicies
    Failures <- MCFailures
    Jitters <- MCJitters
    Minimums <- MCMinimums
    MaxTime = 7
    Numbers <- RequestNumbers
    SomePolicies <- RequestPolicies
    SomeAttempts <- RequestAttempts
INVARIANTS
    AttemptBudgetKept
    OnlySafeCallsRepeat
    SleepsFitDeadline
    NeverGivesUpEarly
    RuntimesAgree
PROPERTIES
    ServerMinimumHonoured
\* A call and a comparison end.
CHECK_DEADLOCK FALSE
