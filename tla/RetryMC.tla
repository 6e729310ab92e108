------------------------------ MODULE RetryMC ------------------------------
(***************************************************************************)
(* Scaled-down planners for TLC: the Rust one in the host's loop           *)
(* (RetryLoop), or all three beside each other (RetryRuntimes).  One state *)
(* graph holds both: the part that is not chosen stays in an initial       *)
(* state.                                                                  *)
(***************************************************************************)
EXTENDS RetryLoop, RetryRuntimes

\* Every policy over a few milliseconds, bounds and one beyond them included.
MCPolicies ==
    [max_attempts : {0, 1, 2, 3}, timeout_ms : {0, 3, 5},
     initial_backoff_ms : {1, 2}, max_backoff_ms : {1, 3}]

\* Every status a database failure maps to, and one that is no status.
MCFailures == {database_failure_status[f] : f \in DatabaseFailures} \cup {17}
MCJitters == {0, 1, 2}
MCMinimums == {None, 0, 2, 6}

\* Every field below, at and above its scaled-down bound.
RequestPolicies ==
    [max_attempts : {0, 2, 4}, timeout_ms : {3, 5},
     initial_backoff_ms : {1, 2}, max_backoff_ms : {1, 3, 4}]

RequestAttempts ==
    [attempts_completed : {1, 2}, elapsed_ms : {0, 2}, code : {8, 10},
     cancelled : BOOLEAN, replay_safe : BOOLEAN,
     jitter_permille : {1, 2}, retry_after_ms : {None, 2}]

RequestNumbers == {0 - 1, 0, 3, 5, 17}

VARIABLE part

MCInit ==
    /\ part \in {"loop", "runtimes"}
    /\ Init /\ RuntimesInit
    /\ part = "runtimes" => replay_safe /\ policy = CHOOSE p \in HostPolicies : TRUE
    /\ part = "loop" => /\ request = CHOOSE p \in RequestPolicies : TRUE
                        /\ observation = ToJs(CHOOSE a \in RequestAttempts : TRUE)

MCNext ==
    /\ UNCHANGED part
    /\ \/ part = "loop" /\ Next /\ UNCHANGED requestVars
       \/ part = "runtimes" /\ RuntimesNext /\ UNCHANGED vars

MCSpec == MCInit /\ [][MCNext]_<<part, vars, requestVars>>
=============================================================================
