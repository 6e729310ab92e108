----------------------------- MODULE RateLimitMC -----------------------------
(* The published contract, drifting; policy IDs of every form, for TLC. *)
EXTENDS RateLimit

Login == PolicyId("login-free", "canonical", 10)
Paid == PolicyId("api-paid", "canonical", 128)
MC_Configurations ==
    {<<Login, Paid>>, << >>, <<Login, Login>>,
     <<PolicyId("Login:Free", "portable", 10)>>, <<PolicyId("a-very-long-name", "canonical", 129)>>,
     [k \in 1 .. 64 |-> PolicyId("p" \o ToString(k), "canonical", 2)],
     [k \in 1 .. 65 |-> PolicyId("p" \o ToString(k), "canonical", 2)]}
MC_StrayLabels == {Bare("email"), Label("route"), Bare("layer")}
MC_StrayValues == {Text("tenant-123")}
MC_Vocabulary == {<<Label("layer"), Label("policy_id")>>, <<Bare("layer")>>}
=============================================================================
