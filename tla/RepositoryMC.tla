---------------------------- MODULE RepositoryMC ----------------------------
(***************************************************************************)
(* The two checks of the repository for TLC: conformance/check.mjs         *)
(* (Conformance) or governance/check.mjs (Governance).  Both are about one *)
(* repository, of which they read different files, so one state graph      *)
(* holds both: the part that is not chosen stays in an initial state.  The *)
(* names of participants and files and the contents of contracts are only  *)
(* compared.                                                               *)
(***************************************************************************)
EXTENDS Conformance, Governance, TLC

Symmetry == Permutations(Participants) \cup Permutations(Paths) \cup Permutations(Contents)

VARIABLE part

MCInit ==
    /\ part \in {"conformance", "governance"}
    /\ Init /\ GovernanceInit
    /\ part = "conformance" => DOMAIN runtime = {"typescript"}

MCNext ==
    /\ UNCHANGED part
    /\ \/ part = "conformance" /\ Next /\ UNCHANGED governanceVars
       \/ part = "governance" /\ GovernanceNext /\ UNCHANGED vars

MCSpec == MCInit /\ [][MCNext]_<<part, vars, governanceVars>>
=============================================================================
