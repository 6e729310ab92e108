----------------------------- MODULE AdminOrmMC -----------------------------
(* Small instances of AdminOrm for TLC.                                    *)
EXTENDS AdminOrm, TLC

\* A command is told apart here by its session and its reason only.
Command(session, reason) ==
    [f \in Columns |-> CASE f = "actor_session_id" -> session
                         [] f = "reason" -> reason
                         [] OTHER -> "same"]

\* Two commands that differ in one column, the last one the SELECT compares.
TwoCommands == {Command("s1", "r1"), Command("s1", "r2")}

\* Calls are interchangeable.
CallSymmetry == Permutations(Calls)
=============================================================================
