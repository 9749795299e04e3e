------------------------------ MODULE MCJudge ------------------------------
(***************************************************************************)
(* Two judges, one of them with two tabs; leases of two ticks over four;   *)
(* session ids enough for a restart.                                       *)
(***************************************************************************)
EXTENDS JudgeGateway

MCTabs == {"a1", "a2", "b1"}
MCJudgeOf == [t \in MCTabs |-> IF t = "b1" THEN "b" ELSE "a"]
=============================================================================
