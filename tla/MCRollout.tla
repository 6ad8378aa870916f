----------------------------- MODULE MCRollout -----------------------------
(* Small instances of Rollout.                                             *)
EXTENDS Rollout, TLC

(* The first order is a deploy, without which the others have nothing to   *)
(* work on; the second one may be anything.                                *)
MCKindsOf ==
    [j \in Jobs |-> {"deploy"} \cup
        IF j = 1 THEN {} ELSE {"rollback", "start", "stop", "restart", "destroy"}]

Symm == Permutations(Branches)

=============================================================================
