----------------------------- MODULE MCJobQueue -----------------------------
(* Small instances of JobQueue.                                            *)
EXTENDS JobQueue, TLC

CONSTANTS d1, d2, d3, metrics, a

(* Jobs of one application, and one job of the server as a whole.          *)
MCAppOf == [j \in Jobs |-> IF j = metrics THEN NoKey ELSE a]

MCPeriodic == Jobs \cap {metrics}

Symm == Permutations(Workers) \cup Permutations(CallIds)
            \cup Permutations(Mutexes)

=============================================================================
