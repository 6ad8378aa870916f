--------------------------- MODULE MCAppLifecycle ---------------------------
(* Small instances of AppLifecycle.                                        *)
EXTENDS AppLifecycle, FiniteSets, TLC

CONSTANTS health, app

(* Jobs of one application, and the server's health check.                 *)
MCAppOf == [j \in Jobs |-> IF j = health THEN NoKey ELSE app]

MCPeriodic == Jobs \cap {health}

(* A second operation on the application, or a health check or a failing    *)
(* insert beside the first, but not all of it.                             *)
Bound ==
    \/ Cardinality({j \in Jobs \ {health} : kind[j] # "none"}) <= 1
    \/ createFails = 0 /\ (health \in Jobs => status[health] = "none")

MCSpec == AppInit /\ [][AppNext /\ Bound']_allVars

Symm == Permutations(Workers) \cup Permutations(CallIds)
            \cup Permutations(Mutexes) \cup Permutations(Jobs \ {health})

=============================================================================
