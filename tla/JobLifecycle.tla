---------------------------- MODULE JobLifecycle ----------------------------
(***************************************************************************)
(* What the jobs table promises of one job row, whoever writes it: a run   *)
(* begins only from the queue, a verdict ends only a run, and a row comes  *)
(* back to the queue only by being queued again.                           *)
(***************************************************************************)
CONSTANTS Jobs

VARIABLES status

Verdicts == {"success", "failed"}
Status == {"none", "queued", "running"} \cup Verdicts

Init == status = [j \in Jobs |-> "none"]

Enqueue(j) == status' = [status EXCEPT ![j] = "queued"]

Begin(j) == /\ status[j] = "queued"
            /\ status' = [status EXCEPT ![j] = "running"]

End(j, v) == /\ status[j] = "running"
             /\ status' = [status EXCEPT ![j] = v]

Next == \E j \in Jobs : \/ Enqueue(j)
                        \/ Begin(j)
                        \/ \E v \in Verdicts : End(j, v)

Spec == Init /\ [][Next]_status

=============================================================================
