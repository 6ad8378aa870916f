---------------------------- MODULE SampleLedger ----------------------------
(***************************************************************************)
(* What the server promises of the samples it has accepted: each is        *)
(* settled once, written to the table or given up, for good; a batch has   *)
(* one outcome for all its samples; and after a restart nothing is open,   *)
(* so that no sample of an earlier run is written later.                   *)
(***************************************************************************)
EXTENDS Naturals

VARIABLES accepted,  \* samples accepted so far: ids count up
          stored,    \* the ones written to the table
          gone       \* the ones given up

Open == (1..accepted) \ (stored \cup gone)

Init == accepted = 0 /\ stored = {} /\ gone = {}

Accept == accepted' = accepted + 1 /\ UNCHANGED <<stored, gone>>

Store(batch) == stored' = stored \cup batch /\ UNCHANGED <<accepted, gone>>

GiveUp(batch) == gone' = gone \cup batch /\ UNCHANGED <<accepted, stored>>

\* the batch that is being written may arrive; all else is lost
Restart(batch) == /\ stored' = stored \cup batch
                  /\ gone' = gone \cup (Open \ batch)
                  /\ UNCHANGED accepted

Next ==
    \/ Accept
    \/ \E batch \in SUBSET Open : Store(batch) \/ GiveUp(batch) \/ Restart(batch)

Spec == Init /\ [][Next]_<<accepted, stored, gone>>
=============================================================================
