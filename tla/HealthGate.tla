----------------------------- MODULE HealthGate -----------------------------
(***************************************************************************)
(* How the agent's executor decides whether an application runs: what      *)
(* `docker compose ps` prints, what is left of it after the output was     *)
(* collected, the parser, the aggregation of container states, the health  *)
(* gate at the end of a deploy and the report of a health check.           *)
(***************************************************************************)
EXTENDS Naturals, Sequences, FiniteSets, FiniteSetsExt

CONSTANTS
    MaxContainers,  \* bound: containers of one application
    Stderr          \* may compose write warnings to stderr?

ASSUME HealthGateAssumption == MaxContainers \in Nat /\ Stderr \in BOOLEAN

VARIABLES
    gate,       \* where waitForAppRunning is
    printed,    \* what compose ps printed last
    output,     \* what Command.Run made of it
    late,       \* the gate's deadline has passed
    jobCancelled,  \* the job's context has ended
    report      \* the status a health check reported last

gateVars == <<gate, printed, output, late, jobCancelled, report>>

(* A container's state, with the health of a running one and the exit code *)
(* of an exited one.                                                       *)
ContainerStates == {"running", "running/healthy", "running/unhealthy",
                    "running/starting", "restarting", "exited/0", "exited/1",
                    "dead", "paused", "created"}

(* Compose lists containers as one JSON array or as one object per line.   *)
Listings == [form : {"array", "lines"},
             containers : UNION {[1..n -> ContainerStates] : n \in 0..MaxContainers},
             warning : IF Stderr THEN BOOLEAN ELSE {FALSE}]

Nothing == [form |-> "lines", containers |-> <<>>, warning |-> FALSE]
Failure == [kind |-> "error", containers |-> <<>>]
Garbled == [kind |-> "garbled", containers |-> <<>>]
Empty   == [kind |-> "empty", containers |-> <<>>]
Json(cs) == [kind |-> "json", containers |-> cs]

Verdict == {"running", "starting", "failed", "unknown"}

GateTypeOK ==
    /\ gate \in {"idle", "ps", "look", "sleep", "wait", "open", "closed"}
    /\ printed.form \in {"array", "lines"} /\ printed.warning \in BOOLEAN
    /\ printed.containers \in Seq(ContainerStates)
    /\ output.kind \in {"error", "garbled", "empty", "json"}
    /\ output.containers \in Seq(ContainerStates)
    /\ {late, jobCancelled} \subseteq BOOLEAN
    /\ report \in Verdict \cup {"none"}

GateInit ==
    /\ gate = "idle" /\ printed = Nothing /\ output = Empty
    /\ late = FALSE /\ jobCancelled = FALSE
    /\ report = "none"

-----------------------------------------------------------------------------
(* What is left of a listing when some of its lines are lost.              *)
Remainders(cs) ==
    UNION {{[k \in 1..n |-> cs[kept[k]]] :
               kept \in {f \in [1..n -> DOMAIN cs] : \A i, k \in 1..n : i < k => f[i] < f[k]}} :
           n \in 0..Len(cs)}

(* Command.Run: stdout and stderr are read by two goroutines into one      *)
(* buffer without a lock.  With a line on both, writes may be lost, so that*)
(* what is left may be any part of the listing, with or without the        *)
(* warning; with it, nothing can be parsed.                                *)
Collected(l) ==
    LET whole == IF l.containers = <<>> /\ l.form = "lines"
                 THEN Empty ELSE Json(l.containers)
        \* the line objects that were not lost; an array is one line
        left == IF l.form = "array" THEN {whole, Empty}
                ELSE {IF s = <<>> THEN Empty ELSE Json(s) : s \in Remainders(l.containers)}
    IN  IF l.warning THEN left \cup {Garbled} ELSE {whole}

(* compose ps on a host whose containers are in any state.                 *)
Ps == \/ /\ printed' = Nothing /\ output' = Failure
      \/ /\ ~jobCancelled
         /\ \E l \in Listings : /\ printed' = l
                                /\ output' \in Collected(l)

(* Mutant: a container that starts decides at once.                        *)
DecidesStarting(c) ==
    c \in {"running/unhealthy", "exited/1", "dead", "paused", "created"}

(* The states for which aggregateContainerHealth returns inside its loop.  *)
Decides(c) == c \in {"running/unhealthy", "exited/1", "dead", "paused"}

(* Mutant: a container that keeps restarting counts as up.                 *)
PendingIgnoresRestarts(c) == c \in {"running/starting", "created"}

Pending(c) == c \in {"running/starting", "restarting", "created"}

(* aggregateContainerHealth: the first container that decides, in the order*)
(* of the listing, and else what is still starting.                        *)
Aggregate(cs) ==
    LET deciding == {i \in DOMAIN cs : Decides(cs[i])} IN
    CASE cs = <<>> -> "unknown"
      [] deciding # {} -> IF cs[Min(deciding)] = "paused" THEN "unknown" ELSE "failed"
      [] deciding = {} /\ cs # <<>> ->
            IF \E i \in DOMAIN cs : Pending(cs[i]) THEN "starting" ELSE "running"

-----------------------------------------------------------------------------
(* waitForAppRunning.                                                      *)

SaysRunning(o) == o.kind = "json" /\ Aggregate(o.containers) = "running"
SaysFailed(o)  == o.kind = "json" /\ Aggregate(o.containers) = "failed"

(* A turn of the loop, with an output of its own.                          *)
Again(at) == gate' = at /\ printed' = Nothing /\ output' = Empty
EndGate(as) == gate' = as /\ UNCHANGED <<printed, output>>

EnterGate ==
    /\ gate = "idle" /\ report = "none"
    /\ Again("ps")
    /\ UNCHANGED <<late, jobCancelled, report>>

GatePs ==
    /\ gate = "ps" /\ Ps /\ gate' = "look"
    /\ UNCHANGED <<late, jobCancelled, report>>

(* Mutant: an error of compose is retried for as long as it takes.         *)
PsFailedForEver ==
    /\ gate = "look" /\ output = Failure
    /\ Again("sleep")
    /\ UNCHANGED <<late, jobCancelled, report>>

(* An error is retried after half a second until the deadline; the context *)
(* is not looked at.                                                       *)
PsFailed ==
    /\ gate = "look" /\ output = Failure
    /\ IF late THEN EndGate("closed") ELSE Again("sleep")
    /\ UNCHANGED <<late, jobCancelled, report>>

(* Running and failed decide; all else, output that cannot be parsed       *)
(* included, waits for the deadline.                                       *)
Look ==
    /\ gate = "look" /\ output # Failure
    /\ \/ SaysRunning(output) /\ EndGate("open")
       \/ (SaysFailed(output) \/ (late /\ ~SaysRunning(output))) /\ EndGate("closed")
       \/ ~SaysRunning(output) /\ ~SaysFailed(output) /\ ~late /\ Again("wait")
    /\ UNCHANGED <<late, jobCancelled, report>>

(* The select on the context and the ticker.                               *)
Wait ==
    /\ gate = "wait"
    /\ \/ jobCancelled /\ gate' = "closed"
       \/ gate' = "ps"
    /\ UNCHANGED <<printed, output, late, jobCancelled, report>>

WakeUp ==
    /\ gate = "sleep" /\ gate' = "ps"
    /\ UNCHANGED <<printed, output, late, jobCancelled, report>>

InGate == gate \in {"ps", "look", "sleep", "wait"}

(* Time passes: the gate's deadline, and the job's timeout.                *)
Deadline ==
    /\ InGate /\ ~late /\ late' = TRUE
    /\ UNCHANGED <<gate, printed, output, jobCancelled, report>>

Cancel ==
    /\ InGate /\ ~jobCancelled /\ jobCancelled' = TRUE
    /\ UNCHANGED <<gate, printed, output, late, report>>

(* checkAppHealths, for one application of its payload.  One gate or one   *)
(* health check: neither keeps anything for the next.                      *)
CheckAppHealths ==
    /\ gate = "idle" /\ report = "none"
    /\ Ps
    /\ report' = CASE output'.kind \in {"error", "garbled"} -> "failed"
                   [] output'.kind = "empty" -> "unknown"
                   [] output'.kind = "json" -> Aggregate(output'.containers)
    /\ UNCHANGED <<gate, late, jobCancelled>>

GateStep == GatePs \/ PsFailed \/ Look \/ Wait \/ WakeUp

GateNext == EnterGate \/ GateStep \/ Deadline \/ Cancel \/ CheckAppHealths

(* The executor's goroutine runs, and time passes.                         *)
GateFairness == WF_gateVars(GateStep) /\ WF_gateVars(Deadline)

GateSpec == GateInit /\ [][GateNext]_gateVars /\ GateFairness

-----------------------------------------------------------------------------
(* Properties.                                                             *)

Broken(cs) == \E i \in DOMAIN cs : cs[i] \in {"running/unhealthy", "exited/1", "dead"}
Settling(cs) ==
    \E i \in DOMAIN cs : cs[i] \in {"running/starting", "restarting", "created"}

(* "A deploy that builds and recreates cleanly but whose container crashes *)
(* on boot must be marked FAILED, not success" (executor.go:335-337): the  *)
(* gate lets a deploy through, and a health check reports running, only    *)
(* when compose listed containers and every one of them was up or had done *)
(* its work, whatever the order and the form of the listing; unless        *)
(* compose also wrote to stderr, when lines of the listing may be lost.    *)
OpenMeansUp ==
    ~printed.warning /\ (gate = "open" \/ (gate = "idle" /\ report = "running")) =>
        /\ printed.containers # <<>>
        /\ \A i \in DOMAIN printed.containers :
              printed.containers[i] \in {"running", "running/healthy", "exited/0"}

(* aggregateContainerHealth against its comment (executor.go:292-294, "any *)
(* failed container fails the app; all running = running; anything still   *)
(* starting = starting"): without a paused container the verdict is the    *)
(* comment's, in every order of the listing.                               *)
AggregateIgnoresOrder ==
    LET cs == output.containers IN
    output.kind = "json" /\ cs # <<>> /\ (\A i \in DOMAIN cs : cs[i] # "paused") =>
        Aggregate(cs) = IF Broken(cs) THEN "failed"
                        ELSE IF Settling(cs) THEN "starting" ELSE "running"

(* The gate ends, although a failing compose ps makes it look at the       *)
(* deadline only and never at the job's context (executor.go:356-367).     *)
GateEnds == (gate = "ps") ~> (gate \in {"open", "closed"})

=============================================================================
