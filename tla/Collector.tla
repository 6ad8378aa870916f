----------------------------- MODULE Collector -----------------------------
(***************************************************************************)
(* The agent's metrics collector: the last few samples in memory, every    *)
(* sample also in a Redis stream on the agent's host, and Latest, which    *)
(* answers a metrics_collect job.  A sample is its collection time.        *)
(***************************************************************************)
EXTENDS Naturals, Sequences, SequencesExt

CONSTANTS MaxSamples, \* capacity of the buffer, 10 in the code
          LastSample, \* bound: samples ever collected
          MaxStarts   \* bound: starts of the agent

ASSUME CollectorAssumption ==
    MaxSamples \in Nat \ {0} /\ LastSample \in Nat /\ MaxStarts \in Nat

VARIABLES
    collector, \* "down", "up", "flushing", or "stopped": the process still there
    starts,    \* starts so far
    time,      \* collection time of the newest sample
    recent,    \* Collector.buffer
    flush,     \* what of the buffer the flush still has to append
    stream,    \* the Redis stream metrics:agent:<id>:stream, oldest first
    told,      \* what Latest answered last; 0 is the empty Metrics value
    freshRun,  \* history: this run has collected a sample
    kept       \* history: what the last run's flush got into the stream

collectorVars == <<collector, starts, time, recent, flush, stream, told, freshRun, kept>>

Samples == 1..LastSample

CollectorTypeOK ==
    /\ collector \in {"down", "up", "flushing", "stopped"}
    /\ starts \in 0..MaxStarts /\ time \in 0..LastSample
    /\ recent \in Seq(Samples) /\ flush \in Seq(Samples) /\ stream \in Seq(Samples)
    /\ told \in 0..LastSample /\ freshRun \in BOOLEAN
    /\ kept \subseteq Samples

CollectorInit ==
    /\ collector = "down" /\ starts = 0 /\ time = 0
    /\ recent = <<>> /\ flush = <<>> /\ stream = <<>>
    /\ told = 0 /\ freshRun = FALSE /\ kept = {}

LastOf(s, n) == SubSeq(s, (IF Len(s) > n THEN Len(s) - n ELSE 0) + 1, Len(s))

(* Mutant: the stream is read from its beginning.                          *)
StartFromOldest ==
    /\ collector = "down" /\ starts < MaxStarts
    /\ starts' = starts + 1
    /\ recent' \in {<<>>, SubSeq(stream, 1, IF Len(stream) > MaxSamples THEN MaxSamples
                                             ELSE Len(stream))}
    /\ collector' = "up" /\ freshRun' = FALSE
    /\ UNCHANGED <<time, flush, stream, told, kept>>

(* Start: loadBufferFromRegistry reads the stream newest first and appends *)
(* it in that order; an unreachable Redis leaves the buffer empty.         *)
StartCollector ==
    /\ collector = "down" /\ starts < MaxStarts
    /\ starts' = starts + 1
    /\ recent' \in {<<>>, Reverse(LastOf(stream, MaxSamples))}
    /\ collector' = "up" /\ freshRun' = FALSE
    /\ UNCHANGED <<time, flush, stream, told, kept>>

Remember(s, x) == Append(IF Len(s) >= MaxSamples THEN Tail(s) ELSE s, x)

(* collect, every 5 s: the sample enters the buffer under its lock and     *)
(* then the stream, unless Redis refuses it.                               *)
Collect ==
    /\ collector = "up" /\ time < LastSample
    /\ time' = time + 1
    /\ recent' = Remember(recent, time + 1)
    /\ stream' \in {stream, Append(stream, time + 1)}
    /\ freshRun' = TRUE
    /\ UNCHANGED <<collector, starts, flush, told, kept>>

(* ctx.Done: flushBufferToRegistry takes the buffer's lock and goes through*)
(* its samples, also those that are in the stream already.                 *)
StopCollector ==
    /\ collector = "up"
    /\ collector' = "flushing"
    /\ flush' = recent /\ kept' = {}
    /\ UNCHANGED <<starts, time, recent, stream, told, freshRun>>

(* An append that fails is logged, and the loop goes on to the next sample.*)
FlushOne ==
    /\ collector = "flushing" /\ flush # <<>>
    /\ flush' = Tail(flush)
    /\ \/ stream' = Append(stream, Head(flush)) /\ kept' = kept \cup {Head(flush)}
       \/ UNCHANGED <<stream, kept>>
    /\ UNCHANGED <<collector, starts, time, recent, told, freshRun>>

\* the buffer is emptied whichever of its samples got through
FlushEnds ==
    /\ collector = "flushing" /\ flush = <<>>
    /\ collector' = "stopped" /\ recent' = <<>>
    /\ UNCHANGED <<starts, time, flush, stream, told, freshRun, kept>>

(* Mutant: the wrong end of the buffer is read.                            *)
LatestReadsHead ==
    /\ collector \in {"up", "stopped"}
    /\ told' = IF recent = <<>> THEN 0 ELSE Head(recent)
    /\ UNCHANGED <<collector, starts, time, recent, flush, stream, freshRun, kept>>

(* Latest, for a job; jobs go on until the process has ended, and one that *)
(* comes during the flush waits for the buffer's lock.                     *)
Latest ==
    /\ collector \in {"up", "stopped"}
    /\ told' = IF recent = <<>> THEN 0 ELSE Last(recent)
    /\ UNCHANGED <<collector, starts, time, recent, flush, stream, freshRun, kept>>

\* the process has ended after its stop, or is killed, perhaps in mid-flush
ProcessEnds ==
    /\ collector # "down"
    /\ collector' = "down" /\ recent' = <<>> /\ flush' = <<>>
    /\ kept' = IF collector = "up" THEN {} ELSE kept
    /\ UNCHANGED <<starts, time, stream, told, freshRun>>

CollectorNext ==
    \/ StartCollector \/ Collect \/ Latest
    \/ StopCollector \/ FlushOne \/ FlushEnds \/ ProcessEnds

CollectorSpec == CollectorInit /\ [][CollectorNext]_collectorVars

-----------------------------------------------------------------------------
(* A job is never told a sample older than the last one told, unless it    *)
(* asks between a start of the agent and its first sample, when the buffer *)
(* holds what was loaded, newest first (collector.go:158-185), or asks     *)
(* after the flush, when it holds nothing.                                 *)
LatestGoesBackOnlyAroundAStart ==
    [][told' < told => ~freshRun \/ collector = "stopped"]_collectorVars

(* Every sample that the flush of the last run got into the stream is in   *)
(* what this run loads, whichever other appends of it failed and wherever  *)
(* in it the process was killed: the copies it adds push none of their own *)
(* out of the window that is read (collector.go:152-190).  A sample whose  *)
(* append failed in the flush has no such promise, not even when an earlier*)
(* append of it had succeeded: the copies of others may push it out.       *)
RestartKeepsWhatWasFlushed ==
    collector = "up" /\ ~freshRun /\ recent # <<>> => kept \subseteq Range(recent)
=============================================================================
