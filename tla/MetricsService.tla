--------------------------- MODULE MetricsService ---------------------------
(***************************************************************************)
(* The server's metrics service.  A sample that is ingested becomes the    *)
(* latest value, a point of a history kept in memory and in Redis, and an  *)
(* entry of a buffer that a flusher writes to the database in batches.     *)
(* Requests, the flusher, the broadcaster and a reader of the history run  *)
(* at the same time, each part under a lock of its own.                    *)
(***************************************************************************)
EXTENDS Naturals, Sequences, SequencesExt, FiniteSets

CONSTANTS Ingesters,   \* requests that ingest at the same time
          Retention,   \* how long a point stays in the history, in ticks
          LastTime,    \* bound: recording times are 1..LastTime
          MaxIngests,  \* bound: samples ingested
          MaxRestarts  \* bound: restarts of the server

ASSUME MetricsAssumption ==
    /\ Retention \in Nat \ {0} /\ LastTime \in Nat \ {0}
    /\ MaxIngests \in Nat /\ MaxRestarts \in Nat

VARIABLES
    ingest,      \* ingest[h]: [at: next step, id, time]
    ingests,     \* samples ingested so far: ids count up
    latestHolder,\* who holds latestMu
    buffered,    \* Service.buffer, ids
    writing,     \* what the flusher that holds flushMu is writing
    flushing,    \* flushMu is held
    stored,      \* rows of server_metrics
    gone,        \* history: ids given up by a failed insert or a restart
    points,      \* cpuUsageHistory of the server: times, as kept in memory
    known,       \* the map has an entry for the server
    registry,    \* the Redis stream behind it, oldest first
    historian,   \* CPUUsageHistory: its step and what it read from Redis
    arrived,     \* history: times ingested since the start, as pushed
    mixed,       \* history: a historian has put the registry's points into memory
    restarts

metricsVars == <<ingest, ingests, latestHolder, buffered, writing, flushing, stored, gone,
                 points, known, registry, historian, arrived, mixed, restarts>>

Times == 1..LastTime
NotIngesting == [at |-> "out", id |-> 0, time |-> 1]
NotReading   == [at |-> "out", points |-> <<>>]

MetricsTypeOK ==
    /\ ingest \in [Ingesters -> [at : {"out", "latest", "points", "append", "buffer"},
                                 id : 0..MaxIngests, time : Times]]
    /\ ingests \in 0..MaxIngests
    /\ latestHolder \in {"none", "broadcaster"}
    /\ {buffered, writing} \subseteq Seq(1..MaxIngests)
    /\ {stored, gone} \subseteq SUBSET (1..MaxIngests)
    /\ {flushing, known, mixed} \subseteq BOOLEAN
    /\ {points, registry, arrived} \subseteq Seq(Times)
    /\ historian \in [at : {"out", "read", "save"}, points : Seq(Times)]
    /\ restarts \in 0..MaxRestarts

MetricsInit ==
    /\ ingest = [h \in Ingesters |-> NotIngesting] /\ ingests = 0
    /\ latestHolder = "none"
    /\ buffered = <<>> /\ writing = <<>> /\ flushing = FALSE
    /\ stored = {} /\ gone = {}
    /\ points = <<>> /\ known = FALSE /\ registry = <<>> /\ historian = NotReading
    /\ arrived = <<>> /\ mixed = FALSE /\ restarts = 0

inBuffer  == <<buffered, writing, flushing, stored, gone>>
inHistory == <<points, known, registry, historian, arrived, mixed>>

MoveTo(h, at) == ingest' = [ingest EXCEPT ![h].at = at]

-----------------------------------------------------------------------------
(* Ingest.                                                                 *)

IngestBegins(h, t) ==
    /\ ingest[h].at = "out" /\ ingests < MaxIngests
    /\ ingests' = ingests + 1
    /\ ingest' = [ingest EXCEPT ![h] = [at |-> "latest", id |-> ingests + 1, time |-> t]]
    /\ UNCHANGED <<latestHolder, inBuffer, inHistory, restarts>>

(* recordLatest: under latestMu, which the broadcaster may hold.           *)
RecordLatest(h) ==
    /\ ingest[h].at = "latest" /\ latestHolder = "none"
    /\ MoveTo(h, "points")
    /\ UNCHANGED <<ingests, latestHolder, inBuffer, inHistory, restarts>>

(* Mutant: pruning starts behind the first point.                          *)
PruneAllButFirst(ps, t) ==
    LET stale == {i \in DOMAIN ps : \A j \in 2..i : ps[j] + Retention <= t} IN
    SubSeq(ps, Cardinality(stale) + 1, Len(ps))

(* The points before the first one that is fresh enough are cut.           *)
Prune(ps, t) ==
    LET stale == {i \in DOMAIN ps : \A j \in 1..i : ps[j] + Retention <= t} IN
    SubSeq(ps, Cardinality(stale) + 1, Len(ps))

(* recordCPUUsage and recordNetSpeed: append and prune under one lock ...  *)
RecordPoint(h) ==
    /\ ingest[h].at = "points"
    /\ points' = Prune(Append(points, ingest[h].time), ingest[h].time)
    /\ known' = TRUE
    /\ arrived' = Append(arrived, ingest[h].time)
    /\ MoveTo(h, "append")
    /\ UNCHANGED <<ingests, latestHolder, inBuffer, registry, historian, mixed, restarts>>

(* ... then the stream, without it; an error is only logged.               *)
AppendPoint(h) ==
    /\ ingest[h].at = "append"
    /\ registry' \in {registry, Append(registry, ingest[h].time)}
    /\ MoveTo(h, "buffer")
    /\ UNCHANGED <<ingests, latestHolder, inBuffer, points, known, historian, arrived, mixed,
                   restarts>>

(* The buffer; a full one starts a flusher, which is a tick of the ticker  *)
(* that comes early.                                                       *)
Buffer(h) ==
    /\ ingest[h].at = "buffer"
    /\ buffered' = Append(buffered, ingest[h].id)
    /\ ingest' = [ingest EXCEPT ![h] = NotIngesting]
    /\ UNCHANGED <<ingests, latestHolder, writing, flushing, stored, gone, inHistory, restarts>>

-----------------------------------------------------------------------------
(* The flusher.                                                            *)

(* Mutant: the batch is taken and the buffer keeps it.                     *)
BeginFlushKeeping ==
    /\ ~flushing /\ buffered # <<>>
    /\ flushing' = TRUE
    /\ writing' = buffered /\ UNCHANGED buffered
    /\ UNCHANGED <<ingest, ingests, latestHolder, stored, gone, inHistory, restarts>>

(* safeFlush: TryLock, and the buffer is swapped for an empty one.         *)
BeginFlush ==
    /\ ~flushing /\ buffered # <<>>
    /\ flushing' = TRUE
    /\ writing' = buffered /\ buffered' = <<>>
    /\ UNCHANGED <<ingest, ingests, latestHolder, stored, gone, inHistory, restarts>>

(* Mutant: a failed insert leaves flushMu locked.                          *)
EndFlushLocked ==
    /\ flushing /\ writing # <<>>
    /\ \/ stored' = stored \cup Range(writing) /\ flushing' = FALSE /\ UNCHANGED gone
       \/ gone' = gone \cup Range(writing) /\ UNCHANGED <<stored, flushing>>
    /\ writing' = <<>>
    /\ UNCHANGED <<ingest, ingests, latestHolder, buffered, inHistory, restarts>>

(* BulkInsert is one COPY: all rows, or, on an error, its 10 s timeout or  *)
(* a sample of a server that does not exist, none; the batch is gone.      *)
EndFlush ==
    /\ flushing
    /\ \/ stored' = stored \cup Range(writing) /\ UNCHANGED gone
       \/ gone' = gone \cup Range(writing) /\ UNCHANGED stored
    /\ flushing' = FALSE /\ writing' = <<>>
    /\ UNCHANGED <<ingest, ingests, latestHolder, buffered, inHistory, restarts>>

-----------------------------------------------------------------------------
(* The broadcaster holds latestMu while the bus delivers, synchronously.   *)

BroadcastBegins ==
    /\ latestHolder = "none"
    /\ latestHolder' = "broadcaster"
    /\ UNCHANGED <<ingest, ingests, inBuffer, inHistory, restarts>>

BroadcastEnds ==
    /\ latestHolder = "broadcaster"
    /\ latestHolder' = "none"
    /\ UNCHANGED <<ingest, ingests, inBuffer, inHistory, restarts>>

-----------------------------------------------------------------------------
(* CPUUsageHistory and NetSpeedHistory.                                    *)

(* A history in memory is answered at once, and leaves no trace here ...   *)
ReaderLooks ==
    /\ historian.at = "out" /\ ~known
    /\ historian' = [historian EXCEPT !.at = "read"]
    /\ UNCHANGED <<ingest, ingests, latestHolder, inBuffer, points, known, registry, arrived,
                   mixed, restarts>>

(* ... else the stream is read, newest first, without a lock ...           *)
ReaderReads ==
    /\ historian.at = "read"
    /\ historian' \in {NotReading} \cup
                   (IF registry = <<>> THEN {}
                    ELSE {[at |-> "save", points |-> Reverse(registry)]})
    /\ UNCHANGED <<ingest, ingests, latestHolder, inBuffer, points, known, registry, arrived,
                   mixed, restarts>>

(* ... and replaces whatever the map holds by then.                        *)
ReaderSaves ==
    /\ historian.at = "save"
    /\ points' = historian.points /\ known' = TRUE
    /\ mixed' = TRUE
    /\ historian' = NotReading
    /\ UNCHANGED <<ingest, ingests, latestHolder, inBuffer, registry, arrived, restarts>>

-----------------------------------------------------------------------------
(* The server restarts: memory is lost, a batch on its way is in or not.   *)
ServerRestarts ==
    /\ restarts < MaxRestarts
    /\ restarts' = restarts + 1
    /\ LET held == Range(buffered) \cup ({ingest[h].id : h \in Ingesters} \ {0}) IN
       \/ gone' = gone \cup held \cup Range(writing) /\ UNCHANGED stored
       \/ gone' = gone \cup held /\ stored' = stored \cup Range(writing)
    /\ ingest' = [h \in Ingesters |-> NotIngesting]
    /\ buffered' = <<>> /\ writing' = <<>> /\ flushing' = FALSE
    /\ latestHolder' = "none"
    /\ points' = <<>> /\ known' = FALSE /\ historian' = NotReading
    /\ arrived' = <<>> /\ mixed' = FALSE
    /\ UNCHANGED <<ingests, registry>>

IngestStep(h) == RecordLatest(h) \/ RecordPoint(h) \/ AppendPoint(h) \/ Buffer(h)

MetricsNext ==
    \/ \E h \in Ingesters : IngestStep(h) \/ \E t \in Times : IngestBegins(h, t)
    \/ BeginFlush \/ EndFlush \/ BroadcastBegins \/ BroadcastEnds
    \/ ReaderLooks \/ ReaderReads \/ ReaderSaves \/ ServerRestarts

\* the ticker ticks, the insert has a timeout, the hub takes what is
\* broadcast; a mutex is handed to who waits, so requests get latestMu
MetricsFairness ==
    /\ \A h \in Ingesters : SF_metricsVars(RecordLatest(h))
    /\ \A h \in Ingesters : WF_metricsVars(IngestStep(h))
    /\ WF_metricsVars(BeginFlush) /\ WF_metricsVars(EndFlush)
    /\ WF_metricsVars(BroadcastEnds)

MetricsSpec == MetricsInit /\ [][MetricsNext]_metricsVars /\ MetricsFairness

-----------------------------------------------------------------------------
(* A sample is in one place: with its request, in the buffer, in the batch *)
(* being written, in the table, or given up; no flush writes it twice and  *)
(* none swallows what arrives while it writes (service.go:243-273).        *)
EveryIngestOnce ==
    LET one(b) == IF b THEN 1 ELSE 0
        times(s, i) == Cardinality({k \in DOMAIN s : s[k] = i}) IN
    \A i \in 1..ingests :
        Cardinality({h \in Ingesters : ingest[h].id = i})
      + times(buffered, i) + times(writing, i)
      + one(i \in stored) + one(i \in gone) = 1

(* The flusher, the requests and restarts keep the ledger's promise: what  *)
(* was accepted is settled once and for good, batch by batch, and nothing  *)
(* is open after a restart (service.go:243-273).                           *)
Ledger == INSTANCE SampleLedger WITH accepted <- ingests
SamplesKeepTheLedger == Ledger!Spec

(* While no reader has put the stream's points into memory and samples     *)
(* arrive in the order they were recorded, the history is what was         *)
(* recorded since the start within the retention, all of it and in order.  *)
(* Afterwards it may repeat, miss and misorder points                      *)
(* (service.go:124-137).                                                   *)
HistoryIsExact ==
    ~mixed /\ (\A i, j \in DOMAIN arrived : i < j => arrived[i] <= arrived[j])
        => \E cut \in 0..Len(arrived) :
              /\ points = SubSeq(arrived, cut + 1, Len(arrived))
              /\ \A i \in DOMAIN arrived :
                    i > cut <=> arrived[i] + Retention > Last(arrived)

(* An ingested sample leaves the buffer, whatever an earlier insert did,   *)
(* and no broadcast keeps a request waiting for good.                      *)
BufferDrains ==
    \A i \in 1..MaxIngests :
        (i \in Range(buffered) \/ \E h \in Ingesters : ingest[h].id = i)
            ~> i \in stored \cup gone
=============================================================================
