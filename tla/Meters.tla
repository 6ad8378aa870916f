------------------------------- MODULE Meters -------------------------------
(***************************************************************************)
(* The agent's collector turns the kernel's ever-growing counters into     *)
(* rates: it keeps the last reading of each and divides the difference by  *)
(* the time since.  Differences are taken on uint64, so a counter that     *)
(* went back (a device that was replugged, the energy counter's wrap,      *)
(* an iowait total that shrank) wraps, and so does one that could not be   *)
(* read, which counts as 0.  Beside each value its moving average is       *)
(* published, and the server's histories record that.  A rate is given by  *)
(* the difference it is computed from; time enters only as "none" or       *)
(* "some", and the average is any value on the way to the new one.         *)
(***************************************************************************)
EXTENDS Integers

CONSTANTS Width,  \* bound: counters are Width bits wide (64 in the code)
          MaxStep \* bound: the most a counter grows between two readings

\* that 2^Width is a number is what the provers cannot work out
ASSUME MetersAssumption ==
    /\ Width \in Nat /\ 2^Width \in Nat \ {0}
    /\ MaxStep \in Nat /\ MaxStep < 2^Width

VARIABLES
    watched,  \* the device that is followed: meters share nothing
    counter,  \* counter[k]: what the kernel shows for meter k
    lastRead, \* lastRead[k]: the collector's saved reading, Unread before
    shown,    \* shown[k]: the difference behind the last published rate
    smooth,   \* smooth[k]: its moving average
    grown,    \* history: how much k really grew since its last reading
    wentBack, \* history: k went back since its last reading
    failed,   \* history: the last reading saved for k had failed
    spoilt    \* history: a value went into smooth[k] that need not be right

metersVars == <<watched, counter, lastRead, shown, smooth, grown, wentBack, failed, spoilt>>

\* one disk's bytes, one interface's bytes, the package's energy, and the
\* idle and total time of one line of /proc/stat
Simple == {"disk", "net", "energy"}
Meters == Simple \cup {"idle", "total"}
Device(k) == IF k \in Simple THEN k ELSE "cpu"
Unread == -1
Counters == 0..(2^Width - 1)

MetersTypeOK ==
    /\ watched \in Simple \cup {"cpu"}
    /\ counter \in [Meters -> Counters]
    /\ lastRead \in [Meters -> Counters \cup {Unread}]
    /\ shown \in [Meters -> Int] /\ smooth \in [Meters -> Int]
    /\ grown \in [Meters -> Nat] /\ wentBack \in [Meters -> BOOLEAN]
    /\ failed \in [Meters -> BOOLEAN] /\ spoilt \in [Meters -> BOOLEAN]

MetersInit ==
    /\ watched \in Simple \cup {"cpu"}
    /\ counter = [k \in Meters |-> 0]
    /\ lastRead = [k \in Meters |-> Unread]
    /\ shown = [k \in Meters |-> 0] /\ smooth = [k \in Meters |-> 0]
    /\ grown = [k \in Meters |-> 0]
    /\ wentBack = [k \in Meters |-> FALSE]
    /\ failed = [k \in Meters |-> FALSE] /\ spoilt = [k \in Meters |-> FALSE]

-----------------------------------------------------------------------------
(* The kernel.                                                             *)

Grow(k) ==
    /\ k \in Simple
    /\ grown[k] < MaxStep /\ counter[k] + 1 \in Counters
    /\ counter' = [counter EXCEPT ![k] = @ + 1]
    /\ grown' = [grown EXCEPT ![k] = @ + 1]
    /\ UNCHANGED <<watched, lastRead, shown, smooth, wentBack, failed, spoilt>>

\* a tick of CPU time, idle or not
PassTime(idle) ==
    /\ grown["total"] < MaxStep /\ counter["total"] + 1 \in Counters
    /\ counter' = [counter EXCEPT !["total"] = @ + 1, !["idle"] = @ + IF idle THEN 1 ELSE 0]
    /\ grown' = [grown EXCEPT !["total"] = @ + 1, !["idle"] = @ + IF idle THEN 1 ELSE 0]
    /\ UNCHANGED <<watched, lastRead, shown, smooth, wentBack, failed, spoilt>>

\* a device starts again from nothing; the iowait part of the idle time
\* shrinks by one, which the kernel documents it may
GoBack(k) ==
    /\ k # "total" /\ counter[k] > 0
    /\ counter' = [counter EXCEPT ![k] = IF k = "idle" THEN @ - 1 ELSE 0]
    /\ wentBack' = [wentBack EXCEPT ![k] = TRUE]
    /\ UNCHANGED <<watched, lastRead, shown, smooth, grown, failed, spoilt>>

-----------------------------------------------------------------------------
(* The collector.                                                          *)

Minus(a, b) == (a - b) % 2^Width

\* what a reading of k yields: 0 when its file or its line is not there
ReadOut(k, fails) == IF fails THEN 0 ELSE counter[k]

(* Mutant: the first reading is kept as the base of every later one.       *)
SaveOnce(k, fails) ==
    lastRead' = [lastRead EXCEPT ![k] = IF @ = Unread THEN ReadOut(k, fails) ELSE @]

Save(k, fails) == lastRead' = [lastRead EXCEPT ![k] = ReadOut(k, fails)]

\* EMA.Update: the average moves towards the value, or stays
Between(a, b) == (a..b) \cup (b..a)

(* Whether the value read now is bound to be right: neither this reading   *)
(* nor the one before it failed, and the counter did not go back between   *)
(* the two.  The energy meter starts over from a reading below the last,   *)
(* and need only fear a failed one before.                                 *)
Sound(k, fails) == ~failed[k] /\ (k # "energy" => ~wentBack[k] /\ ~fails)

Publish(k, d, saved, fails) ==
    /\ shown' = [shown EXCEPT ![k] = d]
    /\ \E s \in Between(smooth[k], d) : smooth' = [smooth EXCEPT ![k] = s]
    /\ spoilt' = [spoilt EXCEPT ![k] = @ \/ ~Sound(k, fails)]
    /\ IF saved
       THEN /\ grown' = [grown EXCEPT ![k] = 0]
            /\ wentBack' = [wentBack EXCEPT ![k] = FALSE]
            /\ failed' = [failed EXCEPT ![k] = fails]
       ELSE UNCHANGED <<grown, wentBack, failed>>
    /\ UNCHANGED <<watched, counter>>

(* calculateDiskDelta and getNetworkMetric: the reading, a failed one too, *)
(* is saved before anything else; the test for a negative network speed    *)
(* comes after the unsigned subtraction and never holds.                   *)
ReadRate(k, elapsed, fails) ==
    /\ k \in {"disk", "net"}
    /\ Save(k, fails)
    /\ Publish(k, IF lastRead[k] = Unread \/ ~elapsed THEN 0
                  ELSE Minus(ReadOut(k, fails), lastRead[k]), TRUE, fails)

(* calculateCPUPowerWatt: a reading below the last one, as a failed one is,*)
(* starts over, and one that took no time is not saved.  The collector     *)
(* shows 0 for what would be more than 300 W.                              *)
ReadEnergy(elapsed, fails) ==
    LET base  == lastRead["energy"]
        read  == ReadOut("energy", fails)
        over  == base = Unread \/ read < base
        saved == over \/ elapsed IN
    /\ IF saved THEN Save("energy", fails) ELSE UNCHANGED lastRead
    /\ \E d \in {0, IF over \/ ~elapsed THEN 0 ELSE read - base} :
          Publish("energy", d, saved, fails)

(* calculateCPUUsage: busy time out of the total; with no time passed the  *)
(* line shows 0.  shown["idle"] is the busy part, as a float it may be     *)
(* negative; the code averages the share, which has the same sign.         *)
ReadCPU ==
    LET total == Minus(counter["total"], lastRead["total"])
        idle  == Minus(counter["idle"], lastRead["idle"])
        ready == lastRead["total"] # Unread /\ total # 0
        busy  == IF ready THEN total - idle ELSE 0 IN
    /\ lastRead' = [lastRead EXCEPT !["idle"] = counter["idle"], !["total"] = counter["total"]]
    /\ shown' = [shown EXCEPT !["total"] = IF ready THEN total ELSE 0, !["idle"] = busy]
    /\ \E s \in Between(smooth["idle"], busy) : smooth' = [smooth EXCEPT !["idle"] = s]
    /\ spoilt' = [spoilt EXCEPT !["idle"] = @ \/ wentBack["idle"]]
    /\ grown' = [grown EXCEPT !["total"] = 0, !["idle"] = 0]
    /\ wentBack' = [wentBack EXCEPT !["idle"] = FALSE]
    /\ UNCHANGED <<watched, counter, failed>>

\* without /proc/stat nothing is saved and 0 is shown
ReadNoCPU ==
    /\ shown' = [shown EXCEPT !["total"] = 0, !["idle"] = 0]
    /\ \E s \in Between(smooth["idle"], 0) : smooth' = [smooth EXCEPT !["idle"] = s]
    /\ UNCHANGED <<watched, counter, lastRead, grown, wentBack, failed, spoilt>>

MetersNext ==
    \/ \E k \in Meters : Device(k) = watched /\ (Grow(k) \/ GoBack(k))
    \/ \E e, f \in BOOLEAN : ReadRate(watched, e, f)
    \/ watched = "energy" /\ \E e, f \in BOOLEAN : ReadEnergy(e, f)
    \/ watched = "cpu" /\ (ReadCPU \/ ReadNoCPU \/ \E b \in BOOLEAN : PassTime(b))

MetersSpec == MetersInit /\ [][MetersNext]_metersVars

-----------------------------------------------------------------------------
(* A published value shows no more than what its counter grew by, and the  *)
(* share of busy CPU time is a share, except right after the counter went  *)
(* back or a reading failed; the energy meter is right even after a wrap of*)
(* its counter.  A value that is off stays in the moving average, which    *)
(* every later sample publishes and the server's histories record: the     *)
(* average is sure to be in range only as long as no reading of this run   *)
(* went wrong (disk.go:10-37, collector.go:364-399, cpu.go:12-109,         *)
(* ema.go:24-42).                                                          *)
SpikesNeedACause ==
    [][\A k \in Meters :
          /\ shown'[k] # shown[k] /\ Sound(k, failed'[k]) =>
                CASE k \in Simple -> shown'[k] \in 0..grown[k]
                  [] k = "idle" -> shown'["idle"] \in 0..shown'["total"]
                  [] k = "total" -> shown'["total"] <= grown["total"]
          /\ ~spoilt'[k] => smooth'[k] \in 0..MaxStep]_metersVars
=============================================================================
