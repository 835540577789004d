------------------------------- MODULE Scores -------------------------------
(***************************************************************************)
(* The performance score that the ingester computes from a report, for the *)
(* hourly summary: a score for each of its four parts and their weighted   *)
(* sum.  The C++ floats are integers here: inputs in whole units, scores   *)
(* in twentieths of a point, in which the weights and the averages over    *)
(* one or two CPUs, disks or interfaces are exact; those over more are     *)
(* rounded down.                                                           *)
(*                                                                         *)
(* A report changes by one step of one metric at a time, so that action    *)
(* properties can say how the score answers.  Parts have no effect on each *)
(* other but through the sum: the others are ideal or absent meanwhile.    *)
(***************************************************************************)
EXTENDS Integers, Sequences

CONSTANTS Absent,     \* a part that its monitor did not fill
          Top         \* bound: percentages and the like go up to 10 * Top

ASSUME ScoresAssumption == Top \in Nat

VARIABLES info,   \* [Parts -> what the report says of it, or Absent]
          focus   \* the part that changes

Parts == {"cpu_stat", "mem_info", "disk_info", "net_info"}

AtLeast0(x) == IF x < 0 THEN 0 ELSE x
AtMost100(x) == IF x > 100 THEN 100 ELSE x

Distance(x, y) == IF x < y THEN y - x ELSE x - y

\* The total of the loops over CPUs, disks and interfaces.
Total(s) ==
    LET total[i \in 0 .. Len(s)] == IF i = 0 THEN 0 ELSE total[i - 1] + s[i]
    IN  total[Len(s)]

\* Of scores in tenths of a point.
Average(s) == (2 * Total(s)) \div Len(s)

------------------------------------------------------------------------------
(* The formulas, part by part.  A part that is missing scores nothing.     *)

\* Bug variant: the distance from 100 percent, not cut off.
CPUUsageScoreAbs(usage) == Distance(usage, 100)

\* A usage over 100 percent comes from a torn read of the counters.
CPUUsageScore(usage) == AtLeast0(100 - usage)

\* load is ten times the load average; no CpuLoad, no points.
LoadScore(load) == IF load = Absent THEN 0 ELSE AtMost100(AtLeast0(100 - load))

CalculateCPUScore(c) ==
    Average([i \in DOMAIN c.usage |-> 7 * CPUUsageScore(c.usage[i]) + 3 * LoadScore(c.load)])

AvailableScore(percent) == AtMost100(percent * 2)

\* 10 to 30 percent of cache are the best.
CacheScore(percent) ==
    IF percent < 10 THEN percent * 10
    ELSE IF percent <= 30 THEN 100
    ELSE AtLeast0(100 - (percent - 30) * 5)

\* used_percent and avail come from the same reading of /proc/meminfo.
CalculateMemoryScore(m) ==
    LET score == 5 * AtLeast0(100 - m.used) + 3 * AvailableScore(100 - m.used) + 2 * CacheScore(m.cache)
    IN 2 * (IF score > 1000 THEN 1000 ELSE score)

\* Bug variant: a disk that was only read, or only written, counts as idle.
LatencyScoreBoth(read, write) ==
    IF read > 0 /\ write > 0 THEN AtLeast0(100 - (read + write)) ELSE 100

\* Twice the mean of the two latencies.
LatencyScore(read, write) ==
    IF read > 0 \/ write > 0 THEN AtLeast0(100 - (read + write)) ELSE 100

\* queue is ten times the queue length.
DiskScore(d) ==
    4 * AtLeast0(100 - d.util) + 3 * LatencyScore(d.read, d.write) + 3 * AtLeast0(100 - 2 * d.queue)

CalculateDiskScore(ds) == Average([i \in DOMAIN ds |-> DiskScore(ds[i])])

\* Bug variant: an overloaded link may count less than nothing.
ThroughputScoreOpen(t) == IF t <= 100 THEN t ELSE 100 - (t - 100) \div 10

ThroughputScore(t) == IF t <= 100 THEN t ELSE AtLeast0(100 - (t - 100) \div 10)

\* packet is the average size in units of 15 bytes, 0 without packets.
PacketScore(packet) ==
    IF packet > 0 THEN AtLeast0(100 - Distance(packet, 100)) ELSE 0

CalculateNetworkScore(ns) ==
    Average([i \in DOMAIN ns |-> 6 * ThroughputScore(ns[i].throughput) + 4 * PacketScore(ns[i].packet)])

PartScore(r, part) ==
    IF r[part] = Absent THEN 0
    ELSE CASE part = "cpu_stat" -> CalculateCPUScore(r[part])
           [] part = "mem_info" -> CalculateMemoryScore(r[part])
           [] part = "disk_info" -> CalculateDiskScore(r[part])
           [] part = "net_info" -> CalculateNetworkScore(r[part])

Point == 400
Weighted(r) ==
    6 * PartScore(r, "cpu_stat") + 5 * PartScore(r, "mem_info")
        + 5 * PartScore(r, "disk_info") + 4 * PartScore(r, "net_info")

\* calculateOverallPerformanceScore: the weighted sum, cut to 0 .. 100.
Overall(r) ==
    IF Weighted(r) < 0 THEN 0 ELSE IF Weighted(r) > 100 * Point THEN 100 * Point ELSE Weighted(r)

------------------------------------------------------------------------------
(* Reports.                                                                *)

Percent == {10 * k : k \in 0 .. Top}
Cached == {5 * k : k \in 0 .. 20}
Coarse == {20 * k : k \in 0 .. Top \div 2}
Used == {p \in Percent : p <= 100}
Throughput == {10 * k : k \in 0 .. 10 * Top}
Packet == {10 * k : k \in 0 .. 2 * Top}

IdleDisk == [util |-> 0, read |-> 0, write |-> 0, queue |-> 0]
GoodLink == [throughput |-> 100, packet |-> 100]

\* The best report there is.
Ideal ==
    [cpu_stat  |-> [usage |-> <<0>>, load |-> 0],
     mem_info  |-> [used |-> 0, cache |-> 20],
     disk_info |-> <<IdleDisk>>,
     net_info  |-> <<GoodLink>>]

\* With a second CPU, disk or interface.
Second ==
    [Ideal EXCEPT !.cpu_stat.usage = <<0, 0>>,
                  !.disk_info = <<IdleDisk, IdleDisk>>,
                  !.net_info = <<GoodLink, GoodLink>>]

ScoresInit ==
    /\ focus \in Parts
    /\ info \in {Ideal, [Ideal EXCEPT ![focus] = Second[focus]]}

Steps(x, S, step) == {y \in S : Distance(x, y) <= step}
Near(x, S) == Steps(x, S, 10)

Becomes(part, value) ==
    /\ focus = part
    /\ info' = [info EXCEPT ![part] = value]
    /\ UNCHANGED focus

ChangeCPU(c) ==
    \/ \E i \in DOMAIN c.usage, u \in Percent :
         u \in Near(c.usage[i], Percent) /\ Becomes("cpu_stat", [c EXCEPT !.usage[i] = u])
    \/ c.load # Absent /\ \E l \in Near(c.load, Percent) : Becomes("cpu_stat", [c EXCEPT !.load = l])
    \/ Becomes("cpu_stat", [c EXCEPT !.load = Absent])

ChangeMemory(m) ==
    \/ \E u \in Near(m.used, Used) : Becomes("mem_info", [m EXCEPT !.used = u])
    \/ \E c \in Near(m.cache, Cached) : Becomes("mem_info", [m EXCEPT !.cache = c])

\* One disk, or interface, stands for each of several.
ChangeDisk(ds) ==
    \/ \E v \in Near(ds[1].util, Percent) : Becomes("disk_info", [ds EXCEPT ![1].util = v])
    \/ \E v \in Steps(ds[1].read, Coarse, 20) : Becomes("disk_info", [ds EXCEPT ![1].read = v])
    \/ \E v \in Steps(ds[1].write, Coarse, 20) : Becomes("disk_info", [ds EXCEPT ![1].write = v])
    \/ \E v \in Steps(ds[1].queue, Coarse, 20) : Becomes("disk_info", [ds EXCEPT ![1].queue = v])

ChangeNetwork(ns) ==
    \/ \E t \in Near(ns[1].throughput, Throughput) :
         Becomes("net_info", [ns EXCEPT ![1].throughput = t])
    \/ \E p \in Near(ns[1].packet, Packet) : Becomes("net_info", [ns EXCEPT ![1].packet = p])

\* The monitor of a part returns early.
Lose(part) == Becomes(part, Absent)

ScoresNext ==
    /\ info[focus] # Absent
    /\ \/ ChangeCPU(info.cpu_stat)
       \/ ChangeMemory(info.mem_info)
       \/ ChangeDisk(info.disk_info)
       \/ ChangeNetwork(info.net_info)
       \/ Lose(focus)

------------------------------------------------------------------------------
(* Properties.                                                             *)

\* The score of each part is between 0 and 100 for whatever a monitor reports,
\* so that the weighted sum needs no cutting: no part can make up for more, or
\* cost more, than its weight (performance_server.cpp:359-369).
PartsBounded ==
    /\ \A part \in Parts : PartScore(info, part) \in 0 .. 100 * 20
    /\ Overall(info) = Weighted(info)

\* No worse on each of these metrics, and the same on those of which the best
\* value is in the middle.
NoBetter(c, d) ==
    /\ \A i \in DOMAIN c.usage : c.usage[i] <= d.usage[i]
    /\ d.load = Absent \/ (c.load # Absent /\ c.load <= d.load)

Worse(r, q, part) ==
    \/ q[part] = Absent
    \/ part = "cpu_stat" /\ NoBetter(r.cpu_stat, q.cpu_stat)
    \/ part = "mem_info" /\ r.mem_info.used <= q.mem_info.used /\ r.mem_info.cache = q.mem_info.cache
    \/ part = "disk_info" /\ \A i \in DOMAIN r.disk_info, key \in DOMAIN IdleDisk :
                               r.disk_info[i][key] <= q.disk_info[i][key]

\* "The lower the usage the higher the score" (performance_server.cpp:202, 206,
\* 233, 279, 283, 294), for usage, load, memory, latency and queue, and a part
\* that gets lost never raises it.
WorseScoresLower ==
    [][Worse(info, info', focus) => Overall(info') <= Overall(info)]_<<info, focus>>

\* The formulas are pieced together without gaps: one step in one metric
\* moves the score by five points at most (the cases at 10 and 30 percent
\* of cache, 100 of throughput, packets of 1500 bytes, no latency at all).
\* The exceptions are a load and a part that come or go.
Lost(r, part) == r[part] = Absent \/ (part = "cpu_stat" /\ r[part].load = Absent)
NoJumps ==
    [][~Lost(info, focus) /\ ~Lost(info', focus)
         => Distance(Overall(info'), Overall(info)) <= 5 * Point]_<<info, focus>>

------------------------------------------------------------------------------
(* What a report may be, of which the properties hold: any number of CPUs,  *)
(* disks and interfaces, and values that only their units bound.            *)

Link == [throughput : Nat, packet : Nat]
Disk == [util : Nat, read : Nat, write : Nat, queue : Nat]

CPUReport == [usage : Seq(Nat) \ {<<>>}, load : Nat \cup {Absent}]
MemoryReport == [used : 0 .. 100, cache : 0 .. 100]
DiskReport == Seq(Disk) \ {<<>>}
NetworkReport == Seq(Link) \ {<<>>}

Report ==
    [cpu_stat  : CPUReport \cup {Absent},
     mem_info  : MemoryReport \cup {Absent},
     disk_info : DiskReport \cup {Absent},
     net_info  : NetworkReport \cup {Absent}]

ScoresType == info \in Report /\ focus \in Parts
==============================================================================
