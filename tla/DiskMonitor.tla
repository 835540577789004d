----------------------------- MODULE DiskMonitor -----------------------------
(***************************************************************************)
(* DiskMonitor::UpdateOnce: a line of /proc/diskstats is read by position  *)
(* into DiskInfo, and its differences with the sample of the last cycle    *)
(* are divided by the seconds between them.  Meanwhile operations begin    *)
(* and complete, the wall clock is set, and disks are replaced by others   *)
(* under the same name, which count from zero.                             *)
(*                                                                         *)
(* An operation has one sector and takes one millisecond; a read may have  *)
(* another merged into it.  Rates are left as numerators.                  *)
(***************************************************************************)
EXTENDS Integers, Sequences

CONSTANTS Disks,      \* names that are not loop or ram devices
          U32,        \* 2^32: how many values the kernel's milliseconds have
          MaxOps,     \* bound: operations that a disk completes
          MaxTime,    \* bound: seconds that the wall clock shows
          MaxSwaps,   \* bound: disks that are replaced
          NoSample    \* a name that is not in previous_disk_stats_

\* The extraction of UpdateOnce, in its order.
Fields == <<"reads", "writes", "sectors_read", "sectors_written", "read_time_ms", "write_time_ms",
            "io_in_progress", "io_time_ms", "weighted_io_time_ms">>
Field == {Fields[k] : k \in DOMAIN Fields}

\* Those whose differences make the rates.
Rated == Field \ {"io_in_progress", "weighted_io_time_ms"}

ASSUME DiskMonitorAssumption ==
    /\ U32 \in Nat \ {0} /\ MaxOps \in Nat /\ MaxTime \in Nat /\ MaxSwaps \in Nat
    /\ NoSample \notin [Field -> Nat] \cup [Rated -> Int]

VARIABLES
    ops,       \* [Disks -> [disk, read, merged, write, in_flight]]: the kernel's counts
    previous_disk_stats_,   \* [Disks -> DiskInfo or NoSample]
    last_time, \* [Disks -> seconds]
    rates,     \* [Disks -> differences that the last report was made of, or NoSample]
    at,        \* ghost: [Disks -> counts at the first, the last but one and the last sample]
    setback,   \* ghost: disks of which a sample was not later than the one before
    reported   \* ghost: [Disks -> Int]: reads as far as they were reported

agent == <<previous_disk_stats_, last_time, rates, at, setback, reported>>
diskvars == <<ops, agent>>

New(n) == [disk |-> n, read |-> 0, merged |-> 0, write |-> 0, in_flight |-> 0]

DiskInit ==
    /\ ops = [d \in Disks |-> New(0)]
    /\ previous_disk_stats_ = [d \in Disks |-> NoSample]
    /\ last_time = [d \in Disks |-> 0]
    /\ rates = [d \in Disks |-> NoSample]
    /\ at = [d \in Disks |-> <<>>]
    /\ setback = {}
    /\ reported = [d \in Disks |-> 0]

------------------------------------------------------------------------------
(* Kernel and clock.                                                       *)

Begin(d) ==
    /\ ops[d].in_flight < 1
    /\ ops' = [ops EXCEPT ![d].in_flight = @ + 1]
    /\ UNCHANGED agent

Busy(d) == ops[d].read + ops[d].merged + ops[d].write < MaxOps

CompleteRead(d) ==
    /\ ops[d].in_flight > 0 /\ Busy(d)
    /\ ops' = [ops EXCEPT ![d].in_flight = @ - 1, ![d].read = @ + 1]
    /\ UNCHANGED agent

CompleteWrite(d) ==
    /\ ops[d].in_flight > 0 /\ Busy(d)
    /\ ops' = [ops EXCEPT ![d].in_flight = @ - 1, ![d].write = @ + 1]
    /\ UNCHANGED agent

Merge(d) ==
    /\ Busy(d)
    /\ ops' = [ops EXCEPT ![d].merged = @ + 1]
    /\ UNCHANGED agent

Replace(d) ==
    /\ ops[d].disk < MaxSwaps
    /\ ops' = [ops EXCEPT ![d] = New(@.disk + 1)]
    /\ UNCHANGED agent

------------------------------------------------------------------------------
(* UpdateOnce.                                                             *)

\* What the kernel prints after the name: reads completed, reads merged,
\* sectors read, ms reading; writes completed, writes merged, sectors written,
\* ms writing; in flight, ms of I/O, weighted ms.  Milliseconds have 32 bits.
Line(o) ==
    <<o.read, o.merged, o.read + o.merged, o.read % U32,
      o.write, 0, o.write, o.write % U32,
      o.in_flight, (o.read + o.write) % U32, (o.read + o.write) % U32>>

Position == [f \in Field |-> CHOOSE k \in DOMAIN Fields : Fields[k] = f]

\* Bug variant: one number more is skipped.
ParseShifted(line) == [f \in Field |-> line[Position[f] + 1]]

Parse(line) == [f \in Field |-> line[Position[f]]]

Differences(curr, last) == [f \in Rated |-> curr[f] - last[f]]

Taken(d) == [disk |-> ops[d].disk, read |-> ops[d].read, write |-> ops[d].write]
Snapshots(d) == IF at[d] = <<>> THEN <<Taken(d), Taken(d), Taken(d)>> ELSE <<at[d][1], at[d][3], Taken(d)>>

\* The two samples that the rates of a cycle are made of.
curr(d) == Parse(Line(ops[d]))
last(d) == previous_disk_stats_[d]

\* Bug variant: the first sample stays in the cache.
UpdateOnceKeeps(now) ==
    /\ rates' = [d \in Disks |-> IF last(d) = NoSample \/ now <= last_time[d]
                                 THEN NoSample ELSE Differences(curr(d), last(d))]
    /\ previous_disk_stats_' = [d \in Disks |-> IF last(d) = NoSample THEN curr(d) ELSE last(d)]
    /\ last_time' = [d \in Disks |-> now]
    /\ at' = [d \in Disks |-> Snapshots(d)]
    /\ setback' = setback \cup {d \in Disks : last(d) # NoSample /\ now <= last_time[d]}
    /\ reported' = [d \in Disks |-> reported[d] + IF rates'[d] = NoSample THEN 0 ELSE rates'[d]["reads"]]
    /\ UNCHANGED ops

\* The loop over the lines, with one ::time(nullptr) for all, which may show any
\* time, as the clock may be set.  An interval that is not positive gets no
\* rates, and its sample replaces the cached one all the same.
UpdateOnce(now) ==
    /\ rates' = [d \in Disks |-> IF last(d) = NoSample \/ now <= last_time[d]
                                 THEN NoSample ELSE Differences(curr(d), last(d))]
    /\ previous_disk_stats_' = [d \in Disks |-> curr(d)]
    /\ last_time' = [d \in Disks |-> now]
    /\ at' = [d \in Disks |-> Snapshots(d)]
    /\ setback' = setback \cup {d \in Disks : last(d) # NoSample /\ now <= last_time[d]}
    /\ reported' = [d \in Disks |-> reported[d] + IF rates'[d] = NoSample THEN 0 ELSE rates'[d]["reads"]]
    /\ UNCHANGED ops

DiskNext ==
    \/ \E d \in Disks : Begin(d) \/ CompleteRead(d) \/ CompleteWrite(d) \/ Merge(d) \/ Replace(d)
    \/ \E t \in 0 .. MaxTime : UpdateOnce(t)

DiskSpec == DiskInit /\ [][DiskNext]_diskvars

------------------------------------------------------------------------------
(* Properties.                                                             *)

SameDisk(d) == at[d] # <<>> /\ at[d][2].disk = at[d][3].disk

\* By position, two rated fields are read from milliseconds, and wrap with them.
Milliseconds == {"sectors_written", "io_time_ms"}
Passed(f, s) == (IF f = "sectors_written" THEN s.read ELSE s.write) \div U32

\* The difference of two samples of a disk is negative, and wraps in 64 bits,
\* only when another disk has taken its name, or in a field that is made of
\* milliseconds of 32 bits, when these have passed a multiple of 2^32 between the
\* two: of what is read by position no other column that may go down ends up in
\* a rate (disk_monitor.cpp:15-18, 41-48).
DiskWrapsExplained ==
    \A d \in Disks : rates[d] # NoSample /\ SameDisk(d) =>
       \A f \in Rated : rates[d][f] < 0 => f \in Milliseconds /\ Passed(f, at[d][2]) < Passed(f, at[d][3])

\* No read is reported in two intervals, and none gets lost unless a sample was
\* not later than the one before it on the wall clock, however often that is set
\* (disk_monitor.cpp:36-69).
ReadsAccounted ==
    \A d \in Disks :
       at[d] # <<>> /\ ops[d].disk = 0 =>
          /\ reported[d] <= at[d][3].read - at[d][1].read
          /\ d \notin setback => reported[d] = at[d][3].read - at[d][1].read

\* write_iops is made of "write operations per second" (proto/disk_info.proto:
\* 23): its numerator is the number of writes that completed in the interval.
WritesCounted ==
    \A d \in Disks :
       rates[d] # NoSample /\ SameDisk(d) => rates[d]["writes"] = at[d][3].write - at[d][2].write

------------------------------------------------------------------------------
(* What makes them inductive.                                              *)

Counts == [disk : Nat, read : Nat, merged : Nat, write : Nat, in_flight : Nat]
Snapshot == [disk : Nat, read : Nat, write : Nat]

DiskType ==
    /\ ops \in [Disks -> Counts]
    /\ previous_disk_stats_ \in [Disks -> [Field -> Nat] \cup {NoSample}]
    /\ last_time \in [Disks -> 0 .. MaxTime]
    /\ rates \in [Disks -> [Rated -> Int] \cup {NoSample}]
    /\ at \in [Disks -> {<<>>} \cup Snapshot \X Snapshot \X Snapshot]
    /\ setback \subseteq Disks
    /\ reported \in [Disks -> Int]

\* The cached sample is the last one that was taken.
Latest(d) == at[d] # <<>> => /\ last(d)["reads"] = at[d][3].read
                             /\ last(d)["sectors_written"] = at[d][3].read % U32
                             /\ last(d)["io_time_ms"] = at[d][3].write % U32

\* A disk is never followed by an earlier one.
DisksInOrder(d) == at[d] # <<>> => at[d][1].disk <= at[d][3].disk /\ at[d][3].disk <= ops[d].disk

\* While a disk stays, no column that makes a rate is behind the cached one, but
\* for milliseconds, which follow counts that are not behind either.
Forward(d) ==
    at[d] # <<>> /\ at[d][3].disk = ops[d].disk =>
       /\ \A f \in Rated \ Milliseconds : last(d)[f] <= curr(d)[f]
       /\ at[d][3].read <= ops[d].read /\ at[d][3].write <= ops[d].write

DiskSampled(d) ==
    /\ at[d] = <<>> <=> last(d) = NoSample
    /\ at[d] = <<>> => rates[d] = NoSample /\ reported[d] = 0
    /\ Latest(d) /\ DisksInOrder(d) /\ Forward(d)

DiskInv == DiskType /\ (\A d \in Disks : DiskSampled(d)) /\ DiskWrapsExplained /\ ReadsAccounted
==============================================================================
