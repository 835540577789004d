----------------------------- MODULE Reports_proofs -----------------------------
(***************************************************************************)
(* What the parts of a report amount to: the rates of disks, for any       *)
(* disks, operations, replacements and any course of the wall clock, and   *)
(* the scores of reports of any number of CPUs, disks and interfaces.      *)
(*                                                                         *)
(* A score is an average over a list whose length has no bound, so what    *)
(* holds of it needs an induction.  It is made by counterexample: if the   *)
(* claim fails for a prefix of the list it fails for a shortest one, for   *)
(* initial segments of the naturals are well-founded under inclusion.      *)
(***************************************************************************)
EXTENDS MCReports, FiniteSetTheorems, TLAPS

------------------------------------------------------------------------------
(* The columns of /proc/diskstats.                                         *)

\* The columns by which UpdateOnce reads what, and what it rates.
LEMMA Columns ==
    /\ Field = {"reads", "writes", "sectors_read", "sectors_written", "read_time_ms", "write_time_ms",
                "io_in_progress", "io_time_ms", "weighted_io_time_ms"}
    /\ Rated = {"reads", "writes", "sectors_read", "sectors_written", "read_time_ms", "write_time_ms", "io_time_ms"}
<1>1. DOMAIN Fields = 1 .. 9
  BY DEF Fields
<1>2. /\ Fields[1] = "reads" /\ Fields[2] = "writes" /\ Fields[3] = "sectors_read" /\ Fields[4] = "sectors_written"
      /\ Fields[5] = "read_time_ms" /\ Fields[6] = "write_time_ms" /\ Fields[7] = "io_in_progress"
      /\ Fields[8] = "io_time_ms" /\ Fields[9] = "weighted_io_time_ms"
  BY DEF Fields
<1>3. \A k \in 1 .. 9 : k = 1 \/ k = 2 \/ k = 3 \/ k = 4 \/ k = 5 \/ k = 6 \/ k = 7 \/ k = 8 \/ k = 9
  OBVIOUS
<1>4. 1 \in 1 .. 9 /\ 2 \in 1 .. 9 /\ 3 \in 1 .. 9 /\ 4 \in 1 .. 9 /\ 5 \in 1 .. 9 /\ 6 \in 1 .. 9 /\ 7 \in 1 .. 9
      /\ 8 \in 1 .. 9 /\ 9 \in 1 .. 9
  OBVIOUS
<1>5. Field = {"reads", "writes", "sectors_read", "sectors_written", "read_time_ms", "write_time_ms",
               "io_in_progress", "io_time_ms", "weighted_io_time_ms"}
  <2>1. ASSUME NEW f \in Field
        PROVE  f \in {"reads", "writes", "sectors_read", "sectors_written", "read_time_ms", "write_time_ms",
                      "io_in_progress", "io_time_ms", "weighted_io_time_ms"}
    BY <1>1, <1>2, <1>3 DEF Field
  <2>2. ASSUME NEW k \in 1 .. 9 PROVE Fields[k] \in Field
    BY <1>1 DEF Field
  <2> QED
    BY <1>2, <1>4, <2>1, <2>2
<1> QED
  BY <1>5 DEF Rated

\* A name stands at the place that has it.
LEMMA Places ==
    /\ Position["reads"] = 1 /\ Position["writes"] = 2 /\ Position["sectors_read"] = 3
    /\ Position["sectors_written"] = 4 /\ Position["read_time_ms"] = 5 /\ Position["write_time_ms"] = 6
    /\ Position["io_in_progress"] = 7 /\ Position["io_time_ms"] = 8 /\ Position["weighted_io_time_ms"] = 9
<1>1. DOMAIN Fields = 1 .. 9
  BY DEF Fields
<1>2. ASSUME NEW k \in 1 .. 9 PROVE Position[Fields[k]] = k
  <2>1. \A j \in 1 .. 9 : Fields[j] = Fields[k] => j = k
    BY DEF Fields
  <2>2. Fields[k] \in Field
    BY <1>1 DEF Field
  <2> QED
    BY <1>1, <2>1, <2>2 DEF Position
<1>3. /\ Position[Fields[1]] = 1 /\ Position[Fields[2]] = 2 /\ Position[Fields[3]] = 3 /\ Position[Fields[4]] = 4
      /\ Position[Fields[5]] = 5 /\ Position[Fields[6]] = 6 /\ Position[Fields[7]] = 7 /\ Position[Fields[8]] = 8
      /\ Position[Fields[9]] = 9
  BY <1>2
<1> QED
  BY <1>3 DEF Fields

\* What the kernel prints of a count in 32 bits.
LEMMA Remainder ==
    ASSUME NEW n \in Nat
    PROVE  n % U32 \in Nat /\ n % U32 < U32 /\ n \div U32 \in Nat /\ n = U32 * (n \div U32) + (n % U32)
BY DiskMonitorAssumption

\* It goes back only past a multiple of U32.
LEMMA GoesBack ==
    ASSUME NEW m \in Nat, NEW n \in Nat, m <= n, n % U32 < m % U32
    PROVE  m \div U32 < n \div U32
<1> DEFINE a == m \div U32
           b == n \div U32
           x == m % U32
           y == n % U32
<1>1. a \in Nat /\ b \in Nat /\ x \in Nat /\ y \in Nat /\ U32 \in Nat /\ x < U32
  BY Remainder, DiskMonitorAssumption
<1>2. m = U32 * a + x /\ n = U32 * b + y /\ y < x
  BY Remainder
<1> HIDE DEF a, b, x, y
<1>3. CASE b <= a
  <2>1. U32 * b <= U32 * a
    BY <1>1, <1>3
  <2> QED
    BY <1>1, <1>2, <2>1
<1> QED
  BY <1>1, <1>3 DEF a, b

\* What UpdateOnce makes of the line of a disk.
LEMMA ParsedLine ==
    ASSUME NEW o \in Counts
    PROVE  LET p == Parse(Line(o))
           IN /\ p \in [Field -> Nat]
              /\ p["reads"] = o.read /\ p["writes"] = o.merged /\ p["sectors_read"] = o.read + o.merged
              /\ p["sectors_written"] = o.read % U32 /\ p["read_time_ms"] = o.write /\ p["write_time_ms"] = 0
              /\ p["io_in_progress"] = o.write /\ p["io_time_ms"] = o.write % U32
<1> DEFINE L == Line(o)
<1>1. o.read \in Nat /\ o.merged \in Nat /\ o.write \in Nat /\ o.in_flight \in Nat
  BY DEF Counts
<1>2. /\ L[1] = o.read /\ L[2] = o.merged /\ L[3] = o.read + o.merged /\ L[4] = o.read % U32 /\ L[5] = o.write
      /\ L[6] = 0 /\ L[7] = o.write /\ L[8] = o.write % U32 /\ L[9] = o.in_flight
  BY DEF Line
<1> HIDE DEF L
<1>3. /\ Parse(L) = [f \in Field |-> L[Position[f]]]
  BY DEF Parse
<1>4. \A f \in Field : Parse(L)[f] = L[Position[f]]
  BY <1>3
<1>5. /\ Parse(L)["reads"] = L[1] /\ Parse(L)["writes"] = L[2] /\ Parse(L)["sectors_read"] = L[3]
      /\ Parse(L)["sectors_written"] = L[4] /\ Parse(L)["read_time_ms"] = L[5] /\ Parse(L)["write_time_ms"] = L[6]
      /\ Parse(L)["io_in_progress"] = L[7] /\ Parse(L)["io_time_ms"] = L[8] /\ Parse(L)["weighted_io_time_ms"] = L[9]
  BY <1>4, Places, Columns
<1>6. o.read + o.merged \in Nat /\ o.read % U32 \in Nat /\ o.write % U32 \in Nat
  BY <1>1, Remainder
<1>7. \A f \in Field : Parse(L)[f] \in Nat
  <2>1. /\ L[1] \in Nat /\ L[2] \in Nat /\ L[3] \in Nat /\ L[4] \in Nat /\ L[5] \in Nat /\ L[6] \in Nat
        /\ L[7] \in Nat /\ L[8] \in Nat /\ L[9] \in Nat
    BY <1>1, <1>2, <1>6
  <2> QED
    BY <1>5, <2>1, Columns
<1>8. Parse(L) \in [Field -> Nat]
  BY <1>3, <1>7
<1> QED
  BY <1>2, <1>5, <1>8 DEF L

------------------------------------------------------------------------------
(* The disk itself.                                                        *)

\* A step of the kernel on one disk leaves what was sampled of all disks as it
\* is; it only has to keep that disk in order and its columns going forward.
LEMMA KernelStep ==
    ASSUME DiskInv, NEW d \in Disks, NEW o \in Counts, ops' = [ops EXCEPT ![d] = o], UNCHANGED agent,
           \/ /\ o.disk = ops[d].disk
              /\ ops[d].read <= o.read /\ ops[d].merged <= o.merged /\ ops[d].write <= o.write
           \/ ops[d].disk < o.disk
    PROVE  DiskInv'
<1>1. DiskType'
  BY DEF DiskInv, DiskType, agent
<1>2. ops \in [Disks -> Counts] /\ ops' \in [Disks -> Counts]
  BY <1>1 DEF DiskInv, DiskType
<1>3. /\ ops[d].disk \in Nat /\ ops[d].read \in Nat /\ ops[d].merged \in Nat /\ ops[d].write \in Nat
      /\ o.disk \in Nat /\ o.read \in Nat /\ o.merged \in Nat /\ o.write \in Nat
  BY <1>2 DEF Counts
<1>4. /\ ops'[d] = o /\ \A e \in Disks \ {d} : ops'[e] = ops[e]
      /\ \A e \in Disks : at'[e] = at[e] /\ last(e)' = last(e) /\ rates'[e] = rates[e] /\ reported'[e] = reported[e]
  BY <1>2 DEF agent, last
<1>5. ASSUME NEW e \in Disks PROVE DiskSampled(e)'
  <2>0. DiskSampled(e)
    BY DEF DiskInv
  <2>1. CASE e # d
    <3>1. ops'[e] = ops[e]
      BY <1>4, <2>1
    <3>2. at'[e] = at[e] /\ last(e)' = last(e) /\ rates'[e] = rates[e] /\ reported'[e] = reported[e]
      BY <1>4
    <3>3. curr(e)' = curr(e)
      BY <3>1 DEF curr
    <3> QED
      BY <2>0, <3>1, <3>2, <3>3 DEF DiskSampled, Latest, DisksInOrder, Forward
  <2>2. CASE e = d
    <3> DEFINE w == at[d]
    <3>1. w # <<>> => w[1].disk \in Nat /\ w[3].disk \in Nat
      BY DEF DiskInv, DiskType, Snapshot
    <3>2. DisksInOrder(d)'
      BY <1>3, <1>4, <2>0, <2>2, <3>1 DEF DiskSampled, DisksInOrder
    <3>3. ASSUME at'[d] # <<>>, at'[d][3].disk = ops'[d].disk
          PROVE  /\ \A f \in Rated \ Milliseconds : last(d)'[f] <= curr(d)'[f]
                 /\ at'[d][3].read <= ops'[d].read /\ at'[d][3].write <= ops'[d].write
      <4>1. w # <<>> /\ w[3].disk = o.disk /\ o.disk = ops[d].disk
        BY <1>3, <1>4, <2>0, <2>2, <3>1, <3>3 DEF DiskSampled, DisksInOrder
      <4>2. /\ \A f \in Rated \ Milliseconds : last(d)[f] <= curr(d)[f]
            /\ w[3].read <= ops[d].read /\ w[3].write <= ops[d].write
        BY <2>0, <2>2, <4>1 DEF DiskSampled, Forward
      <4>3. \A f \in Rated \ Milliseconds : curr(d)[f] <= Parse(Line(o))[f]
        <5> DEFINE p == curr(d)
                   q == Parse(Line(o))
        <5>1. /\ ops[d].read <= o.read /\ ops[d].merged <= o.merged /\ ops[d].write <= o.write
              /\ ops[d].read + ops[d].merged <= o.read + o.merged
          BY <1>3, <4>1
        <5>2. ops[d] \in Counts
          BY <1>2
        <5>3. /\ p["reads"] = ops[d].read /\ p["writes"] = ops[d].merged
              /\ p["sectors_read"] = ops[d].read + ops[d].merged
              /\ p["read_time_ms"] = ops[d].write /\ p["write_time_ms"] = 0
          BY <5>2, ParsedLine DEF curr
        <5>4. /\ q["reads"] = o.read /\ q["writes"] = o.merged
              /\ q["sectors_read"] = o.read + o.merged
              /\ q["read_time_ms"] = o.write /\ q["write_time_ms"] = 0
          BY ParsedLine
        <5> HIDE DEF p, q
        <5>5. \A f \in Rated \ Milliseconds : p[f] <= q[f]
          BY <5>1, <5>3, <5>4, Columns DEF Milliseconds
        <5> QED
          BY <5>5 DEF p, q
      <4>4. last(d) \in [Field -> Nat] /\ curr(d) \in [Field -> Nat] /\ Parse(Line(o)) \in [Field -> Nat]
        <5>1. last(d) # NoSample
          BY <2>0, <2>2, <4>1 DEF DiskSampled
        <5> QED
          BY <1>2, <5>1, ParsedLine DEF DiskInv, DiskType, last, curr
      <4>5. curr(d)' = Parse(Line(o)) /\ last(d)' = last(d)
        BY <1>4 DEF curr
      <4>6. Rated \subseteq Field
        BY DEF Rated
      <4>7. \A f \in Rated \ Milliseconds : last(d)'[f] <= curr(d)'[f]
        BY <4>2, <4>3, <4>4, <4>5, <4>6
      <4>8. w[3].read \in Nat /\ w[3].write \in Nat
        BY <4>1 DEF DiskInv, DiskType, Snapshot
      <4>9. w[3].read <= o.read /\ w[3].write <= o.write
        BY <1>3, <4>1, <4>2, <4>8
      <4>10. at'[d] = w /\ ops'[d] = o
        BY <1>4
      <4> HIDE DEF w
      <4> QED
        BY <4>7, <4>9, <4>10
    <3>4. Forward(d)'
      BY <3>3 DEF Forward
    <3> QED
      BY <1>4, <2>0, <2>2, <3>2, <3>4 DEF DiskSampled, Latest
  <2> QED
    BY <2>1, <2>2
<1>6. DiskWrapsExplained'
  BY <1>4 DEF DiskInv, DiskWrapsExplained, SameDisk, agent
<1>7. ReadsAccounted'
  <2>1. \A e \in Disks : ops'[e].disk = 0 => ops[e].disk = 0
    BY <1>3, <1>4
  <2> QED
    BY <1>4, <2>1 DEF DiskInv, ReadsAccounted, agent
<1> QED
  BY <1>1, <1>5, <1>6, <1>7 DEF DiskInv

\* Every step of the kernel: operations begin, complete and are merged, disks
\* are replaced.
LEMMA KernelKeepsDiskInv ==
    ASSUME DiskInv, NEW d \in Disks,
           Begin(d) \/ CompleteRead(d) \/ CompleteWrite(d) \/ Merge(d) \/ Replace(d)
    PROVE  DiskInv'
<1> DEFINE o == ops[d]
<1>1. /\ o \in Counts /\ ops \in [Disks -> Counts]
      /\ o.disk \in Nat /\ o.read \in Nat /\ o.merged \in Nat /\ o.write \in Nat /\ o.in_flight \in Nat
  BY DEF DiskInv, DiskType, Counts
<1>2. CASE Begin(d)
  <2> DEFINE n == [o EXCEPT !.in_flight = @ + 1]
  <2>1. ops' = [ops EXCEPT ![d] = n] /\ UNCHANGED agent
    BY <1>2 DEF Begin
  <2>2. n \in Counts /\ n.disk = o.disk /\ n.read = o.read /\ n.merged = o.merged /\ n.write = o.write
    BY <1>1 DEF Counts
  <2> HIDE DEF n
  <2>3. n.disk = o.disk /\ o.read <= n.read /\ o.merged <= n.merged /\ o.write <= n.write
    BY <1>1, <2>2
  <2> QED
    BY <2>1, <2>2, <2>3, KernelStep
<1>3. CASE CompleteRead(d)
  <2> DEFINE n == [o EXCEPT !.in_flight = @ - 1, !.read = @ + 1]
  <2>1. ops' = [ops EXCEPT ![d] = n] /\ UNCHANGED agent /\ o.in_flight > 0
    BY <1>1, <1>3 DEF CompleteRead
  <2>2. o.in_flight - 1 \in Nat /\ o.read + 1 \in Nat
    BY <1>1, <2>1
  <2>3. n \in Counts /\ n.disk = o.disk /\ n.read = o.read + 1 /\ n.merged = o.merged /\ n.write = o.write
    BY <1>1, <2>2 DEF Counts
  <2> HIDE DEF n
  <2>4. n.disk = o.disk /\ o.read <= n.read /\ o.merged <= n.merged /\ o.write <= n.write
    BY <1>1, <2>3
  <2> QED
    BY <2>1, <2>3, <2>4, KernelStep
<1>4. CASE CompleteWrite(d)
  <2> DEFINE n == [o EXCEPT !.in_flight = @ - 1, !.write = @ + 1]
  <2>1. ops' = [ops EXCEPT ![d] = n] /\ UNCHANGED agent /\ o.in_flight > 0
    BY <1>1, <1>4 DEF CompleteWrite
  <2>2. o.in_flight - 1 \in Nat /\ o.write + 1 \in Nat
    BY <1>1, <2>1
  <2>3. n \in Counts /\ n.disk = o.disk /\ n.read = o.read /\ n.merged = o.merged /\ n.write = o.write + 1
    BY <1>1, <2>2 DEF Counts
  <2> HIDE DEF n
  <2>4. n.disk = o.disk /\ o.read <= n.read /\ o.merged <= n.merged /\ o.write <= n.write
    BY <1>1, <2>3
  <2> QED
    BY <2>1, <2>3, <2>4, KernelStep
<1>5. CASE Merge(d)
  <2> DEFINE n == [o EXCEPT !.merged = @ + 1]
  <2>1. ops' = [ops EXCEPT ![d] = n] /\ UNCHANGED agent
    BY <1>5 DEF Merge
  <2>2. n \in Counts /\ n.disk = o.disk /\ n.read = o.read /\ n.merged = o.merged + 1 /\ n.write = o.write
    BY <1>1 DEF Counts
  <2> HIDE DEF n
  <2>3. n.disk = o.disk /\ o.read <= n.read /\ o.merged <= n.merged /\ o.write <= n.write
    BY <1>1, <2>2
  <2> QED
    BY <2>1, <2>2, <2>3, KernelStep
<1>6. CASE Replace(d)
  <2> DEFINE n == New(o.disk + 1)
  <2>1. ops' = [ops EXCEPT ![d] = n] /\ UNCHANGED agent
    BY <1>1, <1>6 DEF Replace
  <2>2. n \in Counts /\ o.disk < n.disk
    BY <1>1 DEF Counts, New
  <2> HIDE DEF n
  <2> QED
    BY <2>1, <2>2, KernelStep
<1> QED
  BY <1>2, <1>3, <1>4, <1>5, <1>6

------------------------------------------------------------------------------
(* The monitor.                                                            *)

\* A cycle takes new samples of all disks and compares them with the cached.
LEMMA UpdateOnceKeepsDiskInv == ASSUME DiskInv, NEW now \in 0 .. MaxTime, UpdateOnce(now) PROVE DiskInv'
<1>1. \A d \in Disks : ops[d] \in Counts
  BY DEF DiskInv, DiskType
<1>2. \A d \in Disks : /\ curr(d) \in [Field -> Nat] /\ curr(d)["reads"] = ops[d].read
                        /\ curr(d)["sectors_written"] = ops[d].read % U32 /\ curr(d)["io_time_ms"] = ops[d].write % U32
                        /\ ops[d].read \in Nat /\ ops[d].write \in Nat /\ Taken(d).write = ops[d].write
                        /\ Taken(d) \in Snapshot /\ Taken(d).disk = ops[d].disk /\ Taken(d).read = ops[d].read
  <2> SUFFICES ASSUME NEW d \in Disks
               PROVE  /\ curr(d) \in [Field -> Nat] /\ curr(d)["reads"] = ops[d].read
                      /\ curr(d)["sectors_written"] = ops[d].read % U32 /\ curr(d)["io_time_ms"] = ops[d].write % U32
                      /\ ops[d].read \in Nat /\ ops[d].write \in Nat /\ Taken(d).write = ops[d].write
                      /\ Taken(d) \in Snapshot /\ Taken(d).disk = ops[d].disk /\ Taken(d).read = ops[d].read
    OBVIOUS
  <2>1. /\ curr(d) \in [Field -> Nat] /\ curr(d)["reads"] = ops[d].read
        /\ curr(d)["sectors_written"] = ops[d].read % U32 /\ curr(d)["io_time_ms"] = ops[d].write % U32
    BY <1>1, ParsedLine DEF curr
  <2> QED
    BY <1>1, <2>1 DEF Taken, Snapshot, Counts
<1>3. /\ ops' = ops /\ setback' = setback \cup {d \in Disks : last(d) # NoSample /\ now <= last_time[d]}
      /\ \A d \in Disks :
           /\ rates'[d] = IF last(d) = NoSample \/ now <= last_time[d]
                          THEN NoSample ELSE Differences(curr(d), last(d))
           /\ last(d)' = curr(d)
           /\ at'[d] = Snapshots(d)
           /\ reported'[d] = reported[d] + IF rates'[d] = NoSample THEN 0 ELSE rates'[d]["reads"]
  BY DEF UpdateOnce, last
<1>4. \A d \in Disks : last(d) \in [Field -> Nat] \cup {NoSample} /\ reported[d] \in Int
  BY DEF DiskInv, DiskType, last
<1>5. \A d \in Disks : last(d) # NoSample =>
         /\ Differences(curr(d), last(d)) \in [Rated -> Int] /\ Differences(curr(d), last(d)) # NoSample
         /\ \A f \in Rated : Differences(curr(d), last(d))[f] = curr(d)[f] - last(d)[f]
  <2> SUFFICES ASSUME NEW d \in Disks, last(d) # NoSample
               PROVE  /\ Differences(curr(d), last(d)) \in [Rated -> Int] /\ Differences(curr(d), last(d)) # NoSample
                      /\ \A f \in Rated : Differences(curr(d), last(d))[f] = curr(d)[f] - last(d)[f]
    OBVIOUS
  <2>1. last(d) \in [Field -> Nat] /\ curr(d) \in [Field -> Nat] /\ Rated \subseteq Field
    BY <1>2, <1>4 DEF Rated
  <2>2. Differences(curr(d), last(d)) \in [Rated -> Int]
    BY <2>1 DEF Differences
  <2> QED
    BY <2>1, <2>2, DiskMonitorAssumption DEF Differences
<1>6. at' \in [Disks -> {<<>>} \cup Snapshot \X Snapshot \X Snapshot]
  <2>1. \A d \in Disks : Snapshots(d) \in {<<>>} \cup Snapshot \X Snapshot \X Snapshot
    BY <1>2 DEF Snapshots, DiskInv, DiskType
  <2>2. at' = [d \in Disks |-> Snapshots(d)]
    BY DEF UpdateOnce
  <2> QED
    BY <2>1, <2>2, Zenon
<1>6a. ASSUME NEW d \in Disks
      PROVE  /\ at'[d] # <<>>
             /\ at'[d][3].disk = ops[d].disk /\ at'[d][3].read = ops[d].read /\ at'[d][3].write = ops[d].write
             /\ at[d] = <<>> => at'[d][1].disk = ops[d].disk /\ at'[d][1].read = ops[d].read
             /\ at[d] # <<>> => at'[d][1] = at[d][1] /\ at'[d][2] = at[d][3]
  <2>1. at'[d] = Snapshots(d)
    BY <1>3
  <2>2. Taken(d).disk = ops[d].disk /\ Taken(d).read = ops[d].read /\ Taken(d).write = ops[d].write
    BY <1>2
  <2>3. CASE at[d] = <<>>
    <3>1. at'[d] = <<Taken(d), Taken(d), Taken(d)>>
      BY <2>1, <2>3 DEF Snapshots
    <3> QED
      BY <2>2, <2>3, <3>1
  <2>4. CASE at[d] # <<>>
    <3>1. at'[d] = <<at[d][1], at[d][3], Taken(d)>>
      BY <2>1, <2>4 DEF Snapshots
    <3> QED
      BY <2>2, <2>4, <3>1
  <2> QED
    BY <2>3, <2>4
<1>7. ASSUME NEW d \in Disks
      PROVE  /\ rates'[d] \in [Rated -> Int] \cup {NoSample} /\ reported'[d] \in Int
             /\ rates'[d] = NoSample => reported'[d] = reported[d]
             /\ rates'[d] # NoSample => /\ last(d) # NoSample
                                        /\ \A f \in Rated : rates'[d][f] = curr(d)[f] - last(d)[f]
                                        /\ reported'[d] = reported[d] + (curr(d)["reads"] - last(d)["reads"])
             /\ rates'[d] = NoSample /\ last(d) # NoSample => d \in setback'
  <2>1. CASE rates'[d] = NoSample
    <3>1. reported'[d] = reported[d]
      BY <1>3, <1>4, <2>1
    <3>2. last(d) # NoSample => d \in setback'
      BY <1>3, <1>5, <2>1
    <3> QED
      BY <1>4, <2>1, <3>1, <3>2
  <2>2. CASE rates'[d] # NoSample
    <3>1. last(d) # NoSample /\ rates'[d] = Differences(curr(d), last(d))
      BY <1>3, <2>2
    <3>2. "reads" \in Rated
      BY Columns
    <3>3. reported'[d] = reported[d] + (curr(d)["reads"] - last(d)["reads"])
      BY <1>3, <1>5, <2>2, <3>1, <3>2
    <3>4. rates'[d]["reads"] \in Int
      BY <1>5, <3>1, <3>2
    <3> QED
      BY <1>3, <1>4, <1>5, <2>2, <3>1, <3>3, <3>4
  <2> QED
    BY <2>1, <2>2
<1>8. DiskType'
  <2>1. previous_disk_stats_' \in [Disks -> [Field -> Nat] \cup {NoSample}] /\ last_time' \in [Disks -> 0 .. MaxTime]
    BY <1>2 DEF UpdateOnce
  <2>2. rates' \in [Disks -> [Rated -> Int] \cup {NoSample}] /\ reported' \in [Disks -> Int]
    BY <1>7 DEF UpdateOnce
  <2>3. at' \in [Disks -> {<<>>} \cup Snapshot \X Snapshot \X Snapshot]
    BY <1>6
  <2> QED
    BY <1>3, <2>1, <2>2, <2>3 DEF DiskInv, DiskType
<1>9. ASSUME NEW d \in Disks PROVE DiskSampled(d)'
  <2>1. /\ at'[d] # <<>> /\ last(d)' # NoSample
        /\ at'[d][3].disk = ops[d].disk /\ at'[d][3].read = ops[d].read /\ at'[d][3].write = ops[d].write
    <3>1. last(d)' = curr(d)
      BY <1>3
    <3>2. curr(d) # NoSample
      BY <1>2, DiskMonitorAssumption
    <3> QED
      BY <1>6a, <3>1, <3>2
  <2>2. curr(d)' = curr(d) /\ last(d)' = curr(d) /\ ops'[d] = ops[d]
    BY <1>3 DEF curr
  <2>3. Latest(d)'
    BY <1>2, <2>1, <2>2 DEF Latest
  <2>4. DisksInOrder(d)'
    <3>1. ops[d].disk \in Nat
      BY <1>1 DEF Counts
    <3>2. at[d] # <<>> => /\ at[d][1].disk <= at[d][3].disk /\ at[d][3].disk <= ops[d].disk
                          /\ at[d][1].disk \in Nat /\ at[d][3].disk \in Nat
      BY DEF DiskInv, DiskSampled, DisksInOrder, DiskType, Snapshot
    <3>3. at'[d][1].disk <= ops[d].disk
      BY <1>6a, <3>1, <3>2
    <3> QED
      BY <1>2, <2>1, <2>2, <3>1, <3>3 DEF DisksInOrder
  <2>5. Forward(d)'
    <3>1. \A f \in Rated : curr(d)[f] <= curr(d)[f]
      BY <1>2 DEF Rated
    <3>2. ops[d].read <= ops[d].read /\ ops[d].write <= ops[d].write
      BY <1>2
    <3> QED
      BY <2>1, <2>2, <3>1, <3>2 DEF Forward
  <2> QED
    BY <2>1, <2>3, <2>4, <2>5 DEF DiskSampled
<1>10. DiskWrapsExplained'
  <2> SUFFICES ASSUME NEW d \in Disks, rates'[d] # NoSample, SameDisk(d)', NEW f \in Rated, rates'[d][f] < 0
               PROVE  f \in Milliseconds /\ Passed(f, at'[d][2]) < Passed(f, at'[d][3])
    BY DEF DiskWrapsExplained
  <2>1. last(d) # NoSample /\ rates'[d][f] = curr(d)[f] - last(d)[f]
    BY <1>7
  <2>2. DiskSampled(d)
    BY DEF DiskInv
  <2>3. at[d] # <<>>
    BY <2>1, <2>2 DEF DiskSampled
  <2>4. /\ at'[d][2] = at[d][3] /\ at'[d][3].disk = ops[d].disk
        /\ at'[d][3].read = ops[d].read /\ at'[d][3].write = ops[d].write
    BY <1>6a, <2>3
  <2>5. /\ \A g \in Rated \ Milliseconds : last(d)[g] <= curr(d)[g]
        /\ at[d][3].read <= ops[d].read /\ at[d][3].write <= ops[d].write
    BY <2>2, <2>3, <2>4 DEF SameDisk, DiskSampled, Forward
  <2>6. last(d)[f] \in Nat /\ curr(d)[f] \in Nat
    BY <1>2, <1>4, <2>1 DEF Rated
  <2>7. f \in Milliseconds /\ curr(d)[f] < last(d)[f]
    BY <2>1, <2>5, <2>6
  <2>8. at[d][3].read \in Nat /\ at[d][3].write \in Nat
    BY <2>3 DEF DiskInv, DiskType, Snapshot
  <2>9. /\ last(d)["sectors_written"] = at[d][3].read % U32
        /\ last(d)["io_time_ms"] = at[d][3].write % U32
    BY <2>2, <2>3 DEF DiskSampled, Latest
  <2>10. CASE f = "sectors_written"
    <3>1. ops[d].read % U32 < at[d][3].read % U32
      BY <1>2, <2>7, <2>9, <2>10
    <3>2. at[d][3].read \div U32 < ops[d].read \div U32
      BY <1>2, <2>5, <2>8, <3>1, GoesBack
    <3> QED
      BY <2>4, <2>7, <2>10, <3>2 DEF Passed
  <2>11. CASE f = "io_time_ms"
    <3>1. ops[d].write % U32 < at[d][3].write % U32
      BY <1>2, <2>7, <2>9, <2>11
    <3>2. at[d][3].write \div U32 < ops[d].write \div U32
      BY <1>2, <2>5, <2>8, <3>1, GoesBack
    <3> QED
      BY <2>4, <2>7, <2>11, <3>2 DEF Passed
  <2> QED
    BY <2>7, <2>10, <2>11 DEF Milliseconds
<1>11. ReadsAccounted'
  <2> SUFFICES ASSUME NEW d \in Disks, ops[d].disk = 0
               PROVE  /\ reported'[d] <= at'[d][3].read - at'[d][1].read
                      /\ d \notin setback' => reported'[d] = at'[d][3].read - at'[d][1].read
    BY <1>3 DEF ReadsAccounted
  <2>1. DiskSampled(d) /\ at'[d][3].read = ops[d].read /\ ops[d].read \in Nat
    BY <1>1, <1>6a DEF DiskInv, Counts
  <2>2. CASE at[d] = <<>>
    <3>1. at'[d][1].read = ops[d].read /\ last(d) = NoSample /\ reported[d] = 0
      BY <1>6a, <2>1, <2>2 DEF DiskSampled
    <3>2. rates'[d] = NoSample
      BY <1>3, <3>1
    <3>3. reported'[d] = 0
      BY <1>7, <3>1, <3>2
    <3> QED
      BY <2>1, <3>1, <3>3
  <2>3. CASE at[d] # <<>>
    <3>1. at'[d][1].read = at[d][1].read /\ last(d) # NoSample
      BY <1>6a, <2>1, <2>3 DEF DiskSampled
    <3>2. at[d][1].read \in Nat /\ at[d][3].read \in Nat /\ at[d][3].disk \in Nat
      BY <2>3 DEF DiskInv, DiskType, Snapshot
    <3>3. last(d)["reads"] = at[d][3].read
      BY <2>1, <2>3 DEF DiskSampled, Latest
    <3>4. at[d][3].disk = ops[d].disk
      BY <2>1, <2>3, <3>2 DEF DiskSampled, DisksInOrder
    <3>5. at[d][3].read <= ops[d].read
      BY <2>1, <2>3, <3>4 DEF DiskSampled, Forward
    <3>6. /\ reported[d] <= at[d][3].read - at[d][1].read
          /\ d \notin setback => reported[d] = at[d][3].read - at[d][1].read
      BY <2>3 DEF DiskInv, ReadsAccounted
    <3>7. CASE rates'[d] = NoSample
      <4>1. d \in setback' /\ reported'[d] = reported[d]
        BY <1>7, <3>1, <3>7
      <4> QED
        BY <1>4, <2>1, <3>1, <3>2, <3>5, <3>6, <4>1
    <3>8. CASE rates'[d] # NoSample
      <4>1. reported'[d] = reported[d] + (ops[d].read - at[d][3].read)
        BY <1>2, <1>7, <3>3, <3>8
      <4>2. d \notin setback' => d \notin setback
        BY <1>3
      <4> QED
        BY <1>4, <2>1, <3>1, <3>2, <3>6, <4>1, <4>2
    <3> QED
      BY <3>7, <3>8
  <2> QED
    BY <2>2, <2>3
<1> QED
  BY <1>8, <1>9, <1>10, <1>11 DEF DiskInv

------------------------------------------------------------------------------
(* Every step, and every behaviour.                                        *)

\* Nothing has been sampled yet.
LEMMA InitDiskInv == DiskInit => DiskInv
<1> SUFFICES ASSUME DiskInit PROVE DiskInv
  OBVIOUS
<1>1. New(0) \in Counts
  BY DEF New, Counts
<1>2. /\ \A d \in Disks : at[d] = <<>> /\ last(d) = NoSample /\ rates[d] = NoSample /\ reported[d] = 0
  BY DEF DiskInit, last
<1>3. DiskType
  BY <1>1, DiskMonitorAssumption DEF DiskInit, DiskType
<1>4. \A d \in Disks : DiskSampled(d)
  BY <1>2 DEF DiskSampled, Latest, DisksInOrder, Forward
<1>5. DiskWrapsExplained /\ ReadsAccounted
  BY <1>2 DEF DiskWrapsExplained, ReadsAccounted
<1> QED
  BY <1>3, <1>4, <1>5 DEF DiskInv

\* The conjunction of the named parts is kept by kernel and monitor alike.
THEOREM Invariance == DiskSpec => []DiskInv
<1>1. DiskInv /\ [DiskNext]_diskvars => DiskInv'
  <2> SUFFICES ASSUME DiskInv, [DiskNext]_diskvars PROVE DiskInv'
    OBVIOUS
  <2>1. CASE \E d \in Disks : Begin(d) \/ CompleteRead(d) \/ CompleteWrite(d) \/ Merge(d) \/ Replace(d)
    BY <2>1, KernelKeepsDiskInv
  <2>2. CASE \E t \in 0 .. MaxTime : UpdateOnce(t)
    BY <2>2, UpdateOnceKeepsDiskInv
  <2>3. CASE UNCHANGED diskvars
    BY <2>3 DEF diskvars, agent, DiskInv, DiskType, DiskSampled, Latest, DisksInOrder, Forward, DiskWrapsExplained,
                ReadsAccounted, SameDisk, curr, last
  <2> QED
    BY <2>1, <2>2, <2>3 DEF DiskNext
<1> QED
  BY InitDiskInv, <1>1, PTL DEF DiskSpec

\* As long as the scores have not moved, the disk monitor takes the steps of its
\* own module; as long as it has not begun, the scores do.
THEOREM MonitorsDisks == Spec => DiskSpec
<1>1. Init => DiskInit
  BY DEF Init
<1>2. [Next]_vars => [DiskNext]_diskvars
  BY DEF Next, vars
<1> QED
  BY <1>1, <1>2, PTL DEF Spec, DiskSpec

\* A negative difference of two samples means that another disk has taken the
\* name, or that milliseconds which are read into that field have wrapped in 32
\* bits, for any disks, any operations and any course of the wall clock.
THEOREM DiskWrapsAreExplained == Spec => []DiskWrapsExplained
<1>1. DiskInv => DiskWrapsExplained
  BY DEF DiskInv
<1> QED
  BY MonitorsDisks, Invariance, <1>1, PTL

\* No read is reported twice, and none is lost unless the clock did not advance.
THEOREM ReadsReportedOnce == Spec => []ReadsAccounted
<1>1. DiskInv => ReadsAccounted
  BY DEF DiskInv
<1> QED
  BY MonitorsDisks, Invariance, <1>1, PTL

------------------------------------------------------------------------------
(* Totals of any number of scores.                                         *)

\* A set of numbers has a least one, since the initial segments that end in
\* them are well-founded under inclusion.
LEMMA Least ==
    ASSUME NEW N \in Nat, NEW T \in SUBSET (0 .. N), T # {}
    PROVE  \E n \in T : \A m \in T : n <= m
<1> DEFINE U == {0 .. n : n \in T}
<1>1. IsFiniteSet(0 .. N)
  BY FS_Interval
<1>2. U \subseteq SUBSET (0 .. N) /\ U # {}
  <2>1. \A n \in T : 0 .. n \subseteq 0 .. N
    OBVIOUS
  <2> QED
    BY <2>1
<1>3. PICK x \in U : \A y \in U : ~ (<<y, x>> \in StrictSubsetOrdering(0 .. N))
  <2> HIDE DEF U
  <2>1. IsWellFoundedOn(StrictSubsetOrdering(0 .. N), SUBSET (0 .. N))
    BY <1>1, FS_StrictSubsetOrderingWellFounded, FS_FiniteSubsetsOfFinite, Zenon
  <2> QED
    BY <2>1, <1>2, WFMin
<1>4. PICK n \in T : x = 0 .. n
  OBVIOUS
<1>5. ASSUME NEW m \in T, m < n PROVE FALSE
  <2>1. 0 .. m \in U /\ x \in SUBSET (0 .. N) /\ 0 .. m \in SUBSET (0 .. N)
    BY <1>2
  <2>2. 0 .. m \subseteq x /\ n \in x /\ n \notin 0 .. m
    BY <1>4, <1>5
  <2>3. <<0 .. m, x>> \in StrictSubsetOrdering(0 .. N)
    BY <2>1, <2>2 DEF StrictSubsetOrdering
  <2> QED
    BY <1>3, <2>1, <2>3
<1>6. \A m \in T : ~(m < n) => n <= m
  OBVIOUS
<1> QED
  BY <1>5, <1>6

\* Induction up to N, about the set of the numbers that have the property.
LEMMA UpTo ==
    ASSUME NEW N \in Nat, NEW T \in SUBSET (0 .. N), 0 \in T, \A n \in 0 .. N - 1 : n \in T => n + 1 \in T
    PROVE  T = 0 .. N
<1> SUFFICES ASSUME (0 .. N) \ T # {} PROVE FALSE
  OBVIOUS
<1>1. PICK n \in (0 .. N) \ T : \A m \in (0 .. N) \ T : n <= m
  BY Least
<1>2. n # 0 /\ n - 1 \in T /\ n - 1 \in 0 .. N - 1
  BY <1>1
<1> QED
  BY <1>1, <1>2

\* sum has the totals of the first elements of s.
PartialSums(sum, s) ==
    /\ sum \in [0 .. Len(s) -> Int]
    /\ sum[0] = 0
    /\ \A i \in 1 .. Len(s) : sum[i] = sum[i - 1] + s[i]

\* The recursion of Total defines a function: for every i one up to i exists.
LEMMA TotalDefined ==
    ASSUME NEW s \in Seq(Int)
    PROVE  \E sum : /\ sum = [i \in 0 .. Len(s) |-> IF i = 0 THEN 0 ELSE sum[i - 1] + s[i]]
                    /\ Total(s) = sum[Len(s)]
<1> DEFINE Def(g, k) == g = [i \in 0 .. k |-> IF i = 0 THEN 0 ELSE g[i - 1] + s[i]]
           D(k) == \E g : Def(g, k)
           T == {k \in 0 .. Len(s) : D(k)}
<1>1. T = 0 .. Len(s)
  <2>1. D(0)
    <3>1. Def([i \in 0 .. 0 |-> 0], 0)
      OBVIOUS
    <3> QED
      BY <3>1, Zenon
  <2>2. ASSUME NEW k \in 0 .. Len(s) - 1, D(k) PROVE D(k + 1)
    <3>1. PICK g : Def(g, k)
      BY <2>2, Zenon
    <3> DEFINE h == [i \in 0 .. k + 1 |-> IF i = k + 1 THEN g[k] + s[k + 1] ELSE g[i]]
    <3>2. Def(h, k + 1)
      BY <3>1
    <3> HIDE DEF h
    <3> QED
      BY <3>2, Zenon
  <2> HIDE DEF D
  <2>3. Len(s) \in Nat /\ \A k \in 0 .. Len(s) - 1 : k + 1 \in 0 .. Len(s)
    OBVIOUS
  <2>4. 0 \in T /\ \A k \in 0 .. Len(s) - 1 : k \in T => k + 1 \in T
    BY <2>1, <2>2, <2>3
  <2>5. T \in SUBSET (0 .. Len(s))
    OBVIOUS
  <2> HIDE DEF T
  <2> QED
    BY <2>3, <2>4, <2>5, UpTo
<1>2. D(Len(s))
  BY <1>1
<1>3. PICK g : Def(g, Len(s))
  BY <1>2, Zenon
<1> QED
  BY <1>3 DEF Total

\* Total adds up the elements from the first to the last.
LEMMA TotalSums ==
    ASSUME NEW s \in Seq(Int)
    PROVE  \E sum : PartialSums(sum, s) /\ Total(s) = sum[Len(s)]
<1>1. PICK sum : /\ sum = [i \in 0 .. Len(s) |-> IF i = 0 THEN 0 ELSE sum[i - 1] + s[i]]
                 /\ Total(s) = sum[Len(s)]
  BY TotalDefined
<1> DEFINE N == Len(s)
           T == {k \in 0 .. N : sum[k] \in Int}
<1>2. N \in Nat /\ \A i \in 1 .. N : s[i] \in Int /\ i - 1 \in 0 .. N
  OBVIOUS
<1>3. sum[0] = 0 /\ \A i \in 1 .. N : sum[i] = sum[i - 1] + s[i]
  <2> SUFFICES ASSUME NEW i \in 1 .. N PROVE sum[0] = 0 /\ sum[i] = sum[i - 1] + s[i]
    <3>1. 0 \in 0 .. N
      BY <1>2
    <3>2. sum[0] = 0
      BY <1>1, <3>1
    <3> QED
      BY <3>2
  <2>1. 0 \in 0 .. N /\ i \in 0 .. N /\ i # 0
    BY <1>2
  <2> QED
    BY <1>1, <2>1
<1> HIDE DEF N
<1>4. 0 \in T /\ \A k \in 0 .. N - 1 : k \in T => k + 1 \in T
  <2>1. 0 \in T
    BY <1>2, <1>3
  <2>2. ASSUME NEW k \in 0 .. N - 1, k \in T PROVE k + 1 \in T
    <3>1. k + 1 \in 1 .. N /\ (k + 1) - 1 = k /\ k + 1 \in 0 .. N
      BY <1>2
    <3>2. sum[k + 1] = sum[k] + s[k + 1]
      BY <1>3, <3>1
    <3> QED
      BY <1>2, <2>2, <3>1, <3>2
  <2> QED
    BY <2>1, <2>2
<1>5. T \in SUBSET (0 .. N)
  OBVIOUS
<1>6. T = 0 .. N
  <2> HIDE DEF T
  <2> QED
    BY <1>2, <1>4, <1>5, UpTo
<1>7. sum \in [0 .. N -> Int]
  <2>1. \A k \in 0 .. N : sum[k] \in Int
    BY <1>6
  <2>2. sum = [i \in 0 .. N |-> sum[i]]
    BY <1>1 DEF N
  <2> QED
    BY <2>1, <2>2
<1> QED
  BY <1>1, <1>3, <1>7 DEF N, PartialSums

\* Sums of larger numbers are larger.
LEMMA Adding ==
    ASSUME NEW a \in Int, NEW b \in Int, NEW x \in Int, NEW y \in Int, NEW m \in Int, NEW d \in Int,
           b <= a + m, y <= x + d
    PROVE  b + y <= (a + x) + (m + d)
OBVIOUS

\* A total of terms that are larger by d at most is larger by that per term.
LEMMA TotalClose ==
    ASSUME NEW s \in Seq(Int), NEW t \in Seq(Int), Len(t) = Len(s), NEW d \in Int,
           \A i \in 1 .. Len(s) : t[i] <= s[i] + d
    PROVE  /\ Total(s) \in Int /\ Total(t) \in Int
           /\ Total(t) <= Total(s) + d * Len(s)
<1> DEFINE N == Len(s)
<1>0. N \in Nat /\ \A i \in 1 .. N : s[i] \in Int /\ t[i] \in Int /\ t[i] <= s[i] + d
  OBVIOUS
<1>1. PICK f : PartialSums(f, s) /\ Total(s) = f[N]
  BY TotalSums
<1>2. PICK g : PartialSums(g, t) /\ Total(t) = g[N]
  BY TotalSums
<1> DEFINE T == {k \in 0 .. N : g[k] <= f[k] + d * k}
<1>3. /\ \A k \in 0 .. N : f[k] \in Int /\ g[k] \in Int
      /\ f[0] = 0 /\ g[0] = 0
      /\ \A i \in 1 .. N : f[i] = f[i - 1] + s[i] /\ g[i] = g[i - 1] + t[i]
  BY <1>1, <1>2 DEF PartialSums
<1> HIDE DEF N
<1>4. 0 \in T
  BY <1>0, <1>3
<1>5. ASSUME NEW k \in 0 .. N - 1, k \in T PROVE k + 1 \in T
  <2>1. k + 1 \in 1 .. N /\ (k + 1) - 1 = k /\ k + 1 \in 0 .. N /\ k \in 0 .. N /\ k \in Int
    BY <1>0
  <2>2. f[k + 1] = f[k] + s[k + 1] /\ g[k + 1] = g[k] + t[k + 1]
    BY <1>3, <2>1
  <2>3. g[k] <= f[k] + d * k /\ t[k + 1] <= s[k + 1] + d
    BY <1>0, <1>5, <2>1
  <2>4. d * (k + 1) = d * k + d
    BY <2>1
  <2>5. d * k \in Int /\ f[k] \in Int /\ g[k] \in Int /\ s[k + 1] \in Int /\ t[k + 1] \in Int
    BY <1>0, <1>3, <2>1
  <2>6. g[k] + t[k + 1] <= (f[k] + s[k + 1]) + (d * k + d)
    BY <2>3, <2>5, Adding
  <2>7. g[k + 1] <= f[k + 1] + d * (k + 1)
    BY <2>2, <2>4, <2>6
  <2> QED
    BY <2>1, <2>7
<1>6. T \in SUBSET (0 .. N)
  OBVIOUS
<1>7. T = 0 .. N
  <2> HIDE DEF T
  <2> QED
    BY <1>0, <1>4, <1>5, <1>6, UpTo
<1>8. N \in 0 .. N
  BY <1>0
<1>9. g[N] <= f[N] + d * N
  BY <1>7, <1>8
<1> QED
  BY <1>1, <1>2, <1>3, <1>8, <1>9 DEF N

\* The total of terms between lo and hi is between lo and hi per term.
LEMMA TotalBounded ==
    ASSUME NEW s \in Seq(Int), NEW hi \in Int, \A i \in 1 .. Len(s) : 0 <= s[i] /\ s[i] <= hi
    PROVE  Total(s) \in Int /\ 0 <= Total(s) /\ Total(s) <= hi * Len(s)
<1> DEFINE N == Len(s)
<1>0. N \in Nat /\ \A i \in 1 .. N : s[i] \in Int /\ 0 <= s[i] /\ s[i] <= hi
  OBVIOUS
<1>1. PICK f : PartialSums(f, s) /\ Total(s) = f[N]
  BY TotalSums
<1> DEFINE T == {k \in 0 .. N : 0 <= f[k] /\ f[k] <= hi * k}
<1>3. /\ \A k \in 0 .. N : f[k] \in Int
      /\ f[0] = 0
      /\ \A i \in 1 .. N : f[i] = f[i - 1] + s[i]
  BY <1>1 DEF PartialSums
<1> HIDE DEF N
<1>4. 0 \in T
  BY <1>0, <1>3
<1>5. ASSUME NEW k \in 0 .. N - 1, k \in T PROVE k + 1 \in T
  <2>1. k + 1 \in 1 .. N /\ (k + 1) - 1 = k /\ k + 1 \in 0 .. N /\ k \in 0 .. N /\ k \in Int
    BY <1>0
  <2>2. f[k + 1] = f[k] + s[k + 1]
    BY <1>3, <2>1
  <2>3. 0 <= f[k] /\ f[k] <= hi * k /\ 0 <= s[k + 1] /\ s[k + 1] <= hi
    BY <1>0, <1>5, <2>1
  <2>4. hi * (k + 1) = hi * k + hi
    BY <2>1
  <2>5. hi * k \in Int /\ f[k] \in Int /\ s[k + 1] \in Int
    BY <1>0, <1>3, <2>1
  <2> QED
    BY <2>1, <2>2, <2>3, <2>4, <2>5
<1>6. T \in SUBSET (0 .. N)
  OBVIOUS
<1>7. T = 0 .. N
  <2> HIDE DEF T
  <2> QED
    BY <1>0, <1>4, <1>5, <1>6, UpTo
<1>8. N \in 0 .. N
  BY <1>0
<1>9. 0 <= f[N] /\ f[N] <= hi * N
  BY <1>7, <1>8
<1> QED
  BY <1>1, <1>3, <1>8, <1>9 DEF N

------------------------------------------------------------------------------
(* Averages.                                                               *)

\* The division of an average, between its quotients.
LEMMA Quotient ==
    ASSUME NEW a \in Int, NEW n \in Nat \ {0}
    PROVE  a \div n \in Int /\ n * (a \div n) <= a /\ a < n * (a \div n) + n
OBVIOUS

\* Products with a positive number are in the order of their other factors.
LEMMA Factor ==
    ASSUME NEW x \in Int, NEW y \in Int, NEW n \in Nat \ {0}, n * x < n * y + n
    PROVE  x <= y
<1>1. n * (y + 1) = n * y + n
  OBVIOUS
<1>2. ASSUME x > y PROVE FALSE
  <2>1. x - (y + 1) >= 0
    BY <1>2
  <2>2. n * (x - (y + 1)) >= 0
    BY <2>1
  <2>3. n * (x - (y + 1)) = n * x - n * (y + 1)
    OBVIOUS
  <2> QED
    BY <1>1, <2>2, <2>3
<1> QED
  BY <1>2

\* The quotient of a number between 0 and h per share is between 0 and h.
LEMMA QuotientBounded ==
    ASSUME NEW a \in Int, NEW n \in Nat \ {0}, NEW h \in Nat, 0 <= a, a <= h * n
    PROVE  a \div n \in Int /\ 0 <= a \div n /\ a \div n <= h
<1> DEFINE q == a \div n
<1>1. q \in Int /\ n * q <= a /\ a < n * q + n
  BY Quotient
<1> HIDE DEF q
<1>2. n * q \in Int /\ n * 0 = 0 /\ n * h = h * n /\ h * n \in Int
  BY <1>1
<1>3. n * 0 < n * q + n /\ n * q < n * h + n
  <2> DEFINE b == n * q
             c == h * n
  <2>1. b \in Int /\ c \in Int /\ 0 <= a /\ a <= c /\ b <= a /\ a < b + n
    BY <1>1, <1>2
  <2> HIDE DEF b, c
  <2>2. 0 < b + n /\ b < c + n
    BY <2>1
  <2> QED
    BY <1>2, <2>2 DEF b, c
<1>4. 0 <= q /\ q <= h
  BY <1>1, <1>3, Factor
<1> QED
  BY <1>1, <1>4 DEF q

\* The quotients of numbers that are e apart per share are e apart.
LEMMA QuotientClose ==
    ASSUME NEW a \in Int, NEW b \in Int, NEW n \in Nat \ {0}, NEW e \in Nat, b <= a + e * n
    PROVE  b \div n <= a \div n + e
<1> DEFINE p == a \div n
           q == b \div n
<1>1. p \in Int /\ n * p <= a /\ a < n * p + n /\ q \in Int /\ n * q <= b /\ b < n * q + n
  BY Quotient
<1> HIDE DEF p, q
<1>2. n * p \in Int /\ n * q \in Int /\ e * n \in Int /\ n * (p + e) = n * p + e * n
  BY <1>1
<1>3. n * q < n * (p + e) + n
  <2> DEFINE x == n * p
             y == n * q
             z == e * n
  <2>1. x \in Int /\ y \in Int /\ z \in Int /\ a < x + n /\ y <= b /\ b <= a + z
    BY <1>1, <1>2
  <2> HIDE DEF x, y, z
  <2>2. y < x + z + n
    BY <2>1
  <2> QED
    BY <1>2, <2>2 DEF x, y, z
<1>4. q <= p + e
  BY <1>1, <1>3, Factor
<1> QED
  BY <1>4 DEF p, q

\* The average of scores between nothing and h tenths is one.
LEMMA AverageBounded ==
    ASSUME NEW s \in Seq(Int), s # <<>>, NEW h \in Nat, \A i \in 1 .. Len(s) : 0 <= s[i] /\ s[i] <= h
    PROVE  Average(s) \in Int /\ 0 <= Average(s) /\ Average(s) <= 2 * h
<1>1. Len(s) \in Nat \ {0}
  OBVIOUS
<1>2. Total(s) \in Int /\ 0 <= Total(s) /\ Total(s) <= h * Len(s)
  <2>1. h \in Int
    OBVIOUS
  <2> QED
    BY <2>1, TotalBounded
<1> DEFINE n == Len(s)
           a == 2 * Total(s)
           e == 2 * h
<1>3. n \in Nat \ {0} /\ a \in Int /\ 0 <= a /\ e \in Nat
  BY <1>1, <1>2
<1>4. a <= e * n
  <2>1. e * n = 2 * (h * n) /\ h * n \in Int
    BY <1>1
  <2> QED
    BY <1>2, <2>1
<1>5. Average(s) = a \div n
  BY DEF Average
<1> HIDE DEF n, a, e
<1>6. a \div n \in Int /\ 0 <= a \div n /\ a \div n <= e
  BY <1>3, <1>4, QuotientBounded
<1> QED
  BY <1>5, <1>6 DEF e

\* If no score is above its counterpart by more than d tenths, the average is
\* not above by more than that.
LEMMA AverageClose ==
    ASSUME NEW s \in Seq(Int), NEW t \in Seq(Int), Len(t) = Len(s), s # <<>>, NEW d \in Nat,
           \A i \in 1 .. Len(s) : t[i] <= s[i] + d
    PROVE  Average(t) <= Average(s) + 2 * d
<1>1. Len(s) \in Nat \ {0}
  OBVIOUS
<1>2. Total(s) \in Int /\ Total(t) \in Int /\ Total(t) <= Total(s) + d * Len(s)
  <2>1. d \in Int
    OBVIOUS
  <2> QED
    BY <2>1, TotalClose
<1> DEFINE n == Len(s)
           a == 2 * Total(s)
           b == 2 * Total(t)
           e == 2 * d
<1>3. n \in Nat \ {0} /\ a \in Int /\ b \in Int /\ e \in Nat
  BY <1>1, <1>2
<1>4. b <= a + e * n
  <2>1. e * n = 2 * (d * n) /\ d * n \in Int
    BY <1>1
  <2> QED
    BY <1>2, <2>1
<1>5. Average(s) = a \div n /\ Average(t) = b \div n
  BY DEF Average
<1> HIDE DEF n, a, b, e
<1>6. b \div n <= a \div n + e
  BY <1>3, <1>4, QuotientClose
<1> QED
  BY <1>5, <1>6 DEF e

------------------------------------------------------------------------------
(* The scores of one CPU, memory, disk or interface: each between 0 and 100, *)
(* for any values.                                                          *)

\* A usage over 100 percent gives nothing, not less.
LEMMA UsageScored ==
    ASSUME NEW u \in Nat
    PROVE  CPUUsageScore(u) \in Int /\ 0 <= CPUUsageScore(u) /\ CPUUsageScore(u) <= 100
BY DEF CPUUsageScore, AtLeast0

\* So does a load over ten, and a load that is missing.
LEMMA LoadScored ==
    ASSUME NEW l \in Nat \cup {Absent}
    PROVE  LoadScore(l) \in Int /\ 0 <= LoadScore(l) /\ LoadScore(l) <= 100
<1>1. CASE l = Absent
  BY <1>1 DEF LoadScore
<1>2. CASE l # Absent
  <2>1. l \in Nat
    BY <1>2
  <2> QED
    BY <1>2, <2>1 DEF LoadScore, AtLeast0, AtMost100
<1> QED
  BY <1>1, <1>2

\* The three terms of the memory score.
LEMMA MemoryScored ==
    ASSUME NEW m \in MemoryReport
    PROVE  /\ CalculateMemoryScore(m) \in Int
           /\ 0 <= CalculateMemoryScore(m) /\ CalculateMemoryScore(m) <= 2000
<1>1. m.used \in Nat /\ m.used <= 100 /\ m.cache \in Nat /\ m.cache <= 100
  BY DEF MemoryReport
<1>2. AtLeast0(100 - m.used) \in Nat /\ AvailableScore(100 - m.used) \in Nat /\ CacheScore(m.cache) \in Nat
  BY <1>1 DEF AtLeast0, AvailableScore, AtMost100, CacheScore
<1> QED
  BY <1>2 DEF CalculateMemoryScore

\* The three terms of the score of a disk.
LEMMA DiskScored ==
    ASSUME NEW d \in Disk
    PROVE  DiskScore(d) \in Int /\ 0 <= DiskScore(d) /\ DiskScore(d) <= 1000
<1>1. d.util \in Nat /\ d.read \in Nat /\ d.write \in Nat /\ d.queue \in Nat
  BY DEF Disk
<1>2. /\ AtLeast0(100 - d.util) \in Nat /\ AtLeast0(100 - d.util) <= 100
      /\ LatencyScore(d.read, d.write) \in Nat /\ LatencyScore(d.read, d.write) <= 100
      /\ AtLeast0(100 - 2 * d.queue) \in Nat /\ AtLeast0(100 - 2 * d.queue) <= 100
  BY <1>1 DEF AtLeast0, LatencyScore
<1> QED
  BY <1>2 DEF DiskScore

\* Throughput and size of packets.
LEMMA LinkScored ==
    ASSUME NEW n \in Link
    PROVE  /\ 6 * ThroughputScore(n.throughput) + 4 * PacketScore(n.packet) \in Int
           /\ 0 <= 6 * ThroughputScore(n.throughput) + 4 * PacketScore(n.packet)
           /\ 6 * ThroughputScore(n.throughput) + 4 * PacketScore(n.packet) <= 1000
<1>1. n.throughput \in Nat /\ n.packet \in Nat
  BY DEF Link
<1>2. ThroughputScore(n.throughput) \in Nat /\ ThroughputScore(n.throughput) <= 100
  <2>1. CASE n.throughput <= 100
    BY <1>1, <2>1 DEF ThroughputScore
  <2>2. CASE n.throughput > 100
    <3>1. (n.throughput - 100) \div 10 \in Nat
      BY <1>1, <2>2
    <3> QED
      BY <1>1, <2>2, <3>1 DEF ThroughputScore, AtLeast0
  <2> QED
    BY <1>1, <2>1, <2>2
<1>3. PacketScore(n.packet) \in Nat /\ PacketScore(n.packet) <= 100
  BY <1>1 DEF PacketScore, AtLeast0, Distance
<1> QED
  BY <1>2, <1>3

------------------------------------------------------------------------------
(* The parts.                                                              *)

\* What the loops add up.
CPUTerms(c) == [i \in DOMAIN c.usage |-> 7 * CPUUsageScore(c.usage[i]) + 3 * LoadScore(c.load)]
DiskTerms(ds) == [i \in DOMAIN ds |-> DiskScore(ds[i])]
LinkTerms(ns) == [i \in DOMAIN ns |-> 6 * ThroughputScore(ns[i].throughput) + 4 * PacketScore(ns[i].packet)]

\* Each CPU has one term, between 0 and 100 points.
LEMMA TermsOfCPUs ==
    ASSUME NEW c \in CPUReport
    PROVE  /\ CPUTerms(c) \in Seq(Int) /\ CPUTerms(c) # <<>> /\ Len(CPUTerms(c)) = Len(c.usage)
           /\ \A i \in 1 .. Len(c.usage) :
                /\ CPUTerms(c)[i] = 7 * CPUUsageScore(c.usage[i]) + 3 * LoadScore(c.load)
                /\ 0 <= CPUTerms(c)[i] /\ CPUTerms(c)[i] <= 1000
<1>1. c.usage \in Seq(Nat) /\ c.usage # <<>> /\ c.load \in Nat \cup {Absent}
  BY DEF CPUReport
<1> DEFINE n == Len(c.usage)
<1>2. n \in Nat \ {0} /\ DOMAIN c.usage = 1 .. n
  BY <1>1
<1>3. \A i \in 1 .. n : c.usage[i] \in Nat
  BY <1>1
<1> HIDE DEF n
<1>4. \A i \in 1 .. n : CPUTerms(c)[i] = 7 * CPUUsageScore(c.usage[i]) + 3 * LoadScore(c.load)
  BY <1>2 DEF CPUTerms
<1>5. ASSUME NEW i \in 1 .. n PROVE CPUTerms(c)[i] \in Int /\ 0 <= CPUTerms(c)[i] /\ CPUTerms(c)[i] <= 1000
  <2>1. CPUUsageScore(c.usage[i]) \in Int /\ 0 <= CPUUsageScore(c.usage[i]) /\ CPUUsageScore(c.usage[i]) <= 100
    BY <1>3, UsageScored
  <2>2. LoadScore(c.load) \in Int /\ 0 <= LoadScore(c.load) /\ LoadScore(c.load) <= 100
    BY <1>1, LoadScored
  <2> QED
    BY <1>4, <2>1, <2>2
<1>6. CPUTerms(c) \in [1 .. n -> Int]
  BY <1>2, <1>4, <1>5 DEF CPUTerms
<1>7. CPUTerms(c) \in Seq(Int) /\ CPUTerms(c) # <<>> /\ Len(CPUTerms(c)) = n
  BY <1>2, <1>6
<1> QED
  BY <1>4, <1>5, <1>7 DEF n

\* Each disk has one.
LEMMA TermsOfDisks ==
    ASSUME NEW ds \in DiskReport
    PROVE  /\ DiskTerms(ds) \in Seq(Int) /\ DiskTerms(ds) # <<>> /\ Len(DiskTerms(ds)) = Len(ds)
           /\ \A i \in 1 .. Len(ds) :
                /\ ds[i] \in Disk /\ DiskTerms(ds)[i] = DiskScore(ds[i])
                /\ 0 <= DiskTerms(ds)[i] /\ DiskTerms(ds)[i] <= 1000
<1>1. ds \in Seq(Disk) /\ ds # <<>>
  BY DEF DiskReport
<1> DEFINE n == Len(ds)
<1>2. n \in Nat \ {0} /\ DOMAIN ds = 1 .. n
  BY <1>1
<1>3. \A i \in 1 .. n : ds[i] \in Disk
  BY <1>1
<1> HIDE DEF n
<1>4. \A i \in 1 .. n : DiskTerms(ds)[i] = DiskScore(ds[i])
  BY <1>2 DEF DiskTerms
<1>5. ASSUME NEW i \in 1 .. n PROVE DiskTerms(ds)[i] \in Int /\ 0 <= DiskTerms(ds)[i] /\ DiskTerms(ds)[i] <= 1000
  BY <1>3, <1>4, DiskScored
<1>6. DiskTerms(ds) \in [1 .. n -> Int]
  BY <1>2, <1>4, <1>5 DEF DiskTerms
<1>7. DiskTerms(ds) \in Seq(Int) /\ DiskTerms(ds) # <<>> /\ Len(DiskTerms(ds)) = n
  BY <1>2, <1>6
<1> QED
  BY <1>3, <1>4, <1>5, <1>7 DEF n

\* Each interface has one.
LEMMA TermsOfLinks ==
    ASSUME NEW ns \in NetworkReport
    PROVE  /\ LinkTerms(ns) \in Seq(Int) /\ LinkTerms(ns) # <<>> /\ Len(LinkTerms(ns)) = Len(ns)
           /\ \A i \in 1 .. Len(ns) :
                /\ ns[i] \in Link
                /\ LinkTerms(ns)[i] = 6 * ThroughputScore(ns[i].throughput) + 4 * PacketScore(ns[i].packet)
                /\ 0 <= LinkTerms(ns)[i] /\ LinkTerms(ns)[i] <= 1000
<1>1. ns \in Seq(Link) /\ ns # <<>>
  BY DEF NetworkReport
<1> DEFINE n == Len(ns)
<1>2. n \in Nat \ {0} /\ DOMAIN ns = 1 .. n
  BY <1>1
<1>3. \A i \in 1 .. n : ns[i] \in Link
  BY <1>1
<1> HIDE DEF n
<1>4. \A i \in 1 .. n :
         LinkTerms(ns)[i] = 6 * ThroughputScore(ns[i].throughput) + 4 * PacketScore(ns[i].packet)
  BY <1>2 DEF LinkTerms
<1>5. ASSUME NEW i \in 1 .. n PROVE LinkTerms(ns)[i] \in Int /\ 0 <= LinkTerms(ns)[i] /\ LinkTerms(ns)[i] <= 1000
  BY <1>3, <1>4, LinkScored
<1>6. LinkTerms(ns) \in [1 .. n -> Int]
  BY <1>2, <1>4, <1>5 DEF LinkTerms
<1>7. LinkTerms(ns) \in Seq(Int) /\ LinkTerms(ns) # <<>> /\ Len(LinkTerms(ns)) = n
  BY <1>2, <1>6
<1> QED
  BY <1>3, <1>4, <1>5, <1>7 DEF n

\* The score of every part of every report is between 0 and 100 points.
LEMMA PartScored ==
    ASSUME NEW r \in Report, NEW part \in Parts
    PROVE  PartScore(r, part) \in Int /\ 0 <= PartScore(r, part) /\ PartScore(r, part) <= 2000
<1>1. CASE r[part] = Absent
  BY <1>1 DEF PartScore
<1>2. CASE r[part] # Absent /\ part = "cpu_stat"
  <2>1. r.cpu_stat \in CPUReport /\ PartScore(r, part) = CalculateCPUScore(r.cpu_stat)
    BY <1>2 DEF Report, PartScore
  <2>2. CalculateCPUScore(r.cpu_stat) = Average(CPUTerms(r.cpu_stat))
    BY DEF CalculateCPUScore, CPUTerms
  <2>3. /\ Average(CPUTerms(r.cpu_stat)) \in Int
        /\ 0 <= Average(CPUTerms(r.cpu_stat)) /\ Average(CPUTerms(r.cpu_stat)) <= 2 * 1000
    <3> DEFINE s == CPUTerms(r.cpu_stat)
               h == 1000
    <3>1. s \in Seq(Int) /\ s # <<>> /\ h \in Nat /\ \A i \in 1 .. Len(s) : 0 <= s[i] /\ s[i] <= h
      BY <2>1, TermsOfCPUs
    <3> HIDE DEF s, h
    <3>2. Average(s) \in Int /\ 0 <= Average(s) /\ Average(s) <= 2 * h
      BY <3>1, AverageBounded
    <3> QED
      BY <3>2 DEF s, h
  <2> QED
    BY <2>1, <2>2, <2>3
<1>3. CASE r[part] # Absent /\ part = "mem_info"
  <2>1. r.mem_info \in MemoryReport /\ PartScore(r, part) = CalculateMemoryScore(r.mem_info)
    BY <1>3 DEF Report, PartScore
  <2> QED
    BY <2>1, MemoryScored
<1>4. CASE r[part] # Absent /\ part = "disk_info"
  <2>1. r.disk_info \in DiskReport /\ PartScore(r, part) = CalculateDiskScore(r.disk_info)
    BY <1>4 DEF Report, PartScore
  <2>2. CalculateDiskScore(r.disk_info) = Average(DiskTerms(r.disk_info))
    BY DEF CalculateDiskScore, DiskTerms
  <2>3. /\ Average(DiskTerms(r.disk_info)) \in Int
        /\ 0 <= Average(DiskTerms(r.disk_info)) /\ Average(DiskTerms(r.disk_info)) <= 2 * 1000
    <3> DEFINE s == DiskTerms(r.disk_info)
               h == 1000
    <3>1. s \in Seq(Int) /\ s # <<>> /\ h \in Nat /\ \A i \in 1 .. Len(s) : 0 <= s[i] /\ s[i] <= h
      BY <2>1, TermsOfDisks
    <3> HIDE DEF s, h
    <3>2. Average(s) \in Int /\ 0 <= Average(s) /\ Average(s) <= 2 * h
      BY <3>1, AverageBounded
    <3> QED
      BY <3>2 DEF s, h
  <2> QED
    BY <2>1, <2>2, <2>3
<1>5. CASE r[part] # Absent /\ part = "net_info"
  <2>1. r.net_info \in NetworkReport /\ PartScore(r, part) = CalculateNetworkScore(r.net_info)
    BY <1>5 DEF Report, PartScore
  <2>2. CalculateNetworkScore(r.net_info) = Average(LinkTerms(r.net_info))
    BY DEF CalculateNetworkScore, LinkTerms
  <2>3. /\ Average(LinkTerms(r.net_info)) \in Int
        /\ 0 <= Average(LinkTerms(r.net_info)) /\ Average(LinkTerms(r.net_info)) <= 2 * 1000
    <3> DEFINE s == LinkTerms(r.net_info)
               h == 1000
    <3>1. s \in Seq(Int) /\ s # <<>> /\ h \in Nat /\ \A i \in 1 .. Len(s) : 0 <= s[i] /\ s[i] <= h
      BY <2>1, TermsOfLinks
    <3> HIDE DEF s, h
    <3>2. Average(s) \in Int /\ 0 <= Average(s) /\ Average(s) <= 2 * h
      BY <3>1, AverageBounded
    <3> QED
      BY <3>2 DEF s, h
  <2> QED
    BY <2>1, <2>2, <2>3
<1> QED
  BY <1>1, <1>2, <1>3, <1>4, <1>5 DEF Parts

\* The weighted sum is between 0 and 100 points, and no cutting changes it.
LEMMA NothingToCut ==
    ASSUME NEW r \in Report
    PROVE  Weighted(r) \in Int /\ Overall(r) = Weighted(r)
<1>1. "cpu_stat" \in Parts /\ "mem_info" \in Parts /\ "disk_info" \in Parts /\ "net_info" \in Parts
  BY DEF Parts
<1> DEFINE c == PartScore(r, "cpu_stat")
           m == PartScore(r, "mem_info")
           d == PartScore(r, "disk_info")
           n == PartScore(r, "net_info")
<1>2. /\ c \in Int /\ 0 <= c /\ c <= 2000 /\ m \in Int /\ 0 <= m /\ m <= 2000
      /\ d \in Int /\ 0 <= d /\ d <= 2000 /\ n \in Int /\ 0 <= n /\ n <= 2000
  BY <1>1, PartScored
<1>3. Weighted(r) = 6 * c + 5 * m + 5 * d + 4 * n
  BY DEF Weighted
<1> HIDE DEF c, m, d, n
<1>4. Weighted(r) \in Int /\ 0 <= Weighted(r) /\ Weighted(r) <= 100 * Point
  BY <1>2, <1>3 DEF Point
<1>5. 100 * Point \in Int
  BY DEF Point
<1> QED
  BY <1>4, <1>5 DEF Overall

------------------------------------------------------------------------------
(* What is worse scores lower.                                             *)

\* What a sequence of numbers has at its places.
LEMMA Elements == ASSUME NEW u \in Seq(Nat), NEW i \in 1 .. Len(u) PROVE u[i] \in Nat
OBVIOUS

\* CPU by CPU, no term is higher with a higher usage and a higher or no load.
LEMMA WorseCPU ==
    ASSUME NEW c \in CPUReport, NEW d \in CPUReport, Len(d.usage) = Len(c.usage), NoBetter(c, d)
    PROVE  CalculateCPUScore(d) <= CalculateCPUScore(c)
<1> DEFINE s == CPUTerms(c)
           t == CPUTerms(d)
           n == Len(c.usage)
           z == 0
<1>1. /\ c.usage \in Seq(Nat) /\ d.usage \in Seq(Nat) /\ n \in Nat /\ DOMAIN c.usage = 1 .. n
      /\ c.load \in Nat \cup {Absent} /\ d.load \in Nat \cup {Absent}
  BY DEF CPUReport
<1>2. LoadScore(d.load) <= LoadScore(c.load) /\ LoadScore(d.load) \in Int /\ LoadScore(c.load) \in Int
  <2>1. LoadScore(d.load) \in Int /\ LoadScore(c.load) \in Int /\ 0 <= LoadScore(c.load)
    BY <1>1, LoadScored
  <2>2. CASE d.load = Absent
    <3>1. LoadScore(d.load) = 0
      BY <2>2 DEF LoadScore
    <3> QED
      BY <2>1, <3>1
  <2>3. CASE d.load # Absent
    <3>1. c.load # Absent /\ c.load <= d.load /\ c.load \in Nat /\ d.load \in Nat
      BY <1>1, <2>3 DEF NoBetter
    <3> QED
      BY <2>1, <2>3, <3>1 DEF LoadScore, AtLeast0, AtMost100
  <2> QED
    BY <2>2, <2>3
<1>3. ASSUME NEW i \in 1 .. n PROVE t[i] <= s[i] + z
  <2>1. c.usage[i] \in Nat /\ d.usage[i] \in Nat /\ c.usage[i] <= d.usage[i]
    <3>1. c.usage[i] <= d.usage[i]
      BY <1>1 DEF NoBetter
    <3> QED
      BY <1>1, <3>1, Elements
  <2>2. /\ CPUUsageScore(d.usage[i]) <= CPUUsageScore(c.usage[i])
        /\ CPUUsageScore(d.usage[i]) \in Int /\ CPUUsageScore(c.usage[i]) \in Int
    BY <2>1 DEF CPUUsageScore, AtLeast0
  <2>3. /\ s[i] = 7 * CPUUsageScore(c.usage[i]) + 3 * LoadScore(c.load)
        /\ t[i] = 7 * CPUUsageScore(d.usage[i]) + 3 * LoadScore(d.load)
    BY TermsOfCPUs
  <2> QED
    BY <1>2, <2>2, <2>3
<1>4. s \in Seq(Int) /\ t \in Seq(Int) /\ s # <<>> /\ Len(s) = n /\ Len(t) = n /\ z \in Nat
  BY TermsOfCPUs
<1>5. CalculateCPUScore(c) = Average(s) /\ CalculateCPUScore(d) = Average(t)
  BY DEF CalculateCPUScore, CPUTerms
<1>6. Average(s) \in Int /\ Average(t) \in Int
  <2> DEFINE h == 1000
  <2>1. /\ h \in Nat /\ t # <<>>
        /\ \A i \in 1 .. Len(s) : 0 <= s[i] /\ s[i] <= h
        /\ \A i \in 1 .. Len(t) : 0 <= t[i] /\ t[i] <= h
    BY TermsOfCPUs
  <2> HIDE DEF s, t, h
  <2> QED
    BY <1>4, <2>1, AverageBounded
<1> HIDE DEF s, t, n, z
<1>7. Average(t) <= Average(s) + 2 * z
  BY <1>3, <1>4, AverageClose
<1> QED
  BY <1>5, <1>6, <1>7 DEF z

\* More memory in use, with the same cache.
LEMMA WorseMemory ==
    ASSUME NEW m \in MemoryReport, NEW n \in MemoryReport, m.used <= n.used, m.cache = n.cache
    PROVE  CalculateMemoryScore(n) <= CalculateMemoryScore(m)
<1>1. m.used \in Nat /\ m.used <= 100 /\ m.cache \in Nat /\ n.used \in Nat /\ n.used <= 100
  BY DEF MemoryReport
<1>2. /\ AtLeast0(100 - m.used) \in Int /\ AvailableScore(100 - m.used) \in Int /\ CacheScore(m.cache) \in Int
      /\ AtLeast0(100 - n.used) \in Int /\ AvailableScore(100 - n.used) \in Int
      /\ AtLeast0(100 - n.used) <= AtLeast0(100 - m.used)
      /\ AvailableScore(100 - n.used) <= AvailableScore(100 - m.used)
  BY <1>1 DEF AtLeast0, AvailableScore, AtMost100, CacheScore
<1> QED
  BY <1>2 DEF CalculateMemoryScore

\* Disk by disk, no score is higher with more of anything.
LEMMA WorseDisk ==
    ASSUME NEW d \in Disk, NEW e \in Disk,
           d.util <= e.util, d.read <= e.read, d.write <= e.write, d.queue <= e.queue
    PROVE  DiskScore(e) <= DiskScore(d)
<1>1. /\ d.util \in Nat /\ d.read \in Nat /\ d.write \in Nat /\ d.queue \in Nat
      /\ e.util \in Nat /\ e.read \in Nat /\ e.write \in Nat /\ e.queue \in Nat
  BY DEF Disk
<1>2. /\ AtLeast0(100 - d.util) \in Int /\ AtLeast0(100 - e.util) \in Int
      /\ AtLeast0(100 - e.util) <= AtLeast0(100 - d.util)
      /\ AtLeast0(100 - 2 * d.queue) \in Int /\ AtLeast0(100 - 2 * e.queue) \in Int
      /\ AtLeast0(100 - 2 * e.queue) <= AtLeast0(100 - 2 * d.queue)
  BY <1>1 DEF AtLeast0
<1>3. /\ LatencyScore(d.read, d.write) \in Int /\ LatencyScore(e.read, e.write) \in Int
      /\ LatencyScore(e.read, e.write) <= LatencyScore(d.read, d.write)
  BY <1>1 DEF LatencyScore, AtLeast0
<1> QED
  BY <1>2, <1>3 DEF DiskScore

\* So their average is not, either.
LEMMA WorseDisks ==
    ASSUME NEW ds \in DiskReport, NEW es \in DiskReport, Len(es) = Len(ds),
           \A i \in DOMAIN ds, key \in DOMAIN IdleDisk : ds[i][key] <= es[i][key]
    PROVE  CalculateDiskScore(es) <= CalculateDiskScore(ds)
<1> DEFINE s == DiskTerms(ds)
           t == DiskTerms(es)
           n == Len(ds)
           z == 0
<1>1. n \in Nat /\ DOMAIN ds = 1 .. n /\ DOMAIN es = 1 .. n
  BY DEF DiskReport
<1>2. DOMAIN IdleDisk = {"util", "read", "write", "queue"}
  BY DEF IdleDisk
<1>3. ASSUME NEW i \in 1 .. n PROVE t[i] <= s[i] + z
  <2>1. /\ ds[i] \in Disk /\ es[i] \in Disk
        /\ s[i] = DiskScore(ds[i]) /\ t[i] = DiskScore(es[i])
    BY TermsOfDisks
  <2> DEFINE d == ds[i]
             e == es[i]
  <2>2. \A key \in DOMAIN IdleDisk : d[key] <= e[key]
    BY <1>1
  <2> HIDE DEF d, e
  <2>3. d["util"] <= e["util"] /\ d["read"] <= e["read"] /\ d["write"] <= e["write"] /\ d["queue"] <= e["queue"]
    BY <1>2, <2>2
  <2>4. d.util <= e.util /\ d.read <= e.read /\ d.write <= e.write /\ d.queue <= e.queue
    BY <2>3
  <2>5. d \in Disk /\ e \in Disk
    BY <2>1 DEF d, e
  <2>6. DiskScore(e) <= DiskScore(d) /\ DiskScore(e) \in Int /\ DiskScore(d) \in Int
    BY <2>4, <2>5, WorseDisk, DiskScored
  <2> QED
    BY <2>1, <2>6 DEF d, e
<1>4. s \in Seq(Int) /\ t \in Seq(Int) /\ s # <<>> /\ Len(s) = n /\ Len(t) = n /\ z \in Nat
  BY TermsOfDisks
<1>5. CalculateDiskScore(ds) = Average(s) /\ CalculateDiskScore(es) = Average(t)
  BY DEF CalculateDiskScore, DiskTerms
<1>6. Average(s) \in Int /\ Average(t) \in Int
  <2> DEFINE h == 1000
  <2>1. /\ h \in Nat /\ t # <<>>
        /\ \A i \in 1 .. Len(s) : 0 <= s[i] /\ s[i] <= h
        /\ \A i \in 1 .. Len(t) : 0 <= t[i] /\ t[i] <= h
    BY TermsOfDisks
  <2> HIDE DEF s, t, h
  <2> QED
    BY <1>4, <2>1, AverageBounded
<1> HIDE DEF s, t, n, z
<1>7. Average(t) <= Average(s) + 2 * z
  BY <1>3, <1>4, AverageClose
<1> QED
  BY <1>5, <1>6, <1>7 DEF z

------------------------------------------------------------------------------
(* What is near scores nearly the same.                                    *)

\* Two values are a step apart, at most.
Apart(x, y, step) == x <= y + step /\ y <= x + step

CPUNear(c, d) ==
    /\ Len(d.usage) = Len(c.usage)
    /\ \/ d.load = c.load /\ \A i \in 1 .. Len(c.usage) : Apart(c.usage[i], d.usage[i], 10)
       \/ d.usage = c.usage /\ c.load # Absent /\ d.load # Absent /\ Apart(c.load, d.load, 10)

MemoryNear(m, n) ==
    \/ n.cache = m.cache /\ Apart(m.used, n.used, 10)
    \/ n.used = m.used /\ Apart(m.cache, n.cache, 10)

DiskNear(d, e) ==
    \/ Apart(d.util, e.util, 10) /\ e.read = d.read /\ e.write = d.write /\ e.queue = d.queue
    \/ e.util = d.util /\ Apart(d.read, e.read, 20) /\ e.write = d.write /\ e.queue = d.queue
    \/ e.util = d.util /\ e.read = d.read /\ Apart(d.write, e.write, 20) /\ e.queue = d.queue
    \/ e.util = d.util /\ e.read = d.read /\ e.write = d.write /\ Apart(d.queue, e.queue, 20)

LinkNear(m, n) ==
    \/ n.packet = m.packet /\ Apart(m.throughput, n.throughput, 10)
    \/ n.throughput = m.throughput /\ Apart(m.packet, n.packet, 10)

\* The terms of CPUs move by 7 points, or by 3 with the load.
LEMMA NearCPU ==
    ASSUME NEW c \in CPUReport, NEW d \in CPUReport, CPUNear(c, d)
    PROVE  CalculateCPUScore(d) <= CalculateCPUScore(c) + 140
<1> DEFINE s == CPUTerms(c)
           t == CPUTerms(d)
           n == Len(c.usage)
           z == 70
<1>1. /\ c.usage \in Seq(Nat) /\ d.usage \in Seq(Nat) /\ n \in Nat /\ Len(d.usage) = n
      /\ c.load \in Nat \cup {Absent} /\ d.load \in Nat \cup {Absent}
  BY DEF CPUReport, CPUNear
<1>2. LoadScore(d.load) \in Int /\ LoadScore(c.load) \in Int
  BY <1>1, LoadScored
<1>3. ASSUME NEW i \in 1 .. n PROVE t[i] <= s[i] + z
  <2>1. /\ s[i] = 7 * CPUUsageScore(c.usage[i]) + 3 * LoadScore(c.load)
        /\ t[i] = 7 * CPUUsageScore(d.usage[i]) + 3 * LoadScore(d.load)
    BY <1>1, TermsOfCPUs
  <2>2. c.usage[i] \in Nat /\ d.usage[i] \in Nat
    BY <1>1, Elements
  <2>3. CPUUsageScore(d.usage[i]) \in Int /\ CPUUsageScore(c.usage[i]) \in Int
    BY <2>2, UsageScored
  <2>4. CASE d.load = c.load /\ Apart(c.usage[i], d.usage[i], 10)
    <3>1. CPUUsageScore(d.usage[i]) <= CPUUsageScore(c.usage[i]) + 10
      BY <2>2, <2>4 DEF CPUUsageScore, AtLeast0, Apart
    <3>2. LoadScore(d.load) = LoadScore(c.load)
      BY <2>4
    <3> QED
      BY <1>2, <2>1, <2>3, <3>1, <3>2
  <2>5. CASE d.usage = c.usage /\ c.load # Absent /\ d.load # Absent /\ Apart(c.load, d.load, 10)
    <3>1. c.load \in Nat /\ d.load \in Nat
      BY <1>1, <2>5
    <3>2. LoadScore(d.load) <= LoadScore(c.load) + 10
      BY <2>5, <3>1 DEF LoadScore, AtLeast0, AtMost100, Apart
    <3>3. CPUUsageScore(d.usage[i]) = CPUUsageScore(c.usage[i])
      BY <2>5
    <3> QED
      BY <1>2, <2>1, <2>3, <3>2, <3>3
  <2> QED
    BY <2>4, <2>5 DEF CPUNear
<1>4. s \in Seq(Int) /\ t \in Seq(Int) /\ s # <<>> /\ Len(s) = n /\ Len(t) = n /\ z \in Nat
  BY <1>1, TermsOfCPUs
<1>5. CalculateCPUScore(c) = Average(s) /\ CalculateCPUScore(d) = Average(t)
  BY DEF CalculateCPUScore, CPUTerms
<1> HIDE DEF s, t, n, z
<1>7. Average(t) <= Average(s) + 2 * z
  BY <1>3, <1>4, AverageClose
<1> QED
  BY <1>5, <1>7 DEF z

\* The steepest piece is that of little cache: ten points per percent.
LEMMA NearMemory ==
    ASSUME NEW m \in MemoryReport, NEW n \in MemoryReport, MemoryNear(m, n)
    PROVE  CalculateMemoryScore(n) <= CalculateMemoryScore(m) + 400
<1>1. /\ m.used \in Nat /\ m.used <= 100 /\ m.cache \in Nat /\ n.cache \in Nat
      /\ n.used \in Nat /\ n.used <= 100
  BY DEF MemoryReport
<1> DEFINE a == AtLeast0(100 - m.used)
           b == AtLeast0(100 - n.used)
           v == AvailableScore(100 - m.used)
           w == AvailableScore(100 - n.used)
           x == CacheScore(m.cache)
           y == CacheScore(n.cache)
<1>2. a \in Int /\ b \in Int /\ v \in Int /\ w \in Int /\ x \in Int /\ y \in Int
  BY <1>1 DEF AtLeast0, AvailableScore, AtMost100, CacheScore
<1>3. 5 * b + 3 * w + 2 * y <= 5 * a + 3 * v + 2 * x + 200
  <2>1. CASE n.cache = m.cache /\ Apart(m.used, n.used, 10)
    <3>1. b <= a + 10 /\ w <= v + 20 /\ y = x
      BY <1>1, <2>1 DEF AtLeast0, AvailableScore, AtMost100, Apart
    <3> HIDE DEF a, b, v, w, x, y
    <3> QED
      BY <1>2, <3>1
  <2>2. CASE n.used = m.used /\ Apart(m.cache, n.cache, 10)
    <3>1. b = a /\ w = v
      BY <2>2
    <3>2. y <= x + 100
      BY <1>1, <2>2 DEF CacheScore, AtLeast0, Apart
    <3> HIDE DEF a, b, v, w, x, y
    <3> QED
      BY <1>2, <3>1, <3>2
  <2> QED
    BY <2>1, <2>2 DEF MemoryNear
<1>4. /\ CalculateMemoryScore(m) = 2 * (IF 5 * a + 3 * v + 2 * x > 1000 THEN 1000 ELSE 5 * a + 3 * v + 2 * x)
      /\ CalculateMemoryScore(n) = 2 * (IF 5 * b + 3 * w + 2 * y > 1000 THEN 1000 ELSE 5 * b + 3 * w + 2 * y)
  BY DEF CalculateMemoryScore
<1> HIDE DEF a, b, v, w, x, y
<1> QED
  BY <1>2, <1>3, <1>4

\* Two points of latency per millisecond, without a gap at no latency.
LEMMA NearDisk ==
    ASSUME NEW d \in Disk, NEW e \in Disk, DiskNear(d, e)
    PROVE  DiskScore(e) <= DiskScore(d) + 120
<1>1. /\ d.util \in Nat /\ d.read \in Nat /\ d.write \in Nat /\ d.queue \in Nat
      /\ e.util \in Nat /\ e.read \in Nat /\ e.write \in Nat /\ e.queue \in Nat
  BY DEF Disk
<1> DEFINE a == AtLeast0(100 - d.util)
           b == AtLeast0(100 - e.util)
           v == LatencyScore(d.read, d.write)
           w == LatencyScore(e.read, e.write)
           x == AtLeast0(100 - 2 * d.queue)
           y == AtLeast0(100 - 2 * e.queue)
<1>2. a \in Int /\ b \in Int /\ v \in Int /\ w \in Int /\ x \in Int /\ y \in Int
  BY <1>1 DEF AtLeast0, LatencyScore
<1>3. DiskScore(d) = 4 * a + 3 * v + 3 * x /\ DiskScore(e) = 4 * b + 3 * w + 3 * y
  BY DEF DiskScore
<1>4. CASE Apart(d.util, e.util, 10) /\ e.read = d.read /\ e.write = d.write /\ e.queue = d.queue
  <2>1. b <= a + 10 /\ w = v /\ y = x
    BY <1>1, <1>4 DEF AtLeast0, Apart
  <2> HIDE DEF a, b, v, w, x, y
  <2> QED
    BY <1>2, <1>3, <2>1
<1>5. CASE e.util = d.util /\ Apart(d.read, e.read, 20) /\ e.write = d.write /\ e.queue = d.queue
  <2>1. b = a /\ w <= v + 20 /\ y = x
    BY <1>1, <1>5 DEF AtLeast0, LatencyScore, Apart
  <2> HIDE DEF a, b, v, w, x, y
  <2> QED
    BY <1>2, <1>3, <2>1
<1>6. CASE e.util = d.util /\ e.read = d.read /\ Apart(d.write, e.write, 20) /\ e.queue = d.queue
  <2>1. b = a /\ w <= v + 20 /\ y = x
    BY <1>1, <1>6 DEF AtLeast0, LatencyScore, Apart
  <2> HIDE DEF a, b, v, w, x, y
  <2> QED
    BY <1>2, <1>3, <2>1
<1>7. CASE e.util = d.util /\ e.read = d.read /\ e.write = d.write /\ Apart(d.queue, e.queue, 20)
  <2>1. b = a /\ w = v /\ y <= x + 40
    BY <1>1, <1>7 DEF AtLeast0, Apart
  <2> HIDE DEF a, b, v, w, x, y
  <2> QED
    BY <1>2, <1>3, <2>1
<1> QED
  BY <1>4, <1>5, <1>6, <1>7 DEF DiskNear

\* All disks may move at once.
LEMMA NearDisks ==
    ASSUME NEW ds \in DiskReport, NEW es \in DiskReport, Len(es) = Len(ds),
           \A i \in 1 .. Len(ds) : DiskNear(ds[i], es[i])
    PROVE  CalculateDiskScore(es) <= CalculateDiskScore(ds) + 240
<1> DEFINE s == DiskTerms(ds)
           t == DiskTerms(es)
           n == Len(ds)
           z == 120
<1>1. n \in Nat
  BY DEF DiskReport
<1>3. ASSUME NEW i \in 1 .. n PROVE t[i] <= s[i] + z
  <2>1. /\ ds[i] \in Disk /\ es[i] \in Disk
        /\ s[i] = DiskScore(ds[i]) /\ t[i] = DiskScore(es[i])
    BY TermsOfDisks
  <2>2. DiskScore(es[i]) <= DiskScore(ds[i]) + 120
    BY <2>1, NearDisk
  <2> QED
    BY <2>1, <2>2
<1>4. s \in Seq(Int) /\ t \in Seq(Int) /\ s # <<>> /\ Len(s) = n /\ Len(t) = n /\ z \in Nat
  BY TermsOfDisks
<1>5. CalculateDiskScore(ds) = Average(s) /\ CalculateDiskScore(es) = Average(t)
  BY DEF CalculateDiskScore, DiskTerms
<1> HIDE DEF s, t, n, z
<1>7. Average(t) <= Average(s) + 2 * z
  BY <1>3, <1>4, AverageClose
<1> QED
  BY <1>5, <1>7 DEF z

\* No gap at 100 MB/s nor at packets of 1500 bytes, nor without any packet.
LEMMA NearLink ==
    ASSUME NEW m \in Link, NEW n \in Link, LinkNear(m, n)
    PROVE  6 * ThroughputScore(n.throughput) + 4 * PacketScore(n.packet)
             <= 6 * ThroughputScore(m.throughput) + 4 * PacketScore(m.packet) + 60
<1>1. m.throughput \in Nat /\ n.throughput \in Nat /\ m.packet \in Nat /\ n.packet \in Nat
  BY DEF Link
<1>2. \A t \in Nat : t > 100 => (t - 100) \div 10 \in Nat /\ 10 * ((t - 100) \div 10) <= t - 100
                                /\ t - 100 < 10 * ((t - 100) \div 10) + 10
  OBVIOUS
<1>3. ThroughputScore(m.throughput) \in Int /\ ThroughputScore(n.throughput) \in Int
  BY <1>1, <1>2 DEF ThroughputScore, AtLeast0
<1>4. PacketScore(m.packet) \in Int /\ PacketScore(n.packet) \in Int
  BY <1>1 DEF PacketScore, AtLeast0, Distance
<1>5. CASE n.packet = m.packet /\ Apart(m.throughput, n.throughput, 10)
  <2>1. ThroughputScore(n.throughput) <= ThroughputScore(m.throughput) + 10
    BY <1>1, <1>2, <1>5 DEF ThroughputScore, AtLeast0, Apart
  <2>2. PacketScore(n.packet) = PacketScore(m.packet)
    BY <1>5
  <2> QED
    BY <1>3, <1>4, <2>1, <2>2
<1>6. CASE n.throughput = m.throughput /\ Apart(m.packet, n.packet, 10)
  <2>1. PacketScore(n.packet) <= PacketScore(m.packet) + 10
    BY <1>1, <1>6 DEF PacketScore, AtLeast0, Distance, Apart
  <2>2. ThroughputScore(n.throughput) = ThroughputScore(m.throughput)
    BY <1>6
  <2> QED
    BY <1>3, <1>4, <2>1, <2>2
<1> QED
  BY <1>5, <1>6 DEF LinkNear

\* All interfaces may move at once.
LEMMA NearLinks ==
    ASSUME NEW ms \in NetworkReport, NEW ns \in NetworkReport, Len(ns) = Len(ms),
           \A i \in 1 .. Len(ms) : LinkNear(ms[i], ns[i])
    PROVE  CalculateNetworkScore(ns) <= CalculateNetworkScore(ms) + 120
<1> DEFINE s == LinkTerms(ms)
           t == LinkTerms(ns)
           n == Len(ms)
           z == 60
<1>1. n \in Nat
  BY DEF NetworkReport
<1>3. ASSUME NEW i \in 1 .. n PROVE t[i] <= s[i] + z
  <2>1. /\ ms[i] \in Link /\ ns[i] \in Link
        /\ s[i] = 6 * ThroughputScore(ms[i].throughput) + 4 * PacketScore(ms[i].packet)
        /\ t[i] = 6 * ThroughputScore(ns[i].throughput) + 4 * PacketScore(ns[i].packet)
    BY TermsOfLinks
  <2> DEFINE a == ms[i]
             b == ns[i]
  <2>2. a \in Link /\ b \in Link /\ LinkNear(a, b)
    BY <2>1
  <2> HIDE DEF a, b
  <2>3. 6 * ThroughputScore(b.throughput) + 4 * PacketScore(b.packet)
          <= 6 * ThroughputScore(a.throughput) + 4 * PacketScore(a.packet) + 60
    BY <2>2, NearLink
  <2> QED
    BY <2>1, <2>3 DEF a, b
<1>4. s \in Seq(Int) /\ t \in Seq(Int) /\ s # <<>> /\ Len(s) = n /\ Len(t) = n /\ z \in Nat
  BY TermsOfLinks
<1>5. CalculateNetworkScore(ms) = Average(s) /\ CalculateNetworkScore(ns) = Average(t)
  BY DEF CalculateNetworkScore, LinkTerms
<1> HIDE DEF s, t, n, z
<1>7. Average(t) <= Average(s) + 2 * z
  BY <1>3, <1>4, AverageClose
<1> QED
  BY <1>5, <1>7 DEF z

------------------------------------------------------------------------------
(* Steps of a report.                                                      *)

\* The steps of the enumerated values are between values of their types.
LEMMA Inputs ==
    /\ Percent \subseteq Nat /\ Cached \subseteq 0 .. 100 /\ Coarse \subseteq Nat
    /\ Used \subseteq 0 .. 100 /\ Throughput \subseteq Nat /\ Packet \subseteq Nat
<1>1. Top \in Nat /\ \A k \in Nat : 10 * k \in Nat /\ 20 * k \in Nat /\ 5 * k \in Nat
  BY ScoresAssumption
<1>2. Top \div 2 \in Nat
  BY <1>1
<1>3. \A k \in 0 .. 20 : 5 * k \in 0 .. 100
  OBVIOUS
<1> QED
  BY <1>1, <1>2, <1>3 DEF Percent, Cached, Coarse, Used, Throughput, Packet

\* What is within a step is at most that step apart.
LEMMA WithinStep ==
    ASSUME NEW x \in Nat, NEW S \in SUBSET Nat, NEW step \in Nat, NEW y \in Steps(x, S, step)
    PROVE  y \in S /\ y \in Nat /\ Apart(x, y, step)
BY DEF Steps, Distance, Apart

\* A value that a monitor may fill in as that part.
Fits(v, part) ==
    \/ part = "cpu_stat" /\ v \in CPUReport
    \/ part = "mem_info" /\ v \in MemoryReport
    \/ part = "disk_info" /\ v \in DiskReport
    \/ part = "net_info" /\ v \in NetworkReport

\* A report with a part replaced by one that fits is a report.
LEMMA Replaced ==
    ASSUME NEW r \in Report, NEW part \in Parts, NEW v, NEW q, q = [r EXCEPT ![part] = v], v = Absent \/ Fits(v, part)
    PROVE  q \in Report
<1>1. CASE part = "cpu_stat"
  BY <1>1 DEF Report, Fits
<1>2. CASE part = "mem_info"
  BY <1>2 DEF Report, Fits
<1>3. CASE part = "disk_info"
  BY <1>3 DEF Report, Fits
<1>4. CASE part = "net_info"
  BY <1>4 DEF Report, Fits
<1> QED
  BY <1>1, <1>2, <1>3, <1>4 DEF Parts

\* How a step may change a part.
Moves(part, x, y) ==
    \/ y = Absent
    \/ /\ part = "cpu_stat" /\ x \in CPUReport /\ y \in CPUReport
       /\ CPUNear(x, y) \/ (Len(y.usage) = Len(x.usage) /\ y.load = Absent)
    \/ part = "mem_info" /\ x \in MemoryReport /\ y \in MemoryReport /\ MemoryNear(x, y)
    \/ /\ part = "disk_info" /\ x \in DiskReport /\ y \in DiskReport
       /\ Len(y) = Len(x) /\ \A i \in 1 .. Len(x) : DiskNear(x[i], y[i])
    \/ /\ part = "net_info" /\ x \in NetworkReport /\ y \in NetworkReport
       /\ Len(y) = Len(x) /\ \A i \in 1 .. Len(x) : LinkNear(x[i], y[i])

\* One usage, or the load, changes by a step, or the load gets lost.
LEMMA CPUMoves ==
    ASSUME info \in Report, info.cpu_stat # Absent, ChangeCPU(info.cpu_stat)
    PROVE  \E y \in CPUReport : Becomes("cpu_stat", y) /\ Moves("cpu_stat", info.cpu_stat, y)
<1> DEFINE c == info.cpu_stat
<1>1. c \in CPUReport
  BY DEF Report
<1> HIDE DEF c
<1>2. c.usage \in Seq(Nat) /\ c.usage # <<>> /\ c.load \in Nat \cup {Absent} /\ Percent \subseteq Nat
  BY <1>1, Inputs DEF CPUReport
<1>3. ASSUME NEW i \in DOMAIN c.usage, NEW u \in Percent, u \in Near(c.usage[i], Percent),
             Becomes("cpu_stat", [c EXCEPT !.usage[i] = u])
      PROVE  \E y \in CPUReport : Becomes("cpu_stat", y) /\ Moves("cpu_stat", c, y)
  <2> DEFINE w == [c.usage EXCEPT ![i] = u]
             y == [c EXCEPT !.usage = w]
  <2>1. c.usage[i] \in Nat /\ i \in 1 .. Len(c.usage)
    BY <1>2
  <2>2. u \in Nat /\ Apart(c.usage[i], u, 10)
    BY <1>2, <1>3, <2>1, WithinStep DEF Near
  <2>3. w \in Seq(Nat) /\ w # <<>> /\ Len(w) = Len(c.usage)
    BY <1>2, <2>1, <2>2
  <2>4. \A j \in 1 .. Len(c.usage) : Apart(c.usage[j], w[j], 10)
    BY <1>2, <2>1, <2>2 DEF Apart
  <2>5. [c EXCEPT !.usage[i] = u] = y
    BY <1>1 DEF CPUReport
  <2> HIDE DEF w
  <2>6. y \in CPUReport /\ y.usage = w /\ y.load = c.load
    BY <1>1, <2>3 DEF CPUReport
  <2> HIDE DEF y
  <2>7. Moves("cpu_stat", c, y)
    BY <1>1, <2>3, <2>4, <2>6 DEF Moves, CPUNear
  <2> QED
    BY <1>3, <2>5, <2>6, <2>7
<1>4. ASSUME c.load # Absent, NEW l \in Near(c.load, Percent), Becomes("cpu_stat", [c EXCEPT !.load = l])
      PROVE  \E y \in CPUReport : Becomes("cpu_stat", y) /\ Moves("cpu_stat", c, y)
  <2> DEFINE y == [c EXCEPT !.load = l]
  <2>1. c.load \in Nat
    BY <1>2, <1>4
  <2>2. l \in Nat /\ Apart(c.load, l, 10)
    BY <1>2, <1>4, <2>1, WithinStep DEF Near
  <2>3. y \in CPUReport /\ y.usage = c.usage /\ y.load = l
    BY <1>1, <2>2 DEF CPUReport
  <2> HIDE DEF y
  <2>4. CASE l = Absent
    BY <1>1, <1>4, <2>3, <2>4 DEF Moves, y
  <2>5. CASE l # Absent
    BY <1>1, <1>4, <2>2, <2>3, <2>5 DEF Moves, CPUNear, y
  <2> QED
    BY <2>4, <2>5
<1>5. ASSUME Becomes("cpu_stat", [c EXCEPT !.load = Absent])
      PROVE  \E y \in CPUReport : Becomes("cpu_stat", y) /\ Moves("cpu_stat", c, y)
  <2> DEFINE y == [c EXCEPT !.load = Absent]
  <2>1. y \in CPUReport /\ y.usage = c.usage /\ y.load = Absent
    BY <1>1 DEF CPUReport
  <2> HIDE DEF y
  <2>2. Moves("cpu_stat", c, y)
    BY <1>1, <2>1 DEF Moves
  <2> QED
    BY <1>5, <2>1, <2>2 DEF y
<1>6. ChangeCPU(c)
  BY DEF c
<1>7. \E y \in CPUReport : Becomes("cpu_stat", y) /\ Moves("cpu_stat", c, y)
  BY <1>3, <1>4, <1>5, <1>6 DEF ChangeCPU
<1> QED
  BY <1>7 DEF c

\* The memory in use, or the cache, changes by a step.
LEMMA MemoryMoves ==
    ASSUME info \in Report, info.mem_info # Absent, ChangeMemory(info.mem_info)
    PROVE  \E y \in MemoryReport : Becomes("mem_info", y) /\ Moves("mem_info", info.mem_info, y)
<1> DEFINE m == info.mem_info
<1>1. m \in MemoryReport /\ ChangeMemory(m)
  BY DEF Report
<1> HIDE DEF m
<1>2. m.used \in Nat /\ m.cache \in Nat
  BY <1>1 DEF MemoryReport
<1>3. ASSUME NEW u \in Near(m.used, Used), Becomes("mem_info", [m EXCEPT !.used = u])
      PROVE  \E y \in MemoryReport : Becomes("mem_info", y) /\ Moves("mem_info", m, y)
  <2> DEFINE y == [m EXCEPT !.used = u]
  <2>1. Used \subseteq Nat
    BY Inputs
  <2>2. u \in Used /\ Apart(m.used, u, 10)
    BY <1>2, <2>1, WithinStep DEF Near
  <2>3. y \in MemoryReport /\ y.used = u /\ y.cache = m.cache
    BY <1>1, <2>2, Inputs DEF MemoryReport
  <2> HIDE DEF y
  <2>4. Moves("mem_info", m, y)
    BY <1>1, <2>2, <2>3 DEF Moves, MemoryNear
  <2> QED
    BY <1>3, <2>3, <2>4 DEF y
<1>4. ASSUME NEW c \in Near(m.cache, Cached), Becomes("mem_info", [m EXCEPT !.cache = c])
      PROVE  \E y \in MemoryReport : Becomes("mem_info", y) /\ Moves("mem_info", m, y)
  <2> DEFINE y == [m EXCEPT !.cache = c]
  <2>1. Cached \subseteq Nat
    BY Inputs
  <2>2. c \in Cached /\ Apart(m.cache, c, 10)
    BY <1>2, <2>1, WithinStep DEF Near
  <2>3. y \in MemoryReport /\ y.cache = c /\ y.used = m.used
    BY <1>1, <2>2, Inputs DEF MemoryReport
  <2> HIDE DEF y
  <2>4. Moves("mem_info", m, y)
    BY <1>1, <2>2, <2>3 DEF Moves, MemoryNear
  <2> QED
    BY <1>4, <2>3, <2>4 DEF y
<1>5. \E y \in MemoryReport : Becomes("mem_info", y) /\ Moves("mem_info", m, y)
  BY <1>1, <1>3, <1>4 DEF ChangeMemory
<1> QED
  BY <1>5 DEF m

\* One disk moves, and the others stay.
LEMMA OneDiskMoves ==
    ASSUME NEW ds \in DiskReport, NEW e \in Disk, DiskNear(ds[1], e)
    PROVE  [ds EXCEPT ![1] = e] \in DiskReport /\ Moves("disk_info", ds, [ds EXCEPT ![1] = e])
<1> DEFINE y == [ds EXCEPT ![1] = e]
<1>1. ds \in Seq(Disk) /\ ds # <<>> /\ 1 \in DOMAIN ds
  BY DEF DiskReport
<1>2. y \in Seq(Disk) /\ y # <<>> /\ Len(y) = Len(ds)
  BY <1>1
<1>3. ASSUME NEW i \in 1 .. Len(ds) PROVE DiskNear(ds[i], y[i])
  <2>1. CASE i = 1
    BY <1>1, <2>1
  <2>2. CASE i # 1
    <3>1. y[i] = ds[i] /\ ds[i] \in Disk
      BY <1>1, <2>2
    <3>2. ASSUME NEW d \in Disk PROVE DiskNear(d, d)
      BY DEF Disk, DiskNear, Apart
    <3> QED
      BY <3>1, <3>2
  <2> QED
    BY <2>1, <2>2
<1> HIDE DEF y
<1>4. y \in DiskReport
  BY <1>2 DEF DiskReport
<1>5. Moves("disk_info", ds, y)
  BY <1>2, <1>3, <1>4 DEF Moves
<1> QED
  BY <1>4, <1>5 DEF y

\* One interface moves, and the others stay.
LEMMA OneLinkMoves ==
    ASSUME NEW ns \in NetworkReport, NEW e \in Link, LinkNear(ns[1], e)
    PROVE  [ns EXCEPT ![1] = e] \in NetworkReport /\ Moves("net_info", ns, [ns EXCEPT ![1] = e])
<1> DEFINE y == [ns EXCEPT ![1] = e]
<1>1. ns \in Seq(Link) /\ ns # <<>> /\ 1 \in DOMAIN ns
  BY DEF NetworkReport
<1>2. y \in Seq(Link) /\ y # <<>> /\ Len(y) = Len(ns)
  BY <1>1
<1>3. ASSUME NEW i \in 1 .. Len(ns) PROVE LinkNear(ns[i], y[i])
  <2>1. CASE i = 1
    BY <1>1, <2>1
  <2>2. CASE i # 1
    <3>1. y[i] = ns[i] /\ ns[i] \in Link
      BY <1>1, <2>2
    <3>2. ASSUME NEW d \in Link PROVE LinkNear(d, d)
      BY DEF Link, LinkNear, Apart
    <3> QED
      BY <3>1, <3>2
  <2> QED
    BY <2>1, <2>2
<1> HIDE DEF y
<1>4. y \in NetworkReport
  BY <1>2 DEF NetworkReport
<1>5. Moves("net_info", ns, y)
  BY <1>2, <1>3, <1>4 DEF Moves
<1> QED
  BY <1>4, <1>5 DEF y

\* Utilisation, a latency or the queue of the first disk changes by a step.
LEMMA DiskMoves ==
    ASSUME info \in Report, info.disk_info # Absent, ChangeDisk(info.disk_info)
    PROVE  \E y \in DiskReport : Becomes("disk_info", y) /\ Moves("disk_info", info.disk_info, y)
<1> DEFINE ds == info.disk_info
           d == ds[1]
<1>1. ds \in DiskReport /\ ChangeDisk(ds)
  BY DEF Report
<1> HIDE DEF ds
<1>2. d \in Disk /\ 1 \in DOMAIN ds /\ ds \in Seq(Disk)
  BY <1>1 DEF DiskReport
<1>3. /\ d.util \in Nat /\ d.read \in Nat /\ d.write \in Nat /\ d.queue \in Nat
      /\ Percent \subseteq Nat /\ Coarse \subseteq Nat
  BY <1>2, Inputs DEF Disk
<1>4. ASSUME NEW e \in Disk, DiskNear(d, e), Becomes("disk_info", [ds EXCEPT ![1] = e])
      PROVE  \E y \in DiskReport : Becomes("disk_info", y) /\ Moves("disk_info", ds, y)
  BY <1>1, <1>4, OneDiskMoves
<1>5. ASSUME NEW v \in Near(d.util, Percent), Becomes("disk_info", [ds EXCEPT ![1].util = v])
      PROVE  \E e \in Disk : DiskNear(d, e) /\ Becomes("disk_info", [ds EXCEPT ![1] = e])
  <2> DEFINE e == [d EXCEPT !.util = v]
  <2>1. v \in Nat /\ Apart(d.util, v, 10)
    BY <1>3, WithinStep DEF Near
  <2>2. [ds EXCEPT ![1].util = v] = [ds EXCEPT ![1] = e]
    BY <1>2
  <2>3. e \in Disk /\ e.util = v /\ e.read = d.read /\ e.write = d.write /\ e.queue = d.queue
    BY <1>2, <2>1 DEF Disk
  <2> HIDE DEF e
  <2>4. DiskNear(d, e)
    BY <2>1, <2>3 DEF DiskNear
  <2> QED
    BY <1>5, <2>2, <2>3, <2>4
<1>6. ASSUME NEW v \in Steps(d.read, Coarse, 20), Becomes("disk_info", [ds EXCEPT ![1].read = v])
      PROVE  \E e \in Disk : DiskNear(d, e) /\ Becomes("disk_info", [ds EXCEPT ![1] = e])
  <2> DEFINE e == [d EXCEPT !.read = v]
  <2>1. v \in Nat /\ Apart(d.read, v, 20)
    BY <1>3, WithinStep
  <2>2. [ds EXCEPT ![1].read = v] = [ds EXCEPT ![1] = e]
    BY <1>2
  <2>3. e \in Disk /\ e.util = d.util /\ e.read = v /\ e.write = d.write /\ e.queue = d.queue
    BY <1>2, <2>1 DEF Disk
  <2> HIDE DEF e
  <2>4. DiskNear(d, e)
    BY <2>1, <2>3 DEF DiskNear
  <2> QED
    BY <1>6, <2>2, <2>3, <2>4
<1>7. ASSUME NEW v \in Steps(d.write, Coarse, 20), Becomes("disk_info", [ds EXCEPT ![1].write = v])
      PROVE  \E e \in Disk : DiskNear(d, e) /\ Becomes("disk_info", [ds EXCEPT ![1] = e])
  <2> DEFINE e == [d EXCEPT !.write = v]
  <2>1. v \in Nat /\ Apart(d.write, v, 20)
    BY <1>3, WithinStep
  <2>2. [ds EXCEPT ![1].write = v] = [ds EXCEPT ![1] = e]
    BY <1>2
  <2>3. e \in Disk /\ e.util = d.util /\ e.read = d.read /\ e.write = v /\ e.queue = d.queue
    BY <1>2, <2>1 DEF Disk
  <2> HIDE DEF e
  <2>4. DiskNear(d, e)
    BY <2>1, <2>3 DEF DiskNear
  <2> QED
    BY <1>7, <2>2, <2>3, <2>4
<1>8. ASSUME NEW v \in Steps(d.queue, Coarse, 20), Becomes("disk_info", [ds EXCEPT ![1].queue = v])
      PROVE  \E e \in Disk : DiskNear(d, e) /\ Becomes("disk_info", [ds EXCEPT ![1] = e])
  <2> DEFINE e == [d EXCEPT !.queue = v]
  <2>1. v \in Nat /\ Apart(d.queue, v, 20)
    BY <1>3, WithinStep
  <2>2. [ds EXCEPT ![1].queue = v] = [ds EXCEPT ![1] = e]
    BY <1>2
  <2>3. e \in Disk /\ e.util = d.util /\ e.read = d.read /\ e.write = d.write /\ e.queue = v
    BY <1>2, <2>1 DEF Disk
  <2> HIDE DEF e
  <2>4. DiskNear(d, e)
    BY <2>1, <2>3 DEF DiskNear
  <2> QED
    BY <1>8, <2>2, <2>3, <2>4
<1>9. \E e \in Disk : DiskNear(d, e) /\ Becomes("disk_info", [ds EXCEPT ![1] = e])
  BY <1>1, <1>5, <1>6, <1>7, <1>8 DEF ChangeDisk
<1>10. \E y \in DiskReport : Becomes("disk_info", y) /\ Moves("disk_info", ds, y)
  BY <1>4, <1>9
<1> QED
  BY <1>10 DEF ds

\* Throughput or packet size of the first interface changes by a step.
LEMMA NetworkMoves ==
    ASSUME info \in Report, info.net_info # Absent, ChangeNetwork(info.net_info)
    PROVE  \E y \in NetworkReport : Becomes("net_info", y) /\ Moves("net_info", info.net_info, y)
<1> DEFINE ns == info.net_info
           d == ns[1]
<1>1. ns \in NetworkReport /\ ChangeNetwork(ns)
  BY DEF Report
<1> HIDE DEF ns
<1>2. d \in Link /\ 1 \in DOMAIN ns /\ ns \in Seq(Link)
  BY <1>1 DEF NetworkReport
<1>3. /\ d.throughput \in Nat /\ d.packet \in Nat
      /\ Throughput \subseteq Nat /\ Packet \subseteq Nat
  BY <1>2, Inputs DEF Link
<1>4. ASSUME NEW e \in Link, LinkNear(d, e), Becomes("net_info", [ns EXCEPT ![1] = e])
      PROVE  \E y \in NetworkReport : Becomes("net_info", y) /\ Moves("net_info", ns, y)
  BY <1>1, <1>4, OneLinkMoves
<1>5. ASSUME NEW v \in Near(d.throughput, Throughput), Becomes("net_info", [ns EXCEPT ![1].throughput = v])
      PROVE  \E e \in Link : LinkNear(d, e) /\ Becomes("net_info", [ns EXCEPT ![1] = e])
  <2> DEFINE e == [d EXCEPT !.throughput = v]
  <2>1. v \in Nat /\ Apart(d.throughput, v, 10)
    BY <1>3, WithinStep DEF Near
  <2>2. [ns EXCEPT ![1].throughput = v] = [ns EXCEPT ![1] = e]
    BY <1>2
  <2>3. e \in Link /\ e.throughput = v /\ e.packet = d.packet
    BY <1>2, <2>1 DEF Link
  <2> HIDE DEF e
  <2>4. LinkNear(d, e)
    BY <2>1, <2>3 DEF LinkNear
  <2> QED
    BY <1>5, <2>2, <2>3, <2>4
<1>6. ASSUME NEW v \in Near(d.packet, Packet), Becomes("net_info", [ns EXCEPT ![1].packet = v])
      PROVE  \E e \in Link : LinkNear(d, e) /\ Becomes("net_info", [ns EXCEPT ![1] = e])
  <2> DEFINE e == [d EXCEPT !.packet = v]
  <2>1. v \in Nat /\ Apart(d.packet, v, 10)
    BY <1>3, WithinStep DEF Near
  <2>2. [ns EXCEPT ![1].packet = v] = [ns EXCEPT ![1] = e]
    BY <1>2
  <2>3. e \in Link /\ e.throughput = d.throughput /\ e.packet = v
    BY <1>2, <2>1 DEF Link
  <2> HIDE DEF e
  <2>4. LinkNear(d, e)
    BY <2>1, <2>3 DEF LinkNear
  <2> QED
    BY <1>6, <2>2, <2>3, <2>4
<1>7. \E e \in Link : LinkNear(d, e) /\ Becomes("net_info", [ns EXCEPT ![1] = e])
  BY <1>1, <1>5, <1>6 DEF ChangeNetwork
<1>8. \E y \in NetworkReport : Becomes("net_info", y) /\ Moves("net_info", ns, y)
  BY <1>4, <1>7
<1> QED
  BY <1>8 DEF ns

\* A step changes the part in focus and no other, by one step of a metric, and
\* leaves a report.
LEMMA ReportMoves ==
    ASSUME ScoresType, ScoresNext
    PROVE  /\ info' \in Report /\ focus' = focus /\ focus \in Parts /\ info[focus] # Absent
           /\ \A p \in Parts \ {focus} : info'[p] = info[p]
           /\ Moves(focus, info[focus], info'[focus])
<1>1. info \in Report /\ focus \in Parts /\ info[focus] # Absent
  BY DEF ScoresType, ScoresNext
<1>2. ASSUME NEW part \in Parts, NEW v, Becomes(part, v), v = Absent \/ Fits(v, part), Moves(part, info[part], v)
      PROVE  /\ info' \in Report /\ focus' = focus
             /\ \A p \in Parts \ {focus} : info'[p] = info[p]
             /\ Moves(focus, info[focus], info'[focus])
  <2>1. focus = part /\ focus' = focus /\ info' = [info EXCEPT ![part] = v]
    BY <1>2 DEF Becomes
  <2>2. info'[part] = v /\ (\A p \in Parts \ {part} : info'[p] = info[p]) /\ info' \in Report
    <3>1. ASSUME NEW q, q = [info EXCEPT ![part] = v] PROVE q \in Report
      BY <1>1, <1>2, <3>1, Replaced, Zenon
    <3>2. ASSUME NEW q, q = [info EXCEPT ![part] = v] PROVE q[part] = v /\ \A p \in Parts \ {part} : q[p] = info[p]
      BY <1>1, <3>2 DEF Report, Parts
    <3> QED
      BY <2>1, <3>1, <3>2
  <2> QED
    BY <1>2, <2>1, <2>2
<1>3. "cpu_stat" \in Parts /\ "mem_info" \in Parts /\ "disk_info" \in Parts /\ "net_info" \in Parts
  BY DEF Parts
<1>4. CASE ChangeCPU(info.cpu_stat)
  <2>1. focus = "cpu_stat"
    BY <1>4 DEF ChangeCPU, Becomes
  <2>2. info.cpu_stat # Absent /\ info["cpu_stat"] = info.cpu_stat
    BY <1>1, <2>1
  <2>3. PICK y \in CPUReport : Becomes("cpu_stat", y) /\ Moves("cpu_stat", info.cpu_stat, y)
    BY <1>1, <1>4, <2>2, CPUMoves
  <2>4. Fits(y, "cpu_stat")
    BY DEF Fits
  <2> QED
    BY <1>1, <1>2, <1>3, <2>2, <2>3, <2>4
<1>5. CASE ChangeMemory(info.mem_info)
  <2>1. focus = "mem_info"
    BY <1>5 DEF ChangeMemory, Becomes
  <2>2. info.mem_info # Absent /\ info["mem_info"] = info.mem_info
    BY <1>1, <2>1
  <2>3. PICK y \in MemoryReport : Becomes("mem_info", y) /\ Moves("mem_info", info.mem_info, y)
    BY <1>1, <1>5, <2>2, MemoryMoves
  <2>4. Fits(y, "mem_info")
    BY DEF Fits
  <2> QED
    BY <1>1, <1>2, <1>3, <2>2, <2>3, <2>4
<1>6. CASE ChangeDisk(info.disk_info)
  <2>1. focus = "disk_info"
    BY <1>6 DEF ChangeDisk, Becomes
  <2>2. info.disk_info # Absent /\ info["disk_info"] = info.disk_info
    BY <1>1, <2>1
  <2>3. PICK y \in DiskReport : Becomes("disk_info", y) /\ Moves("disk_info", info.disk_info, y)
    BY <1>1, <1>6, <2>2, DiskMoves
  <2>4. Fits(y, "disk_info")
    BY DEF Fits
  <2> QED
    BY <1>1, <1>2, <1>3, <2>2, <2>3, <2>4
<1>7. CASE ChangeNetwork(info.net_info)
  <2>1. focus = "net_info"
    BY <1>7 DEF ChangeNetwork, Becomes
  <2>2. info.net_info # Absent /\ info["net_info"] = info.net_info
    BY <1>1, <2>1
  <2>3. PICK y \in NetworkReport : Becomes("net_info", y) /\ Moves("net_info", info.net_info, y)
    BY <1>1, <1>7, <2>2, NetworkMoves
  <2>4. Fits(y, "net_info")
    BY DEF Fits
  <2> QED
    BY <1>1, <1>2, <1>3, <2>2, <2>3, <2>4
<1>8. CASE Lose(focus)
  <2>1. Becomes(focus, Absent)
    BY <1>8 DEF Lose
  <2>2. Moves(focus, info[focus], Absent)
    BY DEF Moves
  <2> QED
    BY <1>1, <1>2, <2>1, <2>2
<1> QED
  BY <1>1, <1>4, <1>5, <1>6, <1>7, <1>8 DEF ScoresNext

------------------------------------------------------------------------------
(* Reports and their scores.                                               *)

\* Every report there can be, whatever its values and however many CPUs, disks
\* and interfaces it has, gives each part 0 to 100 points, and the weighted sum
\* is never cut.
THEOREM ScoresOfAnyReport ==
    \A r \in Report :
       /\ \A part \in Parts : PartScore(r, part) \in 0 .. 100 * 20
       /\ Overall(r) = Weighted(r)
<1> SUFFICES ASSUME NEW r \in Report
             PROVE  /\ \A part \in Parts : PartScore(r, part) \in 0 .. 100 * 20
                    /\ Overall(r) = Weighted(r)
  OBVIOUS
<1>1. ASSUME NEW part \in Parts PROVE PartScore(r, part) \in 0 .. 100 * 20
  <2>1. PartScore(r, part) \in Int /\ 0 <= PartScore(r, part) /\ PartScore(r, part) <= 2000
    BY PartScored
  <2> QED
    BY <2>1
<1> QED
  BY <1>1, NothingToCut

\* The overall score follows the one part that changes, times its weight.
LEMMA OnePartCounts ==
    ASSUME NEW r \in Report, NEW q \in Report, NEW part \in Parts, NEW gain \in Nat,
           \A p \in Parts \ {part} : q[p] = r[p],
           PartScore(q, part) <= PartScore(r, part) + gain
    PROVE  /\ Overall(r) \in Int /\ Overall(q) \in Int
           /\ part = "cpu_stat" => Overall(q) <= Overall(r) + 6 * gain
           /\ part = "mem_info" \/ part = "disk_info" => Overall(q) <= Overall(r) + 5 * gain
           /\ part = "net_info" => Overall(q) <= Overall(r) + 4 * gain
<1>1. "cpu_stat" \in Parts /\ "mem_info" \in Parts /\ "disk_info" \in Parts /\ "net_info" \in Parts
  BY DEF Parts
<1> DEFINE c == PartScore(r, "cpu_stat")
           m == PartScore(r, "mem_info")
           d == PartScore(r, "disk_info")
           n == PartScore(r, "net_info")
           cc == PartScore(q, "cpu_stat")
           mm == PartScore(q, "mem_info")
           dd == PartScore(q, "disk_info")
           nn == PartScore(q, "net_info")
<1>2. c \in Int /\ m \in Int /\ d \in Int /\ n \in Int /\ cc \in Int /\ mm \in Int /\ dd \in Int /\ nn \in Int
  BY <1>1, PartScored
<1>3. /\ Overall(r) = 6 * c + 5 * m + 5 * d + 4 * n /\ Overall(q) = 6 * cc + 5 * mm + 5 * dd + 4 * nn
  BY NothingToCut DEF Weighted
<1>4. ASSUME NEW p \in Parts \ {part} PROVE PartScore(q, p) = PartScore(r, p)
  <2>1. q[p] = r[p]
    OBVIOUS
  <2>2. p = "cpu_stat" \/ p = "mem_info" \/ p = "disk_info" \/ p = "net_info"
    BY DEF Parts
  <2> QED
    BY <2>1, <2>2 DEF PartScore
<1>5. CASE part = "cpu_stat"
  <2>1. mm = m /\ dd = d /\ nn = n /\ cc <= c + gain
    BY <1>1, <1>4, <1>5
  <2> HIDE DEF c, m, d, n, cc, mm, dd, nn
  <2> QED
    BY <1>2, <1>3, <1>5, <2>1
<1>6. CASE part = "mem_info"
  <2>1. cc = c /\ dd = d /\ nn = n /\ mm <= m + gain
    BY <1>1, <1>4, <1>6
  <2> HIDE DEF c, m, d, n, cc, mm, dd, nn
  <2> QED
    BY <1>2, <1>3, <1>6, <2>1
<1>7. CASE part = "disk_info"
  <2>1. cc = c /\ mm = m /\ nn = n /\ dd <= d + gain
    BY <1>1, <1>4, <1>7
  <2> HIDE DEF c, m, d, n, cc, mm, dd, nn
  <2> QED
    BY <1>2, <1>3, <1>7, <2>1
<1>8. CASE part = "net_info"
  <2>1. cc = c /\ mm = m /\ dd = d /\ nn <= n + gain
    BY <1>1, <1>4, <1>8
  <2> HIDE DEF c, m, d, n, cc, mm, dd, nn
  <2> QED
    BY <1>2, <1>3, <1>8, <2>1
<1> QED
  BY <1>5, <1>6, <1>7, <1>8 DEF Parts

\* Two reports on the same CPUs, disks and interfaces, as far as that part goes.
SameNumber(r, q, part) ==
    q[part] # Absent =>
       /\ part = "cpu_stat" => Len(q.cpu_stat.usage) = Len(r.cpu_stat.usage)
       /\ part = "disk_info" => Len(q.disk_info) = Len(r.disk_info)

\* Of any two reports that differ in one part only, the one that is worse there
\* does not score higher.
THEOREM WorseIsNotHigher ==
    ASSUME NEW r \in Report, NEW q \in Report, NEW part \in Parts, r[part] # Absent,
           \A p \in Parts \ {part} : q[p] = r[p],
           SameNumber(r, q, part), Worse(r, q, part)
    PROVE  Overall(q) <= Overall(r)
<1> DEFINE z == 0
<1>1. PartScore(q, part) \in Int /\ PartScore(r, part) \in Int /\ 0 <= PartScore(r, part)
  BY PartScored
<1>2. PartScore(q, part) <= PartScore(r, part) + z
  <2>1. CASE q[part] = Absent
    <3>1. PartScore(q, part) = 0
      BY <2>1 DEF PartScore
    <3> QED
      BY <1>1, <3>1
  <2>2. CASE q[part] # Absent /\ part = "cpu_stat"
    <3> DEFINE c == r.cpu_stat
               d == q.cpu_stat
    <3>1. c \in CPUReport /\ d \in CPUReport
      BY <2>2 DEF Report
    <3>2. NoBetter(c, d) /\ Len(d.usage) = Len(c.usage)
      BY <2>2 DEF Worse, SameNumber
    <3>3. PartScore(r, part) = CalculateCPUScore(c) /\ PartScore(q, part) = CalculateCPUScore(d)
      BY <2>2 DEF PartScore
    <3> HIDE DEF c, d
    <3>4. CalculateCPUScore(d) <= CalculateCPUScore(c)
      BY <3>1, <3>2, WorseCPU
    <3> QED
      BY <1>1, <3>3, <3>4
  <2>3. CASE q[part] # Absent /\ part = "mem_info"
    <3> DEFINE c == r.mem_info
               d == q.mem_info
    <3>1. c \in MemoryReport /\ d \in MemoryReport
      BY <2>3 DEF Report
    <3>2. c.used <= d.used /\ c.cache = d.cache
      BY <2>3 DEF Worse
    <3>3. PartScore(r, part) = CalculateMemoryScore(c) /\ PartScore(q, part) = CalculateMemoryScore(d)
      BY <2>3 DEF PartScore
    <3> HIDE DEF c, d
    <3>4. CalculateMemoryScore(d) <= CalculateMemoryScore(c)
      BY <3>1, <3>2, WorseMemory
    <3> QED
      BY <1>1, <3>3, <3>4
  <2>4. CASE q[part] # Absent /\ part = "disk_info"
    <3> DEFINE c == r.disk_info
               d == q.disk_info
    <3>1. c \in DiskReport /\ d \in DiskReport
      BY <2>4 DEF Report
    <3>2. Len(d) = Len(c) /\ \A i \in DOMAIN c, key \in DOMAIN IdleDisk : c[i][key] <= d[i][key]
      BY <2>4 DEF Worse, SameNumber
    <3>3. PartScore(r, part) = CalculateDiskScore(c) /\ PartScore(q, part) = CalculateDiskScore(d)
      BY <2>4 DEF PartScore
    <3> HIDE DEF c, d
    <3>4. CalculateDiskScore(d) <= CalculateDiskScore(c)
      BY <3>1, <3>2, WorseDisks
    <3> QED
      BY <1>1, <3>3, <3>4
  <2>5. CASE q[part] # Absent /\ part = "net_info"
    BY <2>5 DEF Worse
  <2> QED
    BY <2>1, <2>2, <2>3, <2>4, <2>5 DEF Parts
<1>3. z \in Nat /\ 6 * z = 0 /\ 5 * z = 0 /\ 4 * z = 0
  OBVIOUS
<1> HIDE DEF z
<1>4. /\ Overall(r) \in Int /\ Overall(q) \in Int
      /\ part = "cpu_stat" => Overall(q) <= Overall(r) + 6 * z
      /\ part = "mem_info" \/ part = "disk_info" => Overall(q) <= Overall(r) + 5 * z
      /\ part = "net_info" => Overall(q) <= Overall(r) + 4 * z
  BY <1>2, <1>3, OnePartCounts
<1> QED
  BY <1>3, <1>4 DEF Parts

\* A step of a part that is not lost moves the overall score up by five points
\* at most.
LEMMA StepCounts ==
    ASSUME NEW r \in Report, NEW q \in Report, NEW part \in Parts,
           r[part] # Absent, q[part] # Absent, ~ Lost(q, part),
           \A p \in Parts \ {part} : q[p] = r[p],
           Moves(part, r[part], q[part])
    PROVE  Overall(r) \in Int /\ Overall(q) \in Int /\ Overall(q) <= Overall(r) + 5 * Point
<1>1. CASE part = "cpu_stat"
  <2> DEFINE c == r.cpu_stat
             d == q.cpu_stat
             z == 140
  <2>1. c \in CPUReport /\ d \in CPUReport /\ CPUNear(c, d)
    BY <1>1 DEF Moves, Lost
  <2>2. PartScore(r, part) = CalculateCPUScore(c) /\ PartScore(q, part) = CalculateCPUScore(d)
    BY <1>1 DEF PartScore
  <2> HIDE DEF c, d
  <2>3. PartScore(q, part) <= PartScore(r, part) + z /\ z \in Nat
    BY <2>1, <2>2, NearCPU
  <2> HIDE DEF z
  <2>4. Overall(r) \in Int /\ Overall(q) \in Int /\ Overall(q) <= Overall(r) + 6 * z
    BY <1>1, <2>3, OnePartCounts
  <2> QED
    BY <2>4 DEF z, Point
<1>2. CASE part = "mem_info"
  <2> DEFINE c == r.mem_info
             d == q.mem_info
             z == 400
  <2>1. c \in MemoryReport /\ d \in MemoryReport /\ MemoryNear(c, d)
    BY <1>2 DEF Moves
  <2>2. PartScore(r, part) = CalculateMemoryScore(c) /\ PartScore(q, part) = CalculateMemoryScore(d)
    BY <1>2 DEF PartScore
  <2> HIDE DEF c, d
  <2>3. PartScore(q, part) <= PartScore(r, part) + z /\ z \in Nat
    BY <2>1, <2>2, NearMemory
  <2> HIDE DEF z
  <2>4. Overall(r) \in Int /\ Overall(q) \in Int /\ Overall(q) <= Overall(r) + 5 * z
    BY <1>2, <2>3, OnePartCounts
  <2> QED
    BY <2>4 DEF z, Point
<1>3. CASE part = "disk_info"
  <2> DEFINE c == r.disk_info
             d == q.disk_info
             z == 240
  <2>1. c \in DiskReport /\ d \in DiskReport /\ Len(d) = Len(c) /\ \A i \in 1 .. Len(c) : DiskNear(c[i], d[i])
    BY <1>3 DEF Moves
  <2>2. PartScore(r, part) = CalculateDiskScore(c) /\ PartScore(q, part) = CalculateDiskScore(d)
    BY <1>3 DEF PartScore
  <2> HIDE DEF c, d
  <2>3. PartScore(q, part) <= PartScore(r, part) + z /\ z \in Nat
    BY <2>1, <2>2, NearDisks
  <2> HIDE DEF z
  <2>4. Overall(r) \in Int /\ Overall(q) \in Int /\ Overall(q) <= Overall(r) + 5 * z
    BY <1>3, <2>3, OnePartCounts
  <2> QED
    BY <2>4 DEF z, Point
<1>4. CASE part = "net_info"
  <2> DEFINE c == r.net_info
             d == q.net_info
             z == 120
  <2>1. c \in NetworkReport /\ d \in NetworkReport /\ Len(d) = Len(c) /\ \A i \in 1 .. Len(c) : LinkNear(c[i], d[i])
    BY <1>4 DEF Moves
  <2>2. PartScore(r, part) = CalculateNetworkScore(c) /\ PartScore(q, part) = CalculateNetworkScore(d)
    BY <1>4 DEF PartScore
  <2> HIDE DEF c, d
  <2>3. PartScore(q, part) <= PartScore(r, part) + z /\ z \in Nat
    BY <2>1, <2>2, NearLinks
  <2> HIDE DEF z
  <2>4. Overall(r) \in Int /\ Overall(q) \in Int /\ Overall(q) <= Overall(r) + 4 * z
    BY <1>4, <2>3, OnePartCounts
  <2> QED
    BY <2>4 DEF z, Point
<1> QED
  BY <1>1, <1>2, <1>3, <1>4 DEF Parts

\* A step back is a step, too.
LEMMA StepBack ==
    ASSUME NEW part \in Parts, NEW x, NEW y, y # Absent, part = "cpu_stat" => y.load # Absent, Moves(part, x, y)
    PROVE  Moves(part, y, x)
<1>1. \A a, b, step : Apart(a, b, step) => Apart(b, a, step)
  BY DEF Apart
<1>2. ASSUME CPUNear(x, y) PROVE CPUNear(y, x)
  BY <1>1, <1>2 DEF CPUNear
<1>3. ASSUME MemoryNear(x, y) PROVE MemoryNear(y, x)
  BY <1>1, <1>3 DEF MemoryNear
<1>4. ASSUME NEW a, NEW b, DiskNear(a, b) PROVE DiskNear(b, a)
  BY <1>1, <1>4 DEF DiskNear
<1>5. ASSUME NEW a, NEW b, LinkNear(a, b) PROVE LinkNear(b, a)
  BY <1>1, <1>5 DEF LinkNear
<1> QED
  BY <1>2, <1>3, <1>4, <1>5 DEF Moves

------------------------------------------------------------------------------
(* The specification of the run.                                           *)

\* The report stays one.
LEMMA ReportTyped == Spec => []ScoresType
<1>1. Init => ScoresType
  <2> SUFFICES ASSUME ScoresInit PROVE ScoresType
    BY DEF Init
  <2>1. Ideal \in Report /\ Second \in Report
    <3>1. IdleDisk \in Disk /\ GoodLink \in Link
      BY DEF IdleDisk, GoodLink, Disk, Link
    <3>2. <<IdleDisk>> \in DiskReport /\ <<IdleDisk, IdleDisk>> \in DiskReport
      BY <3>1 DEF DiskReport
    <3>3. <<GoodLink>> \in NetworkReport /\ <<GoodLink, GoodLink>> \in NetworkReport
      BY <3>1 DEF NetworkReport
    <3>4. [usage |-> <<0>>, load |-> 0] \in CPUReport /\ [usage |-> <<0, 0>>, load |-> 0] \in CPUReport
      BY DEF CPUReport
    <3>5. [used |-> 0, cache |-> 20] \in MemoryReport
      BY DEF MemoryReport
    <3>6. Ideal \in Report
      BY <3>2, <3>3, <3>4, <3>5 DEF Ideal, Report
    <3>7. ASSUME NEW r \in Report, r.cpu_stat \in CPUReport, NEW u \in Seq(Nat) \ {<<>>},
                 NEW ds \in DiskReport, NEW ns \in NetworkReport
          PROVE  [r EXCEPT !.cpu_stat.usage = u, !.disk_info = ds, !.net_info = ns] \in Report
      <4> DEFINE c == [r.cpu_stat EXCEPT !.usage = u]
      <4>1. c \in CPUReport
        BY <3>7 DEF CPUReport
      <4>2. [r EXCEPT !.cpu_stat.usage = u] = [r EXCEPT !.cpu_stat = c]
        BY DEF Report
      <4> HIDE DEF c
      <4>3. [r EXCEPT !.cpu_stat = c, !.disk_info = ds, !.net_info = ns] \in Report
        BY <4>1 DEF Report
      <4> QED
        BY <4>2, <4>3
    <3>8. Ideal.cpu_stat \in CPUReport /\ <<0, 0>> \in Seq(Nat) \ {<<>>}
      BY <3>4 DEF Ideal
    <3>9. Second \in Report
      BY <3>2, <3>3, <3>6, <3>7, <3>8 DEF Second
    <3> QED
      BY <3>6, <3>9
  <2>2. focus \in Parts
    BY DEF ScoresInit
  <2>3. [Ideal EXCEPT ![focus] = Second[focus]] \in Report
    <3>1. Second[focus] = Absent \/ Fits(Second[focus], focus)
      BY <2>1, <2>2 DEF Report, Parts, Fits
    <3> DEFINE q == [Ideal EXCEPT ![focus] = Second[focus]]
    <3> HIDE DEF q
    <3>2. q \in Report
      BY <2>1, <2>2, <3>1, Replaced, Zenon DEF q
    <3> QED
      BY <3>2 DEF q
  <2> QED
    BY <2>1, <2>2, <2>3 DEF ScoresInit, ScoresType
<1>2. ScoresType /\ [Next]_vars => ScoresType'
  <2> SUFFICES ASSUME ScoresType, [Next]_vars PROVE ScoresType'
    OBVIOUS
  <2>1. CASE ScoresNext
    <3>1. info' \in Report /\ focus' = focus /\ focus \in Parts
      BY <2>1, ReportMoves
    <3> QED
      BY <3>1 DEF ScoresType
  <2>2. CASE UNCHANGED <<info, focus>>
    BY <2>2 DEF ScoresType
  <2> QED
    BY <2>1, <2>2 DEF Next, vars
<1> QED
  BY <1>1, <1>2, PTL DEF Spec

\* In every state of the run each part has 0 to 100 points.
THEOREM PartsAreBounded == Spec => []PartsBounded
<1>1. ScoresType => PartsBounded
  BY ScoresOfAnyReport DEF ScoresType, PartsBounded
<1> QED
  BY ReportTyped, <1>1, PTL

\* No step to the worse raises the score.
THEOREM WorseNeverRaises == Spec => WorseScoresLower
<1>1. ScoresType /\ [Next]_vars =>
        [Worse(info, info', focus) => Overall(info') <= Overall(info)]_<<info, focus>>
  <2> SUFFICES ASSUME ScoresType, ScoresNext, Worse(info, info', focus)
               PROVE  Overall(info') <= Overall(info)
    BY DEF Next, vars
  <2>1. /\ info' \in Report /\ focus \in Parts /\ info[focus] # Absent
        /\ \A p \in Parts \ {focus} : info'[p] = info[p]
        /\ Moves(focus, info[focus], info'[focus])
    BY ReportMoves
  <2>2. info \in Report
    BY DEF ScoresType
  <2>3. SameNumber(info, info', focus)
    BY <2>1 DEF SameNumber, Moves, CPUNear
  <2> QED
    BY <2>1, <2>2, <2>3, WorseIsNotHigher
<1> QED
  BY ReportTyped, <1>1, PTL DEF Spec, WorseScoresLower

\* No step moves the score by more than five points, but a part or load that
\* comes or goes.
THEOREM ScoresDoNotJump == Spec => NoJumps
<1>1. ScoresType /\ [Next]_vars =>
        [~Lost(info, focus) /\ ~Lost(info', focus)
           => Distance(Overall(info'), Overall(info)) <= 5 * Point]_<<info, focus>>
  <2> SUFFICES ASSUME ScoresType, ScoresNext, ~Lost(info, focus), ~Lost(info', focus)
               PROVE  Distance(Overall(info'), Overall(info)) <= 5 * Point
    BY DEF Next, vars
  <2>1. /\ info' \in Report /\ focus \in Parts /\ info[focus] # Absent
        /\ \A p \in Parts \ {focus} : info'[p] = info[p]
        /\ Moves(focus, info[focus], info'[focus])
    BY ReportMoves
  <2>2. info \in Report /\ info'[focus] # Absent
    BY DEF ScoresType, Lost
  <2>3. Overall(info) \in Int /\ Overall(info') \in Int /\ Overall(info') <= Overall(info) + 5 * Point
    BY <2>1, <2>2, StepCounts
  <2>4. Moves(focus, info'[focus], info[focus])
    <3>1. focus = "cpu_stat" => info'[focus].load # Absent
      BY DEF Lost
    <3> QED
      BY <2>1, <2>2, <3>1, StepBack
  <2>5. Overall(info) <= Overall(info') + 5 * Point
    <3>1. \A p \in Parts \ {focus} : info[p] = info'[p]
      BY <2>1
    <3> QED
      BY <2>1, <2>2, <2>4, <3>1, StepCounts
  <2> QED
    BY <2>3, <2>5 DEF Distance, Point
<1> QED
  BY ReportTyped, <1>1, PTL DEF Spec, NoJumps
===============================================================================
