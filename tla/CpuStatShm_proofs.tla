------------------------- MODULE CpuStatShm_proofs -------------------------
(***************************************************************************)
(* The safety invariants of CpuStatShm, for any number of CPUs and any     *)
(* counter values.                                                         *)
(***************************************************************************)
EXTENDS CpuStatShm, FiniteSetTheorems, TLAPS

\* The slot that the reader is at, and its counters.
LEMMA AtSlot ==
    ASSUME IInv, pc \notin {"idle", "slot"}
    PROVE  /\ i \in Cpus
           /\ g_cpu_stats[i] \in Counters
           /\ \A f \in Fields : g_cpu_stats[i][f] \in 0 .. MaxTicks
           /\ Reading \/ pc = "copy" => /\ cpu_stat_map_[i] \in Counters /\ cpu_stat_map_[i] # NoSample
                                        /\ \A f \in Fields : cpu_stat_map_[i][f] \in 0 .. MaxTicks
                                        /\ \A f \in Fields : cpu_stat_map_[i][f] <= g_cpu_stats[i][f]
<1> USE CpuStatShmAssumption DEF IInv, TypeOK
<1>1. i \in Cpus
  BY DEF Positions, Cpus
<1>2. g_cpu_stats[i] \in Counters
  BY <1>1
<1>3. Reading \/ pc = "copy" => cpu_stat_map_[i] \in Counters
  BY DEF Positions
<1>4. ASSUME Reading \/ pc = "copy" PROVE \A f \in Fields : cpu_stat_map_[i][f] <= g_cpu_stats[i][f]
  BY <1>1, <1>3, <1>4 DEF MapIsOld
<1> QED
  BY <1>1, <1>2, <1>3, <1>4 DEF Counters

\* The field that is loaded next.
LEMMA CurrentField ==
    ASSUME NEW f, Current(f)
    PROVE  /\ todo \in {Fields, BusyFields, PartFields} => f = "user"
           /\ todo \in {{"steal", "idle"}, {"steal"}} => f = "steal"
           /\ todo = {"idle"} => f = "idle"
BY DEF Current, Rank, Fields, BusyFields, PartFields

\* What rounding a number changes.
LEMMA RoundedNumber ==
    ASSUME NEW n \in 0 .. MaxSum
    PROVE  /\ Rounded(n) \in 0 .. MaxSum /\ Rounded(n) = Float[n]
           /\ Precision * (Rounded(n) - n) <= n /\ Precision * (n - Rounded(n)) <= n
<1>1. n \in Int /\ n >= 0
  OBVIOUS
<1>2. Rounded(n) = Float[n]
  BY <1>1 DEF Rounded
<1> QED
  BY <1>2, FloatAssumption

LEMMA MinusInt == ASSUME NEW m \in 0 .. MaxSum, NEW n \in 0 .. MaxSum PROVE Minus(m, n) \in Int
<1>1. Rounded(m) \in 0 .. MaxSum /\ Rounded(n) \in 0 .. MaxSum /\ MaxSum \in Nat
  BY RoundedNumber, CpuStatShmAssumption DEF MaxSum
<1> DEFINE d == Rounded(m) - Rounded(n)
<1>2. d \in Int /\ (d >= 0 => d \in 0 .. MaxSum) /\ (~(d >= 0) => -d \in 0 .. MaxSum)
  BY <1>1
<1>3. Float \in [0 .. MaxSum -> 0 .. MaxSum]
  BY FloatAssumption
<1>4. Minus(m, n) = IF d >= 0 THEN Float[d] ELSE -Float[-d]
  BY DEF Minus, Rounded
<1> HIDE DEF d
<1>5. CASE d >= 0
  BY <1>2, <1>3, <1>4, <1>5
<1>6. CASE ~(d >= 0)
  <2>1. Float[-d] \in 0 .. MaxSum
    BY <1>2, <1>3, <1>6
  <2> QED
    BY <1>1, <1>4, <1>6, <2>1
<1> QED
  BY <1>5, <1>6

\* The difference of two sums as floats is off by at most two and a half parts
\* in Precision of the greater.
LEMMA FloatDifference ==
    ASSUME NEW m \in 0 .. MaxSum, NEW n \in 0 .. MaxSum, m <= n
    PROVE  /\ Minus(n, m) \in 0 .. MaxSum
           /\ 2 * (Precision * (Minus(n, m) - (n - m))) <= 5 * n
           /\ 2 * (Precision * ((n - m) - Minus(n, m))) <= 5 * n
<1> DEFINE a == Rounded(m)
           b == Rounded(n)
           d == b - a
           e == Rounded(d)
<1>1. /\ a \in Int /\ b \in Int /\ a >= 0 /\ b <= MaxSum /\ m \in Int /\ n \in Int /\ m >= 0
      /\ Precision * (a - m) <= m /\ Precision * (m - a) <= m
      /\ Precision * (b - n) <= n /\ Precision * (n - b) <= n
      /\ MaxSum \in Int
  BY RoundedNumber, CpuStatShmAssumption DEF MaxSum
<1>2. a <= b
  BY RoundedNumber, FloatAssumption
<1>3. d \in 0 .. MaxSum
  BY <1>1, <1>2
<1>4. e \in 0 .. MaxSum /\ Precision * (e - d) <= d /\ Precision * (d - e) <= d
  BY <1>3, RoundedNumber
<1>5. Minus(n, m) = e
  BY DEF Minus
<1>6. Precision \in Int /\ Precision >= 4
  BY FloatAssumption
<1> HIDE DEF a, b, e
<1>7. 4 * (b - n) <= n /\ 4 * (m - a) <= m
  <2>1. \A x \in Int : x >= 0 => 4 * x <= Precision * x
    BY <1>6
  <2>2. 4 * (b - n) <= n
    <3>1. CASE b - n >= 0
      <4>1. 4 * (b - n) <= Precision * (b - n)
        BY <1>1, <2>1, <3>1
      <4> DEFINE y == Precision * (b - n)
      <4>2. y \in Int /\ y <= n
        BY <1>1, <1>6
      <4> HIDE DEF y
      <4> QED
        BY <1>1, <4>1, <4>2 DEF y
    <3>2. CASE b - n < 0
      BY <1>1, <3>2, m <= n
    <3> QED
      BY <1>1, <3>1, <3>2
  <2>3. 4 * (m - a) <= m
    <3>1. CASE m - a >= 0
      <4>1. 4 * (m - a) <= Precision * (m - a)
        BY <1>1, <2>1, <3>1
      <4> DEFINE y == Precision * (m - a)
      <4>2. y \in Int /\ y <= m
        BY <1>1, <1>6
      <4> HIDE DEF y
      <4> QED
        BY <1>1, <4>1, <4>2 DEF y
    <3>2. CASE m - a < 0
      BY <1>1, <3>2, m <= n
    <3> QED
      BY <1>1, <3>1, <3>2
  <2> QED
    BY <2>2, <2>3
<1>8. d + n + m <= 2 * n + (b - n) + (m - a) /\ 2 * (d + n + m) <= 5 * n
  BY <1>1, <1>7, m <= n
<1>9. /\ Precision * (e - (n - m)) = Precision * (e - d) + Precision * (b - n) + Precision * (m - a)
      /\ Precision * ((n - m) - e) = Precision * (d - e) + Precision * (n - b) + Precision * (a - m)
  BY <1>1, <1>4, <1>6
<1> QED
  <2> DEFINE p1 == Precision * (e - (n - m))
             p2 == Precision * ((n - m) - e)
  <2>1. p1 \in Int /\ p2 \in Int /\ p1 <= d + n + m /\ p2 <= d + n + m /\ d \in Int
    BY <1>1, <1>4, <1>6, <1>9
  <2> HIDE DEF p1, p2, d
  <2>2. 2 * p1 <= 5 * n /\ 2 * p2 <= 5 * n
    BY <1>1, <1>8, <2>1
  <2> QED
    BY <1>4, <1>5, <2>2 DEF p1, p2

\* The sums of two samples, and what is then known of the percentages.
LEMMA RoundedReport ==
    ASSUME NEW old \in Counters, NEW new \in Counters, \A f \in Fields : old[f] <= new[f]
    PROVE  LET total == Minus(TotalTime(new), TotalTime(old))
               busy == Minus(BusyTime(new), BusyTime(old))
               share == [f \in PartFields |-> Rounded(new[f] - old[f])]
           IN  /\ Precision * (busy + share["idle"] - total) <= 5 * TotalTime(new)
               /\ Precision * (total - (busy + share["idle"])) <= 5 * TotalTime(new)
               /\ busy >= 0
               /\ \A f \in PartFields : share[f] >= 0 /\ Precision * (share[f] - total) <= 5 * TotalTime(new)
<1> DEFINE NT == TotalTime(new)
           OT == TotalTime(old)
           NB == BusyTime(new)
           OB == BusyTime(old)
           total == Minus(NT, OT)
           busy == Minus(NB, OB)
           P == Precision
<1>1. \A f \in Fields : old[f] \in 0 .. MaxTicks /\ new[f] \in 0 .. MaxTicks /\ old[f] <= new[f]
  BY DEF Counters
<1>2. /\ NT \in 0 .. MaxSum /\ OT \in 0 .. MaxSum /\ NB \in 0 .. MaxSum /\ OB \in 0 .. MaxSum
      /\ OT <= NT /\ OB <= NB /\ MaxSum \in Nat
      /\ \A f \in PartFields : new[f] - old[f] \in 0 .. MaxSum /\ new[f] - old[f] <= NT - OT
      /\ NT - OT = (NB - OB) + (new["idle"] - old["idle"])
      /\ NB + (new["idle"] - old["idle"]) <= NT
  BY <1>1, CpuStatShmAssumption DEF TotalTime, BusyTime, MaxSum, Fields, PartFields
<1> HIDE DEF NT, OT, NB, OB
<1>3. /\ total \in 0 .. MaxSum
      /\ 2 * (P * (total - (NT - OT))) <= 5 * NT /\ 2 * (P * ((NT - OT) - total)) <= 5 * NT
  BY <1>2, FloatDifference
<1>4. /\ busy \in 0 .. MaxSum
      /\ 2 * (P * (busy - (NB - OB))) <= 5 * NB /\ 2 * (P * ((NB - OB) - busy)) <= 5 * NB
  BY <1>2, FloatDifference
<1>5. P \in Nat
  BY FloatAssumption
<1>6. \A f \in PartFields :
         LET n == new[f] - old[f] IN Rounded(n) \in 0 .. MaxSum /\ P * (Rounded(n) - n) <= n /\ P * (n - Rounded(n)) <= n
  BY <1>2, RoundedNumber
<1> HIDE DEF total, busy, P
<1>7. ASSUME NEW f \in PartFields
      PROVE  Rounded(new[f] - old[f]) >= 0 /\ P * (Rounded(new[f] - old[f]) - total) <= 5 * NT
  <2> DEFINE n == new[f] - old[f]
             r == Rounded(n)
             x == P * (r - total)
             y == P * (r - n)
             z == P * ((NT - OT) - total)
             w == P * (n - (NT - OT))
  <2>1. r \in 0 .. MaxSum /\ y <= n /\ n \in 0 .. MaxSum /\ n <= NT - OT
    BY <1>2, <1>6
  <2> HIDE DEF r, n
  <2>2. x \in Int /\ y \in Int /\ z \in Int /\ w \in Int /\ x = y + w + z
    BY <1>2, <1>3, <1>5, <2>1
  <2>3. w <= 0
    BY <1>2, <1>5, <2>1
  <2>4. 2 * z <= 5 * NT
    BY <1>3
  <2> HIDE DEF x, y, z, w
  <2>5. x <= 5 * NT /\ r >= 0
    BY <1>2, <2>1, <2>2, <2>3, <2>4
  <2> QED
    BY <2>5 DEF x, r, n
<1>8. LET r == Rounded(new["idle"] - old["idle"])
      IN  P * (busy + r - total) <= 5 * NT /\ P * (total - (busy + r)) <= 5 * NT
  <2> DEFINE n == new["idle"] - old["idle"]
             r == Rounded(n)
             x1 == P * (busy + r - total)
             x2 == P * (total - (busy + r))
             b1 == P * (busy - (NB - OB))
             b2 == P * ((NB - OB) - busy)
             t1 == P * (total - (NT - OT))
             t2 == P * ((NT - OT) - total)
             r1 == P * (r - n)
             r2 == P * (n - r)
  <2>1. r \in 0 .. MaxSum /\ r1 <= n /\ r2 <= n /\ n \in 0 .. MaxSum /\ NT - OT = (NB - OB) + n /\ NB + n <= NT
    BY <1>2, <1>6 DEF PartFields
  <2> HIDE DEF r, n
  <2>2. x1 = b1 + r1 + t2 /\ x2 = b2 + r2 + t1
    BY <1>2, <1>3, <1>4, <1>5, <2>1
  <2>3. b1 \in Int /\ b2 \in Int /\ t1 \in Int /\ t2 \in Int /\ r1 \in Int /\ r2 \in Int
    BY <1>2, <1>3, <1>4, <1>5, <2>1
  <2>4. 2 * b1 <= 5 * NB /\ 2 * b2 <= 5 * NB /\ 2 * t1 <= 5 * NT /\ 2 * t2 <= 5 * NT
    BY <1>3, <1>4
  <2> HIDE DEF x1, x2, b1, b2, t1, t2, r1, r2
  <2>5. x1 <= 5 * NT /\ x2 <= 5 * NT
    BY <1>2, <2>1, <2>2, <2>3, <2>4
  <2> QED
    BY <2>5 DEF x1, x2, r, n
<1>9. busy >= 0
  BY <1>2, <1>4
<1>10. "idle" \in PartFields
  BY DEF PartFields
<1> QED
  BY <1>7, <1>8, <1>9, <1>10 DEF P, total, busy, NT, OT, NB, OB

\* The module has been loaded and the agent has read nothing yet.
LEMMA InitIInv == Init => IInv
<1> SUFFICES ASSUME Init PROVE IInv
  OBVIOUS
<1> USE CpuStatShmAssumption DEF Init
<1>1. \A c \in Cpus : g_cpu_stats[c] \in Counters /\ \A f \in Fields : g_cpu_stats[c][f] = FirstTick
  BY DEF Counters
<1>2. TypeOK
  <2>1. 0 \in 0 .. NCpu /\ 0 \in 0 .. 3 * MaxTicks /\ 0 \in 0 .. 2 * MaxTicks /\ 0 \in -MaxTicks .. MaxTicks
    OBVIOUS
  <2>2. Nothing \in [Fields -> SUBSET (0 .. MaxTicks)] /\ NoPart \in [PartFields -> -MaxTicks .. MaxTicks]
    BY <2>1 DEF Nothing, NoPart
  <2>3. g_cpu_stats \in [Cpus -> Counters] /\ cpu_stat_map_ \in [Cpus -> Counters \cup {NoSample}]
    BY <1>1
  <2>4. w_cpu \in Cpus \cup {End} /\ w_todo \subseteq Fields /\ (w_cpu = End <=> w_todo = {})
    OBVIOUS
  <2>5. online \subseteq Cpus /\ todo \subseteq Fields
    OBVIOUS
  <2>6. counted \in [Cpus -> Int]
    <3>1. 0 \in Int
      OBVIOUS
    <3> QED
      BY <3>1
  <2>10. disturbed \in BOOLEAN
    OBVIOUS
  <2>7. pc \in {"idle", "slot", "first", "total", "busy", "parts", "copy"}
    OBVIOUS
  <2>8. stat_count \in 0 .. NCpu /\ i \in 0 .. NCpu /\ new_total \in 0 .. 3 * MaxTicks /\ new_busy \in 0 .. 2 * MaxTicks
    BY <2>1
  <2>9. seen \in [Fields -> SUBSET (0 .. MaxTicks)] /\ part \in [PartFields -> -MaxTicks .. MaxTicks]
    BY <2>2
  <2> HIDE DEF Init
  <2> QED
    BY <2>3, <2>4, <2>5, <2>6, <2>7, <2>8, <2>9, <2>10 DEF TypeOK
<1>3. Positions
  BY DEF Positions, Reading
<1>4. Locals
  BY DEF Locals, Reading
<1>5. MapIsOld /\ LoadsAreOld /\ NeverWraps
  BY DEF MapIsOld, LoadsAreOld, NeverWraps, Reading, NoPart
<1>6. CountedOnce /\ CountedInMap
  BY <1>1 DEF CountedOnce, CountedInMap, Fields
<1>7. UndisturbedLoads /\ UndisturbedConsistent
  BY DEF UndisturbedLoads, UndisturbedConsistent, SlotDone, Reading
<1> QED
  BY <1>2, <1>3, <1>4, <1>5, <1>6, <1>7 DEF IInv

\* The callback goes on to an online CPU, or ends.
LEMMA GoOnType == ASSUME TypeOK, NEW c, GoOn(c) PROVE w_cpu' \in Cpus \cup {End} /\ w_todo' \subseteq Fields /\ (w_cpu' = End <=> w_todo' = {})
<1>1. End \notin Cpus
  BY CpuStatShmAssumption DEF Cpus, End
<1>2. online \subseteq Cpus
  BY DEF TypeOK
<1>3. (w_cpu' \in online /\ w_todo' = Fields) \/ (w_cpu' = End /\ w_todo' = {})
  BY DEF GoOn
<1> QED
  BY <1>1, <1>2, <1>3 DEF Fields

\* Steps that touch neither the buffer nor the reader.
LEMMA SetsKeepIInv ==
    ASSUME IInv, online' \subseteq Cpus, w_cpu' \in Cpus \cup {End}, w_todo' \subseteq Fields,
           w_cpu' = End <=> w_todo' = {}, UNCHANGED <<g_cpu_stats, reader, disturbed>>
    PROVE  IInv'
<1> USE DEF reader, locals
<1>1. TypeOK'
  BY DEF IInv, TypeOK
<1>2. (Positions /\ Locals /\ MapIsOld /\ LoadsAreOld /\ NeverWraps)'
  BY DEF IInv, Positions, Locals, MapIsOld, LoadsAreOld, NeverWraps, Reading
<1>3. (CountedOnce /\ CountedInMap /\ UndisturbedLoads /\ UndisturbedConsistent)'
  BY DEF IInv, CountedOnce, CountedInMap, AtHand, UndisturbedLoads, UndisturbedConsistent, SlotDone,
         Consistent, total_delta, busy_delta, Minus, Rounded, Share, WithinRounding, Reading
<1> QED
  BY <1>1, <1>2, <1>3 DEF IInv

\* A counter in the buffer only grows.
LEMMA WriteFieldKeepsIInv == ASSUME IInv, WriteField PROVE IInv'
<1> USE CpuStatShmAssumption
<1>0. PICK f \in w_todo : \E v \in Ticks :
        /\ v >= g_cpu_stats[w_cpu][f]
        /\ g_cpu_stats' = [g_cpu_stats EXCEPT ![w_cpu][f] = v]
        /\ IF w_todo = {f} THEN GoOn(w_cpu + 1) ELSE w_todo' = w_todo \ {f} /\ UNCHANGED w_cpu
        /\ disturbed' = (disturbed \/ (Reading /\ w_cpu = i /\ v # g_cpu_stats[w_cpu][f]))
  BY DEF WriteField
<1>1. PICK v \in Ticks :
        /\ v >= g_cpu_stats[w_cpu][f]
        /\ g_cpu_stats' = [g_cpu_stats EXCEPT ![w_cpu][f] = v]
        /\ IF w_todo = {f} THEN GoOn(w_cpu + 1) ELSE w_todo' = w_todo \ {f} /\ UNCHANGED w_cpu
        /\ disturbed' = (disturbed \/ (Reading /\ w_cpu = i /\ v # g_cpu_stats[w_cpu][f]))
  BY <1>0
<1>2. UNCHANGED <<online, reader>>
  BY DEF WriteField
<1>3. w_cpu \in Cpus /\ f \in Fields /\ w_todo \subseteq Fields
  BY DEF IInv, TypeOK, End
<1>4. g_cpu_stats[w_cpu] \in Counters /\ g_cpu_stats[w_cpu][f] \in 0 .. MaxTicks
  BY <1>3 DEF IInv, TypeOK, Counters
<1>5. v \in 0 .. MaxTicks /\ v >= g_cpu_stats[w_cpu][f]
  BY <1>1, <1>4
<1>6. g_cpu_stats' \in [Cpus -> Counters]
  BY <1>1, <1>3, <1>4, <1>5 DEF IInv, TypeOK, Counters
<1>7. \A c \in Cpus, h \in Fields : /\ g_cpu_stats[c][h] \in Nat /\ g_cpu_stats'[c][h] \in Nat
                                    /\ g_cpu_stats'[c][h] >= g_cpu_stats[c][h]
  BY <1>1, <1>3, <1>4, <1>5, <1>6 DEF IInv, TypeOK, Counters
<1>8. w_cpu' \in Cpus \cup {End} /\ w_todo' \subseteq Fields /\ (w_cpu' = End <=> w_todo' = {})
  <2>1. CASE w_todo = {f}
    BY <1>1, <2>1, GoOnType DEF IInv
  <2>2. CASE w_todo # {f}
    BY <1>1, <1>3, <2>2 DEF IInv, TypeOK, Cpus, End
  <2> QED
    BY <2>1, <2>2
<1> USE <1>2 DEF reader, locals
<1>9. TypeOK'
  BY <1>1, <1>6, <1>8 DEF IInv, TypeOK
<1>10. (Positions /\ Locals /\ NeverWraps)'
  BY DEF IInv, Positions, Locals, NeverWraps, Reading
<1>11. MapIsOld'
  <2> SUFFICES ASSUME NEW c \in Cpus, cpu_stat_map_[c] # NoSample, NEW h \in Fields
               PROVE  cpu_stat_map_[c][h] <= g_cpu_stats'[c][h]
    BY DEF MapIsOld
  <2>1. cpu_stat_map_[c][h] <= g_cpu_stats[c][h] /\ cpu_stat_map_[c][h] \in Nat
    BY DEF IInv, MapIsOld, TypeOK, Counters
  <2> QED
    BY <1>7, <2>1
<1>12. LoadsAreOld'
  <2> SUFFICES ASSUME Reading, NEW h \in Fields, NEW u \in seen[h] PROVE u <= g_cpu_stats'[i][h]
    BY DEF LoadsAreOld, Reading
  <2>1. u <= g_cpu_stats[i][h] /\ u \in Nat /\ i \in Cpus
    BY AtSlot DEF IInv, LoadsAreOld, TypeOK, Reading
  <2> QED
    BY <1>7, <2>1
<1>13. CountedOnce'
  <2> SUFFICES ASSUME NEW c \in Cpus PROVE counted[c] <= g_cpu_stats'[c]["user"]
    BY DEF CountedOnce
  <2>1. counted[c] <= g_cpu_stats[c]["user"] /\ counted[c] \in Int
    BY DEF IInv, CountedOnce, TypeOK
  <2> QED
    BY <1>7, <2>1 DEF Fields
<1>14. CountedInMap' /\ UndisturbedConsistent'
  <2>1. CountedInMap'
    BY DEF IInv, CountedInMap, AtHand
  <2>2. disturbed => disturbed'
    BY <1>1
  <2>3. UndisturbedConsistent'
    BY <2>2 DEF IInv, UndisturbedConsistent, SlotDone, Consistent, total_delta, busy_delta, Share, WithinRounding
  <2> QED
    BY <2>1, <2>3
<1>15. UndisturbedLoads'
  <2> SUFFICES ASSUME ~disturbed', Reading PROVE UndisturbedLoads'
    BY DEF UndisturbedLoads, Reading
  <2>1. ~disturbed /\ (w_cpu = i => v = g_cpu_stats[w_cpu][f])
    BY <1>1
  <2>2. i \in Cpus
    BY AtSlot DEF Reading
  <2>3. g_cpu_stats'[i] = g_cpu_stats[i]
    BY <1>1, <1>3, <1>6, <2>1, <2>2 DEF IInv, TypeOK, Counters
  <2> QED
    BY <2>1, <2>3 DEF IInv, UndisturbedLoads, TotalTime, BusyTime, Reading
<1> QED
  BY <1>9, <1>10, <1>11, <1>12, <1>13, <1>14, <1>15 DEF IInv

\* The timer callback, one field at a time, and hotplug.
LEMMA KernelKeepsIInv == ASSUME IInv, Kernel PROVE IInv'
<1>1. ASSUME TimerFires PROVE IInv'
  <2>1. GoOn(0) /\ UNCHANGED <<online, g_cpu_stats, reader, disturbed>>
    BY <1>1 DEF TimerFires
  <2>2. online' \subseteq Cpus
    BY <2>1 DEF IInv, TypeOK
  <2>3. w_cpu' \in Cpus \cup {End} /\ w_todo' \subseteq Fields /\ (w_cpu' = End <=> w_todo' = {})
    BY <2>1, GoOnType DEF IInv
  <2> QED
    BY <2>1, <2>2, <2>3, SetsKeepIInv
<1>2. ASSUME NEW c \in Cpus, CpuUp(c) \/ CpuDown(c) PROVE IInv'
  <2>1. online' \subseteq Cpus /\ UNCHANGED <<g_cpu_stats, w_cpu, w_todo, reader, disturbed>>
    BY <1>2 DEF CpuUp, CpuDown, IInv, TypeOK
  <2>2. w_cpu' \in Cpus \cup {End} /\ w_todo' \subseteq Fields /\ (w_cpu' = End <=> w_todo' = {})
    BY <2>1 DEF IInv, TypeOK
  <2> QED
    BY <2>1, <2>2, SetsKeepIInv
<1> QED
  BY <1>1, <1>2, WriteFieldKeepsIInv DEF Kernel

\* At most as many CPUs are online as there are.
LEMMA OnlineCount == ASSUME TypeOK PROVE Cardinality(online) \in 0 .. NCpu
<1> USE CpuStatShmAssumption
<1>1. IsFiniteSet(Cpus) /\ Cardinality(Cpus) = NCpu
  BY FS_Interval DEF Cpus
<1>2. IsFiniteSet(online) /\ Cardinality(online) <= NCpu
  BY <1>1, FS_Subset DEF TypeOK
<1> QED
  BY <1>2, FS_CardinalityType

\* Steps that move the reader between slots and load nothing.
LEMMA BetweenSlotsKeepsIInv == ASSUME IInv, Open \/ Find \/ Close PROVE IInv'
<1> USE CpuStatShmAssumption
<1>0. UNCHANGED <<kernel, locals, cpu_stat_map_, counted, disturbed>> /\ todo = {}
  BY DEF Open, Find, Close, IInv, Positions
<1>1. /\ pc' \in {"idle", "slot", "first", "total"}
      /\ stat_count' \in 0 .. NCpu
      /\ i' \in 0 .. NCpu
      /\ todo' \subseteq Fields
  BY OnlineCount DEF Open, Find, Close, IInv, TypeOK
<1>2. seen = Nothing /\ new_total = 0 /\ new_busy = 0 /\ part = NoPart
  BY DEF Open, Find, Close, IInv, Locals, Reading
<1>3. TypeOK'
  <2>1. pc' \in {"idle", "slot", "first", "total", "busy", "parts", "copy"}
    BY <1>1
  <2> QED
    BY <1>0, <1>1, <2>1 DEF kernel, locals, IInv, TypeOK
<1>4. Positions'
  <2>1. CASE Open
    BY <1>0, <2>1, OnlineCount DEF Open, kernel, locals, IInv, TypeOK, Positions, Reading
  <2>2. CASE Find
    <3>1. i \in Cpus /\ (pc' = "total" => cpu_stat_map_[i] \in Counters)
      BY <2>2 DEF Find, IInv, TypeOK, Cpus
    <3> QED
      BY <1>0, <2>2, <3>1 DEF Find, kernel, locals, IInv, TypeOK, Positions, Reading, AnySuffix
  <2>3. CASE Close
    BY <1>0, <2>3 DEF Close, kernel, locals, IInv, TypeOK, Positions, Reading
  <2> QED
    BY <2>1, <2>2, <2>3
<1>5. Locals'
  BY <1>0, <1>1, <1>2 DEF Open, Find, Close, locals, Locals, Reading
<1>6. (MapIsOld /\ CountedOnce)'
  BY <1>0 DEF kernel, locals, IInv, MapIsOld, CountedOnce
<1>7. (LoadsAreOld /\ NeverWraps)'
  BY <1>0, <1>2 DEF locals, LoadsAreOld, NeverWraps, Nothing, NoPart
<1>8. CountedInMap'
  <2>1. ~AtHand /\ ~AtHand'
    BY <1>1 DEF Open, Find, Close, AtHand
  <2> QED
    BY <1>0, <2>1 DEF IInv, CountedInMap
<1>9. UndisturbedLoads' /\ UndisturbedConsistent'
  <2>1. todo' = Fields \/ pc' \in {"idle", "slot"}
    BY DEF Open, Find, Close
  <2> QED
    BY <1>0, <1>1, <1>2, <2>1 DEF locals, UndisturbedLoads, UndisturbedConsistent, SlotDone, Reading, Nothing, Fields
<1> QED
  BY <1>3, <1>4, <1>5, <1>6, <1>7, <1>8, <1>9 DEF IInv

\* What a load may find, and what is then known of the values loaded so far.
LEMMA Loaded ==
    ASSUME IInv, Reading, NEW f \in Fields, NEW v \in Loads(f)
    PROVE  /\ v \in 0 .. MaxTicks
           /\ cpu_stat_map_[i][f] <= v
           /\ v <= g_cpu_stats[i][f]
           /\ ~disturbed => v = g_cpu_stats[i][f]
           /\ Kept(f, v) \in [Fields -> SUBSET (0 .. MaxTicks)]
           /\ \A h \in Fields : \A u \in Kept(f, v)[h] :
                 /\ cpu_stat_map_[i][h] <= u
                 /\ u <= g_cpu_stats[i][h]
                 /\ ~disturbed => u = g_cpu_stats[i][h]
<1> USE CpuStatShmAssumption
<1>1. seen \in [Fields -> SUBSET (0 .. MaxTicks)]
  BY DEF IInv, TypeOK
<1>2. /\ \A h \in Fields : g_cpu_stats[i][h] \in 0 .. MaxTicks /\ cpu_stat_map_[i][h] \in 0 .. MaxTicks
      /\ \A h \in Fields : cpu_stat_map_[i][h] <= g_cpu_stats[i][h]
  BY AtSlot DEF Reading
<1>3. \A h \in Fields : \A u \in seen[h] \cup {g_cpu_stats[i][h]} :
        /\ u \in 0 .. MaxTicks
        /\ cpu_stat_map_[i][h] <= u
        /\ u <= g_cpu_stats[i][h]
        /\ ~disturbed => u = g_cpu_stats[i][h]
  <2> TAKE h \in Fields
  <2> TAKE u \in seen[h] \cup {g_cpu_stats[i][h]}
  <2>1. CASE u \in seen[h]
    BY <1>1, <2>1 DEF IInv, NeverWraps, LoadsAreOld, UndisturbedLoads
  <2>2. CASE u = g_cpu_stats[i][h]
    BY <1>2, <2>2
  <2> QED
    BY <2>1, <2>2
<1>4. v \in seen[f] \cup {g_cpu_stats[i][f]}
  BY DEF Loads
<1>5. \A h \in Fields : Kept(f, v)[h] \subseteq seen[h] \cup {g_cpu_stats[i][h]}
  BY <1>1, <1>4 DEF Kept
<1>6. Kept(f, v) \in [Fields -> SUBSET (0 .. MaxTicks)]
  BY <1>1, <1>3, <1>4 DEF Kept
<1> QED
  BY <1>3, <1>4, <1>5, <1>6

\* What every load leaves as it was.
LEMMA LoadFrame ==
    ASSUME IInv, Reading, NEW f \in Fields, NEW v \in Loads(f), seen' = Kept(f, v) \/ seen' = Nothing,
           UNCHANGED <<kernel, stat_count, i, cpu_stat_map_, disturbed>>
    PROVE  /\ seen' \in [Fields -> SUBSET (0 .. MaxTicks)]
           /\ MapIsOld' /\ LoadsAreOld'
           /\ \A h \in Fields : \A u \in seen'[h] : u >= cpu_stat_map_[i][h]
           /\ ~disturbed => \A h \in Fields : \A u \in seen'[h] : u = g_cpu_stats[i][h]
<1>1. MapIsOld'
  BY DEF kernel, IInv, MapIsOld
<1>2. i \in Cpus /\ \A h \in Fields : cpu_stat_map_[i][h] \in Nat /\ g_cpu_stats[i][h] \in Nat
  BY AtSlot, CpuStatShmAssumption DEF Reading
<1>3. CASE seen' = Kept(f, v)
  <2>1. /\ seen' \in [Fields -> SUBSET (0 .. MaxTicks)]
        /\ \A h \in Fields : \A u \in seen'[h] :
             /\ cpu_stat_map_[i][h] <= u
             /\ u <= g_cpu_stats[i][h]
             /\ ~disturbed => u = g_cpu_stats[i][h]
    BY <1>3, Loaded
  <2>2. LoadsAreOld'
    BY <2>1 DEF kernel, LoadsAreOld
  <2>3. ASSUME NEW h \in Fields, NEW u \in seen'[h] PROVE u >= cpu_stat_map_[i][h]
    BY <1>2, <2>1, CpuStatShmAssumption
  <2> QED
    BY <1>1, <2>1, <2>2, <2>3
<1>4. CASE seen' = Nothing
  BY <1>1, <1>4 DEF Nothing, LoadsAreOld
<1> QED
  BY <1>3, <1>4

\* The loads for the total: no more than their number of MaxTicks, and exact
\* in a slot that has not changed.
LEMMA LoadTotalKeepsIInv == ASSUME IInv, LoadTotal PROVE IInv'
<1> USE CpuStatShmAssumption
<1>0. PICK f \in Fields : \E v \in Loads(f) :
        Current(f) /\ seen' = Kept(f, v) /\ new_total' = new_total + v /\ Then(f, "busy", BusyFields)
  BY DEF LoadTotal
<1>1. PICK v \in Loads(f) : seen' = Kept(f, v) /\ new_total' = new_total + v
  BY <1>0
<1>2. Current(f) /\ Then(f, "busy", BusyFields)
  BY <1>0
<1>3. /\ pc = "total" /\ Reading
      /\ UNCHANGED <<kernel, stat_count, i, new_busy, part, cpu_stat_map_, counted, disturbed>>
  BY DEF LoadTotal, Reading
<1>4. \/ todo = Fields /\ f = "user" /\ todo' = {"steal", "idle"} /\ pc' = "total"
      \/ todo = {"steal", "idle"} /\ f = "steal" /\ todo' = {"idle"} /\ pc' = "total"
      \/ todo = {"idle"} /\ f = "idle" /\ todo' = BusyFields /\ pc' = "busy"
  <2>1. todo \in AnySuffix
    BY <1>3 DEF IInv, Positions
  <2> QED
    BY <1>2, <1>3, <2>1, CurrentField DEF AnySuffix, Then, Fields
<1>5. /\ v \in 0 .. MaxTicks
      /\ ~disturbed => v = g_cpu_stats[i][f]
  BY <1>3, Loaded
<1>6. /\ seen' \in [Fields -> SUBSET (0 .. MaxTicks)]
      /\ MapIsOld' /\ LoadsAreOld'
      /\ \A h \in Fields : \A u \in seen'[h] : u >= cpu_stat_map_[i][h]
      /\ ~disturbed => \A h \in Fields : \A u \in seen'[h] : u = g_cpu_stats[i][h]
  BY <1>1, <1>3, LoadFrame
<1>7. new_total \in 0 .. 3 * MaxTicks /\ new_total <= (IF todo = Fields THEN 0 ELSE IF todo = {"idle"} THEN 2 ELSE 1) * MaxTicks
  BY <1>3 DEF IInv, TypeOK, Locals
<1>8. new_busy = 0 /\ part = NoPart
  BY <1>3 DEF IInv, Locals
<1>9. TypeOK'
  <2>1. new_total' \in 0 .. 3 * MaxTicks
    BY <1>1, <1>4, <1>5, <1>7 DEF Fields
  <2>2. todo' \subseteq Fields /\ pc' \in {"total", "busy"}
    BY <1>4 DEF Fields, BusyFields
  <2> QED
    BY <1>3, <1>6, <2>1, <2>2 DEF kernel, IInv, TypeOK
<1>10. Positions'
  BY <1>3, <1>4 DEF IInv, Positions, Reading, AnySuffix
<1>11. Locals'
  <2>1. pc' = "total" => new_total' <= (IF todo' = Fields THEN 0 ELSE IF todo' = {"idle"} THEN 2 ELSE 1) * MaxTicks
    BY <1>1, <1>4, <1>5, <1>7 DEF Fields, BusyFields
  <2> QED
    BY <1>3, <1>4, <1>8, <2>1 DEF Locals, Reading
<1>12. NeverWraps' /\ CountedOnce' /\ CountedInMap'
  <2>1. ~AtHand /\ ~AtHand'
    BY <1>3, <1>4 DEF AtHand
  <2> QED
    BY <1>3, <1>6, <2>1 DEF kernel, IInv, NeverWraps, CountedOnce, CountedInMap
<1>13. UndisturbedLoads'
  <2> SUFFICES ASSUME ~disturbed PROVE UndisturbedLoads'
    BY <1>3 DEF UndisturbedLoads
  <2>1. new_total = (IF "user" \in todo THEN 0 ELSE g_cpu_stats[i]["user"])
                  + (IF "steal" \in todo THEN 0 ELSE g_cpu_stats[i]["steal"])
    BY <1>3 DEF IInv, UndisturbedLoads
  <2>2. \A h \in Fields : g_cpu_stats[i][h] \in Nat
    BY <1>3, AtSlot
  <2>3. new_total' = new_total + g_cpu_stats[i][f]
    BY <1>1, <1>5
  <2>4. pc' = "total" => new_total' = (IF "user" \in todo' THEN 0 ELSE g_cpu_stats[i]["user"])
                                    + (IF "steal" \in todo' THEN 0 ELSE g_cpu_stats[i]["steal"])
    BY <1>4, <2>1, <2>2, <2>3 DEF Fields
  <2>5. pc' # "total" => new_total' = TotalTime(g_cpu_stats[i]) /\ new_busy = 0 /\ todo' = BusyFields /\ pc' = "busy"
    BY <1>4, <1>8, <2>1, <2>2, <2>3 DEF Fields, TotalTime
  <2> QED
    BY <1>3, <1>4, <1>6, <2>4, <2>5 DEF kernel, UndisturbedLoads, BusyFields
<1>14. UndisturbedConsistent'
  BY <1>4 DEF UndisturbedConsistent, SlotDone
<1> QED
  BY <1>6, <1>9, <1>10, <1>11, <1>12, <1>13, <1>14 DEF IInv

\* The loads for the busy time, and the test of total_delta.
LEMMA LoadBusyKeepsIInv == ASSUME IInv, LoadBusy PROVE IInv'
<1> USE CpuStatShmAssumption
<1>0. PICK f \in BusyFields : \E v \in Loads(f) :
        /\ Current(f)
        /\ seen' = IF todo = {f} /\ total_delta <= 0 THEN Nothing ELSE Kept(f, v)
        /\ new_busy' = new_busy + v
        /\ IF total_delta > 0 THEN Then(f, "parts", PartFields) ELSE Then(f, "copy", Fields)
  BY DEF LoadBusy
<1>1. PICK v \in Loads(f) :
        /\ Current(f)
        /\ seen' = IF todo = {f} /\ total_delta <= 0 THEN Nothing ELSE Kept(f, v)
        /\ new_busy' = new_busy + v
        /\ IF total_delta > 0 THEN Then(f, "parts", PartFields) ELSE Then(f, "copy", Fields)
  BY <1>0
<1>2. f \in Fields /\ BusyFields \subseteq Fields
  BY DEF Fields, BusyFields
<1>3. /\ pc = "busy" /\ Reading
      /\ UNCHANGED <<kernel, stat_count, i, new_total, part, cpu_stat_map_, counted, disturbed>>
  BY DEF LoadBusy, Reading
<1>5. v \in 0 .. MaxTicks /\ (~disturbed => v = g_cpu_stats[i][f])
  BY <1>2, <1>3, Loaded
<1>a. total_delta \in Int
  <2>1. new_total \in 0 .. MaxSum /\ TotalTime(cpu_stat_map_[i]) \in 0 .. MaxSum
    BY <1>3, AtSlot DEF TotalTime, MaxSum, Fields, IInv, TypeOK
  <2> QED
    BY <2>1, MinusInt DEF total_delta
<1>4. \/ todo = BusyFields /\ f = "user" /\ todo' = {"steal"} /\ pc' = "busy" /\ seen' = Kept(f, v)
      \/ todo = {"steal"} /\ f = "steal" /\ todo' = PartFields /\ pc' = "parts" /\ seen' = Kept(f, v)
      \/ todo = {"steal"} /\ f = "steal" /\ todo' = Fields /\ pc' = "copy" /\ seen' = Nothing /\ ~(total_delta > 0)
  <2>1. todo \in {BusyFields, {"steal"}}
    BY <1>3 DEF IInv, Positions
  <2>2. f = IF todo = BusyFields THEN "user" ELSE "steal"
    BY <1>1, <2>1, CurrentField DEF BusyFields
  <2>3. BusyFields # {"user"} /\ BusyFields # {"steal"} /\ BusyFields \ {"user"} = {"steal"}
    BY DEF BusyFields
  <2>4. CASE total_delta > 0
    BY <1>1, <1>3, <1>a, <2>1, <2>2, <2>3, <2>4 DEF Then
  <2>5. CASE ~(total_delta > 0)
    <3>1. total_delta <= 0
      BY <1>a, <2>5
    <3> QED
      BY <1>1, <1>3, <2>1, <2>2, <2>3, <2>5, <3>1 DEF Then
  <2> QED
    BY <2>4, <2>5
<1>6. /\ seen' \in [Fields -> SUBSET (0 .. MaxTicks)]
      /\ MapIsOld' /\ LoadsAreOld'
      /\ \A h \in Fields : \A u \in seen'[h] : u >= cpu_stat_map_[i][h]
      /\ ~disturbed => \A h \in Fields : \A u \in seen'[h] : u = g_cpu_stats[i][h]
  <2>1. seen' = Kept(f, v) \/ seen' = Nothing
    BY <1>4
  <2> QED
    BY <1>2, <1>3, <2>1, LoadFrame
<1>7. new_busy \in 0 .. 2 * MaxTicks /\ new_busy <= (IF todo = BusyFields THEN 0 ELSE 1) * MaxTicks
  BY <1>3 DEF IInv, TypeOK, Locals
<1>8. part = NoPart
  BY <1>3 DEF IInv, Locals
<1>9. TypeOK'
  <2>1. new_busy' \in 0 .. 2 * MaxTicks
    BY <1>1, <1>4, <1>5, <1>7 DEF BusyFields
  <2>2. todo' \subseteq Fields /\ pc' \in {"busy", "parts", "copy"}
    BY <1>4 DEF Fields, PartFields
  <2> QED
    BY <1>3, <1>6, <2>1, <2>2 DEF kernel, IInv, TypeOK
<1>10. Positions'
  BY <1>3, <1>4 DEF IInv, Positions, Reading, AnySuffix
<1>11. Locals'
  <2>1. pc' = "busy" => new_busy' <= (IF todo' = BusyFields THEN 0 ELSE 1) * MaxTicks
    <3> SUFFICES ASSUME pc' = "busy" PROVE new_busy' <= (IF todo' = BusyFields THEN 0 ELSE 1) * MaxTicks
      OBVIOUS
    <3>1. todo = BusyFields /\ todo' = {"steal"} /\ todo' # BusyFields
      BY <1>4 DEF BusyFields, PartFields
    <3>2. new_busy \in Nat /\ new_busy <= 0
      BY <1>7, <3>1
    <3> QED
      BY <1>1, <1>5, <3>1, <3>2
  <2> QED
    BY <1>3, <1>4, <1>8, <2>1 DEF Locals, Reading
<1>12. NeverWraps' /\ CountedOnce' /\ CountedInMap'
  <2>1. ~AtHand
    BY <1>3 DEF AtHand
  <2> QED
    BY <1>3, <1>6, <2>1 DEF kernel, IInv, NeverWraps, CountedOnce, CountedInMap
<1>13. UndisturbedLoads'
  <2> SUFFICES ASSUME ~disturbed, pc' # "copy" PROVE UndisturbedLoads'
    BY <1>3, <1>4 DEF UndisturbedLoads, Reading
  <2>1. new_busy = (IF "user" \in todo THEN 0 ELSE g_cpu_stats[i]["user"]) /\ new_total = TotalTime(g_cpu_stats[i])
    BY <1>3 DEF IInv, UndisturbedLoads
  <2>2. \A h \in Fields : g_cpu_stats[i][h] \in Nat
    BY <1>3, AtSlot
  <2>3. new_busy' = new_busy + g_cpu_stats[i][f]
    BY <1>1, <1>5
  <2>4. pc' = "busy" => new_busy' = (IF "user" \in todo' THEN 0 ELSE g_cpu_stats[i]["user"])
    BY <1>4, <2>1, <2>2, <2>3 DEF Fields, BusyFields
  <2>5. pc' = "parts" => new_busy' = BusyTime(g_cpu_stats[i]) /\ todo' = PartFields
    BY <1>4, <2>1, <2>2, <2>3 DEF Fields, BusyTime, BusyFields
  <2> QED
    BY <1>3, <1>4, <1>6, <2>1, <2>4, <2>5 DEF kernel, UndisturbedLoads, PartFields
<1>14. UndisturbedConsistent'
  BY <1>3, <1>4 DEF UndisturbedConsistent, SlotDone, total_delta
<1> QED
  BY <1>6, <1>9, <1>10, <1>11, <1>12, <1>13, <1>14 DEF IInv

\* The loads for the percentages: here ticks are reported, up to a value that
\* the page has reached and the map has not.
LEMMA LoadPartKeepsIInv == ASSUME IInv, LoadPart PROVE IInv'
<1> USE CpuStatShmAssumption
<1>0. PICK f \in PartFields : \E v \in Loads(f) :
        /\ Current(f)
        /\ seen' = IF todo = {f} THEN Nothing ELSE Kept(f, v)
        /\ part' = [part EXCEPT ![f] = v - cpu_stat_map_[i][f]]
        /\ counted' = IF f = "user" THEN [counted EXCEPT ![i] = @ + v - cpu_stat_map_[i][f]] ELSE counted
        /\ Then(f, "copy", Fields)
  BY DEF LoadPart
<1>1. PICK v \in Loads(f) :
        /\ Current(f)
        /\ seen' = IF todo = {f} THEN Nothing ELSE Kept(f, v)
        /\ part' = [part EXCEPT ![f] = v - cpu_stat_map_[i][f]]
        /\ counted' = IF f = "user" THEN [counted EXCEPT ![i] = @ + v - cpu_stat_map_[i][f]] ELSE counted
        /\ Then(f, "copy", Fields)
  BY <1>0
<1>2. f \in Fields /\ PartFields \subseteq Fields
  BY DEF Fields, PartFields
<1>3. /\ pc = "parts" /\ Reading
      /\ UNCHANGED <<kernel, stat_count, i, new_total, new_busy, cpu_stat_map_, disturbed>>
  BY DEF LoadPart, Reading
<1>4. \/ todo = PartFields /\ f = "user" /\ todo' = {"idle"} /\ pc' = "parts" /\ seen' = Kept(f, v)
      \/ todo = {"idle"} /\ f = "idle" /\ todo' = Fields /\ pc' = "copy" /\ seen' = Nothing
  <2>1. todo \in {PartFields, {"idle"}}
    BY <1>3 DEF IInv, Positions
  <2>2. f = IF todo = PartFields THEN "user" ELSE "idle"
    BY <1>1, <2>1, CurrentField DEF PartFields
  <2>3. PartFields # {"user"} /\ PartFields # {"idle"} /\ PartFields \ {"user"} = {"idle"}
    BY DEF PartFields
  <2> QED
    BY <1>1, <1>3, <2>1, <2>2, <2>3 DEF Then
<1>5. v \in 0 .. MaxTicks /\ cpu_stat_map_[i][f] <= v /\ v <= g_cpu_stats[i][f] /\ (~disturbed => v = g_cpu_stats[i][f])
  BY <1>2, <1>3, Loaded
<1>6. /\ seen' \in [Fields -> SUBSET (0 .. MaxTicks)]
      /\ MapIsOld' /\ LoadsAreOld'
      /\ \A h \in Fields : \A u \in seen'[h] : u >= cpu_stat_map_[i][h]
      /\ ~disturbed => \A h \in Fields : \A u \in seen'[h] : u = g_cpu_stats[i][h]
  <2>1. seen' = Kept(f, v) \/ seen' = Nothing
    BY <1>4
  <2> QED
    BY <1>2, <1>3, <2>1, LoadFrame
<1>7. i \in Cpus /\ \A h \in Fields : cpu_stat_map_[i][h] \in 0 .. MaxTicks /\ g_cpu_stats[i][h] \in 0 .. MaxTicks
  BY <1>3, AtSlot
<1>8. /\ part' \in [PartFields -> -MaxTicks .. MaxTicks]
      /\ part'[f] = v - cpu_stat_map_[i][f]
      /\ \A h \in PartFields : h # f => part'[h] = part[h]
  <2>1. v - cpu_stat_map_[i][f] \in -MaxTicks .. MaxTicks
    BY <1>2, <1>5, <1>7
  <2>2. part \in [PartFields -> -MaxTicks .. MaxTicks]
    BY DEF IInv, TypeOK
  <2> QED
    BY <1>1, <2>1, <2>2
<1>9. counted' \in [Cpus -> Int] /\ CountedOnce' /\ CountedInMap'
  <2>1. CASE f = "user"
    <3>1. counted \in [Cpus -> Int] /\ cpu_stat_map_[i] # NoSample
      BY <1>3, AtSlot DEF IInv, TypeOK
    <3>2. counted[i] <= cpu_stat_map_[i]["user"]
      BY <1>3, <1>4, <1>7, <2>1, <3>1 DEF IInv, CountedInMap, AtHand
    <3>3. counted' = [counted EXCEPT ![i] = counted[i] + v - cpu_stat_map_[i]["user"]]
      BY <1>1, <2>1
    <3>4. counted' \in [Cpus -> Int]
      BY <1>2, <1>5, <1>7, <2>1, <3>1, <3>3
    <3>5. counted'[i] <= g_cpu_stats[i]["user"]
      BY <1>2, <1>5, <1>7, <2>1, <3>1, <3>2, <3>3
    <3>6. \A c \in Cpus : c # i => counted'[c] = counted[c]
      BY <3>1, <3>3
    <3>7. CountedOnce'
      BY <1>3, <3>5, <3>6 DEF kernel, IInv, CountedOnce
    <3>8. CountedInMap'
      <4>1. AtHand'
        BY <1>4, <2>1 DEF AtHand, PartFields
      <4> QED
        BY <1>3, <3>6, <4>1 DEF IInv, CountedInMap
    <3> QED
      BY <3>4, <3>7, <3>8
  <2>2. CASE f # "user"
    <3>1. counted' = counted /\ AtHand /\ AtHand'
      BY <1>1, <1>3, <1>4, <2>2 DEF AtHand, PartFields
    <3> QED
      BY <1>3, <3>1 DEF kernel, IInv, TypeOK, CountedOnce, CountedInMap
  <2> QED
    BY <2>1, <2>2
<1>10. TypeOK'
  <2>1. todo' \subseteq Fields /\ pc' \in {"parts", "copy"}
    BY <1>4 DEF Fields
  <2> QED
    BY <1>3, <1>6, <1>8, <1>9, <2>1 DEF kernel, IInv, TypeOK
<1>11. Positions'
  BY <1>3, <1>4 DEF IInv, Positions, Reading, AnySuffix
<1>12. Locals'
  BY <1>4 DEF Locals, Reading
<1>13. NeverWraps'
  <2>1. \A h \in PartFields : part'[h] >= 0
    <3>1. v - cpu_stat_map_[i][f] >= 0
      BY <1>2, <1>5, <1>7
    <3> QED
      BY <1>8, <3>1 DEF IInv, NeverWraps
  <2> QED
    BY <1>3, <1>6, <2>1 DEF NeverWraps
<1>14. UndisturbedLoads'
  <2> SUFFICES ASSUME ~disturbed, f = "user" PROVE UndisturbedLoads'
    BY <1>3, <1>4 DEF UndisturbedLoads, Reading
  <2>1. new_busy = BusyTime(g_cpu_stats[i]) /\ new_total = TotalTime(g_cpu_stats[i])
    BY <1>3 DEF IInv, UndisturbedLoads
  <2>2. part'["user"] = g_cpu_stats[i]["user"] - cpu_stat_map_[i]["user"]
    BY <1>5, <1>8
  <2> QED
    BY <1>3, <1>4, <1>6, <2>1, <2>2 DEF kernel, UndisturbedLoads
<1>15. UndisturbedConsistent'
  <2> SUFFICES ASSUME ~disturbed, f = "idle" PROVE Consistent'
    BY <1>3, <1>4 DEF UndisturbedConsistent, SlotDone
  <2>1. /\ new_busy = BusyTime(g_cpu_stats[i]) /\ new_total = TotalTime(g_cpu_stats[i])
        /\ part["user"] = g_cpu_stats[i]["user"] - cpu_stat_map_[i]["user"]
    BY <1>3, <1>4 DEF IInv, UndisturbedLoads
  <2>2. \A h \in PartFields : part'[h] = g_cpu_stats[i][h] - cpu_stat_map_[i][h]
    BY <1>5, <1>8, <2>1 DEF PartFields
  <2>3. cpu_stat_map_[i] \in Counters /\ g_cpu_stats[i] \in Counters /\ \A h \in Fields : cpu_stat_map_[i][h] <= g_cpu_stats[i][h]
    BY <1>3, AtSlot
  <2>4. \A h \in PartFields : Rounded(part'[h]) = Rounded(g_cpu_stats[i][h] - cpu_stat_map_[i][h])
    BY <2>2
  <2>5. "idle" \in PartFields
    BY DEF PartFields
  <2>6. UNCHANGED <<new_total, new_busy, i, cpu_stat_map_>>
    BY <1>3
  <2> QED
    BY <2>1, <2>3, <2>4, <2>5, <2>6, RoundedReport DEF Consistent, WithinRounding, Share, total_delta, busy_delta
<1> QED
  BY <1>6, <1>9, <1>10, <1>11, <1>12, <1>13, <1>14, <1>15 DEF IInv

\* The second reading: the map catches up with all that was reported.
LEMMA CopySlotKeepsIInv == ASSUME IInv, CopySlot PROVE IInv'
<1> USE CpuStatShmAssumption
<1>0. PICK f \in Fields : CopyField(f) /\ Copy(f)
  BY DEF CopySlot, Copy
<1>1. PICK v \in Loads(f) :
        /\ cpu_stat_map_' = [cpu_stat_map_ EXCEPT ![i] = [Entry EXCEPT ![f] = v]]
        /\ counted' = IF pc = "first" /\ f = "user" THEN [counted EXCEPT ![i] = v] ELSE counted
  BY <1>0 DEF CopyField
<1>2. /\ pc \in {"first", "copy"} /\ ~Reading
      /\ UNCHANGED <<kernel, stat_count>>
  BY <1>0 DEF CopySlot, Copy, Reading
<1>3. seen = Nothing /\ i \in Cpus /\ i < stat_count /\ g_cpu_stats[i] \in Counters
  BY <1>2, AtSlot DEF IInv, Locals, Positions
<1>4. v = g_cpu_stats[i][f] /\ \A h \in Fields : g_cpu_stats[i][h] \in 0 .. MaxTicks
  BY <1>3, AtSlot, <1>2 DEF Loads, Nothing
<1>5. /\ Entry \in Counters
      /\ \A h \in Fields : Entry[h] \in 0 .. MaxTicks /\ Entry[h] <= g_cpu_stats[i][h]
  <2>1. CASE cpu_stat_map_[i] = NoSample
    BY <1>4, <2>1 DEF Entry, Zero, Counters
  <2>2. CASE cpu_stat_map_[i] # NoSample
    <3>1. cpu_stat_map_[i] \in Counters
      BY <1>3, <2>2 DEF IInv, TypeOK
    <3> QED
      BY <1>3, <2>2, <3>1 DEF Entry, Counters, IInv, MapIsOld
  <2> QED
    BY <2>1, <2>2
<1>6. /\ cpu_stat_map_' \in [Cpus -> Counters \cup {NoSample}]
      /\ cpu_stat_map_'[i] \in Counters
      /\ \A h \in Fields : cpu_stat_map_'[i][h] = IF h = f THEN v ELSE Entry[h]
      /\ \A c \in Cpus : c # i => cpu_stat_map_'[c] = cpu_stat_map_[c]
  <2>1. [Entry EXCEPT ![f] = v] \in Counters
    BY <1>4, <1>5 DEF Counters
  <2>2. \A h \in Fields : [Entry EXCEPT ![f] = v][h] = IF h = f THEN v ELSE Entry[h]
    BY <1>5 DEF Counters
  <2>3. cpu_stat_map_ \in [Cpus -> Counters \cup {NoSample}]
    BY DEF IInv, TypeOK
  <2> HIDE DEF Entry, Counters
  <2> QED
    BY <1>1, <1>3, <2>1, <2>2, <2>3
<1>7. \/ /\ todo = Fields /\ f = "user" /\ todo' = {"steal", "idle"}
         /\ UNCHANGED <<pc, i, locals, disturbed>>
      \/ /\ todo = {"steal", "idle"} /\ f = "steal" /\ todo' = {"idle"}
         /\ UNCHANGED <<pc, i, locals, disturbed>>
      \/ /\ todo = {"idle"} /\ f = "idle"
         /\ EndOfSlot
  <2>1. todo \in AnySuffix
    BY <1>2 DEF IInv, Positions
  <2>2. Current(f) /\ IF todo = {f} THEN EndOfSlot ELSE todo' = todo \ {f} /\ UNCHANGED <<pc, i, locals, disturbed>>
    BY <1>0 DEF Copy, CopyField
  <2>3. /\ todo = Fields => f = "user"
        /\ todo = {"steal", "idle"} => f = "steal"
        /\ todo = {"idle"} => f = "idle"
    BY <2>2, CurrentField
  <2> QED
    BY <2>1, <2>2, <2>3 DEF AnySuffix, Fields
<1>8. /\ (pc' = pc /\ i' = i /\ todo' \in {{"steal", "idle"}, {"idle"}}) \/ (pc' = "slot" /\ i' = i + 1 /\ todo' = {})
      /\ seen' = Nothing /\ (part' = part \/ part' = NoPart)
      /\ (new_total' = new_total /\ new_busy' = new_busy) \/ (new_total' = 0 /\ new_busy' = 0)
      /\ disturbed' \in BOOLEAN
  BY <1>3, <1>7 DEF EndOfSlot, locals, IInv, TypeOK
<1>9. counted' \in [Cpus -> Int] /\ CountedOnce' /\ CountedInMap'
  <2>1. counted \in [Cpus -> Int] /\ counted[i] <= g_cpu_stats[i]["user"]
    BY <1>3 DEF IInv, TypeOK, CountedOnce
  <2>2. counted' \in [Cpus -> Int] /\ \A c \in Cpus : c # i => counted'[c] = counted[c]
    <3>1. v \in Int
      BY <1>4
    <3>2. CASE pc = "first" /\ f = "user"
      <4>1. counted' = [counted EXCEPT ![i] = v]
        BY <1>1, <3>2
      <4> QED
        BY <2>1, <3>1, <4>1
    <3>3. CASE ~(pc = "first" /\ f = "user")
      BY <1>1, <2>1, <3>3
    <3> QED
      BY <3>2, <3>3
  <2>3. counted'[i] <= g_cpu_stats[i]["user"] /\ counted'[i] <= cpu_stat_map_'[i]["user"]
    <3>1. CASE f = "user"
      BY <1>1, <1>3, <1>4, <1>6, <2>1, <3>1
    <3>2. CASE f # "user"
      <4>1. cpu_stat_map_[i] \in Counters /\ cpu_stat_map_[i] # NoSample
        BY <1>2, <1>7, <3>2 DEF IInv, Positions, Fields
      <4>2. ~AtHand
        BY <1>2, <1>7, <3>2 DEF AtHand, Fields
      <4>3. counted[i] <= cpu_stat_map_[i]["user"]
        BY <1>3, <4>1, <4>2 DEF IInv, CountedInMap
      <4>4. counted' = counted /\ cpu_stat_map_'[i]["user"] = cpu_stat_map_[i]["user"]
        BY <1>1, <1>6, <3>2, <4>1 DEF Entry, Fields
      <4> QED
        BY <2>1, <4>3, <4>4
    <3> QED
      BY <3>1, <3>2
  <2>4. CountedOnce'
    BY <1>2, <2>2, <2>3 DEF kernel, IInv, CountedOnce
  <2>5. CountedInMap'
    <3> SUFFICES ASSUME NEW c \in Cpus, cpu_stat_map_'[c] # NoSample PROVE counted'[c] <= cpu_stat_map_'[c]["user"]
      BY DEF CountedInMap
    <3> QED
      BY <1>6, <2>2, <2>3 DEF IInv, CountedInMap
  <2> QED
    BY <2>2, <2>4, <2>5
<1>10. TypeOK'
  <2>1. i' \in 0 .. NCpu /\ todo' \subseteq Fields /\ pc' \in {"slot", "first", "copy"}
    BY <1>2, <1>3, <1>8 DEF Cpus, Fields
  <2>2. seen' \in [Fields -> SUBSET (0 .. MaxTicks)]
    BY <1>8 DEF Nothing
  <2>3. part' \in [PartFields -> -MaxTicks .. MaxTicks]
    <3>1. NoPart \in [PartFields -> -MaxTicks .. MaxTicks]
      BY DEF NoPart
    <3> QED
      BY <1>8, <3>1 DEF IInv, TypeOK
  <2>4. new_total' \in 0 .. 3 * MaxTicks /\ new_busy' \in 0 .. 2 * MaxTicks
    BY <1>8 DEF IInv, TypeOK
  <2> QED
    BY <1>2, <1>6, <1>8, <1>9, <2>1, <2>2, <2>3, <2>4 DEF kernel, IInv, TypeOK
<1>11. Positions'
  BY <1>2, <1>3, <1>6, <1>8 DEF IInv, TypeOK, Positions, Reading, AnySuffix, Cpus
<1>12. Locals'
  BY <1>2, <1>7, <1>8 DEF EndOfSlot, locals, IInv, Locals, Reading
<1>13. MapIsOld'
  <2> SUFFICES ASSUME NEW c \in Cpus, cpu_stat_map_'[c] # NoSample, NEW h \in Fields
               PROVE  cpu_stat_map_'[c][h] <= g_cpu_stats[c][h]
    BY <1>2 DEF kernel, MapIsOld
  <2>1. CASE c = i
    BY <1>4, <1>5, <1>6, <2>1
  <2>2. CASE c # i
    BY <1>6, <2>2 DEF IInv, MapIsOld
  <2> QED
    BY <2>1, <2>2
<1>14. LoadsAreOld' /\ NeverWraps' /\ UndisturbedLoads'
  <2>1. ~Reading'
    BY <1>2, <1>8 DEF Reading
  <2>2. \A h \in PartFields : part'[h] >= 0
    BY <1>8 DEF IInv, NeverWraps, NoPart
  <2> QED
    BY <2>1, <2>2 DEF LoadsAreOld, NeverWraps, UndisturbedLoads
<1>15. UndisturbedConsistent'
  BY <1>8 DEF UndisturbedConsistent, SlotDone, Fields
<1> QED
  BY <1>9, <1>10, <1>11, <1>12, <1>13, <1>14, <1>15 DEF IInv

\* The kernel module outlives the agent.
LEMMA RestartKeepsIInv == ASSUME IInv, Restart PROVE IInv'
<1> USE CpuStatShmAssumption DEF Restart
<1>1. counted' \in [Cpus -> Int] /\ \A c \in Cpus : counted'[c] = 0
  OBVIOUS
<1>2. /\ seen' \in [Fields -> SUBSET (0 .. MaxTicks)] /\ part' \in [PartFields -> -MaxTicks .. MaxTicks]
      /\ stat_count' \in 0 .. NCpu /\ new_total' \in 0 .. 3 * MaxTicks /\ new_busy' \in 0 .. 2 * MaxTicks
  BY DEF Nothing, NoPart
<1>3. cpu_stat_map_' \in [Cpus -> Counters \cup {NoSample}] /\ \A c \in Cpus : cpu_stat_map_'[c] = NoSample
  OBVIOUS
<1>4. TypeOK'
  <2>1. UNCHANGED kernel /\ pc' = "idle" /\ i' \in 0 .. NCpu /\ todo' \subseteq Fields
    OBVIOUS
  <2>2. disturbed' \in BOOLEAN
    OBVIOUS
  <2> HIDE DEF Restart
  <2> QED
    BY <1>1, <1>2, <1>3, <2>1, <2>2 DEF kernel, IInv, TypeOK
<1>5. (Positions /\ Locals /\ MapIsOld /\ LoadsAreOld /\ NeverWraps)'
  BY <1>3 DEF Positions, Locals, MapIsOld, LoadsAreOld, NeverWraps, Reading, NoPart
<1>6. (CountedOnce /\ CountedInMap)'
  BY <1>1, <1>3 DEF kernel, IInv, TypeOK, Counters, Fields, CountedOnce, CountedInMap
<1>7. (UndisturbedLoads /\ UndisturbedConsistent)'
  BY DEF UndisturbedLoads, UndisturbedConsistent, SlotDone, Reading
<1> QED
  BY <1>4, <1>5, <1>6, <1>7 DEF IInv

\* Every step preserves the invariant.
LEMMA NextIInv == IInv /\ [Next]_vars => IInv'
<1> SUFFICES ASSUME IInv, [Next]_vars PROVE IInv'
  OBVIOUS
<1>1. CASE Kernel
  BY <1>1, KernelKeepsIInv
<1>2. CASE UpdateOnce
  BY <1>2, BetweenSlotsKeepsIInv, LoadTotalKeepsIInv, LoadBusyKeepsIInv, LoadPartKeepsIInv, CopySlotKeepsIInv DEF UpdateOnce
<1>3. CASE Restart
  BY <1>3, RestartKeepsIInv
<1>4. CASE UNCHANGED vars
  <2>1. /\ online' \subseteq Cpus /\ w_cpu' \in Cpus \cup {End} /\ w_todo' \subseteq Fields
        /\ w_cpu' = End <=> w_todo' = {}
        /\ UNCHANGED <<g_cpu_stats, reader, disturbed>>
    BY <1>4 DEF vars, kernel, IInv, TypeOK
  <2> QED
    BY <2>1, SetsKeepIInv
<1> QED
  BY <1>1, <1>2, <1>3, <1>4 DEF Next

------------------------------------------------------------------------------
(* The theorems.                                                           *)

\* Every reachable state of the buffer and its reader satisfies the invariant
\* whose parts CpuStatShm explains.
THEOREM Invariance == Spec => []IInv
BY InitIInv, NextIInv, PTL DEF Spec

\* The variables keep their types, so no slot beyond the machine's CPUs is read
\* or written.
THEOREM TypeCorrect == Spec => []TypeOK
<1>1. IInv => TypeOK
  BY DEF IInv
<1> QED
  BY <1>1, Invariance, PTL

\* No difference of unsigned counters wraps, whatever the callback and hotplug
\* do between the loads of UpdateOnce.
THEOREM DifferencesNeverWrap == Spec => []NeverWraps
<1>1. IInv => NeverWraps
  BY DEF IInv
<1> QED
  BY <1>1, Invariance, PTL

\* No tick of a CPU is reported in two intervals, although the page is read
\* once for the percentages and once more for the map.
THEOREM TicksAreCountedOnce == Spec => []CountedOnce
<1>1. IInv => CountedOnce
  BY DEF IInv
<1> QED
  BY <1>1, Invariance, PTL

\* A slot that does not change while it is read gives percentages that add up,
\* none of them below 0 or above 100, but for five parts in 2^24 of the uptime
\* that the conversion of the sums to floats may add or hide.
THEOREM UndisturbedReportsAddUp == Spec => []UndisturbedConsistent
<1>1. IInv => UndisturbedConsistent
  BY DEF IInv
<1> QED
  BY <1>1, Invariance, PTL
==============================================================================
