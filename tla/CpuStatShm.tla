----------------------------- MODULE CpuStatShm -----------------------------
(***************************************************************************)
(* CPU statistics: the buffer g_cpu_stats, which the timer callback of the *)
(* kernel module fills every second and which the agent's CpuStatMonitor   *)
(* reads through mmap.  Only the callback takes stat_lock: the two         *)
(* interleave field by field, while CPUs come and go.                      *)
(*                                                                         *)
(* Of the eight counters that the reader uses there is one of each sort:   *)
(* "user" (busy, reported; so are system, nice, irq, soft_irq), "steal"    *)
(* (busy, not reported) and "idle" (not busy, reported; so is io_wait).    *)
(* The fields of a slot are written in any order, as compiler and          *)
(* processor please; the loads keep theirs, since what a load finds only   *)
(* depends on its place among the writes of that field.                    *)
(*                                                                         *)
(* The sums of the counters are u64 and become floats before they are      *)
(* subtracted; differences are rounded as well.                            *)
(***************************************************************************)
EXTENDS Integers, FiniteSets

CONSTANTS NCpu,      \* CPUs of the machine, numbered from 0
          Pinned,    \* CPUs that the kernel never takes offline (CPU 0 on x86)
          MaxTicks,  \* bound: value of a counter
          Ticks,     \* the values that a counter takes
          FirstTick, \* the one it has when the module is loaded
          Float,     \* the float that a number becomes
          Precision, \* 2^24 for a float: its error is at most one part in so many
          NoSample   \* "not in cpu_stat_map_"

Cpus == 0 .. NCpu - 1
End == NCpu                        \* "no CPU": past the last one
Fields == {"user", "steal", "idle"}
BusyFields == {"user", "steal"}
PartFields == {"user", "idle"}
Rank == [user |-> 1, steal |-> 2, idle |-> 3]
Counters == [Fields -> 0 .. MaxTicks]
MaxSum == 3 * MaxTicks

ASSUME CpuStatShmAssumption ==
    /\ NCpu \in Nat \ {0}
    /\ Pinned \subseteq Cpus
    /\ MaxTicks \in Nat
    /\ Ticks \subseteq 0 .. MaxTicks /\ FirstTick \in Ticks
    /\ NoSample \notin Counters

\* Rounding to the nearest float.
ASSUME FloatAssumption ==
    /\ Float \in [0 .. MaxSum -> 0 .. MaxSum]
    /\ \A m, n \in 0 .. MaxSum : m <= n => Float[m] <= Float[n]
    /\ Precision \in Nat /\ Precision >= 4
    /\ \A n \in 0 .. MaxSum : Precision * (Float[n] - n) <= n /\ Precision * (n - Float[n]) <= n

VARIABLES online,         \* SUBSET Cpus
          g_cpu_stats,    \* [Cpus -> Counters]: the shared buffer
          w_cpu,          \* the CPU whose slot the callback fills, or End
          w_todo,         \* fields of that slot it has yet to write
          pc,             \* where UpdateOnce stands
          stat_count,     \* online CPUs when the device was opened
          i,              \* slot that is read
          todo,           \* fields the current expression has yet to load
          seen,           \* [Fields -> SUBSET Nat]: values loaded from this slot
          new_total, new_busy,
          part,           \* [PartFields -> Int]: numerators of the percentages
          cpu_stat_map_,  \* [Cpus -> Counters \cup {NoSample}]
          counted,        \* ghost: [Cpus -> Nat]: "user" as far as it was reported
          disturbed       \* ghost: the slot changed while it was read

kernel == <<online, g_cpu_stats, w_cpu, w_todo>>
reader == <<pc, stat_count, i, todo, seen, new_total, new_busy, part, cpu_stat_map_, counted>>
locals == <<seen, new_total, new_busy, part>>
vars == <<kernel, reader, disturbed>>

Zero == [f \in Fields |-> 0]
Reading == pc \in {"total", "busy", "parts"}
Nothing == [f \in Fields |-> {}]
NoPart == [f \in PartFields |-> 0]
TotalTime(s) == s["user"] + s["steal"] + s["idle"]
BusyTime(s) == s["user"] + s["steal"]

\* The module is loaded (update_cpu_stats ran once), the agent starts.
Init ==
    /\ online = Cpus
    /\ g_cpu_stats = [c \in Cpus |-> [f \in Fields |-> FirstTick]]
    /\ w_cpu = End
    /\ w_todo = {}
    /\ pc = "idle"
    /\ stat_count = 0
    /\ i = 0
    /\ todo = {}
    /\ seen = Nothing
    /\ new_total = 0
    /\ new_busy = 0
    /\ part = NoPart
    /\ cpu_stat_map_ = [c \in Cpus |-> NoSample]
    /\ counted = [c \in Cpus |-> 0]
    /\ disturbed = FALSE

------------------------------------------------------------------------------
(* The kernel: update_cpu_stats, called by the timer, and hotplug.         *)

\* for_each_online_cpu: the next one from c on.
GoOn(c) ==
    \/ /\ \E d \in online : d >= c /\ \A e \in online : e >= c => d <= e
                            /\ w_cpu' = d
       /\ w_todo' = Fields
    \/ /\ \A d \in online : d < c
       /\ w_cpu' = End
       /\ w_todo' = {}

\* Bug variant: the buffer is cleared before it is filled.
TimerFiresClears ==
    /\ w_cpu = End
    /\ GoOn(0)
    /\ g_cpu_stats' = [c \in Cpus |-> Zero]
    /\ UNCHANGED <<online, reader, disturbed>>

TimerFires ==
    /\ w_cpu = End
    /\ GoOn(0)
    /\ UNCHANGED <<online, g_cpu_stats, reader, disturbed>>

\* A counter of the scheduler, which only grows, is copied into the slot.
WriteField ==
    /\ \E f \in w_todo : \E v \in Ticks :
         /\ v >= g_cpu_stats[w_cpu][f]
         /\ g_cpu_stats' = [g_cpu_stats EXCEPT ![w_cpu][f] = v]
         /\ IF w_todo = {f} THEN GoOn(w_cpu + 1) ELSE w_todo' = w_todo \ {f} /\ UNCHANGED w_cpu
         /\ disturbed' = (disturbed \/ (Reading /\ w_cpu = i /\ v # g_cpu_stats[w_cpu][f]))
    /\ UNCHANGED <<online, reader>>

CpuUp(c) ==
    /\ c \notin online
    /\ online' = online \cup {c}
    /\ UNCHANGED <<g_cpu_stats, w_cpu, w_todo, reader, disturbed>>

CpuDown(c) ==
    /\ c \in online \ Pinned
    /\ online # {c}
    /\ online' = online \ {c}
    /\ UNCHANGED <<g_cpu_stats, w_cpu, w_todo, reader, disturbed>>

------------------------------------------------------------------------------
(* The agent: CpuStatMonitor::UpdateOnce.                                  *)

\* It will read as many slots as there are CPUs online now.
Open ==
    /\ pc = "idle"
    /\ pc' = "slot"
    /\ stat_count' = Cardinality(online)
    /\ UNCHANGED <<kernel, i, todo, locals, cpu_stat_map_, counted, disturbed>>

\* A CPU that is not in the map yet is reported with zeros.  (Names are never
\* empty: init gave every slot one.)
Find ==
    /\ pc = "slot"
    /\ i < stat_count
    /\ pc' = IF cpu_stat_map_[i] = NoSample THEN "first" ELSE "total"
    /\ todo' = Fields
    /\ UNCHANGED <<kernel, stat_count, i, locals, cpu_stat_map_, counted, disturbed>>

Current(f) == f \in todo /\ \A g \in todo : Rank[f] <= Rank[g]

\* A load from the slot.  The page is not volatile: as long as no call comes
\* between, the compiler may use an earlier load of the field again.
Loads(f) == seen[f] \cup {g_cpu_stats[i][f]}
Kept(f, v) == [seen EXCEPT ![f] = @ \cup {v}]

Then(f, next, fields) ==
    IF todo = {f} THEN pc' = next /\ todo' = fields
                  ELSE todo' = todo \ {f} /\ UNCHANGED pc

\* Bug variant: the time stolen by the hypervisor is left out of the total.
LoadTotalNoSteal ==
    /\ pc = "total"
    /\ \E f \in Fields : \E v \in Loads(f) :
         /\ Current(f)
         /\ seen' = Kept(f, v)
         /\ new_total' = new_total + (IF f = "steal" THEN cpu_stat_map_[i][f] ELSE v)
         /\ Then(f, "busy", BusyFields)
    /\ UNCHANGED <<kernel, stat_count, i, new_busy, part, cpu_stat_map_, counted, disturbed>>

LoadTotal ==
    /\ pc = "total"
    /\ \E f \in Fields : \E v \in Loads(f) :
         /\ Current(f)
         /\ seen' = Kept(f, v)
         /\ new_total' = new_total + v
         /\ Then(f, "busy", BusyFields)
    /\ UNCHANGED <<kernel, stat_count, i, new_busy, part, cpu_stat_map_, counted, disturbed>>

\* The float of an integer, and the difference of two sums as floats.
Rounded(n) == IF n >= 0 THEN Float[n] ELSE -Float[-n]
Minus(m, n) == Rounded(Rounded(m) - Rounded(n))
total_delta == Minus(new_total, TotalTime(cpu_stat_map_[i]))
busy_delta == Minus(new_busy, BusyTime(cpu_stat_map_[i]))

\* No time passed, or too little for a float to show: zeros are reported.
LoadBusy ==
    /\ pc = "busy"
    /\ \E f \in BusyFields : \E v \in Loads(f) :
         /\ Current(f)
         /\ seen' = IF todo = {f} /\ total_delta <= 0 THEN Nothing ELSE Kept(f, v)
         /\ new_busy' = new_busy + v
         /\ IF total_delta > 0 THEN Then(f, "parts", PartFields) ELSE Then(f, "copy", Fields)
    /\ UNCHANGED <<kernel, stat_count, i, new_total, part, cpu_stat_map_, counted, disturbed>>

\* Bug variant: the compiler may use the loads for the copy as well.
LoadPartKeeps ==
    /\ pc = "parts"
    /\ \E f \in PartFields : \E v \in Loads(f) :
         /\ Current(f)
         /\ seen' = Kept(f, v)
         /\ part' = [part EXCEPT ![f] = v - cpu_stat_map_[i][f]]
         /\ counted' = IF f = "user" THEN [counted EXCEPT ![i] = @ + v - cpu_stat_map_[i][f]] ELSE counted
         /\ Then(f, "copy", Fields)
    /\ UNCHANGED <<kernel, stat_count, i, new_total, new_busy, cpu_stat_map_, disturbed>>

\* The numerators of the percentages.  The calls that set them in the message
\* end the life of what was loaded.
LoadPart ==
    /\ pc = "parts"
    /\ \E f \in PartFields : \E v \in Loads(f) :
         /\ Current(f)
         /\ seen' = IF todo = {f} THEN Nothing ELSE Kept(f, v)
         /\ part' = [part EXCEPT ![f] = v - cpu_stat_map_[i][f]]
         /\ counted' = IF f = "user" THEN [counted EXCEPT ![i] = @ + v - cpu_stat_map_[i][f]] ELSE counted
         /\ Then(f, "copy", Fields)
    /\ UNCHANGED <<kernel, stat_count, i, new_total, new_busy, cpu_stat_map_, disturbed>>

EndOfSlot ==
    /\ pc' = "slot"
    /\ i' = i + 1
    /\ todo' = {}
    /\ seen' = Nothing
    /\ new_total' = 0
    /\ new_busy' = 0
    /\ part' = NoPart
    /\ disturbed' = FALSE

\* operator[] makes the entry of a new name.
Entry == IF cpu_stat_map_[i] = NoSample THEN Zero ELSE cpu_stat_map_[i]

CopyField(f) ==
    /\ Current(f)
    /\ \E v \in Loads(f) :
         /\ cpu_stat_map_' = [cpu_stat_map_ EXCEPT ![i] = [Entry EXCEPT ![f] = v]]
         /\ counted' = IF pc = "first" /\ f = "user" THEN [counted EXCEPT ![i] = v] ELSE counted

\* Bug variant: the sums are not local to the loop.
CopyKeepsSums(f) ==
    /\ CopyField(f)
    /\ IF todo = {f}
       THEN /\ pc' = "slot" /\ i' = i + 1 /\ todo' = {}
            /\ seen' = Nothing /\ part' = NoPart /\ disturbed' = FALSE
            /\ UNCHANGED <<new_total, new_busy>>
       ELSE todo' = todo \ {f} /\ UNCHANGED <<pc, i, locals, disturbed>>
    /\ UNCHANGED <<kernel, stat_count>>

\* cpu_stat_map_[name] = stats[i]: the page is read once more.
Copy(f) ==
    /\ CopyField(f)
    /\ IF todo = {f}
       THEN EndOfSlot
       ELSE todo' = todo \ {f} /\ UNCHANGED <<pc, i, locals, disturbed>>
    /\ UNCHANGED <<kernel, stat_count>>

CopySlot == pc \in {"first", "copy"} /\ \E f \in Fields : Copy(f)

Close ==
    /\ pc = "slot"
    /\ i = stat_count
    /\ pc' = "idle"
    /\ i' = 0
    /\ stat_count' = 0
    /\ UNCHANGED <<kernel, todo, locals, cpu_stat_map_, counted, disturbed>>

\* The agent ends, anywhere, and is started again.
Restart ==
    /\ pc' = "idle"
    /\ stat_count' = 0
    /\ i' = 0
    /\ todo' = {}
    /\ seen' = Nothing
    /\ new_total' = 0
    /\ new_busy' = 0
    /\ part' = NoPart
    /\ cpu_stat_map_' = [c \in Cpus |-> NoSample]
    /\ counted' = [c \in Cpus |-> 0]
    /\ disturbed' = FALSE
    /\ UNCHANGED kernel

Kernel == TimerFires \/ WriteField \/ \E c \in Cpus : CpuUp(c) \/ CpuDown(c)
UpdateOnce == Open \/ Find \/ LoadTotal \/ LoadBusy \/ LoadPart \/ CopySlot \/ Close
Next == Kernel \/ UpdateOnce \/ Restart

Spec == Init /\ [][Next]_vars

------------------------------------------------------------------------------
(* Properties.                                                             *)

TypeOK ==
    /\ online \subseteq Cpus
    /\ g_cpu_stats \in [Cpus -> Counters]
    /\ w_cpu \in Cpus \cup {End}
    /\ w_todo \subseteq Fields
    /\ w_cpu = End <=> w_todo = {}
    /\ pc \in {"idle", "slot", "first", "total", "busy", "parts", "copy"}
    /\ stat_count \in 0 .. NCpu
    /\ i \in 0 .. NCpu
    /\ todo \subseteq Fields
    /\ seen \in [Fields -> SUBSET (0 .. MaxTicks)]
    /\ new_total \in 0 .. 3 * MaxTicks
    /\ new_busy \in 0 .. 2 * MaxTicks
    /\ part \in [PartFields -> -MaxTicks .. MaxTicks]
    /\ cpu_stat_map_ \in [Cpus -> Counters \cup {NoSample}]
    /\ counted \in [Cpus -> Int]
    /\ disturbed \in BOOLEAN

\* No difference of unsigned counters wraps, however the callback and the
\* loads interleave and whatever hotplug does: every value loaded from a slot
\* is at least the one in the map (cpu_stat_monitor.cpp:36-70).
NeverWraps ==
    /\ Reading => \A f \in Fields : \A v \in seen[f] : v >= cpu_stat_map_[i][f]
    /\ \A f \in PartFields : part[f] >= 0

\* No tick of a CPU is reported in two intervals: its first sample and what
\* was reported since are together at most what the counter is now
\* (cpu_stat_monitor.cpp:50-70 against the second reading at 106).
CountedOnce == \A c \in Cpus : counted[c] <= g_cpu_stats[c]["user"]

\* A slot that does not change while its percentages are computed gives
\* cpu_percent = 1 - idle/total, as cpu_stat.proto:6 defines it, and nothing
\* above 100 or below 0, also when the sample it is compared with was torn, but
\* for the rounding to floats: that adds or hides up to five parts in 2^24 of
\* the uptime (a quarter of a second after ten days), and no field is left out.
SlotDone == pc = "copy" /\ todo = Fields /\ total_delta > 0
WithinRounding(n) == Precision * n <= 5 * new_total
Share(f) == Rounded(part[f])
Consistent ==
    /\ WithinRounding(busy_delta + Share("idle") - total_delta)
    /\ WithinRounding(total_delta - (busy_delta + Share("idle")))
    /\ busy_delta >= 0
    /\ \A f \in PartFields : Share(f) >= 0 /\ WithinRounding(Share(f) - total_delta)
UndisturbedConsistent == SlotDone /\ ~disturbed => Consistent

\* Why these hold: the inductive invariant of CpuStatShm_proofs.  Where the
\* reader stands, ...
AnySuffix == {Fields, {"steal", "idle"}, {"idle"}}
Positions ==
    /\ pc = "idle" => i = 0
    /\ pc # "idle" => i <= stat_count
    /\ pc \notin {"idle", "slot"} => i < stat_count
    /\ pc \in {"idle", "slot"} => todo = {}
    /\ pc \in {"first", "total", "copy"} => todo \in AnySuffix
    /\ pc = "busy" => todo \in {BusyFields, {"steal"}}
    /\ pc = "parts" => todo \in {PartFields, {"idle"}}
    /\ Reading \/ pc = "copy" => cpu_stat_map_[i] \in Counters
    /\ pc = "first" /\ todo # Fields => cpu_stat_map_[i] \in Counters

\* ... what its local variables can hold, ...
Locals ==
    /\ ~Reading => seen = Nothing
    /\ pc \in {"idle", "slot", "first", "total"} => new_busy = 0
    /\ pc \in {"idle", "slot", "first"} => new_total = 0
    /\ pc = "total" => new_total <= (IF todo = Fields THEN 0 ELSE IF todo = {"idle"} THEN 2 ELSE 1) * MaxTicks
    /\ pc = "busy" => new_busy <= (IF todo = BusyFields THEN 0 ELSE 1) * MaxTicks
    /\ pc \notin {"parts", "copy"} => part = NoPart

\* ... that time goes on between the map, the loads and the page, ...
MapIsOld == \A c \in Cpus : cpu_stat_map_[c] # NoSample => \A f \in Fields : cpu_stat_map_[c][f] <= g_cpu_stats[c][f]
LoadsAreOld == Reading => \A f \in Fields : \A v \in seen[f] : v <= g_cpu_stats[i][f]

\* ... that ticks are reported only up to the map, but for the slot at hand, ...
AtHand == (pc = "parts" /\ todo # PartFields) \/ (pc = "copy" /\ todo = Fields)
CountedInMap ==
    \A c \in Cpus : cpu_stat_map_[c] # NoSample /\ ~(c = i /\ AtHand) => counted[c] <= cpu_stat_map_[c]["user"]

\* ... and what is known of a slot that has not changed.
UndisturbedLoads ==
    ~disturbed /\ Reading =>
       /\ \A f \in Fields : \A v \in seen[f] : v = g_cpu_stats[i][f]
       /\ pc = "total" => new_total = (IF "user" \in todo THEN 0 ELSE g_cpu_stats[i]["user"])
                                    + (IF "steal" \in todo THEN 0 ELSE g_cpu_stats[i]["steal"])
       /\ pc # "total" => new_total = TotalTime(g_cpu_stats[i])
       /\ pc = "busy" => new_busy = (IF "user" \in todo THEN 0 ELSE g_cpu_stats[i]["user"])
       /\ pc = "parts" => /\ new_busy = BusyTime(g_cpu_stats[i])
                          /\ "user" \notin todo => part["user"] = g_cpu_stats[i]["user"] - cpu_stat_map_[i]["user"]

IInv == /\ TypeOK /\ Positions /\ Locals /\ MapIsOld /\ LoadsAreOld /\ NeverWraps /\ CountedOnce
        /\ CountedInMap /\ UndisturbedLoads /\ UndisturbedConsistent
==============================================================================
