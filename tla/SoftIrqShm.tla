----------------------------- MODULE SoftIrqShm -----------------------------
(***************************************************************************)
(* The buffer of cpu_softirq_monitor during the life of its module         *)
(* (KmodLife): a slot for every CPU, written by the callback and read by   *)
(* CpuSoftIrqMonitor::UpdateOnce without a lock, while CPUs go offline and *)
(* come back.  The buffers of the other two modules are written at once    *)
(* here: the one of cpu_stat is the subject of CpuStatShm.                 *)
(*                                                                         *)
(* One counter stands for the ten of a slot: each is written once a pass   *)
(* and loaded once a cycle.  It is a __u32, which wraps.                   *)
(***************************************************************************)
EXTENDS KmodLife, Sequences

CONSTANTS Agent,    \* the user that is the agent
          NCpu,     \* CPUs, numbered from 0
          Pinned,   \* CPUs that the kernel never takes offline
          U32,      \* 2^32: how many values a __u32 has
          MaxIrq    \* bound: soft interrupts of a CPU

Cpus == 0 .. NCpu - 1
End == NCpu
Word == 0 .. U32 - 1

ASSUME SoftIrqShmAssumption ==
    /\ Agent \in Users
    /\ NCpu \in Nat \ {0}
    /\ Pinned \subseteq Cpus
    /\ U32 \in Nat \ {0}
    /\ MaxIrq \in Nat

VARIABLES
    online,     \* SUBSET Cpus
    kstat,      \* [Cpus -> 0 .. MaxIrq]: soft interrupts of each CPU
    name,       \* [Cpus -> "", "cpu" or "full"]: "cpu" is a name without its number
    count,      \* [Cpus -> Word]: the counter of each slot
    taken,      \* ghost: [Cpus -> 0 .. MaxIrq]: the soft interrupts it stands for
    w,          \* slot that is written, or End
    w_step,     \* what of it comes next: "name", "number" or "count"
    r,          \* slot that the agent reads
    rpc,        \* "check", "name" or "count": what it reads next
    report,     \* soft_irq: sequence of [name, count]
    last,       \* ghost: [Cpus -> Word]: the last reported count
    shown,      \* ghost: [Cpus -> 0 .. MaxIrq]: the soft interrupts it stands for
    virgin,     \* slots not written since the buffer was allocated
    passing,    \* ghost: CPUs online ever since the pass began
    steady,     \* ghost: CPUs online ever since the last full pass began
    shaky,      \* ghost: CPUs that were not steady at some point of this cycle
    garbage     \* ghost: a user saw memory that was never written

writer == <<name, count, taken, w, w_step, virgin, passing>>
reader == <<r, rpc, report, last, shown, garbage>>
vars == <<lifevars, online, kstat, writer, reader, steady, shaky>>

Init ==
    /\ LifeInit
    /\ online = Cpus
    /\ kstat = [c \in Cpus |-> 0]
    /\ name = [c \in Cpus |-> ""]
    /\ count = [c \in Cpus |-> 0]
    /\ taken = [c \in Cpus |-> 0]
    /\ w = End
    /\ w_step = "name"
    /\ r = 0
    /\ rpc = "check"
    /\ report = <<>>
    /\ last = [c \in Cpus |-> 0]
    /\ shown = [c \in Cpus |-> 0]
    /\ virgin = Cpus
    /\ passing = {}
    /\ steady = {}
    /\ shaky = Cpus
    /\ garbage = FALSE

------------------------------------------------------------------------------
(* Kernel.                                                                 *)

SoftIrq(c) ==
    /\ c \in online
    /\ kstat[c] < MaxIrq
    /\ kstat' = [kstat EXCEPT ![c] = @ + 1]
    /\ UNCHANGED <<lifevars, online, writer, reader, steady, shaky>>

CpuUp(c) ==
    /\ c \notin online
    /\ online' = online \cup {c}
    /\ UNCHANGED <<lifevars, kstat, writer, reader, steady, shaky>>

CpuDown(c) ==
    /\ c \in online \ Pinned
    /\ online' = online \ {c}
    /\ passing' = passing \ {c}
    /\ steady' = steady \ {c}
    /\ shaky' = shaky \cup {c}
    /\ UNCHANGED <<lifevars, kstat, name, count, taken, w, w_step, virgin, reader>>

------------------------------------------------------------------------------
(* The module.                                                             *)

\* vmalloc, and for this module memset: no slot has a name.  The first pass
\* begins.
Load ==
    /\ Alloc
    /\ IF st' = "out"
       THEN UNCHANGED <<writer, steady, shaky>>
       ELSE /\ name' = [c \in Cpus |-> ""]
            /\ count' = [c \in Cpus |-> 0]
            /\ taken' = [c \in Cpus |-> 0]
            /\ w' = IF kind = "softirq" THEN 0 ELSE End
            /\ w_step' = "name"
            /\ virgin' = Cpus
            /\ passing' = online
            /\ steady' = {}
            /\ shaky' = Cpus
    /\ UNCHANGED <<online, kstat, reader>>

\* A slot is done with, and with the last one the pass.
Advance ==
    /\ w' = w + 1
    /\ w_step' = "name"
    /\ steady' = IF w + 1 = End THEN passing ELSE steady
    /\ UNCHANGED <<lifevars, online, kstat, reader, passing, shaky>>

Writing(step) == live /\ w # End /\ w_step = step
GoOn(step) ==
    /\ w_step' = step
    /\ UNCHANGED <<lifevars, online, kstat, count, taken, w, virgin, passing, reader, steady, shaky>>

\* update_softirq_stats: an offline CPU loses its name ...
SkipSlot ==
    /\ Writing("name") /\ w \notin online
    /\ name' = [name EXCEPT ![w] = ""]
    /\ Advance
    /\ UNCHANGED <<count, taken, virgin>>

\* Bug variant: the name is cleared before it is written again.
NameSlotClears ==
    /\ Writing("name") /\ w \in online
    /\ name' = [name EXCEPT ![w] = ""]
    /\ GoOn("number")

\* ... an online one gets it (the first letters, before which the number still
\* stands unless the slot is new, then the number) ...
NameSlot ==
    /\ Writing("name") /\ w \in online
    /\ name' = [name EXCEPT ![w] = IF w \in virgin THEN "cpu" ELSE "full"]
    /\ GoOn("number")

NumberSlot ==
    /\ Writing("number")
    /\ name' = [name EXCEPT ![w] = "full"]
    /\ GoOn("count")

\* Bug variant: the count since the last pass, as the test program shows it.
CountSlotDelta ==
    /\ Writing("count")
    /\ count' = [count EXCEPT ![w] = (kstat[w] - @) % U32]
    /\ taken' = [taken EXCEPT ![w] = kstat[w]]
    /\ virgin' = virgin \ {w}
    /\ Advance
    /\ UNCHANGED name

\* ... and its count, online or not by now.
CountSlot ==
    /\ Writing("count")
    /\ count' = [count EXCEPT ![w] = kstat[w] % U32]
    /\ taken' = [taken EXCEPT ![w] = kstat[w]]
    /\ virgin' = virgin \ {w}
    /\ Advance
    /\ UNCHANGED name

FirstPassDone ==
    /\ w = End
    /\ FillDone
    /\ UNCHANGED <<online, kstat, writer, reader, steady, shaky>>

\* The timer fires.
Fire ==
    /\ armed /\ live /\ w = End
    /\ IF kind = "softirq"
       THEN w' = 0 /\ passing' = online /\ UNCHANGED lifevars
       ELSE Refilled /\ UNCHANGED <<w, passing>>
    /\ UNCHANGED <<online, kstat, name, count, taken, w_step, virgin, reader, steady, shaky>>

\* A pass that is under way goes with the buffer.
BufferGone == w' = End /\ w_step' = "name"

InitExit ==
    /\ \/ (Arm \/ Register \/ Rmmod \/ Cancel(w = End) \/ Deregister) /\ UNCHANGED <<w, w_step>>
       \/ RegisterFails /\ IF live' THEN UNCHANGED <<w, w_step>> ELSE BufferGone
       \/ Free /\ BufferGone
       \/ Breaks /\ UNCHANGED <<w, w_step>>
    /\ UNCHANGED <<online, kstat, name, count, taken, virgin, passing, reader, steady, shaky>>

------------------------------------------------------------------------------
(* CpuSoftIrqMonitor::UpdateOnce, and other users of the devices.          *)

AtUser == UNCHANGED <<online, kstat, writer, steady>>

OpenDevice(u) ==
    /\ Open(u)
    /\ IF u = Agent /\ kind = "softirq"
       THEN shaky' = Cpus \ steady /\ report' = <<>> /\ r' = 0 /\ rpc' = "check"
       ELSE UNCHANGED <<shaky, report, r, rpc>>
    /\ AtUser /\ UNCHANGED <<last, shown, garbage>>

MapDevice(u) ==
    /\ Map(u) \/ MapFails(u)
    /\ AtUser /\ UNCHANGED <<reader, shaky>>

\* The other monitors, and the test programs, copy what they find.
ReadBuffer(u) ==
    /\ upc[u] = "mapped" /\ (u = Agent => kind # "softirq")
    /\ garbage' = (garbage \/ ~filled)
    /\ AtUser /\ UNCHANGED <<lifevars, r, rpc, report, last, shown, shaky>>

Reading(step) == kind = "softirq" /\ upc[Agent] = "mapped" /\ rpc = step
Took == AtUser /\ garbage' = (garbage \/ ~filled) /\ UNCHANGED <<lifevars, shaky>>

\* A slot without a name, or the end of the buffer, ends the loop.
CheckSlot ==
    /\ Reading("check")
    /\ rpc' = IF name[r] = "" THEN "done" ELSE "name"
    /\ Took /\ UNCHANGED <<r, report, last, shown>>

ReadName ==
    /\ Reading("name")
    /\ report' = Append(report, [name |-> name[r], count |-> 0])
    /\ rpc' = "count"
    /\ Took /\ UNCHANGED <<r, last, shown>>

\* Bug variant: the counts of all cycles are summed up.
ReadCountSums ==
    /\ Reading("count")
    /\ report' = [report EXCEPT ![r + 1].count = last[r] + count[r]]
    /\ last' = [last EXCEPT ![r] = @ + count[r]]
    /\ shown' = [shown EXCEPT ![r] = taken[r]]
    /\ r' = r + 1
    /\ rpc' = IF r + 1 = End THEN "done" ELSE "check"
    /\ Took

ReadCount ==
    /\ Reading("count")
    /\ report' = [report EXCEPT ![r + 1].count = count[r]]
    /\ last' = [last EXCEPT ![r] = count[r]]
    /\ shown' = [shown EXCEPT ![r] = taken[r]]
    /\ r' = r + 1
    /\ rpc' = IF r + 1 = End THEN "done" ELSE "check"
    /\ Took

\* The end of the cycle, or of the process.
CloseDevice(u) ==
    /\ Release(u)
    /\ IF u = Agent THEN rpc' = "check" /\ r' = 0 /\ report' = <<>> ELSE UNCHANGED <<rpc, r, report>>
    /\ AtUser /\ UNCHANGED <<last, shown, garbage, shaky>>

Hotplug == \E c \in Cpus : CpuUp(c) \/ CpuDown(c) \/ SoftIrq(c)
UpdateSoftIrqStats == SkipSlot \/ NameSlot \/ NumberSlot \/ CountSlot
Module == Load \/ FirstPassDone \/ Fire \/ UpdateSoftIrqStats \/ InitExit
UpdateOnce == CheckSlot \/ ReadName \/ ReadCount
Use == \E u \in Users : OpenDevice(u) \/ MapDevice(u) \/ ReadBuffer(u) \/ CloseDevice(u)

\* Nothing is known of a kernel after a callback on freed memory.
Next == ~broken /\ (Hotplug \/ Module \/ Use \/ UpdateOnce)

Spec == Init /\ [][Next]_vars

------------------------------------------------------------------------------
(* Properties.                                                             *)

TypeOK ==
    /\ kind \in Kinds
    /\ st \in {"out", "fill", "arm", "register", "in", "cancel", "deregister", "free"}
    /\ {live, armed, registered, orphan, filled, broken, garbage} \subseteq BOOLEAN
    /\ upc \in [Users -> {"idle", "opened", "mapped"}]
    /\ loads \in 0 .. MaxLoads
    /\ faults \in 0 .. MaxFaults
    /\ online \subseteq Cpus
    /\ kstat \in [Cpus -> 0 .. MaxIrq]
    /\ name \in [Cpus -> {"", "cpu", "full"}]
    /\ count \in [Cpus -> Word]
    /\ taken \in [Cpus -> 0 .. MaxIrq]
    /\ w \in 0 .. End
    /\ w_step \in {"name", "number", "count"}
    /\ r \in 0 .. End
    /\ rpc \in {"check", "name", "count", "done"}
    /\ report \in Seq([name : {"", "cpu", "full"}, count : Word])
    /\ last \in [Cpus -> Word]
    /\ shown \in [Cpus -> 0 .. MaxIrq]
    /\ {virgin, passing, steady, shaky} \subseteq SUBSET Cpus

\* However loads, removals and the timer interleave, the callback touches freed
\* memory only after a registration failed with the timer armed, the one path
\* that does not cancel it (cpu_stat_monitor_kmod.c:229-236).
CallbackSafe == broken => orphan

\* No process has a device open or mapped whose buffer is freed: exit is kept
\* out by the files, and files by an exit under way (.owner in the fops,
\* cpu_softirq_monitor_kmod.c:97-100).
MappedIsLive == InUse => live

\* What a user reads was written by the module, except on cpu_load, which
\* neither clears its page nor waits for the first callback
\* (cpu_load_monitor_kmod.c:66-80).
OnlyLoadUnwritten == garbage => kind = "load"

\* In a finished cycle, a CPU that was online from before the last full pass of
\* the callback to the end is reported, with its whole name, if all CPUs
\* below it were: only hotplug makes entries disappear or spoils their names
\* (cpu_softirq_monitor.cpp:21-24).
SteadyReported ==
    rpc = "done" =>
       \A c \in Cpus :
          (0 .. c) \cap shaky = {} => c < Len(report) /\ report[c + 1].name = "full"

\* The counts that are reported of a CPU go back, over cycles, hotplug and
\* reloads, only in two cases: the CPU had passed a multiple of 2^32 soft
\* interrupts in between, or its slot has been named and not yet counted since
\* the module was loaded (cpu_softirq_monitor_kmod.c:43-48).
PassedMultiple(c) == shown'[c] \div U32 > shown[c] \div U32
CountsForward == [][\A c \in Cpus : last'[c] < last[c] => c \in virgin \/ PassedMultiple(c)]_vars

------------------------------------------------------------------------------
(* What makes them inductive.                                              *)

\* Where init or exit stands tells what there is ...
Lifecycle ==
    /\ live <=> st # "out"
    /\ armed <=> st \in {"register", "in", "cancel"}
    /\ InUse => st = "in"

\* ... and what has been written.
Written == kind # "load" /\ st \notin {"out", "fill"} => filled

\* A pass needs its buffer.  CPUs that go offline during a pass, or a cycle of
\* the agent, are no longer counted on.
Passes ==
    /\ w # End => kind = "softirq" /\ live
    /\ w = End => w_step = "name"
    /\ steady \subseteq passing /\ passing \subseteq online
    /\ Cpus \ shaky \subseteq steady

\* A CPU counted on has its whole name in the slots that the pass has done, and
\* from then on in every pass.
Named ==
    /\ \A c \in steady : name[c] = "full" /\ c \notin virgin
    /\ live /\ kind = "softirq" =>
         \A c \in passing : c < w => name[c] = "full" /\ c \notin virgin
    /\ w_step = "count" => name[w] = "full"

\* The cycle of the agent so far.
Cycle ==
    /\ rpc \in {"check", "name"} => Len(report) = r /\ r < End
    /\ rpc = "count" => Len(report) = r + 1 /\ r < End
    /\ rpc = "done" => Len(report) = r /\ (r = End \/ r \in shaky)
    /\ \A k \in 1 .. Len(report) : k - 1 \notin shaky => report[k].name = "full"

\* What a slot and the last report of it stand for: a slot that was counted is
\* not behind what was reported.
Counted ==
    \A c \in Cpus : /\ count[c] = taken[c] % U32 /\ taken[c] <= kstat[c]
                    /\ last[c] = shown[c] % U32 /\ shown[c] <= kstat[c]
                    /\ c \notin virgin => shown[c] <= taken[c]

IInv == /\ TypeOK /\ Lifecycle /\ Written /\ Passes /\ Named /\ Cycle /\ Counted
        /\ CallbackSafe /\ OnlyLoadUnwritten
==============================================================================
