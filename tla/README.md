# Verification of linux-monitor

TLA+ models of linux-monitor, the TLC runs that check them on small instances,
and TLAPS proofs of what matters most for instances of every size. Paths are
relative to the repository.

## 1. The system

```
 kernel modules, BPF, /proc            one machine each                  one machine
 ┌──────────────────────────┐   ┌───────────────────────────┐   ┌────────────────────────┐
 │ kmod/*  bpf/*  /proc/*   │──>│ agent: client/src/main.cpp │──>│ server: RpcServerImpl   │
 │ counters, mmap'd pages   │   │ six collectors, every 3 s  │Set│ table name -> last info │
 └──────────────────────────┘   └───────────────────────────┘   └───────────┬────────────┘
                                                                        Get │ every 60 s
                                 ┌───────────────────────────┐   ┌──────────┴────────────┐
                                 │ MySQL: host_info, metrics, │<──│ ingester:             │
                                 │ performance_summary        │   │ performance_instance  │
                                 └───────────────────────────┘   └───────────────────────┘
```

| Component | State | Operations | Interacts by | What is hard | What makes it correct |
|---|---|---|---|---|---|
| **Monitor server** `grpc/server`, `server` | `monitor_infos_map_`, `mtx_`, `server_shutdown` | SetMonitorInfo, GetMonitorInfo, start, signal, shutdown | gRPC, one thread per call in progress | handlers interleave; a handler outlives a caller that gave up; draining at shutdown; restart loses the table | the table is atomic; responses hold whole samples; no entry goes back in time; shutdown ends |
| **Agent** `client`, `grpc/client` | none kept but the collectors' | collect, SetMonitorInfo, sleep | gRPC to the server | errors are printed and dropped; no deadline; the key of a report is a user name | an answered report is in the table |
| **Host registry** `getOrCreateHostId` + `host_info` | `host_id_cache_`, table rows | cache hit, SELECT, INSERT | SQL statements without a transaction | two ingesters at once; lost answers; same-second keys; restarts with an empty cache | cached ids exist; a host has one id; every ingester gets one in the end |
| **Ingester** `performance_server`, `performance_instance` | `current_data_`, `mysql_conn_`, `monitoring_active_`, the thread | fetch, store, summary, start, stop | gRPC pull, SQL, signals | partial failure of a store; two readings of `current_data_`; connection shared by two threads; the clock against the period; shutdown from anywhere | failures stay local and are reported; rows belong to their host and are fresh; one thread on the connection; summaries are complete; a signal ends the process |
| **Performance scores** (`calculate*`) | none | pure float functions | called by the summary | zero totals, open ends, piecewise terms | bounded, monotone, without jumps |
| **Database schema** `sql` | tables, keys, generated columns, views | | SQL | keys are the only consistency there is | keys hold for every writer |
| **CPU statistics** `kmod/cpu_stat*`, `cpu_stat_monitor.cpp` | shared page, `cpu_stat_map_` | timer callback, mmap read | an mmap'd page without a lock | torn reads, ticks lost between two reads, CPU hotplug, 24-bit floats | no tick counted twice, no negative rate, shares that add up as far as floats go |
| **Soft interrupts** `kmod/cpu_softirq*`, `cpu_softirq_monitor.cpp` | shared page | timer callback, mmap read | as above | offline CPUs leave empty slots; slots are read while they are written; counts of 32 bits | CPUs that stay online are reported, counts go forward until they wrap |
| **Load average** `kmod/cpu_load*`, `cpu_load_monitor.cpp` | one page | timer callback, mmap read | as above | the first second after insmod | |
| **Loading and removal** of the three modules | buffer, timer, device | init, exit, open, mmap | the kernel's reference counts | error paths of init; the order of exit; files open meanwhile | no access to freed or unwritten memory |
| **Network** `net_monitor.cpp`, `bpf` | qdiscs and filters in the kernel, BPF map, `last_net_info_` | attach, count, rates | BPF map, netlink, /proc | half a failed attach; leftovers of a killed agent; interfaces that change under their name; counters that restart | all interfaces counted in both directions, by this agent only; rates are those of the interval |
| **Disk** `disk_monitor.cpp` | `previous_disk_stats_`, `last_time` | parse, rates | /proc | columns by position, some of 32 bits; intervals of whole seconds of a clock that is set | every operation counted once |
| **Memory** `mem_monitor.cpp` | none | parse | /proc | | |

Dead code, left out: `ensureHostExists`, `insertHostInfo`,
`calculateDerivedMetrics`, `monitoring_cv_`.

## 2. Modules

| Module | What it is |
|---|---|
| `AtomicStore` | abstract: a table in which each call takes effect at one instant |
| `RpcServer` | the server with its callers; refines `AtomicStore` |
| `HostRegistry` | `getOrCreateHostId` of any number of ingesters on one `host_info` |
| `PerfClient` | one ingester: its two threads, the store, the shutdown; instantiates `HostRegistry` |
| `Pipeline` | agents, server, ingester and tables together, against the clock |
| `KmodLife` | loading, removal, open and mmap of any of the three kernel modules |
| `SoftIrqShm` | the soft interrupt buffer during that life, its callback and its reader; extends `KmodLife` |
| `CpuStatShm` | the buffer between the timer callback of `cpu_stat` and `CpuStatMonitor` |
| `TcHooks` | the constructor of `NetMonitor` on the qdiscs and filters of the kernel |
| `NetMonitor` | counters, `UpdateOnce` and rates on top of them; extends `TcHooks` |
| `DiskMonitor` | `DiskMonitor::UpdateOnce` and the kernel's disk counters |
| `Scores` | the formulas of the performance score, and reports that change step by step |
| `*_proofs` | inductive invariants and safety properties, proved (section 4) |
| `MC*` | constants and symmetry for TLC |

Names follow the code (`monitor_infos_map_`, `mtx_`, `host_id_cache_`,
`current_data_`, `last_net_info_`...). Definitions called "Bug variant" are
not part of any specification: each stands next to the action it distorts, the
way a plausible mistake in that code would, and breaks one of the properties.

### RpcServer (server.cpp, server/src/main.cpp, client.cpp, client/src/main.cpp)

`handler[i]` is a thread of the gRPC pool inside one of the two methods; its
`pc` names the next statement. `Lock` is the `unique_lock`, `SetInsert` and
`SetAssign` the two effects of `map[name] = *request`, `SetUnlock` the early
unlock with the printing after it, `GetCopy` a round of the copying loop,
`GetReturn` the return that releases the lock, `Reply` what the library does
with the result. `AgentSend`, `PollerSend` are calls that the service accepted;
`AgentUnreachable` one it did not; `Abandon` a connection that breaks under a
call: the client returns with an error it prints, the handler is no longer
`live` but runs to its end, since neither method looks at its context.
`phase` follows `InitServer`: between the signal and the wake-up of the loop
(100 ms) the service still accepts; `FinishShutdown` needs all handlers gone;
`Crash` is a fault, or a signal in the window before `std::signal`.
A sample is its agent and its rank. `GetMonitorInfo` returns entries in hash
order, so a response is a set. The map is keyed by user name (`NameOf`): with a
shared name one agent's entry replaces another's, so the run has distinct names
and the theorem about `AckedAgentListed` the hypothesis `NamesTellApart`.

### HostRegistry (performance_server.cpp 395-440, host_info)

`Call`, `SelectHit`, `SelectMiss`, `SelectFail` (a failed query or result: the
code goes on as if there were no row), `SendInsert` (the id from the clock),
`ExecInsert` (MySQL), `InsertOk`, `InsertDuplicate` (primary key exists),
`InsertRejected`, `InsertLost` (the answer never comes: the statement may have
been executed, or still be, which `orphans` keeps). `Crash` restarts a process
with an empty cache. An id is the record of its name and second. Names longer
than `VARCHAR(50)` leaves room for, and names that differ only in case (the
collation takes them for equal), are not modelled.

### PerfClient (performance_server.cpp, performance_instance.cpp)

`main_pc` follows `main`, `step[t]` the call of `fetchMonitorData` or
`storeToDatabase` that thread `t` is in, `local[t]` its local variables. A failed
RPC is indistinguishable from a server without hosts (`FetchError`): it is why
`main` prints "Connection test successful" (performance_instance.cpp:37) when
nobody answered. A
response is a sequence of hosts, the sample it has of each, and the rank of its
fetch; a row remembers where it came from. The sample of a host may be new or one
that was answered before (`SamplesOf`): main and the thread fetch within
moments of each other, agents report every three seconds, and the entry of a
dead agent is answered for ever. `InsertRow` stands for a round of the loop of any of the
five insert functions, `InsertRowFails` for the failure that makes that
function return, with or without the row. `HostDone` leaves it open whether
the store falls into the first minute of an hour (`Pipeline` does not); the
summary then makes its own copy of `current_data_` and resolves the names again
(`ScoreLookUp` ... `WriteSummary`). The steps inside `getOrCreateHostId` are
those of `HostRegistry` with this process as the only client, taken over with
`INSTANCE`; the code calls it from one thread at a time, which
`ConnectionSafe` checks.

`monitoring_active_` is a plain bool that two threads use, which the language
calls a data race. The thread evaluates it around calls into other libraries,
so every build reloads it: `LoopHead` reads the current value. Process crashes
are in `HostRegistry` and `Pipeline`, whose tables survive them, and not in
`PerfClient`, whose state does not.

### Pipeline (client, server, performance_server.cpp 445, 664-754, 774-900)

Here each of the components above is one step or two, and time counts. A unit
is a fraction of a minute; at its beginning every agent that is `up` reports
(`Reports`, `Tick`). `CutOff` is an agent that dies or reaches the server no
longer: its entry stays, as nothing removes entries. `Fetch` copies the table;
`Insert` gives the rows of one host the time of that moment; `Check` is the
condition at performance_server.cpp:838 and, if it holds, the summary of the
rows of the last hour with both ends (749-754); `Asleep` the sixty rounds of
one second. `ServerRestart`, `Kill` and a failing fetch or insert are the
faults; a failed insert leaves the rows before it. What is summarised is the set of the times of the rows. `MaxWork`
bounds the time from a fetch to the end of the store, which nothing in the code
does; the thread is not delayed beyond its sleep.

### KmodLife and SoftIrqShm (kmod/*.c, cpu_softirq_monitor.cpp, cpu_load_monitor.cpp)

`kind` is the module. `Alloc` ... `Register` are the calls of its init,
`RegisterFails` the error path (of `cpu_load`, none), `Rmmod`, `Cancel`,
`Deregister`, `Free` those of its exit, in the code's order; `rmmod` is refused
while a file is open or mapped, because the file operations have an `.owner`.
`Fire` is the timer. The callback of `cpu_softirq` goes on by `SkipSlot` (offline CPU), `NameSlot` (`snprintf` of
"cpu" and the number, which the reader can see one after the other:
`NumberSlot`) and `CountSlot`; those of the other two modules are one step.
A count is the kernel's modulo `U32`, as the fields of a slot are `__u32`.
`CheckSlot`, `ReadName`, `ReadCount` are the reader's loop, which ends at the
first empty name; other users read the whole buffer at once (`ReadBuffer`).
CPUs go offline and come back at any moment. The ghosts `steady` and `shaky`
tell CPUs that stayed online; `garbage` and `broken` remember an access to
memory that was not written, or was freed, `taken` and `shown` what the counts
of a slot and of the last report stood for before they wrapped. After the latter anything may happen,
and the model stops.

### CpuStatShm (cpu_stat_monitor_kmod.c, cpu_stat_monitor.cpp)

`TimerFires` enters `update_cpu_stats`, `WriteField` stores one field of the
slot `w_cpu` and goes on to the next online CPU (`GoOn`) after the last; the
order of the stores is free, since nothing in the code fixes it. The counters
are those of the scheduler: a store writes some value that is not smaller than
the last one. `CpuUp` and `CpuDown` may happen anywhere, between two stores too,
which is more than the kernel allows; `Pinned` CPUs stay (CPU 0 on x86, and in
the runs). `UpdateOnce` is `Open` (`sysconf` and
`mmap`), `Find` (the map of the last samples), the loads of the three
expressions (`LoadTotal`, `LoadBusy`, `LoadPart`), the copy into the map field
by field (`CopySlot`) and `Close`. A load takes the value on the page or, as the
page is not volatile, any value loaded before from the same field since the
last call that the compiler cannot see through (`seen`). `Restart` forgets the
map.

Of the eight counters there is one of each sort: busy and reported (`user`),
busy and not reported (`steal`), not busy (`idle`); the properties treat those
of one sort alike. The sums are u64 that become floats, and so do the
differences: `Float` is a rounding of integers, with an error of one part in
`Precision` at most (2^24 for a float, 2^6 in the run); `total_delta` and
`busy_delta` subtract what is rounded and round again (`Minus`), and a percentage
has the exact difference of its counter, rounded (`Share`), above `total_delta`.
`UndisturbedConsistent` says how far such shares may be from adding up. An `open`
or `mmap` that fails, which returns before any change, is left out.

### TcHooks and NetMonitor (net_monitor.cpp, net_monitor.bpf.c)

`TcHooks` is the constructor: `Start` lists the interfaces, `NextIf` takes the
next, `DestroyFirst` flushes what an earlier agent left, `CreateHooks` and
`AttachPrograms` make the two calls of each kind, `Undo` is the error path with
its single destroy per created hook. `bpf_tc_detach` is always refused there,
because the options still name the program. The qdisc outlives all of this: only
`RemoveIf` takes it away. `Constructed` ends with or without an exception (which
`main` does not catch), `Kill` is the end of an agent; no path of `main` reaches
the destructor.
`Interfaces` add, remove and rename interfaces at any moment.

`Packet` counts on an interface with a program of the running agent. Each CPU
has a slot of its own, so two packets do not disturb each other. `UpdateOnce` is
`Begin`, `ReadKey` for each key (the name is asked for after the lookup, and may
be gone or that of another interface), `Walked`, `ReadProc` (the errors, by
name) and `Report` (the differences, and the new `last_net_info_`). The packets of
an interface are numbered by its counter: the ghost `reported` holds those that
were in a rate, which are the ones between the cached count and that of the
sample (`Rated`; none for a first sample, which is reported as zero), `twice` the
interfaces of which one was in two, `inherited` those that were renamed to a name
that was cached or sampled. `Difference` is what the code computes before it wraps.

### DiskMonitor and Scores (disk_monitor.cpp; performance_server.cpp 198-372)

`DiskMonitor`: `Line` is what the kernel prints, `Parse` the extraction by
position, `UpdateOnce` one round over all lines at a time that may be any, since
`::time` follows a clock that can be set; `Begin`, `CompleteRead`, `CompleteWrite`,
`Merge`, `Replace` are the kernel, whose milliseconds have 32 bits (`U32`).

`Scores` has the formulas, in twentieths of a point instead of floats, and a
report that changes by one step of one metric at a time, so that action
properties can say how the score answers. The two modules have nothing to do
with each other; `MCReports` checks them in one run, one after the other: the
disk moves only while the report is the ideal one, the report only while the
disk is fresh.

## 3. Runs

| Run | Instance | What it shows |
|---|---|---|
| `server_safety` | 2 agents with distinct names, 1 poller, 2 handlers, 2 samples each | responses hold samples that were sent, never the default entry of `operator[]`; an agent answered OK has an entry; only a handler whose caller gave up moves an entry back; refinement of `AtomicStore`; once `Shutdown()` is called the process ends |
| `registry_safety` | 2 ingesters, 2 hosts, 2 seconds, 2 faults | cached ids are rows; a host has two rows only if it was created in a race or after a failed SELECT; every ingester resolves every host in the end |
| `ingester_safety` | 2 hosts with two CPU rows and a memory row each, 1 fault, 2 answered fetches of new or repeated samples | one thread on an open connection; a failure costs no other table or host; rows belong to their host; an answer is stored once; summaries have their own host's score |
| `ingester_live` | 1 host, 2 faults | SIGINT or SIGTERM ends the process wherever its threads are |
| `cpu_safety` | 2 CPUs, counters that grow once, from 33 to 70, floats of 6 bits | no difference wraps; no tick is reported twice; a slot left alone gives percentages that add up within the error of the floats |
| `kmod_safety` | each of the 3 modules, 2 loads, 2 users, 2 CPUs, 2 soft interrupts each on counters of 1 bit, 1 fault | the callback hits freed memory only after a failed registration; mapped buffers are allocated and, but for `cpu_load`, written; CPUs that stay online are reported; counts go back only when they wrap or are not written yet |
| `net_safety` | 2 agents in succession, 2 interface indexes, 2 names, 1 fault | every interface that gave no error carries the programs of the running agent only; half-attached ones and negative differences have the known causes only; no packet is reported twice but of an interface that was renamed to a cached name |
| `reports_safety` | 1 disk that may be replaced, 2 operations, milliseconds of 1 bit, 3 seconds; scores over the whole range of their inputs | differences are negative only for replaced disks and for milliseconds that wrapped; every read is reported once; parts of the score are bounded, monotone and without jumps |
| `pipeline_safety` | 2 agents, minutes of 2 units, hours of 2 minutes, 10 units, 1 fault | only rows of agents that were cut off are stale; every other agent has a row in every cycle; no row is inserted into an hour that was summarised |
| `registry_failed_select` | 1 ingester, 1 host | **violated** (`CreatesOnlyIfAbsent`): a failed SELECT creates a host that exists |
| `disk_columns` | 1 disk | **violated** (`WritesCounted`): `write_iops` counts merged reads |
| `summary_hourly` | 1 agent, hours of 3 minutes, no fault | **violated** (`EveryHourSummarised`): an hour gets no summary, as no store falls into the minute after it |

The three violations are disagreements between the code and what its own
comments say; `PROJECT.json` quotes the lines.

**Bounds.** `MaxSeq`, `MaxTime`, `MaxFaults`, `MaxFetch`, `MaxIrq`, `MaxLoads`,
`MaxRuns`, `MaxCount`, `MaxErrors`, `MaxOps`, `MaxSwaps`, `MaxTicks`, `MaxWork`,
`Top` bound counts and time; nothing else is bounded. Two handlers let an
abandoned handler overlap the next call of its agent; two samples per agent are
the least that can be applied out of order. Two ingesters and two faults give
every pair of overlapping creations with a lost answer, a restart or a refused
statement; two seconds are needed for ids that differ and one for ids that
collide. Two hosts with three rows and one fault put the fault in the middle of
a table, of a host and of a response; two fetches let main and the thread, or
two cycles, hold different data, and the second repeat samples of the first. The
ids of `ingester_safety` are made in one second, since ids of two seconds differ
only for a name that is created twice, which `registry_safety` is about;
`ingester_live` has two. Two CPUs let a callback write behind the reader
and ahead of it, and let hotplug change the number of slots in between; counters
that grow once let every load fall before or after the store that matters, and
33 and 70 have sums that six bits cannot hold. In `kmod_safety` CPU 1 is the one
that stays online, so that a CPU below it can be missing, and two soft interrupts
make a count of one bit wrap. In `reports_safety` `MaxOps` bounds reads, merges
and writes of a disk together: two are enough to wrap milliseconds of one bit. Two
loads let a buffer follow another, and an orphaned timer meet the second. Two
agents and interfaces let one inherit the hooks of the other, and a name pass
from one interface to another. Ten units hold two and a half hours and three
cycles or more, so that a fault before, in and after the minute of a summary is
among them. What the proofs cover holds without the bounds on processes, data
and time, those on the scores without the bound on their inputs and for any
number of CPUs, disks and interfaces; what is only checked is liveness.

**Deadlock** is checked for the server and for `CpuStatShm`, whose timer and agent
never stop. In the others a system that used up a bound, or a process that has
ended, has nothing left to do.

**Fairness.** `server_safety`: threads that can run do run, and so does the
waiting loop of `InitServer`; nothing is assumed of clients, signals or crashes,
and the lock needs no fairness of its own because a draining server accepts no
new calls. `registry_safety`: MySQL answers every statement, and
`storeToDatabase` asks again for every host in every cycle (strong fairness,
since calls for other hosts come in between). `ingester_live`: both threads
run, and every RPC and statement returns with an answer or an error. No
deadline in the code guarantees the latter: with a server that accepts a call
and never answers the join waits as long.

**Known facts that no run is spent on.** Machines with one user name share an
entry of the table (server.cpp:13). Shares of a CPU need not add up when the
callback writes while they are computed (cpu_stat_monitor.cpp:36-80), nor, after
days of uptime, when it does not: the sums of nanoseconds become floats, which
are then tens of milliseconds apart, so that busy and idle time differ from the
total and a share can be above 100. Soft interrupt counts wrap at 2^32
(cpu_softirq_monitor_kmod.c:48-57): those of a busy interface within days. So do
the milliseconds of /proc/diskstats, of which two are read into rated fields
(disk_monitor.cpp:15-18): the difference is that of 64 bits, and one report has an
enormous rate. An interface that gets back a name it had before has packets
reported twice, and one that comes under the name of another is compared with its
count (net_monitor.cpp:578). One sample of an agent is stored as often as it is
answered. The number
of online CPUs is taken for the range of their numbers (cpu_stat_monitor.cpp:14).
README.md:118 says the ingester pulls and stores every 60 seconds; without a
connection at the start it never does (performance_server.cpp:775). README.md:59 describes the soft interrupt
report as made CPU by CPU; an offline CPU ends it. Interfaces that come after
the start, or beyond the one answer of 4096 bytes, are not counted. Filters of
other programs are flushed from an interface. The comments on the scores differ
from the formulas at their ends: performance_server.cpp:211 says a load under
2.0 gets 100 points, the code takes 10 per unit; line 290 says 100 ms, the code
gives 0 at 50. An idle machine has at most 80 points, since an idle network has
none. The first sample of an agent has no percentages, and is stored with
`steal_percent` 100 (104-110). The rows of a dead agent keep the
views of `sql` looking current. A row at exactly the full hour is counted in two
summaries.

## 4. Proofs

All are checked by TLAPS for arbitrary sets and bounds, from the named
assumptions on the constants (`*Assumption`: special values are not members of
the data sets, agents are not pollers, there is a CPU, a minute is not empty).
Each follows the same argument: `Init => IInv`, every action preserves `IInv`,
`IInv` gives the property; TLC has checked the invariants too. The conjuncts of
`IInv` stand, with their reasons, at the end of the modules.

*RpcServer.* `Invariance` rests on: a handler knows its caller and its request
(`HandlersConsistent`); a live handler has the newest sample of its caller
(`CallsConsistent`), which is what makes lateness the only source of
regression; whoever is between lock and unlock is the holder of `mtx_`
(`MutualExclusion`), so that no one else touches the map meanwhile; a default
entry exists only under the lock (`MapConsistent`); the response so far is the
map less what is still to be visited (`CopyConsistent`), which is what makes
the whole loop look like one instant; a report past its assignment is listed
(`ReportsListed`). From it: `TypeCorrect`, `LockExcludes`, `ResponsesReal`,
`AckedAgentsListed` (from the further hypothesis `NamesTellApart`),
`LateHandlersOnly` (an action property) and `Refinement`: every step is a step of
`AtomicStore` or leaves its variables alone. `SetInsert` is a stutter because
the abstraction hides a default entry; `SetAssign` and `GetReturn` are the
instants at which calls take effect.

*HostRegistry.* `CacheSound` needs that an id is made of the name it is cached
under and was seen in the table (`CallConsistent`). `UniqueUnlessRaced` is not
inductive: `SoleCreator` adds that until a name is raced for, there is at most
one creator or orphan for it and then no row. From it: `TypeCorrect`,
`CacheIsSound`, `HostsAreUnique` and `IngestersAgree` (all ingesters that know
such a host use one id). For one ingester there is a stronger statement,
`OneIngesterIsEnough`: it takes a failed call to give a name a second row. Its
invariant (`Undisturbed`) says that as long as nothing has failed no name is raced
for and no insert goes on without its caller.

*PerfClient.* The two threads never overlap in a call, because main starts the
thread after its own calls and joins it before it destroys the client
(`Control`). An id that was cached stays (`CallFresh`), so the host of a store
has the same id at its rows and at its summary. A fetch that is answered has a
rank of its own, so no row of it exists when its store begins, and what is
stored or lost since then is exactly what lies behind the position of the loops
(`StoredSoFar`): `StoredOncePerFetch` and `StoreAccounted` are the two ends of that. The
search for the score never passes the host itself (`StorePosition`), so the score
is never NULL. The registry is a step of `HostRegistry` with one client or none
(`RegistryStep`). From the invariant: `TypeCorrect`, `ConnectionIsSafe`,
`StoresAccounted`, `RowsAreAttributed`, `AnswersStoredOnce`, `SummariesScored`.
`UsesRegistry` makes the composition explicit: seen in the variables of the
registry, the ingester with both its threads is one client of `HostRegistry`,
whose other failures count and do nothing else. The invariants of
`HostRegistry_proofs` thus hold of it, by instantiating that module:
`HostsStayUnique`.

*Pipeline.* The entry of an agent that has been up for a unit is of this unit
(`Entries`), and the data of a cycle are not older than the cycle
(`DataOfCycle`): hence `FreshRows`. `RegularRows` needs, for every phase of the
ingester, what rows a calm agent has by now or is still going to have in this
cycle (`RowsDue`). `SummariesAreSealed` needs that summaries are of hours that
are over (`SummaryOfPast`), since rows carry the present. All for minutes and
hours of any length. `HitHoursAreSummarised` is what is true of the claim that
`summary_hourly` refutes: a row that falls into the first minute after an hour,
while there is time to read the clock again in that minute, brings the summary
of that hour before the cycle is over, if nothing fails meanwhile
(`SummariesDue` says in which phase it still has to come).

*CpuStatShm.* `NeverWraps` rests on two facts about time: what is in the map is
not newer than the page (`MapIsOld`), and neither is what was loaded
(`LoadsAreOld`); the end of a slot's percentages forgets the loads (`Locals`), so
the copy cannot put an older value into the map. `CountedOnce` needs that ticks
are reported up to the map only, but for the slot between its percentages and
its copy (`CountedInMap`). `UndisturbedConsistent` needs what each partial sum is
while the slot does not change (`UndisturbedLoads`), and of the floats only that
they round monotonically within one part in `Precision` (`FloatAssumption`): the
two sums, their difference and the share are each off by little, and the errors
add up to five parts at most. From the invariant:
`TypeCorrect`, `DifferencesNeverWrap`, `TicksAreCountedOnce`,
`UndisturbedReportsAddUp`.

*SoftIrqShm.* Where the module stands says what is allocated, armed, registered
and written (`Lifecycle`, `Written`), and files exist between registration and
removal only. `SteadyCpusReported` needs what a pass of the callback has written
behind its position (`Passes`, `Named`) and what the reader has passed
(`Cycle`); `CountsGoForward` that a slot stands for a number of soft interrupts
not behind the one reported from it, so that the 32-bit count goes back only past a
multiple of 2^32 (`Counted`). Also `TypeCorrect`, `CallbackIsSafe`,
`MappedBuffersLive`, `OnlyLoadIsUnwritten`.

*NetMonitor.* `ThreeParts` splits the invariant. Hooks: what the constructor has
done to the interface at hand (`Attaching`, `Undoing`) and to those behind it
(`PastKept`), and that no filter is of a later agent (`Fresh`), give
`AttachIsComplete` and `HalfAttachedIsExplained`. Counters: samples are of
counters as they were (`SamplesSound`), and those of a cycle are not before
those of the last (`SamplesInOrder`): `WrapsAreExplained`. Packets: an interface is
sampled once a cycle (`SampledOnce`), nothing was reported above its sample
(`ReportedCounted`), and one that inherited no name is compared with nothing or
with its own count, which is above all that was reported of it
(`ComparedWithOwn`): `PacketsReportedOnce`. Also `TypeCorrect`.

*DiskMonitor* (in `Reports_proofs`). What is cached is the last sample (`Latest`), disks follow each
other in one order (`DisksInOrder`), and of one disk no column that makes a rate
goes back, but for milliseconds that passed a multiple of 2^32 (`Forward`,
`Remainder`), which is a fact about which columns `Parse` finds where
(`Places`): `DiskWrapsAreExplained`, `ReadsReportedOnce`, of the monitor on its
own and hence of the run (`MonitorsDisks`).

*Scores* (in `Reports_proofs`). An average is a total over a list of any length,
so that its bounds are an induction over data, and induction theorems over a
predicate are out of this prover's reach. What works in their place is a shortest
counterexample: initial segments `0 .. n` are well-founded under strict
inclusion (`Least`, `UpTo`). `TotalBounded` and `TotalClose` are the two
inductions that are needed: a total of terms between `lo` and `hi` is between
`lo * n` and `hi * n`, and two totals of terms that differ by at most `gap` differ by
at most `gap * n`. `AverageBounded` and `AverageClose` divide by `n`. The rest is
arithmetic of the formulas, one lemma for a bound (`*Scored`), one for
monotony (`Worse*`) and one for a step (`Near*`) of each part. Of reports as
such, `ScoresOfAnyReport` and `WorseIsNotHigher` hold for any number of CPUs, disks
and interfaces and for any values, and the latter for reports any number of
steps apart; they show that the points of a part and the weighted sum never
need the cuts of the code. Of the run, from the invariant `ScoresType`
(`ReportTyped`): `PartsAreBounded`, and the action properties `WorseNeverRaises`
and `ScoresDoNotJump`.

Only model-checked: liveness (`ShutdownCompletes`, `AllResolve`,
`StopLeadsToExit`), which is out of reach of this prover. The three runs that
expect a violation have nothing to prove, but for what the last theorem of
*Pipeline* leaves of one claim.

## 5. Not modelled

- Memory: `/proc/meminfo` is parsed anew in each cycle and nothing is kept.
- Generated code: `bpf/vmlinux.h` (the kernel's types, 150 000 of the
  repository's 155 000 lines) and `include/net_monitor.skel.h`. What is modelled
  is a small share of all lines for this reason.
- The manual test programs, which assert nothing.
- Parsing of netlink messages, of `/proc/net/dev` and of `/etc/passwd`, the text
  of SQL statements, all printing.
- The mapping beyond the first page: the kernel maps the frames that follow the
  first one of a vmalloc'ed buffer, which are anything (slots of CPU 36 and up, of
  soft interrupts 73 and up).
- The mutex that the timer callback takes in interrupt context, a rule of the
  kernel about contexts and not a state of the module.
- Floats of the scores and of the rates: their rounding.
- `net_monitor.cpp:381-385`, an allocation that fails when the program is opened;
  the capacity of the BPF map (128 interfaces); the destructor of `NetMonitor`,
  which no path of `main` reaches.
- Views, indexes and generated columns of the schema; time zones: in those with a
  half hour the full hour of the epoch (performance_server.cpp:838) is not that
  of the local time (662), and the summary comes half an hour late.
