----------------------------- MODULE NetMonitor -----------------------------
(***************************************************************************)
(* NetMonitor::UpdateOnce on top of TcHooks: the programs on the           *)
(* interfaces count packets in the map if_stats of their agent, by index;  *)
(* every cycle sums the map up by name, merges the errors of               *)
(* /proc/net/dev, and reports differences with the last cycle.             *)
(*                                                                         *)
(* One counter stands for the four of if_counters, one for the four of     *)
(* /proc.  Each CPU adds to a slot of its own, made by whichever packet    *)
(* comes first (BPF_NOEXIST), so a packet is one step.                     *)
(***************************************************************************)
EXTENDS TcHooks

CONSTANTS MaxCount,   \* bound: packets counted on an interface
          MaxErrors,  \* bound: its errors
          NoSample    \* a name that is not in a table

Sample == [idx : Ifs, count : Nat]

ASSUME NetMonitorAssumption == MaxCount \in Nat /\ MaxErrors \in Nat /\ NoSample \notin Sample

VARIABLES
    if_stats,       \* [Ifs -> 0 .. MaxCount]: counters of the agent's map
    errors,         \* [Ifs -> 0 .. MaxErrors]: counters of the kernel
    visited,        \* keys of the map that this cycle has passed
    ebpf_stats,     \* [Names -> Sample \cup {NoSample}]
    proc_stats,     \* [Names -> Sample \cup {NoSample}]
    last_net_info_, \* [Names -> [ebpf, proc] or NoSample]: the last cycle
    reported,       \* ghost: [Ifs -> SUBSET Nat]: numbers of the packets in the rates so far
    twice,          \* ghost: interfaces of which a packet is in two of them
    inherited       \* ghost: interfaces renamed to a name that was in the tables

sampling == <<visited, ebpf_stats, proc_stats>>
rates == <<last_net_info_, reported, twice, inherited>>
netvars == <<if_stats, errors, sampling, rates>>
vars == <<hookvars, netvars>>

Empty == [n \in Names |-> NoSample]
Nothing == [idx |-> 0, count |-> 0]     \* err_in = 0 when /proc has no line

Init ==
    /\ HooksInit
    /\ if_stats = [i \in Ifs |-> 0]
    /\ errors = [i \in Ifs |-> 0]
    /\ visited = {}
    /\ ebpf_stats = Empty
    /\ proc_stats = Empty
    /\ last_net_info_ = Empty
    /\ reported = [i \in Ifs |-> {}]
    /\ twice = {}
    /\ inherited = {}

Forget ==
    /\ if_stats' = [i \in Ifs |-> 0]
    /\ visited' = {}
    /\ ebpf_stats' = Empty
    /\ proc_stats' = Empty
    /\ last_net_info_' = Empty
    /\ reported' = [i \in Ifs |-> {}]
    /\ twice' = {}
    /\ inherited' = {}

\* The map of an agent is gone with it.
Construct == (Start \/ Constructor) /\ UNCHANGED netvars
Die == Kill /\ Forget /\ UNCHANGED errors

InTables(n) == last_net_info_[n] # NoSample \/ ebpf_stats[n] # NoSample
InterfaceEvent ==
    /\ Interfaces
    /\ inherited' = inherited \cup {i \in Ifs : Present(i) /\ \E n \in Names \ {ifname[i]} : ifname'[i] = n /\ InTables(n)}
    /\ UNCHANGED <<if_stats, errors, sampling, last_net_info_, reported, twice>>

Running == pc \in {"idle", "walk", "proc", "report"}

\* Bug variant: BPF_ANY and one slot for all CPUs.  A packet that found no
\* entry overwrites the one that others have made and counted in since.
PacketRace(i) ==
    /\ Running
    /\ \E d \in Dirs : run \in filter[i][d]
    /\ \E c \in {1, if_stats[i] + 1} \cap 0 .. MaxCount : if_stats' = [if_stats EXCEPT ![i] = c]
    /\ UNCHANGED <<hookvars, errors, sampling, rates>>

\* on_ingress, on_egress.  What passes while the agent is still busy with the
\* hooks is as if it came just after.
Packet(i) ==
    /\ Running
    /\ \E d \in Dirs : run \in filter[i][d]
    /\ if_stats[i] < MaxCount
    /\ if_stats' = [if_stats EXCEPT ![i] = @ + 1]
    /\ UNCHANGED <<hookvars, errors, sampling, rates>>

Error(i) ==
    /\ Running /\ Present(i)
    /\ errors[i] < MaxErrors
    /\ errors' = [errors EXCEPT ![i] = @ + 1]
    /\ UNCHANGED <<hookvars, if_stats, sampling, rates>>

------------------------------------------------------------------------------
(* UpdateOnce.                                                             *)

At(s, next) ==
    /\ pc = s
    /\ pc' = next
    /\ UNCHANGED <<kernel, run, locals, faults, before, hit>>

Begin == At("idle", "walk") /\ UNCHANGED netvars

\* Bug variant: the sample of an interface without a name is kept as well.
ReadKeyGone(i) ==
    /\ pc = "walk"
    /\ if_stats[i] > 0
    /\ i \notin visited
    /\ visited' = visited \cup {i}
    /\ ebpf_stats' = [n \in Names \cup {ifname[i]} |->
                        IF n = ifname[i] THEN [idx |-> i, count |-> if_stats[i]] ELSE ebpf_stats[n]]
    /\ UNCHANGED <<hookvars, if_stats, errors, proc_stats, rates>>

\* A key is looked up; its name is asked for next, and may be gone.
ReadKey(i) ==
    /\ pc = "walk"
    /\ if_stats[i] > 0
    /\ i \notin visited
    /\ visited' = visited \cup {i}
    /\ ebpf_stats' = IF Present(i)
                     THEN [ebpf_stats EXCEPT ![ifname[i]] = [idx |-> i, count |-> if_stats[i]]]
                     ELSE ebpf_stats
    /\ UNCHANGED <<hookvars, if_stats, errors, proc_stats, rates>>

\* The end of the map.  Nothing found: return.
Walked ==
    /\ \A i \in Ifs : if_stats[i] > 0 => i \in visited
    /\ At("walk", IF ebpf_stats = Empty THEN "idle" ELSE "proc")
    /\ visited' = {}
    /\ UNCHANGED <<if_stats, errors, ebpf_stats, proc_stats, rates>>

Lines == [n \in Names |->
            IF \E i \in Ifs : ifname[i] = n
            THEN LET i == CHOOSE j \in Ifs : ifname[j] = n IN [idx |-> i, count |-> errors[i]]
            ELSE NoSample]

\* proc_get_net_err_drop_stats; the file may not open.
ReadProc ==
    /\ \/ At("proc", "report") /\ proc_stats' = Lines
       \/ /\ pc = "proc" /\ pc' = "report"
          /\ faults < MaxFaults /\ faults' = faults + 1
          /\ proc_stats' = Empty
          /\ UNCHANGED <<kernel, run, locals, before, hit>>
    /\ UNCHANGED <<if_stats, errors, visited, ebpf_stats, rates>>

\* Merged by the names that the map has; no line means zero errors.
Current(n) ==
    [ebpf |-> ebpf_stats[n],
     proc |-> IF proc_stats[n] = NoSample THEN Nothing ELSE proc_stats[n]]

\* The numerators of the rates, before they are taken modulo 2^64.
Difference(n) ==
    IF last_net_info_[n] = NoSample
    THEN [traffic |-> 0, err |-> 0]
    ELSE [traffic |-> ebpf_stats[n].count - last_net_info_[n].ebpf.count,
          err |-> Current(n).proc.count - last_net_info_[n].proc.count]

Sampled == {n \in Names : ebpf_stats[n] # NoSample}

Compared == {n \in Sampled : last_net_info_[n] # NoSample}

\* The packets in the rate of a name: those that its interface has counted above
\* what is cached for the name.
Rated(n) == last_net_info_[n].ebpf.count + 1 .. ebpf_stats[n].count
RatedNames(i) == {n \in Compared : ebpf_stats[n].idx = i}
TakeStock ==
    /\ reported' = [i \in Ifs |-> reported[i] \cup UNION {Rated(n) : n \in RatedNames(i)}]
    /\ twice' = twice \cup
         {i \in Ifs : \E n \in RatedNames(i) :
            \E k \in Rated(n) : k \in reported[i] \/ \E m \in RatedNames(i) \ {n} : k \in Rated(m)}

\* Bug variant: the cache holds the first sample for ever.
ReportKeepsCache ==
    /\ At("report", "idle")
    /\ TakeStock
    /\ last_net_info_' = [n \in Names |-> IF n \in Sampled /\ last_net_info_[n] = NoSample
                                          THEN Current(n) ELSE last_net_info_[n]]
    /\ ebpf_stats' = Empty
    /\ proc_stats' = Empty
    /\ UNCHANGED <<if_stats, errors, visited, inherited>>

\* The entries of names that are no longer sampled stay.
Report ==
    /\ At("report", "idle")
    /\ TakeStock
    /\ last_net_info_' = [n \in Names |-> IF n \in Sampled THEN Current(n) ELSE last_net_info_[n]]
    /\ ebpf_stats' = Empty
    /\ proc_stats' = Empty
    /\ UNCHANGED <<if_stats, errors, visited, inherited>>

UpdateOnce == Begin \/ (\E i \in Ifs : ReadKey(i)) \/ Walked \/ ReadProc \/ Report
Traffic == \E i \in Ifs : Packet(i) \/ Error(i)

Next == Construct \/ Die \/ InterfaceEvent \/ Traffic \/ UpdateOnce

Spec == Init /\ [][Next]_vars

------------------------------------------------------------------------------
(* Properties.                                                             *)

TypeOK ==
    /\ ifname \in [Ifs -> Names \cup {Unborn, Gone}]
    /\ clsact \subseteq Ifs
    /\ filter \in [Ifs -> [Dirs -> SUBSET (Runs \cup {Other})]]
    /\ run \in 0 .. MaxRuns
    /\ Running \/ pc \in {"down", "unloaded", "hooks", "destroy_in", "destroy_out", "create_in",
                          "create_out", "attach_in", "attach_out", "undo"}
    /\ ifindex_map \subseteq Ifs
    /\ todo \subseteq ifindex_map
    /\ cur \in Ifs
    /\ hooks_created \subseteq Dirs
    /\ faults \in 0 .. MaxFaults
    /\ before \subseteq Ifs
    /\ hit \in [Ifs -> SUBSET {"destroy", "create", "attach"}]
    /\ if_stats \in [Ifs -> 0 .. MaxCount]
    /\ errors \in [Ifs -> 0 .. MaxErrors]
    /\ visited \subseteq Ifs
    /\ ebpf_stats \in [Names -> Sample \cup {NoSample}]
    /\ proc_stats \in [Names -> Sample \cup {NoSample}]
    /\ last_net_info_ \in [Names -> [ebpf : Sample, proc : Sample \cup {Nothing}] \cup {NoSample}]
    /\ reported \in [Ifs -> SUBSET Nat]
    /\ twice \subseteq Ifs /\ inherited \subseteq Ifs

\* Whatever an earlier agent left behind, and whenever it was killed, the
\* programs of the new one are in the end the only ones on every interface that
\* it found and that did not answer a call with an error: no packet is missed
\* and none goes to the map of a dead agent (net_monitor.cpp:438-491).
Visited == {i \in ifindex_map \ todo : Present(i) /\ pc = "hooks"}
AttachComplete ==
    \A i \in Visited : hit[i] = {} => \A d \in Dirs : filter[i][d] = {run}

\* The error paths undo what was done, so that no interface is counted in one
\* direction only, unless a destroy failed as well or the qdisc was there
\* before: only hooks that were created are destroyed, and the filter of the
\* other direction stays (net_monitor.cpp:476-487).
HalfAttachedExplained ==
    \A i \in Visited :
       (run \in filter[i]["in"] <=> run \notin filter[i]["out"]) => i \in before \/ "destroy" \in hit[i]

\* The difference of two samples of a name is negative, and wraps in 64 bits,
\* only when the name has passed to another interface between them, or, for
\* errors, when /proc/net/dev had no line of that name (net_monitor.cpp:561-599).
WrapsExplained ==
    pc = "report" =>
       \A n \in Compared :
          /\ Difference(n).traffic < 0 => ebpf_stats[n].idx # last_net_info_[n].ebpf.idx
          /\ Difference(n).err < 0 => Current(n).proc.idx # last_net_info_[n].proc.idx

\* However many cycles miss an interface or return early, and whichever
\* interfaces come under an old name, no packet is reported in two cycles or
\* under two names, except of an interface that was renamed to a name that is
\* cached: entries are never dropped, and it is compared with the count of
\* another interface, or with its own of long ago (net_monitor.cpp:578, 636).
ReportedOnce == twice \subseteq inherited

------------------------------------------------------------------------------
(* What makes them inductive.                                              *)

Working == pc \in {"destroy_in", "destroy_out", "create_in", "create_out", "attach_in", "attach_out", "undo"}

\* Nothing is found before the first start.  An index that was found is never
\* handed out again.
FoundKept ==
    /\ run = 0 => ifindex_map = {}
    /\ \A i \in ifindex_map : ifname[i] # Unborn
    /\ Working => cur \in ifindex_map \ todo

\* No filter is of an agent to come, and none of this one where it has not been;
\* there, a qdisc is from before.
Fresh ==
    /\ \A i \in Ifs, d \in Dirs : filter[i][d] \subseteq (1 .. run) \cup {Other}
    /\ \A i \in todo : i \in clsact => i \in before
    /\ \A i \in todo, d \in Dirs : run \notin filter[i][d]

\* The interface at hand, after each call, if none has failed ...
Attaching ==
    Working /\ Present(cur) /\ hit[cur] = {} =>
       /\ pc # "undo"
       /\ pc = "destroy_out" => filter[cur]["in"] = {}
       /\ pc \in {"create_in", "create_out", "attach_in"} => \A d \in Dirs : filter[cur][d] = {}
       /\ pc = "attach_out" => filter[cur]["in"] = {run} /\ filter[cur]["out"] = {}

\* ... and what an error path can rely on: the hook of the first direction is
\* one that was created, if there was no qdisc.
Undoing ==
    Working /\ Present(cur) /\ cur \notin before =>
       /\ run \notin filter[cur]["out"]
       /\ pc \notin {"attach_out", "undo"} => run \notin filter[cur]["in"]
       /\ pc \in {"destroy_in", "destroy_out", "create_in"} => cur \notin clsact
       /\ pc \in {"create_out", "attach_in", "attach_out"} => "in" \in hooks_created
       /\ pc = "attach_out" => run \in filter[cur]["in"]
       /\ pc = "undo" => run \notin filter[cur]["in"] \/ "in" \in hooks_created \/ "destroy" \in hit[cur]

\* The interfaces that are done with, while others are not.
Past == IF pc = "hooks" THEN ifindex_map \ todo ELSE IF Working THEN ifindex_map \ (todo \cup {cur}) ELSE {}
PastKept ==
    \A i \in Past :
       Present(i) => /\ hit[i] = {} => \A d \in Dirs : filter[i][d] = {run}
                     /\ (run \in filter[i]["in"] <=> run \notin filter[i]["out"])
                           => i \in before \/ "destroy" \in hit[i]

\* A sample is not ahead of its counter, nor behind the last one of the same
\* interface.
SamplesSound ==
    \A n \in Names :
       /\ ebpf_stats[n] # NoSample => ebpf_stats[n].count <= if_stats[ebpf_stats[n].idx]
       /\ proc_stats[n] # NoSample => proc_stats[n].count <= errors[proc_stats[n].idx]
       /\ last_net_info_[n] # NoSample =>
            /\ last_net_info_[n].ebpf.count <= if_stats[last_net_info_[n].ebpf.idx]
            /\ last_net_info_[n].proc # Nothing =>
                 last_net_info_[n].proc.count <= errors[last_net_info_[n].proc.idx]

SamplesInOrder ==
    \A n \in Names : last_net_info_[n] # NoSample =>
       /\ ebpf_stats[n] # NoSample /\ ebpf_stats[n].idx = last_net_info_[n].ebpf.idx
            => last_net_info_[n].ebpf.count <= ebpf_stats[n].count
       /\ proc_stats[n] # NoSample /\ proc_stats[n].idx = last_net_info_[n].proc.idx
            => last_net_info_[n].proc.count <= proc_stats[n].count

\* An interface is sampled once a cycle, at most, and names are not shared.
SampleOf(i, n) == ebpf_stats[n] # NoSample /\ ebpf_stats[n].idx = i
SampledOnce ==
    /\ pc \notin {"walk", "proc", "report"} => ebpf_stats = Empty
    /\ pc = "walk" => \A i \in Ifs, n \in Names : SampleOf(i, n) => i \in visited
    /\ \A i \in Ifs : \A m, n \in Names : SampleOf(i, m) /\ SampleOf(i, n) => m = n
    /\ \A i, j \in Ifs : Present(i) /\ ifname[i] = ifname[j] => i = j

\* The reported packets of an interface are not above its counter or its sample.
ReportedCounted ==
    \A i \in Ifs :
       /\ reported[i] # {} => ifname[i] # Unborn
       /\ \A k \in reported[i] : k <= if_stats[i]
       /\ \A n \in Names : SampleOf(i, n) => ifname[i] # Unborn /\ \A k \in reported[i] : k <= ebpf_stats[n].count

\* What an interface that inherited no name is compared with, now or when it is
\* read: nothing, or its own count, which is above all that was reported.
OwnCache(i, n) ==
    last_net_info_[n] # NoSample =>
       last_net_info_[n].ebpf.idx = i /\ \A k \in reported[i] : k <= last_net_info_[n].ebpf.count
ComparedWithOwn ==
    \A i \in Ifs \ inherited, n \in Names :
       /\ SampleOf(i, n) /\ reported[i] # {} => OwnCache(i, n)
       /\ ifname[i] = n /\ reported[i] # {} => OwnCache(i, n) /\ (ebpf_stats[n] # NoSample => SampleOf(i, n))
       /\ ifname[i] = n /\ (\E m \in Names \ {n} : SampleOf(i, m)) => ~InTables(n)

IInv == /\ TypeOK /\ FoundKept /\ Fresh /\ Attaching /\ Undoing /\ PastKept /\ SamplesSound /\ SamplesInOrder
        /\ SampledOnce /\ ReportedCounted /\ ComparedWithOwn /\ ReportedOnce
==============================================================================
