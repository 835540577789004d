------------------------- MODULE NetMonitor_proofs -------------------------
(***************************************************************************)
(* The safety properties of NetMonitor, for any number of interfaces,      *)
(* names, starts, packets and failures.                                    *)
(***************************************************************************)
EXTENDS NetMonitor, TLAPS

CyclePcs == {"idle", "walk", "proc", "report"}
HookPcs == {"down", "unloaded", "hooks", "destroy_in", "destroy_out", "create_in",
            "create_out", "attach_in", "attach_out", "undo"}
Filters == SUBSET (Runs \cup {Other})

\* The parts of the invariant: what TcHooks works on, what is counted, and what
\* is reported of it.
HookType ==
    /\ ifname \in [Ifs -> Names \cup {Unborn, Gone}]
    /\ clsact \subseteq Ifs
    /\ filter \in [Ifs -> [Dirs -> Filters]]
    /\ run \in 0 .. MaxRuns
    /\ pc \in CyclePcs \cup HookPcs
    /\ ifindex_map \subseteq Ifs
    /\ todo \subseteq ifindex_map
    /\ cur \in Ifs
    /\ hooks_created \subseteq Dirs
    /\ faults \in 0 .. MaxFaults
    /\ before \subseteq Ifs
    /\ hit \in [Ifs -> SUBSET {"destroy", "create", "attach"}]

HookInv == HookType /\ FoundKept /\ Fresh /\ Attaching /\ Undoing /\ PastKept

Last == [ebpf : Sample, proc : Sample \cup {Nothing}]

CountType ==
    /\ if_stats \in [Ifs -> 0 .. MaxCount]
    /\ errors \in [Ifs -> 0 .. MaxErrors]
    /\ visited \subseteq Ifs
    /\ ebpf_stats \in [Names -> Sample \cup {NoSample}]
    /\ proc_stats \in [Names -> Sample \cup {NoSample}]
    /\ last_net_info_ \in [Names -> Last \cup {NoSample}]
    /\ reported \in [Ifs -> SUBSET Nat]
    /\ twice \subseteq Ifs /\ inherited \subseteq Ifs

CountInv == CountType /\ SamplesSound /\ SamplesInOrder
OnceInv == SampledOnce /\ ReportedCounted /\ ComparedWithOwn /\ ReportedOnce

\* The invariant is that of the constructor with the hooks, that of the counters
\* and that of the reports.
LEMMA ThreeParts == /\ IInv <=> HookInv /\ CountInv /\ OnceInv
                    /\ IInv' <=> HookInv' /\ CountInv' /\ OnceInv'
<1>1. TypeOK <=> HookType /\ CountType
  BY DEF TypeOK, HookType, CountType, Running, CyclePcs, HookPcs, Filters, Last
<1>2. TypeOK' <=> HookType' /\ CountType'
  BY DEF TypeOK, HookType, CountType, Running, CyclePcs, HookPcs, Filters, Last
<1> QED
  BY <1>1, <1>2 DEF IInv, HookInv, CountInv, OnceInv

------------------------------------------------------------------------------
(* The hooks.                                                              *)

\* What the interface at hand must be like when the constructor leaves it.
LeftWell(i) ==
    Present(i) => /\ hit[i] = {} => \A d \in Dirs : filter[i][d] = {run}
                  /\ (run \in filter[i]["in"] <=> run \notin filter[i]["out"])
                        => i \in before \/ "destroy" \in hit[i]

\* A call on the interface at hand leaves all others alone.
LEMMA WorkKeepsHookInv ==
    ASSUME HookInv, Working, HookType',
           UNCHANGED <<ifname, run, ifindex_map, todo, cur, before>>,
           \A i \in Ifs : i # cur => /\ filter'[i] = filter[i] /\ hit'[i] = hit[i]
                                     /\ i \in clsact' <=> i \in clsact,
           \A d \in Dirs : filter'[cur][d] \subseteq filter[cur][d] \cup {run},
           \/ pc' = "hooks" /\ LeftWell(cur)'
           \/ Working' /\ Attaching' /\ Undoing'
    PROVE  HookInv'
<1>1. cur \in Ifs /\ cur \in ifindex_map \ todo /\ ifindex_map \subseteq Ifs /\ todo \subseteq ifindex_map
  BY DEF HookInv, HookType, FoundKept
<1>2. FoundKept'
  BY DEF HookInv, FoundKept
<1>3. Fresh'
  <2>1. \A i \in Ifs, d \in Dirs : filter'[i][d] \subseteq (1 .. run) \cup {Other}
    <3> SUFFICES ASSUME NEW i \in Ifs, NEW d \in Dirs
                 PROVE  filter'[i][d] \subseteq (1 .. run) \cup {Other}
      OBVIOUS
    <3>1. filter[i][d] \subseteq (1 .. run) \cup {Other}
      BY DEF HookInv, Fresh
    <3>2. CASE i # cur
      BY <3>1, <3>2
    <3>3. CASE i = cur
      <4>1. filter'[i][d] \subseteq filter[i][d] \cup {run}
        BY <3>3
      <4>2. filter'[i][d] \subseteq Runs \cup {Other}
        BY DEF HookType, Filters
      <4>3. run \in filter'[i][d] /\ run # Other => run \in 1 .. run
        BY <4>2 DEF Runs
      <4> QED
        BY <3>1, <4>1, <4>3
    <3> QED
      BY <3>2, <3>3
  <2>2. \A i \in todo : i # cur /\ i \in Ifs
    BY <1>1
  <2>3. \A i \in todo : i \in clsact' => i \in before
    BY <2>2 DEF HookInv, Fresh
  <2>4. \A i \in todo, d \in Dirs : run \notin filter'[i][d]
    BY <2>2 DEF HookInv, Fresh
  <2> QED
    BY <2>1, <2>3, <2>4 DEF Fresh
<1>4. \A i \in Past : i # cur /\ i \in Ifs
  BY <1>1 DEF Past, Working
<1>5. \A i \in Past : LeftWell(i)'
  BY <1>4 DEF HookInv, PastKept, LeftWell, Present
<1>6. CASE pc' = "hooks" /\ LeftWell(cur)'
  <2>1. Past' \subseteq Past \cup {cur}
    BY <1>6 DEF Past, Working
  <2>2. \A i \in Past' : LeftWell(i)'
    BY <1>5, <1>6, <2>1
  <2>3. PastKept'
    BY <2>2 DEF PastKept, LeftWell, Present
  <2>4. Attaching' /\ Undoing'
    BY <1>6 DEF Attaching, Undoing, Working
  <2> QED
    BY <1>2, <1>3, <2>3, <2>4 DEF HookInv
<1>7. CASE Working' /\ Attaching' /\ Undoing'
  <2>1. Past' = Past
    BY <1>7 DEF Past, Working
  <2>2. PastKept'
    BY <1>5, <2>1 DEF PastKept, LeftWell, Present
  <2> QED
    BY <1>2, <1>3, <1>7, <2>2 DEF HookInv
<1> QED
  BY <1>6, <1>7

\* An agent at work is one that was started.
LEMMA AtWork == ASSUME HookInv, Working PROVE run \in Runs
<1>1. run \in 0 .. MaxRuns /\ run # 0 /\ MaxRuns \in Nat
  BY TcHooksAssumption DEF HookInv, HookType, FoundKept
<1> QED
  BY <1>1 DEF Runs

\* What a call that fails records.
LEMMA FailsType ==
    ASSUME HookInv, NEW what \in {"destroy", "create", "attach"}, Fails(what)
    PROVE  /\ faults' \in 0 .. MaxFaults /\ hit' \in [Ifs -> SUBSET {"destroy", "create", "attach"}]
           /\ what \in hit'[cur] /\ hit[cur] \subseteq hit'[cur]
           /\ \A i \in Ifs : i # cur => hit'[i] = hit[i]
<1>1. /\ faults \in 0 .. MaxFaults /\ hit \in [Ifs -> SUBSET {"destroy", "create", "attach"}] /\ cur \in Ifs
      /\ MaxFaults \in Nat
  BY TcHooksAssumption DEF HookInv, HookType
<1>2. /\ hit' = [hit EXCEPT ![cur] = @ \cup {what}]
      /\ faults' = faults \/ (faults < MaxFaults /\ faults' = faults + 1)
  BY DEF Fails
<1> QED
  BY <1>1, <1>2

\* What flushing one direction leaves.
LEMMA FlushType ==
    ASSUME HookInv, NEW d \in Dirs, filter' = Flushed(d)
    PROVE  /\ filter' \in [Ifs -> [Dirs -> Filters]]
           /\ \A i \in Ifs : i # cur => filter'[i] = filter[i]
           /\ \A e \in Dirs : filter'[cur][e] = IF e = d THEN {} ELSE filter[cur][e]
<1>1. filter \in [Ifs -> [Dirs -> Filters]] /\ cur \in Ifs
  BY DEF HookInv, HookType
<1>2. filter[cur] \in [Dirs -> Filters] /\ {} \in Filters
  BY <1>1 DEF Filters
<1>3. filter' = [filter EXCEPT ![cur][d] = {}]
  BY DEF Flushed
<1> QED
  BY <1>1, <1>2, <1>3

\* The calls of bpf_tc_hook_destroy before the hooks are created.
LEMMA DestroyFirstKeepsHookInv == ASSUME HookInv, DestroyFirst PROVE HookInv'
<1>0. \/ pc = "destroy_in" /\ pc' = "destroy_out" /\ Destroy("in", pc')
      \/ pc = "destroy_out" /\ pc' = "create_in" /\ Destroy("out", pc')
  <2>1. CASE pc = "destroy_in" /\ Destroy("in", "destroy_out")
    <3>1. pc' = "destroy_out"
      BY <2>1 DEF Destroy
    <3> QED
      BY <2>1, <3>1
  <2>2. CASE pc = "destroy_out" /\ Destroy("out", "create_in")
    <3>1. pc' = "create_in"
      BY <2>2 DEF Destroy
    <3> QED
      BY <2>2, <3>1
  <2> QED
    BY <2>1, <2>2 DEF DestroyFirst
<1>1. PICK d \in Dirs :
        /\ \/ pc = "destroy_in" /\ pc' = "destroy_out" /\ d = "in"
           \/ pc = "destroy_out" /\ pc' = "create_in" /\ d = "out"
        /\ Destroy(d, pc')
  <2>1. "in" \in Dirs /\ "out" \in Dirs
    BY DEF Dirs
  <2> QED
    BY <1>0, <2>1
<1>2. /\ \/ filter' = Flushed(d) /\ UNCHANGED <<faults, hit>>
         \/ Fails("destroy") /\ UNCHANGED filter
      /\ UNCHANGED <<ifname, clsact, agent, todo, cur, hooks_created>>
  BY <1>1 DEF Destroy
<1>3. Working /\ Working'
  BY <1>1 DEF Working
<1>4. UNCHANGED <<ifname, clsact, run, ifindex_map, before, todo, cur, hooks_created>>
  BY <1>2 DEF agent
<1>5. pc' \in CyclePcs \cup HookPcs
  BY <1>1 DEF HookPcs
<1>6. CASE filter' = Flushed(d) /\ UNCHANGED <<faults, hit>>
  <2>1. HookType'
    BY <1>4, <1>5, <1>6, FlushType DEF HookInv, HookType
  <2>2. \A e \in Dirs : filter'[cur][e] = IF e = d THEN {} ELSE filter[cur][e]
    BY <1>6, FlushType
  <2>3. Attaching'
    BY <1>1, <1>3, <1>4, <1>6, <2>2 DEF HookInv, Attaching, Present, Dirs
  <2>4. Undoing'
    BY <1>1, <1>3, <1>4, <1>6, <2>2 DEF HookInv, Undoing, Present, Dirs
  <2>5. \A i \in Ifs : i # cur => filter'[i] = filter[i] /\ hit'[i] = hit[i] /\ (i \in clsact' <=> i \in clsact)
    BY <1>4, <1>6, FlushType
  <2>6. \A e \in Dirs : filter'[cur][e] \subseteq filter[cur][e] \cup {run}
    BY <2>2
  <2> QED
    BY <1>3, <1>4, <2>1, <2>3, <2>4, <2>5, <2>6, WorkKeepsHookInv
<1>7. CASE Fails("destroy") /\ UNCHANGED filter
  <2>1. HookType'
    BY <1>4, <1>5, <1>7, FailsType DEF HookInv, HookType
  <2>2. hit'[cur] # {}
    BY <1>7, FailsType
  <2>3. Attaching'
    BY <1>4, <2>2 DEF Attaching
  <2>4. Undoing'
    BY <1>1, <1>3, <1>4, <1>7 DEF HookInv, Undoing, Present
  <2>5. \A i \in Ifs : i # cur => filter'[i] = filter[i] /\ hit'[i] = hit[i] /\ (i \in clsact' <=> i \in clsact)
    BY <1>4, <1>7, FailsType
  <2> QED
    BY <1>3, <1>4, <1>7, <2>1, <2>3, <2>4, <2>5, WorkKeepsHookInv
<1> QED
  BY <1>2, <1>6, <1>7

\* A hook that is created, or that is there; or the interface is given up.
LEMMA CreateHooksKeepsHookInv == ASSUME HookInv, CreateHooks PROVE HookInv'
<1>1. PICK d \in Dirs : \E next, onError \in {"create_out", "attach_in", "hooks", "undo"} :
        /\ \/ pc = "create_in" /\ next = "create_out" /\ onError = "hooks" /\ d = "in"
           \/ pc = "create_out" /\ next = "attach_in" /\ onError = "undo" /\ d = "out"
        /\ Create(d, next, onError)
  BY DEF CreateHooks, Dirs
<1>2. PICK next, onError \in {"create_out", "attach_in", "hooks", "undo"} :
        /\ \/ pc = "create_in" /\ next = "create_out" /\ onError = "hooks" /\ d = "in"
           \/ pc = "create_out" /\ next = "attach_in" /\ onError = "undo" /\ d = "out"
        /\ Create(d, next, onError)
  BY <1>1
<1>3. UNCHANGED <<ifname, filter, run, ifindex_map, before, todo, cur>>
  BY <1>2 DEF Create, agent, kernel
<1>4. cur \in Ifs /\ Working
  BY <1>2 DEF HookInv, HookType, Working
<1>5. CASE /\ Present(cur) /\ pc' = next /\ clsact' = clsact \cup {cur} /\ UNCHANGED <<faults, hit>>
           /\ hooks_created' = IF cur \in clsact THEN hooks_created ELSE hooks_created \cup {d}
  <2>1. HookType'
    BY <1>2, <1>3, <1>4, <1>5 DEF HookInv, HookType, HookPcs
  <2>2. Working'
    BY <1>2, <1>5 DEF Working
  <2>3. Attaching'
    BY <1>2, <1>3, <1>4, <1>5, <2>2 DEF HookInv, Attaching, Present
  <2>4. Undoing'
    BY <1>2, <1>3, <1>4, <1>5, <2>2 DEF HookInv, Undoing, Present
  <2> QED
    BY <1>3, <1>4, <1>5, <2>1, <2>2, <2>3, <2>4, WorkKeepsHookInv
<1>6. CASE Fails("create") /\ pc' = onError /\ UNCHANGED <<clsact, hooks_created>>
  <2>1. HookType'
    BY <1>2, <1>3, <1>6, FailsType DEF HookInv, HookType, HookPcs
  <2>2. hit'[cur] # {} /\ \A i \in Ifs : i # cur => hit'[i] = hit[i]
    BY <1>6, FailsType
  <2>3. CASE pc = "create_in"
    <3>1. pc' = "hooks"
      BY <1>2, <1>6, <2>3
    <3>2. LeftWell(cur)'
      BY <1>3, <1>4, <2>2, <2>3 DEF HookInv, LeftWell, Undoing, Present
    <3> QED
      BY <1>3, <1>4, <1>6, <2>1, <2>2, <3>1, <3>2, WorkKeepsHookInv
  <2>4. CASE pc = "create_out"
    <3>1. pc' = "undo" /\ Working'
      BY <1>2, <1>6, <2>4 DEF Working
    <3>2. Attaching'
      BY <1>3, <2>2 DEF Attaching
    <3>3. Undoing'
      BY <1>3, <1>4, <1>6, <2>4, <3>1 DEF HookInv, Undoing, Present
    <3> QED
      BY <1>3, <1>4, <1>6, <2>1, <2>2, <3>1, <3>2, <3>3, WorkKeepsHookInv
  <2> QED
    BY <1>2, <2>3, <2>4
<1> QED
  BY <1>2, <1>5, <1>6 DEF Create, agent, kernel

\* A program in its place is the only one there, if no call has failed.
LEMMA AttachKeepsHookInv == ASSUME HookInv, AttachPrograms PROVE HookInv'
<1>1. PICK d \in Dirs : \E next \in {"attach_out", "hooks"} :
        /\ \/ pc = "attach_in" /\ next = "attach_out" /\ d = "in"
           \/ pc = "attach_out" /\ next = "hooks" /\ d = "out"
        /\ Attach(d, next)
  BY DEF AttachPrograms, Dirs
<1>2. PICK next \in {"attach_out", "hooks"} :
        /\ \/ pc = "attach_in" /\ next = "attach_out" /\ d = "in"
           \/ pc = "attach_out" /\ next = "hooks" /\ d = "out"
        /\ Attach(d, next)
  BY <1>1
<1>3. UNCHANGED <<ifname, clsact, run, ifindex_map, before, todo, cur, hooks_created>>
  BY <1>2 DEF Attach, agent, kernel
<1>4. /\ cur \in Ifs /\ Working /\ filter \in [Ifs -> [Dirs -> Filters]]
      /\ pc = "attach_in" \/ pc = "attach_out"
  BY <1>2 DEF HookInv, HookType, Working
<1>5. CASE /\ Present(cur) /\ filter[cur][d] \cap Runs = {} /\ pc' = next /\ UNCHANGED <<faults, hit>>
           /\ filter' = [filter EXCEPT ![cur][d] = filter[cur][d] \cup {run}]
  <2>1. run \in Runs
    BY <1>4, AtWork
  <2>2. filter[cur] \in [Dirs -> Filters] /\ filter[cur][d] \cup {run} \in Filters
    BY <1>4, <2>1 DEF Filters
  <2>3. /\ filter' \in [Ifs -> [Dirs -> Filters]]
        /\ \A i \in Ifs : i # cur => filter'[i] = filter[i]
        /\ \A e \in Dirs : filter'[cur][e] = IF e = d THEN filter[cur][d] \cup {run} ELSE filter[cur][e]
    BY <1>4, <1>5, <2>2
  <2>4. HookType'
    BY <1>2, <1>3, <1>5, <2>3 DEF HookInv, HookType, HookPcs
  <2>5. \A e \in Dirs : filter'[cur][e] \subseteq filter[cur][e] \cup {run}
    BY <2>3
  <2>6. CASE pc = "attach_in"
    <3>1. pc' = "attach_out" /\ Working' /\ d = "in"
      BY <1>2, <1>5, <2>6 DEF Working
    <3>2. Attaching'
      BY <1>3, <1>4, <1>5, <2>3, <2>6, <3>1 DEF HookInv, Attaching, Present, Dirs
    <3>3. Undoing'
      BY <1>3, <1>4, <1>5, <2>3, <2>6, <3>1 DEF HookInv, Undoing, Present, Dirs
    <3> QED
      BY <1>3, <1>4, <1>5, <2>3, <2>4, <2>5, <3>1, <3>2, <3>3, WorkKeepsHookInv
  <2>7. CASE pc = "attach_out"
    <3>1. pc' = "hooks" /\ d = "out"
      BY <1>2, <1>5, <2>7
    <3>2. hit[cur] = {} => filter[cur]["in"] = {run} /\ filter[cur]["out"] = {}
      BY <1>4, <1>5, <2>7 DEF HookInv, Attaching
    <3>3. cur \notin before => run \in filter[cur]["in"]
      BY <1>4, <1>5, <2>7 DEF HookInv, Undoing
    <3>4. LeftWell(cur)'
      BY <1>3, <1>5, <2>3, <3>1, <3>2, <3>3 DEF LeftWell, Dirs
    <3> QED
      BY <1>3, <1>4, <1>5, <2>3, <2>4, <2>5, <3>1, <3>4, WorkKeepsHookInv
  <2> QED
    BY <1>4, <2>6, <2>7
<1>6. CASE pc' = "undo" /\ UNCHANGED <<filter, faults, hit>> /\ (Present(cur) => filter[cur][d] \cap Runs # {})
  <2>1. HookType' /\ Working'
    BY <1>3, <1>6 DEF HookInv, HookType, HookPcs, Working
  <2>2. Attaching'
    <3>1. Present(cur) => hit[cur] # {}
      BY <1>2, <1>4, <1>6 DEF HookInv, Attaching
    <3> QED
      BY <1>3, <1>6, <3>1 DEF Attaching, Present
  <2>3. Undoing'
    BY <1>3, <1>4, <1>6 DEF HookInv, Undoing, Present
  <2> QED
    BY <1>3, <1>4, <1>6, <2>1, <2>2, <2>3, WorkKeepsHookInv
<1>7. CASE pc' = "undo" /\ UNCHANGED filter /\ Fails("attach")
  <2>1. HookType' /\ Working'
    BY <1>3, <1>7, FailsType DEF HookInv, HookType, HookPcs, Working
  <2>2. hit'[cur] # {} /\ \A i \in Ifs : i # cur => hit'[i] = hit[i]
    BY <1>7, FailsType
  <2>3. Attaching'
    BY <1>3, <2>2 DEF Attaching
  <2>4. Undoing'
    BY <1>3, <1>4, <1>7 DEF HookInv, Undoing, Present
  <2> QED
    BY <1>3, <1>4, <1>7, <2>1, <2>2, <2>3, <2>4, WorkKeepsHookInv
<1> QED
  BY <1>2, <1>5, <1>6, <1>7 DEF Attach, kernel

\* The error path destroys what was created.
LEMMA UndoKeepsHookInv == ASSUME HookInv, Undo PROVE HookInv'
<1>1. pc = "undo" /\ UNCHANGED <<ifname, clsact, run, ifindex_map, before, todo, cur>>
  BY DEF Undo, agent
<1>2. Working /\ cur \in Ifs
  BY <1>1 DEF Working, HookInv, HookType
<1>3. Present(cur) => hit[cur] # {}
  BY <1>1, <1>2 DEF HookInv, Attaching
<1>4. CASE hooks_created = {} /\ pc' = "hooks" /\ UNCHANGED <<filter, hooks_created, faults, hit>>
  <2>1. HookType'
    BY <1>1, <1>4 DEF HookInv, HookType, HookPcs
  <2>2. LeftWell(cur)'
    BY <1>1, <1>2, <1>3, <1>4 DEF HookInv, Undoing, LeftWell, Present
  <2> QED
    BY <1>1, <1>2, <1>4, <2>1, <2>2, WorkKeepsHookInv
<1>5. ASSUME NEW d \in hooks_created, filter' = Flushed(d), UNCHANGED <<pc, faults, hit>>,
             hooks_created' = hooks_created \ {d}
      PROVE  HookInv'
  <2>1. d \in Dirs
    BY DEF HookInv, HookType
  <2>2. HookType' /\ Working'
    BY <1>1, <1>2, <1>5, <2>1, FlushType DEF HookInv, HookType, Working
  <2>3. \A e \in Dirs : filter'[cur][e] = IF e = d THEN {} ELSE filter[cur][e]
    BY <1>5, <2>1, FlushType
  <2>4. Attaching'
    BY <1>1, <1>3, <1>5 DEF Attaching, Present
  <2>5. Undoing'
    BY <1>1, <1>2, <1>5, <2>1, <2>3 DEF HookInv, Undoing, Present, Dirs
  <2>6. \A i \in Ifs : i # cur => filter'[i] = filter[i]
    BY <1>5, <2>1, FlushType
  <2>7. \A e \in Dirs : filter'[cur][e] \subseteq filter[cur][e] \cup {run}
    BY <2>3
  <2> QED
    BY <1>1, <1>2, <1>5, <2>2, <2>4, <2>5, <2>6, <2>7, WorkKeepsHookInv
<1>6. ASSUME NEW d \in hooks_created, Fails("destroy"), UNCHANGED <<pc, filter>>,
             hooks_created' = hooks_created \ {d}
      PROVE  HookInv'
  <2>1. HookType' /\ Working'
    BY <1>1, <1>2, <1>6, FailsType DEF HookInv, HookType, Working
  <2>2. "destroy" \in hit'[cur] /\ \A i \in Ifs : i # cur => hit'[i] = hit[i]
    BY <1>6, FailsType
  <2>3. Attaching'
    BY <1>1, <2>2 DEF Attaching
  <2>4. Undoing'
    BY <1>1, <1>2, <1>6, <2>2 DEF HookInv, Undoing, Present
  <2> QED
    BY <1>1, <1>2, <1>6, <2>1, <2>2, <2>3, <2>4, WorkKeepsHookInv
<1> QED
  BY <1>4, <1>5, <1>6 DEF Undo

\* Between two interfaces nothing is at hand; the next one is as it was found.
LEMMA NextIfKeepsHookInv == ASSUME HookInv, NEW i \in Ifs, NextIf(i) PROVE HookInv'
<1>1. /\ pc = "hooks" /\ i \in todo /\ todo' = todo \ {i} /\ cur' = i /\ hooks_created' = {}
      /\ pc' = "destroy_in" /\ UNCHANGED <<ifname, clsact, filter, run, ifindex_map, before, faults, hit>>
  BY DEF NextIf, kernel, agent
<1>2. HookType'
  BY <1>1 DEF HookInv, HookType, HookPcs
<1>3. FoundKept'
  BY <1>1 DEF HookInv, HookType, FoundKept
<1>4. Fresh'
  BY <1>1 DEF HookInv, Fresh
<1>5. Attaching'
  BY <1>1 DEF Attaching
<1>6. Undoing'
  BY <1>1 DEF HookInv, Fresh, Undoing, Dirs
<1>7. PastKept'
  <2>1. Past' = Past
    BY <1>1 DEF Past, Working, HookInv, HookType
  <2> QED
    BY <1>1, <2>1 DEF HookInv, PastKept, Present
<1> QED
  BY <1>2, <1>3, <1>4, <1>5, <1>6, <1>7 DEF HookInv

\* A start finds interfaces that are there, and no filter of its own.
LEMMA StartKeepsHookInv == ASSUME HookInv, Start PROVE HookInv'
<1>1. /\ run < MaxRuns /\ run' = run + 1 /\ before' = clsact /\ todo' = ifindex_map'
      /\ ifindex_map' \in Found /\ pc' \in {"unloaded", "hooks"}
      /\ UNCHANGED <<ifname, clsact, filter, cur, hooks_created, faults, hit>>
  BY DEF Start, kernel
<1>2. run \in 0 .. MaxRuns /\ MaxRuns \in Nat /\ Other \notin Int
  BY TcHooksAssumption DEF HookInv, HookType
<1>3. run' \in 0 .. MaxRuns /\ run' # 0 /\ run' \in Int
  BY <1>1, <1>2
<1>4. \A i \in ifindex_map' : i \in Ifs /\ Present(i)
  BY <1>1 DEF Found
<1>5. HookType'
  BY <1>1, <1>3, <1>4 DEF HookInv, HookType, HookPcs
<1>6. FoundKept'
  BY <1>1, <1>3, <1>4, TcHooksAssumption DEF FoundKept, Working, Present
<1>7. Fresh'
  <2>1. \A i \in Ifs, d \in Dirs : filter[i][d] \subseteq (1 .. run) \cup {Other}
    BY DEF HookInv, Fresh
  <2>2. 1 .. run \subseteq 1 .. run' /\ run' \notin (1 .. run) \cup {Other}
    BY <1>1, <1>2
  <2>3. \A i \in Ifs, d \in Dirs : filter[i][d] \subseteq (1 .. run') \cup {Other} /\ run' \notin filter[i][d]
    BY <2>1, <2>2
  <2> QED
    BY <1>1, <1>4, <2>3 DEF Fresh
<1>8. Attaching' /\ Undoing'
  BY <1>1 DEF Attaching, Undoing, Working
<1>9. Past' = {}
  BY <1>1 DEF Past, Working
<1> QED
  BY <1>5, <1>6, <1>7, <1>8, <1>9 DEF HookInv, PastKept

\* The constructor is through, or the agent is killed; or a cycle goes on.
LEMMA EndKeepsHookInv ==
    ASSUME HookInv, UNCHANGED <<ifname, clsact, filter, run>>, faults' \in 0 .. MaxFaults,
           pc' \in CyclePcs \cup {"down"},
           \/ UNCHANGED <<ifindex_map, todo, cur, hooks_created, before, hit>>
           \/ ifindex_map' \in {{}, ifindex_map} /\ todo' = {} /\ NoLocals
    PROVE  HookInv'
<1>1. ~Working' /\ pc' # "hooks" /\ pc' \in CyclePcs \cup HookPcs
  BY DEF Working, CyclePcs, HookPcs
<1>2. HookType'
  <2>1. 1 \in Ifs \/ cur' = cur
    <3>1. cur \in 1 .. NIf /\ NIf \in Nat
      BY TcHooksAssumption DEF HookInv, HookType, Ifs
    <3> QED
      BY <3>1 DEF Ifs
  <2>2. CASE UNCHANGED <<ifindex_map, todo, cur, hooks_created, before, hit>>
    BY <1>1, <2>2 DEF HookInv, HookType
  <2>3. CASE ifindex_map' \in {{}, ifindex_map} /\ todo' = {} /\ NoLocals
    <3>1. cur' \in Ifs
      BY <2>1, <2>3 DEF NoLocals, HookInv, HookType
    <3>2. /\ hit' \in [Ifs -> SUBSET {"destroy", "create", "attach"}] /\ hooks_created' \subseteq Dirs
          /\ before' \subseteq Ifs
      BY <2>3 DEF NoLocals
    <3>3. ifindex_map' \subseteq Ifs /\ todo' \subseteq ifindex_map'
      BY <2>3 DEF HookInv, HookType
    <3> QED
      BY <1>1, <3>1, <3>2, <3>3 DEF HookInv, HookType
  <2> QED
    BY <2>2, <2>3
<1>3. FoundKept'
  BY <1>1 DEF HookInv, FoundKept
<1>4. Fresh'
  BY DEF HookInv, Fresh
<1>5. Attaching' /\ Undoing'
  BY <1>1 DEF Attaching, Undoing
<1>6. Past' = {}
  BY <1>1 DEF Past
<1> QED
  BY <1>2, <1>3, <1>4, <1>5, <1>6 DEF HookInv, PastKept

\* The constructor ends, with or without an exception: the filters stay as they are.
LEMMA ConstructedKeepsHookInv == ASSUME HookInv, Constructed PROVE HookInv'
<1>1. faults \in 0 .. MaxFaults /\ MaxFaults \in Nat
  BY TcHooksAssumption DEF HookInv, HookType
<1>2. faults' = faults \/ (faults < MaxFaults /\ faults' = faults + 1)
  BY DEF Constructed
<1>3. faults' \in 0 .. MaxFaults
  BY <1>1, <1>2
<1>4. /\ UNCHANGED <<ifname, clsact, filter, run>> /\ pc' \in CyclePcs \cup {"down"}
      /\ ifindex_map' \in {{}, ifindex_map} /\ todo' = {} /\ NoLocals
  BY DEF Constructed, kernel, CyclePcs
<1> QED
  BY <1>3, <1>4, EndKeepsHookInv

\* A kill leaves the kernel as it is and forgets what the process knew.
LEMMA KillKeepsHookInv == ASSUME HookInv, Kill PROVE HookInv'
<1>1. /\ UNCHANGED <<ifname, clsact, filter, run>> /\ faults' \in 0 .. MaxFaults /\ pc' = "down"
      /\ ifindex_map' = {} /\ todo' = {} /\ NoLocals
  BY DEF Kill, kernel, HookInv, HookType
<1> QED
  BY <1>1, EndKeepsHookInv

\* An interface that comes has an index that nobody found; the hooks of one that
\* goes are gone.
LEMMA InterfacesKeepHookInv == ASSUME HookInv, Interfaces PROVE HookInv'
<1>1. PICK i \in Ifs : RemoveIf(i) \/ \E n \in Names : AddIf(i, n) \/ RenameIf(i, n)
  BY DEF Interfaces
<1>2. UNCHANGED <<run, pc, ifindex_map, todo, cur, hooks_created, faults, before, hit>>
  BY <1>1 DEF RemoveIf, AddIf, RenameIf, locals
<1>3. /\ ifname \in [Ifs -> Names \cup {Unborn, Gone}] /\ filter \in [Ifs -> [Dirs -> Filters]]
      /\ ifindex_map \subseteq Ifs /\ todo \subseteq ifindex_map
      /\ Unborn \notin Names /\ Gone \notin Names /\ Unborn # Gone
  BY TcHooksAssumption DEF HookInv, HookType
<1>4. Past' = Past /\ (Working' <=> Working) /\ Past \subseteq ifindex_map
  BY <1>2 DEF Past, Working
<1>5. ASSUME RemoveIf(i) PROVE HookInv'
  <2>1. /\ ifname' = [ifname EXCEPT ![i] = Gone] /\ clsact' = clsact \ {i}
        /\ filter' = [filter EXCEPT ![i] = NoFilters]
    BY <1>5 DEF RemoveIf
  <2>2. NoFilters \in [Dirs -> Filters] /\ \A d \in Dirs : NoFilters[d] = {}
    BY DEF NoFilters, Filters
  <2>3. ifname' \in [Ifs -> Names \cup {Unborn, Gone}] /\ filter' \in [Ifs -> [Dirs -> Filters]]
    BY <1>3, <2>1, <2>2
  <2>4. \A j \in Ifs :
          /\ j # i => ifname'[j] = ifname[j] /\ filter'[j] = filter[j]
          /\ j = i => ifname'[j] = Gone /\ \A d \in Dirs : filter'[j][d] = {}
    BY <1>3, <2>1, <2>2
  <2>5. HookType'
    BY <1>2, <2>1, <2>3 DEF HookInv, HookType
  <2>6. FoundKept'
    BY <1>2, <1>3, <1>4, <2>4 DEF HookInv, FoundKept
  <2>7. Fresh'
    BY <1>2, <1>3, <2>1, <2>4 DEF HookInv, Fresh
  <2>8. \A j \in Ifs : Present(j)' => Present(j) /\ j # i
    BY <1>3, <2>4 DEF Present
  <2>9. cur \in Ifs
    BY DEF HookInv, HookType
  <2>10. Attaching' /\ Undoing'
    BY <1>2, <1>4, <2>1, <2>4, <2>8, <2>9 DEF HookInv, Attaching, Undoing
  <2>11. PastKept'
    BY <1>2, <1>3, <1>4, <2>4, <2>8 DEF HookInv, PastKept
  <2> QED
    BY <2>5, <2>6, <2>7, <2>10, <2>11 DEF HookInv
<1>6. ASSUME NEW n \in Names, AddIf(i, n) \/ RenameIf(i, n) PROVE HookInv'
  <2>1. ifname' = [ifname EXCEPT ![i] = n] /\ UNCHANGED <<clsact, filter>>
        /\ (ifname[i] = Unborn \/ Present(i))
    BY <1>6 DEF AddIf, RenameIf
  <2>2. \A j \in Ifs : ifname'[j] = IF j = i THEN n ELSE ifname[j]
    BY <1>3, <2>1
  <2>3. ifname' \in [Ifs -> Names \cup {Unborn, Gone}]
    BY <1>3, <2>1
  <2>4. HookType'
    BY <1>2, <2>1, <2>3 DEF HookInv, HookType
  <2>5. \A j \in ifindex_map : Present(j)' => Present(j)
    BY <1>3, <2>1, <2>2 DEF HookInv, FoundKept, Present
  <2>6. FoundKept'
    BY <1>2, <1>3, <1>4, <2>2 DEF HookInv, FoundKept
  <2>7. Fresh'
    BY <1>2, <2>1 DEF HookInv, Fresh
  <2>8. Working => cur \in ifindex_map
    BY DEF HookInv, FoundKept
  <2>9. Attaching' /\ Undoing'
    BY <1>2, <1>4, <2>1, <2>5, <2>8 DEF HookInv, Attaching, Undoing
  <2>10. PastKept'
    BY <1>2, <1>4, <2>1, <2>5 DEF HookInv, PastKept
  <2> QED
    BY <2>4, <2>6, <2>7, <2>9, <2>10 DEF HookInv
<1> QED
  BY <1>1, <1>5, <1>6

------------------------------------------------------------------------------
(* The counters.                                                           *)

\* What a table entry is made of.
LEMMA EntryTypes ==
    ASSUME CountInv, NEW n \in Names
    PROVE  /\ ebpf_stats[n] # NoSample => ebpf_stats[n].idx \in Ifs /\ ebpf_stats[n].count \in Nat
           /\ proc_stats[n] # NoSample => /\ proc_stats[n] \in Sample
                                          /\ proc_stats[n].idx \in Ifs /\ proc_stats[n].count \in Nat
           /\ last_net_info_[n] # NoSample =>
                /\ last_net_info_[n].ebpf.idx \in Ifs /\ last_net_info_[n].ebpf.count \in Nat
                /\ last_net_info_[n].proc.count \in Nat
                /\ \/ last_net_info_[n].proc = Nothing
                   \/ last_net_info_[n].proc # Nothing /\ last_net_info_[n].proc.idx \in Ifs
           /\ Nothing.idx = 0 /\ Nothing.count = 0 /\ 0 \notin Ifs
<1>1. ebpf_stats[n] # NoSample => ebpf_stats[n] \in Sample
  BY DEF CountInv, CountType
<1>2. proc_stats[n] # NoSample => proc_stats[n] \in Sample
  BY DEF CountInv, CountType
<1>3. last_net_info_[n] # NoSample => last_net_info_[n] \in Last
  BY DEF CountInv, CountType
<1>4. \A s \in Sample : s.idx \in Ifs /\ s.count \in Nat
  BY DEF Sample
<1>5. \A l \in Last : l.ebpf \in Sample /\ (l.proc \in Sample \/ l.proc = Nothing)
  BY DEF Last
<1>6. Nothing.idx = 0 /\ Nothing.count = 0 /\ 0 \notin Ifs /\ 0 \in Nat
  BY DEF Nothing, Ifs
<1> QED
  BY <1>1, <1>2, <1>3, <1>4, <1>5, <1>6

\* An agent that starts has empty tables.
LEMMA ForgetKeepsCountInv == ASSUME CountInv, Forget, UNCHANGED errors PROVE CountInv'
<1>1. 0 \in 0 .. MaxCount
  BY NetMonitorAssumption
<1>2. CountType'
  BY <1>1 DEF CountInv, CountType, Forget, Empty
<1>3. (SamplesSound /\ SamplesInOrder)'
  BY DEF Forget, Empty, SamplesSound, SamplesInOrder
<1> QED
  BY <1>2, <1>3 DEF CountInv

\* Counters only grow.
LEMMA TrafficKeepsCountInv ==
    ASSUME CountInv, UNCHANGED <<sampling, rates>>, NEW i \in Ifs,
           \/ if_stats[i] < MaxCount /\ if_stats' = [if_stats EXCEPT ![i] = @ + 1] /\ errors' = errors
           \/ errors[i] < MaxErrors /\ errors' = [errors EXCEPT ![i] = @ + 1] /\ if_stats' = if_stats
    PROVE  CountInv'
<1>1. /\ if_stats \in [Ifs -> 0 .. MaxCount] /\ errors \in [Ifs -> 0 .. MaxErrors]
      /\ MaxCount \in Nat /\ MaxErrors \in Nat
  BY NetMonitorAssumption DEF CountInv, CountType
<1>2. \A j \in Ifs : /\ if_stats[j] \in 0 .. MaxCount /\ errors[j] \in 0 .. MaxErrors
                     /\ if_stats'[j] \in 0 .. MaxCount /\ errors'[j] \in 0 .. MaxErrors
                     /\ if_stats[j] <= if_stats'[j] /\ errors[j] <= errors'[j]
  BY <1>1
<1>3. if_stats' \in [Ifs -> 0 .. MaxCount] /\ errors' \in [Ifs -> 0 .. MaxErrors]
  BY <1>1
<1>4. UNCHANGED <<visited, ebpf_stats, proc_stats, last_net_info_, reported, twice, inherited>>
  BY DEF sampling, rates
<1>5. CountType'
  BY <1>3, <1>4 DEF CountInv, CountType
<1>6. SamplesInOrder'
  BY <1>4 DEF CountInv, SamplesInOrder
<1>7. SamplesSound'
  <2> SUFFICES ASSUME NEW n \in Names
               PROVE /\ ebpf_stats[n] # NoSample => ebpf_stats[n].count <= if_stats'[ebpf_stats[n].idx]
                     /\ proc_stats[n] # NoSample => proc_stats[n].count <= errors'[proc_stats[n].idx]
                     /\ last_net_info_[n] # NoSample =>
                          /\ last_net_info_[n].ebpf.count <= if_stats'[last_net_info_[n].ebpf.idx]
                          /\ last_net_info_[n].proc # Nothing =>
                               last_net_info_[n].proc.count <= errors'[last_net_info_[n].proc.idx]
    BY <1>4 DEF SamplesSound
  <2>1. ebpf_stats[n] # NoSample => ebpf_stats[n].count <= if_stats'[ebpf_stats[n].idx]
    BY <1>2, EntryTypes DEF CountInv, SamplesSound
  <2>2. proc_stats[n] # NoSample => proc_stats[n].count <= errors'[proc_stats[n].idx]
    BY <1>2, EntryTypes DEF CountInv, SamplesSound
  <2>3. last_net_info_[n] # NoSample => last_net_info_[n].ebpf.count <= if_stats'[last_net_info_[n].ebpf.idx]
    BY <1>2, EntryTypes DEF CountInv, SamplesSound
  <2>4. last_net_info_[n] # NoSample /\ last_net_info_[n].proc # Nothing =>
          last_net_info_[n].proc.count <= errors'[last_net_info_[n].proc.idx]
    BY <1>2, EntryTypes DEF CountInv, SamplesSound
  <2> QED
    BY <2>1, <2>2, <2>3, <2>4
<1> QED
  BY <1>5, <1>6, <1>7 DEF CountInv

\* A counter is read.
LEMMA ReadKeyKeepsCountInv == ASSUME CountInv, NEW i \in Ifs, ReadKey(i) PROVE CountInv'
<1>1. /\ visited' = visited \cup {i} /\ UNCHANGED <<if_stats, errors, proc_stats, rates>>
      /\ ebpf_stats' = IF Present(i)
                       THEN [ebpf_stats EXCEPT ![ifname[i]] = [idx |-> i, count |-> if_stats[i]]]
                       ELSE ebpf_stats
  BY DEF ReadKey
<1> DEFINE new == [idx |-> i, count |-> if_stats[i]]
<1>2. if_stats[i] \in Nat
  BY NetMonitorAssumption DEF CountInv, CountType
<1>3. new \in Sample /\ new.idx = i /\ new.count = if_stats[i]
  BY <1>2 DEF Sample
<1>4. ebpf_stats \in [Names -> Sample \cup {NoSample}]
  BY DEF CountInv, CountType
<1>5. ebpf_stats' \in [Names -> Sample \cup {NoSample}]
  BY <1>1, <1>3, <1>4
<1>6. \A n \in Names : ebpf_stats'[n] = ebpf_stats[n] \/ ebpf_stats'[n] = new
  BY <1>1, <1>4
<1>7. CountType'
  BY <1>1, <1>5 DEF CountInv, CountType, rates
<1> HIDE DEF new
<1>8. SamplesSound'
  BY <1>1, <1>2, <1>3, <1>6 DEF CountInv, SamplesSound, rates
<1>9. SamplesInOrder'
  BY <1>1, <1>3, <1>6 DEF CountInv, SamplesSound, SamplesInOrder, rates
<1> QED
  BY <1>7, <1>8, <1>9 DEF CountInv

\* The end of the walk over the keys of the map touches no sample.
LEMMA WalkedKeepsCountInv == ASSUME CountInv, Walked PROVE CountInv'
<1>1. visited' = {} /\ UNCHANGED <<if_stats, errors, ebpf_stats, proc_stats, last_net_info_, reported, twice, inherited>>
  BY DEF Walked, rates
<1> QED
  BY <1>1 DEF CountInv, CountType, SamplesSound, SamplesInOrder

\* /proc/net/dev is read, or not.
LEMMA ReadProcKeepsCountInv == ASSUME CountInv, HookType, ReadProc PROVE CountInv'
<1>1. /\ proc_stats' \in {Lines, Empty}
      /\ UNCHANGED <<if_stats, errors, visited, ebpf_stats, last_net_info_, reported, twice, inherited>>
  BY DEF ReadProc, rates
<1>2. \A n \in Names : \/ Lines[n] = NoSample
                       \/ Lines[n] \in Sample /\ Lines[n].idx \in Ifs /\ Lines[n].count = errors[Lines[n].idx]
  <2> SUFFICES ASSUME NEW n \in Names
               PROVE  \/ Lines[n] = NoSample
                      \/ Lines[n] \in Sample /\ Lines[n].idx \in Ifs /\ Lines[n].count = errors[Lines[n].idx]
    OBVIOUS
  <2>1. CASE \E i \in Ifs : ifname[i] = n
    <3> DEFINE i == CHOOSE j \in Ifs : ifname[j] = n
    <3>1. i \in Ifs
      BY <2>1
    <3>2. errors[i] \in Nat
      BY <3>1, NetMonitorAssumption DEF CountInv, CountType
    <3>3. Lines[n] = [idx |-> i, count |-> errors[i]]
      BY <2>1 DEF Lines
    <3> QED
      BY <3>1, <3>2, <3>3 DEF Sample
  <2>2. CASE ~\E i \in Ifs : ifname[i] = n
    BY <2>2 DEF Lines
  <2> QED
    BY <2>1, <2>2
<1>3. \A n \in Names : \/ proc_stats'[n] = NoSample
                       \/ /\ proc_stats'[n] \in Sample /\ proc_stats'[n].idx \in Ifs
                          /\ proc_stats'[n].count = errors[proc_stats'[n].idx]
  BY <1>1, <1>2 DEF Empty
<1>4. proc_stats' \in [Names -> Sample \cup {NoSample}]
  <2>1. DOMAIN Lines = Names /\ DOMAIN Empty = Names /\ Lines = [n \in Names |-> Lines[n]]
        /\ Empty = [n \in Names |-> Empty[n]]
    BY DEF Lines, Empty
  <2> QED
    BY <1>1, <1>3, <2>1
<1>5. CountType'
  BY <1>1, <1>4 DEF CountInv, CountType
<1>6. \A i \in Ifs : errors[i] \in Nat
  BY NetMonitorAssumption DEF CountInv, CountType
<1>7. SamplesSound'
  BY <1>1, <1>3, <1>6 DEF CountInv, SamplesSound
<1>8. SamplesInOrder'
  <2> SUFFICES ASSUME NEW n \in Names, last_net_info_[n] # NoSample, proc_stats'[n] # NoSample,
                      proc_stats'[n].idx = last_net_info_[n].proc.idx
               PROVE  last_net_info_[n].proc.count <= proc_stats'[n].count
    BY <1>1 DEF CountInv, SamplesInOrder
  <2>1. last_net_info_[n].proc # Nothing
    BY <1>3, EntryTypes
  <2> QED
    BY <1>3, <2>1 DEF CountInv, SamplesSound
<1> QED
  BY <1>5, <1>7, <1>8 DEF CountInv

\* What a sampled name is cached with.
LEMMA CurrentTypes ==
    ASSUME CountInv, NEW n \in Sampled
    PROVE  /\ n \in Names /\ ebpf_stats[n] # NoSample /\ ebpf_stats[n] \in Sample
           /\ ebpf_stats[n].idx \in Ifs /\ ebpf_stats[n].count \in Nat
           /\ Current(n) \in Last /\ Current(n).ebpf = ebpf_stats[n]
           /\ Current(n).proc = Nothing \/ (proc_stats[n] # NoSample /\ Current(n).proc = proc_stats[n])
<1>1. n \in Names /\ ebpf_stats[n] # NoSample
  BY DEF Sampled
<1>2. ebpf_stats[n] \in Sample
  BY <1>1 DEF CountInv, CountType
<1>3. proc_stats[n] # NoSample => proc_stats[n] \in Sample
  BY <1>1, EntryTypes
<1> QED
  BY <1>1, <1>2, <1>3, EntryTypes DEF Current, Last

\* What a report adds to the packets of an interface.
LEMMA StockType ==
    ASSUME CountInv, TakeStock
    PROVE  /\ reported' \in [Ifs -> SUBSET Nat] /\ twice' \subseteq Ifs
           /\ \A i \in Ifs : reported'[i] = reported[i] \cup UNION {Rated(n) : n \in RatedNames(i)}
           /\ \A i \in Ifs : \A n \in RatedNames(i) : Rated(n) \subseteq Nat
<1>1. \A i \in Ifs : \A n \in RatedNames(i) : Rated(n) \subseteq Nat
  <2> SUFFICES ASSUME NEW i \in Ifs, NEW n \in RatedNames(i) PROVE Rated(n) \subseteq Nat
    OBVIOUS
  <2>1. n \in Names /\ ebpf_stats[n] # NoSample /\ last_net_info_[n] # NoSample
    BY DEF RatedNames, Compared, Sampled
  <2>2. ebpf_stats[n].count \in Nat /\ last_net_info_[n].ebpf.count \in Nat
    BY <2>1, EntryTypes
  <2> QED
    BY <2>2 DEF Rated
<1>2. reported \in [Ifs -> SUBSET Nat] /\ twice \subseteq Ifs
  BY DEF CountInv, CountType
<1>3. reported' = [i \in Ifs |-> reported[i] \cup UNION {Rated(n) : n \in RatedNames(i)}]
  BY DEF TakeStock
<1>4. \A i \in Ifs : reported[i] \cup UNION {Rated(n) : n \in RatedNames(i)} \in SUBSET Nat
  BY <1>1, <1>2
<1>5. twice' \subseteq Ifs
  BY <1>2 DEF TakeStock
<1> QED
  BY <1>1, <1>3, <1>4, <1>5

\* A cycle ends: its samples are the last ones.
LEMMA ReportKeepsCountInv == ASSUME CountInv, Report PROVE CountInv'
<1>1. /\ UNCHANGED <<if_stats, errors, visited, inherited>> /\ ebpf_stats' = Empty /\ proc_stats' = Empty
      /\ last_net_info_' = [n \in Names |-> IF n \in Sampled THEN Current(n) ELSE last_net_info_[n]]
      /\ TakeStock
  BY DEF Report
<1>2. \A n \in Names : n \notin Sampled => last_net_info_'[n] = last_net_info_[n]
  BY <1>1
<1>3. \A n \in Sampled : last_net_info_'[n] = Current(n)
  BY <1>1, CurrentTypes
<1>4. \A n \in Names : ebpf_stats'[n] = NoSample /\ proc_stats'[n] = NoSample
  BY <1>1 DEF Empty
<1>5. CountType'
  <2>1. \A n \in Names : last_net_info_'[n] \in Last \cup {NoSample}
    BY <1>2, <1>3, CurrentTypes DEF CountInv, CountType
  <2>2. last_net_info_' \in [Names -> Last \cup {NoSample}]
    <3>1. last_net_info_' = [n \in Names |-> last_net_info_'[n]]
      BY <1>1
    <3> QED
      BY <2>1, <3>1
  <2>3. ebpf_stats' \in [Names -> Sample \cup {NoSample}] /\ proc_stats' \in [Names -> Sample \cup {NoSample}]
    BY <1>1 DEF Empty
  <2> QED
    BY <1>1, <2>2, <2>3, StockType DEF CountInv, CountType
<1>6. SamplesSound'
  <2> SUFFICES ASSUME NEW n \in Names, last_net_info_'[n] # NoSample
               PROVE  /\ last_net_info_'[n].ebpf.count <= if_stats[last_net_info_'[n].ebpf.idx]
                      /\ last_net_info_'[n].proc # Nothing =>
                           last_net_info_'[n].proc.count <= errors[last_net_info_'[n].proc.idx]
    BY <1>1, <1>4 DEF SamplesSound
  <2>1. CASE n \in Sampled
    BY <1>3, <2>1, CurrentTypes DEF CountInv, SamplesSound
  <2>2. CASE n \notin Sampled
    BY <1>2, <2>2 DEF CountInv, SamplesSound
  <2> QED
    BY <2>1, <2>2
<1>7. SamplesInOrder'
  BY <1>4 DEF SamplesInOrder
<1> QED
  BY <1>5, <1>6, <1>7 DEF CountInv

------------------------------------------------------------------------------
(* What is reported.                                                       *)

\* Steps that touch no name, sample or report: packets come, the constructor
\* and the cycle move on.
LEMMA OnceFrame ==
    ASSUME CountInv, OnceInv, CountInv',
           UNCHANGED <<ifname, ebpf_stats, rates>>,
           \A i \in Ifs : if_stats[i] <= if_stats'[i],
           pc' \in {"walk", "proc", "report"} \/ ebpf_stats = Empty,
           pc' = "walk" => ebpf_stats = Empty \/ (pc = "walk" /\ visited' = visited)
    PROVE  OnceInv'
<1>1. UNCHANGED <<last_net_info_, reported, twice, inherited>>
  BY DEF rates
<1>2. \A i \in Ifs, n \in Names : SampleOf(i, n)' <=> SampleOf(i, n)
  BY DEF SampleOf
<1>3. SampledOnce'
  BY <1>2 DEF OnceInv, SampledOnce, SampleOf, Empty, Present
<1>4. ReportedCounted'
  <2>1. \A i \in Ifs : reported[i] \subseteq Nat /\ if_stats[i] \in Nat /\ if_stats'[i] \in Nat
    BY NetMonitorAssumption DEF CountInv, CountType
  <2>2. \A i \in Ifs : \A k \in reported[i] : k <= if_stats[i]
    BY DEF OnceInv, ReportedCounted
  <2>3. \A i \in Ifs : \A k \in reported[i] : k <= if_stats'[i]
    BY <2>1, <2>2
  <2> QED
    BY <1>1, <1>2, <2>3 DEF OnceInv, ReportedCounted
<1>5. ComparedWithOwn'
  BY <1>1, <1>2 DEF OnceInv, ComparedWithOwn, OwnCache, InTables
<1>6. ReportedOnce'
  BY <1>1 DEF OnceInv, ReportedOnce
<1> QED
  BY <1>3, <1>4, <1>5, <1>6 DEF OnceInv

\* An agent that starts has reported nothing.
LEMMA ForgetKeepsOnceInv == ASSUME OnceInv, Forget, UNCHANGED ifname, pc' = "down" PROVE OnceInv'
<1>1. \A i \in Ifs, n \in Names : ~SampleOf(i, n)'
  BY DEF Forget, SampleOf, Empty
<1>2. SampledOnce'
  BY <1>1 DEF OnceInv, SampledOnce, Forget, Present
<1>3. ReportedCounted' /\ ReportedOnce'
  BY <1>1 DEF ReportedCounted, ReportedOnce, Forget
<1>4. ComparedWithOwn'
  BY <1>1 DEF ComparedWithOwn, Forget
<1> QED
  BY <1>2, <1>3, <1>4 DEF OnceInv

\* An interface that has a name which is in the tables inherits it; under a new
\* name it is compared with nothing.
LEMMA InterfacesKeepOnceInv == ASSUME HookType, CountInv, OnceInv, InterfaceEvent PROVE OnceInv'
<1>1. /\ UNCHANGED <<pc, if_stats, visited, ebpf_stats, last_net_info_, reported, twice>>
      /\ inherited' = inherited \cup {i \in Ifs : Present(i) /\ \E n \in Names \ {ifname[i]} : ifname'[i] = n /\ InTables(n)}
  BY DEF InterfaceEvent, Interfaces, RemoveIf, AddIf, RenameIf, sampling
<1>2. PICK i \in Ifs : RemoveIf(i) \/ \E n \in Names : AddIf(i, n) \/ RenameIf(i, n)
  BY DEF InterfaceEvent, Interfaces
<1>3. \A j \in Ifs, n \in Names : (SampleOf(j, n)' <=> SampleOf(j, n)) /\ (OwnCache(j, n)' <=> OwnCache(j, n))
                                 /\ (InTables(n)' <=> InTables(n))
  BY <1>1 DEF SampleOf, OwnCache, InTables
<1>4. /\ ifname \in [Ifs -> Names \cup {Unborn, Gone}]
      /\ Unborn \notin Names /\ Gone \notin Names /\ Unborn # Gone
  BY TcHooksAssumption DEF HookType
<1>5. \A j \in Ifs : /\ j # i => ifname'[j] = ifname[j]
                     /\ ifname'[i] # Unborn
                     /\ ifname'[i] \in Names => \A l \in Ifs : ifname[l] # ifname'[i]
                     /\ ifname'[i] \in Names \cup {Gone}
  BY <1>2, <1>4 DEF RemoveIf, AddIf, RenameIf
<1>6. SampledOnce'
  <2>1. \A j, l \in Ifs : Present(j)' /\ ifname'[j] = ifname'[l] => j = l
    BY <1>4, <1>5 DEF OnceInv, SampledOnce, Present
  <2> QED
    BY <1>1, <1>3, <2>1 DEF OnceInv, SampledOnce
<1>7. ReportedCounted'
  BY <1>1, <1>3, <1>5 DEF OnceInv, ReportedCounted
<1>8. ComparedWithOwn'
  <2> SUFFICES ASSUME NEW j \in Ifs \ inherited', NEW n \in Names
               PROVE  /\ SampleOf(j, n) /\ reported[j] # {} => OwnCache(j, n)
                      /\ ifname'[j] = n /\ reported[j] # {} =>
                           OwnCache(j, n) /\ (ebpf_stats[n] # NoSample => SampleOf(j, n))
                      /\ ifname'[j] = n /\ (\E m \in Names \ {n} : SampleOf(j, m)) => ~InTables(n)
    BY <1>1, <1>3 DEF ComparedWithOwn
  <2>1. j \in Ifs \ inherited
    BY <1>1
  <2>2. SampleOf(j, n) /\ reported[j] # {} => OwnCache(j, n)
    BY <2>1 DEF OnceInv, ComparedWithOwn
  <2>3. CASE ifname'[j] # n
    BY <2>2, <2>3
  <2>4. CASE ifname'[j] = n /\ ifname[j] = n
    BY <2>1, <2>4 DEF OnceInv, ComparedWithOwn
  <2>5. CASE ifname'[j] = n /\ ifname[j] # n /\ Present(j)
    <3>1. ~InTables(n)
      BY <1>1, <2>5
    <3> QED
      BY <2>2, <2>5, <3>1 DEF OwnCache, InTables
  <2>6. CASE ifname'[j] = n /\ ~Present(j)
    <3>1. j = i
      BY <1>5, <2>6 DEF Present
    <3>2. ifname[j] = Unborn
      BY <1>2, <1>4, <2>6, <3>1 DEF RemoveIf, AddIf, RenameIf, Present
    <3>3. reported[j] = {} /\ \A m \in Names : ~SampleOf(j, m)
      BY <3>2 DEF OnceInv, ReportedCounted
    <3> QED
      BY <3>3
  <2> QED
    BY <2>3, <2>4, <2>5, <2>6
<1>9. ReportedOnce'
  BY <1>1 DEF OnceInv, ReportedOnce
<1> QED
  BY <1>6, <1>7, <1>8, <1>9 DEF OnceInv

\* A counter that is read goes to the name of its interface, which is compared
\* with nothing or with what was reported of that interface.
LEMMA ReadKeyKeepsOnceInv == ASSUME HookType, CountInv, OnceInv, NEW i \in Ifs, ReadKey(i) PROVE OnceInv'
<1>1. /\ pc = "walk" /\ i \notin visited /\ visited' = visited \cup {i}
      /\ UNCHANGED <<ifname, pc, if_stats, last_net_info_, reported, twice, inherited>>
      /\ ebpf_stats' = IF Present(i)
                       THEN [ebpf_stats EXCEPT ![ifname[i]] = [idx |-> i, count |-> if_stats[i]]]
                       ELSE ebpf_stats
  BY DEF ReadKey, hookvars, rates
<1>2. \A n \in Names : ~SampleOf(i, n)
  BY <1>1 DEF OnceInv, SampledOnce
<1>3. ebpf_stats \in [Names -> Sample \cup {NoSample}] /\ if_stats[i] \in Nat
      /\ Unborn \notin Names
  BY NetMonitorAssumption, TcHooksAssumption DEF CountInv, CountType
<1>4. CASE ~Present(i)
  <2>1. ebpf_stats' = ebpf_stats
    BY <1>1, <1>4
  <2>2. \A j \in Ifs, n \in Names : SampleOf(j, n)' <=> SampleOf(j, n)
    BY <2>1 DEF SampleOf
  <2>3. SampledOnce'
    BY <1>1, <2>2 DEF OnceInv, SampledOnce, Present
  <2>4. ReportedCounted' /\ ReportedOnce'
    BY <1>1, <2>1, <2>2 DEF OnceInv, ReportedCounted, ReportedOnce
  <2>5. ComparedWithOwn'
    BY <1>1, <2>1, <2>2 DEF OnceInv, ComparedWithOwn, OwnCache, InTables
  <2> QED
    BY <2>3, <2>4, <2>5 DEF OnceInv
<1>5. CASE Present(i)
  <2>1. PICK name \in Names : name = ifname[i]
    BY <1>5 DEF Present
  <2>2. /\ ebpf_stats'[name] = [idx |-> i, count |-> if_stats[i]]
        /\ \A n \in Names \ {name} : ebpf_stats'[n] = ebpf_stats[n]
    BY <1>1, <1>3, <1>5, <2>1
  <2>3. [idx |-> i, count |-> if_stats[i]] # NoSample
    BY <1>3, NetMonitorAssumption DEF Sample
  <2>4. \A n \in Names \ {name}, j \in Ifs : SampleOf(j, n)' <=> SampleOf(j, n)
    BY <2>2 DEF SampleOf
  <2>5. \A j \in Ifs : SampleOf(j, name)' <=> j = i
    BY <2>2, <2>3 DEF SampleOf
  <2>6. \A j \in Ifs \ {i} : ifname[j] # name
    BY <1>5, <2>1 DEF OnceInv, SampledOnce
  <2>7. SampledOnce'
    <3>1. \A j \in Ifs, n \in Names : SampleOf(j, n)' => j \in visited'
      BY <1>1, <2>4, <2>5 DEF OnceInv, SampledOnce
    <3>2. ASSUME NEW j \in Ifs, NEW m \in Names, NEW n \in Names, SampleOf(j, m)', SampleOf(j, n)' PROVE m = n
      <4>1. CASE j = i
        BY <1>2, <2>4, <3>2, <4>1
      <4>2. CASE j # i
        <5>1. m # name /\ n # name
          BY <2>5, <3>2, <4>2
        <5> QED
          BY <2>4, <3>2, <5>1 DEF OnceInv, SampledOnce
      <4> QED
        BY <4>1, <4>2
    <3>3. \A j, l \in Ifs : Present(j)' /\ ifname'[j] = ifname'[l] => j = l
      BY <1>1 DEF OnceInv, SampledOnce, Present
    <3> QED
      BY <1>1, <3>1, <3>2, <3>3 DEF SampledOnce
  <2>8. ReportedCounted'
    <3> SUFFICES ASSUME NEW j \in Ifs
                 PROVE  /\ reported[j] # {} => ifname[j] # Unborn
                        /\ \A k \in reported[j] : k <= if_stats[j]
                        /\ \A n \in Names : SampleOf(j, n)' => ifname[j] # Unborn /\ \A k \in reported[j] : k <= ebpf_stats'[n].count
      BY <1>1 DEF ReportedCounted
    <3>1. \A k \in reported[j] : k <= if_stats[j]
      BY DEF OnceInv, ReportedCounted
    <3>2. ASSUME NEW n \in Names, SampleOf(j, n)'
          PROVE  ifname[j] # Unborn /\ \A k \in reported[j] : k <= ebpf_stats'[n].count
      <4>1. CASE n = name
        <5>1. j = i /\ ebpf_stats'[n].count = if_stats[i]
          BY <2>2, <2>5, <3>2, <4>1
        <5> QED
          BY <1>3, <1>5, <3>1, <5>1 DEF Present
      <4>2. CASE n # name
        BY <2>2, <2>4, <3>2, <4>2 DEF OnceInv, ReportedCounted
      <4> QED
        BY <4>1, <4>2
    <3> QED
      BY <3>1, <3>2 DEF OnceInv, ReportedCounted
  <2>9. ComparedWithOwn'
    <3> SUFFICES ASSUME NEW j \in Ifs \ inherited, NEW n \in Names
                 PROVE  /\ SampleOf(j, n)' /\ reported[j] # {} => OwnCache(j, n)
                        /\ ifname[j] = n /\ reported[j] # {} =>
                             OwnCache(j, n) /\ (ebpf_stats'[n] # NoSample => SampleOf(j, n)')
                        /\ ifname[j] = n /\ (\E m \in Names \ {n} : SampleOf(j, m)') => ~InTables(n)'
      BY <1>1 DEF ComparedWithOwn, OwnCache
    <3>1. /\ SampleOf(j, n) /\ reported[j] # {} => OwnCache(j, n)
          /\ ifname[j] = n /\ reported[j] # {} =>
               OwnCache(j, n) /\ (ebpf_stats[n] # NoSample => SampleOf(j, n))
          /\ ifname[j] = n /\ (\E m \in Names \ {n} : SampleOf(j, m)) => ~InTables(n)
      BY DEF OnceInv, ComparedWithOwn
    <3>2. CASE n = name
      <4>1. ifname[j] = n => j = i
        BY <2>6, <3>2
      <4>2. SampleOf(j, n)' => j = i /\ ifname[j] = n
        BY <2>1, <2>5, <3>2
      <4>3. \A m \in Names \ {n} : ~SampleOf(i, m)'
        BY <1>2, <2>4, <3>2
      <4>4. SampleOf(i, n)'
        BY <2>5, <3>2
      <4> QED
        BY <3>1, <4>1, <4>2, <4>3, <4>4
    <3>3. CASE n # name
      <4>1. (SampleOf(j, n)' <=> SampleOf(j, n)) /\ ebpf_stats'[n] = ebpf_stats[n] /\ (InTables(n)' <=> InTables(n))
        BY <1>1, <2>2, <2>4, <3>3 DEF InTables
      <4>2. ifname[j] = n => j # i
        BY <2>1, <3>3
      <4>3. j # i => \A m \in Names : SampleOf(j, m)' => SampleOf(j, m)
        BY <2>4, <2>5
      <4> QED
        BY <3>1, <4>1, <4>2, <4>3
    <3> QED
      BY <3>2, <3>3
  <2>10. ReportedOnce'
    BY <1>1 DEF OnceInv, ReportedOnce
  <2> QED
    BY <2>7, <2>8, <2>9, <2>10 DEF OnceInv
<1> QED
  BY <1>4, <1>5

\* What is reported of an interface that inherited no name is above all that was.
LEMMA ReportKeepsOnceInv == ASSUME CountInv, OnceInv, Report PROVE OnceInv'
<1>1. /\ UNCHANGED <<ifname, if_stats, inherited>> /\ ebpf_stats' = Empty /\ pc' = "idle"
      /\ last_net_info_' = [n \in Names |-> IF n \in Sampled THEN Current(n) ELSE last_net_info_[n]]
      /\ TakeStock
  BY DEF Report, At, kernel
<1>2. \A i \in Ifs, n \in Names : ~SampleOf(i, n)' /\ ebpf_stats'[n] = NoSample
  BY <1>1 DEF SampleOf, Empty
<1>3. \A i \in Ifs : reported'[i] = reported[i] \cup UNION {Rated(n) : n \in RatedNames(i)}
  BY <1>1, StockType
<1>4. ASSUME NEW i \in Ifs, NEW n \in RatedNames(i), NEW k \in Rated(n)
      PROVE  /\ n \in Names /\ SampleOf(i, n) /\ last_net_info_[n] # NoSample
             /\ k \in Nat /\ last_net_info_[n].ebpf.count < k /\ k <= ebpf_stats[n].count
  <2>1. n \in Names /\ SampleOf(i, n) /\ last_net_info_[n] # NoSample
    BY DEF RatedNames, Compared, Sampled, SampleOf
  <2>2. ebpf_stats[n].count \in Nat /\ last_net_info_[n].ebpf.count \in Nat
    BY <2>1, EntryTypes DEF SampleOf
  <2> QED
    BY <2>1, <2>2 DEF Rated
<1>5. SampledOnce'
  BY <1>1, <1>2 DEF OnceInv, SampledOnce, Present
<1>6. ASSUME NEW i \in Ifs, NEW n \in Names, SampleOf(i, n)
      PROVE  /\ n \in Sampled /\ last_net_info_'[n] = Current(n) /\ Current(n).ebpf = ebpf_stats[n]
             /\ \A k \in reported'[i] : k <= ebpf_stats[n].count
  <2>1. n \in Sampled
    BY <1>6 DEF SampleOf, Sampled
  <2>2. \A m \in RatedNames(i) : m = n
    BY <1>6 DEF OnceInv, SampledOnce, RatedNames, Compared, Sampled, SampleOf
  <2>3. \A k \in reported[i] : k <= ebpf_stats[n].count
    BY <1>6 DEF OnceInv, ReportedCounted
  <2>4. \A k \in reported'[i] : k <= ebpf_stats[n].count
    BY <1>3, <1>4, <2>2, <2>3
  <2>5. last_net_info_'[n] = Current(n) /\ Current(n).ebpf = ebpf_stats[n]
    BY <1>1, <2>1, CurrentTypes
  <2> QED
    BY <2>1, <2>4, <2>5
<1>7. \A i \in Ifs : RatedNames(i) # {} => \E n \in Names : SampleOf(i, n)
  BY DEF RatedNames, Compared, Sampled, SampleOf
<1>8. ReportedCounted'
  <2> SUFFICES ASSUME NEW i \in Ifs
               PROVE  /\ reported'[i] # {} => ifname[i] # Unborn
                      /\ \A k \in reported'[i] : k <= if_stats[i]
    BY <1>1, <1>2 DEF ReportedCounted
  <2>1. reported'[i] # {} => ifname[i] # Unborn
    BY <1>3, <1>7 DEF OnceInv, ReportedCounted
  <2>2. ASSUME NEW k \in reported'[i] PROVE k <= if_stats[i]
    <3>1. CASE k \in reported[i]
      BY <3>1 DEF OnceInv, ReportedCounted
    <3>2. CASE k \notin reported[i]
      <4>1. PICK n \in RatedNames(i) : k \in Rated(n)
        BY <1>3, <2>2, <3>2
      <4>2. n \in Names /\ SampleOf(i, n) /\ k \in Nat /\ k <= ebpf_stats[n].count
        BY <1>4, <4>1
      <4>3. ebpf_stats[n].count \in Nat /\ if_stats[i] \in Nat /\ ebpf_stats[n].count <= if_stats[i]
        BY <4>2, EntryTypes, NetMonitorAssumption DEF SampleOf, CountInv, CountType, SamplesSound
      <4> QED
        BY <4>2, <4>3
    <3> QED
      BY <3>1, <3>2
  <2> QED
    BY <2>1, <2>2
<1>9. ComparedWithOwn'
  <2> SUFFICES ASSUME NEW i \in Ifs \ inherited, NEW n \in Names, ifname[i] = n, reported'[i] # {}
               PROVE  OwnCache(i, n)'
    BY <1>1, <1>2 DEF ComparedWithOwn
  <2>1. CASE SampleOf(i, n)
    BY <1>6, <2>1 DEF OwnCache, SampleOf
  <2>2. CASE ~SampleOf(i, n) /\ \E m \in Names : SampleOf(i, m)
    <3>1. ~InTables(n)
      BY <2>2 DEF OnceInv, ComparedWithOwn
    <3>2. last_net_info_'[n] = NoSample
      BY <1>1, <3>1 DEF InTables, Sampled
    <3> QED
      BY <3>2 DEF OwnCache
  <2>3. CASE \A m \in Names : ~SampleOf(i, m)
    <3>1. reported'[i] = reported[i]
      BY <1>3, <1>7, <2>3
    <3>2. OwnCache(i, n) /\ ebpf_stats[n] = NoSample
      BY <2>3, <3>1 DEF OnceInv, ComparedWithOwn
    <3>3. last_net_info_'[n] = last_net_info_[n]
      BY <1>1, <3>2 DEF Sampled
    <3> QED
      BY <3>1, <3>2, <3>3 DEF OwnCache
  <2> QED
    BY <2>1, <2>2, <2>3
<1>10. ReportedOnce'
  <2> SUFFICES ASSUME NEW i \in Ifs \ inherited, NEW n \in RatedNames(i), NEW k \in Rated(n)
               PROVE  k \notin reported[i] /\ \A m \in RatedNames(i) : m = n
    BY <1>1 DEF OnceInv, ReportedOnce, TakeStock
  <2>1. n \in Names /\ SampleOf(i, n) /\ last_net_info_[n] # NoSample /\ k \in Nat /\ last_net_info_[n].ebpf.count < k
    BY <1>4
  <2>2. \A m \in RatedNames(i) : m = n
    BY <2>1 DEF OnceInv, SampledOnce, RatedNames, Compared, Sampled, SampleOf
  <2>3. ASSUME k \in reported[i] PROVE FALSE
    <3>1. OwnCache(i, n)
      BY <2>1, <2>3 DEF OnceInv, ComparedWithOwn
    <3>2. k <= last_net_info_[n].ebpf.count /\ last_net_info_[n].ebpf.count \in Nat
      BY <2>1, <2>3, <3>1, EntryTypes DEF OwnCache
    <3> QED
      BY <2>1, <3>2
  <2> QED
    BY <2>2, <2>3
<1> QED
  BY <1>5, <1>8, <1>9, <1>10 DEF OnceInv

------------------------------------------------------------------------------
(* Every step, and every behaviour.                                        *)

\* A machine on which no agent has run yet satisfies the invariant.
LEMMA InitIInv == Init => IInv
<1> SUFFICES ASSUME Init PROVE HookInv /\ CountInv /\ OnceInv
  BY ThreeParts
<1>1. /\ clsact \subseteq Ifs /\ ifname \in [Ifs -> Names \cup {Unborn, Gone}] /\ run = 0 /\ pc = "down"
      /\ ifindex_map = {} /\ todo = {} /\ cur = 1 /\ hooks_created = {} /\ faults = 0 /\ before = {}
      /\ hit = [i \in Ifs |-> {}]
      /\ filter = [i \in Ifs |-> [d \in Dirs |-> IF i \in clsact THEN {Other} ELSE {}]]
  BY DEF Init, HooksInit
<1>2. HookType
  <2>1. 1 \in Ifs
    <3>1. PICK k \in Ifs : TRUE
      BY DEF Init, HooksInit
    <3> QED
      BY <3>1, TcHooksAssumption DEF Ifs
  <2>2. 0 \in 0 .. MaxRuns /\ 0 \in 0 .. MaxFaults
    BY TcHooksAssumption
  <2>3. filter \in [Ifs -> [Dirs -> Filters]]
    BY <1>1 DEF Filters
  <2>4. hit \in [Ifs -> SUBSET {"destroy", "create", "attach"}]
    BY <1>1
  <2> QED
    BY <1>1, <2>1, <2>2, <2>3, <2>4 DEF HookType, HookPcs
<1>3. FoundKept /\ Attaching /\ Undoing /\ Past = {}
  BY <1>1 DEF FoundKept, Attaching, Undoing, Past, Working
<1>4. Fresh
  BY <1>1 DEF Fresh
<1>5. HookInv
  BY <1>2, <1>3, <1>4 DEF HookInv, PastKept
<1>6. CountType
  <2>1. 0 \in 0 .. MaxCount /\ 0 \in 0 .. MaxErrors
    BY NetMonitorAssumption
  <2> QED
    BY <2>1 DEF Init, CountType, Empty
<1>7. SamplesSound /\ SamplesInOrder
  BY DEF Init, SamplesSound, SamplesInOrder, Empty
<1>8. OnceInv
  <2>1. \A i \in Ifs, n \in Names : ~SampleOf(i, n)
    BY DEF Init, SampleOf, Empty
  <2>2. \A i, j \in Ifs : Present(i) /\ ifname[i] = ifname[j] => i = j
    BY DEF Init, HooksInit
  <2>3. SampledOnce
    BY <2>1, <2>2 DEF Init, SampledOnce, HooksInit
  <2>4. ReportedCounted /\ ReportedOnce
    BY <2>1 DEF Init, ReportedCounted, ReportedOnce
  <2>5. ComparedWithOwn
    BY <2>1 DEF Init, ComparedWithOwn
  <2> QED
    BY <2>3, <2>4, <2>5 DEF OnceInv
<1> QED
  BY <1>5, <1>6, <1>7, <1>8 DEF CountInv

\* Steps that leave the counters and samples alone.
LEMMA CountFrame == ASSUME CountInv, UNCHANGED netvars PROVE CountInv'
BY DEF CountInv, CountType, SamplesSound, SamplesInOrder, netvars, sampling, rates

\* Whoever counts is counted in a number.
LEMMA Counters == ASSUME CountInv PROVE \A i \in Ifs : if_stats[i] \in Nat
BY NetMonitorAssumption DEF CountInv, CountType

\* The steps of a cycle leave the hooks alone.
LEMMA CycleKeepsHookInv ==
    ASSUME HookInv, UNCHANGED <<kernel, run, locals, before, hit>>, pc' \in CyclePcs, faults' \in 0 .. MaxFaults
    PROVE  HookInv'
BY EndKeepsHookInv DEF kernel, locals

\* Every step of the system keeps the invariant.
LEMMA NextIInv == IInv /\ [Next]_vars => IInv'
<1> SUFFICES ASSUME HookInv, CountInv, OnceInv, [Next]_vars PROVE HookInv' /\ CountInv' /\ OnceInv'
  BY ThreeParts
<1>0. faults \in 0 .. MaxFaults /\ HookType
  BY DEF HookInv, HookType
<1>1. \A i \in Ifs : if_stats[i] \in Nat /\ if_stats[i] <= if_stats[i]
  BY Counters
<1>2. pc \in {"walk", "proc", "report"} \/ ebpf_stats = Empty
  BY DEF OnceInv, SampledOnce
<1>3. CASE Construct
  <2>1. HookInv'
    BY <1>3, StartKeepsHookInv, NextIfKeepsHookInv, DestroyFirstKeepsHookInv, CreateHooksKeepsHookInv,
       AttachKeepsHookInv, UndoKeepsHookInv, ConstructedKeepsHookInv DEF Construct, Constructor
  <2>2. CountInv'
    BY <1>3, CountFrame DEF Construct
  <2>3. UNCHANGED <<ifname, if_stats, ebpf_stats, rates>>
    <3>1. UNCHANGED netvars
      BY <1>3 DEF Construct
    <3>2. UNCHANGED ifname
      BY <1>3 DEF Construct, Constructor, Start, NextIf, DestroyFirst, Destroy, CreateHooks, Create,
                  AttachPrograms, Attach, Undo, Constructed, kernel
    <3> QED
      BY <3>1, <3>2 DEF netvars, sampling
  <2>4. pc \notin {"walk", "proc", "report"} /\ pc' # "walk"
    <3>1. CASE Start \/ Constructed \/ \E i \in Ifs : NextIf(i)
      BY <3>1 DEF Start, Constructed, NextIf
    <3>2. CASE DestroyFirst \/ CreateHooks
      BY <3>2 DEF DestroyFirst, Destroy, CreateHooks, Create
    <3>3. CASE AttachPrograms \/ Undo
      BY <3>3 DEF AttachPrograms, Attach, Undo
    <3> QED
      BY <1>3, <3>1, <3>2, <3>3 DEF Construct, Constructor
  <2> QED
    BY <1>1, <1>2, <2>1, <2>2, <2>3, <2>4, OnceFrame
<1>4. CASE Die
  <2>1. HookInv' /\ CountInv'
    BY <1>4, KillKeepsHookInv, ForgetKeepsCountInv DEF Die
  <2>2. Forget /\ UNCHANGED ifname /\ pc' = "down"
    BY <1>4 DEF Die, Kill, kernel
  <2> QED
    BY <2>1, <2>2, ForgetKeepsOnceInv
<1>5. CASE InterfaceEvent
  <2>1. HookInv'
    BY <1>5, InterfacesKeepHookInv DEF InterfaceEvent
  <2>2. CountInv'
    <3>1. UNCHANGED <<if_stats, errors, visited, ebpf_stats, proc_stats, last_net_info_, reported, twice>>
          /\ inherited' \subseteq inherited \cup Ifs
      BY <1>5 DEF InterfaceEvent, sampling
    <3> QED
      BY <3>1 DEF CountInv, CountType, SamplesSound, SamplesInOrder
  <2> QED
    BY <1>0, <1>5, <2>1, <2>2, InterfacesKeepOnceInv
<1>6. ASSUME UNCHANGED hookvars PROVE HookInv'
  <2>1. UNCHANGED <<ifname, clsact, filter, run, pc, ifindex_map, todo, cur, hooks_created, faults, before, hit>>
    BY <1>6 DEF hookvars
  <2>2. HookType'
    BY <2>1 DEF HookInv, HookType
  <2>3. Past' = Past /\ (Working' <=> Working)
    BY <2>1 DEF Past, Working
  <2>4. FoundKept' /\ Fresh' /\ Attaching' /\ Undoing'
    BY <2>1, <2>3 DEF HookInv, FoundKept, Fresh, Attaching, Undoing, Present
  <2>5. PastKept'
    BY <2>1, <2>3 DEF HookInv, PastKept, Present
  <2> QED
    BY <2>2, <2>4, <2>5 DEF HookInv
<1>7. CASE Traffic
  <2>1. PICK i \in Ifs : Packet(i) \/ Error(i)
    BY <1>7 DEF Traffic
  <2>2. UNCHANGED <<sampling, rates>> /\ UNCHANGED hookvars
    BY <2>1 DEF Packet, Error
  <2>3. \/ if_stats[i] < MaxCount /\ if_stats' = [if_stats EXCEPT ![i] = @ + 1] /\ errors' = errors
        \/ errors[i] < MaxErrors /\ errors' = [errors EXCEPT ![i] = @ + 1] /\ if_stats' = if_stats
    BY <2>1 DEF Packet, Error
  <2>4. HookInv' /\ CountInv'
    BY <1>6, <2>2, <2>3, TrafficKeepsCountInv
  <2>5. \A j \in Ifs : if_stats[j] <= if_stats'[j]
    BY <1>1, <2>3 DEF CountInv, CountType
  <2>6. UNCHANGED <<ifname, pc, ebpf_stats, visited, rates>>
    BY <2>2 DEF hookvars, sampling
  <2> QED
    BY <1>2, <2>4, <2>5, <2>6, OnceFrame
<1>8. CASE UpdateOnce
  <2>1. CASE Begin
    <3>1. UNCHANGED <<kernel, run, locals, before, hit, faults>> /\ pc' \in CyclePcs /\ UNCHANGED netvars
      BY <2>1 DEF Begin, At, CyclePcs
    <3>2. HookInv' /\ CountInv'
      BY <1>0, <3>1, CycleKeepsHookInv, CountFrame
    <3>3. UNCHANGED <<ifname, if_stats, ebpf_stats, rates>> /\ ebpf_stats = Empty /\ pc' = "walk"
      BY <1>2, <2>1, <3>1 DEF Begin, At, kernel, netvars, sampling
    <3> QED
      BY <1>1, <3>2, <3>3, OnceFrame
  <2>2. ASSUME NEW i \in Ifs, ReadKey(i) PROVE HookInv' /\ CountInv' /\ OnceInv'
    BY <1>0, <1>6, <2>2, ReadKeyKeepsCountInv, ReadKeyKeepsOnceInv DEF ReadKey
  <2>3. CASE Walked
    <3>1. UNCHANGED <<kernel, run, locals, before, hit, faults>> /\ pc' \in CyclePcs
      BY <2>3 DEF Walked, At, CyclePcs
    <3>2. HookInv' /\ CountInv'
      BY <1>0, <2>3, <3>1, CycleKeepsHookInv, WalkedKeepsCountInv
    <3>3. UNCHANGED <<ifname, if_stats, ebpf_stats, rates>> /\ pc' = IF ebpf_stats = Empty THEN "idle" ELSE "proc"
      BY <2>3 DEF Walked, At, kernel
    <3> QED
      BY <1>1, <3>2, <3>3, OnceFrame
  <2>4. CASE ReadProc
    <3>1. /\ UNCHANGED <<kernel, run, locals, before, hit>> /\ pc' = "report"
          /\ faults' = faults \/ (faults < MaxFaults /\ faults' = faults + 1)
      BY <2>4 DEF ReadProc, At
    <3>2. faults' \in 0 .. MaxFaults /\ pc' \in CyclePcs
      BY <1>0, <3>1, TcHooksAssumption DEF CyclePcs
    <3>3. HookInv' /\ CountInv'
      BY <1>0, <2>4, <3>1, <3>2, CycleKeepsHookInv, ReadProcKeepsCountInv
    <3>4. UNCHANGED <<ifname, if_stats, ebpf_stats, rates>>
      BY <2>4, <3>1 DEF ReadProc, kernel
    <3> QED
      BY <1>1, <3>1, <3>3, <3>4, OnceFrame
  <2>5. CASE Report
    <3>1. UNCHANGED <<kernel, run, locals, before, hit, faults>> /\ pc' \in CyclePcs
      BY <2>5 DEF Report, At, CyclePcs
    <3> QED
      BY <1>0, <2>5, <3>1, CycleKeepsHookInv, ReportKeepsCountInv, ReportKeepsOnceInv
  <2> QED
    BY <1>8, <2>1, <2>2, <2>3, <2>4, <2>5 DEF UpdateOnce
<1>9. CASE UNCHANGED vars
  <2>1. HookInv' /\ CountInv'
    BY <1>6, <1>9, CountFrame DEF vars
  <2>2. UNCHANGED <<ifname, pc, if_stats, ebpf_stats, visited, rates>>
    BY <1>9 DEF vars, hookvars, netvars, sampling
  <2> QED
    BY <1>1, <1>2, <2>1, <2>2, OnceFrame
<1> QED
  BY <1>3, <1>4, <1>5, <1>7, <1>8, <1>9 DEF Next

\* In every behaviour of agents, hooks and counters (NetMonitor), all parts of
\* the inductive invariant hold.
THEOREM Invariance == Spec => []IInv
BY InitIInv, NextIInv, PTL DEF Spec

\* All variables keep to their types.
THEOREM TypeCorrect == Spec => []TypeOK
<1>1. IInv => TypeOK
  BY DEF IInv
<1> QED
  BY <1>1, Invariance, PTL

\* The programs of the agent are the only ones of every interface that it found
\* and that answered its calls (net_monitor.cpp:438-491), whatever agents
\* before it left behind.
THEOREM AttachIsComplete == Spec => []AttachComplete
<1>1. IInv => AttachComplete
  BY DEF IInv, AttachComplete, Visited, PastKept, Past
<1> QED
  BY <1>1, Invariance, PTL

\* An interface is left with one program of two only if its qdisc is older than
\* the agent, or could not be flushed.
THEOREM HalfAttachedIsExplained == Spec => []HalfAttachedExplained
<1>1. IInv => HalfAttachedExplained
  BY DEF IInv, HalfAttachedExplained, Visited, PastKept, Past
<1> QED
  BY <1>1, Invariance, PTL

\* Differences are negative only across two interfaces, or across a cycle
\* without the lines of /proc.
THEOREM WrapsAreExplained == Spec => []WrapsExplained
<1>1. ASSUME IInv PROVE WrapsExplained
  <2> SUFFICES ASSUME NEW n \in Compared
               PROVE  /\ Difference(n).traffic < 0 => ebpf_stats[n].idx # last_net_info_[n].ebpf.idx
                      /\ Difference(n).err < 0 => Current(n).proc.idx # last_net_info_[n].proc.idx
    BY DEF WrapsExplained
  <2>0. CountInv
    BY <1>1, ThreeParts
  <2>1. n \in Names /\ ebpf_stats[n] # NoSample /\ last_net_info_[n] # NoSample
    BY DEF Compared, Sampled
  <2>2. /\ Difference(n).traffic = ebpf_stats[n].count - last_net_info_[n].ebpf.count
        /\ Difference(n).err = Current(n).proc.count - last_net_info_[n].proc.count
    BY <2>1 DEF Difference
  <2>3. Current(n).proc = IF proc_stats[n] = NoSample THEN Nothing ELSE proc_stats[n]
    BY DEF Current
  <2>4. ebpf_stats[n].idx = last_net_info_[n].ebpf.idx => last_net_info_[n].ebpf.count <= ebpf_stats[n].count
    BY <2>0, <2>1 DEF CountInv, SamplesInOrder
  <2>5. Difference(n).traffic < 0 => ebpf_stats[n].idx # last_net_info_[n].ebpf.idx
    BY <2>0, <2>1, <2>2, <2>4, EntryTypes
  <2>6. Current(n).proc.idx = last_net_info_[n].proc.idx => last_net_info_[n].proc.count <= Current(n).proc.count
    <3>1. CASE proc_stats[n] = NoSample
      BY <2>0, <2>1, <2>3, <3>1, EntryTypes
    <3>2. CASE proc_stats[n] # NoSample
      BY <2>0, <2>1, <2>3, <3>2 DEF CountInv, SamplesInOrder
    <3> QED
      BY <3>1, <3>2
  <2>7. Current(n).proc.count \in Nat /\ last_net_info_[n].proc.count \in Nat
    BY <2>0, <2>1, <2>3, EntryTypes
  <2>8. Difference(n).err < 0 => Current(n).proc.idx # last_net_info_[n].proc.idx
    BY <2>2, <2>6, <2>7
  <2> QED
    BY <2>5, <2>8
<1> QED
  BY <1>1, Invariance, PTL

\* No packet is reported in two cycles or under two names, except of an interface
\* that was renamed to a name that is cached (net_monitor.cpp:578, 636).
THEOREM PacketsReportedOnce == Spec => []ReportedOnce
<1>1. IInv => ReportedOnce
  BY DEF IInv
<1> QED
  BY <1>1, Invariance, PTL
=============================================================================
