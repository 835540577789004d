------------------------------ MODULE TcHooks ------------------------------
(***************************************************************************)
(* The constructor of NetMonitor, which puts the two BPF programs of the   *)
(* agent on every network interface, and the state of the kernel that it   *)
(* works on: interfaces, their clsact qdiscs and the filters in them, all  *)
(* of which outlive the agent.                                             *)
(*                                                                         *)
(* An agent is the number of its start; a filter is the agent whose        *)
(* program it runs, or Other.  libbpf and the kernel are modelled as far   *)
(* as the constructor calls them: destroying the hook of one direction     *)
(* flushes its filters and leaves the qdisc; detaching is refused as long  *)
(* as the options name a program, which here they always do.               *)
(***************************************************************************)
EXTENDS Integers, FiniteSets

CONSTANTS NIf,        \* interface indexes that the kernel hands out
          Names,      \* names of interfaces that count as physical
          Unborn,     \* "name" of an index that is not in use yet ...
          Gone,       \* ... and of one whose interface was removed
          Other,      \* a filter of another program
          MaxRuns,    \* bound: starts of the agent
          MaxFaults   \* bound: calls that fail without a reason in the model

Ifs == 1 .. NIf
Dirs == {"in", "out"}
Runs == 1 .. MaxRuns

ASSUME TcHooksAssumption ==
    /\ NIf \in Nat /\ MaxRuns \in Nat /\ MaxFaults \in Nat
    /\ Unborn \notin Names /\ Gone \notin Names /\ Unborn # Gone
    /\ Other \notin Int

VARIABLES
    ifname,       \* [Ifs -> name, Unborn or Gone]
    clsact,       \* interfaces with a clsact qdisc
    filter,       \* [Ifs -> [Dirs -> set of filters]]
    run,          \* the agent that runs, or ran last
    pc,           \* where it stands
    ifindex_map,  \* interfaces that it found
    todo,         \* those it has yet to visit
    cur,          \* the one it works on
    hooks_created,\* directions in which it created the hook of that one
    faults,
    before,       \* ghost: clsact when the constructor started
    hit           \* ghost: [Ifs -> calls that failed in it]

hookvars == <<ifname, clsact, filter, run, pc, ifindex_map, todo, cur, hooks_created, faults, before, hit>>
kernel == <<ifname, clsact, filter>>
agent == <<run, ifindex_map, before>>
locals == <<ifindex_map, todo, cur, hooks_created>>

Present(i) == ifname[i] \in Names
NoFilters == [d \in Dirs |-> {}]

HooksInit ==
    /\ \E k \in Ifs :
         /\ ifname \in [Ifs -> Names \cup {Unborn}]
         /\ \A i \in Ifs : Present(i) <=> i <= k
         /\ \A i, j \in Ifs : i # j /\ Present(i) => ifname[i] # ifname[j]
    /\ clsact \in SUBSET {i \in Ifs : Present(i)}
    /\ filter = [i \in Ifs |-> [d \in Dirs |-> IF i \in clsact THEN {Other} ELSE {}]]
    /\ run = 0
    /\ pc = "down"
    /\ ifindex_map = {}
    /\ todo = {}
    /\ cur = 1
    /\ hooks_created = {}
    /\ faults = 0
    /\ before = {}
    /\ hit = [i \in Ifs |-> {}]

------------------------------------------------------------------------------
(* Interfaces come, go and change their names.                             *)

AddIf(i, n) ==
    /\ ifname[i] = Unborn
    /\ \A j \in Ifs : ifname[j] # n /\ (j < i => ifname[j] # Unborn)
    /\ ifname' = [ifname EXCEPT ![i] = n]
    /\ UNCHANGED <<clsact, filter, run, pc, locals, faults, before, hit>>

\* The qdisc and its filters go with the interface.
RemoveIf(i) ==
    /\ Present(i)
    /\ ifname' = [ifname EXCEPT ![i] = Gone]
    /\ clsact' = clsact \ {i}
    /\ filter' = [filter EXCEPT ![i] = NoFilters]
    /\ UNCHANGED <<run, pc, locals, faults, before, hit>>

RenameIf(i, n) ==
    /\ Present(i)
    /\ \A j \in Ifs : ifname[j] # n
    /\ ifname' = [ifname EXCEPT ![i] = n]
    /\ UNCHANGED <<clsact, filter, run, pc, locals, faults, before, hit>>

------------------------------------------------------------------------------
(* NetMonitor::NetMonitor.                                                 *)

\* get_network_interfaces asks for all and reads one buffer of the answer:
\* the first ones, or none after an error.
Found == {{i \in Ifs : Present(i) /\ i <= k} : k \in 0 .. NIf}

\* Without interfaces or without the BPF object the monitor stays idle.
Start ==
    /\ pc = "down"
    /\ run < MaxRuns
    /\ run' = run + 1
    /\ before' = clsact
    /\ ifindex_map' \in Found
    /\ todo' = ifindex_map'
    /\ pc' \in (IF ifindex_map' = {} THEN {"unloaded"} ELSE {"hooks", "unloaded"})
    /\ UNCHANGED <<kernel, cur, hooks_created, faults, hit>>

NextIf(i) ==
    /\ pc = "hooks"
    /\ i \in todo
    /\ todo' = todo \ {i}
    /\ cur' = i
    /\ hooks_created' = {}
    /\ pc' = "destroy_in"
    /\ UNCHANGED <<kernel, agent, faults, hit>>

\* A call on the interface at hand fails: because it is gone, or for once.
Fails(what) ==
    /\ hit' = [hit EXCEPT ![cur] = @ \cup {what}]
    /\ IF Present(cur) THEN faults < MaxFaults /\ faults' = faults + 1 ELSE UNCHANGED faults

Flushed(d) == [filter EXCEPT ![cur][d] = {}]

\* bpf_tc_hook_destroy, result ignored.
Destroy(d, next) ==
    /\ \/ Present(cur) /\ filter' = Flushed(d) /\ UNCHANGED <<faults, hit>>
       \/ Fails("destroy") /\ UNCHANGED filter
    /\ pc' = next
    /\ UNCHANGED <<ifname, clsact, agent, todo, cur, hooks_created>>

\* Bug variant: what is left on the interface is not looked at.
DestroyFirstNot ==
    /\ pc \in {"destroy_in", "destroy_out"}
    /\ pc' = "create_in"
    /\ UNCHANGED <<kernel, agent, todo, cur, hooks_created, faults, hit>>

DestroyFirst ==
    \/ pc = "destroy_in" /\ Destroy("in", "destroy_out")
    \/ pc = "destroy_out" /\ Destroy("out", "create_in")

\* bpf_tc_hook_create: -EEXIST, which is as good, if there is a qdisc.
Create(d, next, onError) ==
    \/ /\ Present(cur)
       /\ hooks_created' = IF cur \in clsact THEN hooks_created ELSE hooks_created \cup {d}
       /\ clsact' = clsact \cup {cur}
       /\ pc' = next
       /\ UNCHANGED <<ifname, filter, agent, todo, cur, faults, hit>>
    \/ /\ Fails("create")
       /\ pc' = onError
       /\ UNCHANGED <<kernel, agent, todo, cur, hooks_created>>

CreateHooks ==
    \/ pc = "create_in" /\ Create("in", "create_out", "hooks")
    \/ pc = "create_out" /\ Create("out", "attach_in", "undo")

\* bpf_tc_attach: refused if another agent's filter has its handle.
Attach(d, next) ==
    \/ /\ Present(cur) /\ filter[cur][d] \cap Runs = {}
       /\ filter' = [filter EXCEPT ![cur][d] = filter[cur][d] \cup {run}]
       /\ pc' = next
       /\ UNCHANGED <<ifname, clsact, agent, todo, cur, hooks_created, faults, hit>>
    \/ /\ Present(cur) /\ filter[cur][d] \cap Runs # {}
       /\ pc' = "undo"
       /\ UNCHANGED <<kernel, agent, todo, cur, hooks_created, faults, hit>>
    \/ /\ Fails("attach")
       /\ pc' = "undo"
       /\ UNCHANGED <<kernel, agent, todo, cur, hooks_created>>

AttachPrograms ==
    \/ pc = "attach_in" /\ Attach("in", "attach_out")
    \/ pc = "attach_out" /\ Attach("out", "hooks")

\* Bug variant: only the direction that failed is undone.
UndoOutOnly ==
    /\ pc = "undo"
    /\ pc' = "hooks"
    /\ hooks_created' = {}
    /\ filter' = Flushed("out")
    /\ UNCHANGED <<ifname, clsact, agent, todo, cur, faults, hit>>

\* The error paths: the hooks that were created are destroyed.  (The call of
\* bpf_tc_detach before that is refused.)
Undo ==
    /\ pc = "undo"
    /\ \/ /\ hooks_created = {}
          /\ pc' = "hooks"
          /\ UNCHANGED <<filter, hooks_created, faults, hit>>
       \/ \E d \in hooks_created :
            /\ \/ Present(cur) /\ filter' = Flushed(d) /\ UNCHANGED <<faults, hit>>
               \/ Fails("destroy") /\ UNCHANGED filter
            /\ hooks_created' = hooks_created \ {d}
            /\ UNCHANGED pc
    /\ UNCHANGED <<ifname, clsact, agent, todo, cur>>

NoLocals ==
    /\ before' = {}
    /\ cur' = 1
    /\ hooks_created' = {}
    /\ hit' = [i \in Ifs |-> {}]

\* The attach of the skeleton and the query of the map; an error in either is
\* thrown, and main does not catch it.
Constructed ==
    /\ pc = "hooks"
    /\ todo = {}
    /\ \/ pc' = "idle" /\ UNCHANGED <<ifindex_map, faults>>
       \/ faults < MaxFaults /\ faults' = faults + 1 /\ pc' = "down" /\ ifindex_map' = {}
    /\ NoLocals
    /\ UNCHANGED <<kernel, run, todo>>

\* The agent is killed (it has no other end): nobody detaches anything.
Kill ==
    /\ pc # "down"
    /\ pc' = "down"
    /\ ifindex_map' = {}
    /\ todo' = {}
    /\ NoLocals
    /\ UNCHANGED <<kernel, run, faults>>

Interfaces == \E i \in Ifs : RemoveIf(i) \/ \E n \in Names : AddIf(i, n) \/ RenameIf(i, n)
Constructor == (\E i \in Ifs : NextIf(i)) \/ DestroyFirst \/ CreateHooks \/ AttachPrograms \/ Undo \/ Constructed
==============================================================================
