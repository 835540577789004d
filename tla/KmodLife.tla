------------------------------ MODULE KmodLife ------------------------------
(***************************************************************************)
(* The life of one of the three kernel modules, cpu_load, cpu_stat and     *)
(* cpu_softirq: init allocates the shared buffer, arms the timer and       *)
(* registers the device; exit does the reverse.  Meanwhile the callback    *)
(* writes to the buffer, and processes open and map the device.            *)
(*                                                                         *)
(* The kernel around them is modelled as far as they rely on it: a module  *)
(* with .owner in its file operations is not removed while one of its      *)
(* files is open or mapped, and hrtimer_cancel waits for the callback.     *)
(***************************************************************************)
EXTENDS Integers, FiniteSets

CONSTANTS Users,      \* processes that map the device
          MaxLoads,   \* bound: insmods
          MaxFaults   \* bound: calls that fail

Kinds == {"load", "stat", "softirq"}
Filled == {"stat", "softirq"}    \* init fills the buffer
Checked == {"stat", "softirq"}   \* init looks at the result of misc_register

ASSUME KmodLifeAssumption == MaxLoads \in Nat /\ MaxFaults \in Nat

VARIABLES
    kind,        \* the module
    st,          \* where its init or exit stands; "out", "in" between them
    live,        \* the buffer is allocated
    armed,       \* its timer is
    registered,  \* the device is
    orphan,      \* the timer of an init that failed is still armed
    filled,      \* everything in the buffer was written since vmalloc
    upc,         \* [Users -> "idle", "opened" or "mapped"]
    loads,
    faults,
    broken       \* a callback ran on memory that is not its own

module == <<kind, st, live, armed, registered, orphan>>
bounds == <<loads, faults>>
lifevars == <<module, filled, upc, bounds, broken>>

LifeInit ==
    /\ kind \in Kinds
    /\ st = "out"
    /\ live = FALSE
    /\ armed = FALSE
    /\ registered = FALSE
    /\ orphan = FALSE
    /\ filled = FALSE
    /\ upc = [u \in Users |-> "idle"]
    /\ loads = 0
    /\ faults = 0
    /\ broken = FALSE

InUse == \E u \in Users : upc[u] # "idle"

Fault == faults < MaxFaults /\ faults' = faults + 1

------------------------------------------------------------------------------
(* Init.                                                                   *)

\* vmalloc; what it returns is not zeroed.
Alloc ==
    /\ st = "out" /\ loads < MaxLoads
    /\ loads' = loads + 1
    /\ \/ /\ live' = TRUE
          /\ filled' = FALSE
          /\ st' = IF kind \in Filled THEN "fill" ELSE "arm"
          /\ UNCHANGED faults
       \/ Fault /\ UNCHANGED <<live, filled, st>>
    /\ UNCHANGED <<kind, armed, registered, orphan, upc, broken>>

\* Bug variant: filling the buffer is left to the callback.
FillDoneNot ==
    /\ st = "fill"
    /\ st' = "arm"
    /\ UNCHANGED <<kind, live, armed, registered, orphan, filled, upc, bounds, broken>>

\* The first update is done by init itself.
FillDone ==
    /\ st = "fill"
    /\ st' = "arm"
    /\ filled' = TRUE
    /\ UNCHANGED <<kind, live, armed, registered, orphan, upc, bounds, broken>>

Arm ==
    /\ st = "arm"
    /\ armed' = TRUE
    /\ st' = "register"
    /\ UNCHANGED <<kind, live, registered, orphan, filled, upc, bounds, broken>>

Register ==
    /\ st = "register"
    /\ registered' = TRUE
    /\ st' = "in"
    /\ UNCHANGED <<kind, live, armed, orphan, filled, upc, bounds, broken>>

\* misc_register fails: the buffer is freed and insmod fails, but the timer
\* goes on.  cpu_load does not notice, and stays without a device.
RegisterFails ==
    /\ st = "register" /\ Fault
    /\ IF kind \in Checked
       THEN /\ st' = "out"
            /\ live' = FALSE
            /\ orphan' = TRUE
            /\ armed' = FALSE
       ELSE st' = "in" /\ UNCHANGED <<live, orphan, armed>>
    /\ UNCHANGED <<kind, registered, filled, upc, loads, broken>>

------------------------------------------------------------------------------
(* Exit.                                                                   *)

\* Bug variant: .owner is forgotten.
RmmodInUse ==
    /\ st = "in"
    /\ st' = "cancel"
    /\ UNCHANGED <<kind, live, armed, registered, orphan, filled, upc, bounds, broken>>

Rmmod ==
    /\ st = "in" /\ ~InUse
    /\ st' = "cancel"
    /\ UNCHANGED <<kind, live, armed, registered, orphan, filled, upc, bounds, broken>>

\* Bug variant: the timer is cancelled last.
CancelLast(calm) ==
    /\ st = "cancel"
    /\ st' = "deregister"
    /\ UNCHANGED <<kind, live, armed, registered, orphan, filled, upc, bounds, broken>>

\* hrtimer_cancel returns when the callback does not run.
Cancel(calm) ==
    /\ st = "cancel" /\ calm
    /\ armed' = FALSE
    /\ st' = "deregister"
    /\ UNCHANGED <<kind, live, registered, orphan, filled, upc, bounds, broken>>

Deregister ==
    /\ st = "deregister"
    /\ registered' = FALSE
    /\ st' = "free"
    /\ UNCHANGED <<kind, live, armed, orphan, filled, upc, bounds, broken>>

Free ==
    /\ st = "free"
    /\ live' = FALSE
    /\ st' = "out"
    /\ UNCHANGED <<kind, armed, registered, orphan, filled, upc, bounds, broken>>

------------------------------------------------------------------------------
(* The timer and the users.                                                *)

\* A callback that finds its buffer freed, or its module gone.
Breaks ==
    /\ \/ orphan
       \/ armed /\ ~live
    /\ broken' = TRUE
    /\ UNCHANGED <<module, filled, upc, bounds>>

Refilled ==
    /\ filled' = TRUE
    /\ UNCHANGED <<module, upc, bounds, broken>>

\* A device that is not there, or whose module goes, is not opened.
Open(u) ==
    /\ registered /\ st = "in"
    /\ upc[u] = "idle"
    /\ upc' = [upc EXCEPT ![u] = "opened"]
    /\ UNCHANGED <<module, filled, bounds, broken>>

Map(u) ==
    /\ upc[u] = "opened"
    /\ upc' = [upc EXCEPT ![u] = "mapped"]
    /\ UNCHANGED <<module, filled, bounds, broken>>

\* mmap fails: the file is closed.
MapFails(u) ==
    /\ upc[u] = "opened" /\ Fault
    /\ upc' = [upc EXCEPT ![u] = "idle"]
    /\ UNCHANGED <<module, filled, loads, broken>>

\* munmap and close, at the end of a cycle or of the process.
Release(u) ==
    /\ upc[u] # "idle"
    /\ upc' = [upc EXCEPT ![u] = "idle"]
    /\ UNCHANGED <<module, filled, bounds, broken>>
==============================================================================
