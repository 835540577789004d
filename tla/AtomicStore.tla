----------------------------- MODULE AtomicStore -----------------------------
(***************************************************************************)
(* What the gRPC service GrpcManager promises its callers: a table with    *)
(* one MonitorInfo per name in which every SetMonitorInfo and every        *)
(* GetMonitorInfo takes effect at a single instant between its call and    *)
(* its return.  RpcServer, the service as it is written, implements this.  *)
(***************************************************************************)
CONSTANTS Names,    \* keys of the table (MonitorInfo.name)
          Samples,  \* MonitorInfo messages
          Absent,   \* "no entry": not a sample
          Slots     \* concurrent calls

VARIABLES store,    \* [Names -> Samples \cup {Absent}]
          op        \* [Slots -> Op]
vars == <<store, op>>

None == [st |-> "none", kind |-> "none", name |-> Absent, val |-> Absent, resp |-> {}]

Empty == [n \in Names |-> Absent]

Contents == {store[n] : n \in Names} \ {Absent}

Init == store = Empty /\ op = [s \in Slots |-> None]

CallSet(s) ==
    /\ op[s] = None
    /\ \E n \in Names, v \in Samples :
         op' = [op EXCEPT ![s] = [st |-> "pending", kind |-> "set", name |-> n,
                                  val |-> v, resp |-> {}]]
    /\ UNCHANGED store

CallGet(s) ==
    /\ op[s] = None
    /\ op' = [op EXCEPT ![s] = [st |-> "pending", kind |-> "get", name |-> Absent,
                                val |-> Absent, resp |-> {}]]
    /\ UNCHANGED store

\* The instant at which a pending set takes effect.
ApplySet(s) ==
    /\ op[s].st = "pending" /\ op[s].kind = "set"
    /\ store' = [store EXCEPT ![op[s].name] = op[s].val]
    /\ op' = [op EXCEPT ![s].st = "done"]

\* The instant at which a pending get takes effect: it sees the whole table.
ApplyGet(s) ==
    /\ op[s].st = "pending" /\ op[s].kind = "get"
    /\ op' = [op EXCEPT ![s] = [st |-> "done", kind |-> "get", name |-> Absent,
                                val |-> Absent, resp |-> Contents]]
    /\ UNCHANGED store

Return(s) ==
    /\ op[s].st = "done"
    /\ op' = [op EXCEPT ![s] = None]
    /\ UNCHANGED store

\* The server process ends, and everything in its memory with it.
Forget == store' = Empty /\ op' = [s \in Slots |-> None]

Next ==
    \/ \E s \in Slots : CallSet(s) \/ CallGet(s) \/ ApplySet(s) \/ ApplyGet(s) \/ Return(s)
    \/ Forget

Spec == Init /\ [][Next]_vars
==============================================================================
