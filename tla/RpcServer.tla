------------------------------ MODULE RpcServer ------------------------------
(***************************************************************************)
(* The gRPC server (grpc/server, server) with the processes that call it:  *)
(* the agents (client), each blocked in at most one SetMonitorInfo, and    *)
(* the pollers (performance_instance), each in at most one GetMonitorInfo. *)
(*                                                                         *)
(* A call that the server accepted runs on a handler thread of its own.    *)
(* RpcClient sets no deadline, and the service never looks at its          *)
(* ServerContext: when the connection breaks, the caller returns with an   *)
(* error and the handler runs on to its end.  Such a handler is no longer  *)
(* "live", and its caller may issue the next call while it still runs.     *)
(*                                                                         *)
(* A MonitorInfo is abstracted to the agent that made it and its rank in   *)
(* that agent's sequence of samples.                                       *)
(***************************************************************************)
EXTENDS Naturals

CONSTANTS Agents,      \* machines running the agent
          Pollers,     \* processes that pull the table
          Handlers,    \* handler threads of the server
          NameOf,      \* [Agents -> names]: the user name each agent runs under
          MaxSeq,      \* bound: samples taken by one agent
          NoHandler,   \* "no handler"
          Absent,      \* "key not in the map"
          Default      \* the default-constructed MonitorInfo of operator[]

Sample == [agent : Agents, seq : 1 .. MaxSeq]
Names == {NameOf[a] : a \in Agents}

ASSUME RpcServerAssumption ==
    /\ MaxSeq \in Nat
    /\ DOMAIN NameOf = Agents
    /\ NoHandler \notin Handlers
    /\ Absent \notin Sample
    /\ Default \notin Sample
    /\ Default # Absent
    /\ Agents \cap Pollers = {}

VARIABLES phase,              \* of the server process
          mtx_,               \* holder of RpcServerImpl::mtx_
          monitor_infos_map_, \* [Names -> Sample \cup {Absent, Default}]
          handler,            \* [Handlers -> HandlerState]
          seq,                \* [Agents -> Nat]: samples taken so far
          call,               \* [Agents \cup Pollers -> Handlers \cup {NoHandler}]
          acked               \* ghost: agents with a sample answered OK by this server process

vars == <<phase, mtx_, monitor_infos_map_, handler, seq, call, acked>>

HandlerState ==
    [pc     : {"idle", "entry", "insert", "assign", "unlock", "copy", "reply"},
     kind   : {"none", "set", "get"},
     caller : Agents \cup Pollers \cup {NoHandler},
     live   : BOOLEAN,                  \* its caller still waits for the reply
     req    : Sample \cup {Absent},     \* *request of a set
     todo   : SUBSET Names,             \* keys the loop of a get has yet to visit
     resp   : SUBSET (Sample \cup {Default})]    \* response->infos() so far

Idle == [pc |-> "idle", kind |-> "none", caller |-> NoHandler, live |-> FALSE,
         req |-> Absent, todo |-> {}, resp |-> {}]

EmptyMap == [n \in Names |-> Absent]
Keys == {n \in Names : monitor_infos_map_[n] # Absent}
Accepting == phase \in {"serving", "signalled"}

Init ==
    /\ phase = "down"
    /\ mtx_ = NoHandler
    /\ monitor_infos_map_ = EmptyMap
    /\ handler = [i \in Handlers |-> Idle]
    /\ seq = [a \in Agents |-> 0]
    /\ call = [c \in Agents \cup Pollers |-> NoHandler]
    /\ acked = {}

------------------------------------------------------------------------------
(* The server process: InitServer and its end.                             *)

\* BuildAndStart on a fresh RpcServerImpl.
Start ==
    /\ phase \in {"down", "crashed"}
    /\ phase' = "serving"
    /\ UNCHANGED <<mtx_, monitor_infos_map_, handler, seq, call, acked>>

\* SIGINT or SIGTERM: SignalHandler only sets server_shutdown.  The service
\* keeps accepting until the waiting loop wakes up, up to 100 ms later.
Signal ==
    /\ phase = "serving"
    /\ phase' = "signalled"
    /\ UNCHANGED <<mtx_, monitor_infos_map_, handler, seq, call, acked>>

\* The loop leaves; server->Shutdown() stops accepting.
BeginShutdown ==
    /\ phase = "signalled"
    /\ phase' = "draining"
    /\ UNCHANGED <<mtx_, monitor_infos_map_, handler, seq, call, acked>>

\* Shutdown() returns when no call is in flight; the map dies with the object.
FinishShutdown ==
    /\ phase = "draining"
    /\ \A i \in Handlers : handler[i] = Idle
    /\ phase' = "down"
    /\ monitor_infos_map_' = EmptyMap
    /\ acked' = {}
    /\ UNCHANGED <<mtx_, handler, seq, call>>

\* The process dies: by a fault, or by a signal that arrives between
\* BuildAndStart and the two calls of std::signal.
Crash ==
    /\ phase \notin {"down", "crashed"}
    /\ phase' = "crashed"
    /\ mtx_' = NoHandler
    /\ monitor_infos_map_' = EmptyMap
    /\ handler' = [i \in Handlers |-> Idle]
    /\ call' = [c \in Agents \cup Pollers |-> NoHandler]
    /\ acked' = {}
    /\ UNCHANGED seq

------------------------------------------------------------------------------
(* The callers.                                                            *)

\* Bug variant: the agent does not wait for the answer to its last report.
AgentSendAsync(a, i) ==
    /\ Accepting
    /\ seq[a] < MaxSeq
    /\ handler[i] = Idle
    /\ seq' = [seq EXCEPT ![a] = @ + 1]
    /\ call' = [call EXCEPT ![a] = i]
    /\ handler' = [handler EXCEPT ![i] =
                     [Idle EXCEPT !.pc = "entry", !.kind = "set", !.caller = a, !.live = TRUE,
                                  !.req = [agent |-> a, seq |-> seq[a] + 1]]]
    /\ UNCHANGED <<phase, mtx_, monitor_infos_map_, acked>>

\* One round of the agent's loop, up to the point where the call is accepted.
AgentSend(a, i) ==
    /\ Accepting
    /\ call[a] = NoHandler
    /\ seq[a] < MaxSeq
    /\ handler[i] = Idle
    /\ seq' = [seq EXCEPT ![a] = @ + 1]
    /\ call' = [call EXCEPT ![a] = i]
    /\ handler' = [handler EXCEPT ![i] =
                     [Idle EXCEPT !.pc = "entry", !.kind = "set", !.caller = a, !.live = TRUE,
                                  !.req = [agent |-> a, seq |-> seq[a] + 1]]]
    /\ UNCHANGED <<phase, mtx_, monitor_infos_map_, acked>>

\* The call never reaches the service: the error is printed, the sample dropped.
AgentUnreachable(a) ==
    /\ call[a] = NoHandler
    /\ seq[a] < MaxSeq
    /\ seq' = [seq EXCEPT ![a] = @ + 1]
    /\ UNCHANGED <<phase, mtx_, monitor_infos_map_, handler, call, acked>>

PollerSend(p, i) ==
    /\ Accepting
    /\ call[p] = NoHandler
    /\ handler[i] = Idle
    /\ call' = [call EXCEPT ![p] = i]
    /\ handler' = [handler EXCEPT ![i] =
                     [Idle EXCEPT !.pc = "entry", !.kind = "get", !.caller = p, !.live = TRUE]]
    /\ UNCHANGED <<phase, mtx_, monitor_infos_map_, seq, acked>>

\* The connection breaks under a call: the caller returns, the handler runs on.
Abandon(c) ==
    /\ call[c] # NoHandler
    /\ handler' = [handler EXCEPT ![call[c]].live = FALSE]
    /\ call' = [call EXCEPT ![c] = NoHandler]
    /\ UNCHANGED <<phase, mtx_, monitor_infos_map_, seq, acked>>

------------------------------------------------------------------------------
(* RpcServerImpl::SetMonitorInfo and RpcServerImpl::GetMonitorInfo.        *)

\* Bug variant: GetMonitorInfo reads the map without the lock.
LockSetOnly(i) ==
    /\ handler[i].pc = "entry"
    /\ handler[i].kind = "set" => mtx_ = NoHandler
    /\ mtx_' = IF handler[i].kind = "set" THEN i ELSE mtx_
    /\ handler' = [handler EXCEPT ![i] = [@ EXCEPT
                     !.pc = IF handler[i].kind = "set" THEN "insert" ELSE "copy",
                     !.todo = IF handler[i].kind = "set" THEN {} ELSE Keys]]
    /\ UNCHANGED <<phase, monitor_infos_map_, seq, call, acked>>

\* Bug variant: SetMonitorInfo answers OK at once when the lock is taken.
LockOrSkip(i) ==
    /\ handler[i].pc = "entry"
    /\ mtx_ = NoHandler \/ handler[i].kind = "set"
    /\ mtx_' = IF mtx_ = NoHandler THEN i ELSE mtx_
    /\ handler' = [handler EXCEPT ![i] = [@ EXCEPT
                     !.pc = IF mtx_ # NoHandler THEN "reply"
                               ELSE IF handler[i].kind = "set" THEN "insert" ELSE "copy",
                     !.todo = IF handler[i].kind = "set" THEN {} ELSE Keys]]
    /\ UNCHANGED <<phase, monitor_infos_map_, seq, call, acked>>

\* Bug variant: the response is filled for every known name, present or not.
LockAllNames(i) ==
    /\ handler[i].pc = "entry"
    /\ mtx_ = NoHandler
    /\ mtx_' = i
    /\ handler' = [handler EXCEPT ![i] = [@ EXCEPT
                     !.pc = IF handler[i].kind = "set" THEN "insert" ELSE "copy",
                     !.todo = IF handler[i].kind = "set" THEN {} ELSE Names]]
    /\ UNCHANGED <<phase, monitor_infos_map_, seq, call, acked>>

\* std::unique_lock lock(mtx_), the first statement of both handlers.
Lock(i) ==
    /\ handler[i].pc = "entry"
    /\ mtx_ = NoHandler
    /\ mtx_' = i
    /\ handler' = [handler EXCEPT ![i] = [@ EXCEPT
                     !.pc = IF handler[i].kind = "set" THEN "insert" ELSE "copy",
                     !.todo = IF handler[i].kind = "set" THEN {} ELSE Keys]]
    /\ UNCHANGED <<phase, monitor_infos_map_, seq, call, acked>>

\* operator[] of the map inserts a default MonitorInfo for a new key...
SetInsert(i) ==
    /\ handler[i].pc = "insert"
    /\ LET n == NameOf[handler[i].req.agent] IN
         monitor_infos_map_' = [monitor_infos_map_ EXCEPT ![n] = IF @ = Absent THEN Default ELSE @]
    /\ handler' = [handler EXCEPT ![i].pc = "assign"]
    /\ UNCHANGED <<phase, mtx_, seq, call, acked>>

\* ... and the assignment then copies the request into it.
SetAssign(i) ==
    /\ handler[i].pc = "assign"
    /\ monitor_infos_map_' = [monitor_infos_map_ EXCEPT ![NameOf[handler[i].req.agent]] = handler[i].req]
    /\ handler' = [handler EXCEPT ![i].pc = "unlock"]
    /\ UNCHANGED <<phase, mtx_, seq, call, acked>>

\* Bug variant: the lock is never released.
SetUnlockForgotten(i) ==
    /\ handler[i].pc = "unlock"
    /\ handler' = [handler EXCEPT ![i].pc = "reply"]
    /\ UNCHANGED <<phase, mtx_, monitor_infos_map_, seq, call, acked>>

\* lock.unlock(); the rest of the handler only prints *request.
SetUnlock(i) ==
    /\ handler[i].pc = "unlock"
    /\ mtx_' = NoHandler
    /\ handler' = [handler EXCEPT ![i].pc = "reply"]
    /\ UNCHANGED <<phase, monitor_infos_map_, seq, call, acked>>

\* One round of the loop of GetMonitorInfo: add_infos() and CopyFrom.
GetCopy(i) ==
    /\ handler[i].pc = "copy"
    /\ \E n \in handler[i].todo :
         handler' = [handler EXCEPT ![i].todo = @ \ {n},
                                    ![i].resp = @ \cup {monitor_infos_map_[n]}]
    /\ UNCHANGED <<phase, mtx_, monitor_infos_map_, seq, call, acked>>

\* Bug variant: the loop may end before the last entry.
GetReturnEarly(i) ==
    /\ handler[i].pc = "copy"
    /\ mtx_' = NoHandler
    /\ handler' = [handler EXCEPT ![i].pc = "reply"]
    /\ UNCHANGED <<phase, monitor_infos_map_, seq, call, acked>>

\* return: the destructor of the lock releases mtx_.
GetReturn(i) ==
    /\ handler[i].pc = "copy"
    /\ handler[i].todo = {}
    /\ mtx_' = NoHandler
    /\ handler' = [handler EXCEPT ![i].pc = "reply"]
    /\ UNCHANGED <<phase, monitor_infos_map_, seq, call, acked>>

\* The library sends the reply, if there is still someone to send it to.
Reply(i) ==
    /\ handler[i].pc = "reply"
    /\ handler' = [handler EXCEPT ![i] = Idle]
    /\ IF handler[i].live
       THEN /\ call' = [call EXCEPT ![handler[i].caller] = NoHandler]
            /\ acked' = IF handler[i].kind = "set" THEN acked \cup {handler[i].caller} ELSE acked
       ELSE UNCHANGED <<call, acked>>
    /\ UNCHANGED <<phase, mtx_, monitor_infos_map_, seq>>

HandlerStep(i) ==
    \/ Lock(i) \/ SetInsert(i) \/ SetAssign(i) \/ SetUnlock(i)
    \/ GetCopy(i) \/ GetReturn(i) \/ Reply(i)

Lifecycle == Start \/ Signal \/ BeginShutdown \/ FinishShutdown \/ Crash

Next ==
    \/ Lifecycle
    \/ \E a \in Agents : AgentUnreachable(a) \/ \E i \in Handlers : AgentSend(a, i)
    \/ \E p \in Pollers, i \in Handlers : PollerSend(p, i)
    \/ \E c \in Agents \cup Pollers : Abandon(c)
    \/ \E i \in Handlers : HandlerStep(i)

Spec == Init /\ [][Next]_vars

\* The kernel runs every handler thread, and the waiting loop of InitServer.
\* Nothing is assumed of clients, signals, crashes or operators.
FairSpec ==
    /\ Spec
    /\ \A i \in Handlers : WF_vars(HandlerStep(i))
    /\ WF_vars(BeginShutdown)
    /\ WF_vars(FinishShutdown)

------------------------------------------------------------------------------
(* Properties.                                                             *)

TypeOK ==
    /\ phase \in {"down", "crashed", "serving", "signalled", "draining"}
    /\ mtx_ \in Handlers \cup {NoHandler}
    /\ monitor_infos_map_ \in [Names -> Sample \cup {Absent, Default}]
    /\ handler \in [Handlers -> HandlerState]
    /\ seq \in [Agents -> 0 .. MaxSeq]
    /\ call \in [Agents \cup Pollers -> Handlers \cup {NoHandler}]
    /\ acked \subseteq Agents

\* A response that is being built holds only samples that some agent sent
\* under a name of the table, never the default MonitorInfo that operator[]
\* makes on the way (server.cpp, the lock around line 12).
ResponsesAreReal ==
    \A i \in Handlers : \A v \in handler[i].resp : v \in Sample /\ v.seq \in 1 .. seq[v.agent]

\* Every agent whose report was answered OK since the server started has an
\* entry of its own in the table (server.cpp:12; what GetMonitorInfo returns
\* "in batch" is the table).  It needs user names that tell agents apart.
AckedAgentListed == \A a \in acked : \E n \in Names : monitor_infos_map_[n] \in Sample /\ monitor_infos_map_[n].agent = a

Regresses(n) ==
    /\ monitor_infos_map_[n] \in Sample /\ monitor_infos_map_'[n] \in Sample
    /\ monitor_infos_map_'[n].agent = monitor_infos_map_[n].agent
    /\ monitor_infos_map_'[n].seq < monitor_infos_map_[n].seq

RegressIsLate ==
    (\E n \in Names : Regresses(n)) => \E i \in Handlers : handler[i].pc = "assign" /\ ~handler[i].live

\* The entry of an agent never goes back to an older sample of that agent,
\* except by a handler whose caller had given the call up: a late handler is
\* the only way in which reports are applied out of order (server.cpp:12-14,
\* main.cpp:82 of the client, which waits for the answer).
OnlyAbandonedRegress == [][RegressIsLate]_vars

\* Why these hold: the inductive invariant of RpcServer_proofs.  What a handler
\* works on, ...
HandlersConsistent ==
    \A i \in Handlers : LET h == handler[i] IN
       /\ h.pc = "idle" => h = Idle
       /\ h.pc # "idle" => h.kind \in {"set", "get"}
       /\ h.kind = "set" => /\ h.caller \in Agents /\ h.req \in Sample /\ h.req.agent = h.caller
                            /\ h.req.seq <= seq[h.caller]
                            /\ h.resp = {} /\ h.pc # "copy"
       /\ h.kind = "get" => h.caller \in Pollers /\ h.req = Absent /\ h.pc \in {"entry", "copy", "reply"}
       /\ h.pc = "entry" => h.resp = {}

\* ... who waits for it (a live handler has the newest sample of its caller), ...
CallsConsistent ==
    /\ \A c \in Agents \cup Pollers : \A i \in Handlers :
         call[c] = i <=> handler[i].live /\ handler[i].caller = c
    /\ \A i \in Handlers : handler[i].live => handler[i].caller \in Agents \cup Pollers
    /\ \A i \in Handlers :
         handler[i].kind = "set" /\ handler[i].live => handler[i].req.seq = seq[handler[i].caller]

\* ... who holds the lock, ...
InLock(i) == handler[i].pc \in {"insert", "assign", "unlock", "copy"}
MutualExclusion == \A i \in Handlers : InLock(i) <=> mtx_ = i

\* ... what is in the map (a default MonitorInfo only under the lock), ...
MapConsistent ==
    \A n \in Names : LET v == monitor_infos_map_[n] IN
       /\ v \in Sample => NameOf[v.agent] = n /\ v.seq <= seq[v.agent]
       /\ v = Default => \E i \in Handlers : handler[i].pc = "assign" /\ NameOf[handler[i].req.agent] = n

\* ... how far the loop of a get is, ...
CopyConsistent ==
    \A i \in Handlers : handler[i].pc = "copy" =>
       /\ handler[i].todo \subseteq Keys
       /\ handler[i].resp = {monitor_infos_map_[n] : n \in Keys \ handler[i].todo}

\* ... and, if names tell agents apart, what has been reported for good.
NamesTellApart == \A a, b \in Agents : NameOf[a] = NameOf[b] => a = b
Listed(a) == monitor_infos_map_[NameOf[a]] \in Sample /\ monitor_infos_map_[NameOf[a]].agent = a
ReportsListed ==
    NamesTellApart =>
       /\ \A a \in acked : Listed(a)
       /\ \A i \in Handlers : handler[i].kind = "set" /\ handler[i].pc \in {"unlock", "reply"} => Listed(handler[i].caller)

IInv == /\ TypeOK /\ HandlersConsistent /\ CallsConsistent /\ MutualExclusion /\ MapConsistent
        /\ CopyConsistent /\ ReportsListed /\ ResponsesAreReal

\* Once Shutdown() was called the process ends: no handler waits for ever,
\* neither for mtx_ nor for a caller that is gone.
ShutdownCompletes == (phase = "draining") ~> (phase \in {"down", "crashed"})

\* The service implements the atomic table: a call takes effect in SetAssign,
\* or in GetReturn, while the handler holds the lock.
AbstractStore ==
    [n \in Names |-> IF monitor_infos_map_[n] = Default THEN Absent ELSE monitor_infos_map_[n]]

AbstractOp(s) ==
    IF s.kind = "none"
    THEN [st |-> "none", kind |-> "none", name |-> Absent, val |-> Absent, resp |-> {}]
    ELSE [st |-> IF s.pc \in {"unlock", "reply"} THEN "done" ELSE "pending",
          kind |-> s.kind,
          name |-> IF s.kind = "set" THEN NameOf[s.req.agent] ELSE Absent,
          val  |-> s.req,
          resp |-> IF s.pc = "reply" THEN s.resp ELSE {}]

AbstractOps == [i \in Handlers |-> AbstractOp(handler[i])]

Store == INSTANCE AtomicStore WITH
    Samples <- Sample, Slots <- Handlers, store <- AbstractStore, op <- AbstractOps

\* Every step of the service is a step of the atomic table or a stutter: each
\* SetMonitorInfo and GetMonitorInfo takes effect at one instant between its
\* acceptance and its reply, also when the caller is gone (server.cpp:8-123).
ImplementsAtomicStore == Store!Spec
==============================================================================
