---------------------------- MODULE HostRegistry ----------------------------
(***************************************************************************)
(* PerformanceMonitorClient::getOrCreateHostId: how the ingesters          *)
(* (performance_instance) give every host name one row of the MySQL table  *)
(* host_info.  The call looks in the cache of the process, then SELECTs    *)
(* the row, then INSERTs one: three steps, between which other ingesters   *)
(* do the same and the connection may break.                               *)
(*                                                                         *)
(* A host_id "host_<name>_<seconds>" is the record of its two parts.  The  *)
(* last underscore separates them, so two pairs never make the same text.  *)
(* A statement the server has received outlives its connection: it is then *)
(* an orphan, which the server still executes, or rolls back.              *)
(***************************************************************************)
EXTENDS Naturals

CONSTANTS Clients,    \* ingester processes
          Names,      \* host names (MonitorInfo.name)
          NoId,       \* the empty string, and "not in the cache"
          MaxTime,    \* bound: seconds the clock advances
          MaxFaults   \* bound: failed statements, lost connections, crashes

HostId == [name : Names, at : 0 .. MaxTime]

ASSUME HostRegistryAssumption ==
    /\ MaxTime \in Nat
    /\ MaxFaults \in Nat
    /\ NoId \notin HostId

VARIABLES now,             \* std::time(nullptr), the same for all processes
          host_info,       \* SUBSET HostId: the primary keys of the table
          orphans,         \* SUBSET HostId: INSERTs whose connection is gone
          pc,              \* [Clients -> where the call in progress stands]
          host_name,       \* [Clients -> Names \cup {NoId}]: argument of the call
          new_host_id,     \* [Clients -> HostId \cup {NoId}]
          host_id_cache_,  \* [Clients -> [Names -> HostId \cup {NoId}]]
          faults,          \* faults so far
          raced            \* ghost: names created although that was not known to be safe

vars == <<now, host_info, orphans, pc, host_name, new_host_id, host_id_cache_, faults, raced>>

EmptyCache == [n \in Names |-> NoId]
RowsOf(n) == {id \in host_info : id.name = n}

\* A call between its SELECT and the execution of its INSERT.
Creating(c, n) == pc[c] \in {"make", "insert"} /\ host_name[c] = n

\* Somebody else may still add a row for n.
Contended(c, n) ==
    \/ \E d \in Clients \ {c} : Creating(d, n)
    \/ \E id \in orphans : id.name = n

Init ==
    /\ now = 0
    /\ host_info = {}
    /\ orphans = {}
    /\ pc = [c \in Clients |-> "idle"]
    /\ host_name = [c \in Clients |-> NoId]
    /\ new_host_id = [c \in Clients |-> NoId]
    /\ host_id_cache_ = [c \in Clients |-> EmptyCache]
    /\ faults = 0
    /\ raced = {}

------------------------------------------------------------------------------
(* The call.                                                               *)

Return(c) ==
    /\ pc' = [pc EXCEPT ![c] = "idle"]
    /\ host_name' = [host_name EXCEPT ![c] = NoId]
    /\ new_host_id' = [new_host_id EXCEPT ![c] = NoId]

Fault ==
    /\ faults < MaxFaults
    /\ faults' = faults + 1

\* A name that is not in the cache.  (For one that is, the call returns the
\* cached id and changes nothing.)
Call(c, n) ==
    /\ pc[c] = "idle"
    /\ host_id_cache_[c][n] = NoId
    /\ pc' = [pc EXCEPT ![c] = "select"]
    /\ host_name' = [host_name EXCEPT ![c] = n]
    /\ UNCHANGED <<now, host_info, orphans, new_host_id, host_id_cache_, faults, raced>>

\* Bug variant: the cache is given the wrong column of the row.
SelectHitWrongColumn(c) ==
    /\ pc[c] = "select"
    /\ \E id \in RowsOf(host_name[c]) :
         host_id_cache_' = [host_id_cache_ EXCEPT ![c][host_name[c]] = id.name]
    /\ Return(c)
    /\ UNCHANGED <<now, host_info, orphans, faults, raced>>

\* SELECT finds the host; of several rows, SQL does not say which comes first.
SelectHit(c) ==
    /\ pc[c] = "select"
    /\ \E id \in RowsOf(host_name[c]) :
         host_id_cache_' = [host_id_cache_ EXCEPT ![c][host_name[c]] = id]
    /\ Return(c)
    /\ UNCHANGED <<now, host_info, orphans, faults, raced>>

SelectMiss(c) ==
    /\ pc[c] = "select"
    /\ RowsOf(host_name[c]) = {}
    /\ pc' = [pc EXCEPT ![c] = "make"]
    /\ raced' = IF Contended(c, host_name[c]) THEN raced \cup {host_name[c]} ELSE raced
    /\ UNCHANGED <<now, host_info, orphans, host_name, new_host_id, host_id_cache_, faults>>

\* mysql_query or mysql_store_result fails: the code goes on as if the host
\* were not there.
SelectFail(c) ==
    /\ pc[c] = "select"
    /\ Fault
    /\ pc' = [pc EXCEPT ![c] = "make"]
    /\ raced' = raced \cup {host_name[c]}
    /\ UNCHANGED <<now, host_info, orphans, host_name, new_host_id, host_id_cache_>>

\* Bug variant: the new id is cached before the INSERT is known to be accepted.
SendInsertCachesEarly(c) ==
    /\ pc[c] = "make"
    /\ pc' = [pc EXCEPT ![c] = "insert"]
    /\ new_host_id' = [new_host_id EXCEPT ![c] = [name |-> host_name[c], at |-> now]]
    /\ host_id_cache_' = [host_id_cache_ EXCEPT ![c][host_name[c]] = [name |-> host_name[c], at |-> now]]
    /\ UNCHANGED <<now, host_info, orphans, host_name, faults, raced>>

\* The id is made from the clock, and the INSERT is sent.
SendInsert(c) ==
    /\ pc[c] = "make"
    /\ pc' = [pc EXCEPT ![c] = "insert"]
    /\ new_host_id' = [new_host_id EXCEPT ![c] = [name |-> host_name[c], at |-> now]]
    /\ UNCHANGED <<now, host_info, orphans, host_name, host_id_cache_, faults, raced>>

\* The server executes it: PRIMARY KEY (host_id) is the only constraint.
ExecInsert(c) ==
    /\ pc[c] = "insert"
    /\ pc' = [pc EXCEPT ![c] = IF new_host_id[c] \in host_info THEN "duplicate" ELSE "inserted"]
    /\ host_info' = host_info \cup {new_host_id[c]}
    /\ UNCHANGED <<now, orphans, host_name, new_host_id, host_id_cache_, faults, raced>>

InsertOk(c) ==
    /\ pc[c] = "inserted"
    /\ host_id_cache_' = [host_id_cache_ EXCEPT ![c][host_name[c]] = new_host_id[c]]
    /\ Return(c)
    /\ UNCHANGED <<now, host_info, orphans, faults, raced>>

\* Bug variant: a duplicate key is retried with the same id.
InsertDuplicateRetries(c) ==
    /\ pc[c] = "duplicate"
    /\ pc' = [pc EXCEPT ![c] = "insert"]
    /\ UNCHANGED <<now, host_info, orphans, host_name, new_host_id, host_id_cache_, faults, raced>>

\* Another process made the same id in the same second: the call returns "".
InsertDuplicate(c) ==
    /\ pc[c] = "duplicate"
    /\ Return(c)
    /\ UNCHANGED <<now, host_info, orphans, host_id_cache_, faults, raced>>

\* The server refuses the statement, and nothing is written: "".
InsertRejected(c) ==
    /\ pc[c] = "insert"
    /\ Fault
    /\ Return(c)
    /\ UNCHANGED <<now, host_info, orphans, host_id_cache_, raced>>

\* Bug variant: after a lost answer the INSERT is retried without a new SELECT.
InsertLostRetries(c) ==
    /\ pc[c] \in {"insert", "inserted", "duplicate"}
    /\ Fault
    /\ orphans' = IF pc[c] = "insert" THEN orphans \cup {new_host_id[c]} ELSE orphans
    /\ pc' = [pc EXCEPT ![c] = "make"]
    /\ UNCHANGED <<now, host_info, host_name, new_host_id, host_id_cache_, raced>>

\* The connection breaks under the INSERT: "", whether it was executed or not.
InsertLost(c) ==
    /\ pc[c] \in {"insert", "inserted", "duplicate"}
    /\ Fault
    /\ orphans' = IF pc[c] = "insert" THEN orphans \cup {new_host_id[c]} ELSE orphans
    /\ Return(c)
    /\ UNCHANGED <<now, host_info, host_id_cache_, raced>>

------------------------------------------------------------------------------
(* The environment.                                                        *)

\* The process dies and is started again, with an empty cache.
Crash(c) ==
    /\ Fault
    /\ orphans' = IF pc[c] = "insert" THEN orphans \cup {new_host_id[c]} ELSE orphans
    /\ Return(c)
    /\ host_id_cache_' = [host_id_cache_ EXCEPT ![c] = EmptyCache]
    /\ UNCHANGED <<now, host_info, raced>>

\* The server gets to an orphan: executed, or rolled back with its connection.
Orphan ==
    /\ \E id \in orphans :
         /\ orphans' = orphans \ {id}
         /\ host_info' \in {host_info, host_info \cup {id}}
    /\ UNCHANGED <<now, pc, host_name, new_host_id, host_id_cache_, faults, raced>>

Tick ==
    /\ now < MaxTime
    /\ now' = now + 1
    /\ UNCHANGED <<host_info, orphans, pc, host_name, new_host_id, host_id_cache_, faults, raced>>

\* What goes on without anything failing.
Progress(c) ==
    \/ SelectHit(c) \/ SelectMiss(c) \/ SendInsert(c) \/ ExecInsert(c)
    \/ InsertOk(c) \/ InsertDuplicate(c)

Failure(c) == SelectFail(c) \/ InsertRejected(c) \/ InsertLost(c)

Next ==
    \/ \E c \in Clients : Progress(c) \/ Failure(c) \/ Crash(c) \/ \E n \in Names : Call(c, n)
    \/ Orphan
    \/ Tick

Spec == Init /\ [][Next]_vars

\* storeToDatabase asks for every host of the response in every cycle (strong
\* fairness of Call, which the calls for other hosts disable meanwhile), and
\* MySQL answers every statement.
FairSpec ==
    /\ Spec
    /\ \A c \in Clients : WF_vars(Progress(c))
    /\ \A c \in Clients, n \in Names : SF_vars(Call(c, n))

------------------------------------------------------------------------------
(* Properties.                                                             *)

TypeOK ==
    /\ now \in 0 .. MaxTime
    /\ host_info \subseteq HostId
    /\ orphans \subseteq HostId
    /\ pc \in [Clients -> {"idle", "select", "make", "insert", "inserted", "duplicate"}]
    /\ host_name \in [Clients -> Names \cup {NoId}]
    /\ new_host_id \in [Clients -> HostId \cup {NoId}]
    /\ host_id_cache_ \in [Clients -> [Names -> HostId \cup {NoId}]]
    /\ faults \in 0 .. MaxFaults
    /\ raced \subseteq Names

\* A cached host_id is the key of a row of host_info for that very host, so
\* that the foreign keys of the metric tables accept it (performance_server.cpp
\* 411-437, against lost answers, duplicate keys and restarts).
CacheSound ==
    \A c \in Clients, n \in Names : host_id_cache_[c][n] # NoId => host_id_cache_[c][n] \in RowsOf(n)

\* A host has one row in host_info, and so one history, unless its SELECT
\* failed or its INSERT overlapped one of another process or of a broken
\* connection: restarts, lost answers and refused statements alone never give
\* it a second id (performance_server.cpp:405-437; host_name has no UNIQUE key).
UniqueUnlessRaced ==
    \A n \in Names \ raced : \A id1, id2 \in RowsOf(n) : id1 = id2

\* Why both hold: the inductive invariant of HostRegistry_proofs.  A call knows
\* its host, and its id once it has made one; ...
CallConsistent ==
    \A c \in Clients :
       /\ pc[c] # "idle" => host_name[c] \in Names
       /\ pc[c] \in {"insert", "inserted", "duplicate"} =>
            new_host_id[c] \in HostId /\ new_host_id[c].name = host_name[c]
       /\ pc[c] \in {"inserted", "duplicate"} => new_host_id[c] \in host_info

\* ... and as long as a name has not been raced for, whoever creates it is
\* alone, and the table has no row of it yet.
SoleCreator ==
    \A n \in Names \ raced :
       /\ \A c, d \in Clients : Creating(c, n) /\ Creating(d, n) => c = d
       /\ \A c \in Clients : Creating(c, n) => RowsOf(n) = {} /\ \A id \in orphans : id.name # n
       /\ \A id \in orphans : id.name = n => RowsOf(n) = {}
       /\ \A id1, id2 \in orphans : id1.name = n /\ id2.name = n => id1 = id2

IInv == TypeOK /\ CallConsistent /\ CacheSound /\ UniqueUnlessRaced /\ SoleCreator

\* "if it does not exist, create a new record" (performance_server.cpp:426): a
\* call starts to create a host only when host_info has no row for it.
CreatesOnlyIfAbsent ==
    [][\A c \in Clients : pc[c] = "select" /\ pc'[c] = "make" => RowsOf(host_name[c]) = {}]_vars

\* Every ingester ends up with an id for every host: an id lost to a fault, to
\* a restart or to a key made by another process in the same second is found
\* again in a later cycle.
AllResolve == \A c \in Clients, n \in Names : <>[](host_id_cache_[c][n] # NoId)
==============================================================================
