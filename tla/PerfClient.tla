----------------------------- MODULE PerfClient -----------------------------
(***************************************************************************)
(* performance_instance: main() and the monitoring thread of its           *)
(* PerformanceMonitorClient.  Each of them fetches the table of the gRPC   *)
(* server into current_data_ and stores it in MySQL, row by row; main      *)
(* does so once, before it starts the thread, and ends it after a signal.  *)
(* The host ids come from HostRegistry, of which this process is one       *)
(* client.                                                                 *)
(*                                                                         *)
(* A response is the sequence of the hosts in it, the sample that it has   *)
(* of each, and the rank of the fetch that got it: the same sample may be  *)
(* in the responses of many fetches.  The content of a row is where it     *)
(* comes from: host, sample, table, position, rank of the fetch.           *)
(***************************************************************************)
EXTENDS Naturals, Sequences, FiniteSets

CONSTANTS Hosts,      \* names in the responses of the server
          Ingester,   \* this process, as a client of HostRegistry
          RowsIn,     \* [Tables -> Nat]: CPUs, disks and interfaces of a host
          NoId,       \* the empty string
          MaxTime,    \* bound of HostRegistry
          MaxFaults,  \* bound: failed statements, exceptions
          MaxFetch    \* bound: fetches that the server answers

\* The metric tables in the order in which storeToDatabase fills them.
TableSeq == <<"cpu_metrics", "soft_irq_metrics", "memory_metrics", "disk_metrics", "network_metrics">>
Tables == {TableSeq[k] : k \in 1 .. 5}
Threads == {"main", "monitor"}

\* Hosts in a response: keys of a map, in the order of its iteration.
Responses == {s \in UNION {[1 .. k -> Hosts] : k \in 0 .. Cardinality(Hosts)} :
                \A i, j \in DOMAIN s : s[i] = s[j] => i = j}

ASSUME PerfClientAssumption ==
    /\ RowsIn \in [Tables -> Nat]
    /\ RowsIn["memory_metrics"] = 1
    /\ MaxFetch \in Nat /\ MaxTime \in Nat /\ MaxFaults \in Nat
    /\ NoId \notin [name : Hosts, at : 0 .. MaxTime]

VARIABLES
    main_pc,             \* where main() stands
    stop_flag,           \* set by the signal handler
    monitoring_active_,
    mysql_conn_,         \* "null" or "open"
    current_data_,       \* [infos : Responses, samples : [Hosts -> Nat], ver : Nat]
    step,                \* [Threads -> where fetchMonitorData or storeToDatabase stands]
    local,               \* [Threads -> the variables of that call]
    fetches,             \* fetches that the server answered
    metrics,             \* rows of the five metric tables
    summary,             \* rows of performance_summary
    lost,                \* ghost: [Threads -> tables of hosts that failed in this store]
    now, host_info, orphans, pc, host_name, new_host_id, host_id_cache_, faults, raced

registry == <<now, host_info, orphans, pc, host_name, new_host_id, host_id_cache_, faults, raced>>
process == <<main_pc, stop_flag, monitoring_active_, mysql_conn_>>
vars == <<process, current_data_, step, local, fetches, metrics, summary, lost, registry>>

Registry == INSTANCE HostRegistry WITH Clients <- {Ingester}, Names <- Hosts

Empty == [infos |-> <<>>, samples |-> [h \in Hosts |-> 0], ver |-> 0]
NoLocal == [data |-> Empty, i |-> 0, host_id |-> NoId, table |-> 1, row |-> 1, all_success |-> FALSE,
            copy |-> Empty, j |-> 0]

Init ==
    /\ main_pc = "construct"
    /\ stop_flag = FALSE
    /\ monitoring_active_ = FALSE
    /\ mysql_conn_ = "null"
    /\ current_data_ = Empty
    /\ step = [t \in Threads |-> "none"]
    /\ local = [t \in Threads |-> NoLocal]
    /\ fetches = 0
    /\ metrics = {}
    /\ summary = {}
    /\ lost = [t \in Threads |-> {}]
    /\ Registry!Init

Fault ==
    /\ faults < MaxFaults
    /\ faults' = faults + 1
    /\ UNCHANGED <<now, host_info, orphans, pc, host_name, new_host_id, host_id_cache_, raced>>

Go(t, s) == step' = [step EXCEPT ![t] = s]
Set(t, l) == local' = [local EXCEPT ![t] = l]
Cached(h) == host_id_cache_[Ingester][h]

------------------------------------------------------------------------------
(* fetchMonitorData.                                                       *)

\* The server answers with the last report of each agent: a new sample, or one
\* that it has answered before, when the agent is dead or did not report since.
SamplesOf(infos) ==
    {samples \in [Hosts -> 0 .. fetches + 1] : \A h \in Hosts : samples[h] = 0 <=> \A k \in DOMAIN infos : infos[k] # h}

FetchServed(t) ==
    /\ step[t] = "fetch"
    /\ fetches < MaxFetch
    /\ fetches' = fetches + 1
    /\ \E infos \in Responses : \E samples \in SamplesOf(infos) :
         current_data_' = [infos |-> infos, samples |-> samples, ver |-> fetches + 1]
    /\ Go(t, "store")
    /\ UNCHANGED <<process, local, metrics, summary, lost, registry>>

\* Bug variant: after a failed RPC the data of the last fetch stays.
FetchErrorKeepsData(t) ==
    /\ step[t] = "fetch"
    /\ Go(t, "store")
    /\ UNCHANGED <<process, current_data_, local, fetches, metrics, summary, lost, registry>>

\* The RPC fails: RpcClient prints the status and returns, and the response it
\* left empty is stored and reported as any other.
FetchError(t) ==
    /\ step[t] = "fetch"
    /\ current_data_' = Empty
    /\ Go(t, "store")
    /\ UNCHANGED <<process, local, fetches, metrics, summary, lost, registry>>

\* Something on the way throws: caught, and false.  Nothing is stored.
FetchThrows(t) ==
    /\ step[t] = "fetch"
    /\ Fault
    /\ Go(t, "done") /\ Set(t, NoLocal)
    /\ lost' = [lost EXCEPT ![t] = {}]
    /\ UNCHANGED <<process, current_data_, fetches, metrics, summary>>

------------------------------------------------------------------------------
(* storeToDatabase.                                                        *)

\* No connection: false at once.  Else the data is copied under data_mutex_.
StoreBegin(t) ==
    /\ step[t] = "store"
    /\ lost' = [lost EXCEPT ![t] = {}]
    /\ IF mysql_conn_ = "null"
       THEN Go(t, "done") /\ Set(t, NoLocal)
       ELSE Go(t, "host") /\ Set(t, [NoLocal EXCEPT !.data = current_data_, !.i = 1, !.all_success = TRUE])
    /\ UNCHANGED <<process, current_data_, fetches, metrics, summary, registry>>

\* getOrCreateHostId for the next host: from the cache, or by HostRegistry.
LookUp(t, h, hit, wait) ==
    IF Cached(h) # NoId
    THEN Go(t, hit) /\ UNCHANGED registry
    ELSE Go(t, wait) /\ Registry!Call(Ingester, h)

NextHost(t) ==
    /\ step[t] = "host"
    /\ local[t].i <= Len(local[t].data.infos)
    /\ LookUp(t, local[t].data.infos[local[t].i], "resolved", "resolve")
    /\ UNCHANGED <<process, current_data_, local, fetches, metrics, summary, lost>>

\* The steps inside that call, and those of the MySQL server and the clock.
RegistryCall ==
    /\ Registry!Progress(Ingester)
    /\ UNCHANGED <<process, current_data_, step, local, fetches, metrics, summary, lost>>

RegistryEnvironment ==
    /\ Registry!Failure(Ingester) \/ Registry!Orphan \/ Registry!Tick
    /\ UNCHANGED <<process, current_data_, step, local, fetches, metrics, summary, lost>>

\* getOrCreateHostId returns to the caller.
Resolved(t) ==
    /\ step[t] = "resolve"
    /\ pc[Ingester] = "idle"
    /\ Go(t, "resolved")
    /\ UNCHANGED <<process, current_data_, local, fetches, metrics, summary, lost, registry>>

\* With an empty id the host is skipped, and the others go on.
Host(t) == local[t].data.infos[local[t].i]

\* Bug variant: an id that could not be resolved is left as the one of the
\* host before.
BeginHostKeepsId(t) ==
    /\ step[t] = "resolved"
    /\ Go(t, "rows")
    /\ Set(t, [local[t] EXCEPT !.host_id = IF Cached(Host(t)) = NoId THEN @ ELSE Cached(Host(t)),
                               !.table = 1, !.row = 1])
    /\ UNCHANGED <<process, current_data_, fetches, metrics, summary, lost, registry>>

BeginHost(t) ==
    /\ step[t] = "resolved"
    /\ LET id == Cached(Host(t)) IN
       IF id = NoId
       THEN /\ Go(t, "host")
            /\ Set(t, [local[t] EXCEPT !.i = @ + 1, !.all_success = FALSE])
            /\ lost' = [lost EXCEPT ![t] = @ \cup ({Host(t)} \X Tables)]
       ELSE /\ Go(t, "rows")
            /\ Set(t, [local[t] EXCEPT !.host_id = id, !.table = 1, !.row = 1])
            /\ UNCHANGED lost
    /\ UNCHANGED <<process, current_data_, fetches, metrics, summary, registry>>

Table(t) == TableSeq[local[t].table]
InRows(t) == step[t] = "rows" /\ local[t].table <= 5 /\ local[t].row <= RowsIn[Table(t)]

\* A row gets the next AUTO_INCREMENT id of its table.
NewRow(t) == [id |-> Cardinality({r \in metrics : r.table = Table(t)}) + 1,
              table |-> Table(t), host_id |-> local[t].host_id,
              host |-> Host(t), sample |-> local[t].data.samples[Host(t)],
              row |-> local[t].row, ver |-> local[t].data.ver]

InsertRow(t) ==
    /\ InRows(t)
    /\ metrics' = metrics \cup {NewRow(t)}
    /\ Set(t, [local[t] EXCEPT !.row = @ + 1])
    /\ UNCHANGED <<process, current_data_, step, fetches, summary, lost, registry>>

\* Bug variant: a failed statement gives up the whole host.
InsertRowFailsHost(t) ==
    /\ InRows(t)
    /\ Fault
    /\ metrics' \in {metrics, metrics \cup {NewRow(t)}}
    /\ lost' = [lost EXCEPT ![t] = @ \cup {<<Host(t), Table(t)>>}]
    /\ Set(t, [local[t] EXCEPT !.table = 6, !.row = 1, !.all_success = FALSE])
    /\ UNCHANGED <<process, current_data_, step, fetches, summary>>

\* The statement fails, executed (a lost answer) or not: the rest of this
\* table is given up, the next table is not.
InsertRowFails(t) ==
    /\ InRows(t)
    /\ Fault
    /\ metrics' \in {metrics, metrics \cup {NewRow(t)}}
    /\ lost' = [lost EXCEPT ![t] = @ \cup {<<Host(t), Table(t)>>}]
    /\ Set(t, [local[t] EXCEPT !.table = @ + 1, !.row = 1, !.all_success = FALSE])
    /\ UNCHANGED <<process, current_data_, step, fetches, summary>>

TableDone(t) ==
    /\ step[t] = "rows"
    /\ local[t].table <= 5
    /\ local[t].row > RowsIn[Table(t)]
    /\ Set(t, [local[t] EXCEPT !.table = @ + 1, !.row = 1])
    /\ UNCHANGED <<process, current_data_, step, fetches, metrics, summary, lost, registry>>

\* The clock is read again for every host: on the first minute of an hour the
\* summary follows, from a second copy of current_data_.
HostDone(t) ==
    /\ step[t] = "rows"
    /\ local[t].table = 6
    /\ \/ Go(t, "host") /\ Set(t, [local[t] EXCEPT !.i = @ + 1])
       \/ Go(t, "score") /\ Set(t, [local[t] EXCEPT !.copy = current_data_, !.j = 1])
    /\ UNCHANGED <<process, current_data_, fetches, metrics, summary, lost, registry>>

------------------------------------------------------------------------------
(* updatePerformanceSummary: it looks for the host of the id by resolving  *)
(* every name again, from the first of the response.                       *)

Candidate(t) == local[t].copy.infos[local[t].j]
Searching(t) == local[t].j <= Len(local[t].copy.infos)

ScoreLookUp(t) ==
    /\ step[t] = "score"
    /\ Searching(t)
    /\ LookUp(t, Candidate(t), "scored", "rescore")
    /\ UNCHANGED <<process, current_data_, local, fetches, metrics, summary, lost>>

Rescored(t) ==
    /\ step[t] = "rescore"
    /\ pc[Ingester] = "idle"
    /\ Go(t, "scored")
    /\ UNCHANGED <<process, current_data_, local, fetches, metrics, summary, lost, registry>>

\* Another host: the search goes on.
ScoreOther(t) ==
    /\ step[t] = "scored"
    /\ Cached(Candidate(t)) # local[t].host_id
    /\ Go(t, "score")
    /\ Set(t, [local[t] EXCEPT !.j = @ + 1])
    /\ UNCHANGED <<process, current_data_, fetches, metrics, summary, lost, registry>>

\* The host, or the end of the list: the summary is written, with the score of
\* the sample that was found (NULL if none was).  The SELECT may have no row
\* to aggregate, the statement may fail: neither counts against all_success.
Score(t) == IF Searching(t) THEN [host |-> Candidate(t), ver |-> local[t].copy.ver] ELSE NoId

\* Bug variant: the first sample of the response is taken, whatever its host.
WriteSummaryOfFirst(t) ==
    /\ \/ step[t] = "scored"
       \/ step[t] = "score" /\ ~Searching(t)
    /\ summary' \in {summary, {r \in summary : r.host_id # local[t].host_id} \cup
                              {[host_id |-> local[t].host_id, ver |-> local[t].data.ver, performance_score |-> Score(t)]}}
    /\ Go(t, "host")
    /\ Set(t, [local[t] EXCEPT !.i = @ + 1])
    /\ UNCHANGED <<process, current_data_, fetches, metrics, lost, registry>>

WriteSummary(t) ==
    /\ \/ step[t] = "scored" /\ Cached(Candidate(t)) = local[t].host_id
       \/ step[t] = "score" /\ ~Searching(t)
    /\ summary' \in {summary, {r \in summary : r.host_id # local[t].host_id} \cup
                              {[host_id |-> local[t].host_id, ver |-> local[t].data.ver, performance_score |-> Score(t)]}}
    /\ Go(t, "host")
    /\ Set(t, [local[t] EXCEPT !.i = @ + 1])
    /\ UNCHANGED <<process, current_data_, fetches, metrics, lost, registry>>

StoreDone(t) ==
    /\ step[t] = "host"
    /\ local[t].i > Len(local[t].data.infos)
    /\ Go(t, "done")
    /\ UNCHANGED <<process, current_data_, local, fetches, metrics, summary, lost, registry>>

Work(t) ==
    \/ FetchServed(t) \/ FetchError(t) \/ StoreBegin(t) \/ NextHost(t) \/ Resolved(t)
    \/ BeginHost(t) \/ InsertRow(t) \/ TableDone(t) \/ HostDone(t)
    \/ ScoreLookUp(t) \/ Rescored(t) \/ ScoreOther(t) \/ WriteSummary(t) \/ StoreDone(t)

------------------------------------------------------------------------------
(* main().                                                                 *)

\* The constructor connects to MySQL, once: a failure is printed.
Construct ==
    /\ main_pc = "construct"
    /\ mysql_conn_' \in {"null", "open"}
    /\ main_pc' = "test"
    /\ Go("main", "fetch")
    /\ UNCHANGED <<stop_flag, monitoring_active_, current_data_, local, fetches, metrics, summary, lost, registry>>

\* startMonitoring, after the first fetch and store.
StartMonitoring ==
    /\ main_pc = "test"
    /\ step["main"] = "done"
    /\ monitoring_active_' = TRUE
    /\ main_pc' = "wait"
    /\ step' = [main |-> "none", monitor |-> "loop"]
    /\ UNCHANGED <<stop_flag, mysql_conn_, current_data_, local, fetches, metrics, summary, lost, registry>>

\* std::thread throws: main leaves with an error, through the destructor.
StartFails ==
    /\ main_pc = "test"
    /\ step["main"] = "done"
    /\ Fault
    /\ monitoring_active_' = TRUE
    /\ main_pc' = "destroy"
    /\ Go("main", "none")
    /\ UNCHANGED <<stop_flag, mysql_conn_, current_data_, local, fetches, metrics, summary, lost>>

Signal ==
    /\ ~stop_flag
    /\ stop_flag' = TRUE
    /\ UNCHANGED <<main_pc, monitoring_active_, mysql_conn_, current_data_, step, local, fetches, metrics, summary, lost, registry>>

\* stopMonitoring asks the thread to end ...
StopMonitoring ==
    /\ main_pc = "wait"
    /\ stop_flag
    /\ monitoring_active_' = FALSE
    /\ main_pc' = "join"
    /\ UNCHANGED <<stop_flag, mysql_conn_, current_data_, step, local, fetches, metrics, summary, lost, registry>>

\* Bug variant: the thread is detached.
JoinNot ==
    /\ main_pc = "join"
    /\ main_pc' = "destroy"
    /\ UNCHANGED <<stop_flag, monitoring_active_, mysql_conn_, current_data_, step, local, fetches, metrics, summary, lost, registry>>

\* ... and joins it.
Join ==
    /\ main_pc = "join"
    /\ step["monitor"] = "ended"
    /\ main_pc' = "destroy"
    /\ UNCHANGED <<stop_flag, monitoring_active_, mysql_conn_, current_data_, step, local, fetches, metrics, summary, lost, registry>>

\* The destructor: stopMonitoring again, which finds nothing to join, and
\* disconnectFromDatabase.
Destroy ==
    /\ main_pc = "destroy"
    /\ monitoring_active_' = FALSE
    /\ mysql_conn_' = "null"
    /\ main_pc' = "exited"
    /\ UNCHANGED <<stop_flag, current_data_, step, local, fetches, metrics, summary, lost, registry>>

------------------------------------------------------------------------------
(* The monitoring thread.                                                  *)

\* Bug variant: the flag is not read again.
LoopHeadForever ==
    /\ step["monitor"] = "loop"
    /\ Go("monitor", "fetch")
    /\ UNCHANGED <<process, current_data_, local, fetches, metrics, summary, lost, registry>>

LoopHead ==
    /\ step["monitor"] = "loop"
    /\ Go("monitor", IF monitoring_active_ THEN "fetch" ELSE "ended")
    /\ UNCHANGED <<process, current_data_, local, fetches, metrics, summary, lost, registry>>

\* The sleeps: up to 60 times one second while active, or five seconds.
Sleep ==
    /\ step["monitor"] \in {"done", "caught"}
    /\ Go("monitor", "loop")
    /\ UNCHANGED <<process, current_data_, local, fetches, metrics, summary, lost, registry>>

\* Bug variant: main catches its exception where it is thrown.
StoreThrowsStays(t) ==
    /\ step[t] \in {"host", "rows", "score"}
    /\ Fault
    /\ Go(t, "caught")
    /\ UNCHANGED <<process, current_data_, local, fetches, metrics, summary, lost>>

\* storeToDatabase throws (a failed allocation): the thread catches it in its
\* loop, main around everything.
StoreThrows(t) ==
    /\ step[t] \in {"host", "rows", "score"}
    /\ Fault
    /\ IF t = "main"
       THEN main_pc' = "destroy" /\ Go(t, "none")
       ELSE Go(t, "caught") /\ UNCHANGED main_pc
    /\ UNCHANGED <<stop_flag, monitoring_active_, mysql_conn_, current_data_, local, fetches, metrics, summary, lost>>

MainStep == Construct \/ StartMonitoring \/ StopMonitoring \/ Join \/ Destroy \/ Work("main")
MonitorStep == LoopHead \/ Sleep \/ Work("monitor")
Failure == StartFails \/ \E t \in Threads : FetchThrows(t) \/ InsertRowFails(t) \/ StoreThrows(t)

Next == MainStep \/ MonitorStep \/ RegistryCall \/ RegistryEnvironment \/ Failure \/ Signal

Spec == Init /\ [][Next]_vars

\* Both threads run; every RPC and every statement returns (with an answer or
\* an error: neither has a deadline in the code).
FairSpec ==
    /\ Spec
    /\ WF_vars(MainStep)
    /\ WF_vars(MonitorStep)
    /\ WF_vars(RegistryCall)

------------------------------------------------------------------------------
(* Properties.                                                             *)

StoreSteps == {"host", "resolve", "resolved", "rows", "score", "rescore", "scored"}
CallSteps == StoreSteps \cup {"none", "fetch", "store", "done"}

Row == [id : Nat \ {0}, table : Tables, host_id : Registry!HostId, host : Hosts, sample : 0 .. MaxFetch,
        row : Nat \ {0}, ver : 1 .. MaxFetch]
SummaryRow == [host_id : Registry!HostId, ver : 1 .. MaxFetch,
               performance_score : [host : Hosts, ver : 1 .. MaxFetch] \cup {NoId}]
Data == [infos : Seq(Hosts), samples : [Hosts -> 0 .. MaxFetch], ver : 0 .. MaxFetch]
Local == [data : Data, i : Nat, host_id : Registry!HostId \cup {NoId}, table : 1 .. 6, row : Nat \ {0},
          all_success : BOOLEAN, copy : Data, j : Nat]

TypeOK ==
    /\ main_pc \in {"construct", "test", "wait", "join", "destroy", "exited"}
    /\ stop_flag \in BOOLEAN
    /\ monitoring_active_ \in BOOLEAN
    /\ mysql_conn_ \in {"null", "open"}
    /\ current_data_ \in Data
    /\ step \in [Threads -> CallSteps \cup {"loop", "caught", "ended"}]
    /\ step["main"] \in CallSteps
    /\ local \in [Threads -> Local]
    /\ fetches \in 0 .. MaxFetch
    /\ metrics \subseteq Row
    /\ summary \subseteq SummaryRow
    /\ lost \in [Threads -> SUBSET (Hosts \X Tables)]
    /\ Registry!TypeOK

\* mysql_conn_, which no mutex protects, is used by one thread at a time, and
\* never after the destructor closed it; no call of getOrCreateHostId is left
\* behind by its thread (performance_server.cpp:26-29, 859-905).
ConnectionSafe ==
    /\ \A t \in Threads : step[t] \in StoreSteps => mysql_conn_ = "open"
    /\ ~(step["main"] \in StoreSteps /\ step["monitor"] \in StoreSteps)
    /\ pc[Ingester] # "idle" => \E t \in Threads : step[t] \in {"resolve", "rescore"}

\* When storeToDatabase has ended, every row of the response is in its table
\* but for the tables of hosts in which a statement failed: a failure costs no
\* other table and no other host, and "Successfully stored" is printed only
\* when there was none (performance_server.cpp:774-852).
StoreAccounted ==
    \A t \in {u \in Threads : step[u] = "done"} :
       /\ local[t].all_success => lost[t] = {}
       /\ \A k \in DOMAIN local[t].data.infos, table \in Tables :
            <<local[t].data.infos[k], table>> \notin lost[t]
              => \A n \in 1 .. RowsIn[table] :
                   \E r \in metrics : /\ r.table = table /\ r.row = n
                                      /\ r.host = local[t].data.infos[k] /\ r.ver = local[t].data.ver

\* Every metric row carries the id of the very host that was sampled, and the
\* row of host_info it refers to exists: no FOREIGN KEY can reject it
\* (performance_server.cpp:793-799).
RowsAttributed == \A r \in metrics : r.host_id \in host_info /\ r.host_id.name = r.host

\* A sample is stored again only if the server answered with it again: main and
\* the thread may store the same one, and a dead agent's is stored every cycle,
\* but a cycle whose fetch failed does not store what an earlier one got, nor
\* does the thread store the response that main has stored
\* (performance_server.cpp:83-101, 873-880).
StoredOncePerFetch ==
    \A r1, r2 \in metrics :
       /\ r1.host = r2.host /\ r1.table = r2.table /\ r1.row = r2.row /\ r1.sample = r2.sample
       /\ r1 # r2
       => r1.ver # r2.ver

\* The summary of a host has the score of that host, from the sample whose
\* rows were stored just before, and never NULL: the second copy of the data
\* and the second resolution of the names agree with the first
\* (performance_server.cpp:666-690).
SummaryScored ==
    \A r \in summary : r.performance_score = [host |-> r.host_id.name, ver |-> r.ver]

\* After SIGINT or SIGTERM the process ends, wherever its two threads stand.
StopLeadsToExit == stop_flag ~> (main_pc = "exited")

------------------------------------------------------------------------------
(* What makes the safety properties inductive.                             *)

RowSteps == {"rows", "score", "rescore", "scored"}
ScoreSteps == {"score", "rescore", "scored"}

\* One thread at a time: main until it has started the other, and after that
\* has ended.
Control ==
    /\ main_pc \in {"construct", "test"} => step["monitor"] = "none"
    /\ main_pc # "test" => step["main"] = "none"
    /\ main_pc \in {"destroy", "exited"} => step["monitor"] \in {"none", "ended"}

\* The registry asks only for hosts without an id: what is cached stays.
CallFresh == pc[Ingester] # "idle" => Cached(host_name[Ingester]) = NoId

\* What was fetched has names that differ and a rank of its own.
DataSound ==
    /\ IsFiniteSet(metrics)
    /\ \A i, j \in DOMAIN current_data_.infos : current_data_.infos[i] = current_data_.infos[j] => i = j
    /\ current_data_.ver <= fetches
    /\ DOMAIN current_data_.infos # {} => current_data_.ver # 0
    /\ \A r \in metrics : r.ver <= fetches
    /\ \A t \in Threads : step[t] = "store" => \A r \in metrics : r.ver # current_data_.ver

\* Where a store stands.
StorePosition(t) ==
    /\ local[t].data = current_data_
    /\ local[t].i >= 1
    /\ step[t] # "host" => local[t].i <= Len(local[t].data.infos)
    /\ step[t] \in RowSteps => local[t].host_id # NoId /\ local[t].host_id = Cached(Host(t))
    /\ step[t] \in ScoreSteps => /\ local[t].table = 6 /\ local[t].copy = local[t].data
                                 /\ local[t].j >= 1 /\ local[t].j <= local[t].i

\* The n-th row of the m-th table of the k-th host is behind it ...
Passed(t, k, m, n) ==
    \/ k < local[t].i
    \/ /\ k = local[t].i
       /\ step[t] \in RowSteps
       /\ m < local[t].table \/ (m = local[t].table /\ n < local[t].row)

\* ... and then it is stored, if its table was not lost; ahead of it nothing is.
TableLost(t, k, m) == <<local[t].data.infos[k], TableSeq[m]>> \in lost[t]
Stored(t, k, m, n) == \E r \in metrics : /\ r.table = TableSeq[m] /\ r.row = n
                                         /\ r.host = local[t].data.infos[k] /\ r.ver = local[t].data.ver
StoredSoFar(t) ==
    /\ \A r \in metrics : r.ver = local[t].data.ver =>
         \E k \in DOMAIN local[t].data.infos, m \in 1 .. 5 :
            r.host = local[t].data.infos[k] /\ r.table = TableSeq[m] /\ Passed(t, k, m, r.row)
    /\ \A k \in DOMAIN local[t].data.infos, m \in 1 .. 5 : \A n \in 1 .. RowsIn[TableSeq[m]] :
         Passed(t, k, m, n) => TableLost(t, k, m) \/ Stored(t, k, m, n)
    /\ local[t].all_success => lost[t] = {}

Storing == \A t \in Threads : step[t] \in StoreSteps => StorePosition(t) /\ StoredSoFar(t)

IInv == /\ TypeOK /\ Registry!CallConsistent /\ Registry!CacheSound /\ CallFresh
        /\ Control /\ DataSound /\ Storing
        /\ ConnectionSafe /\ StoreAccounted /\ RowsAttributed /\ StoredOncePerFetch /\ SummaryScored
==============================================================================
