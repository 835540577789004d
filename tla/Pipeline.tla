------------------------------ MODULE Pipeline ------------------------------
(***************************************************************************)
(* From the agents through the server to the database, against the clock:  *)
(* agents report every three seconds, the server keeps the last report of  *)
(* each, and the ingester stores what it finds there, sleeps for a minute  *)
(* and begins again; in the first minute of an hour it also summarises the *)
(* hour before.  What can be lost within one of these steps is the subject *)
(* of RpcServer and PerfClient, of which each is one step here or two.     *)
(*                                                                         *)
(* Time is counted in units of a fraction of a minute, long against the    *)
(* period of an agent.  A sample is the time it was taken at.              *)
(***************************************************************************)
EXTENDS Integers, FiniteSets

CONSTANTS Agents,
          Minute,     \* units in a minute
          Hour,       \* minutes in an hour
          MaxWork,    \* bound: units from a fetch to the end of the store
          MaxTime,    \* bound: units
          MaxFaults,  \* bound: agents cut off, ingesters killed, failed fetches
          Absent

ASSUME PipelineAssumption ==
    /\ Minute \in Nat \ {0} /\ Hour \in Nat \ {0}
    /\ MaxWork \in Nat /\ MaxTime \in Nat /\ MaxFaults \in Nat
    /\ Absent \notin Int

VARIABLES
    now,
    up,            \* agents that run and reach the server
    since,         \* ghost: [Agents -> when it last began to]
    monitor_map_,  \* [Agents -> sample or Absent]: the table of the server
    pc,            \* the ingester: "down", "fetch", "insert", "check" or "sleep"
    began,         \* when its cycle began, or its sleep
    current_data_, \* [Agents -> sample or Absent]
    todo,          \* hosts of it that storeToDatabase has yet to do
    host,          \* the last one of them begun
    live,          \* ghost: agents of the data that were up long enough
    metrics,       \* rows [host, stamp, sample, live]
    summary,       \* [Agents -> [Hours -> stamps of the rows it is made of, or Absent]]
    calm,          \* ghost: when something last failed, or the ingester started
    faults

agents == <<up, since, monitor_map_>>
ingester == <<pc, began, current_data_, todo, host, live>>
database == <<metrics, summary>>
vars == <<now, agents, ingester, database, calm, faults>>

Times == 0 .. MaxTime
HourUnits == Minute * Hour
Hours == 0 .. MaxTime \div HourUnits
Nothing == [a \in Agents |-> Absent]

Init ==
    /\ now = 0
    /\ up = Agents
    /\ since = [a \in Agents |-> 0]
    /\ monitor_map_ = Nothing
    /\ pc = "down"
    /\ began = 0
    /\ current_data_ = Nothing
    /\ todo = {}
    /\ host = Absent
    /\ live = {}
    /\ metrics = {}
    /\ summary = [a \in Agents |-> [h \in Hours |-> Absent]]
    /\ calm = 0
    /\ faults = 0

Fault ==
    /\ faults < MaxFaults
    /\ faults' = faults + 1
    /\ calm' = now

------------------------------------------------------------------------------
(* Agents and server.                                                      *)

\* What the agents that are up report in a unit; of several reports the server
\* keeps the last.
Reports(t) == [a \in Agents |-> IF a \in up THEN t ELSE monitor_map_[a]]

\* An agent dies, or its reports fail; its entry stays.
CutOff(a) ==
    /\ a \in up /\ Fault
    /\ up' = up \ {a}
    /\ UNCHANGED <<now, since, monitor_map_, ingester, database>>

Return(a) ==
    /\ a \notin up
    /\ up' = up \cup {a}
    /\ since' = [since EXCEPT ![a] = now]
    /\ UNCHANGED <<now, monitor_map_, ingester, database, calm, faults>>

\* The server is started again: an empty table.
ServerRestart ==
    /\ Fault
    /\ monitor_map_' = Nothing
    /\ UNCHANGED <<now, up, since, ingester, database>>

------------------------------------------------------------------------------
(* The ingester.                                                           *)

Start ==
    /\ pc = "down"
    /\ pc' = "fetch"
    /\ began' = now
    /\ calm' = now
    /\ UNCHANGED <<now, agents, current_data_, todo, host, live, database, faults>>

Row(a) == [host |-> a, stamp |-> now, sample |-> current_data_[a], live |-> a \in live]

\* Bug variant: a failed RPC leaves the data of the last one.
FetchKeeps ==
    /\ pc = "fetch"
    /\ pc' = "insert"
    /\ \/ current_data_' = monitor_map_ /\ UNCHANGED <<faults, calm>>
       \/ Fault /\ UNCHANGED current_data_
    /\ todo' = {a \in Agents : current_data_'[a] # Absent}
    /\ live' = {a \in up : since[a] < now}
    /\ UNCHANGED <<now, agents, began, host, database>>

\* fetchMonitorData; an RPC that fails leaves the data empty.
Fetch ==
    /\ pc = "fetch"
    /\ pc' = "insert"
    /\ \/ current_data_' = monitor_map_ /\ UNCHANGED <<faults, calm>>
       \/ Fault /\ current_data_' = Nothing
    /\ todo' = {a \in Agents : current_data_'[a] # Absent}
    /\ live' = {a \in up : since[a] < now}
    /\ UNCHANGED <<now, agents, began, host, database>>

\* The five inserts for a host: each takes the time of its own for the rows.
\* A host without an id has no row of this cycle; a host of which an insert fails
\* may have one all the same.
Insert(a) ==
    /\ pc = "insert"
    /\ a \in todo
    /\ todo' = todo \ {a}
    /\ host' = a
    /\ \/ /\ metrics' = metrics \cup {Row(a)}
          /\ pc' = "check"
          /\ UNCHANGED <<calm, faults>>
       \/ /\ Fault
          /\ \/ metrics' \in {metrics, metrics \cup {Row(a)}} /\ pc' = "check"
             \/ UNCHANGED metrics /\ pc' = "insert"
    /\ UNCHANGED <<now, agents, began, current_data_, live, summary>>

Bucket == now \div HourUnits
OnTheHour == (now \div Minute) % Hour = 0

\* The rows from an hour before the full hour to the hour, both included.
Window(a, h) == {m \in metrics : m.host = a /\ m.stamp \in (h - 1) * HourUnits .. h * HourUnits}
Stamps(rows) == {m.stamp : m \in rows}

\* Bug variant: the summary is that of the hour that has begun.
CheckNext ==
    /\ pc = "check"
    /\ summary' = IF OnTheHour /\ Window(host, Bucket + 1) # {}
                  THEN [summary EXCEPT ![host][Bucket] = Stamps(Window(host, Bucket + 1))]
                  ELSE summary
    /\ pc' = "insert"
    /\ UNCHANGED <<now, agents, began, current_data_, todo, host, live, metrics, calm, faults>>

\* "Every full hour": in its first minute, updatePerformanceSummary, which makes
\* a row, or replaces it, if there is anything to summarise.
Check ==
    /\ pc = "check"
    /\ summary' = IF OnTheHour /\ Window(host, Bucket) # {}
                  THEN [summary EXCEPT ![host][Bucket] = Stamps(Window(host, Bucket))]
                  ELSE summary
    /\ pc' = "insert"
    /\ UNCHANGED <<now, agents, began, current_data_, todo, host, live, metrics, calm, faults>>

StoreDone ==
    /\ pc = "insert"
    /\ todo = {}
    /\ pc' = "sleep"
    /\ began' = now
    /\ UNCHANGED <<now, agents, current_data_, todo, host, live, database, calm, faults>>

\* Bug variant: the minute is slept twice.
AsleepTwice == pc = "sleep" /\ now < began + 2 * Minute

\* Sixty seconds of sleep, whatever the work took.
Asleep == pc = "sleep" /\ now < began + Minute

Wake ==
    /\ pc = "sleep" /\ ~Asleep
    /\ pc' = "fetch"
    /\ began' = now
    /\ UNCHANGED <<now, agents, current_data_, todo, host, live, database, calm, faults>>

Kill ==
    /\ pc # "down" /\ Fault
    /\ pc' = "down"
    /\ began' = now
    /\ current_data_' = Nothing
    /\ todo' = {}
    /\ UNCHANGED <<now, agents, host, live, database>>

------------------------------------------------------------------------------

\* A unit passes, at the begin of which every agent that is up reports.  The
\* ingester does not oversleep and its work is bounded.
Tick ==
    /\ now < MaxTime
    /\ pc \in {"fetch", "insert", "check"} => now < began + MaxWork
    /\ pc = "sleep" => Asleep
    /\ now' = now + 1
    /\ monitor_map_' = Reports(now')
    /\ UNCHANGED <<up, since, ingester, database, calm, faults>>

AgentStep == \E a \in Agents : CutOff(a) \/ Return(a)
IngesterStep == Start \/ Fetch \/ (\E a \in Agents : Insert(a)) \/ Check \/ StoreDone \/ Wake \/ Kill

Next == AgentStep \/ ServerRestart \/ IngesterStep \/ Tick

Spec == Init /\ [][Next]_vars

------------------------------------------------------------------------------
(* Properties.                                                             *)

\* Rows carry the time of their insertion (performance_server.cpp:445), not that
\* of the sample.  For an agent that reports, the two are never further apart
\* than a cycle works; the rows that pretend to be fresh are of agents that were
\* cut off, whose entry the server never removes.
RowsFresh ==
    \A m \in metrics : m.live => m.stamp - m.sample \in 0 .. MaxWork

Longest == Minute + 2 * MaxWork + 1
Settled(a) == IF since[a] > calm THEN since[a] ELSE calm

\* As long as nothing fails, an agent has a row in every Longest units: the
\* minute of sleep, the work on both sides of it, and the unit of its report
\* (startMonitoring, performance_server.cpp:870-885).
RowsRegular ==
    \A a \in up :
        pc # "down" /\ now - Settled(a) > Longest
        => \E m \in metrics : m.host = a /\ m.stamp >= now - Longest

\* A summary is complete when it is written: no row of the hour that is over is
\* inserted later, be it by the same store or by a process started again, and
\* nothing but rows of its window is in it (performance_server.cpp:664, 749-754:
\* from an hour before the full hour to it).  Only the instant of the full hour,
\* which the window includes, is still open.
SummarySealed ==
    \A a \in Agents, h \in Hours :
        summary[a][h] # Absent
        => /\ summary[a][h] \subseteq Stamps(Window(a, h))
           /\ Stamps(Window(a, h)) \ {h * HourUnits} \subseteq summary[a][h]

\* "Update the performance summary (once an hour)", "at every full hour"
\* (performance_server.cpp:832, 838): without any failure, an hour of which there
\* are rows is summarised once its first minute is over.  It is not: the cycle is
\* longer than the minute it has to hit.
EveryHourSummarised ==
    \A a \in Agents, h \in Hours \ {0} :
        faults = 0 /\ now >= h * HourUnits + Minute /\ Window(a, h) # {}
        => summary[a][h] # Absent

------------------------------------------------------------------------------
(* What makes them inductive.                                              *)

Works == {"fetch", "insert", "check"}
Storing == {"insert", "check"}

TypeOK ==
    /\ now \in Times
    /\ up \subseteq Agents
    /\ since \in [Agents -> Times]
    /\ monitor_map_ \in [Agents -> Times \cup {Absent}]
    /\ pc \in Works \cup {"down", "sleep"}
    /\ began \in Times
    /\ current_data_ \in [Agents -> Times \cup {Absent}]
    /\ todo \subseteq Agents
    /\ host \in Agents \cup {Absent}
    /\ live \subseteq Agents
    /\ metrics \subseteq [host : Agents, stamp : Times, sample : Times, live : BOOLEAN]
    /\ summary \in [Agents -> [Hours -> (SUBSET Times) \cup {Absent}]]
    /\ calm \in Times
    /\ faults \in 0 .. MaxFaults

\* Nothing lies in the future, and nothing takes longer than it may.
Clock ==
    /\ began <= now /\ calm <= now
    /\ \A a \in Agents : since[a] <= now
    /\ \A m \in metrics : m.stamp <= now
    /\ pc \in Works => now <= began + MaxWork
    /\ pc = "sleep" => now <= began + Minute

\* An agent that is up has reported in this unit, unless it began to in it or
\* the server forgot it.
Entries ==
    \A a \in up :
       /\ since[a] < now => monitor_map_[a] \in {now, Absent}
       /\ Settled(a) < now => monitor_map_[a] = now

\* The data of a store is of its own cycle.
DataOfCycle ==
    pc \in Storing =>
       /\ \A a \in todo : current_data_[a] # Absent
       /\ \A a \in live : current_data_[a] # Absent => current_data_[a] \in began .. now
       /\ pc = "check" => host \in Agents

\* The latest row of an agent of which nothing has failed since before it.
RowSince(a, t) == \E m \in metrics : m.host = a /\ m.stamp >= t

RowsDue ==
    \A a \in up :
       /\ pc \in Works /\ Settled(a) < began - Minute - MaxWork => RowSince(a, began - Minute - MaxWork)
       /\ pc \in Storing /\ Settled(a) < began => a \in todo \/ RowSince(a, began)
       /\ pc = "sleep" /\ Settled(a) < began - MaxWork => RowSince(a, began - MaxWork)

\* Only hours that are over have a summary.
SummaryOfPast == \A a \in Agents, h \in Hours : summary[a][h] # Absent => h * HourUnits <= now

IInv == /\ TypeOK /\ Clock /\ Entries /\ DataOfCycle /\ RowsDue /\ SummaryOfPast
        /\ RowsFresh /\ RowsRegular /\ SummarySealed
==============================================================================
