-------------------------- MODULE Pipeline_proofs --------------------------
(***************************************************************************)
(* The properties of Pipeline, for any number of agents, any length of the *)
(* minute, the hour and the work, and any number of failures.              *)
(***************************************************************************)
EXTENDS Pipeline, TLAPS

------------------------------------------------------------------------------
(* Times.                                                                  *)

\* The units and what is counted in them are natural numbers.
LEMMA Numbers ==
    ASSUME TypeOK
    PROVE  /\ now \in Nat /\ began \in Nat /\ calm \in Nat /\ Minute \in Nat /\ MaxWork \in Nat /\ MaxTime \in Nat
           /\ Absent \notin Int /\ Times \subseteq Nat
           /\ \A a \in Agents : since[a] \in Nat
           /\ \A a \in Agents : Settled(a) \in Nat /\ Settled(a) >= calm /\ Settled(a) >= since[a]
<1> USE PipelineAssumption
<1>1. MaxTime \in Nat /\ Times \subseteq Nat /\ Minute \in Nat /\ MaxWork \in Nat /\ Absent \notin Int
  BY DEF Times
<1>2. now \in Nat /\ began \in Nat /\ calm \in Nat /\ \A a \in Agents : since[a] \in Nat
  BY <1>1 DEF TypeOK
<1>3. \A a \in Agents : Settled(a) \in Nat /\ Settled(a) >= calm /\ Settled(a) >= since[a]
  BY <1>2 DEF Settled
<1> QED
  BY <1>1, <1>2, <1>3

\* An hour is some units long, and the hour that has begun began in the past.
LEMMA HourBegun ==
    ASSUME TypeOK
    PROVE  /\ HourUnits \in Nat \ {0} /\ Hours \subseteq Nat
           /\ \A h \in Hours : h * HourUnits \in Nat
           /\ Bucket \in Nat /\ Bucket * HourUnits <= now
<1>1. Minute \in Nat \ {0} /\ Hour \in Nat \ {0} /\ MaxTime \in Nat /\ now \in Nat
  BY PipelineAssumption, Numbers
<1>2. \A m, n \in Nat \ {0} : m * n \in Nat \ {0}
  OBVIOUS
<1>3. HourUnits \in Nat \ {0}
  BY <1>1, <1>2 DEF HourUnits
<1>4. \A n \in Nat, d \in Nat \ {0} : n \div d \in Nat /\ (n \div d) * d <= n
  OBVIOUS
<1>5. Hours \subseteq Nat
  BY <1>1, <1>3, <1>4 DEF Hours
<1>6. \A h \in Hours : h * HourUnits \in Nat
  <2>1. \A m, n \in Nat : m * n \in Nat
    OBVIOUS
  <2> QED
    BY <1>3, <1>5, <2>1
<1> QED
  BY <1>1, <1>3, <1>4, <1>5, <1>6 DEF Bucket

\* After a failure, and after the return of an agent, everything is as if it had
\* just begun.
LEMMA FaultSettles ==
    ASSUME TypeOK, Clock, Fault, UNCHANGED <<now, since>>
    PROVE  \A a \in Agents : Settled(a)' = now
  BY Numbers DEF Clock, Fault, Settled

------------------------------------------------------------------------------
(* Types.                                                                  *)

\* The types hold before the first agent reports.
LEMMA InitTypes == Init => TypeOK
<1> USE PipelineAssumption
<1> SUFFICES ASSUME Init PROVE TypeOK
  OBVIOUS
<1>1. 0 \in Times /\ 0 \in 0 .. MaxFaults
  BY DEF Times
<1> QED
  BY <1>1 DEF Init, TypeOK, Nothing, Works

\* Every step keeps the types.
LEMMA TypesKept == TypeOK /\ DataOfCycle /\ [Next]_vars => TypeOK'
<1> USE PipelineAssumption
<1> SUFFICES ASSUME TypeOK, DataOfCycle, [Next]_vars PROVE TypeOK'
  OBVIOUS
<1>1. Fault => faults' \in 0 .. MaxFaults /\ calm' \in Times
  BY DEF TypeOK, Fault
<1>2. Nothing \in [Agents -> Times \cup {Absent}]
  BY DEF Nothing
<1>3. ASSUME NEW a \in Agents, CutOff(a) PROVE TypeOK'
  BY <1>1, <1>3 DEF TypeOK, CutOff, ingester, database
<1>4. ASSUME NEW a \in Agents, Return(a) PROVE TypeOK'
  BY <1>4 DEF TypeOK, Return, ingester, database
<1>5. CASE ServerRestart
  BY <1>1, <1>2, <1>5 DEF TypeOK, ServerRestart, ingester, database
<1>6. CASE Start
  BY <1>6 DEF TypeOK, Start, agents, database, Works
<1>7. CASE Fetch
  <2>1. faults' \in 0 .. MaxFaults /\ calm' \in Times /\ current_data_' \in [Agents -> Times \cup {Absent}]
    BY <1>1, <1>2, <1>7 DEF TypeOK, Fetch
  <2>2. todo' \subseteq Agents /\ live' \subseteq Agents
    BY <1>7 DEF TypeOK, Fetch
  <2> QED
    BY <1>7, <2>1, <2>2 DEF TypeOK, Fetch, agents, database, Works
<1>8. ASSUME NEW a \in Agents, Insert(a) PROVE TypeOK'
  <2>1. current_data_[a] \in Times /\ (a \in live) \in BOOLEAN
    BY <1>8 DEF Insert, DataOfCycle, TypeOK, Storing
  <2>2. Row(a) \in [host : Agents, stamp : Times, sample : Times, live : BOOLEAN]
    BY <2>1, Zenon DEF Row, TypeOK
  <2>3. metrics' \subseteq [host : Agents, stamp : Times, sample : Times, live : BOOLEAN]
    BY <1>8, <2>2 DEF Insert, TypeOK
  <2>4. pc' \in Works /\ faults' \in 0 .. MaxFaults /\ calm' \in Times /\ todo' \subseteq Agents
    BY <1>1, <1>8 DEF Insert, TypeOK, Works
  <2> QED
    BY <1>8, <2>3, <2>4 DEF Insert, TypeOK, agents
<1>9. CASE Check
  <2>1. Stamps(Window(host, Bucket)) \in SUBSET Times
    BY DEF Stamps, Window, TypeOK
  <2>2. summary' \in [Agents -> [Hours -> (SUBSET Times) \cup {Absent}]]
    <3> DEFINE S == Stamps(Window(host, Bucket))
    <3>1. \/ summary' = summary
          \/ summary' = [summary EXCEPT ![host][Bucket] = S]
      BY <1>9 DEF Check
    <3>2. S \in (SUBSET Times) \cup {Absent}
      BY <2>1
    <3> HIDE DEF S
    <3>3. host \in Agents
      BY <1>9 DEF Check, DataOfCycle, Storing
    <3>4. summary[host] \in [Hours -> (SUBSET Times) \cup {Absent}]
      BY <3>3 DEF TypeOK
    <3>5. [summary[host] EXCEPT ![Bucket] = S] \in [Hours -> (SUBSET Times) \cup {Absent}]
      BY <3>2, <3>4
    <3> QED
      BY <3>1, <3>3, <3>5 DEF TypeOK
  <2> QED
    BY <1>9, <2>2 DEF Check, TypeOK, agents, Works
<1>10. CASE StoreDone
  BY <1>10 DEF TypeOK, StoreDone, agents, database, Works
<1>11. CASE Wake
  BY <1>11 DEF TypeOK, Wake, agents, database, Works
<1>12. CASE Kill
  BY <1>1, <1>2, <1>12 DEF TypeOK, Kill, agents, database, Works
<1>13. CASE Tick
  <2>1. now' \in Times
    BY <1>13 DEF Tick, TypeOK, Times
  <2>2. monitor_map_' \in [Agents -> Times \cup {Absent}]
    BY <1>13, <2>1 DEF Tick, TypeOK, Reports
  <2> QED
    BY <1>13, <2>1, <2>2 DEF Tick, TypeOK, ingester, database
<1>14. CASE UNCHANGED vars
  BY <1>14 DEF TypeOK, vars, agents, ingester, database
<1> QED
  BY <1>3, <1>4, <1>5, <1>6, <1>7, <1>8, <1>9, <1>10, <1>11, <1>12, <1>13, <1>14
     DEF Next, AgentStep, IngesterStep

------------------------------------------------------------------------------
(* The clock, and the age of the samples.                                  *)

SamplesInv == Clock /\ Entries /\ DataOfCycle /\ RowsFresh

\* Without rows and without entries there is nothing stale.
LEMMA InitSamples == Init => SamplesInv
<1> SUFFICES ASSUME Init PROVE SamplesInv
  OBVIOUS
<1>1. /\ now = 0 /\ began = 0 /\ calm = 0 /\ pc = "down" /\ metrics = {}
      /\ \A a \in Agents : since[a] = 0 /\ Settled(a) = 0
      /\ up = Agents
  BY DEF Init, Settled
<1> QED
  BY <1>1 DEF SamplesInv, Clock, Entries, DataOfCycle, RowsFresh, Works, Storing

\* Every step keeps the order of the instants that are remembered.
LEMMA ClockKept == TypeOK /\ Clock /\ [Next]_vars => Clock'
<1> SUFFICES ASSUME TypeOK, Clock, [Next]_vars PROVE Clock'
  OBVIOUS
<1>0. /\ now \in Nat /\ began \in Nat /\ calm \in Nat /\ Minute \in Nat /\ MaxWork \in Nat
      /\ \A a \in Agents : since[a] \in Nat
      /\ \A m \in metrics : m.stamp \in Nat
  BY Numbers DEF TypeOK
<1>1. Fault => calm' = now
  BY DEF Fault
<1>2. ASSUME NEW a \in Agents, CutOff(a) PROVE Clock'
  BY <1>0, <1>1, <1>2 DEF Clock, CutOff, ingester, database
<1>3. ASSUME NEW a \in Agents, Return(a) PROVE Clock'
  <2>1. \A b \in Agents : since'[b] <= now
    BY <1>0, <1>3 DEF Return, TypeOK, Clock
  <2> QED
    BY <1>3, <2>1 DEF Clock, Return, ingester, database
<1>4. CASE ServerRestart
  BY <1>0, <1>1, <1>4 DEF Clock, ServerRestart, ingester, database
<1>5. CASE Start
  BY <1>0, <1>5 DEF Clock, Start, agents, database, Works
<1>6. CASE Fetch
  BY <1>0, <1>1, <1>6 DEF Clock, Fetch, agents, database, Works
<1>7. ASSUME NEW a \in Agents, Insert(a) PROVE Clock'
  <2>1. \A m \in metrics' : m.stamp <= now
    BY <1>0, <1>7 DEF Insert, Clock, Row
  <2> QED
    BY <1>0, <1>1, <1>7, <2>1 DEF Clock, Insert, agents, Works
<1>8. CASE Check
  BY <1>8 DEF Clock, Check, agents, Works
<1>9. CASE StoreDone
  BY <1>0, <1>9 DEF Clock, StoreDone, agents, database, Works
<1>10. CASE Wake
  BY <1>0, <1>10 DEF Clock, Wake, agents, database, Works
<1>11. CASE Kill
  BY <1>0, <1>1, <1>11 DEF Clock, Kill, agents, database, Works
<1>12. CASE Tick
  BY <1>0, <1>12 DEF Clock, Tick, Asleep, ingester, database, Works
<1>13. CASE UNCHANGED vars
  BY <1>13 DEF Clock, vars, agents, ingester, database
<1> QED
  BY <1>2, <1>3, <1>4, <1>5, <1>6, <1>7, <1>8, <1>9, <1>10, <1>11, <1>12, <1>13 DEF Next, AgentStep, IngesterStep

\* Every step keeps entries, data and rows fresh, but for those of agents that are cut off.
LEMMA SamplesKept == TypeOK /\ SamplesInv /\ [Next]_vars => SamplesInv'
<1> SUFFICES ASSUME TypeOK, SamplesInv, [Next]_vars PROVE SamplesInv'
  OBVIOUS
<1>0. /\ now \in Nat /\ began \in Nat /\ calm \in Nat /\ MaxWork \in Nat /\ Absent \notin Int
      /\ began <= now /\ calm <= now /\ (pc \in Works => now <= began + MaxWork)
      /\ \A a \in Agents : since[a] \in Nat /\ since[a] <= now
      /\ Clock /\ Entries /\ DataOfCycle /\ RowsFresh
  BY Numbers DEF SamplesInv, Clock
<1>1. Clock'
  BY <1>0, ClockKept
<1>2. Fault /\ UNCHANGED <<now, since>> => \A a \in Agents : Settled(a)' = now
  BY <1>0, FaultSettles
<1>3. ASSUME NEW a \in Agents, CutOff(a) PROVE SamplesInv'
  <2>1. Entries'
    BY <1>0, <1>2, <1>3 DEF CutOff, Entries, TypeOK
  <2> QED
    BY <1>0, <1>1, <1>3, <2>1 DEF SamplesInv, CutOff, DataOfCycle, RowsFresh, ingester, database
<1>4. ASSUME NEW a \in Agents, Return(a) PROVE SamplesInv'
  <2>1. \A b \in Agents : since'[b] = IF b = a THEN now ELSE since[b]
    BY <1>4 DEF Return, TypeOK
  <2>2. Settled(a)' = now
    BY <1>0, <1>4, <2>1 DEF Settled, Return
  <2>3. \A b \in Agents : b # a => Settled(b)' = Settled(b)
    BY <1>4, <2>1 DEF Settled, Return
  <2>4. Entries'
    BY <1>0, <1>4, <2>1, <2>2, <2>3 DEF Return, Entries, TypeOK
  <2> QED
    BY <1>0, <1>1, <1>4, <2>4 DEF SamplesInv, Return, DataOfCycle, RowsFresh, ingester, database
<1>5. CASE ServerRestart
  <2>1. Entries'
    BY <1>0, <1>2, <1>5 DEF ServerRestart, Entries, TypeOK, Nothing
  <2> QED
    BY <1>0, <1>1, <1>5, <2>1 DEF SamplesInv, ServerRestart, DataOfCycle, RowsFresh, ingester, database
<1>6. CASE Start
  <2>1. \A a \in Agents : Settled(a)' = now
    BY <1>0, <1>6 DEF Start, Settled, agents
  <2>2. Entries'
    BY <1>0, <1>6, <2>1 DEF Start, Entries, TypeOK, agents
  <2> QED
    BY <1>0, <1>1, <1>6, <2>2 DEF SamplesInv, Start, DataOfCycle, RowsFresh, Storing, agents, database
<1>7. CASE Fetch
  <2>1. Entries'
    <3>1. CASE Fault
      BY <1>0, <1>2, <1>7, <3>1 DEF Fetch, Entries, agents, TypeOK
    <3>2. CASE UNCHANGED <<faults, calm>>
      BY <1>0, <1>7, <3>2 DEF Fetch, Entries, agents, Settled
    <3> QED
      BY <1>7, <3>1, <3>2 DEF Fetch
  <2>2. DataOfCycle'
    <3>1. /\ todo' = {a \in Agents : current_data_'[a] # Absent} /\ live' = {a \in up : since[a] < now}
          /\ UNCHANGED <<now, began, agents>> /\ pc' = "insert"
          /\ \/ current_data_' = monitor_map_
             \/ current_data_' = Nothing
      BY <1>7 DEF Fetch
    <3>2. \A a \in live' : current_data_'[a] # Absent => current_data_'[a] = now
      BY <1>0, <3>1 DEF Entries, Nothing, TypeOK
    <3>3. now \in began .. now
      BY <1>0
    <3> QED
      BY <3>1, <3>2, <3>3 DEF DataOfCycle
  <2> QED
    BY <1>0, <1>1, <1>7, <2>1, <2>2 DEF SamplesInv, Fetch, RowsFresh, database
<1>8. ASSUME NEW a \in Agents, Insert(a) PROVE SamplesInv'
  <2>0. pc \in Storing /\ pc \in Works /\ a \in todo
    BY <1>8 DEF Insert, Storing, Works
  <2>1. Entries'
    <3>1. CASE Fault
      BY <1>0, <1>2, <1>8, <3>1 DEF Insert, Entries, agents, TypeOK
    <3>2. CASE UNCHANGED <<faults, calm>>
      BY <1>0, <1>8, <3>2 DEF Insert, Entries, agents, Settled
    <3> QED
      BY <1>8, <3>1, <3>2 DEF Insert
  <2>2. DataOfCycle'
    BY <1>0, <1>8, <2>0 DEF Insert, DataOfCycle, Storing, agents
  <2>3. Row(a).live => Row(a).stamp - Row(a).sample \in 0 .. MaxWork
    <3>1. Row(a).live = (a \in live) /\ Row(a).stamp = now /\ Row(a).sample = current_data_[a]
      BY DEF Row
    <3>2. CASE a \in live
      <4>1. current_data_[a] \in began .. now
        BY <1>0, <2>0, <3>2 DEF DataOfCycle
      <4>2. now - current_data_[a] \in 0 .. MaxWork
        BY <1>0, <2>0, <4>1
      <4> QED
        BY <3>1, <4>2
    <3>3. CASE a \notin live
      BY <3>1, <3>3, Zenon
    <3> QED
      BY <3>2, <3>3
  <2>4. RowsFresh'
    <3>1. \A m \in metrics' : m \in metrics \/ m = Row(a)
      BY <1>8 DEF Insert
    <3>2. \A m \in metrics : m.live => m.stamp - m.sample \in 0 .. MaxWork
      BY <1>0 DEF RowsFresh
    <3> QED
      BY <2>3, <3>1, <3>2, Zenon DEF RowsFresh
  <2> QED
    BY <1>1, <2>1, <2>2, <2>4 DEF SamplesInv
<1>9. CASE Check
  BY <1>0, <1>1, <1>9 DEF SamplesInv, Check, Entries, DataOfCycle, RowsFresh, Settled, Storing, agents
<1>10. CASE StoreDone
  BY <1>0, <1>1, <1>10 DEF SamplesInv, StoreDone, Entries, DataOfCycle, RowsFresh, Settled, Storing, agents, database
<1>11. CASE Wake
  BY <1>0, <1>1, <1>11 DEF SamplesInv, Wake, Entries, DataOfCycle, RowsFresh, Settled, Storing, agents, database
<1>12. CASE Kill
  <2>1. Entries'
    BY <1>0, <1>2, <1>12 DEF Kill, Entries, agents, TypeOK
  <2> QED
    BY <1>0, <1>1, <1>12, <2>1 DEF SamplesInv, Kill, DataOfCycle, RowsFresh, Storing, database
<1>13. CASE Tick
  <2>1. Entries'
    BY <1>13 DEF Tick, Reports, Entries, TypeOK
  <2>2. DataOfCycle'
    BY <1>0, <1>13 DEF Tick, DataOfCycle, ingester
  <2> QED
    BY <1>0, <1>1, <1>13, <2>1, <2>2 DEF SamplesInv, Tick, RowsFresh, ingester, database
<1>14. CASE UNCHANGED vars
  BY <1>0, <1>1, <1>14 DEF SamplesInv, Entries, DataOfCycle, RowsFresh, Settled, vars, agents, ingester, database
<1> QED
  BY <1>3, <1>4, <1>5, <1>6, <1>7, <1>8, <1>9, <1>10, <1>11, <1>12, <1>13, <1>14
     DEF Next, AgentStep, IngesterStep

------------------------------------------------------------------------------
(* The rows of an agent that goes on.                                      *)

\* What is there of an agent stays.
LEMMA RowsStay ==
    ASSUME metrics \subseteq metrics', NEW a, NEW t, RowSince(a, t)
    PROVE  RowSince(a, t)'
  BY DEF RowSince

\* A failure excuses every agent from having a row by now.
LEMMA FaultExcuses ==
    ASSUME TypeOK, Clock, UNCHANGED now, \A a \in Agents : Settled(a)' = now, began' <= now, began' \in Nat,
           up' \subseteq Agents
    PROVE  RowsDue'
  BY Numbers, PipelineAssumption DEF RowsDue

\* Every step keeps what the calm agents have to have in the tables.
LEMMA DueKept == TypeOK /\ SamplesInv /\ RowsDue /\ [Next]_vars => RowsDue'
<1> SUFFICES ASSUME TypeOK, SamplesInv, RowsDue, [Next]_vars PROVE RowsDue'
  OBVIOUS
<1>0. /\ now \in Nat /\ began \in Nat /\ calm \in Nat /\ MaxWork \in Nat /\ Minute \in Nat /\ Absent \notin Int
      /\ began <= now /\ calm <= now /\ (pc \in Works => now <= began + MaxWork)
      /\ (pc = "sleep" => now <= began + Minute)
      /\ \A a \in Agents : since[a] \in Nat /\ since[a] <= now /\ Settled(a) \in Nat
      /\ Clock /\ Entries /\ up \subseteq Agents
  BY Numbers DEF SamplesInv, Clock, TypeOK
<1>1. ASSUME Fault, UNCHANGED <<now, since>>, began' <= now, began' \in Nat, up' \subseteq Agents
      PROVE  RowsDue'
  BY <1>0, <1>1, FaultSettles, FaultExcuses
<1>2. ASSUME NEW a \in Agents, CutOff(a) PROVE RowsDue'
  BY <1>0, <1>1, <1>2 DEF CutOff, ingester
<1>3. ASSUME NEW a \in Agents, Return(a) PROVE RowsDue'
  <2>1. \A b \in Agents : since'[b] = IF b = a THEN now ELSE since[b]
    BY <1>3 DEF Return, TypeOK
  <2>2. Settled(a)' = now
    BY <1>0, <1>3, <2>1 DEF Settled, Return
  <2>3. \A b \in Agents : b # a => Settled(b)' = Settled(b)
    BY <1>3, <2>1 DEF Settled, Return
  <2>4. /\ UNCHANGED <<pc, began, todo, metrics>> /\ up' = up \cup {a}
        /\ \A b, t : RowSince(b, t)' <=> RowSince(b, t)
    BY <1>3 DEF Return, RowSince, ingester, database
  <2> QED
    BY <1>0, <2>2, <2>3, <2>4 DEF RowsDue
<1>4. CASE ServerRestart
  BY <1>0, <1>1, <1>4 DEF ServerRestart, ingester
<1>5. CASE Start
  <2>1. \A a \in Agents : Settled(a)' = now
    BY <1>0, <1>5 DEF Start, Settled, agents
  <2> QED
    BY <1>0, <1>5, <2>1, FaultExcuses DEF Start, agents
<1>6. CASE Fetch
  <2>1. CASE Fault
    BY <1>0, <1>1, <1>6, <2>1 DEF Fetch, agents
  <2>2. CASE current_data_' = monitor_map_ /\ UNCHANGED <<faults, calm>>
    <3>1. /\ pc \in Works /\ UNCHANGED <<now, began, up, metrics, since>> /\ pc' = "insert"
          /\ todo' = {a \in Agents : monitor_map_[a] # Absent}
          /\ \A a \in Agents : Settled(a)' = Settled(a)
          /\ \A b, t : RowSince(b, t)' <=> RowSince(b, t)
      BY <1>6, <2>2 DEF Fetch, Works, Settled, RowSince, agents, database
    <3>2. \A a \in up : Settled(a) < began => a \in todo'
      BY <1>0, <3>1 DEF Entries
    <3> QED
      BY <1>0, <3>1, <3>2 DEF RowsDue, Works, Storing
  <2> QED
    BY <1>6, <2>1, <2>2 DEF Fetch
<1>7. ASSUME NEW a \in Agents, Insert(a) PROVE RowsDue'
  <2>1. CASE Fault
    BY <1>0, <1>1, <1>7, <2>1 DEF Insert, agents
  <2>2. CASE metrics' = metrics \cup {Row(a)} /\ UNCHANGED <<calm, faults>>
    <3>1. /\ pc = "insert" /\ UNCHANGED <<now, began, up, since>> /\ pc' \in {"insert", "check"}
          /\ todo' = todo \ {a}
          /\ \A b \in Agents : Settled(b)' = Settled(b)
      BY <1>7, <2>2 DEF Insert, Settled, agents
    <3>2. \A b, t : RowSince(b, t) => RowSince(b, t)'
      BY <2>2 DEF RowSince
    <3>3. \A t : t <= now => RowSince(a, t)'
      <4>1. Row(a).host = a /\ Row(a).stamp = now
        BY DEF Row
      <4> QED
        BY <2>2, <4>1 DEF RowSince
    <3>4. pc \in Storing /\ pc \in Works /\ pc' # "sleep"
      BY <3>1 DEF Storing, Works
    <3>5. \A b \in up : Settled(b) < began - Minute - MaxWork => RowSince(b, began - Minute - MaxWork)
      BY <3>4 DEF RowsDue
    <3>6. \A b \in up : Settled(b) < began => b \in todo \/ RowSince(b, began)
      BY <3>4 DEF RowsDue
    <3>7. \A b \in up : Settled(b) < began => b \in todo' \/ RowSince(b, began)'
      BY <1>0, <3>1, <3>2, <3>3, <3>6
    <3> QED
      BY <1>0, <3>1, <3>2, <3>4, <3>5, <3>7 DEF RowsDue
  <2> QED
    BY <1>7, <2>1, <2>2 DEF Insert
<1>8. CASE Check
  <2>1. /\ pc = "check" /\ pc' = "insert" /\ UNCHANGED <<now, began, up, todo, metrics>>
        /\ \A b \in Agents : Settled(b)' = Settled(b)
        /\ \A b, t : RowSince(b, t)' <=> RowSince(b, t)
    BY <1>8 DEF Check, Settled, RowSince, agents
  <2> QED
    BY <1>0, <2>1 DEF RowsDue, Works, Storing
<1>9. CASE StoreDone
  <2>1. /\ pc = "insert" /\ pc' = "sleep" /\ todo = {} /\ began' = now /\ UNCHANGED <<now, up, metrics>>
        /\ \A b \in Agents : Settled(b)' = Settled(b)
        /\ \A b, t : RowSince(b, t)' <=> RowSince(b, t)
    BY <1>9 DEF StoreDone, Settled, RowSince, agents, database
  <2>2. \A b \in up : Settled(b) < began => RowSince(b, began)
    BY <2>1 DEF RowsDue, Storing
  <2>3. now - MaxWork <= began
    BY <1>0, <2>1 DEF Works
  <2>4. ASSUME NEW b \in up, Settled(b) < now - MaxWork PROVE RowSince(b, now - MaxWork)
    <3>1. PICK m \in metrics : m.host = b /\ m.stamp >= began
      BY <1>0, <2>2, <2>3, <2>4 DEF RowSince
    <3>2. m.stamp \in Nat
      BY Numbers DEF TypeOK
    <3> QED
      BY <1>0, <2>3, <3>1, <3>2 DEF RowSince
  <2> QED
    BY <1>0, <2>1, <2>4 DEF RowsDue, Works, Storing
<1>10. CASE Wake
  <2>1. /\ pc = "sleep" /\ pc' = "fetch" /\ ~(now < began + Minute) /\ began' = now /\ UNCHANGED <<now, up, metrics>>
        /\ \A b \in Agents : Settled(b)' = Settled(b)
        /\ \A b, t : RowSince(b, t)' <=> RowSince(b, t)
    BY <1>10 DEF Wake, Asleep, Settled, RowSince, agents, database
  <2>2. \A b \in up : Settled(b) < began - MaxWork => RowSince(b, began - MaxWork)
    BY <2>1 DEF RowsDue
  <2>3. now - Minute - MaxWork = began - MaxWork
    BY <1>0, <2>1
  <2>4. ASSUME NEW b \in up, Settled(b) < now - Minute - MaxWork PROVE RowSince(b, now - Minute - MaxWork)
    BY <2>2, <2>3, <2>4
  <2> QED
    BY <1>0, <2>1, <2>4 DEF RowsDue, Works, Storing
<1>11. CASE Kill
  BY <1>0, <1>1, <1>11 DEF Kill, agents
<1>12. CASE Tick
  <2>1. /\ UNCHANGED <<pc, began, up, todo, metrics>>
        /\ \A b \in Agents : Settled(b)' = Settled(b)
        /\ \A b, t : RowSince(b, t)' <=> RowSince(b, t)
    BY <1>12 DEF Tick, Settled, RowSince, ingester, database
  <2> QED
    BY <1>0, <2>1 DEF RowsDue
<1>13. CASE UNCHANGED vars
  <2>1. /\ UNCHANGED <<pc, began, up, todo, metrics>>
        /\ \A b \in Agents : Settled(b)' = Settled(b)
        /\ \A b, t : RowSince(b, t)' <=> RowSince(b, t)
    BY <1>13 DEF vars, Settled, RowSince, agents, ingester, database
  <2> QED
    BY <1>0, <2>1 DEF RowsDue
<1> QED
  BY <1>2, <1>3, <1>4, <1>5, <1>6, <1>7, <1>8, <1>9, <1>10, <1>11, <1>12, <1>13 DEF Next, AgentStep, IngesterStep

\* Whoever is owed a row has one that is recent enough.
LEMMA DueIsRegular == TypeOK /\ Clock /\ RowsDue => RowsRegular
<1> SUFFICES ASSUME TypeOK, Clock, RowsDue, NEW a \in up, pc # "down", now - Settled(a) > Longest
             PROVE  \E m \in metrics : m.host = a /\ m.stamp >= now - Longest
  BY DEF RowsRegular
<1>1. /\ now \in Nat /\ began \in Nat /\ MaxWork \in Nat /\ Minute \in Nat /\ Settled(a) \in Nat
      /\ \A m \in metrics : m.stamp \in Nat
  BY Numbers DEF TypeOK
<1>2. CASE pc = "sleep"
  <2>1. RowSince(a, began - MaxWork)
    BY <1>1, <1>2 DEF RowsDue, Clock, Longest
  <2> QED
    BY <1>1, <1>2, <2>1 DEF RowSince, Clock, Longest
<1>3. CASE pc \in Works
  <2>1. RowSince(a, began - Minute - MaxWork)
    BY <1>1, <1>3 DEF RowsDue, Clock, Longest
  <2> QED
    BY <1>1, <1>3, <2>1 DEF RowSince, Clock, Longest
<1> QED
  BY <1>2, <1>3 DEF TypeOK

------------------------------------------------------------------------------
(* The summaries.                                                          *)

SummaryInv == SummaryOfPast /\ SummarySealed

\* A summary of an hour that is over, and the rows of now.
LEMMA SummaryKept == TypeOK /\ Clock /\ DataOfCycle /\ SummaryInv /\ [Next]_vars => SummaryInv'
<1> SUFFICES ASSUME TypeOK, Clock, DataOfCycle, SummaryInv, [Next]_vars PROVE SummaryInv'
  OBVIOUS
<1>0. /\ now \in Nat /\ HourUnits \in Nat \ {0} /\ Hours \subseteq Nat /\ Bucket \in Nat
      /\ Bucket * HourUnits <= now /\ \A h \in Hours : h * HourUnits \in Nat
      /\ \A m \in metrics : m.stamp \in Nat
      /\ SummaryOfPast /\ SummarySealed
  BY Numbers, HourBegun DEF TypeOK, SummaryInv
<1>1. ASSUME UNCHANGED database, now' \in Nat, now <= now' PROVE SummaryInv'
  <2>1. SummarySealed'
    BY <1>0, <1>1 DEF SummarySealed, Window, Stamps, database
  <2>2. SummaryOfPast'
    BY <1>0, <1>1 DEF SummaryOfPast, database
  <2> QED
    BY <2>1, <2>2 DEF SummaryInv
<1>2. ASSUME NEW a \in Agents, Insert(a) PROVE SummaryInv'
  <2>1. /\ summary' = summary /\ now' = now
        /\ metrics \subseteq metrics' /\ \A m \in metrics' : m \in metrics \/ m.stamp = now
    BY <1>2 DEF Insert, Row
  <2>2. ASSUME NEW b \in Agents, NEW h \in Hours, summary[b][h] # Absent
        PROVE  /\ summary[b][h] \subseteq Stamps(Window(b, h))'
               /\ Stamps(Window(b, h))' \ {h * HourUnits} \subseteq summary[b][h]
    <3>1. /\ summary[b][h] \subseteq Stamps(Window(b, h))
          /\ Stamps(Window(b, h)) \ {h * HourUnits} \subseteq summary[b][h]
          /\ h * HourUnits <= now /\ h * HourUnits \in Nat
      BY <1>0, <2>2 DEF SummarySealed, SummaryOfPast
    <3>2. Stamps(Window(b, h)) \subseteq Stamps(Window(b, h))'
      BY <2>1 DEF Stamps, Window
    <3>3. \A t \in Stamps(Window(b, h))' : t \in Stamps(Window(b, h)) \/ t = h * HourUnits
      <4>1. ASSUME NEW m \in metrics', m.host = b, m.stamp \in (h - 1) * HourUnits .. h * HourUnits
            PROVE  m.stamp \in Stamps(Window(b, h)) \/ m.stamp = h * HourUnits
        <5>1. CASE m \in metrics
          BY <4>1, <5>1 DEF Stamps, Window
        <5>2. CASE m.stamp = now
          BY <1>0, <3>1, <4>1, <5>2
        <5> QED
          BY <2>1, <5>1, <5>2
      <4> QED
        BY <4>1 DEF Stamps, Window
    <3> QED
      BY <3>1, <3>2, <3>3
  <2>3. SummarySealed'
    BY <2>1, <2>2 DEF SummarySealed
  <2>4. SummaryOfPast'
    BY <1>0, <2>1 DEF SummaryOfPast
  <2> QED
    BY <2>3, <2>4 DEF SummaryInv
<1>3. CASE Check
  <2> DEFINE S == Stamps(Window(host, Bucket))
  <2>1. /\ metrics' = metrics /\ now' = now
        /\ \/ summary' = summary
           \/ summary' = [summary EXCEPT ![host][Bucket] = S]
    BY <1>3 DEF Check
  <2>2. host \in Agents
    BY <1>3 DEF Check, DataOfCycle, Storing
  <2>3. \A b \in Agents, h \in Hours :
           summary'[b][h] = summary[b][h] \/ (b = host /\ h = Bucket /\ summary'[b][h] = S)
    <3> HIDE DEF S
    <3>1. summary \in [Agents -> [Hours -> (SUBSET Times) \cup {Absent}]]
      BY DEF TypeOK
    <3> QED
      BY <2>1, <2>2, <3>1
  <2>4. \A b, h : Stamps(Window(b, h))' = Stamps(Window(b, h))
    BY <2>1 DEF Stamps, Window
  <2>5. SummarySealed'
    <3>1. SUFFICES ASSUME NEW b \in Agents, NEW h \in Hours, summary'[b][h] # Absent
                   PROVE  /\ summary'[b][h] \subseteq Stamps(Window(b, h))
                          /\ Stamps(Window(b, h)) \ {h * HourUnits} \subseteq summary'[b][h]
      BY <2>4 DEF SummarySealed
    <3>2. CASE summary'[b][h] = summary[b][h]
      BY <1>0, <3>1, <3>2 DEF SummarySealed
    <3>3. CASE b = host /\ h = Bucket /\ summary'[b][h] = S
      BY <3>3
    <3> QED
      BY <2>3, <3>2, <3>3
  <2>6. SummaryOfPast'
    BY <1>0, <2>1, <2>3 DEF SummaryOfPast
  <2> QED
    BY <2>5, <2>6 DEF SummaryInv
<1>4. CASE UNCHANGED database /\ UNCHANGED now
  BY <1>0, <1>1, <1>4
<1>5. CASE Tick
  BY <1>0, <1>1, <1>5 DEF Tick
<1> QED
  BY <1>2, <1>3, <1>4, <1>5
     DEF Next, AgentStep, IngesterStep, CutOff, Return, ServerRestart, Start, Fetch, StoreDone, Wake, Kill, vars

------------------------------------------------------------------------------
(* The invariant.                                                          *)

\* The invariant holds before the first cycle.
LEMMA InitIInv == Init => IInv
<1> SUFFICES ASSUME Init PROVE IInv
  OBVIOUS
<1>1. TypeOK /\ SamplesInv
  BY InitTypes, InitSamples
<1>2. RowsDue
  BY DEF Init, RowsDue, Works, Storing
<1>3. RowsRegular
  BY <1>1, <1>2, DueIsRegular DEF SamplesInv
<1>4. \A a \in Agents, h \in Hours : summary[a][h] = Absent
  BY DEF Init
<1> QED
  BY <1>1, <1>2, <1>3, <1>4 DEF IInv, SamplesInv, SummaryOfPast, SummarySealed

\* Every step of the system keeps the invariant.
LEMMA NextIInv == IInv /\ [Next]_vars => IInv'
<1> SUFFICES ASSUME IInv, [Next]_vars PROVE IInv'
  OBVIOUS
<1>1. TypeOK' /\ SamplesInv' /\ RowsDue' /\ SummaryInv'
  BY TypesKept, SamplesKept, DueKept, SummaryKept DEF IInv, SamplesInv, SummaryInv
<1>2. RowsRegular'
  <2>1. TypeOK' /\ Clock' /\ RowsDue'
    BY <1>1 DEF SamplesInv
  <2> QED
    BY <2>1, DueIsRegular, PTL
<1> QED
  BY <1>1, <1>2 DEF IInv, SamplesInv, SummaryInv

\* The inductive invariant holds in every reachable state.
THEOREM Invariance == Spec => []IInv
  BY InitIInv, NextIInv, PTL DEF Spec

\* Every variable of the pipeline has its type.
THEOREM TypeCorrect == Spec => []TypeOK
<1>1. IInv => TypeOK
  BY DEF IInv
<1> QED
  BY <1>1, Invariance, PTL

\* The rows of an agent that reports are stamped within the work of one cycle of
\* the moment of their sample.
THEOREM FreshRows == Spec => []RowsFresh
<1>1. IInv => RowsFresh
  BY DEF IInv
<1> QED
  BY <1>1, Invariance, PTL

\* Whatever the periods are, an agent of which nothing fails has a row in every
\* minute and two cycles of work.
THEOREM RegularRows == Spec => []RowsRegular
<1>1. IInv => RowsRegular
  BY DEF IInv
<1> QED
  BY <1>1, Invariance, PTL

\* A summary that is written has all rows of its hour, and is not outdated later.
THEOREM SummariesAreSealed == Spec => []SummarySealed
<1>1. IInv => SummarySealed
  BY DEF IInv
<1> QED
  BY <1>1, Invariance, PTL

------------------------------------------------------------------------------
(* When an hour is summarised.                                             *)

\* A quotient is the number that fits.
LEMMA QuotientIs ==
    ASSUME NEW n \in Nat, NEW d \in Nat \ {0}, NEW q \in Nat, q * d <= n, n < q * d + d
    PROVE  n \div d = q
<1> DEFINE k == n \div d
<1>1. k \in Nat /\ k * d <= n /\ n < k * d + d
  OBVIOUS
<1> HIDE DEF k
<1>2. \A i, j \in Nat : i < j => i * d + d <= j * d
  <2> SUFFICES ASSUME NEW i \in Nat, NEW j \in Nat, i < j PROVE i * d + d <= j * d
    OBVIOUS
  <2>1. PICK e \in Nat : j = i + 1 + e
    <3>1. j - i - 1 \in Nat /\ j = i + 1 + (j - i - 1)
      OBVIOUS
    <3> QED
      BY <3>1
  <2>2. j * d = i * d + d + e * d /\ e * d \in Nat /\ i * d \in Nat
    BY <2>1
  <2> QED
    BY <2>2
<1>3. q * d \in Nat /\ k * d \in Nat
  BY <1>1
<1>4. CASE k < q
  BY <1>1, <1>2, <1>3, <1>4
<1>5. CASE q < k
  BY <1>1, <1>2, <1>3, <1>5
<1> QED
  BY <1>1, <1>4, <1>5 DEF k

\* In the first minute after a full hour the code sees that hour.
LEMMA FirstMinute ==
    ASSUME TypeOK, NEW h \in Hours, h * HourUnits <= now, now < h * HourUnits + Minute
    PROVE  Bucket = h /\ OnTheHour
<1>1. Minute \in Nat \ {0} /\ Hour \in Nat \ {0} /\ now \in Nat /\ h \in Nat
  BY PipelineAssumption, Numbers, HourBegun
<1>2. \A m, n \in Nat \ {0} : m * n \in Nat \ {0} /\ m <= m * n
  OBVIOUS
<1>3. HourUnits \in Nat \ {0} /\ Minute <= HourUnits /\ h * HourUnits \in Nat
  BY <1>1, <1>2, HourBegun DEF HourUnits
<1>4. Bucket = h
  <2>1. now < h * HourUnits + HourUnits
    BY <1>1, <1>3
  <2> QED
    BY <1>1, <1>3, <2>1, QuotientIs DEF Bucket
<1>5. now \div Minute = h * Hour
  <2>1. (h * Hour) * Minute = h * HourUnits /\ h * Hour \in Nat
    BY <1>1 DEF HourUnits
  <2> QED
    BY <1>1, <2>1, QuotientIs
<1>6. (h * Hour) % Hour = 0
  BY <1>1
<1> QED
  BY <1>4, <1>5, <1>6 DEF OnTheHour

\* m is a row of hour h, and l a row of the same host that was inserted early
\* enough in the first minute after it for the check that follows to be in that
\* minute as well; nothing has failed since.
Answered(m, l, h) ==
    /\ l.host = m.host /\ calm < l.stamp
    /\ m.stamp \in (h - 1) * HourUnits .. h * HourUnits
    /\ h * HourUnits <= l.stamp /\ l.stamp + MaxWork < h * HourUnits + Minute

SummariesDue ==
    \A m, l \in metrics, h \in Hours :
       Answered(m, l, h) =>
          m.stamp \in summary[m.host][h] \/ (pc = "check" /\ host = l.host /\ began <= l.stamp)

\* The check that follows an insert is made before anything else of the store.
LEMMA SummariesDueKept ==
    TypeOK /\ Clock /\ DataOfCycle /\ SummariesDue /\ [Next]_vars => SummariesDue'
<1> SUFFICES ASSUME TypeOK, Clock, DataOfCycle, SummariesDue, [Next]_vars,
                    NEW m \in metrics', NEW l \in metrics', NEW h \in Hours, Answered(m, l, h)'
             PROVE  \/ m.stamp \in summary'[m.host][h]
                    \/ pc' = "check" /\ host' = l.host /\ began' <= l.stamp
  BY DEF SummariesDue
<1>0. /\ now \in Nat /\ began \in Nat /\ began <= now /\ h \in Nat /\ h * HourUnits \in Nat /\ MaxWork \in Nat
      /\ Minute \in Nat /\ calm \in Nat
      /\ \A r \in metrics : r.stamp \in Nat /\ r.stamp <= now
  BY Numbers, HourBegun DEF TypeOK, Clock
<1>1. /\ l.host = m.host /\ calm' < l.stamp /\ m.stamp \in (h - 1) * HourUnits .. h * HourUnits
      /\ h * HourUnits <= l.stamp /\ l.stamp + MaxWork < h * HourUnits + Minute
  BY DEF Answered
<1>2. ASSUME Fault, UNCHANGED metrics PROVE FALSE
  BY <1>0, <1>1, <1>2 DEF Fault
<1>3. ASSUME UNCHANGED database, UNCHANGED calm
      PROVE  m.stamp \in summary'[m.host][h] \/ (pc = "check" /\ host = l.host /\ began <= l.stamp)
  BY <1>1, <1>3 DEF SummariesDue, Answered, database
<1>4. ASSUME UNCHANGED database, UNCHANGED calm, pc # "check" PROVE m.stamp \in summary'[m.host][h]
  BY <1>3, <1>4
<1>5. ASSUME UNCHANGED database, UNCHANGED calm, UNCHANGED <<pc, host, began>>
      PROVE  m.stamp \in summary'[m.host][h] \/ (pc' = "check" /\ host' = l.host /\ began' <= l.stamp)
  BY <1>3, <1>5
<1>6. CASE Start
  <2>1. metrics' = metrics /\ calm' = now
    BY <1>6 DEF Start, database
  <2> QED
    BY <1>0, <1>1, <2>1
<1>7. ASSUME NEW a \in Agents, Insert(a)
      PROVE  m.stamp \in summary'[m.host][h] \/ (pc' = "check" /\ host' = l.host /\ began' <= l.stamp)
  <2>1. pc = "insert" /\ summary' = summary /\ host' = a /\ began' = began
    BY <1>7 DEF Insert
  <2>2. CASE Fault
    <3>1. calm' = now
      BY <2>2 DEF Fault
    <3>2. l.stamp \in Nat /\ l.stamp <= now
      <4>1. l \in metrics \/ l = Row(a)
        BY <1>7 DEF Insert
      <4>2. Row(a).stamp = now
        BY DEF Row
      <4> QED
        BY <1>0, <4>1, <4>2
    <3> QED
      BY <1>0, <1>1, <3>1, <3>2
  <2>3. CASE metrics' = metrics \cup {Row(a)} /\ pc' = "check" /\ calm' = calm
    <3>1. Row(a).host = a /\ Row(a).stamp = now
      BY DEF Row
    <3>2. CASE m \in metrics /\ l \in metrics
      BY <1>1, <2>1, <2>3, <3>2 DEF SummariesDue, Answered
    <3>3. CASE l = Row(a)
      BY <1>0, <2>1, <2>3, <3>1, <3>3
    <3>4. CASE m = Row(a) /\ l \in metrics
      <4>1. l.host = a /\ now <= h * HourUnits
        BY <1>0, <1>1, <3>1, <3>4
      <4> QED
        BY <1>0, <1>1, <2>1, <2>3, <3>4, <4>1
    <3> QED
      BY <2>3, <3>2, <3>3, <3>4
  <2>4. Fault \/ (metrics' = metrics \cup {Row(a)} /\ pc' = "check" /\ calm' = calm)
    BY <1>7 DEF Insert
  <2> QED
    BY <2>2, <2>3, <2>4
<1>8. CASE Check
  <2> DEFINE S == Stamps(Window(host, Bucket))
  <2>1. /\ pc = "check" /\ metrics' = metrics /\ calm' = calm
        /\ summary' = IF OnTheHour /\ Window(host, Bucket) # {}
                      THEN [summary EXCEPT ![host][Bucket] = S] ELSE summary
    BY <1>8 DEF Check
  <2>2. host \in Agents /\ m.host \in Agents /\ now <= began + MaxWork
    BY <2>1 DEF DataOfCycle, Storing, TypeOK, Clock, Works
  <2>3. CASE host = m.host /\ Bucket = h /\ OnTheHour
    <3>1. m \in Window(host, Bucket)
      BY <1>1, <2>1, <2>3 DEF Window
    <3>2. m.stamp \in S /\ summary' = [summary EXCEPT ![host][Bucket] = S]
      BY <2>1, <2>3, <3>1 DEF Stamps
    <3> HIDE DEF S
    <3>3. summary'[host][Bucket] = S
      <4>1. summary \in [Agents -> [Hours -> (SUBSET Times) \cup {Absent}]]
        BY DEF TypeOK
      <4> QED
        BY <2>2, <2>3, <3>2, <4>1
    <3> QED
      BY <2>3, <3>2, <3>3
  <2>4. CASE ~(host = m.host /\ Bucket = h /\ OnTheHour)
    <3>1. summary'[m.host][h] = summary[m.host][h]
      <4> HIDE DEF S
      <4>1. summary \in [Agents -> [Hours -> (SUBSET Times) \cup {Absent}]]
        BY DEF TypeOK
      <4> QED
        BY <2>1, <2>2, <2>4, <4>1
    <3>2. ~(host = l.host /\ began <= l.stamp)
      <4>1. ASSUME host = l.host, began <= l.stamp PROVE FALSE
        <5>1. now < h * HourUnits + Minute /\ h * HourUnits <= now
          BY <1>0, <1>1, <2>1, <2>2, <4>1
        <5>2. Bucket = h /\ OnTheHour
          BY <5>1, FirstMinute
        <5> QED
          BY <1>1, <2>4, <4>1, <5>2
      <4> QED
        BY <4>1
    <3> QED
      BY <1>1, <2>1, <3>1, <3>2 DEF SummariesDue, Answered
  <2> QED
    BY <2>3, <2>4
<1>9. ASSUME NEW a \in Agents, CutOff(a) PROVE FALSE
  BY <1>2, <1>9 DEF CutOff, database
<1>10. ASSUME NEW a \in Agents, Return(a)
       PROVE  m.stamp \in summary'[m.host][h] \/ (pc' = "check" /\ host' = l.host /\ began' <= l.stamp)
  BY <1>5, <1>10 DEF Return, ingester
<1>11. CASE ServerRestart
  BY <1>2, <1>11 DEF ServerRestart, database
<1>12. CASE Fetch
  <2>1. CASE Fault
    BY <1>2, <1>12, <2>1 DEF Fetch, database
  <2>2. CASE UNCHANGED calm
    BY <1>4, <1>12, <2>2 DEF Fetch
  <2> QED
    BY <1>12, <2>1, <2>2 DEF Fetch
<1>13. CASE StoreDone
  BY <1>4, <1>13 DEF StoreDone
<1>14. CASE Wake
  BY <1>4, <1>14 DEF Wake
<1>15. CASE Kill
  BY <1>2, <1>15 DEF Kill, database
<1>16. CASE Tick
  BY <1>5, <1>16 DEF Tick, ingester
<1>17. CASE UNCHANGED vars
  BY <1>5, <1>17 DEF vars, ingester
<1> QED
  BY <1>6, <1>7, <1>8, <1>9, <1>10, <1>11, <1>12, <1>13, <1>14, <1>15, <1>16, <1>17 DEF Next, AgentStep, IngesterStep

\* What is true of "at every full hour" (performance_server.cpp:838): if a row of
\* a host falls into the first minute after the hour, and neither it nor its
\* check is late or fails, then all rows of the hour are in the summary.
SummarisedWhenHit ==
    \A m, l \in metrics, h \in Hours :
       Answered(m, l, h) /\ l.stamp + MaxWork < now => m.stamp \in summary[m.host][h]

\* An hour is summarised, with all of its rows, if a store hits the minute after
\* it: what EveryHourSummarised lacks is only that one does.
THEOREM HitHoursAreSummarised == Spec => []SummarisedWhenHit
<1>1. Init => SummariesDue
  BY DEF Init, SummariesDue
<1>2. IInv /\ SummariesDue /\ [Next]_vars => SummariesDue'
  BY SummariesDueKept DEF IInv
<1>3. IInv /\ SummariesDue => SummarisedWhenHit
  <2> SUFFICES ASSUME IInv, SummariesDue, NEW m \in metrics, NEW l \in metrics, NEW h \in Hours,
                      Answered(m, l, h), l.stamp + MaxWork < now
               PROVE  m.stamp \in summary[m.host][h]
    BY DEF SummarisedWhenHit
  <2>1. now \in Nat /\ began \in Nat /\ MaxWork \in Nat /\ l.stamp \in Nat
    BY Numbers DEF IInv, TypeOK
  <2>2. pc = "check" => now <= began + MaxWork
    BY DEF IInv, Clock, Works
  <2>3. ~(pc = "check" /\ began <= l.stamp)
    BY <2>1, <2>2
  <2> QED
    BY <2>3 DEF SummariesDue
<1> QED
  BY Invariance, <1>1, <1>2, <1>3, PTL DEF Spec
=============================================================================
