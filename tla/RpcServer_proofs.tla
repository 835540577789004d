--------------------------- MODULE RpcServer_proofs ---------------------------
(***************************************************************************)
(* The safety of RpcServer, and that it implements AtomicStore, for any    *)
(* number of agents, pollers, handler threads and samples.                 *)
(***************************************************************************)
EXTENDS RpcServer, TLAPS

\* At the start there is no call, no lock and no entry.
LEMMA InitIInv == Init => IInv
<1> SUFFICES ASSUME Init PROVE IInv
  OBVIOUS
<1> USE RpcServerAssumption DEF Init, Idle
<1>1. TypeOK
  BY DEF TypeOK, HandlerState, EmptyMap
<1>2. HandlersConsistent
  BY DEF HandlersConsistent
<1>3. CallsConsistent
  BY DEF CallsConsistent
<1>4. MutualExclusion
  BY DEF MutualExclusion, InLock
<1>5. MapConsistent
  BY DEF MapConsistent, EmptyMap
<1>6. CopyConsistent
  BY DEF CopyConsistent
<1>7. ReportsListed
  BY DEF ReportsListed
<1>8. ResponsesAreReal
  BY DEF ResponsesAreReal
<1> QED
  BY <1>1, <1>2, <1>3, <1>4, <1>5, <1>6, <1>7, <1>8 DEF IInv

\* Every step keeps the types.
LEMMA NextTypeOK == IInv /\ [Next]_vars => TypeOK'
<1> SUFFICES ASSUME IInv, [Next]_vars PROVE TypeOK'
  OBVIOUS
<1> USE RpcServerAssumption DEF IInv, TypeOK, HandlerState, Idle
<1>1. CASE Start
  BY <1>1 DEF Start
<1>2. CASE Signal
  BY <1>2 DEF Signal
<1>3. CASE BeginShutdown
  BY <1>3 DEF BeginShutdown
<1>4. CASE FinishShutdown
  BY <1>4 DEF FinishShutdown, EmptyMap
<1>5. CASE Crash
  BY <1>5 DEF Crash, EmptyMap
<1>6. ASSUME NEW a \in Agents, NEW i \in Handlers, AgentSend(a, i) PROVE TypeOK'
  <2> DEFINE req == [agent |-> a, seq |-> seq[a] + 1]
             h == [Idle EXCEPT !.pc = "entry", !.kind = "set", !.caller = a, !.live = TRUE, !.req = req]
  <2>1. seq[a] + 1 \in 1 .. MaxSeq
    BY <1>6 DEF AgentSend
  <2>2. req \in Sample
    BY <2>1 DEF Sample
  <2>3. h \in HandlerState
    BY <2>2
  <2>4. handler' = [handler EXCEPT ![i] = h]
    BY <1>6 DEF AgentSend
  <2>5. handler' \in [Handlers -> HandlerState]
    <3> HIDE DEF h, HandlerState
    <3> QED
      BY <2>3, <2>4
  <2> HIDE DEF HandlerState, Idle
  <2> QED
    BY <1>6, <2>1, <2>5 DEF AgentSend
<1>7. ASSUME NEW a \in Agents, AgentUnreachable(a) PROVE TypeOK'
  BY <1>7 DEF AgentUnreachable
<1>8. ASSUME NEW p \in Pollers, NEW i \in Handlers, PollerSend(p, i) PROVE TypeOK'
  BY <1>8 DEF PollerSend
<1>9. ASSUME NEW c \in Agents \cup Pollers, Abandon(c) PROVE TypeOK'
  <2> DEFINE i == call[c]
  <2>1. i \in Handlers
    BY <1>9 DEF Abandon
  <2>2. [handler[i] EXCEPT !.live = FALSE] \in HandlerState
    <3>1. handler[i] \in HandlerState
      BY <2>1
    <3> QED
      BY <3>1
  <2>3. handler' = [handler EXCEPT ![i] = [handler[i] EXCEPT !.live = FALSE]]
    BY <1>9, <2>1 DEF Abandon
  <2> HIDE DEF HandlerState, Idle, i
  <2>4. handler' \in [Handlers -> HandlerState]
    BY <2>1, <2>2, <2>3
  <2> QED
    BY <1>9, <2>4 DEF Abandon
<1>10. ASSUME NEW i \in Handlers, Lock(i) PROVE TypeOK'
  <2> DEFINE h == [handler[i] EXCEPT !.pc = IF handler[i].kind = "set" THEN "insert" ELSE "copy",
                                     !.todo = IF handler[i].kind = "set" THEN {} ELSE Keys]
  <2>1. Keys \subseteq Names
    BY DEF Keys
  <2>2. h \in HandlerState
    <3>1. handler[i] \in HandlerState
      OBVIOUS
    <3>2. (IF handler[i].kind = "set" THEN {} ELSE Keys) \in SUBSET Names
      BY <2>1
    <3> QED
      BY <3>1, <3>2
  <2>3. handler' = [handler EXCEPT ![i] = h]
    BY <1>10 DEF Lock
  <2> HIDE DEF HandlerState, h
  <2>4. handler' \in [Handlers -> HandlerState]
    BY <2>2, <2>3
  <2> QED
    BY <1>10, <2>4 DEF Lock
<1>11. ASSUME NEW i \in Handlers, SetInsert(i) PROVE TypeOK'
  BY <1>11 DEF SetInsert, HandlersConsistent, Names
<1>12. ASSUME NEW i \in Handlers, SetAssign(i) PROVE TypeOK'
  BY <1>12 DEF SetAssign, HandlersConsistent, Names
<1>13. ASSUME NEW i \in Handlers, SetUnlock(i) PROVE TypeOK'
  BY <1>13 DEF SetUnlock
<1>14. ASSUME NEW i \in Handlers, GetCopy(i) PROVE TypeOK'
  <2> DEFINE h(n) == [handler[i] EXCEPT !.todo = handler[i].todo \ {n},
                                        !.resp = handler[i].resp \cup {monitor_infos_map_[n]}]
  <2>1. PICK n \in handler[i].todo : handler' = [handler EXCEPT ![i] = h(n)]
    BY <1>14 DEF GetCopy
  <2>2. monitor_infos_map_[n] \in Sample \cup {Default}
    BY <1>14 DEF GetCopy, CopyConsistent, Keys
  <2>3. h(n) \in HandlerState
    <3>1. handler[i] \in HandlerState
      OBVIOUS
    <3>2. handler[i].todo \ {n} \in SUBSET Names
      BY <3>1
    <3>3. handler[i].resp \cup {monitor_infos_map_[n]} \in SUBSET (Sample \cup {Default})
      BY <2>2, <3>1
    <3> QED
      BY <3>1, <3>2, <3>3
  <2> HIDE DEF HandlerState, h
  <2>4. handler' \in [Handlers -> HandlerState]
    BY <2>1, <2>3
  <2> QED
    BY <1>14, <2>4 DEF GetCopy
<1>15. ASSUME NEW i \in Handlers, GetReturn(i) PROVE TypeOK'
  BY <1>15 DEF GetReturn
<1>16. ASSUME NEW i \in Handlers, Reply(i) PROVE TypeOK'
  BY <1>16 DEF Reply, HandlersConsistent
<1>17. CASE UNCHANGED vars
  BY <1>17 DEF vars
<1> QED
  BY <1>1, <1>2, <1>3, <1>4, <1>5, <1>6, <1>7, <1>8, <1>9,
     <1>10, <1>11, <1>12, <1>13, <1>14, <1>15, <1>16, <1>17 DEF Next, Lifecycle, HandlerStep

\* A handler keeps its kind, its caller and its request to its end.
LEMMA NextHandlersConsistent == IInv /\ [Next]_vars => HandlersConsistent'
<1> SUFFICES ASSUME IInv, [Next]_vars PROVE HandlersConsistent'
  OBVIOUS
<1> USE RpcServerAssumption DEF IInv, TypeOK, HandlerState, HandlersConsistent, Idle
<1>1. CASE Start
  BY <1>1 DEF Start
<1>2. CASE Signal
  BY <1>2 DEF Signal
<1>3. CASE BeginShutdown
  BY <1>3 DEF BeginShutdown
<1>4. CASE FinishShutdown
  BY <1>4 DEF FinishShutdown
<1>5. CASE Crash
  BY <1>5 DEF Crash
<1>6. ASSUME NEW a \in Agents, NEW i \in Handlers, AgentSend(a, i) PROVE HandlersConsistent'
  BY <1>6 DEF AgentSend, Sample
<1>7. ASSUME NEW a \in Agents, AgentUnreachable(a) PROVE HandlersConsistent'
  BY <1>7 DEF AgentUnreachable, Sample
<1>8. ASSUME NEW p \in Pollers, NEW i \in Handlers, PollerSend(p, i) PROVE HandlersConsistent'
  BY <1>8 DEF PollerSend
<1>9. ASSUME NEW c \in Agents \cup Pollers, Abandon(c) PROVE HandlersConsistent'
  <2> DEFINE i == call[c]
  <2>1. i \in Handlers /\ handler[i].live
    BY <1>9 DEF Abandon, CallsConsistent
  <2>2. handler' = [handler EXCEPT ![i] = [handler[i] EXCEPT !.live = FALSE]]
    BY <1>9, <2>1 DEF Abandon
  <2>3. handler[i].pc # "idle"
    BY <2>1
  <2>4. \A j \in Handlers \ {i} : handler'[j] = handler[j]
    BY <2>2
  <2>5. handler'[i] = [handler[i] EXCEPT !.live = FALSE]
    BY <2>1, <2>2
  <2>6. handler[i] \in HandlerState
    BY <2>1
  <2>7. /\ handler'[i].pc = handler[i].pc /\ handler'[i].kind = handler[i].kind
        /\ handler'[i].caller = handler[i].caller /\ handler'[i].req = handler[i].req
        /\ handler'[i].resp = handler[i].resp
    BY <2>5, <2>6
  <2>8. seq' = seq
    BY <1>9 DEF Abandon
  <2> HIDE DEF i, TypeOK, HandlerState, Idle
  <2> QED
    BY <2>1, <2>3, <2>4, <2>7, <2>8
<1>10. ASSUME NEW i \in Handlers, Lock(i) PROVE HandlersConsistent'
  BY <1>10 DEF Lock
<1>11. ASSUME NEW i \in Handlers, SetInsert(i) PROVE HandlersConsistent'
  BY <1>11 DEF SetInsert
<1>12. ASSUME NEW i \in Handlers, SetAssign(i) PROVE HandlersConsistent'
  BY <1>12 DEF SetAssign
<1>13. ASSUME NEW i \in Handlers, SetUnlock(i) PROVE HandlersConsistent'
  BY <1>13 DEF SetUnlock
<1>14. ASSUME NEW i \in Handlers, GetCopy(i) PROVE HandlersConsistent'
  <2>1. /\ \A j \in Handlers \ {i} : handler'[j] = handler[j]
        /\ handler'[i].pc = handler[i].pc /\ handler'[i].kind = handler[i].kind
        /\ handler'[i].caller = handler[i].caller /\ handler'[i].req = handler[i].req
    BY <1>14 DEF GetCopy
  <2>2. handler[i].pc = "copy" /\ seq' = seq
    BY <1>14 DEF GetCopy
  <2> HIDE DEF TypeOK, HandlerState, Idle
  <2> QED
    BY <2>1, <2>2
<1>15. ASSUME NEW i \in Handlers, GetReturn(i) PROVE HandlersConsistent'
  BY <1>15 DEF GetReturn
<1>16. ASSUME NEW i \in Handlers, Reply(i) PROVE HandlersConsistent'
  BY <1>16 DEF Reply
<1>17. CASE UNCHANGED vars
  BY <1>17 DEF vars
<1> QED
  BY <1>1, <1>2, <1>3, <1>4, <1>5, <1>6, <1>7, <1>8, <1>9,
     <1>10, <1>11, <1>12, <1>13, <1>14, <1>15, <1>16, <1>17 DEF Next, Lifecycle, HandlerStep

\* A caller is bound to one live handler; it takes no new sample meanwhile.
LEMMA NextCallsConsistent == IInv /\ [Next]_vars => CallsConsistent'
<1> SUFFICES ASSUME IInv, [Next]_vars PROVE CallsConsistent'
  OBVIOUS
<1> USE RpcServerAssumption DEF IInv, TypeOK, HandlerState, CallsConsistent, HandlersConsistent, Idle
<1>1. CASE Start
  BY <1>1 DEF Start
<1>2. CASE Signal
  BY <1>2 DEF Signal
<1>3. CASE BeginShutdown
  BY <1>3 DEF BeginShutdown
<1>4. CASE FinishShutdown
  BY <1>4 DEF FinishShutdown
<1>5. CASE Crash
  BY <1>5 DEF Crash
<1>6. ASSUME NEW a \in Agents, NEW i \in Handlers, AgentSend(a, i) PROVE CallsConsistent'
  BY <1>6 DEF AgentSend
<1>7. ASSUME NEW a \in Agents, AgentUnreachable(a) PROVE CallsConsistent'
  BY <1>7 DEF AgentUnreachable
<1>8. ASSUME NEW p \in Pollers, NEW i \in Handlers, PollerSend(p, i) PROVE CallsConsistent'
  BY <1>8 DEF PollerSend
<1>9. ASSUME NEW c \in Agents \cup Pollers, Abandon(c) PROVE CallsConsistent'
  BY <1>9 DEF Abandon
<1>10. ASSUME NEW i \in Handlers, Lock(i) PROVE CallsConsistent'
  BY <1>10 DEF Lock
<1>11. ASSUME NEW i \in Handlers, SetInsert(i) PROVE CallsConsistent'
  BY <1>11 DEF SetInsert
<1>12. ASSUME NEW i \in Handlers, SetAssign(i) PROVE CallsConsistent'
  BY <1>12 DEF SetAssign
<1>13. ASSUME NEW i \in Handlers, SetUnlock(i) PROVE CallsConsistent'
  BY <1>13 DEF SetUnlock
<1>14. ASSUME NEW i \in Handlers, GetCopy(i) PROVE CallsConsistent'
  BY <1>14 DEF GetCopy
<1>15. ASSUME NEW i \in Handlers, GetReturn(i) PROVE CallsConsistent'
  BY <1>15 DEF GetReturn
<1>16. ASSUME NEW i \in Handlers, Reply(i) PROVE CallsConsistent'
  BY <1>16 DEF Reply
<1>17. CASE UNCHANGED vars
  BY <1>17 DEF vars
<1> QED
  BY <1>1, <1>2, <1>3, <1>4, <1>5, <1>6, <1>7, <1>8, <1>9,
     <1>10, <1>11, <1>12, <1>13, <1>14, <1>15, <1>16, <1>17 DEF Next, Lifecycle, HandlerStep

\* The lock is taken by one handler at a time.
LEMMA NextMutualExclusion == IInv /\ [Next]_vars => MutualExclusion'
<1> SUFFICES ASSUME IInv, [Next]_vars PROVE MutualExclusion'
  OBVIOUS
<1> USE RpcServerAssumption DEF IInv, TypeOK, HandlerState, MutualExclusion, InLock, Idle
<1>1. CASE Start
  BY <1>1 DEF Start
<1>2. CASE Signal
  BY <1>2 DEF Signal
<1>3. CASE BeginShutdown
  BY <1>3 DEF BeginShutdown
<1>4. CASE FinishShutdown
  BY <1>4 DEF FinishShutdown
<1>5. CASE Crash
  BY <1>5 DEF Crash
<1>6. ASSUME NEW a \in Agents, NEW i \in Handlers, AgentSend(a, i) PROVE MutualExclusion'
  BY <1>6 DEF AgentSend
<1>7. ASSUME NEW a \in Agents, AgentUnreachable(a) PROVE MutualExclusion'
  BY <1>7 DEF AgentUnreachable
<1>8. ASSUME NEW p \in Pollers, NEW i \in Handlers, PollerSend(p, i) PROVE MutualExclusion'
  BY <1>8 DEF PollerSend
<1>9. ASSUME NEW c \in Agents \cup Pollers, Abandon(c) PROVE MutualExclusion'
  BY <1>9 DEF Abandon
<1>10. ASSUME NEW i \in Handlers, Lock(i) PROVE MutualExclusion'
  BY <1>10 DEF Lock, HandlersConsistent
<1>11. ASSUME NEW i \in Handlers, SetInsert(i) PROVE MutualExclusion'
  BY <1>11 DEF SetInsert
<1>12. ASSUME NEW i \in Handlers, SetAssign(i) PROVE MutualExclusion'
  BY <1>12 DEF SetAssign
<1>13. ASSUME NEW i \in Handlers, SetUnlock(i) PROVE MutualExclusion'
  BY <1>13 DEF SetUnlock
<1>14. ASSUME NEW i \in Handlers, GetCopy(i) PROVE MutualExclusion'
  BY <1>14 DEF GetCopy
<1>15. ASSUME NEW i \in Handlers, GetReturn(i) PROVE MutualExclusion'
  BY <1>15 DEF GetReturn
<1>16. ASSUME NEW i \in Handlers, Reply(i) PROVE MutualExclusion'
  BY <1>16 DEF Reply
<1>17. CASE UNCHANGED vars
  BY <1>17 DEF vars
<1> QED
  BY <1>1, <1>2, <1>3, <1>4, <1>5, <1>6, <1>7, <1>8, <1>9,
     <1>10, <1>11, <1>12, <1>13, <1>14, <1>15, <1>16, <1>17 DEF Next, Lifecycle, HandlerStep

\* The map holds real samples, and a default one only under the lock.
LEMMA NextMapConsistent == IInv /\ [Next]_vars => MapConsistent'
<1> SUFFICES ASSUME IInv, [Next]_vars PROVE MapConsistent'
  OBVIOUS
<1> USE RpcServerAssumption DEF IInv, TypeOK, HandlerState, Idle, MapConsistent
<1>1. CASE Start
  BY <1>1 DEF Start
<1>2. CASE Signal
  BY <1>2 DEF Signal
<1>3. CASE BeginShutdown
  BY <1>3 DEF BeginShutdown
<1>4. CASE FinishShutdown
  BY <1>4 DEF FinishShutdown, EmptyMap
<1>5. CASE Crash
  BY <1>5 DEF Crash, EmptyMap
<1>6. ASSUME NEW a \in Agents, NEW i \in Handlers, AgentSend(a, i) PROVE MapConsistent'
  BY <1>6 DEF AgentSend, Sample
<1>7. ASSUME NEW a \in Agents, AgentUnreachable(a) PROVE MapConsistent'
  BY <1>7 DEF AgentUnreachable, Sample
<1>8. ASSUME NEW p \in Pollers, NEW i \in Handlers, PollerSend(p, i) PROVE MapConsistent'
  BY <1>8 DEF PollerSend
<1>9. ASSUME NEW c \in Agents \cup Pollers, Abandon(c) PROVE MapConsistent'
  BY <1>9 DEF Abandon
<1>10. ASSUME NEW i \in Handlers, Lock(i) PROVE MapConsistent'
  BY <1>10 DEF Lock
<1>11. ASSUME NEW i \in Handlers, SetInsert(i) PROVE MapConsistent'
  <2> DEFINE m == NameOf[handler[i].req.agent]
  <2>1. handler'[i].pc = "assign" /\ handler'[i].req = handler[i].req
    BY <1>11 DEF SetInsert
  <2>2. \A n \in Names \ {m} : monitor_infos_map_'[n] = monitor_infos_map_[n]
    BY <1>11 DEF SetInsert
  <2>3. m \in Names => monitor_infos_map_'[m] \in {monitor_infos_map_[m], Default}
    BY <1>11 DEF SetInsert
  <2>4. \A j \in Handlers \ {i} : handler'[j] = handler[j]
    BY <1>11 DEF SetInsert
  <2>5. seq' = seq
    BY <1>11 DEF SetInsert
  <2> QED
    BY <2>1, <2>2, <2>3, <2>4, <2>5
<1>12. ASSUME NEW i \in Handlers, SetAssign(i) PROVE MapConsistent'
  BY <1>12 DEF SetAssign, HandlersConsistent, MutualExclusion, InLock
<1>13. ASSUME NEW i \in Handlers, SetUnlock(i) PROVE MapConsistent'
  BY <1>13 DEF SetUnlock
<1>14. ASSUME NEW i \in Handlers, GetCopy(i) PROVE MapConsistent'
  BY <1>14 DEF GetCopy
<1>15. ASSUME NEW i \in Handlers, GetReturn(i) PROVE MapConsistent'
  BY <1>15 DEF GetReturn
<1>16. ASSUME NEW i \in Handlers, Reply(i) PROVE MapConsistent'
  BY <1>16 DEF Reply
<1>17. CASE UNCHANGED vars
  BY <1>17 DEF vars
<1> QED
  BY <1>1, <1>2, <1>3, <1>4, <1>5, <1>6, <1>7, <1>8, <1>9,
     <1>10, <1>11, <1>12, <1>13, <1>14, <1>15, <1>16, <1>17 DEF Next, Lifecycle, HandlerStep

\* While a get holds the lock, the map does not change.
LEMMA NextCopyConsistent == IInv /\ [Next]_vars => CopyConsistent'
<1> SUFFICES ASSUME IInv, [Next]_vars PROVE CopyConsistent'
  OBVIOUS
<1> USE RpcServerAssumption DEF IInv, TypeOK, HandlerState, Idle, CopyConsistent, Keys
<1>1. CASE Start
  BY <1>1 DEF Start
<1>2. CASE Signal
  BY <1>2 DEF Signal
<1>3. CASE BeginShutdown
  BY <1>3 DEF BeginShutdown
<1>4. CASE FinishShutdown
  BY <1>4 DEF FinishShutdown, EmptyMap
<1>5. CASE Crash
  BY <1>5 DEF Crash, EmptyMap
<1>6. ASSUME NEW a \in Agents, NEW i \in Handlers, AgentSend(a, i) PROVE CopyConsistent'
  BY <1>6 DEF AgentSend
<1>7. ASSUME NEW a \in Agents, AgentUnreachable(a) PROVE CopyConsistent'
  BY <1>7 DEF AgentUnreachable
<1>8. ASSUME NEW p \in Pollers, NEW i \in Handlers, PollerSend(p, i) PROVE CopyConsistent'
  BY <1>8 DEF PollerSend
<1>9. ASSUME NEW c \in Agents \cup Pollers, Abandon(c) PROVE CopyConsistent'
  BY <1>9 DEF Abandon
<1>10. ASSUME NEW i \in Handlers, Lock(i) PROVE CopyConsistent'
  BY <1>10 DEF Lock, HandlersConsistent
<1>11. ASSUME NEW i \in Handlers, SetInsert(i) PROVE CopyConsistent'
  BY <1>11 DEF SetInsert, MutualExclusion, InLock
<1>12. ASSUME NEW i \in Handlers, SetAssign(i) PROVE CopyConsistent'
  BY <1>12 DEF SetAssign, MutualExclusion, InLock
<1>13. ASSUME NEW i \in Handlers, SetUnlock(i) PROVE CopyConsistent'
  BY <1>13 DEF SetUnlock
<1>14. ASSUME NEW i \in Handlers, GetCopy(i) PROVE CopyConsistent'
  BY <1>14 DEF GetCopy
<1>15. ASSUME NEW i \in Handlers, GetReturn(i) PROVE CopyConsistent'
  BY <1>15 DEF GetReturn
<1>16. ASSUME NEW i \in Handlers, Reply(i) PROVE CopyConsistent'
  BY <1>16 DEF Reply
<1>17. CASE UNCHANGED vars
  BY <1>17 DEF vars
<1> QED
  BY <1>1, <1>2, <1>3, <1>4, <1>5, <1>6, <1>7, <1>8, <1>9,
     <1>10, <1>11, <1>12, <1>13, <1>14, <1>15, <1>16, <1>17 DEF Next, Lifecycle, HandlerStep

\* No step takes a reported agent out of the map.
LEMMA NextReportsListed == IInv /\ [Next]_vars => ReportsListed'
<1> SUFFICES ASSUME IInv, [Next]_vars PROVE ReportsListed'
  OBVIOUS
<1> USE RpcServerAssumption DEF IInv, TypeOK, HandlerState, Idle, ReportsListed, Listed, NamesTellApart
<1>1. CASE Start
  BY <1>1 DEF Start
<1>2. CASE Signal
  BY <1>2 DEF Signal
<1>3. CASE BeginShutdown
  BY <1>3 DEF BeginShutdown
<1>4. CASE FinishShutdown
  BY <1>4 DEF FinishShutdown
<1>5. CASE Crash
  BY <1>5 DEF Crash
<1>6. ASSUME NEW a \in Agents, NEW i \in Handlers, AgentSend(a, i) PROVE ReportsListed'
  BY <1>6 DEF AgentSend, HandlersConsistent
<1>7. ASSUME NEW a \in Agents, AgentUnreachable(a) PROVE ReportsListed'
  BY <1>7 DEF AgentUnreachable
<1>8. ASSUME NEW p \in Pollers, NEW i \in Handlers, PollerSend(p, i) PROVE ReportsListed'
  BY <1>8 DEF PollerSend
<1>9. ASSUME NEW c \in Agents \cup Pollers, Abandon(c) PROVE ReportsListed'
  BY <1>9 DEF Abandon
<1>10. ASSUME NEW i \in Handlers, Lock(i) PROVE ReportsListed'
  BY <1>10 DEF Lock
<1>11. ASSUME NEW i \in Handlers, SetInsert(i) PROVE ReportsListed'
  BY <1>11 DEF SetInsert, Names
<1>12. ASSUME NEW i \in Handlers, SetAssign(i) PROVE ReportsListed'
  BY <1>12 DEF SetAssign, HandlersConsistent, Names
<1>13. ASSUME NEW i \in Handlers, SetUnlock(i) PROVE ReportsListed'
  BY <1>13 DEF SetUnlock
<1>14. ASSUME NEW i \in Handlers, GetCopy(i) PROVE ReportsListed'
  BY <1>14 DEF GetCopy
<1>15. ASSUME NEW i \in Handlers, GetReturn(i) PROVE ReportsListed'
  BY <1>15 DEF GetReturn, HandlersConsistent
<1>16. ASSUME NEW i \in Handlers, Reply(i) PROVE ReportsListed'
  BY <1>16 DEF Reply, HandlersConsistent, CallsConsistent
<1>17. CASE UNCHANGED vars
  BY <1>17 DEF vars
<1> QED
  BY <1>1, <1>2, <1>3, <1>4, <1>5, <1>6, <1>7, <1>8, <1>9,
     <1>10, <1>11, <1>12, <1>13, <1>14, <1>15, <1>16, <1>17 DEF Next, Lifecycle, HandlerStep

\* A get copies real samples only.
LEMMA NextResponsesAreReal == IInv /\ [Next]_vars => ResponsesAreReal'
<1> SUFFICES ASSUME IInv, [Next]_vars PROVE ResponsesAreReal'
  OBVIOUS
<1> USE RpcServerAssumption DEF IInv, TypeOK, HandlerState, Idle, ResponsesAreReal
<1>1. CASE Start
  BY <1>1 DEF Start
<1>2. CASE Signal
  BY <1>2 DEF Signal
<1>3. CASE BeginShutdown
  BY <1>3 DEF BeginShutdown
<1>4. CASE FinishShutdown
  BY <1>4 DEF FinishShutdown
<1>5. CASE Crash
  BY <1>5 DEF Crash
<1>6. ASSUME NEW a \in Agents, NEW i \in Handlers, AgentSend(a, i) PROVE ResponsesAreReal'
  BY <1>6 DEF AgentSend, Sample
<1>7. ASSUME NEW a \in Agents, AgentUnreachable(a) PROVE ResponsesAreReal'
  BY <1>7 DEF AgentUnreachable, Sample
<1>8. ASSUME NEW p \in Pollers, NEW i \in Handlers, PollerSend(p, i) PROVE ResponsesAreReal'
  BY <1>8 DEF PollerSend
<1>9. ASSUME NEW c \in Agents \cup Pollers, Abandon(c) PROVE ResponsesAreReal'
  BY <1>9 DEF Abandon
<1>10. ASSUME NEW i \in Handlers, Lock(i) PROVE ResponsesAreReal'
  BY <1>10 DEF Lock
<1>11. ASSUME NEW i \in Handlers, SetInsert(i) PROVE ResponsesAreReal'
  BY <1>11 DEF SetInsert
<1>12. ASSUME NEW i \in Handlers, SetAssign(i) PROVE ResponsesAreReal'
  BY <1>12 DEF SetAssign
<1>13. ASSUME NEW i \in Handlers, SetUnlock(i) PROVE ResponsesAreReal'
  BY <1>13 DEF SetUnlock
<1>14. ASSUME NEW i \in Handlers, GetCopy(i) PROVE ResponsesAreReal'
  BY <1>14 DEF GetCopy, MapConsistent, CopyConsistent, MutualExclusion, InLock, Keys
<1>15. ASSUME NEW i \in Handlers, GetReturn(i) PROVE ResponsesAreReal'
  BY <1>15 DEF GetReturn
<1>16. ASSUME NEW i \in Handlers, Reply(i) PROVE ResponsesAreReal'
  BY <1>16 DEF Reply
<1>17. CASE UNCHANGED vars
  BY <1>17 DEF vars
<1> QED
  BY <1>1, <1>2, <1>3, <1>4, <1>5, <1>6, <1>7, <1>8, <1>9,
     <1>10, <1>11, <1>12, <1>13, <1>14, <1>15, <1>16, <1>17 DEF Next, Lifecycle, HandlerStep

\* Together: the invariant is inductive.
THEOREM Invariance == Spec => []IInv
<1>1. IInv /\ [Next]_vars => IInv'
  BY NextTypeOK, NextHandlersConsistent, NextCallsConsistent, NextMutualExclusion, NextMapConsistent,
     NextCopyConsistent, NextReportsListed, NextResponsesAreReal DEF IInv
<1> QED
  BY InitIInv, <1>1, PTL DEF Spec

\* The types of the state of RpcServer.
THEOREM TypeCorrect == Spec => []TypeOK
<1>1. IInv => TypeOK
  BY DEF IInv
<1> QED
  BY Invariance, <1>1, PTL

\* mtx_ protects the map: one handler at a time touches it.
THEOREM LockExcludes == Spec => [](\A i, j \in Handlers : InLock(i) /\ InLock(j) => i = j)
<1>1. IInv => \A i, j \in Handlers : InLock(i) /\ InLock(j) => i = j
  BY DEF IInv, MutualExclusion
<1> QED
  BY Invariance, <1>1, PTL

\* GetMonitorInfo returns samples that agents sent, and nothing else.
THEOREM ResponsesReal == Spec => []ResponsesAreReal
<1>1. IInv => ResponsesAreReal
  BY DEF IInv
<1> QED
  BY Invariance, <1>1, PTL

\* If user names tell agents apart, every agent answered OK is in the table.
THEOREM AckedAgentsListed == ASSUME NamesTellApart PROVE Spec => []AckedAgentListed
<1>1. IInv => AckedAgentListed
  <2> SUFFICES ASSUME IInv, NEW a \in acked
               PROVE  \E n \in Names : monitor_infos_map_[n] \in Sample /\ monitor_infos_map_[n].agent = a
    BY DEF AckedAgentListed
  <2>1. Listed(a) /\ a \in Agents
    BY NamesTellApart DEF IInv, ReportsListed, TypeOK
  <2> QED
    BY <2>1 DEF Listed, Names
<1> QED
  BY Invariance, <1>1, PTL

\* Only a handler that its caller has given up puts an older sample back.
THEOREM LateHandlersOnly == Spec => OnlyAbandonedRegress
<1>1. IInv /\ [Next]_vars => [RegressIsLate]_vars
  <2> SUFFICES ASSUME IInv, [Next]_vars, NEW n \in Names, Regresses(n)
               PROVE  \E i \in Handlers : handler[i].pc = "assign" /\ ~handler[i].live
    BY DEF RegressIsLate
  <2> USE DEF Regresses, IInv, TypeOK
  <2>1. monitor_infos_map_'[n] # monitor_infos_map_[n]
    BY DEF Sample
  <2>2. PICK i \in Handlers : SetInsert(i) \/ SetAssign(i)
    BY <2>1, RpcServerAssumption DEF Next, Lifecycle, HandlerStep, Start, Signal, BeginShutdown, FinishShutdown, Crash, EmptyMap,
       AgentSend, AgentUnreachable, PollerSend, Abandon, Lock, SetUnlock, GetCopy, GetReturn, Reply, vars
  <2>3. SetAssign(i)
    BY <2>1, <2>2, RpcServerAssumption DEF SetInsert, Sample
  <2>4. monitor_infos_map_'[n] = handler[i].req /\ handler[i].kind = "set"
    BY <2>1, <2>3 DEF SetAssign, HandlersConsistent, Idle
  <2>5. handler[i].req.seq < seq[handler[i].caller]
    BY <2>4 DEF HandlersConsistent, MapConsistent, Sample
  <2> QED
    BY <2>3, <2>4, <2>5 DEF SetAssign, CallsConsistent, HandlersConsistent, Sample
<1> QED
  BY Invariance, <1>1, PTL DEF Spec, OnlyAbandonedRegress

\* Steps the atomic table does not see.
LEMMA StutterSteps ==
    ASSUME IInv, handler' = handler, monitor_infos_map_' = monitor_infos_map_
    PROVE  UNCHANGED Store!vars
BY DEF Store!vars, AbstractStore, AbstractOps

\* A step of one handler that leaves the map as it is changes one operation.
LEMMA OneHandler ==
    ASSUME IInv, NEW i \in Handlers, handler' \in [Handlers -> HandlerState],
           \A j \in Handlers \ {i} : handler'[j] = handler[j]
    PROVE  AbstractOps' = [AbstractOps EXCEPT ![i] = AbstractOp(handler'[i])]
BY DEF AbstractOps

\* The service implements the atomic table of AtomicStore.
THEOREM Refinement == Spec => ImplementsAtomicStore
<1>1. Init => Store!Init
  BY RpcServerAssumption DEF Init, Store!Init, Store!Empty, Store!None, AbstractStore, AbstractOps, AbstractOp, Idle, EmptyMap
<1>2. IInv /\ [Next]_vars => [Store!Next]_(Store!vars)
  <2> SUFFICES ASSUME IInv, [Next]_vars PROVE Store!Next \/ UNCHANGED Store!vars
    OBVIOUS
  <2> USE RpcServerAssumption
  <2>0. TypeOK'
    BY NextTypeOK
  <2>1. CASE Start \/ Signal \/ BeginShutdown \/ UNCHANGED vars \/ \E a \in Agents : AgentUnreachable(a)
    BY <2>1, StutterSteps DEF Start, Signal, BeginShutdown, AgentUnreachable, vars
  <2>2. CASE FinishShutdown \/ Crash
    BY <2>2 DEF FinishShutdown, Crash, Store!Next, Store!Forget, Store!Empty, Store!None,
                AbstractStore, AbstractOps, AbstractOp, Idle, EmptyMap
  <2>3. ASSUME NEW a \in Agents, NEW i \in Handlers, AgentSend(a, i) PROVE Store!CallSet(i)
    <3>1. AbstractOps' = [AbstractOps EXCEPT ![i] = AbstractOp(handler'[i])]
      BY <2>0, <2>3, OneHandler DEF AgentSend, TypeOK, IInv
    <3>2. AbstractStore' = AbstractStore
      BY <2>3 DEF AgentSend, AbstractStore
    <3>3. AbstractOps[i] = Store!None
      BY <2>3 DEF AgentSend, AbstractOps, AbstractOp, Idle, Store!None
    <3>4. NameOf[a] \in Names /\ [agent |-> a, seq |-> seq[a] + 1] \in Sample
      BY <2>3 DEF AgentSend, Names, Sample, IInv, TypeOK
    <3>5. /\ handler'[i].kind = "set" /\ handler'[i].pc = "entry"
          /\ handler'[i].req = [agent |-> a, seq |-> seq[a] + 1]
      BY <2>3 DEF AgentSend, IInv, TypeOK, Idle
    <3>6. AbstractOp(handler'[i]) = [st |-> "pending", kind |-> "set", name |-> NameOf[a],
                                     val |-> [agent |-> a, seq |-> seq[a] + 1], resp |-> {}]
      BY <3>5 DEF AbstractOp
    <3> QED
      BY <3>1, <3>2, <3>3, <3>4, <3>6 DEF Store!CallSet
  <2>4. ASSUME NEW p \in Pollers, NEW i \in Handlers, PollerSend(p, i) PROVE Store!CallGet(i)
    <3>1. AbstractOps' = [AbstractOps EXCEPT ![i] = AbstractOp(handler'[i])]
      BY <2>0, <2>4, OneHandler DEF PollerSend, TypeOK, IInv
    <3>2. AbstractStore' = AbstractStore
      BY <2>4 DEF PollerSend, AbstractStore
    <3>3. AbstractOps[i] = Store!None
      BY <2>4 DEF PollerSend, AbstractOps, AbstractOp, Idle, Store!None
    <3>4. AbstractOp(handler'[i]) = [st |-> "pending", kind |-> "get", name |-> Absent, val |-> Absent, resp |-> {}]
      BY <2>4 DEF PollerSend, AbstractOp, Idle, IInv, TypeOK
    <3> QED
      BY <3>1, <3>2, <3>3, <3>4 DEF Store!CallGet
  <2>5. ASSUME NEW c \in Agents \cup Pollers, Abandon(c) PROVE UNCHANGED Store!vars
    <3>1. call[c] \in Handlers
      BY <2>5 DEF Abandon, IInv, TypeOK
    <3>2. handler' = [handler EXCEPT ![call[c]] = [handler[call[c]] EXCEPT !.live = FALSE]]
      BY <2>5, <3>1 DEF Abandon
    <3>3. \A j \in Handlers : /\ handler'[j].pc = handler[j].pc /\ handler'[j].kind = handler[j].kind
                              /\ handler'[j].req = handler[j].req /\ handler'[j].resp = handler[j].resp
      BY <3>1, <3>2 DEF IInv, TypeOK, HandlerState
    <3>4. AbstractOps' = AbstractOps
      BY <3>3 DEF AbstractOps, AbstractOp
    <3> QED
      BY <2>5, <3>4 DEF Abandon, AbstractStore, Store!vars
  <2>6. ASSUME NEW i \in Handlers, Lock(i) \/ SetUnlock(i) \/ GetCopy(i) PROVE UNCHANGED Store!vars
    <3>1. AbstractOps' = [AbstractOps EXCEPT ![i] = AbstractOp(handler'[i])]
      BY <2>0, <2>6, OneHandler DEF Lock, SetUnlock, GetCopy, TypeOK, IInv
    <3>2. /\ handler'[i].kind = handler[i].kind /\ handler'[i].req = handler[i].req
          /\ Lock(i) => handler[i].pc = "entry" /\ handler'[i].pc \in {"insert", "copy"}
          /\ GetCopy(i) => handler[i].pc = "copy" /\ handler'[i].pc = "copy"
          /\ SetUnlock(i) => /\ handler[i].pc = "unlock" /\ handler'[i].pc = "reply"
                             /\ handler'[i].resp = handler[i].resp
      <4> USE DEF TypeOK, IInv, HandlerState
      <4>1. CASE Lock(i)
        BY <4>1 DEF Lock, SetUnlock, GetCopy
      <4>2. CASE SetUnlock(i)
        BY <4>2 DEF Lock, SetUnlock, GetCopy
      <4>3. CASE GetCopy(i)
        <5>1. /\ handler'[i].kind = handler[i].kind /\ handler'[i].req = handler[i].req
              /\ handler[i].pc = "copy" /\ handler'[i].pc = "copy"
          BY <4>3 DEF GetCopy
        <5> QED
          BY <5>1 DEF Lock, SetUnlock
      <4> QED
        BY <2>6, <4>1, <4>2, <4>3
    <3>3. SetUnlock(i) => handler[i].resp = {}
      BY <3>2 DEF IInv, HandlersConsistent
    <3> HIDE DEF IInv
    <3>5. AbstractOp(handler'[i]) = AbstractOp(handler[i])
      BY <2>6, <3>2, <3>3 DEF AbstractOp
    <3>4. AbstractOps' = AbstractOps
      BY <3>1, <3>5 DEF AbstractOps
    <3> QED
      BY <2>6, <3>4 DEF Lock, SetUnlock, GetCopy, AbstractStore, Store!vars
  <2>7. ASSUME NEW i \in Handlers, SetInsert(i) PROVE UNCHANGED Store!vars
    <3>1. AbstractOps' = [AbstractOps EXCEPT ![i] = AbstractOp(handler'[i])]
      BY <2>0, <2>7, OneHandler DEF SetInsert, TypeOK, IInv
    <3>2. AbstractOp(handler'[i]) = AbstractOp(handler[i])
      BY <2>7 DEF SetInsert, AbstractOp, TypeOK, IInv, HandlerState
    <3>3. AbstractOps' = AbstractOps
      BY <3>1, <3>2 DEF AbstractOps
    <3>4. AbstractStore' = AbstractStore
      BY <2>7 DEF SetInsert, AbstractStore, TypeOK, IInv
    <3> QED
      BY <3>3, <3>4 DEF Store!vars
  <2>8. ASSUME NEW i \in Handlers, SetAssign(i) PROVE Store!ApplySet(i)
    <3>1. AbstractOps' = [AbstractOps EXCEPT ![i] = AbstractOp(handler'[i])]
      BY <2>0, <2>8, OneHandler DEF SetAssign, TypeOK, IInv
    <3>2. handler[i].kind = "set" /\ handler[i].req \in Sample /\ handler[i].req.agent \in Agents
      BY <2>8 DEF SetAssign, IInv, HandlersConsistent, Idle
    <3>3. AbstractOps[i] = [st |-> "pending", kind |-> "set", name |-> NameOf[handler[i].req.agent],
                            val |-> handler[i].req, resp |-> {}]
      BY <2>8, <3>2 DEF SetAssign, AbstractOps, AbstractOp
    <3>6. handler'[i].pc = "unlock" /\ handler'[i].kind = "set" /\ handler'[i].req = handler[i].req
      BY <2>8, <3>2 DEF SetAssign, TypeOK, IInv, HandlerState
    <3>4. AbstractOp(handler'[i]) = [AbstractOps[i] EXCEPT !.st = "done"]
      BY <3>3, <3>6 DEF AbstractOp
    <3>5. AbstractStore' = [AbstractStore EXCEPT ![NameOf[handler[i].req.agent]] = handler[i].req]
      BY <2>8, <3>2 DEF SetAssign, AbstractStore, TypeOK, IInv, Names
    <3> QED
      BY <3>1, <3>3, <3>4, <3>5 DEF Store!ApplySet
  <2>9. ASSUME NEW i \in Handlers, GetReturn(i) PROVE Store!ApplyGet(i)
    <3>1. AbstractOps' = [AbstractOps EXCEPT ![i] = AbstractOp(handler'[i])]
      BY <2>0, <2>9, OneHandler DEF GetReturn, TypeOK, IInv
    <3>2. handler[i].kind = "get" /\ handler[i].req = Absent
      BY <2>9 DEF GetReturn, IInv, HandlersConsistent, Idle
    <3>3. AbstractOps[i] = [st |-> "pending", kind |-> "get", name |-> Absent, val |-> Absent, resp |-> {}]
      BY <2>9, <3>2 DEF GetReturn, AbstractOps, AbstractOp
    <3>4. handler[i].resp = {monitor_infos_map_[n] : n \in Keys}
      BY <2>9 DEF GetReturn, IInv, CopyConsistent
    <3>5. \A n \in Names : monitor_infos_map_[n] # Default
      BY <2>9 DEF GetReturn, IInv, MapConsistent, MutualExclusion, InLock
    <3>6. AbstractStore = monitor_infos_map_
      BY <3>5 DEF AbstractStore, IInv, TypeOK
    <3>7. handler[i].resp = Store!Contents
      BY <3>4, <3>6 DEF Store!Contents, Keys
    <3>8. AbstractOp(handler'[i]) = [st |-> "done", kind |-> "get", name |-> Absent, val |-> Absent, resp |-> Store!Contents]
      BY <2>9, <3>2, <3>7 DEF GetReturn, AbstractOp, TypeOK, IInv, HandlerState
    <3>9. AbstractStore' = AbstractStore
      BY <2>9 DEF GetReturn, AbstractStore
    <3> QED
      BY <3>1, <3>3, <3>8, <3>9 DEF Store!ApplyGet
  <2>10. ASSUME NEW i \in Handlers, Reply(i) PROVE Store!Return(i)
    <3>1. AbstractOps' = [AbstractOps EXCEPT ![i] = AbstractOp(handler'[i])]
      BY <2>0, <2>10, OneHandler DEF Reply, TypeOK, IInv
    <3>2. handler'[i] = Idle
      BY <2>10 DEF Reply, TypeOK, IInv
    <3>3. AbstractOp(handler'[i]) = Store!None
      BY <3>2 DEF AbstractOp, Idle, Store!None
    <3>4. handler[i].kind # "none"
      BY <2>10 DEF Reply, IInv, HandlersConsistent
    <3>5. AbstractOps[i].st = "done"
      BY <2>10, <3>4 DEF Reply, AbstractOps, AbstractOp
    <3>6. AbstractStore' = AbstractStore
      BY <2>10 DEF Reply, AbstractStore
    <3> QED
      BY <3>1, <3>3, <3>5, <3>6 DEF Store!Return
  <2> QED
    BY <2>1, <2>2, <2>3, <2>4, <2>5, <2>6, <2>7, <2>8, <2>9, <2>10 DEF Next, Lifecycle, HandlerStep, Store!Next
<1> QED
  BY Invariance, <1>1, <1>2, PTL DEF Spec, ImplementsAtomicStore, Store!Spec
==============================================================================
