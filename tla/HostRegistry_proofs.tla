------------------------ MODULE HostRegistry_proofs ------------------------
(***************************************************************************)
(* The safety invariants of HostRegistry, for any number of ingesters,     *)
(* hosts, seconds and faults.                                              *)
(***************************************************************************)
EXTENDS HostRegistry, TLAPS

\* At the start no id is cached and nothing is being created.
LEMMA InitIInv == Init => IInv
<1> SUFFICES ASSUME Init PROVE IInv
  OBVIOUS
<1> USE HostRegistryAssumption DEF Init
<1>1. TypeOK
  BY DEF TypeOK, EmptyCache
<1>2. CallConsistent
  BY DEF CallConsistent
<1>3. CacheSound
  BY DEF CacheSound, EmptyCache
<1>4. UniqueUnlessRaced
  BY DEF UniqueUnlessRaced, RowsOf
<1>5. SoleCreator
  BY DEF SoleCreator, Creating
<1> QED
  BY <1>1, <1>2, <1>3, <1>4, <1>5 DEF IInv

\* Every step keeps the types.
LEMMA NextTypeOK == IInv /\ [Next]_vars => TypeOK'
<1> SUFFICES ASSUME IInv, [Next]_vars PROVE TypeOK'
  OBVIOUS
<1> USE HostRegistryAssumption DEF IInv, TypeOK
<1>1. ASSUME NEW c \in Clients, NEW n \in Names, Call(c, n) PROVE TypeOK'
  BY <1>1 DEF Call
<1>2. ASSUME NEW c \in Clients, SelectHit(c) PROVE TypeOK'
  <2>1. host_name[c] \in Names
    BY <1>2 DEF SelectHit, CallConsistent
  <2> QED
    BY <1>2, <2>1 DEF SelectHit, Return, RowsOf
<1>3. ASSUME NEW c \in Clients, SelectMiss(c) PROVE TypeOK'
  BY <1>3 DEF SelectMiss, CallConsistent
<1>4. ASSUME NEW c \in Clients, SelectFail(c) PROVE TypeOK'
  BY <1>4 DEF SelectFail, Fault, CallConsistent
<1>5. ASSUME NEW c \in Clients, SendInsert(c) PROVE TypeOK'
  BY <1>5 DEF SendInsert, CallConsistent, HostId
<1>6. ASSUME NEW c \in Clients, ExecInsert(c) PROVE TypeOK'
  BY <1>6 DEF ExecInsert, CallConsistent
<1>7. ASSUME NEW c \in Clients, InsertOk(c) PROVE TypeOK'
  BY <1>7 DEF InsertOk, Return, CallConsistent
<1>8. ASSUME NEW c \in Clients, InsertDuplicate(c) PROVE TypeOK'
  BY <1>8 DEF InsertDuplicate, Return
<1>9. ASSUME NEW c \in Clients, InsertRejected(c) PROVE TypeOK'
  BY <1>9 DEF InsertRejected, Return, Fault
<1>10. ASSUME NEW c \in Clients, InsertLost(c) PROVE TypeOK'
  BY <1>10 DEF InsertLost, Return, Fault, CallConsistent
<1>11. ASSUME NEW c \in Clients, Crash(c) PROVE TypeOK'
  BY <1>11 DEF Crash, Return, Fault, CallConsistent, EmptyCache
<1>12. CASE Orphan
  BY <1>12 DEF Orphan
<1>13. CASE Tick
  BY <1>13 DEF Tick
<1>14. CASE UNCHANGED vars
  BY <1>14 DEF vars
<1> QED
  BY <1>1, <1>2, <1>3, <1>4, <1>5, <1>6, <1>7, <1>8, <1>9, <1>10, <1>11, <1>12, <1>13, <1>14
  DEF Next, Progress, Failure

\* Every step keeps what a call knows.
LEMMA NextCallConsistent == IInv /\ [Next]_vars => CallConsistent'
<1> SUFFICES ASSUME IInv, [Next]_vars PROVE CallConsistent'
  OBVIOUS
<1> USE HostRegistryAssumption DEF IInv, CallConsistent, TypeOK
<1>1. ASSUME NEW c \in Clients, NEW n \in Names, Call(c, n) PROVE CallConsistent'
  BY <1>1 DEF Call
<1>2. ASSUME NEW c \in Clients, SelectHit(c) PROVE CallConsistent'
  BY <1>2 DEF SelectHit, Return
<1>3. ASSUME NEW c \in Clients, SelectMiss(c) PROVE CallConsistent'
  BY <1>3 DEF SelectMiss
<1>4. ASSUME NEW c \in Clients, SelectFail(c) PROVE CallConsistent'
  BY <1>4 DEF SelectFail, Fault
<1>5. ASSUME NEW c \in Clients, SendInsert(c) PROVE CallConsistent'
  BY <1>5 DEF SendInsert, HostId
<1>6. ASSUME NEW c \in Clients, ExecInsert(c) PROVE CallConsistent'
  BY <1>6 DEF ExecInsert
<1>7. ASSUME NEW c \in Clients, InsertOk(c) PROVE CallConsistent'
  BY <1>7 DEF InsertOk, Return
<1>8. ASSUME NEW c \in Clients, InsertDuplicate(c) PROVE CallConsistent'
  BY <1>8 DEF InsertDuplicate, Return
<1>9. ASSUME NEW c \in Clients, InsertRejected(c) PROVE CallConsistent'
  BY <1>9 DEF InsertRejected, Return
<1>10. ASSUME NEW c \in Clients, InsertLost(c) PROVE CallConsistent'
  BY <1>10 DEF InsertLost, Return
<1>11. ASSUME NEW c \in Clients, Crash(c) PROVE CallConsistent'
  BY <1>11 DEF Crash, Return, EmptyCache
<1>12. CASE Orphan
  BY <1>12 DEF Orphan
<1>13. CASE Tick
  BY <1>13 DEF Tick
<1>14. CASE UNCHANGED vars
  BY <1>14 DEF vars
<1> QED
  BY <1>1, <1>2, <1>3, <1>4, <1>5, <1>6, <1>7, <1>8, <1>9, <1>10, <1>11, <1>12, <1>13, <1>14
  DEF Next, Progress, Failure

\* A row, once there, stays; so does a cached id, which therefore stays sound.
LEMMA NextCacheSound == IInv /\ [Next]_vars => CacheSound'
<1> SUFFICES ASSUME IInv, [Next]_vars PROVE CacheSound'
  OBVIOUS
<1> USE HostRegistryAssumption DEF IInv, CacheSound, RowsOf, TypeOK
<1>1. ASSUME NEW c \in Clients, NEW n \in Names, Call(c, n) PROVE CacheSound'
  BY <1>1 DEF Call
<1>2. ASSUME NEW c \in Clients, SelectHit(c) PROVE CacheSound'
  BY <1>2 DEF SelectHit, Return, CallConsistent
<1>3. ASSUME NEW c \in Clients, SelectMiss(c) PROVE CacheSound'
  BY <1>3 DEF SelectMiss
<1>4. ASSUME NEW c \in Clients, SelectFail(c) PROVE CacheSound'
  BY <1>4 DEF SelectFail, Fault
<1>5. ASSUME NEW c \in Clients, SendInsert(c) PROVE CacheSound'
  BY <1>5 DEF SendInsert
<1>6. ASSUME NEW c \in Clients, ExecInsert(c) PROVE CacheSound'
  BY <1>6 DEF ExecInsert
<1>7. ASSUME NEW c \in Clients, InsertOk(c) PROVE CacheSound'
  BY <1>7 DEF InsertOk, Return, CallConsistent
<1>8. ASSUME NEW c \in Clients, InsertDuplicate(c) PROVE CacheSound'
  BY <1>8 DEF InsertDuplicate, Return
<1>9. ASSUME NEW c \in Clients, InsertRejected(c) PROVE CacheSound'
  BY <1>9 DEF InsertRejected, Return
<1>10. ASSUME NEW c \in Clients, InsertLost(c) PROVE CacheSound'
  BY <1>10 DEF InsertLost, Return
<1>11. ASSUME NEW c \in Clients, Crash(c) PROVE CacheSound'
  BY <1>11 DEF Crash, Return, EmptyCache
<1>12. CASE Orphan
  BY <1>12 DEF Orphan
<1>13. CASE Tick
  BY <1>13 DEF Tick
<1>14. CASE UNCHANGED vars
  BY <1>14 DEF vars
<1> QED
  BY <1>1, <1>2, <1>3, <1>4, <1>5, <1>6, <1>7, <1>8, <1>9, <1>10, <1>11, <1>12, <1>13, <1>14
  DEF Next, Progress, Failure

\* The part of SoleCreator about one name.
SoleCreatorOf(n) ==
    /\ \A c, d \in Clients : Creating(c, n) /\ Creating(d, n) => c = d
    /\ \A c \in Clients : Creating(c, n) => RowsOf(n) = {} /\ \A id \in orphans : id.name # n
    /\ \A id \in orphans : id.name = n => RowsOf(n) = {}
    /\ \A id1, id2 \in orphans : id1.name = n /\ id2.name = n => id1 = id2

\* The only step that starts a creation without racing is a SELECT that finds
\* nobody else at it.
LEMMA NextSoleCreator == IInv /\ [Next]_vars => SoleCreator'
<1> SUFFICES ASSUME IInv, [Next]_vars, NEW n \in Names \ raced' PROVE SoleCreatorOf(n)'
  BY DEF SoleCreator, SoleCreatorOf
<1> raced \subseteq raced'
  BY DEF Next, Progress, Failure, Call, SelectHit, SelectMiss, SelectFail, SendInsert, ExecInsert, InsertOk,
         InsertDuplicate, InsertRejected, InsertLost, Crash, Orphan, Tick, vars
<1> SoleCreatorOf(n)
  BY DEF IInv, SoleCreator, SoleCreatorOf
<1> USE HostRegistryAssumption DEF IInv, TypeOK, SoleCreatorOf, Creating, RowsOf
<1>1. ASSUME NEW c \in Clients, NEW m \in Names, Call(c, m) PROVE SoleCreatorOf(n)'
  BY <1>1 DEF Call
<1>2. ASSUME NEW c \in Clients, SelectHit(c) PROVE SoleCreatorOf(n)'
  BY <1>2 DEF SelectHit, Return
<1>3. ASSUME NEW c \in Clients, SelectMiss(c) PROVE SoleCreatorOf(n)'
  BY <1>3 DEF SelectMiss, Contended
<1>4. ASSUME NEW c \in Clients, SelectFail(c) PROVE SoleCreatorOf(n)'
  BY <1>4 DEF SelectFail, Fault
<1>5. ASSUME NEW c \in Clients, SendInsert(c) PROVE SoleCreatorOf(n)'
  BY <1>5 DEF SendInsert
<1>6. ASSUME NEW c \in Clients, ExecInsert(c) PROVE SoleCreatorOf(n)'
  BY <1>6 DEF ExecInsert, CallConsistent
<1>7. ASSUME NEW c \in Clients, InsertOk(c) PROVE SoleCreatorOf(n)'
  BY <1>7 DEF InsertOk, Return
<1>8. ASSUME NEW c \in Clients, InsertDuplicate(c) PROVE SoleCreatorOf(n)'
  BY <1>8 DEF InsertDuplicate, Return
<1>9. ASSUME NEW c \in Clients, InsertRejected(c) PROVE SoleCreatorOf(n)'
  BY <1>9 DEF InsertRejected, Return
<1>10. ASSUME NEW c \in Clients, InsertLost(c) PROVE SoleCreatorOf(n)'
  BY <1>10 DEF InsertLost, Return, CallConsistent
<1>11. ASSUME NEW c \in Clients, Crash(c) PROVE SoleCreatorOf(n)'
  BY <1>11 DEF Crash, Return, CallConsistent
<1>12. CASE Orphan
  BY <1>12 DEF Orphan
<1>13. CASE Tick
  BY <1>13 DEF Tick
<1>14. CASE UNCHANGED vars
  BY <1>14 DEF vars
<1> QED
  BY <1>1, <1>2, <1>3, <1>4, <1>5, <1>6, <1>7, <1>8, <1>9, <1>10, <1>11, <1>12, <1>13, <1>14
  DEF Next, Progress, Failure

\* A row is inserted only by a creator or an orphan, when there is none yet.
LEMMA NextUniqueUnlessRaced == IInv /\ [Next]_vars => UniqueUnlessRaced'
<1> SUFFICES ASSUME IInv, [Next]_vars, NEW n \in Names \ raced',
                    NEW id1 \in RowsOf(n)', NEW id2 \in RowsOf(n)'
             PROVE  id1 = id2
  BY DEF UniqueUnlessRaced
<1> raced \subseteq raced'
  BY DEF Next, Progress, Failure, Call, SelectHit, SelectMiss, SelectFail, SendInsert, ExecInsert, InsertOk,
         InsertDuplicate, InsertRejected, InsertLost, Crash, Orphan, Tick, vars
<1> USE HostRegistryAssumption DEF IInv, TypeOK, RowsOf, UniqueUnlessRaced
<1>1. CASE host_info' = host_info
  BY <1>1
<1>2. ASSUME NEW c \in Clients, ExecInsert(c) PROVE id1 = id2
  <2>1. Creating(c, host_name[c])
    BY <1>2 DEF ExecInsert, Creating
  <2>2. new_host_id[c].name = host_name[c]
    BY <1>2 DEF ExecInsert, CallConsistent
  <2>3. CASE host_name[c] = n
    <3>1. RowsOf(n) = {}
      BY <2>1, <2>3 DEF SoleCreator
    <3> QED
      BY <1>2, <3>1 DEF ExecInsert
  <2>4. CASE host_name[c] # n
    BY <1>2, <2>2, <2>4 DEF ExecInsert
  <2> QED
    BY <2>3, <2>4
<1>3. CASE Orphan
  <2>1. PICK id \in orphans : host_info' \in {host_info, host_info \cup {id}}
    BY <1>3 DEF Orphan
  <2>2. CASE id.name = n
    <3>1. RowsOf(n) = {}
      BY <2>2 DEF SoleCreator
    <3> QED
      BY <2>1, <3>1
  <2>3. CASE id.name # n
    BY <2>1, <2>3
  <2> QED
    BY <2>2, <2>3
<1>4. CASE ~Orphan /\ \A c \in Clients : ~ExecInsert(c)
  <2>1. host_info' = host_info
    BY <1>4 DEF Next, Progress, Failure, Call, SelectHit, SelectMiss, SelectFail, SendInsert, InsertOk,
                InsertDuplicate, InsertRejected, InsertLost, Crash, Tick, vars
  <2> QED
    BY <1>1, <2>1
<1> QED
  BY <1>2, <1>3, <1>4

\* Together: the invariant is inductive.
THEOREM Invariance == Spec => []IInv
<1>1. IInv /\ [Next]_vars => IInv'
  BY NextTypeOK, NextCallConsistent, NextCacheSound, NextUniqueUnlessRaced, NextSoleCreator DEF IInv
<1> QED
  BY InitIInv, <1>1, PTL DEF Spec

\* The types of the state of HostRegistry.
THEOREM TypeCorrect == Spec => []TypeOK
<1>1. IInv => TypeOK
  BY DEF IInv
<1> QED
  BY Invariance, <1>1, PTL

\* getOrCreateHostId caches only keys of host_info that belong to the host.
THEOREM CacheIsSound == Spec => []CacheSound
<1>1. IInv => CacheSound
  BY DEF IInv
<1> QED
  BY Invariance, <1>1, PTL

\* A host has a second row in host_info only if its creation was raced for.
THEOREM HostsAreUnique == Spec => []UniqueUnlessRaced
<1>1. IInv => UniqueUnlessRaced
  BY DEF IInv
<1> QED
  BY Invariance, <1>1, PTL

\* Hence all ingesters use one id for a host, now and over their restarts: two
\* cached ids of a host that was not raced for are the same.
Agreement ==
    \A n \in Names \ raced : \A c, d \in Clients :
       host_id_cache_[c][n] # NoId /\ host_id_cache_[d][n] # NoId => host_id_cache_[c][n] = host_id_cache_[d][n]

\* Ingesters agree on the ids of the hosts that were not raced for.
THEOREM IngestersAgree == Spec => []Agreement
<1>1. IInv => Agreement
  BY DEF IInv, CacheSound, UniqueUnlessRaced, Agreement
<1> QED
  BY Invariance, <1>1, PTL

\* As long as nothing has failed nothing is orphaned, and of a single ingester no
\* creation overlaps another.
Undisturbed == faults = 0 => raced = {} /\ orphans = {}

\* The row that host_name should be the key of.
OneRowEach == \A n \in Names : \A id1, id2 \in RowsOf(n) : id1 = id2

\* A single ingester whose statements all succeed does not race with itself.
LEMMA UndisturbedKept ==
    ASSUME \A c, d \in Clients : c = d
    PROVE  IInv /\ Undisturbed /\ [Next]_vars => Undisturbed'
<1> SUFFICES ASSUME IInv, Undisturbed, [Next]_vars, faults' = 0 PROVE raced' = {} /\ orphans' = {}
  BY DEF Undisturbed
<1>1. faults \in Nat
  BY HostRegistryAssumption DEF IInv, TypeOK
<1>2. ~Fault
  BY <1>1 DEF Fault
<1>3. CASE UNCHANGED <<faults, raced, orphans>>
  BY <1>3 DEF Undisturbed
<1>4. ASSUME NEW c \in Clients, SelectMiss(c) PROVE raced' = {} /\ orphans' = {}
  <2>1. faults = 0 /\ orphans' = orphans
    BY <1>4 DEF SelectMiss
  <2>2. ~Contended(c, host_name[c])
    BY <2>1 DEF Contended, Undisturbed
  <2> QED
    BY <1>4, <2>1, <2>2 DEF SelectMiss, Undisturbed
<1>5. ~Orphan
  <2>1. Orphan => faults = 0
    BY DEF Orphan
  <2> QED
    BY <2>1 DEF Orphan, Undisturbed
<1> QED
  BY <1>2, <1>3, <1>4, <1>5
  DEF Next, Progress, Failure, Call, SelectHit, SelectFail, SendInsert, ExecInsert, InsertOk, InsertDuplicate,
      InsertRejected, InsertLost, Crash, Tick, vars

\* Without a race there is one row.
LEMMA UndisturbedUnique == IInv /\ Undisturbed => (faults = 0 => OneRowEach)
  BY DEF IInv, UniqueUnlessRaced, Undisturbed, OneRowEach

\* With a single ingester it takes a failure to give a host a second row: the
\* three steps of getOrCreateHostId overlap with no others.
THEOREM OneIngesterIsEnough ==
    ASSUME \A c, d \in Clients : c = d
    PROVE  Spec => [](faults = 0 => OneRowEach)
<1>1. Init => Undisturbed
  BY DEF Init, Undisturbed
<1>2. IInv /\ Undisturbed /\ [Next]_vars => Undisturbed'
  BY UndisturbedKept
<1> QED
  BY Invariance, UndisturbedUnique, <1>1, <1>2, PTL DEF Spec
==============================================================================
