------------------------- MODULE PerfClient_proofs -------------------------
(***************************************************************************)
(* The safety properties of PerfClient, for any number of hosts, rows,     *)
(* fetches, seconds and failures.                                          *)
(***************************************************************************)
EXTENDS PerfClient, FiniteSetTheorems, TLAPS

------------------------------------------------------------------------------
(* The registry, with this process as its only client.                     *)

HostIds == [name : Hosts, at : 0 .. MaxTime]

\* The variables of HostRegistry, and what its calls rely on.
RegistryInv == Registry!TypeOK /\ Registry!CallConsistent /\ Registry!CacheSound /\ CallFresh

\* The same, in the terms of the one client.
OneClient ==
    /\ now \in 0 .. MaxTime
    /\ host_info \subseteq HostIds
    /\ orphans \subseteq HostIds
    /\ pc \in [{Ingester} -> {"idle", "select", "make", "insert", "inserted", "duplicate"}]
    /\ host_name \in [{Ingester} -> Hosts \cup {NoId}]
    /\ new_host_id \in [{Ingester} -> HostIds \cup {NoId}]
    /\ host_id_cache_ \in [{Ingester} -> [Hosts -> HostIds \cup {NoId}]]
    /\ faults \in 0 .. MaxFaults
    /\ raced \subseteq Hosts
    /\ pc[Ingester] # "idle" => host_name[Ingester] \in Hosts /\ Cached(host_name[Ingester]) = NoId
    /\ pc[Ingester] \in {"insert", "inserted", "duplicate"} =>
         new_host_id[Ingester] \in HostIds /\ new_host_id[Ingester].name = host_name[Ingester]
    /\ pc[Ingester] \in {"inserted", "duplicate"} => new_host_id[Ingester] \in host_info
    /\ \A h \in Hosts : Cached(h) # NoId => Cached(h) \in host_info /\ Cached(h).name = h

\* The invariant of HostRegistry, written out for its only client.
LEMMA RegistryTerms == /\ RegistryInv <=> OneClient
                       /\ RegistryInv' <=> OneClient'
<1>1. RegistryInv <=> OneClient
  BY DEF RegistryInv, OneClient, Registry!TypeOK, Registry!CallConsistent, Registry!CacheSound, Registry!RowsOf,
         Registry!HostId, HostIds, CallFresh, Cached
<1>2. RegistryInv' <=> OneClient'
  BY DEF RegistryInv, OneClient, Registry!TypeOK, Registry!CallConsistent, Registry!CacheSound, Registry!RowsOf,
         Registry!HostId, HostIds, CallFresh, Cached
<1> QED
  BY <1>1, <1>2

\* What the callers see of a step of the registry: ids that are cached stay, and
\* rows of host_info.
Grows == /\ host_info \subseteq host_info'
         /\ \A h \in Hosts : Cached(h) # NoId => Cached(h)' = Cached(h)

\* A step that returns from the call, with or without an id to cache.
LEMMA ReturnKeepsRegistry ==
    ASSUME OneClient, Registry!Return(Ingester), UNCHANGED <<now, raced>>,
           host_info \subseteq host_info', host_info' \subseteq HostIds, orphans' \subseteq HostIds,
           faults' \in 0 .. MaxFaults,
           \/ host_id_cache_' = host_id_cache_
           \/ /\ pc[Ingester] # "idle"
              /\ \E id \in host_info : id.name = host_name[Ingester] /\
                   host_id_cache_' = [host_id_cache_ EXCEPT ![Ingester][host_name[Ingester]] = id]
    PROVE  OneClient' /\ Grows
<1>1. /\ pc' = [pc EXCEPT ![Ingester] = "idle"] /\ host_name' = [host_name EXCEPT ![Ingester] = NoId]
      /\ new_host_id' = [new_host_id EXCEPT ![Ingester] = NoId]
  BY DEF Registry!Return
<1>2. pc'[Ingester] = "idle"
  BY <1>1 DEF OneClient
<1>3. CASE host_id_cache_' = host_id_cache_
  BY <1>1, <1>2, <1>3 DEF OneClient, Grows, Cached
<1>4. ASSUME NEW id \in host_info, pc[Ingester] # "idle", id.name = host_name[Ingester],
             host_id_cache_' = [host_id_cache_ EXCEPT ![Ingester][host_name[Ingester]] = id]
      PROVE  OneClient' /\ Grows
  <2>1. host_name[Ingester] \in Hosts /\ Cached(host_name[Ingester]) = NoId /\ id \in HostIds
    BY <1>4 DEF OneClient
  <2>2. host_id_cache_' \in [{Ingester} -> [Hosts -> HostIds \cup {NoId}]]
    BY <1>4, <2>1 DEF OneClient
  <2>3. \A h \in Hosts : Cached(h)' = IF h = host_name[Ingester] THEN id ELSE Cached(h)
    BY <1>4, <2>1 DEF OneClient, Cached
  <2>4. Grows
    BY <2>1, <2>3 DEF Grows
  <2>5. \A h \in Hosts : Cached(h)' # NoId => Cached(h)' \in host_info' /\ Cached(h)'.name = h
    BY <1>4, <2>3 DEF OneClient
  <2>6. OneClient'
    BY <1>1, <1>2, <2>2, <2>5 DEF OneClient
  <2> QED
    BY <2>4, <2>6
<1> QED
  BY <1>3, <1>4

\* A step within the call keeps the cache.
LEMMA WithinKeepsRegistry ==
    ASSUME OneClient, NEW s \in {"select", "make", "insert", "inserted", "duplicate"},
           pc' = [pc EXCEPT ![Ingester] = s], UNCHANGED <<now, host_id_cache_>>, raced' \subseteq Hosts,
           host_info \subseteq host_info', host_info' \subseteq HostIds, orphans' \subseteq HostIds,
           faults' \in 0 .. MaxFaults,
           \/ pc[Ingester] # "idle" /\ host_name' = host_name
           \/ \E h \in Hosts : Cached(h) = NoId /\ host_name' = [host_name EXCEPT ![Ingester] = h],
           new_host_id' \in [{Ingester} -> HostIds \cup {NoId}],
           s \in {"insert", "inserted", "duplicate"} =>
             new_host_id'[Ingester] \in HostIds /\ new_host_id'[Ingester].name = host_name'[Ingester],
           s \in {"inserted", "duplicate"} => new_host_id'[Ingester] \in host_info'
    PROVE  OneClient' /\ Grows
<1>1. pc' \in [{Ingester} -> {"idle", "select", "make", "insert", "inserted", "duplicate"}] /\ pc'[Ingester] = s
  BY DEF OneClient
<1>2. /\ host_name' \in [{Ingester} -> Hosts \cup {NoId}]
      /\ host_name'[Ingester] \in Hosts /\ Cached(host_name'[Ingester]) = NoId
  BY DEF OneClient
<1>3. \A h \in Hosts : Cached(h)' = Cached(h)
  BY DEF Cached
<1> QED
  BY <1>1, <1>2, <1>3 DEF OneClient, Grows, Cached

\* Every step of the registry that PerfClient takes.
LEMMA RegistryStep ==
    ASSUME OneClient,
           \/ Registry!Progress(Ingester) \/ Registry!Failure(Ingester) \/ Registry!Orphan \/ Registry!Tick
           \/ \E h \in Hosts : Registry!Call(Ingester, h)
           \/ Fault \/ UNCHANGED registry
    PROVE  OneClient' /\ Grows
<1> USE PerfClientAssumption
<1>0. /\ now \in 0 .. MaxTime /\ host_info \subseteq HostIds /\ orphans \subseteq HostIds /\ faults \in 0 .. MaxFaults
      /\ raced \subseteq Hosts /\ new_host_id \in [{Ingester} -> HostIds \cup {NoId}] /\ Ingester \in {Ingester}
      /\ (pc[Ingester] # "idle" => host_name[Ingester] \in Hosts)
      /\ MaxFaults \in Nat /\ MaxTime \in Nat
  BY DEF OneClient
<1>1. ASSUME faults < MaxFaults, faults' = faults + 1 PROVE faults' \in 0 .. MaxFaults
  BY <1>0, <1>1
<1>2. ASSUME NEW h \in Hosts, Registry!Call(Ingester, h) PROVE OneClient' /\ Grows
  <2>1. /\ pc' = [pc EXCEPT ![Ingester] = "select"] /\ Cached(h) = NoId
        /\ host_name' = [host_name EXCEPT ![Ingester] = h]
        /\ UNCHANGED <<now, host_info, orphans, new_host_id, host_id_cache_, faults, raced>>
    BY <1>2 DEF Registry!Call, Cached
  <2> QED
    BY <1>0, <2>1, WithinKeepsRegistry
<1>3. CASE Registry!SelectHit(Ingester)
  <2>1. PICK id \in host_info :
          /\ id.name = host_name[Ingester]
          /\ host_id_cache_' = [host_id_cache_ EXCEPT ![Ingester][host_name[Ingester]] = id]
    BY <1>3 DEF Registry!SelectHit, Registry!RowsOf
  <2>2. pc[Ingester] # "idle" /\ Registry!Return(Ingester) /\ UNCHANGED <<now, host_info, orphans, faults, raced>>
    BY <1>3 DEF Registry!SelectHit
  <2> QED
    BY <1>0, <2>1, <2>2, ReturnKeepsRegistry
<1>4. CASE Registry!SelectMiss(Ingester)
  <2>1. /\ pc[Ingester] # "idle" /\ pc' = [pc EXCEPT ![Ingester] = "make"] /\ raced' \subseteq Hosts
        /\ UNCHANGED <<now, host_info, orphans, host_name, new_host_id, host_id_cache_, faults>>
    BY <1>0, <1>4 DEF Registry!SelectMiss
  <2> QED
    BY <1>0, <2>1, WithinKeepsRegistry
<1>5. CASE Registry!SelectFail(Ingester)
  <2>1. /\ pc[Ingester] # "idle" /\ pc' = [pc EXCEPT ![Ingester] = "make"] /\ raced' \subseteq Hosts
        /\ UNCHANGED <<now, host_info, orphans, host_name, new_host_id, host_id_cache_>>
        /\ faults < MaxFaults /\ faults' = faults + 1
    BY <1>0, <1>5 DEF Registry!SelectFail, Registry!Fault
  <2> QED
    BY <1>0, <1>1, <2>1, WithinKeepsRegistry
<1>6. CASE Registry!SendInsert(Ingester)
  <2>1. /\ pc[Ingester] # "idle" /\ pc' = [pc EXCEPT ![Ingester] = "insert"]
        /\ new_host_id' = [new_host_id EXCEPT ![Ingester] = [name |-> host_name[Ingester], at |-> now]]
        /\ UNCHANGED <<now, host_info, orphans, host_name, host_id_cache_, faults, raced>>
    BY <1>6 DEF Registry!SendInsert
  <2>2. [name |-> host_name[Ingester], at |-> now] \in HostIds
    BY <1>0, <2>1 DEF HostIds
  <2>3. new_host_id' \in [{Ingester} -> HostIds \cup {NoId}]
        /\ new_host_id'[Ingester] = [name |-> host_name[Ingester], at |-> now]
    BY <1>0, <2>1, <2>2
  <2>4. new_host_id'[Ingester] \in HostIds /\ new_host_id'[Ingester].name = host_name[Ingester]
    BY <2>2, <2>3
  <2> QED
    BY <1>0, <2>1, <2>3, <2>4, WithinKeepsRegistry
<1>7. CASE Registry!ExecInsert(Ingester)
  <2>1. /\ pc[Ingester] = "insert" /\ host_info' = host_info \cup {new_host_id[Ingester]}
        /\ UNCHANGED <<now, orphans, host_name, new_host_id, host_id_cache_, faults, raced>>
    BY <1>7 DEF Registry!ExecInsert
  <2>2. PICK s \in {"inserted", "duplicate"} : pc' = [pc EXCEPT ![Ingester] = s]
    BY <1>7 DEF Registry!ExecInsert
  <2>3. new_host_id[Ingester] \in HostIds /\ new_host_id[Ingester].name = host_name[Ingester]
    BY <2>1 DEF OneClient
  <2> QED
    BY <1>0, <2>1, <2>2, <2>3, WithinKeepsRegistry
<1>8. CASE Registry!InsertOk(Ingester)
  <2>1. /\ pc[Ingester] = "inserted" /\ Registry!Return(Ingester)
        /\ host_id_cache_' = [host_id_cache_ EXCEPT ![Ingester][host_name[Ingester]] = new_host_id[Ingester]]
        /\ UNCHANGED <<now, host_info, orphans, faults, raced>>
    BY <1>8 DEF Registry!InsertOk
  <2>2. new_host_id[Ingester] \in host_info /\ new_host_id[Ingester].name = host_name[Ingester]
    BY <2>1 DEF OneClient
  <2> QED
    BY <1>0, <2>1, <2>2, ReturnKeepsRegistry
<1>9. CASE Registry!InsertDuplicate(Ingester)
  BY <1>0, <1>9, ReturnKeepsRegistry DEF Registry!InsertDuplicate
<1>10. CASE Registry!InsertRejected(Ingester)
  BY <1>0, <1>1, <1>10, ReturnKeepsRegistry DEF Registry!InsertRejected, Registry!Fault
<1>11. CASE Registry!InsertLost(Ingester)
  <2>1. /\ Registry!Return(Ingester) /\ UNCHANGED <<now, host_info, host_id_cache_, raced>>
        /\ faults < MaxFaults /\ faults' = faults + 1
    BY <1>11 DEF Registry!InsertLost, Registry!Fault
  <2>2. orphans' \subseteq HostIds
    BY <1>11 DEF Registry!InsertLost, OneClient
  <2> QED
    BY <1>0, <1>1, <2>1, <2>2, ReturnKeepsRegistry
<1>12. CASE Registry!Orphan
  <2>1. UNCHANGED <<now, pc, host_name, new_host_id, host_id_cache_, faults, raced>>
        /\ host_info \subseteq host_info' /\ host_info' \subseteq HostIds /\ orphans' \subseteq HostIds
    BY <1>0, <1>12 DEF Registry!Orphan
  <2> QED
    BY <2>1 DEF OneClient, Grows, Cached
<1>13. CASE Registry!Tick
  <2>1. now' \in 0 .. MaxTime
    BY <1>0, <1>13 DEF Registry!Tick
  <2>2. UNCHANGED <<host_info, orphans, pc, host_name, new_host_id, host_id_cache_, faults, raced>>
    BY <1>13 DEF Registry!Tick
  <2> QED
    BY <2>1, <2>2 DEF OneClient, Grows, Cached
<1>14. CASE Fault
  <2>1. faults' \in 0 .. MaxFaults
    BY <1>1, <1>14 DEF Fault
  <2>2. UNCHANGED <<now, host_info, orphans, pc, host_name, new_host_id, host_id_cache_, raced>>
    BY <1>14 DEF Fault
  <2> QED
    BY <2>1, <2>2 DEF OneClient, Grows, Cached
<1>15. CASE UNCHANGED registry
  BY <1>15 DEF OneClient, Grows, Cached, registry
<1> QED
  BY <1>2, <1>3, <1>4, <1>5, <1>6, <1>7, <1>8, <1>9, <1>10, <1>11, <1>12, <1>13, <1>14, <1>15
     DEF Registry!Progress, Registry!Failure

------------------------------------------------------------------------------
(* The values of the process.                                              *)

\* The type invariant without the registry.
Types ==
    /\ main_pc \in {"construct", "test", "wait", "join", "destroy", "exited"}
    /\ stop_flag \in BOOLEAN
    /\ monitoring_active_ \in BOOLEAN
    /\ mysql_conn_ \in {"null", "open"}
    /\ current_data_ \in Data
    /\ step \in [Threads -> CallSteps \cup {"loop", "caught", "ended"}]
    /\ step["main"] \in CallSteps
    /\ local \in [Threads -> Local]
    /\ fetches \in 0 .. MaxFetch
    /\ metrics \subseteq Row
    /\ summary \subseteq SummaryRow
    /\ lost \in [Threads -> SUBSET (Hosts \X Tables)]

\* IInv, sorted by what it is about.
Inv == /\ Types /\ OneClient /\ Control /\ DataSound /\ Storing
       /\ ConnectionSafe /\ StoreAccounted /\ RowsAttributed /\ StoredOncePerFetch /\ SummaryScored

\* The invariant of the module is the one that the proof takes apart.
LEMMA InvParts == /\ IInv <=> Inv
                  /\ IInv' <=> Inv'
<1>1. /\ TypeOK <=> Types /\ Registry!TypeOK
      /\ TypeOK' <=> Types' /\ Registry!TypeOK'
  BY DEF TypeOK, Types
<1> QED
  BY <1>1, RegistryTerms DEF IInv, Inv, RegistryInv

\* The values of a call after each of the assignments the code makes.
LEMMA LocalUpdates ==
    ASSUME NEW l \in Local, NEW d \in Data, NEW n \in Nat, NEW id \in Registry!HostId \cup {NoId},
           NEW m \in 1 .. 6, NEW p \in Nat \ {0}, NEW b \in BOOLEAN
    PROVE  /\ [l EXCEPT !.i = n] \in Local
           /\ [l EXCEPT !.j = n] \in Local
           /\ [l EXCEPT !.row = p] \in Local
           /\ [l EXCEPT !.i = n, !.all_success = b] \in Local
           /\ [l EXCEPT !.host_id = id, !.table = m, !.row = p] \in Local
           /\ [l EXCEPT !.table = m, !.row = p] \in Local
           /\ [l EXCEPT !.table = m, !.row = p, !.all_success = b] \in Local
           /\ [l EXCEPT !.copy = d, !.j = n] \in Local
           /\ [l EXCEPT !.data = d, !.i = n, !.all_success = b] \in Local
<1>1. [l EXCEPT !.i = n] \in Local
  BY DEF Local
<1>2. [l EXCEPT !.j = n] \in Local
  BY DEF Local
<1>3. [l EXCEPT !.row = p] \in Local
  BY DEF Local
<1>4. [l EXCEPT !.i = n, !.all_success = b] \in Local
  BY DEF Local
<1>5. [l EXCEPT !.host_id = id, !.table = m, !.row = p] \in Local
  BY DEF Local
<1>6. [l EXCEPT !.table = m, !.row = p] \in Local
  BY DEF Local
<1>7. [l EXCEPT !.table = m, !.row = p, !.all_success = b] \in Local
  BY DEF Local
<1>8. [l EXCEPT !.copy = d, !.j = n] \in Local
  BY DEF Local
<1>9. [l EXCEPT !.data = d, !.i = n, !.all_success = b] \in Local
  BY DEF Local
<1> QED
  BY <1>1, <1>2, <1>3, <1>4, <1>5, <1>6, <1>7, <1>8, <1>9

\* What the steps of a store do to their local variables keeps them in their type.
LEMMA LocalTypes ==
    /\ NoLocal \in Local
    /\ \A d \in Data : [NoLocal EXCEPT !.data = d, !.i = 1, !.all_success = TRUE] \in Local
    /\ \A l \in Local :
         /\ [l EXCEPT !.i = @ + 1] \in Local
         /\ [l EXCEPT !.j = @ + 1] \in Local
         /\ [l EXCEPT !.row = @ + 1] \in Local
         /\ [l EXCEPT !.i = @ + 1, !.all_success = FALSE] \in Local
         /\ \A id \in Registry!HostId \cup {NoId} : [l EXCEPT !.host_id = id, !.table = 1, !.row = 1] \in Local
         /\ l.table <= 5 => [l EXCEPT !.table = @ + 1, !.row = 1] \in Local
         /\ l.table <= 5 => [l EXCEPT !.table = @ + 1, !.row = 1, !.all_success = FALSE] \in Local
         /\ \A d \in Data : [l EXCEPT !.copy = d, !.j = 1] \in Local
<1> USE PerfClientAssumption
<1>0. Empty \in Data /\ TRUE \in BOOLEAN /\ FALSE \in BOOLEAN /\ 1 \in 1 .. 6 /\ 1 \in Nat \ {0} /\ 0 \in Nat
  <2>1. 0 \in 0 .. MaxFetch /\ [h \in Hosts |-> 0] \in [Hosts -> 0 .. MaxFetch]
    OBVIOUS
  <2> QED
    BY <2>1 DEF Empty, Data
<1>1. \A d, c \in Data, i, j \in Nat, id \in Registry!HostId \cup {NoId}, m \in 1 .. 6, n \in Nat \ {0}, b \in BOOLEAN :
        [data |-> d, i |-> i, host_id |-> id, table |-> m, row |-> n, all_success |-> b, copy |-> c, j |-> j] \in Local
  BY Zenon DEF Local
<1>2. NoLocal \in Local
  BY <1>0, <1>1 DEF NoLocal
<1>3. ASSUME NEW d \in Data
      PROVE  [NoLocal EXCEPT !.data = d, !.i = 1, !.all_success = TRUE] \in Local
  BY <1>0, <1>2, LocalUpdates
<1>4. ASSUME NEW l \in Local
      PROVE  /\ l.i + 1 \in Nat /\ l.j + 1 \in Nat /\ l.row + 1 \in Nat \ {0}
             /\ l.table <= 5 => l.table + 1 \in 1 .. 6
  BY DEF Local
<1>5. ASSUME NEW l \in Local
      PROVE  /\ [l EXCEPT !.i = @ + 1] \in Local
             /\ [l EXCEPT !.j = @ + 1] \in Local
             /\ [l EXCEPT !.row = @ + 1] \in Local
             /\ [l EXCEPT !.i = @ + 1, !.all_success = FALSE] \in Local
             /\ \A id \in Registry!HostId \cup {NoId} : [l EXCEPT !.host_id = id, !.table = 1, !.row = 1] \in Local
             /\ l.table <= 5 => [l EXCEPT !.table = @ + 1, !.row = 1] \in Local
             /\ l.table <= 5 => [l EXCEPT !.table = @ + 1, !.row = 1, !.all_success = FALSE] \in Local
             /\ \A d \in Data : [l EXCEPT !.copy = d, !.j = 1] \in Local
  <2>1. /\ [l EXCEPT !.i = @ + 1] \in Local
        /\ [l EXCEPT !.j = @ + 1] \in Local
    BY <1>4, LocalUpdates, <1>0
  <2>2. [l EXCEPT !.row = @ + 1] \in Local
    BY <1>4, LocalUpdates, <1>0
  <2>3. [l EXCEPT !.i = @ + 1, !.all_success = FALSE] \in Local
    BY <1>4, LocalUpdates, <1>0
  <2>4. \A id \in Registry!HostId \cup {NoId} : [l EXCEPT !.host_id = id, !.table = 1, !.row = 1] \in Local
    BY <1>0, LocalUpdates
  <2>5. l.table <= 5 => [l EXCEPT !.table = @ + 1, !.row = 1] \in Local
    BY <1>4, LocalUpdates, <1>0
  <2>6. l.table <= 5 => [l EXCEPT !.table = @ + 1, !.row = 1, !.all_success = FALSE] \in Local
    BY <1>4, LocalUpdates, <1>0
  <2>7. \A d \in Data : [l EXCEPT !.copy = d, !.j = 1] \in Local
    BY <1>0, LocalUpdates
  <2> QED
    BY <2>1, <2>2, <2>3, <2>4, <2>5, <2>6, <2>7
<1> QED
  BY <1>2, <1>3, <1>5

\* The tables have different names.
LEMMA TableNames ==
    /\ \A m \in 1 .. 5 : TableSeq[m] \in Tables
    /\ \A table \in Tables : \E m \in 1 .. 5 : table = TableSeq[m]
    /\ \A m1, m2 \in 1 .. 5 : TableSeq[m1] = TableSeq[m2] => m1 = m2
  BY DEF Tables, TableSeq

\* Only one thread works.
LEMMA Alone ==
    ASSUME Inv, NEW t \in Threads, NEW u \in Threads, u # t, step[t] # "none"
    PROVE  step[u] = "none"
  BY DEF Inv, Types, Control, Threads

------------------------------------------------------------------------------
(* What a step of a thread leaves as it was.                               *)

\* StoreAccounted, for one thread.
Accounted(t) ==
    /\ local[t].all_success => lost[t] = {}
    /\ \A k \in DOMAIN local[t].data.infos, table \in Tables :
         <<local[t].data.infos[k], table>> \notin lost[t]
           => \A n \in 1 .. RowsIn[table] :
                \E r \in metrics : /\ r.table = table /\ r.row = n
                                   /\ r.host = local[t].data.infos[k] /\ r.ver = local[t].data.ver

\* The call in progress: its data and the host it stands at.
LEMMA Position ==
    ASSUME Inv, NEW t \in Threads, step[t] \in StoreSteps
    PROVE  /\ local[t] \in Local /\ local[t].data \in Data /\ mysql_conn_ = "open"
           /\ DOMAIN local[t].data.infos = 1 .. Len(local[t].data.infos)
           /\ \A k \in DOMAIN local[t].data.infos : local[t].data.infos[k] \in Hosts
           /\ \A j, k \in DOMAIN local[t].data.infos : local[t].data.infos[j] = local[t].data.infos[k] => j = k
           /\ step[t] # "host" => /\ local[t].i \in DOMAIN local[t].data.infos
                                  /\ Host(t) \in Hosts
                                  /\ local[t].data.ver \in 1 .. MaxFetch
<1> USE PerfClientAssumption
<1>1. /\ local[t] \in Local /\ local[t].data \in Data /\ mysql_conn_ = "open" /\ StorePosition(t)
      /\ local[t].data.infos \in Seq(Hosts) /\ local[t].i \in Nat /\ local[t].data.ver \in 0 .. MaxFetch
  BY DEF Inv, Types, ConnectionSafe, Storing, Local, Data
<1>2. /\ DOMAIN local[t].data.infos = 1 .. Len(local[t].data.infos)
      /\ \A k \in DOMAIN local[t].data.infos : local[t].data.infos[k] \in Hosts
      /\ Len(local[t].data.infos) \in Nat
  BY <1>1
<1>3. \A j, k \in DOMAIN local[t].data.infos : local[t].data.infos[j] = local[t].data.infos[k] => j = k
  BY <1>1 DEF Inv, DataSound, StorePosition
<1>4. ASSUME step[t] # "host"
      PROVE  /\ local[t].i \in DOMAIN local[t].data.infos
             /\ Host(t) \in Hosts
             /\ local[t].data.ver \in 1 .. MaxFetch
  <2>1. local[t].i \in DOMAIN local[t].data.infos
    BY <1>1, <1>2, <1>4 DEF StorePosition
  <2>2. local[t].data.ver # 0
    BY <1>1, <2>1 DEF Inv, DataSound, StorePosition
  <2> QED
    BY <1>1, <1>2, <2>1, <2>2 DEF Host
<1> QED
  BY <1>1, <1>2, <1>3, <1>4

\* A step of a thread that works: what is left to show for it.
LEMMA WorkKeeps ==
    ASSUME Inv, NEW t \in Threads, NEW s \in CallSteps \ {"none"},
           step[t] \in CallSteps \ {"none"}, step' = [step EXCEPT ![t] = s], UNCHANGED process,
           current_data_' \in Data, local' \in [Threads -> Local], fetches' \in 0 .. MaxFetch,
           metrics' \subseteq Row, summary' \subseteq SummaryRow, lost' \in [Threads -> SUBSET (Hosts \X Tables)],
           OneClient',
           s \in StoreSteps => mysql_conn_ = "open" /\ StorePosition(t)' /\ StoredSoFar(t)',
           pc'[Ingester] # "idle" => s \in {"resolve", "rescore"},
           s = "done" => Accounted(t)',
           DataSound', RowsAttributed', StoredOncePerFetch', SummaryScored'
    PROVE  Inv'
<1>1. /\ step'[t] = s
      /\ \A u \in Threads : u # t => step[u] = "none" /\ step'[u] = "none"
      /\ step' \in [Threads -> CallSteps \cup {"loop", "caught", "ended"}]
      /\ \A u \in Threads : step'[u] \in CallSteps
  BY Alone DEF Inv, Types, CallSteps
<1>2. Types'
  BY <1>1 DEF Types, Inv, process, Threads
<1>3. Control'
  BY <1>1 DEF Control, Inv, process, Threads, Types, CallSteps, StoreSteps
<1>4. Storing'
  <2>1. SUFFICES ASSUME NEW u \in Threads, step'[u] \in StoreSteps PROVE (StorePosition(u) /\ StoredSoFar(u))'
    BY DEF Storing
  <2>2. u = t
    BY <1>1, <2>1 DEF StoreSteps
  <2> QED
    BY <1>1, <2>1, <2>2
<1>5. ConnectionSafe'
  BY <1>1 DEF ConnectionSafe, Threads, StoreSteps, process
<1>6. StoreAccounted'
  <2>1. SUFFICES ASSUME NEW u \in Threads, step'[u] = "done" PROVE Accounted(u)'
    BY DEF StoreAccounted, Accounted
  <2>2. u = t
    BY <1>1, <2>1
  <2> QED
    BY <1>1, <2>1, <2>2
<1> QED
  BY <1>2, <1>3, <1>4, <1>5, <1>6 DEF Inv

\* As long as no row is added, nothing happens to those that are there.
LEMMA RowsKept ==
    ASSUME Inv, Grows, UNCHANGED <<metrics, fetches, current_data_>>,
           \A t \in Threads : step'[t] = "store" => step[t] = "store"
    PROVE  DataSound' /\ RowsAttributed' /\ StoredOncePerFetch'
<1>1. DataSound'
  BY DEF Inv, DataSound
<1>2. RowsAttributed'
  BY DEF Inv, RowsAttributed, Grows
<1>3. StoredOncePerFetch'
  BY DEF Inv, StoredOncePerFetch
<1> QED
  BY <1>1, <1>2, <1>3

\* The rows are of the type of rows, for lemmas that need no more.
LEMMA RowsTyped == Inv => metrics \subseteq Row
  BY DEF Inv, Types

\* A step within a store: the rows behind it are those that were, and those that
\* it has just stored.
LEMMA StoredKeeps ==
    ASSUME NEW t \in Threads, StoredSoFar(t),
           local'[t].data = local[t].data, metrics \subseteq Row, metrics \subseteq metrics', lost[t] \subseteq lost'[t],
           local'[t].all_success => local[t].all_success /\ lost'[t] = lost[t],
           \A r \in metrics' : r \notin metrics => \E k \in DOMAIN local[t].data.infos, m \in 1 .. 5 :
              r.host = local[t].data.infos[k] /\ r.table = TableSeq[m] /\ Passed(t, k, m, r.row)',
           \A k \in DOMAIN local[t].data.infos, m \in 1 .. 5 : \A n \in Nat : Passed(t, k, m, n) => Passed(t, k, m, n)',
           \A k \in DOMAIN local[t].data.infos, m \in 1 .. 5 : \A n \in 1 .. RowsIn[TableSeq[m]] :
              Passed(t, k, m, n)' => Passed(t, k, m, n) \/ TableLost(t, k, m)' \/ Stored(t, k, m, n)'
    PROVE  StoredSoFar(t)'
<1> DEFINE data == local[t].data
<1>1. ASSUME NEW r \in metrics', r.ver = data.ver
      PROVE  \E k \in DOMAIN data.infos, m \in 1 .. 5 :
                r.host = data.infos[k] /\ r.table = TableSeq[m] /\ Passed(t, k, m, r.row)'
  <2>1. CASE r \in metrics
    <3>1. PICK k \in DOMAIN data.infos, m \in 1 .. 5 :
             r.host = data.infos[k] /\ r.table = TableSeq[m] /\ Passed(t, k, m, r.row)
      BY <1>1, <2>1 DEF StoredSoFar
    <3>2. r.row \in Nat
      BY <2>1 DEF Row
    <3> QED
      BY <3>1, <3>2
  <2>2. CASE r \notin metrics
    BY <2>2
  <2> QED
    BY <2>1, <2>2
<1>2. ASSUME NEW k \in DOMAIN data.infos, NEW m \in 1 .. 5
      PROVE  /\ TableLost(t, k, m) => TableLost(t, k, m)'
             /\ \A n : Stored(t, k, m, n) => Stored(t, k, m, n)'
  BY DEF TableLost, Stored
<1>3. ASSUME NEW k \in DOMAIN data.infos, NEW m \in 1 .. 5, NEW n \in 1 .. RowsIn[TableSeq[m]], Passed(t, k, m, n)'
      PROVE  TableLost(t, k, m)' \/ Stored(t, k, m, n)'
  <2>1. CASE Passed(t, k, m, n)
    BY <1>2, <2>1 DEF StoredSoFar
  <2> QED
    BY <1>3, <2>1
<1>4. local'[t].all_success => lost'[t] = {}
  BY DEF StoredSoFar
<1> QED
  BY <1>1, <1>3, <1>4 DEF StoredSoFar

------------------------------------------------------------------------------
(* The steps of a thread.                                                  *)

\* What every step of a working thread starts from.
LEMMA Working ==
    ASSUME Inv, NEW t \in Threads, step[t] \in CallSteps \ {"none"}
    PROVE  /\ OneClient /\ current_data_ \in Data /\ local \in [Threads -> Local] /\ local[t] \in Local
           /\ fetches \in 0 .. MaxFetch /\ fetches \in Nat /\ metrics \subseteq Row /\ summary \subseteq SummaryRow
           /\ lost \in [Threads -> SUBSET (Hosts \X Tables)] /\ DataSound
           /\ step[t] \notin {"resolve", "rescore"} => pc[Ingester] = "idle"
           /\ \A s : step' = [step EXCEPT ![t] = s] => /\ step'[t] = s
                                                       /\ \A u \in Threads : step'[u] = "store" => s = "store"
           /\ step[t] \in StoreSteps => StorePosition(t) /\ StoredSoFar(t)
<1>1. /\ OneClient /\ current_data_ \in Data /\ local \in [Threads -> Local] /\ local[t] \in Local
      /\ fetches \in 0 .. MaxFetch /\ metrics \subseteq Row /\ summary \subseteq SummaryRow
      /\ lost \in [Threads -> SUBSET (Hosts \X Tables)] /\ DataSound
      /\ step[t] \in StoreSteps => StorePosition(t) /\ StoredSoFar(t)
  BY DEF Inv, Types, Storing
<1>2. fetches \in Nat
  BY <1>1, PerfClientAssumption
<1>3. step[t] \notin {"resolve", "rescore"} => pc[Ingester] = "idle"
  BY Alone DEF Inv, ConnectionSafe
<1>4. ASSUME NEW s, step' = [step EXCEPT ![t] = s]
      PROVE  step'[t] = s /\ \A u \in Threads : step'[u] = "store" => s = "store"
  BY <1>4, Alone DEF Inv, Types
<1> QED
  BY <1>1, <1>2, <1>3, <1>4

\* An answer to GetMonitorInfo: the data get a rank that no row has yet.
LEMMA FetchServedKeepsInv ==
    ASSUME Inv, NEW t \in Threads, FetchServed(t)
    PROVE  Inv'
<1> USE PerfClientAssumption
<1>1. PICK infos \in Responses : \E samples \in SamplesOf(infos) :
        current_data_' = [infos |-> infos, samples |-> samples, ver |-> fetches + 1]
  BY DEF FetchServed
<1>0. PICK samples \in SamplesOf(infos) :
        current_data_' = [infos |-> infos, samples |-> samples, ver |-> fetches + 1]
  BY <1>1
<1>2. /\ step[t] = "fetch" /\ step' = [step EXCEPT ![t] = "store"]
      /\ fetches < MaxFetch /\ fetches' = fetches + 1
      /\ UNCHANGED <<process, local, metrics, summary, lost, registry>>
  BY DEF FetchServed, Go
<1>3. step[t] \in CallSteps \ {"none"} /\ "store" \in CallSteps \ {"none"} /\ "store" \notin StoreSteps
  BY <1>2 DEF CallSteps, StoreSteps
<1>4. OneClient' /\ Grows /\ pc' = pc
  BY <1>2, RegistryStep DEF Inv, registry
<1>5. /\ infos \in Seq(Hosts)
      /\ \A i, j \in DOMAIN infos : infos[i] = infos[j] => i = j
  BY <1>1 DEF Responses
<1>6. fetches' \in 0 .. MaxFetch /\ fetches' \in Nat /\ fetches + 1 # 0
  BY <1>2, <1>3, Working
<1>7. current_data_' \in Data
  <2>1. samples \in [Hosts -> 0 .. fetches + 1]
    BY DEF SamplesOf
  <2>2. 0 .. fetches + 1 \subseteq 0 .. MaxFetch
    BY <1>2, <1>6
  <2>3. samples \in [Hosts -> 0 .. MaxFetch]
    BY <2>1, <2>2
  <2> QED
    BY <1>0, <1>2, <1>5, <1>6, <2>3 DEF Data
<1>8. \A r \in metrics : r.ver <= fetches' /\ r.ver # fetches + 1
  <2>1. ASSUME NEW r \in metrics PROVE r.ver <= fetches /\ r.ver \in Nat
    BY <1>3, Working DEF DataSound, Row
  <2> QED
    BY <1>2, <1>3, <2>1, Working
<1>9. DataSound'
  <2>1. IsFiniteSet(metrics)
    BY DEF Inv, DataSound
  <2>2. current_data_'.ver = fetches + 1 /\ current_data_'.ver <= fetches' /\ current_data_'.ver # 0
    BY <1>0, <1>2, <1>6
  <2>3. current_data_'.infos = infos /\ metrics' = metrics
    BY <1>0, <1>2
  <2> QED
    BY <2>1, <2>2, <2>3, <1>5, <1>8 DEF DataSound
<1>10. RowsAttributed' /\ StoredOncePerFetch' /\ SummaryScored'
  BY <1>2, <1>4 DEF Inv, RowsAttributed, StoredOncePerFetch, SummaryScored, Grows
<1>11. pc'[Ingester] = "idle"
  BY <1>2, <1>3, <1>4, Working
<1>12. /\ local' \in [Threads -> Local] /\ metrics' \subseteq Row /\ summary' \subseteq SummaryRow
       /\ lost' \in [Threads -> SUBSET (Hosts \X Tables)]
  BY <1>2, <1>3, Working
<1> QED
  BY <1>2, <1>3, <1>4, <1>6, <1>7, <1>9, <1>10, <1>11, <1>12, WorkKeeps

\* A failed RPC leaves no data, so nothing old can be stored.
LEMMA FetchErrorKeepsInv ==
    ASSUME Inv, NEW t \in Threads, FetchError(t)
    PROVE  Inv'
<1> USE PerfClientAssumption
<1>2. /\ step[t] = "fetch" /\ step' = [step EXCEPT ![t] = "store"] /\ current_data_' = Empty
      /\ UNCHANGED <<process, local, fetches, metrics, summary, lost, registry>>
  BY DEF FetchError, Go
<1>3. step[t] \in CallSteps \ {"none"} /\ "store" \in CallSteps \ {"none"} /\ "store" \notin StoreSteps
  BY <1>2 DEF CallSteps, StoreSteps
<1>4. OneClient' /\ Grows /\ pc' = pc
  BY <1>2, RegistryStep DEF Inv, registry
<1>7. current_data_' \in Data /\ current_data_'.ver = 0 /\ DOMAIN current_data_'.infos = {}
  <2>1. 0 \in 0 .. MaxFetch /\ [h \in Hosts |-> 0] \in [Hosts -> 0 .. MaxFetch]
    OBVIOUS
  <2> QED
    BY <1>2, <2>1 DEF Data, Empty
<1>8. \A r \in metrics : r.ver # 0
  BY <1>3, Working DEF Row
<1>9. DataSound'
  <2>1. IsFiniteSet(metrics) /\ \A r \in metrics : r.ver <= fetches
    BY DEF Inv, DataSound
  <2>2. fetches \in Nat /\ 0 <= fetches
    BY <1>3, Working
  <2> QED
    BY <1>2, <1>7, <1>8, <2>1, <2>2 DEF DataSound
<1>10. RowsAttributed' /\ StoredOncePerFetch' /\ SummaryScored'
  BY <1>2, <1>4 DEF Inv, RowsAttributed, StoredOncePerFetch, SummaryScored, Grows
<1>11. pc'[Ingester] = "idle"
  BY <1>2, <1>3, <1>4, Working
<1>12. /\ local' \in [Threads -> Local] /\ metrics' \subseteq Row /\ summary' \subseteq SummaryRow
       /\ lost' \in [Threads -> SUBSET (Hosts \X Tables)] /\ fetches' \in 0 .. MaxFetch
  BY <1>2, <1>3, Working
<1> QED
  BY <1>2, <1>3, <1>4, <1>7, <1>9, <1>10, <1>11, <1>12, WorkKeeps

\* A call that returns without having stored anything.
LEMMA NothingStored ==
    ASSUME NEW t \in Threads, local'[t] = NoLocal, lost'[t] = {}
    PROVE  Accounted(t)'
<1>1. DOMAIN NoLocal.data.infos = {}
  BY DEF NoLocal, Empty
<1> QED
  BY <1>1 DEF Accounted

\* An exception within the fetch ends the call.
LEMMA FetchThrowsKeepsInv ==
    ASSUME Inv, NEW t \in Threads, FetchThrows(t)
    PROVE  Inv'
<1>2. /\ step[t] = "fetch" /\ step' = [step EXCEPT ![t] = "done"] /\ Fault
      /\ local' = [local EXCEPT ![t] = NoLocal] /\ lost' = [lost EXCEPT ![t] = {}]
      /\ UNCHANGED <<process, current_data_, fetches, metrics, summary>>
  BY DEF FetchThrows, Go, Set
<1>3. step[t] \in CallSteps \ {"none"} /\ "done" \in CallSteps \ {"none"} /\ "done" \notin StoreSteps
  BY <1>2 DEF CallSteps, StoreSteps
<1>4. OneClient' /\ Grows /\ pc' = pc
  BY <1>2, RegistryStep DEF Inv, Fault
<1>5. DataSound' /\ RowsAttributed' /\ StoredOncePerFetch'
  BY <1>2, <1>3, <1>4, Working, RowsKept
<1>6. SummaryScored'
  BY <1>2 DEF Inv, SummaryScored
<1>11. pc'[Ingester] = "idle"
  BY <1>2, <1>3, <1>4, Working
<1>12. /\ local' \in [Threads -> Local] /\ metrics' \subseteq Row /\ summary' \subseteq SummaryRow
       /\ lost' \in [Threads -> SUBSET (Hosts \X Tables)] /\ fetches' \in 0 .. MaxFetch /\ current_data_' \in Data
  BY <1>2, <1>3, Working, LocalTypes
<1>13. Accounted(t)'
  <2>1. local'[t] = NoLocal /\ lost'[t] = {}
    BY <1>2, <1>3, Working
  <2> QED
    BY <2>1, NothingStored
<1> QED
  BY <1>2, <1>3, <1>4, <1>5, <1>6, <1>11, <1>12, <1>13, WorkKeeps

\* A store begins with a copy of current_data_ and nothing lost.
LEMMA StoreBeginKeepsInv ==
    ASSUME Inv, NEW t \in Threads, StoreBegin(t)
    PROVE  Inv'
<1>1. /\ step[t] = "store" /\ lost' = [lost EXCEPT ![t] = {}]
      /\ UNCHANGED <<process, current_data_, fetches, metrics, summary, registry>>
  BY DEF StoreBegin
<1>2. step[t] \in CallSteps \ {"none"} /\ "done" \in CallSteps \ {"none", "store"} /\ "host" \in CallSteps \ {"none", "store"}
      /\ "done" \notin StoreSteps
  BY <1>1 DEF CallSteps, StoreSteps
<1>3. OneClient' /\ Grows /\ pc' = pc /\ pc'[Ingester] = "idle"
  BY <1>1, <1>2, RegistryStep, Working DEF Inv, registry
<1>4. /\ metrics' \subseteq Row /\ summary' \subseteq SummaryRow /\ lost' \in [Threads -> SUBSET (Hosts \X Tables)]
      /\ fetches' \in 0 .. MaxFetch /\ current_data_' \in Data /\ lost'[t] = {}
  BY <1>1, <1>2, Working
<1>5. SummaryScored'
  BY <1>1 DEF Inv, SummaryScored
<1>6. CASE mysql_conn_ = "null"
  <2>1. step' = [step EXCEPT ![t] = "done"] /\ local' = [local EXCEPT ![t] = NoLocal]
    BY <1>1, <1>6 DEF StoreBegin, Go, Set
  <2>2. local' \in [Threads -> Local] /\ local'[t] = NoLocal
    BY <1>2, <2>1, Working, LocalTypes
  <2>3. Accounted(t)'
    BY <1>4, <2>2, NothingStored
  <2>4. DataSound' /\ RowsAttributed' /\ StoredOncePerFetch'
    BY <1>1, <1>2, <1>3, <2>1, Working, RowsKept
  <2> QED
    BY <1>1, <1>2, <1>3, <1>4, <1>5, <2>1, <2>2, <2>3, <2>4, WorkKeeps
<1>7. CASE mysql_conn_ # "null"
  <2> DEFINE l == [NoLocal EXCEPT !.data = current_data_, !.i = 1, !.all_success = TRUE]
  <2>1. step' = [step EXCEPT ![t] = "host"] /\ local' = [local EXCEPT ![t] = l]
    BY <1>1, <1>7 DEF StoreBegin, Go, Set
  <2>2. l \in Local
    BY <1>2, Working, LocalTypes
  <2>3. local' \in [Threads -> Local] /\ local'[t] = l /\ step'[t] = "host"
    BY <1>2, <2>1, <2>2, Working
  <2>4. l.data = current_data_ /\ l.i = 1
    BY DEF NoLocal
  <2>5. StorePosition(t)'
    BY <1>1, <2>3, <2>4 DEF StorePosition, RowSteps, ScoreSteps
  <2>6. \A k \in DOMAIN l.data.infos, m \in 1 .. 5 : \A n : ~Passed(t, k, m, n)'
    <3>1. l.data.infos \in Seq(Hosts)
      BY <1>2, <2>4, Working DEF Data
    <3>2. \A k \in DOMAIN l.data.infos : ~(k < 1)
      BY <3>1
    <3> QED
      BY <2>3, <2>4, <3>2 DEF Passed, RowSteps
  <2>7. \A r \in metrics : r.ver # current_data_.ver
    BY <1>1, <1>2, Working DEF DataSound
  <2>8. StoredSoFar(t)'
    BY <1>1, <1>4, <2>3, <2>4, <2>6, <2>7 DEF StoredSoFar
  <2>9. mysql_conn_ = "open"
    BY <1>7 DEF Inv, Types
  <2>10. DataSound' /\ RowsAttributed' /\ StoredOncePerFetch'
    BY <1>1, <1>2, <1>3, <2>1, Working, RowsKept
  <2> QED
    BY <1>1, <1>2, <1>3, <1>4, <1>5, <2>1, <2>3, <2>5, <2>8, <2>9, <2>10, WorkKeeps
<1> QED
  BY <1>6, <1>7

\* A step of a store that adds no row to any table: what is left to show for it.
LEMMA StoreKeeps ==
    ASSUME Inv, NEW t \in Threads, step[t] \in StoreSteps, NEW s \in StoreSteps \cup {"done"},
           step' = [step EXCEPT ![t] = s],
           UNCHANGED <<process, current_data_, fetches, metrics>>,
           summary' \subseteq SummaryRow, SummaryScored',
           NEW l \in Local, local' = [local EXCEPT ![t] = l],
           lost' \in [Threads -> SUBSET (Hosts \X Tables)],
           OneClient', Grows,
           pc'[Ingester] # "idle" => s \in {"resolve", "rescore"},
           s \in StoreSteps => StorePosition(t)' /\ StoredSoFar(t)',
           s = "done" => Accounted(t)'
    PROVE  Inv'
<1>1. step[t] \in CallSteps \ {"none"} /\ s \in CallSteps \ {"none", "store"} /\ mysql_conn_ = "open"
  BY DEF CallSteps, StoreSteps, Inv, ConnectionSafe
<1>2. DataSound' /\ RowsAttributed' /\ StoredOncePerFetch'
  BY <1>1, Working, RowsKept
<1>3. /\ metrics' \subseteq Row /\ fetches' \in 0 .. MaxFetch /\ current_data_' \in Data /\ local' \in [Threads -> Local]
  BY <1>1, Working
<1> QED
  BY <1>1, <1>2, <1>3, WorkKeeps

\* A lookup: of a cached id, or the call of the registry.
LEMMA LookUpStep ==
    ASSUME OneClient, pc[Ingester] = "idle", NEW t, NEW h \in Hosts, NEW hit, NEW wait, LookUp(t, h, hit, wait)
    PROVE  /\ OneClient' /\ Grows
           /\ \/ step' = [step EXCEPT ![t] = hit] /\ pc'[Ingester] = "idle"
              \/ step' = [step EXCEPT ![t] = wait]
<1>1. CASE Cached(h) # NoId
  <2>1. step' = [step EXCEPT ![t] = hit] /\ UNCHANGED registry
    BY <1>1 DEF LookUp, Go
  <2>2. OneClient' /\ Grows
    BY <2>1, RegistryStep
  <2> QED
    BY <2>1, <2>2 DEF registry
<1>2. CASE Cached(h) = NoId
  <2>1. step' = [step EXCEPT ![t] = wait] /\ Registry!Call(Ingester, h)
    BY <1>2 DEF LookUp, Go
  <2> QED
    BY <2>1, RegistryStep
<1> QED
  BY <1>1, <1>2

\* A step that changes nothing but where the store stands, before the rows of a
\* host or within its summary.
LEMMA StoreMoves ==
    ASSUME Inv, NEW t \in Threads, step[t] \in StoreSteps, NEW s \in StoreSteps,
           step' = [step EXCEPT ![t] = s],
           UNCHANGED <<process, current_data_, local, fetches, metrics, summary, lost>>,
           OneClient', Grows,
           pc'[Ingester] # "idle" => s \in {"resolve", "rescore"},
           \/ step[t] \notin RowSteps /\ s \notin RowSteps
           \/ step[t] \in ScoreSteps /\ s \in ScoreSteps,
           s # "host" => local[t].i <= Len(local[t].data.infos)
    PROVE  Inv'
<1>1. step[t] \in CallSteps \ {"none"}
  BY DEF CallSteps, StoreSteps
<1>2. /\ local[t] \in Local /\ local' = [local EXCEPT ![t] = local[t]] /\ step'[t] = s
      /\ StorePosition(t) /\ StoredSoFar(t) /\ summary' \subseteq SummaryRow
      /\ lost' \in [Threads -> SUBSET (Hosts \X Tables)]
  BY <1>1, Working
<1>3. SummaryScored'
  BY DEF Inv, SummaryScored
<1>4. StorePosition(t)'
  <2>1. CASE s \notin RowSteps
    BY <1>2, <2>1 DEF StorePosition, RowSteps, ScoreSteps
  <2>2. CASE s \in RowSteps
    <3>1. Host(t) \in Hosts
      BY <2>2, Position DEF RowSteps, ScoreSteps
    <3>2. Host(t)' = Host(t)
      BY DEF Host
    <3>3. Cached(Host(t))' = Cached(Host(t))
      BY <1>2, <2>2, <3>1, <3>2 DEF Grows, StorePosition, RowSteps, ScoreSteps, Cached
    <3>4. step[t] \in ScoreSteps /\ s \in ScoreSteps /\ step[t] \in RowSteps /\ step[t] # "host"
      BY <2>2 DEF RowSteps, ScoreSteps
    <3> QED
      BY <1>2, <2>2, <3>3, <3>4 DEF StorePosition
  <2> QED
    BY <2>1, <2>2
<1>5. \A k, m, n : Passed(t, k, m, n)' <=> Passed(t, k, m, n)
  BY <1>2 DEF Passed, RowSteps, ScoreSteps
<1>6. StoredSoFar(t)'
  BY <1>2, <1>5, StoredKeeps, RowsTyped
<1>7. s \notin {"done"}
  BY DEF StoreSteps
<1> QED
  BY <1>2, <1>3, <1>4, <1>6, <1>7, StoreKeeps

\* The outer loop comes to its next host and looks its id up.
LEMMA NextHostKeepsInv ==
    ASSUME Inv, NEW t \in Threads, NextHost(t)
    PROVE  Inv'
<1>1. /\ step[t] = "host" /\ local[t].i <= Len(local[t].data.infos)
      /\ LookUp(t, local[t].data.infos[local[t].i], "resolved", "resolve")
      /\ UNCHANGED <<process, current_data_, local, fetches, metrics, summary, lost>>
  BY DEF NextHost
<1>2. step[t] \in StoreSteps /\ step[t] \in CallSteps \ {"none"} /\ step[t] \notin RowSteps
  BY <1>1 DEF StoreSteps, CallSteps, RowSteps
<1>3. local[t].data.infos[local[t].i] \in Hosts
  <2>1. local[t].i \in Nat /\ local[t].i >= 1
    BY <1>2, Working DEF Local, StorePosition
  <2> QED
    BY <1>1, <1>2, <2>1, Position
<1>4. /\ OneClient' /\ Grows
      /\ \/ step' = [step EXCEPT ![t] = "resolved"] /\ pc'[Ingester] = "idle"
         \/ step' = [step EXCEPT ![t] = "resolve"]
  BY <1>1, <1>2, <1>3, Working, LookUpStep
<1>5. {"resolved", "resolve"} \subseteq StoreSteps \ RowSteps
  BY DEF StoreSteps, RowSteps
<1>6. CASE step' = [step EXCEPT ![t] = "resolved"] /\ pc'[Ingester] = "idle"
  BY <1>1, <1>2, <1>4, <1>5, <1>6, StoreMoves
<1>7. CASE step' = [step EXCEPT ![t] = "resolve"]
  BY <1>1, <1>2, <1>4, <1>5, <1>7, StoreMoves
<1> QED
  BY <1>4, <1>6, <1>7

\* getOrCreateHostId returns to the outer loop.
LEMMA ResolvedKeepsInv ==
    ASSUME Inv, NEW t \in Threads, Resolved(t)
    PROVE  Inv'
<1>1. /\ step[t] = "resolve" /\ pc[Ingester] = "idle" /\ step' = [step EXCEPT ![t] = "resolved"]
      /\ UNCHANGED <<process, current_data_, local, fetches, metrics, summary, lost, registry>>
  BY DEF Resolved, Go
<1>2. step[t] \in StoreSteps /\ step[t] \notin RowSteps /\ "resolved" \in StoreSteps \ RowSteps
      /\ step[t] \in CallSteps \ {"none"}
  BY <1>1 DEF StoreSteps, RowSteps, CallSteps
<1>3. OneClient' /\ Grows /\ pc' = pc
  BY <1>1, RegistryStep DEF Inv, registry
<1>4. local[t].i <= Len(local[t].data.infos)
  BY <1>1, <1>2, Working DEF StorePosition
<1> QED
  BY <1>1, <1>2, <1>3, <1>4, StoreMoves

\* The search for the score looks the id of the next candidate up.
LEMMA ScoreLookUpKeepsInv ==
    ASSUME Inv, NEW t \in Threads, ScoreLookUp(t)
    PROVE  Inv'
<1>1. /\ step[t] = "score" /\ Searching(t)
      /\ LookUp(t, Candidate(t), "scored", "rescore")
      /\ UNCHANGED <<process, current_data_, local, fetches, metrics, summary, lost>>
  BY DEF ScoreLookUp
<1>2. step[t] \in StoreSteps /\ step[t] \in CallSteps \ {"none"} /\ step[t] \in ScoreSteps
  BY <1>1 DEF StoreSteps, CallSteps, ScoreSteps
<1>3. Candidate(t) \in Hosts /\ local[t].i <= Len(local[t].data.infos)
  <2>1. /\ local[t].j \in Nat /\ local[t].j >= 1 /\ local[t].copy = local[t].data
        /\ local[t].i <= Len(local[t].data.infos)
    BY <1>1, <1>2, Working DEF Local, StorePosition
  <2> QED
    BY <1>1, <1>2, <2>1, Position DEF Candidate, Searching
<1>4. /\ OneClient' /\ Grows
      /\ \/ step' = [step EXCEPT ![t] = "scored"] /\ pc'[Ingester] = "idle"
         \/ step' = [step EXCEPT ![t] = "rescore"]
  BY <1>1, <1>2, <1>3, Working, LookUpStep
<1>5. {"scored", "rescore"} \subseteq StoreSteps \cap ScoreSteps
  BY DEF StoreSteps, ScoreSteps
<1>6. CASE step' = [step EXCEPT ![t] = "scored"] /\ pc'[Ingester] = "idle"
  BY <1>1, <1>2, <1>3, <1>4, <1>5, <1>6, StoreMoves
<1>7. CASE step' = [step EXCEPT ![t] = "rescore"]
  BY <1>1, <1>2, <1>3, <1>4, <1>5, <1>7, StoreMoves
<1> QED
  BY <1>4, <1>6, <1>7

\* getOrCreateHostId returns to the search for the score.
LEMMA RescoredKeepsInv ==
    ASSUME Inv, NEW t \in Threads, Rescored(t)
    PROVE  Inv'
<1>1. /\ step[t] = "rescore" /\ pc[Ingester] = "idle" /\ step' = [step EXCEPT ![t] = "scored"]
      /\ UNCHANGED <<process, current_data_, local, fetches, metrics, summary, lost, registry>>
  BY DEF Rescored, Go
<1>2. step[t] \in StoreSteps /\ step[t] \in ScoreSteps /\ "scored" \in StoreSteps \cap ScoreSteps
      /\ step[t] \in CallSteps \ {"none"}
  BY <1>1 DEF StoreSteps, ScoreSteps, CallSteps
<1>3. OneClient' /\ Grows /\ pc' = pc
  BY <1>1, RegistryStep DEF Inv, registry
<1>4. local[t].i <= Len(local[t].data.infos)
  BY <1>1, <1>2, Working DEF StorePosition
<1> QED
  BY <1>1, <1>2, <1>3, <1>4, StoreMoves

\* A host with an id begins its tables; one without loses all its rows.
LEMMA BeginHostKeepsInv ==
    ASSUME Inv, NEW t \in Threads, BeginHost(t)
    PROVE  Inv'
<1> DEFINE id == Cached(Host(t))
           l == local[t]
<1>1. step[t] = "resolved" /\ UNCHANGED <<process, current_data_, fetches, metrics, summary, registry>>
  BY DEF BeginHost
<1>2. step[t] \in StoreSteps /\ step[t] \in CallSteps \ {"none"} /\ step[t] \notin RowSteps /\ step[t] # "host"
  BY <1>1 DEF StoreSteps, RowSteps, CallSteps
<1>3. OneClient' /\ Grows /\ pc' = pc /\ pc'[Ingester] = "idle"
  BY <1>1, <1>2, RegistryStep, Working DEF Inv, registry
<1>4. /\ l \in Local /\ StorePosition(t) /\ StoredSoFar(t) /\ Host(t) \in Hosts /\ l.i \in DOMAIN l.data.infos
      /\ l.i \in Nat /\ l.i >= 1 /\ l.i <= Len(l.data.infos)
      /\ \A j, k \in DOMAIN l.data.infos : l.data.infos[j] = l.data.infos[k] => j = k
      /\ DOMAIN l.data.infos = 1 .. Len(l.data.infos)
      /\ lost \in [Threads -> SUBSET (Hosts \X Tables)]
  BY <1>2, Working, Position DEF Local, StorePosition
<1>5. SummaryScored' /\ summary' \subseteq SummaryRow
  BY <1>1, <1>2, Working DEF Inv, SummaryScored
<1>6. CASE id = NoId
  <2> DEFINE l2 == [l EXCEPT !.i = @ + 1, !.all_success = FALSE]
  <2>1. /\ step' = [step EXCEPT ![t] = "host"] /\ local' = [local EXCEPT ![t] = l2]
        /\ lost' = [lost EXCEPT ![t] = @ \cup ({Host(t)} \X Tables)]
    BY <1>6 DEF BeginHost, Go, Set
  <2>2. /\ l2 \in Local /\ local'[t] = l2 /\ step'[t] = "host"
        /\ lost' \in [Threads -> SUBSET (Hosts \X Tables)] /\ lost'[t] = lost[t] \cup ({Host(t)} \X Tables)
    <3>1. l2 \in Local
      BY <1>4, LocalTypes
    <3> HIDE DEF l2
    <3>2. local'[t] = l2 /\ step'[t] = "host"
      BY <1>2, <2>1, Working
    <3>3. {Host(t)} \X Tables \subseteq Hosts \X Tables
      BY <1>4
    <3>4. /\ lost' \in [Threads -> SUBSET (Hosts \X Tables)]
          /\ lost'[t] = lost[t] \cup ({Host(t)} \X Tables)
      BY <1>4, <2>1, <3>3
    <3> QED
      BY <3>1, <3>2, <3>4
  <2>3. l2.data = l.data /\ l2.i = l.i + 1
    BY <1>4 DEF Local
  <2>4. ~l2.all_success
    BY <1>4 DEF Local
  <2>5. StorePosition(t)'
    BY <1>1, <1>4, <2>2, <2>3 DEF StorePosition, RowSteps, ScoreSteps
  <2>6. \A k \in DOMAIN l.data.infos, m \in 1 .. 5 : \A n : Passed(t, k, m, n) => Passed(t, k, m, n)'
    BY <1>2, <1>4, <2>2, <2>3 DEF Passed
  <2>7. ASSUME NEW k \in DOMAIN l.data.infos, NEW m \in 1 .. 5, NEW n \in 1 .. RowsIn[TableSeq[m]], Passed(t, k, m, n)'
        PROVE  Passed(t, k, m, n) \/ TableLost(t, k, m)'
    <3>1. k < l.i + 1
      BY <2>2, <2>3, <2>7 DEF Passed, RowSteps
    <3>2. CASE k < l.i
      BY <3>2 DEF Passed
    <3>3. CASE k = l.i
      BY <2>2, <2>3, <3>3, TableNames DEF TableLost, Host
    <3> QED
      BY <1>4, <3>1, <3>2, <3>3
  <2>8. StoredSoFar(t)'
    BY <1>1, <1>4, <2>2, <2>3, <2>4, <2>6, <2>7, StoredKeeps, RowsTyped
  <2>9. "host" \in StoreSteps /\ "host" # "done"
    BY DEF StoreSteps
  <2> QED
    BY <1>1, <1>2, <1>3, <1>5, <2>1, <2>2, <2>5, <2>8, <2>9, StoreKeeps
<1>7. CASE id # NoId
  <2> DEFINE l2 == [l EXCEPT !.host_id = id, !.table = 1, !.row = 1]
  <2>1. step' = [step EXCEPT ![t] = "rows"] /\ local' = [local EXCEPT ![t] = l2] /\ lost' = lost
    BY <1>7 DEF BeginHost, Go, Set
  <2>2. id \in Registry!HostId \cup {NoId}
    BY <1>3, <1>4 DEF Inv, OneClient, HostIds, Registry!HostId, Cached
  <2>3. l2 \in Local /\ local'[t] = l2 /\ step'[t] = "rows" /\ lost' \in [Threads -> SUBSET (Hosts \X Tables)]
    BY <1>2, <1>4, <2>1, <2>2, Working, LocalTypes
  <2>4. l2.data = l.data /\ l2.i = l.i /\ l2.host_id = id /\ l2.table = 1 /\ l2.row = 1
    BY <1>4 DEF Local
  <2>5. l2.all_success = l.all_success
    BY <1>4 DEF Local
  <2>6. Cached(Host(t))' = id /\ Host(t)' = Host(t)
    BY <1>1, <2>3, <2>4 DEF Cached, Host, registry
  <2>7. StorePosition(t)'
    BY <1>1, <1>4, <1>7, <2>3, <2>4, <2>6 DEF StorePosition, RowSteps, ScoreSteps
  <2>8. \A k \in DOMAIN l.data.infos, m \in 1 .. 5 : \A n : Passed(t, k, m, n) => Passed(t, k, m, n)'
    BY <1>2, <1>4, <2>3, <2>4 DEF Passed
  <2>9. ASSUME NEW k \in DOMAIN l.data.infos, NEW m \in 1 .. 5, NEW n \in 1 .. RowsIn[TableSeq[m]], Passed(t, k, m, n)'
        PROVE  Passed(t, k, m, n)
    BY <2>3, <2>4, <2>9 DEF Passed
  <2>10. StoredSoFar(t)'
    BY <1>1, <1>4, <2>1, <2>3, <2>4, <2>5, <2>8, <2>9, StoredKeeps, RowsTyped
  <2>11. "rows" \in StoreSteps /\ "rows" # "done"
    BY DEF StoreSteps
  <2> QED
    BY <1>1, <1>2, <1>3, <1>5, <2>1, <2>3, <2>7, <2>10, <2>11, StoreKeeps
<1> QED
  BY <1>6, <1>7

\* The last row of a table is stored, the next table begins.
LEMMA TableDoneKeepsInv ==
    ASSUME Inv, NEW t \in Threads, TableDone(t)
    PROVE  Inv'
<1> DEFINE l == local[t]
           l2 == [l EXCEPT !.table = @ + 1, !.row = 1]
<1>1. /\ step[t] = "rows" /\ l.table <= 5 /\ l.row > RowsIn[TableSeq[l.table]]
      /\ local' = [local EXCEPT ![t] = l2]
      /\ UNCHANGED <<process, current_data_, step, fetches, metrics, summary, lost, registry>>
  BY DEF TableDone, Set, Table
<1>2. step[t] \in StoreSteps /\ step[t] \in CallSteps \ {"none"} /\ step[t] \in RowSteps /\ step[t] \notin ScoreSteps
      /\ step[t] # "host"
  BY <1>1 DEF StoreSteps, RowSteps, CallSteps, ScoreSteps
<1>3. OneClient' /\ Grows /\ pc' = pc /\ pc'[Ingester] = "idle"
  BY <1>1, <1>2, RegistryStep, Working DEF Inv, registry
<1>4. /\ l \in Local /\ StorePosition(t) /\ StoredSoFar(t)
      /\ l.table \in 1 .. 5 /\ l.row \in Nat
      /\ lost' \in [Threads -> SUBSET (Hosts \X Tables)]
      /\ step' = [step EXCEPT ![t] = step[t]]
  BY <1>1, <1>2, Working DEF Local, StorePosition, Inv, Types
<1>5. SummaryScored' /\ summary' \subseteq SummaryRow
  BY <1>1, <1>2, Working DEF Inv, SummaryScored
<1>6. l2 \in Local /\ local'[t] = l2
  BY <1>1, <1>2, <1>4, Working, LocalTypes
<1>7. l2.data = l.data /\ l2.i = l.i /\ l2.host_id = l.host_id /\ l2.table = l.table + 1 /\ l2.row = 1
  BY <1>4 DEF Local
<1>8. l2.all_success = l.all_success
  BY <1>4 DEF Local
<1>9. Cached(Host(t))' = Cached(Host(t)) /\ Host(t)' = Host(t)
  BY <1>1, <1>6, <1>7 DEF Cached, Host, registry
<1>10. StorePosition(t)'
  BY <1>1, <1>2, <1>4, <1>6, <1>7, <1>9 DEF StorePosition
<1>11. \A k \in DOMAIN l.data.infos, m \in 1 .. 5 : \A n : Passed(t, k, m, n) => Passed(t, k, m, n)'
  BY <1>1, <1>4, <1>6, <1>7 DEF Passed
<1>12. ASSUME NEW k \in DOMAIN l.data.infos, NEW m \in 1 .. 5, NEW n \in 1 .. RowsIn[TableSeq[m]], Passed(t, k, m, n)'
       PROVE  Passed(t, k, m, n)
  <2>1. RowsIn[TableSeq[m]] \in Nat
    BY TableNames, PerfClientAssumption
  <2>2. \/ k < l.i
        \/ k = l.i /\ (m < l.table + 1 \/ (m = l.table + 1 /\ n < 1))
    BY <1>6, <1>7, <1>12 DEF Passed
  <2>3. CASE m = l.table /\ k = l.i
    <3>1. n < l.row
      BY <1>1, <1>4, <2>1, <2>3
    <3> QED
      BY <1>2, <2>3, <3>1 DEF Passed
  <2> QED
    BY <1>2, <1>4, <2>1, <2>2, <2>3 DEF Passed
<1>13. StoredSoFar(t)'
  BY <1>1, <1>4, <1>6, <1>7, <1>8, <1>11, <1>12, StoredKeeps, RowsTyped
<1>14. step[t] # "done"
  BY <1>1
<1> QED
  BY <1>1, <1>2, <1>3, <1>4, <1>5, <1>6, <1>10, <1>13, <1>14, StoreKeeps

\* The tables of a host are done: the summary begins, or the next host.
LEMMA HostDoneKeepsInv ==
    ASSUME Inv, NEW t \in Threads, HostDone(t)
    PROVE  Inv'
<1> DEFINE l == local[t]
<1>1. /\ step[t] = "rows" /\ l.table = 6
      /\ UNCHANGED <<process, current_data_, fetches, metrics, summary, lost, registry>>
  BY DEF HostDone
<1>2. step[t] \in StoreSteps /\ step[t] \in CallSteps \ {"none"} /\ step[t] \in RowSteps /\ step[t] # "host"
      /\ "host" \in StoreSteps /\ "score" \in StoreSteps /\ "host" \notin RowSteps /\ "score" \in RowSteps
      /\ "host" # "done" /\ "score" # "done"
  BY <1>1 DEF StoreSteps, RowSteps, CallSteps
<1>3. OneClient' /\ Grows /\ pc' = pc /\ pc'[Ingester] = "idle"
  BY <1>1, <1>2, RegistryStep, Working DEF Inv, registry
<1>4. /\ l \in Local /\ StorePosition(t) /\ StoredSoFar(t) /\ l.i \in Nat /\ current_data_ \in Data
      /\ l.i <= Len(l.data.infos) /\ l.i >= 1
      /\ DOMAIN l.data.infos = 1 .. Len(l.data.infos)
      /\ lost' \in [Threads -> SUBSET (Hosts \X Tables)]
  BY <1>1, <1>2, Working, Position DEF Local, StorePosition
<1>5. SummaryScored' /\ summary' \subseteq SummaryRow
  BY <1>1, <1>2, Working DEF Inv, SummaryScored
<1>6. CASE step' = [step EXCEPT ![t] = "host"] /\ local' = [local EXCEPT ![t] = [l EXCEPT !.i = @ + 1]]
  <2> DEFINE l2 == [l EXCEPT !.i = @ + 1]
  <2>1. l2 \in Local /\ local'[t] = l2 /\ step'[t] = "host"
    BY <1>2, <1>4, <1>6, Working, LocalTypes
  <2>2. l2.data = l.data /\ l2.i = l.i + 1
    BY <1>4 DEF Local
  <2>3. l2.all_success = l.all_success
    BY <1>4 DEF Local
  <2>4. StorePosition(t)'
    BY <1>1, <1>4, <2>1, <2>2 DEF StorePosition, RowSteps, ScoreSteps
  <2>5. \A k \in DOMAIN l.data.infos, m \in 1 .. 5 : \A n : Passed(t, k, m, n)' <=> Passed(t, k, m, n)
    BY <1>1, <1>2, <1>4, <2>1, <2>2 DEF Passed
  <2>6. StoredSoFar(t)'
    BY <1>1, <1>4, <2>1, <2>2, <2>3, <2>5, StoredKeeps, RowsTyped
  <2> QED
    BY <1>1, <1>2, <1>3, <1>4, <1>5, <1>6, <2>1, <2>4, <2>6, StoreKeeps
<1>7. CASE step' = [step EXCEPT ![t] = "score"] /\ local' = [local EXCEPT ![t] = [l EXCEPT !.copy = current_data_, !.j = 1]]
  <2> DEFINE l2 == [l EXCEPT !.copy = current_data_, !.j = 1]
  <2>1. l2 \in Local /\ local'[t] = l2 /\ step'[t] = "score"
    BY <1>2, <1>4, <1>7, Working, LocalTypes
  <2>2. /\ l2.data = l.data /\ l2.i = l.i /\ l2.host_id = l.host_id /\ l2.table = l.table /\ l2.row = l.row
        /\ l2.copy = current_data_ /\ l2.j = 1
    BY <1>4 DEF Local
  <2>3. l2.all_success = l.all_success
    BY <1>4 DEF Local
  <2>4. Cached(Host(t))' = Cached(Host(t)) /\ Host(t)' = Host(t)
    BY <1>1, <2>1, <2>2 DEF Cached, Host, registry
  <2>5. StorePosition(t)'
    BY <1>1, <1>2, <1>4, <2>1, <2>2, <2>4 DEF StorePosition
  <2>6. \A k \in DOMAIN l.data.infos, m \in 1 .. 5 : \A n : Passed(t, k, m, n)' <=> Passed(t, k, m, n)
    BY <1>1, <1>2, <1>4, <2>1, <2>2 DEF Passed
  <2>7. StoredSoFar(t)'
    BY <1>1, <1>4, <2>1, <2>2, <2>3, <2>6, StoredKeeps, RowsTyped
  <2> QED
    BY <1>1, <1>2, <1>3, <1>4, <1>5, <1>7, <2>1, <2>5, <2>7, StoreKeeps
<1> QED
  BY <1>6, <1>7 DEF HostDone, Go, Set

\* Where a thread stands that stores a row.
LEMMA InRowsFacts ==
    ASSUME Inv, NEW t \in Threads, InRows(t)
    PROVE  /\ step[t] \in StoreSteps /\ step[t] \in CallSteps \ {"none"} /\ step[t] \in RowSteps
           /\ step[t] \notin ScoreSteps /\ step[t] # "host" /\ step[t] # "done" /\ step[t] # "store"
           /\ local[t] \in Local /\ StorePosition(t) /\ StoredSoFar(t)
           /\ local[t].table \in 1 .. 5 /\ local[t].row \in Nat \ {0} /\ local[t].i \in Nat
           /\ local[t].row <= RowsIn[TableSeq[local[t].table]] /\ Table(t) = TableSeq[local[t].table]
           /\ local[t].i \in DOMAIN local[t].data.infos /\ Host(t) \in Hosts /\ Host(t) = local[t].data.infos[local[t].i]
           /\ DOMAIN local[t].data.infos \subseteq Nat
           /\ \A j, k \in DOMAIN local[t].data.infos : local[t].data.infos[j] = local[t].data.infos[k] => j = k
           /\ step = [step EXCEPT ![t] = step[t]]
           /\ mysql_conn_ = "open" /\ pc[Ingester] = "idle"
<1>1. step[t] = "rows" /\ local[t].table <= 5 /\ local[t].row <= RowsIn[Table(t)]
  BY DEF InRows
<1>2. /\ step[t] \in StoreSteps /\ step[t] \in CallSteps \ {"none"} /\ step[t] \in RowSteps
      /\ step[t] \notin ScoreSteps /\ step[t] # "host" /\ step[t] # "done" /\ step[t] # "store"
      /\ step[t] \notin {"resolve", "rescore"}
  BY <1>1 DEF StoreSteps, RowSteps, CallSteps, ScoreSteps
<1>3. local[t] \in Local /\ StorePosition(t) /\ StoredSoFar(t) /\ pc[Ingester] = "idle"
  BY <1>2, Working
<1>4. local[t].table \in 1 .. 5 /\ local[t].row \in Nat \ {0} /\ local[t].i \in Nat
  BY <1>1, <1>3 DEF Local
<1>5. /\ mysql_conn_ = "open" /\ Host(t) \in Hosts /\ local[t].i \in DOMAIN local[t].data.infos
      /\ DOMAIN local[t].data.infos \subseteq Nat
      /\ \A j, k \in DOMAIN local[t].data.infos : local[t].data.infos[j] = local[t].data.infos[k] => j = k
  BY <1>2, Position
<1>6. step = [step EXCEPT ![t] = step[t]]
  BY DEF Inv, Types
<1> QED
  BY <1>1, <1>2, <1>3, <1>4, <1>5, <1>6 DEF Table, Host

\* A new row refers to its host, and no row is like it.
LEMMA NewRowKeeps ==
    ASSUME Inv, NEW t \in Threads, InRows(t), metrics' \in {metrics, metrics \cup {NewRow(t)}},
           UNCHANGED <<step, current_data_, fetches>>, Grows
    PROVE  metrics' \subseteq Row /\ DataSound' /\ RowsAttributed' /\ StoredOncePerFetch'
<1> DEFINE r0 == NewRow(t)
           l == local[t]
<1>1. /\ l \in Local /\ StorePosition(t) /\ StoredSoFar(t) /\ step[t] \in RowSteps /\ step[t] # "host"
      /\ l.table \in 1 .. 5 /\ l.row \in Nat \ {0} /\ l.i \in DOMAIN l.data.infos /\ Host(t) \in Hosts
      /\ Host(t) = l.data.infos[l.i] /\ Table(t) = TableSeq[l.table] /\ l.i \in Nat
      /\ \A j, k \in DOMAIN l.data.infos : l.data.infos[j] = l.data.infos[k] => j = k
      /\ step[t] \in CallSteps \ {"none"} /\ step[t] \in StoreSteps /\ step[t] # "store"
  BY InRowsFacts
<1>2. /\ r0.table = TableSeq[l.table] /\ r0.host_id = l.host_id /\ r0.host = Host(t) /\ r0.row = l.row
      /\ r0.ver = l.data.ver
  BY <1>1 DEF NewRow
<1>3. IsFiniteSet(metrics) /\ metrics \subseteq Row /\ fetches \in Nat
  BY <1>1, Working DEF DataSound
<1>4. l.host_id # NoId /\ l.host_id = Cached(Host(t)) /\ l.data = current_data_ /\ l.data.ver \in 1 .. MaxFetch
  BY <1>1, Position DEF StorePosition
<1>5. r0 \in Row
  <2> DEFINE S == {r \in metrics : r.table = Table(t)}
  <2>1. IsFiniteSet(S) /\ Cardinality(S) \in Nat
    BY <1>3, FS_Subset, FS_CardinalityType
  <2>2. Cardinality(S) + 1 \in Nat \ {0}
    BY <2>1
  <2>3. l.host_id \in Registry!HostId
    BY <1>1, <1>4 DEF Local
  <2>4. Table(t) \in Tables
    BY <1>1, TableNames
  <2> HIDE DEF S
  <2>5. r0 = [id |-> Cardinality(S) + 1, table |-> Table(t), host_id |-> l.host_id,
              host |-> Host(t), sample |-> l.data.samples[Host(t)], row |-> l.row, ver |-> l.data.ver]
    BY DEF NewRow, S
  <2>6. l.data.samples[Host(t)] \in 0 .. MaxFetch
    BY <1>1 DEF Local, Data
  <2> QED
    BY <1>1, <1>4, <2>2, <2>3, <2>4, <2>5, <2>6 DEF Row
<1>6. r0.host_id \in host_info /\ r0.host_id.name = r0.host
  BY <1>1, <1>2, <1>4 DEF Inv, OneClient
<1>7. ASSUME NEW r \in metrics, r.host = r0.host, r.table = r0.table, r.row = r0.row, r.ver = r0.ver
      PROVE  FALSE
  <2>1. PICK k \in DOMAIN l.data.infos, m \in 1 .. 5 :
           r.host = l.data.infos[k] /\ r.table = TableSeq[m] /\ Passed(t, k, m, r.row)
    BY <1>1, <1>2, <1>7 DEF StoredSoFar
  <2>2. k = l.i /\ m = l.table
    <3>1. l.data.infos[k] = l.data.infos[l.i] /\ TableSeq[m] = TableSeq[l.table]
      BY <1>1, <1>2, <1>7, <2>1
    <3>2. k = l.i
      BY <1>1, <3>1
    <3>3. m = l.table
      BY <1>1, <3>1, TableNames
    <3> QED
      BY <3>2, <3>3
  <2>3. ~(k < l.i) /\ ~(m < l.table) /\ ~(r.row < l.row)
    BY <1>1, <1>2, <1>7, <2>2
  <2> QED
    BY <2>1, <2>3 DEF Passed
<1>8. r0.ver <= fetches
  BY <1>2, <1>4 DEF Inv, DataSound
<1> HIDE DEF r0
<1>9. metrics' \subseteq Row
  BY <1>3, <1>5 DEF r0
<1>10. metrics' \subseteq metrics \cup {r0} /\ IsFiniteSet(metrics')
  <2>1. IsFiniteSet(metrics \cup {r0})
    BY <1>3, FS_AddElement
  <2> QED
    BY <1>3, <2>1 DEF r0
<1>11. DataSound'
  <2>1. \A u \in Threads : step[u] # "store"
    BY <1>1, Alone
  <2> QED
    BY <1>8, <1>10, <2>1 DEF Inv, DataSound
<1>12. RowsAttributed'
  BY <1>6, <1>10 DEF Inv, RowsAttributed, Grows
<1>13. StoredOncePerFetch'
  <2>1. \A r1, r2 \in metrics :
           /\ r1.host = r2.host /\ r1.table = r2.table /\ r1.row = r2.row /\ r1.sample = r2.sample
           /\ r1 # r2
           => r1.ver # r2.ver
    BY DEF Inv, StoredOncePerFetch
  <2> QED
    BY <1>7, <1>10, <2>1 DEF StoredOncePerFetch
<1> QED
  BY <1>9, <1>11, <1>12, <1>13

\* An INSERT that succeeds adds a row of this host and of this fetch.
LEMMA InsertRowKeepsInv ==
    ASSUME Inv, NEW t \in Threads, InsertRow(t)
    PROVE  Inv'
<1> DEFINE l == local[t]
           l2 == [l EXCEPT !.row = @ + 1]
<1>1. /\ InRows(t) /\ metrics' = metrics \cup {NewRow(t)} /\ local' = [local EXCEPT ![t] = l2]
      /\ UNCHANGED <<process, current_data_, step, fetches, summary, lost, registry>>
  BY DEF InsertRow, Set
<1>2. /\ step[t] \in StoreSteps /\ step[t] \in CallSteps \ {"none"} /\ step[t] \in RowSteps /\ step[t] \notin ScoreSteps
      /\ step[t] # "host" /\ step[t] # "done"
      /\ l \in Local /\ StorePosition(t) /\ StoredSoFar(t) /\ l.i \in DOMAIN l.data.infos /\ l.i \in Nat
      /\ l.table \in 1 .. 5 /\ l.row \in Nat \ {0} /\ Host(t) = l.data.infos[l.i] /\ Table(t) = TableSeq[l.table]
      /\ step = [step EXCEPT ![t] = step[t]] /\ mysql_conn_ = "open" /\ pc[Ingester] = "idle"
      /\ DOMAIN l.data.infos \subseteq Nat
  BY <1>1, InRowsFacts
<1>3. OneClient' /\ Grows /\ pc' = pc
  BY <1>1, RegistryStep DEF Inv, registry
<1>4. metrics' \subseteq Row /\ DataSound' /\ RowsAttributed' /\ StoredOncePerFetch'
  BY <1>1, <1>3, NewRowKeeps
<1>5. /\ SummaryScored' /\ summary' \subseteq SummaryRow /\ current_data_' \in Data /\ fetches' \in 0 .. MaxFetch
      /\ lost' \in [Threads -> SUBSET (Hosts \X Tables)]
  BY <1>1, <1>2, Working DEF Inv, SummaryScored
<1>6. l2 \in Local /\ local'[t] = l2 /\ local' \in [Threads -> Local]
  BY <1>1, <1>2, Working, LocalTypes
<1>7. /\ l2.data = l.data /\ l2.i = l.i /\ l2.host_id = l.host_id /\ l2.table = l.table /\ l2.row = l.row + 1
  BY <1>2 DEF Local
<1>8. l2.all_success = l.all_success
  BY <1>2 DEF Local
<1>9. Cached(Host(t))' = Cached(Host(t)) /\ Host(t)' = Host(t)
  BY <1>1, <1>6, <1>7 DEF Cached, Host, registry
<1>10. StorePosition(t)'
  BY <1>1, <1>2, <1>6, <1>7, <1>9 DEF StorePosition
<1>11. \A k \in DOMAIN l.data.infos, m \in 1 .. 5 : \A n \in Nat : Passed(t, k, m, n) => Passed(t, k, m, n)'
  BY <1>1, <1>2, <1>6, <1>7 DEF Passed
<1>12. /\ NewRow(t).host = Host(t) /\ NewRow(t).table = Table(t) /\ NewRow(t).row = l.row /\ NewRow(t).ver = l.data.ver
  BY DEF NewRow
<1>13. ASSUME NEW r \in metrics', r \notin metrics
       PROVE  \E k \in DOMAIN l.data.infos, m \in 1 .. 5 :
                 r.host = l.data.infos[k] /\ r.table = TableSeq[m] /\ Passed(t, k, m, r.row)'
  <2>1. r = NewRow(t)
    BY <1>1, <1>13
  <2>2. PICK k \in DOMAIN l.data.infos, m \in 1 .. 5 : k = l.i /\ m = l.table
    BY <1>2
  <2>3. Passed(t, k, m, r.row)'
    BY <1>1, <1>2, <1>6, <1>7, <1>12, <2>1, <2>2 DEF Passed
  <2>4. r.host = l.data.infos[k] /\ r.table = TableSeq[m]
    BY <1>2, <1>12, <2>1, <2>2
  <2> QED
    BY <2>3, <2>4
<1>14. ASSUME NEW k \in DOMAIN l.data.infos, NEW m \in 1 .. 5, NEW n \in 1 .. RowsIn[TableSeq[m]], Passed(t, k, m, n)'
       PROVE  Passed(t, k, m, n) \/ Stored(t, k, m, n)'
  <2>1. \/ k < l.i
        \/ k = l.i /\ (m < l.table \/ (m = l.table /\ n < l.row + 1))
    BY <1>6, <1>7, <1>14 DEF Passed
  <2>2. CASE k = l.i /\ m = l.table /\ n = l.row
    <3>1. NewRow(t) \in metrics'
      BY <1>1
    <3> QED
      BY <1>2, <1>6, <1>7, <1>12, <2>2, <3>1 DEF Stored
  <2>3. n \in Int
    OBVIOUS
  <2>4. n < l.row + 1 => n < l.row \/ n = l.row
    BY <1>2, <2>3
  <2> QED
    BY <1>2, <2>1, <2>2, <2>4 DEF Passed
<1>15. StoredSoFar(t)'
  BY <1>1, <1>2, <1>6, <1>7, <1>8, <1>11, <1>13, <1>14, StoredKeeps, RowsTyped
<1> QED
  BY <1>1, <1>2, <1>3, <1>4, <1>5, <1>6, <1>10, <1>15, WorkKeeps

\* An INSERT that fails ends its table, which counts as lost.
LEMMA InsertRowFailsKeepsInv ==
    ASSUME Inv, NEW t \in Threads, InsertRowFails(t)
    PROVE  Inv'
<1> DEFINE l == local[t]
           l2 == [l EXCEPT !.table = @ + 1, !.row = 1, !.all_success = FALSE]
<1>1. /\ InRows(t) /\ metrics' \in {metrics, metrics \cup {NewRow(t)}} /\ local' = [local EXCEPT ![t] = l2]
      /\ lost' = [lost EXCEPT ![t] = @ \cup {<<Host(t), Table(t)>>}] /\ Fault
      /\ UNCHANGED <<process, current_data_, step, fetches, summary>>
  BY DEF InsertRowFails, Set
<1>2. /\ step[t] \in StoreSteps /\ step[t] \in CallSteps \ {"none"} /\ step[t] \in RowSteps /\ step[t] \notin ScoreSteps
      /\ step[t] # "host" /\ step[t] # "done"
      /\ l \in Local /\ StorePosition(t) /\ StoredSoFar(t) /\ l.i \in DOMAIN l.data.infos /\ l.i \in Nat
      /\ l.table \in 1 .. 5 /\ l.row \in Nat \ {0} /\ Host(t) = l.data.infos[l.i] /\ Table(t) = TableSeq[l.table]
      /\ step = [step EXCEPT ![t] = step[t]] /\ mysql_conn_ = "open" /\ pc[Ingester] = "idle"
      /\ DOMAIN l.data.infos \subseteq Nat /\ Host(t) \in Hosts /\ Table(t) \in Tables
  BY <1>1, InRowsFacts, TableNames
<1>3. OneClient' /\ Grows /\ pc' = pc /\ host_id_cache_' = host_id_cache_
  BY <1>1, RegistryStep DEF Inv, Fault
<1>4. metrics' \subseteq Row /\ DataSound' /\ RowsAttributed' /\ StoredOncePerFetch'
  BY <1>1, <1>3, NewRowKeeps
<1>5. /\ SummaryScored' /\ summary' \subseteq SummaryRow /\ current_data_' \in Data /\ fetches' \in 0 .. MaxFetch
      /\ lost \in [Threads -> SUBSET (Hosts \X Tables)]
  BY <1>1, <1>2, Working DEF Inv, SummaryScored
<1>6. /\ lost' \in [Threads -> SUBSET (Hosts \X Tables)]
      /\ lost'[t] = lost[t] \cup {<<Host(t), Table(t)>>}
  <2>1. <<Host(t), Table(t)>> \in Hosts \X Tables
    BY <1>2
  <2> QED
    BY <1>1, <1>5, <2>1
<1>7. l2 \in Local
  <2>1. l \in Local /\ l.table <= 5
    BY <1>2
  <2> QED
    BY <2>1, LocalTypes, Zenon
<1>8. /\ l2.data = l.data /\ l2.i = l.i /\ l2.host_id = l.host_id /\ l2.table = l.table + 1 /\ l2.row = 1
  BY <1>2 DEF Local
<1>9. ~l2.all_success
  BY <1>2 DEF Local
<1>10. local'[t] = l2 /\ local' \in [Threads -> Local]
  <2> HIDE DEF l2
  <2> QED
    BY <1>1, <1>2, <1>7, Working
<1> HIDE DEF l2
<1>11. Cached(Host(t))' = Cached(Host(t)) /\ Host(t)' = Host(t)
  BY <1>3, <1>10, <1>8 DEF Cached, Host
<1>12. StorePosition(t)'
  BY <1>1, <1>2, <1>10, <1>8, <1>11 DEF StorePosition
<1>13. \A k \in DOMAIN l.data.infos, m \in 1 .. 5 : \A n \in Nat : Passed(t, k, m, n) => Passed(t, k, m, n)'
  BY <1>1, <1>2, <1>10, <1>8 DEF Passed
<1>14. ASSUME NEW r \in metrics', r \notin metrics
       PROVE  \E k \in DOMAIN l.data.infos, m \in 1 .. 5 :
                 r.host = l.data.infos[k] /\ r.table = TableSeq[m] /\ Passed(t, k, m, r.row)'
  <2>1. r = NewRow(t)
    BY <1>1, <1>14
  <2>2. PICK k \in DOMAIN l.data.infos, m \in 1 .. 5 : k = l.i /\ m = l.table
    BY <1>2
  <2>3. Passed(t, k, m, r.row)'
    BY <1>1, <1>2, <1>10, <1>8, <2>2 DEF Passed
  <2>4. r.host = l.data.infos[k] /\ r.table = TableSeq[m]
    BY <1>2, <2>1, <2>2 DEF NewRow
  <2> QED
    BY <2>3, <2>4
<1>15. ASSUME NEW k \in DOMAIN l.data.infos, NEW m \in 1 .. 5, NEW n \in 1 .. RowsIn[TableSeq[m]], Passed(t, k, m, n)'
       PROVE  Passed(t, k, m, n) \/ TableLost(t, k, m)'
  <2>1. \/ k < l.i
        \/ k = l.i /\ (m < l.table + 1 \/ (m = l.table + 1 /\ n < 1))
    BY <1>10, <1>8, <1>15 DEF Passed
  <2>2. CASE k = l.i /\ m = l.table
    BY <1>2, <1>6, <1>8, <1>10, <2>2 DEF TableLost
  <2>3. n \in Int /\ ~(n < 1)
    OBVIOUS
  <2>4. m < l.table + 1 => m < l.table \/ m = l.table
    BY <1>2
  <2> QED
    BY <1>2, <2>1, <2>2, <2>3, <2>4 DEF Passed
<1>16. StoredSoFar(t)'
  BY <1>1, <1>2, <1>6, <1>8, <1>9, <1>10, <1>13, <1>14, <1>15, StoredKeeps, RowsTyped
<1> QED
  BY <1>1, <1>2, <1>3, <1>4, <1>5, <1>6, <1>10, <1>12, <1>16, WorkKeeps

\* A candidate that is another host: the search goes on to the next.
LEMMA ScoreOtherKeepsInv ==
    ASSUME Inv, NEW t \in Threads, ScoreOther(t)
    PROVE  Inv'
<1> DEFINE l == local[t]
           l2 == [l EXCEPT !.j = @ + 1]
<1>1. /\ step[t] = "scored" /\ Cached(Candidate(t)) # l.host_id
      /\ step' = [step EXCEPT ![t] = "score"] /\ local' = [local EXCEPT ![t] = l2]
      /\ UNCHANGED <<process, current_data_, fetches, metrics, summary, lost, registry>>
  BY DEF ScoreOther, Go, Set
<1>2. step[t] \in StoreSteps /\ step[t] \in CallSteps \ {"none"} /\ step[t] \in RowSteps /\ step[t] \in ScoreSteps
      /\ step[t] # "host" /\ "score" \in StoreSteps /\ "score" # "done" /\ "score" \in ScoreSteps /\ "score" \in RowSteps
  BY <1>1 DEF StoreSteps, RowSteps, CallSteps, ScoreSteps
<1>3. OneClient' /\ Grows /\ pc' = pc /\ pc'[Ingester] = "idle"
  BY <1>1, <1>2, RegistryStep, Working DEF Inv, registry
<1>4. /\ l \in Local /\ StorePosition(t) /\ StoredSoFar(t) /\ l.i \in Nat /\ l.j \in Nat
      /\ lost' \in [Threads -> SUBSET (Hosts \X Tables)]
  BY <1>1, <1>2, Working DEF Local
<1>5. SummaryScored' /\ summary' \subseteq SummaryRow
  BY <1>1, <1>2, Working DEF Inv, SummaryScored
<1>6. l2 \in Local /\ local'[t] = l2 /\ step'[t] = "score"
  BY <1>1, <1>2, <1>4, Working, LocalTypes
<1>7. /\ l2.data = l.data /\ l2.i = l.i /\ l2.host_id = l.host_id /\ l2.table = l.table /\ l2.row = l.row
      /\ l2.copy = l.copy /\ l2.j = l.j + 1
  BY <1>4 DEF Local
<1>8. l2.all_success = l.all_success
  BY <1>4 DEF Local
<1>9. Cached(Host(t))' = Cached(Host(t)) /\ Host(t)' = Host(t)
  BY <1>1, <1>6, <1>7 DEF Cached, Host, registry
<1>10. l.j # l.i
  BY <1>1, <1>2, <1>4 DEF StorePosition, Host, Candidate
<1>11. l.j + 1 >= 1 /\ l.j + 1 <= l.i
  BY <1>2, <1>4, <1>10 DEF StorePosition
<1>12. StorePosition(t)'
  BY <1>1, <1>2, <1>4, <1>6, <1>7, <1>9, <1>11 DEF StorePosition
<1>13. \A k, m, n : Passed(t, k, m, n)' <=> Passed(t, k, m, n)
  BY <1>1, <1>2, <1>6, <1>7 DEF Passed
<1>14. StoredSoFar(t)'
  BY <1>1, <1>4, <1>6, <1>7, <1>8, <1>13, StoredKeeps, RowsTyped
<1> QED
  BY <1>1, <1>2, <1>3, <1>4, <1>5, <1>6, <1>12, <1>14, StoreKeeps

\* The summary of a host gets the score of that host and of this fetch.
LEMMA WriteSummaryKeepsInv ==
    ASSUME Inv, NEW t \in Threads, WriteSummary(t)
    PROVE  Inv'
<1> DEFINE l == local[t]
           l2 == [l EXCEPT !.i = @ + 1]
           r0 == [host_id |-> l.host_id, ver |-> l.data.ver, performance_score |-> Score(t)]
<1>1. /\ \/ step[t] = "scored" /\ Cached(Candidate(t)) = l.host_id
         \/ step[t] = "score" /\ ~Searching(t)
      /\ summary' \in {summary, {r \in summary : r.host_id # l.host_id} \cup {r0}}
      /\ step' = [step EXCEPT ![t] = "host"] /\ local' = [local EXCEPT ![t] = l2]
      /\ UNCHANGED <<process, current_data_, fetches, metrics, lost, registry>>
  BY DEF WriteSummary, Go, Set
<1>2. step[t] \in StoreSteps /\ step[t] \in CallSteps \ {"none"} /\ step[t] \in RowSteps /\ step[t] \in ScoreSteps
      /\ step[t] # "host" /\ "host" \in StoreSteps /\ "host" # "done" /\ "host" \notin ScoreSteps /\ "host" \notin RowSteps
      /\ step[t] \notin {"resolve", "rescore"}
  BY <1>1 DEF StoreSteps, RowSteps, CallSteps, ScoreSteps
<1>3. OneClient' /\ Grows /\ pc' = pc /\ pc'[Ingester] = "idle"
  BY <1>1, <1>2, RegistryStep, Working DEF Inv, registry
<1>4. /\ l \in Local /\ StorePosition(t) /\ StoredSoFar(t) /\ l.i \in Nat /\ l.j \in Nat
      /\ lost' \in [Threads -> SUBSET (Hosts \X Tables)] /\ summary \subseteq SummaryRow
      /\ l.data.ver \in 1 .. MaxFetch /\ Host(t) \in Hosts /\ l.i \in DOMAIN l.data.infos
      /\ DOMAIN l.data.infos = 1 .. Len(l.data.infos)
      /\ \A k \in DOMAIN l.data.infos : l.data.infos[k] \in Hosts
  BY <1>1, <1>2, Working, Position DEF Local
<1>5. /\ l.host_id # NoId /\ l.host_id = Cached(Host(t)) /\ l.copy = l.data /\ l.j \in DOMAIN l.data.infos
      /\ l.j <= Len(l.data.infos)
  BY <1>2, <1>4 DEF StorePosition
\* The search never gets to the end.
<1>6. Searching(t)
  BY <1>4, <1>5 DEF Searching
<1>7. Candidate(t) \in Hosts /\ Cached(Candidate(t)) = l.host_id /\ l.host_id.name = Candidate(t)
  <2>1. Candidate(t) \in Hosts
    BY <1>4, <1>5 DEF Candidate
  <2>2. Cached(Candidate(t)) = l.host_id
    BY <1>1, <1>6
  <2> QED
    BY <1>5, <2>1, <2>2 DEF Inv, OneClient
<1>8. Score(t) = [host |-> Candidate(t), ver |-> l.data.ver]
  BY <1>5, <1>6 DEF Score
<1>9. r0 \in SummaryRow /\ r0.performance_score = [host |-> r0.host_id.name, ver |-> r0.ver]
  <2>1. l.host_id \in Registry!HostId
    BY <1>4, <1>5 DEF Local
  <2>2. Score(t) \in [host : Hosts, ver : 1 .. MaxFetch]
    BY <1>4, <1>7, <1>8
  <2> QED
    BY <1>4, <1>7, <1>8, <2>1, <2>2 DEF SummaryRow
<1> HIDE DEF r0
<1>10. summary' \subseteq SummaryRow /\ SummaryScored'
  <2>1. summary' \subseteq summary \cup {r0}
    BY <1>1
  <2>2. summary' \subseteq SummaryRow
    BY <1>4, <1>9, <2>1
  <2>3. SummaryScored'
    BY <1>9, <2>1 DEF Inv, SummaryScored
  <2> QED
    BY <2>2, <2>3
<1>11. l2 \in Local /\ local'[t] = l2 /\ step'[t] = "host"
  BY <1>1, <1>2, <1>4, Working, LocalTypes
<1>12. l2.data = l.data /\ l2.i = l.i + 1
  BY <1>4 DEF Local
<1>13. l2.all_success = l.all_success
  BY <1>4 DEF Local
<1>14. StorePosition(t)'
  BY <1>1, <1>2, <1>4, <1>11, <1>12 DEF StorePosition
<1>15. l.table = 6
  BY <1>2, <1>4 DEF StorePosition
<1>16. \A k \in DOMAIN l.data.infos, m \in 1 .. 5 : \A n : Passed(t, k, m, n)' <=> Passed(t, k, m, n)
  <2>1. local'[t].i = l.i + 1 /\ step'[t] \notin RowSteps /\ step[t] \in RowSteps /\ DOMAIN l.data.infos \subseteq Int
    BY <1>2, <1>4, <1>11, <1>12
  <2>2. \A k \in DOMAIN l.data.infos, m \in 1 .. 5 : (k < l.i + 1 <=> k < l.i \/ k = l.i) /\ m < l.table
    BY <1>4, <1>15, <2>1
  <2> QED
    BY <2>1, <2>2 DEF Passed
<1>17. StoredSoFar(t)'
  BY <1>1, <1>4, <1>11, <1>12, <1>13, <1>16, StoredKeeps, RowsTyped
<1> QED
  BY <1>1, <1>2, <1>3, <1>4, <1>10, <1>11, <1>14, <1>17, StoreKeeps

\* After the last host every row is stored or in a table that counts as lost.
LEMMA StoreDoneKeepsInv ==
    ASSUME Inv, NEW t \in Threads, StoreDone(t)
    PROVE  Inv'
<1> DEFINE l == local[t]
<1>1. /\ step[t] = "host" /\ l.i > Len(l.data.infos) /\ step' = [step EXCEPT ![t] = "done"]
      /\ UNCHANGED <<process, current_data_, local, fetches, metrics, summary, lost, registry>>
  BY DEF StoreDone, Go
<1>2. step[t] \in StoreSteps /\ step[t] \in CallSteps \ {"none"} /\ "done" \notin StoreSteps
  BY <1>1 DEF StoreSteps, CallSteps
<1>3. OneClient' /\ Grows /\ pc' = pc /\ pc'[Ingester] = "idle"
  BY <1>1, <1>2, RegistryStep, Working DEF Inv, registry
<1>4. /\ l \in Local /\ StoredSoFar(t) /\ l.i \in Nat /\ DOMAIN l.data.infos = 1 .. Len(l.data.infos)
      /\ l.data.infos \in Seq(Hosts)
      /\ lost' \in [Threads -> SUBSET (Hosts \X Tables)] /\ local' = [local EXCEPT ![t] = l]
      /\ summary' \subseteq SummaryRow
  BY <1>1, <1>2, Working, Position DEF Local, Data
<1>5. SummaryScored'
  BY <1>1 DEF Inv, SummaryScored
<1>6. \A k \in DOMAIN l.data.infos : k < l.i
  <2>1. Len(l.data.infos) \in Nat
    BY <1>4
  <2> QED
    BY <1>1, <1>4, <2>1
<1>7. ASSUME NEW k \in DOMAIN l.data.infos, NEW m \in 1 .. 5, NEW n \in 1 .. RowsIn[TableSeq[m]]
      PROVE  TableLost(t, k, m) \/ Stored(t, k, m, n)
  <2>1. Passed(t, k, m, n)
    BY <1>6 DEF Passed
  <2> QED
    BY <1>4, <2>1 DEF StoredSoFar
<1>8. Accounted(t)
  <2>1. ASSUME NEW k \in DOMAIN l.data.infos, NEW table \in Tables, <<l.data.infos[k], table>> \notin lost[t],
               NEW n \in 1 .. RowsIn[table]
        PROVE  \E r \in metrics : r.table = table /\ r.row = n /\ r.host = l.data.infos[k] /\ r.ver = l.data.ver
    <3>1. PICK m \in 1 .. 5 : table = TableSeq[m]
      BY TableNames
    <3>2. Stored(t, k, m, n)
      BY <1>7, <2>1, <3>1 DEF TableLost
    <3> QED
      BY <3>1, <3>2 DEF Stored
  <2>2. l.all_success => lost[t] = {}
    BY <1>4 DEF StoredSoFar
  <2> QED
    BY <2>1, <2>2 DEF Accounted
<1>9. Accounted(t)'
  BY <1>1, <1>8 DEF Accounted
<1> QED
  BY <1>1, <1>2, <1>3, <1>4, <1>5, <1>9, StoreKeeps

------------------------------------------------------------------------------
(* The steps of main, of the thread's loop, and of the registry.           *)

\* A step that leaves the rows, and every store that goes on, as they are.
LEMMA QuietStep ==
    ASSUME Inv, Grows, UNCHANGED <<current_data_, local, fetches, metrics, summary, lost>>,
           \A t \in Threads : step'[t] \in StoreSteps \cup {"store", "done"} => step'[t] = step[t]
    PROVE  DataSound' /\ Storing' /\ StoreAccounted' /\ RowsAttributed' /\ StoredOncePerFetch' /\ SummaryScored'
<1>1. DataSound' /\ RowsAttributed' /\ StoredOncePerFetch'
  BY RowsKept
<1>2. SummaryScored'
  BY DEF Inv, SummaryScored
<1>3. StoreAccounted'
  BY DEF Inv, StoreAccounted
<1>4. ASSUME NEW t \in Threads, step'[t] \in StoreSteps
      PROVE  StorePosition(t)' /\ StoredSoFar(t)'
  <2>1. step'[t] = step[t] /\ StorePosition(t) /\ StoredSoFar(t)
    BY <1>4 DEF Inv, Storing
  <2>2. StoredSoFar(t)'
    <3>1. \A k, m, n : /\ Passed(t, k, m, n)' <=> Passed(t, k, m, n)
                       /\ TableLost(t, k, m)' <=> TableLost(t, k, m)
                       /\ Stored(t, k, m, n)' <=> Stored(t, k, m, n)
      BY <2>1 DEF Passed, TableLost, Stored
    <3> QED
      BY <2>1, <3>1 DEF StoredSoFar
  <2>3. step[t] \in RowSteps => Host(t)' = Host(t) /\ Cached(Host(t))' = Cached(Host(t))
    <3>1. Host(t)' = Host(t)
      BY DEF Host
    <3>2. ASSUME step[t] \in RowSteps PROVE Host(t) \in Hosts /\ Cached(Host(t)) # NoId
      BY <1>4, <2>1, <3>2, Position DEF StorePosition, RowSteps
    <3> QED
      BY <3>1, <3>2 DEF Grows, Cached
  <2>4. StorePosition(t)'
    BY <2>1, <2>3 DEF StorePosition
  <2> QED
    BY <2>2, <2>4
<1> QED
  BY <1>1, <1>2, <1>3, <1>4 DEF Storing

\* What main and the loop do is seen in a few variables.
LEMMA ProcessStep ==
    ASSUME Inv, UNCHANGED <<current_data_, local, fetches, metrics, summary, lost>>,
           UNCHANGED registry \/ Fault,
           step' \in [Threads -> CallSteps \cup {"loop", "caught", "ended"}],
           \A t \in Threads : step'[t] # step[t] => /\ step'[t] \notin StoreSteps \cup {"store", "done"}
                                                    /\ step[t] \notin {"resolve", "rescore"},
           main_pc' \in {"construct", "test", "wait", "join", "destroy", "exited"},
           stop_flag' \in BOOLEAN, monitoring_active_' \in BOOLEAN, mysql_conn_' \in {"null", "open"},
           step'["main"] \in CallSteps,
           mysql_conn_' = mysql_conn_ \/ \A t \in Threads : step'[t] \notin StoreSteps,
           Control'
    PROVE  Inv'
<1>1. OneClient' /\ Grows /\ pc' = pc
  BY RegistryStep DEF Inv, registry, Fault
<1>2. DataSound' /\ Storing' /\ StoreAccounted' /\ RowsAttributed' /\ StoredOncePerFetch' /\ SummaryScored'
  BY <1>1, QuietStep
<1>3. Types'
  BY DEF Inv, Types
<1>4. ConnectionSafe'
  <2>1. \A t \in Threads : step'[t] \in StoreSteps => step'[t] = step[t]
    OBVIOUS
  <2>2. \A t \in Threads : step'[t] \in StoreSteps => mysql_conn_' = "open"
    BY <2>1 DEF Inv, ConnectionSafe
  <2>3. ~(step'["main"] \in StoreSteps /\ step'["monitor"] \in StoreSteps)
    BY <2>1 DEF Inv, ConnectionSafe, Threads
  <2>4. pc'[Ingester] # "idle" => \E t \in Threads : step'[t] \in {"resolve", "rescore"}
    <3>1. pc[Ingester] # "idle" => \E t \in Threads : step[t] \in {"resolve", "rescore"}
      BY DEF Inv, ConnectionSafe
    <3> QED
      BY <1>1, <3>1
  <2> QED
    BY <2>2, <2>3, <2>4 DEF ConnectionSafe
<1> QED
  BY <1>1, <1>2, <1>3, <1>4 DEF Inv

\* Types of the variables of the process, for the steps of main.
LEMMA ProcessTypes ==
    ASSUME Inv
    PROVE  /\ step \in [Threads -> CallSteps \cup {"loop", "caught", "ended"}] /\ step["main"] \in CallSteps
           /\ main_pc \in {"construct", "test", "wait", "join", "destroy", "exited"}
           /\ stop_flag \in BOOLEAN /\ monitoring_active_ \in BOOLEAN /\ mysql_conn_ \in {"null", "open"}
           /\ Control /\ "main" \in Threads /\ "monitor" \in Threads
           /\ \A t \in Threads : t = "main" \/ t = "monitor"
  BY DEF Inv, Types, Threads

\* The constructor connects, or fails to.
LEMMA ConstructKeepsInv ==
    ASSUME Inv, Construct
    PROVE  Inv'
<1>1. /\ main_pc = "construct" /\ main_pc' = "test" /\ step' = [step EXCEPT !["main"] = "fetch"]
      /\ mysql_conn_' \in {"null", "open"}
      /\ UNCHANGED <<stop_flag, monitoring_active_, current_data_, local, fetches, metrics, summary, lost, registry>>
  BY DEF Construct, Go
<1>2. step["monitor"] = "none" /\ step["main"] = "none"
  BY <1>1, ProcessTypes DEF Control
<1>3. /\ step' \in [Threads -> CallSteps \cup {"loop", "caught", "ended"}]
      /\ step'["main"] = "fetch" /\ step'["monitor"] = "none"
  BY <1>1, <1>2, ProcessTypes DEF CallSteps
<1>4. Control'
  BY <1>1, <1>3 DEF Control
<1>5. "fetch" \notin StoreSteps \cup {"store", "done"} /\ "none" \notin StoreSteps /\ "fetch" \in CallSteps
  BY DEF StoreSteps, CallSteps
<1> QED
  BY <1>1, <1>2, <1>3, <1>4, <1>5, ProcessTypes, ProcessStep

\* startMonitoring sets the thread off after the calls of main have returned.
LEMMA StartMonitoringKeepsInv ==
    ASSUME Inv, StartMonitoring
    PROVE  Inv'
<1>1. /\ main_pc = "test" /\ main_pc' = "wait" /\ step' = [main |-> "none", monitor |-> "loop"]
      /\ monitoring_active_' = TRUE /\ step["main"] = "done"
      /\ UNCHANGED <<stop_flag, mysql_conn_, current_data_, local, fetches, metrics, summary, lost, registry>>
  BY DEF StartMonitoring
<1>2. step["monitor"] = "none"
  BY <1>1, ProcessTypes DEF Control
<1>3. /\ step' \in [Threads -> CallSteps \cup {"loop", "caught", "ended"}]
      /\ step'["main"] = "none" /\ step'["monitor"] = "loop"
  BY <1>1 DEF CallSteps, Threads
<1>4. Control'
  BY <1>1, <1>3 DEF Control
<1>5. "loop" \notin StoreSteps \cup {"store", "done"} /\ "none" \notin StoreSteps \cup {"store", "done"}
      /\ "none" \in CallSteps /\ TRUE \in BOOLEAN
  BY DEF StoreSteps, CallSteps
<1> QED
  BY <1>1, <1>2, <1>3, <1>4, <1>5, ProcessTypes, ProcessStep

\* An exception in startMonitoring destroys the client before there is a thread.
LEMMA StartFailsKeepsInv ==
    ASSUME Inv, StartFails
    PROVE  Inv'
<1>1. /\ main_pc = "test" /\ main_pc' = "destroy" /\ step' = [step EXCEPT !["main"] = "none"] /\ Fault
      /\ monitoring_active_' = TRUE /\ step["main"] = "done"
      /\ UNCHANGED <<stop_flag, mysql_conn_, current_data_, local, fetches, metrics, summary, lost>>
  BY DEF StartFails, Go
<1>2. step["monitor"] = "none"
  BY <1>1, ProcessTypes DEF Control
<1>3. /\ step' \in [Threads -> CallSteps \cup {"loop", "caught", "ended"}]
      /\ step'["main"] = "none" /\ step'["monitor"] = "none"
  BY <1>1, <1>2, ProcessTypes DEF CallSteps
<1>4. Control'
  BY <1>1, <1>3 DEF Control
<1>5. "none" \notin StoreSteps \cup {"store", "done"} /\ "none" \in CallSteps /\ TRUE \in BOOLEAN
  BY DEF StoreSteps, CallSteps
<1> QED
  BY <1>1, <1>2, <1>3, <1>4, <1>5, ProcessTypes, ProcessStep

\* A signal sets a flag and nothing else.
LEMMA SignalKeepsInv ==
    ASSUME Inv, Signal
    PROVE  Inv'
<1>1. /\ stop_flag' = TRUE
      /\ UNCHANGED <<main_pc, monitoring_active_, mysql_conn_, current_data_, step, local, fetches, metrics, summary,
                     lost, registry>>
  BY DEF Signal
<1>2. Control'
  BY <1>1, ProcessTypes DEF Control
<1> QED
  BY <1>1, <1>2, ProcessTypes, ProcessStep

\* stopMonitoring clears the flag of the loop.
LEMMA StopMonitoringKeepsInv ==
    ASSUME Inv, StopMonitoring
    PROVE  Inv'
<1>1. /\ main_pc = "wait" /\ main_pc' = "join" /\ monitoring_active_' = FALSE
      /\ UNCHANGED <<stop_flag, mysql_conn_, current_data_, step, local, fetches, metrics, summary, lost, registry>>
  BY DEF StopMonitoring
<1>2. Control'
  BY <1>1, ProcessTypes DEF Control
<1> QED
  BY <1>1, <1>2, ProcessTypes, ProcessStep

\* The join returns after the thread has ended.
LEMMA JoinKeepsInv ==
    ASSUME Inv, Join
    PROVE  Inv'
<1>1. /\ main_pc = "join" /\ main_pc' = "destroy" /\ step["monitor"] = "ended"
      /\ UNCHANGED <<stop_flag, monitoring_active_, mysql_conn_, current_data_, step, local, fetches, metrics, summary,
                     lost, registry>>
  BY DEF Join
<1>2. Control'
  BY <1>1, ProcessTypes DEF Control
<1> QED
  BY <1>1, <1>2, ProcessTypes, ProcessStep

\* The destructor closes the connection when no thread uses it.
LEMMA DestroyKeepsInv ==
    ASSUME Inv, Destroy
    PROVE  Inv'
<1>1. /\ main_pc = "destroy" /\ main_pc' = "exited" /\ monitoring_active_' = FALSE /\ mysql_conn_' = "null"
      /\ UNCHANGED <<stop_flag, current_data_, step, local, fetches, metrics, summary, lost, registry>>
  BY DEF Destroy
<1>2. step["main"] = "none" /\ step["monitor"] \in {"none", "ended"}
  BY <1>1, ProcessTypes DEF Control
<1>3. Control'
  BY <1>1, <1>2 DEF Control
<1>4. \A t \in Threads : step'[t] \notin StoreSteps
  BY <1>1, <1>2, ProcessTypes DEF StoreSteps
<1> QED
  BY <1>1, <1>3, <1>4, ProcessTypes, ProcessStep

\* The monitoring thread is there only between its start and its join.
LEMMA LoopStep ==
    ASSUME Inv, step["monitor"] \in {"loop", "done", "caught"}, NEW s \in {"loop", "fetch", "ended"},
           step' = [step EXCEPT !["monitor"] = s],
           UNCHANGED <<process, current_data_, local, fetches, metrics, summary, lost, registry>>
    PROVE  Inv'
<1>1. /\ step' \in [Threads -> CallSteps \cup {"loop", "caught", "ended"}]
      /\ step'["main"] = step["main"] /\ step'["monitor"] = s
  BY ProcessTypes DEF CallSteps
<1>2. Control'
  BY <1>1, ProcessTypes DEF Control, process
<1>3. \A t \in Threads : step'[t] # step[t] => /\ step'[t] \notin StoreSteps \cup {"store", "done"}
                                               /\ step[t] \notin {"resolve", "rescore"}
  BY <1>1, ProcessTypes DEF StoreSteps
<1> QED
  BY <1>1, <1>2, <1>3, ProcessTypes, ProcessStep DEF process

\* An exception within the store ends the call (and, in the thread, the sleep follows).
LEMMA StoreThrowsKeepsInv ==
    ASSUME Inv, NEW t \in Threads, StoreThrows(t)
    PROVE  Inv'
<1>1. /\ step[t] \in {"host", "rows", "score"} /\ Fault
      /\ UNCHANGED <<stop_flag, monitoring_active_, mysql_conn_, current_data_, local, fetches, metrics, summary, lost>>
  BY DEF StoreThrows
<1>2. CASE t = "main"
  <2>1. main_pc' = "destroy" /\ step' = [step EXCEPT !["main"] = "none"]
    BY <1>2 DEF StoreThrows, Go
  <2>2. step["monitor"] = "none"
    BY <1>1, <1>2, ProcessTypes DEF Control
  <2>3. /\ step' \in [Threads -> CallSteps \cup {"loop", "caught", "ended"}]
        /\ step'["main"] = "none" /\ step'["monitor"] = "none"
    BY <2>1, <2>2, ProcessTypes DEF CallSteps
  <2>4. Control'
    BY <2>1, <2>3 DEF Control
  <2>5. "none" \notin StoreSteps \cup {"store", "done"} /\ "none" \in CallSteps
    BY DEF StoreSteps, CallSteps
  <2> QED
    BY <1>1, <1>2, <2>1, <2>2, <2>3, <2>4, <2>5, ProcessTypes, ProcessStep
<1>3. CASE t = "monitor"
  <2>1. main_pc' = main_pc /\ step' = [step EXCEPT !["monitor"] = "caught"]
    BY <1>3 DEF StoreThrows, Go
  <2>2. /\ step' \in [Threads -> CallSteps \cup {"loop", "caught", "ended"}]
        /\ step'["main"] = step["main"] /\ step'["monitor"] = "caught"
    BY <2>1, ProcessTypes
  <2>3. Control'
    BY <1>1, <1>3, <2>1, <2>2, ProcessTypes DEF Control
  <2>4. "caught" \notin StoreSteps \cup {"store", "done"}
    BY DEF StoreSteps
  <2> QED
    BY <1>1, <1>3, <2>1, <2>2, <2>3, <2>4, ProcessTypes, ProcessStep
<1> QED
  BY <1>2, <1>3, ProcessTypes

\* A call that is over stays over until the next.
LEMMA RegistryStaysIdle ==
    ASSUME OneClient, pc[Ingester] = "idle",
           Registry!Progress(Ingester) \/ Registry!Failure(Ingester) \/ Registry!Orphan \/ Registry!Tick
    PROVE  pc'[Ingester] = "idle"
<1>1. ~Registry!Progress(Ingester)
  BY DEF Registry!Progress, Registry!SelectHit, Registry!SelectMiss, Registry!SendInsert, Registry!ExecInsert,
         Registry!InsertOk, Registry!InsertDuplicate
<1>2. ~Registry!Failure(Ingester)
  BY DEF Registry!Failure, Registry!SelectFail, Registry!InsertRejected, Registry!InsertLost
<1>3. Registry!Orphan \/ Registry!Tick => pc' = pc
  BY DEF Registry!Orphan, Registry!Tick
<1> QED
  BY <1>1, <1>2, <1>3

\* A step within getOrCreateHostId, or one of MySQL or of the clock.
LEMMA RegistryKeepsInv ==
    ASSUME Inv, RegistryCall \/ RegistryEnvironment
    PROVE  Inv'
<1>1. /\ Registry!Progress(Ingester) \/ Registry!Failure(Ingester) \/ Registry!Orphan \/ Registry!Tick
      /\ UNCHANGED <<process, current_data_, step, local, fetches, metrics, summary, lost>>
  BY DEF RegistryCall, RegistryEnvironment
<1>2. OneClient' /\ Grows
  BY <1>1, RegistryStep DEF Inv
<1>3. pc'[Ingester] # "idle" => pc[Ingester] # "idle"
  BY <1>1, RegistryStaysIdle DEF Inv
<1>4. DataSound' /\ Storing' /\ StoreAccounted' /\ RowsAttributed' /\ StoredOncePerFetch' /\ SummaryScored'
  BY <1>1, <1>2, QuietStep
<1>5. Types' /\ Control'
  BY <1>1 DEF Inv, Types, Control, process
<1>6. ConnectionSafe'
  BY <1>1, <1>3 DEF Inv, ConnectionSafe, process
<1> QED
  BY <1>2, <1>4, <1>5, <1>6 DEF Inv

------------------------------------------------------------------------------
(* The invariant.                                                          *)

\* A process that has not begun satisfies the invariant.
LEMMA InitInv == Init => Inv
<1> USE PerfClientAssumption
<1> SUFFICES ASSUME Init PROVE Inv
  OBVIOUS
<1>1. /\ main_pc = "construct" /\ stop_flag = FALSE /\ monitoring_active_ = FALSE /\ mysql_conn_ = "null"
      /\ current_data_ = Empty /\ fetches = 0 /\ metrics = {} /\ summary = {}
      /\ step = [t \in Threads |-> "none"] /\ local = [t \in Threads |-> NoLocal] /\ lost = [t \in Threads |-> {}]
      /\ Registry!Init
  BY DEF Init
<1>2. step["main"] = "none" /\ step["monitor"] = "none" /\ \A t \in Threads : step[t] = "none"
  BY <1>1 DEF Threads
<1>3. Types
  <2>1. Empty \in Data
    BY DEF Empty, Data
  <2>2. local \in [Threads -> Local] /\ lost \in [Threads -> SUBSET (Hosts \X Tables)]
    BY <1>1, LocalTypes
  <2>3. step \in [Threads -> CallSteps \cup {"loop", "caught", "ended"}]
    BY <1>1 DEF CallSteps
  <2>4. step["main"] \in CallSteps
    BY <1>2 DEF CallSteps
  <2>5. 0 \in 0 .. MaxFetch
    OBVIOUS
  <2>6. stop_flag \in BOOLEAN /\ monitoring_active_ \in BOOLEAN
    BY <1>1, Zenon
  <2> QED
    BY <1>1, <2>1, <2>2, <2>3, <2>4, <2>5, <2>6 DEF Types
<1>4. OneClient
  <2>1. /\ now = 0 /\ host_info = {} /\ orphans = {} /\ faults = 0 /\ raced = {}
        /\ pc = [c \in {Ingester} |-> "idle"] /\ host_name = [c \in {Ingester} |-> NoId]
        /\ new_host_id = [c \in {Ingester} |-> NoId]
        /\ host_id_cache_ = [c \in {Ingester} |-> [h \in Hosts |-> NoId]]
    BY <1>1 DEF Registry!Init, Registry!EmptyCache
  <2>2. \A h \in Hosts : Cached(h) = NoId
    BY <2>1 DEF Cached
  <2> QED
    BY <2>1, <2>2 DEF OneClient
<1>5. Control /\ ConnectionSafe
  <2>1. pc[Ingester] = "idle"
    BY <1>1 DEF Registry!Init
  <2> QED
    BY <1>1, <1>2, <2>1 DEF Control, ConnectionSafe, StoreSteps
<1>6. DataSound
  <2>1. DOMAIN Empty.infos = {} /\ Empty.ver = 0
    BY DEF Empty
  <2> QED
    BY <1>1, <1>2, <2>1, FS_EmptySet DEF DataSound
<1>7. Storing /\ StoreAccounted
  BY <1>2 DEF Storing, StoreAccounted, StoreSteps
<1>8. RowsAttributed /\ StoredOncePerFetch /\ SummaryScored
  BY <1>1 DEF RowsAttributed, StoredOncePerFetch, SummaryScored
<1> QED
  BY <1>3, <1>4, <1>5, <1>6, <1>7, <1>8 DEF Inv

\* Every step of fetchMonitorData and of storeToDatabase keeps the invariant.
LEMMA WorkKeepsInv ==
    ASSUME Inv, NEW t \in Threads, Work(t)
    PROVE  Inv'
  BY FetchServedKeepsInv, FetchErrorKeepsInv, StoreBeginKeepsInv, NextHostKeepsInv, ResolvedKeepsInv,
     BeginHostKeepsInv, InsertRowKeepsInv, TableDoneKeepsInv, HostDoneKeepsInv, ScoreLookUpKeepsInv,
     RescoredKeepsInv, ScoreOtherKeepsInv, WriteSummaryKeepsInv, StoreDoneKeepsInv DEF Work

\* Every step of the system keeps the invariant.
LEMMA NextInv == Inv /\ [Next]_vars => Inv'
<1> SUFFICES ASSUME Inv, [Next]_vars PROVE Inv'
  OBVIOUS
<1>1. CASE MainStep
  BY <1>1, ProcessTypes, ConstructKeepsInv, StartMonitoringKeepsInv, StopMonitoringKeepsInv, JoinKeepsInv,
     DestroyKeepsInv, WorkKeepsInv DEF MainStep
<1>2. CASE MonitorStep
  <2>1. CASE LoopHead
    <3>1. PICK s \in {"fetch", "ended"} : step' = [step EXCEPT !["monitor"] = s]
      BY <2>1 DEF LoopHead, Go
    <3> QED
      BY <2>1, <3>1, LoopStep DEF LoopHead
  <2>2. CASE Sleep
    BY <2>2, LoopStep DEF Sleep, Go
  <2>3. CASE Work("monitor")
    BY <2>3, ProcessTypes, WorkKeepsInv
  <2> QED
    BY <1>2, <2>1, <2>2, <2>3 DEF MonitorStep
<1>3. CASE RegistryCall \/ RegistryEnvironment
  BY <1>3, RegistryKeepsInv
<1>4. CASE Failure
  BY <1>4, StartFailsKeepsInv, FetchThrowsKeepsInv, InsertRowFailsKeepsInv, StoreThrowsKeepsInv DEF Failure
<1>5. CASE Signal
  BY <1>5, SignalKeepsInv
<1>6. CASE UNCHANGED vars
  <2>1. /\ UNCHANGED <<process, current_data_, step, local, fetches, metrics, summary, lost, registry>>
    BY <1>6 DEF vars
  <2>2. Control'
    BY <2>1, ProcessTypes DEF Control, process
  <2> QED
    BY <2>1, <2>2, ProcessTypes, ProcessStep DEF process
<1> QED
  BY <1>1, <1>2, <1>3, <1>4, <1>5, <1>6 DEF Next

\* The inductive invariant holds in every reachable state.
THEOREM Invariance == Spec => []IInv
<1>1. Init => Inv
  BY InitInv
<1>2. Inv /\ [Next]_vars => Inv'
  BY NextInv
<1>3. Inv => IInv
  BY InvParts
<1> QED
  BY <1>1, <1>2, <1>3, PTL DEF Spec

\* Every variable of the process and of the registry has its type.
THEOREM TypeCorrect == Spec => []TypeOK
<1>1. IInv => TypeOK
  BY DEF IInv
<1> QED
  BY <1>1, Invariance, PTL

\* The connection that no mutex protects is used by one thread at a time, while
\* it is open, and no call of the registry is left behind.
THEOREM ConnectionIsSafe == Spec => []ConnectionSafe
<1>1. IInv => ConnectionSafe
  BY DEF IInv
<1> QED
  BY <1>1, Invariance, PTL

\* A store that has ended has stored every row but those of the tables in which
\* a statement failed, and reports success only if there were none.
THEOREM StoresAccounted == Spec => []StoreAccounted
<1>1. IInv => StoreAccounted
  BY DEF IInv
<1> QED
  BY <1>1, Invariance, PTL

\* Every metric row refers to the row of host_info of the host it was taken on.
THEOREM RowsAreAttributed == Spec => []RowsAttributed
<1>1. IInv => RowsAttributed
  BY DEF IInv
<1> QED
  BY <1>1, Invariance, PTL

\* What one fetch got is stored once: the rows of a sample that is in the tables
\* twice come from two fetches that the server answered with it
\* (performance_server.cpp:83-101, 873-880).
THEOREM AnswersStoredOnce == Spec => []StoredOncePerFetch
<1>1. IInv => StoredOncePerFetch
  BY DEF IInv
<1> QED
  BY <1>1, Invariance, PTL

\* The summary of a host has the score of that host, of the sample just stored.
THEOREM SummariesScored == Spec => []SummaryScored
<1>1. IInv => SummaryScored
  BY DEF IInv
<1> QED
  BY <1>1, Invariance, PTL

------------------------------------------------------------------------------
(* The ingester as a user of the registry.                                 *)

HR == INSTANCE HostRegistry_proofs WITH Clients <- {Ingester}, Names <- Hosts

\* The names that this process looks up are hosts, so that its calls are those
\* of HostRegistry, and a thread works on one at a time.
LEMMA LooksUpHosts ==
    ASSUME Inv, NEW t \in Threads, NextHost(t) \/ ScoreLookUp(t)
    PROVE  (\E h \in Hosts : Registry!Call(Ingester, h)) \/ UNCHANGED registry
<1>1. CASE NextHost(t)
  <2>1. step[t] = "host" /\ local[t].i <= Len(local[t].data.infos)
    BY <1>1 DEF NextHost
  <2>2. step[t] \in StoreSteps /\ step[t] \in CallSteps \ {"none"}
    BY <2>1 DEF StoreSteps, CallSteps
  <2>3. local[t].i \in Nat /\ local[t].i >= 1
    BY <2>2, Working DEF Local, StorePosition
  <2>4. local[t].data.infos[local[t].i] \in Hosts
    BY <2>1, <2>2, <2>3, Position
  <2> QED
    BY <1>1, <2>4 DEF NextHost, LookUp
<1>2. CASE ScoreLookUp(t)
  <2>1. step[t] = "score" /\ Searching(t)
    BY <1>2 DEF ScoreLookUp
  <2>2. step[t] \in StoreSteps /\ step[t] \in CallSteps \ {"none"} /\ step[t] \in ScoreSteps
    BY <2>1 DEF StoreSteps, CallSteps, ScoreSteps
  <2>3. /\ local[t].j \in Nat /\ local[t].j >= 1 /\ local[t].copy = local[t].data
        /\ local[t].i <= Len(local[t].data.infos)
    BY <2>1, <2>2, Working DEF Local, StorePosition
  <2>4. Candidate(t) \in Hosts
    BY <2>1, <2>2, <2>3, Position DEF Candidate, Searching
  <2> QED
    BY <1>2, <2>4 DEF ScoreLookUp, LookUp
<1> QED
  BY <1>1, <1>2

\* What a step of the ingester is to the registry.
LEMMA StepOfRegistry == Inv /\ [Next]_vars => Registry!Next \/ Fault \/ UNCHANGED registry
<1> SUFFICES ASSUME Inv, [Next]_vars PROVE Registry!Next \/ Fault \/ UNCHANGED registry
  OBVIOUS
<1>1. (\E h \in Hosts : Registry!Call(Ingester, h)) => Registry!Next
  BY DEF Registry!Next
<1>2. Registry!Progress(Ingester) \/ Registry!Failure(Ingester) \/ Registry!Orphan \/ Registry!Tick => Registry!Next
  BY DEF Registry!Next
<1>3. ASSUME NEW t \in Threads, Work(t) PROVE Registry!Next \/ UNCHANGED registry
  <2>1. CASE NextHost(t) \/ ScoreLookUp(t)
    BY <1>1, <2>1, LooksUpHosts
  <2>2. CASE ~(NextHost(t) \/ ScoreLookUp(t))
    BY <1>3, <2>2 DEF Work, FetchServed, FetchError, StoreBegin, Resolved, BeginHost, InsertRow, TableDone, HostDone,
                      Rescored, ScoreOther, WriteSummary, StoreDone
  <2> QED
    BY <2>1, <2>2
<1>4. CASE MainStep
  <2>1. CASE Work("main")
    BY <1>3, <2>1, ProcessTypes
  <2>2. CASE Construct \/ StartMonitoring \/ StopMonitoring \/ Join \/ Destroy
    BY <2>2 DEF Construct, StartMonitoring, StopMonitoring, Join, Destroy
  <2> QED
    BY <1>4, <2>1, <2>2 DEF MainStep
<1>5. CASE MonitorStep
  <2>1. CASE Work("monitor")
    BY <1>3, <2>1, ProcessTypes
  <2>2. CASE LoopHead \/ Sleep
    BY <2>2 DEF LoopHead, Sleep
  <2> QED
    BY <1>5, <2>1, <2>2 DEF MonitorStep
<1>6. CASE RegistryCall \/ RegistryEnvironment
  BY <1>2, <1>6 DEF RegistryCall, RegistryEnvironment
<1>7. Failure => Fault
  <2>1. StartFails => Fault
    BY DEF StartFails
  <2>2. ASSUME NEW t \in Threads, FetchThrows(t) \/ InsertRowFails(t) \/ StoreThrows(t) PROVE Fault
    BY <2>2, Zenon DEF FetchThrows, InsertRowFails, StoreThrows
  <2> QED
    BY <2>1, <2>2 DEF Failure
<1>8. CASE Signal
  BY <1>8 DEF Signal
<1>9. CASE UNCHANGED vars
  BY <1>9 DEF vars
<1> QED
  BY <1>4, <1>5, <1>6, <1>7, <1>8, <1>9 DEF Next

\* The two threads of an ingester together are one client of HostRegistry, to
\* which the failures of other statements mean nothing but their number.
THEOREM UsesRegistry == Spec => Registry!Init /\ [][Registry!Next \/ Fault]_registry
<1>1. Init => Inv
  BY InitInv
<1>2. Inv /\ [Next]_vars => Inv'
  BY NextInv
<1>3. Init => Registry!Init
  BY DEF Init
<1>4. Inv /\ [Next]_vars => [Registry!Next \/ Fault]_registry
  BY StepOfRegistry
<1> QED
  BY <1>1, <1>2, <1>3, <1>4, PTL DEF Spec

\* The assumption of HostRegistry, for this process.
LEMMA RegistryAssumed == NoId \notin HR!HostId /\ MaxTime \in Nat /\ MaxFaults \in Nat
  BY PerfClientAssumption DEF HR!HostId

\* What makes rows unique in HostRegistry is kept by the ingester.
LEMMA RegistryInductive ==
    (HR!IInv /\ HR!Undisturbed) /\ [Registry!Next \/ Fault]_registry => (HR!IInv /\ HR!Undisturbed)'
<1> SUFFICES ASSUME HR!IInv, HR!Undisturbed, [Registry!Next \/ Fault]_registry
             PROVE  HR!IInv' /\ HR!Undisturbed'
  OBVIOUS
<1>1. CASE [HR!Next]_HR!vars
  <2>1. HR!TypeOK' /\ HR!CallConsistent' /\ HR!CacheSound'
    BY <1>1, RegistryAssumed, HR!NextTypeOK, HR!NextCallConsistent, HR!NextCacheSound, Zenon
  <2>2. HR!UniqueUnlessRaced' /\ HR!SoleCreator'
    BY <1>1, RegistryAssumed, HR!NextUniqueUnlessRaced, HR!NextSoleCreator, Zenon
  <2>3. \A c, d \in {Ingester} : c = d
    OBVIOUS
  <2>4. HR!Undisturbed'
    BY <1>1, <2>3, RegistryAssumed, HR!UndisturbedKept, Zenon
  <2> QED
    BY <2>1, <2>2, <2>4 DEF HR!IInv
<1>2. CASE Fault
  <2>1. faults \in 0 .. MaxFaults
    BY DEF HR!IInv, HR!TypeOK
  <2>2. faults' \in 0 .. MaxFaults /\ faults' # 0
    BY <1>2, <2>1, PerfClientAssumption DEF Fault
  <2>3. UNCHANGED <<now, host_info, orphans, pc, host_name, new_host_id, host_id_cache_, raced>>
    BY <1>2 DEF Fault
  <2> QED
    BY <2>2, <2>3 DEF HR!IInv, HR!Undisturbed, HR!TypeOK, HR!CallConsistent, HR!CacheSound, HR!UniqueUnlessRaced,
                      HR!SoleCreator, HR!Creating, HR!RowsOf
<1>3. [HR!Next]_HR!vars <=> [Registry!Next]_registry
  BY DEF HR!Next, Registry!Next, HR!vars, registry, HR!Progress, Registry!Progress, HR!Failure, Registry!Failure,
         HR!Fault, Registry!Fault, HR!Return, Registry!Return, HR!RowsOf, Registry!RowsOf,
         HR!Contended, Registry!Contended, HR!Creating, Registry!Creating, HR!EmptyCache, Registry!EmptyCache,
         HR!Call, Registry!Call, HR!SelectHit, Registry!SelectHit, HR!SelectMiss, Registry!SelectMiss,
         HR!SelectFail, Registry!SelectFail, HR!SendInsert, Registry!SendInsert, HR!ExecInsert, Registry!ExecInsert,
         HR!InsertOk, Registry!InsertOk, HR!InsertDuplicate, Registry!InsertDuplicate,
         HR!InsertRejected, Registry!InsertRejected, HR!InsertLost, Registry!InsertLost,
         HR!Crash, Registry!Crash, HR!Orphan, Registry!Orphan, HR!Tick, Registry!Tick
<1> QED
  BY <1>1, <1>2, <1>3

\* A host has one row in host_info, and so one history, unless its own SELECT or
\* INSERT failed: whatever the two threads do, and whatever else fails.
THEOREM HostsStayUnique == Spec => [](Registry!UniqueUnlessRaced /\ (faults = 0 => HR!OneRowEach))
<1>1. Registry!Init => HR!IInv /\ HR!Undisturbed
  <2>1. Registry!Init => HR!Init
    BY DEF Registry!Init, HR!Init, Registry!EmptyCache, HR!EmptyCache
  <2>2. HR!Init => HR!IInv
    BY RegistryAssumed, HR!InitIInv, Zenon
  <2>3. HR!Init => HR!Undisturbed
    BY DEF HR!Init, HR!Undisturbed
  <2> QED
    BY <2>1, <2>2, <2>3
<1>2. HR!IInv /\ HR!Undisturbed => Registry!UniqueUnlessRaced /\ (faults = 0 => HR!OneRowEach)
  <2>1. HR!IInv => Registry!UniqueUnlessRaced
    BY DEF HR!IInv, HR!UniqueUnlessRaced, Registry!UniqueUnlessRaced, HR!RowsOf, Registry!RowsOf
  <2>2. HR!IInv /\ HR!Undisturbed => (faults = 0 => HR!OneRowEach)
    BY RegistryAssumed, HR!UndisturbedUnique, Zenon
  <2> QED
    BY <2>1, <2>2
<1> QED
  BY UsesRegistry, RegistryInductive, <1>1, <1>2, PTL
=============================================================================
