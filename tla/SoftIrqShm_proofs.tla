------------------------- MODULE SoftIrqShm_proofs -------------------------
(***************************************************************************)
(* The safety properties of SoftIrqShm, for any number of CPUs, users,     *)
(* loads and failures.                                                     *)
(***************************************************************************)
EXTENDS SoftIrqShm, TLAPS

\* The two halves of TypeOK: what belongs to the module's life, and the rest.
LifeType ==
    /\ kind \in Kinds
    /\ st \in {"out", "fill", "arm", "register", "in", "cancel", "deregister", "free"}
    /\ live \in BOOLEAN /\ armed \in BOOLEAN /\ registered \in BOOLEAN
    /\ orphan \in BOOLEAN /\ filled \in BOOLEAN /\ broken \in BOOLEAN
    /\ upc \in [Users -> {"idle", "opened", "mapped"}]
    /\ loads \in 0 .. MaxLoads
    /\ faults \in 0 .. MaxFaults

WriterType ==
    /\ online \subseteq Cpus
    /\ kstat \in [Cpus -> 0 .. MaxIrq]
    /\ name \in [Cpus -> {"", "cpu", "full"}]
    /\ count \in [Cpus -> Word]
    /\ taken \in [Cpus -> 0 .. MaxIrq]
    /\ w \in 0 .. End
    /\ w_step \in {"name", "number", "count"}
    /\ {virgin, passing, steady} \subseteq SUBSET Cpus

Entries == [name : {"", "cpu", "full"}, count : Word]

ReaderType ==
    /\ r \in 0 .. End
    /\ rpc \in {"check", "name", "count", "done"}
    /\ report \in Seq(Entries)
    /\ last \in [Cpus -> Word]
    /\ shown \in [Cpus -> 0 .. MaxIrq]
    /\ garbage \in BOOLEAN
    /\ shaky \subseteq Cpus

\* The types are those of the module, of the callback and of the readers.
LEMMA TypeParts == TypeOK <=> LifeType /\ WriterType /\ ReaderType
BY DEF TypeOK, LifeType, WriterType, ReaderType, Entries

\* The same, after a step.
LEMMA TypePartsNext == TypeOK' <=> LifeType' /\ WriterType' /\ ReaderType'
BY DEF TypeOK, LifeType, WriterType, ReaderType, Entries

\* What is kept of a number in a __u32.
LEMMA Remainder ==
    ASSUME NEW n \in Nat
    PROVE  n % U32 \in Word /\ n \div U32 \in Nat /\ n = U32 * (n \div U32) + (n % U32) /\ (n = 0 => n % U32 = 0)
BY SoftIrqShmAssumption DEF Word

\* It goes back only past a multiple of U32.
LEMMA GoesBack ==
    ASSUME NEW m \in Nat, NEW n \in Nat, m <= n, n % U32 < m % U32
    PROVE  n \div U32 > m \div U32
<1> DEFINE a == m \div U32
           b == n \div U32
           x == m % U32
           y == n % U32
<1>1. a \in Nat /\ b \in Nat /\ x \in Nat /\ y \in Nat /\ U32 \in Nat /\ x < U32
  BY Remainder, SoftIrqShmAssumption DEF Word
<1>2. m = U32 * a + x /\ n = U32 * b + y /\ y < x
  BY Remainder
<1> HIDE DEF a, b, x, y
<1>3. CASE b <= a
  <2>1. U32 * b <= U32 * a
    BY <1>1, <1>3
  <2> QED
    BY <1>1, <1>2, <2>1
<1> QED
  BY <1>1, <1>3 DEF a, b

\* The module is not loaded, and nobody has read.
LEMMA InitIInv == Init => IInv
<1> SUFFICES ASSUME Init PROVE IInv
  OBVIOUS
<1> USE DEF Init, LifeInit
<1>1. LifeType
  <2>1. 0 \in 0 .. MaxLoads /\ 0 \in 0 .. MaxFaults
    <3> HIDE DEF Init
    <3> QED
      BY KmodLifeAssumption
  <2>2. upc \in [Users -> {"idle", "opened", "mapped"}]
    OBVIOUS
  <2> QED
    BY <2>1, <2>2 DEF LifeType
<1>0. NCpu \in Nat \ {0} /\ 0 \in 0 .. End /\ End \in 0 .. End /\ 0 \in 0 .. MaxIrq /\ 0 < End /\ End # 0 /\ 0 \in Word /\ 0 % U32 = 0
  <2> HIDE DEF Init
  <2> QED
    BY SoftIrqShmAssumption, Remainder DEF End, Word
<1>2. WriterType
  BY <1>0 DEF WriterType
<1>3. ReaderType
  <2>1. <<>> \in Seq(Entries)
    <3> HIDE DEF Init
    <3> QED
      OBVIOUS
  <2> QED
    BY <1>0, <2>1 DEF ReaderType
<1>4. TypeOK
  BY <1>1, <1>2, <1>3, TypeParts
<1>5. Lifecycle /\ Written
  BY DEF Lifecycle, Written, InUse
<1>6. Passes /\ Named
  BY DEF Passes, Named
<1>7. Cycle
  <2>1. rpc = "check" /\ report = <<>> /\ r = 0
    OBVIOUS
  <2> HIDE DEF Init
  <2> QED
    BY <1>0, <2>1 DEF Cycle
<1>8. Counted
  <2>1. \A c \in Cpus : count[c] = 0 /\ taken[c] = 0 /\ last[c] = 0 /\ shown[c] = 0 /\ kstat[c] = 0
    OBVIOUS
  <2> HIDE DEF Init
  <2> QED
    BY <1>0, <2>1 DEF Counted
<1>9. CallbackSafe /\ OnlyLoadUnwritten
  BY DEF CallbackSafe, OnlyLoadUnwritten
<1> QED
  BY <1>4, <1>5, <1>6, <1>7, <1>8, <1>9 DEF IInv

------------------------------------------------------------------------------
(* Frames.                                                                 *)

\* The module's life stands still.
LEMMA LifeFrame ==
    ASSUME IInv, UNCHANGED lifevars
    PROVE  LifeType' /\ Lifecycle' /\ Written' /\ CallbackSafe'
<1>1. LifeType
  BY TypeParts DEF IInv
<1>2. LifeType'
  BY <1>1 DEF LifeType, lifevars, module, bounds
<1> QED
  BY <1>2 DEF IInv, Lifecycle, Written, CallbackSafe, InUse, lifevars, module, bounds

\* The writer stands still, and so does what its passes depend on.
LEMMA WriterFrame ==
    ASSUME IInv, UNCHANGED <<writer, online, kstat, steady, kind>>,
           w = End \/ live', live' => live,
           Cpus \ shaky' \subseteq steady
    PROVE  WriterType' /\ Passes' /\ Named'
<1> USE DEF IInv, writer
<1>1. WriterType
  BY TypeParts
<1>2. WriterType'
  BY <1>1 DEF WriterType
<1>3. Passes' /\ Named'
  BY DEF Passes, Named
<1> QED
  BY <1>2, <1>3

\* The reader stands still, but for CPUs it can no longer count on.
LEMMA ReaderFrame ==
    ASSUME IInv, UNCHANGED <<reader, kind>>, shaky \subseteq shaky', shaky' \subseteq Cpus
    PROVE  ReaderType' /\ Cycle' /\ OnlyLoadUnwritten'
<1> USE DEF IInv, reader
<1>1. ReaderType
  BY TypeParts
<1>2. ReaderType'
  BY <1>1 DEF ReaderType
<1>3. Cycle'
  BY <1>1 DEF Cycle, ReaderType
<1> QED
  BY <1>2, <1>3 DEF OnlyLoadUnwritten

\* The parts make the whole.
LEMMA Parts ==
    ASSUME LifeType', WriterType', ReaderType', Lifecycle', Written', Passes', Named',
           Cycle', Counted', CallbackSafe', OnlyLoadUnwritten'
    PROVE  IInv'
BY TypePartsNext DEF IInv

\* Slots are numbered below the end.
LEMMA BelowEnd == \A c \in Cpus : c < End
BY SoftIrqShmAssumption DEF Cpus, End

\* The slot that is written, while one is.
LEMMA AtSlot ==
    ASSUME IInv, w # End
    PROVE  /\ w \in Cpus /\ w + 1 \in 0 .. End /\ live /\ kind = "softirq"
           /\ \A c \in Cpus : c < w + 1 <=> (c < w \/ c = w)
<1>1. w \in 0 .. End /\ End \in Nat
  BY SoftIrqShmAssumption DEF IInv, TypeOK, End
<1> QED
  BY <1>1 DEF IInv, Passes, Cpus, End

------------------------------------------------------------------------------
(* The kernel's steps.                                                     *)

\* A soft interrupt moves its counter away from what was copied.
LEMMA SoftIrqKeepsIInv == ASSUME IInv, NEW c \in Cpus, SoftIrq(c) PROVE IInv'
<1> USE DEF SoftIrq
<1>1. LifeType' /\ Lifecycle' /\ Written' /\ CallbackSafe'
  BY LifeFrame
<1>2. ReaderType' /\ Cycle' /\ OnlyLoadUnwritten'
  BY ReaderFrame, TypeParts DEF IInv, ReaderType, lifevars, module
<1>3. Passes' /\ Named'
  BY DEF IInv, Passes, Named, writer, lifevars, module
<1>4. \A d \in Cpus : kstat'[d] \in 0 .. MaxIrq /\ kstat'[d] >= kstat[d]
  <2>1. kstat \in [Cpus -> 0 .. MaxIrq] /\ MaxIrq \in Nat
    BY SoftIrqShmAssumption DEF IInv, TypeOK
  <2>2. kstat[c] < MaxIrq /\ kstat' = [kstat EXCEPT ![c] = @ + 1]
    OBVIOUS
  <2> HIDE DEF SoftIrq
  <2> QED
    BY <2>1, <2>2
<1>5. kstat' \in [Cpus -> 0 .. MaxIrq]
  BY <1>4 DEF IInv, TypeOK
<1>6. WriterType'
  BY <1>5 DEF IInv, TypeOK, WriterType, writer
<1>7. Counted'
  <2> SUFFICES ASSUME NEW d \in Cpus PROVE taken[d] <= kstat'[d] /\ shown[d] <= kstat'[d]
    BY DEF IInv, Counted, writer, reader
  <2>1. taken[d] <= kstat[d] /\ shown[d] <= kstat[d]
    BY DEF IInv, Counted
  <2>2. taken[d] \in 0 .. MaxIrq /\ shown[d] \in 0 .. MaxIrq /\ kstat[d] \in 0 .. MaxIrq /\ kstat'[d] \in 0 .. MaxIrq
    <3> HIDE DEF SoftIrq
    <3> QED
      BY <1>5 DEF IInv, TypeOK
  <2> HIDE DEF SoftIrq
  <2> QED
    BY <2>1, <2>2, <1>4
<1> QED
  BY <1>1, <1>2, <1>3, <1>6, <1>7, Parts

\* Nothing counts on a CPU that comes up ...
LEMMA CpuUpKeepsIInv == ASSUME IInv, NEW c \in Cpus, CpuUp(c) PROVE IInv'
<1> USE DEF CpuUp
<1>1. LifeType' /\ Lifecycle' /\ Written' /\ CallbackSafe'
  BY LifeFrame
<1>2. ReaderType' /\ Cycle' /\ OnlyLoadUnwritten'
  BY ReaderFrame, TypeParts DEF IInv, ReaderType, lifevars, module
<1>3. WriterType' /\ Passes' /\ Named'
  BY DEF IInv, TypeOK, WriterType, Passes, Named, writer, lifevars, module
<1>4. Counted'
  BY DEF IInv, Counted, writer, reader
<1> QED
  BY <1>1, <1>2, <1>3, <1>4, Parts

\* ... nor any longer on one that goes down.
LEMMA CpuDownKeepsIInv == ASSUME IInv, NEW c \in Cpus, CpuDown(c) PROVE IInv'
<1> USE DEF CpuDown
<1>1. LifeType' /\ Lifecycle' /\ Written' /\ CallbackSafe'
  BY LifeFrame
<1>2. ReaderType' /\ Cycle' /\ OnlyLoadUnwritten'
  <2>1. shaky \subseteq shaky' /\ shaky' \subseteq Cpus
    BY DEF IInv, TypeOK
  <2> QED
    BY <2>1, ReaderFrame DEF lifevars, module
<1>3. WriterType'
  BY DEF IInv, TypeOK, WriterType
<1>4. Passes' /\ Named'
  BY DEF IInv, Passes, Named, lifevars, module
<1>5. Counted'
  BY DEF IInv, Counted, reader
<1> QED
  BY <1>1, <1>2, <1>3, <1>4, <1>5, Parts

------------------------------------------------------------------------------
(* The module's steps.                                                     *)

\* A new buffer holds no names and is not written yet.
LEMMA LoadKeepsIInv == ASSUME IInv, Load PROVE IInv'
<1> USE KmodLifeAssumption, SoftIrqShmAssumption
<1>1. LifeType' /\ kind' = kind
  <2>1. LifeType
    BY TypeParts DEF IInv
  <2>2. loads < MaxLoads /\ loads' = loads + 1 /\ (faults' = faults \/ (faults < MaxFaults /\ faults' = faults + 1))
    BY DEF Load, Alloc, Fault
  <2>3. loads' \in 0 .. MaxLoads /\ faults' \in 0 .. MaxFaults
    BY <2>1, <2>2 DEF LifeType
  <2> QED
    BY <2>1, <2>3 DEF Load, Alloc, LifeType
<1>2. Lifecycle' /\ Written' /\ CallbackSafe'
  <2>1. st = "out" /\ armed' = armed /\ upc' = upc /\ orphan' = orphan /\ broken' = broken
    BY DEF Load, Alloc
  <2>2. (live' = TRUE /\ filled' = FALSE /\ (st' = "fill" \/ (st' = "arm" /\ kind = "load")))
        \/ (live' = live /\ filled' = filled /\ st' = st)
    BY DEF Load, Alloc, Filled, Kinds, IInv, TypeOK
  <2>3. Lifecycle'
    BY <2>1, <2>2 DEF IInv, Lifecycle, InUse
  <2>4. Written'
    BY <1>1, <2>1, <2>2 DEF Written
  <2>5. CallbackSafe'
    BY <2>1 DEF IInv, CallbackSafe
  <2> QED
    BY <2>3, <2>4, <2>5
<1>3. UNCHANGED <<online, kstat, reader, garbage>> /\ garbage' = garbage
  BY DEF Load, reader
<1>4. shaky \subseteq shaky' /\ shaky' \subseteq Cpus
  BY DEF Load, IInv, TypeOK
<1>5. ReaderType' /\ Cycle' /\ OnlyLoadUnwritten'
  BY <1>1, <1>3, <1>4, ReaderFrame
<1>6. CASE st' = "out"
  <2>1. UNCHANGED <<writer, steady, shaky>> /\ live' = live
    BY <1>6 DEF Load, Alloc, Filled
  <2>2. w = End
    BY <1>6 DEF IInv, Load, Alloc, Lifecycle, Passes
  <2>3. WriterType' /\ Passes' /\ Named'
    BY <1>1, <1>3, <2>1, <2>2, WriterFrame DEF IInv, Passes
  <2>4. Counted'
    BY <1>3, <2>1 DEF IInv, Counted, writer, reader
  <2> QED
    BY <1>1, <1>2, <1>5, <2>3, <2>4, Parts
<1>7. CASE st' # "out"
  <2>1. /\ name' = [c \in Cpus |-> ""] /\ count' = [c \in Cpus |-> 0] /\ taken' = [c \in Cpus |-> 0]
        /\ w' = IF kind = "softirq" THEN 0 ELSE End
        /\ w_step' = "name" /\ virgin' = Cpus /\ passing' = online
        /\ steady' = {} /\ shaky' = Cpus
    BY <1>7 DEF Load
  <2>2. live'
    BY <1>7 DEF Load, Alloc, IInv, Lifecycle
  <2>3. 0 \in 0 .. MaxIrq /\ 0 \in 0 .. End /\ End \in 0 .. End /\ 0 \in Word /\ 0 % U32 = 0
    BY Remainder DEF End, Word
  <2>4. count' \in [Cpus -> Word] /\ taken' \in [Cpus -> 0 .. MaxIrq] /\ name' \in [Cpus -> {"", "cpu", "full"}]
    BY <2>1, <2>3
  <2>5. WriterType'
    BY <1>3, <2>1, <2>3, <2>4 DEF IInv, TypeOK, WriterType
  <2>6. Passes'
    BY <1>1, <1>3, <2>1, <2>2 DEF Passes, IInv, TypeOK
  <2>7. \A c \in Cpus : ~(c < 0)
    BY DEF Cpus
  <2>8. Named'
    BY <1>1, <1>3, <2>1, <2>7 DEF Named, IInv, TypeOK
  <2>9. \A c \in Cpus : /\ count'[c] = 0 /\ taken'[c] = 0 /\ 0 <= kstat[c] /\ c \in virgin'
                        /\ last[c] = shown[c] % U32 /\ shown[c] <= kstat[c]
    <3>1. \A c \in Cpus : last[c] = shown[c] % U32 /\ shown[c] <= kstat[c]
      BY DEF IInv, Counted
    <3>2. \A c \in Cpus : kstat[c] \in 0 .. MaxIrq
      BY DEF IInv, TypeOK
    <3>3. \A c \in Cpus : count'[c] = 0 /\ taken'[c] = 0 /\ c \in virgin'
      BY <2>1
    <3>4. \A c \in Cpus : 0 <= kstat[c]
      BY <3>2
    <3> QED
      BY <3>1, <3>3, <3>4
  <2>10. Counted'
    BY <1>3, <2>3, <2>9 DEF Counted, reader
  <2> QED
    BY <1>1, <1>2, <1>5, <2>5, <2>6, <2>8, <2>10, Parts
<1> QED
  BY <1>6, <1>7

\* The first pass, or a callback of the other modules, fills the buffer.
LEMMA FirstPassDoneKeepsIInv == ASSUME IInv, FirstPassDone PROVE IInv'
<1>1. UNCHANGED <<kind, live, armed, registered, orphan, upc, loads, faults, broken>>
      /\ st = "fill" /\ st' = "arm" /\ filled' = TRUE
  BY DEF FirstPassDone, FillDone, bounds
<1>2. UNCHANGED <<online, kstat, writer, reader, steady, shaky>>
  BY DEF FirstPassDone
<1>3. LifeType'
  BY <1>1, TypeParts DEF IInv, LifeType
<1>4. Lifecycle' /\ Written' /\ CallbackSafe'
  BY <1>1 DEF IInv, Lifecycle, Written, CallbackSafe, InUse
<1>5. WriterType' /\ Passes' /\ Named'
  BY <1>1, <1>2, WriterFrame DEF IInv, Passes
<1>6. ReaderType' /\ Cycle' /\ OnlyLoadUnwritten'
  BY <1>1, <1>2, ReaderFrame, TypeParts DEF IInv, ReaderType
<1>7. Counted'
  BY <1>2 DEF IInv, Counted, writer, reader
<1> QED
  BY <1>3, <1>4, <1>5, <1>6, <1>7, Parts

\* A pass begins with the CPUs that are online.
LEMMA FireKeepsIInv == ASSUME IInv, Fire PROVE IInv'
<1> USE SoftIrqShmAssumption
<1>1. /\ UNCHANGED <<kind, st, live, armed, registered, orphan, upc, loads, faults, broken>>
      /\ filled' = filled \/ (filled' = TRUE /\ kind # "softirq")
  BY DEF Fire, Refilled, lifevars, module, bounds
<1>2. UNCHANGED <<online, kstat, name, count, taken, w_step, virgin, reader, steady, shaky>>
  BY DEF Fire
<1>3. LifeType'
  <2>1. LifeType
    BY TypeParts DEF IInv
  <2>2. filled' \in BOOLEAN
    BY <1>1, <2>1 DEF LifeType
  <2> QED
    BY <1>1, <2>1, <2>2 DEF LifeType
<1>4. Lifecycle' /\ CallbackSafe'
  BY <1>1 DEF IInv, Lifecycle, CallbackSafe, InUse
<1>5. Written'
  BY <1>1 DEF IInv, Written
<1>6. ReaderType' /\ Cycle' /\ OnlyLoadUnwritten'
  BY <1>1, <1>2, ReaderFrame, TypeParts DEF IInv, ReaderType
<1>7. Counted'
  BY <1>2 DEF IInv, Counted, reader
<1>8. w = End /\ w_step = "name" /\ live
  BY DEF Fire, IInv, Passes
<1>9. CASE kind = "softirq"
  <2>1. w' = 0 /\ passing' = online
    BY <1>9 DEF Fire
  <2>2. 0 \in 0 .. End /\ \A c \in Cpus : ~(c < 0)
    BY DEF End, Cpus
  <2>3. WriterType'
    BY <1>2, <2>1, <2>2 DEF IInv, TypeOK, WriterType
  <2>4. Passes'
    BY <1>1, <1>2, <1>8, <1>9, <2>1 DEF IInv, Passes
  <2>5. Named'
    BY <1>2, <1>8, <2>1, <2>2 DEF IInv, TypeOK, Named
  <2> QED
    BY <1>3, <1>4, <1>5, <1>6, <1>7, <2>3, <2>4, <2>5, Parts
<1>10. CASE kind # "softirq"
  <2>1. UNCHANGED <<w, passing>>
    BY <1>10 DEF Fire
  <2>2. WriterType' /\ Passes' /\ Named'
    BY <1>1, <1>2, <1>8, <2>1, WriterFrame DEF IInv, Passes, writer
  <2> QED
    BY <1>3, <1>4, <1>5, <1>6, <1>7, <2>2, Parts
<1> QED
  BY <1>9, <1>10

\* What all steps of a pass keep, whatever they write.
LEMMA PassFrame ==
    ASSUME IInv, w # End, UNCHANGED <<lifevars, online, kstat, passing, reader, shaky>>
    PROVE  /\ LifeType' /\ Lifecycle' /\ Written' /\ CallbackSafe'
           /\ ReaderType' /\ Cycle' /\ OnlyLoadUnwritten'
<1>1. UNCHANGED <<reader, kind, shaky>> /\ shaky' \subseteq Cpus
  BY TypeParts DEF lifevars, module, IInv, ReaderType
<1>2. ReaderType' /\ Cycle' /\ OnlyLoadUnwritten'
  BY <1>1, ReaderFrame
<1> QED
  BY <1>2, LifeFrame

\* A pass is done with a slot, and every CPU counted on has its name up to it:
\* so have all of them, after the last slot.
LEMMA AdvanceKeepsPasses ==
    ASSUME IInv, w # End, Advance,
           name' \in [Cpus -> {"", "cpu", "full"}], count' \in [Cpus -> Word], taken' \in [Cpus -> 0 .. MaxIrq],
           virgin' \subseteq virgin,
           \A c \in Cpus : c # w => name'[c] = name[c],
           w \in passing => name'[w] = "full" /\ w \notin virgin'
    PROVE  WriterType' /\ Passes' /\ Named'
<1>1. UNCHANGED <<kind, live, online, kstat, passing, shaky>> /\ w' = w + 1 /\ w_step' = "name"
      /\ steady' = IF w + 1 = End THEN passing ELSE steady
  BY DEF Advance, lifevars, module
<1>2. /\ w \in Cpus /\ w + 1 \in 0 .. End /\ live /\ kind = "softirq"
      /\ \A c \in Cpus : c < w + 1 <=> (c < w \/ c = w)
  BY AtSlot
<1>3. steady \subseteq passing /\ passing \subseteq online /\ Cpus \ shaky \subseteq steady
      /\ passing \subseteq Cpus /\ virgin \subseteq Cpus /\ online \subseteq Cpus
      /\ kstat \in [Cpus -> 0 .. MaxIrq]
  BY DEF IInv, Passes, TypeOK
<1>4. WriterType'
  BY <1>1, <1>2, <1>3 DEF WriterType
<1>5. Passes'
  BY <1>1, <1>2, <1>3 DEF Passes
<1>6. \A c \in passing : c < w + 1 => name'[c] = "full" /\ c \notin virgin'
  BY <1>2, <1>3 DEF IInv, Named
<1>7. \A c \in steady : name'[c] = "full" /\ c \notin virgin'
  BY <1>3 DEF IInv, Named
<1>8. \A c \in Cpus : w + 1 = End => c < w + 1
  BY BelowEnd
<1>9. \A c \in steady' : name'[c] = "full" /\ c \notin virgin'
  BY <1>1, <1>3, <1>6, <1>7, <1>8
<1> QED
  BY <1>1, <1>4, <1>5, <1>6, <1>9 DEF Named

\* A CPU that is skipped is offline, and not counted on.
LEMMA SkipSlotKeepsIInv == ASSUME IInv, SkipSlot PROVE IInv'
<1>1. w # End /\ w \notin online /\ name' = [name EXCEPT ![w] = ""] /\ Advance
      /\ UNCHANGED <<count, taken, virgin>>
  BY DEF SkipSlot, Writing
<1>2. w \in Cpus /\ name \in [Cpus -> {"", "cpu", "full"}] /\ passing \subseteq online
  BY <1>1, AtSlot DEF IInv, TypeOK, Passes
<1>3. name' \in [Cpus -> {"", "cpu", "full"}] /\ \A c \in Cpus : c # w => name'[c] = name[c]
  BY <1>1, <1>2
<1>4. count' \in [Cpus -> Word] /\ taken' \in [Cpus -> 0 .. MaxIrq]
  BY <1>1 DEF IInv, TypeOK
<1>5. WriterType' /\ Passes' /\ Named'
  BY <1>1, <1>2, <1>3, <1>4, AdvanceKeepsPasses
<1>6. Counted'
  BY <1>1 DEF IInv, Counted, Advance, reader
<1> QED
  BY <1>1, <1>5, <1>6, PassFrame, Parts DEF Advance

\* The name of a slot in use stays whole.
LEMMA NameSlotKeepsIInv == ASSUME IInv, NameSlot \/ NumberSlot PROVE IInv'
<1>1. /\ w # End
      /\ \/ name' = [name EXCEPT ![w] = "full"] /\ w_step' \in {"number", "count"}
         \/ name' = [name EXCEPT ![w] = "cpu"] /\ w_step' = "number" /\ w \in virgin
      /\ UNCHANGED <<lifevars, online, kstat, count, taken, w, virgin, passing, reader, steady, shaky>>
  <2>1. CASE NameSlot /\ w \in virgin
    BY <2>1 DEF NameSlot, Writing, GoOn
  <2>2. CASE NameSlot /\ w \notin virgin
    BY <2>2 DEF NameSlot, Writing, GoOn
  <2>3. CASE NumberSlot
    BY <2>3 DEF NumberSlot, Writing, GoOn
  <2> QED
    BY <2>1, <2>2, <2>3
<1>2. w \in Cpus /\ name \in [Cpus -> {"", "cpu", "full"}] /\ live /\ kind = "softirq"
      /\ UNCHANGED <<live, kind>>
  BY <1>1, AtSlot DEF IInv, TypeOK, lifevars, module
<1>3. name' \in [Cpus -> {"", "cpu", "full"}]
  BY <1>1, <1>2
<1>4. \A c \in Cpus : name'[c] = name[c] \/ name'[c] = "full" \/ c \in virgin
  BY <1>1, <1>2
<1>5. WriterType'
  BY <1>1, <1>3 DEF IInv, TypeOK, WriterType
<1>6. Passes'
  BY <1>1, <1>2 DEF IInv, Passes
<1>7. Named'
  <2>1. steady \subseteq Cpus /\ passing \subseteq Cpus
    BY DEF IInv, TypeOK
  <2>2. \A c \in steady : name'[c] = "full" /\ c \notin virgin
    BY <1>4, <2>1 DEF IInv, Named
  <2>3. \A c \in passing : c < w => name'[c] = "full" /\ c \notin virgin
    BY <1>2, <1>4, <2>1 DEF IInv, Named
  <2>4. w_step' = "count" => name'[w] = "full"
    BY <1>1, <1>2
  <2> QED
    BY <1>1, <2>2, <2>3, <2>4 DEF Named
<1>8. Counted'
  BY <1>1 DEF IInv, Counted, reader
<1> QED
  BY <1>1, <1>5, <1>6, <1>7, <1>8, PassFrame, Parts

\* A slot that is counted catches up with the kernel.
LEMMA CountSlotKeepsIInv == ASSUME IInv, CountSlot PROVE IInv'
<1>1. /\ w # End /\ w_step = "count"
      /\ count' = [count EXCEPT ![w] = kstat[w] % U32] /\ taken' = [taken EXCEPT ![w] = kstat[w]]
      /\ virgin' = virgin \ {w} /\ Advance /\ name' = name
  BY DEF CountSlot, Writing
<1>2. /\ w \in Cpus /\ name \in [Cpus -> {"", "cpu", "full"}] /\ count \in [Cpus -> Word]
      /\ taken \in [Cpus -> 0 .. MaxIrq] /\ kstat \in [Cpus -> 0 .. MaxIrq] /\ name[w] = "full"
  BY <1>1, AtSlot DEF IInv, TypeOK, Named
<1>3. /\ count' \in [Cpus -> Word] /\ \A c \in Cpus : count'[c] = IF c = w THEN kstat[w] % U32 ELSE count[c]
      /\ taken' \in [Cpus -> 0 .. MaxIrq] /\ \A c \in Cpus : taken'[c] = IF c = w THEN kstat[w] ELSE taken[c]
  <2>1. kstat[w] \in Nat /\ kstat[w] % U32 \in Word
    <3>1. kstat[w] \in 0 .. MaxIrq
      BY <1>2
    <3>2. kstat[w] \in Nat
      BY <3>1
    <3> QED
      BY <3>2, Remainder
  <2> QED
    BY <1>1, <1>2, <2>1
<1>4. WriterType' /\ Passes' /\ Named'
  BY <1>1, <1>2, <1>3, AdvanceKeepsPasses
<1>5. kstat' = kstat /\ last' = last /\ shown' = shown
  BY <1>1 DEF Advance, reader
<1>6. Counted'
  <2> SUFFICES ASSUME NEW c \in Cpus
               PROVE  /\ count'[c] = taken'[c] % U32 /\ taken'[c] <= kstat[c]
                      /\ last[c] = shown[c] % U32 /\ shown[c] <= kstat[c]
                      /\ c \notin virgin' => shown[c] <= taken'[c]
    BY <1>5 DEF Counted
  <2>1. /\ count[c] = taken[c] % U32 /\ taken[c] <= kstat[c]
        /\ last[c] = shown[c] % U32 /\ shown[c] <= kstat[c]
        /\ c \notin virgin => shown[c] <= taken[c]
    BY DEF IInv, Counted
  <2>2. kstat[c] \in 0 .. MaxIrq
    BY <1>2
  <2>3. CASE c = w
    BY <1>3, <2>1, <2>2, <2>3
  <2>4. CASE c # w
    BY <1>1, <1>3, <2>1, <2>4
  <2> QED
    BY <2>3, <2>4
<1> QED
  BY <1>1, <1>4, <1>6, PassFrame, Parts DEF Advance

\* The steps of init and exit: a callback finds its buffer gone only as an
\* orphan, since no other timer is armed without one.
LEMMA InitExitKeepsIInv == ASSUME IInv, InitExit PROVE IInv'
<1> USE KmodLifeAssumption
<1>1. UNCHANGED <<kind, filled, upc, loads, online, kstat, name, count, taken, virgin, passing, reader, steady, shaky>>
  BY DEF InitExit, Arm, Register, Rmmod, Cancel, Deregister, RegisterFails, Free, Breaks, module, bounds
<1>2. /\ \/ UNCHANGED <<w, w_step>> /\ live' = live
         \/ w' = End /\ w_step' = "name" /\ live' = FALSE
      /\ faults' = faults \/ (faults < MaxFaults /\ faults' = faults + 1)
  <2>1. CASE RegisterFails
    BY <2>1 DEF InitExit, RegisterFails, Fault, BufferGone, Arm, Register, Rmmod, Cancel, Deregister,
                Free, Breaks, module, bounds, IInv, TypeOK
  <2>2. CASE ~RegisterFails
    BY <2>2 DEF InitExit, BufferGone, Arm, Register, Rmmod, Cancel, Deregister, Free, Breaks, module, bounds
  <2> QED
    BY <2>1, <2>2
<1>3. \/ UNCHANGED <<st, live, armed, registered, orphan>> /\ broken' = TRUE /\ orphan
      \/ broken' = broken /\ (orphan' = orphan \/ orphan' = TRUE)
  BY DEF InitExit, Arm, Register, Rmmod, Cancel, Deregister, RegisterFails, Free, Breaks, module, IInv, Lifecycle
<1>4. /\ \/ UNCHANGED <<st, live, armed>>
         \/ st = "arm" /\ st' = "register" /\ armed' /\ live' = live
         \/ st = "register" /\ st' = "in" /\ UNCHANGED <<armed, live>>
         \/ st = "register" /\ st' = "out" /\ ~armed' /\ ~live'
         \/ st = "in" /\ ~InUse /\ st' = "cancel" /\ UNCHANGED <<armed, live>>
         \/ st = "cancel" /\ st' = "deregister" /\ ~armed' /\ live' = live
         \/ st = "deregister" /\ st' = "free" /\ UNCHANGED <<armed, live>>
         \/ st = "free" /\ st' = "out" /\ ~live' /\ armed' = armed
      /\ {live', armed', registered', orphan', broken'} \subseteq BOOLEAN
  BY DEF InitExit, Arm, Register, Rmmod, Cancel, Deregister, RegisterFails, Free, Breaks, module, IInv, TypeOK
<1>5. LifeType'
  <2>1. LifeType
    BY TypeParts DEF IInv
  <2>2. faults' \in 0 .. MaxFaults
    BY <1>2, <2>1 DEF LifeType
  <2> QED
    BY <1>1, <1>4, <2>1, <2>2 DEF LifeType
<1>6. Lifecycle' /\ Written'
  <2>1. InUse' <=> InUse
    BY <1>1 DEF InUse
  <2>2. Lifecycle'
    BY <1>4, <2>1 DEF IInv, Lifecycle
  <2>3. Written'
    BY <1>1, <1>4 DEF IInv, Written
  <2> QED
    BY <2>2, <2>3
<1>7. CallbackSafe'
  BY <1>3 DEF IInv, CallbackSafe
<1>8. ReaderType' /\ Cycle' /\ OnlyLoadUnwritten'
  BY <1>1, ReaderFrame, TypeParts DEF IInv, ReaderType
<1>9. Counted'
  BY <1>1 DEF IInv, Counted, reader
<1>10. WriterType'
  <2>1. End \in 0 .. End
    BY SoftIrqShmAssumption DEF End
  <2>2. (w' = w /\ w_step' = w_step) \/ (w' = End /\ w_step' = "name")
    BY <1>2
  <2>3. WriterType
    BY TypeParts DEF IInv
  <2> QED
    BY <1>1, <2>1, <2>2, <2>3 DEF WriterType
<1>11. Passes' /\ Named'
  BY <1>1, <1>2 DEF IInv, Passes, Named
<1> QED
  BY <1>5, <1>6, <1>7, <1>8, <1>9, <1>10, <1>11, Parts

------------------------------------------------------------------------------
(* The agent and other users.                                              *)

\* What all of them keep.
LEMMA UserFrame ==
    ASSUME IInv, AtUser, UNCHANGED <<kind, live, last, shown>>, Cpus \ shaky' \subseteq steady
    PROVE  WriterType' /\ Passes' /\ Named' /\ Counted'
<1>1. UNCHANGED <<writer, online, kstat, steady, kind, live>>
  BY DEF AtUser
<1>2. WriterType' /\ Passes' /\ Named'
  BY <1>1, WriterFrame DEF IInv, Passes
<1>3. Counted'
  BY <1>1 DEF IInv, Counted, writer
<1> QED
  BY <1>2, <1>3

\* A step of a user on its files keeps them within a loaded module.
LEMMA FilesKeepLife ==
    ASSUME IInv, NEW u \in Users, OpenDevice(u) \/ MapDevice(u) \/ CloseDevice(u)
    PROVE  LifeType' /\ Lifecycle' /\ Written' /\ CallbackSafe' /\ UNCHANGED <<kind, live>>
<1> USE KmodLifeAssumption
<1>1. UNCHANGED <<module, filled, loads, broken>>
  BY DEF OpenDevice, MapDevice, CloseDevice, Open, Map, MapFails, Release, bounds
<1>2. faults' = faults \/ (faults < MaxFaults /\ faults' = faults + 1)
  BY DEF OpenDevice, MapDevice, CloseDevice, Open, Map, MapFails, Release, bounds, Fault
<1>3. \/ st = "in" /\ upc' = [upc EXCEPT ![u] = "opened"]
      \/ upc[u] # "idle" /\ upc' = [upc EXCEPT ![u] = "mapped"]
      \/ upc[u] # "idle" /\ upc' = [upc EXCEPT ![u] = "idle"]
  BY DEF OpenDevice, MapDevice, CloseDevice, Open, Map, MapFails, Release
<1>4. LifeType'
  <2>1. LifeType
    BY TypeParts DEF IInv
  <2>2. faults' \in 0 .. MaxFaults
    BY <1>2, <2>1 DEF LifeType
  <2>3. upc' \in [Users -> {"idle", "opened", "mapped"}]
    BY <1>3, <2>1 DEF LifeType
  <2> QED
    BY <1>1, <2>1, <2>2, <2>3 DEF LifeType, module
<1>5. st = "in"
  BY <1>3 DEF IInv, Lifecycle, InUse
<1>6. Lifecycle' /\ Written' /\ CallbackSafe'
  BY <1>1, <1>5 DEF IInv, Lifecycle, Written, CallbackSafe, module
<1> QED
  BY <1>1, <1>4, <1>6 DEF module

\* A cycle of the agent begins, with the CPUs that are steady now.
LEMMA OpenDeviceKeepsIInv == ASSUME IInv, NEW u \in Users, OpenDevice(u) PROVE IInv'
<1>1. LifeType' /\ Lifecycle' /\ Written' /\ CallbackSafe' /\ UNCHANGED <<kind, live>>
  BY FilesKeepLife
<1>2. AtUser /\ UNCHANGED <<last, shown, garbage>>
  BY DEF OpenDevice
<1>3. CASE u = Agent /\ kind = "softirq"
  <2>1. shaky' = Cpus \ steady /\ report' = <<>> /\ r' = 0 /\ rpc' = "check"
    BY <1>3 DEF OpenDevice
  <2>2. WriterType' /\ Passes' /\ Named' /\ Counted'
    BY <1>1, <1>2, <2>1, UserFrame
  <2>3. 0 \in 0 .. End /\ 0 < End
    BY SoftIrqShmAssumption DEF End
  <2>4. <<>> \in Seq(Entries) /\ Len(<<>>) = 0
    OBVIOUS
  <2>5. ReaderType'
    BY <1>2, <2>1, <2>3, <2>4 DEF IInv, TypeOK, ReaderType
  <2>6. Cycle'
    BY <2>1, <2>3, <2>4 DEF Cycle
  <2>7. OnlyLoadUnwritten'
    BY <1>1, <1>2 DEF IInv, OnlyLoadUnwritten
  <2> QED
    BY <1>1, <2>2, <2>5, <2>6, <2>7, Parts
<1>4. CASE ~(u = Agent /\ kind = "softirq")
  <2>1. UNCHANGED <<reader, shaky>>
    BY <1>2, <1>4 DEF OpenDevice, reader
  <2>2. WriterType' /\ Passes' /\ Named' /\ Counted'
    BY <1>1, <1>2, <2>1, UserFrame DEF IInv, Passes
  <2>3. ReaderType' /\ Cycle' /\ OnlyLoadUnwritten'
    BY <1>1, <2>1, ReaderFrame, TypeParts DEF IInv, ReaderType
  <2> QED
    BY <1>1, <2>2, <2>3, Parts
<1> QED
  BY <1>3, <1>4

\* A mapping is made, or refused.
LEMMA MapDeviceKeepsIInv == ASSUME IInv, NEW u \in Users, MapDevice(u) PROVE IInv'
<1>1. LifeType' /\ Lifecycle' /\ Written' /\ CallbackSafe' /\ UNCHANGED <<kind, live>>
  BY FilesKeepLife
<1>2. AtUser /\ UNCHANGED <<reader, shaky, last, shown>>
  BY DEF MapDevice, reader
<1>3. WriterType' /\ Passes' /\ Named' /\ Counted'
  BY <1>1, <1>2, UserFrame DEF IInv, Passes
<1>4. ReaderType' /\ Cycle' /\ OnlyLoadUnwritten'
  BY <1>1, <1>2, ReaderFrame, TypeParts DEF IInv, ReaderType
<1> QED
  BY <1>1, <1>3, <1>4, Parts

\* A user closes its file and forgets what it has read.
LEMMA CloseDeviceKeepsIInv == ASSUME IInv, NEW u \in Users, CloseDevice(u) PROVE IInv'
<1>1. LifeType' /\ Lifecycle' /\ Written' /\ CallbackSafe' /\ UNCHANGED <<kind, live>>
  BY FilesKeepLife
<1>2. AtUser /\ UNCHANGED <<last, shown, garbage, shaky>>
  BY DEF CloseDevice
<1>3. WriterType' /\ Passes' /\ Named' /\ Counted'
  BY <1>1, <1>2, UserFrame DEF IInv, Passes
<1>4. UNCHANGED <<rpc, r, report>> \/ (rpc' = "check" /\ r' = 0 /\ report' = <<>>)
  BY DEF CloseDevice
<1>5. 0 \in 0 .. End /\ 0 < End
  BY SoftIrqShmAssumption DEF End
<1>6. <<>> \in Seq(Entries) /\ Len(<<>>) = 0
  OBVIOUS
<1>7. ReaderType'
  BY <1>2, <1>4, <1>5, <1>6, TypeParts DEF IInv, ReaderType
<1>8. Cycle'
  BY <1>2, <1>4, <1>5, <1>6 DEF IInv, Cycle
<1>9. OnlyLoadUnwritten'
  BY <1>1, <1>2 DEF IInv, OnlyLoadUnwritten
<1> QED
  BY <1>1, <1>3, <1>7, <1>8, <1>9, Parts

\* A user that has the device mapped finds it written, but for cpu_load.
LEMMA ReadsKeepUnwritten ==
    ASSUME IInv, NEW u \in Users, upc[u] = "mapped", garbage' = (garbage \/ ~filled), kind' = kind
    PROVE  OnlyLoadUnwritten' /\ garbage' \in BOOLEAN
<1>1. st = "in"
  BY DEF IInv, Lifecycle, InUse
<1>2. kind # "load" => filled
  BY <1>1 DEF IInv, Written
<1> QED
  BY <1>2 DEF IInv, OnlyLoadUnwritten

\* A user reads the whole buffer: only that of cpu_load may be unwritten.
LEMMA ReadBufferKeepsIInv == ASSUME IInv, NEW u \in Users, ReadBuffer(u) PROVE IInv'
<1>1. AtUser /\ upc[u] = "mapped" /\ garbage' = (garbage \/ ~filled)
      /\ UNCHANGED <<lifevars, r, rpc, report, last, shown, shaky>>
  BY DEF ReadBuffer
<1>2. UNCHANGED <<kind, live>>
  BY <1>1 DEF lifevars, module
<1>3. LifeType' /\ Lifecycle' /\ Written' /\ CallbackSafe'
  BY <1>1, LifeFrame
<1>4. WriterType' /\ Passes' /\ Named' /\ Counted'
  BY <1>1, <1>2, UserFrame DEF IInv, Passes
<1>5. OnlyLoadUnwritten' /\ garbage' \in BOOLEAN
  BY <1>1, <1>2, ReadsKeepUnwritten
<1>6. ReaderType' /\ Cycle'
  BY <1>1, <1>5, TypeParts DEF IInv, ReaderType, Cycle
<1> QED
  BY <1>3, <1>4, <1>5, <1>6, Parts

\* What the loads of the agent keep.
LEMMA LoadFrame ==
    ASSUME IInv, Took, upc[Agent] = "mapped"
    PROVE  /\ LifeType' /\ Lifecycle' /\ Written' /\ CallbackSafe'
           /\ WriterType' /\ Passes' /\ Named' /\ OnlyLoadUnwritten' /\ garbage' \in BOOLEAN
           /\ UNCHANGED <<online, kstat, writer, steady, shaky>>
<1>1. AtUser /\ garbage' = (garbage \/ ~filled) /\ UNCHANGED <<lifevars, shaky>>
  BY DEF Took
<1>2. UNCHANGED <<kind, live, online, kstat, writer, steady, shaky>>
  BY <1>1 DEF lifevars, module, AtUser
<1>3. LifeType' /\ Lifecycle' /\ Written' /\ CallbackSafe'
  BY <1>1, LifeFrame
<1>4. WriterType' /\ Passes' /\ Named'
  BY <1>2, WriterFrame DEF IInv, Passes
<1>5. OnlyLoadUnwritten' /\ garbage' \in BOOLEAN
  BY <1>1, <1>2, ReadsKeepUnwritten, SoftIrqShmAssumption
<1> QED
  BY <1>2, <1>3, <1>4, <1>5

\* The slot the agent is at.
LEMMA AtRead ==
    ASSUME IInv, r < End
    PROVE  r \in Cpus /\ r + 1 \in 0 .. End /\ (r + 1 # End => r + 1 < End)
<1>1. r \in 0 .. End /\ End \in Nat
  BY SoftIrqShmAssumption DEF IInv, TypeOK, End
<1> QED
  BY <1>1 DEF Cpus, End

\* A slot without a name ends the cycle: it is that of a CPU that was not
\* steady, since the others have one.
LEMMA CheckSlotKeepsIInv == ASSUME IInv, CheckSlot PROVE IInv'
<1>1. /\ rpc = "check" /\ upc[Agent] = "mapped" /\ Took /\ UNCHANGED <<r, report, last, shown>>
      /\ rpc' = IF name[r] = "" THEN "done" ELSE "name"
  BY DEF CheckSlot, Reading
<1>2. Len(report) = r /\ r < End
  BY <1>1 DEF IInv, Cycle
<1>3. UNCHANGED <<online, kstat, writer, steady, shaky>> /\ garbage' \in BOOLEAN
  BY <1>1, LoadFrame
<1>4. name[r] = "" => r \in shaky
  BY <1>2, AtRead DEF IInv, Passes, Named
<1>5. ReaderType'
  BY <1>1, <1>3, TypeParts DEF IInv, ReaderType
<1>6. Cycle'
  BY <1>1, <1>2, <1>3, <1>4 DEF IInv, Cycle
<1>7. Counted'
  BY <1>1, <1>3 DEF IInv, Counted, writer
<1> QED
  BY <1>1, <1>5, <1>6, <1>7, LoadFrame, Parts

\* The name that is copied is whole, if the CPU was steady.
LEMMA ReadNameKeepsIInv == ASSUME IInv, ReadName PROVE IInv'
<1>1. /\ rpc = "name" /\ upc[Agent] = "mapped" /\ Took /\ UNCHANGED <<r, last, shown>>
      /\ report' = Append(report, [name |-> name[r], count |-> 0]) /\ rpc' = "count"
  BY DEF ReadName, Reading
<1>2. Len(report) = r /\ r < End
  BY <1>1 DEF IInv, Cycle
<1>3. UNCHANGED <<online, kstat, writer, steady, shaky>> /\ garbage' \in BOOLEAN
  BY <1>1, LoadFrame
<1>4. r \in Cpus /\ name[r] \in {"", "cpu", "full"}
  BY <1>2, AtRead DEF IInv, TypeOK
<1>0. r \in Nat
  <2>1. r \in 0 .. End /\ End \in Nat
    BY SoftIrqShmAssumption DEF IInv, TypeOK, End
  <2> QED
    BY <2>1
<1>5. r \notin shaky => name[r] = "full"
  BY <1>4 DEF IInv, Passes, Named
<1>6. report \in Seq(Entries) /\ [name |-> name[r], count |-> 0] \in Entries
  <2>1. 0 \in Word
    BY SoftIrqShmAssumption DEF Word
  <2> QED
    BY <1>4, <2>1, TypeParts DEF IInv, ReaderType, Entries
<1>7. /\ report' \in Seq(Entries) /\ Len(report') = r + 1
      /\ report'[r + 1] = [name |-> name[r], count |-> 0]
      /\ \A k \in 1 .. r : report'[k] = report[k]
  BY <1>1, <1>2, <1>6
<1>8. ReaderType'
  BY <1>1, <1>3, <1>7, TypeParts DEF IInv, ReaderType
<1>9. \A k \in 1 .. Len(report') : k - 1 \notin shaky => report'[k].name = "full"
  <2> SUFFICES ASSUME NEW k \in 1 .. r + 1, k - 1 \notin shaky PROVE report'[k].name = "full"
    BY <1>7
  <2>1. CASE k = r + 1
    <3>1. r \in Int /\ k - 1 = r
      BY <1>0, <2>1
    <3> QED
      BY <2>1, <3>1, <1>5, <1>7
  <2>2. CASE k # r + 1
    <3>1. k \in 1 .. r
      BY <1>0, <2>2
    <3> QED
      BY <3>1, <1>2, <1>7 DEF IInv, Cycle
  <2> QED
    BY <2>1, <2>2
<1>10. Cycle'
  BY <1>1, <1>2, <1>3, <1>7, <1>9 DEF Cycle
<1>11. Counted'
  BY <1>1, <1>3 DEF IInv, Counted, writer
<1> QED
  BY <1>1, <1>8, <1>10, <1>11, LoadFrame, Parts

\* The count that is copied is one the slot holds.
LEMMA ReadCountKeepsIInv == ASSUME IInv, ReadCount PROVE IInv'
<1>1. /\ rpc = "count" /\ upc[Agent] = "mapped" /\ Took
      /\ report' = [report EXCEPT ![r + 1].count = count[r]]
      /\ last' = [last EXCEPT ![r] = count[r]] /\ shown' = [shown EXCEPT ![r] = taken[r]]
      /\ r' = r + 1 /\ rpc' = IF r + 1 = End THEN "done" ELSE "check"
  BY DEF ReadCount, Reading
<1>2. Len(report) = r + 1 /\ r < End
  BY <1>1 DEF IInv, Cycle
<1>3. UNCHANGED <<online, kstat, writer, steady, shaky>> /\ garbage' \in BOOLEAN
  BY <1>1, LoadFrame
<1>4. r \in Cpus /\ r + 1 \in 0 .. End /\ (r + 1 # End => r + 1 < End)
  BY <1>2, AtRead
<1>5. /\ count[r] \in Word /\ last \in [Cpus -> Word] /\ report \in Seq(Entries)
      /\ taken[r] \in 0 .. MaxIrq /\ shown \in [Cpus -> 0 .. MaxIrq]
  BY <1>4, TypeParts DEF IInv, WriterType, ReaderType
<1>6. /\ last' \in [Cpus -> Word] /\ \A c \in Cpus : last'[c] = IF c = r THEN count[r] ELSE last[c]
      /\ shown' \in [Cpus -> 0 .. MaxIrq] /\ \A c \in Cpus : shown'[c] = IF c = r THEN taken[r] ELSE shown[c]
  BY <1>1, <1>4, <1>5
<1>7. r + 1 \in 1 .. Len(report) /\ report[r + 1] \in Entries
  BY <1>2, <1>4, <1>5 DEF Cpus
<1>8. [report[r + 1] EXCEPT !.count = count[r]] \in Entries
      /\ [report[r + 1] EXCEPT !.count = count[r]].name = report[r + 1].name
  BY <1>5, <1>7 DEF Entries
<1>9. report' = [report EXCEPT ![r + 1] = [report[r + 1] EXCEPT !.count = count[r]]]
  BY <1>1
<1>10. /\ report' \in Seq(Entries) /\ Len(report') = r + 1
       /\ \A k \in 1 .. Len(report) : report'[k].name = report[k].name
  BY <1>2, <1>5, <1>7, <1>8, <1>9
<1>11. ReaderType'
  BY <1>1, <1>3, <1>4, <1>6, <1>10, TypeParts DEF IInv, ReaderType
<1>12. \A k \in 1 .. Len(report') : k - 1 \notin shaky' => report'[k].name = "full"
  BY <1>2, <1>3, <1>10 DEF IInv, Cycle
<1>13. Cycle'
  BY <1>1, <1>2, <1>3, <1>4, <1>10, <1>12 DEF Cycle
<1>14. Counted'
  <2> SUFFICES ASSUME NEW c \in Cpus
               PROVE  /\ last'[c] = shown'[c] % U32 /\ shown'[c] <= kstat[c]
                      /\ c \notin virgin => shown'[c] <= taken[c]
    BY <1>3 DEF IInv, Counted, writer
  <2>1. /\ count[c] = taken[c] % U32 /\ taken[c] <= kstat[c]
        /\ last[c] = shown[c] % U32 /\ shown[c] <= kstat[c]
        /\ c \notin virgin => shown[c] <= taken[c]
    BY DEF IInv, Counted
  <2>2. taken[c] \in 0 .. MaxIrq
    BY DEF IInv, TypeOK
  <2> QED
    BY <1>6, <2>1, <2>2
<1> QED
  BY <1>1, <1>11, <1>13, <1>14, LoadFrame, Parts

------------------------------------------------------------------------------
(* Every step, and every behaviour.                                        *)

\* Every step of the system keeps the invariant.
LEMMA NextIInv == IInv /\ [Next]_vars => IInv'
<1> SUFFICES ASSUME IInv, [Next]_vars PROVE IInv'
  OBVIOUS
<1>1. CASE Hotplug
  BY <1>1, SoftIrqKeepsIInv, CpuUpKeepsIInv, CpuDownKeepsIInv DEF Hotplug
<1>2. CASE Module
  BY <1>2, LoadKeepsIInv, FirstPassDoneKeepsIInv, FireKeepsIInv, SkipSlotKeepsIInv, NameSlotKeepsIInv,
     CountSlotKeepsIInv, InitExitKeepsIInv DEF Module, UpdateSoftIrqStats
<1>3. CASE Use
  BY <1>3, OpenDeviceKeepsIInv, MapDeviceKeepsIInv, ReadBufferKeepsIInv, CloseDeviceKeepsIInv DEF Use
<1>4. CASE UpdateOnce
  BY <1>4, CheckSlotKeepsIInv, ReadNameKeepsIInv, ReadCountKeepsIInv DEF UpdateOnce
<1>5. CASE UNCHANGED vars
  <2>1. UNCHANGED <<lifevars, online, kstat, writer, reader, steady, shaky>>
    BY <1>5 DEF vars
  <2>2. UNCHANGED <<kind, live>>
    BY <2>1 DEF lifevars, module
  <2>3. LifeType' /\ Lifecycle' /\ Written' /\ CallbackSafe'
    BY <2>1, LifeFrame
  <2>4. WriterType' /\ Passes' /\ Named'
    BY <2>1, <2>2, WriterFrame DEF IInv, Passes
  <2>5. ReaderType' /\ Cycle' /\ OnlyLoadUnwritten'
    BY <2>1, <2>2, ReaderFrame, TypeParts DEF IInv, ReaderType
  <2>6. Counted'
    BY <2>1 DEF IInv, Counted, writer, reader
  <2> QED
    BY <2>3, <2>4, <2>5, <2>6, Parts
<1> QED
  BY <1>1, <1>2, <1>3, <1>4, <1>5 DEF Next

\* In every behaviour of the module, its buffer and its users (SoftIrqShm),
\* all parts of the inductive invariant hold.
THEOREM Invariance == Spec => []IInv
BY InitIInv, NextIInv, PTL DEF Spec

\* All variables keep to their types.
THEOREM TypeCorrect == Spec => []TypeOK
<1>1. IInv => TypeOK
  BY DEF IInv
<1> QED
  BY <1>1, Invariance, PTL

\* A callback touches freed memory only as the timer of a failed init
\* (cpu_stat_monitor_kmod.c:229-236), however often the module is loaded.
THEOREM CallbackIsSafe == Spec => []CallbackSafe
<1>1. IInv => CallbackSafe
  BY DEF IInv
<1> QED
  BY <1>1, Invariance, PTL

\* Whoever has the device open or mapped finds its buffer allocated.
THEOREM MappedBuffersLive == Spec => []MappedIsLive
<1>1. IInv => MappedIsLive
  BY DEF IInv, Lifecycle, MappedIsLive
<1> QED
  BY <1>1, Invariance, PTL

\* Only cpu_load shows memory that was never written.
THEOREM OnlyLoadIsUnwritten == Spec => []OnlyLoadUnwritten
<1>1. IInv => OnlyLoadUnwritten
  BY DEF IInv
<1> QED
  BY <1>1, Invariance, PTL

\* Up to the first CPU that was not online all the time, a finished cycle of
\* the agent reports every CPU with its whole name.
THEOREM SteadyCpusReported == Spec => []SteadyReported
<1>1. IInv => SteadyReported
  <2> SUFFICES ASSUME IInv, rpc = "done", NEW c \in Cpus, (0 .. c) \cap shaky = {}
               PROVE  c < Len(report) /\ report[c + 1].name = "full"
    BY DEF SteadyReported
  <2>1. Len(report) = r /\ (r = End \/ r \in shaky) /\ r \in 0 .. End
    BY DEF IInv, Cycle, TypeOK
  <2>2. c \in Nat /\ c < End /\ End \in Nat
    BY BelowEnd, SoftIrqShmAssumption DEF Cpus, End
  <2>3. c < r
    BY <2>1, <2>2
  <2>4. c + 1 \in 1 .. Len(report) /\ (c + 1) - 1 = c /\ c \notin shaky
    BY <2>1, <2>2, <2>3
  <2> QED
    BY <2>1, <2>3, <2>4 DEF IInv, Cycle
<1> QED
  BY <1>1, Invariance, PTL

\* The counts reported of a CPU, numbers of 32 bits, go back only past a multiple
\* of 2^32 soft interrupts, or to that of a slot not yet counted since the module
\* was loaded.
THEOREM CountsGoForward == Spec => CountsForward
<1>1. IInv /\ [Next]_vars => [\A c \in Cpus : last'[c] < last[c] => c \in virgin \/ PassedMultiple(c)]_vars
  <2> SUFFICES ASSUME IInv, Next, NEW c \in Cpus, last'[c] < last[c], c \notin virgin PROVE PassedMultiple(c)
    OBVIOUS
  <2>1. last \in [Cpus -> Word] /\ shown \in [Cpus -> 0 .. MaxIrq] /\ taken[c] \in 0 .. MaxIrq
    BY DEF IInv, TypeOK
  <2>2. last' # last
    <3>1. last[c] \in Int
      BY <2>1, SoftIrqShmAssumption DEF Word
    <3> QED
      BY <3>1
  <2>3. ReadCount
    BY <2>2 DEF Next, Hotplug, SoftIrq, CpuUp, CpuDown, Module, Load, FirstPassDone, Fire, UpdateSoftIrqStats,
                SkipSlot, NameSlot, NumberSlot, CountSlot, Advance, GoOn, InitExit, Use, OpenDevice, MapDevice,
                ReadBuffer, CloseDevice, UpdateOnce, CheckSlot, ReadName, reader
  <2>4. last' = [last EXCEPT ![r] = count[r]] /\ shown' = [shown EXCEPT ![r] = taken[r]]
    BY <2>3 DEF ReadCount
  <2>5. c = r
    <3>1. last'[c] = IF c = r THEN count[r] ELSE last[c]
      BY <2>1, <2>4
    <3>2. last[c] \in Int
      BY <2>1, SoftIrqShmAssumption DEF Word
    <3> QED
      BY <3>1, <3>2
  <2>6. last'[c] = count[c] /\ shown'[c] = taken[c]
    BY <2>1, <2>4, <2>5
  <2>7. count[c] = taken[c] % U32 /\ last[c] = shown[c] % U32 /\ shown[c] <= taken[c]
    BY DEF IInv, Counted
  <2>8. shown[c] \in Nat /\ taken[c] \in Nat
    BY <2>1
  <2> QED
    BY <2>6, <2>7, <2>8, GoesBack DEF PassedMultiple
<1> QED
  BY <1>1, Invariance, PTL DEF Spec, CountsForward
=============================================================================
