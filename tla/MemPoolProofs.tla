--------------------------- MODULE MemPoolProofs ---------------------------
(***************************************************************************)
(* Proofs about MemPool for any finite set of threads and any pool size.   *)
(***************************************************************************)
EXTENDS MemPool, FiniteSetTheorems, TLAPS

USE SMTT(30)

\* A thread about to compare-and-swap points inside the chunk, with its loop
\* counter below the bound.
CasInRange ==
  \A t \in Threads : pc[t] = "cas" => idx[t] \in Slots /\ cnt[t] < AllocCount

\* The part of the inductive invariant about who owns which block.
OwnInv == TypeOK /\ CasInRange /\ Exclusive /\ FlagsMatchOwners

USE AllocCountAssumption, MaxHeapAssumption

----------------------------------------------------------------------------
\* The initial pool satisfies the ownership invariant: no flag, no owner.
LEMMA InitOwn == Init => OwnInv
  BY DEF Init, OwnInv, TypeOK, CasInRange, Exclusive, FlagsMatchOwners,
         InFlight, PCs, Ops, Slots

\* Every access of newMem and delMem to the pool keeps the types.
LEMMA TypeStep == OwnInv /\ [Next]_vars => TypeOK'
<1> SUFFICES ASSUME OwnInv, [Next]_vars PROVE TypeOK'
  OBVIOUS
<1> USE DEF OwnInv, TypeOK, PCs, Ops, Slots
<1>1. ASSUME NEW t \in Threads, NEW o \in Ops, newMem(t, o) PROVE TypeOK'
  BY <1>1 DEF newMem
<1>2. ASSUME NEW t \in Threads, delMem(t) PROVE TypeOK'
  BY <1>2 DEF delMem
<1>3. ASSUME NEW t \in Threads, delMemHeap(t) PROVE TypeOK'
  BY <1>3 DEF delMemHeap
<1>4. ASSUME NEW t \in Threads, FullFallback(t) PROVE TypeOK'
  BY <1>4 DEF FullFallback, unit_alloc
<1>5. ASSUME NEW t \in Threads, FullPassed(t) PROVE TypeOK'
  BY <1>5 DEF FullPassed
<1>6. ASSUME NEW t \in Threads, Scan(t) PROVE TypeOK'
  <2> DEFINE s == IF idx[t] >= AllocCount THEN 0 ELSE idx[t]
  <2>1. s \in Slots /\ cnt[t] + 1 \in 0 .. AllocCount
    BY <1>6 DEF Scan
  <2>2. CASE /\ idx' = [idx EXCEPT ![t] = s]
             /\ pc' = [pc EXCEPT ![t] = "cas"]
             /\ UNCHANGED <<cnt, flag, useCnt, lastCount, held, heap, op>>
    BY <2>1, <2>2
  <2>3. CASE /\ idx' = [idx EXCEPT ![t] = s + 1]
             /\ cnt' = [cnt EXCEPT ![t] = cnt[t] + 1]
             /\ UNCHANGED <<pc, flag, useCnt, lastCount, held, heap, op>>
    BY <2>1, <2>3
  <2> QED
    BY <1>6, <2>2, <2>3 DEF Scan, Advance
<1>7. ASSUME NEW t \in Threads, ScanEnd(t) PROVE TypeOK'
  <2>1. /\ heap' = heap \/ (heap < MaxHeap /\ heap' = heap + 1)
        /\ pc' = [pc EXCEPT ![t] = "idle"]
        /\ UNCHANGED <<flag, useCnt, lastCount, held, op, idx, cnt>>
    BY <1>7 DEF ScanEnd, unit_alloc
  <2> QED
    BY <2>1
<1>8. ASSUME NEW t \in Threads, Cas(t) PROVE TypeOK'
  <2>1. idx[t] \in Slots /\ cnt[t] + 1 \in 0 .. AllocCount
    BY <1>8 DEF Cas, CasInRange
  <2>2. CASE /\ flag' = [flag EXCEPT ![idx[t]] = 1]
             /\ pc' = [pc EXCEPT ![t] = "inc"]
             /\ UNCHANGED <<idx, cnt, useCnt, lastCount, held, heap, op>>
    BY <2>1, <2>2
  <2>3. CASE /\ idx' = [idx EXCEPT ![t] = idx[t] + 1]
             /\ cnt' = [cnt EXCEPT ![t] = cnt[t] + 1]
             /\ pc' = [pc EXCEPT ![t] = "scan"]
             /\ UNCHANGED <<flag, useCnt, lastCount, held, heap, op>>
    BY <2>1, <2>3
  <2> QED
    BY <1>8, <2>2, <2>3 DEF Cas, Advance
<1>9. ASSUME NEW t \in Threads, Increment(t) PROVE TypeOK'
  BY <1>9 DEF Increment
<1>10. ASSUME NEW t \in Threads, SetLast(t) PROVE TypeOK'
  BY <1>10, Zenon DEF SetLast, Exclusive, InFlight
<1>11. ASSUME NEW t \in Threads, ClearFlag(t) PROVE TypeOK'
  BY <1>11, Zenon DEF ClearFlag
<1>12. ASSUME NEW t \in Threads, Decrement(t) PROVE TypeOK'
  BY <1>12 DEF Decrement
<1>13. CASE UNCHANGED vars
  BY <1>13 DEF vars
<1> QED
  BY <1>1, <1>2, <1>3, <1>4, <1>5, <1>6, <1>7, <1>8, <1>9, <1>10, <1>11,
     <1>12, <1>13 DEF Next, Call, Step
\* A thread reaches its compare-and-swap only from a scan step in range.
LEMMA CasStep == OwnInv /\ [Next]_vars => CasInRange'
<1> SUFFICES ASSUME OwnInv, [Next]_vars,
                    NEW u \in Threads, pc'[u] = "cas"
             PROVE  (idx'[u] \in Slots) /\ (cnt'[u] < AllocCount)
  BY DEF CasInRange
<1> USE DEF OwnInv, TypeOK, CasInRange
<1>1. ASSUME NEW t \in Threads, Scan(t)
      PROVE  (idx'[u] \in Slots) /\ (cnt'[u] < AllocCount)
  <2> DEFINE s == IF idx[t] >= AllocCount THEN 0 ELSE idx[t]
  <2>1. s \in Slots /\ cnt[t] < AllocCount
    BY <1>1 DEF Scan, Slots
  <2>2. CASE /\ idx' = [idx EXCEPT ![t] = s]
             /\ UNCHANGED cnt
             /\ pc' = [pc EXCEPT ![t] = "cas"]
    BY <2>1, <2>2
  <2>3. CASE /\ pc[t] = "scan"
             /\ UNCHANGED pc
             /\ idx' = [idx EXCEPT ![t] = s + 1]
             /\ cnt' = [cnt EXCEPT ![t] = cnt[t] + 1]
    BY <2>3
  <2> QED
    BY <1>1, <2>2, <2>3 DEF Scan, Advance
<1>2. CASE UNCHANGED vars
  BY <1>2 DEF vars
<1>3. ASSUME NEW t \in Threads, Call(t) \/ Step(t), ~ Scan(t)
      PROVE  (pc[u] = "cas") /\ (idx'[u] = idx[u]) /\ (cnt'[u] = cnt[u])
  <2>1. CASE Call(t)
    BY <2>1 DEF Call, newMem, delMem, delMemHeap
  <2>2. CASE FullFallback(t) \/ FullPassed(t) \/ ScanEnd(t)
    BY <2>2 DEF FullFallback, FullPassed, ScanEnd, unit_alloc
  <2>3. CASE Cas(t)
    BY <2>3 DEF Cas, Advance
  <2>4. CASE Increment(t) \/ SetLast(t) \/ ClearFlag(t) \/ Decrement(t)
    BY <2>4 DEF Increment, SetLast, ClearFlag, Decrement
  <2> QED
    BY <1>3, <2>1, <2>2, <2>3, <2>4 DEF Step
<1> QED
  BY <1>1, <1>2, <1>3 DEF Next

\* A step that moves no flag, no pointer and no owner keeps the ownership.
LEMMA QuietStep ==
  ASSUME OwnInv, NEW t \in Threads,
         t \notin InFlight, InFlight' = InFlight,
         \A u \in Threads \ {t} : idx'[u] = idx[u],
         flag' = flag, held' = held
  PROVE  Exclusive' /\ FlagsMatchOwners'
<1>1. \A u \in InFlight : (u \in Threads \ {t}) /\ (idx'[u] = idx[u])
  BY DEF InFlight
<1> QED
  BY <1>1 DEF OwnInv, Exclusive, FlagsMatchOwners

\* newMem and delMem hand ownership over atomically: the flag is won or given
\* up in the same step in which a thread becomes or ceases to be the owner.
LEMMA OwnStep == OwnInv /\ [Next]_vars => Exclusive' /\ FlagsMatchOwners'
<1> SUFFICES ASSUME OwnInv, [Next]_vars PROVE Exclusive' /\ FlagsMatchOwners'
  OBVIOUS
<1> USE DEF OwnInv, TypeOK
<1>1. ASSUME NEW t \in Threads, NEW o \in Ops, newMem(t, o)
      PROVE  Exclusive' /\ FlagsMatchOwners'
  BY <1>1, QuietStep, Zenon DEF newMem, InFlight
<1>2. ASSUME NEW t \in Threads, delMem(t)
      PROVE  Exclusive' /\ FlagsMatchOwners'
  <2>1. PICK s \in held : /\ held' = held \ {s}
                          /\ idx' = [idx EXCEPT ![t] = s]
    BY <1>2, Zenon DEF delMem
  <2>2. InFlight' = InFlight \cup {t} /\ t \notin InFlight /\ flag' = flag
    BY <1>2 DEF delMem, InFlight
  <2>3. idx'[t] = s /\ \A u \in InFlight : idx'[u] = idx[u]
    BY <2>1, <2>2 DEF InFlight
  <2>4. Exclusive'
    BY <2>1, <2>2, <2>3 DEF Exclusive
  <2>5. FlagsMatchOwners'
    BY <2>1, <2>2, <2>3 DEF FlagsMatchOwners
  <2> QED
    BY <2>4, <2>5
<1>3. ASSUME NEW t \in Threads, delMemHeap(t)
      PROVE  Exclusive' /\ FlagsMatchOwners'
  BY <1>3, QuietStep, Zenon DEF delMemHeap, InFlight
<1>4. ASSUME NEW t \in Threads, FullFallback(t)
      PROVE  Exclusive' /\ FlagsMatchOwners'
  BY <1>4, QuietStep, Zenon DEF FullFallback, unit_alloc, InFlight
<1>5. ASSUME NEW t \in Threads, FullPassed(t)
      PROVE  Exclusive' /\ FlagsMatchOwners'
  BY <1>5, QuietStep, Zenon DEF FullPassed, InFlight
<1>6. ASSUME NEW t \in Threads, Scan(t)
      PROVE  Exclusive' /\ FlagsMatchOwners'
  <2>1. t \notin InFlight /\ InFlight' = InFlight
    BY <1>6 DEF Scan, InFlight
  <2>2. \A u \in Threads \ {t} : idx'[u] = idx[u]
    BY <1>6 DEF Scan, Advance
  <2> QED
    BY <1>6, <2>1, <2>2, QuietStep, Zenon DEF Scan
<1>7. ASSUME NEW t \in Threads, ScanEnd(t)
      PROVE  Exclusive' /\ FlagsMatchOwners'
  BY <1>7, QuietStep, Zenon DEF ScanEnd, unit_alloc, InFlight
<1>8. ASSUME NEW t \in Threads, Cas(t)
      PROVE  Exclusive' /\ FlagsMatchOwners'
  <2>1. CASE flag[idx[t]] = 0
    <3>1. /\ InFlight' = InFlight \cup {t}
          /\ t \notin InFlight
          /\ flag' = [flag EXCEPT ![idx[t]] = 1]
          /\ UNCHANGED <<idx, held>>
      BY <1>8, <2>1 DEF Cas, InFlight
    <3>2. /\ idx[t] \in Slots \ held
          /\ \A u \in InFlight : idx[u] # idx[t]
      BY <1>8, <2>1 DEF Cas, CasInRange, FlagsMatchOwners
    <3>3. Exclusive'
      BY <3>1, <3>2 DEF Exclusive
    <3>4. FlagsMatchOwners'
      BY <3>1, <3>2 DEF FlagsMatchOwners
    <3> QED
      BY <3>3, <3>4
  <2>2. CASE flag[idx[t]] # 0
    <3>1. t \notin InFlight /\ InFlight' = InFlight
      BY <1>8, <2>2 DEF Cas, InFlight
    <3>2. flag' = flag /\ held' = held /\ \A u \in Threads \ {t} : idx'[u] = idx[u]
      BY <1>8, <2>2 DEF Cas, Advance
    <3> QED
      BY <3>1, <3>2, QuietStep, Zenon
  <2> QED
    BY <2>1, <2>2
<1>9. ASSUME NEW t \in Threads, Increment(t)
      PROVE  Exclusive' /\ FlagsMatchOwners'
  <2>1. InFlight' = InFlight /\ UNCHANGED <<flag, held, idx>>
    BY <1>9 DEF Increment, InFlight
  <2> QED
    BY <2>1 DEF Exclusive, FlagsMatchOwners
<1>10. ASSUME NEW t \in Threads, SetLast(t)
      PROVE  Exclusive' /\ FlagsMatchOwners'
  <2>1. /\ InFlight' = InFlight \ {t}
        /\ t \in InFlight
        /\ held' = held \cup {idx[t]}
        /\ UNCHANGED <<flag, idx>>
    BY <1>10 DEF SetLast, InFlight
  <2>2. Exclusive'
    BY <2>1 DEF Exclusive
  <2>3. FlagsMatchOwners'
    BY <2>1 DEF FlagsMatchOwners
  <2> QED
    BY <2>2, <2>3
<1>11. ASSUME NEW t \in Threads, ClearFlag(t)
      PROVE  Exclusive' /\ FlagsMatchOwners'
  <2>1. /\ InFlight' = InFlight \ {t}
        /\ t \in InFlight
        /\ flag' = [flag EXCEPT ![idx[t]] = 0]
        /\ UNCHANGED <<held, idx>>
    BY <1>11 DEF ClearFlag, InFlight
  <2>2. idx[t] \in Slots \ held /\ \A u \in InFlight \ {t} : idx[u] # idx[t]
    BY <2>1 DEF Exclusive
  <2>3. Exclusive'
    BY <2>1 DEF Exclusive
  <2>4. FlagsMatchOwners'
    BY <2>1, <2>2 DEF FlagsMatchOwners
  <2> QED
    BY <2>3, <2>4
<1>12. ASSUME NEW t \in Threads, Decrement(t)
      PROVE  Exclusive' /\ FlagsMatchOwners'
  BY <1>12, QuietStep, Zenon DEF Decrement, InFlight
<1>13. CASE UNCHANGED vars
  BY <1>13 DEF vars, Exclusive, FlagsMatchOwners, InFlight
<1> QED
  BY <1>1, <1>2, <1>3, <1>4, <1>5, <1>6, <1>7, <1>8, <1>9, <1>10, <1>11,
     <1>12, <1>13 DEF Next, Call, Step

\* The ownership invariant holds in every reachable state of the pool.
LEMMA Ownership == Spec => []OwnInv
<1>1. OwnInv /\ [Next]_vars => OwnInv'
  BY TypeStep, CasStep, OwnStep, Zenon DEF OwnInv
<1> QED
  BY InitOwn, <1>1, PTL DEF Spec

\* The pool and the threads inside newMem and delMem keep their types.
THEOREM TypeCorrect == Spec => []TypeOK
  BY Ownership, PTL DEF OwnInv

\* CMemPool never hands a block to two owners, for any number of threads and
\* blocks.
THEOREM BlocksExclusive == Spec => []Exclusive
  BY Ownership, PTL DEF OwnInv

\* The flag array of CMemPool always tells exactly which blocks are owned.
THEOREM FlagsExact == Spec => []FlagsMatchOwners
  BY Ownership, PTL DEF OwnInv

----------------------------------------------------------------------------
\* The sets that UseCountExact counts are finite.
LEMMA CountedSetsFinite ==
  /\ IsFiniteSet(UsedSlots) /\ Cardinality(UsedSlots) \in 0 .. AllocCount
  /\ IsFiniteSet(AtInc) /\ Cardinality(AtInc) \in Nat
  /\ IsFiniteSet(AtDec) /\ Cardinality(AtDec) \in Nat
<1>1. IsFiniteSet(Slots) /\ Cardinality(Slots) = AllocCount
  BY FS_Interval DEF Slots
<1>2. UsedSlots \in SUBSET Slots /\ AtInc \in SUBSET Threads /\ AtDec \in SUBSET Threads
  BY DEF UsedSlots, AtInc, AtDec
<1>3. IsFiniteSet(UsedSlots) /\ IsFiniteSet(AtInc) /\ IsFiniteSet(AtDec)
  BY <1>1, <1>2, FS_Subset, ThreadsAssumption
<1>4. Cardinality(UsedSlots) <= AllocCount
  BY <1>1, <1>2, FS_Subset
<1> QED
  BY <1>3, <1>4, FS_CardinalityType

\* A step of newMem or delMem that touches neither the flags nor the counter
\* leaves the accounting as it is.
LEMMA CountQuiet ==
  ASSUME UseCountExact, UsedSlots' = UsedSlots, AtInc' = AtInc,
         AtDec' = AtDec, useCnt' = useCnt
  PROVE  UseCountExact'
  BY DEF UseCountExact

\* The use counter of CMemPool equals the number of set flags, corrected by the
\* calls between flag and counter, after every step.
LEMMA CountStep == OwnInv /\ UseCountExact /\ [Next]_vars => UseCountExact'
<1> SUFFICES ASSUME OwnInv, UseCountExact, [Next]_vars PROVE UseCountExact'
  OBVIOUS
<1> USE DEF OwnInv, TypeOK
<1>1. ASSUME NEW t \in Threads, Cas(t) PROVE UseCountExact'
  <2>1. CASE flag[idx[t]] = 0
    <3>1. /\ UsedSlots' = UsedSlots \cup {idx[t]} /\ idx[t] \notin UsedSlots
          /\ AtInc' = AtInc \cup {t} /\ t \notin AtInc
          /\ AtDec' = AtDec /\ useCnt' = useCnt
      BY <1>1, <2>1 DEF Cas, CasInRange, UsedSlots, AtInc, AtDec
    <3>2. /\ Cardinality(UsedSlots') = Cardinality(UsedSlots) + 1
          /\ Cardinality(AtInc') = Cardinality(AtInc) + 1
      BY <3>1, CountedSetsFinite, FS_AddElement, Zenon
    <3> QED
      BY <3>1, <3>2, CountedSetsFinite DEF UseCountExact
  <2>2. CASE flag[idx[t]] # 0
    <3>1. UsedSlots' = UsedSlots /\ AtInc' = AtInc /\ AtDec' = AtDec /\ useCnt' = useCnt
      BY <1>1, <2>2 DEF Cas, UsedSlots, AtInc, AtDec
    <3> QED
      BY <3>1, CountQuiet, Zenon
  <2> QED
    BY <2>1, <2>2
<1>2. ASSUME NEW t \in Threads, Increment(t) PROVE UseCountExact'
  <2>1. /\ AtInc' = AtInc \ {t} /\ t \in AtInc
        /\ UsedSlots' = UsedSlots /\ AtDec' = AtDec /\ useCnt' = useCnt + 1
    BY <1>2 DEF Increment, UsedSlots, AtInc, AtDec
  <2>2. Cardinality(AtInc') = Cardinality(AtInc) - 1
    BY <2>1, CountedSetsFinite, FS_RemoveElement, Zenon
  <2> QED
    BY <2>1, <2>2, CountedSetsFinite DEF UseCountExact
<1>3. ASSUME NEW t \in Threads, ClearFlag(t) PROVE UseCountExact'
  <2>1. idx[t] \in UsedSlots
    BY <1>3 DEF ClearFlag, Exclusive, FlagsMatchOwners, InFlight, UsedSlots
  <2>2. /\ UsedSlots' = UsedSlots \ {idx[t]}
        /\ AtDec' = AtDec \cup {t} /\ t \notin AtDec
        /\ AtInc' = AtInc /\ useCnt' = useCnt
    BY <1>3, <2>1 DEF ClearFlag, UsedSlots, AtInc, AtDec
  <2>3. \A s \in UsedSlots : Cardinality(UsedSlots \ {s}) = Cardinality(UsedSlots) - 1
    BY CountedSetsFinite, FS_RemoveElement, Zenon
  <2>4. Cardinality(AtDec') = Cardinality(AtDec) + 1
    BY <2>2, CountedSetsFinite, FS_AddElement, Zenon
  <2> QED
    BY <2>1, <2>2, <2>3, <2>4, CountedSetsFinite DEF UseCountExact
<1>4. ASSUME NEW t \in Threads, Decrement(t) PROVE UseCountExact'
  <2>1. /\ AtDec' = AtDec \ {t} /\ t \in AtDec
        /\ UsedSlots' = UsedSlots /\ AtInc' = AtInc /\ useCnt' = useCnt - 1
    BY <1>4 DEF Decrement, UsedSlots, AtInc, AtDec
  <2>2. Cardinality(AtDec') = Cardinality(AtDec) - 1
    BY <2>1, CountedSetsFinite, FS_RemoveElement, Zenon
  <2> QED
    BY <2>1, <2>2, CountedSetsFinite DEF UseCountExact
<1>5. ASSUME NEW t \in Threads, Call(t) PROVE UseCountExact'
  BY <1>5, CountQuiet, Zenon DEF Call, newMem, delMem, delMemHeap, UsedSlots, AtInc, AtDec
<1>6. ASSUME NEW t \in Threads, FullFallback(t) \/ FullPassed(t) \/ ScanEnd(t)
      PROVE  UseCountExact'
  BY <1>6, CountQuiet, Zenon
     DEF FullFallback, FullPassed, ScanEnd, unit_alloc, UsedSlots, AtInc, AtDec
<1>7. ASSUME NEW t \in Threads, Scan(t) \/ SetLast(t) PROVE UseCountExact'
  BY <1>7, CountQuiet, Zenon DEF Scan, SetLast, UsedSlots, AtInc, AtDec
<1>8. CASE UNCHANGED vars
  BY <1>8, CountQuiet, Zenon DEF vars, UsedSlots, AtInc, AtDec
<1> QED
  BY <1>1, <1>2, <1>3, <1>4, <1>5, <1>6, <1>7, <1>8 DEF Next, Step

\* The counter behind GETUSECOUNT and the full test of newMem never drifts from
\* the flags, for any number of threads and blocks.
THEOREM CountExact == Spec => []UseCountExact
<1>1. Init => UseCountExact
  <2> SUFFICES ASSUME Init PROVE UseCountExact
    OBVIOUS
  <2>1. UsedSlots = {} /\ AtInc = {} /\ AtDec = {}
    BY DEF Init, UsedSlots, AtInc, AtDec
  <2> QED
    BY <2>1, FS_EmptySet DEF Init, UseCountExact
<1> QED
  BY <1>1, CountStep, Ownership, PTL DEF Spec

\* GETREMAINCOUNT stays within its bounds for any number of threads and blocks:
\* each newMem between its flag and its increment owns a flag of its own, so the
\* counter cannot go negative.
THEOREM RemainBounded == Spec => []RemainBounds
<1>1. OwnInv /\ UseCountExact => RemainBounds
  <2> SUFFICES ASSUME OwnInv, UseCountExact PROVE RemainBounds
    OBVIOUS
  <2> DEFINE f == [t \in AtInc |-> idx[t]]
  <2>1. AtInc \subseteq InFlight
    BY DEF AtInc, InFlight
  <2>2. \A t \in AtInc : idx[t] \in UsedSlots
    BY <2>1 DEF OwnInv, Exclusive, FlagsMatchOwners, UsedSlots
  <2>3. f \in Injection(AtInc, UsedSlots)
    BY <2>1, <2>2 DEF OwnInv, Exclusive, Injection, IsInjective
  <2>4. Cardinality(AtInc) <= Cardinality(UsedSlots)
    BY <2>3, CountedSetsFinite, FS_Injection, Zenon
  <2> QED
    BY <2>4, CountedSetsFinite DEF UseCountExact, RemainBounds, GETREMAINCOUNT
<1> QED
  BY <1>1, Ownership, CountExact, PTL

----------------------------------------------------------------------------
\* CMemPool implements the allocator of PoolAbs: the compare-and-swap of newMem
\* takes a block that is nobody else's, and clearing the flag frees it.
THEOREM PoolRefinement == Spec => ImplementsPool
<1>1. Init => Abs!Init
  BY DEF Init, Abs!Init, Claim, InFlight
<1>2. OwnInv /\ [Next]_vars => [Abs!Next]_(Abs!vars)
  <2> SUFFICES ASSUME OwnInv, [Next]_vars PROVE [Abs!Next]_(Abs!vars)
    OBVIOUS
  <2> USE DEF OwnInv, Abs!vars
  <2>0. /\ pc \in [Threads -> PCs]
        /\ idx \in [Threads -> 0 .. AllocCount]
        /\ heap \in 0 .. MaxHeap
        /\ AllocCount \notin Slots
        /\ Claim \in [Threads -> 0 .. AllocCount]
    BY AllocCountAssumption DEF TypeOK, Claim, Slots
  <2>1. ASSUME NEW t \in Threads, Cas(t) PROVE [Abs!Next]_(Abs!vars)
    <3>1. CASE flag[idx[t]] = 0
      <4>1. /\ pc[t] = "cas"
            /\ pc' = [pc EXCEPT ![t] = "inc"]
            /\ UNCHANGED <<idx, held, heap>>
        BY <2>1, <3>1 DEF Cas
      <4>2. idx[t] \in Slots
        BY <4>1 DEF CasInRange
      <4>3. idx[t] \notin held /\ \A u \in InFlight : idx[u] # idx[t]
        BY <4>2, <3>1 DEF FlagsMatchOwners
      <4>4. Claim[t] = AllocCount /\ \A u \in Threads : Claim[u] # idx[t]
        BY <4>1, <4>2, <4>3, <2>0 DEF Claim, InFlight
      <4>5. Claim' = [Claim EXCEPT ![t] = idx[t]]
        BY <4>1, <2>0, Zenon DEF Claim, InFlight
      <4>6. Abs!Take(t, idx[t])
        BY <4>1, <4>3, <4>4, <4>5 DEF Abs!Take
      <4> QED
        BY <4>2, <4>6 DEF Abs!Next
    <3>2. CASE flag[idx[t]] # 0
      <4>1. /\ pc[t] = "cas"
            /\ pc' = [pc EXCEPT ![t] = "scan"]
            /\ idx' = [idx EXCEPT ![t] = idx[t] + 1]
            /\ UNCHANGED <<held, heap>>
        BY <2>1, <3>2 DEF Cas, Advance
      <4> QED
        BY <4>1, <2>0 DEF Claim, InFlight
    <3> QED
      BY <3>1, <3>2
  <2>2. ASSUME NEW t \in Threads, SetLast(t) PROVE Abs!Next
    <3>1. Claim[t] = idx[t] /\ Claim[t] # AllocCount
      BY <2>2, <2>0 DEF SetLast, Exclusive, Claim, InFlight
    <3>2. Claim' = [Claim EXCEPT ![t] = AllocCount]
      BY <2>2, <2>0, Zenon DEF SetLast, Claim, InFlight
    <3>3. Abs!Deliver(t)
      BY <2>2, <3>1, <3>2 DEF SetLast, Abs!Deliver
    <3> QED
      BY <3>3 DEF Abs!Next
  <2>3. ASSUME NEW t \in Threads, delMem(t) PROVE Abs!Next
    <3>1. PICK s \in held : held' = held \ {s} /\ idx' = [idx EXCEPT ![t] = s]
      BY <2>3, Zenon DEF delMem
    <3>2. s \in Slots /\ Claim[t] = AllocCount
      BY <2>3, <2>0 DEF TypeOK, delMem, Claim, InFlight
    <3>3. Claim' = [Claim EXCEPT ![t] = s]
      BY <2>3, <3>1, <2>0, Zenon DEF delMem, Claim, InFlight
    <3>4. Abs!GiveBack(t, s)
      BY <2>3, <3>1, <3>2, <3>3 DEF delMem, Abs!GiveBack
    <3> QED
      BY <3>2, <3>4 DEF Abs!Next
  <2>4. ASSUME NEW t \in Threads, ClearFlag(t) PROVE Abs!Next
    <3>1. Claim[t] # AllocCount
      BY <2>4, <2>0 DEF ClearFlag, Exclusive, Claim, InFlight
    <3>2. Claim' = [Claim EXCEPT ![t] = AllocCount]
      BY <2>4, <2>0, Zenon DEF ClearFlag, Claim, InFlight
    <3>3. Abs!Free(t)
      BY <2>4, <3>1, <3>2 DEF ClearFlag, Abs!Free
    <3> QED
      BY <3>3 DEF Abs!Next
  <2>5. ASSUME NEW t \in Threads, delMemHeap(t) PROVE Abs!Next
    <3>1. UNCHANGED Claim
      BY <2>5 DEF delMemHeap, Claim, InFlight
    <3> QED
      BY <2>5, <3>1 DEF delMemHeap, Abs!Next, Abs!GiveBackHeap
  <2>6. ASSUME NEW t \in Threads, pc[t] \in {"full", "scan"}, unit_alloc(t)
        PROVE  [Abs!Next]_(Abs!vars)
    <3>1. UNCHANGED Claim
      BY <2>6, <2>0 DEF unit_alloc, Claim, InFlight
    <3> QED
      BY <2>6, <3>1 DEF unit_alloc, Abs!Next, Abs!TakeHeap
  <2>7. ASSUME NEW t \in Threads,
               \/ \E o \in Ops : newMem(t, o)
               \/ FullPassed(t) \/ Scan(t) \/ Increment(t) \/ Decrement(t)
        PROVE  UNCHANGED Abs!vars
    <3>1. CASE \E o \in Ops : newMem(t, o)
      BY <3>1, <2>0 DEF newMem, Claim, InFlight
    <3>2. CASE FullPassed(t)
      BY <3>2, <2>0 DEF FullPassed, Claim, InFlight
    <3>3. CASE Scan(t)
      BY <3>3, <2>0 DEF Scan, Advance, Claim, InFlight
    <3>4. CASE Increment(t)
      BY <3>4, <2>0 DEF Increment, Claim, InFlight
    <3>5. CASE Decrement(t)
      BY <3>5, <2>0 DEF Decrement, Claim, InFlight
    <3> QED
      BY <2>7, <3>1, <3>2, <3>3, <3>4, <3>5
  <2>8. ASSUME NEW t \in Threads, FullFallback(t) \/ ScanEnd(t)
        PROVE  [Abs!Next]_(Abs!vars)
    <3>1. CASE unit_alloc(t)
      BY <2>8, <3>1, <2>6 DEF FullFallback, ScanEnd
    <3>2. CASE ~ unit_alloc(t)
      <4>1. /\ pc[t] = "scan"
            /\ pc' = [pc EXCEPT ![t] = "idle"]
            /\ UNCHANGED <<idx, held, heap>>
        BY <2>8, <3>2 DEF FullFallback, ScanEnd
      <4> QED
        BY <4>1, <2>0 DEF Claim, InFlight
    <3> QED
      BY <3>1, <3>2
  <2>9. CASE UNCHANGED vars
    BY <2>9 DEF vars, Claim, InFlight
  <2> QED
    BY <2>1, <2>2, <2>3, <2>4, <2>5, <2>7, <2>8, <2>9 DEF Next, Call, Step
<1> QED
  BY <1>1, <1>2, Ownership, PTL DEF Spec, ImplementsPool, Abs!Spec

============================================================================
