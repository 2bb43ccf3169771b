-------------------------------- MODULE Dict --------------------------------
(***************************************************************************)
(* The hash table of Redis (dict.c): two tables while it is rehashed one   *)
(* bucket at a time, safe iterators that hold the rehashing, and dictScan, *)
(* whose only state is the cursor.  A key is its hash value; a table maps  *)
(* an index to the chain of its bucket, and is empty when it is NULL.      *)
(***************************************************************************)
EXTENDS Integers, Sequences, FiniteSets, FiniteSetsExt, SequencesExt

CONSTANTS DictKeys,               \* keys, by their hashes
          NoKey,
          DICT_HT_INITIAL_SIZE,
          ForceRatio,             \* dict_force_resize_ratio
          MinFill,                \* HASHTABLE_MIN_FILL
          WordBits,               \* bits of the cursor
          MaxSlots                \* bound of the table size

VARIABLES
  ht,         \* the two tables
  rehashidx,
  canResize,  \* dict_can_resize: no child is saving
  held,       \* the keys added and not deleted
  iter,       \* a safe iterator: [at, table, index, next, got, must, twice]
  scan        \* a SCAN of a client: [on, v, got, must, shrunk, missed]

dictVars == <<ht, rehashidx, canResize, held, iter, scan>>

NoIter == [at |-> "none", table |-> 0, index |-> -1, next |-> NoKey,
           got |-> {}, must |-> {}, twice |-> FALSE]
NoScan == [on |-> FALSE, v |-> 0, got |-> {}, must |-> {}, shrunk |-> FALSE,
           missed |-> {}]

DictInit ==
  /\ ht = [t \in 0 .. 1 |-> <<>>]
  /\ rehashidx = -1
  /\ canResize = TRUE
  /\ held = {}
  /\ iter = NoIter
  /\ scan = NoScan

Size(table) == Cardinality(DOMAIN table)
Used(table) == MapThenSumSet(LAMBDA i : Len(table[i]), DOMAIN table)
NewTable(n) == [i \in 0 .. n - 1 |-> <<>>]

Iterators == iter.at \in {"on", "end"}

\* A dict is [ht, idx] here.
D == [ht |-> ht, idx |-> rehashidx]
Rehashing(d) == d.idx # -1

\* Chain c pushed key by key on the heads of the buckets of table t.
Moved(t, c) == FoldLeft(LAMBDA u, k : [u EXCEPT ![k % Size(t)] = <<k>> \o @], t, c)

\* dictRehash(d, 1): skip to a bucket with keys (the tables here are smaller
\* than the 10 empty buckets it may pass), move it, and finish.
dictRehash(d) ==
  LET next == Min({i \in DOMAIN d.ht[0] : i >= d.idx /\ d.ht[0][i] # <<>>})
      t0 == [d.ht[0] EXCEPT ![next] = <<>>]
      t1 == Moved(d.ht[1], d.ht[0][next])
  IN IF Used(d.ht[0]) = 0 THEN [ht |-> [d.ht EXCEPT ![0] = d.ht[1], ![1] = <<>>], idx |-> -1]
     ELSE IF Used(t0) = 0 THEN [ht |-> [d.ht EXCEPT ![0] = t1, ![1] = <<>>], idx |-> -1]
     ELSE [ht |-> [d.ht EXCEPT ![0] = t0, ![1] = t1], idx |-> next + 1]

\* A step that forgets the iterators.
StepAlways(d) == IF Rehashing(d) THEN dictRehash(d) ELSE d

\* _dictRehashStep
Step(d) == IF Rehashing(d) /\ ~ Iterators THEN dictRehash(d) ELSE d

\* _dictNextPower
NextPower(n) ==
  Min({s \in {DICT_HT_INITIAL_SIZE * 2^e : e \in 0 .. WordBits} : s >= n})

\* dictExpand
dictExpand(d, n) ==
  IF Rehashing(d) \/ Used(d.ht[0]) > n \/ NextPower(n) = Size(d.ht[0]) THEN d
  ELSE IF d.ht[0] = <<>> THEN [d EXCEPT !.ht[0] = NewTable(NextPower(n))]
  ELSE [ht |-> [d.ht EXCEPT ![1] = NewTable(NextPower(n))], idx |-> 0]

\* _dictExpandIfNeeded
ExpandIfNeeded(d) ==
  LET used == Used(d.ht[0])
      size == Size(d.ht[0])
  IN IF Rehashing(d) THEN d
     ELSE IF size = 0 THEN dictExpand(d, DICT_HT_INITIAL_SIZE)
     ELSE IF used >= size /\ (canResize \/ used \div size > ForceRatio)
     THEN dictExpand(d, used * 2) ELSE d

\* dictFind looks in the second table only while it rehashes.
Finds(d, k) ==
  \E t \in IF Rehashing(d) THEN {0, 1} ELSE {0} :
    d.ht[t] # <<>> /\ Contains(d.ht[t][k % Size(d.ht[t])], k)

Becomes(d) == ht' = d.ht /\ rehashidx' = d.idx

\* A key that goes into the old table.
AddOld(d, k) == [d EXCEPT !.ht[0][k % Size(d.ht[0])] = <<k>> \o @]

\* The bucket of dictAddRaw
Insert(d, k) ==
  LET t == IF Rehashing(d) THEN 1 ELSE 0
  IN [d EXCEPT !.ht[t][k % Size(d.ht[t])] = <<k>> \o @]

dictAdd(k) ==
  LET d == ExpandIfNeeded(Step(D))
  IN /\ Size(d.ht[0]) <= MaxSlots /\ Size(d.ht[1]) <= MaxSlots
     /\ Becomes(IF Finds(d, k) THEN d ELSE Insert(d, k))
     /\ held' = held \cup {k}
     /\ UNCHANGED <<canResize, iter, scan>>

\* dictGenericDelete.  The owner of an iterator does not delete the entry that
\* the iterator has saved as its next.
dictDelete(k) ==
  LET d == Step(D)
      at(t) == k % Size(d.ht[t])
  IN /\ k \in held /\ k # iter.next
     /\ Becomes([d EXCEPT !.ht = [t \in 0 .. 1 |->
                  IF d.ht[t] = <<>> THEN <<>> ELSE [d.ht[t] EXCEPT ![at(t)] = Remove(@, k)]]])
     /\ held' = held \ {k}
     /\ iter' = [iter EXCEPT !.must = @ \ {k}, !.got = @ \ {k}]
     /\ scan' = [scan EXCEPT !.must = @ \ {k}]
     /\ UNCHANGED canResize

\* dictFind, and the rehashing of serverCron (not within an iteration).
dictFind ==
  /\ Rehashing(D) /\ ~ Iterators
  /\ Becomes(Step(D))
  /\ UNCHANGED <<canResize, held, iter, scan>>

\* htNeedsResize and dictResize
dictResize ==
  LET n == Max({Used(ht[0]), DICT_HT_INITIAL_SIZE})
      slots == Size(ht[0]) + Size(ht[1])
  IN /\ canResize /\ ~ Rehashing(D)
     /\ slots > DICT_HT_INITIAL_SIZE /\ (Cardinality(held) * 100) \div slots < MinFill
     /\ D # dictExpand(D, n)
     /\ Becomes(dictExpand(D, n))
     /\ scan' = IF scan.on THEN [scan EXCEPT !.shrunk = TRUE] ELSE scan
     /\ UNCHANGED <<canResize, held, iter>>

\* updateDictResizePolicy
ResizePolicy ==
  /\ canResize' = ~ canResize
  /\ UNCHANGED <<ht, rehashidx, held, iter, scan>>

dictEmpty ==
  /\ iter.at = "none"
  /\ ht' = [t \in 0 .. 1 |-> <<>>] /\ rehashidx' = -1
  /\ held' = {}
  /\ scan' = [scan EXCEPT !.must = {}]
  /\ UNCHANGED <<canResize, iter>>

-----------------------------------------------------------------------------
(* Safe iterators.                                                         *)

dictGetSafeIterator ==
  /\ iter.at = "none" /\ ~ scan.on /\ held # {}
  /\ iter' = [NoIter EXCEPT !.at = "fresh", !.must = held]
  /\ UNCHANGED <<ht, rehashidx, canResize, held, scan>>

Follower(chain, k) ==
  LET i == CHOOSE j \in DOMAIN chain : chain[j] = k
  IN IF i < Len(chain) THEN chain[i + 1] ELSE NoKey

\* dictNext: the saved entry, or the head of the next bucket that has one.
dictNext ==
  LET later == {p \in (0 .. 1) \X (0 .. MaxSlots) :
                  /\ p[2] \in DOMAIN ht[p[1]] /\ ht[p[1]][p[2]] # <<>>
                  /\ p[1] = 1 => Rehashing(D)
                  /\ p[1] > iter.table \/ (p[1] = iter.table /\ p[2] > iter.index)}
      p == CHOOSE q \in later : \A r \in later : q[1] < r[1] \/ (q[1] = r[1] /\ q[2] <= r[2])
      goes(t, i, e) == iter' = [iter EXCEPT !.at = "on", !.table = t, !.index = i,
                                            !.next = Follower(ht[t][i], e), !.got = @ \cup {e},
                                            !.twice = @ \/ e \in iter.got]
  IN /\ iter.at \in {"fresh", "on"}
     /\ IF iter.next # NoKey THEN goes(iter.table, iter.index, iter.next)
        ELSE IF later # {} THEN goes(p[1], p[2], Head(ht[p[1]][p[2]]))
        ELSE iter' = [iter EXCEPT !.at = "end"]
     /\ UNCHANGED <<ht, rehashidx, canResize, held, scan>>

dictReleaseIterator ==
  /\ iter.at # "none"
  /\ iter' = NoIter
  /\ UNCHANGED <<ht, rehashidx, canResize, held, scan>>

-----------------------------------------------------------------------------
(* dictScan.                                                               *)

Bit(v, i) == (v \div 2^i) % 2

\* rev
Rev(v) == MapThenSumSet(LAMBDA i : Bit(v, i) * 2^(WordBits - 1 - i), 0 .. WordBits - 1)

\* The cursor behind v: the bits above the smaller mask are set, and the
\* reversed cursor is incremented.
NextCursor(v, size) == Rev((Rev((v % size) + 2^WordBits - size) + 1) % 2^WordBits)

\* The buckets of one call: the one of the smaller table, and the expansions
\* in the larger one from the bits of the cursor on.
Small == IF Rehashing(D) /\ Size(ht[0]) > Size(ht[1]) THEN ht[1] ELSE ht[0]
Large == IF Size(ht[0]) > Size(ht[1]) THEN ht[0] ELSE ht[1]

\* The bucket of the cursor only in the larger table.
ExpansionsOne(v) == {v % Size(Large)}

Expansions(v) ==
  {(v % Size(Small)) + j * Size(Small) :
     j \in ((v % Size(Large)) \div Size(Small)) .. ((Size(Large) \div Size(Small)) - 1)}

Emitted(v) ==
  ToSet(Small[v % Size(Small)])
    \cup IF Rehashing(D) THEN UNION {ToSet(Large[b]) : b \in Expansions(v)} ELSE {}

dictScan ==
  LET s == IF scan.on THEN scan ELSE [NoScan EXCEPT !.must = held]
      v == IF held = {} THEN 0 ELSE NextCursor(s.v, Size(Small))
      got == IF held = {} THEN s.got ELSE s.got \cup Emitted(s.v)
  IN /\ scan.on \/ (held # {} /\ iter.at = "none")
     /\ scan' = IF v # 0 THEN [s EXCEPT !.on = TRUE, !.v = v, !.got = got]
                ELSE [NoScan EXCEPT !.missed = s.must \ got, !.shrunk = s.shrunk]
     /\ UNCHANGED <<ht, rehashidx, canResize, held, iter>>

DictNext ==
  \/ \E k \in DictKeys : dictAdd(k) \/ dictDelete(k)
  \/ dictFind \/ dictResize \/ ResizePolicy \/ dictEmpty
  \/ dictGetSafeIterator \/ dictNext \/ dictReleaseIterator
  \/ dictScan

-----------------------------------------------------------------------------
\* Between the two tables no key is lost, doubled or out of place, and the
\* buckets below rehashidx are empty, as dictGetRandomKey relies on.
RehashKeepsKeys ==
  /\ {k \in DictKeys : Finds(D, k)} = held
  /\ Used(ht[0]) + Used(ht[1]) = Cardinality(held)
  /\ Rehashing(D) => \A i \in 0 .. rehashidx - 1 : ht[0][i] = <<>>

\* A safe iterator returns every key that stays in the dict exactly once, with
\* keys added, found and deleted meanwhile.
IteratorComplete == ~ iter.twice /\ (iter.at = "end" => iter.must \subseteq iter.got)

\* A SCAN that has come back to cursor 0 has returned all keys that were there
\* from its start to its end, however the table grew.
ScanComplete == ~ scan.shrunk => scan.missed = {}

\* The same, with tables that shrink.
ScanGuarantee == scan.missed = {}
=============================================================================
