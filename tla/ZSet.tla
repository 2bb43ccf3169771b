-------------------------------- MODULE ZSet --------------------------------
(***************************************************************************)
(* The sorted set of Redis (t_zset.c) in its two encodings: a ziplist, the *)
(* sequence of its <<element, score>> pairs, and a skip list with spans    *)
(* beside a dict of the scores.  A node of the skip list is named by its   *)
(* element; elements are numbers in the order compareStringObjects gives.  *)
(* A command carries one element: more are the same loop again.            *)
(***************************************************************************)
EXTENDS Integers, Sequences, FiniteSets, FiniteSetsExt, SequencesExt, TLC

CONSTANTS Elements, LongElements,  \* long: over zset_max_ziplist_value
          Scores,
          ZSKIPLIST_MAXLEVEL,
          MaxEntries,              \* zset_max_ziplist_entries
          Header, Null

VARIABLES
  zobj,  \* the object at the key, Null when there is none
  zref   \* element -> score, as the commands ask

zsetVars == <<zobj, zref>>

ZSetInit == zobj = Null /\ zref = <<>>

Levels == 1 .. ZSKIPLIST_MAXLEVEL
zslRandomLevel == Levels

zslCreate ==
  [level |-> 1, length |-> 0, tail |-> Null,
   node |-> Header :> [score |-> 0, back |-> Null,
                       fwd |-> [i \in Levels |-> Null], span |-> [i \in Levels |-> 0]]]

\* For every level, from the top down, the last node the descent reaches and
\* the nodes crossed; it goes on from node to node while Ahead holds of the
\* next one and of the rank it has.
Descend(z, Ahead(_, _)) ==
  LET walk[x \in DOMAIN z.node, r \in Int, i \in Levels] ==
        LET f == z.node[x].fwd[i]
            t == r + z.node[x].span[i]
        IN IF f # Null /\ Ahead(f, t) THEN walk[f, t, i] ELSE [at |-> x, rank |-> r]
      update[i \in Levels] ==
        IF i = z.level THEN walk[Header, 0, i]
        ELSE LET u == update[i + 1] IN walk[u.at, u.rank, i]
  IN [i \in 1 .. z.level |-> update[i]]

Less(s, e, score, ele) == s < score \/ (s = score /\ e < ele)

SeekPair(z, score, ele) ==
  Descend(z, LAMBDA f, t : Less(z.node[f].score, f, score, ele))

zslInsert(z, score, ele, level) ==
  LET found == SeekPair(z, score, ele)
      top == Max({level, z.level})
      up == [i \in 1 .. top |-> IF i \in DOMAIN found THEN found[i]
                                ELSE [at |-> Header, rank |-> 0]]
      span(i) == IF i \in DOMAIN found THEN z.node[up[i].at].span[i] ELSE z.length
      gap(i) == up[1].rank - up[i].rank
      new == [score |-> score,
              back |-> IF up[1].at = Header THEN Null ELSE up[1].at,
              fwd |-> [i \in 1 .. level |-> z.node[up[i].at].fwd[i]],
              span |-> [i \in 1 .. level |-> span(i) - gap(i)]]
      relink(y) ==
        LET mine == {i \in 1 .. top : up[i].at = y}
            n == z.node[y]
        IN [n EXCEPT
              !.fwd = [i \in DOMAIN n.fwd |-> IF i \in mine /\ i <= level THEN ele ELSE n.fwd[i]],
              !.span = [i \in DOMAIN n.span |->
                          IF i \notin mine THEN n.span[i]
                          ELSE IF i <= level THEN gap(i) + 1 ELSE n.span[i] + 1],
              !.back = IF y = new.fwd[1] THEN ele ELSE @]
  IN [level |-> top, length |-> z.length + 1,
      tail |-> IF new.fwd[1] = Null THEN ele ELSE z.tail,
      node |-> [y \in DOMAIN z.node |-> relink(y)] @@ (ele :> new)]

\* Spans of the levels above the removed node that are not shortened.
SpanAbove(gone, n, i, over) == IF over THEN n.span[i] - 1 + gone.span[i] ELSE n.span[i]

\* The span of node n, at a level where the removed node is passed or reached.
SpanWithout(gone, n, i, over) == n.span[i] - 1 + (IF over THEN gone.span[i] ELSE 0)

\* A removal that corrects forward links only.
BackKept(gone, n, y) == n.back

\* The backward link of node y with record n.
BackWithout(gone, n, y) == IF y = gone.fwd[1] THEN gone.back ELSE n.back

zslDeleteNode(z, x, up) ==
  LET gone == z.node[x]
      relink(y) ==
        LET n == z.node[y]
            mine == {i \in DOMAIN up : i <= z.level /\ up[i].at = y}
            over == {i \in mine : n.fwd[i] = x}
        IN [n EXCEPT
              !.fwd = [i \in DOMAIN n.fwd |-> IF i \in over THEN gone.fwd[i] ELSE n.fwd[i]],
              !.span = [i \in DOMAIN n.span |->
                          IF i \in mine THEN SpanWithout(gone, n, i, i \in over) ELSE n.span[i]],
              !.back = BackWithout(gone, n, y)]
      node == [y \in DOMAIN z.node \ {x} |-> relink(y)]
  IN [level |-> Max({1} \cup {i \in 1 .. z.level : node[Header].fwd[i] # Null}),
      length |-> z.length - 1,
      tail |-> IF gone.fwd[1] = Null THEN gone.back ELSE z.tail,
      node |-> node]

zslDelete(z, score, ele) ==
  LET up == SeekPair(z, score, ele)
      x == z.node[up[1].at].fwd[1]
  IN IF x = ele /\ z.node[x].score = score THEN zslDeleteNode(z, x, up) ELSE z

\* The nodes of the lowest level from x on, while In holds of the node and
\* of its place.
Run(z, x, n, In(_, _)) ==
  LET run[y \in Elements \cup {Null}, k \in Int] ==
        IF y # Null /\ In(y, k) THEN <<y>> \o run[z.node[y].fwd[1], k + 1] ELSE <<>>
  IN run[x, n]

DeleteRun(z, up, run) == FoldLeft(LAMBDA t, x : zslDeleteNode(t, x, up), z, run)

zslGetRank(z, score, ele) ==
  LET up == Descend(z, LAMBDA f, t : Less(z.node[f].score, f, score, ele)
                                     \/ (z.node[f].score = score /\ f = ele))
      at == {i \in DOMAIN up : up[i].at = ele}
  IN IF at = {} THEN 0 ELSE up[Max(at)].rank

zslGetElementByRank(z, rank) ==
  LET up == Descend(z, LAMBDA f, t : t <= rank)
      at == {i \in DOMAIN up : up[i].rank = rank}
  IN IF at = {} THEN Null ELSE up[Max(at)].at

-----------------------------------------------------------------------------
(* Score ranges. *)

Ranges == [min : Scores, max : Scores, minex : BOOLEAN, maxex : BOOLEAN]

zslValueGteMin(s, r) == IF r.minex THEN s > r.min ELSE s >= r.min
zslValueLteMax(s, r) == IF r.maxex THEN s < r.max ELSE s <= r.max

Hopeless(r) == r.min > r.max \/ (r.min = r.max /\ (r.minex \/ r.maxex))

zslIsInRange(z, r) ==
  /\ ~Hopeless(r)
  /\ z.tail # Null /\ zslValueGteMin(z.node[z.tail].score, r)
  /\ zslValueLteMax(z.node[z.node[Header].fwd[1]].score, r)

zslFirstInRange(z, r) ==
  LET x == z.node[Descend(z, LAMBDA f, t : ~zslValueGteMin(z.node[f].score, r))[1].at].fwd[1]
  IN IF zslIsInRange(z, r) /\ zslValueLteMax(z.node[x].score, r) THEN x ELSE Null

\* The end of a range without the last look at its minimum.
zslLastUnchecked(z, r) ==
  IF zslIsInRange(z, r) THEN Descend(z, LAMBDA f, t : zslValueLteMax(z.node[f].score, r))[1].at ELSE Null

zslLastInRange(z, r) ==
  LET x == Descend(z, LAMBDA f, t : zslValueLteMax(z.node[f].score, r))[1].at
  IN IF zslIsInRange(z, r) /\ zslValueGteMin(z.node[x].score, r) THEN x ELSE Null

zslDeleteRangeByScore(z, r) ==
  LET up == Descend(z, LAMBDA f, t : ~zslValueGteMin(z.node[f].score, r))
  IN DeleteRun(z, up, Run(z, z.node[up[1].at].fwd[1], 1,
                          LAMBDA y, k : zslValueLteMax(z.node[y].score, r)))

zslDeleteRangeByRank(z, start, end) ==
  LET up == Descend(z, LAMBDA f, t : t < start)
  IN DeleteRun(z, up, Run(z, z.node[up[1].at].fwd[1], up[1].rank + 1,
                          LAMBDA y, k : k <= end))
-----------------------------------------------------------------------------
(* The ziplist encoding: pairs <<element, score>>. *)

zzlFind(zl, ele) == SelectInSeq(zl, LAMBDA p : p[1] = ele)

zzlInsert(zl, ele, score) ==
  LET at == SelectInSeq(zl, LAMBDA p : Less(score, ele, p[2], p[1]))
  IN IF at = 0 THEN Append(zl, <<ele, score>>) ELSE InsertAt(zl, at, <<ele, score>>)

zzlFirstInRange(zl, r) ==
  LET at == SelectInSeq(zl, LAMBDA p : zslValueGteMin(p[2], r))
  IN IF /\ ~Hopeless(r) /\ at # 0
        /\ zslValueLteMax(zl[1][2], r) /\ zslValueLteMax(zl[at][2], r) THEN at ELSE 0

zzlDeleteRangeByScore(zl, r) ==
  LET at == zzlFirstInRange(zl, r)
      stop == SelectInSubSeq(zl, at, Len(zl), LAMBDA p : ~zslValueLteMax(p[2], r))
  IN IF at = 0 THEN zl
     ELSE SubSeq(zl, 1, at - 1) \o (IF stop = 0 THEN <<>> ELSE SubSeq(zl, stop, Len(zl)))

zzlDeleteRangeByRank(zl, start, end) ==
  SubSeq(zl, 1, start - 1) \o SubSeq(zl, end + 1, Len(zl))
-----------------------------------------------------------------------------
(* The object: [enc, zl] or [enc, zsl, dict]. *)

Packed(zl) == [enc |-> "ziplist", zl |-> zl]
Skip(z, d) == [enc |-> "skiplist", zsl |-> z, dict |-> d]

\* A skip list and a dict filled with the pairs in this order.
Filled(pairs, level) ==
  Skip(FoldLeft(LAMBDA z, p : zslInsert(z, p[2], p[1], level[p[1]]), zslCreate, pairs),
       [e \in {p[1] : p \in ToSet(pairs)} |-> (CHOOSE p \in ToSet(pairs) : p[1] = e)[2]])

Pairs(z) == LET run == Run(z, z.node[Header].fwd[1], 1, LAMBDA y, k : TRUE)
            IN [i \in DOMAIN run |-> <<run[i], z.node[run[i]].score>>]

zsetConvert(o, level) ==
  IF o.enc = "ziplist" THEN Filled(o.zl, level) ELSE Packed(Pairs(o.zsl))

zsetLength(o) == IF o.enc = "ziplist" THEN Len(o.zl) ELSE o.zsl.length

zsetScore(o, e) ==
  IF o.enc = "ziplist" THEN o.zl[zzlFind(o.zl, e)][2] ELSE o.dict[e]

Holds(o, e) == IF o.enc = "ziplist" THEN zzlFind(o.zl, e) # 0 ELSE e \in DOMAIN o.dict

\* A new element, and the conversion of a ziplist it makes too long.
AddNew(o, e, s, level) ==
  IF o.enc = "ziplist"
  THEN LET p == Packed(zzlInsert(o.zl, e, s))
       IN IF Len(p.zl) > MaxEntries \/ e \in LongElements THEN zsetConvert(p, level) ELSE p
  ELSE Skip(zslInsert(o.zsl, s, e, level[e]), o.dict @@ (e :> s))

\* A new score that the dict does not learn of.
RescoreStale(o, e, s, level) ==
  IF o.enc = "ziplist" THEN Packed(zzlInsert(RemoveAt(o.zl, zzlFind(o.zl, e)), e, s))
  ELSE Skip(zslInsert(zslDelete(o.zsl, o.dict[e], e), s, e, level[e]), o.dict)

\* The score of an element it holds: removed and inserted again.
Rescore(o, e, s, level) ==
  IF o.enc = "ziplist" THEN Packed(zzlInsert(RemoveAt(o.zl, zzlFind(o.zl, e)), e, s))
  ELSE Skip(zslInsert(zslDelete(o.zsl, o.dict[e], e), s, e, level[e]), [o.dict EXCEPT ![e] = s])

New(e) == IF MaxEntries = 0 \/ e \in LongElements THEN Skip(zslCreate, <<>>) ELSE Packed(<<>>)

\* The elements a command with e may draw a level for.
Drawn(o, e) == {e} \cup (IF o.enc = "ziplist" THEN {p[1] : p \in ToSet(o.zl)} ELSE {})

zaddGenericCommand ==
  \E e \in Elements, s \in Scores, nx, xx, incr \in BOOLEAN :
    LET o == IF zobj = Null THEN New(e) ELSE zobj
        is == Holds(o, e)
        score == IF incr /\ is THEN s + zsetScore(o, e) ELSE s
    IN /\ ~(nx /\ xx)
       /\ score \in Scores
       /\ IF is THEN ~nx /\ score # zsetScore(o, e) ELSE ~xx
       /\ \E level \in [Drawn(o, e) -> zslRandomLevel] :
            zobj' = IF is THEN Rescore(o, e, score, level) ELSE AddNew(o, e, score, level)
       /\ zref' = (e :> score) @@ zref

\* The object after a removal: the key goes with the last element.
Kept(o) ==
  CASE o.enc = "ziplist" -> IF o.zl = <<>> THEN Null ELSE o
    [] OTHER -> LET d == Restrict(o.dict, DOMAIN o.dict \cap DOMAIN o.zsl.node)
                IN IF d = <<>> THEN Null ELSE Skip(o.zsl, d)

zremCommand ==
  \E e \in Elements :
    /\ zobj # Null /\ Holds(zobj, e)
    /\ zobj' = Kept(IF zobj.enc = "ziplist" THEN Packed(RemoveAt(zobj.zl, zzlFind(zobj.zl, e)))
                    ELSE Skip(zslDelete(zobj.zsl, zobj.dict[e], e),
                              Restrict(zobj.dict, DOMAIN zobj.dict \ {e})))
    /\ zref' = Restrict(zref, DOMAIN zref \ {e})

zremrangebyscoreCommand ==
  \E r \in Ranges :
    /\ zobj # Null
    /\ zobj' = Kept(IF zobj.enc = "ziplist" THEN Packed(zzlDeleteRangeByScore(zobj.zl, r))
                    ELSE Skip(zslDeleteRangeByScore(zobj.zsl, r), zobj.dict))
    /\ zref' = Restrict(zref, {e \in DOMAIN zref : ~(zslValueGteMin(zref[e], r)
                                                     /\ zslValueLteMax(zref[e], r))})

\* The place of an element in the order of (score, element), from 0.
Place(e) == Cardinality({f \in DOMAIN zref : Less(zref[f], f, zref[e], e)})

zremrangebyrankCommand ==
  \E start, end \in (-1 - Cardinality(Elements)) .. Cardinality(Elements) :
    LET n == zsetLength(zobj)
        first == Max({0, IF start < 0 THEN n + start ELSE start})
        past == IF end < 0 THEN n + end ELSE end
        last == Min({past, n - 1})
    IN /\ zobj # Null
       /\ first <= past /\ first < n
       /\ zobj' = Kept(IF zobj.enc = "ziplist"
                       THEN Packed(zzlDeleteRangeByRank(zobj.zl, first + 1, last + 1))
                       ELSE Skip(zslDeleteRangeByRank(zobj.zsl, first + 1, last + 1), zobj.dict))
       /\ zref' = Restrict(zref, {e \in DOMAIN zref : Place(e) \notin first .. last})

\* ZUNIONSTORE of the set onto itself: filled from a dict, whose order is
\* any order, and made a ziplist again when it is small enough.
zunionstoreCommand ==
  \E order \in SetToSeqs(DOMAIN zref), level \in [DOMAIN zref -> zslRandomLevel] :
    LET o == Filled([i \in DOMAIN order |-> <<order[i], zsetScore(zobj, order[i])>>], level)
        small == o.zsl.length <= MaxEntries /\ DOMAIN o.dict \cap LongElements = {}
    IN /\ zobj # Null
       /\ zobj' = IF small THEN zsetConvert(o, level) ELSE o
       /\ UNCHANGED zref

ZSetNext ==
  \/ zaddGenericCommand \/ zremCommand \/ zremrangebyscoreCommand
  \/ zremrangebyrankCommand \/ zunionstoreCommand
-----------------------------------------------------------------------------
(* Properties. *)

\* Whatever the encoding and its history of conversions, the object holds
\* the elements the commands left in the set with their scores; the dict and
\* the skip list agree, and the key is there exactly while an element is.
ZSetIsTheMap ==
  IF zref = <<>> THEN zobj = Null
  ELSE /\ zobj # Null
       /\ ToSet(IF zobj.enc = "ziplist" THEN zobj.zl ELSE Pairs(zobj.zsl))
            = {<<e, zref[e]>> : e \in DOMAIN zref}
       /\ zsetLength(zobj) = Cardinality(DOMAIN zref)
       /\ zobj.enc = "skiplist" => zobj.dict = zref

\* The spans of the skip list, split and joined at every insertion and
\* removal, give every element the rank it has by score and element
\* (zslGetRank), and every rank its element (zslGetElementByRank).
RanksAreExact ==
  zobj # Null /\ zobj.enc = "skiplist" =>
    \A e \in DOMAIN zref : /\ zslGetRank(zobj.zsl, zref[e], e) = Place(e) + 1
                           /\ zslGetElementByRank(zobj.zsl, Place(e) + 1) = e

\* Backward links and the tail undo the forward links of the lowest level,
\* so that a reverse range shows what a range shows.
BackwardUndoesForward ==
  zobj # Null /\ zobj.enc = "skiplist" =>
    LET node == zobj.zsl.node
    IN \A x \in DOMAIN node \ {Header} :
         /\ node[x].fwd[1] # Null => node[node[x].fwd[1]].back = x
         /\ node[x].fwd[1] = Null <=> zobj.zsl.tail = x
         /\ node[Header].fwd[1] = x <=> node[x].back = Null

\* zslFirstInRange and zslLastInRange return the first and the last element
\* of a score range, NULL exactly when none is in it.
RangeEndsAreExact ==
  zobj # Null /\ zobj.enc = "skiplist" =>
    \A r \in Ranges :
      LET in == {e \in DOMAIN zref : zslValueGteMin(zref[e], r) /\ zslValueLteMax(zref[e], r)}
          end(P(_, _)) == IF in = {} THEN Null ELSE CHOOSE e \in in : \A f \in in : f = e \/ P(e, f)
      IN /\ zslFirstInRange(zobj.zsl, r) = end(LAMBDA e, f : Place(e) < Place(f))
         /\ zslLastInRange(zobj.zsl, r) = end(LAMBDA e, f : Place(e) > Place(f))
=============================================================================
