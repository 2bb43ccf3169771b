-------------------------------- MODULE TList -------------------------------
(***************************************************************************)
(* CTList of common/include/comTList.h: the growing array of pointers that *)
(* holds the loggers, schedulers, threads and communicators.  push_back    *)
(* looks at m_pArray[m_nLast], and m_nLast counts every object ever added, *)
(* so that after deletions it can lie beyond the array: what is read there *)
(* is then anything, and an apparently empty cell is written.              *)
(***************************************************************************)
EXTENDS Naturals, FiniteSets

CONSTANTS Objs,         \* the objects
          Empty,        \* the null pointer (a model value)
          FirstMax,     \* the argument of alloc
          AddSize,      \* TLIST_ADD_SIZE
          MaxCap,       \* bound: cells
          MaxAdds       \* bound: objects added

VARIABLES tl,           \* m_pArray, m_nUse, m_nLast, m_nDelIdx, m_nMax
          told,         \* ghost: the index each object's owner was given
          wild          \* a cell beyond the array has been written

listVars == <<tl, told, wild>>

Filled(t) == {c \in DOMAIN t.arr : t.arr[c] # Empty}

\* An __alloc that copies one pointer too few.
AllocOneLess(t, n) ==
    [t EXCEPT !.arr = [c \in 0 .. n - 1 |-> IF c + 1 \in DOMAIN t.arr THEN t.arr[c] ELSE Empty], !.max = n]

\* __alloc: a larger array, the old one copied to its front
Alloc(t, n) == [t EXCEPT !.arr = [c \in 0 .. n - 1 |-> IF c \in DOMAIN t.arr THEN t.arr[c] ELSE Empty], !.max = n]

\* the first empty cell from c on, the array taken as a ring
FirstEmpty(t, c) ==
    LET from == IF c >= t.max THEN 0 ELSE c
        free == DOMAIN t.arr \ Filled(t)
        dist(d) == (d + t.max - from) % t.max
    IN  CHOOSE d \in free : \A e \in free : dist(d) <= dist(e)

\* ADD_SUCCESS
Place(t, c, o) == [t EXCEPT !.arr[c] = o, !.use = @ + 1, !.last = @ + 1]

\* the object goes to cell c, and its owner learns c
Added(t, c, o) ==
    /\ tl' = Place(t, c, o)
    /\ told' = [told EXCEPT ![o] = c]
    /\ UNCHANGED wild

\* _DEL
Del(t, c) == [t EXCEPT !.arr[c] = Empty, !.use = @ - 1, !.delIdx = c]

Init ==
    /\ tl = Alloc([arr |-> <<>>, use |-> 0, last |-> 0, delIdx |-> 0, max |-> 0], FirstMax)
    /\ told = [o \in Objs |-> Empty]
    /\ wild = FALSE

\* add and push_back of a full list
Grow(o) ==
    /\ tl.use >= tl.max /\ tl.max + AddSize <= MaxCap
    /\ Added(Alloc(tl, tl.max + AddSize), tl.max, o)

\* add: the last deleted cell, otherwise the first empty one from m_nLast on
Add(o) ==
    /\ tl.use < tl.max
    /\ Added(tl, IF tl.arr[tl.delIdx] = Empty THEN tl.delIdx ELSE FirstEmpty(tl, tl.last), o)

\* push_back; beyond the array it reads either something, and scans on, or NULL, and writes there
PushBack(o) ==
    /\ tl.use < tl.max
    /\ Added(tl, FirstEmpty(tl, tl.last), o)

PushBeyond(o) ==
    /\ tl.use < tl.max /\ tl.last >= tl.max
    /\ tl' = [tl EXCEPT !.use = @ + 1, !.last = @ + 1]
    /\ told' = [told EXCEPT ![o] = tl.last]
    /\ wild' = TRUE

\* setNewObj of an empty cell
SetNewObj(c, o) ==
    /\ tl.arr[c] = Empty
    /\ Added(tl, c, o)

\* del of a filled cell, by index or by pointer
Delete(c) ==
    /\ tl.arr[c] # Empty
    /\ tl' = Del(tl, c)
    /\ told' = [told EXCEPT ![tl.arr[c]] = Empty]
    /\ UNCHANGED wild

Insertion ==
    \E o \in {x \in Objs : told[x] = Empty} :
        \/ Grow(o) \/ Add(o) \/ PushBack(o) \/ PushBeyond(o)
        \/ \E c \in DOMAIN tl.arr : SetNewObj(c, o)

Next == ~wild /\ ((tl.last < MaxAdds /\ Insertion) \/ \E c \in DOMAIN tl.arr : Delete(c))

Spec == Init /\ [][Next]_listVars

-----------------------------------------------------------------------------
\* Properties

\* The index that add, push_back or setNewObj gave for an object finds that
\* object until it is deleted, however often the array has been replaced by a
\* longer one since, and m_nUse is the number of objects - as long as no cell
\* beyond the array has been written.
ListKeepsIndex ==
    ~wild => /\ \A o \in Objs : told[o] # Empty => tl.arr[told[o]] = o
             /\ tl.use = Cardinality(Filled(tl))
=============================================================================
