------------------------------- MODULE RBTree -------------------------------
(***************************************************************************)
(* RBTree of common/src/rbtree.cpp: a red-black tree whose nodes belong to *)
(* the caller.  The mirrored halves of the code (left/right) are written   *)
(* once, over a side.  A NULL dereference is an application outside a      *)
(* function's domain, so TLC stops on one.                                 *)
(***************************************************************************)
EXTENDS Naturals, FiniteSets

CONSTANTS
    Keys,       \* the keys, a set of numbers (compare is <)
    Values,     \* the values callers store under each key
    MaxNodes    \* bound: nodes the callers own

NULL == 0
Node == 1 .. MaxNodes
Side == {"left", "right"}

VARIABLES
    tree,       \* the rbtree_t and the heap of rbtree_node_t it links
    map,        \* ghost: what the calls so far should have stored
    aborted     \* verify_properties has failed an assertion

treeVars == <<tree, map, aborted>>

Other(s) == IF s = "left" THEN "right" ELSE "left"

NodeColor(t, n) == IF n = NULL THEN "BLACK" ELSE t.color[n]

SideOf(t, n) == IF n = t.kid["left"][t.parent[n]] THEN "left" ELSE "right"

Sibling(t, n) == t.kid[Other(SideOf(t, n))][t.parent[n]]

Grandparent(t, n) == t.parent[t.parent[n]]

Uncle(t, n) == Sibling(t, t.parent[n])

\* the nodes reachable from the root
Linked(t) ==
    LET RECURSIVE Below(_)
        Below(n) == IF n = NULL THEN {} ELSE {n} \cup Below(t.kid["left"][n]) \cup Below(t.kid["right"][n])
    IN  Below(t.root)

RootIsBlack(t) == NodeColor(t, t.root) = "BLACK"

RedsAreApart(t) ==
    \A n \in Linked(t) : t.color[n] = "RED" =>
        \A m \in {t.kid["left"][n], t.kid["right"][n], t.parent[n]} : NodeColor(t, m) = "BLACK"

\* the numbers of black nodes on the paths from n to NULL
RECURSIVE BlackCounts(_, _)
BlackCounts(t, n) ==
    LET own == IF NodeColor(t, n) = "BLACK" THEN 1 ELSE 0
    IN  IF n = NULL THEN {own}
        ELSE {own + c : c \in BlackCounts(t, t.kid["left"][n]) \cup BlackCounts(t, t.kid["right"][n])}

PathsAreEven(t) == Cardinality(BlackCounts(t, t.root)) = 1

VerifyProperties(t) == RootIsBlack(t) /\ RedsAreApart(t) /\ PathsAreEven(t)

RECURSIVE Descend(_, _, _)
Descend(t, n, k) ==
    IF n = NULL \/ t.key[n] = k THEN n
    ELSE Descend(t, t.kid[IF k < t.key[n] THEN "left" ELSE "right"][n], k)

LookupNode(t, k) == Descend(t, t.root, k)

\* A replace_node that sets no link up.
ReplaceNodeDown(t, old, new) ==
    LET p == t.parent[old]
    IN  IF p = NULL THEN [t EXCEPT !.root = new] ELSE [t EXCEPT !.kid[SideOf(t, old)][p] = new]

ReplaceNode(t, old, new) ==
    LET p  == t.parent[old]
        t1 == IF p = NULL THEN [t EXCEPT !.root = new] ELSE [t EXCEPT !.kid[SideOf(t, old)][p] = new]
    IN  IF new = NULL THEN t1 ELSE [t1 EXCEPT !.parent[new] = p]

\* rotate_left for s = "left", rotate_right for s = "right"
Rotate(t, n, s) ==
    LET r     == t.kid[Other(s)][n]
        inner == t.kid[s][r]
        t1    == [ReplaceNode(t, n, r) EXCEPT !.kid[Other(s)][n] = inner]
        t2    == IF inner = NULL THEN t1 ELSE [t1 EXCEPT !.parent[inner] = n]
    IN  [t2 EXCEPT !.kid[s][r] = n, !.parent[n] = r]

\* insert_case5 that leaves the grandparent black.
InsertCase5Pale(t, n) ==
    Rotate([t EXCEPT !.color[t.parent[n]] = "BLACK"], Grandparent(t, n), Other(SideOf(t, n)))

InsertCase5(t, n) ==
    LET g == Grandparent(t, n)
    IN  Rotate([t EXCEPT !.color[t.parent[n]] = "BLACK", !.color[g] = "RED"], g, Other(SideOf(t, n)))

InsertCase4(t, n) ==
    LET p == t.parent[n]  s == SideOf(t, n)
    IN  IF s # SideOf(t, p) THEN InsertCase5(Rotate(t, p, Other(s)), p) ELSE InsertCase5(t, n)

\* insert_case1, insert_case2 and insert_case3
RECURSIVE InsertCase1(_, _)
InsertCase1(t, n) ==
    LET p == t.parent[n]
    IN  IF p = NULL THEN [t EXCEPT !.color[n] = "BLACK"]
        ELSE IF NodeColor(t, p) = "BLACK" THEN t
        ELSE IF NodeColor(t, Uncle(t, n)) = "RED"
        THEN InsertCase1([t EXCEPT !.color[p] = "BLACK", !.color[Uncle(t, n)] = "BLACK",
                                   !.color[Grandparent(t, n)] = "RED"], Grandparent(t, n))
        ELSE InsertCase4(t, n)

\* the node under which key k is linked when the tree does not hold it
RECURSIVE LeafFor(_, _, _)
LeafFor(t, n, k) ==
    LET m == t.kid[IF k < t.key[n] THEN "left" ELSE "right"][n]
    IN  IF m = NULL THEN n ELSE LeafFor(t, m, k)

NewNode(t, n, k, v) ==
    [t EXCEPT !.key[n] = k, !.value[n] = v, !.color[n] = "RED", !.parent[n] = NULL,
              !.kid["left"][n] = NULL, !.kid["right"][n] = NULL]

RbtreeInsert(t, n) ==
    LET k == t.key[n]
        p == LeafFor(t, t.root, k)
    IN  IF t.root = NULL THEN InsertCase1([t EXCEPT !.root = n], n)
        ELSE IF LookupNode(t, k) # NULL THEN [t EXCEPT !.value[LookupNode(t, k)] = t.value[n]]
        ELSE InsertCase1([t EXCEPT !.kid[IF k < t.key[p] THEN "left" ELSE "right"][p] = n, !.parent[n] = p], n)

DeleteCase6(t, n) ==
    LET p == t.parent[n]  s == SideOf(t, n)  b == Sibling(t, n)
    IN  Rotate([t EXCEPT !.color[b] = NodeColor(t, p), !.color[p] = "BLACK",
                         !.color[t.kid[Other(s)][b]] = "BLACK"], p, s)

DeleteCase5(t, n) ==
    LET s == SideOf(t, n)  b == Sibling(t, n)
    IN  IF /\ NodeColor(t, b) = "BLACK"
           /\ NodeColor(t, t.kid[s][b]) = "RED"
           /\ NodeColor(t, t.kid[Other(s)][b]) = "BLACK"
        THEN DeleteCase6(Rotate([t EXCEPT !.color[b] = "RED", !.color[t.kid[s][b]] = "BLACK"], b, Other(s)), n)
        ELSE DeleteCase6(t, n)

AllBlack(t, b) == \A m \in {b, t.kid["left"][b], t.kid["right"][b]} : NodeColor(t, m) = "BLACK"

DeleteCase4(t, n) ==
    IF NodeColor(t, t.parent[n]) = "RED" /\ AllBlack(t, Sibling(t, n))
    THEN [t EXCEPT !.color[Sibling(t, n)] = "RED", !.color[t.parent[n]] = "BLACK"]
    ELSE DeleteCase5(t, n)

\* delete_case1, delete_case2 and delete_case3
RECURSIVE DeleteCase1(_, _)
DeleteCase1(t, n) ==
    LET p  == t.parent[n]
        b  == Sibling(t, n)
        t2 == IF NodeColor(t, b) = "BLACK" THEN t
              ELSE Rotate([t EXCEPT !.color[p] = "RED", !.color[b] = "BLACK"], p, SideOf(t, n))
    IN  IF p = NULL THEN t
        ELSE IF NodeColor(t2, t2.parent[n]) = "BLACK" /\ AllBlack(t2, Sibling(t2, n))
        THEN DeleteCase1([t2 EXCEPT !.color[Sibling(t2, n)] = "RED"], t2.parent[n])
        ELSE DeleteCase4(t2, n)

RECURSIVE MaximumNode(_, _)
MaximumNode(t, n) == IF t.kid["right"][n] = NULL THEN n ELSE MaximumNode(t, t.kid["right"][n])

\* the node that rbtree_delete unlinks and frees for key k
Victim(t, k) ==
    LET n == LookupNode(t, k)
    IN  IF t.kid["left"][n] # NULL /\ t.kid["right"][n] # NULL THEN MaximumNode(t, t.kid["left"][n]) ELSE n

\* A delete that moves the key of the maximum node without its value.
RbtreeDeleteKeyOnly(t, k) ==
    LET found == LookupNode(t, k)
        n     == Victim(t, k)
        child == IF t.kid["right"][n] = NULL THEN t.kid["left"][n] ELSE t.kid["right"][n]
        t1    == [t EXCEPT !.key[found] = t.key[n]]
        t2    == IF NodeColor(t1, n) = "RED" THEN t1
                 ELSE DeleteCase1([t1 EXCEPT !.color[n] = NodeColor(t1, child)], n)
    IN  ReplaceNode(t2, n, child)

RbtreeDelete(t, k) ==
    LET found == LookupNode(t, k)
        n     == Victim(t, k)
        child == IF t.kid["right"][n] = NULL THEN t.kid["left"][n] ELSE t.kid["right"][n]
        t1    == [t EXCEPT !.key[found] = t.key[n], !.value[found] = t.value[n]]
        t2    == IF NodeColor(t1, n) = "RED" THEN t1
                 ELSE DeleteCase1([t1 EXCEPT !.color[n] = NodeColor(t1, child)], n)
    IN  ReplaceNode(t2, n, child)

-----------------------------------------------------------------------------

Blank == [n \in Node |-> NULL]

\* rbtree_create
Init ==
    /\ tree = [root |-> NULL, kid |-> [s \in Side |-> Blank], parent |-> Blank,
               color |-> [n \in Node |-> "RED"], key |-> Blank, value |-> Blank, own |-> {}]
    /\ map = [k \in Keys |-> NULL]
    /\ aborted = FALSE

\* new_node on a node of the caller, then rbtree_insert
Insert(k, v) ==
    LET n  == IF k \in Node \ tree.own THEN k ELSE CHOOSE m \in Node \ tree.own : \A l \in Node \ tree.own : m <= l
        t1 == RbtreeInsert(NewNode(tree, n, k, v), n)
        t2 == IF n \in Linked(t1) THEN [t1 EXCEPT !.own = @ \cup {n}] ELSE NewNode(t1, n, NULL, NULL)
    IN  /\ ~aborted
        /\ tree.own # Node
        /\ tree' = t2
        /\ map' = [map EXCEPT ![k] = v]
        /\ aborted' = (n \in Linked(t1) /\ ~VerifyProperties(t1))

\* rbtree_delete; the freed node is blanked so that states are not told apart by it
Delete(k) ==
    LET n  == Victim(tree, k)
        t1 == RbtreeDelete(tree, k)
    IN  /\ ~aborted
        /\ LookupNode(tree, k) # NULL
        /\ tree' = [NewNode(t1, n, NULL, NULL) EXCEPT !.own = @ \ {n}]
        /\ map' = [map EXCEPT ![k] = NULL]
        /\ aborted' = ~VerifyProperties(t1)

Next == \E k \in Keys : (\E v \in Values[k] : Insert(k, v)) \/ Delete(k)

Spec == Init /\ [][Next]_treeVars

-----------------------------------------------------------------------------
\* Properties

\* Searching the tree for any key gives exactly what the inserts and deletes
\* so far have stored, whatever rotations they caused (rbtree_lookup).
TreeIsTheMap ==
    \A k \in Keys : LET n == LookupNode(tree, k) IN map[k] = IF n = NULL THEN NULL ELSE tree.value[n]

\* The nodes the tree links are exactly those it was given and has not freed,
\* and every link down has its link up: no rotation loses a subtree or leaves
\* a pointer to the node rbtree_delete has freed.
TreeKeepsItsNodes ==
    /\ Linked(tree) = tree.own
    /\ \A n \in tree.own : \A s \in Side :
            tree.kid[s][n] # NULL => tree.parent[tree.kid[s][n]] = n
    /\ tree.root # NULL => tree.parent[tree.root] = NULL

\* Verified properties 4 and 5: after every call no red node has a red child
\* and all paths hold the same number of black nodes, so that the only
\* assertion of verify_properties that can fail is the one about the root.
TreeIsBalanced == RedsAreApart(tree) /\ PathsAreEven(tree)

=============================================================================
