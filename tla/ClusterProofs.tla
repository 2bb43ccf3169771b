---------------------------- MODULE ClusterProofs ----------------------------
(***************************************************************************)
(* Elections have one winner per epoch, for any number of voters and of    *)
(* slaves that stand, any number of epochs and reboots, and any order of   *)
(* the packets.  The model keeps no record of who voted for whom: what the *)
(* counters of the slaves stand for is a history of votes, which the       *)
(* inductive invariant says to exist.                                      *)
(***************************************************************************)
EXTENDS Cluster, FiniteSetTheorems, WellFoundedInduction, TLAPS

USE SMTT(30)

Known == Serving \cup {Nobody}

NodeType ==
  [cur : Nat, vote : Nat, disk : {<<>>} \cup (Nat \X Nat), of : [Serving -> Known],
   conf : [Serving -> Nat], owner : Known, phase : {"none", "delay", "sent"},
   epoch : Nat, count : Nat]

HdrType == [from : Nodes, cur : Nat, of : Known, conf : Nat, slots : BOOLEAN]
RequestType == [type : {"request"}, to : Voters, hdr : HdrType]
AckType == [type : {"ack"}, to : Candidates, from : Voters, cur : Nat]

ClusType ==
  [scene : Scenes, msgs : SUBSET (RequestType \cup AckType), won : SUBSET (Candidates \X Nat),
   late : BOOLEAN, forgot : BOOLEAN, reboots : Nat, node : [Nodes -> NodeType]]

\* A node has not voted, and does not stand, in an epoch it has not come to; the
\* same holds of what it has on disk.
Sane(x) ==
  /\ x \in NodeType
  /\ x.vote <= x.cur /\ x.epoch <= x.cur
  /\ x.disk # <<>> => x.disk[2] <= x.disk[1]

\* A request is of an epoch that its sender stands in or has stood in.
Types ==
  /\ clus \in ClusType
  /\ \A n \in Nodes : Sane(clus.node[n])
  /\ \A v \in Voters : /\ clus.node[v].epoch = 0
                       /\ clus.node[v].disk = <<>> => clus.scene.reboots = 0
  /\ \A p \in clus.msgs : p.type = "request" =>
       p.hdr.from \in Candidates /\ p.hdr.cur <= clus.node[p.hdr.from].epoch

\* The voters that voted for n in epoch e, and those whose vote has arrived.
VotersOf(cast, n, e) == {v \in Voters : <<v, e, n>> \in cast}
Arrived(cast, n) ==
  {v \in VotersOf(cast, n, clus.node[n].epoch) :
     [type |-> "ack", to |-> n, from |-> v, cur |-> clus.node[n].epoch] \notin clus.msgs}

\* The votes <<voter, epoch, candidate>> cast so far: one by each voter in an
\* epoch, none in an epoch above the voter's last; every packet on its way
\* carries one; a counter counts votes that have arrived; a winner has a quorum.
Votes(cast) ==
  /\ \A v \in Voters, e \in Nat, n, m \in Candidates :
       <<v, e, n>> \in cast /\ <<v, e, m>> \in cast => n = m
  /\ \A v \in Voters, e \in Nat, n \in Candidates : <<v, e, n>> \in cast => e <= clus.node[v].vote
  /\ \A p \in clus.msgs : p.type = "ack" =>
       <<p.from, p.cur, p.to>> \in cast /\ p.cur <= clus.node[p.to].epoch
  /\ \A n \in Candidates : IF clus.node[n].phase = "delay" THEN clus.node[n].count = 0
                           ELSE clus.node[n].count <= Cardinality(Arrived(cast, n))
  /\ \A n \in Candidates, e \in Nat : <<n, e>> \in clus.won =>
       needed_quorum <= Cardinality(VotersOf(cast, n, e))

ElectionInv ==
  clus.late \/ clus.forgot \/ \E cast \in SUBSET (Voters \X Nat \X Candidates) : Votes(cast)

-----------------------------------------------------------------------------
\* Lemmas about numbers and sets

\* A finite set of numbers that is not empty has a greatest element: a smallest
\* subset without one would have one after all.
LEMMA GreatestOf ==
  ASSUME NEW S \in SUBSET Nat, IsFiniteSet(S), S # {}
  PROVE  \E x \in S : \A y \in S : x >= y
<1> DEFINE Top(T) == \E x \in T : \A y \in T : x >= y
           bad == {k \in Nat : \E T \in SUBSET S : T # {} /\ Cardinality(T) = k /\ ~Top(T)}
           less == {ss \in Nat \X Nat : ss[1] < ss[2]}
<1> SUFFICES ASSUME ~Top(S) PROVE FALSE
  OBVIOUS
<1>1. bad # {}
  BY FS_CardinalityType
<1>2. IsWellFoundedOn(less, Nat)
  BY NatLessThanWellFounded, Zenon DEF OpToRel
<1>3. PICK k \in bad : \A j \in bad : ~ (<<j, k>> \in less)
  <2>1. bad \subseteq Nat
    OBVIOUS
  <2> HIDE DEF bad, less
  <2> QED
    BY <1>1, <1>2, <2>1, WFMin, Zenon
<1>4. \A j \in bad : ~ (j < k)
  <2> SUFFICES ASSUME NEW j \in bad, j < k PROVE FALSE
    OBVIOUS
  <2>1. <<j, k>> \in Nat \X Nat /\ <<j, k>>[1] = j /\ <<j, k>>[2] = k
    OBVIOUS
  <2> QED
    BY <1>3, <2>1
<1>5. PICK T \in SUBSET S : T # {} /\ Cardinality(T) = k /\ ~Top(T)
  OBVIOUS
<1>6. PICK x \in T : TRUE
  BY <1>5, Zenon
<1>7. IsFiniteSet(T) /\ IsFiniteSet(T \ {x}) /\ Cardinality(T \ {x}) = k - 1
  BY <1>5, FS_Subset, FS_RemoveElement, Zenon
<1>8. T \ {x} # {}
  BY <1>5, <1>6
<1>9. k - 1 \in Nat
  BY <1>7, FS_CardinalityType
<1>10. Top(T \ {x})
  <2>1. k - 1 \notin bad
    BY <1>4, <1>9
  <2> QED
    BY <1>7, <1>8, <1>9, <2>1, Zenon
<1>11. PICK y \in T \ {x} : \A z \in T \ {x} : y >= z
  BY <1>10
<1>12. x \in Nat /\ y \in Nat /\ \A z \in T : z \in Nat
  OBVIOUS
<1> QED
  BY <1>5, <1>11, <1>12

\* Max answers it.
LEMMA MaxOf ==
  ASSUME NEW S \in SUBSET Nat, IsFiniteSet(S), S # {}
  PROVE  Max(S) \in S /\ \A y \in S : Max(S) >= y
BY GreatestOf, Zenon DEF Max

LEMMA MaxOfTwo ==
  ASSUME NEW a \in Nat, NEW b \in Nat
  PROVE  Max({a, b}) \in {a, b} /\ Max({a, b}) >= a /\ Max({a, b}) >= b
<1>1. \E x \in {a, b} : \A y \in {a, b} : x >= y
  OBVIOUS
<1> QED
  BY <1>1 DEF Max

\* Two quorums among the voters have a voter in common: needed_quorum is a
\* majority of the voters and of the failing master together.
LEMMA QuorumsMeet ==
  ASSUME NEW S \in SUBSET Voters, NEW T \in SUBSET Voters,
         needed_quorum <= Cardinality(S), needed_quorum <= Cardinality(T)
  PROVE  S \cap T # {}
<1>1. Cardinality(Voters) \in Nat /\ Cardinality(S) \in Nat /\ Cardinality(T) \in Nat
  BY ClusterAssumption, FS_CardinalityType, FS_Subset
<1>2. Cardinality(S) + Cardinality(T) > Cardinality(Voters)
  BY <1>1 DEF needed_quorum
<1> QED
  BY <1>2, ClusterAssumption, FS_MajoritiesIntersect

-----------------------------------------------------------------------------
\* What processing a packet does to a node

\* y is x with news: the election of x is as it was.
News(x, y) ==
  /\ Sane(y) /\ x.cur <= y.cur
  /\ y.vote = x.vote /\ y.epoch = x.epoch /\ y.count = x.count /\ y.phase = x.phase
  /\ y.disk = <<>> => x.disk = <<>>

\* News of news is news.
LEMMA NewsOfNews ==
  ASSUME NEW x, NEW y, NEW z, Sane(x), News(x, y), News(y, z)
  PROVE  News(x, z)
BY DEF News, Sane, NodeType

\* What leaves the election alone, and the epochs in order, is news.
LEMMA IsNews ==
  ASSUME NEW x, Sane(x), NEW y \in NodeType, x.cur <= y.cur, y.vote = x.vote, y.epoch = x.epoch,
         y.count = x.count, y.phase = x.phase,
         y.disk = x.disk \/ (x.disk # <<>> /\ y.disk = <<x.cur, x.vote>>)
  PROVE  News(x, y)
<1>1. x.cur \in Nat /\ y.cur \in Nat /\ x.vote \in Nat /\ x.epoch \in Nat /\ x.vote <= x.cur /\ x.epoch <= x.cur
  BY DEF Sane, NodeType
<1>2. y.vote <= y.cur /\ y.epoch <= y.cur
  BY <1>1
<1>3. (y.disk # <<>> => y.disk[2] <= y.disk[1]) /\ (y.disk = <<>> => x.disk = <<>>)
  <2>1. CASE y.disk = x.disk
    BY <2>1 DEF Sane
  <2>2. CASE x.disk # <<>> /\ y.disk = <<x.cur, x.vote>>
    <3>1. y.disk[1] = x.cur /\ y.disk[2] = x.vote
      BY <2>2
    <3> QED
      BY <1>1, <2>2, <3>1
  <2> QED
    BY <2>1, <2>2
<1> QED
  BY <1>2, <1>3 DEF News, Sane

\* clusterSaveConfig writes the node's epochs.
LEMMA SaveNews ==
  ASSUME NEW x, Sane(x)
  PROVE  News(x, Save(x))
<1>1. x \in NodeType /\ x.cur \in Nat /\ x.vote \in Nat
  BY DEF Sane, NodeType
<1>2. CASE x.disk = <<>>
  BY <1>1, <1>2 DEF Save, News, Sane, NodeType
<1>3. CASE x.disk # <<>>
  <2>1. Save(x) = [x EXCEPT !.disk = <<x.cur, x.vote>>]
    BY <1>3 DEF Save
  <2>2. <<x.cur, x.vote>> \in Nat \X Nat /\ <<x.cur, x.vote>> # <<>>
    BY <1>1
  <2>3. Save(x) \in NodeType
    BY <1>1, <2>1, <2>2, Zenon DEF NodeType
  <2>4. /\ Save(x).cur = x.cur /\ Save(x).vote = x.vote /\ Save(x).epoch = x.epoch
        /\ Save(x).count = x.count /\ Save(x).phase = x.phase /\ Save(x).disk = <<x.cur, x.vote>>
    BY <1>1, <2>1 DEF NodeType
  <2> QED
    BY <1>1, <1>3, <2>3, <2>4, IsNews
<1> QED
  BY <1>2, <1>3

\* The epochs of a packet.
LEMMA SeenEpochsNews ==
  ASSUME NEW x, Sane(x), NEW h \in HdrType
  PROVE  News(x, SeenEpochs(x, h)) /\ SeenEpochs(x, h).cur >= h.cur
                                   /\ SeenEpochs(x, h).cur \in {x.cur, h.cur}
<1> DEFINE y == [x EXCEPT !.cur = Max({x.cur, h.cur})]
           z == [y EXCEPT !.conf[h.from] = h.conf]
<1>1. x \in NodeType /\ h.cur \in Nat /\ h.conf \in Nat /\ x.cur \in Nat
  BY DEF Sane, NodeType, HdrType
<1>2. Max({x.cur, h.cur}) \in Nat /\ Max({x.cur, h.cur}) >= x.cur /\ Max({x.cur, h.cur}) >= h.cur
      /\ Max({x.cur, h.cur}) \in {x.cur, h.cur}
  BY <1>1, MaxOfTwo, Zenon
<1>3. News(x, y) /\ y.cur >= h.cur /\ y.cur \in {x.cur, h.cur}
  <2>1. y \in NodeType /\ y.cur = Max({x.cur, h.cur})
    BY <1>1, <1>2, Zenon DEF NodeType
  <2>2. y.vote = x.vote /\ y.epoch = x.epoch /\ y.count = x.count /\ y.phase = x.phase /\ y.disk = x.disk
    BY <1>1 DEF NodeType
  <2> QED
    BY <1>2, <2>1, <2>2, IsNews, Zenon
<1>4. h.from \in Serving => News(x, z) /\ z.cur = y.cur
  <2>1. z \in NodeType /\ z.cur = Max({x.cur, h.cur}) /\ y.cur = Max({x.cur, h.cur})
    BY <1>1, <1>2, Zenon DEF NodeType
  <2>2. z.vote = x.vote /\ z.epoch = x.epoch /\ z.count = x.count /\ z.phase = x.phase /\ z.disk = x.disk
    BY <1>1 DEF NodeType
  <2> QED
    BY <1>2, <2>1, <2>2, IsNews, Zenon
<1>5. SeenEpochs(x, h) \in {y, Save(z)} /\ (h.from \notin Serving => SeenEpochs(x, h) = y)
  BY DEF SeenEpochs
<1>6. Save(z).cur = z.cur
  BY <1>1 DEF Save, NodeType
<1> HIDE DEF y, z
<1>7. CASE SeenEpochs(x, h) = y
  BY <1>3, <1>7
<1>8. CASE SeenEpochs(x, h) = Save(z) /\ h.from \in Serving
  <2>1. News(z, Save(z))
    BY <1>4, <1>8, SaveNews, Zenon DEF News
  <2> QED
    BY <1>3, <1>4, <1>6, <1>8, <2>1, NewsOfNews, Zenon
<1> QED
  BY <1>5, <1>7, <1>8

\* The role of its sender.
LEMMA SeenRoleNews ==
  ASSUME NEW x, Sane(x), NEW h \in HdrType
  PROVE  News(x, SeenRole(x, h))
<1> DEFINE o == IF h.of # Nobody /\ IsMaster(x, h.from) /\ x.owner = h.from THEN Nobody ELSE x.owner
           y == [x EXCEPT !.of[h.from] = h.of, !.owner = o]
<1>1. x \in NodeType /\ o \in Known /\ h.of \in Known
  BY DEF Sane, NodeType, HdrType, Known
<1>2. SeenRole(x, h) \in {x, Save(y)}
  BY DEF SeenRole
<1> HIDE DEF o
<1>3. News(x, y) /\ News(x, x)
  <2>1. y \in NodeType
    BY <1>1, Zenon DEF NodeType
  <2>2. y.vote = x.vote /\ y.epoch = x.epoch /\ y.count = x.count /\ y.phase = x.phase /\ y.disk = x.disk /\ y.cur = x.cur
    BY <1>1 DEF NodeType
  <2>3. x.cur <= x.cur
    BY <1>1 DEF NodeType
  <2> QED
    BY <1>1, <2>1, <2>2, <2>3, IsNews, Zenon
<1> HIDE DEF y
<1>4. News(y, Save(y))
  BY <1>3, SaveNews, Zenon DEF News
<1> QED
  BY <1>2, <1>3, <1>4, NewsOfNews, Zenon

\* The slot of a sender, who may become the node's master.
LEMMA UpdateSlotsNews ==
  ASSUME NEW x, Sane(x), NEW n \in Nodes, NEW sender \in Serving, NEW epoch
  PROVE  News(x, clusterUpdateSlotsConfigWith(x, n, sender, epoch))
<1> DEFINE y == [x EXCEPT !.owner = sender]
           z == [y EXCEPT !.of[n] = sender]
<1>1. x \in NodeType /\ sender \in Known
  BY DEF Sane, Known
<1>2. News(x, y) /\ News(x, x) /\ News(x, z)
  <2>1. y \in NodeType /\ z \in NodeType
    BY <1>1, Zenon DEF NodeType
  <2>2. y.vote = x.vote /\ y.epoch = x.epoch /\ y.count = x.count /\ y.phase = x.phase /\ y.disk = x.disk /\ y.cur = x.cur
    BY <1>1 DEF NodeType
  <2>3. z.vote = x.vote /\ z.epoch = x.epoch /\ z.count = x.count /\ z.phase = x.phase /\ z.disk = x.disk /\ z.cur = x.cur
    BY <1>1 DEF NodeType
  <2>4. x.cur <= x.cur
    BY <1>1 DEF NodeType
  <2> QED
    BY <1>1, <2>1, <2>2, <2>3, <2>4, IsNews, Zenon
<1>3. clusterUpdateSlotsConfigWith(x, n, sender, epoch) \in {x, Save(y), Save(z)}
  BY DEF clusterUpdateSlotsConfigWith
<1> HIDE DEF y, z
<1>4. News(y, Save(y)) /\ News(z, Save(z))
  BY <1>2, SaveNews, Zenon DEF News
<1> QED
  BY <1>2, <1>3, <1>4, NewsOfNews, Zenon

\* The epoch of another master with the same one.
LEMMA CollisionNews ==
  ASSUME NEW x, Sane(x), NEW n, NEW h
  PROVE  /\ News(x, clusterHandleConfigEpochCollision(x, n, h))
         /\ clusterHandleConfigEpochCollision(x, n, h).owner = x.owner
<1> DEFINE y == [x EXCEPT !.cur = x.cur + 1, !.conf[n] = x.cur + 1]
<1>1. x \in NodeType /\ x.cur \in Nat /\ x.cur + 1 \in Nat
  BY DEF Sane, NodeType
<1>2. News(x, y) /\ News(x, x)
  <2>1. y \in NodeType /\ y.cur = x.cur + 1
    BY <1>1, Zenon DEF NodeType
  <2>2. y.vote = x.vote /\ y.epoch = x.epoch /\ y.count = x.count /\ y.phase = x.phase /\ y.disk = x.disk
    BY <1>1 DEF NodeType
  <2>3. x.cur <= x.cur /\ x.cur <= x.cur + 1
    BY <1>1
  <2> QED
    BY <1>1, <2>1, <2>2, <2>3, IsNews, Zenon
<1>3. clusterHandleConfigEpochCollision(x, n, h) \in {x, Save(y)}
  BY DEF clusterHandleConfigEpochCollision
<1>4. Save(y).owner = x.owner
  BY <1>1 DEF Save, NodeType
<1> HIDE DEF y
<1>5. News(y, Save(y))
  BY <1>2, SaveNews, Zenon DEF News
<1> QED
  BY <1>2, <1>3, <1>4, <1>5, NewsOfNews, Zenon

\* A PING or a PONG; the owner an UPDATE is sent about is a node that serves.
LEMMA SeenConfigNews ==
  ASSUME NEW x, Sane(x), NEW n \in Nodes, NEW h \in HdrType, h.from \in Serving
  PROVE  /\ News(x, SeenConfig(x, n, h).node)
         /\ SeenConfig(x, n, h).update => SeenConfig(x, n, h).node.owner \in Serving
<1> DEFINE role == SeenRole(x, h)
           dirty == (role.owner = MasterOf(role, h.from)) # h.slots
           slot == IF h.of = Nobody /\ dirty /\ h.slots
                   THEN clusterUpdateSlotsConfigWith(role, n, h.from, h.conf) ELSE role
           last == clusterHandleConfigEpochCollision(slot, n, h)
<1>1. /\ SeenConfig(x, n, h).node = last
      /\ SeenConfig(x, n, h).update => slot.owner # Nobody
  BY DEF SeenConfig
<1>2. News(x, role)
  BY SeenRoleNews, Zenon
<1> HIDE DEF role
<1>3. News(x, slot)
  BY <1>2, UpdateSlotsNews, NewsOfNews DEF News
<1> HIDE DEF slot
<1>4. Sane(slot)
  BY <1>3 DEF News
<1>5. News(slot, last) /\ last.owner = slot.owner
  BY <1>4, CollisionNews, Zenon
<1>6. slot.owner \in Known
  BY <1>4 DEF Sane, NodeType
<1> QED
  BY <1>1, <1>3, <1>5, <1>6, NewsOfNews, Zenon DEF Known

\* An UPDATE packet.
LEMMA ProcessUpdateNews ==
  ASSUME NEW x, Sane(x), NEW m \in Nodes, NEW y, Sane(y), y.owner \in Serving
  PROVE  News(x, ProcessUpdate(x, m, y))
<1> DEFINE k == y.owner
           seen == [x EXCEPT !.cur = Max({x.cur, y.cur})]
           new == [seen EXCEPT !.of[k] = Nobody, !.conf[k] = y.conf[k]]
<1>1. x \in NodeType /\ x.cur \in Nat /\ y.cur \in Nat /\ y.conf[k] \in Nat /\ Nobody \in Known
  BY DEF Sane, NodeType, Known
<1>2. Max({x.cur, y.cur}) \in Nat /\ Max({x.cur, y.cur}) >= x.cur
  BY <1>1, MaxOfTwo, Zenon
<1>3. ProcessUpdate(x, m, y) \in {seen, clusterUpdateSlotsConfigWith(Save(new), m, k, y.conf[k])}
  BY DEF ProcessUpdate
<1> HIDE DEF k
<1>4. News(x, seen)
  <2>1. seen \in NodeType /\ seen.cur = Max({x.cur, y.cur})
    BY <1>1, <1>2, Zenon DEF NodeType
  <2>2. seen.vote = x.vote /\ seen.epoch = x.epoch /\ seen.count = x.count /\ seen.phase = x.phase /\ seen.disk = x.disk
    BY <1>1 DEF NodeType
  <2> QED
    BY <1>2, <2>1, <2>2, IsNews, Zenon
<1>5. News(x, new)
  <2>1. new \in NodeType /\ new.cur = Max({x.cur, y.cur})
    BY <1>1, <1>2, Zenon DEF NodeType
  <2>2. new.vote = x.vote /\ new.epoch = x.epoch /\ new.count = x.count /\ new.phase = x.phase /\ new.disk = x.disk
    BY <1>1 DEF NodeType
  <2> QED
    BY <1>2, <2>1, <2>2, IsNews, Zenon
<1> HIDE DEF seen, new
<1>6. News(new, Save(new)) /\ k \in Serving
  BY <1>5, SaveNews, Zenon DEF News, k
<1>7. News(Save(new), clusterUpdateSlotsConfigWith(Save(new), m, k, y.conf[k]))
  BY <1>6, UpdateSlotsNews DEF News
<1> QED
  BY <1>3, <1>4, <1>5, <1>6, <1>7, NewsOfNews, Zenon

\* Any node's packets have a header.
LEMMA HeaderType ==
  ASSUME Types, NEW n \in Nodes
  PROVE  /\ clusterBuildMessageHdr(n) \in HdrType
         /\ clusterBuildMessageHdr(n).from = n /\ clusterBuildMessageHdr(n).cur = clus.node[n].cur
<1> DEFINE x == clus.node[n]
           m == MasterOf(x, n)
<1>1. x \in NodeType
  BY DEF Types, ClusType
<1>2. x.cur \in Nat /\ x.of \in [Serving -> Known] /\ x.conf \in [Serving -> Nat]
  BY <1>1 DEF NodeType
<1>3. (IF IsMaster(x, n) THEN Nobody ELSE m) \in Known
  BY <1>2 DEF IsMaster, MasterOf, Known, Nodes
<1>4. (IF m \in Serving THEN x.conf[m] ELSE 0) \in Nat
  BY <1>2
<1>5. (x.owner = m) \in BOOLEAN
  OBVIOUS
<1> QED
  BY <1>2, <1>3, <1>4, <1>5 DEF clusterBuildMessageHdr, HdrType

-----------------------------------------------------------------------------
\* The votes, when none is cast

\* Votes arrive and epochs advance, and the history stands for the same counts.
LEMMA VotesKept ==
  ASSUME Types, Types', NEW cast \in SUBSET (Voters \X Nat \X Candidates), Votes(cast),
         \A v \in Voters : clus'.node[v].vote >= clus.node[v].vote,
         \A p \in clus'.msgs : p.type = "ack" => p \in clus.msgs,
         \A n \in Candidates : clus'.node[n].epoch >= clus.node[n].epoch,
         \A n \in Candidates :
           \/ clus'.node[n].count = 0
           \/ /\ clus'.node[n].epoch = clus.node[n].epoch
              /\ clus'.node[n].count = clus.node[n].count
              /\ clus'.node[n].phase = "delay" <=> clus.node[n].phase = "delay",
         \A n \in Candidates, e \in Nat : <<n, e>> \in clus'.won =>
           <<n, e>> \in clus.won \/ needed_quorum <= Cardinality(VotersOf(cast, n, e))
  PROVE  Votes(cast)'
<1> USE DEF Votes
<1>1. ASSUME NEW v \in Voters, NEW e \in Nat, NEW n \in Candidates, <<v, e, n>> \in cast
      PROVE  e <= clus'.node[v].vote
  <2>1. v \in Nodes
    BY DEF Nodes
  <2>2. clus.node[v].vote \in Nat /\ clus'.node[v].vote \in Nat
    BY <2>1 DEF Types, ClusType, NodeType
  <2> QED
    BY <1>1, <2>2
<1>2. ASSUME NEW p \in clus'.msgs, p.type = "ack"
      PROVE  <<p.from, p.cur, p.to>> \in cast /\ p.cur <= clus'.node[p.to].epoch
  <2>1. p \in clus.msgs /\ p \in AckType
    BY <1>2 DEF Types, ClusType, RequestType
  <2>2. p.to \in Candidates /\ p.to \in Nodes /\ p.cur \in Nat
    BY <2>1 DEF AckType, Nodes, Serving
  <2>3. clus.node[p.to].epoch \in Nat /\ clus'.node[p.to].epoch \in Nat
    BY <2>2 DEF Types, ClusType, NodeType
  <2> QED
    BY <1>2, <2>1, <2>2, <2>3
<1>3. ASSUME NEW n \in Candidates
      PROVE  IF clus'.node[n].phase = "delay" THEN clus'.node[n].count = 0
             ELSE clus'.node[n].count <= Cardinality(Arrived(cast, n)')
  <2>1. IsFiniteSet(Arrived(cast, n)')
    BY ClusterAssumption, FS_Subset, Zenon DEF Arrived, VotersOf
  <2>2. Cardinality(Arrived(cast, n)') \in Nat
    BY <2>1, FS_CardinalityType
  <2>3. CASE clus'.node[n].count = 0
    BY <2>2, <2>3
  <2>4. CASE /\ clus'.node[n].epoch = clus.node[n].epoch
             /\ clus'.node[n].count = clus.node[n].count
             /\ clus'.node[n].phase = "delay" <=> clus.node[n].phase = "delay"
    <3>1. Arrived(cast, n) \subseteq Arrived(cast, n)'
      BY <2>4 DEF Arrived
    <3>2. Cardinality(Arrived(cast, n)) <= Cardinality(Arrived(cast, n)') /\ Cardinality(Arrived(cast, n)) \in Nat
      BY <2>1, <3>1, FS_Subset, FS_CardinalityType
    <3>3. n \in Nodes
      BY DEF Nodes, Serving
    <3>4. clus.node[n].count \in Nat
      BY <3>3 DEF Types, ClusType, NodeType
    <3> QED
      BY <2>2, <2>4, <3>2, <3>4
  <2> QED
    BY <2>3, <2>4
<1>4. \A n \in Candidates, e \in Nat : <<n, e>> \in clus'.won => needed_quorum <= Cardinality(VotersOf(cast, n, e))
  OBVIOUS
<1> QED
  BY <1>1, <1>2, <1>3, <1>4 DEF VotersOf, needed_quorum

\* The election goes on as it was when the votes are kept, or when a late or a
\* forgotten vote was noticed before.
LEMMA ElectionKept ==
  ASSUME ElectionInv, clus.late => clus'.late, clus.forgot => clus'.forgot,
         \A cast \in SUBSET (Voters \X Nat \X Candidates) : Votes(cast) =>
           clus'.late \/ clus'.forgot \/ \E new \in SUBSET (Voters \X Nat \X Candidates) : Votes(new)'
  PROVE  ElectionInv'
BY DEF ElectionInv

-----------------------------------------------------------------------------
\* The steps

\* The nodes start in epoch 1, nobody has voted.
LEMMA InitElection == ClusterInit => Types /\ ElectionInv
<1> SUFFICES ASSUME ClusterInit PROVE Types /\ ElectionInv
  OBVIOUS
<1>1. PICK scene \in Scenes :
        clus = [scene |-> scene, msgs |-> {}, won |-> {}, late |-> FALSE, forgot |-> FALSE, reboots |-> 0,
                node |-> [n \in Nodes |->
                  [cur |-> 1, vote |-> 0,
                   disk |-> IF n \in Voters /\ scene.reboots > 0 THEN <<1, 0>> ELSE <<>>,
                   of |-> [m \in Serving |-> IF m = Failing THEN Nobody ELSE Failing],
                   conf |-> [m \in Serving |-> IF m = n /\ m # Failing THEN 0 ELSE 1],
                   owner |-> Failing, phase |-> "none", epoch |-> 0, count |-> 0]]]
  BY Zenon DEF ClusterInit
<1>2. /\ clus.msgs = {} /\ clus.won = {} /\ clus.reboots = 0 /\ clus.scene = scene
      /\ clus.late = FALSE /\ clus.forgot = FALSE
  BY <1>1
<1>3. scene.reboots \in Nat
  BY ClusterAssumption
<1>4. ASSUME NEW n \in Nodes
      PROVE  /\ Sane(clus.node[n])
             /\ clus.node[n].epoch = 0 /\ clus.node[n].count = 0
             /\ n \in Voters /\ clus.node[n].disk = <<>> => scene.reboots = 0
  <2> DEFINE x == clus.node[n]
             d == IF n \in Voters /\ scene.reboots > 0 THEN <<1, 0>> ELSE <<>>
             of == [m \in Serving |-> IF m = Failing THEN Nobody ELSE Failing]
             conf == [m \in Serving |-> IF m = n /\ m # Failing THEN 0 ELSE 1]
  <2>1. of \in [Serving -> Known] /\ conf \in [Serving -> Nat] /\ Failing \in Known
    BY DEF Known, Serving
  <2>2. d = <<>> \/ (d = <<1, 0>> /\ d # <<>> /\ d \in Nat \X Nat /\ d[1] = 1 /\ d[2] = 0)
    OBVIOUS
  <2>3. n \in Voters /\ d = <<>> => scene.reboots = 0
    BY <1>3
  <2>4. x = [cur |-> 1, vote |-> 0, disk |-> d, of |-> of, conf |-> conf,
             owner |-> Failing, phase |-> "none", epoch |-> 0, count |-> 0]
    BY <1>1
  <2> HIDE DEF d, of, conf, x
  <2>5. x \in NodeType /\ x.cur = 1 /\ x.vote = 0 /\ x.epoch = 0 /\ x.count = 0 /\ x.disk = d
    BY <2>1, <2>2, <2>4 DEF NodeType
  <2> QED
    BY <2>2, <2>3, <2>5 DEF Sane, x
<1>5. Types
  <2>1. clus.node \in [Nodes -> NodeType]
    <3>1. clus.node = [n \in Nodes |-> clus.node[n]]
      BY <1>1
    <3> QED
      BY <1>4, <3>1 DEF Sane
  <2>2. clus \in ClusType
    <3>1. PICK all \in [Nodes -> NodeType] :
            clus = [scene |-> scene, msgs |-> {}, won |-> {}, late |-> FALSE, forgot |-> FALSE,
                    reboots |-> 0, node |-> all]
      BY <1>1, <2>1, Zenon
    <3> QED
      BY <3>1 DEF ClusType
  <2> QED
    BY <1>2, <1>4, <2>2 DEF Types, ClusType, Nodes
<1>6. Votes({})
  <2>1. \A n \in Candidates : n \in Nodes
    BY DEF Nodes, Serving
  <2>2. ASSUME NEW n \in Candidates PROVE Cardinality(Arrived({}, n)) = 0
    <3>1. Arrived({}, n) = {}
      BY DEF Arrived, VotersOf
    <3> QED
      BY <3>1, FS_EmptySet
  <2> QED
    BY <1>2, <1>4, <2>1, <2>2 DEF Votes
<1> QED
  BY <1>5, <1>6 DEF ElectionInv

\* A packet between two nodes is news to both.
LEMMA PingNews ==
  ASSUME Types, NEW n \in Nodes, NEW m \in Nodes, Ping(n, m)
  PROVE  /\ clus' = [clus EXCEPT !.node = Heard(n, m)]
         /\ Heard(n, m) \in [Nodes -> NodeType]
         /\ \A k \in Nodes : News(clus.node[k], Heard(n, m)[k])
<1> DEFINE h == clusterBuildMessageHdr(m)
           x == SeenEpochs(clus.node[n], h)
           seen == SeenConfig(x, n, h)
           y == IF seen.update THEN ProcessUpdate(clus.node[m], m, seen.node) ELSE clus.node[m]
<1>1. n # m /\ clus' = [clus EXCEPT !.node = Heard(n, m)]
  BY DEF Ping
<1>2. clus.node \in [Nodes -> NodeType] /\ \A k \in Nodes : Sane(clus.node[k])
  BY DEF Types, ClusType
<1>3. \A k \in Nodes : News(clus.node[k], clus.node[k])
  <2> SUFFICES ASSUME NEW k \in Nodes PROVE News(clus.node[k], clus.node[k])
    OBVIOUS
  <2>1. clus.node[k].cur \in Nat
    BY <1>2 DEF NodeType
  <2> QED
    BY <1>2, <2>1, IsNews
<1>4. h \in HdrType /\ h.from = m
  BY HeaderType, Zenon
<1> HIDE DEF h
<1>5. News(clus.node[n], x)
  BY <1>2, <1>4, SeenEpochsNews, Zenon
<1> HIDE DEF x
<1>6. CASE m \in Voters
  <2>1. Heard(n, m) = [clus.node EXCEPT ![n] = x]
    BY <1>6 DEF Heard, x, h
  <2>2. x \in NodeType
    BY <1>5 DEF News, Sane
  <2> QED
    BY <1>1, <1>2, <1>3, <1>5, <2>1, <2>2
<1>7. CASE m \notin Voters
  <2>1. Heard(n, m) = [clus.node EXCEPT ![n] = seen.node, ![m] = y]
    BY <1>1, <1>2, <1>7 DEF Heard, x, h
  <2>2. News(x, seen.node) /\ (seen.update => seen.node.owner \in Serving)
    BY <1>4, <1>5, <1>7, SeenConfigNews, Zenon DEF News, Nodes
  <2> HIDE DEF seen
  <2>3. News(clus.node[n], seen.node)
    BY <1>2, <1>5, <2>2, NewsOfNews, Zenon
  <2>4. News(clus.node[m], y)
    BY <1>2, <1>3, <2>2, <2>3, ProcessUpdateNews DEF News
  <2> HIDE DEF y
  <2>5. seen.node \in NodeType /\ y \in NodeType
    BY <2>3, <2>4 DEF News, Sane
  <2>6. Heard(n, m)[n] = seen.node /\ Heard(n, m)[m] = y
        /\ \A k \in Nodes \ {n, m} : Heard(n, m)[k] = clus.node[k]
    BY <1>1, <1>2, <2>1
  <2>7. Heard(n, m) \in [Nodes -> NodeType]
    BY <1>2, <2>1, <2>5
  <2> QED
    BY <1>1, <1>3, <2>3, <2>4, <2>6, <2>7
<1> QED
  BY <1>6, <1>7

\* A packet changes no election.
LEMMA PingElection ==
  ASSUME Types, ElectionInv, NEW n \in Nodes, NEW m \in Nodes, Ping(n, m)
  PROVE  Types' /\ ElectionInv'
<1>1. /\ clus' = [clus EXCEPT !.node = Heard(n, m)]
      /\ Heard(n, m) \in [Nodes -> NodeType]
      /\ \A k \in Nodes : News(clus.node[k], Heard(n, m)[k])
  BY PingNews, Zenon
<1>2. /\ clus'.node = Heard(n, m) /\ clus'.msgs = clus.msgs /\ clus'.won = clus.won
      /\ clus'.late = clus.late /\ clus'.forgot = clus.forgot /\ clus'.scene = clus.scene
  BY <1>1 DEF Types, ClusType
<1>3. clus' \in ClusType
  BY <1>1 DEF Types, ClusType
<1>4. \A k \in Nodes : News(clus.node[k], clus'.node[k])
  BY <1>1, <1>2
<1>5. Types'
  <2>1. \A k \in Nodes : Sane(clus'.node[k])
    BY <1>4 DEF News
  <2>2. \A v \in Voters : /\ clus'.node[v].epoch = 0
                          /\ clus'.node[v].disk = <<>> => clus'.scene.reboots = 0
    BY <1>2, <1>4 DEF News, Types, ClusType, Nodes
  <2>3. \A p \in clus'.msgs : p.type = "request" =>
          p.hdr.from \in Candidates /\ p.hdr.cur <= clus'.node[p.hdr.from].epoch
    BY <1>2, <1>4 DEF News, Types, ClusType, Nodes, Serving
  <2> QED
    BY <1>3, <2>1, <2>2, <2>3 DEF Types, ClusType, Sane
<1>6. ASSUME NEW cast \in SUBSET (Voters \X Nat \X Candidates), Votes(cast)
      PROVE  Votes(cast)'
  <2>1. \A k \in Nodes : /\ clus'.node[k].vote = clus.node[k].vote /\ clus'.node[k].epoch = clus.node[k].epoch
                         /\ clus'.node[k].count = clus.node[k].count /\ clus'.node[k].phase = clus.node[k].phase
                         /\ clus.node[k].vote \in Nat /\ clus.node[k].epoch \in Nat
    BY <1>4 DEF News, Types, ClusType, NodeType
  <2>2. \A k \in Nodes : clus'.node[k].vote >= clus.node[k].vote /\ clus'.node[k].epoch >= clus.node[k].epoch
    BY <2>1
  <2> QED
    BY <1>2, <1>5, <1>6, <2>1, <2>2, VotesKept, Zenon DEF Nodes, Serving
<1> QED
  BY <1>2, <1>5, <1>6, ElectionKept, Zenon

\* A node may schedule an election: what was counted is forgotten.
LEMMA ScheduleStep ==
  ASSUME Types, ElectionInv, NEW n \in Candidates, ScheduleElection(n)
  PROVE  Types' /\ ElectionInv'
<1>1. n \in Nodes /\ clus \in ClusType /\ clus.node[n] \in NodeType
  BY DEF Types, ClusType, Nodes, Serving
<1> DEFINE x == clus.node[n]
           y == [x EXCEPT !.phase = "delay", !.count = 0]
<1>2. clus' = [clus EXCEPT !.node[n] = y]
  BY <1>1, Zenon DEF ScheduleElection, ClusType, NodeType
<1>3. /\ y \in NodeType /\ y.phase = "delay" /\ y.count = 0 /\ y.cur = x.cur /\ y.vote = x.vote
      /\ y.epoch = x.epoch /\ y.disk = x.disk
  BY <1>1, Zenon DEF NodeType
<1>4. Sane(y)
  BY <1>3 DEF Sane, Types, ClusType, Nodes, Serving
<1> HIDE DEF y
<1>5. /\ clus' \in ClusType /\ clus'.node[n] = y /\ \A k \in Nodes \ {n} : clus'.node[k] = clus.node[k]
      /\ clus'.msgs = clus.msgs /\ clus'.won = clus.won
      /\ clus'.late = clus.late /\ clus'.forgot = clus.forgot /\ clus'.scene = clus.scene
  BY <1>1, <1>2, <1>3 DEF ClusType
<1>6. Types'
  <2>1. \A k \in Nodes : Sane(clus'.node[k]) /\ clus'.node[k].epoch = clus.node[k].epoch
                         /\ clus'.node[k].disk = clus.node[k].disk
    BY <1>3, <1>4, <1>5 DEF Types, ClusType
  <2> QED
    BY <1>5, <2>1 DEF Types, ClusType, Nodes, Serving
<1>7. ASSUME NEW cast \in SUBSET (Voters \X Nat \X Candidates), Votes(cast)
      PROVE  Votes(cast)'
  <2>1. \A k \in Nodes : /\ clus'.node[k].vote = clus.node[k].vote /\ clus'.node[k].epoch = clus.node[k].epoch
                         /\ clus.node[k].vote \in Nat /\ clus.node[k].epoch \in Nat
    BY <1>3, <1>5, Zenon DEF Types, ClusType, NodeType
  <2>2. \A k \in Nodes : clus'.node[k].vote >= clus.node[k].vote /\ clus'.node[k].epoch >= clus.node[k].epoch
    BY <2>1
  <2> QED
    BY <1>3, <1>5, <1>6, <1>7, <2>1, <2>2, VotesKept, Zenon DEF Nodes, Serving
<1> QED
  BY <1>5, <1>6, <1>7, ElectionKept, Zenon

\* A request starts an epoch in which nothing has been counted.
LEMMA RequestStep ==
  ASSUME Types, ElectionInv, NEW n \in Candidates, clusterRequestFailoverAuth(n)
  PROVE  Types' /\ ElectionInv'
<1>1. n \in Nodes /\ clus \in ClusType /\ clus.node[n] \in NodeType /\ Sane(clus.node[n])
  BY DEF Types, ClusType, Nodes, Serving
<1> DEFINE x == clus.node[n]
           w == [x EXCEPT !.cur = x.cur + 1, !.epoch = x.cur + 1, !.phase = "sent"]
           y == Save(w)
           h == [clusterBuildMessageHdr(n) EXCEPT !.cur = y.cur]
           asked == {[type |-> "request", to |-> m, hdr |-> h] : m \in Voters}
<1>2. clus' = [clus EXCEPT !.node[n] = y, !.msgs = clus.msgs \cup asked] /\ x.phase = "delay"
  BY <1>1 DEF clusterRequestFailoverAuth, ClusType
<1>3. x.cur \in Nat /\ x.vote \in Nat /\ x.epoch \in Nat /\ x.epoch <= x.cur /\ x.vote <= x.cur
  BY <1>1 DEF Sane, NodeType
<1>4. x.cur + 1 \in Nat
  BY <1>3
<1>5. /\ w \in NodeType /\ w.phase = "sent" /\ w.count = x.count /\ w.cur = x.cur + 1 /\ w.vote = x.vote
      /\ w.epoch = x.cur + 1 /\ w.disk = x.disk
  BY <1>1, <1>4, Zenon DEF NodeType
<1>6. Sane(w)
  BY <1>1, <1>5, <1>3 DEF Sane
<1> HIDE DEF w
<1>7. News(w, y)
  BY <1>6, SaveNews, Zenon
<1>8. y.cur = w.cur
  BY <1>5 DEF Save, NodeType
<1> HIDE DEF y
<1>9. /\ Sane(y) /\ y \in NodeType /\ y.phase = "sent" /\ y.count = x.count /\ y.vote = x.vote /\ y.epoch = x.cur + 1
      /\ y.cur = x.cur + 1
  BY <1>5, <1>7, <1>8 DEF News, Sane
<1>10. h \in HdrType /\ h.from = n /\ h.cur = x.cur + 1
  <2>1. clusterBuildMessageHdr(n) \in HdrType /\ clusterBuildMessageHdr(n).from = n
    BY <1>1, HeaderType, Zenon
  <2> QED
    BY <1>3, <1>9, <2>1 DEF HdrType
<1> HIDE DEF h
<1>11. asked \subseteq RequestType /\ \A p \in asked : p.type = "request" /\ p.hdr = h
  BY <1>10 DEF RequestType
<1> HIDE DEF asked
<1>12. /\ clus' \in ClusType /\ clus'.node[n] = y /\ \A k \in Nodes \ {n} : clus'.node[k] = clus.node[k]
       /\ clus'.msgs = clus.msgs \cup asked /\ clus'.won = clus.won
       /\ clus'.late = clus.late /\ clus'.forgot = clus.forgot /\ clus'.scene = clus.scene
  BY <1>1, <1>2, <1>9, <1>11, Zenon DEF ClusType
<1>13. n \notin Voters
  BY ClusterAssumption DEF Serving
<1>14. \A k \in Nodes : /\ clus'.node[k].epoch >= clus.node[k].epoch /\ clus'.node[k].vote = clus.node[k].vote
                        /\ clus'.node[k].epoch \in Nat /\ clus.node[k].epoch \in Nat /\ clus.node[k].vote \in Nat
  <2> SUFFICES ASSUME NEW k \in Nodes
               PROVE  /\ clus'.node[k].epoch >= clus.node[k].epoch /\ clus'.node[k].vote = clus.node[k].vote
                      /\ clus'.node[k].epoch \in Nat /\ clus.node[k].epoch \in Nat /\ clus.node[k].vote \in Nat
    OBVIOUS
  <2>1. CASE k = n
    BY <1>3, <1>4, <1>9, <1>12, <2>1
  <2>2. CASE k # n
    <3>1. clus.node[k].epoch \in Nat /\ clus.node[k].vote \in Nat
      BY <1>1 DEF ClusType, NodeType
    <3> QED
      BY <1>12, <2>2, <3>1
  <2> QED
    BY <2>1, <2>2
<1>15. Types'
  <2>1. \A k \in Nodes : Sane(clus'.node[k])
    BY <1>9, <1>12 DEF Types, ClusType
  <2>2. \A v \in Voters : /\ clus'.node[v].epoch = 0
                          /\ clus'.node[v].disk = <<>> => clus'.scene.reboots = 0
    BY <1>12, <1>13 DEF Types, ClusType, Nodes
  <2>3. ASSUME NEW p \in clus'.msgs, p.type = "request"
        PROVE  p.hdr.from \in Candidates /\ p.hdr.cur <= clus'.node[p.hdr.from].epoch
    <3>1. CASE p \in asked
      BY <1>3, <1>9, <1>10, <1>11, <1>12, <3>1
    <3>2. CASE p \in clus.msgs
      <4>1. p \in RequestType
        BY <2>3, <3>2 DEF Types, ClusType, AckType
      <4>2. p.hdr.from \in Candidates /\ p.hdr.from \in Nodes /\ p.hdr.cur \in Nat /\ p.hdr.cur <= clus.node[p.hdr.from].epoch
        BY <2>3, <3>2, <4>1 DEF Types, ClusType, RequestType, HdrType
      <4> QED
        BY <1>14, <4>2
    <3> QED
      BY <1>12, <3>1, <3>2
  <2> QED
    BY <1>12, <2>1, <2>2, <2>3 DEF Types, ClusType
<1>16. ASSUME NEW cast \in SUBSET (Voters \X Nat \X Candidates), Votes(cast)
       PROVE  Votes(cast)'
  <2>1. clus'.node[n].count = 0
    BY <1>2, <1>9, <1>12, <1>16 DEF Votes
  <2>2. \A p \in clus'.msgs : p.type = "ack" => p \in clus.msgs
    BY <1>11, <1>12
  <2>3. \A k \in Nodes : clus'.node[k].vote >= clus.node[k].vote
    BY <1>14
  <2> QED
    BY <1>12, <1>14, <1>15, <1>16, <2>1, <2>2, <2>3, VotesKept, Zenon DEF Nodes, Serving
<1> QED
  BY <1>12, <1>15, <1>16, ElectionKept, Zenon

\* A winner has the votes of a quorum.
LEMMA ReplaceStep ==
  ASSUME Types, ElectionInv, NEW n \in Candidates, clusterFailoverReplaceYourMaster(n)
  PROVE  Types' /\ ElectionInv'
<1>1. n \in Nodes /\ n \in Serving /\ clus \in ClusType /\ clus.node[n] \in NodeType /\ Sane(clus.node[n])
  BY DEF Types, ClusType, Nodes, Serving
<1> DEFINE x == clus.node[n]
           top == Max({x.conf[n], x.epoch})
           w == [x EXCEPT !.conf[n] = top, !.of[n] = Nobody, !.owner = n, !.phase = "none"]
           y == Save(w)
<1>2. /\ clus' = [clus EXCEPT !.won = clus.won \cup {<<n, x.epoch>>}, !.node[n] = y]
      /\ x.phase = "sent" /\ x.count >= needed_quorum
  BY <1>1 DEF clusterFailoverReplaceYourMaster, ClusType, NodeType
<1>3. x.epoch \in Nat /\ x.vote \in Nat /\ x.cur \in Nat /\ x.count \in Nat /\ x.conf[n] \in Nat
  BY <1>1 DEF NodeType
<1>4. top \in Nat
  BY <1>3, MaxOfTwo, Zenon
<1> HIDE DEF top
<1>5. /\ w \in NodeType /\ w.phase = "none" /\ w.count = x.count /\ w.cur = x.cur /\ w.vote = x.vote
      /\ w.epoch = x.epoch /\ w.disk = x.disk
  BY <1>1, <1>4, Zenon DEF NodeType, Known
<1>6. Sane(w)
  BY <1>1, <1>5 DEF Sane
<1> HIDE DEF w
<1>7. News(w, y)
  BY <1>6, SaveNews, Zenon
<1> HIDE DEF y
<1>8. /\ Sane(y) /\ y \in NodeType /\ y.phase = "none" /\ y.count = x.count /\ y.vote = x.vote /\ y.epoch = x.epoch
  BY <1>5, <1>7 DEF News, Sane
<1>9. /\ clus' \in ClusType /\ clus'.node[n] = y /\ \A k \in Nodes \ {n} : clus'.node[k] = clus.node[k]
      /\ clus'.msgs = clus.msgs /\ clus'.won = clus.won \cup {<<n, x.epoch>>}
      /\ clus'.late = clus.late /\ clus'.forgot = clus.forgot /\ clus'.scene = clus.scene
  <2>1. clus.won \cup {<<n, x.epoch>>} \in SUBSET (Candidates \X Nat)
    BY <1>1, <1>3 DEF ClusType
  <2>2. PICK won \in SUBSET (Candidates \X Nat) : won = clus.won \cup {<<n, x.epoch>>}
    BY <2>1, Zenon
  <2>3. clus' = [clus EXCEPT !.won = won, !.node[n] = y]
    BY <1>2, <2>2
  <2> QED
    BY <1>1, <1>8, <2>2, <2>3, Zenon DEF ClusType
<1>10. n \notin Voters
  BY ClusterAssumption DEF Serving
<1>11. \A k \in Nodes : clus'.node[k].epoch = clus.node[k].epoch /\ clus'.node[k].vote = clus.node[k].vote
                        /\ clus'.node[k].count = clus.node[k].count
  BY <1>8, <1>9
<1>12. Types'
  <2>1. \A k \in Nodes : Sane(clus'.node[k])
    BY <1>8, <1>9 DEF Types
  <2>2. \A v \in Voters : /\ clus'.node[v].epoch = 0
                          /\ clus'.node[v].disk = <<>> => clus'.scene.reboots = 0
    BY <1>9, <1>10 DEF Types, Nodes
  <2> QED
    BY <1>9, <1>11, <2>1, <2>2 DEF Types, Nodes, Serving
<1>13. ASSUME NEW cast \in SUBSET (Voters \X Nat \X Candidates), Votes(cast)
       PROVE  Votes(cast)'
  <2>1. needed_quorum <= Cardinality(VotersOf(cast, n, x.epoch))
    <3>1. x.count <= Cardinality(Arrived(cast, n))
      BY <1>2, <1>13 DEF Votes
    <3>2. Arrived(cast, n) \subseteq VotersOf(cast, n, x.epoch) /\ IsFiniteSet(VotersOf(cast, n, x.epoch))
      BY ClusterAssumption, FS_Subset, Zenon DEF Arrived, VotersOf
    <3>3. /\ Cardinality(Arrived(cast, n)) <= Cardinality(VotersOf(cast, n, x.epoch))
          /\ Cardinality(Arrived(cast, n)) \in Nat /\ Cardinality(VotersOf(cast, n, x.epoch)) \in Nat
      BY <3>2, FS_Subset, FS_CardinalityType
    <3>4. needed_quorum \in Int
      BY ClusterAssumption, FS_CardinalityType DEF needed_quorum
    <3> QED
      BY <1>2, <1>3, <3>1, <3>3, <3>4
  <2>2. \A m \in Candidates, e \in Nat : <<m, e>> \in clus'.won =>
          <<m, e>> \in clus.won \/ needed_quorum <= Cardinality(VotersOf(cast, m, e))
    BY <1>9, <2>1
  <2>3. \A k \in Nodes : clus'.node[k].vote >= clus.node[k].vote /\ clus'.node[k].epoch >= clus.node[k].epoch
    BY <1>1, <1>11 DEF ClusType, NodeType
  <2>4. \A m \in Candidates : clus'.node[m].phase = "delay" <=> clus.node[m].phase = "delay"
    BY <1>2, <1>8, <1>9 DEF Nodes, Serving
  <2> QED
    BY <1>9, <1>11, <1>12, <1>13, <2>2, <2>3, <2>4, VotesKept, Zenon DEF Nodes, Serving
<1> QED
  BY <1>9, <1>12, <1>13, ElectionKept, Zenon

\* A voter that reboots has the vote it has on disk, which it forgot or not.
LEMMA RebootStep ==
  ASSUME Types, ElectionInv, NEW v \in Voters, Reboot(v)
  PROVE  Types' /\ ElectionInv'
<1> DEFINE x == clus.node[v]
           all == {x.disk[1]} \cup {x.conf[m] : m \in Serving}
           y == [x EXCEPT !.cur = Max(all), !.vote = x.disk[2]]
           gone == x.vote # x.disk[2]
<1>1. v \in Nodes /\ clus \in ClusType /\ x \in NodeType /\ Sane(x) /\ x.epoch = 0
  BY DEF Types, ClusType, Nodes
<1>2. clus.reboots \in Nat /\ clus.reboots < clus.scene.reboots
  BY <1>1 DEF Reboot, ClusType
<1>3. x.disk # <<>>
  BY <1>2 DEF Types
<1>4. x.disk \in Nat \X Nat /\ x.disk[1] \in Nat /\ x.disk[2] \in Nat /\ x.disk[2] <= x.disk[1]
  BY <1>1, <1>3 DEF Sane, NodeType
<1>5. Max(all) \in Nat /\ Max(all) >= x.disk[1]
  <2>1. x.conf \in [Serving -> Nat]
    BY <1>1 DEF NodeType
  <2>2. all \in SUBSET Nat /\ all # {} /\ x.disk[1] \in all
    BY <1>4, <2>1
  <2>3. IsFiniteSet(Serving)
    BY ClusterAssumption, FS_Singleton, FS_Union, Zenon DEF Serving
  <2>4. IsFiniteSet({x.conf[m] : m \in Serving})
    <3>1. PICK T : T = {x.conf[m] : m \in Serving}
      BY Zenon
    <3>2. x.conf \in Surjection(Serving, T)
      BY <2>1, <3>1 DEF Surjection
    <3> QED
      BY <2>3, <3>1, <3>2, FS_Surjection
  <2>5. IsFiniteSet(all)
    BY <2>4, FS_Singleton, FS_Union, Zenon
  <2> HIDE DEF all
  <2> QED
    BY <2>2, <2>5, MaxOf, Zenon
<1> HIDE DEF all
<1>6. /\ y \in NodeType /\ y.cur = Max(all) /\ y.vote = x.disk[2] /\ y.epoch = 0 /\ y.disk = x.disk
  BY <1>1, <1>4, <1>5, Zenon DEF NodeType
<1>7. Sane(y)
  BY <1>4, <1>5, <1>6 DEF Sane
<1>8. clus' = [clus EXCEPT !.reboots = clus.reboots + 1, !.forgot = clus.forgot \/ gone, !.node[v] = y]
  BY DEF Reboot, all
<1> HIDE DEF y
<1>9. (clus.forgot \/ gone) \in BOOLEAN
  BY <1>1 DEF ClusType
<1>10. PICK fg \in BOOLEAN : /\ fg <=> clus.forgot \/ gone
                             /\ clus' = [clus EXCEPT !.reboots = clus.reboots + 1, !.forgot = fg, !.node[v] = y]
  BY <1>8, <1>9, Zenon
<1>11. /\ clus' \in ClusType /\ clus'.node[v] = y /\ \A k \in Nodes \ {v} : clus'.node[k] = clus.node[k]
       /\ clus'.msgs = clus.msgs /\ clus'.won = clus.won
       /\ clus'.late = clus.late /\ clus'.forgot = fg /\ clus'.scene = clus.scene
  <2>1. PICK again \in Nat : again = clus.reboots + 1
    BY <1>2
  <2>2. clus' = [clus EXCEPT !.reboots = again, !.forgot = fg, !.node[v] = y]
    BY <1>10, <2>1
  <2> QED
    BY <1>1, <1>6, <2>2, Zenon DEF ClusType
<1>12. \A n \in Candidates : n \in Nodes /\ n # v /\ clus'.node[n] = clus.node[n]
  BY <1>11, ClusterAssumption DEF Nodes, Serving
<1>13. Types'
  <2>1. \A k \in Nodes : Sane(clus'.node[k]) /\ clus'.node[k].epoch = clus.node[k].epoch
                         /\ clus'.node[k].disk = clus.node[k].disk
    BY <1>1, <1>6, <1>7, <1>11 DEF Types
  <2> QED
    BY <1>11, <1>12, <2>1 DEF Types, Nodes
<1>14. ASSUME NEW cast \in SUBSET (Voters \X Nat \X Candidates), Votes(cast), ~gone
       PROVE  Votes(cast)'
  <2>1. \A k \in Nodes : /\ clus'.node[k].vote = clus.node[k].vote
                         /\ clus.node[k].vote \in Nat /\ clus.node[k].epoch \in Nat
    BY <1>1, <1>6, <1>11, <1>14, Zenon DEF ClusType, NodeType
  <2>2. \A k \in Voters : clus'.node[k].vote >= clus.node[k].vote
    BY <2>1 DEF Nodes
  <2>3. \A n \in Candidates : clus'.node[n].epoch >= clus.node[n].epoch
    BY <1>12, <2>1
  <2> QED
    BY <1>11, <1>12, <1>13, <1>14, <2>2, <2>3, VotesKept, Zenon
<1>15. clus.forgot => clus'.forgot
  BY <1>10, <1>11
<1>16. gone => clus'.forgot
  BY <1>10, <1>11
<1> QED
  BY <1>11, <1>13, <1>14, <1>15, <1>16, ElectionKept, Zenon

-----------------------------------------------------------------------------
\* A vote is cast

\* A vote in an epoch above the voter's last one is added to the history.
LEMMA VoteCast ==
  ASSUME Types, Types', NEW cast \in SUBSET (Voters \X Nat \X Candidates), Votes(cast),
         NEW v \in Voters, NEW e \in Nat, NEW n \in Candidates,
         clus.node[v].vote < e, clus'.node[v].vote = e, e <= clus.node[n].epoch,
         \A w \in Voters \ {v} : clus'.node[w] = clus.node[w],
         \A m \in Candidates : clus'.node[m] = clus.node[m],
         \A p \in clus'.msgs : p.type = "ack" =>
           p \in clus.msgs \/ p = [type |-> "ack", to |-> n, from |-> v, cur |-> e],
         clus'.won = clus.won
  PROVE  Votes(cast \cup {<<v, e, n>>})'
<1> DEFINE new == cast \cup {<<v, e, n>>}
<1>1. \A m \in Candidates : m \in Nodes
  BY Zenon DEF Nodes, Serving
<1>2. \A w \in Voters : w \in Nodes /\ clus.node[w].vote \in Nat
  BY DEF Nodes, Types, ClusType, NodeType
<1>3. \A m \in Candidates : <<v, e, m>> \notin cast
  BY <1>2 DEF Votes
<1>4. \A w \in Voters, k \in Nat, m, q \in Candidates : <<w, k, m>> \in new /\ <<w, k, q>> \in new => m = q
  BY <1>3 DEF Votes
<1>5. ASSUME NEW w \in Voters, NEW k \in Nat, NEW m \in Candidates, <<w, k, m>> \in new
      PROVE  k <= clus'.node[w].vote
  <2>1. CASE w = v
    <3>1. k <= e
      BY <1>2, <1>5, <2>1 DEF Votes
    <3> QED
      BY <2>1, <3>1, Zenon
  <2>2. CASE w # v
    BY <1>5, <2>2 DEF Votes
  <2> QED
    BY <2>1, <2>2
<1>6. \A p \in clus'.msgs : p.type = "ack" => <<p.from, p.cur, p.to>> \in new /\ p.cur <= clus'.node[p.to].epoch
  <2> SUFFICES ASSUME NEW p \in clus'.msgs, p.type = "ack"
               PROVE  <<p.from, p.cur, p.to>> \in new /\ p.cur <= clus'.node[p.to].epoch
    BY Zenon
  <2>1. p.to \in Candidates
    BY Zenon DEF Types, ClusType, RequestType, AckType
  <2>2. CASE p \in clus.msgs
    BY <2>1, <2>2 DEF Votes
  <2>3. CASE p = [type |-> "ack", to |-> n, from |-> v, cur |-> e]
    BY <2>3
  <2> QED
    BY <2>2, <2>3
<1>7. \A m \in Candidates, k \in Nat : VotersOf(cast, m, k) \subseteq VotersOf(new, m, k)
  BY DEF VotersOf
<1>8. \A m \in Candidates : Arrived(cast, m) \subseteq Arrived(new, m)'
  <2> SUFFICES ASSUME NEW m \in Candidates, NEW w \in Arrived(cast, m) PROVE w \in Arrived(new, m)'
    BY Zenon
  <2>1. clus.node[m].epoch \in Nat /\ clus'.node[m].epoch = clus.node[m].epoch
    BY <1>1 DEF Types, ClusType, NodeType
  <2>2. PICK k \in Nat : k = clus.node[m].epoch /\ k = clus'.node[m].epoch
    BY <2>1
  <2>3. w \in Voters /\ <<w, k, m>> \in cast /\ [type |-> "ack", to |-> m, from |-> w, cur |-> k] \notin clus.msgs
    BY <2>2 DEF Arrived, VotersOf
  <2>4. [type |-> "ack", to |-> m, from |-> w, cur |-> k] # [type |-> "ack", to |-> n, from |-> v, cur |-> e]
    <3> SUFFICES ASSUME [type |-> "ack", to |-> m, from |-> w, cur |-> k] = [type |-> "ack", to |-> n, from |-> v, cur |-> e]
                 PROVE  FALSE
      OBVIOUS
    <3>1. w = v /\ k = e
      OBVIOUS
    <3> QED
      BY <1>3, <2>3, <3>1
  <2>5. [type |-> "ack", to |-> m, from |-> w, cur |-> k] \notin clus'.msgs
    BY <2>3, <2>4, Zenon
  <2> QED
    BY <2>2, <2>3, <2>5 DEF Arrived, VotersOf
<1>9. ASSUME NEW m \in Candidates
      PROVE  IF clus'.node[m].phase = "delay" THEN clus'.node[m].count = 0
             ELSE clus'.node[m].count <= Cardinality(Arrived(new, m)')
  <2>1. IsFiniteSet(Arrived(new, m)')
    BY ClusterAssumption, FS_Subset, Zenon DEF Arrived, VotersOf
  <2>2. /\ Cardinality(Arrived(cast, m)) <= Cardinality(Arrived(new, m)')
        /\ Cardinality(Arrived(cast, m)) \in Nat /\ Cardinality(Arrived(new, m)') \in Nat
    BY <1>8, <2>1, FS_Subset, FS_CardinalityType, Zenon
  <2>3. clus.node[m].count \in Nat
    BY <1>1 DEF Types, ClusType, NodeType
  <2> QED
    BY <2>2, <2>3 DEF Votes
<1>10. ASSUME NEW m \in Candidates, NEW k \in Nat, <<m, k>> \in clus.won
       PROVE  needed_quorum <= Cardinality(VotersOf(new, m, k))
  <2>1. IsFiniteSet(VotersOf(new, m, k))
    BY ClusterAssumption, FS_Subset, Zenon DEF VotersOf
  <2>2. /\ Cardinality(VotersOf(cast, m, k)) <= Cardinality(VotersOf(new, m, k))
        /\ Cardinality(VotersOf(cast, m, k)) \in Nat /\ Cardinality(VotersOf(new, m, k)) \in Nat
    BY <1>7, <2>1, FS_Subset, FS_CardinalityType, ZenonT(60)
  <2>3. needed_quorum \in Int /\ needed_quorum <= Cardinality(VotersOf(cast, m, k))
    BY <1>10, ClusterAssumption, FS_CardinalityType DEF Votes, needed_quorum
  <2> QED
    BY <2>2, <2>3
<1> HIDE DEF new
<1>11. Votes(new)'
  BY <1>4, <1>5, <1>6, <1>9, <1>10 DEF Votes, VotersOf, needed_quorum
<1> QED
  BY <1>11 DEF new

\* A voter grants its vote in an epoch that is new to it, or refuses.
LEMMA AuthStep ==
  ASSUME Types, ElectionInv, NEW p \in clus.msgs, clusterSendFailoverAuthIfNeeded(p)
  PROVE  Types' /\ ElectionInv'
<1>1. PICK v \in Voters : v = p.to
  BY DEF clusterSendFailoverAuthIfNeeded, Types, ClusType, RequestType, AckType
<1>2. PICK n \in Candidates : n = p.hdr.from
  BY DEF clusterSendFailoverAuthIfNeeded, Types
<1>3. p \in RequestType /\ p.hdr \in HdrType /\ p.type = "request" /\ p.hdr.cur \in Nat
  BY DEF clusterSendFailoverAuthIfNeeded, Types, ClusType, RequestType, AckType, HdrType
<1>4. v \in Nodes /\ n \in Nodes /\ v # n /\ clus \in ClusType /\ Sane(clus.node[v]) /\ clus.node[v] \in NodeType
  BY ClusterAssumption DEF Types, ClusType, Nodes, Serving
<1> DEFINE x == SeenEpochs(clus.node[v], p.hdr)
           y == [x EXCEPT !.vote = x.cur]
           rest == clus.msgs \ {p}
           ack == [type |-> "ack", to |-> n, from |-> v, cur |-> x.cur]
<1>5. \/ Grants(x, p) /\ clus' = [clus EXCEPT !.msgs = rest \cup {ack}, !.node[v] = y]
      \/ clus' = [clus EXCEPT !.msgs = rest, !.node[v] = x]
  BY <1>1, <1>2 DEF clusterSendFailoverAuthIfNeeded
<1>6. News(clus.node[v], x) /\ x.cur >= p.hdr.cur
  BY <1>3, <1>4, SeenEpochsNews, Zenon
<1>7. Grants(x, p) => p.hdr.cur >= x.cur /\ x.vote # x.cur
  BY Zenon DEF Grants
<1> HIDE DEF x
<1>8. /\ x \in NodeType /\ Sane(x) /\ x.vote = clus.node[v].vote /\ x.cur \in Nat /\ x.vote \in Nat /\ x.vote <= x.cur
      /\ x.epoch = 0 /\ (x.disk = <<>> => clus.scene.reboots = 0)
  BY <1>6 DEF News, Sane, NodeType, Types
<1>9. y \in NodeType /\ Sane(y) /\ y.vote = x.cur /\ y.epoch = 0 /\ y.disk = x.disk
  <2>1. y \in NodeType /\ y.vote = x.cur /\ y.epoch = x.epoch /\ y.disk = x.disk /\ y.cur = x.cur
    BY <1>8, Zenon DEF NodeType
  <2> QED
    BY <1>8, <2>1 DEF Sane
<1> HIDE DEF y
<1>10. rest \in SUBSET (RequestType \cup AckType) /\ ack \in AckType /\ rest \cup {ack} \in SUBSET (RequestType \cup AckType)
  BY <1>4, <1>8 DEF ClusType, AckType
<1>11. ack.type = "ack"
  OBVIOUS
<1>12. ASSUME NEW z \in NodeType, Sane(z), z.epoch = 0, z.disk = <<>> => clus.scene.reboots = 0,
              NEW msgs \in SUBSET (RequestType \cup AckType), \A q \in msgs : q.type = "request" => q \in clus.msgs,
              clus' = [clus EXCEPT !.msgs = msgs, !.node[v] = z]
       PROVE  /\ Types' /\ clus'.msgs = msgs /\ clus'.node[v] = z /\ clus'.won = clus.won
              /\ clus'.late = clus.late /\ clus'.forgot = clus.forgot
              /\ \A k \in Nodes \ {v} : clus'.node[k] = clus.node[k]
  <2>1. /\ clus' \in ClusType /\ clus'.msgs = msgs /\ clus'.node[v] = z /\ clus'.won = clus.won
        /\ clus'.late = clus.late /\ clus'.forgot = clus.forgot /\ clus'.scene = clus.scene
        /\ \A k \in Nodes \ {v} : clus'.node[k] = clus.node[k]
    BY <1>4, <1>12, Zenon DEF ClusType
  <2>2. \A k \in Nodes : Sane(clus'.node[k])
    BY <1>12, <2>1 DEF Types
  <2>3. \A w \in Voters : /\ clus'.node[w].epoch = 0
                          /\ clus'.node[w].disk = <<>> => clus'.scene.reboots = 0
    BY <1>12, <2>1 DEF Types, Nodes
  <2>4. \A m \in Candidates : m \in Nodes \ {v}
    BY ClusterAssumption DEF Nodes, Serving
  <2>5. \A q \in clus'.msgs : q.type = "request" =>
          q.hdr.from \in Candidates /\ q.hdr.cur <= clus'.node[q.hdr.from].epoch
    BY <1>12, <2>1, <2>4 DEF Types
  <2> QED
    BY <2>1, <2>2, <2>3, <2>5 DEF Types
<1>13. CASE Grants(x, p) /\ clus' = [clus EXCEPT !.msgs = rest \cup {ack}, !.node[v] = y]
  <2>1. /\ Types' /\ clus'.msgs = rest \cup {ack} /\ clus'.node[v] = y /\ clus'.won = clus.won
        /\ clus'.late = clus.late /\ clus'.forgot = clus.forgot
        /\ \A k \in Nodes \ {v} : clus'.node[k] = clus.node[k]
    BY <1>8, <1>9, <1>10, <1>11, <1>12, <1>13, Zenon
  <2>2. x.cur = p.hdr.cur /\ x.vote < x.cur
    BY <1>3, <1>6, <1>7, <1>8, <1>13
  <2>3. PICK e \in Nat : e = x.cur
    BY <1>8
  <2>4. e <= clus.node[n].epoch
    BY <1>2, <1>3, <2>2, <2>3 DEF Types
  <2>5. \A m \in Candidates : m \in Nodes \ {v}
    BY ClusterAssumption DEF Nodes, Serving
  <2>6. \A w \in Voters \ {v} : w \in Nodes \ {v}
    BY DEF Nodes
  <2>7. \A q \in clus'.msgs : q.type = "ack" =>
          q \in clus.msgs \/ q = [type |-> "ack", to |-> n, from |-> v, cur |-> e]
    BY <2>1, <2>3
  <2>8. ASSUME NEW cast \in SUBSET (Voters \X Nat \X Candidates), Votes(cast)
        PROVE  Votes(cast \cup {<<v, e, n>>})'
    BY <1>8, <1>9, <2>1, <2>2, <2>3, <2>4, <2>5, <2>6, <2>7, <2>8, VoteCast, Zenon
  <2>9. \A cast \in SUBSET (Voters \X Nat \X Candidates) :
          cast \cup {<<v, e, n>>} \in SUBSET (Voters \X Nat \X Candidates)
    OBVIOUS
  <2> QED
    BY <2>1, <2>8, <2>9, ElectionKept, ZenonT(60)
<1>14. CASE clus' = [clus EXCEPT !.msgs = rest, !.node[v] = x]
  <2>1. /\ Types' /\ clus'.msgs = rest /\ clus'.node[v] = x /\ clus'.won = clus.won
        /\ clus'.late = clus.late /\ clus'.forgot = clus.forgot
        /\ \A k \in Nodes \ {v} : clus'.node[k] = clus.node[k]
    BY <1>8, <1>10, <1>12, <1>14, ZenonT(60)
  <2>2. \A m \in Candidates : clus'.node[m] = clus.node[m] /\ clus.node[m].epoch \in Nat
    BY <2>1, ClusterAssumption, ZenonT(60) DEF Nodes, Serving, Types, ClusType, NodeType
  <2>3. \A w \in Voters : clus'.node[w].vote = clus.node[w].vote /\ clus.node[w].vote \in Nat
    BY <1>8, <2>1, Zenon DEF Nodes, Types, ClusType, NodeType
  <2>4. ASSUME NEW cast \in SUBSET (Voters \X Nat \X Candidates), Votes(cast)
        PROVE  Votes(cast)'
    <3>1. \A w \in Voters : clus'.node[w].vote >= clus.node[w].vote
      BY <2>3
    <3>2. \A m \in Candidates : clus'.node[m].epoch >= clus.node[m].epoch
      BY <2>2
    <3> QED
      BY <2>1, <2>2, <2>4, <3>1, <3>2, VotesKept, Zenon
  <2> QED
    BY <2>1, <2>4, ElectionKept, Zenon
<1> QED
  BY <1>5, <1>13, <1>14

\* A vote is counted in the epoch it was cast in, or one that is late is noticed.
LEMMA AckStep ==
  ASSUME Types, ElectionInv, NEW p \in clus.msgs, ProcessAck(p)
  PROVE  Types' /\ ElectionInv'
<1>1. p.type = "ack" /\ p \in AckType
  BY DEF ProcessAck, Types, ClusType, RequestType
<1>2. PICK n \in Candidates : n = p.to
  BY <1>1 DEF AckType
<1>3. PICK v \in Voters : v = p.from
  BY <1>1 DEF AckType
<1>4. n \in Nodes /\ n \notin Voters /\ clus \in ClusType /\ Sane(clus.node[n]) /\ clus.node[n] \in NodeType /\ p.cur \in Nat
  BY <1>1, ClusterAssumption DEF Types, ClusType, Nodes, Serving, AckType
<1> DEFINE x == clus.node[n]
           top == Max({x.cur, p.cur})
           counts == p.cur >= x.epoch
           y == [x EXCEPT !.cur = top]
           z == IF counts THEN [y EXCEPT !.count = y.count + 1] ELSE y
           rest == clus.msgs \ {p}
           toolate == counts /\ x.phase = "delay"
<1>5. clus' = [clus EXCEPT !.msgs = rest, !.node[n] = z, !.late = clus.late \/ toolate]
  BY <1>2, Zenon DEF ProcessAck
<1>6. x.cur \in Nat /\ x.count \in Nat /\ x.vote \in Nat /\ x.epoch \in Nat /\ x.vote <= x.cur /\ x.epoch <= x.cur
  BY <1>4 DEF Sane, NodeType
<1>7. top \in Nat /\ top >= x.cur
  BY <1>4, <1>6, MaxOfTwo, Zenon
<1> HIDE DEF top
<1>8. /\ y \in NodeType /\ y.count = x.count /\ y.cur = top /\ y.vote = x.vote /\ y.epoch = x.epoch
      /\ y.disk = x.disk /\ y.phase = x.phase
  BY <1>4, <1>7, Zenon DEF NodeType
<1> HIDE DEF y
<1>9. PICK c \in Nat : c = x.count + 1
  BY <1>6
<1>10. /\ z \in NodeType /\ z.count = (IF counts THEN x.count + 1 ELSE x.count) /\ z.cur = top /\ z.vote = x.vote
       /\ z.epoch = x.epoch /\ z.disk = x.disk /\ z.phase = x.phase
  <2>1. CASE counts
    <3>1. z = [y EXCEPT !.count = c]
      BY <1>8, <1>9, <2>1
    <3> HIDE DEF z
    <3> QED
      BY <1>8, <1>9, <2>1, <3>1, Zenon DEF NodeType
  <2>2. CASE ~counts
    BY <1>8, <2>2, Zenon
  <2> QED
    BY <2>1, <2>2
<1> HIDE DEF z
<1>11. Sane(z)
  BY <1>4, <1>6, <1>7, <1>10 DEF Sane
<1>12. PICK lt \in BOOLEAN : /\ lt <=> clus.late \/ toolate
                             /\ clus' = [clus EXCEPT !.msgs = rest, !.node[n] = z, !.late = lt]
  <2>1. (clus.late \/ toolate) \in BOOLEAN
    BY <1>4 DEF ClusType
  <2> QED
    BY <1>5, <2>1, Zenon
<1>13. rest \in SUBSET (RequestType \cup AckType)
  BY <1>4 DEF ClusType
<1>14. /\ clus' \in ClusType /\ clus'.node[n] = z /\ \A k \in Nodes \ {n} : clus'.node[k] = clus.node[k]
       /\ clus'.msgs = rest /\ clus'.won = clus.won
       /\ clus'.late = lt /\ clus'.forgot = clus.forgot /\ clus'.scene = clus.scene
  BY <1>4, <1>10, <1>12, <1>13, Zenon DEF ClusType
<1>15. \A k \in Nodes : /\ clus'.node[k].epoch = clus.node[k].epoch /\ clus'.node[k].vote = clus.node[k].vote
                        /\ clus'.node[k].phase = clus.node[k].phase /\ clus'.node[k].disk = clus.node[k].disk
                        /\ Sane(clus'.node[k])
  BY <1>10, <1>11, <1>14, Zenon DEF Types
<1>16. Types'
  BY <1>14, <1>15, Zenon DEF Types, Nodes, Serving
<1>17. \A k \in Nodes : /\ clus.node[k].vote \in Nat /\ clus.node[k].epoch \in Nat
                        /\ clus'.node[k].vote >= clus.node[k].vote /\ clus'.node[k].epoch >= clus.node[k].epoch
  <2>1. \A k \in Nodes : clus.node[k].vote \in Nat /\ clus.node[k].epoch \in Nat
    BY <1>4 DEF ClusType, NodeType
  <2> QED
    BY <1>15, <2>1
<1>18. CASE ~counts
  <2>1. ASSUME NEW cast \in SUBSET (Voters \X Nat \X Candidates), Votes(cast)
        PROVE  Votes(cast)'
    <3>1. \A m \in Candidates : /\ clus'.node[m].epoch = clus.node[m].epoch
                                /\ clus'.node[m].count = clus.node[m].count
                                /\ clus'.node[m].phase = clus.node[m].phase
      BY <1>10, <1>14, <1>15, <1>18 DEF Nodes, Serving
    <3> QED
      BY <1>14, <1>16, <1>17, <2>1, <3>1, VotesKept, Zenon DEF Nodes, Serving
  <2>2. clus.late => clus'.late
    BY <1>12, <1>14
  <2> QED
    BY <1>14, <1>16, <2>1, <2>2, ElectionKept, Zenon
<1>19. CASE toolate
  <2>1. clus'.late
    BY <1>12, <1>14, <1>19
  <2> QED
    BY <1>16, <2>1 DEF ElectionInv
<1>20. CASE counts /\ x.phase # "delay"
  <2>1. ASSUME NEW cast \in SUBSET (Voters \X Nat \X Candidates), Votes(cast)
        PROVE  Votes(cast)'
    <3>1. PICK e \in Nat : e = x.epoch /\ e = p.cur /\ e = clus'.node[n].epoch
      <4>1. p.cur <= x.epoch
        BY <1>1, <1>2, <2>1, Zenon DEF Votes
      <4> QED
        BY <1>4, <1>6, <1>10, <1>14, <1>20, <4>1
    <3>2. p = [type |-> "ack", to |-> n, from |-> v, cur |-> e]
      BY <1>1, <1>2, <1>3, <3>1, Zenon DEF AckType
    <3>3. v \notin Arrived(cast, n)
      BY <3>1, <3>2, Zenon DEF Arrived
    <3>4. v \in Arrived(cast, n)'
      <4>1. <<v, e, n>> \in cast
        BY <1>1, <1>2, <1>3, <2>1, <3>1, Zenon DEF Votes
      <4> QED
        BY <1>14, <3>1, <3>2, <4>1 DEF Arrived, VotersOf
    <3>5. \A m \in Candidates : Arrived(cast, m) \subseteq Arrived(cast, m)'
      BY <1>14, <1>15 DEF Arrived, Nodes, Serving
    <3>6. \A m \in Candidates : IsFiniteSet(Arrived(cast, m)') /\ IsFiniteSet(Arrived(cast, m))
      BY ClusterAssumption, FS_Subset, Zenon DEF Arrived, VotersOf
    <3>7. \A m \in Candidates : /\ Cardinality(Arrived(cast, m)) <= Cardinality(Arrived(cast, m)')
                                /\ Cardinality(Arrived(cast, m)) \in Nat /\ Cardinality(Arrived(cast, m)') \in Nat
      BY <3>5, <3>6, FS_Subset, FS_CardinalityType
    <3>8. Cardinality(Arrived(cast, n)) + 1 <= Cardinality(Arrived(cast, n)')
      <4>1. Arrived(cast, n) \cup {v} \subseteq Arrived(cast, n)'
        BY <3>4, <3>5
      <4>2. Cardinality(Arrived(cast, n) \cup {v}) = Cardinality(Arrived(cast, n)) + 1
        BY <3>3, <3>6, FS_AddElement, Zenon
      <4> QED
        BY <3>6, <4>1, <4>2, FS_Subset
    <3>9. ASSUME NEW m \in Candidates
          PROVE  IF clus'.node[m].phase = "delay" THEN clus'.node[m].count = 0
                 ELSE clus'.node[m].count <= Cardinality(Arrived(cast, m)')
      <4>1. CASE m = n
        <5>1. x.count <= Cardinality(Arrived(cast, n))
          BY <1>20, <2>1, Zenon DEF Votes
        <5> QED
          BY <1>6, <1>10, <1>14, <1>20, <3>7, <3>8, <4>1, <5>1
      <4>2. CASE m # n
        <5>1. clus'.node[m] = clus.node[m] /\ clus.node[m].count \in Nat
          BY <1>4, <1>14, <4>2, Zenon DEF Nodes, Serving, ClusType, NodeType
        <5> QED
          BY <2>1, <3>7, <5>1 DEF Votes
      <4> QED
        BY <4>1, <4>2, Zenon
    <3>10. \A w \in Voters, k \in Nat, m \in Candidates : <<w, k, m>> \in cast => k <= clus'.node[w].vote
      BY <1>15, <2>1, Zenon DEF Votes, Nodes
    <3>11. \A q \in clus'.msgs : q.type = "ack" => <<q.from, q.cur, q.to>> \in cast /\ q.cur <= clus'.node[q.to].epoch
      <4> SUFFICES ASSUME NEW q \in clus'.msgs, q.type = "ack"
                   PROVE  <<q.from, q.cur, q.to>> \in cast /\ q.cur <= clus'.node[q.to].epoch
        BY Zenon
      <4>1. q \in clus.msgs /\ q.to \in Nodes
        BY <1>14, Zenon DEF Types, ClusType, RequestType, AckType, Nodes, Serving
      <4> QED
        BY <1>15, <2>1, <4>1 DEF Votes
    <3>12. \A w \in Voters, k \in Nat, i, j \in Candidates : <<w, k, i>> \in cast /\ <<w, k, j>> \in cast => i = j
      BY <2>1, Zenon DEF Votes
    <3>13. \A m \in Candidates, k \in Nat : <<m, k>> \in clus'.won => needed_quorum <= Cardinality(VotersOf(cast, m, k))
      BY <1>14, <2>1 DEF Votes
    <3>14. \A m \in Candidates, k \in Nat : VotersOf(cast, m, k)' = VotersOf(cast, m, k)
      BY Zenon DEF VotersOf
    <3>15. needed_quorum' = needed_quorum
      BY DEF needed_quorum
    <3> QED
      BY <3>9, <3>10, <3>11, <3>12, <3>13, <3>14, <3>15, Zenon DEF Votes
  <2>2. clus.late => clus'.late
    BY <1>12, <1>14
  <2> QED
    BY <1>14, <1>16, <2>1, <2>2, ElectionKept, Zenon
<1> QED
  BY <1>18, <1>19, <1>20

-----------------------------------------------------------------------------
\* Every step keeps the history of votes.
LEMMA ElectionStep == Types /\ ElectionInv /\ [ClusterNext]_clusVars => Types' /\ ElectionInv'
<1> SUFFICES ASSUME Types, ElectionInv, [ClusterNext]_clusVars PROVE Types' /\ ElectionInv'
  OBVIOUS
<1>1. CASE UNCHANGED clusVars
  <2>1. clus' = clus
    BY <1>1, Zenon DEF clusVars
  <2>2. Types'
    BY <2>1, Zenon DEF Types
  <2>3. ASSUME NEW cast \in SUBSET (Voters \X Nat \X Candidates), Votes(cast)
        PROVE  Votes(cast)'
    BY <2>1, <2>3 DEF Votes, Arrived, VotersOf, needed_quorum
  <2> QED
    BY <2>1, <2>2, <2>3, ElectionKept, Zenon
<1>2. CASE ClusterNext
  BY <1>2, PingElection, AuthStep, AckStep, ScheduleStep, RequestStep, ReplaceStep, RebootStep, Zenon DEF ClusterNext
<1> QED
  BY <1>1, <1>2

\* No epoch has two winners, for any number of voters, slaves, epochs and
\* reboots, as long as no vote was counted after its election and no voter
\* forgot a vote: two winners would have a quorum each, the quorums have a
\* voter in common, and that voter votes once in an epoch.
THEOREM OneWinner == ClusterSpec => []WinnersShareNoEpoch
<1>1. ClusterInit => Types /\ ElectionInv
  BY InitElection, Zenon
<1>2. Types /\ ElectionInv /\ [ClusterNext]_clusVars => (Types /\ ElectionInv)'
  BY ElectionStep, Zenon
<1>3. Types /\ ElectionInv => WinnersShareNoEpoch
  <2> SUFFICES ASSUME Types, NEW cast \in SUBSET (Voters \X Nat \X Candidates), Votes(cast),
                      NEW a \in clus.won, NEW b \in clus.won, a[2] = b[2]
               PROVE  a[1] = b[1]
    BY DEF ElectionInv, WinnersShareNoEpoch, OneWinnerPerEpoch
  <2>1. clus.won \in SUBSET (Candidates \X Nat)
    BY DEF Types, ClusType
  <2>2. PICK n \in Candidates, e \in Nat : a = <<n, e>>
    BY <2>1
  <2>3. PICK m \in Candidates : b = <<m, e>>
    BY <2>1, <2>2
  <2>4. needed_quorum <= Cardinality(VotersOf(cast, n, e)) /\ needed_quorum <= Cardinality(VotersOf(cast, m, e))
    BY <2>2, <2>3, Zenon DEF Votes
  <2>5. PICK v \in Voters : v \in VotersOf(cast, n, e) /\ v \in VotersOf(cast, m, e)
    <3>1. VotersOf(cast, n, e) \in SUBSET Voters /\ VotersOf(cast, m, e) \in SUBSET Voters
      BY DEF VotersOf
    <3>2. VotersOf(cast, n, e) \cap VotersOf(cast, m, e) # {}
      BY <2>4, <3>1, QuorumsMeet, Zenon
    <3> QED
      BY <3>1, <3>2, Zenon
  <2>6. n = m
    BY <2>5 DEF VotersOf, Votes
  <2> QED
    BY <2>2, <2>3, <2>6
<1> QED
  BY <1>1, <1>2, <1>3, PTL DEF ClusterSpec
=============================================================================
