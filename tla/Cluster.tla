------------------------------ MODULE Cluster ------------------------------
(***************************************************************************)
(* Failover in a Redis cluster (cluster.c): the slaves of a master that is *)
(* flagged FAIL ask the other masters for votes, the winner takes the      *)
(* slots, and the nodes learn of it from the headers of the packets they   *)
(* exchange.  The slots of the failing master are one slot; the other      *)
(* masters keep theirs.  Every node has a view of the slot's owner, of the *)
(* roles and of the config epochs; a voter also has a configuration file.  *)
(***************************************************************************)
EXTENDS Integers, FiniteSetsExt

CONSTANTS Voters,              \* the masters that serve other slots
          Failing, Candidates, \* the IDs (numbers) of the master and its slaves
          Nobody,
          Scenes  \* bounds: the last epoch and the reboots of voters, and whether
                  \* the failing master is heard again

VARIABLE clus

clusVars == <<clus>>

Serving == {Failing} \cup Candidates
Nodes == Serving \cup Voters

ASSUME ClusterAssumption ==
  /\ IsFiniteSet(Voters) /\ IsFiniteSet(Candidates)
  /\ Voters \cap Serving = {} /\ Nobody \notin Nodes
  /\ Scenes \subseteq [back : BOOLEAN, epochs : Nat, reboots : Nat]

needed_quorum == (Cardinality(Voters) + 1) \div 2 + 1

ClusterInit ==
  \E scene \in Scenes :
  clus = [scene |-> scene, msgs |-> {}, won |-> {}, late |-> FALSE, forgot |-> FALSE, reboots |-> 0,
          node |-> [n \in Nodes |->
            [cur |-> 1, vote |-> 0,
             disk |-> IF n \in Voters /\ scene.reboots > 0 THEN <<1, 0>> ELSE <<>>,
             of |-> [m \in Serving |-> IF m = Failing THEN Nobody ELSE Failing],
             conf |-> [m \in Serving |-> IF m = n /\ m # Failing THEN 0 ELSE 1],
             owner |-> Failing, phase |-> "none", epoch |-> 0, count |-> 0]]]

IsMaster(x, n) == n \in Voters \/ x.of[n] = Nobody
MasterOf(x, n) == IF IsMaster(x, n) THEN n ELSE x.of[n]

\* clusterBuildMessageHdr: a slave sends the slots and the epoch of its master.
clusterBuildMessageHdr(n) ==
  LET x == clus.node[n]
      m == MasterOf(x, n)
  IN  [from |-> n, cur |-> x.cur, of |-> IF IsMaster(x, n) THEN Nobody ELSE m,
       conf |-> IF m \in Serving THEN x.conf[m] ELSE 0, slots |-> x.owner = m]

\* clusterSaveConfig, by clusterBeforeSleep; only the file of a voter that
\* may reboot is read again.
Save(x) == [x EXCEPT !.disk = IF @ = <<>> THEN @ ELSE <<x.cur, x.vote>>]

\* What any packet does to the epochs of a node that knows its sender.
SeenEpochs(x, h) ==
  LET y == [x EXCEPT !.cur = Max({@, h.cur})]
  IN  IF h.from \in Serving /\ h.conf > x.conf[h.from]
      THEN Save([y EXCEPT !.conf[h.from] = h.conf]) ELSE y

\* The sender is a master or a slave now.
SeenRole(x, h) ==
  IF x.of[h.from] = h.of THEN x
  ELSE Save([x EXCEPT !.of[h.from] = h.of,
               !.owner = IF h.of # Nobody /\ IsMaster(x, h.from) /\ @ = h.from
                         THEN Nobody ELSE @])

\* n rebinds the slot to a sender with a greater epoch, and follows it when its
\* own master is left without slots.
clusterUpdateSlotsConfigWith(x, n, sender, epoch) ==
  LET rebinds == /\ sender # n /\ x.owner # sender
                 /\ x.owner # Nobody => x.conf[x.owner] < epoch
      y == [x EXCEPT !.owner = sender]
  IN  IF ~rebinds THEN x
      ELSE Save(IF n \in Serving /\ x.owner = MasterOf(x, n)
                THEN [y EXCEPT !.of[n] = sender] ELSE y)

\* Two masters with one epoch keep it.
CollisionIgnored(x, n, h) == x

clusterHandleConfigEpochCollision(x, n, h) ==
  IF n \in Serving /\ IsMaster(x, n) /\ h.of = Nobody /\ h.conf = x.conf[n] /\ h.from > n
  THEN Save([x EXCEPT !.cur = @ + 1, !.conf[n] = x.cur + 1])
  ELSE x

\* clusterProcessPacket of a PING or a PONG of a node that serves the slot.
SeenConfig(x, n, h) ==
  LET role == SeenRole(x, h)
      dirty == (role.owner = MasterOf(role, h.from)) # h.slots
      slot == IF h.of = Nobody /\ dirty /\ h.slots
              THEN clusterUpdateSlotsConfigWith(role, n, h.from, h.conf) ELSE role
  IN  [node |-> clusterHandleConfigEpochCollision(slot, n, h),
       update |-> /\ dirty /\ h.slots /\ slot.owner \notin {h.from, Nobody}
                  /\ slot.conf[slot.owner] > h.conf]

\* An UPDATE packet of a node y about the owner it knows is processed by m.
ProcessUpdate(x, m, y) ==
  LET k == y.owner
      seen == [x EXCEPT !.cur = Max({@, y.cur})]
      new == [seen EXCEPT !.of[k] = Nobody, !.conf[k] = y.conf[k]]
  IN  IF x.conf[k] >= y.conf[k] THEN seen
      ELSE clusterUpdateSlotsConfigWith(Save(new), m, k, y.conf[k])

\* The failing master is cut off until another node has its slot.
Reachable(n) == n # Failing \/ (clus.scene.back /\ clus.won # {})

\* n hears m: a PING is sent and processed, and an UPDATE goes back when m
\* claims the slot with an epoch that n knows to be old.
Heard(n, m) ==
  LET h == clusterBuildMessageHdr(m)
      x == SeenEpochs(clus.node[n], h)
      seen == SeenConfig(x, n, h)
  IN  IF m \in Voters THEN [clus.node EXCEPT ![n] = x]
      ELSE [clus.node EXCEPT ![n] = seen.node,
              ![m] = IF seen.update THEN ProcessUpdate(@, m, seen.node) ELSE @]

Ping(n, m) == /\ n # m /\ Reachable(n) /\ Reachable(m)
              /\ clus' = [clus EXCEPT !.node = Heard(n, m)]

\* The conditions under which a slave may fail over.
MayFailover(n) == LET x == clus.node[n]
                  IN  x.of[n] = Failing /\ x.owner = Failing

\* clusterHandleSlaveFailover: an election is scheduled when the retry time has
\* gone since the last one, which then is too old,
ScheduleElection(n) ==
  /\ MayFailover(n) /\ clus.node[n].phase # "delay"
  /\ clus' = [clus EXCEPT !.node[n].phase = "delay", !.node[n].count = 0]

\* votes are asked for when the delay has gone,
clusterRequestFailoverAuth(n) ==
  LET x == clus.node[n]
      y == Save([x EXCEPT !.cur = @ + 1, !.epoch = x.cur + 1, !.phase = "sent"])
      h == [clusterBuildMessageHdr(n) EXCEPT !.cur = y.cur]
  IN  /\ MayFailover(n) /\ x.phase = "delay" /\ x.cur < clus.scene.epochs
      /\ clus' = [clus EXCEPT !.node[n] = y,
           !.msgs = @ \cup {[type |-> "request", to |-> m, hdr |-> h] : m \in Voters}]

\* and with the votes of a quorum the slave replaces its master.
clusterFailoverReplaceYourMaster(n) ==
  LET x == clus.node[n]
  IN  /\ MayFailover(n) /\ x.phase = "sent" /\ x.count >= needed_quorum
      /\ clus' = [clus EXCEPT !.won = @ \cup {<<n, x.epoch>>},
           !.node[n] = Save([x EXCEPT !.conf[n] = Max({@, x.epoch}), !.of[n] = Nobody,
                                      !.owner = n, !.phase = "none"])]

\* A voter that votes again in an epoch.
GrantsAgain(x, p) ==
  LET n == p.hdr.from
  IN  /\ p.hdr.cur >= x.cur
      /\ x.of[n] = Failing
      /\ (p.hdr.slots /\ x.owner # Nobody) => x.conf[x.owner] <= p.hdr.conf

\* The right to vote, and for whom.  A vote about this master less than two
\* node timeouts ago is a reason to refuse.
Grants(x, p) ==
  LET n == p.hdr.from
  IN  /\ p.hdr.cur >= x.cur /\ x.vote # x.cur
      /\ x.of[n] = Failing
      /\ (p.hdr.slots /\ x.owner # Nobody) => x.conf[x.owner] <= p.hdr.conf

clusterSendFailoverAuthIfNeeded(p) ==
  LET x == SeenEpochs(clus.node[p.to], p.hdr)
      ack == [type |-> "ack", to |-> p.hdr.from, from |-> p.to, cur |-> x.cur]
      rest == clus.msgs \ {p}
  IN  /\ p.type = "request"
      /\ \E recent \in BOOLEAN :
           /\ recent => x.vote > 0
           /\ clus' = IF Grants(x, p) /\ ~recent
                      THEN [clus EXCEPT !.msgs = rest \cup {ack},
                              !.node[p.to] = [x EXCEPT !.vote = x.cur]]
                      ELSE [clus EXCEPT !.msgs = rest, !.node[p.to] = x]

\* A vote counts when its sender has come to the epoch of the election.
ProcessAck(p) ==
  LET x == clus.node[p.to]
      y == [x EXCEPT !.cur = Max({@, p.cur})]
      counts == p.cur >= x.epoch
  IN  /\ p.type = "ack"
      /\ clus' = [clus EXCEPT !.msgs = @ \ {p},
           !.node[p.to] = IF counts THEN [y EXCEPT !.count = @ + 1] ELSE y,
           !.late = @ \/ (counts /\ x.phase = "delay")]

\* A voter dies and loads its configuration file.
Reboot(v) ==
  LET x == clus.node[v]
  IN  /\ clus.reboots < clus.scene.reboots
      /\ clus' = [clus EXCEPT !.reboots = @ + 1, !.forgot = @ \/ x.vote # x.disk[2],
           !.node[v] = [x EXCEPT !.cur = Max({x.disk[1]} \cup {x.conf[m] : m \in Serving}),
                                 !.vote = x.disk[2]]]

ClusterNext ==
  \/ \E n, m \in Nodes : Ping(n, m)
  \/ \E p \in clus.msgs : clusterSendFailoverAuthIfNeeded(p)
  \/ \E p \in clus.msgs : ProcessAck(p)
  \/ \E n \in Candidates : ScheduleElection(n)
  \/ \E n \in Candidates : clusterRequestFailoverAuth(n)
  \/ \E n \in Candidates : clusterFailoverReplaceYourMaster(n)
  \/ \E v \in Voters : Reboot(v)

ClusterSpec == ClusterInit /\ [][ClusterNext]_clusVars

-----------------------------------------------------------------------------
\* "It is not possible that different slaves get the same config epoch during
\* a failover election"
OneWinnerPerEpoch ==
  \A a, b \in clus.won : a[2] = b[2] => a[1] = b[1]

\* Two slaves win in one epoch only by a vote that came after its election, or
\* by a voter that forgot its vote in a reboot.
WinnersShareNoEpoch == clus.late \/ clus.forgot \/ OneWinnerPerEpoch

\* No packet changes what a node knows.
Quiet == \A n, m \in Nodes : (n # m /\ Reachable(n) /\ Reachable(m)) => Heard(n, m) = clus.node

\* Whoever won, once packets bring nothing new all nodes agree on the owner of
\* the slot, and it takes itself for a master: a returning master, two winners
\* and nodes that heard of the failover in any order are brought together.
OwnersAgree ==
  Quiet => \E m \in Serving : /\ clus.node[m].of[m] = Nobody
                              /\ \A n \in Nodes : Reachable(n) => clus.node[n].owner = m

=============================================================================
