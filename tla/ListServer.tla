----------------------------- MODULE ListServer -----------------------------
(***************************************************************************)
(* The commands of a Redis server on lists, with what makes them hard:     *)
(* clients that block for an element (blocked.c, t_list.c), transactions   *)
(* with watched keys (multi.c), and the stream of commands to the AOF and  *)
(* the slaves (server.c), here applied at once to a copy of the data set.  *)
(* A command runs to its end before the next one: one command, one step.   *)
(***************************************************************************)
EXTENDS Integers, Sequences, FiniteSets, SequencesExt

CONSTANTS Blockers,    \* clients that send blocking commands
          Writers,     \* clients that send the others
          Keys, Values,
          MaxLen,      \* bound of a list
          Transactions, \* the queues of commands a client may EXEC
          Null, String \* no object, and an object that is not a list

VARIABLE srv  \* the server: the fields of ListInit

listVars == <<srv>>

Clients == Blockers \cup Writers
NotBlocked == [keys |-> <<>>, where |-> "tail", target |-> Null]
NoMulti == [on |-> FALSE, dirty |-> FALSE]

ListInit ==
  srv = [db |-> [k \in Keys |-> Null],        \* db->dict
         slave |-> [k \in Keys |-> Null],     \* what the stream makes of it
         blocking |-> [k \in Keys |-> <<>>],  \* db->blocking_keys
         bpop |-> [c \in Clients |-> NotBlocked],
         ready |-> <<>>,                      \* server.ready_keys
         isReady |-> {},                      \* db->ready_keys
         watched |-> [c \in Clients |-> {}],
         cas |-> {},                          \* clients with CLIENT_DIRTY_CAS
         multi |-> [c \in Clients |-> NoMulti],
         served |-> {},                       \* <<client, key>> served by this step
         changed |-> [c \in Clients |-> {}],  \* watched keys that changed
         stored |-> {}]                       \* lists that replaced a string

IsList(o) == o \notin {Null, String}
Blocked(s, c) == s.bpop[c].keys # <<>>

Ends == {"head", "tail"}
Push(l, v, where) == IF where = "head" THEN <<v>> \o l ELSE Append(l, v)
End(l, where) == IF where = "head" THEN Head(l) ELSE Last(l)
Pop(l, where) == IF where = "head" THEN Tail(l) ELSE Front(l)
\* signalModifiedKey -> touchWatchedKey
Touch(s, k) == [s EXCEPT !.cas = @ \cup {c \in Clients : k \in s.watched[c]}]

signalListAsReady(s, k) ==
  IF s.blocking[k] = <<>> \/ k \in s.isReady THEN s
  ELSE [s EXCEPT !.ready = Append(@, k), !.isReady = @ \cup {k}]

\* A dbAdd that signals nobody.
AddIfNoneSilent(s, k) == IF s.db[k] = Null THEN [s EXCEPT !.db[k] = <<>>] ELSE s

\* A list where there was no key is added with dbAdd, which signals it.
AddIfNone(s, k) ==
  IF s.db[k] = Null THEN signalListAsReady([s EXCEPT !.db[k] = <<>>], k) ELSE s

dbDelete(s, k) == [s EXCEPT !.db[k] = Null, !.stored = @ \ {k}]

PopFrom(s, k, where) ==
  LET left == Pop(s.db[k], where)
  IN Touch(IF left = <<>> THEN dbDelete(s, k) ELSE [s EXCEPT !.db[k] = left], k)

\* rpoplpushHandlePush
HandlePush(s, k, v) ==
  LET t == Touch(AddIfNone(s, k), k) IN [t EXCEPT !.db[k] = <<v>> \o @]

blockForKeys(s, c, keys, where, target) ==
  [s EXCEPT !.bpop[c] = [keys |-> keys, where |-> where, target |-> target],
            !.blocking = [k \in Keys |-> IF k \in ToSet(keys) THEN Append(@[k], c) ELSE @[k]]]

unblockClient(s, c) ==
  [s EXCEPT !.blocking = [k \in Keys |-> SelectSeq(@[k], LAMBDA d : d # c)],
            !.bpop[c] = NotBlocked]

\* setKey of SORT ... STORE: a key that is there is overwritten, without a
\* signal.
setKey(s, k, o) ==
  Touch([(IF s.db[k] = Null /\ IsList(o) THEN signalListAsReady(s, k) ELSE s)
           EXCEPT !.db[k] = o,
                  !.stored = IF ~IsList(o) THEN @ \ {k}
                             ELSE IF s.db[k] = String THEN @ \cup {k} ELSE @], k)
-----------------------------------------------------------------------------
(* The commands.  Proc gives the state after the command and the command   *)
(* call() propagates, Null when the data set did not change.               *)

Did(s, cmd) == [s |-> s, prop |-> cmd]
Nothing(s) == Did(s, Null)

pushGenericCommand(s, cmd) ==
  IF s.db[cmd.k] = String THEN Nothing(s)
  ELSE LET t == AddIfNone(s, cmd.k)
       IN Did(Touch([t EXCEPT !.db[cmd.k] = Push(@, cmd.v, cmd.where)], cmd.k), cmd)

popGenericCommand(s, cmd) ==
  IF ~IsList(s.db[cmd.k]) THEN Nothing(s) ELSE Did(PopFrom(s, cmd.k, cmd.where), cmd)

rpoplpushCommand(s, cmd) ==
  IF ~IsList(s.db[cmd.k]) \/ s.db[cmd.dst] = String THEN Nothing(s)
  ELSE LET v == Last(s.db[cmd.k])
           popped == [s EXCEPT !.db[cmd.k] = Front(@)]
           pushed == HandlePush(popped, cmd.dst, v)
       IN Did(Touch(IF pushed.db[cmd.k] = <<>> THEN dbDelete(pushed, cmd.k) ELSE pushed, cmd.k), cmd)

blockingPopGenericCommand(s, c, cmd) ==
  LET first == SelectInSeq(cmd.keys, LAMBDA k : s.db[k] # Null)
      k == cmd.keys[first]
  IN IF first # 0 THEN IF s.db[k] = String THEN Nothing(s)
                       ELSE Did(PopFrom(s, k, cmd.where), [op |-> "pop", k |-> k, where |-> cmd.where])
     ELSE IF s.multi[c].on THEN Nothing(s)
     ELSE Nothing(blockForKeys(s, c, cmd.keys, cmd.where, Null))

brpoplpushCommand(s, c, cmd) ==
  IF s.db[cmd.k] # Null THEN rpoplpushCommand(s, cmd)
  ELSE IF s.multi[c].on THEN Nothing(s)
  ELSE Nothing(blockForKeys(s, c, <<cmd.k>>, "tail", cmd.dst))

delCommand(s, cmd) ==
  IF s.db[cmd.k] = Null THEN Nothing(s) ELSE Did(Touch(dbDelete(s, cmd.k), cmd.k), cmd)

\* A FLUSHDB that touches no watched key.
flushdbUntouched(s, cmd) ==
  IF \A k \in Keys : s.db[k] = Null THEN Nothing(s)
  ELSE Did([s EXCEPT !.db = [k \in Keys |-> Null], !.stored = {}], cmd)

\* signalFlushedDb touches the watched keys that exist.
flushdbCommand(s, cmd) ==
  IF \A k \in Keys : s.db[k] = Null THEN Nothing(s)
  ELSE Did([s EXCEPT !.db = [k \in Keys |-> Null], !.stored = {},
                     !.cas = @ \cup {c \in Clients : \E k \in s.watched[c] : s.db[k] # Null}], cmd)

\* SORT k STORE dst of a list or of no key: the sorted copy, or none.
sortCommand(s, cmd) ==
  IF s.db[cmd.k] = String THEN Nothing(s)
  ELSE IF IsList(s.db[cmd.k])
       THEN Did(setKey(s, cmd.dst, SortSeq(s.db[cmd.k], LAMBDA v, w : v < w)), cmd)
  ELSE IF s.db[cmd.dst] # Null THEN Did(Touch(dbDelete(s, cmd.dst), cmd.dst), cmd)
  ELSE Nothing(s)

Proc(s, c, cmd) ==
  CASE cmd.op = "push" -> pushGenericCommand(s, cmd)
    [] cmd.op = "pop" -> popGenericCommand(s, cmd)
    [] cmd.op = "rpoplpush" -> rpoplpushCommand(s, cmd)
    [] cmd.op = "bpop" -> blockingPopGenericCommand(s, c, cmd)
    [] cmd.op = "brpoplpush" -> brpoplpushCommand(s, c, cmd)
    [] cmd.op = "set" -> Did(setKey(s, cmd.k, String), cmd)
    [] cmd.op = "del" -> delCommand(s, cmd)
    [] cmd.op = "flushdb" -> flushdbCommand(s, cmd)
    [] cmd.op = "sort" -> sortCommand(s, cmd)

\* A slave runs the propagated command; nobody blocks or watches there.
Slave(s) ==
  [s EXCEPT !.db = s.slave, !.blocking = [k \in Keys |-> <<>>], !.watched = [c \in Clients |-> {}]]

propagate(s, cmd) ==
  [s EXCEPT !.slave = Proc(Slave(s), CHOOSE c \in Clients : TRUE, cmd).s.db]

call(s, c, cmd) ==
  LET r == Proc(s, c, cmd) IN IF r.prop = Null THEN r.s ELSE propagate(r.s, r.prop)
-----------------------------------------------------------------------------
(* The clients blocked on a ready key, after a command or a transaction.   *)

\* The newest client.
LastClient(s, k) == Last(s.blocking[k])

\* The client that has waited longest.
NextClient(s, k) == Head(s.blocking[k])

\* A pop that is propagated before the type of the target is known.
ServeFirstEager(s, k) ==
  LET c == NextClient(s, k)
      b == s.bpop[c]
      v == End(s.db[k], b.where)
      popped == unblockClient([s EXCEPT !.db[k] = Pop(@, b.where),
                                        !.served = @ \cup {<<c, k>>}], c)
      sent == propagate(popped, [op |-> "pop", k |-> k, where |-> b.where])
  IN IF s.blocking[k] = <<>> \/ s.db[k] = <<>> THEN s
     ELSE IF b.target = Null THEN sent
     ELSE IF s.db[b.target] = String THEN [sent EXCEPT !.db[k] = Push(@, v, b.where)]
     ELSE propagate(HandlePush(sent, b.target, v),
                    [op |-> "push", k |-> b.target, v |-> v, where |-> "head"])

\* serveClientBlockedOnList for the first client of k, with the undo.
ServeFirst(s, k) ==
  LET c == NextClient(s, k)
      b == s.bpop[c]
      v == End(s.db[k], b.where)
      popped == unblockClient([s EXCEPT !.db[k] = Pop(@, b.where),
                                        !.served = @ \cup {<<c, k>>}], c)
      sent == propagate(popped, [op |-> "pop", k |-> k, where |-> b.where])
  IN IF s.blocking[k] = <<>> \/ s.db[k] = <<>> THEN s
     ELSE IF b.target = Null THEN sent
     ELSE IF s.db[b.target] = String
          THEN [popped EXCEPT !.db[k] = Push(@, v, b.where)]
     ELSE propagate(HandlePush(sent, b.target, v),
                    [op |-> "push", k |-> b.target, v |-> v, where |-> "head"])

ServeKey(s, k) ==
  LET t == [s EXCEPT !.isReady = @ \ {k}]
      served == FoldLeft(LAMBDA u, c : ServeFirst(u, k), t, s.blocking[k])
  IN IF ~IsList(s.db[k]) THEN t
     ELSE IF served.db[k] = <<>> THEN dbDelete(served, k) ELSE served

RECURSIVE handleClientsBlockedOnLists(_)
handleClientsBlockedOnLists(s) ==
  IF s.ready = <<>> THEN s
  ELSE handleClientsBlockedOnLists(FoldLeft(ServeKey, [s EXCEPT !.ready = <<>>], s.ready))
-----------------------------------------------------------------------------
(* The steps. *)

Bounded(s) == \A k \in Keys : IsList(s.db[k]) => Len(s.db[k]) <= MaxLen

\* The step from srv to s, with the history of the watched keys.
Step(s) ==
  /\ Bounded(s)
  /\ srv' = [s EXCEPT !.changed = [c \in Clients |->
                         (srv.changed[c] \cup {k \in Keys : s.db[k] # srv.db[k]}) \cap s.watched[c]]]

Ask == [srv EXCEPT !.served = {}]

WriteCommands ==
  [op : {"push"}, k : Keys, v : Values, where : Ends]
  \cup [op : {"pop"}, k : Keys, where : Ends]
  \cup [op : {"rpoplpush", "sort"}, k : Keys, dst : Keys]
  \cup [op : {"set", "del"}, k : Keys]
  \cup {[op |-> "flushdb"]}

BlockingCommands ==
  [op : {"bpop"}, keys : {<<k>> : k \in Keys} \cup {q \in Keys \X Keys : q[1] # q[2]}, where : Ends]
  \cup [op : {"brpoplpush"}, k : Keys, dst : Keys]

\* processCommand outside a transaction.
Command(c, cmd) ==
  /\ ~Blocked(srv, c) /\ ~srv.multi[c].on
  /\ Step(handleClientsBlockedOnLists(call(Ask, c, cmd)))

multiCommand(c) ==
  /\ ~Blocked(srv, c) /\ ~srv.multi[c].on
  /\ Step([Ask EXCEPT !.multi[c].on = TRUE])

\* An error while a transaction is queued: flagTransaction.
flagTransaction(c) ==
  /\ srv.multi[c].on /\ ~srv.multi[c].dirty
  /\ Step([Ask EXCEPT !.multi[c].dirty = TRUE])

unwatchAllKeys(s, c) == [s EXCEPT !.watched[c] = {}]

discardTransaction(s, c) ==
  unwatchAllKeys([s EXCEPT !.multi[c] = NoMulti, !.cas = @ \ {c}], c)

discardCommand(c) == srv.multi[c].on /\ Step(discardTransaction(Ask, c))

\* A queued command (queueMultiCommand) does nothing before EXEC, so the
\* queue is chosen here.
execCommand(c, queue) ==
  LET ran == FoldLeft(LAMBDA s, cmd : call(s, c, cmd), unwatchAllKeys(Ask, c), queue)
  IN /\ srv.multi[c].on
     /\ Step(IF c \in srv.cas \/ srv.multi[c].dirty THEN discardTransaction(Ask, c)
             ELSE handleClientsBlockedOnLists(discardTransaction(ran, c)))

watchCommand(c, k) ==
  /\ ~Blocked(srv, c) /\ ~srv.multi[c].on /\ k \notin srv.watched[c]
  /\ Step([Ask EXCEPT !.watched[c] = @ \cup {k}])

unwatchCommand(c) ==
  /\ ~Blocked(srv, c) /\ ~srv.multi[c].on /\ srv.watched[c] # {}
  /\ Step([unwatchAllKeys(Ask, c) EXCEPT !.cas = @ \ {c}])

\* clientsCronHandleTimeout of a blocked client.
TimedOut(c) == Blocked(srv, c) /\ Step(unblockClient(Ask, c))

\* freeClient; a new client takes the name.
freeClient(c) ==
  /\ srv.multi[c].on \/ srv.watched[c] # {}
  /\ Step(discardTransaction(unblockClient(Ask, c), c))

ListNext ==
  \/ \E c \in Blockers : \/ \E cmd \in BlockingCommands : Command(c, cmd)
                         \/ TimedOut(c)
  \/ \E c \in Writers :
       \/ \E cmd \in WriteCommands : Command(c, cmd)
       \/ multiCommand(c) \/ flagTransaction(c) \/ discardCommand(c)
       \/ \E queue \in Transactions : execCommand(c, queue)
       \/ \E k \in Keys : watchCommand(c, k)
       \/ unwatchCommand(c) \/ freeClient(c)
-----------------------------------------------------------------------------
(* Properties. *)

\* What call() and the serving of blocked clients propagate, replayed by a
\* slave or from the AOF, gives the data set of the master after every
\* command, transaction and chain of served clients.
SlaveFollows == srv.slave = srv.db

\* A watched key whose value is no longer the one at WATCH has marked the
\* client, so that its EXEC does not run: whichever command, transaction,
\* served client or flush changed it.
WatchSeesChanges == \A c \in Clients : srv.changed[c] # {} => c \in srv.cas

\* No client waits on a list that has elements, unless the list replaced a
\* string (SORT ... STORE), which signals nobody.
WaitersHaveNothing ==
  \A k \in Keys : srv.blocking[k] # <<>> /\ IsList(srv.db[k]) => k \in srv.stored

\* A client is served on a key only when the clients that blocked on it
\* earlier are served too: whatever keys each of them waits on.
FirstBlockedFirst ==
  [][\A k \in Keys : \A i, j \in DOMAIN srv.blocking[k] :
       i < j /\ <<srv.blocking[k][j], k>> \in srv'.served
         => ~Blocked(srv', srv.blocking[k][i])]_listVars
=============================================================================
