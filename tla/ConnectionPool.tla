--------------------------- MODULE ConnectionPool ---------------------------
(***************************************************************************)
(* The upstream connection pool of the core crate (pool/pool.rs,           *)
(* pool/lru.rs, pool/stream.rs) as the threads of the tokio runtime run    *)
(* it.  No pool operation awaits, so each one runs to its end on one       *)
(* thread, and the threads interleave between any two accesses to shared   *)
(* memory.  A step below is one access to a lock-free queue, or one        *)
(* critical section, together with the thread-local work around it.        *)
(*                                                                         *)
(* A connection is named by its raw file descriptor (get_unique_id): a     *)
(* closed connection's name is free for the next one the system opens.     *)
(***************************************************************************)
EXTENDS Naturals, Sequences, FiniteSets

CONSTANTS
  Threads,        \* worker threads of the runtime
  Requests,       \* client connections being served
  Conns,          \* connection ids: raw file descriptors
  Groups,         \* connection groups: one per upstream peer
  HotQueueSize,   \* HOT_QUEUE_SIZE, 16 in the source
  SizeCapacity,   \* pool_node_size, the capacity of one LRU
  NoConn, NoThread, NoMeta

ASSUME PoolAssumption ==
  /\ HotQueueSize \in Nat \ {0}    \* ArrayQueue::new(0) panics
  /\ SizeCapacity \in Nat
  /\ NoConn \notin Conns
  /\ NoThread \notin Threads

(* ConnectionMetadata *)
Meta == [id : Conns, group : Groups]

ASSUME NoMetaAssumption == NoMeta \notin Meta

VARIABLES
  nodes,        \* the groups that have a ConnectionNode in the pool map
  hot_queue,    \* per group: the lock-free queue of its node
  connections,  \* per group: the HashMap of its node
  list_lock,    \* per group: the thread holding the mutex of that map
  lru,          \* per thread: its own LruCache, oldest entry first
  idle,         \* per connection: the metadata its idle timer would act on,
                \*   NoMeta once picked up, notified or dropped
  home,         \* per connection: the thread that last put it in its LRU
  phase, conn, peer,       \* per request: where it is, its stream, its peer
  pc,           \* per thread: the step it is at
  cli, grp,     \* per thread: the request it looks up for, the group
  own,          \* per thread: the connection it adds or has just taken
  tgt, left, hand   \* per thread: remove_connection's argument, the loop
                    \*   iterations left, the connection popped meanwhile

node_vars == <<nodes, hot_queue, connections, list_lock>>
lru_vars  == <<lru, idle, home>>
req_vars  == <<phase, conn, peer>>
op_vars   == <<pc, cli, grp, own, tgt, left, hand>>
vars      == <<node_vars, lru_vars, req_vars, op_vars>>

Elems(s) == { s[i] : i \in 1..Len(s) }

-----------------------------------------------------------------------------
(* One thread's LruCache: a sequence of metadata, oldest first, one per id. *)

Ids(cache) == { cache[i].id : i \in 1..Len(cache) }

(* LruCache::pop *)
Without(cache, c) ==
  IF c \notin Ids(cache) THEN cache
  ELSE LET k == CHOOSE i \in 1..Len(cache) : cache[i].id = c
       IN  [i \in 1..(Len(cache) - 1) |-> IF i < k THEN cache[i] ELSE cache[i + 1]]

(* Mutant: an entry is put where the oldest one is. *)
PutAsOldest(cache, m) == <<m>> \o Without(cache, m.id)

(* LruCache::put: the entry of an id already there is replaced, and becomes
   the most recent one. *)
Put(cache, m) == Append(Without(cache, m.id), m)

-----------------------------------------------------------------------------
Pooled(g) == Elems(hot_queue[g]) \cup connections[g]

(* The descriptors that name an open stream, wherever it is. *)
Open == (UNION { Pooled(g) : g \in Groups })
          \cup { own[t] : t \in Threads } \cup { hand[t] : t \in Threads }
          \cup { conn[r] : r \in Requests }

Init ==
  /\ nodes = {}
  /\ hot_queue = [g \in Groups |-> <<>>]
  /\ connections = [g \in Groups |-> {}]
  /\ list_lock = [g \in Groups |-> NoThread]
  /\ lru = [t \in Threads |-> <<>>]
  /\ idle = [c \in Conns |-> NoMeta]
  /\ home = [c \in Conns |-> NoThread]
  /\ phase = [r \in Requests |-> "idle"]
  /\ conn = [r \in Requests |-> NoConn]
  /\ peer \in [Requests -> Groups]
  /\ pc = [t \in Threads |-> "idle"]
  /\ cli \in [Threads -> Requests]
  /\ grp \in [Threads -> Groups]
  /\ own = [t \in Threads |-> NoConn]
  /\ tgt = [t \in Threads |-> NoMeta]
  /\ left = [t \in Threads |-> 0]
  /\ hand = [t \in Threads |-> NoConn]

-----------------------------------------------------------------------------
(* find_connection: get_connection_from_pool. *)

(* A request asks for a stream to its peer. *)
StartFind(t, r, g) ==
  /\ pc[t] = "idle" /\ phase[r] = "idle"
  /\ pc' = [pc EXCEPT ![t] = "find_hot"]
  /\ cli' = [cli EXCEPT ![t] = r]
  /\ grp' = [grp EXCEPT ![t] = g]
  /\ phase' = [phase EXCEPT ![r] = "finding"]
  /\ peer' = [peer EXCEPT ![r] = g]
  /\ UNCHANGED <<node_vars, lru_vars, conn, own, tgt, left, hand>>

(* None found: the request goes on to open a connection of its own. *)
Miss(t) ==
  /\ phase' = [phase EXCEPT ![cli[t]] = "connecting"]
  /\ pc' = [pc EXCEPT ![t] = "idle"]
  /\ UNCHANGED <<node_vars, lru_vars, conn, peer, cli, grp, own, tgt, left, hand>>

(* The lookup of the node (nodes are only ever added) and hot_queue.pop(). *)
FindNoNode(t) ==
  /\ pc[t] = "find_hot" /\ grp[t] \notin nodes
  /\ Miss(t)

TakeHot(t) ==
  LET q == hot_queue[grp[t]] IN
  /\ pc[t] = "find_hot" /\ grp[t] \in nodes /\ q # <<>>
  /\ own' = [own EXCEPT ![t] = Head(q)]
  /\ hot_queue' = [hot_queue EXCEPT ![grp[t]] = Tail(q)]
  /\ pc' = [pc EXCEPT ![t] = "pick_up"]
  /\ UNCHANGED <<nodes, connections, list_lock, lru_vars, req_vars,
                 cli, grp, tgt, left, hand>>

HotQueueEmpty(t) ==
  /\ pc[t] = "find_hot" /\ grp[t] \in nodes /\ hot_queue[grp[t]] = <<>>
  /\ pc' = [pc EXCEPT ![t] = "find_list"]
  /\ UNCHANGED <<node_vars, lru_vars, req_vars, cli, grp, own, tgt, left, hand>>

(* Mutant: the entry is read and stays in the map. *)
TakeListedKeeping(t) ==
  /\ pc[t] = "find_list" /\ list_lock[grp[t]] = NoThread
  /\ \E c \in connections[grp[t]] : own' = [own EXCEPT ![t] = c]
  /\ pc' = [pc EXCEPT ![t] = "pick_up"]
  /\ UNCHANGED <<node_vars, lru_vars, req_vars, cli, grp, tgt, left, hand>>

(* The critical section of get_available_connection: any entry of the map. *)
TakeListed(t) ==
  /\ pc[t] = "find_list" /\ list_lock[grp[t]] = NoThread
  /\ \E c \in connections[grp[t]] :
       /\ own' = [own EXCEPT ![t] = c]
       /\ connections' = [connections EXCEPT ![grp[t]] = @ \ {c}]
  /\ pc' = [pc EXCEPT ![t] = "pick_up"]
  /\ UNCHANGED <<nodes, hot_queue, list_lock, lru_vars, req_vars,
                 cli, grp, tgt, left, hand>>

ListEmpty(t) ==
  /\ pc[t] = "find_list" /\ list_lock[grp[t]] = NoThread
  /\ connections[grp[t]] = {}
  /\ Miss(t)

(* Mutant: the idle timer is not told. *)
PickUpUnnoticed(t) ==
  /\ pc[t] = "pick_up"
  /\ lru' = [lru EXCEPT ![t] = Without(lru[t], own[t])]
  /\ conn' = [conn EXCEPT ![cli[t]] = own[t]]
  /\ phase' = [phase EXCEPT ![cli[t]] = "proxying"]
  /\ own' = [own EXCEPT ![t] = NoConn]
  /\ pc' = [pc EXCEPT ![t] = "idle"]
  /\ UNCHANGED <<node_vars, idle, home, peer, cli, grp, tgt, left, hand>>

(* lru.pop_connection, which reaches this thread's LruCache only, and
   pick_up_connection, which ends the idle timer. *)
PickUp(t) ==
  /\ pc[t] = "pick_up"
  /\ lru' = [lru EXCEPT ![t] = Without(lru[t], own[t])]
  /\ idle' = [idle EXCEPT ![own[t]] = NoMeta]
  /\ conn' = [conn EXCEPT ![cli[t]] = own[t]]
  /\ phase' = [phase EXCEPT ![cli[t]] = "proxying"]
  /\ own' = [own EXCEPT ![t] = NoConn]
  /\ pc' = [pc EXCEPT ![t] = "idle"]
  /\ UNCHANGED <<node_vars, home, peer, cli, grp, tgt, left, hand>>

-----------------------------------------------------------------------------
(* The rest of a request's life: get_stream_connection, handle_connection. *)

(* new_stream_connection: the system names it by a free descriptor. *)
Connect(r, c) ==
  /\ phase[r] = "connecting" /\ c \notin Open
  /\ phase' = [phase EXCEPT ![r] = "proxying"]
  /\ conn' = [conn EXCEPT ![r] = c]
  /\ UNCHANGED <<node_vars, lru_vars, peer, op_vars>>

ConnectFails(r) ==
  /\ phase[r] = "connecting"
  /\ phase' = [phase EXCEPT ![r] = "idle"]
  /\ UNCHANGED <<node_vars, lru_vars, conn, peer, op_vars>>

(* An error of handle_process panics the task, which drops the stream. *)
ProxyFails(r) ==
  /\ phase[r] = "proxying"
  /\ phase' = [phase EXCEPT ![r] = "idle"]
  /\ conn' = [conn EXCEPT ![r] = NoConn]
  /\ UNCHANGED <<node_vars, lru_vars, peer, op_vars>>

-----------------------------------------------------------------------------
(* add_connection_to_pool. *)

(* Mutant: the group is the one this thread last dealt with. *)
ReturningStale(t, r) ==
  /\ pc[t] = "idle" /\ phase[r] = "proxying"
  /\ own' = [own EXCEPT ![t] = conn[r]]
  /\ conn' = [conn EXCEPT ![r] = NoConn]
  /\ phase' = [phase EXCEPT ![r] = "idle"]
  /\ UNCHANGED <<node_vars, peer, cli, grp, left, hand>>

(* The stream leaves its request, which is over, for the pool. *)
Returning(t, r) ==
  /\ pc[t] = "idle" /\ phase[r] = "proxying"
  /\ own' = [own EXCEPT ![t] = conn[r]]
  /\ grp' = [grp EXCEPT ![t] = peer[r]]
  /\ conn' = [conn EXCEPT ![r] = NoConn]
  /\ phase' = [phase EXCEPT ![r] = "idle"]
  /\ UNCHANGED <<node_vars, peer, cli, left, hand>>

MetaOf(r) == [id |-> conn[r], group |-> peer[r]]

(* lru.add_new_connection, when this thread's cache keeps to its capacity ... *)
StartReturn(t, r) ==
  /\ Returning(t, r)
  /\ Len(Put(lru[t], MetaOf(r))) <= SizeCapacity
  /\ lru' = [lru EXCEPT ![t] = Put(lru[t], MetaOf(r))]
  /\ home' = [home EXCEPT ![conn[r]] = t]
  /\ pc' = [pc EXCEPT ![t] = "get_node"]
  /\ UNCHANGED <<idle, tgt>>

(* ... and when it pops its oldest entry, whose notify_removal ends the idle
   timer if that entry is still the one its connection was pooled with. *)
StartReturnEvicting(t, r) ==
  LET cache == Put(lru[t], MetaOf(r))
      old   == Head(cache)
      homes == [home EXCEPT ![conn[r]] = t]
  IN
  /\ Returning(t, r)
  /\ Len(cache) > SizeCapacity
  /\ lru' = [lru EXCEPT ![t] = Tail(cache)]
  /\ tgt' = [tgt EXCEPT ![t] = old]
  /\ idle' = [idle EXCEPT ![old.id] = IF homes[old.id] = t THEN NoMeta ELSE @]
  /\ home' = [homes EXCEPT ![old.id] = IF @ = t THEN NoThread ELSE @]
  /\ pc' = [pc EXCEPT ![t] = "remove"]

(* get_connection_node: the lookup under the read lock ... *)
GetNode(t) ==
  /\ pc[t] = "get_node"
  /\ pc' = [pc EXCEPT ![t] = IF grp[t] \in nodes THEN "push" ELSE "new_node"]
  /\ UNCHANGED <<node_vars, lru_vars, req_vars, cli, grp, own, tgt, left, hand>>

(* Mutant: no second look under the write lock. *)
NewNodeOverwriting(t) ==
  /\ pc[t] = "new_node"
  /\ nodes' = nodes \cup {grp[t]}
  /\ hot_queue' = [hot_queue EXCEPT ![grp[t]] = <<>>]
  /\ connections' = [connections EXCEPT ![grp[t]] = {}]
  /\ pc' = [pc EXCEPT ![t] = "push"]
  /\ UNCHANGED <<list_lock, lru_vars, req_vars, cli, grp, own, tgt, left, hand>>

(* ... and under the write lock, where another thread's node is kept. *)
NewNode(t) ==
  /\ pc[t] = "new_node"
  /\ nodes' = nodes \cup {grp[t]}
  /\ IF grp[t] \in nodes
       THEN UNCHANGED <<hot_queue, connections>>
       ELSE /\ hot_queue' = [hot_queue EXCEPT ![grp[t]] = <<>>]
            /\ connections' = [connections EXCEPT ![grp[t]] = {}]
  /\ pc' = [pc EXCEPT ![t] = "push"]
  /\ UNCHANGED <<list_lock, lru_vars, req_vars, cli, grp, own, tgt, left, hand>>

-----------------------------------------------------------------------------
(* ConnectionNode::add_new_connection, called by add_connection_to_pool and,
   to give back what it popped, by ConnectionNode::remove_connection. *)

Removing(t) == hand[t] # NoConn
Carried(t)  == IF Removing(t) THEN hand[t] ELSE own[t]
NodeOf(t)   == IF Removing(t) THEN tgt[t].group ELSE grp[t]

(* The call returns: to the loop of remove_connection, or out of the pool,
   where return_stream_connection spawns the idle timer.  Its notifier has
   already fired if the LRU could not even keep the new entry. *)
AddReturns(t) ==
  IF Removing(t)
    THEN /\ hand' = [hand EXCEPT ![t] = NoConn]
         /\ pc' = [pc EXCEPT ![t] = "scan"]
         /\ UNCHANGED <<own, idle>>
    ELSE /\ own' = [own EXCEPT ![t] = NoConn]
         /\ pc' = [pc EXCEPT ![t] = "idle"]
         /\ idle' = [idle EXCEPT ![own[t]] =
                       IF own[t] \in Ids(lru[t])
                         THEN [id |-> own[t], group |-> grp[t]] ELSE NoMeta]
         /\ UNCHANGED hand

PushHot(t) ==
  /\ pc[t] = "push" /\ Len(hot_queue[NodeOf(t)]) < HotQueueSize
  /\ hot_queue' = [hot_queue EXCEPT ![NodeOf(t)] = Append(@, Carried(t))]
  /\ AddReturns(t)
  /\ UNCHANGED <<nodes, connections, list_lock, lru, home, req_vars,
                 cli, grp, tgt, left>>

HotQueueFull(t) ==
  /\ pc[t] = "push" /\ Len(hot_queue[NodeOf(t)]) = HotQueueSize
  /\ pc' = [pc EXCEPT ![t] = "insert"]
  /\ UNCHANGED <<node_vars, lru_vars, req_vars, cli, grp, own, tgt, left, hand>>

(* The mutex is not reentrant: a thread that holds it already waits here. *)
InsertList(t) ==
  /\ pc[t] = "insert" /\ list_lock[NodeOf(t)] = NoThread
  /\ connections' = [connections EXCEPT ![NodeOf(t)] = @ \cup {Carried(t)}]
  /\ AddReturns(t)
  /\ UNCHANGED <<nodes, hot_queue, list_lock, lru, home, req_vars,
                 cli, grp, tgt, left>>

-----------------------------------------------------------------------------
(* remove_connection_from_pool, called for an entry the LRU evicted and by
   remove_connection when an idle timer expires. *)

(* connection_idle_timeout, biased: the timeout counts only while the
   connection was neither picked up nor evicted.  From here on the removal
   acts on the id, whatever happens to the connection meanwhile. *)
IdleTimeout(t, c) ==
  /\ pc[t] = "idle" /\ idle[c] # NoMeta
  /\ tgt' = [tgt EXCEPT ![t] = idle[c]]
  /\ idle' = [idle EXCEPT ![c] = NoMeta]
  /\ pc' = [pc EXCEPT ![t] = "remove"]
  /\ UNCHANGED <<node_vars, lru, home, req_vars, cli, grp, own, left, hand>>

(* The removal returns: into add_connection_to_pool, or into
   remove_connection, which pops the id from this thread's LruCache. *)
RemoveReturns(t) ==
  /\ tgt' = [tgt EXCEPT ![t] = NoMeta]
  /\ left' = [left EXCEPT ![t] = 0]
  /\ IF own[t] # NoConn
       THEN /\ pc' = [pc EXCEPT ![t] = "get_node"]
            /\ UNCHANGED lru
       ELSE /\ pc' = [pc EXCEPT ![t] = "idle"]
            /\ lru' = [lru EXCEPT ![t] = Without(lru[t], tgt[t].id)]

RemoveNoNode(t) ==
  /\ pc[t] = "remove" /\ tgt[t].group \notin nodes
  /\ RemoveReturns(t)
  /\ UNCHANGED <<node_vars, idle, home, req_vars, cli, grp, own, hand>>

(* The mutex of the map is taken: the id is in the map ... *)
RemoveListed(t) ==
  LET g == tgt[t].group  c == tgt[t].id IN
  /\ pc[t] = "remove" /\ g \in nodes /\ list_lock[g] = NoThread
  /\ c \in connections[g]
  /\ connections' = [connections EXCEPT ![g] = @ \ {c}]
  /\ idle' = [idle EXCEPT ![c] = NoMeta]
  /\ RemoveReturns(t)
  /\ UNCHANGED <<nodes, hot_queue, list_lock, home, req_vars, cli, grp, own, hand>>

(* Mutant: the mutex is released before the hot queue is looked at. *)
StartScanUnlocked(t) ==
  LET g == tgt[t].group IN
  /\ pc[t] = "remove" /\ g \in nodes /\ list_lock[g] = NoThread
  /\ tgt[t].id \notin connections[g]
  /\ left' = [left EXCEPT ![t] = Len(hot_queue[g])]
  /\ pc' = [pc EXCEPT ![t] = "scan"]
  /\ UNCHANGED <<node_vars, lru_vars, req_vars, cli, grp, own, tgt, hand>>

(* ... or the length of the hot queue is read, to look there, still locked. *)
StartScan(t) ==
  LET g == tgt[t].group IN
  /\ pc[t] = "remove" /\ g \in nodes /\ list_lock[g] = NoThread
  /\ tgt[t].id \notin connections[g]
  /\ list_lock' = [list_lock EXCEPT ![g] = t]
  /\ left' = [left EXCEPT ![t] = Len(hot_queue[g])]
  /\ pc' = [pc EXCEPT ![t] = "scan"]
  /\ UNCHANGED <<nodes, hot_queue, connections, lru_vars, req_vars,
                 cli, grp, own, tgt, hand>>

(* Mutant: the mutex stays locked when the loop ends. *)
ScanEndsLocked(t) ==
  /\ pc[t] = "scan" /\ (left[t] = 0 \/ hot_queue[tgt[t].group] = <<>>)
  /\ RemoveReturns(t)
  /\ UNCHANGED <<node_vars, idle, home, req_vars, cli, grp, own, hand>>

(* One iteration of the loop: nothing left to look at, ... *)
ScanEnds(t) ==
  LET g == tgt[t].group IN
  /\ pc[t] = "scan" /\ (left[t] = 0 \/ hot_queue[g] = <<>>)
  /\ list_lock' = [list_lock EXCEPT ![g] = NoThread]
  /\ RemoveReturns(t)
  /\ UNCHANGED <<nodes, hot_queue, connections, idle, home, req_vars,
                 cli, grp, own, hand>>

(* ... the id is popped, and its connection dropped, ... *)
ScanFinds(t) ==
  LET g == tgt[t].group  q == hot_queue[g] IN
  /\ pc[t] = "scan" /\ left[t] > 0 /\ q # <<>> /\ Head(q) = tgt[t].id
  /\ hot_queue' = [hot_queue EXCEPT ![g] = Tail(q)]
  /\ idle' = [idle EXCEPT ![tgt[t].id] = NoMeta]
  /\ list_lock' = [list_lock EXCEPT ![g] = NoThread]
  /\ RemoveReturns(t)
  /\ UNCHANGED <<nodes, connections, home, req_vars, cli, grp, own, hand>>

(* Mutant: the loop goes on past the length it read. *)
ScanTakesOtherUnbounded(t) ==
  LET g == tgt[t].group  q == hot_queue[g] IN
  /\ pc[t] = "scan" /\ q # <<>> /\ Head(q) # tgt[t].id
  /\ hot_queue' = [hot_queue EXCEPT ![g] = Tail(q)]
  /\ hand' = [hand EXCEPT ![t] = Head(q)]
  /\ left' = [left EXCEPT ![t] = left[t] - 1]
  /\ pc' = [pc EXCEPT ![t] = "push"]
  /\ UNCHANGED <<nodes, connections, list_lock, lru_vars, req_vars,
                 cli, grp, own, tgt>>

(* ... or another one is popped, to be added again. *)
ScanTakesOther(t) ==
  LET g == tgt[t].group  q == hot_queue[g] IN
  /\ pc[t] = "scan" /\ left[t] > 0 /\ q # <<>> /\ Head(q) # tgt[t].id
  /\ hot_queue' = [hot_queue EXCEPT ![g] = Tail(q)]
  /\ hand' = [hand EXCEPT ![t] = Head(q)]
  /\ left' = [left EXCEPT ![t] = left[t] - 1]
  /\ pc' = [pc EXCEPT ![t] = "push"]
  /\ UNCHANGED <<nodes, connections, list_lock, lru_vars, req_vars,
                 cli, grp, own, tgt>>

-----------------------------------------------------------------------------
(* A step of an operation a thread is in the middle of. *)
Find(t) ==
  FindNoNode(t) \/ TakeHot(t) \/ HotQueueEmpty(t) \/ TakeListed(t) \/ ListEmpty(t)
    \/ PickUp(t)

Add(t) ==
  GetNode(t) \/ NewNode(t) \/ PushHot(t) \/ HotQueueFull(t) \/ InsertList(t)

Remove(t) ==
  RemoveNoNode(t) \/ RemoveListed(t) \/ StartScan(t) \/ ScanEnds(t) \/ ScanFinds(t)
    \/ ScanTakesOther(t)

Continue(t) == Find(t) \/ Add(t) \/ Remove(t)

Next ==
  \/ \E t \in Threads : Continue(t)
  \/ \E t \in Threads, r \in Requests, g \in Groups : StartFind(t, r, g)
  \/ \E t \in Threads, r \in Requests : StartReturn(t, r) \/ StartReturnEvicting(t, r)
  \/ \E t \in Threads, c \in Conns : IdleTimeout(t, c)
  \/ \E r \in Requests, c \in Conns : Connect(r, c)
  \/ \E r \in Requests : ConnectFails(r) \/ ProxyFails(r)

Spec == Init /\ [][Next]_vars

(* A thread goes on with the operation it is in; parking_lot's mutexes are
   eventually fair, so a thread that waits for one gets it if it is free
   again and again. *)
FairSpec == Spec /\ \A t \in Threads : SF_vars(Continue(t))
=============================================================================
