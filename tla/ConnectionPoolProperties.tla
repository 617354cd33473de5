---------------------- MODULE ConnectionPoolProperties ----------------------
(***************************************************************************)
(* What the connection pool is for, and what its source says of it.        *)
(***************************************************************************)
EXTENDS ConnectionPool

(* Every thread, request and structure holds what it should hold. *)
TypeOK ==
  /\ nodes \subseteq Groups
  /\ hot_queue \in [Groups -> Seq(Conns)]
  /\ connections \in [Groups -> SUBSET Conns]
  /\ list_lock \in [Groups -> Threads \cup {NoThread}]
  /\ lru \in [Threads -> Seq(Meta)]
  /\ idle \in [Conns -> Meta \cup {NoMeta}]
  /\ home \in [Conns -> Threads \cup {NoThread}]
  /\ phase \in [Requests -> {"idle", "finding", "connecting", "proxying"}]
  /\ conn \in [Requests -> Conns \cup {NoConn}]
  /\ peer \in [Requests -> Groups]
  /\ pc \in [Threads -> {"idle", "find_hot", "find_list", "pick_up", "get_node",
                         "new_node", "push", "insert", "remove", "scan"}]
  /\ cli \in [Threads -> Requests]
  /\ grp \in [Threads -> Groups]
  /\ own \in [Threads -> Conns \cup {NoConn}]
  /\ tgt \in [Threads -> Meta \cup {NoMeta}]
  /\ left \in [Threads -> Nat]
  /\ hand \in [Threads -> Conns \cup {NoConn}]

-----------------------------------------------------------------------------
(* One open connection is in one place: no two requests, threads or entries
   of the pool hold the same stream, whatever finders, adders, evictions and
   idle timers interleave. *)
Distinct(q) == \A i, j \in 1..Len(q) : q[i] = q[j] => i = j

StoresDisjoint ==
  \A g \in Groups :
    /\ Distinct(hot_queue[g])
    /\ \A h \in Groups : Elems(hot_queue[g]) \cap connections[h] = {}
    /\ \A h \in Groups \ {g} : /\ Elems(hot_queue[g]) \cap Elems(hot_queue[h]) = {}
                             /\ connections[g] \cap connections[h] = {}

HandsDistinct ==
  \A t, u \in Threads :
    /\ own[t] # NoConn /\ own[t] = own[u] => t = u
    /\ hand[t] # NoConn /\ hand[t] = hand[u] => t = u
    /\ own[t] # NoConn => own[t] # hand[u]

HandsOutsidePool ==
  \A t \in Threads, g \in Groups :
    /\ own[t] \notin connections[g] /\ own[t] \notin Elems(hot_queue[g])
    /\ hand[t] \notin connections[g] /\ hand[t] \notin Elems(hot_queue[g])

RequestsDistinct ==
  \A r \in Requests : conn[r] # NoConn =>
    /\ \A s \in Requests : conn[s] = conn[r] => s = r
    /\ \A t \in Threads : own[t] # conn[r] /\ hand[t] # conn[r]
    /\ \A g \in Groups :
         conn[r] \notin connections[g] /\ conn[r] \notin Elems(hot_queue[g])

ExclusiveOwnership ==
  StoresDisjoint /\ HandsDistinct /\ HandsOutsidePool /\ RequestsDistinct

-----------------------------------------------------------------------------
(* The mutex of a node's map is held exactly while its holder scans that
   node's hot queue: no return path of remove_connection leaves it locked,
   and what a scan has popped stays out of reach of every other removal. *)
Scanning(t) == pc[t] = "scan" \/ hand[t] # NoConn

ListLockDiscipline ==
  \A g \in Groups, t \in Threads :
    list_lock[g] = t <=> Scanning(t) /\ tgt[t].group = g

(* A pooled connection has an entry in some thread's LRU, unless a removal
   of it is on its way: otherwise no eviction could ever reach it and the
   pool would outgrow its LRUs.  It survives picks, returns on other threads
   and timers that act on an id that was pooled again meanwhile.  (An LRU
   that keeps no entry at all tracks nothing.) *)
Idling(g) == Pooled(g) \cup { hand[t] : t \in { u \in Threads :
                                 hand[u] # NoConn /\ tgt[u].group = g } }

Tracked(c) == \E t \in Threads : c \in Ids(lru[t])

PooledIsTracked ==
  SizeCapacity > 0 =>
    \A g \in Groups : \A c \in Idling(g) :
      \/ Tracked(c)
      \/ \E t \in Threads : tgt[t] # NoMeta /\ tgt[t].id = c

(* An idle timer waits only on connections that are in the pool or that a
   thread has just popped from it: a picked, evicted or closed connection has
   none that could later close its successor under the same descriptor. *)
TimerOnlyIfIdling ==
  \A c \in Conns : idle[c] # NoMeta =>
    /\ idle[c].id = c
    /\ \/ c \in Idling(idle[c].group)
       \/ \E t \in Threads : pc[t] = "pick_up" /\ own[t] = c

(* Every connection is idle or busy in its own group, and a request is only
   given a connection to the peer it asked for. *)
Available == UNION { Idling(g) \X {g} : g \in Groups }

Busy ==
  { <<own[t], grp[t]>> : t \in { u \in Threads : own[u] # NoConn } }
    \cup { <<conn[r], peer[r]>> : r \in { s \in Requests : conn[s] # NoConn } }

Abstract == INSTANCE IdlePool WITH available <- Available, busy <- Busy

ImplementsIdlePool == Abstract!Spec

(* An entry leaves the two stores of a node only into the hands of the thread
   that pops it, or, when it is dropped, because it is the one an eviction or
   an idle timer named: no pooled connection is lost. *)
LeavesPoolOnPurpose ==
  [][\A g \in Groups : \A c \in Idling(g) \ Idling(g)' :
       \/ \E t \in Threads : own'[t] = c /\ pc'[t] = "pick_up"
       \/ \E t \in Threads : tgt[t] = [id |-> c, group |-> g] /\ tgt'[t] = NoMeta
    ]_vars

(* Every pool operation a thread starts returns, with one exception: a removal
   that finds the hot queue full again when it gives back what it popped, and
   waits for the mutex it holds (remove_connection calls add_new_connection
   under its own lock).  Nothing else ever blocks a thread. *)
SelfDeadlock == \E t \in Threads : pc[t] = "insert" /\ Removing(t)

OperationsReturn ==
  \A t \in Threads : pc[t] # "idle" ~> (pc[t] = "idle" \/ SelfDeadlock)

-----------------------------------------------------------------------------
(* pool.rs:79: "any lock that is acquired in the functions will be unlocked
   when the function ends". *)
LocksAreReleased ==
  \A g \in Groups : list_lock[g] # NoThread ~> list_lock[g] = NoThread
=============================================================================
