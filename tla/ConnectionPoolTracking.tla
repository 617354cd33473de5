------------------------ MODULE ConnectionPoolTracking ------------------------
(***************************************************************************)
(* PooledIsTracked: an eviction can reach every pooled connection, for any *)
(* number of threads, requests, connections and groups.  It takes an       *)
(* argument on where in the hot queue a removal has got to: a connection   *)
(* whose entry an LRU gave up is removed by the operation that popped the  *)
(* entry, unless another thread pooled it again, with an entry of its own. *)
(***************************************************************************)
EXTENDS ConnectionPoolRefinement

USE DEF node_vars, lru_vars, req_vars, op_vars

Entry(c, g) == [id |-> c, group |-> g]

Removes(t) == pc[t] = "remove" \/ Scanning(t)

(* What is left of a scan of the hot queue comes to the connection. *)
Ahead(t, c, g) == \E i \in 1..Len(hot_queue[g]) : i <= left[t] /\ hot_queue[g][i] = c

(* A thread's LRU has the connection's entry, and is not about to pop it: a
   removal by an idle timer pops the id when it returns. *)
Keeps(t, c, g) ==
  /\ Entry(c, g) \in Elems(lru[t])
  /\ ~(Removes(t) /\ tgt[t].id = c /\ own[t] = NoConn)

(* A thread's removal of the connection will find it. *)
Seeks(t, c, g) ==
  /\ tgt[t] = Entry(c, g)
  /\ pc[t] = "remove" \/ (Scanning(t) /\ Ahead(t, c, g))

TrackInv ==
  SizeCapacity > 0 =>
    /\ \A g \in Groups : \A c \in Idling(g) :
         \E t \in Threads : Keeps(t, c, g) \/ Seeks(t, c, g)
    /\ \A t \in Threads : own[t] # NoConn /\ pc[t] # "pick_up" =>
         Entry(own[t], grp[t]) \in Elems(lru[t])

-----------------------------------------------------------------------------
(* What stays in an LruCache when an id is popped, an entry put, and the oldest
   one popped. *)
LEMMA WithoutKeeps ==
  ASSUME NEW cache \in Seq(Meta), NEW c, NEW m \in Elems(cache), m.id # c
  PROVE  m \in Elems(Without(cache, c))
<1>1. PICK j \in 1..Len(cache) : cache[j] = m
  BY DEF Elems
<1>2. CASE c \notin Ids(cache)
  BY <1>2 DEF Without
<1>3. CASE c \in Ids(cache)
  <2> DEFINE k == CHOOSE i \in 1..Len(cache) : cache[i].id = c
             s == [i \in 1..(Len(cache) - 1) |-> IF i < k THEN cache[i] ELSE cache[i + 1]]
  <2>1. Len(cache) \in Nat /\ Len(cache) - 1 \in Nat
    BY <1>1
  <2>2. k \in 1..Len(cache) /\ cache[k].id = c
    BY <1>3 DEF Ids
  <2>3. Without(cache, c) = s
    BY <1>3 DEF Without
  <2> HIDE DEF k
  <2>4. \A i \in 1..(Len(cache) - 1) : s[i] \in Meta
    BY <2>1, <2>2
  <2>5. Len(s) = Len(cache) - 1
    BY <2>1, <2>4
  <2>6. j # k
    BY <1>1, <2>2
  <2>7. CASE j < k
    BY <1>1, <2>1, <2>2, <2>3, <2>5, <2>7 DEF Elems
  <2>8. CASE j > k
    <3>1. j - 1 \in 1..Len(s) /\ s[j - 1] = m
      BY <1>1, <2>1, <2>2, <2>5, <2>8
    <3> HIDE DEF s
    <3> QED BY <2>3, <3>1 DEF Elems
  <2> QED BY <1>1, <2>2, <2>6, <2>7, <2>8
<1> QED BY <1>2, <1>3

LEMMA PutKeeps ==
  ASSUME NEW cache \in Seq(Meta), NEW m \in Meta
  PROVE  /\ Put(cache, m) \in Seq(Meta) /\ Len(Put(cache, m)) > 0
         /\ Put(cache, m)[Len(Put(cache, m))] = m
         /\ \A x \in Elems(cache) : x.id # m.id => x \in Elems(Put(cache, m))
<1> DEFINE w == Without(cache, m.id)
<1>1. w \in Seq(Meta)
  BY WithoutType
<1>2. \A x \in Elems(cache) : x.id # m.id => x \in Elems(w)
  BY WithoutKeeps
<1> HIDE DEF w
<1>3. Put(cache, m) = Append(w, m)
  BY DEF Put, w
<1>4. \A x \in Elems(w) : x \in Elems(Append(w, m))
  BY <1>1 DEF Elems
<1> QED BY <1>1, <1>2, <1>3, <1>4

LEMMA TailKeeps ==
  ASSUME NEW s \in Seq(Meta), Len(s) > 0
  PROVE  /\ \A x \in Elems(s) : x # Head(s) => x \in Elems(Tail(s))
         /\ Len(s) > 1 => s[Len(s)] \in Elems(Tail(s))
<1>1. Tail(s) \in Seq(Meta) /\ Len(Tail(s)) = Len(s) - 1 /\ Len(s) \in Nat
  BY DEF Elems
<1>2. \A i \in 2..Len(s) : i - 1 \in 1..Len(Tail(s)) /\ Tail(s)[i - 1] = s[i]
  BY <1>1
<1>3. \A i \in 2..Len(s) : s[i] \in Elems(Tail(s))
  BY <1>2 DEF Elems
<1>4. Head(s) = s[1]
  OBVIOUS
<1> QED BY <1>1, <1>3, <1>4 DEF Elems

-----------------------------------------------------------------------------
(* An idle connection is in one group, and in no other hands. *)
LEMMA IdlingAlone ==
  ASSUME Typing, ExclusiveOwnership, NEW g \in Groups, NEW c \in Idling(g)
  PROVE  /\ c \in Conns /\ c # NoConn
         /\ \A t \in Threads : own[t] # c
         /\ \A r \in Requests : conn[r] # c
         /\ \A h \in Groups : c \in Idling(h) => h = g
<1>0. /\ hot_queue \in [Groups -> Seq(Conns)] /\ connections \in [Groups -> SUBSET Conns]
      /\ hand \in [Threads -> Conns \cup {NoConn}] /\ own \in [Threads -> Conns \cup {NoConn}]
      /\ conn \in [Requests -> Conns \cup {NoConn}]
  BY DEF Typing, TypeOK
<1>1. ASSUME NEW h \in Groups, c \in Idling(h)
      PROVE  \/ c \in Elems(hot_queue[h]) \/ c \in connections[h]
             \/ \E u \in Threads : hand[u] # NoConn /\ hand[u] = c /\ tgt[u].group = h
  BY <1>1 DEF Idling, Pooled
<1>2. c \in Conns /\ c # NoConn
  BY <1>0, <1>1, PoolAssumption DEF Elems
<1>3. \A t \in Threads : own[t] # c
  BY <1>1, <1>2 DEF ExclusiveOwnership, HandsOutsidePool, HandsDistinct
<1>4. \A r \in Requests : conn[r] # c
  BY <1>1, <1>2 DEF ExclusiveOwnership, RequestsDistinct
<1>5. ASSUME NEW h \in Groups, c \in Idling(h), h # g
      PROVE  FALSE
  <2>1. CASE \E u \in Threads : hand[u] = c
    <3>1. PICK u \in Threads : hand[u] = c
      BY <2>1
    <3>2. \A k \in Groups : c \notin Elems(hot_queue[k]) /\ c \notin connections[k]
      BY <3>1 DEF ExclusiveOwnership, HandsOutsidePool
    <3>3. tgt[u].group = g /\ tgt[u].group = h
      BY <1>1, <1>2, <1>5, <3>1, <3>2 DEF ExclusiveOwnership, HandsDistinct
    <3> QED BY <1>5, <3>3
  <2>2. CASE ~\E u \in Threads : hand[u] = c
    <3>1. /\ c \in Elems(hot_queue[g]) \/ c \in connections[g]
          /\ c \in Elems(hot_queue[h]) \/ c \in connections[h]
      BY <1>1, <1>5, <2>2
    <3> QED BY <1>5, <3>1 DEF ExclusiveOwnership, StoresDisjoint
  <2> QED BY <2>1, <2>2
<1> QED BY <1>2, <1>3, <1>4, <1>5

-----------------------------------------------------------------------------
(* A step of one thread: what it must see to, of its own and of the hot queue
   that others scan. *)
Alone(t) ==
  \A u \in Threads \ {t} :
    /\ pc'[u] = pc[u] /\ own'[u] = own[u] /\ grp'[u] = grp[u] /\ tgt'[u] = tgt[u]
    /\ hand'[u] = hand[u] /\ left'[u] = left[u] /\ lru'[u] = lru[u]

LEMMA TrackFrame ==
  ASSUME TrackInv, SizeCapacity > 0, NEW t \in Threads, Alone(t),
         \A g \in Groups : \A c \in Idling(g)' : c \in Idling(g) \/ Keeps(t, c, g)',
         \A g \in Groups : \A c \in Idling(g)', u \in Threads \ {t} :
           Scanning(u) /\ tgt[u] = Entry(c, g) /\ Ahead(u, c, g) => Ahead(u, c, g)',
         \A g \in Groups : \A c \in Idling(g)' :
           c \in Idling(g) /\ (Keeps(t, c, g) \/ Seeks(t, c, g))
             => Keeps(t, c, g)' \/ Seeks(t, c, g)',
         own'[t] # NoConn /\ pc'[t] # "pick_up" => Entry(own'[t], grp'[t]) \in Elems(lru'[t])
  PROVE  TrackInv'
<1>1. ASSUME NEW g \in Groups, NEW c \in Idling(g)'
      PROVE  \E u \in Threads : Keeps(u, c, g)' \/ Seeks(u, c, g)'
  <2>1. CASE c \notin Idling(g)
    BY <1>1, <2>1
  <2>2. CASE c \in Idling(g)
    <3>1. PICK u \in Threads : Keeps(u, c, g) \/ Seeks(u, c, g)
      BY <2>2 DEF TrackInv
    <3>2. CASE u = t
      BY <1>1, <2>2, <3>1, <3>2
    <3>3. CASE u # t
      <4>1. /\ pc'[u] = pc[u] /\ own'[u] = own[u] /\ tgt'[u] = tgt[u]
            /\ hand'[u] = hand[u] /\ lru'[u] = lru[u]
        BY <3>3 DEF Alone
      <4>2. Scanning(u) /\ tgt[u] = Entry(c, g) /\ Ahead(u, c, g) => Ahead(u, c, g)'
        BY <1>1, <3>3
      <4> QED BY <3>1, <4>1, <4>2 DEF Keeps, Seeks, Removes, Scanning
    <3> QED BY <3>2, <3>3
  <2> QED BY <2>1, <2>2
<1>2. ASSUME NEW u \in Threads, own'[u] # NoConn, pc'[u] # "pick_up"
      PROVE  Entry(own'[u], grp'[u]) \in Elems(lru'[u])
  <2>1. CASE u # t
    BY <1>2, <2>1 DEF Alone, TrackInv
  <2> QED BY <1>2, <2>1
<1> QED BY <1>1, <1>2 DEF TrackInv

(* A hot queue that keeps what it has, or gets more behind it. *)
LEMMA AheadKept ==
  ASSUME TypeOK, NEW u \in Threads, NEW g \in Groups, NEW c, Ahead(u, c, g),
         left'[u] = left[u],
         \/ hot_queue'[g] = hot_queue[g]
         \/ \E x \in Conns : hot_queue'[g] = Append(hot_queue[g], x)
         \/ hot_queue'[g] = Tail(hot_queue[g]) /\ c # Head(hot_queue[g])
  PROVE  Ahead(u, c, g)'
<1>0. hot_queue[g] \in Seq(Conns) /\ left[u] \in Nat
  BY DEF TypeOK
<1>1. PICK i \in 1..Len(hot_queue[g]) : i <= left[u] /\ hot_queue[g][i] = c
  BY DEF Ahead
<1>2. CASE hot_queue'[g] = hot_queue[g]
  BY <1>1, <1>2 DEF Ahead
<1>3. CASE \E x \in Conns : hot_queue'[g] = Append(hot_queue[g], x)
  <2>1. PICK x \in Conns : hot_queue'[g] = Append(hot_queue[g], x)
    BY <1>3
  <2>2. i \in 1..Len(hot_queue'[g]) /\ hot_queue'[g][i] = c
    BY <1>0, <1>1, <2>1
  <2> QED BY <1>1, <2>2 DEF Ahead
<1>4. CASE hot_queue'[g] = Tail(hot_queue[g]) /\ c # Head(hot_queue[g])
  <2>1. i # 1
    BY <1>0, <1>1, <1>4
  <2>2. i - 1 \in 1..Len(hot_queue'[g]) /\ hot_queue'[g][i - 1] = c /\ i - 1 <= left[u]
    BY <1>0, <1>1, <1>4, <2>1
  <2> QED BY <2>2 DEF Ahead
<1> QED BY <1>2, <1>3, <1>4

-----------------------------------------------------------------------------
(* The steps of TrackInv, for LRUs that keep anything. *)
Tracking ==
  /\ Typing /\ ExclusiveOwnership /\ ListLockDiscipline /\ NodeInv /\ TimerInv
  /\ TrackInv /\ SizeCapacity > 0

LEMMA StateIs ==
  ASSUME Typing
  PROVE  /\ pc \in [Threads -> Steps] /\ own \in [Threads -> Conns \cup {NoConn}]
         /\ grp \in [Threads -> Groups] /\ tgt \in [Threads -> Meta \cup {NoMeta}]
         /\ hand \in [Threads -> Conns \cup {NoConn}] /\ left \in [Threads -> Nat]
         /\ lru \in [Threads -> Seq(Meta)] /\ hot_queue \in [Groups -> Seq(Conns)]
BY DEF Typing, TypeOK, Steps

LEMMA TrackLooking ==
  ASSUME Tracking, NEW t \in Threads,
         Looking(t) \/ NewNode(t) \/ \E r \in Requests, g \in Groups : StartFind(t, r, g)
  PROVE  TrackInv'
<1> USE DEF Tracking
<1>0. /\ pc \in [Threads -> Steps] /\ own \in [Threads -> Conns \cup {NoConn}]
      /\ grp \in [Threads -> Groups] /\ tgt \in [Threads -> Meta \cup {NoMeta}]
      /\ hand \in [Threads -> Conns \cup {NoConn}] /\ left \in [Threads -> Nat]
      /\ lru \in [Threads -> Seq(Meta)] /\ hot_queue \in [Groups -> Seq(Conns)]
  BY StateIs
<1>1. Stay
  BY Staying DEF Settled, Serving
<1>2. /\ Alone(t) /\ hand' = hand /\ left' = left /\ tgt' = tgt
      /\ Removes(t)' <=> Removes(t)
      /\ pc'[t] # "remove"
  <2>1. /\ UNCHANGED <<hand, left, tgt>> /\ pc[t] \notin {"remove", "scan"}
        /\ \E to \in Steps \ {"remove", "scan"} : pc' = [pc EXCEPT ![t] = to]
        /\ own' = own \/ own' = [own EXCEPT ![t] = NoConn]
        /\ grp' = grp \/ \E g : grp' = [grp EXCEPT ![t] = g]
        /\ lru' = lru \/ lru' = [lru EXCEPT ![t] = Without(lru[t], own[t])]
    BY DEF Looking, FindNoNode, Miss, HotQueueEmpty, ListEmpty, PickUp, GetNode, HotQueueFull,
           NewNode, StartFind, Steps
  <2>2. Alone(t)
    BY <1>0, <2>1 DEF Alone
  <2>3. Removes(t)' <=> Removes(t)
    BY <1>0, <2>1 DEF Removes, Scanning
  <2> QED BY <1>0, <2>1, <2>2, <2>3
<1>3. hot_queue' = hot_queue
  <2>1. CASE NewNode(t) /\ grp[t] \notin nodes
    <3>1. grp[t] \in Groups \ nodes
      BY <1>0, <2>1
    <3>2. hot_queue[grp[t]] = <<>>
      BY <3>1 DEF NodeInv
    <3>3. hot_queue' = [hot_queue EXCEPT ![grp[t]] = hot_queue[grp[t]]]
      BY <2>1, <3>2 DEF NewNode
    <3> QED BY <1>0, <3>1, <3>3
  <2>2. CASE ~(NewNode(t) /\ grp[t] \notin nodes)
    BY <2>2 DEF Looking, FindNoNode, Miss, HotQueueEmpty, ListEmpty, PickUp, GetNode,
                HotQueueFull, NewNode, StartFind
  <2> QED BY <2>1, <2>2
<1>4. CASE PickUp(t)
  <2>1. /\ pc[t] = "pick_up" /\ hand[t] = NoConn /\ own'[t] = NoConn
        /\ lru'[t] = Without(lru[t], own[t]) /\ lru[t] \in Seq(Meta)
    BY <1>0, <1>4 DEF PickUp, Typing, StepInv
  <2>2. ASSUME NEW g \in Groups, NEW c \in Idling(g), Keeps(t, c, g) \/ Seeks(t, c, g)
        PROVE  Keeps(t, c, g)'
    <3>1. Entry(c, g) \in Elems(lru[t]) /\ ~Removes(t)
      BY <2>1, <2>2 DEF Keeps, Seeks, Removes, Scanning
    <3>2. own[t] # c
      BY IdlingAlone
    <3>3. Entry(c, g).id # own[t]
      BY <3>2 DEF Entry
    <3>4. Entry(c, g) \in Elems(lru'[t])
      BY <2>1, <3>1, <3>3, WithoutKeeps
    <3> QED BY <1>2, <3>1, <3>4 DEF Keeps
  <2>3. \A g \in Groups : \A c \in Idling(g)', u \in Threads \ {t} : Ahead(u, c, g) => Ahead(u, c, g)'
    BY <1>2, <1>3 DEF Ahead
  <2> QED BY <1>1, <1>2, <2>1, <2>2, <2>3, TrackFrame DEF Stay
<1>5. CASE ~PickUp(t)
  <2>1. /\ lru' = lru /\ own' = own /\ pc[t] # "pick_up"
        /\ own[t] # NoConn => grp' = grp
    <3>1. CASE Looking(t) \/ NewNode(t)
      BY <1>5, <3>1 DEF Looking, FindNoNode, Miss, HotQueueEmpty, ListEmpty, GetNode,
                        HotQueueFull, NewNode
    <3>2. CASE \E r \in Requests, g \in Groups : StartFind(t, r, g)
      BY <3>2 DEF StartFind, Typing, StepInv
    <3> QED BY <3>1, <3>2
  <2>2. ASSUME NEW g \in Groups, NEW c, Keeps(t, c, g) \/ Seeks(t, c, g)
        PROVE  Keeps(t, c, g)' \/ Seeks(t, c, g)'
    <3>1. CASE Keeps(t, c, g)
      BY <1>2, <2>1, <3>1 DEF Keeps
    <3>2. CASE Seeks(t, c, g)
      <4>1. pc[t] # "remove"
        BY DEF Looking, FindNoNode, Miss, HotQueueEmpty, ListEmpty, PickUp, GetNode,
               HotQueueFull, NewNode, StartFind
      <4>2. Scanning(t) /\ Removes(t) /\ Ahead(t, c, g)
        BY <3>2, <4>1 DEF Seeks, Removes
      <4>3. Scanning(t)'
        BY <1>2, <4>2 DEF Removes
      <4> QED BY <1>2, <1>3, <3>2, <4>2, <4>3 DEF Seeks, Ahead
    <3> QED BY <2>2, <3>1, <3>2
  <2>3. \A g \in Groups : \A c \in Idling(g)', u \in Threads \ {t} : Ahead(u, c, g) => Ahead(u, c, g)'
    BY <1>2, <1>3 DEF Ahead
  <2>4. own'[t] # NoConn /\ pc'[t] # "pick_up" => Entry(own'[t], grp'[t]) \in Elems(lru'[t])
    BY <2>1 DEF TrackInv
  <2> QED BY <1>1, <1>2, <2>2, <2>3, <2>4, TrackFrame DEF Stay
<1> QED BY <1>4, <1>5

LEMMA TrackTaking ==
  ASSUME Tracking, NEW t \in Threads, TakeHot(t) \/ TakeListed(t)
  PROVE  TrackInv'
<1> USE DEF Tracking
<1>0. /\ pc \in [Threads -> Steps] /\ own \in [Threads -> Conns \cup {NoConn}]
      /\ grp \in [Threads -> Groups] /\ tgt \in [Threads -> Meta \cup {NoMeta}]
      /\ hand \in [Threads -> Conns \cup {NoConn}] /\ left \in [Threads -> Nat]
      /\ lru \in [Threads -> Seq(Meta)] /\ hot_queue \in [Groups -> Seq(Conns)]
  BY StateIs
<1>1. PICK d \in Conns : /\ Loses(d, grp[t]) /\ own' = [own EXCEPT ![t] = d]
                         /\ pc' = [pc EXCEPT ![t] = "pick_up"]
  BY Taking
<1>2. /\ Alone(t) /\ hand' = hand /\ tgt' = tgt /\ left' = left /\ lru' = lru /\ grp' = grp
      /\ own'[t] = d /\ pc'[t] = "pick_up" /\ hand[t] = NoConn /\ pc[t] \in {"find_hot", "find_list"}
  <2>1. /\ UNCHANGED <<hand, tgt, left, lru, grp>> /\ pc[t] \in {"find_hot", "find_list"}
    BY DEF TakeHot, TakeListed
  <2>2. hand[t] = NoConn
    BY <2>1 DEF Typing, StepInv
  <2> QED BY <1>0, <1>1, <2>1, <2>2 DEF Alone
<1>3. ASSUME NEW g \in Groups, NEW c \in Idling(g)'
      PROVE  c \in Idling(g) /\ (g = grp[t] => c # d)
  BY <1>1, <1>3 DEF Loses
<1>4. ASSUME NEW g \in Groups, NEW c \in Idling(g)', NEW u \in Threads \ {t}, Ahead(u, c, g)
      PROVE  Ahead(u, c, g)'
  <2>1. \/ hot_queue'[g] = hot_queue[g]
        \/ hot_queue'[g] = Tail(hot_queue[g]) /\ Head(hot_queue[g]) = d /\ g = grp[t]
    BY <1>0, <1>1, <1>2 DEF TakeHot, TakeListed
  <2> QED BY <1>2, <1>3, <1>4, <2>1, AheadKept DEF Typing
<1>5. ASSUME NEW g \in Groups, NEW c \in Idling(g)', Keeps(t, c, g) \/ Seeks(t, c, g)
      PROVE  Keeps(t, c, g)'
  BY <1>2, <1>5 DEF Keeps, Seeks, Removes, Scanning
<1> QED BY <1>2, <1>3, <1>4, <1>5, TrackFrame

LEMMA TrackAdding ==
  ASSUME Tracking, NEW t \in Threads, PushHot(t) \/ InsertList(t)
  PROVE  TrackInv'
<1> USE DEF Tracking
<1>0. /\ pc \in [Threads -> Steps] /\ own \in [Threads -> Conns \cup {NoConn}]
      /\ grp \in [Threads -> Groups] /\ tgt \in [Threads -> Meta \cup {NoMeta}]
      /\ hand \in [Threads -> Conns \cup {NoConn}] /\ left \in [Threads -> Nat]
      /\ lru \in [Threads -> Seq(Meta)] /\ hot_queue \in [Groups -> Seq(Conns)]
  BY StateIs
<1>1. /\ Carried(t) \in Conns /\ NodeOf(t) \in Groups
      /\ IF Removing(t) THEN Stay ELSE Gains(own[t], grp[t])
      /\ Removing(t) => own' = own /\ pc' = [pc EXCEPT ![t] = "scan"]
      /\ ~Removing(t) => own' = [own EXCEPT ![t] = NoConn] /\ pc' = [pc EXCEPT ![t] = "idle"]
  BY Adding
<1>2. /\ Alone(t) /\ tgt' = tgt /\ left' = left /\ lru' = lru /\ grp' = grp
      /\ pc[t] \in {"push", "insert"}
      /\ hand' = IF Removing(t) THEN [hand EXCEPT ![t] = NoConn] ELSE hand
  <2>1. /\ UNCHANGED <<tgt, left, lru, grp>> /\ AddReturns(t) /\ pc[t] \in {"push", "insert"}
    BY DEF PushHot, InsertList
  <2>2. hand' = IF Removing(t) THEN [hand EXCEPT ![t] = NoConn] ELSE hand
    BY <2>1 DEF AddReturns
  <2>3. Alone(t)
    BY <1>0, <1>1, <2>1, <2>2 DEF Alone
  <2> QED BY <2>1, <2>2, <2>3
<1>3. ASSUME NEW g \in Groups, NEW c, NEW u \in Threads, Ahead(u, c, g)
      PROVE  Ahead(u, c, g)'
  <2>1. hot_queue'[g] = hot_queue[g] \/ hot_queue'[g] = Append(hot_queue[g], Carried(t))
    BY <1>0, <1>1 DEF PushHot, InsertList
  <2> QED BY <1>1, <1>2, <1>3, <2>1, AheadKept DEF Typing
<1>4. CASE Removing(t)
  <2>1. Scanning(t) /\ Scanning(t)' /\ own' = own /\ pc[t] # "remove"
    BY <1>0, <1>1, <1>2, <1>4 DEF Removing, Scanning
  <2>2. ASSUME NEW g \in Groups, NEW c, Keeps(t, c, g) \/ Seeks(t, c, g)
        PROVE  Keeps(t, c, g)' \/ Seeks(t, c, g)'
    BY <1>2, <1>3, <2>1, <2>2 DEF Keeps, Seeks, Removes
  <2>3. own'[t] # NoConn /\ pc'[t] # "pick_up" => Entry(own'[t], grp'[t]) \in Elems(lru'[t])
    BY <1>2, <2>1 DEF TrackInv
  <2> QED BY <1>1, <1>2, <1>3, <1>4, <2>2, <2>3, TrackFrame DEF Stay
<1>5. CASE ~Removing(t)
  <2>1. hand[t] = NoConn /\ hand'[t] = NoConn /\ pc'[t] = "idle" /\ own'[t] = NoConn /\ own[t] # NoConn
    BY <1>0, <1>1, <1>2, <1>5 DEF Removing, Typing, StepInv
  <2>2. ~Removes(t) /\ ~Removes(t)'
    BY <1>2, <2>1 DEF Removes, Scanning
  <2>3. ASSUME NEW g \in Groups, NEW c \in Idling(g)'
        PROVE  c \in Idling(g) \/ Keeps(t, c, g)'
    <3>1. Entry(own[t], grp[t]) \in Elems(lru[t])
      BY <1>2, <2>1 DEF TrackInv
    <3>2. c \in Idling(g) \/ (c = own[t] /\ g = grp[t])
      BY <1>1, <1>5, <2>3 DEF Gains
    <3>3. CASE c = own[t] /\ g = grp[t]
      BY <1>2, <2>2, <3>1, <3>3 DEF Keeps
    <3> QED BY <3>2, <3>3
  <2>4. ASSUME NEW g \in Groups, NEW c, Keeps(t, c, g) \/ Seeks(t, c, g)
        PROVE  Keeps(t, c, g)'
    <3>1. Keeps(t, c, g)
      BY <1>2, <2>2, <2>4 DEF Seeks, Removes
    <3> QED BY <1>2, <2>2, <3>1 DEF Keeps
  <2> QED BY <1>2, <1>3, <2>1, <2>3, <2>4, TrackFrame
<1> QED BY <1>4, <1>5

(* The timer of a connection names it where it is. *)
LEMMA TrackTimeout ==
  ASSUME Tracking, NEW t \in Threads, NEW d \in Conns, IdleTimeout(t, d)
  PROVE  TrackInv'
<1> USE DEF Tracking
<1>0. /\ pc \in [Threads -> Steps] /\ own \in [Threads -> Conns \cup {NoConn}]
      /\ tgt \in [Threads -> Meta \cup {NoMeta}] /\ idle \in [Conns -> Meta \cup {NoMeta}]
  BY DEF Typing, TypeOK, Steps
<1>1. Stay
  BY Staying DEF Settled
<1>2. /\ UNCHANGED <<hand, left, lru, grp, own, hot_queue>> /\ pc[t] = "idle"
      /\ tgt' = [tgt EXCEPT ![t] = idle[d]] /\ pc' = [pc EXCEPT ![t] = "remove"]
      /\ idle[d] \in Meta /\ idle[d].id = d /\ own[t] = NoConn /\ hand[t] = NoConn
  BY <1>0 DEF IdleTimeout, TimerInv, Typing, StepInv
<1>3. Alone(t)
  BY <1>0, <1>2 DEF Alone
<1>4. ASSUME NEW g \in Groups, NEW c \in Idling(g), Keeps(t, c, g) \/ Seeks(t, c, g)
      PROVE  Keeps(t, c, g)' \/ Seeks(t, c, g)'
  <2>1. Keeps(t, c, g)
    BY <1>2, <1>4 DEF Seeks, Scanning
  <2>2. CASE c = d
    <3>1. idle[d].group = g
      <4>1. own[t] # d /\ \A u \in Threads : own[u] # d
        BY <2>2, IdlingAlone
      <4>2. PICK h \in Groups : idle[d].group = h /\ d \in Idling(h)
        BY <1>2, <4>1, NoMetaAssumption DEF TimerInv
      <4> QED BY <2>2, <4>2, IdlingAlone
    <3>2. tgt'[t] = Entry(c, g) /\ pc'[t] = "remove"
      BY <1>0, <1>2, <2>2, <3>1 DEF Meta, Entry
    <3> QED BY <3>2 DEF Seeks
  <2>3. CASE c # d
    <3>1. tgt'[t].id = d /\ lru' = lru
      BY <1>0, <1>2
    <3> QED BY <2>1, <2>3, <3>1 DEF Keeps
  <2> QED BY <2>2, <2>3
<1>5. \A g \in Groups : \A c \in Idling(g)', u \in Threads \ {t} : Ahead(u, c, g) => Ahead(u, c, g)'
  BY <1>2 DEF Ahead
<1> QED BY <1>1, <1>2, <1>3, <1>4, <1>5, TrackFrame DEF Stay

(* A removal that returns has found what it was to find. *)
LEMMA TrackRemoved ==
  ASSUME Tracking, NEW t \in Threads,
         RemoveNoNode(t) \/ RemoveListed(t) \/ ScanEnds(t) \/ ScanFinds(t)
  PROVE  TrackInv'
<1> USE DEF Tracking
<1>0. /\ pc \in [Threads -> Steps] /\ own \in [Threads -> Conns \cup {NoConn}]
      /\ grp \in [Threads -> Groups] /\ tgt \in [Threads -> Meta \cup {NoMeta}]
      /\ hand \in [Threads -> Conns \cup {NoConn}] /\ left \in [Threads -> Nat]
      /\ lru \in [Threads -> Seq(Meta)] /\ hot_queue \in [Groups -> Seq(Conns)]
  BY StateIs
<1>1. /\ RemoveReturns(t) /\ UNCHANGED <<grp, own, hand>> /\ pc[t] \in {"remove", "scan"}
      /\ hand[t] = NoConn /\ tgt[t] \in Meta
  BY <1>0 DEF RemoveNoNode, RemoveListed, ScanEnds, ScanFinds, Typing, StepInv
<1>2. /\ Removes(t) /\ ~Removes(t)'
      /\ own[t] # NoConn => lru' = lru
      /\ own[t] = NoConn => lru'[t] = Without(lru[t], tgt[t].id)
  BY <1>0, <1>1 DEF RemoveReturns, Removes, Scanning
<1>3. Alone(t)
  BY <1>0, <1>1 DEF Alone, RemoveReturns
<1>4. \/ Stay
      \/ /\ RemoveListed(t) \/ ScanFinds(t)
         /\ Loses(tgt[t].id, tgt[t].group)
  BY Staying, Dropping DEF Settled
<1>5. ASSUME NEW g \in Groups, NEW c \in Idling(g)'
      PROVE  c \in Idling(g)
  BY <1>4, <1>5 DEF Stay, Loses
<1>6. ASSUME NEW g \in Groups, NEW c \in Idling(g)', Seeks(t, c, g)
      PROVE  FALSE
  <2>1. tgt[t].id = c /\ tgt[t].group = g
    BY <1>6 DEF Seeks, Entry
  <2>2. CASE RemoveNoNode(t)
    <3>1. g \in Groups \ nodes
      BY <2>1, <2>2 DEF RemoveNoNode
    <3>2. hot_queue[g] = <<>> /\ connections[g] = {}
      BY <3>1 DEF NodeInv
    <3>3. \A u \in Threads : hand[u] # NoConn => tgt[u].group # g
      BY <3>1 DEF NodeInv, Scanning
    <3>4. Idling(g) = {}
      BY <3>2, <3>3 DEF Idling, Pooled, Elems
    <3> QED BY <1>5, <1>6, <3>4
  <2>3. CASE ScanEnds(t)
    <3>1. pc[t] = "scan" /\ (left[t] = 0 \/ hot_queue[g] = <<>>)
      BY <2>1, <2>3 DEF ScanEnds
    <3>2. Ahead(t, c, g)
      BY <1>6, <3>1 DEF Seeks
    <3> QED BY <1>0, <3>1, <3>2 DEF Ahead
  <2>4. CASE RemoveListed(t) \/ ScanFinds(t)
    <3>1. Loses(tgt[t].id, tgt[t].group)
      BY <2>4, Dropping
    <3> QED BY <1>6, <2>1, <3>1 DEF Loses
  <2> QED BY <2>2, <2>3, <2>4
<1>7. ASSUME NEW g \in Groups, NEW c \in Idling(g)', Keeps(t, c, g)
      PROVE  Keeps(t, c, g)'
  <2>1. CASE own[t] # NoConn
    BY <1>1, <1>2, <1>7, <2>1 DEF Keeps
  <2>2. CASE own[t] = NoConn
    <3>1. Entry(c, g) \in Elems(lru[t]) /\ tgt[t].id # c
      BY <1>2, <1>7, <2>2 DEF Keeps
    <3>2. Entry(c, g).id # tgt[t].id /\ lru[t] \in Seq(Meta)
      BY <1>0, <3>1 DEF Entry
    <3>3. Entry(c, g) \in Elems(lru'[t])
      BY <1>2, <2>2, <3>1, <3>2, WithoutKeeps
    <3> QED BY <1>2, <3>3 DEF Keeps
  <2> QED BY <2>1, <2>2
<1>8. ASSUME NEW g \in Groups, NEW c \in Idling(g)', NEW u \in Threads \ {t}, Ahead(u, c, g)
      PROVE  Ahead(u, c, g)'
  <2>1. CASE ScanFinds(t)
    <3>1. \/ hot_queue'[g] = hot_queue[g]
          \/ /\ hot_queue'[g] = Tail(hot_queue[g])
             /\ Head(hot_queue[g]) = tgt[t].id /\ g = tgt[t].group
      BY <1>0, <2>1 DEF ScanFinds
    <3>2. g = tgt[t].group => c # tgt[t].id
      BY <1>8, <2>1, Dropping DEF Loses
    <3> QED BY <1>3, <1>8, <3>1, <3>2, AheadKept DEF Alone, Typing
  <2>2. CASE ~ScanFinds(t)
    <3>1. hot_queue' = hot_queue
      BY <2>2 DEF RemoveNoNode, RemoveListed, ScanEnds
    <3> QED BY <1>3, <1>8, <3>1, AheadKept DEF Alone, Typing
  <2> QED BY <2>1, <2>2
<1>9. own'[t] # NoConn /\ pc'[t] # "pick_up" => Entry(own'[t], grp'[t]) \in Elems(lru'[t])
  BY <1>1, <1>2 DEF TrackInv
<1> QED BY <1>3, <1>5, <1>6, <1>7, <1>8, <1>9, TrackFrame

(* A removal that goes on has what it looks for before it. *)
LEMMA TrackScan ==
  ASSUME Tracking, NEW t \in Threads, StartScan(t) \/ ScanTakesOther(t)
  PROVE  TrackInv'
<1> USE DEF Tracking
<1>0. /\ pc \in [Threads -> Steps] /\ own \in [Threads -> Conns \cup {NoConn}]
      /\ grp \in [Threads -> Groups] /\ tgt \in [Threads -> Meta \cup {NoMeta}]
      /\ hand \in [Threads -> Conns \cup {NoConn}] /\ left \in [Threads -> Nat]
      /\ lru \in [Threads -> Seq(Meta)] /\ hot_queue \in [Groups -> Seq(Conns)]
  BY StateIs
<1>1. Stay
  BY Staying DEF Settled
<1>2. /\ UNCHANGED <<lru, grp, own, tgt>> /\ pc[t] \in {"remove", "scan"} /\ hand[t] = NoConn
      /\ tgt[t] \in Meta
  BY <1>0 DEF StartScan, ScanTakesOther, Typing, StepInv
<1>3. Alone(t)
  BY <1>0 DEF Alone, StartScan, ScanTakesOther
<1>4. Removes(t) /\ Scanning(t)'
  <2>1. CASE StartScan(t)
    BY <1>0, <2>1 DEF StartScan, Removes, Scanning
  <2>2. CASE ScanTakesOther(t)
    <3>1. Head(hot_queue[tgt[t].group]) \in Conns
      BY <1>0, <1>2, <2>2 DEF ScanTakesOther, Meta
    <3>2. hand'[t] # NoConn
      BY <1>0, <2>2, <3>1, PoolAssumption DEF ScanTakesOther
    <3> QED BY <1>2, <3>2 DEF Removes, Scanning
  <2> QED BY <2>1, <2>2
<1>5. ASSUME NEW g \in Groups, NEW c \in Idling(g), Seeks(t, c, g)
      PROVE  Ahead(t, c, g)'
  <2>0. tgt[t].id = c /\ tgt[t].group = g
    BY <1>5 DEF Seeks, Entry
  <2>1. CASE StartScan(t)
    <3>1. /\ left'[t] = Len(hot_queue[g]) /\ hot_queue' = hot_queue
          /\ list_lock[g] = NoThread /\ c \notin connections[g]
      BY <1>0, <2>0, <2>1 DEF StartScan
    <3>2. \A u \in Threads : hand[u] # NoConn => tgt[u].group # g
      BY <3>1, PoolAssumption DEF ListLockDiscipline, Scanning
    <3>3. c \in Elems(hot_queue[g])
      BY <1>5, <3>1, <3>2 DEF Idling, Pooled
    <3> QED BY <1>0, <3>1, <3>3 DEF Ahead, Elems
  <2>2. CASE ScanTakesOther(t)
    <3>1. /\ left'[t] = left[t] - 1 /\ hot_queue'[g] = Tail(hot_queue[g])
          /\ Head(hot_queue[g]) # c /\ pc[t] = "scan"
      BY <1>0, <2>0, <2>2 DEF ScanTakesOther
    <3>2. PICK i \in 1..Len(hot_queue[g]) : i <= left[t] /\ hot_queue[g][i] = c
      BY <1>5, <3>1 DEF Seeks, Ahead
    <3>3. hot_queue[g] \in Seq(Conns) /\ i # 1
      BY <1>0, <3>1, <3>2
    <3>4. i - 1 \in 1..Len(hot_queue'[g]) /\ hot_queue'[g][i - 1] = c
      BY <3>1, <3>2, <3>3
    <3>5. i - 1 <= left'[t]
      BY <1>0, <3>1, <3>2
    <3> QED BY <3>4, <3>5 DEF Ahead
  <2> QED BY <2>1, <2>2
<1>6. ASSUME NEW g \in Groups, NEW c \in Idling(g)', Keeps(t, c, g) \/ Seeks(t, c, g)
      PROVE  Keeps(t, c, g)' \/ Seeks(t, c, g)'
  <2>1. c \in Idling(g)
    BY <1>1, <1>6 DEF Stay
  <2>2. CASE Keeps(t, c, g)
    BY <1>2, <1>4, <2>2 DEF Keeps
  <2>3. CASE Seeks(t, c, g)
    BY <1>2, <1>4, <1>5, <2>1, <2>3 DEF Seeks
  <2> QED BY <1>6, <2>2, <2>3
<1>7. ASSUME NEW g \in Groups, NEW c, NEW u \in Threads \ {t},
             Scanning(u), tgt[u] = Entry(c, g), Ahead(u, c, g)
      PROVE  Ahead(u, c, g)'
  <2>1. hot_queue'[g] = hot_queue[g]
    <3>1. CASE StartScan(t)
      BY <3>1 DEF StartScan
    <3>2. CASE ScanTakesOther(t)
      <4>1. tgt[t].group # g
        <5>1. tgt[u].group = g /\ Scanning(t)
          BY <1>7, <3>2 DEF Entry, ScanTakesOther, Scanning
        <5> QED BY <1>7, <5>1 DEF ListLockDiscipline
      <4> QED BY <1>0, <3>2, <4>1 DEF ScanTakesOther
    <3> QED BY <3>1, <3>2
  <2> QED BY <1>3, <1>7, <2>1, AheadKept DEF Alone, Typing
<1>8. own'[t] # NoConn /\ pc'[t] # "pick_up" => Entry(own'[t], grp'[t]) \in Elems(lru'[t])
  BY <1>2 DEF TrackInv
<1> QED BY <1>1, <1>3, <1>6, <1>7, <1>8, TrackFrame DEF Stay

(* A stream that is returned gets its entry, and keeps it if the LRU keeps any;
   an entry that has to go is what the thread then removes. *)
LEMMA TrackReturn ==
  ASSUME Tracking, NEW t \in Threads, NEW r \in Requests,
         StartReturn(t, r) \/ StartReturnEvicting(t, r)
  PROVE  TrackInv'
<1> USE DEF Tracking
<1> DEFINE m     == MetaOf(r)
           cache == Put(lru[t], m)
<1>0. /\ pc \in [Threads -> Steps] /\ own \in [Threads -> Conns \cup {NoConn}]
      /\ grp \in [Threads -> Groups] /\ tgt \in [Threads -> Meta \cup {NoMeta}]
      /\ hand \in [Threads -> Conns \cup {NoConn}] /\ left \in [Threads -> Nat]
      /\ lru \in [Threads -> Seq(Meta)] /\ hot_queue \in [Groups -> Seq(Conns)]
  BY StateIs
<1>1. Stay
  BY Staying DEF Serving
<1>2. /\ UNCHANGED <<hot_queue, hand, left>> /\ pc[t] = "idle" /\ hand[t] = NoConn
      /\ own' = [own EXCEPT ![t] = conn[r]] /\ grp' = [grp EXCEPT ![t] = peer[r]]
      /\ phase[r] = "proxying"
  BY DEF StartReturn, StartReturnEvicting, Returning, Typing, StepInv
<1>3. /\ conn[r] \in Conns /\ conn[r] # NoConn /\ m \in Meta /\ m = Entry(conn[r], peer[r])
      /\ m.id = conn[r]
  BY <1>2, PoolAssumption DEF Typing, TypeOK, ProxyInv, Meta, MetaOf, Entry
<1>4. /\ cache \in Seq(Meta) /\ Len(cache) > 0 /\ cache[Len(cache)] = m
      /\ \A x \in Elems(lru[t]) : x.id # m.id => x \in Elems(cache)
  BY <1>0, <1>3, PutKeeps
<1>5. /\ Alone(t) /\ own'[t] = conn[r] /\ grp'[t] = peer[r]
  BY <1>0, <1>2 DEF Alone, StartReturn, StartReturnEvicting
<1>6. \A g \in Groups : \A c \in Idling(g)', u \in Threads \ {t} : Ahead(u, c, g) => Ahead(u, c, g)'
  BY <1>2 DEF Ahead
<1>7. ASSUME NEW g \in Groups, NEW c \in Idling(g), Keeps(t, c, g) \/ Seeks(t, c, g)
      PROVE  Entry(c, g) \in Elems(cache)
  <2>1. Entry(c, g) \in Elems(lru[t])
    BY <1>2, <1>7 DEF Keeps, Seeks, Scanning
  <2>2. Entry(c, g).id # m.id
    BY <1>3, IdlingAlone DEF Entry
  <2> QED BY <1>4, <2>1, <2>2
<1> HIDE DEF m, cache
<1>8. CASE StartReturn(t, r)
  <2>1. lru'[t] = cache /\ pc'[t] = "get_node"
    BY <1>0, <1>8 DEF StartReturn, m, cache
  <2>2. ~Removes(t)'
    BY <1>2, <2>1 DEF Removes, Scanning
  <2>3. Entry(own'[t], grp'[t]) \in Elems(lru'[t])
    BY <1>3, <1>4, <1>5, <2>1 DEF Elems
  <2>4. \A g \in Groups : \A c \in Idling(g) :
          Keeps(t, c, g) \/ Seeks(t, c, g) => Keeps(t, c, g)'
    BY <1>7, <2>1, <2>2 DEF Keeps
  <2> QED BY <1>1, <1>5, <1>6, <2>3, <2>4, TrackFrame DEF Stay
<1>9. CASE StartReturnEvicting(t, r)
  <2>1. /\ lru'[t] = Tail(cache) /\ tgt'[t] = Head(cache) /\ pc'[t] = "remove"
        /\ Len(cache) > SizeCapacity
    BY <1>0, <1>9 DEF StartReturnEvicting, m, cache
  <2>2. Entry(own'[t], grp'[t]) \in Elems(lru'[t])
    BY <1>3, <1>4, <1>5, <2>1, TailKeeps, PoolAssumption
  <2>3. ASSUME NEW g \in Groups, NEW c \in Idling(g), Keeps(t, c, g) \/ Seeks(t, c, g)
        PROVE  Keeps(t, c, g)' \/ Seeks(t, c, g)'
    <3>1. CASE Entry(c, g) = Head(cache)
      BY <2>1, <3>1 DEF Seeks
    <3>2. CASE Entry(c, g) # Head(cache)
      <4>1. Entry(c, g) \in Elems(lru'[t])
        BY <1>4, <1>7, <2>1, <2>3, <3>2, TailKeeps
      <4> QED BY <1>3, <1>5, <4>1 DEF Keeps
    <3> QED BY <3>1, <3>2
  <2> QED BY <1>1, <1>5, <1>6, <2>2, <2>3, TrackFrame DEF Stay
<1> QED BY <1>8, <1>9

-----------------------------------------------------------------------------
LEMMA TrackStep ==
  ASSUME IInv, TrackInv, [Next]_vars
  PROVE  TrackInv'
<1>1. CASE SizeCapacity > 0
  <2>1. Tracking
    BY <1>1 DEF IInv, Tracking
  <2>2. ASSUME NEW t \in Threads, Continue(t)
        PROVE  TrackInv'
    BY <2>1, <2>2, TrackLooking, TrackTaking, TrackAdding, TrackRemoved, TrackScan
       DEF Continue, Find, Add, Remove, Looking
  <2>3. CASE \/ UNCHANGED vars
             \/ \E r \in Requests, c \in Conns : Connect(r, c)
             \/ \E r \in Requests : ConnectFails(r) \/ ProxyFails(r)
    <3>1. UNCHANGED <<hot_queue, connections, hand, tgt, pc, own, grp, left, lru>>
      BY <2>3 DEF vars, Connect, ConnectFails, ProxyFails
    <3>2. \A g \in Groups : Idling(g)' = Idling(g)
      BY <3>1 DEF Idling, Pooled
    <3>3. \A t \in Threads, g \in Groups : \A c \in Idling(g) :
            /\ Keeps(t, c, g) => Keeps(t, c, g)'
            /\ Seeks(t, c, g) => Seeks(t, c, g)'
      BY <3>1 DEF Keeps, Seeks, Removes, Scanning, Ahead
    <3> QED BY <3>1, <3>2, <3>3 DEF TrackInv
  <2> QED BY <2>1, <2>2, <2>3, TrackLooking, TrackReturn, TrackTimeout DEF Next
<1>2. CASE ~(SizeCapacity > 0)
  BY <1>2 DEF TrackInv
<1> QED BY <1>1, <1>2

(* PooledIsTracked: whatever picks, returns, evictions and timers interleave, a
   pooled connection has an entry in some thread's LRU, or is being removed. *)
THEOREM PooledStaysTracked == Spec => []PooledIsTracked
<1>1. Init => TrackInv
  BY PoolAssumption DEF Init, TrackInv, Idling, Pooled, Elems
<1>2. IInv /\ TrackInv /\ [Next]_vars => TrackInv'
  BY TrackStep
<1>3. IInv /\ TrackInv => PooledIsTracked
  <2> SUFFICES ASSUME TrackInv, SizeCapacity > 0, NEW g \in Groups, NEW c \in Idling(g), IInv
               PROVE  Tracked(c) \/ \E t \in Threads : tgt[t] # NoMeta /\ tgt[t].id = c
    BY DEF PooledIsTracked
  <2>1. PICK t \in Threads : Keeps(t, c, g) \/ Seeks(t, c, g)
    BY DEF TrackInv
  <2>2. CASE Keeps(t, c, g)
    BY <2>2 DEF Keeps, Tracked, Elems, Ids, Entry
  <2>3. CASE Seeks(t, c, g)
    <3>1. c \in Conns
      BY IdlingAlone DEF IInv
    <3>2. Entry(c, g) \in Meta /\ Entry(c, g).id = c
      BY <3>1 DEF Entry, Meta
    <3> QED BY <2>3, <3>2, NoMetaAssumption DEF Seeks
  <2> QED BY <2>1, <2>2, <2>3
<1> QED BY <1>1, <1>2, <1>3, PoolInvariance, PTL DEF Spec
=============================================================================
