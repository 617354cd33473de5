------------------------ MODULE ConnectionPoolProofs ------------------------
(***************************************************************************)
(* The connection pool's type invariant and the exclusive ownership of     *)
(* every connection, for any number of threads, requests, connections and  *)
(* groups and any capacity.                                                *)
(***************************************************************************)
EXTENDS ConnectionPoolProperties, TLAPS

(* What a thread at a given step has in its hands: the part of the           *)
(* invariant that makes ExclusiveOwnership inductive.  An operation never    *)
(* starts, and never pops, while its thread already holds a connection.      *)
StepInv ==
  \A t \in Threads :
    /\ pc[t] \in {"idle", "find_hot", "find_list"} => own[t] = NoConn
    /\ pc[t] \in {"pick_up", "get_node", "new_node"} => own[t] # NoConn
    /\ pc[t] \in {"push", "insert"} => hand[t] # NoConn \/ own[t] # NoConn
    /\ pc[t] \in {"remove", "scan"} => tgt[t] # NoMeta
    /\ hand[t] # NoConn => pc[t] \in {"push", "insert"} /\ tgt[t] # NoMeta

(* The steps of an operation, as in TypeOK. *)
Steps == {"idle", "find_hot", "find_list", "pick_up", "get_node",
          "new_node", "push", "insert", "remove", "scan"}

ProxyInv == \A r \in Requests : phase[r] = "proxying" => conn[r] # NoConn

Typing == TypeOK /\ StepInv /\ ProxyInv

-----------------------------------------------------------------------------
(* Popping an id from an LruCache leaves an LruCache. *)
LEMMA WithoutType ==
  ASSUME NEW cache \in Seq(Meta), NEW c
  PROVE  Without(cache, c) \in Seq(Meta)
<1>1. CASE c \notin Ids(cache)
  BY <1>1 DEF Without
<1>2. CASE c \in Ids(cache)
  <2> DEFINE k == CHOOSE i \in 1..Len(cache) : cache[i].id = c
             s == [i \in 1..(Len(cache) - 1) |-> IF i < k THEN cache[i] ELSE cache[i + 1]]
  <2>1. Len(cache) \in Nat /\ Len(cache) - 1 \in Nat
    BY <1>2 DEF Ids
  <2>2. k \in 1..Len(cache)
    BY <1>2 DEF Ids
  <2> HIDE DEF k
  <2>3. \A i \in 1..(Len(cache) - 1) : s[i] \in Meta
    BY <2>1, <2>2
  <2>4. s \in Seq(Meta)
    BY <2>1, <2>3
  <2>5. Without(cache, c) = s
    BY <1>2 DEF Without, k
  <2> QED BY <2>4, <2>5
<1> QED BY <1>1, <1>2

(* Putting an entry leaves a non-empty LruCache whose oldest entry can be
   popped. *)
LEMMA PutType ==
  ASSUME NEW cache \in Seq(Meta), NEW m \in Meta
  PROVE  /\ Put(cache, m) \in Seq(Meta)
         /\ Len(Put(cache, m)) > 0
         /\ Head(Put(cache, m)) \in Meta
         /\ Tail(Put(cache, m)) \in Seq(Meta)
<1>1. Without(cache, m.id) \in Seq(Meta)
  BY WithoutType
<1> DEFINE w == Without(cache, m.id)
<1> HIDE DEF w
<1>2. w \in Seq(Meta)
  BY <1>1 DEF w
<1>3. Put(cache, m) = Append(w, m)
  BY DEF Put, w
<1> QED BY <1>2, <1>3

-----------------------------------------------------------------------------
LEMMA TypingInit == Init => Typing
BY PoolAssumption DEF Init, Typing, TypeOK, StepInv, ProxyInv

(* What a queue holds, and what is left of it, are connections. *)
LEMMA QueueType ==
  ASSUME TypeOK, NEW g \in Groups
  PROVE  /\ hot_queue[g] \in Seq(Conns)
         /\ hot_queue[g] # <<>> => Head(hot_queue[g]) \in Conns
                                    /\ Tail(hot_queue[g]) \in Seq(Conns)
         /\ Len(hot_queue[g]) \in Nat
         /\ \A c \in Conns : Append(hot_queue[g], c) \in Seq(Conns)
BY DEF TypeOK

(* The return of an addition keeps the types of what it assigns, and what the
   threads hold. *)
LEMMA AddReturnsType ==
  ASSUME TypeOK, StepInv, NEW t \in Threads, AddReturns(t),
         pc[t] \in {"push", "insert"}, tgt' = tgt
  PROVE  /\ pc' \in [Threads -> Steps]
         /\ own' \in [Threads -> Conns \cup {NoConn}]
         /\ hand' \in [Threads -> Conns \cup {NoConn}]
         /\ idle' \in [Conns -> Meta \cup {NoMeta}]
         /\ StepInv'
<1>1. /\ pc \in [Threads -> Steps]
      /\ own \in [Threads -> Conns \cup {NoConn}]
      /\ hand \in [Threads -> Conns \cup {NoConn}]
      /\ idle \in [Conns -> Meta \cup {NoMeta}]
  BY DEF TypeOK, Steps
<1>2. CASE Removing(t)
  <2>1. /\ pc' = [pc EXCEPT ![t] = "scan"] /\ hand' = [hand EXCEPT ![t] = NoConn]
        /\ own' = own /\ idle' = idle
    BY <1>2 DEF AddReturns
  <2>2. tgt[t] # NoMeta
    BY <1>2 DEF StepInv, Removing
  <2>3. StepInv'
    BY <1>1, <2>1, <2>2 DEF StepInv
  <2> QED BY <1>1, <2>1, <2>3 DEF Steps
<1>3. CASE ~Removing(t)
  <2>1. /\ pc' = [pc EXCEPT ![t] = "idle"] /\ own' = [own EXCEPT ![t] = NoConn]
        /\ hand' = hand
    BY <1>3 DEF AddReturns
  <2>2. PICK m \in Meta \cup {NoMeta} : idle' = [idle EXCEPT ![own[t]] = m]
    <3>1. own[t] # NoConn
      BY <1>3 DEF StepInv, Removing
    <3>2. [id |-> own[t], group |-> grp[t]] \in Meta
      BY <1>1, <3>1 DEF TypeOK, Meta
    <3>3. idle' = [idle EXCEPT ![own[t]] =
                     IF own[t] \in Ids(lru[t])
                       THEN [id |-> own[t], group |-> grp[t]] ELSE NoMeta]
      BY <1>3 DEF AddReturns
    <3> QED BY <3>2, <3>3
  <2>3. StepInv'
    BY <1>1, <1>3, <2>1 DEF StepInv, Removing
  <2>4. idle' \in [Conns -> Meta \cup {NoMeta}]
    BY <1>1, <2>2
  <2> QED BY <1>1, <2>1, <2>3, <2>4 DEF Steps
<1> QED BY <1>2, <1>3

(* So does the return of a removal. *)
LEMMA RemoveReturnsType ==
  ASSUME TypeOK, StepInv, NEW t \in Threads, RemoveReturns(t),
         pc[t] \in {"remove", "scan"}, own' = own, hand' = hand
  PROVE  /\ pc' \in [Threads -> Steps]
         /\ tgt' \in [Threads -> Meta \cup {NoMeta}]
         /\ left' \in [Threads -> Nat]
         /\ lru' \in [Threads -> Seq(Meta)]
         /\ StepInv'
<1>1. /\ pc \in [Threads -> Steps]
      /\ tgt \in [Threads -> Meta \cup {NoMeta}]
      /\ left \in [Threads -> Nat]
      /\ lru \in [Threads -> Seq(Meta)]
  BY DEF TypeOK, Steps
<1>2. hand[t] = NoConn
  BY DEF StepInv
<1>3. tgt' = [tgt EXCEPT ![t] = NoMeta] /\ left' = [left EXCEPT ![t] = 0]
  BY DEF RemoveReturns
<1>4. CASE own[t] # NoConn
  <2>1. pc' = [pc EXCEPT ![t] = "get_node"] /\ lru' = lru
    BY <1>4 DEF RemoveReturns
  <2>2. StepInv'
    BY <1>1, <1>2, <1>3, <1>4, <2>1 DEF StepInv
  <2> QED BY <1>1, <1>3, <2>1, <2>2 DEF Steps
<1>5. CASE own[t] = NoConn
  <2>1. /\ pc' = [pc EXCEPT ![t] = "idle"]
        /\ lru' = [lru EXCEPT ![t] = Without(lru[t], tgt[t].id)]
    BY <1>5 DEF RemoveReturns
  <2>2. StepInv'
    BY <1>1, <1>2, <1>3, <1>5, <2>1 DEF StepInv
  <2>3. Without(lru[t], tgt[t].id) \in Seq(Meta)
    BY <1>1, WithoutType
  <2> QED BY <1>1, <1>3, <2>1, <2>2, <2>3 DEF Steps
<1> QED BY <1>4, <1>5

(* One step of the pool keeps the types and what the threads hold. *)
LEMMA TypingStep == Typing /\ [Next]_vars => Typing'
<1> SUFFICES ASSUME Typing, [Next]_vars PROVE Typing'
  OBVIOUS
<1> USE PoolAssumption, NoMetaAssumption DEF Typing
<1>1. ASSUME NEW t \in Threads, FindNoNode(t) PROVE Typing'
  <2>1. TypeOK'
    BY <1>1 DEF TypeOK, FindNoNode, Miss, node_vars, lru_vars
  <2>2. StepInv'
    BY <1>1 DEF TypeOK, StepInv, FindNoNode, Miss, node_vars, lru_vars
  <2>3. ProxyInv'
    BY <1>1 DEF TypeOK, StepInv, ProxyInv, FindNoNode, Miss, node_vars, lru_vars
  <2> QED BY <2>1, <2>2, <2>3
<1>2. ASSUME NEW t \in Threads, TakeHot(t) PROVE Typing'
  <2>1. Head(hot_queue[grp[t]]) \in Conns /\ Tail(hot_queue[grp[t]]) \in Seq(Conns)
    BY <1>2, QueueType DEF TypeOK, TakeHot
  <2>2. TypeOK'
    BY <1>2, <2>1 DEF TypeOK, TakeHot, lru_vars, req_vars
  <2>3. StepInv'
    BY <1>2, <2>1 DEF TypeOK, StepInv, TakeHot, lru_vars, req_vars
  <2>4. ProxyInv'
    BY <1>2 DEF TypeOK, StepInv, ProxyInv, TakeHot, lru_vars, req_vars
  <2> QED BY <2>2, <2>3, <2>4
<1>3. ASSUME NEW t \in Threads, HotQueueEmpty(t) PROVE Typing'
  <2>1. TypeOK'
    BY <1>3 DEF TypeOK, HotQueueEmpty, node_vars, lru_vars, req_vars
  <2>2. StepInv'
    BY <1>3 DEF TypeOK, StepInv, HotQueueEmpty, node_vars, lru_vars, req_vars
  <2>3. ProxyInv'
    BY <1>3 DEF TypeOK, StepInv, ProxyInv, HotQueueEmpty, node_vars, lru_vars, req_vars
  <2> QED BY <2>1, <2>2, <2>3
<1>4. ASSUME NEW t \in Threads, TakeListed(t) PROVE Typing'
  <2>1. TypeOK'
    BY <1>4 DEF TypeOK, TakeListed, lru_vars, req_vars
  <2>2. StepInv'
    BY <1>4 DEF TypeOK, StepInv, TakeListed, lru_vars, req_vars
  <2>3. ProxyInv'
    BY <1>4 DEF TypeOK, StepInv, ProxyInv, TakeListed, lru_vars, req_vars
  <2> QED BY <2>1, <2>2, <2>3
<1>5. ASSUME NEW t \in Threads, ListEmpty(t) PROVE Typing'
  <2>1. TypeOK'
    BY <1>5 DEF TypeOK, ListEmpty, Miss, node_vars, lru_vars
  <2>2. StepInv'
    BY <1>5 DEF TypeOK, StepInv, ListEmpty, Miss, node_vars, lru_vars
  <2>3. ProxyInv'
    BY <1>5 DEF TypeOK, StepInv, ProxyInv, ListEmpty, Miss, node_vars, lru_vars
  <2> QED BY <2>1, <2>2, <2>3
<1>6. ASSUME NEW t \in Threads, PickUp(t) PROVE Typing'
  <2>1. Without(lru[t], own[t]) \in Seq(Meta)
    BY WithoutType DEF TypeOK
  <2>2. TypeOK'
    BY <1>6, <2>1 DEF TypeOK, PickUp, node_vars
  <2>3. StepInv'
    BY <1>6, <2>1 DEF TypeOK, StepInv, PickUp, node_vars
  <2>4. ProxyInv'
    BY <1>6 DEF TypeOK, StepInv, ProxyInv, PickUp, node_vars
  <2> QED BY <2>2, <2>3, <2>4
<1>7. ASSUME NEW t \in Threads, GetNode(t) PROVE Typing'
  <2>1. TypeOK'
    BY <1>7 DEF TypeOK, GetNode, node_vars, lru_vars, req_vars
  <2>2. StepInv'
    BY <1>7 DEF TypeOK, StepInv, GetNode, node_vars, lru_vars, req_vars
  <2>3. ProxyInv'
    BY <1>7 DEF TypeOK, StepInv, ProxyInv, GetNode, node_vars, lru_vars, req_vars
  <2> QED BY <2>1, <2>2, <2>3
<1>8. ASSUME NEW t \in Threads, NewNode(t) PROVE Typing'
  <2>1. TypeOK'
    <3>1. <<>> \in Seq(Conns) /\ {} \in SUBSET Conns /\ grp[t] \in Groups
      BY DEF TypeOK
    <3>2. hot_queue' \in [Groups -> Seq(Conns)] /\ connections' \in [Groups -> SUBSET Conns]
      <4>1. hot_queue \in [Groups -> Seq(Conns)] /\ connections \in [Groups -> SUBSET Conns]
        BY DEF TypeOK
      <4>2. \/ hot_queue' = hot_queue /\ connections' = connections
            \/ /\ hot_queue' = [hot_queue EXCEPT ![grp[t]] = <<>>]
               /\ connections' = [connections EXCEPT ![grp[t]] = {}]
        BY <1>8 DEF NewNode
      <4> QED BY <3>1, <4>1, <4>2
    <3> QED
      BY <1>8, <3>1, <3>2 DEF TypeOK, NewNode, lru_vars, req_vars
  <2>2. StepInv'
    BY <1>8 DEF TypeOK, StepInv, NewNode, lru_vars, req_vars
  <2>3. ProxyInv'
    BY <1>8 DEF TypeOK, StepInv, ProxyInv, NewNode, lru_vars, req_vars
  <2> QED BY <2>1, <2>2, <2>3
<1>9. ASSUME NEW t \in Threads, PushHot(t) PROVE Typing'
  <2>1. NodeOf(t) \in Groups /\ Carried(t) \in Conns
    BY <1>9 DEF TypeOK, StepInv, PushHot, NodeOf, Carried, Removing, Meta
  <2>2. Append(hot_queue[NodeOf(t)], Carried(t)) \in Seq(Conns)
    BY <2>1, QueueType
  <2>3. hot_queue' \in [Groups -> Seq(Conns)]
    BY <1>9, <2>1, <2>2 DEF TypeOK, PushHot
  <2>4. /\ AddReturns(t) /\ pc[t] \in {"push", "insert"} /\ tgt' = tgt
        /\ UNCHANGED <<nodes, connections, list_lock, lru, home, phase, conn,
                       peer, cli, grp, left>>
    BY <1>9 DEF PushHot, req_vars
  <2>5. TypeOK'
    BY <2>3, <2>4, AddReturnsType DEF TypeOK, Steps
  <2>6. StepInv'
    BY <2>4, AddReturnsType
  <2>7. ProxyInv'
    BY <2>4 DEF ProxyInv
  <2> QED BY <2>5, <2>6, <2>7
<1>10. ASSUME NEW t \in Threads, HotQueueFull(t) PROVE Typing'
  <2>1. TypeOK'
    BY <1>10 DEF TypeOK, HotQueueFull, node_vars, lru_vars, req_vars
  <2>2. StepInv'
    BY <1>10 DEF TypeOK, StepInv, HotQueueFull, node_vars, lru_vars, req_vars
  <2>3. ProxyInv'
    BY <1>10 DEF TypeOK, StepInv, ProxyInv, HotQueueFull, node_vars, lru_vars, req_vars
  <2> QED BY <2>1, <2>2, <2>3
<1>11. ASSUME NEW t \in Threads, InsertList(t) PROVE Typing'
  <2>1. NodeOf(t) \in Groups /\ Carried(t) \in Conns
    BY <1>11 DEF TypeOK, StepInv, InsertList, NodeOf, Carried, Removing, Meta
  <2>2. connections' \in [Groups -> SUBSET Conns]
    BY <1>11, <2>1 DEF TypeOK, InsertList
  <2>3. /\ AddReturns(t) /\ pc[t] \in {"push", "insert"} /\ tgt' = tgt
        /\ UNCHANGED <<nodes, hot_queue, list_lock, lru, home, phase, conn,
                       peer, cli, grp, left>>
    BY <1>11 DEF InsertList, req_vars
  <2>4. TypeOK'
    BY <2>2, <2>3, AddReturnsType DEF TypeOK, Steps
  <2>5. StepInv'
    BY <2>3, AddReturnsType
  <2>6. ProxyInv'
    BY <2>3 DEF ProxyInv
  <2> QED BY <2>4, <2>5, <2>6
<1>12. ASSUME NEW t \in Threads, RemoveNoNode(t) PROVE Typing'
  <2>1. /\ RemoveReturns(t) /\ pc[t] \in {"remove", "scan"} /\ own' = own /\ hand' = hand
        /\ UNCHANGED <<nodes, hot_queue, connections, list_lock, idle, home,
                       phase, conn, peer, cli, grp>>
    BY <1>12 DEF RemoveNoNode, node_vars, req_vars
  <2>2. TypeOK'
    BY <2>1, RemoveReturnsType DEF TypeOK, Steps
  <2>3. StepInv'
    BY <2>1, RemoveReturnsType
  <2>4. ProxyInv'
    BY <2>1 DEF ProxyInv
  <2> QED BY <2>2, <2>3, <2>4
<1>13. ASSUME NEW t \in Threads, RemoveListed(t) PROVE Typing'
  <2>1. /\ RemoveReturns(t) /\ pc[t] \in {"remove", "scan"} /\ own' = own /\ hand' = hand
        /\ UNCHANGED <<nodes, hot_queue, list_lock, home, phase, conn, peer, cli, grp>>
    BY <1>13 DEF RemoveListed, req_vars
  <2>2. /\ connections' \in [Groups -> SUBSET Conns]
        /\ idle' \in [Conns -> Meta \cup {NoMeta}]
    BY <1>13 DEF TypeOK, RemoveListed
  <2>3. TypeOK'
    BY <2>1, <2>2, RemoveReturnsType DEF TypeOK, Steps
  <2>4. StepInv'
    BY <2>1, RemoveReturnsType
  <2>5. ProxyInv'
    BY <2>1 DEF ProxyInv
  <2> QED BY <2>3, <2>4, <2>5
<1>14. ASSUME NEW t \in Threads, StartScan(t) PROVE Typing'
  <2>1. tgt[t].group \in Groups /\ tgt[t].id \in Conns
    BY <1>14 DEF TypeOK, StepInv, StartScan, Meta
  <2>2. Len(hot_queue[tgt[t].group]) \in Nat
    BY <2>1, QueueType
  <2>3. TypeOK'
    BY <1>14, <2>1, <2>2 DEF TypeOK, StartScan, lru_vars, req_vars
  <2>4. StepInv'
    BY <1>14, <2>1, <2>2 DEF TypeOK, StepInv, StartScan, lru_vars, req_vars
  <2>5. ProxyInv'
    BY <1>14 DEF TypeOK, StepInv, ProxyInv, StartScan, lru_vars, req_vars
  <2> QED BY <2>3, <2>4, <2>5
<1>15. ASSUME NEW t \in Threads, ScanEnds(t) PROVE Typing'
  <2>1. /\ RemoveReturns(t) /\ pc[t] \in {"remove", "scan"} /\ own' = own /\ hand' = hand
        /\ UNCHANGED <<nodes, hot_queue, connections, idle, home, phase, conn,
                       peer, cli, grp>>
    BY <1>15 DEF ScanEnds, req_vars
  <2>2. list_lock' \in [Groups -> Threads \cup {NoThread}]
    BY <1>15 DEF TypeOK, ScanEnds
  <2>3. TypeOK'
    BY <2>1, <2>2, RemoveReturnsType DEF TypeOK, Steps
  <2>4. StepInv'
    BY <2>1, RemoveReturnsType
  <2>5. ProxyInv'
    BY <2>1 DEF ProxyInv
  <2> QED BY <2>3, <2>4, <2>5
<1>16. ASSUME NEW t \in Threads, ScanFinds(t) PROVE Typing'
  <2>1. /\ RemoveReturns(t) /\ pc[t] \in {"remove", "scan"} /\ own' = own /\ hand' = hand
        /\ UNCHANGED <<nodes, connections, home, phase, conn, peer, cli, grp>>
    BY <1>16 DEF ScanFinds, req_vars
  <2>2. tgt[t].group \in Groups
    BY <1>16 DEF TypeOK, StepInv, ScanFinds, Meta
  <2>3. Tail(hot_queue[tgt[t].group]) \in Seq(Conns)
    BY <1>16, <2>2, QueueType DEF ScanFinds
  <2>4. hot_queue' \in [Groups -> Seq(Conns)]
    BY <1>16, <2>3 DEF TypeOK, ScanFinds
  <2>5. /\ list_lock' \in [Groups -> Threads \cup {NoThread}]
        /\ idle' \in [Conns -> Meta \cup {NoMeta}]
    BY <1>16 DEF TypeOK, ScanFinds
  <2>6. TypeOK'
    BY <2>1, <2>4, <2>5, RemoveReturnsType DEF TypeOK, Steps
  <2>7. StepInv'
    BY <2>1, RemoveReturnsType
  <2>8. ProxyInv'
    BY <2>1 DEF ProxyInv
  <2> QED BY <2>6, <2>7, <2>8
<1>17. ASSUME NEW t \in Threads, ScanTakesOther(t) PROVE Typing'
  <2>1. tgt[t].group \in Groups /\ tgt[t].id \in Conns
    BY <1>17 DEF TypeOK, StepInv, ScanTakesOther, Meta
  <2>2. Head(hot_queue[tgt[t].group]) \in Conns /\ Tail(hot_queue[tgt[t].group]) \in Seq(Conns)
    BY <1>17, <2>1, QueueType DEF ScanTakesOther
  <2>3. TypeOK'
    BY <1>17, <2>1, <2>2 DEF TypeOK, ScanTakesOther, lru_vars, req_vars
  <2>4. StepInv'
    BY <1>17, <2>1, <2>2 DEF TypeOK, StepInv, ScanTakesOther, lru_vars, req_vars
  <2>5. ProxyInv'
    BY <1>17 DEF TypeOK, StepInv, ProxyInv, ScanTakesOther, lru_vars, req_vars
  <2> QED BY <2>3, <2>4, <2>5
<1>18. ASSUME NEW t \in Threads, NEW r \in Requests, NEW g \in Groups,
             StartFind(t, r, g)
      PROVE  Typing'
  <2>1. TypeOK'
    BY <1>18 DEF TypeOK, StartFind, node_vars, lru_vars
  <2>2. StepInv'
    BY <1>18 DEF TypeOK, StepInv, StartFind, node_vars, lru_vars
  <2>3. ProxyInv'
    BY <1>18 DEF TypeOK, ProxyInv, StartFind
  <2> QED BY <2>1, <2>2, <2>3
<1>19. ASSUME NEW t \in Threads, NEW r \in Requests, StartReturn(t, r)
      PROVE  Typing'
  <2>1. MetaOf(r) \in Meta /\ MetaOf(r).id = conn[r] /\ conn[r] \in Conns
    BY <1>19 DEF TypeOK, ProxyInv, StartReturn, StartReturnEvicting, Returning, Meta, MetaOf
  <2> DEFINE cache == Put(lru[t], MetaOf(r))
  <2>a. lru[t] \in Seq(Meta)
    BY DEF TypeOK
  <2>b. cache \in Seq(Meta) /\ Tail(cache) \in Seq(Meta) /\ Head(cache) \in Meta
    BY <2>1, <2>a, PutType
  <2> HIDE DEF cache
  <2>2. /\ cache \in Seq(Meta) /\ Tail(cache) \in Seq(Meta) /\ Head(cache) \in Meta
        /\ Head(cache).id \in Conns /\ Head(cache) # NoMeta
    BY <2>b DEF Meta
  <2>3. TypeOK'
    BY <1>19, <2>1, <2>2 DEF TypeOK, StartReturn, Returning, node_vars, cache
  <2>4. StepInv'
    BY <1>19, <2>1, <2>2 DEF TypeOK, StepInv, StartReturn, Returning, cache
  <2>5. ProxyInv'
    BY <1>19 DEF TypeOK, ProxyInv, StartReturn, Returning
  <2> QED BY <2>3, <2>4, <2>5
<1>20. ASSUME NEW t \in Threads, NEW r \in Requests, StartReturnEvicting(t, r)
      PROVE  Typing'
  <2>1. MetaOf(r) \in Meta /\ MetaOf(r).id = conn[r] /\ conn[r] \in Conns
    BY <1>20 DEF TypeOK, ProxyInv, StartReturn, StartReturnEvicting, Returning, Meta, MetaOf
  <2> DEFINE cache == Put(lru[t], MetaOf(r))
  <2>a. lru[t] \in Seq(Meta)
    BY DEF TypeOK
  <2>b. cache \in Seq(Meta) /\ Tail(cache) \in Seq(Meta) /\ Head(cache) \in Meta
    BY <2>1, <2>a, PutType
  <2> HIDE DEF cache
  <2>2. /\ cache \in Seq(Meta) /\ Tail(cache) \in Seq(Meta) /\ Head(cache) \in Meta
        /\ Head(cache).id \in Conns /\ Head(cache) # NoMeta
    BY <2>b DEF Meta
  <2>3. TypeOK'
    BY <1>20, <2>1, <2>2 DEF TypeOK, StartReturnEvicting, Returning, node_vars, cache
  <2>4. StepInv'
    BY <1>20, <2>1, <2>2 DEF TypeOK, StepInv, StartReturnEvicting, Returning, cache
  <2>5. ProxyInv'
    BY <1>20 DEF TypeOK, ProxyInv, StartReturnEvicting, Returning
  <2> QED BY <2>3, <2>4, <2>5
<1>21. ASSUME NEW t \in Threads, NEW c \in Conns, IdleTimeout(t, c)
      PROVE  Typing'
  <2>1. TypeOK'
    BY <1>21 DEF TypeOK, IdleTimeout, node_vars, req_vars
  <2>2. StepInv'
    BY <1>21 DEF TypeOK, StepInv, IdleTimeout
  <2>3. ProxyInv'
    BY <1>21 DEF ProxyInv, IdleTimeout, req_vars
  <2> QED BY <2>1, <2>2, <2>3
<1>22. ASSUME NEW r \in Requests, NEW c \in Conns, Connect(r, c)
      PROVE  Typing'
  BY <1>22 DEF TypeOK, StepInv, ProxyInv, Connect, node_vars, lru_vars, op_vars
<1>23. ASSUME NEW r \in Requests, ConnectFails(r) \/ ProxyFails(r)
      PROVE  Typing'
  BY <1>23 DEF TypeOK, StepInv, ProxyInv, ConnectFails, ProxyFails,
               node_vars, lru_vars, op_vars
<1>24. CASE UNCHANGED vars
  BY <1>24 DEF TypeOK, StepInv, ProxyInv, vars, node_vars, lru_vars,
               req_vars, op_vars
<1> QED
  BY <1>1, <1>2, <1>3, <1>4, <1>5, <1>6, <1>7, <1>8, <1>9, <1>10, <1>11,
     <1>12, <1>13, <1>14, <1>15, <1>16, <1>17, <1>18, <1>19, <1>20, <1>21,
     <1>22, <1>23, <1>24
     DEF Next, Continue, Find, Add, Remove

(* The type invariant holds in every reachable state. *)
THEOREM PoolTypeCorrect == Spec => []TypeOK
<1>1. Spec => []Typing
  BY TypingInit, TypingStep, PTL DEF Spec
<1>2. Typing => TypeOK
  BY DEF Typing
<1> QED BY <1>1, <1>2, PTL

-----------------------------------------------------------------------------
(* A queue's elements after its head was popped, and after one was pushed. *)
LEMMA TailElems ==
  ASSUME NEW q \in Seq(Conns), q # <<>>, Distinct(q)
  PROVE  /\ Head(q) \in Elems(q)
         /\ Elems(Tail(q)) = Elems(q) \ {Head(q)}
         /\ Distinct(Tail(q))
<1>1. /\ Len(q) \in Nat /\ Len(q) > 0 /\ Head(q) = q[1]
      /\ Len(Tail(q)) = Len(q) - 1
      /\ \A i \in 1..Len(Tail(q)) : Tail(q)[i] = q[i + 1]
  OBVIOUS
<1>2. Head(q) \in Elems(q)
  BY <1>1 DEF Elems
<1>3. ASSUME NEW x \in Elems(Tail(q)) PROVE x \in Elems(q) \ {Head(q)}
  BY <1>1 DEF Elems, Distinct
<1>4. ASSUME NEW x \in Elems(q) \ {Head(q)} PROVE x \in Elems(Tail(q))
  <2>1. PICK i \in 1..Len(q) : x = q[i]
    BY DEF Elems
  <2>2. i # 1 /\ i - 1 \in 1..Len(Tail(q)) /\ Tail(q)[i - 1] = x
    BY <1>1, <2>1
  <2> QED BY <2>2 DEF Elems
<1>5. Distinct(Tail(q))
  BY <1>1 DEF Distinct
<1> QED BY <1>2, <1>3, <1>4, <1>5

LEMMA AppendElems ==
  ASSUME NEW q \in Seq(Conns), NEW c \in Conns, Distinct(q), c \notin Elems(q)
  PROVE  /\ Elems(Append(q, c)) = Elems(q) \cup {c}
         /\ Distinct(Append(q, c))
<1>1. /\ Len(q) \in Nat /\ Len(Append(q, c)) = Len(q) + 1
      /\ \A i \in 1..Len(q) : Append(q, c)[i] = q[i]
      /\ Append(q, c)[Len(q) + 1] = c
  OBVIOUS
<1>2. ASSUME NEW x \in Elems(Append(q, c)) PROVE x \in Elems(q) \cup {c}
  BY <1>1 DEF Elems
<1>3. ASSUME NEW x \in Elems(q) \cup {c} PROVE x \in Elems(Append(q, c))
  BY <1>1 DEF Elems
<1>4. Distinct(Append(q, c))
  BY <1>1 DEF Distinct, Elems
<1> QED BY <1>2, <1>3, <1>4

LEMMA EmptyElems == Elems(<<>>) = {} /\ Distinct(<<>>)
BY DEF Elems, Distinct

LEMMA ElemsType ==
  ASSUME TypeOK, NEW g \in Groups
  PROVE  Elems(hot_queue[g]) \subseteq Conns
BY DEF TypeOK, Elems

-----------------------------------------------------------------------------
LEMMA ExclusiveInit == Init => ExclusiveOwnership
BY EmptyElems, PoolAssumption
   DEF Init, ExclusiveOwnership, StoresDisjoint, HandsDistinct, HandsOutsidePool,
       RequestsDistinct

(* A step that moves no connection keeps the ownership. *)
Places == <<hot_queue, connections, own, hand, conn>>

LEMMA PlacesStep == ExclusiveOwnership /\ UNCHANGED Places => ExclusiveOwnership'
BY DEF Places, ExclusiveOwnership, StoresDisjoint, HandsDistinct, HandsOutsidePool,
       RequestsDistinct

LEMMA ExclusiveStep ==
  Typing /\ ExclusiveOwnership /\ [Next]_vars => ExclusiveOwnership'
<1> SUFFICES ASSUME Typing, ExclusiveOwnership, [Next]_vars PROVE ExclusiveOwnership'
  OBVIOUS
<1> USE PoolAssumption DEF Typing
<1>1. ASSUME NEW t \in Threads, FindNoNode(t) PROVE ExclusiveOwnership'
  BY <1>1, PlacesStep DEF FindNoNode, Miss, node_vars, Places
<1>2. ASSUME NEW t \in Threads, HotQueueEmpty(t) PROVE ExclusiveOwnership'
  BY <1>2, PlacesStep DEF HotQueueEmpty, node_vars, req_vars, Places
<1>3. ASSUME NEW t \in Threads, ListEmpty(t) PROVE ExclusiveOwnership'
  BY <1>3, PlacesStep DEF ListEmpty, Miss, node_vars, Places
<1>4. ASSUME NEW t \in Threads, GetNode(t) PROVE ExclusiveOwnership'
  BY <1>4, PlacesStep DEF GetNode, node_vars, req_vars, Places
<1>5. ASSUME NEW t \in Threads, HotQueueFull(t) PROVE ExclusiveOwnership'
  BY <1>5, PlacesStep DEF HotQueueFull, node_vars, req_vars, Places
<1>6. ASSUME NEW t \in Threads, RemoveNoNode(t) PROVE ExclusiveOwnership'
  BY <1>6, PlacesStep DEF RemoveNoNode, node_vars, req_vars, Places
<1>7. ASSUME NEW t \in Threads, StartScan(t) PROVE ExclusiveOwnership'
  BY <1>7, PlacesStep DEF StartScan, req_vars, Places
<1>8. ASSUME NEW t \in Threads, ScanEnds(t) PROVE ExclusiveOwnership'
  BY <1>8, PlacesStep DEF ScanEnds, req_vars, Places
<1>9. ASSUME NEW t \in Threads, TakeHot(t) PROVE ExclusiveOwnership'
  <2> DEFINE g == grp[t]
             q == hot_queue[g]
  <2>1. /\ g \in Groups /\ q \in Seq(Conns) /\ q # <<>> /\ Distinct(q)
        /\ Head(q) \in Conns
    BY <1>9, QueueType DEF TypeOK, StepInv, Meta, TakeHot, ExclusiveOwnership, StoresDisjoint
  <2>2. /\ Head(q) \in Elems(q) /\ Elems(Tail(q)) = Elems(q) \ {Head(q)}
        /\ Distinct(Tail(q))
    BY <2>1, TailElems
  <2>3. hot_queue' = [hot_queue EXCEPT ![g] = Tail(q)]
    BY <1>9 DEF TakeHot
  <2>4. \A h \in Groups : /\ Elems(hot_queue'[h]) = IF h = g THEN Elems(q) \ {Head(q)}
                                                          ELSE Elems(hot_queue[h])
                          /\ Distinct(hot_queue'[h])
    BY <2>1, <2>2, <2>3 DEF TypeOK, ExclusiveOwnership, StoresDisjoint
  <2>5. StoresDisjoint'
    BY <1>9, <2>1, <2>2, <2>4 DEF TypeOK, StepInv, ExclusiveOwnership, StoresDisjoint, HandsDistinct, HandsOutsidePool, RequestsDistinct, TakeHot, req_vars
  <2>6. HandsDistinct'
    BY <1>9, <2>1, <2>2, <2>4 DEF TypeOK, StepInv, ExclusiveOwnership, StoresDisjoint, HandsDistinct, HandsOutsidePool, RequestsDistinct, TakeHot, req_vars
  <2>7. HandsOutsidePool'
    BY <1>9, <2>1, <2>2, <2>4 DEF TypeOK, StepInv, ExclusiveOwnership, StoresDisjoint, HandsDistinct, HandsOutsidePool, RequestsDistinct, TakeHot, req_vars
  <2>8. RequestsDistinct'
    BY <1>9, <2>1, <2>2, <2>4 DEF TypeOK, StepInv, ExclusiveOwnership, StoresDisjoint, HandsDistinct, HandsOutsidePool, RequestsDistinct, TakeHot, req_vars
  <2> QED BY <2>5, <2>6, <2>7, <2>8 DEF ExclusiveOwnership
<1>10. ASSUME NEW t \in Threads, TakeListed(t) PROVE ExclusiveOwnership'
  <2>1. StoresDisjoint'
    BY <1>10 DEF TypeOK, StepInv, ExclusiveOwnership, StoresDisjoint, HandsDistinct, HandsOutsidePool, RequestsDistinct, TakeListed, req_vars
  <2>2. HandsDistinct'
    BY <1>10 DEF TypeOK, StepInv, ExclusiveOwnership, StoresDisjoint, HandsDistinct, HandsOutsidePool, RequestsDistinct, TakeListed, req_vars
  <2>3. HandsOutsidePool'
    BY <1>10 DEF TypeOK, StepInv, ExclusiveOwnership, StoresDisjoint, HandsDistinct, HandsOutsidePool, RequestsDistinct, TakeListed, req_vars
  <2>4. RequestsDistinct'
    BY <1>10 DEF TypeOK, StepInv, ExclusiveOwnership, StoresDisjoint, HandsDistinct, HandsOutsidePool, RequestsDistinct, TakeListed, req_vars
  <2> QED BY <2>1, <2>2, <2>3, <2>4 DEF ExclusiveOwnership
<1>11. ASSUME NEW t \in Threads, PickUp(t) PROVE ExclusiveOwnership'
  <2>1. StoresDisjoint'
    BY <1>11 DEF TypeOK, StepInv, ExclusiveOwnership, StoresDisjoint, HandsDistinct, HandsOutsidePool, RequestsDistinct, PickUp, node_vars
  <2>2. HandsDistinct'
    BY <1>11 DEF TypeOK, StepInv, ExclusiveOwnership, StoresDisjoint, HandsDistinct, HandsOutsidePool, RequestsDistinct, PickUp, node_vars
  <2>3. HandsOutsidePool'
    BY <1>11 DEF TypeOK, StepInv, ExclusiveOwnership, StoresDisjoint, HandsDistinct, HandsOutsidePool, RequestsDistinct, PickUp, node_vars
  <2>4. RequestsDistinct'
    BY <1>11 DEF TypeOK, StepInv, ExclusiveOwnership, StoresDisjoint, HandsDistinct, HandsOutsidePool, RequestsDistinct, PickUp, node_vars
  <2> QED BY <2>1, <2>2, <2>3, <2>4 DEF ExclusiveOwnership
<1>12. ASSUME NEW t \in Threads, NewNode(t) PROVE ExclusiveOwnership'
  <2>1. \A h \in Groups : /\ Elems(hot_queue'[h]) \subseteq Elems(hot_queue[h])
                          /\ Distinct(hot_queue'[h])
                          /\ connections'[h] \subseteq connections[h]
    BY <1>12, EmptyElems DEF TypeOK, NewNode, ExclusiveOwnership, StoresDisjoint
  <2>2. StoresDisjoint'
    <3>1. StoresDisjoint
      BY DEF ExclusiveOwnership
    <3> QED BY <2>1, <3>1 DEF StoresDisjoint
  <2>3. HandsDistinct'
    BY <1>12, <2>1 DEF TypeOK, StepInv, ExclusiveOwnership, StoresDisjoint, HandsDistinct, HandsOutsidePool, RequestsDistinct, NewNode, req_vars
  <2>4. HandsOutsidePool'
    BY <1>12, <2>1 DEF TypeOK, StepInv, ExclusiveOwnership, StoresDisjoint, HandsDistinct, HandsOutsidePool, RequestsDistinct, NewNode, req_vars
  <2>5. RequestsDistinct'
    BY <1>12, <2>1 DEF TypeOK, StepInv, ExclusiveOwnership, StoresDisjoint, HandsDistinct, HandsOutsidePool, RequestsDistinct, NewNode, req_vars
  <2> QED BY <2>2, <2>3, <2>4, <2>5 DEF ExclusiveOwnership
<1>13. ASSUME NEW t \in Threads, PushHot(t) PROVE ExclusiveOwnership'
  <2>1. /\ NodeOf(t) \in Groups /\ Carried(t) \in Conns
        /\ \A h \in Groups : Carried(t) \notin Elems(hot_queue[h]) /\ Carried(t) \notin connections[h]
    BY <1>13 DEF TypeOK, StepInv, PushHot, NodeOf, Carried, Removing, Meta,
               ExclusiveOwnership, HandsOutsidePool
  <2>2. /\ \A r \in Requests : conn[r] # Carried(t)
        /\ \A u \in Threads : /\ own'[u] # Carried(t) /\ hand'[u] # Carried(t)
                             /\ own'[u] \in {own[u], NoConn}
                             /\ hand'[u] \in {hand[u], NoConn}
    BY <1>13 DEF TypeOK, StepInv, PushHot, AddReturns, Carried, Removing,
               ExclusiveOwnership, HandsDistinct, RequestsDistinct
  <2> DEFINE q == hot_queue[NodeOf(t)]
  <2>3. q \in Seq(Conns) /\ Distinct(q)
    BY <2>1, QueueType DEF ExclusiveOwnership, StoresDisjoint
  <2>4. Elems(Append(q, Carried(t))) = Elems(q) \cup {Carried(t)} /\ Distinct(Append(q, Carried(t)))
    BY <2>1, <2>3, AppendElems
  <2>5. \A h \in Groups :
          /\ Elems(hot_queue'[h]) = IF h = NodeOf(t) THEN Elems(hot_queue[h]) \cup {Carried(t)}
                                                    ELSE Elems(hot_queue[h])
          /\ Distinct(hot_queue'[h])
    BY <1>13, <2>1, <2>4 DEF TypeOK, PushHot, ExclusiveOwnership, StoresDisjoint
  <2>6. connections' = connections /\ conn' = conn
    BY <1>13 DEF PushHot, req_vars
  <2>7. \A h \in Groups : NoConn \notin Elems(hot_queue[h]) /\ NoConn \notin connections[h]
    BY ElemsType DEF TypeOK
  <2>8. StoresDisjoint'
    <3> SUFFICES ASSUME NEW g \in Groups, NEW h \in Groups
                 PROVE  /\ Distinct(hot_queue'[g])
                        /\ Elems(hot_queue'[g]) \cap connections'[h] = {}
                        /\ g # h => Elems(hot_queue'[g]) \cap Elems(hot_queue'[h]) = {}
                        /\ g # h => connections'[g] \cap connections'[h] = {}
      BY DEF StoresDisjoint
    <3>1. /\ Distinct(hot_queue[g])
          /\ Elems(hot_queue[g]) \cap connections[h] = {}
          /\ g # h => Elems(hot_queue[g]) \cap Elems(hot_queue[h]) = {}
          /\ g # h => connections[g] \cap connections[h] = {}
      BY DEF ExclusiveOwnership, StoresDisjoint
    <3> QED BY <3>1, <2>1, <2>2, <2>5, <2>6
  <2>9. HandsDistinct'
    BY <2>1, <2>2, <2>5, <2>6 DEF ExclusiveOwnership, HandsDistinct
  <2>10. HandsOutsidePool'
    <3> SUFFICES ASSUME NEW u \in Threads, NEW h \in Groups
                 PROVE  /\ own'[u] \notin connections'[h] /\ own'[u] \notin Elems(hot_queue'[h])
                        /\ hand'[u] \notin connections'[h] /\ hand'[u] \notin Elems(hot_queue'[h])
      BY DEF HandsOutsidePool
    <3>1. /\ own[u] \notin connections[h] /\ own[u] \notin Elems(hot_queue[h])
          /\ hand[u] \notin connections[h] /\ hand[u] \notin Elems(hot_queue[h])
      BY DEF ExclusiveOwnership, HandsOutsidePool
    <3>2. own'[u] \in {own[u], NoConn} \ {Carried(t)} /\ hand'[u] \in {hand[u], NoConn} \ {Carried(t)}
      BY <2>2
    <3>3. /\ connections'[h] \subseteq connections[h] \cup {Carried(t)}
          /\ Elems(hot_queue'[h]) \subseteq Elems(hot_queue[h]) \cup {Carried(t)}
      BY <2>1, <2>2, <2>5, <2>6
    <3> QED BY <3>1, <3>2, <3>3, <2>7
  <2>11. RequestsDistinct'
    <3> SUFFICES ASSUME NEW r \in Requests, conn'[r] # NoConn,
                        NEW s \in Requests, NEW u \in Threads, NEW h \in Groups
                 PROVE  /\ conn'[s] = conn'[r] => s = r
                        /\ own'[u] # conn'[r] /\ hand'[u] # conn'[r]
                        /\ conn'[r] \notin connections'[h]
                        /\ conn'[r] \notin Elems(hot_queue'[h])
      BY <2>1 DEF RequestsDistinct
    <3>1. conn'[r] = conn[r] /\ conn'[s] = conn[s] /\ conn[r] # Carried(t)
      BY <2>1, <2>2, <2>5, <2>6
    <3>2. /\ conn[s] = conn[r] => s = r
          /\ own[u] # conn[r] /\ hand[u] # conn[r]
          /\ conn[r] \notin connections[h] /\ conn[r] \notin Elems(hot_queue[h])
      BY <3>1 DEF ExclusiveOwnership, RequestsDistinct
    <3>3. own'[u] \in {own[u], NoConn} /\ hand'[u] \in {hand[u], NoConn}
      BY <2>2
    <3>4. /\ connections'[h] \subseteq connections[h] \cup {Carried(t)}
          /\ Elems(hot_queue'[h]) \subseteq Elems(hot_queue[h]) \cup {Carried(t)}
      BY <2>1, <2>2, <2>5, <2>6
    <3> QED BY <3>1, <3>2, <3>3, <3>4
  <2> QED BY <2>8, <2>9, <2>10, <2>11 DEF ExclusiveOwnership
<1>14. ASSUME NEW t \in Threads, InsertList(t) PROVE ExclusiveOwnership'
  <2>1. /\ NodeOf(t) \in Groups /\ Carried(t) \in Conns
        /\ \A h \in Groups : Carried(t) \notin Elems(hot_queue[h]) /\ Carried(t) \notin connections[h]
    BY <1>14 DEF TypeOK, StepInv, InsertList, NodeOf, Carried, Removing, Meta,
               ExclusiveOwnership, HandsOutsidePool
  <2>2. /\ \A r \in Requests : conn[r] # Carried(t)
        /\ \A u \in Threads : /\ own'[u] # Carried(t) /\ hand'[u] # Carried(t)
                             /\ own'[u] \in {own[u], NoConn}
                             /\ hand'[u] \in {hand[u], NoConn}
    BY <1>14 DEF TypeOK, StepInv, InsertList, AddReturns, Carried, Removing,
               ExclusiveOwnership, HandsDistinct, RequestsDistinct
  <2>3. \A h \in Groups :
          connections'[h] = IF h = NodeOf(t) THEN connections[h] \cup {Carried(t)}
                                             ELSE connections[h]
    BY <1>14, <2>1 DEF TypeOK, InsertList
  <2>4. hot_queue' = hot_queue /\ conn' = conn
    BY <1>14 DEF InsertList, req_vars
  <2>5. \A h \in Groups : NoConn \notin Elems(hot_queue[h]) /\ NoConn \notin connections[h]
    BY ElemsType DEF TypeOK
  <2>6. StoresDisjoint'
    <3> SUFFICES ASSUME NEW g \in Groups, NEW h \in Groups
                 PROVE  /\ Distinct(hot_queue'[g])
                        /\ Elems(hot_queue'[g]) \cap connections'[h] = {}
                        /\ g # h => Elems(hot_queue'[g]) \cap Elems(hot_queue'[h]) = {}
                        /\ g # h => connections'[g] \cap connections'[h] = {}
      BY DEF StoresDisjoint
    <3>1. /\ Distinct(hot_queue[g])
          /\ Elems(hot_queue[g]) \cap connections[h] = {}
          /\ g # h => Elems(hot_queue[g]) \cap Elems(hot_queue[h]) = {}
          /\ g # h => connections[g] \cap connections[h] = {}
      BY DEF ExclusiveOwnership, StoresDisjoint
    <3> QED BY <3>1, <2>1, <2>2, <2>3, <2>4
  <2>7. HandsDistinct'
    BY <2>1, <2>2, <2>3, <2>4 DEF ExclusiveOwnership, HandsDistinct
  <2>8. HandsOutsidePool'
    <3> SUFFICES ASSUME NEW u \in Threads, NEW h \in Groups
                 PROVE  /\ own'[u] \notin connections'[h] /\ own'[u] \notin Elems(hot_queue'[h])
                        /\ hand'[u] \notin connections'[h] /\ hand'[u] \notin Elems(hot_queue'[h])
      BY DEF HandsOutsidePool
    <3>1. /\ own[u] \notin connections[h] /\ own[u] \notin Elems(hot_queue[h])
          /\ hand[u] \notin connections[h] /\ hand[u] \notin Elems(hot_queue[h])
      BY DEF ExclusiveOwnership, HandsOutsidePool
    <3>2. own'[u] \in {own[u], NoConn} \ {Carried(t)} /\ hand'[u] \in {hand[u], NoConn} \ {Carried(t)}
      BY <2>2
    <3>3. /\ connections'[h] \subseteq connections[h] \cup {Carried(t)}
          /\ Elems(hot_queue'[h]) \subseteq Elems(hot_queue[h]) \cup {Carried(t)}
      BY <2>1, <2>2, <2>3, <2>4
    <3> QED BY <3>1, <3>2, <3>3, <2>5
  <2>9. RequestsDistinct'
    <3> SUFFICES ASSUME NEW r \in Requests, conn'[r] # NoConn,
                        NEW s \in Requests, NEW u \in Threads, NEW h \in Groups
                 PROVE  /\ conn'[s] = conn'[r] => s = r
                        /\ own'[u] # conn'[r] /\ hand'[u] # conn'[r]
                        /\ conn'[r] \notin connections'[h]
                        /\ conn'[r] \notin Elems(hot_queue'[h])
      BY <2>1 DEF RequestsDistinct
    <3>1. conn'[r] = conn[r] /\ conn'[s] = conn[s] /\ conn[r] # Carried(t)
      BY <2>1, <2>2, <2>3, <2>4
    <3>2. /\ conn[s] = conn[r] => s = r
          /\ own[u] # conn[r] /\ hand[u] # conn[r]
          /\ conn[r] \notin connections[h] /\ conn[r] \notin Elems(hot_queue[h])
      BY <3>1 DEF ExclusiveOwnership, RequestsDistinct
    <3>3. own'[u] \in {own[u], NoConn} /\ hand'[u] \in {hand[u], NoConn}
      BY <2>2
    <3>4. /\ connections'[h] \subseteq connections[h] \cup {Carried(t)}
          /\ Elems(hot_queue'[h]) \subseteq Elems(hot_queue[h]) \cup {Carried(t)}
      BY <2>1, <2>2, <2>3, <2>4
    <3> QED BY <3>1, <3>2, <3>3, <3>4
  <2> QED BY <2>6, <2>7, <2>8, <2>9 DEF ExclusiveOwnership
<1>15. ASSUME NEW t \in Threads, RemoveListed(t) PROVE ExclusiveOwnership'
  <2>1. \A h \in Groups : connections'[h] \subseteq connections[h]
    BY <1>15 DEF TypeOK, RemoveListed
  <2>2. StoresDisjoint'
    BY <1>15, <2>1 DEF TypeOK, StepInv, ExclusiveOwnership, StoresDisjoint, HandsDistinct, HandsOutsidePool, RequestsDistinct, RemoveListed, req_vars
  <2>3. HandsDistinct'
    BY <1>15, <2>1 DEF TypeOK, StepInv, ExclusiveOwnership, StoresDisjoint, HandsDistinct, HandsOutsidePool, RequestsDistinct, RemoveListed, req_vars
  <2>4. HandsOutsidePool'
    BY <1>15, <2>1 DEF TypeOK, StepInv, ExclusiveOwnership, StoresDisjoint, HandsDistinct, HandsOutsidePool, RequestsDistinct, RemoveListed, req_vars
  <2>5. RequestsDistinct'
    BY <1>15, <2>1 DEF TypeOK, StepInv, ExclusiveOwnership, StoresDisjoint, HandsDistinct, HandsOutsidePool, RequestsDistinct, RemoveListed, req_vars
  <2> QED BY <2>2, <2>3, <2>4, <2>5 DEF ExclusiveOwnership
<1>16. ASSUME NEW t \in Threads, ScanFinds(t) PROVE ExclusiveOwnership'
  <2> DEFINE g == tgt[t].group
             q == hot_queue[g]
  <2>1. /\ g \in Groups /\ q \in Seq(Conns) /\ q # <<>> /\ Distinct(q)
        /\ Head(q) \in Conns
    BY <1>16, QueueType DEF TypeOK, StepInv, Meta, ScanFinds, ExclusiveOwnership, StoresDisjoint
  <2>2. /\ Head(q) \in Elems(q) /\ Elems(Tail(q)) = Elems(q) \ {Head(q)}
        /\ Distinct(Tail(q))
    BY <2>1, TailElems
  <2>3. hot_queue' = [hot_queue EXCEPT ![g] = Tail(q)]
    BY <1>16 DEF ScanFinds
  <2>4. \A h \in Groups : /\ Elems(hot_queue'[h]) = IF h = g THEN Elems(q) \ {Head(q)}
                                                          ELSE Elems(hot_queue[h])
                          /\ Distinct(hot_queue'[h])
    BY <2>1, <2>2, <2>3 DEF TypeOK, ExclusiveOwnership, StoresDisjoint
  <2>5. StoresDisjoint'
    BY <1>16, <2>1, <2>2, <2>4 DEF TypeOK, StepInv, ExclusiveOwnership, StoresDisjoint, HandsDistinct, HandsOutsidePool, RequestsDistinct, ScanFinds, req_vars
  <2>6. HandsDistinct'
    BY <1>16, <2>1, <2>2, <2>4 DEF TypeOK, StepInv, ExclusiveOwnership, StoresDisjoint, HandsDistinct, HandsOutsidePool, RequestsDistinct, ScanFinds, req_vars
  <2>7. HandsOutsidePool'
    BY <1>16, <2>1, <2>2, <2>4 DEF TypeOK, StepInv, ExclusiveOwnership, StoresDisjoint, HandsDistinct, HandsOutsidePool, RequestsDistinct, ScanFinds, req_vars
  <2>8. RequestsDistinct'
    BY <1>16, <2>1, <2>2, <2>4 DEF TypeOK, StepInv, ExclusiveOwnership, StoresDisjoint, HandsDistinct, HandsOutsidePool, RequestsDistinct, ScanFinds, req_vars
  <2> QED BY <2>5, <2>6, <2>7, <2>8 DEF ExclusiveOwnership
<1>17. ASSUME NEW t \in Threads, ScanTakesOther(t) PROVE ExclusiveOwnership'
  <2> DEFINE g == tgt[t].group
             q == hot_queue[g]
  <2>1. /\ g \in Groups /\ q \in Seq(Conns) /\ q # <<>> /\ Distinct(q)
        /\ Head(q) \in Conns
    BY <1>17, QueueType DEF TypeOK, StepInv, Meta, ScanTakesOther, ExclusiveOwnership, StoresDisjoint
  <2>2. /\ Head(q) \in Elems(q) /\ Elems(Tail(q)) = Elems(q) \ {Head(q)}
        /\ Distinct(Tail(q))
    BY <2>1, TailElems
  <2>3. hot_queue' = [hot_queue EXCEPT ![g] = Tail(q)]
    BY <1>17 DEF ScanTakesOther
  <2>4. \A h \in Groups : /\ Elems(hot_queue'[h]) = IF h = g THEN Elems(q) \ {Head(q)}
                                                          ELSE Elems(hot_queue[h])
                          /\ Distinct(hot_queue'[h])
    BY <2>1, <2>2, <2>3 DEF TypeOK, ExclusiveOwnership, StoresDisjoint
  <2>5. StoresDisjoint'
    BY <1>17, <2>1, <2>2, <2>4 DEF TypeOK, StepInv, ExclusiveOwnership, StoresDisjoint, HandsDistinct, HandsOutsidePool, RequestsDistinct, ScanTakesOther, req_vars
  <2>6. HandsDistinct'
    BY <1>17, <2>1, <2>2, <2>4 DEF TypeOK, StepInv, ExclusiveOwnership, StoresDisjoint, HandsDistinct, HandsOutsidePool, RequestsDistinct, ScanTakesOther, req_vars
  <2>7. HandsOutsidePool'
    BY <1>17, <2>1, <2>2, <2>4 DEF TypeOK, StepInv, ExclusiveOwnership, StoresDisjoint, HandsDistinct, HandsOutsidePool, RequestsDistinct, ScanTakesOther, req_vars
  <2>8. RequestsDistinct'
    BY <1>17, <2>1, <2>2, <2>4 DEF TypeOK, StepInv, ExclusiveOwnership, StoresDisjoint, HandsDistinct, HandsOutsidePool, RequestsDistinct, ScanTakesOther, req_vars
  <2> QED BY <2>5, <2>6, <2>7, <2>8 DEF ExclusiveOwnership
<1>18. ASSUME NEW t \in Threads, NEW r \in Requests, NEW g \in Groups,
             StartFind(t, r, g)
      PROVE  ExclusiveOwnership'
  BY <1>18, PlacesStep DEF StartFind, node_vars, Places
<1>19. ASSUME NEW t \in Threads, NEW r \in Requests,
             StartReturn(t, r) \/ StartReturnEvicting(t, r)
      PROVE  ExclusiveOwnership'
  <2>1. Returning(t, r)
    BY <1>19 DEF StartReturn, StartReturnEvicting
  <2>2. StoresDisjoint'
    BY <2>1 DEF TypeOK, StepInv, ExclusiveOwnership, StoresDisjoint, HandsDistinct, HandsOutsidePool, RequestsDistinct, Returning, ProxyInv, node_vars
  <2>3. HandsDistinct'
    BY <2>1 DEF TypeOK, StepInv, ExclusiveOwnership, StoresDisjoint, HandsDistinct, HandsOutsidePool, RequestsDistinct, Returning, ProxyInv, node_vars
  <2>4. HandsOutsidePool'
    BY <2>1 DEF TypeOK, StepInv, ExclusiveOwnership, StoresDisjoint, HandsDistinct, HandsOutsidePool, RequestsDistinct, Returning, ProxyInv, node_vars
  <2>5. RequestsDistinct'
    BY <2>1 DEF TypeOK, StepInv, ExclusiveOwnership, StoresDisjoint, HandsDistinct, HandsOutsidePool, RequestsDistinct, Returning, ProxyInv, node_vars
  <2> QED BY <2>2, <2>3, <2>4, <2>5 DEF ExclusiveOwnership
<1>20. ASSUME NEW t \in Threads, NEW c \in Conns, IdleTimeout(t, c)
      PROVE  ExclusiveOwnership'
  BY <1>20, PlacesStep DEF IdleTimeout, node_vars, req_vars, Places
<1>21. ASSUME NEW r \in Requests, NEW c \in Conns, Connect(r, c)
      PROVE  ExclusiveOwnership'
  <2>1. /\ \A g \in Groups : c \notin Elems(hot_queue[g]) /\ c \notin connections[g]
        /\ \A t \in Threads : own[t] # c /\ hand[t] # c
        /\ \A s \in Requests : conn[s] # c
    <3>1. c \notin Open
      BY <1>21 DEF Connect
    <3>2. \A g \in Groups : c \notin Pooled(g)
      BY <3>1 DEF Open
    <3>3. /\ \A t \in Threads : own[t] # c /\ hand[t] # c
          /\ \A s \in Requests : conn[s] # c
      <4>1. /\ c \notin { own[t] : t \in Threads }
            /\ c \notin { hand[t] : t \in Threads }
            /\ c \notin { conn[s] : s \in Requests }
        BY <3>1 DEF Open
      <4> QED BY <4>1
    <3> QED BY <3>2, <3>3 DEF Pooled
  <2>2. StoresDisjoint'
    BY <1>21, <2>1 DEF TypeOK, StepInv, ExclusiveOwnership, StoresDisjoint, HandsDistinct, HandsOutsidePool, RequestsDistinct, Connect, node_vars, op_vars
  <2>3. HandsDistinct'
    BY <1>21, <2>1 DEF TypeOK, StepInv, ExclusiveOwnership, StoresDisjoint, HandsDistinct, HandsOutsidePool, RequestsDistinct, Connect, node_vars, op_vars
  <2>4. HandsOutsidePool'
    BY <1>21, <2>1 DEF TypeOK, StepInv, ExclusiveOwnership, StoresDisjoint, HandsDistinct, HandsOutsidePool, RequestsDistinct, Connect, node_vars, op_vars
  <2>5. RequestsDistinct'
    BY <1>21, <2>1 DEF TypeOK, StepInv, ExclusiveOwnership, StoresDisjoint, HandsDistinct, HandsOutsidePool, RequestsDistinct, Connect, node_vars, op_vars
  <2> QED BY <2>2, <2>3, <2>4, <2>5 DEF ExclusiveOwnership
<1>22. ASSUME NEW r \in Requests, ConnectFails(r) \/ ProxyFails(r)
      PROVE  ExclusiveOwnership'
  <2>1. StoresDisjoint'
    BY <1>22 DEF TypeOK, StepInv, ExclusiveOwnership, StoresDisjoint, HandsDistinct, HandsOutsidePool, RequestsDistinct, ConnectFails, ProxyFails, node_vars, op_vars
  <2>2. HandsDistinct'
    BY <1>22 DEF TypeOK, StepInv, ExclusiveOwnership, StoresDisjoint, HandsDistinct, HandsOutsidePool, RequestsDistinct, ConnectFails, ProxyFails, node_vars, op_vars
  <2>3. HandsOutsidePool'
    BY <1>22 DEF TypeOK, StepInv, ExclusiveOwnership, StoresDisjoint, HandsDistinct, HandsOutsidePool, RequestsDistinct, ConnectFails, ProxyFails, node_vars, op_vars
  <2>4. RequestsDistinct'
    BY <1>22 DEF TypeOK, StepInv, ExclusiveOwnership, StoresDisjoint, HandsDistinct, HandsOutsidePool, RequestsDistinct, ConnectFails, ProxyFails, node_vars, op_vars
  <2> QED BY <2>1, <2>2, <2>3, <2>4 DEF ExclusiveOwnership
<1>23. CASE UNCHANGED vars
  BY <1>23, PlacesStep DEF vars, node_vars, req_vars, op_vars, Places
<1> QED
  BY <1>1, <1>2, <1>3, <1>4, <1>5, <1>6, <1>7, <1>8, <1>9, <1>10, <1>11,
     <1>12, <1>13, <1>14, <1>15, <1>16, <1>17, <1>18, <1>19, <1>20, <1>21,
     <1>22, <1>23
     DEF Next, Continue, Find, Add, Remove

(* No connection is ever in two places: in particular no two requests are
   given the same upstream stream. *)
THEOREM PoolExclusive == Spec => []ExclusiveOwnership
<1>1. Init => Typing /\ ExclusiveOwnership
  BY TypingInit, ExclusiveInit
<1>2. Typing /\ ExclusiveOwnership /\ [Next]_vars => (Typing /\ ExclusiveOwnership)'
  BY TypingStep, ExclusiveStep
<1> QED BY <1>1, <1>2, PTL DEF Spec

=============================================================================
