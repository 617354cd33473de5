----------------------- MODULE ConnectionPoolRefinement -----------------------
(***************************************************************************)
(* The connection pool implements IdlePool, for any number of threads,     *)
(* requests, connections and groups and any capacity; with it what a       *)
(* mutex, an idle timer and the loss of a pooled connection depend on.     *)
(***************************************************************************)
EXTENDS ConnectionPoolProofs

(* A thread only pushes into a node that is there: a new node loses nothing. *)
NodeInv ==
  /\ \A g \in Groups \ nodes : hot_queue[g] = <<>> /\ connections[g] = {}
  /\ \A t \in Threads :
       /\ Scanning(t) => tgt[t].group \in nodes
       /\ pc[t] \in {"push", "insert"} /\ hand[t] = NoConn => grp[t] \in nodes

(* One thread looks up for a request, which holds no stream meanwhile. *)
Finding == {"find_hot", "find_list", "pick_up"}

FindInv ==
  /\ \A r \in Requests : phase[r] # "proxying" => conn[r] = NoConn
  /\ \A t \in Threads : pc[t] \in Finding =>
       /\ phase[cli[t]] = "finding" /\ peer[cli[t]] = grp[t]
       /\ \A u \in Threads \ {t} : pc[u] \in Finding => cli[u] # cli[t]

USE DEF node_vars, lru_vars, req_vars, op_vars

-----------------------------------------------------------------------------
(* The steps that leave both stores and every hand as they are. *)
Looking(t) ==
  FindNoNode(t) \/ HotQueueEmpty(t) \/ ListEmpty(t) \/ PickUp(t) \/ GetNode(t)
    \/ HotQueueFull(t)

Serving ==
  \/ \E t \in Threads, r \in Requests, g \in Groups : StartFind(t, r, g)
  \/ \E t \in Threads, r \in Requests : StartReturn(t, r) \/ StartReturnEvicting(t, r)
  \/ \E r \in Requests, c \in Conns : Connect(r, c)
  \/ \E r \in Requests : ConnectFails(r) \/ ProxyFails(r)

-----------------------------------------------------------------------------
(* The mutex of a map. *)
LEMMA LockStep ==
  ASSUME Typing, ListLockDiscipline, [Next]_vars
  PROVE  ListLockDiscipline'
<1> USE PoolAssumption DEF Typing
<1>0. /\ pc \in [Threads -> Steps] /\ hand \in [Threads -> Conns \cup {NoConn}]
      /\ tgt \in [Threads -> Meta \cup {NoMeta}]
      /\ list_lock \in [Groups -> Threads \cup {NoThread}]
  BY DEF TypeOK, Steps
<1>1. ASSUME NEW t \in Threads, Looking(t) \/ TakeHot(t) \/ TakeListed(t) \/ NewNode(t)
      PROVE  ListLockDiscipline'
  <2>1. /\ UNCHANGED <<list_lock, tgt, hand>> /\ \E s \in Steps \ {"scan"} : pc' = [pc EXCEPT ![t] = s]
        /\ pc[t] # "scan"
    BY <1>1 DEF Looking, FindNoNode, Miss, HotQueueEmpty, ListEmpty, PickUp, GetNode,
                HotQueueFull, TakeHot, TakeListed, NewNode, Steps
  <2> QED BY <1>0, <2>1 DEF ListLockDiscipline, Scanning
<1>2. ASSUME NEW t \in Threads, PushHot(t) \/ InsertList(t)
      PROVE  ListLockDiscipline'
  <2>1. UNCHANGED <<list_lock, tgt>> /\ AddReturns(t) /\ pc[t] \in {"push", "insert"}
    BY <1>2 DEF PushHot, InsertList
  <2>2. CASE Removing(t)
    <3>1. /\ pc' = [pc EXCEPT ![t] = "scan"] /\ hand' = [hand EXCEPT ![t] = NoConn]
          /\ hand[t] # NoConn
      BY <2>1, <2>2 DEF AddReturns, Removing
    <3> QED BY <1>0, <2>1, <3>1 DEF ListLockDiscipline, Scanning
  <2>3. CASE ~Removing(t)
    <3>1. pc' = [pc EXCEPT ![t] = "idle"] /\ hand' = hand /\ hand[t] = NoConn
      BY <2>1, <2>3 DEF AddReturns, Removing
    <3> QED BY <1>0, <2>1, <3>1 DEF ListLockDiscipline, Scanning
  <2> QED BY <2>2, <2>3
<1>3. ASSUME NEW t \in Threads, RemoveNoNode(t) \/ RemoveListed(t)
      PROVE  ListLockDiscipline'
  <2>1. /\ UNCHANGED <<list_lock, hand>> /\ tgt' = [tgt EXCEPT ![t] = NoMeta]
        /\ pc[t] = "remove" /\ hand[t] = NoConn
        /\ \E s \in {"get_node", "idle"} : pc' = [pc EXCEPT ![t] = s]
    BY <1>3 DEF RemoveNoNode, RemoveListed, RemoveReturns, StepInv
  <2> QED BY <1>0, <2>1 DEF ListLockDiscipline, Scanning
<1>4. ASSUME NEW t \in Threads, StartScan(t)
      PROVE  ListLockDiscipline'
  <2>1. /\ tgt' = tgt /\ hand' = hand /\ pc' = [pc EXCEPT ![t] = "scan"]
        /\ list_lock' = [list_lock EXCEPT ![tgt[t].group] = t]
        /\ list_lock[tgt[t].group] = NoThread /\ pc[t] = "remove"
    BY <1>4 DEF StartScan
  <2>2. tgt[t].group \in Groups
    BY <2>1 DEF StepInv, TypeOK, Meta
  <2> QED BY <1>0, <2>1, <2>2 DEF ListLockDiscipline, Scanning
<1>5. ASSUME NEW t \in Threads, ScanEnds(t) \/ ScanFinds(t)
      PROVE  ListLockDiscipline'
  <2>1. /\ hand' = hand /\ tgt' = [tgt EXCEPT ![t] = NoMeta] /\ pc[t] = "scan"
        /\ list_lock' = [list_lock EXCEPT ![tgt[t].group] = NoThread] /\ hand[t] = NoConn
        /\ \E s \in {"get_node", "idle"} : pc' = [pc EXCEPT ![t] = s]
    BY <1>5 DEF ScanEnds, ScanFinds, RemoveReturns, StepInv
  <2>2. tgt[t].group \in Groups /\ list_lock[tgt[t].group] = t
    BY <2>1 DEF StepInv, TypeOK, Meta, ListLockDiscipline, Scanning
  <2> QED BY <1>0, <2>1, <2>2 DEF ListLockDiscipline, Scanning
<1>6. ASSUME NEW t \in Threads, ScanTakesOther(t)
      PROVE  ListLockDiscipline'
  <2>1. /\ UNCHANGED <<list_lock, tgt>> /\ pc[t] = "scan" /\ pc' = [pc EXCEPT ![t] = "push"]
        /\ hand' = [hand EXCEPT ![t] = Head(hot_queue[tgt[t].group])]
        /\ hot_queue[tgt[t].group] # <<>>
    BY <1>6 DEF ScanTakesOther
  <2>2. Head(hot_queue[tgt[t].group]) \in Conns
    <3>1. tgt[t].group \in Groups
      BY <2>1 DEF StepInv, TypeOK, Meta
    <3> QED BY <2>1, <3>1, QueueType
  <2> QED BY <1>0, <2>1, <2>2 DEF ListLockDiscipline, Scanning
<1>7. ASSUME NEW t \in Threads, NEW c \in Conns, IdleTimeout(t, c)
      PROVE  ListLockDiscipline'
  <2>1. /\ UNCHANGED <<list_lock, hand>> /\ pc[t] = "idle" /\ hand[t] = NoConn
        /\ pc' = [pc EXCEPT ![t] = "remove"] /\ tgt' = [tgt EXCEPT ![t] = idle[c]]
    BY <1>7 DEF IdleTimeout, StepInv
  <2> QED BY <1>0, <2>1 DEF ListLockDiscipline, Scanning
<1>8. CASE Serving
  <2>1. \/ UNCHANGED <<list_lock, hand, tgt, pc>>
        \/ \E t \in Threads :
             /\ UNCHANGED <<list_lock, hand>> /\ pc[t] = "idle"
             /\ \E s \in {"find_hot", "get_node", "remove"} : pc' = [pc EXCEPT ![t] = s]
             /\ \E m : tgt' = [tgt EXCEPT ![t] = m]
    <3>1. \A t \in Threads : tgt = [tgt EXCEPT ![t] = tgt[t]]
      BY <1>0
    <3>2. ASSUME NEW t \in Threads, NEW r \in Requests, NEW g \in Groups, StartFind(t, r, g)
          PROVE  <2>1!2
      BY <3>1, <3>2 DEF StartFind
    <3>3. ASSUME NEW t \in Threads, NEW r \in Requests,
                 StartReturn(t, r) \/ StartReturnEvicting(t, r)
          PROVE  <2>1!2
      BY <3>1, <3>3 DEF StartReturn, StartReturnEvicting, Returning
    <3>4. ASSUME NEW r \in Requests,
                 (\E c \in Conns : Connect(r, c)) \/ ConnectFails(r) \/ ProxyFails(r)
          PROVE  UNCHANGED <<list_lock, hand, tgt, pc>>
      BY <3>4 DEF Connect, ConnectFails, ProxyFails
    <3> QED BY <1>8, <3>2, <3>3, <3>4 DEF Serving
  <2>2. ASSUME NEW t \in Threads, UNCHANGED <<list_lock, hand>>, pc[t] = "idle",
               NEW s \in {"find_hot", "get_node", "remove"}, pc' = [pc EXCEPT ![t] = s],
               NEW m, tgt' = [tgt EXCEPT ![t] = m]
        PROVE  ListLockDiscipline'
    <3>1. hand[t] = NoConn
      BY <2>2 DEF StepInv
    <3> QED BY <1>0, <2>2, <3>1 DEF ListLockDiscipline, Scanning
  <2>3. CASE UNCHANGED <<list_lock, hand, tgt, pc>>
    BY <2>3 DEF ListLockDiscipline, Scanning
  <2> QED BY <2>1, <2>2, <2>3
<1>9. CASE UNCHANGED vars
  BY <1>9 DEF vars, ListLockDiscipline, Scanning
<1> QED BY <1>1, <1>2, <1>3, <1>4, <1>5, <1>6, <1>7, <1>8, <1>9
        DEF Next, Continue, Find, Add, Remove, Looking, Serving

-----------------------------------------------------------------------------
(* The nodes. *)
LEMMA NodeStep ==
  ASSUME Typing, NodeInv, [Next]_vars
  PROVE  NodeInv'
<1> USE PoolAssumption DEF Typing
<1>0. /\ pc \in [Threads -> Steps] /\ hand \in [Threads -> Conns \cup {NoConn}]
      /\ tgt \in [Threads -> Meta \cup {NoMeta}] /\ grp \in [Threads -> Groups]
      /\ hot_queue \in [Groups -> Seq(Conns)] /\ connections \in [Groups -> SUBSET Conns]
  BY DEF TypeOK, Steps
<1>1. ASSUME NEW t \in Threads, Looking(t)
      PROVE  NodeInv'
  <2>1. /\ UNCHANGED <<nodes, hot_queue, connections, tgt, hand, grp>> /\ pc[t] # "scan"
        /\ \E s \in Steps \ {"scan"} :
             /\ pc' = [pc EXCEPT ![t] = s]
             /\ s \in {"push", "insert"} => grp[t] \in nodes \/ pc[t] \in {"push", "insert"}
    BY <1>1 DEF Looking, FindNoNode, Miss, HotQueueEmpty, ListEmpty, PickUp, GetNode,
                HotQueueFull, Steps
  <2> QED BY <1>0, <2>1 DEF NodeInv, Scanning
<1>2. ASSUME NEW t \in Threads, TakeHot(t) \/ TakeListed(t)
      PROVE  NodeInv'
  <2>1. /\ UNCHANGED <<nodes, tgt, hand, grp>> /\ pc[t] # "scan"
        /\ pc' = [pc EXCEPT ![t] = "pick_up"]
        /\ \A g \in Groups \ nodes :
             hot_queue'[g] = hot_queue[g] /\ connections'[g] \subseteq connections[g]
    <3>1. CASE TakeHot(t)
      BY <1>0, <3>1 DEF TakeHot
    <3>2. CASE TakeListed(t)
      <4>1. PICK c : connections' = [connections EXCEPT ![grp[t]] = @ \ {c}]
        BY <3>2 DEF TakeListed
      <4> QED BY <1>0, <3>2, <4>1 DEF TakeListed
    <3> QED BY <1>2, <3>1, <3>2
  <2> QED BY <1>0, <2>1 DEF NodeInv, Scanning
<1>3. ASSUME NEW t \in Threads, NewNode(t)
      PROVE  NodeInv'
  <2>1. /\ UNCHANGED <<tgt, hand, grp>> /\ pc[t] # "scan" /\ nodes' = nodes \cup {grp[t]}
        /\ pc' = [pc EXCEPT ![t] = "push"]
        /\ \A g \in Groups \ nodes' :
             hot_queue'[g] = hot_queue[g] /\ connections'[g] = connections[g]
    BY <1>0, <1>3 DEF NewNode
  <2> QED BY <1>0, <2>1 DEF NodeInv, Scanning
<1>4. ASSUME NEW t \in Threads, PushHot(t) \/ InsertList(t)
      PROVE  NodeInv'
  <2>1. /\ UNCHANGED <<nodes, tgt, grp>> /\ AddReturns(t) /\ pc[t] \in {"push", "insert"}
        /\ \A g \in Groups \ {NodeOf(t)} :
             hot_queue'[g] = hot_queue[g] /\ connections'[g] = connections[g]
    BY <1>0, <1>4 DEF PushHot, InsertList
  <2>2. NodeOf(t) \in nodes
    BY <1>0, <2>1 DEF NodeInv, NodeOf, Removing, Scanning
  <2>3. CASE Removing(t)
    <3>1. /\ pc' = [pc EXCEPT ![t] = "scan"] /\ hand' = [hand EXCEPT ![t] = NoConn]
          /\ hand[t] # NoConn
      BY <2>1, <2>3 DEF AddReturns, Removing
    <3> QED BY <1>0, <2>1, <2>2, <3>1 DEF NodeInv, Scanning
  <2>4. CASE ~Removing(t)
    <3>1. pc' = [pc EXCEPT ![t] = "idle"] /\ hand' = hand
      BY <2>1, <2>4 DEF AddReturns
    <3> QED BY <1>0, <2>1, <2>2, <3>1 DEF NodeInv, Scanning
  <2> QED BY <2>3, <2>4
<1>5. ASSUME NEW t \in Threads, RemoveNoNode(t) \/ RemoveListed(t) \/ ScanEnds(t) \/ ScanFinds(t)
      PROVE  NodeInv'
  <2>1. /\ UNCHANGED <<nodes, hand, grp>> /\ tgt' = [tgt EXCEPT ![t] = NoMeta]
        /\ hand[t] = NoConn /\ \E s \in {"get_node", "idle"} : pc' = [pc EXCEPT ![t] = s]
    BY <1>5 DEF RemoveNoNode, RemoveListed, ScanEnds, ScanFinds, RemoveReturns, StepInv
  <2>2. \A g \in Groups \ nodes :
          hot_queue'[g] = hot_queue[g] /\ connections'[g] = connections[g]
    BY <1>0, <1>5 DEF RemoveNoNode, RemoveListed, ScanEnds, ScanFinds, NodeInv, Scanning
  <2> QED BY <1>0, <2>1, <2>2 DEF NodeInv, Scanning
<1>6. ASSUME NEW t \in Threads, StartScan(t)
      PROVE  NodeInv'
  <2>1. /\ UNCHANGED <<nodes, hot_queue, connections, tgt, hand, grp>> /\ tgt[t].group \in nodes
        /\ pc' = [pc EXCEPT ![t] = "scan"]
    BY <1>6 DEF StartScan
  <2> QED BY <1>0, <2>1 DEF NodeInv, Scanning
<1>7. ASSUME NEW t \in Threads, ScanTakesOther(t)
      PROVE  NodeInv'
  <2>1. /\ UNCHANGED <<nodes, connections, tgt, grp>> /\ pc[t] = "scan"
        /\ pc' = [pc EXCEPT ![t] = "push"] /\ \E c : hand' = [hand EXCEPT ![t] = c]
        /\ tgt[t].group \in nodes
        /\ \A g \in Groups \ nodes : hot_queue'[g] = hot_queue[g]
    BY <1>0, <1>7 DEF ScanTakesOther, NodeInv, Scanning
  <2>2. hot_queue[tgt[t].group] # <<>> /\ hand' = [hand EXCEPT ![t] = Head(hot_queue[tgt[t].group])]
    BY <1>7 DEF ScanTakesOther
  <2>3. tgt[t].group \in Groups
    BY <1>0, <2>1 DEF StepInv, Meta
  <2>4. hand'[t] # NoConn
    BY <1>0, <2>2, <2>3, QueueType
  <2> QED BY <1>0, <2>1, <2>4 DEF NodeInv, Scanning
<1>8. ASSUME NEW t \in Threads, NEW c \in Conns, IdleTimeout(t, c)
      PROVE  NodeInv'
  <2>1. /\ UNCHANGED <<nodes, hot_queue, connections, hand, grp>> /\ hand[t] = NoConn
        /\ pc' = [pc EXCEPT ![t] = "remove"] /\ tgt' = [tgt EXCEPT ![t] = idle[c]]
    BY <1>8 DEF IdleTimeout, StepInv
  <2> QED BY <1>0, <2>1 DEF NodeInv, Scanning
<1>9. CASE Serving
  <2>1. ASSUME NEW t \in Threads, UNCHANGED <<nodes, hot_queue, connections, hand>>, pc[t] = "idle",
               NEW s \in {"find_hot", "get_node", "remove"}, pc' = [pc EXCEPT ![t] = s],
               NEW m, tgt' = [tgt EXCEPT ![t] = m], NEW g \in Groups, grp' = [grp EXCEPT ![t] = g]
        PROVE  NodeInv'
    <3>1. hand[t] = NoConn
      BY <2>1 DEF StepInv
    <3> QED BY <1>0, <2>1, <3>1 DEF NodeInv, Scanning
  <2>2. ASSUME NEW t \in Threads, NEW r \in Requests, NEW g \in Groups, StartFind(t, r, g)
        PROVE  NodeInv'
    <3>1. tgt' = [tgt EXCEPT ![t] = tgt[t]]
      BY <1>0, <2>2 DEF StartFind
    <3> QED BY <2>1, <2>2, <3>1 DEF StartFind
  <2>3. ASSUME NEW t \in Threads, NEW r \in Requests, StartReturn(t, r) \/ StartReturnEvicting(t, r)
        PROVE  NodeInv'
    <3>1. \E m : tgt' = [tgt EXCEPT ![t] = m]
      <4>1. tgt = [tgt EXCEPT ![t] = tgt[t]]
        BY <1>0
      <4> QED BY <2>3, <4>1 DEF StartReturn, StartReturnEvicting
    <3>2. peer[r] \in Groups /\ grp' = [grp EXCEPT ![t] = peer[r]]
      BY <2>3 DEF StartReturn, StartReturnEvicting, Returning, TypeOK
    <3> QED BY <2>1, <2>3, <3>1, <3>2 DEF StartReturn, StartReturnEvicting, Returning
  <2>4. ASSUME NEW r \in Requests,
               (\E c \in Conns : Connect(r, c)) \/ ConnectFails(r) \/ ProxyFails(r)
        PROVE  NodeInv'
    BY <2>4 DEF Connect, ConnectFails, ProxyFails, NodeInv, Scanning
  <2> QED BY <1>9, <2>2, <2>3, <2>4 DEF Serving
<1>10. CASE UNCHANGED vars
  BY <1>10 DEF vars, NodeInv, Scanning
<1> QED BY <1>1, <1>2, <1>3, <1>4, <1>5, <1>6, <1>7, <1>8, <1>9, <1>10
        DEF Next, Continue, Find, Add, Remove, Looking, Serving

-----------------------------------------------------------------------------
(* The lookups. *)
LEMMA FindStep ==
  ASSUME Typing, FindInv, [Next]_vars
  PROVE  FindInv'
<1> USE PoolAssumption DEF Typing
<1>0. /\ pc \in [Threads -> Steps] /\ conn \in [Requests -> Conns \cup {NoConn}]
      /\ grp \in [Threads -> Groups] /\ cli \in [Threads -> Requests]
      /\ phase \in [Requests -> {"idle", "finding", "connecting", "proxying"}]
      /\ peer \in [Requests -> Groups]
  BY DEF TypeOK, Steps
<1>1. ASSUME NEW t \in Threads, Add(t) \/ Remove(t) \/ \E c \in Conns : IdleTimeout(t, c)
      PROVE  FindInv'
  <2>1. /\ UNCHANGED <<phase, conn, peer, cli, grp>>
        /\ \E s \in Steps \ Finding : pc' = [pc EXCEPT ![t] = s]
    BY <1>1 DEF Add, Remove, GetNode, NewNode, PushHot, HotQueueFull, InsertList, AddReturns,
                RemoveNoNode, RemoveListed, StartScan, ScanEnds, ScanFinds, ScanTakesOther,
                RemoveReturns, IdleTimeout, Steps, Finding
  <2> QED BY <1>0, <2>1 DEF FindInv
<1>2. ASSUME NEW t \in Threads, TakeHot(t) \/ HotQueueEmpty(t) \/ TakeListed(t)
      PROVE  FindInv'
  <2>1. /\ UNCHANGED <<phase, conn, peer, cli, grp>> /\ pc[t] \in Finding
        /\ \E s \in Finding : pc' = [pc EXCEPT ![t] = s]
    BY <1>2 DEF TakeHot, HotQueueEmpty, TakeListed, Finding
  <2> QED BY <1>0, <2>1 DEF FindInv
<1>3. ASSUME NEW t \in Threads, FindNoNode(t) \/ ListEmpty(t)
      PROVE  FindInv'
  <2>1. /\ UNCHANGED <<conn, peer, cli, grp>> /\ pc[t] \in Finding
        /\ pc' = [pc EXCEPT ![t] = "idle"] /\ phase' = [phase EXCEPT ![cli[t]] = "connecting"]
    BY <1>3 DEF FindNoNode, ListEmpty, Miss, Finding
  <2> QED BY <1>0, <2>1 DEF FindInv, Finding
<1>4. ASSUME NEW t \in Threads, PickUp(t)
      PROVE  FindInv'
  <2>1. /\ UNCHANGED <<peer, cli, grp>> /\ pc[t] \in Finding
        /\ pc' = [pc EXCEPT ![t] = "idle"] /\ phase' = [phase EXCEPT ![cli[t]] = "proxying"]
        /\ conn' = [conn EXCEPT ![cli[t]] = own[t]]
    BY <1>4 DEF PickUp, Finding
  <2> QED BY <1>0, <2>1 DEF FindInv, Finding
<1>5. ASSUME NEW t \in Threads, NEW r \in Requests, NEW g \in Groups, StartFind(t, r, g)
      PROVE  FindInv'
  BY <1>0, <1>5 DEF StartFind, FindInv, Finding
<1>6. ASSUME NEW t \in Threads, NEW r \in Requests, StartReturn(t, r) \/ StartReturnEvicting(t, r)
      PROVE  FindInv'
  <2>1. /\ UNCHANGED <<peer, cli>> /\ phase[r] = "proxying" /\ pc[t] = "idle"
        /\ phase' = [phase EXCEPT ![r] = "idle"] /\ conn' = [conn EXCEPT ![r] = NoConn]
        /\ grp' = [grp EXCEPT ![t] = peer[r]]
        /\ \E s \in {"get_node", "remove"} : pc' = [pc EXCEPT ![t] = s]
    BY <1>6 DEF StartReturn, StartReturnEvicting, Returning
  <2> QED BY <1>0, <2>1 DEF FindInv, Finding
<1>7. ASSUME NEW r \in Requests,
             (\E c \in Conns : Connect(r, c)) \/ ConnectFails(r) \/ ProxyFails(r)
      PROVE  FindInv'
  BY <1>0, <1>7 DEF Connect, ConnectFails, ProxyFails, FindInv
<1>8. CASE UNCHANGED vars
  BY <1>8 DEF vars, FindInv
<1> QED BY <1>1, <1>2, <1>3, <1>4, <1>5, <1>6, <1>7, <1>8 DEF Next, Continue, Find

-----------------------------------------------------------------------------
(* The idle connections of every group, as a step changes them. *)
Hands(g) == { hand[t] : t \in { u \in Threads : hand[u] # NoConn /\ tgt[u].group = g } }

LEMMA IdlingIs == \A g \in Groups : Idling(g) = Pooled(g) \cup Hands(g)
BY DEF Idling, Hands

Stay        == \A h \in Groups : Idling(h)' = Idling(h)
Loses(c, g) == \A h \in Groups : Idling(h)' = IF h = g THEN Idling(h) \ {c} ELSE Idling(h)
Gains(c, g) == \A h \in Groups : Idling(h)' = IF h = g THEN Idling(h) \cup {c} ELSE Idling(h)

LEMMA HandsSame ==
  ASSUME hand' = hand, \A u \in Threads : hand[u] # NoConn => tgt'[u] = tgt[u]
  PROVE  \A h \in Groups : Hands(h)' = Hands(h)
BY DEF Hands

LEMMA Popped ==
  ASSUME TypeOK, ExclusiveOwnership, NEW g \in Groups, hot_queue[g] # <<>>,
         hot_queue' = [hot_queue EXCEPT ![g] = Tail(hot_queue[g])], connections' = connections
  PROVE  /\ Head(hot_queue[g]) \in Conns /\ Head(hot_queue[g]) \in Pooled(g)
         /\ \A h \in Groups : Pooled(h)' = IF h = g THEN Pooled(h) \ {Head(hot_queue[g])}
                                                    ELSE Pooled(h)
<1>1. hot_queue \in [Groups -> Seq(Conns)] /\ Distinct(hot_queue[g]) /\ Head(hot_queue[g]) \in Conns
  BY QueueType DEF TypeOK, ExclusiveOwnership, StoresDisjoint
<1>2. /\ Head(hot_queue[g]) \in Elems(hot_queue[g])
      /\ Elems(Tail(hot_queue[g])) = Elems(hot_queue[g]) \ {Head(hot_queue[g])}
  BY <1>1, TailElems
<1>3. Head(hot_queue[g]) \notin connections[g]
  BY <1>2 DEF ExclusiveOwnership, StoresDisjoint
<1>4. ASSUME NEW h \in Groups
      PROVE  Pooled(h)' = IF h = g THEN Pooled(h) \ {Head(hot_queue[g])} ELSE Pooled(h)
  BY <1>1, <1>2, <1>3 DEF Pooled
<1> QED BY <1>1, <1>2, <1>4 DEF Pooled

LEMMA Unlisted ==
  ASSUME TypeOK, ExclusiveOwnership, NEW g \in Groups, NEW c \in connections[g],
         connections' = [connections EXCEPT ![g] = @ \ {c}], hot_queue' = hot_queue
  PROVE  /\ c \in Conns /\ c \in Pooled(g)
         /\ \A h \in Groups : Pooled(h)' = IF h = g THEN Pooled(h) \ {c} ELSE Pooled(h)
<1>1. connections \in [Groups -> SUBSET Conns]
  BY DEF TypeOK
<1>2. c \notin Elems(hot_queue[g])
  BY DEF ExclusiveOwnership, StoresDisjoint
<1> QED BY <1>1, <1>2 DEF Pooled

LEMMA Stored ==
  ASSUME TypeOK, ExclusiveOwnership, NEW g \in Groups, NEW c \in Conns, c \notin Pooled(g),
         \/ /\ hot_queue' = [hot_queue EXCEPT ![g] = Append(@, c)]
            /\ connections' = connections
         \/ /\ connections' = [connections EXCEPT ![g] = @ \cup {c}]
            /\ hot_queue' = hot_queue
  PROVE  \A h \in Groups : Pooled(h)' = IF h = g THEN Pooled(h) \cup {c} ELSE Pooled(h)
<1>1. /\ connections \in [Groups -> SUBSET Conns] /\ hot_queue \in [Groups -> Seq(Conns)]
      /\ Distinct(hot_queue[g])
  BY DEF TypeOK, ExclusiveOwnership, StoresDisjoint
<1>2. Elems(Append(hot_queue[g], c)) = Elems(hot_queue[g]) \cup {c}
  BY <1>1, AppendElems DEF Pooled
<1>3. CASE connections' = connections
  BY <1>1, <1>2, <1>3 DEF Pooled
<1>4. CASE hot_queue' = hot_queue
  BY <1>1, <1>4 DEF Pooled
<1> QED BY <1>3, <1>4

(* A thread that looks up takes an idle connection of its group. *)
LEMMA Taking ==
  ASSUME Typing, ExclusiveOwnership, NEW t \in Threads, TakeHot(t) \/ TakeListed(t)
  PROVE  \E c \in Conns : /\ c \in Idling(grp[t]) /\ Loses(c, grp[t])
                          /\ own' = [own EXCEPT ![t] = c] /\ pc' = [pc EXCEPT ![t] = "pick_up"]
<1> USE PoolAssumption DEF Typing
<1>0. grp[t] \in Groups
  BY DEF TypeOK
<1>1. PICK c \in Conns :
        /\ c \in Pooled(grp[t]) /\ own' = [own EXCEPT ![t] = c]
        /\ \A h \in Groups : Pooled(h)' = IF h = grp[t] THEN Pooled(h) \ {c} ELSE Pooled(h)
  <2>1. CASE TakeHot(t)
    BY <1>0, <2>1, Popped DEF TakeHot
  <2>2. CASE TakeListed(t)
    <3>1. PICK c \in connections[grp[t]] :
            own' = [own EXCEPT ![t] = c] /\ connections' = [connections EXCEPT ![grp[t]] = @ \ {c}]
      BY <2>2 DEF TakeListed
    <3>2. hot_queue' = hot_queue
      BY <2>2 DEF TakeListed
    <3> QED BY <1>0, <3>1, <3>2, Unlisted
  <2> QED BY <2>1, <2>2
<1>2. hand' = hand /\ tgt' = tgt /\ pc' = [pc EXCEPT ![t] = "pick_up"]
  BY DEF TakeHot, TakeListed
<1>3. \A h \in Groups : Hands(h)' = Hands(h) /\ c \notin Hands(h)
  <2>1. \A u \in Threads : hand[u] # c
    BY <1>0, <1>1 DEF Pooled, ExclusiveOwnership, HandsOutsidePool
  <2> QED BY <1>2, <2>1, HandsSame DEF Hands
<1>4. Loses(c, grp[t])
  BY <1>0, <1>1, <1>3, IdlingIs DEF Loses, Idling, Hands
<1> QED BY <1>0, <1>1, <1>2, <1>4, IdlingIs

(* What a removal drops is the connection it was called for. *)
LEMMA Dropping ==
  ASSUME Typing, ExclusiveOwnership, NEW t \in Threads, RemoveListed(t) \/ ScanFinds(t)
  PROVE  /\ tgt[t] \in Meta /\ tgt'[t] = NoMeta
         /\ tgt[t].id \in Idling(tgt[t].group) /\ Loses(tgt[t].id, tgt[t].group)
         /\ own' = own /\ hand[t] = NoConn /\ \E s : pc' = [pc EXCEPT ![t] = s] /\ s # "pick_up"
<1> USE PoolAssumption DEF Typing
<1> DEFINE g == tgt[t].group
           c == tgt[t].id
<1>0. tgt[t] \in Meta /\ g \in Groups /\ hand[t] = NoConn /\ tgt \in [Threads -> Meta \cup {NoMeta}]
  BY DEF TypeOK, StepInv, RemoveListed, ScanFinds, Meta
<1>1. /\ c \in Pooled(g)
      /\ \A h \in Groups : Pooled(h)' = IF h = g THEN Pooled(h) \ {c} ELSE Pooled(h)
  <2>1. CASE RemoveListed(t)
    BY <1>0, <2>1, Unlisted DEF RemoveListed
  <2>2. CASE ScanFinds(t)
    BY <1>0, <2>2, Popped DEF ScanFinds
  <2> QED BY <2>1, <2>2
<1>2. /\ hand' = hand /\ tgt' = [tgt EXCEPT ![t] = NoMeta] /\ own' = own
      /\ \E s : pc' = [pc EXCEPT ![t] = s] /\ s # "pick_up"
  BY DEF RemoveListed, ScanFinds, RemoveReturns
<1>3. \A h \in Groups : Hands(h)' = Hands(h) /\ c \notin Hands(h)
  <2>1. \A u \in Threads : hand[u] # c
    BY <1>0, <1>1 DEF Pooled, ExclusiveOwnership, HandsOutsidePool
  <2>2. \A u \in Threads : hand[u] # NoConn => tgt'[u] = tgt[u]
    BY <1>0, <1>2
  <2> QED BY <1>2, <2>1, <2>2, HandsSame DEF Hands
<1>4. \A h \in Groups : /\ Idling(h) = Pooled(h) \cup Hands(h)
                        /\ Idling(h)' = Pooled(h)' \cup Hands(h)'
  BY DEF Idling, Hands
<1> HIDE DEF g, c
<1>5. Loses(c, g)
  BY <1>0, <1>1, <1>3, <1>4 DEF Loses
<1> QED BY <1>0, <1>1, <1>2, <1>4, <1>5 DEF g, c

(* What is added is given up, or was popped before. *)
LEMMA Adding ==
  ASSUME Typing, ExclusiveOwnership, NEW t \in Threads, PushHot(t) \/ InsertList(t)
  PROVE  /\ Carried(t) \in Conns /\ NodeOf(t) \in Groups
         /\ IF Removing(t) THEN Stay ELSE Gains(own[t], grp[t])
         /\ Removing(t) => own' = own /\ pc' = [pc EXCEPT ![t] = "scan"] /\ idle' = idle
         /\ ~Removing(t) => own' = [own EXCEPT ![t] = NoConn] /\ pc' = [pc EXCEPT ![t] = "idle"]
<1> USE PoolAssumption DEF Typing
<1>0. /\ hand \in [Threads -> Conns \cup {NoConn}] /\ own \in [Threads -> Conns \cup {NoConn}]
      /\ tgt \in [Threads -> Meta \cup {NoMeta}]
      /\ Carried(t) \in Conns /\ NodeOf(t) \in Groups
  BY DEF TypeOK, StepInv, PushHot, InsertList, Carried, NodeOf, Removing, Meta
<1>1. AddReturns(t) /\ tgt' = tgt
  BY DEF PushHot, InsertList
<1>2. Carried(t) \notin Pooled(NodeOf(t))
  BY <1>0 DEF Pooled, Carried, ExclusiveOwnership, HandsOutsidePool
<1>3. \A h \in Groups : Pooled(h)' = IF h = NodeOf(t) THEN Pooled(h) \cup {Carried(t)} ELSE Pooled(h)
  BY <1>0, <1>2, Stored DEF PushHot, InsertList
<1>4. \A h \in Groups : /\ Idling(h) = Pooled(h) \cup Hands(h)
                        /\ Idling(h)' = Pooled(h)' \cup Hands(h)'
  BY DEF Idling, Hands
<1>5. CASE Removing(t)
  <2>1. /\ hand' = [hand EXCEPT ![t] = NoConn] /\ own' = own /\ pc' = [pc EXCEPT ![t] = "scan"]
        /\ idle' = idle
    BY <1>1, <1>5 DEF AddReturns
  <2>2. Carried(t) = hand[t] /\ NodeOf(t) = tgt[t].group /\ hand[t] # NoConn
    BY <1>5 DEF Carried, NodeOf, Removing
  <2>3. \A h \in Groups : Hands(h)' = IF h = NodeOf(t) THEN Hands(h) \ {hand[t]} ELSE Hands(h)
    <3>1. \A u \in Threads : hand[u] = hand[t] => u = t
      BY <2>2 DEF ExclusiveOwnership, HandsDistinct
    <3> QED BY <1>0, <1>1, <2>1, <2>2, <3>1 DEF Hands
  <2>4. hand[t] \in Hands(NodeOf(t))
    BY <2>2 DEF Hands
  <2>5. ASSUME NEW h \in Groups
        PROVE  Idling(h)' = Idling(h)
    <3>1. CASE h = NodeOf(t)
      <4>1. Idling(h)' = (Pooled(h) \cup {hand[t]}) \cup (Hands(h) \ {hand[t]})
        BY <1>3, <1>4, <2>2, <2>3, <3>1
      <4>2. hand[t] \in Hands(h)
        BY <2>4, <3>1
      <4> QED BY <1>4, <4>1, <4>2
    <3>2. CASE h # NodeOf(t)
      BY <1>3, <1>4, <2>3, <3>2
    <3> QED BY <3>1, <3>2
  <2> QED BY <1>0, <1>5, <2>1, <2>5 DEF Stay
<1>6. CASE ~Removing(t)
  <2>1. hand' = hand /\ own' = [own EXCEPT ![t] = NoConn] /\ pc' = [pc EXCEPT ![t] = "idle"]
    BY <1>1, <1>6 DEF AddReturns
  <2>2. Carried(t) = own[t] /\ NodeOf(t) = grp[t]
    BY <1>6 DEF Carried, NodeOf
  <2>3. \A h \in Groups : Hands(h)' = Hands(h)
    BY <1>1, <2>1, HandsSame
  <2>4. Gains(own[t], grp[t])
    BY <1>3, <1>4, <2>2, <2>3 DEF Gains
  <2> QED BY <1>0, <1>6, <2>1, <2>4
<1> QED BY <1>5, <1>6

(* Nothing else moves an idle connection from its group. *)
Settled(t) ==
  \/ Looking(t) \/ NewNode(t) \/ RemoveNoNode(t) \/ StartScan(t) \/ ScanEnds(t)
  \/ ScanTakesOther(t) \/ \E c \in Conns : IdleTimeout(t, c)

LEMMA Staying ==
  ASSUME Typing, ExclusiveOwnership, NodeInv,
         (\E t \in Threads : Settled(t)) \/ Serving \/ UNCHANGED vars
  PROVE  Stay
<1> USE PoolAssumption DEF Typing
<1>0. /\ hand \in [Threads -> Conns \cup {NoConn}] /\ tgt \in [Threads -> Meta \cup {NoMeta}]
      /\ hot_queue \in [Groups -> Seq(Conns)] /\ connections \in [Groups -> SUBSET Conns]
  BY DEF TypeOK
<1>1. \A h \in Groups : /\ Idling(h) = Pooled(h) \cup Hands(h)
                        /\ Idling(h)' = Pooled(h)' \cup Hands(h)'
  BY DEF Idling, Hands
<1>2. ASSUME \A h \in Groups : Pooled(h)' = Pooled(h), hand' = hand,
             \A u \in Threads : hand[u] # NoConn => tgt'[u] = tgt[u]
      PROVE  Stay
  BY <1>1, <1>2, HandsSame DEF Stay
<1>3. ASSUME UNCHANGED <<hot_queue, connections, hand>>,
             \A u \in Threads : hand[u] # NoConn => tgt'[u] = tgt[u]
      PROVE  Stay
  BY <1>2, <1>3 DEF Pooled
<1>4. ASSUME NEW t \in Threads, Looking(t) \/ StartScan(t)
      PROVE  Stay
  BY <1>3, <1>4 DEF Looking, FindNoNode, Miss, HotQueueEmpty, ListEmpty, PickUp, GetNode,
                    HotQueueFull, StartScan
<1>5. ASSUME NEW t \in Threads, NewNode(t)
      PROVE  Stay
  <2>1. \A h \in Groups : Pooled(h)' = Pooled(h)
    <3>1. CASE grp[t] \in nodes
      BY <1>5, <3>1 DEF NewNode, Pooled
    <3>2. CASE grp[t] \notin nodes
      <4>1. grp[t] \in Groups \ nodes
        BY <3>2 DEF TypeOK
      <4>2. hot_queue[grp[t]] = <<>> /\ connections[grp[t]] = {}
        BY <4>1 DEF NodeInv
      <4>3. hot_queue' = hot_queue /\ connections' = connections
        <5>1. /\ hot_queue' = [hot_queue EXCEPT ![grp[t]] = hot_queue[grp[t]]]
              /\ connections' = [connections EXCEPT ![grp[t]] = connections[grp[t]]]
          BY <1>5, <3>2, <4>2 DEF NewNode
        <5> QED BY <1>0, <5>1
      <4> QED BY <4>3 DEF Pooled
    <3> QED BY <3>1, <3>2
  <2> QED BY <1>2, <1>5, <2>1 DEF NewNode
<1>6. ASSUME NEW t \in Threads, RemoveNoNode(t) \/ ScanEnds(t) \/ \E c \in Conns : IdleTimeout(t, c)
      PROVE  Stay
  <2>1. /\ UNCHANGED <<hot_queue, connections, hand>> /\ \E m : tgt' = [tgt EXCEPT ![t] = m]
        /\ hand[t] = NoConn
    BY <1>6 DEF RemoveNoNode, ScanEnds, IdleTimeout, RemoveReturns, StepInv
  <2>2. \A u \in Threads : hand[u] # NoConn => tgt'[u] = tgt[u]
    BY <1>0, <2>1
  <2> QED BY <1>3, <2>1, <2>2
<1>7. ASSUME NEW t \in Threads, ScanTakesOther(t)
      PROVE  Stay
  <2> DEFINE g == tgt[t].group
             c == Head(hot_queue[g])
  <2>1. /\ g \in Groups /\ hot_queue[g] # <<>> /\ hand[t] = NoConn /\ tgt' = tgt
        /\ hot_queue' = [hot_queue EXCEPT ![g] = Tail(hot_queue[g])] /\ connections' = connections
        /\ hand' = [hand EXCEPT ![t] = c]
    BY <1>7 DEF ScanTakesOther, StepInv, TypeOK, Meta
  <2>2. /\ c \in Conns /\ c \in Pooled(g)
        /\ \A h \in Groups : Pooled(h)' = IF h = g THEN Pooled(h) \ {c} ELSE Pooled(h)
    BY <2>1, Popped
  <2>3. \A h \in Groups : Hands(h)' = IF h = g THEN Hands(h) \cup {c} ELSE Hands(h)
    <3>0. tgt[t].group = g
      OBVIOUS
    <3> HIDE DEF g, c
    <3> QED BY <1>0, <2>1, <2>2, <3>0 DEF Hands
  <2> HIDE DEF g, c
  <2> QED BY <1>1, <2>2, <2>3 DEF Stay
<1>8. ASSUME NEW t \in Threads, NEW r \in Requests,
             \/ \E g \in Groups : StartFind(t, r, g)
             \/ StartReturn(t, r) \/ StartReturnEvicting(t, r)
      PROVE  Stay
  <2>1. /\ UNCHANGED <<hot_queue, connections, hand>> /\ hand[t] = NoConn
        /\ tgt' = tgt \/ \E m : tgt' = [tgt EXCEPT ![t] = m]
    BY <1>8 DEF StartFind, StartReturn, StartReturnEvicting, Returning, StepInv
  <2>2. \A u \in Threads : hand[u] # NoConn => tgt'[u] = tgt[u]
    BY <1>0, <2>1
  <2> QED BY <1>3, <2>1, <2>2
<1>9. ASSUME NEW r \in Requests,
             (\E c \in Conns : Connect(r, c)) \/ ConnectFails(r) \/ ProxyFails(r)
      PROVE  Stay
  BY <1>3, <1>9 DEF Connect, ConnectFails, ProxyFails
<1>10. CASE UNCHANGED vars
  BY <1>3, <1>10 DEF vars
<1> QED BY <1>4, <1>5, <1>6, <1>7, <1>8, <1>9, <1>10 DEF Settled, Serving

(* Every step of a thread is of one of these kinds. *)
LEMMA Kinds ==
  ASSUME [Next]_vars
  PROVE  \/ \E t \in Threads : TakeHot(t) \/ TakeListed(t)
         \/ \E t \in Threads : RemoveListed(t) \/ ScanFinds(t)
         \/ \E t \in Threads : PushHot(t) \/ InsertList(t)
         \/ (\E t \in Threads : Settled(t)) \/ Serving \/ UNCHANGED vars
BY DEF Next, Continue, Find, Add, Remove, Settled, Looking, Serving

-----------------------------------------------------------------------------
(* The idle timers: TimerOnlyIfIdling, with the group of a timer named. *)
TimerInv ==
  \A c \in Conns : idle[c] # NoMeta =>
    /\ idle[c].id = c
    /\ \/ \E g \in Groups : idle[c].group = g /\ c \in Idling(g)
       \/ \E t \in Threads : pc[t] = "pick_up" /\ own[t] = c

LEMMA TimerFrame ==
  ASSUME Typing, TimerInv,
         \A c \in Conns : idle'[c] = idle[c] \/ idle'[c] = NoMeta,
         \A c \in Conns : idle'[c] # NoMeta =>
           /\ \A g \in Groups : c \in Idling(g) =>
                c \in Idling(g)' \/ \E t \in Threads : pc'[t] = "pick_up" /\ own'[t] = c
           /\ \A t \in Threads : pc[t] = "pick_up" /\ own[t] = c =>
                pc'[t] = "pick_up" /\ own'[t] = c
  PROVE  TimerInv'
<1> SUFFICES ASSUME NEW c \in Conns, idle'[c] # NoMeta
             PROVE  /\ idle'[c].id = c
                    /\ \/ \E g \in Groups : idle'[c].group = g /\ c \in Idling(g)'
                       \/ \E t \in Threads : pc'[t] = "pick_up" /\ own'[t] = c
  BY DEF TimerInv
<1>1. idle'[c] = idle[c] /\ idle[c] \in Meta /\ idle[c].group \in Groups
  BY NoMetaAssumption DEF Typing, TypeOK, Meta
<1> QED BY <1>1 DEF TimerInv

LEMMA TimerStep ==
  ASSUME Typing, ExclusiveOwnership, NodeInv, TimerInv, [Next]_vars
  PROVE  TimerInv'
<1> USE PoolAssumption
<1>0. /\ pc \in [Threads -> Steps] /\ own \in [Threads -> Conns \cup {NoConn}]
      /\ idle \in [Conns -> Meta \cup {NoMeta}] /\ grp \in [Threads -> Groups]
  BY DEF Typing, TypeOK, Steps
<1>1. ASSUME NEW t \in Threads, TakeHot(t) \/ TakeListed(t)
      PROVE  TimerInv'
  <2>1. PICK c \in Conns : /\ Loses(c, grp[t]) /\ own' = [own EXCEPT ![t] = c]
                           /\ pc' = [pc EXCEPT ![t] = "pick_up"]
    BY <1>1, Taking
  <2>2. idle' = idle /\ pc[t] # "pick_up"
    BY <1>1 DEF TakeHot, TakeListed
  <2> QED BY <1>0, <2>1, <2>2, TimerFrame DEF Loses
<1>2. ASSUME NEW t \in Threads, RemoveListed(t) \/ ScanFinds(t)
      PROVE  TimerInv'
  <2>1. /\ tgt[t].id \in Conns /\ Loses(tgt[t].id, tgt[t].group) /\ own' = own
        /\ \E s : pc' = [pc EXCEPT ![t] = s]
    BY <1>2, Dropping DEF Meta
  <2>2. idle' = [idle EXCEPT ![tgt[t].id] = NoMeta] /\ pc[t] # "pick_up"
    BY <1>2 DEF RemoveListed, ScanFinds
  <2> QED BY <1>0, <2>1, <2>2, TimerFrame DEF Loses
<1>3. ASSUME NEW t \in Threads, PushHot(t) \/ InsertList(t), Removing(t)
      PROVE  TimerInv'
  <2>1. Stay /\ own' = own /\ idle' = idle /\ pc' = [pc EXCEPT ![t] = "scan"]
    BY <1>3, Adding
  <2>2. pc[t] # "pick_up"
    BY <1>3 DEF PushHot, InsertList
  <2> QED BY <1>0, <2>1, <2>2, TimerFrame DEF Stay
<1>4. ASSUME NEW t \in Threads, PushHot(t) \/ InsertList(t), ~Removing(t)
      PROVE  TimerInv'
  <2>1. /\ Gains(own[t], grp[t]) /\ own' = [own EXCEPT ![t] = NoConn]
        /\ pc' = [pc EXCEPT ![t] = "idle"] /\ own[t] \in Conns
    BY <1>4, Adding DEF Carried
  <2>2. /\ pc[t] # "pick_up" /\ AddReturns(t)
        /\ idle' = [idle EXCEPT ![own[t]] =
                      IF own[t] \in Ids(lru[t])
                        THEN [id |-> own[t], group |-> grp[t]] ELSE NoMeta]
    BY <1>4 DEF PushHot, InsertList, AddReturns
  <2>3. ASSUME NEW c \in Conns, idle'[c] # NoMeta
        PROVE  /\ idle'[c].id = c
               /\ \/ \E g \in Groups : idle'[c].group = g /\ c \in Idling(g)'
                  \/ \E u \in Threads : pc'[u] = "pick_up" /\ own'[u] = c
    <3>1. CASE c = own[t]
      <4>1. idle'[c] = [id |-> own[t], group |-> grp[t]]
        BY <1>0, <2>1, <2>2, <2>3, <3>1
      <4>2. idle'[c].id = c /\ idle'[c].group = grp[t]
        BY <3>1, <4>1
      <4>3. PICK g \in Groups : g = grp[t]
        BY <1>0
      <4>4. c \in Idling(g)'
        BY <2>1, <3>1, <4>3 DEF Gains
      <4> QED BY <4>2, <4>3, <4>4
    <3>2. CASE c # own[t]
      <4>1. idle'[c] = idle[c]
        BY <1>0, <2>1, <2>2, <3>2
      <4>2. idle[c].id = c /\ idle[c].group \in Groups
        BY <1>0, <2>3, <4>1 DEF TimerInv, Meta
      <4>3. CASE \E g \in Groups : idle[c].group = g /\ c \in Idling(g)
        BY <2>1, <4>1, <4>2, <4>3 DEF Gains
      <4>4. CASE \E u \in Threads : pc[u] = "pick_up" /\ own[u] = c
        BY <1>0, <2>1, <2>2, <4>1, <4>2, <4>4
      <4> QED BY <2>3, <4>1, <4>3, <4>4 DEF TimerInv
    <3> QED BY <3>1, <3>2
  <2> QED BY <2>3 DEF TimerInv
<1>5. ASSUME NEW t \in Threads, Settled(t)
      PROVE  TimerInv'
  <2>1. Stay
    BY <1>5, Staying
  <2>2. CASE PickUp(t)
    <3>1. /\ idle' = [idle EXCEPT ![own[t]] = NoMeta] /\ own' = [own EXCEPT ![t] = NoConn]
          /\ pc' = [pc EXCEPT ![t] = "idle"] /\ own[t] \in Conns
      BY <1>0, <2>2 DEF PickUp, Typing, StepInv
    <3> QED BY <1>0, <2>1, <3>1, TimerFrame DEF Stay
  <2>3. CASE ~PickUp(t)
    <3>1. /\ own' = own /\ pc[t] # "pick_up" /\ \E s : pc' = [pc EXCEPT ![t] = s]
          /\ idle' = idle \/ \E c \in Conns : idle' = [idle EXCEPT ![c] = NoMeta]
      BY <1>5, <2>3 DEF Settled, Looking, FindNoNode, Miss, HotQueueEmpty, ListEmpty, GetNode,
                        HotQueueFull, NewNode, RemoveNoNode, StartScan, ScanEnds,
                        ScanTakesOther, IdleTimeout, RemoveReturns
    <3> QED BY <1>0, <2>1, <3>1, TimerFrame DEF Stay
  <2> QED BY <2>2, <2>3
<1>6. CASE Serving
  <2>1. Stay
    BY <1>6, Staying
  <2>2. ASSUME NEW t \in Threads, NEW r \in Requests, StartReturn(t, r) \/ StartReturnEvicting(t, r)
        PROVE  TimerInv'
    <3>1. /\ pc[t] = "idle" /\ \E x : own' = [own EXCEPT ![t] = x]
          /\ \E s : pc' = [pc EXCEPT ![t] = s]
      BY <2>2 DEF StartReturn, StartReturnEvicting, Returning
    <3>2. \A c \in Conns : idle'[c] = idle[c] \/ idle'[c] = NoMeta
      <4>1. idle' = idle \/ \E k, m : /\ idle' = [idle EXCEPT ![k] = m]
                                      /\ m = idle[k] \/ m = NoMeta
        BY <2>2 DEF StartReturn, StartReturnEvicting
      <4> QED BY <1>0, <4>1
    <3> QED BY <1>0, <2>1, <3>1, <3>2, TimerFrame DEF Stay
  <2>3. ASSUME NEW t \in Threads, NEW r \in Requests, NEW g \in Groups, StartFind(t, r, g)
        PROVE  TimerInv'
    <3>1. pc[t] = "idle" /\ pc' = [pc EXCEPT ![t] = "find_hot"] /\ own' = own /\ idle' = idle
      BY <2>3 DEF StartFind
    <3> QED BY <1>0, <2>1, <3>1, TimerFrame DEF Stay
  <2>4. ASSUME NEW r \in Requests,
               (\E c \in Conns : Connect(r, c)) \/ ConnectFails(r) \/ ProxyFails(r)
        PROVE  TimerInv'
    <3>1. UNCHANGED <<pc, own, idle>>
      BY <2>4 DEF Connect, ConnectFails, ProxyFails
    <3> QED BY <2>1, <3>1, TimerFrame DEF Stay
  <2> QED BY <1>6, <2>2, <2>3, <2>4 DEF Serving
<1>7. CASE UNCHANGED vars
  BY <1>7 DEF vars, TimerInv, Idling, Pooled
<1> QED BY <1>1, <1>2, <1>3, <1>4, <1>5, <1>6, <1>7, Kinds

-----------------------------------------------------------------------------
(* IdlePool's two sets, as a step changes them. *)
LEMMA AvailableIs ==
  /\ Stay => Available' = Available
  /\ \A c \in Conns, g \in Groups : Loses(c, g) => Available' = Available \ {<<c, g>>}
  /\ \A c \in Conns, g \in Groups : Gains(c, g) => Available' = Available \cup {<<c, g>>}
  /\ \A c \in Conns, g \in Groups : <<c, g>> \in Available <=> c \in Idling(g)
<1>1. /\ \A p : p \in Available <=> \E h \in Groups : \E x \in Idling(h) : p = <<x, h>>
      /\ \A p : p \in Available' <=> \E h \in Groups : \E x \in Idling(h)' : p = <<x, h>>
  BY DEF Available
<1>2. Stay => Available' = Available
  BY <1>1 DEF Stay
<1>3. ASSUME NEW c \in Conns, NEW g \in Groups, Loses(c, g)
      PROVE  Available' = Available \ {<<c, g>>}
  <2>1. \A p : p \in Available' <=> p \in Available /\ p # <<c, g>>
    BY <1>1, <1>3 DEF Loses
  <2> QED BY <2>1
<1>4. ASSUME NEW c \in Conns, NEW g \in Groups, Gains(c, g)
      PROVE  Available' = Available \cup {<<c, g>>}
  <2>1. \A p : p \in Available' <=> p \in Available \/ p = <<c, g>>
    BY <1>1, <1>4 DEF Gains
  <2> QED BY <2>1
<1> QED BY <1>1, <1>2, <1>3, <1>4

LEMMA BusyIs ==
  /\ \A p : p \in Busy <=>
       \/ \E t \in Threads : own[t] # NoConn /\ p = <<own[t], grp[t]>>
       \/ \E r \in Requests : conn[r] # NoConn /\ p = <<conn[r], peer[r]>>
  /\ \A p : p \in Busy' <=>
       \/ \E t \in Threads : own'[t] # NoConn /\ p = <<own'[t], grp'[t]>>
       \/ \E r \in Requests : conn'[r] # NoConn /\ p = <<conn'[r], peer'[r]>>
BY DEF Busy

IInv ==
  /\ Typing /\ ExclusiveOwnership /\ ListLockDiscipline
  /\ NodeInv /\ FindInv /\ TimerInv

(* A step of a thread is a step of the abstract pool, or none at all. *)
LEMMA ThreadRefines ==
  ASSUME IInv, NEW t \in Threads, Continue(t) \/ \E c \in Conns : IdleTimeout(t, c)
  PROVE  Abstract!Next \/ UNCHANGED <<Available, Busy>>
<1> USE PoolAssumption
<1>0. /\ own \in [Threads -> Conns \cup {NoConn}] /\ conn \in [Requests -> Conns \cup {NoConn}]
      /\ grp \in [Threads -> Groups] /\ peer \in [Requests -> Groups]
      /\ cli \in [Threads -> Requests] /\ grp[t] \in Groups
      /\ Typing /\ ExclusiveOwnership /\ NodeInv
  BY DEF IInv, Typing, TypeOK
<1>1. CASE TakeHot(t) \/ TakeListed(t)
  <2>1. PICK c \in Conns : /\ c \in Idling(grp[t]) /\ Loses(c, grp[t])
                           /\ own' = [own EXCEPT ![t] = c]
    BY <1>0, <1>1, Taking
  <2>2. UNCHANGED <<grp, conn, peer>> /\ own[t] = NoConn
    BY <1>0, <1>1 DEF TakeHot, TakeListed, Typing, StepInv
  <2>3. \A p : p \in Busy' <=> p \in Busy \/ p = <<c, grp[t]>>
    BY <1>0, <2>1, <2>2, BusyIs
  <2>4. Busy' = Busy \cup {<<c, grp[t]>>}
    BY <2>3
  <2>5. Abstract!PickUp(c, grp[t])
    BY <1>0, <2>1, <2>4, AvailableIs DEF Abstract!PickUp
  <2> QED BY <1>0, <2>5 DEF Abstract!Next
<1>2. CASE RemoveListed(t) \/ ScanFinds(t)
  <2> DEFINE c == tgt[t].id
             g == tgt[t].group
  <2>1. c \in Conns /\ g \in Groups /\ c \in Idling(g) /\ Loses(c, g) /\ own' = own
    BY <1>0, <1>2, Dropping DEF Meta
  <2>2. UNCHANGED <<grp, conn, peer>>
    BY <1>2 DEF RemoveListed, ScanFinds
  <2> HIDE DEF c, g
  <2>3. Busy' = Busy
    BY <2>1, <2>2 DEF Busy
  <2>4. Abstract!Drop(c, g)
    BY <2>1, <2>3, AvailableIs DEF Abstract!Drop
  <2> QED BY <2>1, <2>4 DEF Abstract!Next
<1>3. CASE (PushHot(t) \/ InsertList(t)) /\ Removing(t)
  <2>1. Stay /\ own' = own /\ UNCHANGED <<grp, conn, peer>>
    BY <1>0, <1>3, Adding DEF PushHot, InsertList
  <2>2. Busy' = Busy
    BY <2>1 DEF Busy
  <2> QED BY <2>1, <2>2, AvailableIs
<1>4. CASE (PushHot(t) \/ InsertList(t)) /\ ~Removing(t)
  <2>1. /\ own[t] \in Conns /\ Gains(own[t], grp[t]) /\ own' = [own EXCEPT ![t] = NoConn]
        /\ UNCHANGED <<grp, conn, peer>>
    BY <1>0, <1>4, Adding DEF PushHot, InsertList, Carried
  <2>2. /\ \A u \in Threads : own[u] = own[t] => u = t
        /\ \A r \in Requests : conn[r] # NoConn => conn[r] # own[t]
    BY <1>0, <2>1 DEF ExclusiveOwnership, HandsDistinct, RequestsDistinct
  <2>3. \A p : p \in Busy' <=> p \in Busy /\ p # <<own[t], grp[t]>>
    BY <1>0, <2>1, <2>2, BusyIs
  <2>4. Busy' = Busy \ {<<own[t], grp[t]>>} /\ <<own[t], grp[t]>> \in Busy
    <3>1. <<own[t], grp[t]>> \in Busy
      BY <2>1, BusyIs
    <3> QED BY <2>3, <3>1
  <2>5. Abstract!Return(own[t], grp[t])
    BY <1>0, <2>1, <2>4, AvailableIs DEF Abstract!Return
  <2> QED BY <1>0, <2>1, <2>5 DEF Abstract!Next
<1>5. CASE Settled(t)
  <2>1. Stay
    BY <1>0, <1>5, Staying
  <2>2. CASE PickUp(t)
    <3>1. /\ own[t] \in Conns /\ cli[t] \in Requests /\ conn[cli[t]] = NoConn
          /\ peer[cli[t]] = grp[t]
      BY <1>0, <2>2 DEF PickUp, IInv, Typing, StepInv, FindInv, Finding
    <3>2. /\ own' = [own EXCEPT ![t] = NoConn] /\ conn' = [conn EXCEPT ![cli[t]] = own[t]]
          /\ UNCHANGED <<grp, peer>>
      BY <2>2 DEF PickUp
    <3>3. \A p : p \in Busy' <=> p \in Busy
      BY <1>0, <3>1, <3>2, BusyIs
    <3>4. Busy' = Busy
      BY <3>3
    <3> QED BY <2>1, <3>4, AvailableIs
  <2>3. CASE ~PickUp(t)
    <3>1. UNCHANGED <<own, grp, conn, peer>>
      BY <1>5, <2>3 DEF Settled, Looking, FindNoNode, Miss, HotQueueEmpty, ListEmpty, GetNode,
                        HotQueueFull, NewNode, RemoveNoNode, StartScan, ScanEnds,
                        ScanTakesOther, IdleTimeout, RemoveReturns
    <3>2. Busy' = Busy
      BY <3>1 DEF Busy
    <3> QED BY <2>1, <3>2, AvailableIs
  <2> QED BY <2>2, <2>3
<1> QED BY <1>1, <1>2, <1>3, <1>4, <1>5 DEF Continue, Find, Add, Remove, Settled, Looking

(* So is a step of a request. *)
LEMMA RequestRefines ==
  ASSUME IInv, Serving
  PROVE  Abstract!Next \/ UNCHANGED <<Available, Busy>>
<1> USE PoolAssumption
<1>0. /\ own \in [Threads -> Conns \cup {NoConn}] /\ conn \in [Requests -> Conns \cup {NoConn}]
      /\ grp \in [Threads -> Groups] /\ peer \in [Requests -> Groups]
      /\ Typing /\ ExclusiveOwnership
  BY DEF IInv, Typing, TypeOK
<1>1. Stay
  BY Staying DEF IInv
<1>2. ASSUME NEW t \in Threads, NEW r \in Requests, NEW g \in Groups, StartFind(t, r, g)
      PROVE  Busy' = Busy
  <2>1. own[t] = NoConn /\ conn[r] = NoConn
    BY <1>0, <1>2 DEF StartFind, IInv, Typing, StepInv, FindInv
  <2>2. /\ grp' = [grp EXCEPT ![t] = g] /\ peer' = [peer EXCEPT ![r] = g]
        /\ UNCHANGED <<own, conn>>
    BY <1>2 DEF StartFind
  <2>3. \A p : p \in Busy' <=> p \in Busy
    BY <1>0, <2>1, <2>2, BusyIs
  <2> QED BY <2>3
<1>3. ASSUME NEW t \in Threads, NEW r \in Requests, StartReturn(t, r) \/ StartReturnEvicting(t, r)
      PROVE  Busy' = Busy
  <2>1. own[t] = NoConn /\ conn[r] # NoConn
    BY <1>0, <1>3 DEF StartReturn, StartReturnEvicting, Returning, Typing, StepInv, ProxyInv
  <2>2. /\ grp' = [grp EXCEPT ![t] = peer[r]] /\ own' = [own EXCEPT ![t] = conn[r]]
        /\ conn' = [conn EXCEPT ![r] = NoConn] /\ peer' = peer
    BY <1>3 DEF StartReturn, StartReturnEvicting, Returning
  <2>3. \A p : p \in Busy' <=> p \in Busy
    BY <1>0, <2>1, <2>2, BusyIs
  <2> QED BY <2>3
<1>4. ASSUME NEW r \in Requests, NEW c \in Conns, Connect(r, c)
      PROVE  Abstract!Connect(c, peer[r])
  <2>1. /\ conn' = [conn EXCEPT ![r] = c] /\ conn[r] = NoConn /\ UNCHANGED <<own, grp, peer>>
        /\ c \notin Open
    BY <1>4 DEF Connect, IInv, FindInv
  <2>2. \A p : p \in Busy' <=> p \in Busy \/ p = <<c, peer[r]>>
    BY <1>0, <2>1, BusyIs
  <2>3. Busy' = Busy \cup {<<c, peer[r]>>}
    BY <2>2
  <2>4. ASSUME NEW h \in Groups
        PROVE  <<c, h>> \notin Available \cup Busy
    <3>1. c \notin Idling(h)
      BY <2>1 DEF Open, Idling
    <3>2. <<c, h>> \notin Busy
      BY <2>1, BusyIs DEF Open
    <3> QED BY <3>1, <3>2, AvailableIs
  <2> QED BY <1>1, <2>3, <2>4, AvailableIs DEF Abstract!Connect
<1>5. ASSUME NEW r \in Requests, ConnectFails(r)
      PROVE  Busy' = Busy
  BY <1>5 DEF ConnectFails, Busy
<1>6. ASSUME NEW r \in Requests, ProxyFails(r)
      PROVE  conn[r] \in Conns /\ Abstract!Close(conn[r], peer[r])
  <2>1. /\ conn' = [conn EXCEPT ![r] = NoConn] /\ conn[r] \in Conns
        /\ UNCHANGED <<own, grp, peer>>
    BY <1>0, <1>6 DEF ProxyFails, Typing, ProxyInv
  <2>2. /\ \A u \in Threads : own[u] # NoConn => own[u] # conn[r]
        /\ \A s \in Requests : conn[s] = conn[r] => s = r
    BY <1>0, <2>1 DEF ExclusiveOwnership, RequestsDistinct
  <2>3. \A p : p \in Busy' <=> p \in Busy /\ p # <<conn[r], peer[r]>>
    BY <1>0, <2>1, <2>2, BusyIs
  <2>4. Busy' = Busy \ {<<conn[r], peer[r]>>}
    BY <2>3
  <2>5. <<conn[r], peer[r]>> \in Busy
    BY <2>1, BusyIs
  <2> QED BY <1>1, <2>1, <2>4, <2>5, AvailableIs DEF Abstract!Close
<1> QED BY <1>0, <1>1, <1>2, <1>3, <1>4, <1>5, <1>6, AvailableIs DEF Serving, Abstract!Next

-----------------------------------------------------------------------------
(* The invariant holds in every state the pool can reach. *)
LEMMA InvInit == Init => IInv
<1> SUFFICES ASSUME Init PROVE IInv
  OBVIOUS
<1>1. Typing /\ ExclusiveOwnership
  BY TypingInit, ExclusiveInit
<1>2. ListLockDiscipline /\ NodeInv /\ FindInv /\ TimerInv
  BY PoolAssumption
     DEF Init, ListLockDiscipline, Scanning, NodeInv, FindInv, Finding, TimerInv
<1> QED BY <1>1, <1>2 DEF IInv

LEMMA InvStep ==
  ASSUME IInv, [Next]_vars
  PROVE  IInv'
BY TypingStep, ExclusiveStep, LockStep, NodeStep, FindStep, TimerStep DEF IInv

(* The inductive invariant: what a thread in the middle of an operation, a
   request and a timer rely on. *)
THEOREM PoolInvariance == Spec => []IInv
BY InvInit, InvStep, PTL DEF Spec

(* ListLockDiscipline: the mutex of a map is held exactly while its holder
   scans that node's hot queue. *)
THEOREM LocksAreDisciplined == Spec => []ListLockDiscipline
<1>1. IInv => ListLockDiscipline
  BY DEF IInv
<1> QED BY <1>1, PoolInvariance, PTL

(* TimerOnlyIfIdling: an idle timer waits on a pooled connection only. *)
THEOREM TimersWaitOnIdling == Spec => []TimerOnlyIfIdling
<1>1. IInv => TimerOnlyIfIdling
  BY DEF IInv, TimerInv, TimerOnlyIfIdling
<1> QED BY <1>1, PoolInvariance, PTL

(* LeavesPoolOnPurpose: no pooled connection is lost. *)
THEOREM NoneIsLost == Spec => LeavesPoolOnPurpose
<1> DEFINE OnPurpose(c, g) ==
             \/ \E t \in Threads : own'[t] = c /\ pc'[t] = "pick_up"
             \/ \E t \in Threads : tgt[t] = [id |-> c, group |-> g] /\ tgt'[t] = NoMeta
<1>1. ASSUME IInv, [Next]_vars, NEW g \in Groups, NEW c \in Idling(g) \ Idling(g)'
      PROVE  OnPurpose(c, g)
  <2>0. /\ Typing /\ ExclusiveOwnership /\ NodeInv /\ pc \in [Threads -> Steps]
        /\ own \in [Threads -> Conns \cup {NoConn}]
    BY <1>1 DEF IInv, Typing, TypeOK, Steps
  <2>1. ASSUME NEW t \in Threads, TakeHot(t) \/ TakeListed(t)
        PROVE  OnPurpose(c, g)
    <3>1. PICK x \in Conns : /\ Loses(x, grp[t]) /\ own' = [own EXCEPT ![t] = x]
                             /\ pc' = [pc EXCEPT ![t] = "pick_up"]
      BY <2>0, <2>1, Taking
    <3>2. x = c
      BY <1>1, <3>1 DEF Loses
    <3> QED BY <2>0, <3>1, <3>2
  <2>2. ASSUME NEW t \in Threads, RemoveListed(t) \/ ScanFinds(t)
        PROVE  OnPurpose(c, g)
    <3>1. tgt[t] \in Meta /\ tgt'[t] = NoMeta /\ Loses(tgt[t].id, tgt[t].group)
      BY <2>0, <2>2, Dropping
    <3>2. c = tgt[t].id /\ g = tgt[t].group
      BY <1>1, <3>1 DEF Loses
    <3>3. tgt[t] = [id |-> c, group |-> g]
      BY <3>1, <3>2 DEF Meta
    <3> QED BY <3>1, <3>3
  <2>3. ASSUME NEW t \in Threads, PushHot(t) \/ InsertList(t)
        PROVE  FALSE
    <3>1. Stay \/ Gains(own[t], grp[t])
      BY <2>0, <2>3, Adding
    <3> QED BY <1>1, <3>1 DEF Stay, Gains
  <2>4. ASSUME (\E t \in Threads : Settled(t)) \/ Serving \/ UNCHANGED vars
        PROVE  FALSE
    <3>1. Stay
      BY <2>0, <2>4, Staying
    <3> QED BY <1>1, <3>1 DEF Stay
  <2> QED BY <1>1, <2>1, <2>2, <2>3, <2>4, Kinds
<1>2. IInv /\ [Next]_vars =>
        [\A g \in Groups : \A c \in Idling(g) \ Idling(g)' : OnPurpose(c, g)]_vars
  BY <1>1
<1> QED BY <1>2, PoolInvariance, PTL DEF Spec, LeavesPoolOnPurpose

(* ImplementsIdlePool: with all its threads, queues, locks, caches and timers
   the pool is the abstract one. *)
THEOREM PoolRefines == Spec => ImplementsIdlePool
<1>1. Init => Abstract!Init
  <2> SUFFICES ASSUME Init PROVE Abstract!Init
    OBVIOUS
  <2>1. \A g \in Groups : Idling(g) = {}
    BY EmptyElems DEF Init, Idling, Pooled
  <2>2. Available = {}
    BY <2>1 DEF Available
  <2>3. Busy = {}
    BY DEF Init, Busy
  <2> QED BY <2>2, <2>3 DEF Abstract!Init
<1>2. IInv /\ [Next]_vars => [Abstract!Next]_<<Available, Busy>>
  <2> SUFFICES ASSUME IInv, [Next]_vars
               PROVE  Abstract!Next \/ UNCHANGED <<Available, Busy>>
    OBVIOUS
  <2>1. CASE UNCHANGED vars
    <3>1. Available' = Available
      BY <2>1, Staying, AvailableIs DEF IInv
    <3>2. Busy' = Busy
      BY <2>1 DEF vars, Busy
    <3> QED BY <3>1, <3>2
  <2>2. CASE \E t \in Threads : Continue(t) \/ \E c \in Conns : IdleTimeout(t, c)
    BY <2>2, ThreadRefines
  <2>3. CASE Serving
    BY <2>3, RequestRefines
  <2> QED BY <2>1, <2>2, <2>3 DEF Next, Serving
<1>3. Spec => Abstract!Spec
  BY <1>1, <1>2, PoolInvariance, PTL DEF Spec, Abstract!Spec
<1> QED BY <1>3 DEF ImplementsIdlePool
=============================================================================
