--------------------------- MODULE ClustersProofs ---------------------------
(***************************************************************************)
(* What the clusters of a running gateway promise, for every configuration *)
(* and whatever Consul answers: prefixes that the filter can use, and      *)
(* backends that answers crossing each other set back once at most.        *)
(***************************************************************************)
EXTENDS ClustersProperties, TLAPS

States == {"none", "starting", "registered", "answered", "sleeping", "checking",
           "dead", "stopped"}

(* A service that asks Consul is one of a cluster with a discovery; pingora's
   own service asks only in its first update, and never sleeps. *)
Asking(c, s) == task[c][s] \in {"starting", "registered", "answered"}

ServiceInv ==
  \A c \in Clusters : \A s \in Services :
    /\ Asking(c, s) \/ task[c][s] = "sleeping" => c \in Discovered
    /\ task[c]["checker"] # "sleeping"

(* No change of Consul is counted but by an event. *)
VersionInv == version <= events + 1

(* While pingora's service is at its first update, or has not begun it, no
   answer was older than the one before; it may set the cluster back itself, or
   else make an answer late that the updater waits for. *)
Young(c) == boot = "starting" \/ Asking(c, "checker")

SetBackInv ==
  \A c \in Clusters :
    /\ Young(c) => setbacks[c] = 0
    /\ setbacks[c] \in {0, 1}
    /\ Young(c) \/ setbacks[c] = 1 =>
         (task[c]["updater"] = "answered" => answer[c]["updater"].version >= seen[c])

(* Before it runs no service of the gateway does. *)
BootInv ==
  /\ boot = "starting" => \A c \in Clusters : \A s \in Services : task[c][s] = "none"
  /\ RoutesUsable

IInv == TypeOK /\ ServiceInv /\ VersionInv /\ SetBackInv /\ BootInv

-----------------------------------------------------------------------------
LEMMA MovesOne ==
  ASSUME task \in [Clusters -> [Services -> States]], NEW c \in Clusters,
         NEW s \in Services, NEW to \in States, Moves(c, s, to)
  PROVE  /\ task' \in [Clusters -> [Services -> States]] /\ task'[c][s] = to
         /\ \A d \in Clusters : \A t \in Services :
              d # c \/ t # s => task'[d][t] = task[d][t]
<1> DEFINE row == [task[c] EXCEPT ![s] = to]
<1>1. task' = [task EXCEPT ![c] = row]
  BY DEF Moves
<1>2. row \in [Services -> States] /\ row[s] = to
      /\ \A t \in Services \ {s} : row[t] = task[c][t]
  OBVIOUS
<1> HIDE DEF row
<1> QED
  BY <1>1, <1>2

LEMMA AnswersOne ==
  ASSUME NEW T, answer \in [Clusters -> [Services -> T]], NEW c \in Clusters,
         NEW s \in Services, NEW a \in T, answer' = [answer EXCEPT ![c][s] = a]
  PROVE  /\ answer' \in [Clusters -> [Services -> T]] /\ answer'[c][s] = a
         /\ \A d \in Clusters : \A t \in Services :
              d # c \/ t # s => answer'[d][t] = answer[d][t]
<1> DEFINE row == [answer[c] EXCEPT ![s] = a]
<1>1. answer' = [answer EXCEPT ![c] = row]
  OBVIOUS
<1>2. row \in [Services -> T] /\ row[s] = a
      /\ \A t \in Services \ {s} : row[t] = answer[c][t]
  OBVIOUS
<1> HIDE DEF row
<1> QED
  BY <1>1, <1>2

(* Two prefixes with the same segments, which both start with a slash and do
   not end with one, are the same. *)
LEMMA ValidPrefixes ==
  ASSUME NEW k \in Configs, NEW i \in DOMAIN k, ValidCluster(k[i])
  PROVE  /\ k[i].prefix.segments # <<>>
         /\ k[i].prefix = [starts |-> TRUE, segments |-> k[i].prefix.segments,
                           ends |-> FALSE]
<1> DEFINE p == k[i].prefix
<1>1. p # None /\ p.starts /\ ~p.ends
  BY DEF ValidCluster
<1>2. p \in Prefix({ p.segments[j] : j \in DOMAIN p.segments })
  BY <1>1, ConfigsAssumption DEF ConfigsAssumption
<1>3. /\ p = [starts |-> p.starts, segments |-> p.segments, ends |-> p.ends]
      /\ p.starts \in BOOLEAN /\ p.ends \in BOOLEAN
      /\ p.segments = <<>> => p.starts = p.ends
  BY <1>2 DEF Prefix
<1>4. p.starts = TRUE /\ p.ends = FALSE
  BY <1>1, <1>3
<1> HIDE DEF p
<1>5. p.segments # <<>> /\ p = [starts |-> TRUE, segments |-> p.segments, ends |-> FALSE]
  BY <1>3, <1>4
<1> QED
  BY <1>5 DEF p

(* What build_cluster does not refuse, the filter can use. *)
LEMMA BuiltIsUsable ==
  ASSUME NEW k \in Configs, ~Panics(k, Resolvable)
  PROVE  UsablePrefixes(PrefixMap(k))
<1> DEFINE prefixes == PrefixMap(k)
<1>1. \A i \in DOMAIN k : ValidCluster(k[i])
  BY DEF Panics
<1>2. /\ DOMAIN prefixes = DOMAIN k
      /\ \A i \in DOMAIN k : prefixes[i] = k[i].prefix.segments
  BY DEF PrefixMap
<1>3. ASSUME NEW i \in DOMAIN k, NEW j \in DOMAIN k, prefixes[i] = prefixes[j]
      PROVE  i = j
  <2>1. k[i].prefix = k[j].prefix
    <3>1. k[i].prefix.segments = k[j].prefix.segments
      BY <1>2, <1>3
    <3>2. k[i].prefix = [starts |-> TRUE, segments |-> k[i].prefix.segments, ends |-> FALSE]
      BY <1>1, ValidPrefixes
    <3>3. k[j].prefix = [starts |-> TRUE, segments |-> k[j].prefix.segments, ends |-> FALSE]
      BY <1>1, ValidPrefixes
    <3> QED
      BY <3>1, <3>2, <3>3
  <2>2. i \in Nat /\ j \in Nat
    BY ConfigsAssumption DEF ConfigsAssumption
  <2> QED
    BY <2>1, <2>2 DEF Panics, DuplicatedPrefix
<1>4. \A i \in DOMAIN k : prefixes[i] # <<>>
  BY <1>1, <1>2, ValidPrefixes
<1> HIDE DEF prefixes
<1>5. UsablePrefixes(prefixes)
  BY <1>2, <1>3, <1>4 DEF UsablePrefixes
<1> QED
  BY <1>5 DEF prefixes

-----------------------------------------------------------------------------
LEMMA InitHolds == Init => IInv
<1> SUFFICES ASSUME Init PROVE IInv
  OBVIOUS
<1>1. /\ MaxEvents \in Nat /\ NoAnswer \in [nodes : SUBSET Nodes, version : 0..1]
  BY ConfigsAssumption DEF ConfigsAssumption, NoAnswer
<1>2. /\ config \in Configs /\ boot = "starting" /\ version = 1 /\ events = 0
      /\ \A c \in Clusters : /\ backends[c] = {} /\ healthy[c] = {} /\ seen[c] = 0
                             /\ setbacks[c] = 0
                             /\ \A s \in Services : task[c][s] = "none"
  BY DEF Init
<1>3. TypeOK
  <2>1. answer \in [Clusters -> [Services -> [nodes : SUBSET Nodes, version : 0..version]]]
    BY <1>1, <1>2 DEF Init
  <2>2. task \in [Clusters -> [Services -> States]]
    BY DEF Init, States
  <2>3. seen \in [Clusters -> 0..version] /\ setbacks \in [Clusters -> Nat]
    BY <1>2 DEF Init
  <2>4. registry \in Registries /\ up \in BOOLEAN /\ alive \subseteq Backends /\ stopping \in BOOLEAN
    BY DEF Init
  <2>5. version \in 1..(MaxEvents + 1) /\ events \in 0..MaxEvents
    BY <1>1, <1>2
  <2>6. {backends, healthy} \subseteq [Clusters -> SUBSET Backends]
    BY DEF Init
  <2> QED
    BY <1>2, <2>1, <2>2, <2>3, <2>4, <2>5, <2>6 DEF TypeOK, States
<1>4. ServiceInv /\ VersionInv
  BY <1>2 DEF ServiceInv, Asking, VersionInv, Services
<1>5. SetBackInv
  BY <1>2 DEF SetBackInv, Services
<1>6. BootInv
  BY <1>2 DEF BootInv, RoutesUsable
<1> QED
  BY <1>3, <1>4, <1>5, <1>6 DEF IInv

LEMMA BootKeeps ==
  ASSUME IInv, Boot
  PROVE  IInv'
<1>1. boot = "starting" /\ UNCHANGED <<config, history, answer, consul, outside>>
  BY DEF Boot
<1>2. CASE Panics(config, Resolvable)
  <2>1. boot' = "panicked" /\ UNCHANGED <<balancers, task>>
    BY <1>2 DEF Boot
  <2> QED
    BY <1>1, <2>1
    DEF IInv, TypeOK, ServiceInv, Asking, VersionInv, SetBackInv, Young, BootInv,
        RoutesUsable, Clusters, Discovered, balancers, history, consul, outside
<1>3. CASE ~Panics(config, Resolvable)
  <2>1. /\ boot' = "running" /\ healthy' = backends'
        /\ backends' = [c \in Clusters |->
                          IF c \in Discovered THEN {}
                          ELSE { Resolve[a] : a \in config[c].upstream }]
        /\ task' = [c \in Clusters |->
                      IF c \in Discovered
                        THEN [checker |-> "starting", updater |-> "sleeping"]
                        ELSE [checker |-> "checking", updater |-> "none"]]
    BY <1>3 DEF Boot
  <2>2. {backends', healthy'} \subseteq [Clusters -> SUBSET Backends]
    <3> SUFFICES ASSUME NEW c \in Clusters, c \notin Discovered
                 PROVE  { Resolve[a] : a \in config[c].upstream } \subseteq Backends
      BY <2>1
    <3>1. config[c].upstream \subseteq Resolvable
      BY <1>3 DEF Panics, Buildable, Discovered, Clusters
    <3> QED
      BY <3>1, ConfigsAssumption DEF ConfigsAssumption, Backends
  <2>3. /\ Clusters' = Clusters /\ Discovered' = Discovered
        /\ task' \in [Clusters -> [Services -> States]]
        /\ \A c \in Clusters :
             /\ task'[c]["updater"] \in {"sleeping", "none"}
             /\ task'[c]["checker"] \in {"starting", "checking"}
             /\ c \notin Discovered =>
                  task'[c]["updater"] = "none" /\ task'[c]["checker"] = "checking"
    <3>1. Clusters' = Clusters /\ Discovered' = Discovered
      BY <1>1 DEF Clusters, Discovered
    <3>2. /\ [checker |-> "starting", updater |-> "sleeping"] \in [Services -> States]
          /\ [checker |-> "checking", updater |-> "none"] \in [Services -> States]
      BY DEF Services, States
    <3> QED
      BY <2>1, <3>1, <3>2
  <2>4. TypeOK'
    BY <1>1, <2>1, <2>2, <2>3
    DEF IInv, TypeOK, States, history, consul, outside, Backends, Clusters
  <2>5. ServiceInv'
    BY <2>3 DEF ServiceInv, Asking, Services
  <2>6. SetBackInv'
    BY <1>1, <2>3 DEF IInv, SetBackInv, Young, history
  <2>7. BootInv'
    BY <1>1, <1>3, <2>1, BuiltIsUsable DEF IInv, TypeOK, BootInv, RoutesUsable
  <2> QED
    BY <1>1, <2>4, <2>5, <2>6, <2>7 DEF IInv, VersionInv, consul, outside
<1> QED
  BY <1>2, <1>3

-----------------------------------------------------------------------------
(* What the state of a cluster's services is made of. *)
LEMMA Typed ==
  ASSUME IInv
  PROVE  /\ task \in [Clusters -> [Services -> States]]
         /\ answer \in [Clusters -> [Services -> [nodes : SUBSET Nodes, version : 0..version]]]
         /\ seen \in [Clusters -> 0..version] /\ setbacks \in [Clusters -> Nat]
         /\ version \in Nat /\ NoAnswer \in [nodes : SUBSET Nodes, version : 0..version]
<1>1. version \in Nat
  BY DEF IInv, TypeOK
<1>2. NoAnswer \in [nodes : SUBSET Nodes, version : 0..version]
  BY <1>1 DEF NoAnswer
<1> QED
  BY <1>1, <1>2 DEF IInv, TypeOK, States

(* A step of one service. *)
LEMMA ServiceStep ==
  ASSUME IInv, NEW c \in Clusters, NEW s \in Services, NEW to \in States,
         Moves(c, s, to), task[c][s] # "none", to # "none",
         UNCHANGED <<config, boot, consul, outside>>,
         {backends', healthy'} \subseteq [Clusters -> SUBSET Backends],
         \A d \in Clusters : healthy'[d] \subseteq backends'[d],
         answer' \in [Clusters -> [Services -> [nodes : SUBSET Nodes, version : 0..version]]],
         seen' \in [Clusters -> 0..version], setbacks' \in [Clusters -> Nat],
         to \in {"starting", "registered", "answered", "sleeping"} => c \in Discovered,
         ~(s = "checker" /\ to = "sleeping"),
         SetBackInv'
  PROVE  IInv'
<1>1. /\ task' \in [Clusters -> [Services -> States]] /\ task'[c][s] = to
      /\ \A d \in Clusters : \A t \in Services :
           d # c \/ t # s => task'[d][t] = task[d][t]
  BY Typed, MovesOne
<1>2. Clusters' = Clusters /\ Discovered' = Discovered
  BY DEF Clusters, Discovered
<1>3. TypeOK'
  BY <1>1, <1>2 DEF IInv, TypeOK, States, consul, outside, Backends
<1>4. ServiceInv'
  BY <1>1, <1>2 DEF IInv, ServiceInv, Asking, Services
<1>5. BootInv'
  BY <1>1, <1>2 DEF IInv, BootInv, RoutesUsable
<1> QED
  BY <1>3, <1>4, <1>5 DEF IInv, VersionInv, consul, outside

(* A step of a service after which it waits for no answer. *)
LEMMA WaitingStep ==
  ASSUME IInv, NEW c \in Clusters, NEW s \in Services, NEW to \in States,
         Moves(c, s, to), task[c][s] # "none", to \notin {"none", "answered"},
         UNCHANGED <<config, boot, balancers, history, answer, consul, outside>>,
         to \in {"starting", "registered", "sleeping"} => c \in Discovered,
         s = "checker" => to # "sleeping" /\ (to \in {"starting", "registered"} => Asking(c, s))
  PROVE  IInv'
<1>1. /\ task' \in [Clusters -> [Services -> States]] /\ task'[c][s] = to
      /\ \A d \in Clusters : \A t \in Services :
           d # c \/ t # s => task'[d][t] = task[d][t]
  BY Typed, MovesOne
<1>2. \A d \in Clusters :
        /\ Young(d)' => Young(d)
        /\ task'[d]["updater"] = "answered" => task[d]["updater"] = "answered"
  BY <1>1 DEF Young, Asking, Services
<1>3. SetBackInv'
  BY <1>2 DEF IInv, SetBackInv, history, Clusters
<1>4. /\ {backends', healthy'} \subseteq [Clusters -> SUBSET Backends]
      /\ \A d \in Clusters : healthy'[d] \subseteq backends'[d]
  BY DEF IInv, TypeOK, balancers
<1> QED
  BY <1>3, <1>4, Typed, ServiceStep DEF history

LEMMA WakeKeeps ==
  ASSUME IInv, NEW c \in Clusters, Wake(c)
  PROVE  IInv'
<1>1. c \in Discovered /\ "updater" \in Services /\ "starting" \in States
  BY DEF IInv, ServiceInv, Wake, Services, States
<1> QED
  BY <1>1, WaitingStep DEF Wake

LEMMA RegisterKeeps ==
  ASSUME IInv, NEW c \in Clusters, NEW s \in Services, Register(c, s)
  PROVE  IInv'
<1> DEFINE to == IF up THEN "registered" ELSE "dead"
<1>1. c \in Discovered /\ Asking(c, s) /\ task[c][s] = "starting" /\ Moves(c, s, to)
  BY DEF IInv, ServiceInv, Asking, Register
<1>2. to \in {"registered", "dead"} /\ to \in States
  BY DEF States
<1> HIDE DEF to
<1> QED
  BY <1>1, <1>2, WaitingStep DEF Register

LEMMA StopKeeps ==
  ASSUME IInv, NEW c \in Clusters, NEW s \in Services, Stop(c, s)
  PROVE  IInv'
<1>1. "stopped" \in States
  BY DEF States
<1> QED
  BY <1>1, WaitingStep DEF Stop

LEMMA ListedNodes ==
  ASSUME IInv, NEW c \in Discovered
  PROVE  Listed(c) \in SUBSET Nodes
<1>1. config[c].discovery.name \in DOMAIN registry /\ registry \in Registries
  BY ConfigsAssumption DEF ConfigsAssumption, IInv, TypeOK, Discovered, Clusters
<1> QED
  BY <1>1 DEF Listed, Nodes

LEMMA GetServiceNodesKeeps ==
  ASSUME IInv, NEW c \in Clusters, NEW s \in Services, GetServiceNodes(c, s)
  PROVE  IInv'
<1>1. /\ c \in Discovered /\ Asking(c, s) /\ task[c][s] = "registered"
      /\ UNCHANGED <<config, boot, balancers, history, consul, outside>>
  BY DEF IInv, ServiceInv, Asking, GetServiceNodes
<1>2. CASE ~up
  <2>1. Moves(c, s, "dead") /\ UNCHANGED answer /\ "dead" \in States
    BY <1>2 DEF GetServiceNodes, States
  <2> QED
    BY <1>1, <2>1, WaitingStep
<1>3. CASE up
  <2> DEFINE a == [nodes |-> Listed(c), version |-> version]
  <2>1. /\ Moves(c, s, "answered") /\ "answered" \in States
        /\ answer' = [answer EXCEPT ![c][s] = a]
    BY <1>3 DEF GetServiceNodes, States
  <2>2. a \in [nodes : SUBSET Nodes, version : 0..version] /\ a.version = version
    BY <1>1, ListedNodes, Typed
  <2> HIDE DEF a
  <2>3. /\ answer' \in [Clusters -> [Services -> [nodes : SUBSET Nodes, version : 0..version]]]
        /\ answer'[c][s] = a
        /\ \A d \in Clusters : \A t \in Services :
             d # c \/ t # s => answer'[d][t] = answer[d][t]
    BY <2>1, <2>2, Typed, AnswersOne
  <2>4. /\ task'[c][s] = "answered"
        /\ \A d \in Clusters : \A t \in Services :
             d # c \/ t # s => task'[d][t] = task[d][t]
    BY <2>1, Typed, MovesOne
  <2>5. \A d \in Clusters : Young(d)' => Young(d)
    BY <1>1, <2>4 DEF Young, Asking, Services
  <2>6. \A d \in Clusters : task'[d]["updater"] = "answered" =>
          \/ /\ task[d]["updater"] = "answered"
             /\ answer'[d]["updater"] = answer[d]["updater"]
          \/ answer'[d]["updater"].version >= seen[d]
    BY <2>2, <2>3, <2>4, Typed DEF Services
  <2>7. SetBackInv'
    BY <1>1, <2>5, <2>6 DEF IInv, SetBackInv, history, Clusters
  <2>8. /\ {backends', healthy'} \subseteq [Clusters -> SUBSET Backends]
        /\ \A d \in Clusters : healthy'[d] \subseteq backends'[d]
    BY <1>1 DEF IInv, TypeOK, balancers
  <2> QED
    BY <1>1, <2>1, <2>3, <2>7, <2>8, Typed, ServiceStep DEF history
<1> QED
  BY <1>2, <1>3

LEMMA UpdateKeeps ==
  ASSUME IInv, NEW c \in Clusters, NEW s \in Services, Update(c, s)
  PROVE  IInv'
<1> DEFINE a    == answer[c][s]
           v    == a.version
           new  == Addresses(a.nodes)
           down == backends[c] \ healthy[c]
<1>1. /\ c \in Discovered /\ Asking(c, s) /\ task[c][s] = "answered"
      /\ answer' = [answer EXCEPT ![c][s] = NoAnswer]
      /\ UNCHANGED <<config, boot, consul, outside>>
  BY DEF IInv, ServiceInv, Asking, Update
<1>2. /\ answer' \in [Clusters -> [Services -> [nodes : SUBSET Nodes, version : 0..version]]]
      /\ \A d \in Clusters : \A t \in Services :
           d # c \/ t # s => answer'[d][t] = answer[d][t]
  BY <1>1, Typed, AnswersOne
<1>3. CASE ~Legal(a.nodes)
  <2>1. Moves(c, s, "dead") /\ UNCHANGED <<balancers, history>> /\ "dead" \in States
    BY <1>3 DEF Update, States
  <2>2. /\ task'[c][s] = "dead"
        /\ \A d \in Clusters : \A t \in Services :
             d # c \/ t # s => task'[d][t] = task[d][t]
    BY <2>1, Typed, MovesOne
  <2>3. SetBackInv'
    <3>1. \A d \in Clusters :
            /\ Young(d)' => Young(d)
            /\ task'[d]["updater"] = "answered" =>
                 /\ task[d]["updater"] = "answered"
                 /\ answer'[d]["updater"] = answer[d]["updater"]
      BY <1>1, <1>2, <2>2 DEF Young, Asking, Services
    <3> QED
      BY <1>1, <2>1, <3>1 DEF IInv, SetBackInv, history, Clusters
  <2>4. /\ {backends', healthy'} \subseteq [Clusters -> SUBSET Backends]
        /\ \A d \in Clusters : healthy'[d] \subseteq backends'[d]
    BY <2>1 DEF IInv, TypeOK, balancers
  <2> QED
    BY <1>1, <1>2, <2>1, <2>3, <2>4, Typed, ServiceStep DEF history
<1>4. CASE Legal(a.nodes)
  <2> DEFINE to == Updated(s)
  <2>1. /\ backends' = [backends EXCEPT ![c] = new]
        /\ healthy' = [healthy EXCEPT ![c] = new \ down]
        /\ seen' = [seen EXCEPT ![c] = v]
        /\ setbacks' = [setbacks EXCEPT ![c] = IF v < seen[c] THEN setbacks[c] + 1
                                               ELSE setbacks[c]]
        /\ Moves(c, s, to)
    BY <1>4 DEF Update, Applied
  <2>2. /\ to \in States /\ to \in {"sleeping", "checking"}
        /\ s = "updater" => to = "sleeping"
        /\ s = "checker" => to = "checking"
    BY DEF Updated, States
  <2>3. /\ task'[c][s] = to
        /\ \A d \in Clusters : \A t \in Services :
             d # c \/ t # s => task'[d][t] = task[d][t]
    BY <2>1, <2>2, Typed, MovesOne
  <2>4. v \in 0..version /\ v \in Nat /\ seen[c] \in Nat /\ setbacks[c] \in Nat
    BY Typed
  <2>5. /\ \A d \in Clusters \ {c} : seen'[d] = seen[d] /\ setbacks'[d] = setbacks[d]
        /\ seen'[c] = v
        /\ setbacks'[c] = IF v < seen[c] THEN setbacks[c] + 1 ELSE setbacks[c]
    BY <2>1, Typed
  <2>6. seen' \in [Clusters -> 0..version] /\ setbacks' \in [Clusters -> Nat]
    BY <2>1, <2>4, Typed
  <2>7. /\ {backends', healthy'} \subseteq [Clusters -> SUBSET Backends]
        /\ \A d \in Clusters : healthy'[d] \subseteq backends'[d]
    <3>1. new \subseteq Backends
      BY <1>4 DEF Legal, Addresses, Backends
    <3> HIDE DEF new, down
    <3>2. new \in SUBSET Backends /\ new \ down \in SUBSET Backends
      BY <3>1
    <3>3. /\ backends \in [Clusters -> SUBSET Backends]
          /\ healthy \in [Clusters -> SUBSET Backends]
          /\ \A d \in Clusters : healthy[d] \subseteq backends[d]
      BY DEF IInv, TypeOK
    <3> QED
      BY <2>1, <3>2, <3>3
  <2> HIDE DEF to, new, down
  <2>8. ASSUME NEW d \in Clusters \ {c}
        PROVE  /\ Young(d)' => setbacks'[d] = 0
               /\ setbacks'[d] \in {0, 1}
               /\ Young(d)' \/ setbacks'[d] = 1 =>
                    (task'[d]["updater"] = "answered" =>
                       answer'[d]["updater"].version >= seen'[d])
    <3>1. /\ Young(d)' <=> Young(d)
          /\ task'[d]["updater"] = task[d]["updater"]
          /\ answer'[d]["updater"] = answer[d]["updater"]
      BY <1>1, <1>2, <2>3 DEF Young, Asking, Services
    <3> QED
      BY <2>5, <3>1 DEF IInv, SetBackInv
  <2>9. /\ Young(c)' => setbacks'[c] = 0
        /\ setbacks'[c] \in {0, 1}
        /\ Young(c)' \/ setbacks'[c] = 1 =>
             (task'[c]["updater"] = "answered" =>
                answer'[c]["updater"].version >= seen'[c])
    <3>1. /\ Young(c) => setbacks[c] = 0
          /\ setbacks[c] \in {0, 1}
          /\ Young(c) \/ setbacks[c] = 1 =>
               (task[c]["updater"] = "answered" =>
                  answer[c]["updater"].version >= seen[c])
      BY DEF IInv, SetBackInv
    <3>2. CASE s = "updater"
      <4>1. task'[c]["updater"] = "sleeping" /\ (Young(c)' => Young(c))
        BY <1>1, <2>2, <2>3, <3>2 DEF Young, Asking, Services
      <4>2. Young(c) \/ setbacks[c] = 1 => v >= seen[c]
        BY <1>1, <3>1, <3>2
      <4> QED
        BY <2>4, <2>5, <3>1, <4>1, <4>2
    <3>3. CASE s = "checker"
      <4>1. /\ Young(c) /\ ~Young(c)'
            /\ task'[c]["updater"] = task[c]["updater"]
            /\ answer'[c]["updater"] = answer[c]["updater"]
        <5>1. boot # "starting"
          BY <1>1 DEF IInv, BootInv
        <5> QED
          BY <1>1, <1>2, <2>2, <2>3, <3>3, <5>1 DEF Young, Asking, Services
      <4>2. task[c]["updater"] = "answered" => answer[c]["updater"].version \in Nat
        BY Typed DEF Services
      <4> QED
        BY <2>4, <2>5, <3>1, <4>1, <4>2
    <3> QED
      BY <3>2, <3>3 DEF Services
  <2>10. SetBackInv'
    BY <1>1, <2>8, <2>9 DEF SetBackInv, Clusters
  <2> QED
    BY <1>1, <1>2, <2>1, <2>2, <2>6, <2>7, <2>10, ServiceStep
<1> QED
  BY <1>3, <1>4

-----------------------------------------------------------------------------
(* A step that no service takes. *)
LEMMA OutsideStep ==
  ASSUME IInv, UNCHANGED <<config, boot, backends, history, task, answer>>,
         healthy' \in [Clusters -> SUBSET Backends],
         \A d \in Clusters : healthy'[d] \subseteq backends[d],
         registry' \in Registries, version' \in 1..(MaxEvents + 1), version <= version',
         version' <= events' + 1, up' \in BOOLEAN, alive' \subseteq Backends,
         stopping' \in BOOLEAN, events' \in 0..MaxEvents
  PROVE  IInv'
<1>1. Clusters' = Clusters /\ Discovered' = Discovered
  BY DEF Clusters, Discovered
<1>2. /\ answer' \in [Clusters -> [Services -> [nodes : SUBSET Nodes, version : 0..version']]]
      /\ seen' \in [Clusters -> 0..version']
  <2>1. /\ version \in Nat /\ version' \in Nat /\ 0..version \subseteq 0..version'
    BY Typed, ConfigsAssumption DEF ConfigsAssumption
  <2>2. [nodes : SUBSET Nodes, version : 0..version]
          \subseteq [nodes : SUBSET Nodes, version : 0..version']
    BY <2>1
  <2>3. answer \in [Clusters -> [Services -> [nodes : SUBSET Nodes, version : 0..version]]]
    BY Typed
  <2>4. answer \in [Clusters -> [Services -> [nodes : SUBSET Nodes, version : 0..version']]]
    BY <2>2, <2>3
  <2> QED
    BY <2>1, <2>4, Typed DEF history
<1>3. TypeOK'
  BY <1>1, <1>2 DEF IInv, TypeOK, history, Backends
<1>4. ServiceInv' /\ BootInv' /\ VersionInv'
  BY <1>1 DEF IInv, ServiceInv, Asking, BootInv, RoutesUsable, VersionInv
<1>5. SetBackInv'
  BY <1>1 DEF IInv, SetBackInv, Young, Asking, history
<1> QED
  BY <1>3, <1>4, <1>5 DEF IInv

LEMMA ProbeKeeps ==
  ASSUME IInv, NEW c \in Clusters, NEW b \in Backends, Probe(c, b)
  PROVE  IInv'
<1>1. /\ healthy' \in [Clusters -> SUBSET Backends]
      /\ \A d \in Clusters : healthy'[d] \subseteq backends[d]
  BY DEF IInv, TypeOK, Probe
<1>2. /\ registry' \in Registries /\ version' \in 1..(MaxEvents + 1) /\ version <= version'
      /\ version' <= events' + 1 /\ up' \in BOOLEAN /\ alive' \subseteq Backends
      /\ stopping' \in BOOLEAN /\ events' \in 0..MaxEvents
  BY Typed DEF IInv, TypeOK, VersionInv, Probe, consul, outside
<1> QED
  BY <1>1, <1>2, OutsideStep DEF Probe

LEMMA EventKeeps ==
  ASSUME IInv,
         RegistryChanges \/ ConsulGoes \/ Shutdown \/ \E b \in Backends : ServerGoes(b)
  PROVE  IInv'
<1>1. /\ UNCHANGED <<config, boot, balancers, history, task, answer>>
      /\ events < MaxEvents /\ events' = events + 1
      /\ registry' \in Registries /\ version' \in {version, version + 1}
      /\ up' \in BOOLEAN /\ alive' \subseteq Backends /\ stopping' \in BOOLEAN
  <2>1. registry \in Registries /\ up \in BOOLEAN /\ alive \subseteq Backends /\ stopping \in BOOLEAN
    BY DEF IInv, TypeOK
  <2>2. CASE RegistryChanges
    BY <2>1, <2>2 DEF RegistryChanges, Happens
  <2>3. CASE ConsulGoes
    BY <2>1, <2>3 DEF ConsulGoes, Happens
  <2>4. CASE Shutdown
    BY <2>1, <2>4 DEF Shutdown, Happens, consul
  <2>5. ASSUME NEW b \in Backends, ServerGoes(b)
        PROVE  /\ UNCHANGED <<config, boot, balancers, history, task, answer>>
               /\ events < MaxEvents /\ events' = events + 1
               /\ registry' \in Registries /\ version' \in {version, version + 1}
               /\ up' \in BOOLEAN /\ alive' \subseteq Backends /\ stopping' \in BOOLEAN
    BY <2>1, <2>5 DEF ServerGoes, Happens, consul
  <2> QED
    BY <2>2, <2>3, <2>4, <2>5
<1>2. /\ version \in Nat /\ events \in Nat /\ version <= events + 1 /\ version \in 1..(MaxEvents + 1)
      /\ MaxEvents \in Nat
  BY Typed, ConfigsAssumption DEF ConfigsAssumption, IInv, TypeOK, VersionInv
<1>3. /\ version' \in 1..(MaxEvents + 1) /\ version <= version'
      /\ version' <= events' + 1 /\ events' \in 0..MaxEvents
  BY <1>1, <1>2
<1>4. /\ healthy' \in [Clusters -> SUBSET Backends]
      /\ \A d \in Clusters : healthy'[d] \subseteq backends[d]
  BY <1>1 DEF IInv, TypeOK, balancers
<1> QED
  BY <1>1, <1>3, <1>4, OutsideStep DEF balancers

LEMMA NextKeeps == IInv /\ [Next]_vars => IInv'
<1> SUFFICES ASSUME IInv, [Next]_vars PROVE IInv'
  OBVIOUS
<1>1. CASE UNCHANGED vars
  <2>1. /\ healthy' \in [Clusters -> SUBSET Backends]
        /\ \A d \in Clusters : healthy'[d] \subseteq backends[d]
        /\ registry' \in Registries /\ version' \in 1..(MaxEvents + 1) /\ version <= version'
        /\ version' <= events' + 1 /\ up' \in BOOLEAN /\ alive' \subseteq Backends
        /\ stopping' \in BOOLEAN /\ events' \in 0..MaxEvents
    BY <1>1, Typed DEF vars, balancers, consul, outside, IInv, TypeOK, VersionInv
  <2> QED
    BY <1>1, <2>1, OutsideStep DEF vars, balancers
<1>2. CASE Boot
  BY <1>2, BootKeeps
<1>3. ASSUME NEW c \in Clusters, Wake(c) PROVE IInv'
  BY <1>3, WakeKeeps
<1>4. ASSUME NEW c \in Clusters, NEW s \in Services, Serve(c, s) PROVE IInv'
  BY <1>4, RegisterKeeps, GetServiceNodesKeeps, UpdateKeeps, StopKeeps DEF Serve
<1>5. ASSUME NEW c \in Clusters, NEW b \in Backends, Probe(c, b) PROVE IInv'
  BY <1>5, ProbeKeeps
<1>6. CASE RegistryChanges \/ ConsulGoes \/ Shutdown \/ \E b \in Backends : ServerGoes(b)
  BY <1>6, EventKeeps
<1> QED
  BY <1>1, <1>2, <1>3, <1>4, <1>5, <1>6 DEF Next

THEOREM Invariance == Spec => []IInv
BY InitHolds, NextKeeps, PTL DEF Spec

(* Health is only kept of backends, and services stay in their states. *)
THEOREM TypesHold == Spec => []TypeOK
<1>1. IInv => TypeOK
  BY DEF IInv
<1> QED
  BY <1>1, Invariance, PTL

(* A gateway that runs has prefixes its filter can use, whatever was
   configured: what build_cluster refuses is enough. *)
THEOREM RoutesStayUsable == Spec => []RoutesUsable
<1>1. IInv => RoutesUsable
  BY DEF IInv, BootInv
<1> QED
  BY <1>1, Invariance, PTL

(* Answers of Consul that cross each other set a cluster back once at most. *)
THEOREM ClustersAreSetBackOnce == Spec => []SetBackOnce
<1>1. IInv => SetBackOnce
  BY DEF IInv, SetBackInv, SetBackOnce
<1> QED
  BY <1>1, Invariance, PTL
=============================================================================
