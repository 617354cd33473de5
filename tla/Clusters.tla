------------------------------ MODULE Clusters ------------------------------
(***************************************************************************)
(* The clusters of a running gateway (main.rs, cluster.rs, discovery.rs):  *)
(* what the load balancer of each knows of its servers.  Two background    *)
(* services work on the load balancer of a cluster: pingora's own, which   *)
(* updates it once and then checks the health of its backends every        *)
(* second, and, if the cluster has a discovery, the updater, which asks    *)
(* Consul every ten seconds.  An error of Consul is a panic in the code    *)
(* that called it (expect, unwrap) and ends the service that ran it, and   *)
(* no other.                                                               *)
(***************************************************************************)
EXTENDS ClusterConfig

CONSTANTS
  Configs,      \* configurations to start with: sequences of clusters
  Registries,   \* what Consul may list: sets of nodes, by service
  Resolvable,   \* the upstream addresses of a configuration that resolve
  Resolve,      \* address to backend; for a node of Consul others than these
                \*   are no IPv4 address
  MaxEvents     \* bound: changes of Consul, of servers, and a shutdown

(* A configuration is a sequence of clusters with prefixes as they are written;
   Consul answers for every service there is. *)
ASSUME ConfigsAssumption ==
  /\ MaxEvents \in Nat /\ Resolvable \subseteq DOMAIN Resolve
  /\ \A k \in Configs : \A i \in DOMAIN k :
       /\ i \in Nat
       /\ LET p == k[i].prefix IN
            p # None => p \in Prefix({ p.segments[j] : j \in DOMAIN p.segments })
       /\ k[i].discovery # None =>
            \A r \in Registries : k[i].discovery.name \in DOMAIN r

VARIABLES
  config, boot,       \* the configuration; "starting", "running", "panicked"
  backends, healthy,  \* of each cluster: its backends, those not seen down
  task, answer,       \* of each service: where it is, what Consul answered
  registry, version, up,     \* Consul: its nodes, how often they changed,
                             \*   whether it answers
  alive, stopping, events,   \* servers that accept connections; shutdown
  seen, setbacks      \* history: version of the answer a cluster has applied,
                      \*   how often that was older than the one before

balancers == <<backends, healthy>>
history   == <<seen, setbacks>>
consul    == <<registry, version, up>>
outside   == <<alive, stopping, events>>
vars      == <<config, boot, balancers, history, task, answer, consul,
               outside>>

Clusters   == DOMAIN config
Services   == {"checker", "updater"}
Backends   == { Resolve[a] : a \in DOMAIN Resolve }
Discovered == { c \in Clusters : config[c].discovery # None }

NoAnswer == [nodes |-> {}, version |-> 0]

Init ==
  /\ config \in Configs /\ boot = "starting"
  /\ backends = [c \in Clusters |-> {}] /\ healthy = backends
  /\ task = [c \in Clusters |-> [s \in Services |-> "none"]]
  /\ answer = [c \in Clusters |-> [s \in Services |-> NoAnswer]]
  /\ registry \in Registries /\ version = 1 /\ up \in BOOLEAN
  /\ alive = Backends /\ stopping = FALSE /\ events = 0
  /\ seen = [c \in Clusters |-> 0] /\ setbacks = seen

(* main: load, build, add the services, run.  A cluster without discovery has
   its backends from the start; pingora's service need not update it. *)
Boot ==
  /\ boot = "starting"
  /\ boot' = IF Panics(config, Resolvable) THEN "panicked" ELSE "running"
  /\ IF Panics(config, Resolvable) THEN UNCHANGED <<balancers, task>>
     ELSE /\ backends' = [c \in Clusters |->
                            IF c \in Discovered THEN {}
                            ELSE { Resolve[a] : a \in config[c].upstream }]
          /\ healthy' = backends'
          /\ task' = [c \in Clusters |->
                        IF c \in Discovered
                          THEN [checker |-> "starting", updater |-> "sleeping"]
                          ELSE [checker |-> "checking", updater |-> "none"]]
  /\ UNCHANGED <<config, history, answer, consul, outside>>

-----------------------------------------------------------------------------
Moves(c, s, to) == task' = [task EXCEPT ![c][s] = to]

(* Mutant: pingora's service updates the backends at intervals, too. *)
WakeBoth(c) ==
  /\ \E s \in Services :
       task[c][s] \in {"sleeping", "checking"} /\ c \in Discovered /\ Moves(c, s, "starting")
  /\ ~stopping
  /\ UNCHANGED <<config, boot, balancers, history, answer, consul, outside>>

(* start: the interval is over, and no shutdown was signalled. *)
Wake(c) ==
  /\ task[c]["updater"] = "sleeping" /\ ~stopping
  /\ Moves(c, "updater", "starting")
  /\ UNCHANGED <<config, boot, balancers, history, answer, consul,
                 outside>>

(* discover_backends registers the gateway with Consul ... *)
Register(c, s) ==
  /\ task[c][s] = "starting"
  /\ Moves(c, s, IF up THEN "registered" ELSE "dead")
  /\ UNCHANGED <<config, boot, balancers, history, answer, consul,
                 outside>>

(* The nodes of the cluster's service, or those of them that pass the checks
   of Consul, if it asks for these. *)
Listed(c) ==
  LET discovery == config[c].discovery
  IN  { n \in registry[discovery.name] : discovery.passing => n.passing }

(* ... asks for the nodes of the service ... *)
GetServiceNodes(c, s) ==
  /\ task[c][s] = "registered"
  /\ IF up
       THEN /\ answer' = [answer EXCEPT ![c][s] = [nodes |-> Listed(c), version |-> version]]
            /\ Moves(c, s, "answered")
       ELSE Moves(c, s, "dead") /\ UNCHANGED answer
  /\ UNCHANGED <<config, boot, balancers, history, consul, outside>>

Legal(nodes)    == \A n \in nodes : n.address \in DOMAIN Resolve
Addresses(nodes) == { Resolve[n.address] : n \in nodes }

Applied(c, v) ==
  /\ seen' = [seen EXCEPT ![c] = v]
  /\ setbacks' = [setbacks EXCEPT ![c] = IF v < seen[c] THEN @ + 1 ELSE @]

Updated(s) == IF s = "updater" THEN "sleeping" ELSE "checking"

(* Mutant: backends are only ever added. *)
UpdateAdding(c, s) ==
  /\ task[c][s] = "answered"
  /\ LET nodes == answer[c][s].nodes
     IN  IF Legal(nodes)
         THEN /\ backends' = [backends EXCEPT ![c] = @ \cup Addresses(nodes)]
              /\ healthy' = [healthy EXCEPT ![c] = @ \cup (Addresses(nodes) \ backends[c])]
              /\ Applied(c, answer[c][s].version)
              /\ Moves(c, s, Updated(s))
         ELSE Moves(c, s, "dead") /\ UNCHANGED <<balancers, history>>
  /\ answer' = [answer EXCEPT ![c][s] = NoAnswer]
  /\ UNCHANGED <<config, boot, consul, outside>>

(* Mutant: the health of the backends starts anew. *)
UpdateAnew(c, s) ==
  /\ task[c][s] = "answered"
  /\ LET nodes == answer[c][s].nodes
     IN  IF Legal(nodes)
         THEN /\ backends' = [backends EXCEPT ![c] = Addresses(nodes)]
              /\ healthy' = [healthy EXCEPT ![c] = Addresses(nodes)]
              /\ Applied(c, answer[c][s].version)
              /\ Moves(c, s, Updated(s))
         ELSE Moves(c, s, "dead") /\ UNCHANGED <<balancers, history>>
  /\ answer' = [answer EXCEPT ![c][s] = NoAnswer]
  /\ UNCHANGED <<config, boot, consul, outside>>

(* ... and makes backends of their addresses, which must be IPv4 addresses, or
   localhost.  The load balancer takes them all at once; it keeps the health of
   those it had, and takes the others for healthy. *)
Update(c, s) ==
  /\ task[c][s] = "answered"
  /\ LET nodes == answer[c][s].nodes
         down  == backends[c] \ healthy[c]
     IN  IF Legal(nodes)
         THEN /\ backends' = [backends EXCEPT ![c] = Addresses(nodes)]
              /\ healthy' = [healthy EXCEPT ![c] = Addresses(nodes) \ down]
              /\ Applied(c, answer[c][s].version)
              /\ Moves(c, s, Updated(s))
         ELSE Moves(c, s, "dead") /\ UNCHANGED <<balancers, history>>
  /\ answer' = [answer EXCEPT ![c][s] = NoAnswer]
  /\ UNCHANGED <<config, boot, consul, outside>>

(* Mutant: the health of a backend outlives it. *)
ProbeAny(c, b) ==
  /\ task[c]["checker"] = "checking"
  /\ healthy' = [healthy EXCEPT ![c] = IF b \in alive THEN @ \cup {b} ELSE @ \ {b}]
  /\ UNCHANGED <<config, boot, backends, history, task, answer, consul, outside>>

(* External: TcpHealthCheck connects to a backend. *)
Probe(c, b) ==
  /\ task[c]["checker"] = "checking" /\ b \in backends[c]
  /\ healthy' = [healthy EXCEPT ![c] = IF b \in alive THEN @ \cup {b} ELSE @ \ {b}]
  /\ UNCHANGED <<config, boot, backends, history, task, answer, consul,
                 outside>>

(* A service that waits sees the shutdown; an update is not interrupted. *)
Stop(c, s) ==
  /\ stopping /\ task[c][s] \in {"sleeping", "checking"}
  /\ Moves(c, s, "stopped")
  /\ UNCHANGED <<config, boot, balancers, history, answer, consul,
                 outside>>

-----------------------------------------------------------------------------
(* External: Consul, the servers, the operator. *)
Happens == boot = "running" /\ events < MaxEvents /\ events' = events + 1

RegistryChanges ==
  /\ Happens
  /\ registry' \in Registries \ {registry} /\ version' = version + 1
  /\ UNCHANGED <<config, boot, balancers, history, task, answer, up, alive, stopping>>

ConsulGoes ==
  /\ Happens /\ up' = ~up
  /\ UNCHANGED <<config, boot, balancers, history, task, answer, registry, version, alive, stopping>>

ServerGoes(b) ==
  /\ Happens
  /\ alive' = IF b \in alive THEN alive \ {b} ELSE alive \cup {b}
  /\ UNCHANGED <<config, boot, balancers, history, task, answer, consul, stopping>>

Shutdown ==
  /\ Happens /\ ~stopping /\ stopping' = TRUE
  /\ UNCHANGED <<config, boot, balancers, history, task, answer, consul, alive>>

-----------------------------------------------------------------------------
Serve(c, s) ==
  Register(c, s) \/ GetServiceNodes(c, s) \/ Update(c, s) \/ Stop(c, s)

Next ==
  \/ Boot
  \/ \E c \in Clusters : \/ Wake(c)
                         \/ \E s \in Services : Serve(c, s)
                         \/ \E b \in Backends : Probe(c, b)
  \/ RegistryChanges \/ ConsulGoes \/ Shutdown \/ \E b \in Backends : ServerGoes(b)

Spec == Init /\ [][Next]_vars

(* The runtime polls every service, and a call to Consul returns. *)
AnyConfig == UNION { DOMAIN k : k \in Configs }

FairSpec ==
  /\ Spec /\ WF_vars(Boot)
  /\ \A c \in AnyConfig :
       /\ WF_vars(c \in Clusters /\ Wake(c))
       /\ \A s \in Services : WF_vars(c \in Clusters /\ Serve(c, s))
       /\ \A b \in Backends : WF_vars(c \in Clusters /\ Probe(c, b))
=============================================================================
