------------------------- MODULE ClustersProperties -------------------------
(***************************************************************************)
(* What the gateway's requests rely on of its clusters.                    *)
(***************************************************************************)
EXTENDS Clusters

Nodes == UNION { UNION { r[n] : n \in DOMAIN r } : r \in Registries }

(* Every cluster and service holds what it should hold; health is kept of
   backends only. *)
TypeOK ==
  /\ config \in Configs /\ boot \in {"starting", "running", "panicked"}
  /\ {backends, healthy} \subseteq [Clusters -> SUBSET Backends]
  /\ \A c \in Clusters : healthy[c] \subseteq backends[c]
  /\ task \in [Clusters -> [Services ->
       {"none", "starting", "registered", "answered", "sleeping", "checking", "dead",
        "stopped"}]]
  /\ answer \in [Clusters -> [Services ->
       [nodes : SUBSET Nodes, version : 0..version]]]
  /\ registry \in Registries /\ version \in 1..(MaxEvents + 1) /\ up \in BOOLEAN
  /\ alive \subseteq Backends /\ stopping \in BOOLEAN /\ events \in 0..MaxEvents
  /\ seen \in [Clusters -> 0..version] /\ setbacks \in [Clusters -> Nat]

(* However a configuration is written, a gateway that runs with it finds at most
   one cluster for a path, and finds none by the empty one: the filter of the
   gateway relies on it (ClustersAssumption in GatewayAccess). *)
RoutesUsable == boot = "running" => UsablePrefixes(PrefixMap(config))

(* The first update by pingora's service and the rounds of the updater may
   overlap, and answers of Consul be applied in another order than it gave them.
   That sets a cluster back once, never again. *)
SetBackOnce == \A c \in Clusters : setbacks[c] <= 1

-----------------------------------------------------------------------------
Ended(c, s) == task[c][s] \in {"none", "dead", "stopped"}

(* When Consul does not change any more the backends of a cluster become the
   nodes it lists, whatever answers crossed before, unless the updater has met
   an error of Consul, or an address it cannot read, or a shutdown, and is gone
   for good. *)
BackendsConverge ==
  \A c \in AnyConfig :
    <>[](c \in Discovered /\ boot = "running" =>
           \/ Ended(c, "updater")
           \/ Legal(Listed(c)) /\ backends[c] = Addresses(Listed(c)))

(* A server that stays down is no longer chosen, though every update may name it
   again, unless the health checks of its cluster ended with an error of Consul
   at the start. *)
DownIsAvoided ==
  \A c \in AnyConfig :
    <>[](c \in Clusters /\ boot = "running" =>
           Ended(c, "checker") \/ healthy[c] \subseteq alive)
=============================================================================
