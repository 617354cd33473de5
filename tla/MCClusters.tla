----------------------------- MODULE MCClusters -----------------------------
(* A cluster with a list of servers and one with a discovery, and the ways to
   configure them wrongly. *)
EXTENDS ClustersProperties, TLC

CONSTANTS s1, s2, localhost, host, one, two, shop, user

Path(segment) == [starts |-> TRUE, segments |-> <<segment>>, ends |-> FALSE]
Slash         == [starts |-> TRUE, segments |-> <<>>, ends |-> TRUE]
Trailing(segment) == [Path(segment) EXCEPT !.ends = TRUE]
Relative(segment) == [Path(segment) EXCEPT !.starts = FALSE]

Cluster(prefix, discovery, upstream) ==
  [identity |-> TRUE, prefix |-> prefix, discovery |-> discovery, upstream |-> upstream]

Consul(passing) == [name |-> shop, passing |-> passing]
Static(prefix)  == Cluster(prefix, None, {one})
Dynamic(prefix, passing) == Cluster(prefix, Consul(passing), None)

SomeConfigs ==
  { <<Static(Path(user)), Dynamic(Path(shop), p)>> : p \in BOOLEAN }
    \cup { <<Dynamic(q, FALSE)>> : q \in {None, Slash, Trailing(shop), Relative(shop)} }
    \cup { <<Static(Path(user)), Dynamic(Path(shop), TRUE), Static(q)>> :
              q \in {Path(user), Path(shop), Trailing(shop), Slash} }
    \cup { <<Cluster(Path(shop), d, u)>> : d \in {None, Consul(TRUE)}, u \in {None, {}, {host}} }
    \cup { <<[Static(Path(user)) EXCEPT !.identity = FALSE]>> }

Node(address, passing) == [address |-> address, passing |-> passing]

SomeRegistries ==
  { shop :> nodes : nodes \in
      { {}, {Node(two, TRUE)}, {Node(localhost, TRUE), Node(two, FALSE)},
        {Node(one, TRUE), Node(host, FALSE)} } }

(* localhost and one are the same address. *)
Resolved == (one :> s1) @@ (localhost :> s1) @@ (two :> s2)
=============================================================================
