---------------------------- MODULE ClusterConfig ----------------------------
(***************************************************************************)
(* The clusters section of the configuration and what build_cluster        *)
(* (cluster.rs) makes of it.  An absent entry is None.  A prefix is kept   *)
(* as the segments between its slashes, and whether it starts and ends     *)
(* with one; the other mandatory entries (name, host, tls) as whether they *)
(* are all there.  An upstream server is its address as it is written.     *)
(***************************************************************************)
EXTENDS Naturals, Sequences

CONSTANT None     \* an optional entry that is not there

Prefix(Segment) ==
  { p \in [starts : BOOLEAN, segments : Seq(Segment), ends : BOOLEAN] :
      p.segments = <<>> => p.starts = p.ends }

(* Mutant: only neighbours are compared. *)
NeighboursDuplicated(config) ==
  \E i \in DOMAIN config : i + 1 \in DOMAIN config /\ config[i].prefix = config[i + 1].prefix

(* validate_duplicated_prefix *)
DuplicatedPrefix(config) ==
  \E i, j \in DOMAIN config : i < j /\ config[i].prefix = config[j].prefix

(* Mutant: a prefix may end with a slash. *)
ValidClusterTrailing(cluster) ==
  /\ cluster.identity /\ cluster.prefix # None /\ cluster.prefix.starts
  /\ cluster.upstream # {}

(* validate_cluster_config.  The loop over the optional list of servers looks
   at the list, if there is one: it must not be empty. *)
ValidCluster(cluster) ==
  /\ cluster.identity /\ cluster.prefix # None
  /\ cluster.prefix.starts /\ ~cluster.prefix.ends
  /\ cluster.upstream # {}

(* A cluster with a discovery gets its servers from there; the others unwrap
   their list and resolve every address of it. *)
Buildable(cluster, resolvable) ==
  cluster.discovery = None => cluster.upstream # None /\ cluster.upstream \subseteq resolvable

(* build_cluster panics, before anything runs. *)
Panics(config, resolvable) ==
  \/ DuplicatedPrefix(config)
  \/ \E i \in DOMAIN config : ~ValidCluster(config[i]) \/ ~Buildable(config[i], resolvable)

(* prefix_map: the segments of each cluster's prefix, by address.  A path is
   only looked up by its first segment. *)
PrefixMap(config) == [i \in DOMAIN config |-> config[i].prefix.segments]

(* What the filter of the gateway relies on: prefixes name a path, and one
   cluster each. *)
UsablePrefixes(prefixes) ==
  \A c \in DOMAIN prefixes :
    /\ prefixes[c] # <<>>
    /\ \A d \in DOMAIN prefixes : prefixes[c] = prefixes[d] => c = d
=============================================================================
