---------------------------- MODULE GatewayAccess ----------------------------
(***************************************************************************)
(* What the gateway of the glaive crate decides from a request and the     *)
(* configuration alone: the cluster of a path, and whether the client may  *)
(* pass.  A path is the sequence of its segments.  An Authorization header *)
(* is what it is for authentication, which takes any number of "Bearer "   *)
(* and the spaces off it, and the text it is for the limiters, which take  *)
(* it as it is written:                                                    *)
(*   is, of  absent, not UTF-8 ("garbled"), an API key, a token of the     *)
(*           cluster's secret that names a consumer, or one that no secret *)
(*           verifies ("forged");                                          *)
(*   text    the value of the header, or None if there is no header or one *)
(*           that is not visible ASCII.                                    *)
(* So one key has as many texts as it has spellings.                       *)
(***************************************************************************)
EXTENDS ClusterConfig, FiniteSets

CONSTANTS
  Clusters,     \* the clusters, by address: name, prefix, auth, limits, ...
  Consumers     \* the gateway's consumers, name to access list, or None

(* build_cluster ends with no other clusters (RoutesUsable, of a gateway that
   runs, in ClustersProperties).  Names need not differ. *)
ClustersAssumption ==
  UsablePrefixes([c \in DOMAIN Clusters |-> Clusters[c].prefix])

ASSUME ClustersAssumption

-----------------------------------------------------------------------------
(* Verdicts of a filter: go on, or the status of the error response. *)
Continue     == 0
Forbidden    == 403
NotFound     == 404
TooMany      == 429
BadGateway   == 502
BadRequest   == 400

Refuses(verdict) == verdict # Continue

(* select_cluster: the cluster whose prefix is the first segment. *)
SelectCluster(path) ==
  { c \in DOMAIN Clusters : path # <<>> /\ Clusters[c].prefix = <<Head(path)>> }

(* get_ip: a client whose address is not known is not restricted. *)
IpRestriction(c, address) ==
  IF /\ address # None
     /\ Clusters[c].whitelist # None /\ address \notin Clusters[c].whitelist
  THEN Forbidden ELSE Continue

(* basic_key *)
BasicKey(c, creds) ==
  CASE creds.is = "absent"  -> Forbidden
    [] creds.is = "garbled" -> BadGateway
    [] OTHER -> IF creds.is = "key" /\ creds.of \in Clusters[c].allowed
                THEN Continue ELSE Forbidden

(* Mutant: a consumer is known by the gateway's list alone. *)
ConsumerAccessUnlisted(c, name) ==
  IF Consumers = None \/ name \notin DOMAIN Consumers THEN BadGateway
  ELSE Continue

(* The access list the gateway gives a consumer must meet the one the cluster
   asks of it. *)
ConsumerAccess(c, name) ==
  LET consumers == Clusters[c].consumers
  IN  IF consumers = None THEN Continue
      ELSE IF name \notin DOMAIN consumers THEN Forbidden
      ELSE IF Consumers = None \/ name \notin DOMAIN Consumers THEN BadGateway
      ELSE IF Consumers[name] \cap consumers[name] = {} THEN Forbidden
      ELSE Continue

(* basic_jwt *)
BasicJwt(c, creds) ==
  CASE creds.is = "absent"  -> Forbidden
    [] creds.is = "garbled" -> BadRequest
    [] creds.is = "token"   -> ConsumerAccess(c, creds.of)
    [] OTHER -> Forbidden

(* get_auth: an external strategy lets every request pass. *)
Authenticate(c, creds) ==
  CASE Clusters[c].auth = "key" -> BasicKey(c, creds)
    [] Clusters[c].auth = "jwt" -> BasicJwt(c, creds)
    [] OTHER -> Continue

(* client_limiter: the identity that is counted is the text of the header, or
   else the address; a client with neither (None) is not counted. *)
ClientIdentity(q) == IF q.creds.text = None THEN q.address ELSE q.creds.text
=============================================================================
