-------------------------- MODULE GatewayProperties --------------------------
(***************************************************************************)
(* What the gateway owes to its clients and to the clusters behind it.     *)
(***************************************************************************)
EXTENDS Gateway

Stages == {"new", "refused", "limited", "lookup", "purge", "judge", "connect",
           "served", "relay", "relayed", "failed", "aborted"}

Response == [to : Requests, cluster : DOMAIN Clusters, size : 0..MaxBody,
             path : { q.path : q \in Inputs }, query : { q.query : q \in Inputs }]

Object == [meta : [of : Response, fresh_until : CacheTtl..(MaxTime + CacheTtl)],
           body : [of : Response, len : 0..MaxFileSize]]

Request ==
  [stage : Stages, input : Inputs \cup {None},
   cluster : DOMAIN Clusters \cup {None}, proxy_retry : Nat,
   phase : {"off", "miss", "hit", "expired", "revalidated"},
   hit : Object \cup {None}, miss : Object \cup {None},
   response : Response \cup {None}, got : 0..MaxBody]

Try == [by : {"global", "client"}, request : Requests, cluster : DOMAIN Clusters,
        input : Inputs, passed : BOOLEAN]

(* The cache holds objects, requests what their stage knows, and none has been
   retried more often than its cluster's number and one more. *)
TypeOK ==
  /\ now \in 0..MaxTime
  /\ \A k \in DOMAIN cache : cache[k] \in Object
  /\ counted \in [Identities -> Nat] /\ tried \subseteq Try
  /\ req \in [Requests -> Request] /\ purged \subseteq Response
  /\ \A r \in Requests : req[r].cluster \in DOMAIN Clusters =>
       req[r].proxy_retry <= Config(r).retry + 1

-----------------------------------------------------------------------------
(* A request that reaches an upstream server, or the cache that others filled,
   is one its cluster's configuration lets pass: from an address of its list, if
   the address is known, with one of its keys, however it is spelled, or with a
   token of a consumer that both lists give an access in common. *)
MayPass(q, config) ==
  /\ config.whitelist = None \/ q.address \in {None} \cup config.whitelist
  /\ config.auth = "key" => q.creds.is = "key" /\ q.creds.of \in config.allowed
  /\ config.auth = "jwt" => q.creds.is = "token"
  /\ config.auth = "jwt" /\ config.consumers # None =>
       /\ Consumers # None
       /\ \E a \in UNION { Consumers[n] : n \in DOMAIN Consumers } :
            \A list \in {Consumers, config.consumers} :
              q.creds.of \in DOMAIN list /\ a \in list[q.creds.of]

OnlyAllowedPass ==
  \A r \in Requests :
    req[r].stage \in {"lookup", "connect", "relay", "served"} =>
      MayPass(req[r].input, Config(r))

(* What met limits: the identity it was counted by, all that met this identity's
   counter, and what of that met the same limit of the same cluster. *)
IdentityOf(t) == Identity(t.by, t.cluster, t.input)

Counter(t) == { u \in tried : IdentityOf(u) = IdentityOf(t) }

Own(t) == { u \in Counter(t) : u.by = t.by /\ u.cluster = t.cluster }

(* Whose a request is: of the holder of the credential, where the cluster asks
   for one, and of its address elsewhere. *)
Holder(t) ==
  LET creds == t.input.creds
  IN  IF Clusters[t.cluster].auth \in {"key", "jwt"} /\ creds.is \notin {"absent", "garbled"}
      THEN <<creds.is, creds.of>> ELSE <<"address", t.input.address>>

Holders(t) == { u \in tried : /\ u.by = "client" /\ u.cluster = t.cluster
                              /\ u.passed /\ Holder(u) = Holder(t) }

(* However requests interleave, a limiter lets no more of them pass within one
   window than its limit: no more under one identity, and no more of one client
   of a cluster.  The exceptions: a client with neither header nor address is not
   counted; and one that comes under several identities, a key in several
   spellings ("k", "Bearer k"), or an address with headers that a public cluster
   never asked for, gets its limit under each. *)
LimitsHold ==
  \A t \in tried : t.passed =>
    LET limit == Limit(t.by, t.cluster)
    IN  /\ IdentityOf(t) # None => Cardinality({ u \in Own(t) : u.passed }) <= limit
        /\ t.by = "client" =>
             \/ Cardinality(Holders(t)) <= limit
             \/ IdentityOf(t) = None
             \/ \E u \in Holders(t) : IdentityOf(u) # IdentityOf(t)

(* A limiter refuses a request only if more than its limit came within the
   window.  The exception: one RATE_LIMITER counts for every cluster and for both
   limits, so that what came to another of them under the same identity may have
   spent what this one grants. *)
RefusedForCause ==
  \A t \in tried : ~t.passed =>
    LET limit == Limit(t.by, t.cluster)
    IN  \/ Cardinality(Own(t)) > limit
        \/ Own(t) # Counter(t) /\ Cardinality(Counter(t)) > limit

-----------------------------------------------------------------------------
(* Whatever fails, overlaps or is purged meanwhile, a body in the cache, or in
   a hit handler, is all of one response, and neither empty nor too large. *)
Held == { cache[k] : k \in DOMAIN cache }
          \cup { req[r].hit : r \in { s \in Requests : req[s].hit # None } }

StoredIsWhole ==
  \A o \in Held : o.body.len = o.body.of.size /\ o.body.len \in 1..MaxFileSize

(* A client served from the cache gets what the upstream sent for the same uri
   of the same cluster, as the client wrote it. *)
HitAnswersItsUri ==
  \A r \in Requests : req[r].stage = "served" =>
    req[r].hit.body.of \in
      [to : Requests, cluster : {req[r].cluster}, size : Nat,
       path : {req[r].input.path}, query : {req[r].input.query}]

(* An object that a lookup purged never comes back: neither the update of its
   meta after a revalidation nor a late writer revives it. *)
PurgedIsGone == \A k \in DOMAIN cache : cache[k].body.of \notin purged

(* What is served as the meta of a response (its header, and how long it is
   fresh) is that of its body.  The exception: a revalidation stores its meta by
   key, and if the object it is about was purged, by itself or another lookup, a
   writer may have stored a new one there. *)
MetaIsOwn ==
  \A o \in Held : o.meta.of = o.body.of \/ o.meta.of \in purged

(* An object that is still fresh is lost from the cache only in a race: the
   lookup that purges its key had seen another object there, which was purged
   meanwhile, or the same one before it was revalidated. *)
FreshIsLostInRace ==
  [][\A k \in DOMAIN cache \ DOMAIN cache' :
       \/ Expired(cache[k], now)
       \/ \E r \in Requests :
            /\ req[r].stage = "purge" /\ req'[r].stage # "purge" /\ CacheKey(r) = k
            /\ \/ req[r].hit.body.of \in purged
               \/ req[r].hit.body = cache[k].body /\ req[r].hit.meta # cache[k].meta
    ]_vars

(* A request that entered the gateway ends, however often connections fail. *)
RequestsEnd == \A r \in Requests : req[r].stage # "new" ~> Ended(r)
=============================================================================
