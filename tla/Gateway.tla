------------------------------- MODULE Gateway -------------------------------
(***************************************************************************)
(* Requests through the gateway of the glaive crate: the filter            *)
(* (proxy.rs, path.rs, limiter.rs, auth.rs), the response cache (cache.rs) *)
(* and the attempts to reach an upstream server.  pingora runs the         *)
(* requests concurrently and calls the gateway's hooks; a hook is one step *)
(* unless it touches what requests share more than once.  What pingora     *)
(* decides between two hooks is marked external.                           *)
(***************************************************************************)
EXTENDS GatewayAccess, ResponseCache

CONSTANTS
  MaxRequests,  \* bound: of the requests that arrive
  InFlight,     \* bound: of those that are under way at once
  Inputs,       \* what a request may be: [path, query, method, address, creds]
  MaxTime,      \* bound: the clock stops there
  MaxBody       \* bound: the longest body of a response, in units

(* Limits and retries are numbers; a header is one of those above. *)
ASSUME GatewayAssumption ==
  /\ {MaxRequests, InFlight, MaxTime, MaxBody, MaxFileSize, CacheTtl} \subseteq Nat
  /\ \A c \in DOMAIN Clusters :
       /\ {Clusters[c].global, Clusters[c].client} \subseteq Nat \cup {None}
       /\ Clusters[c].retry \in Nat
  /\ \A q \in Inputs :
       /\ q.creds = [is |-> q.creds.is, of |-> q.creds.of, text |-> q.creds.text]
       /\ q.creds.is \in {"absent", "garbled", "key", "token", "forged"}
       /\ q.creds.is \in {"absent", "garbled"} => q.creds.text = None

VARIABLES
  now,          \* the clock that freshness is measured with
  counted,      \* RATE_LIMITER: requests of the window, by identity
  req,          \* each request, with the fields of RouterCtx
  tried,        \* history: the requests that met a limit in this window, and
                \*   whether they passed
  purged        \* history: responses whose objects lookups purged, the one a
                \*   lookup had found expired and the one that was there

Requests == 1..MaxRequests   \* numbered as they arrive

limits == <<counted, tried>>
vars   == <<now, cache, req, limits, purged>>

(* new_ctx, and what pingora keeps of a request: how far it is, its head, its
   cache phase ("off" while the cache is not enabled), the objects of its hit
   and its miss handler, the upstream's response, how much of it came. *)
NewRequest ==
  [stage |-> "new", input |-> None, cluster |-> None, proxy_retry |-> 0,
   phase |-> "off", hit |-> None, miss |-> None, response |-> None, got |-> 0]

(* A request ends, and its context is dropped. *)
Gone(r, end) == req' = [req EXCEPT ![r] = [NewRequest EXCEPT !.stage = end]]

Ended(r) == req[r].stage \in {"refused", "served", "relayed", "failed", "aborted"}

Identities == { Clusters[c].name : c \in DOMAIN Clusters }
                \cup { ClientIdentity(q) : q \in Inputs }

Init ==
  /\ now = 0
  /\ cache = [k \in {} |-> None]
  /\ req = [r \in Requests |-> NewRequest]
  /\ counted = [i \in Identities |-> 0]
  /\ tried = {}
  /\ purged = {}

Config(r) == Clusters[req[r].cluster]

(* Mutant: the key is made of the rewritten uri. *)
CacheKeyRewritten(r) ==
  [name |-> Config(r).name, path |-> Tail(req[r].input.path), query |-> None]

(* cache_key_callback: the cluster's name and uri_origin, which request_filter
   takes from the request before the prefix is cut off. *)
CacheKey(r) ==
  [name |-> Config(r).name,
   path |-> req[r].input.path, query |-> req[r].input.query]

-----------------------------------------------------------------------------
(* A cluster's two limits, "global" and "client", and the identity each counts a
   request by.  One RATE_LIMITER counts for both, and for every cluster: it has
   one counter for an identity, whatever that names. *)
Limit(by, c) == IF by = "global" THEN Clusters[c].global ELSE Clusters[c].client

Identity(by, c, q) == IF by = "global" THEN Clusters[c].name ELSE ClientIdentity(q)

Counts(by, c, q) == Limit(by, c) # None /\ Identity(by, c, q) # None

(* Mutant: the count is compared before it includes this request. *)
OverLate(by, c, q) ==
  Counts(by, c, q) /\ counted[Identity(by, c, q)] > Limit(by, c)

(* Mutant: a limit is reached by as many requests as it has. *)
OverEarly(by, c, q) ==
  Counts(by, c, q) /\ counted[Identity(by, c, q)] + 1 >= Limit(by, c)

(* global_limiter, client_limiter: over the limit with this request.  One that
   is not counted passes; one that is refused was counted. *)
Over(by, c, q) ==
  Counts(by, c, q) /\ counted[Identity(by, c, q)] + 1 > Limit(by, c)

Observe(by, r, c, q) ==
  /\ counted' = IF Counts(by, c, q)
                THEN [counted EXCEPT ![Identity(by, c, q)] = @ + 1] ELSE counted
  /\ tried' = IF Limit(by, c) = None THEN tried
              ELSE tried \cup {[by |-> by, request |-> r, cluster |-> c,
                                input |-> q, passed |-> ~Over(by, c, q)]}

(* request_filter, up to the global limiter: the cluster, the address, the
   first count. *)
RequestFilter(r, q) ==
  /\ req[r].stage = "new" /\ \A s \in 1..(r - 1) : req[s].stage # "new"
  /\ Cardinality({ s \in 1..(r - 1) : ~Ended(s) }) < InFlight
  /\ \/ SelectCluster(q.path) = {} /\ Gone(r, "refused") /\ UNCHANGED limits
     \/ \E c \in SelectCluster(q.path) :
          IF Refuses(IpRestriction(c, q.address))
          THEN Gone(r, "refused") /\ UNCHANGED limits
          ELSE /\ Observe("global", r, c, q)
               /\ IF Over("global", c, q) THEN Gone(r, "refused")
                  ELSE req' = [req EXCEPT ![r].stage = "limited",
                                          ![r].input = q, ![r].cluster = c]
  /\ UNCHANGED <<now, cache, purged>>

(* request_cache_filter: only GET, and only if the cluster has a storage. *)
CacheEnabled(r) == req[r].input.method = "GET" /\ Config(r).caching

(* request_filter, from the client limiter on: the second count, and who the
   client is. *)
ClientFilter(r) ==
  LET c == req[r].cluster
      q == req[r].input
  IN  /\ req[r].stage = "limited"
      /\ Observe("client", r, c, q)
      /\ IF Over("client", c, q) \/ Refuses(Authenticate(c, q.creds))
         THEN Gone(r, "refused")
         ELSE req' = [req EXCEPT ![r].stage = IF CacheEnabled(r) THEN "lookup"
                                              ELSE "connect"]
      /\ UNCHANGED <<now, cache, purged>>

-----------------------------------------------------------------------------
(* lookup finds nothing. *)
Miss(r) ==
  /\ req[r].stage = "lookup" /\ ~Stored(CacheKey(r))
  /\ req' = [req EXCEPT ![r].stage = "connect", ![r].phase = "miss"]
  /\ UNCHANGED <<now, cache, limits, purged>>

(* lookup clones an object and looks at the clock ... *)
Lookup(r) ==
  /\ req[r].stage = "lookup" /\ Stored(CacheKey(r))
  /\ LET object == cache[CacheKey(r)] IN
       req' = [req EXCEPT
                 ![r].hit = object,
                 ![r].stage = IF Expired(object, now) THEN "purge" ELSE "judge"]
  /\ UNCHANGED <<now, cache, limits, purged>>

(* ... and purges the one that has expired. *)
PurgeExpired(r) ==
  /\ req[r].stage = "purge"
  /\ Purge(CacheKey(r))
  /\ purged' = purged \cup {req[r].hit.body.of}
                 \cup { cache[k].body.of : k \in {CacheKey(r)} \cap DOMAIN cache }
  /\ req' = [req EXCEPT ![r].stage = "judge"]
  /\ UNCHANGED <<now, limits>>

(* External: what lookup returned is served if it is fresh by now. *)
Judge(r) ==
  /\ req[r].stage = "judge"
  /\ req' = IF Expired(req[r].hit, now)
              THEN [req EXCEPT ![r].stage = "connect", ![r].phase = "expired"]
              ELSE [req EXCEPT ![r].stage = "served", ![r].phase = "hit"]
  /\ UNCHANGED <<now, cache, limits, purged>>

-----------------------------------------------------------------------------
(* upstream_peer: select(...).unwrap() on a cluster none of whose backends is
   healthy panics, and the request's task dies. *)
NoPeer(r) ==
  /\ req[r].stage = "connect"
  /\ Gone(r, "aborted")
  /\ UNCHANGED <<now, cache, limits, purged>>

(* Mutant: a failure starts the request over, and is not counted. *)
FailToConnectAnew(r) ==
  /\ req[r].stage = "connect"
  /\ IF req[r].proxy_retry > Config(r).retry
       THEN Gone(r, "failed")
       ELSE req' = [req EXCEPT ![r].stage = IF CacheEnabled(r) THEN "lookup" ELSE @]
  /\ UNCHANGED <<now, cache, limits, purged>>

(* fail_to_connect: pingora tries again if the error may be retried. *)
FailToConnect(r) ==
  /\ req[r].stage = "connect"
  /\ IF req[r].proxy_retry > Config(r).retry
       THEN Gone(r, "failed")
       ELSE req' = [req EXCEPT ![r].proxy_retry = @ + 1]
  /\ UNCHANGED <<now, cache, limits, purged>>

(* The upstream answers, with a body of n units; if the response may be cached
   it gets a miss handler.  (A body that is not cached touches nothing that is
   shared: its length is abstracted to 0.) *)
ResponseTo(r, n) ==
  [to |-> r, cluster |-> req[r].cluster, path |-> req[r].input.path,
   query |-> req[r].input.query, size |-> n]

Respond(r, n) ==
  /\ req[r].stage = "connect" /\ (req[r].phase = "off" => n = 0)
  /\ req' = [req EXCEPT ![r].stage = "relay", ![r].hit = None,
                        ![r].response = ResponseTo(r, n),
                        ![r].miss = IF req[r].phase = "off" THEN None
                                    ELSE NewMissHandler(ResponseTo(r, n), now)]
  /\ UNCHANGED <<now, cache, limits, purged>>

(* Mutant: the header of the 304 itself is kept. *)
RevalidateAnew(r) ==
  /\ req[r].stage = "connect" /\ req[r].phase = "expired"
  /\ UpdateMeta(CacheKey(r), MetaOf(ResponseTo(r, 0), now))
  /\ req' = [req EXCEPT ![r].stage = "served", ![r].phase = "revalidated"]
  /\ UNCHANGED <<now, limits, purged>>

(* 304: the expired object is good again.  Its meta is stored, if there is an
   object, and its body is what the client gets. *)
Revalidate(r) ==
  /\ req[r].stage = "connect" /\ req[r].phase = "expired"
  /\ UpdateMeta(CacheKey(r), MetaOf(req[r].hit.meta.of, now))
  /\ req' = [req EXCEPT ![r].stage = "served", ![r].phase = "revalidated"]
  /\ UNCHANGED <<now, limits, purged>>

(* One unit of the body comes; a miss handler whose body grows too large is
   dropped, the response goes on. *)
WriteBody(r) ==
  /\ req[r].stage = "relay" /\ req[r].got < req[r].response.size
  /\ req' = [req EXCEPT ![r].got = @ + 1,
                        ![r].miss = IF @ = None \/ TooLarge(@) THEN None
                                    ELSE WithPiece(@)]
  /\ UNCHANGED <<now, cache, limits, purged>>

(* The upstream dies within the body: the miss handler is dropped. *)
UpstreamDies(r) ==
  /\ req[r].stage = "relay" /\ req[r].got < req[r].response.size
  /\ Gone(r, "aborted")
  /\ UNCHANGED <<now, cache, limits, purged>>

(* Mutant: what has come of the body will do. *)
FinishEarly(r) ==
  /\ req[r].stage = "relay"
  /\ IF req[r].miss = None THEN UNCHANGED cache
     ELSE FinishObject(CacheKey(r), req[r].miss)
  /\ Gone(r, "relayed")
  /\ UNCHANGED <<now, limits, purged>>

(* The body is complete: the miss handler is finished. *)
Finish(r) ==
  /\ req[r].stage = "relay" /\ req[r].got = req[r].response.size
  /\ IF req[r].miss = None THEN UNCHANGED cache
     ELSE FinishObject(CacheKey(r), req[r].miss)
  /\ Gone(r, "relayed")
  /\ UNCHANGED <<now, limits, purged>>

-----------------------------------------------------------------------------
(* A unit of time passes, and with it what a ttl or a window of the limiters
   lasts: nothing relates the two. *)
Tick ==
  /\ now < MaxTime /\ now' = now + 1
  /\ counted' = [i \in Identities |-> 0]
  /\ tried' = {}
  /\ UNCHANGED <<cache, req, purged>>

Proceed(r) ==
  \/ ClientFilter(r)
  \/ Miss(r) \/ Lookup(r) \/ PurgeExpired(r) \/ Judge(r)
  \/ NoPeer(r) \/ FailToConnect(r) \/ Revalidate(r)
  \/ \E n \in 0..MaxBody : Respond(r, n)
  \/ WriteBody(r) \/ UpstreamDies(r) \/ Finish(r)

Next ==
  \/ \E r \in Requests : Proceed(r) \/ \E q \in Inputs : RequestFilter(r, q)
  \/ Tick

Spec == Init /\ [][Next]_vars

(* The runtime polls tasks that can go on.  (It polls every one of them; but a
   request needs finitely many steps, so that the weaker assumption will do.) *)
FairSpec == Spec /\ WF_vars(\E r \in Requests : Proceed(r))
=============================================================================
