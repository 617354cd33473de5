---------------------------- MODULE GatewayProofs ----------------------------
(***************************************************************************)
(* What GatewayProperties states as invariants, proved for every set of    *)
(* clusters, inputs and bounds: the inductive invariant ties what a        *)
(* request holds to the cache it was taken from, and what met the          *)
(* limiters to what they counted.                                          *)
(***************************************************************************)
EXTENDS GatewayProperties, TLAPS, FiniteSetTheorems

Admitted == {"limited", "lookup", "purge", "judge", "connect", "relay", "served"}

(* The stages at which a request holds an object of the cache. *)
HasHit(r) ==
  \/ req[r].stage \in {"purge", "judge", "served"}
  \/ req[r].stage = "connect" /\ req[r].phase = "expired"

KeyOf(x) == [name |-> Clusters[x.cluster].name, path |-> x.path, query |-> x.query]

(* An object that the cache held: finished, and with its own meta. *)
Whole(o) ==
  /\ o \in Object
  /\ o.body.of.cluster \in SelectCluster(o.body.of.path)
  /\ o.body.len = o.body.of.size /\ o.body.len \in 1..MaxFileSize
  /\ req[o.body.of.to].stage = "relayed"
  /\ o.meta.of = o.body.of \/ o.meta.of \in purged

-----------------------------------------------------------------------------
(* What the stage of a request says of its other fields. *)
StageInv(r) ==
  /\ req[r].stage # "relay" => req[r].got = 0 /\ req[r].miss = None
  /\ req[r].stage \in {"new", "limited"} => req[r].proxy_retry = 0 /\ req[r].phase = "off"
  /\ req[r].hit # None => HasHit(r)

(* A request goes on only with a cluster, and past its filters. *)
AdmittedInv(r) ==
  req[r].stage \in Admitted =>
    /\ req[r].input \in Inputs
    /\ req[r].cluster \in SelectCluster(req[r].input.path)
    /\ IpRestriction(req[r].cluster, req[r].input.address) = Continue
    /\ req[r].stage # "limited" =>
         Authenticate(req[r].cluster, req[r].input.creds) = Continue

(* A miss handler holds what has come of the response. *)
MissInv(r) ==
  req[r].stage = "relay" =>
    /\ req[r].response \in Response
    /\ req[r].response = ResponseTo(r, req[r].response.size)
    /\ req[r].got <= req[r].response.size
    /\ req[r].miss # None =>
         /\ req[r].miss.meta.of = req[r].response
         /\ req[r].miss.body.of = req[r].response
         /\ req[r].miss.body.len = req[r].got

(* A hit is of the request's key; its body is the stored one until it is
   purged. *)
HitInv(r) ==
  HasHit(r) =>
    /\ Whole(req[r].hit)
    /\ KeyOf(req[r].hit.body.of) = CacheKey(r)
    /\ \/ req[r].hit.body.of \in purged
       \/ Stored(CacheKey(r)) /\ cache[CacheKey(r)].body = req[r].hit.body
    /\ req[r].stage = "purge" => Expired(req[r].hit, now)

RequestInv(r) == StageInv(r) /\ AdmittedInv(r) /\ MissInv(r) /\ HitInv(r)

CacheInv ==
  /\ cache = [k \in DOMAIN cache |-> cache[k]]
  /\ \A k \in DOMAIN cache :
       Whole(cache[k]) /\ k = KeyOf(cache[k].body.of) /\ cache[k].body.of \notin purged

PurgedInv == \A x \in purged : req[x.to].stage = "relayed"

(* What was counted under an identity, and what of that passed one limit. *)
CounterOf(i) == { t \in tried : IdentityOf(t) = i }
PassedOf(by, c, i) == { t \in CounterOf(i) : t.by = by /\ t.cluster = c /\ t.passed }

(* The limiters count what met them, exactly; what one refused was one too many
   for its counter, and what passed it never is. *)
LimitInv ==
  /\ IsFiniteSet(tried)
  /\ \A i \in Identities \ {None} : counted[i] = Cardinality(CounterOf(i))
  /\ \A t \in tried :
       /\ Limit(t.by, t.cluster) # None
       /\ ~t.passed => /\ IdentityOf(t) # None
                       /\ Cardinality(CounterOf(IdentityOf(t))) > Limit(t.by, t.cluster)
  /\ \A by \in {"global", "client"}, c \in DOMAIN Clusters, i \in Identities \ {None} :
       Limit(by, c) # None => Cardinality(PassedOf(by, c, i)) <= Limit(by, c)

(* A request has met the limits of its filters, and no others, once. *)
MetInv ==
  \A t \in tried : /\ req[t.request].stage # "new"
                   /\ t.by = "client" => req[t.request].stage # "limited"

IInv ==
  /\ TypeOK
  /\ \A r \in Requests : RequestInv(r)
  /\ CacheInv /\ PurgedInv
  /\ LimitInv /\ MetInv

-----------------------------------------------------------------------------
(* What a step of one request may do to what the others hold: requests that
   are relayed stay so, and an object leaves the cache only as purged. *)
Progressing ==
  /\ \A x \in Requests : req[x].stage = "relayed" => req'[x].stage = "relayed"
  /\ purged \subseteq purged' /\ purged' \subseteq Response
  /\ now \in Nat /\ now' \in Nat /\ now <= now'
  /\ \A k \in DOMAIN cache :
       \/ cache[k].body.of \in purged'
       \/ k \in DOMAIN cache' /\ cache'[k].body = cache[k].body

LEMMA WholeStays ==
  ASSUME NEW o, Whole(o), Progressing
  PROVE  Whole(o)'
<1>1. o.body.of.to \in Requests
  BY DEF Whole, Object, Response
<1> QED
  BY <1>1 DEF Whole, Progressing

(* A request that does not move keeps its invariant. *)
LEMMA OthersKeep ==
  ASSUME NEW s \in Requests, RequestInv(s), Progressing, req'[s] = req[s]
  PROVE  RequestInv(s)'
<1>1. StageInv(s)'
  BY DEF RequestInv, StageInv, HasHit
<1>2. AdmittedInv(s)'
  BY DEF RequestInv, AdmittedInv
<1>3. MissInv(s)'
  BY DEF RequestInv, MissInv, ResponseTo
<1>4. ASSUME HasHit(s)' PROVE HitInv(s)'
  <2>1. HasHit(s) /\ HitInv(s) /\ CacheKey(s)' = CacheKey(s)
    BY <1>4 DEF HasHit, RequestInv, CacheKey, Config
  <2>2. Whole(req[s].hit)' 
    BY <2>1, WholeStays DEF HitInv
  <2>3. \/ req[s].hit.body.of \in purged'
        \/ CacheKey(s) \in DOMAIN cache' /\ cache'[CacheKey(s)].body = req[s].hit.body
    BY <2>1 DEF HitInv, Stored, Progressing
  <2>4. req[s].stage = "purge" => Expired(req[s].hit, now')
    <3>1. HasHit(s) => req[s].hit.meta.fresh_until \in Nat
      BY <2>1, GatewayAssumption
      DEF HitInv, Whole, Object, GatewayAssumption
    <3> QED
      BY <2>1, <3>1 DEF HitInv, Expired, Progressing
  <2> QED
    BY <2>1, <2>2, <2>3, <2>4 DEF HitInv, Stored, Expired
<1> QED
  BY <1>1, <1>2, <1>3, <1>4 DEF RequestInv, HitInv

-----------------------------------------------------------------------------
(* A step of one request keeps the invariant if it keeps that request's, and
   what it changes of the rest. *)
LEMMA RequestStep ==
  ASSUME IInv, NEW r \in Requests, Progressing,
         req' \in [Requests -> Request],
         \A s \in Requests \ {r} : req'[s] = req[s],
         req'[r].cluster \in DOMAIN Clusters =>
           req'[r].proxy_retry <= Clusters[req'[r].cluster].retry + 1,
         RequestInv(r)', CacheInv', PurgedInv', LimitInv', MetInv',
         now' = now, counted' \in [Identities -> Nat], tried' \subseteq Try
  PROVE  IInv'
<1>1. \A s \in Requests : RequestInv(s)'
  BY OthersKeep DEF IInv
<1>2. \A s \in Requests : req'[s].cluster \in DOMAIN Clusters =>
        req'[s].proxy_retry <= Clusters[req'[s].cluster].retry + 1
  BY DEF IInv, TypeOK, Config
<1>3. TypeOK'
  BY <1>2 DEF IInv, TypeOK, CacheInv, Whole, Config, Progressing
<1> QED
  BY <1>1, <1>3 DEF IInv

(* A step that leaves the cache alone, of a request that was not relayed. *)
LEMMA FilterStep ==
  ASSUME IInv, NEW r \in Requests, UNCHANGED <<now, cache, purged>>,
         req[r].stage # "relayed",
         req' \in [Requests -> Request],
         \A s \in Requests \ {r} : req'[s] = req[s],
         req'[r].cluster \in DOMAIN Clusters =>
           req'[r].proxy_retry <= Clusters[req'[r].cluster].retry + 1,
         Progressing => RequestInv(r)', LimitInv', MetInv',
         counted' \in [Identities -> Nat], tried' \subseteq Try
  PROVE  IInv'
<1>1. Progressing
  BY DEF IInv, TypeOK, Progressing
<1>2. CacheInv'
  BY <1>1, WholeStays DEF IInv, CacheInv
<1>3. PurgedInv'
  BY <1>1 DEF IInv, TypeOK, PurgedInv, Progressing, Response
<1> QED
  BY <1>1, <1>2, <1>3, RequestStep

(* What a step that does not count leaves alone. *)
LEMMA LimitsStay ==
  ASSUME IInv, UNCHANGED limits
  PROVE  LimitInv' /\ counted' \in [Identities -> Nat] /\ tried' \subseteq Try
BY DEF IInv, TypeOK, LimitInv, limits, CounterOf, PassedOf

(* A request that does not meet its limits again. *)
LEMMA MetStays ==
  ASSUME IInv, NEW r \in Requests, UNCHANGED limits,
         req'[r].stage \notin {"new", "limited"},
         \A s \in Requests \ {r} : req'[s] = req[s]
  PROVE  MetInv'
BY DEF IInv, TypeOK, MetInv, Try, limits

(* A step that changes nothing but one request. *)
LEMMA QuietStep ==
  ASSUME IInv, NEW r \in Requests, UNCHANGED <<now, cache, limits, purged>>,
         req[r].stage # "relayed", req'[r].stage \notin {"new", "limited"},
         req' \in [Requests -> Request],
         \A s \in Requests \ {r} : req'[s] = req[s],
         req'[r].cluster \in DOMAIN Clusters =>
           req'[r].proxy_retry <= Clusters[req'[r].cluster].retry + 1,
         Progressing => RequestInv(r)'
  PROVE  IInv'
BY LimitsStay, MetStays, FilterStep

(* Nothing is asked of a request that is gone. *)
LEMMA GoneStep ==
  ASSUME IInv, NEW r \in Requests,
         NEW end \in {"refused", "relayed", "failed", "aborted"}, Gone(r, end)
  PROVE  /\ req' \in [Requests -> Request]
         /\ \A s \in Requests \ {r} : req'[s] = req[s]
         /\ req'[r].stage = end
         /\ RequestInv(r)'
         /\ req'[r].proxy_retry = 0
<1>1. NewRequest \in Request /\ [NewRequest EXCEPT !.stage = end] \in Request
  BY GatewayAssumption DEF GatewayAssumption, NewRequest, Request, Stages
<1>2. req' = [req EXCEPT ![r] = [NewRequest EXCEPT !.stage = end]]
  BY DEF Gone
<1>3. req' \in [Requests -> Request] /\ req'[r] = [NewRequest EXCEPT !.stage = end]
  BY <1>1, <1>2 DEF IInv, TypeOK
<1>4. /\ req'[r].stage = end /\ req'[r].got = 0 /\ req'[r].miss = None
      /\ req'[r].hit = None /\ req'[r].proxy_retry = 0
  BY <1>3 DEF NewRequest
<1>5. RequestInv(r)'
  BY <1>4 DEF RequestInv, StageInv, AdmittedInv, MissInv, HitInv, HasHit, Admitted
<1> QED
  BY <1>2, <1>3, <1>4, <1>5

-----------------------------------------------------------------------------
(* What a request that goes on has. *)
LEMMA AdmittedHas ==
  ASSUME IInv, NEW r \in Requests, req[r].stage \in Admitted
  PROVE  /\ req[r].input \in Inputs
         /\ req[r].cluster \in DOMAIN Clusters
         /\ req[r].proxy_retry <= Config(r).retry + 1
         /\ req[r].proxy_retry \in Nat /\ Config(r).retry \in Nat
BY GatewayAssumption
DEF GatewayAssumption, IInv, TypeOK, RequestInv, AdmittedInv, SelectCluster, Config, Request

LEMMA HitHas ==
  ASSUME IInv, NEW r \in Requests, req[r].hit # None \/ HasHit(r)
  PROVE  HasHit(r) /\ HitInv(r) /\ req[r].hit \in Object
BY DEF IInv, RequestInv, StageInv, HitInv, Whole

LEMMA ObjectsAreTimed ==
  ASSUME NEW o \in Object
  PROVE  /\ o.meta.fresh_until \in Nat /\ o.meta.of \in Response
         /\ o.body.of \in Response /\ o.body.of.to \in Requests
BY GatewayAssumption DEF GatewayAssumption, Object, Response

(* The request that moves, field by field. *)
LEMMA Moved ==
  ASSUME IInv, NEW r \in Requests, NEW x \in Request, req' = [req EXCEPT ![r] = x]
  PROVE  /\ req' \in [Requests -> Request] /\ req'[r] = x
         /\ \A s \in Requests \ {r} : req'[s] = req[s]
BY DEF IInv, TypeOK

LEMMA MissKeeps ==
  ASSUME IInv, NEW r \in Requests, Miss(r)
  PROVE  IInv'
<1> DEFINE x == [req[r] EXCEPT !.stage = "connect", !.phase = "miss"]
<1>1. /\ req[r].stage = "lookup" /\ UNCHANGED <<now, cache, limits, purged>>
      /\ req' = [req EXCEPT ![r] = x]
  BY DEF Miss
<1>2. req[r] \in Request
  BY DEF IInv, TypeOK
<1>3. /\ x \in Request /\ x.stage = "connect" /\ x.phase = "miss"
      /\ x.input = req[r].input /\ x.cluster = req[r].cluster /\ x.hit = req[r].hit
      /\ x.proxy_retry = req[r].proxy_retry /\ x.miss = req[r].miss /\ x.got = req[r].got
  BY <1>2 DEF Request, Stages
<1> HIDE DEF x
<1>4. /\ req' \in [Requests -> Request] /\ req'[r] = x
      /\ \A s \in Requests \ {r} : req'[s] = req[s]
  BY <1>1, <1>3, Moved
<1>5. StageInv(r)'
  BY <1>1, <1>3, <1>4 DEF IInv, RequestInv, StageInv, HasHit
<1>6. AdmittedInv(r)'
  BY <1>1, <1>3, <1>4 DEF IInv, RequestInv, AdmittedInv, Admitted
<1>7. MissInv(r)' /\ HitInv(r)'
  BY <1>3, <1>4 DEF MissInv, HitInv, HasHit
<1>8. req'[r].cluster \in DOMAIN Clusters =>
        req'[r].proxy_retry <= Clusters[req'[r].cluster].retry + 1
  BY <1>3, <1>4 DEF IInv, TypeOK, Config
<1> QED
  BY <1>1, <1>3, <1>4, <1>5, <1>6, <1>7, <1>8, QuietStep DEF RequestInv

LEMMA LookupKeeps ==
  ASSUME IInv, NEW r \in Requests, Lookup(r)
  PROVE  IInv'
<1> DEFINE object == cache[CacheKey(r)]
           stage  == IF Expired(object, now) THEN "purge" ELSE "judge"
           x      == [req[r] EXCEPT !.hit = object, !.stage = stage]
<1>1. /\ req[r].stage = "lookup" /\ UNCHANGED <<now, cache, limits, purged>>
      /\ CacheKey(r) \in DOMAIN cache
      /\ req' = [req EXCEPT ![r] = x]
  BY DEF Lookup, Stored
<1>2. Whole(object) /\ object \in Object /\ KeyOf(object.body.of) = CacheKey(r)
  BY <1>1 DEF IInv, CacheInv, Whole
<1>3. stage \in {"purge", "judge"} /\ (stage = "purge" => Expired(object, now))
  OBVIOUS
<1> HIDE DEF object, stage
<1>4. req[r] \in Request
  BY DEF IInv, TypeOK
<1>5. /\ x \in Request /\ x.stage = stage /\ x.hit = object
      /\ x.input = req[r].input /\ x.cluster = req[r].cluster
      /\ x.proxy_retry = req[r].proxy_retry /\ x.miss = req[r].miss /\ x.got = req[r].got
  BY <1>2, <1>3, <1>4 DEF Request, Stages
<1> HIDE DEF x
<1>6. /\ req' \in [Requests -> Request] /\ req'[r] = x
      /\ \A s \in Requests \ {r} : req'[s] = req[s]
  BY <1>1, <1>5, Moved
<1>7. StageInv(r)'
  BY <1>1, <1>3, <1>5, <1>6 DEF IInv, RequestInv, StageInv, HasHit
<1>8. AdmittedInv(r)'
  BY <1>1, <1>3, <1>5, <1>6 DEF IInv, RequestInv, AdmittedInv, Admitted
<1>9. MissInv(r)'
  BY <1>3, <1>5, <1>6 DEF MissInv
<1>10. HitInv(r)'
  <2>1. CacheKey(r)' = CacheKey(r)
    BY <1>5, <1>6 DEF CacheKey, Config
  <2>2. req'[object.body.of.to].stage = "relayed"
    BY <1>1, <1>2, <1>6, ObjectsAreTimed DEF Whole
  <2>3. Whole(req[r].hit)'
    BY <1>1, <1>2, <1>5, <1>6, <2>2 DEF Whole
  <2>4. cache'[CacheKey(r)].body = object.body
    BY <1>1 DEF object
  <2> QED
    BY <1>1, <1>2, <1>3, <1>5, <1>6, <2>1, <2>3, <2>4
    DEF HitInv, HasHit, Stored, KeyOf, Expired
<1>11. req'[r].cluster \in DOMAIN Clusters =>
         req'[r].proxy_retry <= Clusters[req'[r].cluster].retry + 1
  BY <1>5, <1>6 DEF IInv, TypeOK, Config
<1> QED
  BY <1>1, <1>3, <1>5, <1>6, <1>7, <1>8, <1>9, <1>10, <1>11, QuietStep DEF RequestInv

(* A request keeps its hit as long as it keeps its key. *)
LEMMA HitKept ==
  ASSUME IInv, NEW r \in Requests, HasHit(r), Progressing,
         req'[r].hit = req[r].hit, req'[r].stage # "purge",
         req'[r].input = req[r].input, req'[r].cluster = req[r].cluster
  PROVE  HitInv(r)'
<1>1. HitInv(r) /\ req[r].hit \in Object
  BY HitHas
<1>2. CacheKey(r)' = CacheKey(r)
  BY DEF CacheKey, Config
<1>3. Whole(req[r].hit)'
  BY <1>1, ObjectsAreTimed DEF HitInv, Whole, Progressing
<1> QED
  BY <1>1, <1>2, <1>3 DEF HitInv, Stored, KeyOf, Progressing

LEMMA JudgeKeeps ==
  ASSUME IInv, NEW r \in Requests, Judge(r)
  PROVE  IInv'
<1> DEFINE x == IF Expired(req[r].hit, now)
                THEN [req[r] EXCEPT !.stage = "connect", !.phase = "expired"]
                ELSE [req[r] EXCEPT !.stage = "served", !.phase = "hit"]
<1>1. /\ req[r].stage = "judge" /\ UNCHANGED <<now, cache, limits, purged>>
      /\ req' = [req EXCEPT ![r] = x]
  BY DEF Judge
<1>2. req[r] \in Request
  BY DEF IInv, TypeOK
<1>3. /\ x \in Request /\ x.stage \in {"connect", "served"} /\ x.input = req[r].input
      /\ x.stage = "connect" => x.phase = "expired"
      /\ x.cluster = req[r].cluster /\ x.hit = req[r].hit
      /\ x.proxy_retry = req[r].proxy_retry /\ x.miss = req[r].miss /\ x.got = req[r].got
  BY <1>2 DEF Request, Stages
<1> HIDE DEF x
<1>4. /\ req' \in [Requests -> Request] /\ req'[r] = x
      /\ \A s \in Requests \ {r} : req'[s] = req[s]
  BY <1>1, <1>3, Moved
<1>5. StageInv(r)'
  BY <1>1, <1>3, <1>4 DEF IInv, RequestInv, StageInv, HasHit
<1>6. AdmittedInv(r)'
  BY <1>1, <1>3, <1>4 DEF IInv, RequestInv, AdmittedInv, Admitted
<1>7. MissInv(r)'
  BY <1>3, <1>4 DEF MissInv
<1>8. Progressing => HitInv(r)'
  BY <1>1, <1>3, <1>4, HitKept DEF HasHit
<1>9. req'[r].cluster \in DOMAIN Clusters =>
        req'[r].proxy_retry <= Clusters[req'[r].cluster].retry + 1
  BY <1>3, <1>4 DEF IInv, TypeOK, Config
<1> QED
  BY <1>1, <1>3, <1>4, <1>5, <1>6, <1>7, <1>8, <1>9, QuietStep DEF RequestInv

(* A request that ends early takes nothing with it. *)
LEMMA EarlyEndKeeps ==
  ASSUME IInv, NEW r \in Requests, UNCHANGED <<now, cache, limits, purged>>,
         req[r].stage # "relayed", NEW end \in {"refused", "failed", "aborted"},
         Gone(r, end)
  PROVE  IInv'
<1>1. /\ req' \in [Requests -> Request] /\ \A s \in Requests \ {r} : req'[s] = req[s]
      /\ RequestInv(r)' /\ req'[r].proxy_retry = 0 /\ req'[r].stage = end
  BY GoneStep
<1>2. req'[r].cluster \in DOMAIN Clusters =>
        req'[r].proxy_retry <= Clusters[req'[r].cluster].retry + 1
  BY <1>1, GatewayAssumption DEF GatewayAssumption
<1> QED
  BY <1>1, <1>2, QuietStep

LEMMA FailToConnectKeeps ==
  ASSUME IInv, NEW r \in Requests, FailToConnect(r)
  PROVE  IInv'
<1> DEFINE x == [req[r] EXCEPT !.proxy_retry = req[r].proxy_retry + 1]
<1>1. req[r].stage = "connect" /\ UNCHANGED <<now, cache, limits, purged>>
  BY DEF FailToConnect
<1>2. CASE req[r].proxy_retry > Config(r).retry
  BY <1>1, <1>2, EarlyEndKeeps DEF FailToConnect
<1>3. CASE ~(req[r].proxy_retry > Config(r).retry)
  <2>1. req' = [req EXCEPT ![r] = x]
    BY <1>3 DEF FailToConnect
  <2>2. req[r] \in Request /\ req[r].proxy_retry \in Nat /\ Config(r).retry \in Nat
    BY <1>1, AdmittedHas DEF IInv, TypeOK, Admitted
  <2>3. /\ x \in Request /\ x.stage = "connect" /\ x.phase = req[r].phase
        /\ x.input = req[r].input /\ x.cluster = req[r].cluster /\ x.hit = req[r].hit
        /\ x.proxy_retry = req[r].proxy_retry + 1
        /\ x.miss = req[r].miss /\ x.got = req[r].got
    BY <1>1, <2>2 DEF Request
  <2> HIDE DEF x
  <2>4. /\ req' \in [Requests -> Request] /\ req'[r] = x
        /\ \A s \in Requests \ {r} : req'[s] = req[s]
    BY <2>1, <2>3, Moved
  <2>5. StageInv(r)'
    BY <1>1, <2>3, <2>4 DEF IInv, RequestInv, StageInv, HasHit
  <2>6. AdmittedInv(r)'
    BY <1>1, <2>3, <2>4 DEF IInv, RequestInv, AdmittedInv, Admitted
  <2>7. MissInv(r)'
    BY <2>3, <2>4 DEF MissInv
  <2>8. Progressing => HitInv(r)'
    <3>1. CASE req[r].phase = "expired"
      BY <1>1, <2>3, <2>4, <3>1, HitKept DEF HasHit
    <3>2. CASE req[r].phase # "expired"
      BY <1>1, <2>3, <2>4, <3>2 DEF HasHit, HitInv
    <3> QED
      BY <3>1, <3>2
  <2>9. req'[r].proxy_retry <= Clusters[req'[r].cluster].retry + 1
    BY <1>3, <2>2, <2>3, <2>4 DEF Config
  <2> QED
    BY <1>1, <2>3, <2>4, <2>5, <2>6, <2>7, <2>8, <2>9, QuietStep DEF RequestInv
<1> QED
  BY <1>2, <1>3

LEMMA ResponsesAreTyped ==
  ASSUME IInv, NEW r \in Requests, req[r].stage = "connect", NEW n \in 0..MaxBody
  PROVE  /\ ResponseTo(r, n) \in Response
         /\ NewMissHandler(ResponseTo(r, n), now) \in Object
<1>1. req[r].input \in Inputs /\ req[r].cluster \in DOMAIN Clusters
  BY AdmittedHas DEF Admitted
<1>2. ResponseTo(r, n) \in Response
  BY <1>1 DEF ResponseTo, Response
<1>3. /\ now + CacheTtl \in CacheTtl..(MaxTime + CacheTtl)
      /\ 0 \in 0..MaxFileSize
  BY GatewayAssumption DEF GatewayAssumption, IInv, TypeOK
<1> QED
  BY <1>2, <1>3 DEF NewMissHandler, MetaOf, Object

LEMMA RespondKeeps ==
  ASSUME IInv, NEW r \in Requests, NEW n \in 0..MaxBody, Respond(r, n)
  PROVE  IInv'
<1> DEFINE response == ResponseTo(r, n)
           miss == IF req[r].phase = "off" THEN None ELSE NewMissHandler(response, now)
           x    == [req[r] EXCEPT !.stage = "relay", !.hit = None,
                                  !.response = response, !.miss = miss]
<1>1. /\ req[r].stage = "connect" /\ UNCHANGED <<now, cache, limits, purged>>
      /\ req' = [req EXCEPT ![r] = x]
  BY DEF Respond
<1>2. req[r] \in Request /\ response \in Response /\ miss \in Object \cup {None}
  BY <1>1, ResponsesAreTyped DEF IInv, TypeOK
<1>3. /\ response.size = n /\ response.to = r /\ response.cluster = req[r].cluster
      /\ response.path = req[r].input.path /\ response.query = req[r].input.query
      /\ miss # None => /\ miss.meta.of = response /\ miss.body.of = response
                        /\ miss.body.len = 0
  BY DEF ResponseTo, NewMissHandler, MetaOf
<1>4. response = [to |-> r, cluster |-> req[r].cluster, path |-> req[r].input.path,
                  query |-> req[r].input.query, size |-> n]
  BY DEF ResponseTo
<1> HIDE DEF response, miss
<1>5. /\ x \in Request /\ x.stage = "relay" /\ x.hit = None
      /\ x.response = response /\ x.miss = miss
      /\ x.input = req[r].input /\ x.cluster = req[r].cluster
      /\ x.proxy_retry = req[r].proxy_retry /\ x.got = req[r].got
  BY <1>2 DEF Request, Stages
<1> HIDE DEF x
<1>6. /\ req' \in [Requests -> Request] /\ req'[r] = x
      /\ \A s \in Requests \ {r} : req'[s] = req[s]
  BY <1>1, <1>5, Moved
<1>7. x.got = 0
  BY <1>1, <1>5 DEF IInv, RequestInv, StageInv
<1>8. StageInv(r)'
  BY <1>5, <1>6 DEF StageInv
<1>9. AdmittedInv(r)'
  BY <1>1, <1>5, <1>6 DEF IInv, RequestInv, AdmittedInv, Admitted
<1>10. MissInv(r)'
  BY <1>2, <1>3, <1>4, <1>5, <1>6, <1>7 DEF MissInv, ResponseTo
<1>11. HitInv(r)'
  BY <1>5, <1>6 DEF HitInv, HasHit
<1>12. req'[r].cluster \in DOMAIN Clusters =>
         req'[r].proxy_retry <= Clusters[req'[r].cluster].retry + 1
  BY <1>5, <1>6 DEF IInv, TypeOK, Config
<1> QED
  BY <1>1, <1>5, <1>6, <1>8, <1>9, <1>10, <1>11, <1>12, QuietStep DEF RequestInv

LEMMA WriteBodyKeeps ==
  ASSUME IInv, NEW r \in Requests, WriteBody(r)
  PROVE  IInv'
<1> DEFINE miss == IF req[r].miss = None \/ TooLarge(req[r].miss) THEN None
                   ELSE WithPiece(req[r].miss)
           x    == [req[r] EXCEPT !.got = req[r].got + 1, !.miss = miss]
<1>1. /\ req[r].stage = "relay" /\ UNCHANGED <<now, cache, limits, purged>>
      /\ req[r].got < req[r].response.size
      /\ req' = [req EXCEPT ![r] = x]
  BY DEF WriteBody
<1>2. /\ req[r] \in Request /\ MissInv(r) /\ req[r].response \in Response
      /\ req[r].response.size \in 0..MaxBody /\ req[r].got \in 0..MaxBody
  BY <1>1 DEF IInv, TypeOK, RequestInv, MissInv, Request, Response
<1>3. miss # None =>
        /\ miss \in Object
        /\ miss.meta.of = req[r].response /\ miss.body.of = req[r].response
        /\ miss.body.len = req[r].got + 1
  <2> SUFFICES ASSUME req[r].miss # None, ~TooLarge(req[r].miss)
               PROVE  LET object == WithPiece(req[r].miss) IN
                        /\ object \in Object
                        /\ object.meta.of = req[r].response
                        /\ object.body.of = req[r].response
                        /\ object.body.len = req[r].got + 1
    OBVIOUS
  <2>1. req[r].miss \in Object
    BY <1>2 DEF Request
  <2>2. req[r].miss.body.len + 1 \in 0..MaxFileSize
    BY <2>1, GatewayAssumption DEF GatewayAssumption, Object, TooLarge
  <2>3. WithPiece(req[r].miss) =
          [meta |-> req[r].miss.meta,
           body |-> [of |-> req[r].miss.body.of, len |-> req[r].miss.body.len + 1]]
    BY <2>1 DEF WithPiece, Object
  <2> QED
    BY <1>1, <1>2, <2>1, <2>2, <2>3 DEF MissInv, Object
<1> HIDE DEF miss
<1>4. req[r].got + 1 \in 0..MaxBody
  BY <1>1, <1>2, GatewayAssumption DEF GatewayAssumption
<1>5. /\ x \in Request /\ x.stage = "relay" /\ x.hit = req[r].hit
      /\ x.response = req[r].response /\ x.miss = miss
      /\ x.input = req[r].input /\ x.cluster = req[r].cluster
      /\ x.proxy_retry = req[r].proxy_retry /\ x.got = req[r].got + 1
  BY <1>1, <1>2, <1>3, <1>4 DEF Request
<1> HIDE DEF x
<1>6. /\ req' \in [Requests -> Request] /\ req'[r] = x
      /\ \A s \in Requests \ {r} : req'[s] = req[s]
  BY <1>1, <1>5, Moved
<1>7. StageInv(r)'
  BY <1>1, <1>5, <1>6 DEF IInv, RequestInv, StageInv, HasHit
<1>8. AdmittedInv(r)'
  BY <1>1, <1>5, <1>6 DEF IInv, RequestInv, AdmittedInv, Admitted
<1>9. req[r].got + 1 <= req[r].response.size
  BY <1>1, <1>2, GatewayAssumption DEF GatewayAssumption
<1>10. MissInv(r)'
  BY <1>1, <1>2, <1>3, <1>5, <1>6, <1>9 DEF MissInv, ResponseTo
<1>11. HitInv(r)'
  BY <1>5, <1>6 DEF HitInv, HasHit
<1>12. req'[r].cluster \in DOMAIN Clusters =>
         req'[r].proxy_retry <= Clusters[req'[r].cluster].retry + 1
  BY <1>5, <1>6 DEF IInv, TypeOK, Config
<1> QED
  BY <1>1, <1>5, <1>6, <1>7, <1>8, <1>10, <1>11, <1>12, QuietStep DEF RequestInv

LEMMA RevalidateKeeps ==
  ASSUME IInv, NEW r \in Requests, Revalidate(r)
  PROVE  IInv'
<1> DEFINE x    == [req[r] EXCEPT !.stage = "served", !.phase = "revalidated"]
           key  == CacheKey(r)
           meta == MetaOf(req[r].hit.meta.of, now)
<1>1. /\ req[r].stage = "connect" /\ req[r].phase = "expired"
      /\ UNCHANGED <<now, limits, purged>>
      /\ req' = [req EXCEPT ![r] = x]
      /\ cache' = IF key \in DOMAIN cache THEN [cache EXCEPT ![key].meta = meta] ELSE cache
  BY DEF Revalidate, UpdateMeta, Stored
<1>2. HasHit(r) /\ HitInv(r) /\ req[r].hit \in Object
  BY <1>1, HitHas DEF HasHit
<1>3. req[r] \in Request
  BY DEF IInv, TypeOK
<1>4. /\ x \in Request /\ x.stage = "served" /\ x.hit = req[r].hit
      /\ x.input = req[r].input /\ x.cluster = req[r].cluster
      /\ x.proxy_retry = req[r].proxy_retry /\ x.miss = req[r].miss /\ x.got = req[r].got
  BY <1>3 DEF Request, Stages
<1> HIDE DEF x
<1>5. /\ req' \in [Requests -> Request] /\ req'[r] = x
      /\ \A s \in Requests \ {r} : req'[s] = req[s]
  BY <1>1, <1>4, Moved
<1>6. /\ meta \in [of : Response, fresh_until : CacheTtl..(MaxTime + CacheTtl)]
      /\ meta.of = req[r].hit.meta.of
  BY <1>2, ObjectsAreTimed, GatewayAssumption DEF GatewayAssumption, IInv, TypeOK, MetaOf
<1> HIDE DEF key, meta
<1>7. /\ DOMAIN cache' = DOMAIN cache
      /\ \A k \in DOMAIN cache :
           /\ cache'[k] \in Object /\ cache'[k].body = cache[k].body
           /\ \/ cache'[k] = cache[k]
              \/ k = key /\ cache'[k].meta.of = req[r].hit.meta.of
  <2>1. \A k \in DOMAIN cache : cache[k] \in Object
    BY DEF IInv, TypeOK
  <2>2. CASE key \notin DOMAIN cache
    BY <1>1, <2>1, <2>2
  <2>3. CASE key \in DOMAIN cache
    <3>1. cache' = [cache EXCEPT ![key] = [cache[key] EXCEPT !.meta = meta]]
      BY <1>1, <2>3
    <3>2. /\ [cache[key] EXCEPT !.meta = meta] \in Object
          /\ [cache[key] EXCEPT !.meta = meta].body = cache[key].body
          /\ [cache[key] EXCEPT !.meta = meta].meta = meta
      BY <1>6, <2>1, <2>3 DEF Object
    <3> QED
      BY <1>6, <2>1, <2>3, <3>1, <3>2
  <2> QED
    BY <2>2, <2>3
<1>8. Progressing
  BY <1>1, <1>4, <1>5, <1>7 DEF IInv, TypeOK, Progressing
<1>9. StageInv(r)'
  BY <1>1, <1>4, <1>5 DEF IInv, RequestInv, StageInv, HasHit
<1>10. AdmittedInv(r)'
  BY <1>1, <1>4, <1>5 DEF IInv, RequestInv, AdmittedInv, Admitted
<1>11. MissInv(r)' /\ HitInv(r)'
  BY <1>2, <1>4, <1>5, <1>8, HitKept DEF MissInv
<1>12. CacheInv'
  <2>1. cache' = [k \in DOMAIN cache' |-> cache'[k]]
    BY <1>1 DEF IInv, CacheInv
  <2>2. ASSUME NEW k \in DOMAIN cache
        PROVE  (Whole(cache[k]) /\ k = KeyOf(cache[k].body.of)
                  /\ cache[k].body.of \notin purged)'
    <3>1. /\ Whole(cache[k]) /\ cache[k].body.of \notin purged
          /\ k = KeyOf(cache[k].body.of) /\ cache[k] \in Object
          /\ cache[k].meta.of = cache[k].body.of \/ cache[k].meta.of \in purged
          /\ purged' = purged
      BY <1>1 DEF IInv, CacheInv, Whole
    <3>2. req'[cache[k].body.of.to].stage = "relayed"
      BY <1>8, <3>1, ObjectsAreTimed DEF Whole, Progressing
    <3>3. cache'[k].meta.of = cache'[k].body.of \/ cache'[k].meta.of \in purged'
      <4>1. CASE cache'[k] = cache[k]
        BY <3>1, <4>1
      <4>2. CASE k = key /\ cache'[k].meta.of = req[r].hit.meta.of
        BY <1>2, <1>7, <3>1, <4>2 DEF HitInv, Whole, Stored, key
      <4> QED
        BY <1>7, <4>1, <4>2
    <3> QED
      BY <1>1, <1>7, <3>1, <3>2, <3>3 DEF Whole, KeyOf
  <2> QED
    BY <1>7, <2>1, <2>2 DEF CacheInv, KeyOf
<1>13. PurgedInv'
  BY <1>1, <1>8 DEF IInv, TypeOK, PurgedInv, Progressing, Response
<1>14. req'[r].cluster \in DOMAIN Clusters =>
         req'[r].proxy_retry <= Clusters[req'[r].cluster].retry + 1
  BY <1>4, <1>5 DEF IInv, TypeOK, Config
<1> QED
  BY <1>1, <1>4, <1>5, <1>8, <1>9, <1>10, <1>11, <1>12, <1>13, <1>14, LimitsStay, MetStays,
     RequestStep DEF RequestInv

LEMMA PurgeExpiredKeeps ==
  ASSUME IInv, NEW r \in Requests, PurgeExpired(r)
  PROVE  IInv'
<1> DEFINE x   == [req[r] EXCEPT !.stage = "judge"]
           key == CacheKey(r)
<1>1. /\ req[r].stage = "purge" /\ UNCHANGED <<now, limits>>
      /\ req' = [req EXCEPT ![r] = x]
      /\ cache' = [k \in DOMAIN cache \cap (DOMAIN cache \ {key}) |-> cache[k]]
      /\ purged' = purged \cup {req[r].hit.body.of}
                     \cup { cache[k].body.of : k \in {key} \cap DOMAIN cache }
  BY DEF PurgeExpired, Purge, Restrict
<1>2. HasHit(r) /\ HitInv(r) /\ req[r].hit \in Object
  BY <1>1, HitHas DEF HasHit
<1>3. req[r] \in Request
  BY DEF IInv, TypeOK
<1>4. /\ x \in Request /\ x.stage = "judge" /\ x.hit = req[r].hit
      /\ x.input = req[r].input /\ x.cluster = req[r].cluster
      /\ x.proxy_retry = req[r].proxy_retry /\ x.miss = req[r].miss /\ x.got = req[r].got
  BY <1>3 DEF Request, Stages
<1> HIDE DEF x, key
<1>5. /\ req' \in [Requests -> Request] /\ req'[r] = x
      /\ \A s \in Requests \ {r} : req'[s] = req[s]
  BY <1>1, <1>4, Moved
<1>6. \A k \in DOMAIN cache : cache[k] \in Object /\ Whole(cache[k])
  BY DEF IInv, CacheInv, Whole
<1>7. purged' \subseteq Response
  BY <1>1, <1>2, <1>6, ObjectsAreTimed DEF IInv, TypeOK
<1>8. /\ DOMAIN cache' = DOMAIN cache \ {key}
      /\ \A k \in DOMAIN cache' : cache'[k] = cache[k]
  BY <1>1
<1>9. Progressing
  BY <1>1, <1>4, <1>5, <1>7, <1>8 DEF IInv, TypeOK, Progressing
<1>10. StageInv(r)'
  BY <1>1, <1>4, <1>5 DEF IInv, RequestInv, StageInv, HasHit
<1>11. AdmittedInv(r)'
  BY <1>1, <1>4, <1>5 DEF IInv, RequestInv, AdmittedInv, Admitted
<1>12. MissInv(r)' /\ HitInv(r)'
  BY <1>2, <1>4, <1>5, <1>9, HitKept DEF MissInv
<1>13. CacheInv'
  <2>1. cache' = [k \in DOMAIN cache' |-> cache'[k]]
    BY <1>1
  <2>2. ASSUME NEW k \in DOMAIN cache'
        PROVE  (Whole(cache[k]) /\ k = KeyOf(cache[k].body.of)
                  /\ cache[k].body.of \notin purged)'
    <3>1. /\ Whole(cache[k]) /\ cache[k] \in Object /\ k = KeyOf(cache[k].body.of)
          /\ cache[k].body.of \notin purged /\ cache'[k] = cache[k]
          /\ k \in DOMAIN cache /\ k # key
      BY <1>6, <1>8 DEF IInv, CacheInv
    <3>2. req'[cache[k].body.of.to].stage = "relayed" /\ purged \subseteq purged'
      BY <1>9, <3>1, ObjectsAreTimed DEF Whole, Progressing
    <3>3. cache[k].body.of # req[r].hit.body.of
      BY <1>2, <3>1 DEF HitInv, key
    <3>4. key \in DOMAIN cache => cache[k].body.of # cache[key].body.of
      BY <3>1 DEF IInv, CacheInv
    <3>5. cache[k].body.of \notin purged'
      BY <1>1, <3>1, <3>3, <3>4
    <3> QED
      BY <3>1, <3>2, <3>5 DEF Whole, KeyOf
  <2> QED
    BY <2>1, <2>2 DEF CacheInv
<1>14. PurgedInv'
  <2>1. \A y \in purged : req[y.to].stage = "relayed" /\ y.to \in Requests
    BY DEF IInv, TypeOK, PurgedInv, Response
  <2>2. req[req[r].hit.body.of.to].stage = "relayed" /\ req[r].hit.body.of.to \in Requests
    BY <1>2, ObjectsAreTimed DEF HitInv, Whole
  <2>3. \A k \in DOMAIN cache :
          req[cache[k].body.of.to].stage = "relayed" /\ cache[k].body.of.to \in Requests
    BY <1>6, ObjectsAreTimed DEF Whole
  <2> QED
    BY <1>1, <1>9, <2>1, <2>2, <2>3 DEF PurgedInv, Progressing
<1>15. req'[r].cluster \in DOMAIN Clusters =>
         req'[r].proxy_retry <= Clusters[req'[r].cluster].retry + 1
  BY <1>4, <1>5 DEF IInv, TypeOK, Config
<1> QED
  BY <1>1, <1>4, <1>5, <1>9, <1>10, <1>11, <1>12, <1>13, <1>14, <1>15, LimitsStay, MetStays,
     RequestStep DEF RequestInv

(* What a finished miss handler puts into the cache. *)
LEMMA FinishedIsWhole ==
  ASSUME IInv, NEW r \in Requests, req[r].stage = "relay",
         req[r].got = req[r].response.size, req[r].miss # None,
         req[r].miss.body.len # 0
  PROVE  LET object == req[r].miss IN
           /\ object \in Object /\ object.meta.of = object.body.of
           /\ object.body.of.cluster \in SelectCluster(object.body.of.path)
           /\ object.body.of.to = r /\ KeyOf(object.body.of) = CacheKey(r)
           /\ object.body.len = object.body.of.size
           /\ object.body.len \in 1..MaxFileSize
<1> DEFINE object == req[r].miss
<1>1. object \in Object
  BY DEF IInv, TypeOK, Request
<1>2. /\ object.meta.of = req[r].response /\ object.body.of = req[r].response
      /\ object.body.len = req[r].response.size
      /\ req[r].response = ResponseTo(r, req[r].response.size)
  BY DEF IInv, RequestInv, MissInv
<1>3. object.body.len \in 1..MaxFileSize
  BY <1>1, GatewayAssumption DEF GatewayAssumption, Object
<1>4. req[r].cluster \in SelectCluster(req[r].input.path)
  BY DEF IInv, RequestInv, AdmittedInv, Admitted
<1>5. /\ req[r].response.to = r /\ req[r].response.cluster = req[r].cluster
      /\ req[r].response.path = req[r].input.path
      /\ req[r].response.query = req[r].input.query
  BY <1>2 DEF ResponseTo
<1> QED
  BY <1>1, <1>2, <1>3, <1>4, <1>5 DEF KeyOf, CacheKey, Config

LEMMA FinishKeeps ==
  ASSUME IInv, NEW r \in Requests, Finish(r)
  PROVE  IInv'
<1> DEFINE object == req[r].miss
<1>0. PICK key : key = CacheKey(r)
  OBVIOUS
<1>1. /\ req[r].stage = "relay" /\ req[r].got = req[r].response.size
      /\ UNCHANGED <<now, limits, purged>> /\ Gone(r, "relayed")
  BY DEF Finish
<1>2. /\ req' \in [Requests -> Request] /\ \A s \in Requests \ {r} : req'[s] = req[s]
      /\ RequestInv(r)' /\ req'[r].proxy_retry = 0 /\ req'[r].stage = "relayed"
  BY <1>1, GoneStep
<1>3. \/ cache' = cache
      \/ /\ object # None /\ object.body.len # 0 /\ key \notin DOMAIN cache
         /\ cache' = [k \in DOMAIN cache \cup {key} |->
                        IF k = key THEN object ELSE cache[k]]
  BY <1>0 DEF Finish, FinishObject, Stored
<1>4. Progressing
  BY <1>1, <1>2, <1>3 DEF IInv, TypeOK, Progressing
<1>5. \A k \in DOMAIN cache :
        /\ (Whole(cache[k]))' /\ k = KeyOf(cache[k].body.of) /\ cache'[k] = cache[k]
        /\ cache[k].body.of \notin purged'
  <2> SUFFICES ASSUME NEW k \in DOMAIN cache
               PROVE  /\ Whole(cache[k])' /\ k = KeyOf(cache[k].body.of)
                      /\ cache'[k] = cache[k] /\ cache[k].body.of \notin purged'
    OBVIOUS
  <2>1. /\ Whole(cache[k]) /\ cache[k] \in Object /\ k = KeyOf(cache[k].body.of)
        /\ cache[k].body.of \notin purged /\ cache'[k] = cache[k] /\ purged' = purged
    BY <1>1, <1>3 DEF IInv, TypeOK, CacheInv
  <2>2. req'[cache[k].body.of.to].stage = "relayed"
    BY <1>4, <2>1, ObjectsAreTimed DEF Whole, Progressing
  <2> QED
    BY <2>1, <2>2 DEF Whole
<1>6. CacheInv'
  <2>1. CASE cache' = cache
    BY <1>5, <2>1 DEF IInv, CacheInv, KeyOf
  <2>2. CASE /\ object # None /\ object.body.len # 0 /\ key \notin DOMAIN cache
             /\ cache' = [k \in DOMAIN cache \cup {key} |->
                            IF k = key THEN object ELSE cache[k]]
    <3>1. /\ object \in Object /\ object.meta.of = object.body.of
          /\ object.body.of.cluster \in SelectCluster(object.body.of.path)
          /\ object.body.of.to = r /\ KeyOf(object.body.of) = key
          /\ object.body.len = object.body.of.size
          /\ object.body.len \in 1..MaxFileSize
      BY <1>0, <1>1, <2>2, FinishedIsWhole
    <3>2. object.body.of \notin purged /\ purged' = purged
      BY <1>1, <3>1 DEF IInv, PurgedInv
    <3>3. DOMAIN cache' = DOMAIN cache \cup {key} /\ cache'[key] = object
      BY <2>2
    <3>4. (/\ Whole(cache[key]) /\ key = KeyOf(cache[key].body.of)
           /\ cache[key].body.of \notin purged)'
      BY <1>2, <3>1, <3>2, <3>3 DEF Whole, KeyOf
    <3>5. cache' = [k \in DOMAIN cache' |-> cache'[k]]
      BY <2>2
    <3> QED
      BY <1>5, <3>3, <3>4, <3>5 DEF CacheInv, KeyOf
  <2> QED
    BY <1>3, <2>1, <2>2
<1>7. PurgedInv'
  BY <1>1, <1>4 DEF IInv, TypeOK, PurgedInv, Progressing, Response
<1>8. req'[r].cluster \in DOMAIN Clusters =>
        req'[r].proxy_retry <= Clusters[req'[r].cluster].retry + 1
  BY <1>2, GatewayAssumption DEF GatewayAssumption
<1> QED
  BY <1>1, <1>2, <1>4, <1>6, <1>7, <1>8, LimitsStay, MetStays, RequestStep

-----------------------------------------------------------------------------
(* The limiters. *)
LEMMA PartsAreFinite ==
  ASSUME IInv, NEW i
  PROVE  /\ IsFiniteSet(CounterOf(i)) /\ Cardinality(CounterOf(i)) \in Nat
         /\ \A by, c : /\ IsFiniteSet(PassedOf(by, c, i))
                       /\ Cardinality(PassedOf(by, c, i)) \in Nat
<1>1. IsFiniteSet(tried) /\ CounterOf(i) \subseteq tried
  BY DEF IInv, LimitInv, CounterOf
<1>2. \A by, c : PassedOf(by, c, i) \subseteq tried
  BY DEF PassedOf, CounterOf
<1> QED
  BY <1>1, <1>2, FS_Subset, FS_CardinalityType

LEMMA LimitsAreNumbers ==
  ASSUME NEW by, NEW c \in DOMAIN Clusters, Limit(by, c) # None
  PROVE  Limit(by, c) \in Nat
BY GatewayAssumption DEF GatewayAssumption, Limit

LEMMA TriesHaveIdentities ==
  /\ \A by : \A c \in DOMAIN Clusters, q \in Inputs : Identity(by, c, q) \in Identities
  /\ \A t \in Try : IdentityOf(t) \in Identities
BY DEF Identity, Identities, IdentityOf, Try

(* A limiter that a request has not met yet counts it. *)
LEMMA ObserveKeeps ==
  ASSUME IInv, NEW by \in {"global", "client"}, NEW r \in Requests,
         NEW c \in DOMAIN Clusters, NEW q \in Inputs, Observe(by, r, c, q),
         \A t \in tried : t.by = by => t.request # r
  PROVE  LimitInv' /\ counted' \in [Identities -> Nat] /\ tried' \subseteq Try
<1> DEFINE id == Identity(by, c, q)
           e  == [by |-> by, request |-> r, cluster |-> c, input |-> q,
                  passed |-> ~Over(by, c, q)]
           after(i) == { t \in tried' : IdentityOf(t) = i }
           went(b, d, i) == { t \in after(i) : t.by = b /\ t.cluster = d /\ t.passed }
<1>1. CASE Limit(by, c) = None
  <2>1. UNCHANGED limits
    BY <1>1 DEF Observe, Counts, limits
  <2> QED
    BY <2>1, LimitsStay
<1>2. CASE Limit(by, c) # None
  <2>1. /\ tried' = tried \cup {e} /\ e \notin tried
        /\ counted' = IF id # None THEN [counted EXCEPT ![id] = counted[id] + 1] ELSE counted
    BY <1>2 DEF Observe, Counts
  <2>2. /\ e \in Try /\ IdentityOf(e) = id /\ id \in Identities
        /\ e.by = by /\ e.cluster = c /\ e.passed = ~Over(by, c, q)
    <3>1. /\ e.by = by /\ e.request = r /\ e.cluster = c /\ e.input = q
          /\ e.passed = ~Over(by, c, q)
      OBVIOUS
    <3>2. (~Over(by, c, q)) \in BOOLEAN
      BY DEF Over
    <3>3. e \in Try
      BY <3>2, Zenon DEF Try
    <3>4. IdentityOf(e) = id /\ id \in Identities
      BY <3>1, TriesHaveIdentities DEF IdentityOf
    <3> QED
      BY <3>1, <3>3, <3>4
  <2>3. Limit(by, c) \in Nat
    BY <1>2, LimitsAreNumbers
  <2>4. /\ tried' \subseteq Try /\ counted' \in [Identities -> Nat]
        /\ \A i \in Identities : counted[i] \in Nat
    BY <2>1, <2>2 DEF IInv, TypeOK
  <2>5. IsFiniteSet(tried')
    BY <2>1, FS_AddElement DEF IInv, LimitInv
  <2>6. /\ \A i : i # id => after(i) = CounterOf(i)
        /\ after(id) = CounterOf(id) \cup {e} /\ e \notin CounterOf(id)
    BY <2>1, <2>2 DEF CounterOf
  <2> HIDE DEF after, e, id
  <2>7. /\ IsFiniteSet(after(id))
        /\ Cardinality(after(id)) = Cardinality(CounterOf(id)) + 1
    BY <2>6, PartsAreFinite, FS_AddElement
  <2>8. ASSUME NEW i
        PROVE  /\ Cardinality(CounterOf(i)) \in Nat /\ Cardinality(after(i)) \in Nat
               /\ IsFiniteSet(after(i))
               /\ Cardinality(CounterOf(i)) <= Cardinality(after(i))
    BY <2>6, <2>7, PartsAreFinite
  <2>9. \A i \in Identities \ {None} : counted'[i] = Cardinality(after(i))
    BY <2>1, <2>2, <2>4, <2>6, <2>7 DEF IInv, TypeOK, LimitInv
  <2>10. id # None /\ ~Over(by, c, q) => Cardinality(after(id)) <= Limit(by, c)
    BY <1>2, <2>2, <2>3, <2>4, <2>7 DEF IInv, LimitInv, Over, Counts, id
  <2>11. Over(by, c, q) => id # None /\ Cardinality(after(id)) > Limit(by, c)
    BY <1>2, <2>2, <2>3, <2>4, <2>7 DEF IInv, LimitInv, Over, Counts, id
  <2>12. ASSUME NEW t \in tried'
         PROVE  /\ Limit(t.by, t.cluster) # None
                /\ ~t.passed => /\ IdentityOf(t) # None
                                /\ Cardinality(after(IdentityOf(t))) > Limit(t.by, t.cluster)
    <3>1. CASE t = e
      BY <1>2, <2>2, <2>11, <3>1
    <3>2. CASE t \in tried
      <4>1. /\ Limit(t.by, t.cluster) # None
            /\ ~t.passed => /\ IdentityOf(t) # None
                            /\ Cardinality(CounterOf(IdentityOf(t))) > Limit(t.by, t.cluster)
        BY <3>2 DEF IInv, LimitInv
      <4>2. Limit(t.by, t.cluster) \in Nat
        BY <3>2, <4>1, LimitsAreNumbers DEF IInv, TypeOK, Try
      <4>3. /\ Cardinality(CounterOf(IdentityOf(t))) \in Nat
            /\ Cardinality(after(IdentityOf(t))) \in Nat
            /\ Cardinality(CounterOf(IdentityOf(t))) <= Cardinality(after(IdentityOf(t)))
        BY <2>8
      <4> QED
        BY <4>1, <4>2, <4>3
    <3> QED
      BY <2>1, <3>1, <3>2
  <2>13. ASSUME NEW b \in {"global", "client"}, NEW d \in DOMAIN Clusters,
                NEW i \in Identities \ {None}, Limit(b, d) # None
         PROVE  Cardinality(went(b, d, i)) <= Limit(b, d)
    <3>1. /\ Cardinality(PassedOf(b, d, i)) <= Limit(b, d)
          /\ Limit(b, d) \in Nat
      BY <2>13, LimitsAreNumbers DEF IInv, LimitInv
    <3>2. CASE i = id /\ b = by /\ d = c /\ ~Over(by, c, q)
      <4>1. went(b, d, i) \subseteq after(id)
        BY <3>2
      <4>2. /\ Cardinality(went(b, d, i)) <= Cardinality(after(id))
            /\ Cardinality(went(b, d, i)) \in Nat
        BY <2>7, <4>1, FS_Subset, FS_CardinalityType
      <4> HIDE DEF went
      <4> QED
        BY <2>8, <2>10, <3>1, <3>2, <4>2
    <3>3. CASE ~(i = id /\ b = by /\ d = c /\ ~Over(by, c, q))
      <4>1. went(b, d, i) = PassedOf(b, d, i)
        BY <2>2, <2>6, <3>3 DEF PassedOf
      <4> QED
        BY <3>1, <4>1
    <3> QED
      BY <3>2, <3>3
  <2>14. LimitInv'
    BY <2>5, <2>9, <2>12, <2>13 DEF LimitInv, CounterOf, PassedOf, after
  <2> QED
    BY <2>4, <2>14
<1> QED
  BY <1>1, <1>2

(* What a request has met is what its stage says. *)
LEMMA MetGrows ==
  ASSUME IInv, NEW by \in {"global", "client"}, NEW r \in Requests, NEW c, NEW q,
         Observe(by, r, c, q), req'[r].stage # "new",
         req'[r].stage = "limited" => req[r].stage = "new" /\ by = "global",
         \A s \in Requests \ {r} : req'[s] = req[s]
  PROVE  MetInv'
<1>1. \A t \in tried' : t \in tried \/ (t.by = by /\ t.request = r)
  BY DEF Observe
<1>2. \A t \in tried : t.request \in Requests
  BY DEF IInv, TypeOK, Try
<1> QED
  BY <1>1, <1>2 DEF IInv, MetInv

-----------------------------------------------------------------------------
(* The filter, and time. *)
LEMMA RequestFilterKeeps ==
  ASSUME IInv, NEW r \in Requests, NEW q \in Inputs, RequestFilter(r, q)
  PROVE  IInv'
<1>1. req[r].stage = "new" /\ UNCHANGED <<now, cache, purged>>
  BY DEF RequestFilter
<1>2. ASSUME Gone(r, "refused"), UNCHANGED limits PROVE IInv'
  BY <1>1, <1>2, EarlyEndKeeps
<1>3. ASSUME NEW c \in SelectCluster(q.path), Observe("global", r, c, q)
      PROVE  LimitInv' /\ counted' \in [Identities -> Nat] /\ tried' \subseteq Try
  <2>1. c \in DOMAIN Clusters
    BY DEF SelectCluster
  <2>2. \A t \in tried : t.by = "global" => t.request # r
    BY <1>1 DEF IInv, MetInv
  <2> QED
    BY <1>3, <2>1, <2>2, ObserveKeeps
<1>4. ASSUME NEW c \in SelectCluster(q.path), Observe("global", r, c, q), Gone(r, "refused")
      PROVE  IInv'
  <2>1. /\ req' \in [Requests -> Request] /\ \A s \in Requests \ {r} : req'[s] = req[s]
        /\ RequestInv(r)' /\ req'[r].proxy_retry = 0 /\ req'[r].stage = "refused"
    BY <1>4, GoneStep
  <2>2. req'[r].cluster \in DOMAIN Clusters =>
          req'[r].proxy_retry <= Clusters[req'[r].cluster].retry + 1
    BY <2>1, GatewayAssumption DEF GatewayAssumption
  <2>3. MetInv'
    BY <1>4, <2>1, MetGrows
  <2>4. LimitInv' /\ counted' \in [Identities -> Nat] /\ tried' \subseteq Try
    BY <1>3, <1>4
  <2> QED
    BY <1>1, <2>1, <2>2, <2>3, <2>4, FilterStep
<1>5. ASSUME NEW c \in SelectCluster(q.path), ~Refuses(IpRestriction(c, q.address)),
             Observe("global", r, c, q),
             req' = [req EXCEPT ![r].stage = "limited", ![r].input = q, ![r].cluster = c]
      PROVE  IInv'
  <2> DEFINE x == [req[r] EXCEPT !.stage = "limited", !.input = q, !.cluster = c]
  <2>1. c \in DOMAIN Clusters
    BY DEF SelectCluster
  <2>2. LimitInv' /\ counted' \in [Identities -> Nat] /\ tried' \subseteq Try
    BY <1>3, <1>5
  <2>5. req[r] \in Request
    BY DEF IInv, TypeOK
  <2>6. /\ x \in Request /\ x.stage = "limited" /\ x.input = q /\ x.cluster = c
        /\ x.hit = req[r].hit /\ x.proxy_retry = req[r].proxy_retry
        /\ x.miss = req[r].miss /\ x.got = req[r].got /\ x.phase = req[r].phase
    BY <2>1, <2>5 DEF Request, Stages
  <2>7. req' = [req EXCEPT ![r] = x]
    BY <1>5
  <2> HIDE DEF x
  <2>8. /\ req' \in [Requests -> Request] /\ req'[r] = x
        /\ \A s \in Requests \ {r} : req'[s] = req[s]
    BY <2>6, <2>7, Moved
  <2>9. x.proxy_retry = 0 /\ x.phase = "off" /\ x.hit = None /\ x.got = 0 /\ x.miss = None
    BY <1>1, <2>6 DEF IInv, RequestInv, StageInv, HasHit
  <2>10. RequestInv(r)'
    BY <1>5, <2>6, <2>8, <2>9
    DEF RequestInv, StageInv, AdmittedInv, MissInv, HitInv, HasHit, Refuses
  <2>11. req'[r].proxy_retry <= Clusters[req'[r].cluster].retry + 1
    BY <2>1, <2>6, <2>8, <2>9, GatewayAssumption DEF GatewayAssumption
  <2>12. MetInv'
    BY <1>1, <1>5, <2>6, <2>8, MetGrows
  <2> QED
    BY <1>1, <2>2, <2>8, <2>10, <2>11, <2>12, FilterStep
<1> QED
  BY <1>2, <1>4, <1>5 DEF RequestFilter

LEMMA ClientFilterKeeps ==
  ASSUME IInv, NEW r \in Requests, ClientFilter(r)
  PROVE  IInv'
<1> DEFINE c        == req[r].cluster
           q        == req[r].input
           refused  == Over("client", c, q) \/ Refuses(Authenticate(c, q.creds))
           stage    == IF CacheEnabled(r) THEN "lookup" ELSE "connect"
           x        == [req[r] EXCEPT !.stage = stage]
<1>1. /\ req[r].stage = "limited" /\ UNCHANGED <<now, cache, purged>>
      /\ Observe("client", r, c, q)
      /\ IF refused THEN Gone(r, "refused") ELSE req' = [req EXCEPT ![r].stage = stage]
  BY DEF ClientFilter
<1>2. q \in Inputs /\ c \in DOMAIN Clusters
  BY <1>1, AdmittedHas DEF Admitted
<1>3. \A t \in tried : t.by = "client" => t.request # r
  BY <1>1 DEF IInv, MetInv
<1>4. LimitInv' /\ counted' \in [Identities -> Nat] /\ tried' \subseteq Try
  BY <1>1, <1>2, <1>3, ObserveKeeps
<1>7. CASE refused
  <2>1. /\ req' \in [Requests -> Request] /\ \A s \in Requests \ {r} : req'[s] = req[s]
        /\ RequestInv(r)' /\ req'[r].proxy_retry = 0 /\ req'[r].stage = "refused"
    BY <1>1, <1>7, GoneStep
  <2>2. req'[r].cluster \in DOMAIN Clusters =>
          req'[r].proxy_retry <= Clusters[req'[r].cluster].retry + 1
    BY <2>1, GatewayAssumption DEF GatewayAssumption
  <2>3. MetInv'
    BY <1>1, <2>1, MetGrows
  <2> QED
    BY <1>1, <1>4, <2>1, <2>2, <2>3, FilterStep
<1>8. CASE ~refused
  <2>1. Authenticate(c, q.creds) = Continue
    BY <1>8 DEF Refuses
  <2>2. stage \in {"lookup", "connect"} /\ req[r] \in Request
    BY DEF IInv, TypeOK
  <2>3. req' = [req EXCEPT ![r] = x]
    BY <1>1, <1>8
  <2> HIDE DEF stage, refused
  <2>4. /\ x \in Request /\ x.stage = stage /\ x.input = q /\ x.cluster = c
        /\ x.hit = req[r].hit /\ x.proxy_retry = req[r].proxy_retry
        /\ x.miss = req[r].miss /\ x.got = req[r].got /\ x.phase = req[r].phase
    BY <2>2 DEF Request, Stages
  <2> HIDE DEF x
  <2>5. /\ req' \in [Requests -> Request] /\ req'[r] = x
        /\ \A s \in Requests \ {r} : req'[s] = req[s]
    BY <2>3, <2>4, Moved
  <2>6. /\ c \in SelectCluster(q.path) /\ IpRestriction(c, q.address) = Continue
        /\ x.hit = None /\ x.got = 0 /\ x.miss = None /\ x.phase # "expired"
    BY <1>1, <2>4
    DEF IInv, RequestInv, StageInv, AdmittedInv, Admitted, HasHit
  <2>7. RequestInv(r)'
    BY <1>2, <2>1, <2>2, <2>4, <2>5, <2>6
    DEF RequestInv, StageInv, AdmittedInv, MissInv, HitInv, HasHit
  <2>8. req'[r].proxy_retry <= Clusters[req'[r].cluster].retry + 1
    BY <1>2, <2>4, <2>5 DEF IInv, TypeOK, Config
  <2>9. MetInv'
    BY <1>1, <2>2, <2>4, <2>5, MetGrows
  <2> QED
    BY <1>1, <1>4, <2>5, <2>7, <2>8, <2>9, FilterStep
<1> QED
  BY <1>7, <1>8

LEMMA TickKeeps ==
  ASSUME IInv, Tick
  PROVE  IInv'
<1>1. /\ now' \in 0..MaxTime /\ now <= now' /\ UNCHANGED <<cache, req, purged>>
      /\ counted' = [i \in Identities |-> 0] /\ tried' = {}
  BY GatewayAssumption DEF GatewayAssumption, IInv, TypeOK, Tick
<1>2. Progressing
  BY <1>1 DEF IInv, TypeOK, Progressing
<1>3. \A s \in Requests : RequestInv(s)'
  BY <1>1, <1>2, OthersKeep DEF IInv
<1>4. CacheInv' /\ PurgedInv'
  BY <1>1, <1>2, WholeStays DEF IInv, CacheInv, PurgedInv, KeyOf
<1>5. LimitInv' /\ MetInv' /\ counted' \in [Identities -> Nat] /\ tried' \subseteq Try
  <2>1. IsFiniteSet({}) /\ Cardinality({}) = 0
    BY FS_EmptySet
  <2>2. \A i : CounterOf(i)' = {} /\ \A by, c : PassedOf(by, c, i)' = {}
    BY <1>1 DEF CounterOf, PassedOf
  <2>3. \A by : \A c \in DOMAIN Clusters : Limit(by, c) # None => 0 <= Limit(by, c)
    BY LimitsAreNumbers
  <2>4. \A i : /\ Cardinality(CounterOf(i)') = 0
               /\ \A by, c : Cardinality(PassedOf(by, c, i)') = 0
    BY <2>1, <2>2, Zenon
  <2>5. LimitInv'
    BY <1>1, <2>1, <2>3, <2>4 DEF LimitInv
  <2> QED
    BY <1>1, <2>5 DEF MetInv
<1> QED
  BY <1>1, <1>3, <1>4, <1>5 DEF IInv, TypeOK, Config

-----------------------------------------------------------------------------
LEMMA InitHolds == Init => IInv
<1> SUFFICES ASSUME Init PROVE IInv
  OBVIOUS
<1>1. NewRequest \in Request
  BY GatewayAssumption DEF GatewayAssumption, NewRequest, Request, Stages
<1>2. /\ now = 0 /\ purged = {} /\ DOMAIN cache = {}
      /\ cache = [k \in DOMAIN cache |-> cache[k]]
      /\ req = [r \in Requests |-> NewRequest]
      /\ counted = [i \in Identities |-> 0]
      /\ tried = {}
  BY DEF Init
<1>3. \A r \in Requests : RequestInv(r)
  BY <1>2 DEF NewRequest, RequestInv, StageInv, AdmittedInv, Admitted, MissInv,
              HitInv, HasHit
<1>4. LimitInv /\ MetInv
  <2>1. IsFiniteSet({}) /\ Cardinality({}) = 0
    BY FS_EmptySet
  <2>2. \A i : CounterOf(i) = {} /\ \A by, c : PassedOf(by, c, i) = {}
    BY <1>2 DEF CounterOf, PassedOf
  <2>3. \A by : \A c \in DOMAIN Clusters : Limit(by, c) # None => 0 <= Limit(by, c)
    BY LimitsAreNumbers
  <2>4. \A i : /\ Cardinality(CounterOf(i)) = 0
               /\ \A by, c : Cardinality(PassedOf(by, c, i)) = 0
    BY <2>1, <2>2, Zenon
  <2> QED
    BY <1>2, <2>1, <2>3, <2>4 DEF LimitInv, MetInv
<1>5. \A r \in Requests : req[r].cluster \in DOMAIN Clusters =>
        req[r].proxy_retry <= Config(r).retry + 1
  BY <1>2, GatewayAssumption DEF GatewayAssumption, NewRequest, Config
<1>6. TypeOK
  BY <1>1, <1>2, <1>5, GatewayAssumption DEF GatewayAssumption, TypeOK
<1> QED
  BY <1>2, <1>3, <1>4, <1>6 DEF IInv, CacheInv, PurgedInv

LEMMA NextKeeps == IInv /\ [Next]_vars => IInv'
<1> SUFFICES ASSUME IInv, [Next]_vars PROVE IInv'
  OBVIOUS
<1>1. CASE UNCHANGED vars
  <2>1. UNCHANGED <<now, cache, req, purged>> /\ UNCHANGED limits
    BY <1>1 DEF vars
  <2>2. Progressing
    BY <2>1 DEF IInv, TypeOK, Progressing
  <2>3. \A r \in Requests : RequestInv(r)'
    BY <2>1, <2>2, OthersKeep DEF IInv
  <2>4. CacheInv' /\ PurgedInv'
    BY <2>1, <2>2, WholeStays DEF IInv, CacheInv, PurgedInv, KeyOf
  <2>5. TypeOK'
    BY <2>1, LimitsStay DEF IInv, TypeOK, Config
  <2>6. MetInv'
    BY <2>1 DEF IInv, MetInv, limits
  <2> QED
    BY <2>1, <2>3, <2>4, <2>5, <2>6, LimitsStay DEF IInv
<1>2. ASSUME NEW r \in Requests, Proceed(r) PROVE IInv'
  <2>1. CASE ClientFilter(r)
    BY <2>1, ClientFilterKeeps
  <2>2. CASE Miss(r)
    BY <2>2, MissKeeps
  <2>3. CASE Lookup(r)
    BY <2>3, LookupKeeps
  <2>4. CASE PurgeExpired(r)
    BY <2>4, PurgeExpiredKeeps
  <2>5. CASE Judge(r)
    BY <2>5, JudgeKeeps
  <2>6. CASE NoPeer(r)
    BY <2>6, EarlyEndKeeps DEF NoPeer
  <2>7. CASE FailToConnect(r)
    BY <2>7, FailToConnectKeeps
  <2>8. CASE Revalidate(r)
    BY <2>8, RevalidateKeeps
  <2>9. CASE \E n \in 0..MaxBody : Respond(r, n)
    BY <2>9, RespondKeeps
  <2>10. CASE WriteBody(r)
    BY <2>10, WriteBodyKeeps
  <2>11. CASE UpstreamDies(r)
    BY <2>11, EarlyEndKeeps DEF UpstreamDies
  <2>12. CASE Finish(r)
    BY <2>12, FinishKeeps
  <2> QED
    BY <1>2, <2>1, <2>2, <2>3, <2>4, <2>5, <2>6, <2>7, <2>8, <2>9, <2>10, <2>11, <2>12
    DEF Proceed
<1>3. ASSUME NEW r \in Requests, NEW q \in Inputs, RequestFilter(r, q) PROVE IInv'
  BY <1>3, RequestFilterKeeps
<1>4. CASE Tick
  BY <1>4, TickKeeps
<1> QED
  BY <1>1, <1>2, <1>3, <1>4 DEF Next

THEOREM Invariance == Spec => []IInv
BY InitHolds, NextKeeps, PTL DEF Spec

(* The state is what its types say, and retries are bounded. *)
THEOREM TypesHold == Spec => []TypeOK
<1>1. IInv => TypeOK
  BY DEF IInv
<1> QED
  BY <1>1, Invariance, PTL

(* No request reaches the cache or an upstream server past its filters. *)
THEOREM OnlyAllowedPassHolds == Spec => []OnlyAllowedPass
<1>1. ASSUME NEW q \in Inputs, NEW c \in DOMAIN Clusters,
             IpRestriction(c, q.address) = Continue,
             Authenticate(c, q.creds) = Continue
      PROVE  MayPass(q, Clusters[c])
  <2>1. q.creds.is \in {"absent", "garbled", "key", "token", "forged"}
    BY GatewayAssumption DEF GatewayAssumption
  <2>2. Clusters[c].whitelist = None \/ q.address \in {None} \cup Clusters[c].whitelist
    BY <1>1 DEF IpRestriction, Continue, Forbidden
  <2>3. ASSUME Clusters[c].auth = "key"
        PROVE  q.creds.is = "key" /\ q.creds.of \in Clusters[c].allowed
    <3>1. BasicKey(c, q.creds) = Continue
      BY <1>1, <2>3 DEF Authenticate
    <3> QED
      BY <2>1, <3>1 DEF BasicKey, Continue, Forbidden, BadGateway
  <2>4. ASSUME Clusters[c].auth = "jwt"
        PROVE  q.creds.is = "token" /\ ConsumerAccess(c, q.creds.of) = Continue
    <3>1. BasicJwt(c, q.creds) = Continue
      BY <1>1, <2>4 DEF Authenticate
    <3> QED
      BY <2>1, <3>1 DEF BasicJwt, Continue, Forbidden, BadRequest
  <2>5. ASSUME Clusters[c].auth = "jwt", Clusters[c].consumers # None
        PROVE  /\ Consumers # None
               /\ \E a \in UNION { Consumers[n] : n \in DOMAIN Consumers } :
                    \A list \in {Consumers, Clusters[c].consumers} :
                      q.creds.of \in DOMAIN list /\ a \in list[q.creds.of]
    <3>1. /\ Consumers # None /\ q.creds.of \in DOMAIN Consumers
          /\ q.creds.of \in DOMAIN Clusters[c].consumers
          /\ Consumers[q.creds.of] \cap Clusters[c].consumers[q.creds.of] # {}
      BY <2>4, <2>5 DEF ConsumerAccess, Continue, Forbidden, BadGateway
    <3>2. PICK a : a \in Consumers[q.creds.of] /\ a \in Clusters[c].consumers[q.creds.of]
      BY <3>1
    <3>3. a \in UNION { Consumers[n] : n \in DOMAIN Consumers }
      BY <3>1, <3>2
    <3> QED
      BY <3>1, <3>2, <3>3
  <2> QED
    BY <2>2, <2>3, <2>4, <2>5 DEF MayPass
<1>2. IInv => OnlyAllowedPass
  BY <1>1 DEF IInv, RequestInv, AdmittedInv, Admitted, OnlyAllowedPass, Config,
              SelectCluster
<1> QED
  BY <1>2, Invariance, PTL

(* Within a window, limiters let no more pass than their limits, of an identity,
   and of a client that has one identity; what is not counted passes, and a client
   of several identities has a limit for each. *)
THEOREM LimitsAreKept == Spec => []LimitsHold
<1>1. ASSUME IInv, NEW t \in tried, t.passed, IdentityOf(t) # None
      PROVE  /\ Cardinality({ u \in Own(t) : u.passed }) <= Limit(t.by, t.cluster)
             /\ t.by = "client" =>
                  \/ Cardinality(Holders(t)) <= Limit(t.by, t.cluster)
                  \/ \E u \in Holders(t) : IdentityOf(u) # IdentityOf(t)
  <2> DEFINE mine == PassedOf(t.by, t.cluster, IdentityOf(t))
  <2>1. /\ t.by \in {"global", "client"} /\ t.cluster \in DOMAIN Clusters
        /\ IdentityOf(t) \in Identities \ {None} /\ Limit(t.by, t.cluster) # None
    BY <1>1, TriesHaveIdentities DEF IInv, TypeOK, Try, LimitInv
  <2>2. /\ Cardinality(mine) <= Limit(t.by, t.cluster) /\ Limit(t.by, t.cluster) \in Nat
        /\ IsFiniteSet(mine) /\ Cardinality(mine) \in Nat
    BY <1>1, <2>1, LimitsAreNumbers, PartsAreFinite DEF IInv, LimitInv
  <2>3. { u \in Own(t) : u.passed } = mine
    BY DEF Own, Counter, PassedOf, CounterOf
  <2>4. ASSUME t.by = "client", \A u \in Holders(t) : IdentityOf(u) = IdentityOf(t)
        PROVE  Cardinality(Holders(t)) <= Limit(t.by, t.cluster)
    <3>1. Holders(t) \subseteq mine
      BY <2>4 DEF Holders, PassedOf, CounterOf
    <3>2. /\ Cardinality(Holders(t)) <= Cardinality(mine)
          /\ Cardinality(Holders(t)) \in Nat
      BY <2>2, <3>1, FS_Subset, FS_CardinalityType
    <3> QED
      BY <2>2, <3>2
  <2> QED
    BY <2>2, <2>3, <2>4
<1>2. IInv => LimitsHold
  BY <1>1 DEF LimitsHold
<1> QED
  BY <1>2, Invariance, PTL

(* What is refused was one too many for its counter, of this limit or of all the
   limits the counter serves. *)
THEOREM RefusalsHaveCause == Spec => []RefusedForCause
<1>1. ASSUME IInv, NEW t \in tried, ~t.passed
      PROVE  Cardinality(Counter(t)) > Limit(t.by, t.cluster)
  <2>1. Counter(t) = CounterOf(IdentityOf(t))
    BY DEF Counter, CounterOf
  <2> QED
    BY <1>1, <2>1 DEF IInv, LimitInv
<1>2. IInv => RefusedForCause
  BY <1>1 DEF RefusedForCause
<1> QED
  BY <1>2, Invariance, PTL

(* Objects are whole responses, with their own meta unless they were purged. *)
LEMMA HeldAreWhole ==
  ASSUME IInv, NEW o \in Held
  PROVE  Whole(o)
BY HitHas DEF Held, IInv, CacheInv, HitInv

THEOREM StoredStaysWhole == Spec => []StoredIsWhole
<1>1. IInv => StoredIsWhole
  BY HeldAreWhole DEF StoredIsWhole, Whole
<1> QED
  BY <1>1, Invariance, PTL

THEOREM MetaStaysOwn == Spec => []MetaIsOwn
<1>1. IInv => MetaIsOwn
  BY HeldAreWhole DEF MetaIsOwn, Whole
<1> QED
  BY <1>1, Invariance, PTL

(* No step brings a purged object back. *)
THEOREM PurgedStaysGone == Spec => []PurgedIsGone
<1>1. IInv => PurgedIsGone
  BY DEF IInv, CacheInv, PurgedIsGone
<1> QED
  BY <1>1, Invariance, PTL

(* A client served from the cache gets the answer to its own uri. *)
THEOREM HitsAnswerTheirUri == Spec => []HitAnswersItsUri
<1>1. ASSUME NEW path, NEW c \in SelectCluster(path), NEW d \in SelectCluster(path)
      PROVE  c = d
  BY ClustersAssumption DEF ClustersAssumption, UsablePrefixes, SelectCluster
<1>2. ASSUME IInv, NEW r \in Requests, req[r].stage = "served"
      PROVE  req[r].hit.body.of \in
               [to : Requests, cluster : {req[r].cluster}, size : Nat,
                path : {req[r].input.path}, query : {req[r].input.query}]
  <2> DEFINE of == req[r].hit.body.of
  <2>1. HasHit(r) /\ HitInv(r) /\ Whole(req[r].hit) /\ req[r].hit \in Object
    BY <1>2, HitHas DEF HasHit, HitInv
  <2>2. of \in Response /\ KeyOf(of) = CacheKey(r) /\ of.cluster \in SelectCluster(of.path)
    BY <2>1, ObjectsAreTimed DEF HitInv, Whole
  <2>3. of.path = req[r].input.path /\ of.query = req[r].input.query
    BY <2>2 DEF KeyOf, CacheKey
  <2>4. req[r].cluster \in SelectCluster(req[r].input.path)
    BY <1>2 DEF IInv, RequestInv, AdmittedInv, Admitted
  <2>5. of.cluster = req[r].cluster
    BY <1>1, <2>2, <2>3, <2>4
  <2>6. of.size \in Nat
    BY <2>2, GatewayAssumption DEF GatewayAssumption, Response
  <2> QED
    BY <2>2, <2>3, <2>5, <2>6 DEF Response
<1>3. IInv => HitAnswersItsUri
  BY <1>2 DEF HitAnswersItsUri
<1> QED
  BY <1>3, Invariance, PTL

-----------------------------------------------------------------------------
(* Only the purge of a lookup takes an object from the cache. *)
LEMMA OnlyPurgesRemove ==
  ASSUME IInv, [Next]_vars, NEW k \in DOMAIN cache, k \notin DOMAIN cache'
  PROVE  \E r \in Requests : PurgeExpired(r)
<1>1. cache' # cache
  OBVIOUS
<1>2. \/ \E r \in Requests : PurgeExpired(r) \/ Revalidate(r) \/ Finish(r)
      \/ cache' = cache
  BY DEF Next, Proceed, RequestFilter, ClientFilter, Miss, Lookup, Judge, NoPeer,
         FailToConnect, Respond, WriteBody, UpstreamDies, Tick, vars
<1>3. ASSUME NEW r \in Requests, Revalidate(r) \/ Finish(r)
      PROVE  DOMAIN cache \subseteq DOMAIN cache'
  BY <1>3 DEF Revalidate, UpdateMeta, Finish, FinishObject
<1> QED
  BY <1>1, <1>2, <1>3

(* What is lost though it is fresh is lost in a race. *)
THEOREM FreshIsLostOnlyInRace == Spec => FreshIsLostInRace
<1> DEFINE Lost(k) ==
             \/ Expired(cache[k], now)
             \/ \E r \in Requests :
                  /\ req[r].stage = "purge" /\ req'[r].stage # "purge" /\ CacheKey(r) = k
                  /\ \/ req[r].hit.body.of \in purged
                     \/ req[r].hit.body = cache[k].body /\ req[r].hit.meta # cache[k].meta
<1>1. ASSUME IInv, [Next]_vars, NEW k \in DOMAIN cache \ DOMAIN cache'
      PROVE  Lost(k)
  <2>1. PICK r \in Requests : PurgeExpired(r)
    BY <1>1, OnlyPurgesRemove
  <2>2. /\ req[r].stage = "purge" /\ req'[r].stage = "judge" /\ k = CacheKey(r)
    BY <1>1, <2>1 DEF PurgeExpired, Purge, Restrict, IInv, TypeOK, Request
  <2>3. HitInv(r) /\ Expired(req[r].hit, now)
    BY <1>1, <2>2, HitHas DEF HasHit, HitInv
  <2>4. CASE req[r].hit.body.of \in purged
    BY <2>2, <2>4
  <2>5. CASE cache[k].body = req[r].hit.body
    <3>1. CASE cache[k].meta = req[r].hit.meta
      BY <2>3, <3>1 DEF Expired
    <3>2. CASE cache[k].meta # req[r].hit.meta
      BY <2>2, <2>5, <3>2
    <3> QED
      BY <3>1, <3>2
  <2> QED
    BY <1>1, <2>2, <2>3, <2>4, <2>5, HitHas DEF HitInv, HasHit
<1>2. IInv /\ [Next]_vars => [\A k \in DOMAIN cache \ DOMAIN cache' : Lost(k)]_vars
  BY <1>1
<1> QED
  BY <1>2, Invariance, PTL DEF Spec, FreshIsLostInRace
=============================================================================
