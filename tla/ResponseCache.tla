---------------------------- MODULE ResponseCache ----------------------------
(***************************************************************************)
(* MemoryStorage of the glaive crate (cache.rs): the map from cache keys   *)
(* to objects that all requests of a cluster share, and the handlers that  *)
(* read one object or build one.  An object is a meta and a body, each     *)
(* named for the response it came with; a body is that and its length, a   *)
(* meta that and the time until which it is fresh.  Every operation is     *)
(* atomic on one key; a request makes several.                             *)
(***************************************************************************)
EXTENDS Naturals, Functions

CONSTANTS
  MaxFileSize,      \* with_max_file_size
  CacheTtl          \* cache_ttl of the cluster

VARIABLE cache      \* the stored objects, by key

Stored(key) == key \in DOMAIN cache

(* response_cache_filter: every response is cacheable, from now on. *)
MetaOf(response, time) == [of |-> response, fresh_until |-> time + CacheTtl]

Expired(object, time) == object.meta.fresh_until < time

(* Mutant: an expired object stays until another replaces it. *)
PurgeNothing(key) == cache' = cache

(* Mutant: the query is no part of what is purged. *)
PurgeQueries(key) ==
  cache' = Restrict(cache, { k \in DOMAIN cache : k.path # key.path })

(* purge *)
Purge(key) == cache' = Restrict(cache, DOMAIN cache \ {key})

(* update_meta: fails, and changes nothing, if no object is there. *)
UpdateMeta(key, meta) ==
  cache' = IF Stored(key) THEN [cache EXCEPT ![key].meta = meta] ELSE cache

(* get_miss_handler *)
NewMissHandler(response, time) ==
  [meta |-> MetaOf(response, time), body |-> [of |-> response, len |-> 0]]

(* Mutant: the limit is looked at before the piece is counted. *)
TooLargeLate(object) == object.body.len > MaxFileSize

(* write_body, of a piece of one unit: too large is an error. *)
TooLarge(object) == object.body.len + 1 > MaxFileSize

WithPiece(object) == [object EXCEPT !.body.len = @ + 1]

(* finish: an empty body is an error; insert_async leaves an object that is
   already there. *)
FinishObject(key, object) ==
  cache' = IF object.body.len = 0 \/ Stored(key) THEN cache
           ELSE [k \in DOMAIN cache \cup {key} |->
                   IF k = key THEN object ELSE cache[k]]
=============================================================================
