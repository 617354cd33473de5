# Glaive in TLA+

Glaive is an API gateway in Rust on tokio: a `core` crate (listeners, HTTP/1.x
sessions, an upstream connection pool, a raw proxy service) and a `glaive`
crate (the gateway proper: routing, consumers, rate limits, cache, service
discovery). This directory holds TLA+ models of its parts, the TLC
configurations that check them and the TLAPS proofs about them.

## The system

| Part | State | Operations | Hard behaviour |
|---|---|---|---|
| Connection pool (`core/src/pool/pool.rs`, `stream.rs`) | per group a `ConnectionNode`: a `Mutex<HashMap>`, a lock-free `ArrayQueue` of 16 and a remove lock; a map of nodes under an `RwLock` | find, add, remove, idle timeout | threads interleave between queue, mutex and LRU accesses; eviction and idle timers act on ids |
| Connection LRU (`core/src/pool/lru.rs`) | one `LruCache` per thread, a capacity, a drain flag | insert with eviction, pop, drain (never called) | an entry and its connection may live on different threads |
| Duplex (`core/src/service/proxy/duplex.rs`) | two loops joined by `try_join!`, two channels of 32, two flags each | read/write request and response | `select!` cancels reads; bounded channels in both directions; early responses; one side failing |
| Sessions (`core/src/session/downstream.rs`, `upstream.rs`) | headers, body reader and writer, upgrade flag, keep-alive | header and body reads and writes, as tasks | informational responses, end of stream on both sides, upgrades; reader and writer of one body choose its framing apart |
| Body reader and writer (`reader.rs`, `writer.rs`) | read/write state, a 64 KiB buffer | length, chunked and until-closed framing | chunk heads and payloads split across reads |
| Service (`core/src/service`) | a listener loop, a task per connection | accept, connect, proxy, return the stream | a failed request panics its task |
| Server, listeners, streams | sockets | bind, accept, read, write | OS calls |
| Gateway pipeline (`glaive/src/proxy.rs`, `request.rs`, `path.rs`) | a context per request | routing, authentication, limits, cache, upstream choice, retry | order of the phases; retries |
| Rate limits (`limiter.rs`) | one shared 60 s `Rate` | count and compare | global and per-client limits, of all clusters, share it; what it counts a client by is not what authentication knows it by |
| Authentication (`auth.rs`) | none | key or token, access list | decision tree over two lists |
| Cache (`cache.rs`, `bucket.rs`) | maps shared by all requests | lookup, purge, write, update | lookup, expiry and purge interleave |
| Clusters, configuration (`cluster.rs`, `config.rs`, `def.rs`) | built once | validation, building, start | what validation lets through is relied on later |
| Discovery (`discovery.rs`) | the backends of a cluster, their health | first update by pingora's service, then by an updater; registration with Consul | the two overlap; the first error ends one of them |
| Redis limiters (`redis.rs`) | counters in Redis, shared by gateways | fixed window, log, token and leaky bucket, semaphore | commands interleave, clocks are late, gateways die between two commands |

How they interact. An accepted client connection becomes a downstream session.
The service asks the pool for a stream to its peer (or connects one), makes it
an upstream session, and hands both to the duplex, which moves *tasks* (a
header, a piece of the body, an end) between the two loops. A body task is what
the reader gave for one read and what the writer of the other side writes. If
the exchange ends well the stream goes back to the pool. The gateway crate runs
on pingora instead and is a second, separate program on the same idea: pingora
calls its hooks; what its requests share is the rate counter, the cache and the
load balancers, which the services of discovery update beside them. The Redis
limiters are a library of the gateway that nothing in it calls yet.

What makes each part correct:

- **Pool**: a connection is in one place; none is lost, shared or left where no
  eviction can reach it; timers and evictions act only on what they name;
  operations return.
- **Duplex**: each side gets what the other sent and takes it for complete only
  if it is; a stream that goes back can carry the next request; every exchange
  ends, at the latest when both sockets are closed.
- **Bodies**: the bytes of the body, each once and in order, however reads cut the
  message; completion exactly at its end; one framing on both sides.
- **Gateway**: only requests the configuration allows reach an upstream server;
  limits hold under overlap, and refuse nobody else; the cache holds whole bodies under the right keys
  with their own meta; every request ends.
- **Clusters**: what starts has usable routes; the backends become what Consul
  lists; a server that is down is avoided.
- **Redis limiters**: a bound on what each grants in any stretch of time; no key
  that refuses for ever.

The hazards at which the properties aim, with their source lines, are listed
under `hazards` in `PROJECT.json`; `map` there gives the lines each definition
stands for.

## Modules

| Module | What it is |
|---|---|
| `ConnectionPool` | the pool and its LRUs, one step per access to shared memory |
| `IdlePool` | the abstract pool: connections idle or busy, in one group each |
| `ConnectionPoolProperties` | what the pool promises; the refinement mapping to `IdlePool` |
| `ConnectionPoolProofs`, `ConnectionPoolRefinement`, `ConnectionPoolTracking` | the proofs about the pool: ownership; locks, timers and the refinement; the reach of evictions |
| `Duplex`, `DuplexProperties`, `DuplexProofs` | the two loops of one exchange, with client and server |
| `Framing` | how both sessions choose a body's framing from its head |
| `BodyReader`, `BodyWriter` | reader and writer of one body |
| `BodyRelay`, `BodyRelayProperties`, `BodyRelayProofs` | heads, reader, channel and writer composed, with `select!`'s cancellations |
| `ClusterConfig` | the clusters section of a configuration, its validation, the prefix map |
| `GatewayAccess` | what the gateway decides from a request and the configuration alone |
| `ResponseCache` | the map of cached objects and the operations on it |
| `Gateway`, `GatewayProperties`, `GatewayProofs` | requests through filters, cache and connection attempts |
| `Clusters`, `ClustersProperties`, `ClustersProofs` | start of the clusters, discovery and health checks beside Consul and the servers |
| `RedisLimits`, `RedisLimitsProperties`, `RedisLimitsProofs` | the five limiters on one key of Redis |
| `MC...` | instances for TLC |

`ClusterConfig` joins the two halves of the gateway crate: `Clusters` shows that
what `build_cluster` does not refuse has `UsablePrefixes`, and `GatewayAccess`
assumes just that of the clusters its requests meet (`ClustersAssumption`).

Definitions marked "Mutant" are one plausible slip away from the definition
they precede. They are part of no specification; they document which slip each
property notices (`mutants` in `PROJECT.json`).

### ConnectionPool

No pool operation awaits, so each runs to its end on one thread, and threads
interleave between accesses to shared memory: a pop or push of the lock-free
queue, a critical section of a mutex or an `RwLock`. `pc[t]` is where thread `t`
is within its operation.

| Code | State | Actions |
|---|---|---|
| `find_connection`, `get_connection_from_pool` | `own`, `cli`, `grp` | `StartFind`, `FindNoNode`, `TakeHot`, `HotQueueEmpty`, `TakeListed`, `ListEmpty`, `PickUp` |
| `add_connection`, `get_connection_node`, `add_new_connection` | `nodes`, `hot_queue`, `connections` | `StartReturn`, `StartReturnEvicting`, `GetNode`, `NewNode`, `PushHot`, `HotQueueFull`, `InsertList` |
| `remove_connection` on a node, `pop_closed` | `tgt`, `left`, `hand`, `list_lock` | `RemoveNoNode`, `RemoveListed`, `StartScan`, `ScanEnds`, `ScanFinds`, `ScanTakesOther` |
| `connection_idle_timeout` | `idle` | `IdleTimeout` |
| `Lru` | `lru`, `home` | in `StartReturn...`, `PickUp`, `IdleTimeout` |
| the service around it | `phase`, `conn`, `peer` | `Connect`, `ConnectFails`, `ProxyFails` |

A connection is named by its descriptor, as in the code, so a closed one's name
is free for the next (`Connect` takes any name that names no open stream). The
mutex is released by its guard; `list_lock` shows the one critical section that
spans several steps, the scan of the hot queue. The eviction's notification and
the idle timer's wait are one state per connection (`idle`).

### Duplex

`DRead...`, `DSendFailed`, `DWrite...` are the branches of `handle_downstream`,
`URead...`, `USend`, `UWrite...` those of `handle_upstream`; `d_req`, `d_resp`,
`u_req`, `u_resp` are the done flags, `reqs` and `resps` the channels, `permit`
the slot that `try_reserve` got before `select!`. `Iterate` is the top of the
downstream loop: it runs after each branch. A read that `select!` drops is seen
where it loses something: `partial` is the header read so far, `lost` records
that bytes were dropped. Client and server (`ClientSends`, `ServerAnswers`, ...)
are external; a request says whether both are polite, that is, wait for each other and
send what they announced, or may do anything (`Manners`), and whether it is a HEAD,
which the upstream session looks at before anything else in a response header
(`HeaderTask`, `UReadInfo`). A body is a number of
units and every unit is read by one task. The request's header has been relayed
before the model starts, as in the code.

### Framing, BodyReader, BodyWriter, BodyRelay

`Framing` has the four functions that choose a framing (`set_request_body_reader`
and `_writer`, `set_response_body_reader` and `_writer`) on what they look at of
a head, and, as external, how the peers frame a message with such a head. Where
they do not agree is named: `ReadOn`, `WrittenRaw`, `HalfSwitched`, `Listed` (and
`ListedResponse`, for the responses where it matters). The
properties speak of a message that is `Misread` or `Unframed` for one of these
reasons, and of a `HollowRequest`, one that an empty slice ended.

The wire is a sequence of bytes of which only the kind counts (data, chunk size,
extension, CR, LF), and a byte in the buffer is its position on the wire; so a
slice that is wrong by one position is seen as such. `ReadPartially`,
`ReadUntilClosed`, `ReadLeftChunk`, `ReadNextChunk`, `ReadPartialHead` are the
branches of the reader's states, each with any number of bytes the socket may
give. `CancelPartialHead` is the effect of the one await that has changed
something before it (`reader.rs:280`). The writer is a record with operators for its modes,
with what the peer behind it makes of the bytes; `WriteRequest` and
`WriteResponse` are what the sessions do with a task. The end of a chunked upgrade
request is no task (`Task::Done`, which the duplex takes for its own). A chunk head has a
one-digit size; the real limits (64 KiB, 8 KiB) are `BodySize` and `HeadLimit`.

### Gateway

One step per hook of pingora, more where a hook touches shared state more than
once: the filter counts twice (`RequestFilter`, `ClientFilter`), a lookup reads
an object and may purge it later (`Lookup`, `PurgeExpired`). `req[r]` holds the
fields of `RouterCtx` and what pingora keeps of the request. Decisions that
depend on a request and the configuration only are operators of `GatewayAccess`.
An Authorization header (`creds`) is two things: `is` and `of`, what authentication
finds once it has taken every `"Bearer "` and the spaces off it, and `text`, what it is
written as, by which the limiters count (`ClientIdentity`; without a text, by the
address). So one key has as many identities as it has spellings. `tried` records
which requests met which limit and whether they passed it; what they were counted by
(`IdentityOf`) and whose they are (`Holder`) is derived from that in the properties.
A path is the sequence of its segments; a prefix of several segments passes
validation but is never selected, since `select_cluster` compares the first
segment alone. The response is a record that says what it answers, so that the
cache's content can be compared with what was asked, the meta apart from the
body. `Tick` ends both a ttl and a limiter's window. A request that has to wait for
pingora's cache lock is a lookup that comes later.

### Clusters

`Boot` is `main`: a configuration that `build_cluster` refuses is a panic. A
cluster with a discovery then has two services: pingora's own (`"checker"`),
which makes the first update and afterwards checks the health of the backends,
and the updater of `discovery.rs`, which wakes at intervals (`Wake`). An update
is three steps (`Register`, `GetServiceNodes`, `Update`), between which Consul
may change and the other service may run. An error of Consul, or an address that
is no IPv4 address, is an `expect` or `unwrap` and ends the service that met it
(`"dead"`). Consul, the servers and the shutdown are external.

### RedisLimits

A script of Redis is one step, and so is each command outside of one: `Incr` and
`FixedExpire`, `ZAdd`, `ZCard` and `LogExpire`. The clock a gateway passes was read
before (`ReadClock`). `Fail` is a gateway that dies, or loses its connection,
between two steps; `Tick` a second that passes, with the expiry of the key. Only
the time between the reading of a clock and the first command that passes it is
bounded (`MaxLag`); the commands after it may come as late as they like.

## Model checking

| Run | Instance | What it shows |
|---|---|---|
| `pool_safety` | 2 threads, 3 requests, 3 descriptors, 1 group, hot queue 1, LRU 2 | no interleaving shares, loses or stops tracking a pooled connection; timers and evictions act on what they name; the mutex is held exactly while its holder scans |
| `pool_progress` | 2 threads, 2 requests, 2 descriptors, 2 groups, LRU 0 | the pool implements `IdlePool`: a request is only given a connection to its own peer; every operation of fair threads returns, or is the removal that waits for its own mutex |
| `pool_self_deadlock` | 2 threads, 2 requests, 1 group, LRU 1 | finding: that removal is reachable |
| `duplex` | requests, HEADs among them, and responses of 2 pieces, channels of 2, polite peers and any | what is relayed is faithful, a stream that is pooled is over and, between polite peers, reusable; polite exchanges whose request fits its channel complete; exchanges whose sockets are closed end, but for one mutual wait |
| `duplex_stall` | requests of 3 pieces, channels of 2, polite peers | finding: a longer request is not read to its end |
| `duplex_failed_task` | 1 piece each way | finding: a `Failed` task reaches the upstream session |
| `body_relay` | seven messages: lengths 0 and 3, until close, chunked with 0 to 2 chunks, with extensions, with bytes beyond, under sixteen heads; buffer 7, head limit 3, channel 2 | however reads, rewinds, closes and cancellations cut a body, it is read and relayed faithfully, whole if it came whole, and a close is noticed; save in the cases the properties name |
| `relay_terminated` | the same | finding: a chunk head split by a read ends a chunked request early |
| `relay_cancelled` | the same | finding: a cancelled wait for the rest of a head corrupts the head |
| `gateway` | 3 requests, 2 at once, 2 clusters, 8 inputs, 1 tick, bodies of 0 to 2, file size 1, ttl 0, no retries configured | who passes; what limits let pass, and what they refuse for; the cache under overlap, expiry and failure; and that requests end |
| `clusters` | 17 configurations, good and bad, 4 registries, 3 events | what may run has usable routes; backends converge to what Consul lists and servers that are down are avoided, as long as the service concerned lives; answers that cross set a cluster back once at most |
| `redis_limits` | 2 gateways, limit 1, 4 calls, 5 seconds, 1 failure, clocks late by 1 | what each limiter grants in any stretch of time, and which keys never expire |

### Why the bounds are enough

*Pool.* With a hot queue of one entry every second return goes to the map, so both
stores, the overflow between them and the scan of the queue all occur. Two
threads are what any race of the code needs (each shared structure is touched
by at most one finder or adder between two steps of another operation); three
descriptors give one in the queue, one in the map and one in hand. An LRU of
capacity 2 keeps entries of connections that another thread has taken since;
one of 0 makes every return evict its own entry, which is the only case where
the removal finds no node. Threads, requests and descriptors are symmetric, and
symmetry is used only in runs without liveness. For every other size there are
the proofs, of all but `OperationsReturn`.

*Duplex.* Channels of two fill and drain in both directions; pieces of two make
an end different from the last piece and from the first. A polite exchange
completes if the request fits its channel; beyond, `RequestIsRead` is violated.

*Body relay.* A chunk of 3 with its CR LF is 5 bytes and every cut of it by a read
is tried, among them a split CR LF; two chunks in one buffer leave a head behind
a payload; an extension of 3 exceeds the head limit of 3. All cuts of the message by
a close and all numbers of rewound bytes are initial states. The heads lead to
every pair of framings that reader and writer can choose.

*Gateway.* Two requests at once and a third after them are what it takes to look up,
purge, write and look up again; `MaxBody` is one more than `MaxFileSize`; the
configuration's `max_retry` is 0, which the code's comparison turns into two
attempts. Of the two clusters one has keys, an address list, both limits and the
cache, the other tokens, an address list, a limit of 1 per client and no cache. One key
comes in two spellings, to the cluster that asks for it and to the other; two clients
have no address, and one of them a header that is not ASCII, so that a limiter cannot
count it: each exception of `LimitsHold` and `RefusedForCause` occurs, and without it
the property fails.

*Clusters.* Three events are a change of Consul, its going and its coming, or a
server that goes beside a change; one cluster of a configuration has a list, one a
discovery, a third a prefix that is wrong in one way. `localhost` and an address
are the same backend, a node by name is none.

*Redis.* A period is 3 seconds, so a window ends and a second one begins within the
5 seconds; a limit of 1 and 4 calls are enough to exceed each of the bounds, if a
limiter could; a rate of half a call per second makes refills fractions.
Gateways are symmetric; the run has no liveness. Larger limits, delays and
numbers of gateways and calls are the proof's.

`CHECK_DEADLOCK FALSE` stands everywhere: exchanges and requests end, clocks and
calls are bounded, and the pool may be left with every request in a self-deadlocked thread.

### Fairness

- *Pool*: `SF_vars(Continue(t))`. The runtime's threads keep running what they
  have started, and nothing in a pool operation awaits. Where one blocks it is
  on a `parking_lot` mutex, which is eventually fair: one that is free again
  and again is got. No fairness is assumed of requests, timers or evictions.
- *Duplex*: weak fairness of both loops (the runtime polls a task that is woken)
  and of what a polite client and server send.
- *Body relay*: weak fairness of reading and writing, none of cancellation.
- *Gateway*: `WF_vars(\E r \in Requests : Proceed(r))`: as long as some request
  can go on, one does. It is weaker than fairness of each request; requests
  block nobody here, and only so many arrive, so it is enough. None of the
  clock or of arrivals. `FailToConnect` is a step like others: no server is
  assumed to answer.
- *Clusters*: weak fairness of the start, of every service's steps and of each
  health check: the runtime polls them, intervals end, calls to Consul return.
  Changes from outside stop after `MaxEvents`, which is what "when Consul does
  not change any more" needs.

## What the runs found

1. `pool_self_deadlock` (`pool.rs:154`). `remove_connection` puts back what it
   popped through `add_new_connection` while it holds the guard of the mutex
   which that call locks if the hot queue is full again. One return on
   another thread suffices. The thread waits for ever, though `pool.rs:79` says every
   lock is unlocked when the function ends.
2. `duplex_stall` (`duplex.rs:115`). The slot for a request task is reserved
   before `select!`; with a full channel the read branch stays off until some
   response task arrives. A server that waits for the whole request sends none.
3. `duplex_failed_task` (`duplex.rs:138`). A client that closes its side while it
   awaits the response makes the idle read fail; the `Failed` task that follows
   meets a `panic!` that says it should never happen (`upstream.rs:510`).
4. `relay_terminated` (`upstream.rs:506`). The empty slice that asks for more
   bytes is written as an empty chunk, the last one of a chunked request.
   The response path skips such slices (`downstream.rs:650`).
5. `relay_cancelled` (`reader.rs:280`). A partial head is moved to the front of the
   buffer before an await that `select!` may drop; the next call moves it from
   its old place again.

What the properties state as an exception, because the code does it. Some of these
contradict what the repository says; they are marked (!) and have no run of their own,
since each is one branch of the code, visible in the definition that has it:

- Duplex: (!) a 1xx that answers a HEAD ends the response (`HeadInformed`).
  `set_response_body_reader` looks at the method (`upstream.rs:288`) before it comes to the
  branch that is to "Ignore informational headers" (`upstream.rs:304`), so the header is
  the last task: both loops end, the client has the 1xx alone, and the stream goes back to
  a pool that "holds a reusable connection" (`pool.rs:165`) with the final response still to
  come. The two loops wait for each other if `handle_downstream` has a `Failed`
  task to send, still holds its reserved slot, and both channels are full
  (`BothFull`). The end of a chunked upgrade request is taken for the end of the
  response, so its stream may go back unserved (`PooledIsServed`). Header bytes that
  were dropped may leave a rest of a response, but not behind one that its client took
  for complete (`NoResponseLeft`). An upgraded stream goes back to the pool.
- Bodies: an HTTP/1.0 request without a length is read until the close; an
  upgrade request is written raw even if its head announces chunks (the upgrade
  branch of `set_request_body_reader` sets a reader that the lines below it
  replace); a 101 in HTTP/1.0 is no upgrade to the session that writes it; a list
  of codings that ends with `chunked` (`gzip, chunked`) is taken for none, on both sides; a
  connection that closes within a chunk head leaves the reader giving empty
  slices for ever.
- Gateway: (!) a client's requests to one cluster use up its budget at every other
  (`limiter.rs:106`, where one `RATE_LIMITER` counts for all), though
  `limiter.rs:89` has a "client limiter for service/route level": what one cluster grants
  may be spent at another, and the refusal has that cause (`RefusedForCause`).
  (!) A client is counted by the text of its Authorization header
  (`proxy.rs:150-155`), which authentication trims (`auth.rs:68`, `119`): `k`, `Bearer k` and
  `Bearer Bearer k` are one key with three budgets, so its holder may exceed the
  limit. (!) A public cluster counts by whatever header comes too, though
  `limiter.rs:91` says that "for public routes, uses ip by default". A client with
  neither header nor address is not counted; a client with no address is not held to an
  address list (`proxy.rs:133-148`; the TCP listeners always give one). The second
  of two lookups of one expired object may purge a fresh one; a revalidation may give a new body the meta of the purged one;
  `proxy_retry > max_try` makes `max_try + 2` attempts.
- Clusters: the updater ends with the first error of Consul, and with the first node
  whose address is not an IPv4 address; the first update is made by
  pingora's service, so an error there ends the health checks of the cluster for
  good. A prefix of several segments is accepted and never selected. With an
  empty list `upstream: []` a cluster is refused though it has a discovery.
- Redis limiters: the log counts seconds with a call, and never removes one
  (ZREVRANGEBYSCORE reads, with its bounds reversed); a leaky bucket is set to its
  capacity by each refusal, which forgives up to a call; the first call of a
  period whose EXPIRE is lost leaves a count that refuses for ever; a permit that
  is not released is lost for ever.

## Proofs

Eight modules hold proofs that TLAPS checks; what they state holds for every
value of the constants that the named assumptions allow. The numbers of threads,
requests, connections, groups, gateways and clusters, the lengths of bodies,
queues and channels, limits and capacities are all arbitrary. The theorems named after a
property of a run have the same formula as that run.

| Module | Assumptions | Theorems |
|---|---|---|
| `ConnectionPoolProofs` | `PoolAssumption`, `NoMetaAssumption` | `PoolTypeCorrect` (`TypeOK`), `PoolExclusive` (`ExclusiveOwnership`) |
| `ConnectionPoolRefinement` | the same | `LocksAreDisciplined` (`ListLockDiscipline`), `TimersWaitOnIdling` (`TimerOnlyIfIdling`), `NoneIsLost` (`LeavesPoolOnPurpose`), `PoolRefines` (`ImplementsIdlePool`) |
| `ConnectionPoolTracking` | the same | `PooledStaysTracked` (`PooledIsTracked`) |
| `DuplexProofs` | `DuplexAssumption` | `TypesHold`, `ResponsesAreFaithful`, `RequestsAreFaithful`, `NoneIsNeverReceived`, `PooledIsAlwaysOver`, `PooledStaysReusable`: all invariants of the run |
| `BodyRelayProofs` | `ReaderAssumption`, `RelayAssumption` | `RequestsAreReadAsMeant`, `RequestsAreUnderstood`, `ResponsesAgree` (of all heads); `RelayTypeCorrect` (`TypeOK`), `ReaderIsFaithful` (`ReadsFaithfully`), `RelayIsFaithful` (`RelaysFaithfully`), `DoneMeansWhole` (`DoneIsWhole`): all invariants of the run |
| `GatewayProofs` | `GatewayAssumption`, `ClustersAssumption` | `TypesHold`, `OnlyAllowedPassHolds`, `LimitsAreKept` (`LimitsHold`), `RefusalsHaveCause` (`RefusedForCause`), `StoredStaysWhole`, `MetaStaysOwn`, `PurgedStaysGone`, `HitsAnswerTheirUri`, `FreshIsLostOnlyInRace`: all safety properties of the run |
| `ClustersProofs` | `ConfigsAssumption` | `TypesHold`, `RoutesStayUsable`, `ClustersAreSetBackOnce` |
| `RedisLimitsProofs` | `RedisLimitsAssumption` | `TypesHold`, `StuckOnlyAfterFailure`, `PermitsAddUp`, `GrantsAreBounded` (`GrantsBounded`): all invariants of the run |

Each argument goes through an inductive invariant (`IInv`, or the parts named
below), which TLC has confirmed on the instances above.

- *Pool, ownership.* Types alone are not inductive: a `push` appends what the
  thread holds, which is a connection only because no thread is at that step
  with empty hands. `StepInv` says what a thread has in its hands at each step,
  `ProxyInv` that a request that proxies has a stream; `Typing` is their
  conjunction with `TypeOK`. Each step then moves at most a few connections
  between places (queue, map, thread, request), or gives a name that is in none of
  them to a new connection.
- *Pool, refinement.* `NodeInv` says that a group without a node has nothing
  stored, so that a new node loses nothing; `FindInv` that one thread looks up
  for a request, which has no stream meanwhile; `TimerInv` names the group of an
  idle timer. Every step takes an idle connection (`Taking`), drops one
  (`Dropping`), adds one (`Adding`) or leaves the groups as they are (`Staying`);
  these four lemmas carry both the action property and the refinement: in
  `IdlePool` they are its three steps or a stutter.
- *Pool, tracking.* A connection whose entry an LRU gave up must be found by the
  removal that follows. `TrackInv` says where in the hot queue the removal has
  got to: the connection is `Ahead` of its scan, or another thread has pooled it
  again with an entry of its own. A removal by a timer pops the id from its own
  LRU when it returns, so that entry does not count as long as it is under way.
- *Duplex.* `UpstreamInv` and `DownstreamInv` say what the last task of a channel
  says of the loop that sent it. `RequestInv` and `ResponseInv` count the pieces
  of a body in every place between the two sockets; `StreamInv`, `HeaderInv` and
  `OrderInv` say in what order headers and pieces can be there, and `EndInv` that
  an end leaves nothing behind. `PoliteInv` is what polite peers add, and `InformedInv`
  what is known of a HEAD that a 1xx answered: its exception must not hide that of
  another response.
- *Gateway.* For each stage a request is in, `RequestInv` says what let it get
  there and what it holds; `CacheInv` that objects are whole, under the key of
  what they answer, and not purged. `LimitInv` says that an identity's counter is the
  number of those that met it, that no more passed a limit under an identity than it
  grants, and that one which was refused has a counter over its limit; `MetInv` that
  no request meets the same limit twice. `LimitsHold` and `RefusedForCause` follow by counting sets.
- *Clusters.* `SetBackInv`: a set-back takes an answer that the updater or
  pingora's service got before the other applied a newer one, and pingora's
  service asks only once.
- *Framing* is a case distinction over all heads of `RequestHeads` and
  `ResponseHeads`, without a hypothesis about them. Each theorem is an equivalence: the
  framing chosen is the one meant exactly if the head is none of the named exceptions,
  lists of codings among them, so every exception is shown to be one, and to be all.
- *Body reader.* `ReaderInv` says, for every state of the reader, where on the wire it
  is: at a chunk head whose beginning waits in the buffer (`HeadInBuffer`), within a
  payload or its CR LF, of which so many bytes are expected (`ChunkAwaited`), at a byte of
  a body with a length (`ReadsPartially`) or without (`ReadsUntilClosed`); and that
  what was returned is the body up to there. It needs to know what a wire is: heads
  and payloads alternate, and each head says how long its payload is (`Layout`). That is
  a fact about every number of chunks. As induction is out of reach, it is shown by
  the least number for which it fails (`LeastNat`, from the well-foundedness of
  the natural numbers).
- *Body relay.* What the writer has passed on, followed by what waits in the channel, is
  what the reader delivered, and a slice is empty only at the end (`WriterInv`,
  `EmptyTaskEnds`); when the writing side is through, `Settled` says what the peer has.
  `Good` and `Regular` name the exceptions, so that the invariant claims nothing of a
  body after one of them has happened.
- *Redis, permits and expiries.* `PermitInv` counts the holders of the semaphore; `Typing`
  has that a key which is there has not yet expired and that only a semaphore is
  held.
- *Redis, grants.* A bound for any stretch of time becomes inductive as one for
  the stretches that are still open, from some s until now. `GrantInv` has a part
  for each limiter. Tokens: what was granted since s is covered by what the bucket
  lacks and what it was given from s until its stamp (`TokenInv`); the leaky
  bucket is its mirror image, with what refusals forgive (`LeakyInv`). Fixed window:
  the first call of a period sets its end, so a life of the key grants at most the
  limit before that end and the next one after it (`FixedInv`); a window touches two
  lives, and the first call of the earlier lies outside it, or the later is not
  reached. Log: a call whose entry the log no longer has belongs to a gateway that had
  yet to count when the log expired (`LogForgets`); a log that expires within
  a window was not prolonged by the calls in it, which are yet to do so or
  failed (`LogEnds`); and a window touches no more than two logs (`LogOrder`).
  `LagInv` bounds the age of the clocks.

Proving corrected the models. The bound of the log, once stated with one call more
for each *other* gateway, is false: a gateway's own entry can be gone as well. The
bound of the fixed window did not cover a limit of 0. And `Tick` used to stop
the time while a call was between two commands, which nothing in the code does.

Only model-checked is liveness under fairness, which is out of the prover's reach:
`OperationsReturn`, `ExchangeCompletes`, `ClosedEnds`, `WholeIsRelayed`, `CloseIsNoticed`,
`RequestsEnd`, `BackendsConverge`, `DownIsAvoided`. Every invariant and every action property
that a passing run checks is also proved.

## What is not modelled

- Header maps, their parsing and serialisation, keep-alive headers, byte
  counters: data, with no state of their own that others race for. (A client may
  be told `keep-alive` though its connection closes after one request.)
- Listeners, the server's start and signals, the stream wrappers: calls of the
  operating system.
- `drain_connections` of the LRU: nothing calls it.
- Header insertion and removal, SNI, and the route list of the gateway, whose
  methods, strategies and consumers are parsed and logged but never enforced.
- The cache's eviction manager, ranges and pingora's cache lock: pingora's.
- The parsing of YAML, the default proxy, and the two cache calls of the Redis
  client (`SET EX`, `GET`).
- The example server of `src/bin`, which wires the parts of the core crate.

Approximations that a reader should know: at most `InFlight` requests of the
gateway are under way at once; bodies that are not cached have length 0 there;
the duplex does not see how a task's bytes are framed (the body relay does); and
the hot queue's pop and push are atomic (`crossbeam`'s `ArrayQueue` is taken to be
linearizable), as are Redis' commands and scripts; and pingora's `Rate`, an estimator
whose windows slide, is taken to count exactly and to begin anew with each window.

## What would come next

- The reuse of a pooled stream by the next request: `Duplex` composed with
  `IdlePool`, for an upgraded stream or one with bytes left.
- `BodyRelay` for reads of two messages on one connection, if keep-alive comes to
  be served.
- The limiters of `redis.rs` in the place of `limiter.rs`, once the gateway calls
  them: `Gateway` would then share its counters with others.
