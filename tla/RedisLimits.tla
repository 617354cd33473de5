----------------------------- MODULE RedisLimits -----------------------------
(***************************************************************************)
(* The limiters of redis.rs on one key of Redis, which several gateways    *)
(* share.  A script runs at once; the calls to Redis of the fixed window   *)
(* and the pipeline of the log are commands that those of other gateways   *)
(* may come between.  The clock a gateway passes to Redis was read before, *)
(* so it may be older than the time, or the clock of the call before it.   *)
(* A second is a tick; tokens and levels are counted in 1/Scale.           *)
(***************************************************************************)
EXTENDS Integers, Sequences, FiniteSets

CONSTANTS
  Gateways,
  Strategies,   \* the limiters to model, a subset of
                \*   {"fixed", "log", "token", "leaky", "semaphore"}
  Limit,        \* limit, capacity, max_concurrency
  Period,       \* seconds a key lives
  Rate, Scale,  \* refill and leak rate: Rate/Scale a second
  MaxLag,       \* bound: a call first reaches Redis before its clock is older
  MaxTime, MaxCalls, MaxFailures,   \* bounds: of the time, of the calls that
                \*   were decided and that failed
  None          \* no key; no expiry

ASSUME RedisLimitsAssumption ==
  /\ Strategies \subseteq {"fixed", "log", "token", "leaky", "semaphore"}
  /\ IsFiniteSet(Gateways)
  /\ Limit \in Nat /\ Rate \in Nat /\ Scale \in Nat /\ Period \in Nat \ {0}
  /\ MaxLag \in Nat /\ MaxTime \in Nat /\ MaxCalls \in Nat /\ MaxFailures \in Nat
  /\ None \notin Nat /\ \A log \in SUBSET (0..MaxTime) : log # None

VARIABLES
  strategy,
  now,
  value, stamp, expires,  \* the key, its second key, and when both expire
  pc, clock,              \* of each gateway
  calls,                  \* history: the calls that were decided
  life,                   \* history: how often the key has expired
  failed                  \* history: calls that ended in an error

key  == <<value, stamp, expires>>
vars == <<strategy, now, key, pc, clock, calls, life, failed>>

Full == Limit * Scale

Init ==
  /\ strategy \in Strategies
  /\ now = 0
  /\ value = None /\ stamp = None /\ expires = None
  /\ pc = [g \in Gateways |-> "idle"] /\ clock = [g \in Gateways |-> 0]
  /\ calls = <<>> /\ life = 0 /\ failed = 0

-----------------------------------------------------------------------------
(* What a call read is forgotten when it returns. *)
Moves(g, from, to) ==
  /\ pc[g] = from /\ pc' = [pc EXCEPT ![g] = to]
  /\ clock' = [clock EXCEPT ![g] = IF to = "idle" THEN 0 ELSE IF to = "read" THEN now ELSE @]

Decides(g, granted) ==
  /\ Len(calls) < MaxCalls
  /\ calls' = Append(calls, [at |-> now, clock |-> clock[g], life |-> life, granted |-> granted])

(* Mutant: the count before this call is compared. *)
WithinBefore(count) == count - 1 <= Limit
Within(count) == count <= Limit

(* Mutant: the count before this call is compared. *)
StartsAtZero(count) == count = 0
StartsPeriod(count) == count = 1

Count == IF value = None THEN 0 ELSE value

(* fixed_window_rate_limit: INCR, and EXPIRE by the first call of a period. *)
Incr(g) ==
  /\ strategy = "fixed"
  /\ value' = Count + 1
  /\ IF StartsPeriod(value')
       THEN Moves(g, "idle", "expire") /\ UNCHANGED calls
       ELSE Moves(g, "idle", "idle") /\ Decides(g, Within(value'))
  /\ UNCHANGED <<strategy, now, stamp, expires, life, failed>>

FixedExpire(g) ==
  /\ strategy = "fixed" /\ Moves(g, "expire", "idle")
  /\ expires' = now + Period
  /\ Decides(g, Within(1))
  /\ UNCHANGED <<strategy, now, value, stamp, life, failed>>

-----------------------------------------------------------------------------
(* The others but the semaphore read the clock before they call Redis. *)
ReadClock(g) ==
  /\ strategy \in {"log", "token", "leaky"} /\ Moves(g, "idle", "read")
  /\ UNCHANGED <<strategy, now, key, calls, life, failed>>

(* sliding_window_log_rate_limit.  ZREVRANGEBYSCORE reads, and nothing at that:
   its bounds are reversed.  The log keeps its entries, one for each second. *)
ZAdd(g) ==
  /\ strategy = "log" /\ Moves(g, "read", "count")
  /\ value' = (IF value = None THEN {} ELSE value) \cup {clock[g]}
  /\ UNCHANGED <<strategy, now, stamp, expires, calls, life, failed>>

ZCard(g) ==
  /\ strategy = "log" /\ Moves(g, "count", "expire")
  /\ Decides(g, Within(IF value = None THEN 0 ELSE Cardinality(value)))
  /\ UNCHANGED <<strategy, now, key, life, failed>>

LogExpire(g) ==
  /\ strategy = "log" /\ Moves(g, "expire", "idle")
  /\ expires' = IF value = None THEN None ELSE now + Period
  /\ UNCHANGED <<strategy, now, value, stamp, calls, life, failed>>

-----------------------------------------------------------------------------
(* The tokens at the time of the call; without a key the bucket is full. *)
Refill(g) ==
  LET tokens == value + (clock[g] - stamp) * Rate
  IN  IF value = None \/ tokens > Full THEN Full ELSE tokens

(* token_bucket_rate_limit: a call that finds no token leaves no trace. *)
TakeToken(g) ==
  /\ strategy = "token" /\ Moves(g, "read", "idle")
  /\ Decides(g, Refill(g) >= Scale)
  /\ IF Refill(g) >= Scale
       THEN value' = Refill(g) - Scale /\ stamp' = clock[g] /\ expires' = now + Period
       ELSE UNCHANGED key
  /\ UNCHANGED <<strategy, now, life, failed>>

(* Mutant: a bucket may leak more than it holds. *)
LeakedAll(g) == IF value = None THEN 0 ELSE value - (clock[g] - stamp) * Rate

Leaked(g) ==
  LET level == value - (clock[g] - stamp) * Rate
  IN  IF value = None \/ level < 0 THEN 0 ELSE level

(* leaky_bucket_rate_limit: a call that is refused fills the bucket, no more,
   as of its own clock. *)
Pour(g) ==
  /\ strategy = "leaky" /\ Moves(g, "read", "idle")
  /\ Decides(g, Leaked(g) < Full)
  /\ value' = IF Leaked(g) < Full THEN Leaked(g) + Scale ELSE Full
  /\ stamp' = clock[g]
  /\ UNCHANGED <<strategy, now, expires, life, failed>>

-----------------------------------------------------------------------------
(* semaphore_rate_limit and release_semaphore. *)
Acquire(g) ==
  /\ strategy = "semaphore"
  /\ Moves(g, "idle", IF Count < Limit THEN "holds" ELSE "idle")
  /\ Decides(g, Count < Limit)
  /\ value' = IF Count < Limit THEN Count + 1 ELSE value
  /\ UNCHANGED <<strategy, now, stamp, expires, life, failed>>

Release(g) ==
  /\ Moves(g, "holds", "idle")
  /\ value' = Count - 1
  /\ UNCHANGED <<strategy, now, stamp, expires, calls, life, failed>>

(* A gateway dies, or loses its connection, before the next command. *)
Fail(g) ==
  /\ pc[g] # "idle" /\ Moves(g, pc[g], "idle")
  /\ failed < MaxFailures /\ failed' = failed + 1
  /\ UNCHANGED <<strategy, now, key, calls, life>>

(* A second passes, and the key may expire. *)
Tick ==
  /\ now < MaxTime /\ now' = now + 1
  /\ \A g \in Gateways : pc[g] = "read" => now' - clock[g] <= MaxLag
  /\ IF expires = now'
       THEN value' = None /\ stamp' = None /\ expires' = None /\ life' = life + 1
       ELSE UNCHANGED <<key, life>>
  /\ UNCHANGED <<strategy, pc, clock, calls, failed>>

Call(g) ==
  \/ Incr(g) \/ FixedExpire(g)
  \/ ReadClock(g) \/ ZAdd(g) \/ ZCard(g) \/ LogExpire(g)
  \/ TakeToken(g) \/ Pour(g)
  \/ Acquire(g) \/ Release(g)

Next == Tick \/ \E g \in Gateways : Call(g) \/ Fail(g)

Spec == Init /\ [][Next]_vars
=============================================================================
