------------------------ MODULE RedisLimitsProperties ------------------------
(***************************************************************************)
(* What the limiters grant, and whether they ever grant again.             *)
(***************************************************************************)
EXTENDS RedisLimits

(* The key holds what the strategy keeps in it. *)
TypeOK ==
  /\ strategy \in Strategies
  /\ now \in 0..MaxTime
  /\ value # None =>
       IF strategy = "log" THEN value \subseteq 0..MaxTime ELSE value \in Nat
  /\ stamp # None => stamp \in 0..now
  /\ expires # None => expires \in now..(now + Period)
  /\ pc \in [Gateways -> {"idle", "read", "count", "expire", "holds"}]
  /\ clock \in [Gateways -> 0..now]
  /\ calls \in Seq([at : 0..now, clock : 0..now, life : 0..life, granted : BOOLEAN])
  /\ {life, failed} \subseteq Nat

-----------------------------------------------------------------------------
Between(s, t) == { i \in DOMAIN calls : calls[i].at \in s..t }
Granted(s, t) == { i \in Between(s, t) : calls[i].granted }
Refused(s, t) == Between(s, t) \ Granted(s, t)

(* Two periods may touch: in the time of one they grant less than both may, for
   the first call of a period is granted where it starts. *)
FixedBound ==
  \A s \in 0..MaxTime :
    Cardinality(Granted(s, s + Period - 1)) <= IF Limit = 0 THEN 0 ELSE 2 * Limit - 1

(* The log counts seconds, not calls.  What it grants in a window falls into as
   many seconds as its limit, one for each gateway, whose entry may have expired
   before it was counted or whose call did not prolong the log in time, and one
   for each call that failed before it did; and two logs that touch grant no more
   than each may. *)
LogBound ==
  \A s \in 0..MaxTime :
    LET seconds == Cardinality({ calls[i].clock : i \in Granted(s, s + Period - 1) })
        each    == Limit + Cardinality(Gateways)
    IN  seconds <= each + failed /\ seconds <= 2 * each

(* A bucket of tokens grants its capacity and what was refilled, by whichever
   clocks; an expiry fills it. *)
TokenBound ==
  \A s \in 0..MaxTime : \A t \in s..MaxTime, l \in 0..life :
    Scale * Cardinality({ i \in Granted(s, t) : calls[i].life = l })
      <= Full + Rate * (t - s + MaxLag)

(* A leaky bucket grants its capacity, one more, and what leaked; each refusal
   sets it to its capacity, which forgives up to one call, and what would leak
   by the age of its clock. *)
LeakyBound ==
  \A s \in 0..MaxTime : \A t \in s..MaxTime :
    Scale * Cardinality(Granted(s, t))
      <= Full + Scale + Rate * (t - s + MaxLag)
         + Cardinality(Refused(s, t)) * (Scale + Rate * MaxLag)

(* The semaphore counts those that hold it, and those that failed with it. *)
SemaphoreBound ==
  LET holders == { g \in Gateways : pc[g] = "holds" }
  IN  Cardinality(holders) + failed = Count /\ Count <= Limit

(* Whatever gateways call, in whatever order their commands, with whatever
   clocks, and failing anywhere: a limiter grants no more than it should. *)
GrantsBounded ==
  /\ strategy = "fixed" => FixedBound
  /\ strategy = "log" => LogBound
  /\ strategy = "token" => TokenBound
  /\ strategy = "leaky" => LeakyBound
  /\ strategy = "semaphore" => SemaphoreBound

(* A count that never expires would, once it is at its limit, refuse every call
   for ever.  The key of a window has an expiry, unless a gateway is yet to set
   it, or failed between its two commands.  (The code has no remedy for that: a
   later call finds a count other than one.) *)
StuckOnlyIfFailed ==
  strategy \in {"fixed", "log"} /\ value # None /\ expires = None =>
    failed > 0 \/ \E g \in Gateways : pc[g] \in {"count", "expire"}
=============================================================================
