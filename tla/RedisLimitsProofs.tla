-------------------------- MODULE RedisLimitsProofs --------------------------
(***************************************************************************)
(* For any number of gateways, limits, rates, delays and failures: the     *)
(* types of what Redis keeps, the windows without an end, the permits of   *)
(* the semaphore, and, by counting calls, what the windows and the buckets *)
(* grant over time.                                                        *)
(***************************************************************************)
EXTENDS RedisLimitsProperties, TLAPS, FiniteSetTheorems

(* TypeOK, with what makes it inductive: a key that has not yet expired, a
   bucket with its second key, and a semaphore without expiry, the only limiter
   that is held. *)
Typing ==
  /\ TypeOK
  /\ expires # None => expires > now
  /\ strategy \in {"token", "leaky"} /\ value # None => stamp # None
  /\ strategy = "semaphore" => expires = None
  /\ \A g \in Gateways :
       /\ pc[g] = "holds" => strategy = "semaphore"
       /\ strategy = "semaphore" => pc[g] \in {"idle", "holds"}

Holders == { g \in Gateways : pc[g] = "holds" }

PermitInv == strategy = "semaphore" => SemaphoreBound

Phases == {"idle", "read", "count", "expire", "holds"}

-----------------------------------------------------------------------------
(* A call that moves on keeps the types of what it moves. *)
LEMMA MovesType ==
  ASSUME TypeOK, NEW g \in Gateways, NEW from, NEW to \in Phases, Moves(g, from, to), now' = now
  PROVE  /\ pc' \in [Gateways -> Phases] /\ clock' \in [Gateways -> 0..now]
         /\ pc[g] = from /\ pc' = [pc EXCEPT ![g] = to]
<1>1. now \in 0..now /\ 0 \in 0..now /\ now \in Nat
  BY RedisLimitsAssumption DEF TypeOK
<1>2. PICK c \in 0..now : clock' = [clock EXCEPT ![g] = c]
  BY <1>1 DEF Moves, TypeOK
<1> QED BY <1>1, <1>2 DEF Moves, TypeOK, Phases

LEMMA DecidesType ==
  ASSUME TypeOK, NEW g \in Gateways, NEW granted \in BOOLEAN, Decides(g, granted),
         now' = now, life' = life
  PROVE  calls' \in Seq([at : 0..now, clock : 0..now, life : 0..life, granted : BOOLEAN])
<1>1. now \in 0..now /\ life \in 0..life /\ clock[g] \in 0..now
  BY RedisLimitsAssumption DEF TypeOK
<1> QED BY <1>1 DEF Decides, TypeOK

LEMMA CountType ==
  ASSUME TypeOK, strategy # "log"
  PROVE  Count \in Nat
BY DEF TypeOK, Count

LEMMA TypingInit == Init => Typing /\ PermitInv /\ StuckOnlyIfFailed
<1> SUFFICES ASSUME Init PROVE Typing /\ PermitInv /\ StuckOnlyIfFailed
  OBVIOUS
<1>1. TypeOK
  BY RedisLimitsAssumption DEF Init, TypeOK
<1>2. Typing /\ StuckOnlyIfFailed
  BY <1>1 DEF Init, Typing, StuckOnlyIfFailed
<1>3. Holders = {}
  BY DEF Init, Holders
<1>4. PermitInv
  BY <1>3, FS_EmptySet, RedisLimitsAssumption
     DEF Init, PermitInv, SemaphoreBound, Count, Holders
<1> QED BY <1>2, <1>4

-----------------------------------------------------------------------------
(* What a call leaves in Redis. *)
KeyType(v, s, e) ==
  /\ v # None => IF strategy = "log" THEN v \subseteq 0..MaxTime ELSE v \in Nat
  /\ s # None => s \in 0..now
  /\ e # None => e \in (now + 1)..(now + Period)
  /\ strategy \in {"token", "leaky"} /\ v # None => s # None
  /\ strategy = "semaphore" => e = None

LEMMA KeyHas == Typing => KeyType(value, stamp, expires) /\ now \in Nat
BY RedisLimitsAssumption DEF Typing, TypeOK, KeyType

(* A step of a call at an instant keeps the types if its key does. *)
LEMMA CallFrame ==
  ASSUME Typing, NEW g \in Gateways, NEW from, NEW to \in Phases, Moves(g, from, to),
         UNCHANGED <<strategy, now, life>>,
         KeyType(value', stamp', expires'),
         calls' \in Seq([at : 0..now, clock : 0..now, life : 0..life, granted : BOOLEAN]),
         failed' \in Nat,
         to = "holds" => strategy = "semaphore",
         strategy = "semaphore" => to \in {"idle", "holds"}
  PROVE  Typing'
<1>1. /\ pc' \in [Gateways -> Phases] /\ clock' \in [Gateways -> 0..now]
      /\ pc' = [pc EXCEPT ![g] = to]
  BY MovesType DEF Typing
<1>2. now \in Nat /\ Period \in Nat /\ now \in 0..MaxTime /\ strategy \in Strategies /\ life \in Nat
  BY RedisLimitsAssumption DEF Typing, TypeOK
<1>3. expires' # None => expires' \in now..(now + Period) /\ expires' > now
  BY <1>2 DEF KeyType
<1>4. TypeOK'
  BY <1>1, <1>2, <1>3 DEF TypeOK, KeyType, Phases
<1>5. \A h \in Gateways :
        /\ pc'[h] = "holds" => strategy' = "semaphore"
        /\ strategy' = "semaphore" => pc'[h] \in {"idle", "holds"}
  BY <1>1, <1>2 DEF Typing, TypeOK
<1> QED BY <1>3, <1>4, <1>5 DEF Typing, KeyType

LEMMA TypingCall ==
  ASSUME Typing, PermitInv, NEW g \in Gateways, Call(g)
  PROVE  Typing'
<1> DEFINE Logged == calls' \in Seq([at : 0..now, clock : 0..now, life : 0..life, granted : BOOLEAN])
<1>0. /\ TypeOK /\ KeyType(value, stamp, expires) /\ now \in Nat /\ failed \in Nat /\ life \in Nat
      /\ Period \in Nat \ {0} /\ Scale \in Nat /\ Rate \in Nat /\ Full \in Nat /\ Limit \in Nat
      /\ calls \in Seq([at : 0..now, clock : 0..now, life : 0..life, granted : BOOLEAN])
      /\ clock[g] \in 0..now /\ now \in 0..MaxTime /\ None \notin Nat
  BY KeyHas, RedisLimitsAssumption DEF Typing, TypeOK, Full
<1>1. ASSUME NEW granted \in BOOLEAN, Decides(g, granted), UNCHANGED <<now, life>>
      PROVE  Logged
  BY <1>0, <1>1, DecidesType
<1>2. /\ {"idle", "read", "count", "expire", "holds"} \subseteq Phases
      /\ now + Period \in (now + 1)..(now + Period) /\ now + Period # None
  BY <1>0 DEF Phases
<1>3. CASE Incr(g)
  <2>1. /\ Count \in Nat /\ strategy = "fixed" /\ value' = Count + 1
        /\ UNCHANGED <<strategy, now, stamp, expires, life, failed>>
    BY <1>0, <1>3, CountType DEF Incr
  <2>2. KeyType(value', stamp', expires')
    BY <1>0, <2>1 DEF KeyType
  <2>3. CASE StartsPeriod(value')
    BY <1>0, <1>2, <1>3, <2>1, <2>2, <2>3, CallFrame DEF Incr
  <2>4. CASE ~StartsPeriod(value')
    <3>1. Moves(g, "idle", "idle") /\ Decides(g, Within(value'))
      BY <1>3, <2>4 DEF Incr
    <3>2. Within(value') \in BOOLEAN
      BY DEF Within
    <3>3. Logged
      <4>1. PICK granted \in BOOLEAN : granted = Within(value')
        <5> WITNESS Within(value') \in BOOLEAN
        <5> QED OBVIOUS
      <4> QED BY <1>1, <2>1, <3>1, <4>1
    <3> QED BY <1>0, <1>2, <2>1, <2>2, <3>1, <3>3, CallFrame
  <2> QED BY <2>3, <2>4
<1>4. CASE FixedExpire(g)
  <2>1. /\ strategy = "fixed" /\ Moves(g, "expire", "idle") /\ Decides(g, Within(1))
        /\ expires' = now + Period /\ UNCHANGED <<strategy, now, value, stamp, life, failed>>
    BY <1>4 DEF FixedExpire
  <2>2. KeyType(value', stamp', expires')
    BY <1>0, <1>2, <2>1 DEF KeyType
  <2>3. Logged
    <3>1. Within(1) \in BOOLEAN
      BY DEF Within
    <3>2. PICK granted \in BOOLEAN : granted = Within(1)
      <4> WITNESS Within(1) \in BOOLEAN
      <4> QED OBVIOUS
    <3> QED BY <1>1, <2>1, <3>2
  <2> QED BY <1>0, <1>2, <2>1, <2>2, <2>3, CallFrame
<1>5. CASE ReadClock(g)
  <2>1. /\ strategy # "semaphore" /\ Moves(g, "idle", "read")
        /\ UNCHANGED <<strategy, now, value, stamp, expires, calls, life, failed>>
    BY <1>5 DEF ReadClock, key
  <2> QED BY <1>0, <1>2, <2>1, CallFrame
<1>6. CASE ZAdd(g)
  <2>1. /\ strategy = "log" /\ Moves(g, "read", "count")
        /\ value' = (IF value = None THEN {} ELSE value) \cup {clock[g]}
        /\ UNCHANGED <<strategy, now, stamp, expires, calls, life, failed>>
    BY <1>6 DEF ZAdd
  <2>2. value' \subseteq 0..MaxTime
    <3>1. clock[g] \in 0..MaxTime
      BY <1>0, RedisLimitsAssumption
    <3>2. value # None => value \subseteq 0..MaxTime
      BY <1>0, <2>1 DEF KeyType
    <3> QED BY <2>1, <3>1, <3>2
  <2>3. KeyType(value', stamp', expires')
    BY <1>0, <2>1, <2>2 DEF KeyType
  <2> QED BY <1>0, <1>2, <2>1, <2>3, CallFrame
<1>7. CASE ZCard(g)
  <2>1. /\ strategy = "log" /\ Moves(g, "count", "expire")
        /\ UNCHANGED <<strategy, now, value, stamp, expires, life, failed>>
    BY <1>7 DEF ZCard, key
  <2>2. Logged
    <3> DEFINE granted == Within(IF value = None THEN 0 ELSE Cardinality(value))
    <3>1. granted \in BOOLEAN
      BY DEF Within
    <3>2. Decides(g, granted)
      BY <1>7 DEF ZCard
    <3> HIDE DEF granted
    <3> QED BY <1>1, <2>1, <3>1, <3>2
  <2> QED BY <1>0, <1>2, <2>1, <2>2, CallFrame
<1>8. CASE LogExpire(g)
  <2>1. /\ strategy = "log" /\ Moves(g, "expire", "idle")
        /\ expires' = IF value = None THEN None ELSE now + Period
        /\ UNCHANGED <<strategy, now, value, stamp, calls, life, failed>>
    BY <1>8 DEF LogExpire
  <2>2. KeyType(value', stamp', expires')
    BY <1>0, <1>2, <2>1 DEF KeyType
  <2> QED BY <1>0, <1>2, <2>1, <2>2, CallFrame
<1>9. CASE TakeToken(g)
  <2>1. /\ strategy = "token" /\ Moves(g, "read", "idle")
        /\ Decides(g, Refill(g) >= Scale) /\ UNCHANGED <<strategy, now, life, failed>>
    BY <1>9 DEF TakeToken
  <2>2. Refill(g) \in Int
    <3>1. value # None => value \in Nat /\ stamp \in 0..now
      BY <1>0, <2>1 DEF KeyType
    <3> QED BY <1>0, <3>1 DEF Refill
  <2>3. Logged
    <3>1. PICK granted \in BOOLEAN : granted = (Refill(g) >= Scale)
      <4>1. (Refill(g) >= Scale) \in BOOLEAN
        BY <2>2
      <4> WITNESS (Refill(g) >= Scale) \in BOOLEAN
      <4> QED OBVIOUS
    <3> QED BY <1>1, <2>1, <3>1
  <2>4. KeyType(value', stamp', expires')
    <3>1. CASE Refill(g) >= Scale
      <4>1. value' = Refill(g) - Scale /\ stamp' = clock[g] /\ expires' = now + Period
        BY <1>9, <3>1 DEF TakeToken
      <4>2. value' \in Nat /\ stamp' # None
        BY <1>0, <2>2, <3>1, <4>1
      <4> QED BY <1>0, <1>2, <2>1, <4>1, <4>2 DEF KeyType
    <3>2. CASE ~(Refill(g) >= Scale)
      BY <1>0, <1>9, <3>2 DEF TakeToken, key
    <3> QED BY <3>1, <3>2
  <2> QED BY <1>0, <1>2, <2>1, <2>3, <2>4, CallFrame
<1>10. CASE Pour(g)
  <2>1. /\ strategy = "leaky" /\ Moves(g, "read", "idle") /\ Decides(g, Leaked(g) < Full)
        /\ value' = (IF Leaked(g) < Full THEN Leaked(g) + Scale ELSE Full)
        /\ stamp' = clock[g] /\ UNCHANGED <<strategy, now, expires, life, failed>>
    BY <1>10 DEF Pour
  <2>2. Leaked(g) \in Nat
    <3>1. value # None => value \in Nat /\ stamp \in 0..now
      BY <1>0, <2>1 DEF KeyType
    <3> QED BY <1>0, <3>1 DEF Leaked
  <2>3. Logged
    <3>1. PICK granted \in BOOLEAN : granted = (Leaked(g) < Full)
      <4>1. (Leaked(g) < Full) \in BOOLEAN
        BY <1>0, <2>2
      <4> WITNESS (Leaked(g) < Full) \in BOOLEAN
      <4> QED OBVIOUS
    <3> QED BY <1>1, <2>1, <3>1
  <2>4. value' \in Nat /\ stamp' \in 0..now /\ stamp' # None
    BY <1>0, <2>1, <2>2
  <2>5. KeyType(value', stamp', expires')
    BY <1>0, <2>1, <2>4 DEF KeyType
  <2> QED BY <1>0, <1>2, <2>1, <2>3, <2>5, CallFrame
<1>11. CASE Acquire(g)
  <2>1. /\ strategy = "semaphore" /\ Decides(g, Count < Limit)
        /\ Moves(g, "idle", IF Count < Limit THEN "holds" ELSE "idle")
        /\ value' = (IF Count < Limit THEN Count + 1 ELSE value)
        /\ UNCHANGED <<strategy, now, stamp, expires, life, failed>>
    BY <1>11 DEF Acquire
  <2>2. Count \in Nat
    BY <1>0, <2>1, CountType
  <2>3. Logged
    <3>1. PICK granted \in BOOLEAN : granted = (Count < Limit)
      <4>1. (Count < Limit) \in BOOLEAN
        BY <1>0, <2>2
      <4> WITNESS (Count < Limit) \in BOOLEAN
      <4> QED OBVIOUS
    <3> QED BY <1>1, <2>1, <3>1
  <2>4. KeyType(value', stamp', expires')
    BY <1>0, <2>1, <2>2 DEF KeyType
  <2>5. PICK to \in {"holds", "idle"} : to = IF Count < Limit THEN "holds" ELSE "idle"
    OBVIOUS
  <2> QED BY <1>0, <1>2, <2>1, <2>3, <2>4, <2>5, CallFrame
<1>12. CASE Release(g)
  <2>1. /\ Moves(g, "holds", "idle") /\ value' = Count - 1 /\ strategy = "semaphore"
        /\ UNCHANGED <<strategy, now, stamp, expires, calls, life, failed>>
    BY <1>12 DEF Release, Moves, Typing
  <2>2. Count \in Nat /\ Count # 0
    <3>1. g \in Holders /\ IsFiniteSet(Holders)
      BY <2>1, RedisLimitsAssumption, FS_Subset DEF Moves, Holders
    <3>2. Cardinality(Holders) \in Nat /\ Cardinality(Holders) # 0
      BY <3>1, FS_CardinalityType, FS_EmptySet
    <3>3. Cardinality(Holders) + failed = Count
      BY <2>1 DEF PermitInv, SemaphoreBound, Holders
    <3> QED BY <1>0, <3>2, <3>3
  <2>3. KeyType(value', stamp', expires')
    BY <1>0, <2>1, <2>2 DEF KeyType
  <2> QED BY <1>0, <1>2, <2>1, <2>3, CallFrame
<1> QED BY <1>3, <1>4, <1>5, <1>6, <1>7, <1>8, <1>9, <1>10, <1>11, <1>12 DEF Call

LEMMA TypingNext ==
  ASSUME Typing, PermitInv, [Next]_vars
  PROVE  Typing'
<1>1. ASSUME NEW g \in Gateways, Fail(g)
      PROVE  Typing'
  <2>1. /\ Moves(g, pc[g], "idle") /\ failed' = failed + 1 /\ failed' \in Nat
        /\ UNCHANGED <<strategy, now, value, stamp, expires, calls, life>>
    BY <1>1 DEF Fail, key, Typing, TypeOK
  <2>2. KeyType(value', stamp', expires')
    BY <2>1, KeyHas DEF KeyType
  <2>3. calls' \in Seq([at : 0..now, clock : 0..now, life : 0..life, granted : BOOLEAN])
    BY <2>1 DEF Typing, TypeOK
  <2> QED BY <2>1, <2>2, <2>3, CallFrame DEF Phases
<1>2. CASE Tick
  <2>0. /\ now \in Nat /\ now' = now + 1 /\ now' \in 0..MaxTime /\ life \in Nat
        /\ UNCHANGED <<strategy, pc, clock, calls, failed>>
        /\ Period \in Nat \ {0} /\ None \notin Nat
    BY <1>2, RedisLimitsAssumption DEF Tick, Typing, TypeOK
  <2>1. clock' \in [Gateways -> 0..now']
    BY <2>0 DEF Typing, TypeOK
  <2>2. life' \in Nat /\ life' >= life
    BY <1>2, <2>0 DEF Tick, key
  <2>3. calls' \in Seq([at : 0..now', clock : 0..now', life : 0..life', granted : BOOLEAN])
    <3> DEFINE Old == [at : 0..now, clock : 0..now, life : 0..life, granted : BOOLEAN]
               New == [at : 0..now', clock : 0..now', life : 0..life', granted : BOOLEAN]
    <3>1. Old \subseteq New
      BY <2>0, <2>2
    <3>2. calls \in Seq(Old)
      BY DEF Typing, TypeOK
    <3> HIDE DEF Old, New
    <3>3. calls \in Seq(New)
      BY <3>1, <3>2
    <3> QED BY <2>0, <3>3 DEF New
  <2>4. CASE expires = now'
    <3>1. value' = None /\ stamp' = None /\ expires' = None
      BY <1>2, <2>4 DEF Tick
    <3> QED BY <2>0, <2>1, <2>2, <2>3, <3>1 DEF Typing, TypeOK
  <2>5. CASE expires # now'
    <3>1. UNCHANGED <<value, stamp, expires>>
      BY <1>2, <2>5 DEF Tick, key
    <3>2. expires' # None => expires' > now' /\ expires' \in now'..(now' + Period)
      BY <2>0, <2>5, <3>1 DEF Typing, TypeOK
    <3>3. stamp' # None => stamp' \in 0..now'
      BY <2>0, <3>1 DEF Typing, TypeOK
    <3> QED BY <2>0, <2>1, <2>2, <2>3, <3>1, <3>2, <3>3 DEF Typing, TypeOK
  <2> QED BY <2>4, <2>5
<1>3. CASE UNCHANGED vars
  BY <1>3 DEF vars, key, Typing, TypeOK
<1> QED BY <1>1, <1>2, <1>3, TypingCall DEF Next

-----------------------------------------------------------------------------
(* The permits. *)
LEMMA PermitFrame ==
  ASSUME PermitInv, strategy' = strategy, failed' = failed,
         strategy = "semaphore" => value' = value,
         \A g \in Gateways : pc'[g] = "holds" <=> pc[g] = "holds"
  PROVE  PermitInv'
<1>1. { g \in Gateways : pc'[g] = "holds" } = { g \in Gateways : pc[g] = "holds" }
  OBVIOUS
<1>2. CASE strategy = "semaphore"
  <2>1. Count' = Count
    BY <1>2 DEF Count
  <2> QED BY <1>1, <2>1 DEF PermitInv, SemaphoreBound
<1>3. CASE strategy # "semaphore"
  BY <1>3 DEF PermitInv
<1> QED BY <1>2, <1>3

LEMMA HoldersType == IsFiniteSet(Holders) /\ Cardinality(Holders) \in Nat
BY RedisLimitsAssumption, FS_Subset, FS_CardinalityType DEF Holders

LEMMA PermitNext ==
  ASSUME Typing, PermitInv, [Next]_vars
  PROVE  PermitInv'
<1>0. /\ pc \in [Gateways -> Phases] /\ failed \in Nat /\ None \notin Nat /\ Limit \in Nat
      /\ strategy # "log" => Count \in Nat
  BY RedisLimitsAssumption, CountType DEF Typing, TypeOK, Phases
<1>1. CASE strategy # "semaphore"
  <2>1. strategy' = strategy
    BY DEF Next, Call, Incr, FixedExpire, ReadClock, ZAdd, ZCard, LogExpire, TakeToken, Pour,
           Acquire, Release, Fail, Tick, vars
  <2> QED BY <1>1, <2>1 DEF PermitInv
<1> SUFFICES ASSUME strategy = "semaphore" PROVE PermitInv'
  BY <1>1
<1>2. Cardinality(Holders) + failed = Count /\ Count <= Limit
  BY DEF PermitInv, SemaphoreBound, Holders
<1>3. ASSUME NEW g \in Gateways, Acquire(g)
      PROVE  PermitInv'
  <2>1. CASE Count < Limit
    <3>1. /\ pc[g] = "idle" /\ pc' = [pc EXCEPT ![g] = "holds"] /\ value' = Count + 1
          /\ UNCHANGED <<strategy, failed>>
      BY <1>3, <2>1 DEF Acquire, Moves
    <3>2. Holders' = Holders \cup {g} /\ g \notin Holders
      BY <1>0, <3>1 DEF Holders
    <3>3. Cardinality(Holders') = Cardinality(Holders) + 1
      BY <3>2, HoldersType, FS_AddElement
    <3>4. Count' = Count + 1
      BY <1>0, <3>1 DEF Count
    <3> QED BY <1>0, <1>2, <2>1, <3>1, <3>3, <3>4, HoldersType
            DEF PermitInv, SemaphoreBound, Holders
  <2>2. CASE ~(Count < Limit)
    <3>1. /\ pc[g] = "idle" /\ pc' = [pc EXCEPT ![g] = "idle"] /\ value' = value
          /\ UNCHANGED <<strategy, failed>>
      BY <1>3, <2>2 DEF Acquire, Moves
    <3> QED BY <1>0, <3>1, PermitFrame
  <2> QED BY <2>1, <2>2
<1>4. ASSUME NEW g \in Gateways, Release(g) \/ Fail(g)
      PROVE  PermitInv'
  <2>1. pc[g] = "holds" /\ pc' = [pc EXCEPT ![g] = "idle"] /\ strategy' = strategy
    BY <1>4 DEF Release, Fail, Moves, Typing
  <2>2. Holders' = Holders \ {g} /\ g \in Holders
    BY <1>0, <2>1 DEF Holders
  <2>3. Cardinality(Holders') = Cardinality(Holders) - 1 /\ Cardinality(Holders) # 0
    BY <2>2, HoldersType, FS_RemoveElement, FS_EmptySet
  <2>4. \/ failed' = failed /\ Count' = Count - 1
        \/ failed' = failed + 1 /\ Count' = Count
    <3>1. CASE Release(g)
      <4>1. value' = Count - 1 /\ failed' = failed
        BY <3>1 DEF Release
      <4>2. Count - 1 \in Nat
        BY <1>0, <1>2, <2>3, HoldersType
      <4> QED BY <1>0, <4>1, <4>2 DEF Count
    <3>2. CASE Fail(g)
      BY <3>2 DEF Fail, key, Count
    <3> QED BY <1>4, <3>1, <3>2
  <2> QED BY <1>0, <1>2, <2>1, <2>3, <2>4, HoldersType
          DEF PermitInv, SemaphoreBound, Holders
<1>5. CASE Tick
  <2>1. expires # now'
    BY <1>0, <1>5 DEF Tick, Typing, TypeOK
  <2>2. UNCHANGED <<strategy, value, pc, failed>>
    BY <1>5, <2>1 DEF Tick, key
  <2> QED BY <2>2, PermitFrame
<1>6. CASE UNCHANGED vars
  BY <1>6, PermitFrame DEF vars, key
<1>7. ASSUME NEW g \in Gateways, Call(g), ~Acquire(g), ~Release(g)
      PROVE  FALSE
  BY <1>7 DEF Call, Incr, FixedExpire, ReadClock, ZAdd, ZCard, LogExpire, TakeToken, Pour
<1>8. PermitInv'
  BY <1>3, <1>4, <1>5, <1>6, <1>7 DEF Next
<1> QED BY <1>8

-----------------------------------------------------------------------------
(* A step that leaves the key alone, by a gateway with nothing left to do, or a
   gateway that has something left to do, does not leave a window without end. *)
Pending == \E g \in Gateways : pc[g] \in {"count", "expire"}

LEMMA PendingKept ==
  ASSUME Typing, Pending, NEW g \in Gateways, NEW from \in Phases \ {"count", "expire"},
         NEW to, Moves(g, from, to)
  PROVE  Pending'
<1>1. PICK h \in Gateways : pc[h] \in {"count", "expire"}
  BY DEF Pending
<1>2. pc'[h] = pc[h]
  BY <1>1 DEF Moves, Typing, TypeOK
<1> QED BY <1>1, <1>2 DEF Pending

LEMMA StuckNext ==
  ASSUME Typing, StuckOnlyIfFailed, [Next]_vars
  PROVE  StuckOnlyIfFailed'
<1>0. /\ pc \in [Gateways -> Phases] /\ failed \in Nat /\ now \in Nat /\ None \notin Nat
      /\ Period \in Nat \ {0}
  BY RedisLimitsAssumption DEF Typing, TypeOK, Phases
<1>1. ASSUME NEW g \in Gateways, Call(g) \/ Fail(g)
      PROVE  StuckOnlyIfFailed'
  <2>1. CASE Incr(g)
    <3>1. CASE StartsPeriod(value')
      <4>1. pc' = [pc EXCEPT ![g] = "expire"]
        BY <2>1, <3>1 DEF Incr, Moves
      <4> QED BY <1>0, <4>1 DEF StuckOnlyIfFailed
    <3>2. CASE ~StartsPeriod(value')
      <4>1. /\ Moves(g, "idle", "idle") /\ value' = Count + 1
            /\ UNCHANGED <<strategy, expires, failed>>
        BY <2>1, <3>2 DEF Incr
      <4>2. value # None
        BY <3>2, <4>1 DEF StartsPeriod, Count
      <4>3. strategy = "fixed" /\ expires = None /\ failed = 0 => Pending'
        BY <1>0, <4>1, <4>2, PendingKept DEF StuckOnlyIfFailed, Pending, Phases
      <4>4. strategy = "fixed"
        BY <2>1 DEF Incr
      <4> QED BY <1>0, <4>1, <4>3, <4>4 DEF StuckOnlyIfFailed, Pending
    <3> QED BY <3>1, <3>2
  <2>2. CASE FixedExpire(g)
    BY <1>0, <2>2 DEF FixedExpire, StuckOnlyIfFailed
  <2>3. CASE ReadClock(g)
    <3>1. Moves(g, "idle", "read") /\ UNCHANGED <<strategy, key, failed>>
      BY <2>3 DEF ReadClock
    <3>2. Pending => Pending'
      BY <3>1, PendingKept DEF Phases
    <3> QED BY <3>1, <3>2 DEF StuckOnlyIfFailed, Pending, key
  <2>4. CASE ZAdd(g)
    <3>1. pc' = [pc EXCEPT ![g] = "count"]
      BY <2>4 DEF ZAdd, Moves
    <3> QED BY <1>0, <3>1 DEF StuckOnlyIfFailed
  <2>5. CASE ZCard(g)
    <3>1. pc' = [pc EXCEPT ![g] = "expire"]
      BY <2>5 DEF ZCard, Moves
    <3> QED BY <1>0, <3>1 DEF StuckOnlyIfFailed
  <2>6. CASE LogExpire(g)
    BY <1>0, <2>6 DEF LogExpire, StuckOnlyIfFailed
  <2>7. CASE TakeToken(g) \/ Pour(g) \/ Acquire(g)
    BY <2>7 DEF TakeToken, Pour, Acquire, StuckOnlyIfFailed
  <2>8. CASE Release(g)
    <3>1. strategy' = "semaphore"
      BY <2>8 DEF Release, Moves, Typing
    <3> QED BY <3>1 DEF StuckOnlyIfFailed
  <2>9. CASE Fail(g)
    BY <1>0, <2>9 DEF Fail, StuckOnlyIfFailed
  <2> QED BY <1>1, <2>1, <2>2, <2>3, <2>4, <2>5, <2>6, <2>7, <2>8, <2>9 DEF Call
<1>2. CASE Tick
  BY <1>2 DEF Tick, StuckOnlyIfFailed, key
<1>3. CASE UNCHANGED vars
  BY <1>3 DEF StuckOnlyIfFailed, vars, key
<1> QED BY <1>1, <1>2, <1>3 DEF Next

-----------------------------------------------------------------------------
IInv == Typing /\ PermitInv /\ StuckOnlyIfFailed

(* What the limiters of redis.rs keep in Redis has its types, the permits of the
   semaphore add up, and no window is without end but by a failure. *)
THEOREM Invariance == Spec => []IInv
<1>1. Init => IInv
  BY TypingInit DEF IInv
<1>2. IInv /\ [Next]_vars => IInv'
  BY TypingNext, PermitNext, StuckNext DEF IInv
<1> QED BY <1>1, <1>2, PTL DEF Spec

(* Each strategy of redis.rs finds under its key what it keeps there. *)
THEOREM TypesHold == Spec => []TypeOK
<1>1. IInv => TypeOK
  BY DEF IInv, Typing
<1> QED BY <1>1, Invariance, PTL

(* A window of the fixed limiter or of the log has an end, unless a gateway is
   about to set it or died before it did (redis.rs calls EXPIRE apart). *)
THEOREM StuckOnlyAfterFailure == Spec => []StuckOnlyIfFailed
<1>1. IInv => StuckOnlyIfFailed
  BY DEF IInv
<1> QED BY <1>1, Invariance, PTL

(* semaphore_rate_limit never lets more in than its maximum, and the permits
   that are not held were lost by gateways that failed. *)
THEOREM PermitsAddUp == Spec => [](strategy = "semaphore" => SemaphoreBound)
<1>1. IInv => (strategy = "semaphore" => SemaphoreBound)
  BY DEF IInv, PermitInv
<1> QED BY <1>1, Invariance, PTL
-----------------------------------------------------------------------------
(* What the calls of the history are, and how one joins them. *)
Since(s)        == { i \in DOMAIN calls : calls[i].at >= s }
GrantedSince(s) == { i \in Since(s) : calls[i].granted }
RefusedSince(s) == { i \in Since(s) : ~calls[i].granted }
InLife(l)       == { i \in DOMAIN calls : calls[i].granted /\ calls[i].life = l }

Latest == Len(calls) + 1

CallTypes ==
  \A i \in DOMAIN calls :
    /\ calls[i].at \in 0..now /\ calls[i].clock \in 0..now
    /\ calls[i].life \in 0..life /\ calls[i].granted \in BOOLEAN

(* A call is decided now, by g. *)
Joins(g, granted) ==
  /\ DOMAIN calls' = DOMAIN calls \cup {Latest} /\ Latest \notin DOMAIN calls
  /\ \A i \in DOMAIN calls : calls'[i] = calls[i]
  /\ calls'[Latest].at = now /\ calls'[Latest].clock = clock[g]
  /\ calls'[Latest].life = life /\ calls'[Latest].granted = granted

LEMMA Called ==
  ASSUME Typing
  PROVE  IsFiniteSet(DOMAIN calls) /\ CallTypes
<1>1. /\ DOMAIN calls = 1..Len(calls) /\ Len(calls) \in Nat
      /\ calls \in Seq([at : 0..now, clock : 0..now, life : 0..life, granted : BOOLEAN])
  BY DEF Typing, TypeOK
<1>2. IsFiniteSet(DOMAIN calls)
  BY <1>1, FS_Interval
<1>3. CallTypes
  <2> DEFINE S == [at : 0..now, clock : 0..now, life : 0..life, granted : BOOLEAN]
  <2>1. \A c \in S : /\ c.at \in 0..now /\ c.clock \in 0..now
                     /\ c.life \in 0..life /\ c.granted \in BOOLEAN
    OBVIOUS
  <2>2. calls \in Seq(S)
    BY <1>1
  <2> HIDE DEF S
  <2>3. \A i \in DOMAIN calls : calls[i] \in S
    BY <2>2
  <2> QED BY <2>1, <2>3 DEF CallTypes
<1> QED BY <1>2, <1>3

LEMMA CallJoins ==
  ASSUME Typing, NEW g \in Gateways, NEW granted \in BOOLEAN, Decides(g, granted)
  PROVE  Joins(g, granted)
<1> DEFINE S == [at : 0..now, clock : 0..now, life : 0..life, granted : BOOLEAN]
           c == [at |-> now, clock |-> clock[g], life |-> life, granted |-> granted]
<1>1. c \in S /\ calls \in Seq(S) /\ calls' = Append(calls, c)
  BY RedisLimitsAssumption DEF Typing, TypeOK, Decides
<1>2. c.at = now /\ c.clock = clock[g] /\ c.life = life /\ c.granted = granted
  OBVIOUS
<1> HIDE DEF c, S
<1>3. /\ DOMAIN calls' = DOMAIN calls \cup {Latest} /\ Latest \notin DOMAIN calls
      /\ calls'[Latest] = c /\ \A i \in DOMAIN calls : calls'[i] = calls[i]
  BY <1>1 DEF Latest
<1> QED BY <1>2, <1>3 DEF Joins

(* What a call finds, in sets of calls: it is one of those since then, if then
   is not in the future. *)
LEMMA SinceJoins ==
  ASSUME Typing, NEW g \in Gateways, NEW granted \in BOOLEAN, Joins(g, granted),
         NEW s \in Nat
  PROVE  /\ s <= now => Since(s)' = Since(s) \cup {Latest}
         /\ s > now => Since(s) = {} /\ Since(s)' = {}
         /\ granted /\ s <= now => GrantedSince(s)' = GrantedSince(s) \cup {Latest}
         /\ ~granted \/ s > now => GrantedSince(s)' = GrantedSince(s)
         /\ ~granted /\ s <= now => RefusedSince(s)' = RefusedSince(s) \cup {Latest}
         /\ granted \/ s > now => RefusedSince(s)' = RefusedSince(s)
         /\ Latest \notin Since(s) /\ Latest \notin GrantedSince(s) /\ Latest \notin RefusedSince(s)
<1>1. now \in Nat /\ CallTypes
  BY Called, RedisLimitsAssumption DEF Typing, TypeOK
<1>2. \A i \in DOMAIN calls : calls[i].at \in Nat /\ calls[i].at <= now
  BY <1>1 DEF CallTypes
<1>3. s > now => Since(s) = {} /\ Since(s)' = {}
  BY <1>1, <1>2 DEF Joins, Since
<1>4. s <= now => Since(s)' = Since(s) \cup {Latest}
  BY <1>1, <1>2 DEF Joins, Since
<1>5. Latest \notin Since(s) /\ Latest \notin GrantedSince(s) /\ Latest \notin RefusedSince(s)
  BY DEF Joins, Since, GrantedSince, RefusedSince
<1>6. CASE s <= now
  <2>1. \A i \in Since(s) : calls'[i] = calls[i]
    BY DEF Joins, Since
  <2>2. calls'[Latest].granted = granted
    BY DEF Joins
  <2> QED BY <1>1, <1>4, <1>5, <1>6, <2>1, <2>2 DEF GrantedSince, RefusedSince
<1>7. CASE s > now
  BY <1>1, <1>3, <1>5, <1>7 DEF GrantedSince, RefusedSince
<1> QED BY <1>1, <1>3, <1>4, <1>5, <1>6, <1>7

LEMMA LifeJoins ==
  ASSUME Typing, NEW g \in Gateways, NEW granted \in BOOLEAN, Joins(g, granted), NEW l
  PROVE  /\ granted /\ l = life => InLife(l)' = InLife(l) \cup {Latest}
         /\ ~granted \/ l # life => InLife(l)' = InLife(l)
         /\ Latest \notin InLife(l)
BY DEF Joins, InLife

LEMMA SinceFinite ==
  ASSUME Typing, NEW s
  PROVE  /\ IsFiniteSet(Since(s)) /\ IsFiniteSet(GrantedSince(s)) /\ IsFiniteSet(RefusedSince(s))
         /\ IsFiniteSet(InLife(s))
<1>1. /\ Since(s) \subseteq DOMAIN calls /\ InLife(s) \subseteq DOMAIN calls
      /\ GrantedSince(s) \subseteq DOMAIN calls /\ RefusedSince(s) \subseteq DOMAIN calls
  BY DEF Since, GrantedSince, RefusedSince, InLife
<1> QED BY <1>1, Called, FS_Subset

(* A gateway that read its clock calls before the clock is too old. *)
LagInv == \A g \in Gateways : pc[g] = "read" => now - clock[g] <= MaxLag

LEMMA LagNext ==
  ASSUME Typing, LagInv, [Next]_vars
  PROVE  LagInv'
<1>0. /\ now \in Nat /\ MaxLag \in Nat /\ pc \in [Gateways -> Phases]
      /\ clock \in [Gateways -> 0..now]
  BY RedisLimitsAssumption DEF Typing, TypeOK, Phases
<1>1. ASSUME NEW g \in Gateways, NEW from, NEW to, Moves(g, from, to), now' = now
      PROVE  LagInv'
  <2>1. /\ pc' = [pc EXCEPT ![g] = to]
        /\ \A h \in Gateways : h # g => clock'[h] = clock[h]
        /\ to = "read" => clock'[g] = now
    BY <1>0, <1>1 DEF Moves
  <2> QED BY <1>0, <1>1, <2>1 DEF LagInv
<1>2. ASSUME NEW g \in Gateways, Call(g) \/ Fail(g)
      PROVE  LagInv'
  <2>1. now' = now /\ \E from, to : Moves(g, from, to)
    BY <1>2 DEF Call, Incr, FixedExpire, ReadClock, ZAdd, ZCard, LogExpire, TakeToken, Pour,
                Acquire, Release, Fail
  <2> QED BY <1>1, <2>1
<1>3. CASE Tick
  BY <1>0, <1>3 DEF Tick, LagInv
<1>4. CASE UNCHANGED vars
  BY <1>4 DEF vars, LagInv
<1> QED BY <1>2, <1>3, <1>4 DEF Next

-----------------------------------------------------------------------------
(* Windows of time.  A window that lasts until now has what there is since its
   start, and one that is over, or to come, stays as it is. *)
LEMMA WindowOpen ==
  ASSUME Typing, NEW s \in Nat, NEW t \in Nat, t >= now
  PROVE  Granted(s, t) = GrantedSince(s) /\ Refused(s, t) = RefusedSince(s)
<1>1. \A i \in DOMAIN calls :
        calls[i].at \in s..t <=> calls[i].at >= s
  <2>1. now \in Nat
    BY RedisLimitsAssumption DEF Typing, TypeOK
  <2>2. \A i \in DOMAIN calls : calls[i].at \in 0..now
    BY Called DEF CallTypes
  <2> QED BY <2>1, <2>2
<1>2. \A i \in DOMAIN calls : calls[i].granted \in BOOLEAN
  BY Called DEF CallTypes
<1> QED BY <1>1, <1>2 DEF Granted, Refused, Between, GrantedSince, RefusedSince, Since

LEMMA WindowOver ==
  ASSUME Typing, NEW g \in Gateways, NEW granted \in BOOLEAN, Joins(g, granted),
         NEW s \in Nat, NEW t \in Nat, t < now \/ s > now
  PROVE  Granted(s, t)' = Granted(s, t) /\ Refused(s, t)' = Refused(s, t)
<1>1. calls'[Latest].at \notin s..t
  BY RedisLimitsAssumption DEF Joins, Typing, TypeOK
<1>2. Between(s, t)' = Between(s, t) /\ \A i \in Between(s, t) : calls'[i] = calls[i]
  BY <1>1 DEF Joins, Between
<1> QED BY <1>2 DEF Granted, Refused

LEMMA WindowFinite ==
  ASSUME Typing, NEW s, NEW t
  PROVE  IsFiniteSet(Granted(s, t)) /\ IsFiniteSet(Refused(s, t))
<1>1. Granted(s, t) \subseteq DOMAIN calls /\ Refused(s, t) \subseteq DOMAIN calls
  BY DEF Granted, Refused, Between
<1> QED BY <1>1, Called, FS_Subset

(* Steps that decide nothing and do not touch the key. *)
Quiet == UNCHANGED <<strategy, now, value, stamp, expires, calls, life>>

LEMMA BucketSteps ==
  ASSUME Typing, strategy \in {"token", "leaky"}, [Next]_vars
  PROVE  \/ strategy = "token" /\ \E g \in Gateways : TakeToken(g)
         \/ strategy = "leaky" /\ \E g \in Gateways : Pour(g)
         \/ Tick \/ Quiet
<1>1. ASSUME NEW g \in Gateways, Call(g)
      PROVE  \/ TakeToken(g) /\ strategy = "token"
             \/ Pour(g) /\ strategy = "leaky"
             \/ Quiet
  <2>1. ~Release(g)
    BY DEF Release, Moves, Typing
  <2>2. ReadClock(g) => Quiet
    BY DEF ReadClock, key, Quiet
  <2> QED BY <1>1, <2>1, <2>2
          DEF Call, Incr, FixedExpire, ZAdd, ZCard, LogExpire, TakeToken, Pour, Acquire
<1>2. ASSUME NEW g \in Gateways, Fail(g)
      PROVE  Quiet
  BY <1>2 DEF Fail, key, Quiet
<1>3. UNCHANGED vars => Quiet
  BY DEF vars, key, Quiet
<1> QED BY <1>1, <1>2, <1>3 DEF Next

-----------------------------------------------------------------------------
(* The bucket of tokens: what it granted in this life of the key since s, it
   had, or was given from s until its stamp. *)
Recent(s) == GrantedSince(s) \cap InLife(life)

Covered(s) ==
  Recent(s) # {} =>
    Scale * Cardinality(Recent(s)) <= Full - value + Rate * (stamp - s + MaxLag)

TokenInv ==
  /\ value = None => InLife(life) = {}
  /\ value # None => \A s \in 0..MaxTime : Covered(s)

LEMMA RecentFinite ==
  ASSUME Typing, NEW s
  PROVE  IsFiniteSet(Recent(s)) /\ Cardinality(Recent(s)) \in Nat
<1>1. Recent(s) \subseteq GrantedSince(s)
  BY DEF Recent
<1> QED BY <1>1, SinceFinite, FS_Subset, FS_CardinalityType

(* The arithmetic of a token that is taken: after a time d. *)
LEMMA TakenIsCovered ==
  ASSUME NEW n \in Nat, NEW v \in Nat, NEW refilled \in Nat, NEW c \in Nat, NEW st \in Nat,
         NEW s \in Nat, NEW full \in Nat, NEW rate \in Nat, NEW scale \in Nat, NEW lag \in Nat,
         refilled <= v + (c - st) * rate,
         scale * n <= full - v + rate * (st - s + lag)
  PROVE  scale * (n + 1) <= full - (refilled - scale) + rate * (c - s + lag)
<1>1. rate * (c - s + lag) = rate * (st - s + lag) + (c - st) * rate
  OBVIOUS
<1>2. scale * (n + 1) = scale * n + scale
  OBVIOUS
<1>3. /\ scale * n \in Int /\ rate * (st - s + lag) \in Int /\ (c - st) * rate \in Int
  OBVIOUS
<1>4. \A a \in Int, b \in Int, d \in Int :
        refilled <= v + d /\ a <= full - v + b => a + scale <= full - (refilled - scale) + (b + d)
  OBVIOUS
<1> QED BY <1>1, <1>2, <1>3, <1>4

(* A granted call takes a token: what was granted is covered by what is left. *)
LEMMA TakeCovers ==
  ASSUME Typing, Typing', LagInv, strategy = "token", TokenInv,
         NEW g \in Gateways, TakeToken(g), Refill(g) >= Scale
  PROVE  Joins(g, TRUE) /\ TokenInv' /\ value' # None
<1>0. /\ now \in 0..MaxTime /\ now \in Nat /\ MaxTime \in Nat /\ None \notin Nat
      /\ Rate \in Nat /\ Scale \in Nat /\ MaxLag \in Nat /\ Full \in Nat
      /\ clock[g] \in 0..now /\ clock[g] \in Nat
      /\ value # None => value \in Nat /\ stamp \in Nat
  BY KeyHas, RedisLimitsAssumption DEF Typing, TypeOK, KeyType, Full
<1>1. /\ Moves(g, "read", "idle") /\ Decides(g, Refill(g) >= Scale)
      /\ value' = Refill(g) - Scale /\ stamp' = clock[g] /\ UNCHANGED <<now, life>>
  BY DEF TakeToken
<1>2. now - clock[g] <= MaxLag
  BY <1>1 DEF LagInv, Moves
<1>3. /\ Refill(g) \in Nat /\ Refill(g) <= Full
      /\ value # None => Refill(g) <= value + (clock[g] - stamp) * Rate
  <2>1. Refill(g) \in Int
    BY <1>0 DEF Refill
  <2> QED BY <1>0, <2>1 DEF Refill
<1>4. value' \in Nat /\ value' # None
  BY <1>0, <1>1, <1>3
<1>5. Joins(g, TRUE)
  <2>1. (Refill(g) >= Scale) = TRUE
    OBVIOUS
  <2>2. Decides(g, TRUE)
    BY <1>1, <2>1
  <2> QED BY <2>2, CallJoins
<1>6. ASSUME NEW s \in 0..MaxTime
      PROVE  Covered(s)'
  <2>0. s \in Nat
    BY <1>0
  <2>1. CASE s > now
    <3>1. GrantedSince(s)' = GrantedSince(s) /\ Since(s) = {}
      BY <1>5, <2>0, <2>1, SinceJoins
    <3> QED BY <3>1 DEF Covered, Recent, GrantedSince
  <2>2. CASE s <= now
    <3>1. GrantedSince(s)' = GrantedSince(s) \cup {Latest} /\ Latest \notin GrantedSince(s)
      BY <1>5, <2>0, <2>2, SinceJoins
    <3>2. InLife(life)' = InLife(life) \cup {Latest}
      <4>1. InLife(life)' = { i \in DOMAIN calls' : calls'[i].granted /\ calls'[i].life = life }
        BY <1>1 DEF InLife
      <4> QED BY <1>5, <4>1 DEF Joins, InLife
    <3>3. Recent(s)' = Recent(s) \cup {Latest} /\ Latest \notin Recent(s)
      BY <3>1, <3>2 DEF Recent
    <3>4. Cardinality(Recent(s)') = Cardinality(Recent(s)) + 1
      BY <3>3, RecentFinite, FS_AddElement
    <3>5. PICK n \in Nat : n = Cardinality(Recent(s))
      BY RecentFinite
    <3>6. CASE Recent(s) = {}
      <4>1. n = 0
        BY <3>5, <3>6, FS_EmptySet
      <4>2. Rate * (clock[g] - s + MaxLag) >= 0
        BY <1>0, <1>2, <2>0, <2>2
      <4>3. Scale * (n + 1) = Scale
        BY <1>0, <4>1
      <4>4. \A a \in Nat : Scale <= Full - (Refill(g) - Scale) + a
        BY <1>0, <1>3
      <4>5. Rate * (clock[g] - s + MaxLag) \in Nat
        BY <1>0, <2>0, <4>2
      <4>6. Scale * (n + 1) <= Full - (Refill(g) - Scale) + Rate * (clock[g] - s + MaxLag)
        BY <4>3, <4>4, <4>5
      <4> QED BY <1>1, <3>4, <3>5, <4>6 DEF Covered
    <3>7. CASE Recent(s) # {}
      <4>1. value # None /\ Covered(s)
        BY <3>7 DEF TokenInv, Recent
      <4>2. Scale * n <= Full - value + Rate * (stamp - s + MaxLag)
        BY <3>5, <3>7, <4>1 DEF Covered
      <4>3. Scale * (n + 1) <= Full - (Refill(g) - Scale) + Rate * (clock[g] - s + MaxLag)
        BY <1>0, <1>3, <2>0, <4>1, <4>2, TakenIsCovered
      <4> QED BY <1>1, <3>4, <3>5, <4>3 DEF Covered
    <3> QED BY <3>6, <3>7
  <2> QED BY <1>0, <2>0, <2>1, <2>2
<1> QED BY <1>4, <1>5, <1>6 DEF TokenInv

LEMMA TokenStep ==
  ASSUME Typing, Typing', LagInv, strategy = "token", TokenInv, [Next]_vars
  PROVE  TokenInv'
<1>1. ASSUME NEW g \in Gateways, TakeToken(g)
      PROVE  TokenInv'
  <2>1. CASE Refill(g) >= Scale
    BY <1>1, <2>1, TakeCovers
  <2>2. CASE ~(Refill(g) >= Scale)
    <3>1. /\ Decides(g, Refill(g) >= Scale) /\ UNCHANGED <<now, life, value, stamp>>
      BY <1>1, <2>2 DEF TakeToken, key
    <3>2. (Refill(g) >= Scale) = FALSE
      <4>1. Refill(g) \in Int
        BY KeyHas, RedisLimitsAssumption DEF KeyType, Refill, Full, Typing, TypeOK
      <4>2. (Refill(g) >= Scale) \in BOOLEAN
        BY <4>1, RedisLimitsAssumption
      <4> QED BY <2>2, <4>2
    <3>3. Joins(g, FALSE)
      BY <3>1, <3>2, CallJoins
    <3>4. InLife(life)' = InLife(life)
      <4>1. InLife(life)' = { i \in DOMAIN calls' : calls'[i].granted /\ calls'[i].life = life }
        BY <3>1 DEF InLife
      <4> QED BY <3>3, <4>1 DEF Joins, InLife
    <3>5. \A s \in 0..MaxTime : Recent(s)' = Recent(s)
      <4> TAKE s \in 0..MaxTime
      <4>1. s \in Nat
        BY RedisLimitsAssumption
      <4>2. GrantedSince(s)' = GrantedSince(s)
        BY <3>3, <4>1, SinceJoins
      <4> QED BY <3>4, <4>2 DEF Recent
    <3> QED BY <3>1, <3>4, <3>5 DEF TokenInv, Covered
  <2> QED BY <2>1, <2>2
<1>2. CASE Tick
  <2>1. CASE expires = now'
    <3>1. value' = None /\ life' = life + 1 /\ calls' = calls
      BY <1>2, <2>1 DEF Tick
    <3>2. \A i \in DOMAIN calls : calls[i].life # life + 1
      <4>1. life \in Nat
        BY DEF Typing, TypeOK
      <4>2. \A i \in DOMAIN calls : calls[i].life \in 0..life
        BY Called DEF CallTypes
      <4> QED BY <4>1, <4>2
    <3>3. InLife(life)' = {}
      BY <3>1, <3>2 DEF InLife
    <3> QED BY <3>1, <3>3 DEF TokenInv
  <2>2. CASE expires # now'
    BY <1>2, <2>2 DEF Tick, key, TokenInv, Covered, Recent, GrantedSince, Since, InLife
  <2> QED BY <2>1, <2>2
<1>3. CASE Quiet
  BY <1>3 DEF Quiet, TokenInv, Covered, Recent, GrantedSince, Since, InLife
<1> QED BY <1>1, <1>2, <1>3, BucketSteps

(* What a window holds of one life of the key. *)
WindowOf(s, t, l) == { i \in Granted(s, t) : calls[i].life = l }

WithinTokens(s, t, l) ==
  Scale * Cardinality(WindowOf(s, t, l)) <= Full + Rate * (t - s + MaxLag)

LEMMA TokenWindows ==
  TokenBound <=> \A s \in 0..MaxTime : \A t \in s..MaxTime, l \in 0..life : WithinTokens(s, t, l)
BY DEF TokenBound, WithinTokens, WindowOf

(* The same before and after a step. *)
WindowsOpen ==
  \A s \in Nat, t \in Nat :
    t >= now => Granted(s, t) = GrantedSince(s) /\ Refused(s, t) = RefusedSince(s)

LEMMA WindowsAreOpen == Typing => WindowsOpen
BY WindowOpen DEF WindowsOpen

RecentCounted == \A s \in Nat : Cardinality(Recent(s)) \in Nat

LEMMA RecentIsCounted == Typing => RecentCounted
BY RecentFinite DEF RecentCounted

(* Time is worth more tokens the longer it is. *)
LEMMA LaterIsMore ==
  ASSUME NEW rate \in Nat, NEW a \in Int, NEW b \in Int, a <= b
  PROVE  rate * a <= rate * b
OBVIOUS

LEMMA TokenBoundStep ==
  ASSUME Typing, Typing', LagInv, strategy = "token", TokenInv, TokenBound, [Next]_vars
  PROVE  TokenBound'
<1>0. /\ now \in Nat /\ MaxTime \in Nat /\ life \in Nat /\ Rate \in Nat /\ Scale \in Nat
      /\ MaxLag \in Nat /\ Full \in Nat
  BY RedisLimitsAssumption DEF Typing, TypeOK, Full
<1> SUFFICES ASSUME NEW s \in 0..MaxTime, NEW t \in s..MaxTime, NEW l \in 0..life'
             PROVE  WithinTokens(s, t, l)'
  BY DEF TokenBound, WithinTokens, WindowOf
<1>a. s \in Nat /\ t \in Nat /\ s <= t
  BY <1>0
<1>b. WindowOf(s, t, l)' = WindowOf(s, t, l) /\ l \in 0..life => WithinTokens(s, t, l)'
  BY TokenWindows DEF WithinTokens
<1>1. ASSUME NEW g \in Gateways, TakeToken(g)
      PROVE  WithinTokens(s, t, l)'
  <2>0. life' = life /\ now' = now /\ Decides(g, Refill(g) >= Scale)
    BY <1>1 DEF TakeToken
  <2>1. CASE Refill(g) >= Scale
    <3>1. Joins(g, TRUE) /\ TokenInv' /\ value' # None
      BY <1>1, <2>1, TakeCovers
    <3>2. CASE s <= now /\ now <= t /\ l = life
      <4>1. WindowOf(s, t, l)' = Recent(s)'
        <5>1. Granted(s, t)' = GrantedSince(s)'
          <6>1. Typing' => WindowsOpen'
            BY WindowsAreOpen, PTL
          <6> QED BY <1>a, <2>0, <3>2, <6>1 DEF WindowsOpen
        <5>2. WindowOf(s, t, l)' = { i \in GrantedSince(s)' : calls'[i].life = life' }
          BY <2>0, <3>2, <5>1 DEF WindowOf
        <5>3. Recent(s)' = { i \in GrantedSince(s)' : calls'[i].life = life' }
          BY DEF Recent, InLife, GrantedSince, Since
        <5> QED BY <5>2, <5>3
      <4>2. /\ Latest \in Recent(s)' /\ Covered(s)'
        <5>1. Latest \in Recent(s)'
          BY <2>0, <3>1, <3>2 DEF Joins, Recent, InLife, GrantedSince, Since
        <5> QED BY <3>1, <5>1 DEF TokenInv
      <4>a. value' \in Nat /\ stamp' \in Nat /\ stamp' <= t
        <5>1. /\ value' \in Nat /\ stamp' = clock[g] /\ clock[g] \in 0..now
          BY <1>1, <2>1, <3>1, KeyHas DEF TakeToken, Typing, TypeOK
        <5> QED BY <1>0, <1>a, <3>2, <5>1
      <4>3. Scale * Cardinality(Recent(s)') <= Full - value' + Rate * (stamp' - s + MaxLag)
        BY <4>2 DEF Covered
      <4>4. Rate * (stamp' - s + MaxLag) <= Rate * (t - s + MaxLag)
        <5>1. \A a \in Nat, b \in Nat, c \in Nat, d \in Nat :
                a <= b => /\ a - c + d \in Int /\ b - c + d \in Int
                          /\ a - c + d <= b - c + d
          OBVIOUS
        <5>2. /\ stamp' - s + MaxLag \in Int /\ t - s + MaxLag \in Int
              /\ stamp' - s + MaxLag <= t - s + MaxLag
          BY <1>0, <1>a, <4>a, <5>1
        <5> QED BY <1>0, <5>2, LaterIsMore
      <4>5. PICK x \in Int, y \in Int, n \in Int :
              /\ x = Rate * (stamp' - s + MaxLag) /\ y = Rate * (t - s + MaxLag)
              /\ n = Scale * Cardinality(Recent(s)')
        <5>1. Cardinality(Recent(s)') \in Nat
          <6>1. Typing' => RecentCounted'
            BY RecentIsCounted, PTL
          <6> QED BY <1>a, <6>1 DEF RecentCounted
        <5>2. /\ Rate * (stamp' - s + MaxLag) \in Int /\ Rate * (t - s + MaxLag) \in Int
              /\ Scale * Cardinality(Recent(s)') \in Int
          BY <1>0, <1>a, <4>a, <5>1
        <5> QED BY <5>2
      <4>6. n <= Full + y
        BY <1>0, <4>a, <4>3, <4>4, <4>5
      <4> QED BY <4>1, <4>5, <4>6 DEF WithinTokens
    <3>3. CASE t < now \/ s > now
      <4>1. Granted(s, t)' = Granted(s, t)
        BY <1>a, <3>1, <3>3, WindowOver
      <4>2. \A i \in Granted(s, t) : calls'[i] = calls[i]
        BY <3>1 DEF Joins, Granted, Between
      <4> QED BY <1>b, <2>0, <4>1, <4>2 DEF WindowOf
    <3>4. CASE l # life
      <4>1. \A i \in DOMAIN calls' : calls'[i].life = l => i \in DOMAIN calls
        BY <3>1, <3>4 DEF Joins
      <4>2. WindowOf(s, t, l)' = WindowOf(s, t, l)
        BY <3>1, <4>1 DEF Joins, WindowOf, Granted, Between
      <4> QED BY <1>b, <2>0, <4>2
    <3> QED BY <1>0, <1>a, <3>2, <3>3, <3>4
  <2>2. CASE ~(Refill(g) >= Scale)
    <3>1. Joins(g, FALSE)
      <4>1. (Refill(g) >= Scale) = FALSE
        <5>1. Refill(g) \in Int
          BY KeyHas, RedisLimitsAssumption DEF KeyType, Refill, Full, Typing, TypeOK
        <5>2. (Refill(g) >= Scale) \in BOOLEAN
          BY <5>1, RedisLimitsAssumption
        <5> QED BY <2>2, <5>2
      <4> QED BY <2>0, <4>1, CallJoins
    <3>2. WindowOf(s, t, l)' = WindowOf(s, t, l)
      BY <3>1 DEF Joins, WindowOf, Granted, Between
    <3> QED BY <1>b, <2>0, <3>2
  <2> QED BY <2>1, <2>2
<1>2. CASE Tick \/ Quiet
  <2>1. calls' = calls /\ (life' = life \/ life' = life + 1)
    BY <1>2 DEF Tick, Quiet, key
  <2>2. WindowOf(s, t, l)' = WindowOf(s, t, l)
    BY <2>1 DEF WindowOf, Granted, Between
  <2>3. CASE l \in 0..life
    BY <1>b, <2>2, <2>3
  <2>4. CASE l \notin 0..life
    <3>1. \A i \in DOMAIN calls : calls[i].life # l
      BY <2>4, Called DEF CallTypes
    <3>2. WindowOf(s, t, l)' = {}
      BY <2>2, <3>1 DEF WindowOf, Granted, Between
    <3>3. Rate * (t - s + MaxLag) >= 0
      BY <1>0, <1>a
    <3>4. Scale * Cardinality({}) = 0
      BY <1>0, FS_EmptySet
    <3>5. Full + Rate * (t - s + MaxLag) >= 0
      BY <1>0, <1>a, <3>3
    <3> QED BY <3>2, <3>4, <3>5 DEF WithinTokens
  <2> QED BY <2>3, <2>4
<1> QED BY <1>1, <1>2, BucketSteps

-----------------------------------------------------------------------------
(* The leaky bucket: what it granted since s is still in it, or leaked from s
   until its stamp, or was forgiven by a refusal. *)
Forgiven == Scale + Rate * MaxLag

Poured(s) ==
  Since(s) # {} =>
    Scale * Cardinality(GrantedSince(s))
      <= value + Rate * (stamp - s + MaxLag) + Cardinality(RefusedSince(s)) * Forgiven

LeakyInv ==
  /\ expires = None
  /\ value = None => DOMAIN calls = {}
  /\ value # None => value <= Full + Scale /\ \A s \in 0..MaxTime : Poured(s)

(* The arithmetic of a call that is granted, and of one that is refused. *)
LEMMA PourGranted ==
  ASSUME NEW n \in Nat, NEW x \in Nat, NEW v \in Nat, NEW leaked \in Nat, NEW c \in Nat,
         NEW st \in Nat, NEW s \in Nat, NEW rate \in Nat, NEW scale \in Nat, NEW lag \in Nat,
         leaked >= v - (c - st) * rate,
         scale * n <= v + rate * (st - s + lag) + x
  PROVE  scale * (n + 1) <= (leaked + scale) + rate * (c - s + lag) + x
<1>1. rate * (c - s + lag) = rate * (st - s + lag) + (c - st) * rate
  OBVIOUS
<1>2. scale * (n + 1) = scale * n + scale
  OBVIOUS
<1>3. /\ scale * n \in Int /\ rate * (st - s + lag) \in Int /\ (c - st) * rate \in Int
  OBVIOUS
<1>4. \A a \in Int, b \in Int, d \in Int :
        leaked >= v - d /\ a <= v + b + x => a + scale <= (leaked + scale) + (b + d) + x
  OBVIOUS
<1> QED BY <1>1, <1>2, <1>3, <1>4

LEMMA PourRefused ==
  ASSUME NEW n \in Nat, NEW r \in Nat, NEW v \in Nat, NEW full \in Nat, NEW c \in Nat,
         NEW st \in Nat, NEW s \in Nat, NEW rate \in Nat, NEW scale \in Nat, NEW lag \in Nat,
         v <= full + scale, st - c <= lag,
         scale * n <= v + rate * (st - s + lag) + r * (scale + rate * lag)
  PROVE  scale * n <= full + rate * (c - s + lag) + (r + 1) * (scale + rate * lag)
<1>1. rate * (st - s + lag) = rate * (c - s + lag) + rate * (st - c)
  OBVIOUS
<1>2. rate * (st - c) <= rate * lag
  BY LaterIsMore
<1>3. (r + 1) * (scale + rate * lag) = r * (scale + rate * lag) + scale + rate * lag
  OBVIOUS
<1>4. /\ scale * n \in Int /\ rate * (c - s + lag) \in Int /\ rate * (st - c) \in Int
      /\ rate * lag \in Int /\ r * (scale + rate * lag) \in Int
  OBVIOUS
<1>5. \A a \in Int, b \in Int, d \in Int, e \in Int, k \in Int :
        a <= v + (b + d) + k /\ d <= e => a <= full + b + (k + scale + e)
  OBVIOUS
<1> QED BY <1>1, <1>2, <1>3, <1>4, <1>5

LEMMA SinceCounted ==
  ASSUME Typing, NEW s
  PROVE  Cardinality(GrantedSince(s)) \in Nat /\ Cardinality(RefusedSince(s)) \in Nat
BY SinceFinite, FS_CardinalityType

LEMMA PourKeeps ==
  ASSUME Typing, LagInv, strategy = "leaky", LeakyInv, NEW g \in Gateways, Pour(g)
  PROVE  \E granted \in BOOLEAN : Joins(g, granted) /\ LeakyInv' /\ value' # None
<1>0. /\ now \in 0..MaxTime /\ now \in Nat /\ MaxTime \in Nat /\ None \notin Nat
      /\ Rate \in Nat /\ Scale \in Nat /\ MaxLag \in Nat /\ Full \in Nat
      /\ clock[g] \in 0..now /\ clock[g] \in Nat /\ clock[g] <= now
      /\ value # None => value \in Nat /\ stamp \in Nat /\ stamp <= now
  BY KeyHas, RedisLimitsAssumption DEF Typing, TypeOK, KeyType, Full
<1>1. /\ Moves(g, "read", "idle") /\ Decides(g, Leaked(g) < Full)
      /\ value' = (IF Leaked(g) < Full THEN Leaked(g) + Scale ELSE Full)
      /\ stamp' = clock[g] /\ UNCHANGED <<now, life, expires>>
  BY DEF Pour
<1>2. now - clock[g] <= MaxLag
  BY <1>1 DEF LagInv, Moves
<1>3. /\ Leaked(g) \in Nat
      /\ value # None => Leaked(g) >= value - (clock[g] - stamp) * Rate
  BY <1>0 DEF Leaked
<1>4. value' \in Nat /\ value' # None /\ value' <= Full + Scale
  BY <1>0, <1>1, <1>3
<1>5. PICK granted \in BOOLEAN : granted = (Leaked(g) < Full)
  <2>1. (Leaked(g) < Full) \in BOOLEAN
    BY <1>0, <1>3
  <2> WITNESS (Leaked(g) < Full) \in BOOLEAN
  <2> QED OBVIOUS
<1>6. Joins(g, granted)
  BY <1>1, <1>5, CallJoins
<1>7. ASSUME NEW s \in 0..MaxTime
      PROVE  Poured(s)'
  <2>0. s \in Nat
    BY <1>0
  <2>1. CASE s > now
    BY <1>6, <2>0, <2>1, SinceJoins DEF Poured
  <2>2. CASE s <= now
    <3>0. PICK n \in Nat, r \in Nat : n = Cardinality(GrantedSince(s)) /\ r = Cardinality(RefusedSince(s))
      BY SinceCounted
    <3>1. Rate * (clock[g] - s + MaxLag) \in Nat
      <4>1. clock[g] - s + MaxLag \in Nat
        BY <1>0, <1>2, <2>0, <2>2
      <4> QED BY <1>0, <4>1
    <3>2. Since(s) = {} => n = 0 /\ r = 0
      BY <3>0, FS_EmptySet DEF GrantedSince, RefusedSince
    <3>3. Since(s) # {} =>
            /\ value \in Nat /\ stamp \in Nat /\ stamp <= now /\ value <= Full + Scale
            /\ Scale * n <= value + Rate * (stamp - s + MaxLag) + r * Forgiven
      <4>1. ASSUME Since(s) # {}
            PROVE  value # None
        BY <4>1 DEF LeakyInv, Since
      <4> QED BY <1>0, <3>0, <4>1 DEF LeakyInv, Poured
    <3>4. Forgiven \in Nat /\ r * Forgiven \in Nat
      <4>1. Forgiven \in Nat
        BY <1>0 DEF Forgiven
      <4> QED BY <4>1
    <3>5. CASE granted
      <4>1. /\ Cardinality(GrantedSince(s)') = n + 1 /\ RefusedSince(s)' = RefusedSince(s)
        <5>1. /\ GrantedSince(s)' = GrantedSince(s) \cup {Latest} /\ Latest \notin GrantedSince(s)
              /\ RefusedSince(s)' = RefusedSince(s)
          BY <1>6, <2>0, <2>2, <3>5, SinceJoins
        <5> QED BY <3>0, <5>1, SinceFinite, FS_AddElement
      <4>2. value' = Leaked(g) + Scale
        BY <1>1, <1>5, <3>5
      <4>3. Scale * (n + 1) <= (Leaked(g) + Scale) + Rate * (clock[g] - s + MaxLag) + r * Forgiven
        <5>1. CASE Since(s) = {}
          <6>1. Scale * (n + 1) = Scale
            BY <1>0, <3>2, <5>1
          <6>2. \A a \in Nat, b \in Nat : Scale <= (Leaked(g) + Scale) + a + b
            BY <1>0, <1>3
          <6> QED BY <3>1, <3>4, <6>1, <6>2
        <5>2. CASE Since(s) # {}
          <6>1. value # None
            BY <1>0, <3>3, <5>2
          <6>2. Leaked(g) >= value - (clock[g] - stamp) * Rate
            BY <1>3, <6>1
          <6> QED BY <1>0, <1>3, <2>0, <3>3, <3>4, <5>2, <6>2, PourGranted
        <5> QED BY <5>1, <5>2
      <4> QED BY <1>1, <3>0, <4>1, <4>2, <4>3 DEF Poured, Forgiven
    <3>6. CASE ~granted
      <4>1. /\ GrantedSince(s)' = GrantedSince(s) /\ Cardinality(RefusedSince(s)') = r + 1
        <5>1. /\ RefusedSince(s)' = RefusedSince(s) \cup {Latest} /\ Latest \notin RefusedSince(s)
              /\ GrantedSince(s)' = GrantedSince(s)
          BY <1>6, <2>0, <2>2, <3>6, SinceJoins
        <5> QED BY <3>0, <5>1, SinceFinite, FS_AddElement
      <4>2. value' = Full
        BY <1>1, <1>5, <3>6
      <4>3. Scale * n <= Full + Rate * (clock[g] - s + MaxLag) + (r + 1) * Forgiven
        <5>1. CASE Since(s) = {}
          <6>1. Scale * n = 0 /\ (r + 1) * Forgiven = Forgiven
            BY <1>0, <3>2, <3>4, <5>1
          <6>2. \A a \in Nat, b \in Nat : 0 <= Full + a + b
            BY <1>0
          <6> QED BY <3>1, <3>4, <6>1, <6>2
        <5>2. CASE Since(s) # {}
          <6>1. stamp - clock[g] <= MaxLag
            BY <1>0, <1>2, <3>3, <5>2
          <6>2. Scale * n <= value + Rate * (stamp - s + MaxLag) + r * (Scale + Rate * MaxLag)
            BY <3>3, <5>2 DEF Forgiven
          <6>3. Scale * n <= Full + Rate * (clock[g] - s + MaxLag) + (r + 1) * (Scale + Rate * MaxLag)
            BY <1>0, <2>0, <3>3, <5>2, <6>1, <6>2, PourRefused
          <6> QED BY <6>3 DEF Forgiven
        <5> QED BY <5>1, <5>2
      <4> QED BY <1>1, <3>0, <4>1, <4>2, <4>3 DEF Poured, Forgiven
    <3> QED BY <3>5, <3>6
  <2> QED BY <1>0, <2>0, <2>1, <2>2
<1>8. LeakyInv'
  BY <1>1, <1>4, <1>7 DEF LeakyInv
<1> QED BY <1>4, <1>6, <1>8

LEMMA LeakyStep ==
  ASSUME Typing, LagInv, strategy = "leaky", LeakyInv, [Next]_vars
  PROVE  LeakyInv'
<1>1. CASE Tick
  <2>1. expires # now'
    BY <1>1, RedisLimitsAssumption DEF Tick, LeakyInv, Typing, TypeOK
  <2> QED BY <1>1, <2>1 DEF Tick, key, LeakyInv, Poured, GrantedSince, RefusedSince, Since
<1>2. CASE Quiet
  BY <1>2 DEF Quiet, LeakyInv, Poured, GrantedSince, RefusedSince, Since
<1> QED BY <1>1, <1>2, BucketSteps, PourKeeps

LeakyWithin(s, t) ==
  Scale * Cardinality(Granted(s, t))
    <= Full + Scale + Rate * (t - s + MaxLag) + Cardinality(Refused(s, t)) * Forgiven

LEMMA LeakyBoundStep ==
  ASSUME Typing, Typing', LagInv, strategy = "leaky", LeakyInv, LeakyBound, [Next]_vars
  PROVE  LeakyBound'
<1>0. /\ now \in Nat /\ MaxTime \in Nat /\ Rate \in Nat /\ Scale \in Nat
      /\ MaxLag \in Nat /\ Full \in Nat
  BY RedisLimitsAssumption DEF Typing, TypeOK, Full
<1> SUFFICES ASSUME NEW s \in 0..MaxTime, NEW t \in s..MaxTime
             PROVE  LeakyWithin(s, t)'
  BY DEF LeakyBound, LeakyWithin, Forgiven
<1>a. s \in Nat /\ t \in Nat /\ s <= t
  BY <1>0
<1>b. Granted(s, t)' = Granted(s, t) /\ Refused(s, t)' = Refused(s, t) => LeakyWithin(s, t)'
  BY DEF LeakyBound, LeakyWithin, Forgiven
<1>1. ASSUME NEW g \in Gateways, Pour(g)
      PROVE  LeakyWithin(s, t)'
  <2>1. PICK granted \in BOOLEAN : Joins(g, granted) /\ LeakyInv' /\ value' # None
    BY <1>1, PourKeeps
  <2>2. CASE s <= now /\ now <= t
    <3>0. now' = now
      BY <1>1 DEF Pour
    <3>1. Granted(s, t)' = GrantedSince(s)' /\ Refused(s, t)' = RefusedSince(s)'
      <4>1. Typing' => WindowsOpen'
        BY WindowsAreOpen, PTL
      <4> QED BY <1>a, <2>2, <3>0, <4>1 DEF WindowsOpen
    <3>2. Since(s)' # {} /\ Poured(s)' /\ value' <= Full + Scale
      <4>1. Since(s)' = Since(s) \cup {Latest}
        BY <1>a, <2>1, <2>2, SinceJoins
      <4> QED BY <2>1, <4>1 DEF LeakyInv
    <3>3. value' \in Nat /\ stamp' \in Nat /\ stamp' <= t
      BY <1>0, <1>1, <1>a, <2>1, <2>2 DEF Pour, Typing, TypeOK
    <3>4. PICK n \in Int, k \in Int, x \in Int, y \in Int :
            /\ n = Scale * Cardinality(GrantedSince(s)')
            /\ k = Cardinality(RefusedSince(s)') * Forgiven
            /\ x = Rate * (stamp' - s + MaxLag) /\ y = Rate * (t - s + MaxLag)
      <4>1. Cardinality(GrantedSince(s)') \in Nat /\ Cardinality(RefusedSince(s)') \in Nat
        <5>1. GrantedSince(s)' \subseteq DOMAIN calls' /\ RefusedSince(s)' \subseteq DOMAIN calls'
          BY DEF GrantedSince, RefusedSince, Since
        <5>2. IsFiniteSet(DOMAIN calls')
          BY <2>1, Called, FS_AddElement DEF Joins
        <5> QED BY <5>1, <5>2, FS_Subset, FS_CardinalityType
      <4>2. Forgiven \in Nat
        BY <1>0 DEF Forgiven
      <4>3. /\ Scale * Cardinality(GrantedSince(s)') \in Int
            /\ Cardinality(RefusedSince(s)') * Forgiven \in Int
        BY <1>0, <4>1, <4>2
      <4>4. Rate * (stamp' - s + MaxLag) \in Int /\ Rate * (t - s + MaxLag) \in Int
        BY <1>0, <1>a, <3>3
      <4> QED BY <4>3, <4>4
    <3>5. x <= y
      <4>1. \A a \in Nat, b \in Nat, c \in Nat, d \in Nat :
              a <= b => /\ a - c + d \in Int /\ b - c + d \in Int
                        /\ a - c + d <= b - c + d
        OBVIOUS
      <4>2. /\ stamp' - s + MaxLag \in Int /\ t - s + MaxLag \in Int
            /\ stamp' - s + MaxLag <= t - s + MaxLag
        BY <1>0, <1>a, <3>3, <4>1
      <4> QED BY <1>0, <3>4, <4>2, LaterIsMore
    <3>6. n <= value' + x + k
      BY <3>2, <3>4 DEF Poured, Forgiven
    <3>7. n <= Full + Scale + y + k
      BY <1>0, <3>2, <3>3, <3>4, <3>5, <3>6
    <3> QED BY <3>1, <3>4, <3>7 DEF LeakyWithin, Forgiven
  <2>3. CASE t < now \/ s > now
    BY <1>a, <1>b, <2>1, <2>3, WindowOver
  <2> QED BY <1>0, <1>a, <2>2, <2>3
<1>2. CASE Tick \/ Quiet
  <2>1. calls' = calls
    BY <1>2 DEF Tick, Quiet
  <2> QED BY <1>b, <2>1 DEF Granted, Refused, Between
<1> QED BY <1>1, <1>2, BucketSteps

-----------------------------------------------------------------------------
(* The fixed window. *)
At(phase) == { g \in Gateways : pc[g] = phase }

LEMMA AtFinite ==
  ASSUME NEW phase
  PROVE  IsFiniteSet(At(phase)) /\ Cardinality(At(phase)) \in Nat
BY RedisLimitsAssumption, FS_Subset, FS_CardinalityType DEF At

(* A life of the key that is over: the first call of its period set its end,
   before which it granted all that it did, and after which the later ones do. *)
Ended(l) ==
  \E k \in InLife(l) :
    /\ calls[k].at + Period <= now
    /\ \A i \in InLife(l) : calls[i].at < calls[k].at + Period
    /\ \A j \in DOMAIN calls : calls[j].life > l => calls[j].at >= calls[k].at + Period

(* The count is at least what was granted in this life, and one for the first
   call, which has yet to set the expiry. *)
FixedKey ==
  /\ value = None => InLife(life) = {} /\ At("expire") = {} /\ expires = None
  /\ value # None => value >= 1 /\ Cardinality(InLife(life)) + Cardinality(At("expire")) <= value
  /\ At("expire") # {} => expires = None /\ Cardinality(At("expire")) = 1

FixedLimit ==
  /\ Limit = 0 => \A i \in DOMAIN calls : ~calls[i].granted
  /\ Limit > 0 => Cardinality(InLife(life)) + Cardinality(At("expire")) <= Limit

FixedEnds ==
  Limit > 0 =>
    /\ expires # None => \E k \in InLife(life) : calls[k].at + Period = expires
    /\ \A l \in Nat : l < life => Cardinality(InLife(l)) <= Limit /\ Ended(l)

FixedInv == FixedKey /\ FixedLimit /\ FixedEnds

LEMMA FixedSteps ==
  ASSUME Typing, strategy = "fixed", [Next]_vars
  PROVE  \/ \E g \in Gateways : Incr(g) \/ FixedExpire(g) \/ Fail(g)
         \/ Tick \/ UNCHANGED vars
<1>1. ASSUME NEW g \in Gateways, Call(g)
      PROVE  Incr(g) \/ FixedExpire(g)
  <2>1. ~Release(g)
    BY DEF Release, Moves, Typing
  <2> QED BY <1>1, <2>1
          DEF Call, ReadClock, ZAdd, ZCard, LogExpire, TakeToken, Pour, Acquire
<1> QED BY <1>1 DEF Next

(* A life that is over stays as it is: the calls that are decided are later. *)
LEMMA EndedStays ==
  ASSUME Typing, NEW g \in Gateways, NEW granted \in BOOLEAN, Joins(g, granted),
         now' = now, NEW l \in Nat, l < life, Ended(l)
  PROVE  InLife(l)' = InLife(l) /\ Ended(l)'
<1>0. now \in Nat /\ life \in Nat /\ Period \in Nat /\ CallTypes
  BY Called, RedisLimitsAssumption DEF Typing, TypeOK
<1>1. InLife(l)' = InLife(l)
  BY <1>0 DEF Joins, InLife
<1>2. PICK k \in InLife(l) :
        /\ calls[k].at + Period <= now
        /\ \A i \in InLife(l) : calls[i].at < calls[k].at + Period
        /\ \A j \in DOMAIN calls : calls[j].life > l => calls[j].at >= calls[k].at + Period
  BY DEF Ended
<1>3. \A i \in InLife(l) : calls'[i] = calls[i]
  BY DEF Joins, InLife
<1>4. \A j \in DOMAIN calls' : calls'[j].life > l => calls'[j].at >= calls[k].at + Period
  BY <1>0, <1>2 DEF Joins
<1>5. Ended(l)'
  BY <1>1, <1>2, <1>3, <1>4 DEF Ended
<1> QED BY <1>1, <1>5

(* What a call that is decided leaves of the ends of the lives. *)
LEMMA EndsJoin ==
  ASSUME Typing, FixedEnds, Limit > 0, NEW g \in Gateways, NEW granted \in BOOLEAN,
         Joins(g, granted), UNCHANGED <<now, life>>,
         expires' # None => \E k \in InLife(life)' : calls'[k].at + Period = expires'
  PROVE  FixedEnds'
<1>1. ASSUME NEW l \in Nat, l < life
      PROVE  Cardinality(InLife(l)') <= Limit /\ Ended(l)'
  BY <1>1, EndedStays DEF FixedEnds
<1> QED BY <1>1 DEF FixedEnds, InLife

LEMMA LifeNowJoins ==
  ASSUME Typing, NEW g \in Gateways, NEW granted \in BOOLEAN, Joins(g, granted), life' = life
  PROVE  /\ granted => InLife(life)' = InLife(life) \cup {Latest}
         /\ ~granted => InLife(life)' = InLife(life)
         /\ \A k \in InLife(life) : k \in InLife(life)' /\ calls'[k] = calls[k]
         /\ granted => Cardinality(InLife(life)') = Cardinality(InLife(life)) + 1
<1>1. InLife(life)' = { i \in DOMAIN calls' : calls'[i].granted /\ calls'[i].life = life }
  BY DEF InLife
<1>2. /\ granted => InLife(life)' = InLife(life) \cup {Latest}
      /\ ~granted => InLife(life)' = InLife(life)
      /\ Latest \notin InLife(life)
  BY <1>1 DEF Joins, InLife
<1>3. \A k \in InLife(life) : k \in InLife(life)' /\ calls'[k] = calls[k]
  BY <1>2 DEF Joins, InLife
<1>4. granted => Cardinality(InLife(life)') = Cardinality(InLife(life)) + 1
  BY <1>2, SinceFinite, FS_AddElement
<1> QED BY <1>2, <1>3, <1>4

LEMMA IncrKeeps ==
  ASSUME Typing, strategy = "fixed", FixedInv, NEW g \in Gateways, Incr(g)
  PROVE  FixedInv'
<1>0. /\ now \in Nat /\ life \in Nat /\ Limit \in Nat /\ None \notin Nat /\ Count \in Nat
      /\ value # None => value \in Nat
      /\ pc \in [Gateways -> Phases]
  BY CountType, RedisLimitsAssumption DEF Typing, TypeOK, Phases
<1>1. value' = Count + 1 /\ UNCHANGED <<now, expires, life>>
  BY DEF Incr
<1>c. PICK n \in Nat, m \in Nat :
        n = Cardinality(InLife(life)) /\ m = Cardinality(At("expire"))
  BY AtFinite, SinceFinite, FS_CardinalityType
<1>2. CASE StartsPeriod(value')
  <2>1. Moves(g, "idle", "expire") /\ calls' = calls
    BY <1>2 DEF Incr
  <2>2. value = None
    BY <1>0, <1>1, <1>2 DEF StartsPeriod, Count, FixedInv, FixedKey
  <2>3. InLife(life) = {} /\ At("expire") = {} /\ expires = None
    BY <2>2 DEF FixedInv, FixedKey
  <2>4. At("expire")' = {g}
    BY <1>0, <2>1, <2>3 DEF Moves, At
  <2>5. InLife(life)' = {}
    BY <1>1, <2>1, <2>3 DEF InLife
  <2>6. Cardinality(InLife(life)') = 0 /\ Cardinality(At("expire")') = 1
    BY <2>4, <2>5, FS_EmptySet, FS_Singleton
  <2>7. value' = 1 /\ value' # None
    BY <1>0, <1>2 DEF StartsPeriod
  <2>8. FixedKey'
    BY <1>1, <2>3, <2>6, <2>7 DEF FixedKey
  <2>9. FixedLimit' /\ FixedEnds'
    BY <1>0, <1>1, <2>1, <2>3, <2>6 DEF FixedInv, FixedLimit, FixedEnds, Ended, InLife
  <2> QED BY <2>8, <2>9 DEF FixedInv
<1>3. CASE ~StartsPeriod(value')
  <2>1. Moves(g, "idle", "idle") /\ Decides(g, Within(value'))
    BY <1>3 DEF Incr
  <2>2. value # None /\ value' = value + 1 /\ value' # None /\ value' \in Nat /\ value' >= 1
    BY <1>0, <1>1, <1>3 DEF StartsPeriod, Count
  <2>3. PICK granted \in BOOLEAN : granted = Within(value')
    <3>1. Within(value') \in BOOLEAN
      BY <1>0, <2>2 DEF Within
    <3> WITNESS Within(value') \in BOOLEAN
    <3> QED OBVIOUS
  <2>4. Joins(g, granted)
    BY <2>1, <2>3, CallJoins
  <2>5. At("expire")' = At("expire")
    BY <1>0, <2>1 DEF Moves, At
  <2>6. n + m <= value
    BY <1>c, <2>2 DEF FixedInv, FixedKey
  <2>7. granted => value' <= Limit
    BY <2>3 DEF Within
  <2>8. /\ granted => Cardinality(InLife(life)') = n + 1
        /\ ~granted => Cardinality(InLife(life)') = n
    BY <1>1, <1>c, <2>4, LifeNowJoins
  <2>9. Cardinality(InLife(life)') + Cardinality(At("expire")') <= value'
    BY <1>0, <1>c, <2>2, <2>5, <2>6, <2>8
  <2>10. FixedKey'
    BY <1>1, <2>2, <2>5, <2>9 DEF FixedInv, FixedKey
  <2>11. FixedLimit'
    <3>1. CASE Limit = 0
      <4>1. ~granted
        BY <2>2, <2>7, <3>1
      <4> QED BY <2>4, <3>1, <4>1 DEF FixedInv, FixedLimit, Joins
    <3>2. CASE Limit > 0
      <4>1. n + m <= Limit
        BY <1>c, <3>2 DEF FixedInv, FixedLimit
      <4>2. Cardinality(InLife(life)') + Cardinality(At("expire")') <= Limit
        BY <1>0, <1>c, <2>2, <2>5, <2>6, <2>7, <2>8, <4>1
      <4> QED BY <1>0, <3>2, <4>2 DEF FixedLimit
    <3> QED BY <1>0, <3>1, <3>2
  <2>12. FixedEnds'
    <3>1. CASE Limit > 0
      <4>1. expires' # None => \E k \in InLife(life)' : calls'[k].at + Period = expires'
        BY <1>1, <2>4, <3>1, LifeNowJoins DEF FixedInv, FixedEnds
      <4> QED BY <1>1, <2>4, <3>1, <4>1, EndsJoin DEF FixedInv
    <3> QED BY <3>1 DEF FixedEnds
  <2> QED BY <2>10, <2>11, <2>12 DEF FixedInv
<1> QED BY <1>2, <1>3

LEMMA FixedExpireKeeps ==
  ASSUME Typing, strategy = "fixed", FixedInv, NEW g \in Gateways, FixedExpire(g)
  PROVE  FixedInv'
<1>0. /\ now \in Nat /\ life \in Nat /\ Limit \in Nat /\ None \notin Nat /\ Period \in Nat
      /\ value # None => value \in Nat
      /\ pc \in [Gateways -> Phases]
  BY RedisLimitsAssumption DEF Typing, TypeOK, Phases
<1>1. /\ Moves(g, "expire", "idle") /\ Decides(g, Within(1)) /\ expires' = now + Period
      /\ UNCHANGED <<now, value, life>>
  BY DEF FixedExpire
<1>2. PICK granted \in BOOLEAN : granted = Within(1)
  <2>1. Within(1) \in BOOLEAN
    BY <1>0 DEF Within
  <2> WITNESS Within(1) \in BOOLEAN
  <2> QED OBVIOUS
<1>3. Joins(g, granted) /\ (granted <=> Limit > 0)
  <2>1. Joins(g, granted)
    BY <1>1, <1>2, CallJoins
  <2>2. Within(1) <=> Limit > 0
    BY <1>0 DEF Within
  <2>3. granted <=> Limit > 0
    BY <1>2, <2>2, Zenon
  <2> QED BY <2>1, <2>3
<1>4. PICK n \in Nat : n = Cardinality(InLife(life))
  BY SinceFinite, FS_CardinalityType
<1>5. /\ g \in At("expire") /\ Cardinality(At("expire")) = 1 /\ value # None
      /\ At("expire")' = {} /\ Cardinality(At("expire")') = 0
  <2>1. g \in At("expire")
    BY <1>1 DEF Moves, At
  <2>2. Cardinality(At("expire")) = 1 /\ value # None
    BY <2>1 DEF FixedInv, FixedKey
  <2>3. At("expire")' = At("expire") \ {g}
    BY <1>0, <1>1 DEF Moves, At
  <2>4. Cardinality(At("expire")') = 0
    BY <2>1, <2>2, <2>3, AtFinite, FS_RemoveElement
  <2>5. At("expire")' = {}
    BY <2>3, <2>4, AtFinite, FS_Subset, FS_EmptySet
  <2> QED BY <2>1, <2>2, <2>4, <2>5
<1>6. n + 1 <= value /\ value >= 1 /\ (Limit > 0 => n + 1 <= Limit)
  BY <1>4, <1>5 DEF FixedInv, FixedKey, FixedLimit
<1>7. /\ granted => Cardinality(InLife(life)') = n + 1
      /\ ~granted => Cardinality(InLife(life)') = n
  BY <1>1, <1>3, <1>4, LifeNowJoins
<1>8. FixedKey'
  <2>1. Cardinality(InLife(life)') + Cardinality(At("expire")') <= value'
    BY <1>0, <1>1, <1>4, <1>5, <1>6, <1>7
  <2> QED BY <1>1, <1>5, <1>6, <2>1 DEF FixedKey
<1>9. FixedLimit'
  <2>1. Limit = 0 => \A i \in DOMAIN calls' : ~calls'[i].granted
    BY <1>0, <1>3 DEF FixedInv, FixedLimit, Joins
  <2>2. Limit > 0 => Cardinality(InLife(life)') + Cardinality(At("expire")') <= Limit
    BY <1>0, <1>3, <1>4, <1>5, <1>6, <1>7
  <2> QED BY <2>1, <2>2 DEF FixedLimit
<1>10. FixedEnds'
  <2>1. CASE Limit > 0
    <3>1. Latest \in InLife(life)' /\ calls'[Latest].at + Period = expires'
      BY <1>1, <1>3, <2>1, LifeNowJoins DEF Joins
    <3> QED BY <1>1, <1>3, <2>1, <3>1, EndsJoin DEF FixedInv
  <2> QED BY <2>1 DEF FixedEnds
<1> QED BY <1>8, <1>9, <1>10 DEF FixedInv

LEMMA FixedStep ==
  ASSUME Typing, strategy = "fixed", FixedInv, [Next]_vars
  PROVE  FixedInv'
<1>0. /\ now \in Nat /\ life \in Nat /\ Limit \in Nat /\ None \notin Nat /\ Period \in Nat
      /\ value # None => value \in Nat
      /\ expires # None => expires > now
      /\ pc \in [Gateways -> Phases]
  BY RedisLimitsAssumption DEF Typing, TypeOK, Phases
<1>1. ASSUME NEW g \in Gateways, Fail(g)
      PROVE  FixedInv'
  <2>1. /\ pc' = [pc EXCEPT ![g] = "idle"] /\ UNCHANGED <<now, value, expires, calls, life>>
    BY <1>1 DEF Fail, Moves, key
  <2>2. At("expire")' = At("expire") \ {g}
    BY <1>0, <2>1 DEF At
  <2>3. /\ Cardinality(At("expire")') <= Cardinality(At("expire"))
        /\ Cardinality(At("expire")') \in Nat /\ Cardinality(At("expire")) \in Nat
    BY <2>2, AtFinite, FS_Subset, FS_CardinalityType
  <2>4. /\ InLife(life)' = InLife(life)
        /\ Cardinality(InLife(life)) \in Nat
    BY <2>1, SinceFinite, FS_CardinalityType DEF InLife
  <2>5. At("expire")' # {} => At("expire") # {} /\ Cardinality(At("expire")') = 1
    <3>1. ASSUME At("expire")' # {}
          PROVE  At("expire") # {} /\ Cardinality(At("expire")') = 1
      <4>1. At("expire") # {} /\ Cardinality(At("expire")) = 1
        BY <2>2, <3>1 DEF FixedInv, FixedKey
      <4>2. Cardinality(At("expire")') # 0
        <5>1. IsFiniteSet(At("expire")')
          BY <2>2, AtFinite, FS_Subset
        <5> QED BY <3>1, <5>1, FS_EmptySet
      <4> QED BY <2>3, <4>1, <4>2
    <3> QED BY <3>1
  <2>6. FixedKey'
    BY <1>0, <2>1, <2>2, <2>3, <2>4, <2>5 DEF FixedInv, FixedKey
  <2>7. FixedLimit'
    BY <1>0, <2>1, <2>3, <2>4 DEF FixedInv, FixedLimit
  <2>8. FixedEnds'
    BY <2>1 DEF FixedInv, FixedEnds, Ended, InLife
  <2> QED BY <2>6, <2>7, <2>8 DEF FixedInv
<1>2. CASE Tick
  <2>0. now' = now + 1 /\ UNCHANGED <<pc, calls>> /\ At("expire")' = At("expire")
    BY <1>2 DEF Tick, At
  <2>a. \A l : InLife(l)' = { i \in DOMAIN calls : calls[i].granted /\ calls[i].life = l }
    BY <2>0 DEF InLife
  <2>e. ASSUME NEW l \in Nat, Ended(l)
        PROVE  Ended(l)'
    <3>1. PICK k \in InLife(l) :
            /\ calls[k].at + Period <= now
            /\ \A i \in InLife(l) : calls[i].at < calls[k].at + Period
            /\ \A j \in DOMAIN calls : calls[j].life > l => calls[j].at >= calls[k].at + Period
      BY <2>e DEF Ended
    <3>2. calls[k].at \in Nat
      BY Called DEF CallTypes, InLife
    <3>3. calls[k].at + Period <= now'
      BY <1>0, <2>0, <3>1, <3>2
    <3> QED BY <2>0, <3>1, <3>3 DEF Ended, InLife
  <2>1. CASE expires = now'
    <3>1. value' = None /\ expires' = None /\ life' = life + 1
      BY <1>2, <2>1 DEF Tick
    <3>2. expires # None /\ At("expire") = {}
      <4>1. expires # None
        BY <1>0, <2>0, <2>1
      <4> QED BY <4>1 DEF FixedInv, FixedKey
    <3>3. \A i \in DOMAIN calls : calls[i].life <= life /\ calls[i].life \in Nat /\ calls[i].at <= now
                                  /\ calls[i].at \in Nat
      BY <1>0, Called DEF CallTypes
    <3>4. InLife(life)' = {}
      <4>1. InLife(life)' = { i \in DOMAIN calls : calls[i].granted /\ calls[i].life = life + 1 }
        BY <2>0, <3>1 DEF InLife
      <4> QED BY <1>0, <3>3, <4>1
    <3>5. FixedKey'
      BY <2>0, <3>1, <3>2, <3>4 DEF FixedKey
    <3>6. FixedLimit'
      <4>1. Cardinality(InLife(life)') = 0 /\ Cardinality(At("expire")') = 0
        BY <2>0, <3>2, <3>4, FS_EmptySet
      <4> QED BY <1>0, <2>0, <4>1 DEF FixedInv, FixedLimit
    <3>7. FixedEnds'
      <4>1. SUFFICES ASSUME Limit > 0, NEW l \in Nat, l < life'
                     PROVE  Cardinality(InLife(l)') <= Limit /\ Ended(l)'
        BY <3>1 DEF FixedEnds, InLife
      <4>2. InLife(l)' = InLife(l)
        BY <2>0 DEF InLife
      <4>3. CASE l < life
        BY <2>e, <4>1, <4>2, <4>3 DEF FixedInv, FixedEnds
      <4>4. CASE l = life
        <5>1. PICK n \in Nat, m \in Nat :
                n = Cardinality(InLife(life)) /\ m = Cardinality(At("expire"))
          BY AtFinite, SinceFinite, FS_CardinalityType
        <5>2. n + m <= Limit
          BY <4>1, <5>1 DEF FixedInv, FixedLimit
        <5>3. Cardinality(InLife(l)') <= Limit
          BY <1>0, <4>2, <4>4, <5>1, <5>2
        <5>4. PICK k \in InLife(life) : calls[k].at + Period = expires
          BY <3>2, <4>1 DEF FixedInv, FixedEnds
        <5>5. /\ calls'[k].at + Period <= now'
              /\ \A i \in InLife(l)' : calls'[i].at < calls'[k].at + Period
              /\ \A j \in DOMAIN calls' : ~(calls'[j].life > l)
          <6>1. calls[k].at + Period = now + 1
            BY <2>0, <2>1, <5>4
          <6>2. \A i \in DOMAIN calls : calls[i].at < calls[k].at + Period
            BY <1>0, <3>3, <6>1
          <6>3. \A j \in DOMAIN calls : ~(calls[j].life > l)
            BY <1>0, <3>3, <4>4
          <6>4. calls[k].at + Period <= now'
            BY <1>0, <2>0, <6>1
          <6> QED BY <2>0, <4>2, <6>2, <6>3, <6>4 DEF InLife
        <5>6. Ended(l)'
          BY <4>2, <4>4, <5>4, <5>5 DEF Ended
        <5> QED BY <5>3, <5>6
      <4> QED BY <1>0, <3>1, <4>1, <4>3, <4>4
    <3> QED BY <3>5, <3>6, <3>7 DEF FixedInv
  <2>2. CASE expires # now'
    <3>1. UNCHANGED <<value, expires, life>>
      BY <1>2, <2>2 DEF Tick, key
    <3>2. FixedKey' /\ FixedLimit'
      BY <2>0, <3>1 DEF FixedInv, FixedKey, FixedLimit, InLife
    <3>3. FixedEnds'
      <4>1. \A l \in Nat : InLife(l)' = InLife(l)
        BY <2>0 DEF InLife
      <4>2. InLife(life)' = InLife(life)
        BY <2>0, <3>1 DEF InLife
      <4> QED BY <2>0, <2>e, <3>1, <4>1, <4>2 DEF FixedInv, FixedEnds
    <3> QED BY <3>2, <3>3 DEF FixedInv
  <2> QED BY <2>1, <2>2
<1>3. CASE UNCHANGED vars
  <2>1. UNCHANGED <<now, value, expires, pc, calls, life>>
    BY <1>3 DEF vars, key
  <2> QED BY <2>1 DEF FixedInv, FixedKey, FixedLimit, FixedEnds, Ended, InLife, At
<1> QED BY <1>1, <1>2, <1>3, IncrKeeps, FixedExpireKeeps, FixedSteps

(* A set within two others has no more than they have together. *)
LEMMA UnionBound ==
  ASSUME NEW W, NEW S, NEW T, IsFiniteSet(S), IsFiniteSet(T), W \subseteq S \cup T
  PROVE  /\ IsFiniteSet(W) /\ Cardinality(W) \in Nat
         /\ Cardinality(S) \in Nat /\ Cardinality(T) \in Nat
         /\ Cardinality(W) <= Cardinality(S) + Cardinality(T)
<1>1. /\ IsFiniteSet(S \cup T)
      /\ Cardinality(S \cup T) = Cardinality(S) + Cardinality(T) - Cardinality(S \cap T)
  BY FS_Union
<1>2. IsFiniteSet(S \cap T)
  BY FS_Intersection
<1>3. /\ Cardinality(S) \in Nat /\ Cardinality(T) \in Nat /\ Cardinality(S \cap T) \in Nat
      /\ Cardinality(S \cup T) \in Nat
  BY <1>1, <1>2, FS_CardinalityType
<1>4. IsFiniteSet(W) /\ Cardinality(W) <= Cardinality(S \cup T)
  BY <1>1, FS_Subset
<1>5. Cardinality(W) \in Nat
  BY <1>4, FS_CardinalityType
<1> QED BY <1>1, <1>3, <1>4, <1>5

(* Two lives share a period at most, and then the call that set the end of the
   first is not in it. *)
LEMMA FixedGrants ==
  ASSUME Typing, FixedInv
  PROVE  FixedBound
<1>0. /\ life \in Nat /\ Limit \in Nat /\ MaxTime \in Nat /\ Period \in Nat \ {0}
  BY RedisLimitsAssumption DEF Typing, TypeOK
<1> SUFFICES ASSUME NEW s \in 0..MaxTime
             PROVE  Cardinality(Granted(s, s + Period - 1)) <= IF Limit = 0 THEN 0 ELSE 2 * Limit - 1
  BY DEF FixedBound
<1> DEFINE W == Granted(s, s + Period - 1)
<1>1. /\ s \in Nat /\ W \subseteq DOMAIN calls
      /\ \A i \in W : /\ calls[i].granted /\ i \in InLife(calls[i].life)
                      /\ calls[i].at \in Nat /\ calls[i].life \in Nat /\ calls[i].life <= life
                      /\ s <= calls[i].at /\ calls[i].at < s + Period
  BY <1>0, Called DEF Granted, Between, CallTypes, InLife
<1> HIDE DEF W
<1>2. CASE Limit = 0
  <2>1. W = {}
    BY <1>1, <1>2 DEF FixedInv, FixedLimit
  <2> QED BY <1>2, <2>1, FS_EmptySet DEF W
<1>3. CASE Limit > 0
  <2>1. ASSUME NEW l \in Nat, l <= life
        PROVE  /\ IsFiniteSet(InLife(l)) /\ Cardinality(InLife(l)) \in Nat
               /\ Cardinality(InLife(l)) <= Limit
    <3>1. IsFiniteSet(InLife(l)) /\ Cardinality(InLife(l)) \in Nat
      BY SinceFinite, FS_CardinalityType
    <3>2. CASE l < life
      BY <1>3, <3>1, <3>2 DEF FixedInv, FixedEnds
    <3>3. CASE l = life
      BY <1>0, <1>3, <3>1, <3>3, AtFinite DEF FixedInv, FixedLimit
    <3> QED BY <1>0, <2>1, <3>1, <3>2, <3>3
  <2>2. CASE \E l \in Nat : l <= life /\ W \subseteq InLife(l)
    <3>1. PICK l \in Nat : l <= life /\ W \subseteq InLife(l)
      BY <2>2
    <3>2. Cardinality(W) \in Nat /\ Cardinality(W) <= Limit
      <4>1. IsFiniteSet(W) /\ Cardinality(W) <= Cardinality(InLife(l))
        BY <2>1, <3>1, FS_Subset
      <4> QED BY <1>0, <2>1, <3>1, <4>1, FS_CardinalityType
    <3> QED BY <1>0, <1>3, <3>2 DEF W
  <2>3. CASE ~(\E l \in Nat : l <= life /\ W \subseteq InLife(l))
    <3>1. PICK i \in W, j \in W : calls[i].life < calls[j].life
      <4>1. PICK i \in W : TRUE
        <5>1. W # {}
          BY <1>0, <2>3
        <5> QED BY <5>1
      <4>2. PICK j \in W : j \notin InLife(calls[i].life)
        BY <1>1, <2>3, <4>1
      <4>3. calls[j].life # calls[i].life
        BY <1>1, <4>2
      <4> QED BY <1>1, <4>1, <4>2, <4>3
    <3> DEFINE l == calls[i].life
               m == calls[j].life
    <3>2. /\ l \in Nat /\ m \in Nat /\ l < m /\ m <= life /\ l < life /\ i \in InLife(l)
          /\ calls[i].at \in Nat /\ s <= calls[i].at
          /\ calls[j].at \in Nat /\ calls[j].at < s + Period /\ j \in DOMAIN calls
      BY <1>0, <1>1, <3>1
    <3> HIDE DEF l, m
    <3>3. \A a \in Nat : a < life => Ended(a)
      BY <1>3 DEF FixedInv, FixedEnds
    <3>4. ASSUME NEW a \in W, NEW b \in W, NEW c \in W,
                 calls[a].life < calls[b].life, calls[b].life < calls[c].life
          PROVE  FALSE
      <4>1. /\ calls[a].life \in Nat /\ calls[b].life \in Nat /\ calls[c].life \in Nat
            /\ calls[c].life <= life
        BY <1>1
      <4>2. Ended(calls[a].life) /\ Ended(calls[b].life)
        BY <1>0, <3>3, <3>4, <4>1
      <4>3. PICK x \in InLife(calls[a].life) :
              /\ \A h \in InLife(calls[a].life) : calls[h].at < calls[x].at + Period
              /\ \A h \in DOMAIN calls : calls[h].life > calls[a].life => calls[h].at >= calls[x].at + Period
        BY <4>2 DEF Ended
      <4>4. PICK y \in InLife(calls[b].life) :
              \A h \in DOMAIN calls : calls[h].life > calls[b].life => calls[h].at >= calls[y].at + Period
        BY <4>2 DEF Ended
      <4>5. /\ calls[x].at \in Nat /\ calls[y].at \in Nat /\ y \in DOMAIN calls
            /\ calls[y].life = calls[b].life
        BY Called DEF CallTypes, InLife
      <4>6. calls[a].at < calls[x].at + Period
        BY <1>1, <4>3
      <4>7. calls[y].at >= calls[x].at + Period
        BY <3>4, <4>1, <4>3, <4>5
      <4>8. calls[c].at >= calls[y].at + Period
        BY <1>1, <3>4, <4>1, <4>4
      <4>9. /\ calls[a].at \in Nat /\ s <= calls[a].at
            /\ calls[c].at \in Nat /\ calls[c].at < s + Period
        BY <1>1
      <4> QED BY <1>0, <1>1, <4>5, <4>6, <4>7, <4>8, <4>9
    <3>5. \A h \in W : calls[h].life = l \/ calls[h].life = m
      <4> SUFFICES ASSUME NEW h \in W, calls[h].life # l, calls[h].life # m
                   PROVE  FALSE
        OBVIOUS
      <4>1. calls[h].life \in Nat
        BY <1>1
      <4>2. CASE calls[h].life < l
        BY <3>1, <3>4, <4>2 DEF l
      <4>3. CASE l < calls[h].life /\ calls[h].life < m
        BY <3>1, <3>4, <4>3 DEF l, m
      <4>4. CASE m < calls[h].life
        BY <3>1, <3>4, <4>4 DEF m
      <4> QED BY <3>2, <4>1, <4>2, <4>3, <4>4
    <3>6. PICK k \in InLife(l) :
            \A h \in DOMAIN calls : calls[h].life > l => calls[h].at >= calls[k].at + Period
      BY <3>2, <3>3 DEF Ended
    <3>7. k \notin W
      <4>1. calls[j].at >= calls[k].at + Period
        BY <3>2, <3>6 DEF m
      <4>2. calls[k].at \in Nat
        BY Called DEF CallTypes, InLife
      <4>3. calls[k].at < s
        BY <1>0, <1>1, <3>2, <4>1, <4>2
      <4> QED BY <1>1, <4>2, <4>3
    <3>8. W \subseteq (InLife(l) \ {k}) \cup InLife(m)
      BY <1>1, <3>5, <3>7
    <3>9. /\ IsFiniteSet(InLife(l) \ {k})
          /\ Cardinality(InLife(l) \ {k}) = Cardinality(InLife(l)) - 1
      BY <3>6, SinceFinite, FS_RemoveElement
    <3>10. IsFiniteSet(InLife(m))
      BY SinceFinite
    <3>11. /\ Cardinality(W) \in Nat
           /\ Cardinality(W) <= Cardinality(InLife(l) \ {k}) + Cardinality(InLife(m))
      BY <3>8, <3>9, <3>10, UnionBound
    <3>12. /\ Cardinality(InLife(l)) \in Nat /\ Cardinality(InLife(l)) <= Limit
           /\ Cardinality(InLife(m)) \in Nat /\ Cardinality(InLife(m)) <= Limit
      BY <1>0, <2>1, <3>2
    <3>13. Cardinality(W) <= 2 * Limit - 1
      BY <1>0, <3>9, <3>11, <3>12
    <3> QED BY <1>0, <1>3, <3>13 DEF W
  <2> QED BY <2>2, <2>3
<1> QED BY <1>0, <1>2, <1>3

-----------------------------------------------------------------------------
(* The log.  The seconds that some calls of the history were logged at. *)
Clocks(I) == { calls[i].clock : i \in I }

Log == IF value = None THEN {} ELSE value

(* The gateways that are about to count a log that no longer has their entry. *)
Lost == { g \in At("count") : clock[g] \notin Log }

(* Of the calls since s, those that were decided in earlier lives of the key,
   and those of this life whose entry the log has not. *)
Older(s)   == Clocks(GrantedSince(s) \ InLife(life))
Missing(s) == Clocks(Recent(s)) \ Log

(* An entry that the log has not went with an earlier life of it: its gateway
   had yet to count then, each gateway one. *)
LogForgets ==
  Cardinality(Clocks(InLife(life)) \ Log) + Cardinality(Lost) <= Cardinality(Gateways)

LogLives ==
  \A l \in Nat : Cardinality(Clocks(InLife(l))) <= Limit + Cardinality(Gateways)

(* In a window that is open the log expired only if nobody had prolonged it. *)
LogRecent ==
  \A s \in Nat :
    s + Period > now =>
      Cardinality(Older(s)) + Cardinality(Missing(s)) + Cardinality(Lost)
        <= Cardinality(Gateways) + failed

(* The calls since a window began have prolonged the log past it, but for those
   that have yet to do so, or failed. *)
LogEnds ==
  \A s \in Nat :
    expires # None /\ expires < s + Period =>
      Cardinality(Clocks(GrantedSince(s))) <= Cardinality(At("expire")) + failed

(* The life between two others lasts for more than a window. *)
LogOrder ==
  /\ \A i \in DOMAIN calls :
       /\ calls[i].life < life => calls[i].at < now
       /\ calls[i].life < life /\ expires # None => calls[i].at + Period < expires
       /\ calls[i].life + 1 < life => calls[i].at + Period < now
  /\ \A i, j \in DOMAIN calls :
       calls[i].life + 1 < calls[j].life => calls[i].at + Period < calls[j].at

LogInv == LogForgets /\ LogLives /\ LogRecent /\ LogEnds /\ LogOrder

LEMMA LogSteps ==
  ASSUME Typing, strategy = "log", [Next]_vars
  PROVE  \/ \E g \in Gateways : ReadClock(g) \/ ZAdd(g) \/ ZCard(g) \/ LogExpire(g) \/ Fail(g)
         \/ Tick \/ UNCHANGED vars
<1>1. ASSUME NEW g \in Gateways, Call(g)
      PROVE  ReadClock(g) \/ ZAdd(g) \/ ZCard(g) \/ LogExpire(g)
  <2>1. ~Release(g)
    BY DEF Release, Moves, Typing
  <2> QED BY <1>1, <2>1 DEF Call, Incr, FixedExpire, TakeToken, Pour, Acquire
<1> QED BY <1>1 DEF Next

LEMMA ClocksFinite ==
  ASSUME Typing, NEW I, I \subseteq DOMAIN calls
  PROVE  IsFiniteSet(Clocks(I)) /\ Cardinality(Clocks(I)) \in Nat
<1>1. Clocks(I) \subseteq 0..now
  BY Called DEF CallTypes, Clocks
<1>2. IsFiniteSet(0..now)
  BY FS_Interval, RedisLimitsAssumption DEF Typing, TypeOK
<1> QED BY <1>1, <1>2, FS_Subset, FS_CardinalityType

LEMMA LogFinite ==
  ASSUME Typing, strategy = "log"
  PROVE  IsFiniteSet(Log) /\ Cardinality(Log) \in Nat /\ IsFiniteSet(Lost) /\ Cardinality(Lost) \in Nat
<1>1. Log \subseteq 0..MaxTime
  BY DEF Log, Typing, TypeOK
<1>a. IsFiniteSet(0..MaxTime)
  BY FS_Interval, RedisLimitsAssumption
<1>2. IsFiniteSet(Log)
  BY <1>1, <1>a, FS_Subset
<1>3. Lost \subseteq At("count")
  BY DEF Lost
<1> QED BY <1>2, <1>3, AtFinite, FS_Subset, FS_CardinalityType

(* Fewer of a finite set, and one more. *)
LEMMA FewerOf ==
  ASSUME NEW S, NEW T, IsFiniteSet(S), T \subseteq S
  PROVE  /\ IsFiniteSet(T) /\ Cardinality(T) \in Nat /\ Cardinality(S) \in Nat
         /\ Cardinality(T) <= Cardinality(S)
BY FS_Subset, FS_CardinalityType

LEMMA OneMore ==
  ASSUME NEW S, NEW x, IsFiniteSet(S)
  PROVE  /\ IsFiniteSet(S \cup {x}) /\ Cardinality(S \cup {x}) \in Nat /\ Cardinality(S) \in Nat
         /\ Cardinality(S \cup {x}) <= Cardinality(S) + 1
<1>a. IsFiniteSet(S \cup {x})
  BY FS_AddElement
<1>1. /\ IsFiniteSet(S \cup {x}) /\ Cardinality(S) \in Nat
      /\ Cardinality(S \cup {x}) \in Nat
  BY <1>a, FS_CardinalityType
<1>2. CASE x \in S
  <2>1. S \cup {x} = S
    BY <1>2
  <2>2. Cardinality(S \cup {x}) = Cardinality(S)
    BY <2>1
  <2>3. Cardinality(S \cup {x}) <= Cardinality(S) + 1
    BY <1>1, <2>2
  <2> QED BY <1>1, <2>3
<1>3. CASE x \notin S
  <2>1. Cardinality(S \cup {x}) = Cardinality(S) + 1
    BY <1>3, FS_AddElement
  <2> QED BY <1>1, <2>1
<1> QED BY <1>1, <1>2, <1>3

(* The sets of the history of a log are finite. *)
LEMMA HistoryFinite ==
  ASSUME Typing, NEW s, NEW l
  PROVE  /\ IsFiniteSet(Clocks(InLife(l))) /\ IsFiniteSet(Clocks(InLife(l)) \ Log)
         /\ IsFiniteSet(Older(s)) /\ IsFiniteSet(Missing(s)) /\ IsFiniteSet(Clocks(GrantedSince(s)))
         /\ IsFiniteSet(Clocks(Recent(s)))
         /\ Cardinality(Clocks(InLife(l))) \in Nat /\ Cardinality(Clocks(InLife(l)) \ Log) \in Nat
         /\ Cardinality(Older(s)) \in Nat /\ Cardinality(Missing(s)) \in Nat
         /\ Cardinality(Clocks(GrantedSince(s))) \in Nat
<1>1. /\ InLife(l) \subseteq DOMAIN calls /\ GrantedSince(s) \subseteq DOMAIN calls
      /\ Recent(s) \subseteq DOMAIN calls /\ GrantedSince(s) \ InLife(life) \subseteq DOMAIN calls
  BY DEF InLife, GrantedSince, Since, Recent
<1>2. /\ IsFiniteSet(Clocks(InLife(l))) /\ IsFiniteSet(Clocks(GrantedSince(s)))
      /\ IsFiniteSet(Clocks(Recent(s))) /\ IsFiniteSet(Clocks(GrantedSince(s) \ InLife(life)))
  BY <1>1, ClocksFinite
<1>3. IsFiniteSet(Clocks(InLife(l)) \ Log) /\ IsFiniteSet(Clocks(Recent(s)) \ Log)
  BY <1>2, FS_Difference
<1> QED BY <1>2, <1>3, FS_CardinalityType DEF Older, Missing

(* A step that decides nothing, and after which the log has no less. *)
LEMMA LogFrame ==
  ASSUME Typing, strategy = "log", LogInv, UNCHANGED <<now, calls, life>>,
         Log \subseteq Log', Lost' \subseteq Lost, failed \in Nat, failed' \in Nat, failed' >= failed
  PROVE  LogForgets' /\ LogLives' /\ LogRecent'
<1>0. Cardinality(Gateways) \in Nat /\ Limit \in Nat /\ now \in Nat /\ Period \in Nat
  BY FS_CardinalityType, RedisLimitsAssumption DEF Typing, TypeOK
<1>1. /\ Cardinality(Lost') <= Cardinality(Lost)
      /\ Cardinality(Lost') \in Nat /\ Cardinality(Lost) \in Nat
  BY LogFinite, FewerOf
<1>2. LogForgets'
  <2>1. (Clocks(InLife(life)) \ Log)' \subseteq Clocks(InLife(life)) \ Log
    BY DEF Clocks, InLife
  <2>2. /\ Cardinality((Clocks(InLife(life)) \ Log)') \in Nat
        /\ Cardinality(Clocks(InLife(life)) \ Log) \in Nat
        /\ Cardinality((Clocks(InLife(life)) \ Log)') <= Cardinality(Clocks(InLife(life)) \ Log)
    BY <2>1, HistoryFinite, FewerOf
  <2> QED BY <1>0, <1>1, <2>2 DEF LogInv, LogForgets
<1>3. LogLives'
  BY DEF LogInv, LogLives, Clocks, InLife
<1>4. ASSUME NEW s \in Nat, s + Period > now
      PROVE  Cardinality(Older(s)') + Cardinality(Missing(s)') + Cardinality(Lost')
               <= Cardinality(Gateways) + failed'
  <2>1. Older(s)' = Older(s) /\ Missing(s)' \subseteq Missing(s)
    BY DEF Older, Missing, Recent, Clocks, GrantedSince, Since, InLife
  <2>2. /\ Cardinality(Missing(s)') \in Nat /\ Cardinality(Missing(s)) \in Nat
        /\ Cardinality(Missing(s)') <= Cardinality(Missing(s)) /\ Cardinality(Older(s)) \in Nat
    BY <2>1, HistoryFinite, FewerOf
  <2>3. Cardinality(Older(s)) + Cardinality(Missing(s)) + Cardinality(Lost)
          <= Cardinality(Gateways) + failed
    BY <1>4 DEF LogInv, LogRecent
  <2> QED BY <1>0, <1>1, <2>1, <2>2, <2>3
<1>5. LogRecent'
  BY <1>0, <1>4 DEF LogRecent
<1> QED BY <1>2, <1>3, <1>5

(* The steps that change neither the history nor the key. *)
LEMMA LogQuiet ==
  ASSUME Typing, strategy = "log", LogInv,
         UNCHANGED <<now, value, expires, calls, life>>,
         Lost' \subseteq Lost, failed \in Nat, failed' \in Nat, failed' >= failed,
         Cardinality(At("expire")) + failed <= Cardinality(At("expire")') + failed',
         Cardinality(At("expire")') \in Nat
  PROVE  LogInv'
<1>1. LogForgets' /\ LogLives' /\ LogRecent'
  BY LogFrame DEF Log
<1>2. LogEnds'
  <2> SUFFICES ASSUME NEW s \in Nat, expires # None, expires < s + Period
               PROVE  Cardinality(Clocks(GrantedSince(s))') <= Cardinality(At("expire")') + failed'
    BY DEF LogEnds
  <2>1. Clocks(GrantedSince(s))' = Clocks(GrantedSince(s))
    BY DEF Clocks, GrantedSince, Since
  <2>2. Cardinality(Clocks(GrantedSince(s))) <= Cardinality(At("expire")) + failed
    BY DEF LogInv, LogEnds
  <2>3. Cardinality(Clocks(GrantedSince(s))) \in Nat /\ Cardinality(At("expire")) \in Nat
    BY HistoryFinite, AtFinite
  <2> QED BY <2>1, <2>2, <2>3
<1>3. LogOrder'
  BY DEF LogInv, LogOrder
<1> QED BY <1>1, <1>2, <1>3 DEF LogInv

LEMMA LogCommands ==
  ASSUME Typing, strategy = "log", LogInv, NEW g \in Gateways,
         ReadClock(g) \/ ZAdd(g) \/ LogExpire(g) \/ Fail(g)
  PROVE  LogInv'
<1>0. /\ now \in Nat /\ None \notin Nat /\ Period \in Nat \ {0} /\ failed \in Nat
      /\ pc \in [Gateways -> Phases] /\ clock \in [Gateways -> 0..now]
  BY RedisLimitsAssumption DEF Typing, TypeOK, Phases
<1>1. CASE ReadClock(g)
  <2>1. /\ pc[g] = "idle" /\ pc' = [pc EXCEPT ![g] = "read"]
        /\ UNCHANGED <<now, value, expires, calls, life, failed>>
        /\ \A h \in Gateways : h # g => clock'[h] = clock[h]
    BY <1>0, <1>1 DEF ReadClock, Moves, key
  <2>2. At("expire")' = At("expire") /\ At("count")' = At("count") /\ g \notin At("count")
    BY <1>0, <2>1 DEF At
  <2>3. Lost' \subseteq Lost
    <3>1. \A h \in At("count") : clock'[h] = clock[h]
      BY <2>1, <2>2 DEF At
    <3> QED BY <2>1, <2>2, <3>1 DEF Lost, Log
  <2> QED BY <1>0, <2>1, <2>2, <2>3, AtFinite, LogQuiet
<1>2. CASE Fail(g)
  <2>1. /\ pc' = [pc EXCEPT ![g] = "idle"] /\ failed' = failed + 1
        /\ UNCHANGED <<now, value, expires, calls, life>>
        /\ \A h \in Gateways : h # g => clock'[h] = clock[h]
    BY <1>0, <1>2 DEF Fail, Moves, key
  <2>2. At("expire")' = At("expire") \ {g} /\ At("count")' = At("count") \ {g}
    BY <1>0, <2>1 DEF At
  <2>3. Lost' \subseteq Lost
    <3>1. \A h \in At("count") \ {g} : clock'[h] = clock[h]
      BY <2>1 DEF At
    <3> QED BY <2>1, <2>2, <3>1 DEF Lost, Log
  <2>4. /\ Cardinality(At("expire")') \in Nat
        /\ Cardinality(At("expire")) <= Cardinality(At("expire")') + 1
    <3>1. IsFiniteSet(At("expire")') /\ At("expire") \subseteq At("expire")' \cup {g}
      BY <2>2, AtFinite, FS_Subset
    <3>2. /\ IsFiniteSet(At("expire")' \cup {g})
          /\ Cardinality(At("expire")' \cup {g}) <= Cardinality(At("expire")') + 1
          /\ Cardinality(At("expire")') \in Nat /\ Cardinality(At("expire")' \cup {g}) \in Nat
      BY <3>1, OneMore
    <3>3. Cardinality(At("expire")) <= Cardinality(At("expire")' \cup {g})
      BY <3>1, <3>2, FewerOf
    <3> QED BY <3>2, <3>3, AtFinite
  <2>5. Cardinality(At("expire")) + failed <= Cardinality(At("expire")') + failed'
    BY <1>0, <2>1, <2>4, AtFinite
  <2>6. failed' \in Nat /\ failed' >= failed
    BY <1>0, <2>1
  <2> QED BY <1>0, <2>1, <2>3, <2>4, <2>5, <2>6, LogQuiet
<1>3. CASE ZAdd(g)
  <2>1. /\ pc[g] = "read" /\ pc' = [pc EXCEPT ![g] = "count"] /\ clock' = clock
        /\ value' = Log \cup {clock[g]} /\ UNCHANGED <<now, expires, calls, life, failed>>
    BY <1>0, <1>3 DEF ZAdd, Moves, Log
  <2>2. At("expire")' = At("expire") /\ At("count")' = At("count") \cup {g}
    BY <1>0, <2>1 DEF At
  <2>3. Log \subseteq Log' /\ clock[g] \in Log'
    <3>1. value' # None
      <4>1. value' \subseteq 0..MaxTime
        <5>1. Log \subseteq 0..MaxTime
          BY DEF Log, Typing, TypeOK
        <5>2. clock[g] \in 0..MaxTime
          BY <1>0, RedisLimitsAssumption DEF Typing, TypeOK
        <5> QED BY <2>1, <5>1, <5>2
      <4> QED BY <4>1, RedisLimitsAssumption
    <3> QED BY <2>1, <3>1 DEF Log
  <2>4. Lost' \subseteq Lost
    BY <2>1, <2>2, <2>3 DEF Lost
  <2>5. LogForgets' /\ LogLives' /\ LogRecent'
    BY <1>0, <2>1, <2>3, <2>4, LogFrame
  <2>6. LogEnds' /\ LogOrder'
    BY <2>1, <2>2 DEF LogInv, LogEnds, LogOrder, Clocks, GrantedSince, Since
  <2> QED BY <2>5, <2>6 DEF LogInv
<1>4. CASE LogExpire(g)
  <2>1. /\ pc[g] = "expire" /\ pc' = [pc EXCEPT ![g] = "idle"]
        /\ expires' = (IF value = None THEN None ELSE now + Period)
        /\ UNCHANGED <<now, value, calls, life, failed>>
        /\ \A h \in Gateways : h # g => clock'[h] = clock[h]
    BY <1>0, <1>4 DEF LogExpire, Moves
  <2>2. At("count")' = At("count") /\ g \notin At("count")
    BY <1>0, <2>1 DEF At
  <2>3. Lost' \subseteq Lost
    <3>1. \A h \in At("count") : clock'[h] = clock[h]
      BY <2>1, <2>2 DEF At
    <3> QED BY <2>1, <2>2, <3>1 DEF Lost, Log
  <2>4. LogForgets' /\ LogLives' /\ LogRecent'
    BY <1>0, <2>1, <2>3, LogFrame DEF Log
  <2>5. LogEnds'
    <3> SUFFICES ASSUME NEW s \in Nat, expires' # None, expires' < s + Period
                 PROVE  Cardinality(Clocks(GrantedSince(s))') <= Cardinality(At("expire")') + failed'
      BY DEF LogEnds
    <3>1. s > now
      BY <1>0, <2>1
    <3>2. Clocks(GrantedSince(s))' = {}
      <4>1. \A i \in DOMAIN calls : ~(calls[i].at >= s)
        BY <1>0, <3>1, Called DEF CallTypes
      <4> QED BY <2>1, <4>1 DEF Clocks, GrantedSince, Since
    <3>3. Cardinality(At("expire")') \in Nat
      <4>1. At("expire")' = At("expire") \ {g}
        BY <1>0, <2>1 DEF At
      <4> QED BY <4>1, AtFinite, FS_Subset, FS_CardinalityType
    <3>4. Cardinality(Clocks(GrantedSince(s))') = 0
      BY <3>2, FS_EmptySet
    <3> QED BY <1>0, <2>1, <3>3, <3>4
  <2>6. LogOrder'
    <3>1. \A i \in DOMAIN calls :
            /\ calls[i].life < life => calls[i].at < now
            /\ calls[i].at \in Nat
      BY Called DEF CallTypes, LogInv, LogOrder
    <3>2. \A i \in DOMAIN calls :
            calls'[i].life < life' /\ expires' # None => calls'[i].at + Period < expires'
      BY <1>0, <2>1, <3>1
    <3> QED BY <2>1, <3>2 DEF LogInv, LogOrder
  <2> QED BY <2>4, <2>5, <2>6 DEF LogInv
<1> QED BY <1>1, <1>2, <1>3, <1>4

(* A second, after which the key may be gone: the log forgets all that it had,
   and who was to count it has lost an entry. *)
LEMMA LogTick ==
  ASSUME Typing, strategy = "log", LogInv, Tick
  PROVE  LogInv'
<1>0. /\ now \in Nat /\ None \notin Nat /\ Period \in Nat \ {0} /\ failed \in Nat /\ life \in Nat
      /\ expires # None => expires > now /\ expires \in Nat
      /\ Cardinality(Gateways) \in Nat /\ Limit \in Nat
  BY FS_CardinalityType, RedisLimitsAssumption DEF Typing, TypeOK
<1>1. /\ now' = now + 1 /\ now' \in Nat /\ UNCHANGED <<strategy, pc, clock, calls, failed>>
      /\ At("expire")' = At("expire") /\ At("count")' = At("count")
  BY <1>0 DEF Tick, At
<1>2. \A i \in DOMAIN calls :
        /\ calls[i].at \in Nat /\ calls[i].at <= now /\ calls[i].at < now'
        /\ calls[i].life \in Nat /\ calls[i].life <= life
  BY <1>0, <1>1, Called DEF CallTypes
<1>3. CASE expires # now'
  <2>1. UNCHANGED <<value, expires, life>>
    BY <1>3 DEF Tick, key
  <2>2. /\ Log' = Log /\ Lost' = Lost /\ \A l : InLife(l)' = InLife(l)
        /\ \A l : Clocks(InLife(l))' = Clocks(InLife(l))
        /\ InLife(life)' = InLife(life) /\ Clocks(InLife(life))' = Clocks(InLife(life))
        /\ \A s : Clocks(GrantedSince(s))' = Clocks(GrantedSince(s))
        /\ \A s : Older(s)' = Older(s) /\ Missing(s)' = Missing(s)
    BY <1>1, <2>1 DEF Log, Lost, InLife, Clocks, GrantedSince, Since, Older, Missing, Recent
  <2>3. LogForgets'
    BY <2>2 DEF LogInv, LogForgets
  <2>4. LogLives'
    BY <2>2 DEF LogInv, LogLives
  <2>5. LogRecent'
    BY <1>0, <1>1, <2>2 DEF LogInv, LogRecent
  <2>6. LogEnds'
    BY <1>1, <2>1, <2>2 DEF LogInv, LogEnds
  <2>7. LogOrder'
    <3>1. \A i \in DOMAIN calls : calls[i].life + 1 < life => calls[i].at + Period < now'
      BY <1>0, <1>1, <1>2 DEF LogInv, LogOrder
    <3> QED BY <1>1, <1>2, <2>1, <3>1 DEF LogInv, LogOrder
  <2> QED BY <2>3, <2>4, <2>5, <2>6, <2>7 DEF LogInv
<1>4. CASE expires = now'
  <2>1. value' = None /\ expires' = None /\ life' = life + 1
    BY <1>4 DEF Tick
  <2>2. Log' = {} /\ Lost' \subseteq At("count")
    BY <1>1, <2>1 DEF Log, Lost
  <2>3. InLife(life)' = {}
    <3>1. InLife(life)' = { i \in DOMAIN calls : calls[i].granted /\ calls[i].life = life + 1 }
      BY <1>1, <2>1 DEF InLife
    <3> QED BY <1>0, <1>2, <3>1
  <2>4. /\ IsFiniteSet(Lost') /\ Cardinality(Lost') \in Nat
        /\ Cardinality(Lost') <= Cardinality(At("count"))
        /\ Cardinality(At("count")) \in Nat /\ Cardinality(At("expire")) \in Nat
        /\ Cardinality(At("count")) + Cardinality(At("expire")) <= Cardinality(Gateways)
    <3>1. At("count") \cap At("expire") = {}
      BY DEF At
    <3>2. Cardinality(At("count") \cap At("expire")) = 0
      BY <3>1, FS_EmptySet
    <3>3. Cardinality(At("count") \cup At("expire")) = Cardinality(At("count")) + Cardinality(At("expire"))
      <4>1. Cardinality(At("count") \cup At("expire"))
              = Cardinality(At("count")) + Cardinality(At("expire"))
                  - Cardinality(At("count") \cap At("expire"))
        BY AtFinite, FS_Union
      <4>2. Cardinality(At("count")) \in Nat /\ Cardinality(At("expire")) \in Nat
        BY AtFinite
      <4> QED BY <3>2, <4>1, <4>2
    <3>4. At("count") \cup At("expire") \subseteq Gateways
      BY DEF At
    <3>5. Cardinality(At("count") \cup At("expire")) <= Cardinality(Gateways)
      BY <3>4, FewerOf, RedisLimitsAssumption
    <3> QED BY <2>2, <3>3, <3>5, AtFinite, FewerOf
  <2>5. LogForgets'
    <3>1. (Clocks(InLife(life)) \ Log)' = {}
      BY <2>3 DEF Clocks
    <3>2. Cardinality((Clocks(InLife(life)) \ Log)') = 0
      BY <3>1, FS_EmptySet
    <3> QED BY <1>0, <2>4, <3>2 DEF LogForgets
  <2>6. LogLives'
    BY <1>1 DEF LogInv, LogLives, Clocks, InLife
  <2>7. LogRecent'
    <3> SUFFICES ASSUME NEW s \in Nat, s + Period > now'
                 PROVE  Cardinality(Older(s)') + Cardinality(Missing(s)') + Cardinality(Lost')
                          <= Cardinality(Gateways) + failed
      BY <1>1 DEF LogRecent
    <3>1. Missing(s)' = {}
      <4>1. Recent(s)' = {}
        BY <2>3 DEF Recent
      <4> QED BY <4>1 DEF Missing, Clocks
    <3>2. Older(s)' = Clocks(GrantedSince(s))
      <4>1. Older(s)' = { calls[i].clock : i \in GrantedSince(s)' \ InLife(life)' }
        BY <1>1 DEF Older, Clocks
      <4>2. GrantedSince(s)' = GrantedSince(s)
        BY <1>1 DEF GrantedSince, Since
      <4> QED BY <2>3, <4>1, <4>2 DEF Clocks
    <3>3. Cardinality(Clocks(GrantedSince(s))) <= Cardinality(At("expire")) + failed
      <4>1. expires # None /\ expires < s + Period
        BY <1>0, <1>1, <1>4
      <4> QED BY <4>1 DEF LogInv, LogEnds
    <3>4. Cardinality(Missing(s)') = 0
      BY <3>1, FS_EmptySet
    <3>5. Cardinality(Clocks(GrantedSince(s))) \in Nat
      BY HistoryFinite
    <3> QED BY <1>0, <2>4, <3>2, <3>3, <3>4, <3>5
  <2>8. LogEnds'
    BY <2>1 DEF LogEnds
  <2>9. LogOrder'
    <3>1. \A i \in DOMAIN calls : calls[i].life + 1 < life + 1 => calls[i].at + Period < now'
      <4> SUFFICES ASSUME NEW i \in DOMAIN calls, calls[i].life + 1 < life + 1
                   PROVE  calls[i].at + Period < now'
        OBVIOUS
      <4>1. calls[i].life < life /\ expires # None
        BY <1>0, <1>1, <1>2, <1>4
      <4> QED BY <1>4, <4>1 DEF LogInv, LogOrder
    <3> QED BY <1>1, <1>2, <2>1, <3>1 DEF LogInv, LogOrder
  <2> QED BY <2>5, <2>6, <2>7, <2>8, <2>9 DEF LogInv
<1> QED BY <1>3, <1>4

(* The clock of a call that is decided joins those of the calls it joins. *)
LEMMA ClocksJoin ==
  ASSUME Typing, NEW g \in Gateways, NEW granted \in BOOLEAN, Joins(g, granted),
         NEW I, I \subseteq DOMAIN calls
  PROVE  /\ { calls'[i].clock : i \in I } = Clocks(I)
         /\ { calls'[i].clock : i \in I \cup {Latest} } = Clocks(I) \cup {clock[g]}
<1>1. \A i \in I : calls'[i] = calls[i]
  BY DEF Joins
<1>2. calls'[Latest].clock = clock[g]
  BY DEF Joins
<1> QED BY <1>1, <1>2 DEF Clocks

(* A gateway counts.  If its entry is lost, the log misses one more call, and
   one gateway fewer has lost an entry. *)
LEMMA LogCount ==
  ASSUME Typing, strategy = "log", LogInv, NEW g \in Gateways, ZCard(g)
  PROVE  \E granted \in BOOLEAN :
           Joins(g, granted) /\ LogInv' /\ (granted => Cardinality(Log') <= Limit)
<1>0. /\ now \in Nat /\ Period \in Nat \ {0} /\ failed \in Nat /\ life \in Nat
      /\ pc \in [Gateways -> Phases] /\ clock \in [Gateways -> 0..now]
      /\ Cardinality(Gateways) \in Nat /\ Limit \in Nat
  BY FS_CardinalityType, RedisLimitsAssumption DEF Typing, TypeOK, Phases
<1>1. /\ pc[g] = "count" /\ pc' = [pc EXCEPT ![g] = "expire"] /\ clock' = clock
      /\ Decides(g, Within(IF value = None THEN 0 ELSE Cardinality(value)))
      /\ UNCHANGED <<now, value, expires, life, failed>>
  BY <1>0 DEF ZCard, Moves, key
<1>2. Cardinality(Log) \in Nat /\ (IF value = None THEN 0 ELSE Cardinality(value)) = Cardinality(Log)
  BY LogFinite, FS_EmptySet DEF Log
<1>3. PICK granted \in BOOLEAN : granted = Within(Cardinality(Log))
  <2>1. Within(Cardinality(Log)) \in BOOLEAN
    BY <1>0, <1>2 DEF Within
  <2> WITNESS Within(Cardinality(Log)) \in BOOLEAN
  <2> QED OBVIOUS
<1>4. Joins(g, granted)
  <2>1. Decides(g, granted)
    BY <1>1, <1>2, <1>3
  <2> QED BY <2>1, CallJoins
<1>5. Log' = Log
  BY <1>1 DEF Log
<1>6. /\ At("expire")' = At("expire") \cup {g} /\ g \notin At("expire")
      /\ At("count")' = At("count") \ {g} /\ g \in At("count")
  BY <1>0, <1>1 DEF At
<1>7. Lost' = Lost \ {g} /\ (clock[g] \notin Log => g \in Lost)
  BY <1>1, <1>5, <1>6 DEF Lost
<1>8. /\ Cardinality(At("expire")') = Cardinality(At("expire")) + 1
      /\ Cardinality(At("expire")) \in Nat
  BY <1>6, AtFinite, FS_AddElement
<1>9. /\ Cardinality(Lost) \in Nat /\ Cardinality(Lost') \in Nat
      /\ Cardinality(Lost') <= Cardinality(Lost)
      /\ clock[g] \notin Log => Cardinality(Lost') = Cardinality(Lost) - 1
  BY <1>7, LogFinite, FS_RemoveElement, FewerOf
(* A set of entries that the log has not, and the clock of this call. *)
<1>10. ASSUME NEW S, IsFiniteSet(S)
       PROVE  /\ Cardinality((S \cup {clock[g]}) \ Log) \in Nat /\ Cardinality(S \ Log) \in Nat
              /\ Cardinality((S \cup {clock[g]}) \ Log) + Cardinality(Lost')
                   <= Cardinality(S \ Log) + Cardinality(Lost)
  <2>1. IsFiniteSet(S \ Log) /\ Cardinality(S \ Log) \in Nat
    BY <1>10, FS_Difference, FS_CardinalityType
  <2>2. CASE clock[g] \in Log
    <3>1. (S \cup {clock[g]}) \ Log = S \ Log
      BY <2>2
    <3>2. Cardinality((S \cup {clock[g]}) \ Log) = Cardinality(S \ Log)
      BY <3>1
    <3> QED BY <1>9, <2>1, <3>2
  <2>3. CASE clock[g] \notin Log
    <3>1. (S \cup {clock[g]}) \ Log = (S \ Log) \cup {clock[g]}
      BY <2>3
    <3>2. /\ Cardinality((S \ Log) \cup {clock[g]}) \in Nat
          /\ Cardinality((S \ Log) \cup {clock[g]}) <= Cardinality(S \ Log) + 1
      BY <2>1, OneMore
    <3> QED BY <1>9, <2>1, <2>3, <3>1, <3>2
  <2> QED BY <2>2, <2>3
<1>11. /\ granted => InLife(life)' = InLife(life) \cup {Latest}
       /\ ~granted => InLife(life)' = InLife(life)
       /\ InLife(life) \subseteq DOMAIN calls
  BY <1>1, <1>4, LifeNowJoins DEF InLife
<1>12. /\ granted => Clocks(InLife(life))' = Clocks(InLife(life)) \cup {clock[g]}
       /\ ~granted => Clocks(InLife(life))' = Clocks(InLife(life))
  <2>1. Clocks(InLife(life))' = { calls'[i].clock : i \in InLife(life)' }
    BY DEF Clocks
  <2> QED BY <1>4, <1>11, <2>1, ClocksJoin
<1>13. LogForgets'
  <2>1. /\ Cardinality(Clocks(InLife(life)) \ Log) \in Nat
        /\ Cardinality(Clocks(InLife(life)) \ Log) + Cardinality(Lost) <= Cardinality(Gateways)
    BY HistoryFinite DEF LogInv, LogForgets
  <2>2. CASE granted
    <3>1. (Clocks(InLife(life)) \ Log)' = (Clocks(InLife(life)) \cup {clock[g]}) \ Log
      BY <1>5, <1>12, <2>2
    <3>2. /\ Cardinality((Clocks(InLife(life)) \cup {clock[g]}) \ Log) \in Nat
          /\ Cardinality((Clocks(InLife(life)) \cup {clock[g]}) \ Log) + Cardinality(Lost')
               <= Cardinality(Clocks(InLife(life)) \ Log) + Cardinality(Lost)
      BY <1>10, HistoryFinite
    <3>3. Cardinality((Clocks(InLife(life)) \cup {clock[g]}) \ Log) + Cardinality(Lost')
            <= Cardinality(Gateways)
      BY <1>0, <1>9, <2>1, <3>2
    <3>4. Cardinality((Clocks(InLife(life)) \ Log)')
            = Cardinality((Clocks(InLife(life)) \cup {clock[g]}) \ Log)
      BY <3>1
    <3>5. Cardinality((Clocks(InLife(life)) \ Log)') + Cardinality(Lost') <= Cardinality(Gateways)
      BY <3>3, <3>4
    <3> QED BY <3>5 DEF LogForgets
  <2>3. CASE ~granted
    <3>1. (Clocks(InLife(life)) \ Log)' = Clocks(InLife(life)) \ Log
      BY <1>5, <1>12, <2>3
    <3>2. Cardinality((Clocks(InLife(life)) \ Log)') = Cardinality(Clocks(InLife(life)) \ Log)
      BY <3>1
    <3>3. Cardinality(Clocks(InLife(life)) \ Log) + Cardinality(Lost') <= Cardinality(Gateways)
      BY <1>0, <1>9, <2>1
    <3>4. Cardinality((Clocks(InLife(life)) \ Log)') + Cardinality(Lost') <= Cardinality(Gateways)
      BY <3>2, <3>3
    <3> QED BY <3>4 DEF LogForgets
  <2> QED BY <2>2, <2>3
<1>14. granted => Cardinality(Log) <= Limit
  <2>1. Within(Cardinality(Log)) => Cardinality(Log) <= Limit
    BY DEF Within
  <2> QED BY <1>3, <2>1, Zenon
<1>15. LogLives'
  <2> SUFFICES ASSUME NEW l \in Nat
               PROVE  Cardinality(Clocks(InLife(l))') <= Limit + Cardinality(Gateways)
    BY DEF LogLives
  <2>1. CASE granted /\ l = life
    <3>1. Clocks(InLife(l))' = Clocks(InLife(life)) \cup {clock[g]}
      <4>1. Clocks(InLife(l))' = Clocks(InLife(life))'
        BY <1>1, <2>1 DEF Clocks, InLife
      <4> QED BY <1>12, <2>1, <4>1
    <3> DEFINE S == Clocks(InLife(life)) \cup {clock[g]}
    <3>2. IsFiniteSet(S) /\ IsFiniteSet(S \ Log) /\ S \subseteq Log \cup (S \ Log)
      BY HistoryFinite, OneMore, FS_Difference
    <3>3. Cardinality(S \ Log) <= Cardinality(Gateways)
      <4>1. (Clocks(InLife(life)) \ Log)' = S \ Log
        BY <1>5, <1>12, <2>1
      <4>2. Cardinality(S \ Log) + Cardinality(Lost') <= Cardinality(Gateways)
        BY <1>13, <4>1 DEF LogForgets
      <4> QED BY <1>0, <1>9, <3>2, <4>2, FS_CardinalityType
    <3>4. /\ Cardinality(S) \in Nat /\ Cardinality(S \ Log) \in Nat
          /\ Cardinality(S) <= Cardinality(Log) + Cardinality(S \ Log)
      BY <3>2, LogFinite, UnionBound
    <3> HIDE DEF S
    <3>5. Cardinality(S) <= Limit + Cardinality(Gateways)
      BY <1>0, <1>2, <1>14, <2>1, <3>3, <3>4
    <3> QED BY <3>1, <3>5 DEF S
  <2>2. CASE ~granted \/ l # life
    <3>1. InLife(l)' = InLife(l) /\ InLife(l) \subseteq DOMAIN calls
      BY <1>4, <2>2, LifeJoins DEF InLife
    <3>2. Clocks(InLife(l))' = Clocks(InLife(l))
      <4>1. Clocks(InLife(l))' = { calls'[i].clock : i \in InLife(l)' }
        BY DEF Clocks
      <4> QED BY <1>4, <3>1, <4>1, ClocksJoin
    <3> QED BY <3>2 DEF LogInv, LogLives
  <2> QED BY <2>1, <2>2
<1>16. LogRecent'
  <2> SUFFICES ASSUME NEW s \in Nat, s + Period > now
               PROVE  Cardinality(Older(s)') + Cardinality(Missing(s)') + Cardinality(Lost')
                        <= Cardinality(Gateways) + failed
    BY <1>1 DEF LogRecent
  <2>0. /\ Cardinality(Older(s)) + Cardinality(Missing(s)) + Cardinality(Lost)
             <= Cardinality(Gateways) + failed
        /\ Cardinality(Older(s)) \in Nat /\ Cardinality(Missing(s)) \in Nat
    BY HistoryFinite DEF LogInv, LogRecent
  <2>1. Older(s)' = Older(s)
    <3>1. GrantedSince(s)' \ InLife(life)' = GrantedSince(s) \ InLife(life)
      <4>1. CASE granted
        <5>1. \/ GrantedSince(s)' = GrantedSince(s) \cup {Latest}
              \/ GrantedSince(s)' = GrantedSince(s)
          BY <1>0, <1>4, SinceJoins
        <5>2. Latest \notin GrantedSince(s)
          BY <1>4, SinceJoins
        <5> QED BY <1>11, <4>1, <5>1, <5>2
      <4>2. CASE ~granted
        BY <1>4, <1>11, <4>2, SinceJoins
      <4> QED BY <4>1, <4>2
    <3>2. Older(s)' = { calls'[i].clock : i \in GrantedSince(s)' \ InLife(life)' }
      BY DEF Older, Clocks
    <3>3. GrantedSince(s) \ InLife(life) \subseteq DOMAIN calls
      BY DEF GrantedSince, Since
    <3> QED BY <1>4, <3>1, <3>2, <3>3, ClocksJoin DEF Older
  <2>2. Missing(s)' = { calls'[i].clock : i \in GrantedSince(s)' \cap InLife(life)' } \ Log
    BY <1>5 DEF Missing, Recent, Clocks
  <2>3. CASE granted /\ s <= now
    <3>1. GrantedSince(s)' \cap InLife(life)' = Recent(s) \cup {Latest}
      BY <1>4, <1>11, <2>3, SinceJoins DEF Recent
    <3>2. Recent(s) \subseteq DOMAIN calls
      BY DEF Recent, InLife
    <3>3. Missing(s)' = (Clocks(Recent(s)) \cup {clock[g]}) \ Log
      BY <1>4, <2>2, <3>1, <3>2, ClocksJoin
    <3>4. /\ Cardinality((Clocks(Recent(s)) \cup {clock[g]}) \ Log) \in Nat
          /\ Cardinality((Clocks(Recent(s)) \cup {clock[g]}) \ Log) + Cardinality(Lost')
               <= Cardinality(Clocks(Recent(s)) \ Log) + Cardinality(Lost)
      BY <1>10, HistoryFinite
    <3>5. /\ Cardinality(Missing(s)') \in Nat
          /\ Cardinality(Missing(s)') + Cardinality(Lost') <= Cardinality(Missing(s)) + Cardinality(Lost)
      BY <3>3, <3>4 DEF Missing
    <3> QED BY <1>0, <1>9, <2>0, <2>1, <3>5
  <2>4. CASE ~granted \/ s > now
    <3>1. GrantedSince(s)' = GrantedSince(s) /\ Latest \notin GrantedSince(s)
      BY <1>4, <2>4, SinceJoins
    <3>2. GrantedSince(s)' \cap InLife(life)' = Recent(s)
      BY <1>11, <3>1 DEF Recent
    <3>3. Recent(s) \subseteq DOMAIN calls
      BY DEF Recent, InLife
    <3>4. Missing(s)' = Missing(s)
      <4>1. { calls'[i].clock : i \in Recent(s) } = Clocks(Recent(s))
        BY <1>4, <3>3, ClocksJoin
      <4> QED BY <2>2, <3>2, <4>1 DEF Missing
    <3> QED BY <1>0, <1>9, <2>0, <2>1, <3>4
  <2> QED BY <1>0, <2>3, <2>4
<1>17. LogEnds'
  <2> SUFFICES ASSUME NEW s \in Nat, expires # None, expires < s + Period
               PROVE  Cardinality(Clocks(GrantedSince(s))') <= Cardinality(At("expire")') + failed
    BY <1>1 DEF LogEnds
  <2>0. /\ Cardinality(Clocks(GrantedSince(s))) <= Cardinality(At("expire")) + failed
        /\ Cardinality(Clocks(GrantedSince(s))) \in Nat /\ IsFiniteSet(Clocks(GrantedSince(s)))
    BY HistoryFinite DEF LogInv, LogEnds
  <2>1. Clocks(GrantedSince(s))' = { calls'[i].clock : i \in GrantedSince(s)' }
    BY DEF Clocks
  <2>2. GrantedSince(s) \subseteq DOMAIN calls
    BY DEF GrantedSince, Since
  <2>3. \/ GrantedSince(s)' = GrantedSince(s) \cup {Latest}
        \/ GrantedSince(s)' = GrantedSince(s)
    BY <1>0, <1>4, SinceJoins
  <2>4. \/ Clocks(GrantedSince(s))' = Clocks(GrantedSince(s)) \cup {clock[g]}
        \/ Clocks(GrantedSince(s))' = Clocks(GrantedSince(s))
    BY <1>4, <2>1, <2>2, <2>3, ClocksJoin
  <2>5. /\ Cardinality(Clocks(GrantedSince(s)) \cup {clock[g]}) \in Nat
        /\ Cardinality(Clocks(GrantedSince(s)) \cup {clock[g]})
             <= Cardinality(Clocks(GrantedSince(s))) + 1
    BY <2>0, OneMore
  <2> QED BY <1>0, <1>8, <2>0, <2>4, <2>5
<1>18. LogOrder'
  <2>1. \A i \in DOMAIN calls :
          /\ calls[i].life \in Nat /\ calls[i].life <= life /\ calls[i].at \in Nat
          /\ calls[i].life < life => calls[i].at < now
          /\ calls[i].life < life /\ expires # None => calls[i].at + Period < expires
          /\ calls[i].life + 1 < life => calls[i].at + Period < now
    BY <1>0, Called DEF CallTypes, LogInv, LogOrder
  <2>2. calls'[Latest].life = life /\ calls'[Latest].at = now
    BY <1>4 DEF Joins
  <2>3. /\ DOMAIN calls' = DOMAIN calls \cup {Latest}
        /\ \A i \in DOMAIN calls : calls'[i] = calls[i]
    BY <1>4 DEF Joins
  <2>4. \A i \in DOMAIN calls' :
          /\ calls'[i].life < life => calls'[i].at < now
          /\ calls'[i].life < life /\ expires # None => calls'[i].at + Period < expires
          /\ calls'[i].life + 1 < life => calls'[i].at + Period < now
    BY <1>0, <2>1, <2>2, <2>3
  <2>5. ASSUME NEW i \in DOMAIN calls', NEW j \in DOMAIN calls',
               calls'[i].life + 1 < calls'[j].life
        PROVE  calls'[i].at + Period < calls'[j].at
    <3>1. i # Latest
      BY <1>0, <2>1, <2>2, <2>3, <2>5
    <3>2. CASE j = Latest
      BY <2>2, <2>4, <2>5, <3>2
    <3>3. CASE j # Latest
      BY <2>3, <2>5, <3>1, <3>3 DEF LogInv, LogOrder
    <3> QED BY <3>2, <3>3
  <2> QED BY <1>1, <2>4, <2>5 DEF LogOrder
<1> QED BY <1>4, <1>5, <1>13, <1>14, <1>15, <1>16, <1>17, <1>18 DEF LogInv

LEMMA LogStep ==
  ASSUME Typing, strategy = "log", LogInv, [Next]_vars
  PROVE  LogInv'
<1>1. CASE UNCHANGED vars
  <2>1. UNCHANGED <<now, value, expires, pc, clock, calls, life, failed>>
    BY <1>1 DEF vars, key
  <2> QED BY <2>1 DEF LogInv, LogForgets, LogLives, LogRecent, LogEnds, LogOrder, Log, Lost,
                      Older, Missing, Recent, Clocks, GrantedSince, Since, InLife, At
<1> QED BY <1>1, LogSteps, LogCommands, LogCount, LogTick

(* A window has calls of two lives of the log at most. *)
LEMMA LogTwoLives ==
  ASSUME Typing, LogInv, NEW s \in Nat
  PROVE  Cardinality(Clocks(Granted(s, s + Period - 1))) <= 2 * (Limit + Cardinality(Gateways))
<1>0. /\ Period \in Nat \ {0} /\ life \in Nat
      /\ Limit \in Nat /\ Cardinality(Gateways) \in Nat
  BY FS_CardinalityType, RedisLimitsAssumption DEF Typing, TypeOK
<1> DEFINE W == Granted(s, s + Period - 1)
<1>1. /\ W \subseteq DOMAIN calls
      /\ \A i \in W : /\ calls[i].granted /\ i \in InLife(calls[i].life)
                      /\ calls[i].at \in Nat /\ calls[i].life \in Nat
                      /\ s <= calls[i].at /\ calls[i].at < s + Period
  BY <1>0, Called DEF Granted, Between, CallTypes, InLife
<1> HIDE DEF W
<1>2. \A i \in W, j \in W : ~(calls[i].life + 1 < calls[j].life)
  <2> SUFFICES ASSUME NEW i \in W, NEW j \in W, calls[i].life + 1 < calls[j].life
               PROVE  FALSE
    OBVIOUS
  <2>1. calls[i].at + Period < calls[j].at
    BY <1>1 DEF LogInv, LogOrder
  <2> QED BY <1>0, <1>1, <2>1
<1>3. \E l \in Nat : W \subseteq InLife(l) \cup InLife(l + 1)
  <2>1. CASE W = {}
    BY <2>1
  <2>2. CASE W # {}
    <3>1. PICK i \in W : TRUE
      BY <2>2
    <3>2. CASE \E j \in W : calls[j].life < calls[i].life
      <4>1. PICK j \in W : calls[j].life < calls[i].life
        BY <3>2
      <4>2. \A h \in W : calls[h].life = calls[j].life \/ calls[h].life = calls[j].life + 1
        <5> TAKE h \in W
        <5>1. /\ calls[h].life \in Nat /\ calls[i].life \in Nat /\ calls[j].life \in Nat
          BY <1>1
        <5>2. /\ ~(calls[j].life + 1 < calls[h].life) /\ ~(calls[h].life + 1 < calls[i].life)
          BY <1>2
        <5> QED BY <4>1, <5>1, <5>2
      <4>3. W \subseteq InLife(calls[j].life) \cup InLife(calls[j].life + 1)
        BY <1>1, <4>2 DEF InLife
      <4> QED BY <1>1, <4>3
    <3>3. CASE ~(\E j \in W : calls[j].life < calls[i].life)
      <4>1. \A h \in W : calls[h].life = calls[i].life \/ calls[h].life = calls[i].life + 1
        <5> TAKE h \in W
        <5>1. calls[h].life \in Nat /\ calls[i].life \in Nat
          BY <1>1
        <5>2. ~(calls[i].life + 1 < calls[h].life) /\ ~(calls[h].life < calls[i].life)
          BY <1>2, <3>3
        <5> QED BY <5>1, <5>2
      <4>2. W \subseteq InLife(calls[i].life) \cup InLife(calls[i].life + 1)
        BY <1>1, <4>1 DEF InLife
      <4> QED BY <1>1, <4>2
    <3> QED BY <3>2, <3>3
  <2> QED BY <2>1, <2>2
<1>4. PICK l \in Nat : W \subseteq InLife(l) \cup InLife(l + 1)
  BY <1>3
<1>5. Clocks(W) \subseteq Clocks(InLife(l)) \cup Clocks(InLife(l + 1))
  BY <1>4 DEF Clocks
<1>6. /\ Cardinality(Clocks(W)) \in Nat
      /\ Cardinality(Clocks(InLife(l))) \in Nat /\ Cardinality(Clocks(InLife(l + 1))) \in Nat
      /\ Cardinality(Clocks(W)) <= Cardinality(Clocks(InLife(l))) + Cardinality(Clocks(InLife(l + 1)))
  BY <1>5, HistoryFinite, UnionBound
<1>7. /\ Cardinality(Clocks(InLife(l))) <= Limit + Cardinality(Gateways)
      /\ Cardinality(Clocks(InLife(l + 1))) <= Limit + Cardinality(Gateways)
  BY <1>4 DEF LogInv, LogLives
<1>8. Cardinality(Clocks(W)) <= 2 * (Limit + Cardinality(Gateways))
  BY <1>0, <1>6, <1>7
<1> QED BY <1>8 DEF W

(* In an open window: the entries of the log, and those it has not. *)
LEMMA LogOpen ==
  ASSUME Typing, strategy = "log", LogInv, NEW s \in Nat, s + Period > now,
         Cardinality(Log) <= Limit
  PROVE  Cardinality(Clocks(GrantedSince(s))) <= Limit + Cardinality(Gateways) + failed
<1>0. Limit \in Nat /\ Cardinality(Gateways) \in Nat /\ failed \in Nat
  BY FS_CardinalityType, RedisLimitsAssumption DEF Typing, TypeOK
<1>1. Clocks(GrantedSince(s)) \subseteq Log \cup (Older(s) \cup Missing(s))
  BY DEF Older, Missing, Recent, Clocks
<1>2. IsFiniteSet(Log) /\ IsFiniteSet(Older(s)) /\ IsFiniteSet(Missing(s))
  BY LogFinite, HistoryFinite
<1>3. /\ IsFiniteSet(Older(s) \cup Missing(s)) /\ Cardinality(Older(s) \cup Missing(s)) \in Nat
      /\ Cardinality(Older(s) \cup Missing(s)) <= Cardinality(Older(s)) + Cardinality(Missing(s))
  BY <1>2, UnionBound
<1>4. /\ Cardinality(Clocks(GrantedSince(s))) \in Nat /\ Cardinality(Log) \in Nat
      /\ Cardinality(Clocks(GrantedSince(s))) <= Cardinality(Log) + Cardinality(Older(s) \cup Missing(s))
  BY <1>1, <1>2, <1>3, UnionBound
<1>5. /\ Cardinality(Older(s)) + Cardinality(Missing(s)) + Cardinality(Lost)
           <= Cardinality(Gateways) + failed
      /\ Cardinality(Older(s)) \in Nat /\ Cardinality(Missing(s)) \in Nat /\ Cardinality(Lost) \in Nat
  BY LogFinite, HistoryFinite DEF LogInv, LogRecent
<1> QED BY <1>0, <1>3, <1>4, <1>5

LogOpens ==
  \A s \in Nat :
    s + Period > now /\ Cardinality(Log) <= Limit =>
      Cardinality(Clocks(GrantedSince(s))) <= Limit + Cardinality(Gateways) + failed

LogTwice ==
  \A s \in Nat :
    Cardinality(Clocks(Granted(s, s + Period - 1))) <= 2 * (Limit + Cardinality(Gateways))

LEMMA LogWindows == Typing /\ strategy = "log" /\ LogInv => LogOpens /\ LogTwice
BY LogOpen, LogTwoLives DEF LogOpens, LogTwice

LEMMA LogBoundIs ==
  LogBound <=>
    \A s \in 0..MaxTime :
      /\ Cardinality(Clocks(Granted(s, s + Period - 1))) <= Limit + Cardinality(Gateways) + failed
      /\ Cardinality(Clocks(Granted(s, s + Period - 1))) <= 2 * (Limit + Cardinality(Gateways))
BY DEF LogBound, Clocks

LEMMA LogBoundStep ==
  ASSUME Typing, Typing', strategy = "log", strategy' = "log", LogInv, LogBound, [Next]_vars
  PROVE  LogBound'
<1>0. /\ now \in Nat /\ MaxTime \in Nat /\ Period \in Nat \ {0} /\ failed \in Nat /\ failed' \in Nat
      /\ Limit \in Nat /\ Cardinality(Gateways) \in Nat
  BY FS_CardinalityType, RedisLimitsAssumption DEF Typing, TypeOK
<1>1. LogInv' /\ LogOpens' /\ LogTwice'
  <2>1. LogInv'
    BY LogStep
  <2>2. (Typing /\ strategy = "log" /\ LogInv)' => LogOpens' /\ LogTwice'
    BY LogWindows, PTL
  <2> QED BY <2>1, <2>2
<1>2. ASSUME NEW s \in 0..MaxTime
      PROVE  Cardinality(Clocks(Granted(s, s + Period - 1))')
               <= Limit + Cardinality(Gateways) + failed'
  <2>0. s \in Nat /\ s + Period - 1 \in Nat
    BY <1>0
  <2>1. /\ Cardinality(Clocks(Granted(s, s + Period - 1))) <= Limit + Cardinality(Gateways) + failed
        /\ Cardinality(Clocks(Granted(s, s + Period - 1))) \in Nat
    <3>1. Granted(s, s + Period - 1) \subseteq DOMAIN calls
      BY DEF Granted, Between
    <3> QED BY <3>1, LogBoundIs, ClocksFinite
  <2>2. ASSUME Clocks(Granted(s, s + Period - 1))' = Clocks(Granted(s, s + Period - 1)),
               failed' >= failed
        PROVE  Cardinality(Clocks(Granted(s, s + Period - 1))')
                 <= Limit + Cardinality(Gateways) + failed'
    BY <1>0, <2>1, <2>2
  <2>3. ASSUME NEW g \in Gateways, ZCard(g)
        PROVE  Cardinality(Clocks(Granted(s, s + Period - 1))')
                 <= Limit + Cardinality(Gateways) + failed'
    <3>0. now' = now /\ failed' = failed
      BY <2>3 DEF ZCard
    <3>1. PICK granted \in BOOLEAN :
            Joins(g, granted) /\ (granted => Cardinality(Log') <= Limit)
      BY <2>3, LogCount
    <3>2. CASE granted /\ s <= now /\ now <= s + Period - 1
      <4>1. Clocks(Granted(s, s + Period - 1))' = Clocks(GrantedSince(s))'
        <5>1. Typing' => WindowsOpen'
          BY WindowsAreOpen, PTL
        <5>2. Granted(s, s + Period - 1)' = GrantedSince(s)'
          BY <2>0, <3>0, <3>2, <5>1 DEF WindowsOpen
        <5> QED BY <5>2 DEF Clocks
      <4>2. Cardinality(Clocks(GrantedSince(s))') <= Limit + Cardinality(Gateways) + failed'
        <5>1. s + Period > now'
          BY <1>0, <2>0, <3>0, <3>2
        <5> QED BY <1>1, <2>0, <3>1, <3>2, <5>1 DEF LogOpens
      <4> QED BY <4>1, <4>2
    <3>3. CASE ~granted \/ s > now \/ s + Period - 1 < now
      <4>1. Granted(s, s + Period - 1)' = Granted(s, s + Period - 1)
        <5>1. CASE ~granted
          BY <3>1, <5>1 DEF Joins, Granted, Between
        <5>2. CASE s > now \/ s + Period - 1 < now
          BY <2>0, <3>1, <5>2, WindowOver
        <5> QED BY <3>3, <5>1, <5>2
      <4>2. Granted(s, s + Period - 1) \subseteq DOMAIN calls
        BY DEF Granted, Between
      <4>3. Clocks(Granted(s, s + Period - 1))' = Clocks(Granted(s, s + Period - 1))
        <5>1. Clocks(Granted(s, s + Period - 1))'
                = { calls'[i].clock : i \in Granted(s, s + Period - 1)' }
          BY DEF Clocks
        <5> QED BY <3>1, <4>1, <4>2, <5>1, ClocksJoin
      <4> QED BY <1>0, <2>2, <3>0, <4>3
    <3> QED BY <1>0, <2>0, <3>2, <3>3
  <2>4. ASSUME calls' = calls, failed' >= failed
        PROVE  Cardinality(Clocks(Granted(s, s + Period - 1))')
                 <= Limit + Cardinality(Gateways) + failed'
    <3>1. Clocks(Granted(s, s + Period - 1))' = Clocks(Granted(s, s + Period - 1))
      BY <2>4 DEF Clocks, Granted, Between
    <3> QED BY <2>2, <2>4, <3>1
  <2>5. ASSUME NEW g \in Gateways, ReadClock(g) \/ ZAdd(g) \/ LogExpire(g) \/ Fail(g)
        PROVE  calls' = calls /\ failed' >= failed
    BY <1>0, <2>5 DEF ReadClock, ZAdd, LogExpire, Fail
  <2>6. CASE Tick \/ UNCHANGED vars
    <3>1. calls' = calls /\ failed' = failed
      BY <2>6 DEF Tick, vars
    <3>2. failed' >= failed
      BY <1>0, <3>1
    <3> QED BY <2>4, <3>1, <3>2
  <2> QED BY <2>3, <2>4, <2>5, <2>6, LogSteps
<1>3. ASSUME NEW s \in 0..MaxTime
      PROVE  Cardinality(Clocks(Granted(s, s + Period - 1))') <= 2 * (Limit + Cardinality(Gateways))
  BY <1>0, <1>1 DEF LogTwice
<1> QED BY <1>2, <1>3 DEF LogBound, Clocks

-----------------------------------------------------------------------------
(* What makes the bounds inductive, for each limiter. *)
GrantInv ==
  /\ LagInv
  /\ strategy = "fixed" => FixedInv
  /\ strategy = "log"   => LogInv
  /\ strategy = "token" => TokenInv
  /\ strategy = "leaky" => LeakyInv
  /\ GrantsBounded

LEMMA FixedIsBounded == Typing /\ FixedInv => FixedBound
BY FixedGrants

LEMMA StrategyKept == [Next]_vars => strategy' = strategy
BY DEF Next, Call, Incr, FixedExpire, ReadClock, ZAdd, ZCard, LogExpire, TakeToken, Pour,
       Acquire, Release, Fail, Tick, vars

(* Nobody has called yet. *)
LEMMA GrantInit == Init => GrantInv
<1> SUFFICES ASSUME Init PROVE GrantInv
  OBVIOUS
<1>0. /\ DOMAIN calls = {} /\ calls = <<>> /\ value = None /\ expires = None
      /\ now = 0 /\ life = 0 /\ failed = 0
      /\ pc = [g \in Gateways |-> "idle"]
      /\ Limit \in Nat /\ Rate \in Nat /\ Scale \in Nat /\ MaxLag \in Nat /\ MaxTime \in Nat
      /\ Full \in Nat /\ Cardinality(Gateways) \in Nat
  BY FS_CardinalityType, RedisLimitsAssumption DEF Init, Full
<1>1. /\ \A l : InLife(l) = {} /\ \A s : Since(s) = {} /\ GrantedSince(s) = {}
      /\ \A s, t : Granted(s, t) = {} /\ Refused(s, t) = {}
      /\ \A phase \in Phases \ {"idle"} : At(phase) = {}
  BY <1>0 DEF InLife, Since, GrantedSince, Granted, Refused, Between, At
<1>2. \A S : S = {} => Cardinality(S) = 0
  BY FS_EmptySet
<1>3. LagInv
  BY <1>0 DEF LagInv
<1>4. FixedInv
  <2>1. At("expire") = {} /\ InLife(life) = {}
    BY <1>1 DEF Phases
  <2>2. FixedKey
    BY <1>0, <2>1 DEF FixedKey
  <2>3. FixedLimit
    BY <1>0, <1>2, <2>1 DEF FixedLimit
  <2>4. FixedEnds
    BY <1>0 DEF FixedEnds
  <2> QED BY <2>2, <2>3, <2>4 DEF FixedInv
<1>5. LogInv
  <2>1. /\ Lost = {} /\ \A l : Clocks(InLife(l)) = {} /\ Clocks(InLife(l)) \ Log = {}
        /\ \A s : Older(s) = {} /\ Missing(s) = {} /\ Clocks(GrantedSince(s)) = {}
    BY <1>1 DEF Lost, Clocks, Older, Missing, Recent, Phases
  <2>2. LogForgets
    BY <1>0, <1>2, <2>1 DEF LogForgets
  <2>3. LogLives
    BY <1>0, <1>2, <2>1 DEF LogLives
  <2>4. LogRecent
    BY <1>0, <1>2, <2>1 DEF LogRecent
  <2>5. LogEnds /\ LogOrder
    BY <1>0 DEF LogEnds, LogOrder
  <2> QED BY <2>2, <2>3, <2>4, <2>5 DEF LogInv
<1>6. TokenInv /\ LeakyInv
  BY <1>0, <1>1 DEF TokenInv, LeakyInv
<1>7. FixedBound
  BY <1>0, <1>1, <1>2 DEF FixedBound
<1>8. LogBound
  <2>1. \A s, t : Clocks(Granted(s, t)) = {}
    BY <1>1 DEF Clocks
  <2> QED BY <1>0, <1>2, <2>1, LogBoundIs
<1>9. TokenBound
  <2> SUFFICES ASSUME NEW s \in 0..MaxTime, NEW t \in s..MaxTime, NEW l \in 0..life
               PROVE  WithinTokens(s, t, l)
    BY TokenWindows
  <2>1. WindowOf(s, t, l) = {}
    BY <1>1 DEF WindowOf
  <2>2. t - s + MaxLag \in Nat
    BY <1>0
  <2>3. Rate * (t - s + MaxLag) \in Nat
    BY <1>0, <2>2
  <2>4. Scale * Cardinality(WindowOf(s, t, l)) = 0
    BY <1>0, <1>2, <2>1
  <2> QED BY <1>0, <2>3, <2>4 DEF WithinTokens
<1>10. LeakyBound
  <2> SUFFICES ASSUME NEW s \in 0..MaxTime, NEW t \in s..MaxTime
               PROVE  LeakyWithin(s, t)
    BY DEF LeakyBound, LeakyWithin, Forgiven
  <2>1. Granted(s, t) = {} /\ Refused(s, t) = {}
    BY <1>1
  <2>2. t - s + MaxLag \in Nat /\ Forgiven \in Nat
    BY <1>0 DEF Forgiven
  <2>3. Rate * (t - s + MaxLag) \in Nat
    BY <1>0, <2>2
  <2>4. Scale * Cardinality(Granted(s, t)) = 0 /\ Cardinality(Refused(s, t)) * Forgiven = 0
    BY <1>0, <1>2, <2>1, <2>2
  <2> QED BY <1>0, <2>3, <2>4 DEF LeakyWithin
<1>11. strategy = "semaphore" => SemaphoreBound
  BY TypingInit DEF PermitInv
<1> QED BY <1>3, <1>4, <1>5, <1>6, <1>7, <1>8, <1>9, <1>10, <1>11 DEF GrantInv, GrantsBounded

LEMMA GrantNext ==
  ASSUME IInv, IInv', GrantInv, [Next]_vars
  PROVE  GrantInv'
<1>0. Typing /\ Typing' /\ LagInv /\ LagInv' /\ strategy' = strategy
  BY StrategyKept, LagNext DEF IInv, GrantInv
<1>1. strategy' = "fixed" => FixedInv' /\ FixedBound'
  <2>1. strategy = "fixed" => FixedInv'
    BY <1>0, FixedStep DEF GrantInv
  <2>2. Typing' /\ FixedInv' => FixedBound'
    BY FixedIsBounded, PTL
  <2> QED BY <1>0, <2>1, <2>2
<1>2. strategy' = "log" => LogInv' /\ LogBound'
  BY <1>0, LogStep, LogBoundStep DEF GrantInv, GrantsBounded
<1>3. strategy' = "token" => TokenInv' /\ TokenBound'
  BY <1>0, TokenStep, TokenBoundStep DEF GrantInv, GrantsBounded
<1>4. strategy' = "leaky" => LeakyInv' /\ LeakyBound'
  BY <1>0, LeakyStep, LeakyBoundStep DEF GrantInv, GrantsBounded
<1>5. strategy' = "semaphore" => SemaphoreBound'
  BY DEF IInv, PermitInv
<1> QED BY <1>0, <1>1, <1>2, <1>3, <1>4, <1>5 DEF GrantInv, GrantsBounded

(* No limiter of redis.rs grants more than it should, for any number of gateways
   whose commands come in any order, however late, and that may fail between
   them: the windows grant by their counts, the buckets by what they held. *)
THEOREM GrantsAreBounded == Spec => []GrantsBounded
<1>1. Init => GrantInv
  BY GrantInit
<1>2. IInv /\ IInv' /\ GrantInv /\ [Next]_vars => GrantInv'
  BY GrantNext
<1>3. GrantInv => GrantsBounded
  BY DEF GrantInv
<1> QED BY <1>1, <1>2, <1>3, Invariance, PTL DEF Spec

=============================================================================
