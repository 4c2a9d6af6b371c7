----------------------------- MODULE RateLimitProofs -----------------------------
(***************************************************************************)
(* Theorems about RateLimit for any number of requests, every limit,       *)
(* window and latency, and a clock without bound.                          *)
(***************************************************************************)
EXTENDS RateLimit, FiniteSetTheorems, FunctionTheorems, TLAPS

\* A set that is mapped one-to-one into a finite one is finite and no larger.
LEMMA NoLarger ==
    ASSUME NEW S, NEW T, IsFiniteSet(T), NEW f \in [S -> T],
           \A a, b \in S : f[a] = f[b] => a = b
    PROVE  /\ IsFiniteSet(S) /\ Cardinality(S) \in Nat /\ Cardinality(T) \in Nat
           /\ Cardinality(S) <= Cardinality(T)
<1>1. f \in Injection(S, T)
  BY Fun_IsInj
<1>. QED  BY <1>1, FS_Injection, FS_CardinalityType
--------------------------------------------------------------------------------
(***************************************************************************)
(* Times.  A stamp is in the past, that of a check in flight in the recent *)
(* past, and no two requests have the same.                                *)
(***************************************************************************)
Flying(r) == pc[r] \notin {"new", "done"}
Started == {q \in Requests : stamp[q] # 0}
TimesOK ==
    /\ now > Window
    /\ \A r \in Requests :
          /\ pc[r] = "new" <=> stamp[r] = 0
          /\ stamp[r] <= now
          /\ Flying(r) => now <= stamp[r] + MaxLatency
    /\ IsFiniteSet(Started)
    /\ Unique => \A q, r \in Requests : q # r /\ stamp[q] = stamp[r] => stamp[q] = 0

\* Entries.  They are stamps, none is old to a check that has removed the old ones, and
\* the entry of a check is there as long as the window that begins with it.
Added(q) == pc[q] \in {"zcard", "expire"} \/ verdict[q] \in {"allowed", "denied"}
EntriesOK ==
    /\ \A e \in zset : \E q \in Started : stamp[q] = e
    /\ \A r \in Requests : pc[r] \in {"zadd", "zcard"} => \A e \in zset : e > stamp[r] - Window
    /\ \A q \in Requests :
          Added(q) /\ q \notin lost /\ now < stamp[q] + Window => stamp[q] \in zset

\* A check's step after its start leaves the clock and the stamps alone.
Command(r) == ZRemRangeByScore(r) \/ ZAdd(r) \/ ZCard(r) \/ Expire(r) \/ RedisFails(r)

LEMMA NextSteps ==
    ASSUME Next
    PROVE  (\E r \in Requests : Start(r) \/ Command(r)) \/ Tick
BY DEF Next, Command

LEMMA CommandSteps ==
    ASSUME TypeOK, NEW r \in Requests, Command(r)
    PROVE  /\ Flying(r) /\ now' = now /\ stamp' = stamp /\ lost' = lost
           /\ \A q \in Requests : q # r => /\ pc'[q] = pc[q] /\ verdict'[q] = verdict[q]
                                           /\ count'[q] = count[q]
           /\ pc'[r] # "new"
<1> USE DEF TypeOK, Flying, InFlight, Goto
<1>1. CASE ZRemRangeByScore(r)
  BY <1>1 DEF ZRemRangeByScore
<1>2. CASE ZAdd(r)
  BY <1>2 DEF ZAdd
<1>3. CASE ZCard(r)
  BY <1>3 DEF ZCard
<1>4. CASE Expire(r)
  BY <1>4 DEF Expire
<1>5. CASE RedisFails(r)
  BY <1>5 DEF RedisFails
<1>. QED  BY <1>1, <1>2, <1>3, <1>4, <1>5 DEF Command

LEMMA StartSteps ==
    ASSUME TypeOK, NEW r \in Requests, Start(r)
    PROVE  /\ now' = now /\ zset' = zset /\ ttl' = ttl /\ lost' = lost
           /\ verdict' = verdict /\ count' = count
           /\ \A q \in Requests : q # r => pc'[q] = pc[q] /\ stamp'[q] = stamp[q]
           /\ pc[r] = "new" /\ pc'[r] = "zremrangebyscore" /\ stamp'[r] = now
BY DEF Start, Goto, TypeOK

LEMMA FiniteZset ==
    ASSUME TypeOK, TimesOK, EntriesOK
    PROVE  IsFiniteSet(zset)
<1> DEFINE f == [e \in zset |-> CHOOSE q \in Started : stamp[q] = e]
<1>1. \A e \in zset : f[e] \in Started /\ stamp[f[e]] = e
  BY DEF EntriesOK
<1>2. f \in [zset -> Started] /\ \A a, b \in zset : f[a] = f[b] => a = b
  BY <1>1
<1>3. IsFiniteSet(Started)
  BY DEF TimesOK
<1> HIDE DEF f
<1>. QED  BY <1>2, <1>3, NoLarger

LEMMA TypeStep ==
    ASSUME TypeOK, TimesOK, EntriesOK, Next
    PROVE  TypeOK'
<1> USE DEF TypeOK, Phases, Verdicts, Goto
<1>1. CASE \E r \in Requests : Start(r)
  BY <1>1 DEF Start
<1>2. CASE \E r \in Requests : ZRemRangeByScore(r)
  <2>1. PICK r \in Requests : ZRemRangeByScore(r)
    BY <1>2
  <2>2. zset' \subseteq Nat /\ ttl' \in Nat /\ cut' \in BOOLEAN
    BY <2>1 DEF ZRemRangeByScore
  <2>3. pc' \in [Requests -> Phases]
    BY <2>1 DEF ZRemRangeByScore
  <2>4. \A q \in Requests : pc'[q] = "done" <=> verdict'[q] # "none"
    BY <2>1 DEF ZRemRangeByScore
  <2>. QED  BY <2>1, <2>2, <2>3, <2>4 DEF ZRemRangeByScore
<1>3. CASE \E r \in Requests : ZAdd(r)
  <2>1. PICK r \in Requests : ZAdd(r)
    BY <1>3
  <2>2. zset' \subseteq Nat
    BY <2>1 DEF ZAdd
  <2>3. pc' \in [Requests -> Phases]
    BY <2>1 DEF ZAdd
  <2>4. \A q \in Requests : pc'[q] = "done" <=> verdict'[q] # "none"
    BY <2>1 DEF ZAdd
  <2>. QED  BY <2>1, <2>2, <2>3, <2>4 DEF ZAdd
<1>4. CASE \E r \in Requests : ZCard(r)
  <2>1. Cardinality(zset) \in Nat
    BY FiniteZset, FS_CardinalityType
  <2>. QED  BY <1>4, <2>1 DEF ZCard
<1>5. CASE \E r \in Requests : Expire(r)
  <2>1. PICK r \in Requests : Expire(r)
    BY <1>5
  <2>2. ttl' \in Nat
    BY <2>1, RateAssumption DEF Expire, SetExpiry
  <2>3. cut' \in BOOLEAN
    BY <2>1 DEF Expire, SetExpiry
  <2>4. /\ zset' \subseteq Nat /\ now' \in Nat /\ lost' \subseteq Requests
        /\ stamp' = stamp /\ count' = count
    BY <2>1 DEF Expire
  <2>5. /\ pc' \in [Requests -> Phases] /\ verdict' \in [Requests -> Verdicts]
        /\ \A q \in Requests : pc'[q] = "done" <=> verdict'[q] # "none"
    BY <2>1 DEF Expire
  <2>. QED  BY <2>2, <2>3, <2>4, <2>5
<1>6. CASE \E r \in Requests : RedisFails(r)
  <2>1. PICK r \in Requests : RedisFails(r)
    BY <1>6
  <2>2. ttl' \in Nat
    BY <2>1, RateAssumption DEF RedisFails, SetExpiry
  <2>3. cut' \in BOOLEAN
    BY <2>1 DEF RedisFails, SetExpiry
  <2>4. /\ zset' \subseteq Nat /\ now' \in Nat /\ lost' \subseteq Requests
        /\ stamp' = stamp /\ count' = count
    BY <2>1 DEF RedisFails
  <2>5. /\ pc' \in [Requests -> Phases] /\ verdict' \in [Requests -> Verdicts]
        /\ \A q \in Requests : pc'[q] = "done" <=> verdict'[q] # "none"
    BY <2>1 DEF RedisFails, InFlight
  <2>. QED  BY <2>2, <2>3, <2>4, <2>5
<1>7. CASE Tick
  <2>1. now' \in Nat /\ zset' \subseteq Nat /\ ttl' \in Nat
    <3>1. now' \in Nat
      BY <1>7 DEF Tick
    <3>2. zset' \subseteq Nat /\ ttl' \in Nat
      <4>1. \/ zset' = {} /\ ttl' = 0
            \/ zset' = zset /\ ttl' = ttl
        BY <1>7 DEF Tick
      <4>2. CASE zset' = {} /\ ttl' = 0
        BY <4>2
      <4>3. CASE zset' = zset /\ ttl' = ttl
        BY <4>3
      <4>. QED  BY <4>1, <4>2, <4>3
    <3>. QED  BY <3>1, <3>2
  <2>3. lost' \subseteq Requests /\ cut' \in BOOLEAN
    BY <1>7 DEF Tick
  <2>2. pc' = pc /\ stamp' = stamp /\ count' = count /\ verdict' = verdict
    BY <1>7 DEF Tick
  <2>. QED  BY <2>1, <2>2, <2>3
<1>. QED  BY <1>1, <1>2, <1>3, <1>4, <1>5, <1>6, <1>7 DEF Next

LEMMA TimesStep ==
    ASSUME TypeOK, TimesOK, Next
    PROVE  TimesOK'
<1> USE RateAssumption
<1>1. ASSUME NEW r \in Requests, Start(r)
      PROVE  TimesOK'
  <2>0. stamp[r] = 0 /\ now # 0
    BY <1>1, StartSteps DEF TimesOK, TypeOK
  <2>1. Started' = Started \cup {r}
    BY <1>1, <2>0, StartSteps DEF Started
  <2>2. IsFiniteSet(Started')
    BY <2>1, FS_AddElement DEF TimesOK
  <2>3. ASSUME Unique, NEW q \in Requests, NEW p \in Requests, q # p, stamp'[q] = stamp'[p]
        PROVE  stamp'[q] = 0
    BY <1>1, <2>3, StartSteps DEF Start, TimesOK
  <2>4. now' > Window
    BY <1>1, StartSteps DEF TimesOK
  <2>5. ASSUME NEW q \in Requests
        PROVE  /\ pc'[q] = "new" <=> stamp'[q] = 0
               /\ stamp'[q] <= now'
               /\ Flying(q)' => now' <= stamp'[q] + MaxLatency
    BY <1>1, <2>0, StartSteps DEF TimesOK, Flying, TypeOK
  <2>. QED  BY <2>2, <2>3, <2>4, <2>5 DEF TimesOK
<1>2. ASSUME NEW r \in Requests, Command(r)
      PROVE  TimesOK'
  <2>1. stamp' = stamp /\ now' = now /\ Started' = Started
    BY <1>2, CommandSteps DEF Started
  <2>2. \A q \in Requests :
          /\ pc'[q] = "new" <=> stamp'[q] = 0
          /\ Flying(q)' => Flying(q)
    BY <1>2, CommandSteps DEF TimesOK, Flying
  <2>. QED  BY <2>1, <2>2 DEF TimesOK
<1>3. CASE Tick
  <2>1. stamp' = stamp /\ pc' = pc /\ now' = now + 1 /\ Started' = Started
    BY <1>3 DEF Tick, Started
  <2>2. \A r \in Requests : Flying(r) => now < stamp[r] + MaxLatency
    BY <1>3 DEF Tick, InFlight, Flying
  <2>3. \A r \in Requests : Flying(r) => now' <= stamp[r] + MaxLatency
    BY <2>1, <2>2 DEF TypeOK
  <2>4. now' > Window /\ \A r \in Requests : stamp[r] <= now'
    BY <2>1 DEF TimesOK, TypeOK
  <2>. QED  BY <2>1, <2>3, <2>4 DEF TimesOK, Flying
<1>. QED  BY <1>1, <1>2, <1>3, NextSteps

LEMMA EntriesStep ==
    ASSUME TypeOK, TimesOK, EntriesOK, Next
    PROVE  EntriesOK'
<1> USE RateAssumption
<1>1. ASSUME NEW r \in Requests, Start(r)
      PROVE  EntriesOK'
  <2>1. \A q \in Requests : (Added(q)' => Added(q) /\ q # r)
    BY <1>1, StartSteps DEF Added, TypeOK
  <2>2. \A e \in zset : \E q \in Started' : stamp'[q] = e
    BY <1>1, StartSteps DEF EntriesOK, Started, TimesOK
  <2>. QED  BY <1>1, <2>1, <2>2, StartSteps DEF EntriesOK
<1>2. ASSUME NEW r \in Requests, ZRemRangeByScore(r)
      PROVE  EntriesOK'
  <2>0. /\ Command(r) /\ zset' = {e \in zset : e > stamp[r] - Window}
        /\ pc[r] = "zremrangebyscore" /\ pc'[r] = "zadd" /\ verdict' = verdict
    BY <1>2 DEF Command, ZRemRangeByScore, Goto, TypeOK
  <2>1. \A q \in Requests : Added(q)' => Added(q)
    BY <2>0, CommandSteps DEF Added
  <2>2. stamp[r] <= now /\ stamp[r] \in Nat /\ now \in Nat
    BY DEF TimesOK, TypeOK
  <2>3. \A e \in zset' : \E q \in Started' : stamp'[q] = e
    BY <2>0, CommandSteps DEF EntriesOK, Started
  <2>4. ASSUME NEW q \in Requests, Added(q)', q \notin lost', now' < stamp'[q] + Window
        PROVE  stamp'[q] \in zset'
    <3>1. stamp[q] \in zset /\ now < stamp[q] + Window /\ stamp[q] \in Nat
      BY <2>0, <2>1, <2>4, CommandSteps DEF EntriesOK, TypeOK
    <3>2. stamp[q] > stamp[r] - Window
      BY <2>2, <3>1
    <3>. QED  BY <2>0, <3>1, <3>2, CommandSteps
  <2>5. ASSUME NEW q \in Requests, pc'[q] \in {"zadd", "zcard"}, NEW e \in zset'
        PROVE  e > stamp'[q] - Window
    BY <2>0, <2>5, CommandSteps DEF EntriesOK
  <2>. QED  BY <2>3, <2>4, <2>5 DEF EntriesOK
<1>3. ASSUME NEW r \in Requests, ZAdd(r)
      PROVE  EntriesOK'
  <2>0. /\ Command(r) /\ zset' = zset \cup {stamp[r]}
        /\ pc[r] = "zadd" /\ pc'[r] = "zcard" /\ verdict' = verdict
    BY <1>3 DEF Command, ZAdd, Goto, TypeOK
  <2>1. stamp' = stamp /\ now' = now /\ lost' = lost /\ Started' = Started
    BY <2>0, CommandSteps DEF Started
  <2>2. stamp[r] # 0 /\ now <= stamp[r] + MaxLatency
    BY <2>0 DEF TimesOK, Flying
  <2>3. \A e \in zset' : \E q \in Started' : stamp'[q] = e
    BY <2>0, <2>1, <2>2 DEF EntriesOK, Started
  <2>4. ASSUME NEW q \in Requests, Added(q)', q \notin lost', now' < stamp'[q] + Window
        PROVE  stamp'[q] \in zset'
    <3>1. q = r \/ Added(q)
      BY <2>0, <2>4, CommandSteps DEF Added
    <3>. QED  BY <2>0, <2>1, <2>4, <3>1 DEF EntriesOK
  <2>5. ASSUME NEW q \in Requests, pc'[q] \in {"zadd", "zcard"}, NEW e \in zset'
        PROVE  e > stamp'[q] - Window
    <3>1. pc[q] \in {"zadd", "zcard"}
      BY <2>0, <2>5, CommandSteps
    <3>2. stamp[q] <= now /\ stamp[q] \in Nat /\ stamp[r] \in Nat /\ now \in Nat
      BY DEF TimesOK, TypeOK
    <3>3. stamp[r] > stamp[q] - Window
      BY <2>2, <3>2
    <3>. QED  BY <2>0, <2>1, <3>1, <3>3 DEF EntriesOK
  <2>. QED  BY <2>3, <2>4, <2>5 DEF EntriesOK
<1>4. ASSUME NEW r \in Requests, ZCard(r) \/ Expire(r) \/ RedisFails(r)
      PROVE  EntriesOK'
  <2>0. /\ Command(r) /\ zset' = zset
        /\ pc'[r] \in {"expire", "done"}
        /\ Added(r)' => Added(r)
    BY <1>4 DEF Command, ZCard, Expire, RedisFails, Goto, TypeOK, Added
  <2>1. stamp' = stamp /\ now' = now /\ lost' = lost /\ Started' = Started
    BY <2>0, CommandSteps DEF Started
  <2>2. \A q \in Requests : Added(q)' => Added(q)
    BY <2>0, CommandSteps DEF Added
  <2>3. \A q \in Requests : pc'[q] \in {"zadd", "zcard"} => pc[q] \in {"zadd", "zcard"}
    BY <2>0, CommandSteps
  <2>. QED  BY <2>0, <2>1, <2>2, <2>3 DEF EntriesOK
<1>5. CASE Tick
  <2>0. stamp' = stamp /\ pc' = pc /\ verdict' = verdict /\ now' = now + 1 /\ Started' = Started
    BY <1>5 DEF Tick, Started
  <2>1. CASE zset' = zset /\ lost' = lost
    <3>1. \A q \in Requests : now' < stamp[q] + Window => now < stamp[q] + Window
      BY <2>0 DEF TypeOK
    <3>2. \A q \in Requests : Added(q)' => Added(q)
      BY <2>0 DEF Added
    <3>. QED  BY <2>0, <2>1, <3>1, <3>2 DEF EntriesOK
  <2>2. CASE /\ zset' = {}
             /\ lost' = lost \cup {r \in Requests : stamp[r] \in zset /\ stamp[r] > now' - Window}
    <3>1. ASSUME NEW q \in Requests, Added(q)', q \notin lost', now' < stamp'[q] + Window
          PROVE  FALSE
      <4>1. now \in Nat /\ stamp[q] \in Nat
        BY DEF TypeOK
      <4>2. now < stamp[q] + Window /\ stamp[q] > now' - Window
        BY <2>0, <3>1, <4>1
      <4>3. stamp[q] \in zset
        BY <2>0, <2>2, <3>1, <4>2 DEF EntriesOK, Added
      <4>. QED  BY <2>2, <3>1, <4>2, <4>3
    <3>. QED  BY <2>2, <3>1 DEF EntriesOK
  <2>. QED  BY <1>5, <2>1, <2>2 DEF Tick
<1>. QED  BY <1>1, <1>2, <1>3, <1>4, <1>5, NextSteps DEF Command

SetInv == TypeOK /\ TimesOK /\ EntriesOK

LEMMA SetHolds == Spec => []SetInv
<1>1. Init => SetInv
  <2> SUFFICES ASSUME Init PROVE SetInv
    OBVIOUS
  <2>1. TypeOK
    <3>1. cut \in BOOLEAN
      BY DEF Init
    <3>. QED  BY <3>1, RateAssumption DEF Init, TypeOK, Phases, Verdicts
  <2>2. Started = {}
    BY DEF Init, Started
  <2>3. TimesOK
    BY <2>2, RateAssumption, FS_EmptySet DEF Init, TimesOK, Flying
  <2>4. EntriesOK
    BY DEF Init, EntriesOK, Added
  <2>. QED  BY <2>1, <2>3, <2>4 DEF SetInv
<1>2. SetInv /\ [Next]_vars => SetInv'
  <2>1. SetInv /\ Next => SetInv'
    BY TypeStep, TimesStep, EntriesStep DEF SetInv
  <2>2. SetInv /\ UNCHANGED vars => SetInv'
    BY DEF vars, SetInv, TypeOK, TimesOK, EntriesOK, Started, Flying, Added
  <2>. QED  BY <2>1, <2>2
<1>. QED  BY <1>1, <1>2, PTL DEF Spec
--------------------------------------------------------------------------------
(***************************************************************************)
(* Denials.  A check that has counted too much has counted others, made    *)
(* within its window.                                                      *)
(***************************************************************************)
Earlier(r) == {q \in Requests \ {r} : stamp[q] # 0 /\ stamp[q] > stamp[r] - Window}
Refusing(r) == (pc[r] = "expire" /\ count[r] > Limit) \/ verdict[r] = "denied"
DenialsOK == \A r \in Requests : Refusing(r) => Cardinality(Earlier(r)) >= Limit

\* Those that were earlier stay so, and are finitely many.
LEMMA EarlierStays ==
    ASSUME SetInv, Next, NEW r \in Requests, stamp'[r] = stamp[r]
    PROVE  /\ IsFiniteSet(Earlier(r)) /\ IsFiniteSet(Earlier(r)')
           /\ Cardinality(Earlier(r)) \in Nat /\ Cardinality(Earlier(r)') \in Nat
           /\ Cardinality(Earlier(r)) <= Cardinality(Earlier(r)')
<1>1. \A q \in Requests : stamp[q] # 0 => stamp'[q] = stamp[q]
  BY NextSteps, StartSteps, CommandSteps DEF SetInv, TimesOK, Tick
<1>2. Earlier(r) \subseteq Earlier(r)'
  BY <1>1 DEF Earlier
<1>3. Earlier(r) \subseteq Started /\ Earlier(r)' \subseteq Started'
  BY DEF Earlier, Started
<1>4. IsFiniteSet(Started) /\ IsFiniteSet(Started')
  BY TimesStep DEF SetInv, TimesOK
<1>5. IsFiniteSet(Earlier(r)) /\ IsFiniteSet(Earlier(r)')
  BY <1>3, <1>4, FS_Subset
<1>. QED  BY <1>2, <1>5, FS_Subset, FS_CardinalityType

\* What ZCARD answers counts the check itself and earlier ones.
LEMMA CountsEarlier ==
    ASSUME SetInv, NEW r \in Requests, pc[r] = "zcard"
    PROVE  /\ Cardinality(zset) \in Nat /\ IsFiniteSet(Earlier(r))
           /\ Cardinality(Earlier(r)) \in Nat
           /\ Cardinality(zset) <= Cardinality(Earlier(r)) + 1
<1> DEFINE T == zset \ {stamp[r]}
           f == [e \in T |-> CHOOSE q \in Started : stamp[q] = e]
<1>1. \A e \in T : f[e] \in Started /\ stamp[f[e]] = e /\ e # stamp[r]
  BY DEF SetInv, EntriesOK
<1>2. \A e \in T : f[e] \in Earlier(r)
  <2>1. \A e \in T : e > stamp[r] - Window
    BY DEF SetInv, EntriesOK
  <2>. QED  BY <1>1, <2>1 DEF Earlier, Started
<1>3. f \in [T -> Earlier(r)] /\ \A a, b \in T : f[a] = f[b] => a = b
  BY <1>1, <1>2
<1>4. IsFiniteSet(Earlier(r))
  <2>1. Earlier(r) \subseteq Started /\ IsFiniteSet(Started)
    BY DEF Earlier, Started, SetInv, TimesOK
  <2>. QED  BY <2>1, FS_Subset
<1> HIDE DEF f
<1>5. /\ Cardinality(T) \in Nat /\ Cardinality(Earlier(r)) \in Nat
      /\ Cardinality(T) <= Cardinality(Earlier(r))
  BY <1>3, <1>4, NoLarger
<1>6. IsFiniteSet(zset)
  BY FiniteZset DEF SetInv
<1>7. Cardinality(zset) \in Nat
  BY <1>6, FS_CardinalityType
<1>8. Cardinality(T) = IF stamp[r] \in zset THEN Cardinality(zset) - 1 ELSE Cardinality(zset)
  BY <1>6, FS_RemoveElement
<1>. QED  BY <1>4, <1>5, <1>7, <1>8

LEMMA DenialsStep ==
    ASSUME SetInv, DenialsOK, Next
    PROVE  DenialsOK'
<1> SUFFICES ASSUME NEW r \in Requests, Refusing(r)' PROVE Cardinality(Earlier(r)') >= Limit
  BY DEF DenialsOK
<1> USE RateAssumption
<1>0. TypeOK
  BY DEF SetInv
<1>1. CASE Refusing(r) /\ stamp'[r] = stamp[r]
  BY <1>1, EarlierStays DEF DenialsOK
<1>2. CASE ZCard(r)
  <2>1. /\ pc[r] = "zcard" /\ count'[r] = Cardinality(zset)
        /\ verdict'[r] = verdict[r] /\ verdict[r] = "none" /\ stamp' = stamp
    BY <1>0, <1>2 DEF ZCard, TypeOK
  <2>2. Cardinality(zset) > Limit
    BY <2>1 DEF Refusing
  <2>3. Cardinality(Earlier(r)) >= Limit
    BY <2>1, <2>2, CountsEarlier
  <2>. QED  BY <2>1, <2>3, EarlierStays
<1>3. (Refusing(r) /\ stamp'[r] = stamp[r]) \/ ZCard(r)
  <2>1. CASE Tick
    BY <2>1 DEF Tick, Refusing
  <2>2. ASSUME NEW q \in Requests, Start(q)
        PROVE  Refusing(r) /\ stamp'[r] = stamp[r]
    BY <1>0, <2>2, StartSteps DEF Refusing, TypeOK
  <2>3. ASSUME NEW q \in Requests, Command(q), q # r
        PROVE  Refusing(r) /\ stamp'[r] = stamp[r]
    BY <1>0, <2>3, CommandSteps DEF Refusing
  <2>4. CASE ZRemRangeByScore(r) \/ ZAdd(r)
    BY <1>0, <2>4 DEF ZRemRangeByScore, ZAdd, Goto, Refusing, TypeOK
  <2>5. CASE Expire(r)
    BY <1>0, <2>5 DEF Expire, Goto, Refusing, TypeOK
  <2>6. CASE RedisFails(r)
    BY <1>0, <2>6 DEF RedisFails, Goto, Refusing, TypeOK, InFlight
  <2>. QED  BY <2>1, <2>2, <2>3, <2>4, <2>5, <2>6, NextSteps DEF Command
<1>. QED  BY <1>1, <1>2, <1>3
--------------------------------------------------------------------------------
\* The key expires, or a check is to give it an expiry, or one broke off before it did.
KeyOK ==
    /\ \/ ttl = 0
       \/ ttl > now /\ ttl <= now + Window
    /\ zset # {} /\ ttl = 0 =>
          \/ cut
          \/ \E r \in Requests : pc[r] \in {"zcard", "expire"}

LEMMA ExpirySet ==
    ASSUME TypeOK, SetExpiry, zset' = zset, now' = now
    PROVE  KeyOK'
<1>1. now \in Nat /\ Window \in Nat /\ Window > 0
  BY RateAssumption DEF TypeOK
<1>2. ttl' = (IF zset = {} THEN 0 ELSE now + Window)
  BY DEF SetExpiry
<1>3. CASE zset = {}
  <2>1. zset' = {} /\ ttl' = 0
    BY <1>2, <1>3
  <2>. QED  BY <2>1 DEF KeyOK
<1>4. CASE zset # {}
  <2>1. ttl' = now + Window
    BY <1>2, <1>4
  <2>2. ttl' > now' /\ ttl' <= now' + Window /\ ttl' # 0
    BY <1>1, <2>1
  <2>. QED  BY <2>2 DEF KeyOK
<1>. QED  BY <1>3, <1>4

LEMMA KeyStep ==
    ASSUME TypeOK, KeyOK, Next
    PROVE  KeyOK'
<1> USE RateAssumption DEF TypeOK, Goto
<1>1. ASSUME NEW r \in Requests, Start(r)
      PROVE  KeyOK'
  BY <1>1 DEF Start, KeyOK
<1>2. ASSUME NEW r \in Requests, ZRemRangeByScore(r)
      PROVE  KeyOK'
  BY <1>2 DEF ZRemRangeByScore, KeyOK
<1>3. ASSUME NEW r \in Requests, ZAdd(r)
      PROVE  KeyOK'
  BY <1>3 DEF ZAdd, KeyOK
<1>4. ASSUME NEW r \in Requests, ZCard(r)
      PROVE  KeyOK'
  BY <1>4 DEF ZCard, KeyOK
<1>5. ASSUME NEW r \in Requests, Expire(r)
      PROVE  KeyOK'
  BY <1>5, ExpirySet DEF Expire
<1>6. ASSUME NEW r \in Requests, RedisFails(r)
      PROVE  KeyOK'
  <2>1. /\ zset' = zset /\ now' = now
        /\ \A q \in Requests : q # r => pc'[q] = pc[q]
    BY <1>6 DEF RedisFails
  <2>2. CASE SetExpiry
    BY <2>1, <2>2, ExpirySet
  <2>3. CASE /\ ttl' = ttl
             /\ cut' = (cut \/ (pc[r] \in {"zcard", "expire"} /\ zset # {} /\ ttl = 0))
    BY <2>1, <2>3 DEF KeyOK
  <2>. QED  BY <1>6, <2>2, <2>3 DEF RedisFails
<1>7. CASE Tick
  BY <1>7 DEF Tick, KeyOK
<1>. QED  BY <1>1, <1>2, <1>3, <1>4, <1>5, <1>6, <1>7 DEF Next

\* No request is refused without Limit others within its window, and the key
\* expires within a window once no check is in flight, unless a pipeline broke off
\* between its ZADD and its EXPIRE, however the pipelines alternate (limiter.go:53-104).
THEOREM InvHolds == Spec => []Inv
<1>1. Init => DenialsOK /\ KeyOK
  BY DEF Init, DenialsOK, Refusing, KeyOK
<1>2. SetInv /\ DenialsOK /\ KeyOK /\ [Next]_vars => (DenialsOK /\ KeyOK)'
  <2>1. SetInv /\ DenialsOK /\ KeyOK /\ Next => (DenialsOK /\ KeyOK)'
    BY DenialsStep, KeyStep DEF SetInv
  <2>2. DenialsOK /\ KeyOK /\ UNCHANGED vars => (DenialsOK /\ KeyOK)'
    BY DEF vars, DenialsOK, Refusing, Earlier, KeyOK
  <2>. QED  BY <2>1, <2>2
<1>3. DenialsOK => DenialJustified
  BY DEF DenialsOK, Refusing, Earlier, DenialJustified
<1>4. TypeOK /\ KeyOK => KeyExpires
  BY DEF KeyOK, KeyExpires, InFlight, TypeOK
<1>5. SetInv /\ DenialsOK /\ KeyOK => Inv
  BY <1>3, <1>4 DEF Inv, SetInv
<1>. QED  BY SetHolds, <1>1, <1>2, <1>5, PTL DEF Spec
--------------------------------------------------------------------------------
(***************************************************************************)
(* Admissions.  Of those that pass within a window the last to count has   *)
(* counted the others.                                                     *)
(***************************************************************************)
Span == Window - MaxLatency
Passed(r) == (pc[r] = "expire" /\ count[r] <= Limit) \/ verdict[r] = "allowed"
Passing(t) == {r \in Requests : Passed(r) /\ stamp[r] > t /\ stamp[r] <= t + Span} \ lost
AdmitOK == \A t \in Nat : Cardinality(Passing(t)) <= Limit

\* Those that pass, once another has counted: their entries are in the set it counted.
LEMMA PassingCounted ==
    ASSUME SetInv, Unique, NEW r \in Requests, pc[r] = "zcard", NEW t \in Nat,
           stamp[r] > t, stamp[r] <= t + Span,
           NEW S, S \subseteq (Passing(t) \cup {r}) \ lost
    PROVE  Cardinality(S) <= Cardinality(zset)
<1> USE RateAssumption
<1>0. TypeOK /\ TimesOK /\ EntriesOK
  BY DEF SetInv
<1>1. now <= stamp[r] + MaxLatency /\ stamp[r] \in Nat /\ now \in Nat
  BY <1>0 DEF TimesOK, Flying, TypeOK
<1>2. now <= t + Window
  BY <1>1 DEF Span
<1>3. ASSUME NEW q \in S
      PROVE  /\ q \in Requests /\ stamp[q] \in zset /\ stamp[q] # 0
  <2>1. q \in Requests /\ q \notin lost /\ stamp[q] > t /\ stamp[q] \in Nat
    BY <1>0, <1>3 DEF Passing, TypeOK
  <2>2. Added(q)
    BY <1>3 DEF Added, Passing, Passed
  <2>3. now < stamp[q] + Window
    BY <1>1, <1>2, <2>1
  <2>. QED  BY <1>0, <2>1, <2>2, <2>3 DEF EntriesOK
<1> DEFINE f == [q \in S |-> stamp[q]]
<1>4. f \in [S -> zset]
  BY <1>3
<1>5. \A a, b \in S : f[a] = f[b] => a = b
  BY <1>0, <1>3 DEF TimesOK
<1>6. IsFiniteSet(zset)
  BY <1>0, FiniteZset
<1> HIDE DEF f
<1>. QED  BY <1>4, <1>5, <1>6, NoLarger

LEMMA AdmitStep ==
    ASSUME SetInv, Unique, AdmitOK, Next
    PROVE  AdmitOK'
<1> SUFFICES ASSUME NEW t \in Nat PROVE Cardinality(Passing(t)') <= Limit
  BY DEF AdmitOK
<1> USE RateAssumption
<1>0. TypeOK /\ TimesOK /\ IsFiniteSet(Passing(t)) /\ Cardinality(Passing(t)) \in Nat
      /\ Cardinality(Passing(t)) <= Limit
  <2>1. Passing(t) \subseteq Started
    BY DEF Passing, Started, SetInv, TypeOK
  <2>2. IsFiniteSet(Passing(t))
    BY <2>1, FS_Subset DEF SetInv, TimesOK
  <2>. QED  BY <2>2, FS_CardinalityType DEF SetInv, AdmitOK
<1>1. CASE Passing(t)' \subseteq Passing(t)
  <2>1. IsFiniteSet(Passing(t)') /\ Cardinality(Passing(t)') <= Cardinality(Passing(t))
    BY <1>0, <1>1, FS_Subset
  <2>2. Cardinality(Passing(t)') \in Nat
    BY <2>1, FS_CardinalityType
  <2>. QED  BY <1>0, <2>1, <2>2
<1>2. lost \subseteq lost'
  BY <1>0, NextSteps, StartSteps, CommandSteps DEF Tick
<1>3. ASSUME NEW r \in Requests, ZCard(r), ~(Passing(t)' \subseteq Passing(t))
      PROVE  Cardinality(Passing(t)') <= Limit
  <2>0. /\ Command(r) /\ pc[r] = "zcard" /\ pc'[r] = "expire"
        /\ count'[r] = Cardinality(zset) /\ verdict' = verdict
    BY <1>0, <1>3 DEF Command, ZCard, Goto, TypeOK
  <2>1. \A q \in Requests : q # r /\ Passed(q)' => Passed(q)
    BY <1>0, <2>0, CommandSteps DEF Passed
  <2>2. stamp' = stamp /\ lost' = lost
    BY <1>0, <2>0, CommandSteps
  <2>3. Passing(t)' \subseteq (Passing(t) \cup {r}) \ lost
    BY <2>1, <2>2 DEF Passing
  <2>4. r \in Passing(t)'
    BY <1>3, <2>3
  <2>5. Passed(r)' /\ stamp[r] > t /\ stamp[r] <= t + Span
    BY <2>2, <2>4 DEF Passing
  <2>6. verdict[r] = "none"
    BY <1>0, <2>0 DEF TypeOK
  <2>7. Cardinality(zset) <= Limit
    BY <2>0, <2>5, <2>6 DEF Passed
  <2>8. Cardinality(Passing(t)') <= Cardinality(zset)
    BY <2>0, <2>3, <2>5, PassingCounted
  <2>9. IsFiniteSet(Passing(t)') /\ IsFiniteSet(zset)
    BY <1>0, <2>3, FS_AddElement, FS_Subset, FiniteZset DEF SetInv
  <2>10. Cardinality(Passing(t)') \in Nat /\ Cardinality(zset) \in Nat
    BY <2>9, FS_CardinalityType
  <2>. QED  BY <2>7, <2>8, <2>10
<1>4. CASE ~\E r \in Requests : ZCard(r)
  <2>1. ASSUME NEW q \in Requests, Passed(q)'
        PROVE  Passed(q) /\ stamp'[q] = stamp[q]
    <3>1. CASE Tick
      BY <2>1, <3>1 DEF Tick, Passed
    <3>2. ASSUME NEW r \in Requests, Start(r)
          PROVE  Passed(q) /\ stamp'[q] = stamp[q]
      BY <1>0, <2>1, <3>2, StartSteps DEF Passed, TypeOK
    <3>3. ASSUME NEW r \in Requests, Command(r), r # q
          PROVE  Passed(q) /\ stamp'[q] = stamp[q]
      BY <1>0, <2>1, <3>3, CommandSteps DEF Passed
    <3>4. CASE ZRemRangeByScore(q) \/ ZAdd(q)
      BY <1>0, <2>1, <3>4 DEF ZRemRangeByScore, ZAdd, Goto, Passed, TypeOK
    <3>5. CASE Expire(q)
      BY <1>0, <2>1, <3>5 DEF Expire, Goto, Passed, TypeOK
    <3>6. CASE RedisFails(q)
      BY <1>0, <2>1, <3>6 DEF RedisFails, Goto, Passed, TypeOK, InFlight
    <3>. QED  BY <1>4, <3>1, <3>2, <3>3, <3>4, <3>5, <3>6, NextSteps DEF Command
  <2>2. Passing(t)' \subseteq Passing(t)
    BY <1>2, <2>1 DEF Passing
  <2>. QED  BY <1>1, <2>2
<1>. QED  BY <1>1, <1>3, <1>4

\* However the pipelines of concurrent checks alternate, no window, less the latency of
\* a check, lets more than Limit requests pass whose entries the key's expiry has not
\* taken, if no two requests read the same nanosecond (limiter.go:53-104).
THEOREM AdmitBoundHolds == ASSUME Unique PROVE Spec => []AdmitBound
<1>1. Init => AdmitOK
  <2> SUFFICES ASSUME Init, NEW t \in Nat PROVE Cardinality(Passing(t)) <= Limit
    BY DEF AdmitOK
  <2>1. Passing(t) = {}
    BY DEF Init, Passing, Passed
  <2>2. Cardinality(Passing(t)) = 0
    BY <2>1, FS_EmptySet
  <2>. QED  BY <2>2, RateAssumption
<1>2. SetInv /\ AdmitOK /\ [Next]_vars => AdmitOK'
  <2>1. SetInv /\ AdmitOK /\ Next => AdmitOK'
    BY AdmitStep
  <2>2. AdmitOK /\ UNCHANGED vars => AdmitOK'
    BY DEF vars, AdmitOK, Passing, Passed
  <2>. QED  BY <2>1, <2>2
<1>3. SetInv /\ AdmitOK => AdmitBound
  <2> SUFFICES ASSUME SetInv, AdmitOK, NEW t \in 0..now
               PROVE  Cardinality(Within("allowed", t, Window - MaxLatency) \ lost) <= Limit
    BY DEF AdmitBound
  <2>1. t \in Nat /\ Cardinality(Passing(t)) <= Limit
    BY DEF AdmitOK, SetInv, TypeOK
  <2>2. Within("allowed", t, Window - MaxLatency) \ lost \subseteq Passing(t)
    BY DEF Within, Passing, Passed, Span
  <2>3. Passing(t) \subseteq Started /\ IsFiniteSet(Started)
    BY <2>1, RateAssumption DEF Passing, Started, SetInv, TypeOK, TimesOK
  <2>4. IsFiniteSet(Passing(t))
    BY <2>3, FS_Subset
  <2>5. /\ IsFiniteSet(Within("allowed", t, Window - MaxLatency) \ lost)
        /\ Cardinality(Within("allowed", t, Window - MaxLatency) \ lost) <= Cardinality(Passing(t))
    BY <2>2, <2>4, FS_Subset
  <2>6. /\ Cardinality(Passing(t)) \in Nat
        /\ Cardinality(Within("allowed", t, Window - MaxLatency) \ lost) \in Nat
    BY <2>4, <2>5, FS_CardinalityType
  <2>. QED  BY <2>1, <2>5, <2>6, RateAssumption
<1>. QED  BY SetHolds, <1>1, <1>2, <1>3, PTL DEF Spec
================================================================================
