------------------------- MODULE RelayLimitsProofs -------------------------
(***************************************************************************)
(* Proofs about RelayLimits, for every set of keys, every rate and every   *)
(* bound, and however late the requests are: the table of buckets stays    *)
(* within its bound; as long as no claim was late, a claim finds the two   *)
(* buckets it needs; and where there is room for everybody nobody gets     *)
(* more than his rate allows in the time that passed and that he waited.   *)
(***************************************************************************)
EXTENDS RelayLimits, FiniteSetTheorems, WellFoundedInduction, TLAPS

-----------------------------------------------------------------------------
(* The invariant, of a table bs and the instant at which it is held.        *)

Shaped(bs) ==
    /\ DOMAIN bs \subseteq Keys
    /\ \A k \in DOMAIN bs : bs[k] \in Bucket

SeenBy(bs, time) == \A k \in DOMAIN bs : bs[k].seen <= time

Bounded(bs) == IsFiniteSet(DOMAIN bs) /\ Cardinality(DOMAIN bs) <= MaxBuckets

\* Whoever has claimed has also asked for everybody's bucket, and no earlier.
ClaimsShare(bs) == \A c \in Claimants \cap DOMAIN bs :
    Global \in DOMAIN bs /\ bs[c].seen <= bs[Global].seen

\* Between two requests every bucket was seen before the present instant.  Once a
\* claim was late, its bucket may have been seen after everybody's.
LimitsInv ==
    /\ TypeOK
    /\ \A k \in DOMAIN buckets : buckets[k].seen < now
    /\ Bounded(buckets)
    /\ late[Global] = 0 => ClaimsShare(buckets)

-----------------------------------------------------------------------------
(* Pruning and evicting.                                                    *)

LEMMA TimesSum == \A m, n, i \in Nat : m * (n + i) = m * n + m * i  OBVIOUS

\* A time that a request read is past.
LEMMA TimesArePast ==
    ASSUME now \in Nat, NEW t \in Times
    PROVE  t \in Nat /\ t <= now
BY DEF Times

\* What passes since a bucket was seen.
LEMMA SinceType ==
    ASSUME NEW t \in Nat, NEW seen \in Nat
    PROVE  /\ Since(t, seen) \in Nat
           /\ Since(t, seen) = 0 \/ seen + Since(t, seen) = t
BY DEF Since

\* A set of numbers that is not empty has a least member.
LEMMA LeastOfSet ==
    ASSUME NEW S \in SUBSET Nat, S # {}
    PROVE  \E m \in S : \A n \in S : m <= n
<1> DEFINE Before == OpToRel(<, Nat)
<1>1. IsWellFoundedOn(Before, Nat)  BY NatLessThanWellFounded, Zenon
<1>2. \A m, n \in Nat : m < n => <<m, n>> \in Before  BY Zenon DEF OpToRel
<1> HIDE DEF Before
<1>3. PICK m \in S : \A n \in S : <<n, m>> \notin Before  BY <1>1, WFMin
<1>4. \A n \in S : ~(n < m)  BY <1>2, <1>3
<1> QED  BY <1>3, <1>4

\* Where there is a victim, the oldest one is a victim that nobody precedes.
LEMMA OldestIsVictim ==
    ASSUME NEW bs, Shaped(bs), Victims(bs) # {}
    PROVE  /\ Oldest(bs) \in Victims(bs)
           /\ \A l \in Victims(bs) : bs[Oldest(bs)].seen <= bs[l].seen
<1> DEFINE S == {bs[k].seen : k \in Victims(bs)}
<1>1. S \in SUBSET Nat /\ S # {}  BY DEF Shaped, Victims, Bucket
<1> HIDE DEF S
<1>2. PICK m \in S : \A n \in S : m <= n  BY <1>1, LeastOfSet
<1>3. \E k \in Victims(bs) : \A l \in Victims(bs) : bs[k].seen <= bs[l].seen
  BY <1>2 DEF S
<1> QED  BY <1>3 DEF Oldest

\* Pruning leaves some of the buckets as they are.
LEMMA KeptIsPart ==
    ASSUME NEW bs, NEW t, Shaped(bs), Bounded(bs), MaxBuckets \in Nat
    PROVE  /\ DOMAIN Kept(bs, t) = {k \in DOMAIN bs : ~Idle(bs[k], t)}
           /\ \A k \in DOMAIN Kept(bs, t) : Kept(bs, t)[k] = bs[k]
           /\ Shaped(Kept(bs, t)) /\ Bounded(Kept(bs, t))
<1>1. /\ DOMAIN Kept(bs, t) = {k \in DOMAIN bs : ~Idle(bs[k], t)}
      /\ \A k \in DOMAIN Kept(bs, t) : Kept(bs, t)[k] = bs[k]
  BY DEF Kept
<1>2. DOMAIN Kept(bs, t) \subseteq DOMAIN bs  BY <1>1
<1>3. Shaped(Kept(bs, t))  BY <1>1, <1>2 DEF Shaped
<1>4. Bounded(Kept(bs, t))
  <2>1. /\ IsFiniteSet(DOMAIN Kept(bs, t))
        /\ Cardinality(DOMAIN Kept(bs, t)) <= Cardinality(DOMAIN bs)
    BY <1>2, FS_Subset DEF Bounded
  <2>2. Cardinality(DOMAIN Kept(bs, t)) \in Nat /\ Cardinality(DOMAIN bs) \in Nat
    BY <2>1, FS_CardinalityType DEF Bounded
  <2> QED  BY <2>1, <2>2 DEF Bounded
<1> QED  BY <1>1, <1>3, <1>4

\* Eviction leaves everybody's bucket and room for one more.
LEMMA EvictedHasRoom ==
    ASSUME NEW bs, Shaped(bs), Bounded(bs), BoundsAssumption
    PROVE  /\ DOMAIN Evicted(bs) \subseteq DOMAIN bs
           /\ \A k \in DOMAIN Evicted(bs) : Evicted(bs)[k] = bs[k]
           /\ Global \in DOMAIN bs => Global \in DOMAIN Evicted(bs)
           /\ IsFiniteSet(DOMAIN Evicted(bs))
           /\ Cardinality(DOMAIN Evicted(bs)) + 1 <= MaxBuckets
<1> USE DEF Bounded, BoundsAssumption
<1>0. Cardinality(DOMAIN bs) \in Nat  BY FS_CardinalityType
<1>1. CASE Cardinality(DOMAIN bs) < MaxBuckets
  <2>1. Evicted(bs) = bs  BY <1>0, <1>1 DEF Evicted
  <2> QED  BY <1>0, <1>1, <2>1
<1>2. CASE Cardinality(DOMAIN bs) >= MaxBuckets
  <2> DEFINE old == Oldest(bs)
  <2>1. Victims(bs) # {}
    <3>1. SUFFICES ASSUME DOMAIN bs \subseteq {Global}  PROVE FALSE  BY DEF Victims
    <3>2. IsFiniteSet({Global}) /\ Cardinality({Global}) = 1  BY FS_Singleton
    <3>3. Cardinality(DOMAIN bs) <= 1  BY <3>1, <3>2, FS_Subset
    <3> QED  BY <1>0, <1>2, <3>3
  <2>2. old \in DOMAIN bs /\ old # Global  BY <2>1, OldestIsVictim DEF Victims
  <2>3. Evicted(bs) = [k \in DOMAIN bs \ {old} |-> bs[k]]  BY <1>2 DEF Evicted
  <2> HIDE DEF old
  <2>4. /\ IsFiniteSet(DOMAIN bs \ {old})
        /\ Cardinality(DOMAIN bs \ {old}) = Cardinality(DOMAIN bs) - 1
    BY <2>2, FS_RemoveElement
  <2>5. DOMAIN Evicted(bs) = DOMAIN bs \ {old}  BY <2>3
  <2> QED  BY <1>0, <2>2, <2>3, <2>4, <2>5
<1> QED  BY <1>0, <1>1, <1>2

-----------------------------------------------------------------------------
(* ensure_rate_limit_bucket.                                                *)

\* The bucket asked for is there, and nothing else is new or changed.
LEMMA EnsuredIsThere ==
    ASSUME NEW bs, NEW key \in Keys, NEW t \in Times, Shaped(bs), Bounded(bs), SeenBy(bs, now),
           now \in Nat, BoundsAssumption, RatesAssumption
    PROVE  /\ key \in DOMAIN Ensured(bs, key, t)
           /\ Shaped(Ensured(bs, key, t)) /\ Bounded(Ensured(bs, key, t))
           /\ SeenBy(Ensured(bs, key, t), now)
           /\ key \in DOMAIN bs => Ensured(bs, key, t) = bs
           /\ key \notin DOMAIN bs =>
                 Ensured(bs, key, t)[key] = [tokens |-> BurstOf[key], seen |-> t]
           /\ \A k \in DOMAIN Ensured(bs, key, t) \ {key} :
                 /\ k \in DOMAIN bs /\ Ensured(bs, key, t)[k] = bs[k]
                 /\ key \notin DOMAIN bs => ~Idle(bs[k], t)
           /\ Global \in DOMAIN bs /\ ~Idle(bs[Global], t) => Global \in DOMAIN Ensured(bs, key, t)
<1>t. t \in Nat /\ t <= now  BY TimesArePast
<1>1. CASE key \in DOMAIN bs  BY <1>1 DEF Ensured
<1>2. CASE key \notin DOMAIN bs
  <2> DEFINE rest == Evicted(Kept(bs, t))
             es == Ensured(bs, key, t)
  <2>1. /\ DOMAIN Kept(bs, t) = {k \in DOMAIN bs : ~Idle(bs[k], t)}
        /\ \A k \in DOMAIN Kept(bs, t) : Kept(bs, t)[k] = bs[k]
        /\ Shaped(Kept(bs, t)) /\ Bounded(Kept(bs, t))
    BY KeptIsPart DEF BoundsAssumption
  <2>2. /\ DOMAIN rest \subseteq DOMAIN Kept(bs, t)
        /\ \A k \in DOMAIN rest : rest[k] = Kept(bs, t)[k]
        /\ Global \in DOMAIN Kept(bs, t) => Global \in DOMAIN rest
        /\ IsFiniteSet(DOMAIN rest)
        /\ Cardinality(DOMAIN rest) + 1 <= MaxBuckets
    BY <2>1, EvictedHasRoom
  <2>3. es = [k \in DOMAIN rest \cup {key} |->
                 IF k = key THEN [tokens |-> BurstOf[key], seen |-> t] ELSE rest[k]]
    BY <1>2 DEF Ensured
  <2> HIDE DEF rest, es
  <2>4. DOMAIN es = DOMAIN rest \cup {key}  BY <2>3
  <2>5. \A k \in DOMAIN es \ {key} : k \in DOMAIN bs /\ es[k] = bs[k] /\ ~Idle(bs[k], t)
    BY <2>1, <2>2, <2>3, <2>4
  <2>6. es[key] = [tokens |-> BurstOf[key], seen |-> t]  BY <2>3, <2>4
  <2>7. Shaped(es) /\ SeenBy(es, now)
    BY <1>t, <2>4, <2>5, <2>6 DEF Shaped, SeenBy, Bucket, RatesAssumption
  <2>8. Bounded(es)
    <3>1. key \notin DOMAIN rest  BY <1>2, <2>1, <2>2
    <3>2. Cardinality(DOMAIN es) = Cardinality(DOMAIN rest) + 1 /\ IsFiniteSet(DOMAIN es)
      BY <2>2, <2>4, <3>1, FS_AddElement
    <3> QED  BY <2>2, <3>2 DEF Bounded
  <2>9. Global \in DOMAIN bs /\ ~Idle(bs[Global], t) => Global \in DOMAIN es
    BY <2>1, <2>2, <2>4
  <2> QED  BY <1>2, <2>4, <2>5, <2>6, <2>7, <2>8, <2>9 DEF es
<1> QED  BY <1>1, <1>2

\* Making sure of both buckets leaves everybody's there.
LEMMA BothIsSound ==
    ASSUME LimitsInv, NEW c \in Claimants, NEW t \in Times,
           KeysAssumption, BoundsAssumption, RatesAssumption
    PROVE  /\ Global \in DOMAIN Both(c, t)
           /\ Shaped(Both(c, t)) /\ Bounded(Both(c, t)) /\ SeenBy(Both(c, t), now)
<1> DEFINE one == Ensured(buckets, c, t)
<1>1. c \in Keys /\ Global \in Keys  BY DEF Keys
<1>2. Shaped(buckets) /\ Bounded(buckets) /\ SeenBy(buckets, now) /\ now \in Nat
  BY DEF LimitsInv, TypeOK, Shaped, SeenBy, Bucket
<1>3. Shaped(one) /\ Bounded(one) /\ SeenBy(one, now)
  BY <1>1, <1>2, EnsuredIsThere
<1> HIDE DEF one
<1> QED  BY <1>1, <1>2, <1>3, EnsuredIsThere DEF Both, one

\* As long as no claim was late it never takes the claimant's away.
LEMMA BothAreThere ==
    ASSUME LimitsInv, late[Global] = 0, NEW c \in Claimants,
           KeysAssumption, BoundsAssumption, RatesAssumption
    PROVE  Found(c, now)
<1> DEFINE one == Ensured(buckets, c, now)
           two == Ensured(one, Global, now)
<1>1. c \in Keys /\ Global \in Keys /\ c # Global  BY DEF Keys, KeysAssumption
<1>t. now \in Times
  BY DEF LimitsInv, TypeOK, Times, BoundsAssumption
<1>2. Shaped(buckets) /\ Bounded(buckets) /\ SeenBy(buckets, now) /\ now \in Nat
  BY DEF LimitsInv, TypeOK, Shaped, SeenBy, Bucket
<1>a. /\ c \in DOMAIN one /\ Shaped(one) /\ Bounded(one) /\ SeenBy(one, now)
      /\ c \in DOMAIN buckets => one = buckets
      /\ c \notin DOMAIN buckets => one[c] = [tokens |-> BurstOf[c], seen |-> now]
      /\ \A k \in DOMAIN one \ {c} :
            /\ k \in DOMAIN buckets /\ one[k] = buckets[k]
            /\ c \notin DOMAIN buckets => ~Idle(buckets[k], now)
  BY <1>1, <1>2, <1>t, EnsuredIsThere
<1> HIDE DEF one
<1>3. /\ c \in DOMAIN one /\ Shaped(one) /\ Bounded(one) /\ SeenBy(one, now)
      /\ c \in DOMAIN buckets => one = buckets
      /\ c \notin DOMAIN buckets => one[c].seen = now
      /\ \A k \in DOMAIN one \ {c} : k \in DOMAIN buckets /\ one[k] = buckets[k]
  BY <1>a
<1>4. /\ Global \in DOMAIN two /\ Shaped(two) /\ Bounded(two) /\ SeenBy(two, now)
      /\ Global \in DOMAIN one => two = one
  BY <1>1, <1>2, <1>3, <1>t, EnsuredIsThere
<1>5. c \in DOMAIN two
  <2>1. CASE Global \in DOMAIN one  BY <1>3, <1>4, <2>1
  <2>2. CASE Global \notin DOMAIN one
    <3>1. c \notin DOMAIN buckets  BY <1>3, <2>2 DEF LimitsInv, ClaimsShare
    <3>2. one[c].seen = now /\ \A k \in DOMAIN one \ {c} : one[k].seen < now
      BY <1>3, <3>1 DEF LimitsInv
    <3>3. /\ DOMAIN Kept(one, now) = {k \in DOMAIN one : ~Idle(one[k], now)}
          /\ \A k \in DOMAIN Kept(one, now) : Kept(one, now)[k] = one[k]
          /\ Shaped(Kept(one, now)) /\ Bounded(Kept(one, now))
      BY <1>3, KeptIsPart DEF BoundsAssumption
    <3>4. c \in DOMAIN Kept(one, now)
      BY <1>2, <1>3, <3>2, <3>3 DEF Idle, Since, BoundsAssumption
    <3>5. c \in DOMAIN Evicted(Kept(one, now))
      <4> DEFINE left == Kept(one, now)
      <4>1. CASE ~(Cardinality(DOMAIN left) >= MaxBuckets)  BY <3>4, <4>1 DEF Evicted
      <4>2. CASE Cardinality(DOMAIN left) >= MaxBuckets
        <5> HIDE DEF left
        <5>1. PICK l \in DOMAIN left : l # c
          <6>1. SUFFICES ASSUME DOMAIN left \subseteq {c}  PROVE FALSE  OBVIOUS
          <6>2. IsFiniteSet({c}) /\ Cardinality({c}) = 1  BY FS_Singleton
          <6>3. Cardinality(DOMAIN left) <= 1 /\ Cardinality(DOMAIN left) \in Nat
            BY <6>1, <6>2, FS_Subset, FS_CardinalityType
          <6> QED  BY <4>2, <6>3 DEF BoundsAssumption
        <5>2. l \in Victims(left)  BY <2>2, <3>3, <5>1 DEF left, Victims
        <5>3. left[l].seen < now /\ left[l].seen \in Nat
          BY <3>2, <3>3, <5>1 DEF left, Shaped, Bucket
        <5>4. Oldest(left) \in Victims(left) /\ left[Oldest(left)].seen <= left[l].seen
          BY <3>3, <5>2, OldestIsVictim DEF left
        <5>5. left[c].seen = now  BY <3>2, <3>3, <3>4 DEF left
        <5>6. Oldest(left) # c  BY <1>2, <5>3, <5>4, <5>5
        <5> QED  BY <3>4, <4>2, <5>6 DEF Evicted, left
      <4> QED  BY <4>1, <4>2
    <3> QED  BY <2>2, <3>5 DEF Ensured
  <2> QED  BY <2>1, <2>2
<1> QED  BY <1>4, <1>5 DEF Found, Both, one

-----------------------------------------------------------------------------
(* The requests.                                                            *)

\* RateBucket::refill: no more than the rate gives since the bucket was last seen.
LEMMA RefillGives ==
    ASSUME NEW bs, NEW keys \in SUBSET Keys, NEW t \in Times, keys \subseteq DOMAIN bs,
           Shaped(bs), now \in Nat, RatesAssumption
    PROVE  /\ DOMAIN Refilled(bs, keys, t) = DOMAIN bs
           /\ \A k \in DOMAIN bs \ keys : Refilled(bs, keys, t)[k] = bs[k]
           /\ \A k \in keys :
                 /\ Refilled(bs, keys, t)[k] \in Bucket
                 /\ Refilled(bs, keys, t)[k].seen = t
                 /\ Refilled(bs, keys, t)[k].tokens
                        <= bs[k].tokens + RefillOf[k] * Since(t, bs[k].seen)
<1> DEFINE full == Refilled(bs, keys, t)
<1>t. t \in Nat  BY TimesArePast
<1>1. DOMAIN full = DOMAIN bs /\ \A k \in DOMAIN bs \ keys : full[k] = bs[k]
  BY DEF Refilled
<1>2. ASSUME NEW k \in keys
      PROVE  /\ full[k] \in Bucket /\ full[k].seen = t
             /\ full[k].tokens <= bs[k].tokens + RefillOf[k] * Since(t, bs[k].seen)
  <2> DEFINE more == RefillOf[k] * Since(t, bs[k].seen)
             n == Least(bs[k].tokens + more, BurstOf[k])
  <2>1. full[k] = [tokens |-> n, seen |-> t]  BY DEF Refilled
  <2>2. bs[k].tokens \in Nat /\ bs[k].seen \in Nat  BY DEF Shaped, Bucket
  <2>3. BurstOf[k] \in Nat /\ RefillOf[k] \in Nat  BY DEF RatesAssumption
  <2>4. Since(t, bs[k].seen) \in Nat  BY <1>t, <2>2, SinceType
  <2>5. more \in Nat  BY <2>3, <2>4
  <2> HIDE DEF more
  <2>6. n \in Nat /\ n <= bs[k].tokens + more  BY <2>2, <2>3, <2>5 DEF Least
  <2> HIDE DEF n, full
  <2>7. full[k] \in Bucket /\ full[k].seen = t /\ full[k].tokens = n
    BY <1>t, <2>1, <2>6 DEF Bucket
  <2> QED  BY <2>6, <2>7 DEF more
<1> QED  BY <1>1, <1>2

\* Whoever is served, the clock goes on and his waiting is noted.
LEMMA ServedKeeps ==
    ASSUME TypeOK, NEW keys \in SUBSET Keys, NEW t \in Times, Served(keys, t)
    PROVE  /\ now' = now + 1 /\ late' \in [Keys -> Nat] /\ asked' = asked \cup keys
           /\ \A k \in Keys : late'[k] = IF k \in keys THEN late[k] + (now - t) ELSE late[k]
BY TimesArePast DEF Served, TypeOK

\* Each request refills the buckets it found, and takes a token of each or of none.
LEMMA TakeKeeps ==
    ASSUME NEW bs, NEW keys \in SUBSET Keys, NEW t \in Times, keys \subseteq DOMAIN bs,
           Shaped(bs), Bounded(bs), SeenBy(bs, now), TypeOK, Served(keys, t),
           Take(Refilled(bs, keys, t), keys), BoundsAssumption, RatesAssumption
    PROVE  /\ TypeOK' /\ DOMAIN buckets' = DOMAIN bs
           /\ \A k \in DOMAIN bs : buckets'[k].seen = IF k \in keys THEN t ELSE bs[k].seen
           /\ \A k \in DOMAIN bs : buckets'[k].seen < now'
           /\ Bounded(buckets)'
<1> DEFINE full == Refilled(bs, keys, t)
<1>0. now \in Nat /\ granted \in [Keys -> Nat] /\ t \in Nat /\ t <= now
  BY TimesArePast DEF TypeOK
<1>1. /\ DOMAIN full = DOMAIN bs
      /\ \A k \in DOMAIN bs \ keys : full[k] = bs[k]
      /\ \A k \in keys : full[k] \in Bucket /\ full[k].seen = t
  BY <1>0, RefillGives
<1> HIDE DEF full
<1>2. \A k \in DOMAIN bs :
          /\ full[k] \in Bucket
          /\ full[k].seen = IF k \in keys THEN t ELSE bs[k].seen
  BY <1>1 DEF Shaped
<1>3. /\ buckets' = IF Allowed(full, keys) THEN Spent(full, keys) ELSE full
      /\ granted' = [k \in Keys |-> IF k \in keys /\ Allowed(full, keys) THEN granted[k] + 1
                                    ELSE granted[k]]
  BY DEF Take, full
<1>a. asked' = asked \cup keys /\ now' = now + 1 /\ late' \in [Keys -> Nat]
  BY ServedKeeps
<1>4. /\ DOMAIN buckets' = DOMAIN bs
      /\ \A k \in DOMAIN bs : buckets'[k] \in Bucket /\ buckets'[k].seen = full[k].seen
  <2>1. CASE ~Allowed(full, keys)  BY <1>1, <1>2, <1>3, <2>1
  <2>2. CASE Allowed(full, keys)
    <3>1. buckets' = [k \in DOMAIN full |->
              IF k \in keys THEN [full[k] EXCEPT !.tokens = @ - Unit] ELSE full[k]]
      BY <1>3, <2>2 DEF Spent
    <3>2. \A k \in keys : full[k].tokens >= Unit  BY <2>2 DEF Allowed
    <3>3. Unit \in Nat  BY DEF BoundsAssumption
    <3> QED  BY <1>1, <1>2, <3>1, <3>2, <3>3 DEF Bucket
  <2> QED  BY <2>1, <2>2
<1>5. \A k \in DOMAIN bs : buckets'[k].seen < now'
  BY <1>0, <1>2, <1>4, <1>a DEF SeenBy, Shaped, Bucket
<1>6. granted' \in [Keys -> Nat]  BY <1>0, <1>3
<1>7. TypeOK'  BY <1>0, <1>4, <1>6, <1>a DEF TypeOK, Shaped
<1>8. Bounded(buckets)'  BY <1>4 DEF Bounded
<1> QED  BY <1>2, <1>4, <1>5, <1>7, <1>8

LEMMA InitLimits ==
    ASSUME Init, BoundsAssumption
    PROVE  LimitsInv
<1>1. DOMAIN buckets = {}  BY DEF Init
<1>2. Bounded(buckets)  BY <1>1, FS_EmptySet DEF Bounded, BoundsAssumption
<1>3. TypeOK  BY <1>1 DEF Init, TypeOK
<1> QED  BY <1>1, <1>2, <1>3 DEF LimitsInv, ClaimsShare

LEMMA DashboardKeeps ==
    ASSUME LimitsInv, NEW u \in Users, Dashboard(u),
           KeysAssumption, BoundsAssumption, RatesAssumption
    PROVE  LimitsInv'
<1>t. PICK t \in Times :
          Served({u}, t) /\ Take(Refilled(Ensured(buckets, u, t), {u}, t), {u})
  BY DEF Dashboard
<1> DEFINE bs == Ensured(buckets, u, t)
<1>1. u \in Keys /\ u # Global /\ u \notin Claimants /\ Global \in Keys
  BY DEF Keys, KeysAssumption
<1>2. Shaped(buckets) /\ Bounded(buckets) /\ SeenBy(buckets, now) /\ now \in Nat /\ TypeOK
      /\ t \in Nat
  BY TimesArePast DEF LimitsInv, TypeOK, Shaped, SeenBy, Bucket
<1>3. /\ u \in DOMAIN bs /\ Shaped(bs) /\ Bounded(bs) /\ SeenBy(bs, now)
      /\ u \in DOMAIN buckets => bs = buckets
      /\ \A k \in DOMAIN bs \ {u} :
            /\ k \in DOMAIN buckets /\ bs[k] = buckets[k]
            /\ u \notin DOMAIN buckets => ~Idle(buckets[k], t)
      /\ Global \in DOMAIN buckets /\ ~Idle(buckets[Global], t) => Global \in DOMAIN bs
  BY <1>1, <1>2, EnsuredIsThere
<1>4. Take(Refilled(bs, {u}, t), {u})  BY <1>t
<1> HIDE DEF bs
<1>5. /\ TypeOK' /\ DOMAIN buckets' = DOMAIN bs
      /\ \A k \in DOMAIN bs : buckets'[k].seen = IF k \in {u} THEN t ELSE bs[k].seen
      /\ \A k \in DOMAIN bs : buckets'[k].seen < now'
      /\ Bounded(buckets)'
  BY <1>1, <1>2, <1>3, <1>4, <1>t, TakeKeeps
<1>6. ASSUME ClaimsShare(buckets)  PROVE ClaimsShare(bs)
  <2>1. SUFFICES ASSUME NEW c \in Claimants, c \in DOMAIN bs
                 PROVE  Global \in DOMAIN bs /\ bs[c].seen <= bs[Global].seen
    BY DEF ClaimsShare
  <2>2. c \in DOMAIN buckets /\ bs[c] = buckets[c]  BY <1>1, <1>3, <2>1
  <2>3. Global \in DOMAIN buckets /\ buckets[c].seen <= buckets[Global].seen
    BY <1>6, <2>2 DEF ClaimsShare
  <2>4. buckets[c].seen \in Nat /\ buckets[Global].seen \in Nat
    BY <1>2, <2>2, <2>3 DEF Shaped, Bucket
  <2>5. u \notin DOMAIN buckets => ~Idle(buckets[Global], t)
    BY <1>1, <1>2, <1>3, <2>1, <2>3, <2>4 DEF Idle, Since, BoundsAssumption
  <2>6. Global \in DOMAIN bs  BY <1>3, <2>3, <2>5
  <2> QED  BY <1>1, <1>3, <2>2, <2>3, <2>6
<1>7. ClaimsShare(bs) => ClaimsShare(buckets)'
  BY <1>1, <1>5 DEF ClaimsShare
<1>8. late'[Global] = late[Global]
  BY <1>1, <1>t DEF Served
<1> QED  BY <1>5, <1>6, <1>7, <1>8 DEF LimitsInv

LEMMA ClaimKeeps ==
    ASSUME LimitsInv, NEW c \in Claimants, Claim(c),
           KeysAssumption, BoundsAssumption, RatesAssumption
    PROVE  LimitsInv'
<1>t. PICK t \in Times :
          /\ Served({c, Global}, t)
          /\ IF c \in DOMAIN Both(c, t)
             THEN Take(Refilled(Both(c, t), {c, Global}, t), {c, Global})
             ELSE buckets' = Both(c, t) /\ UNCHANGED granted
  BY DEF Claim
<1> DEFINE bs == Both(c, t)
<1>1. {c, Global} \subseteq Keys  BY DEF Keys
<1>2. Global \in DOMAIN bs /\ Shaped(bs) /\ Bounded(bs) /\ SeenBy(bs, now)
  BY BothIsSound
<1>3. /\ now \in Nat /\ t \in Nat /\ t <= now /\ now' = now + 1 /\ TypeOK
      /\ late' \in [Keys -> Nat] /\ asked' = asked \cup {c, Global}
      /\ late'[Global] = late[Global] + (now - t) /\ late[Global] \in Nat
  <2>1. TypeOK /\ now \in Nat /\ late[Global] \in Nat  BY <1>1 DEF LimitsInv, TypeOK
  <2>2. t \in Nat /\ t <= now  BY <2>1, TimesArePast
  <2>3. now' = now + 1 /\ late' \in [Keys -> Nat] /\ asked' = asked \cup {c, Global}
    BY <1>1, <1>t, <2>1, ServedKeeps
  <2>4. late'[Global] = late[Global] + (now - t)  BY <1>1, <1>t DEF Served
  <2> QED  BY <2>1, <2>2, <2>3, <2>4
<1>4. late'[Global] = 0 => late[Global] = 0 /\ t = now  BY <1>3
<1>5. CASE c \in DOMAIN bs
  <2>1. Take(Refilled(bs, {c, Global}, t), {c, Global})  BY <1>t, <1>5
  <2> HIDE DEF bs
  <2>2. /\ TypeOK' /\ DOMAIN buckets' = DOMAIN bs
        /\ \A k \in DOMAIN bs :
              buckets'[k].seen = IF k \in {c, Global} THEN t ELSE bs[k].seen
        /\ \A k \in DOMAIN bs : buckets'[k].seen < now'
        /\ Bounded(buckets)'
    BY <1>1, <1>2, <1>3, <1>5, <1>t, <2>1, TakeKeeps
  <2>3. ASSUME t = now  PROVE ClaimsShare(buckets)'
    <3>1. Global \in DOMAIN buckets' /\ buckets'[Global].seen = now  BY <1>2, <2>2, <2>3
    <3>2. \A k \in DOMAIN buckets' : buckets'[k].seen <= now
      BY <1>2, <1>3, <2>2, <2>3 DEF SeenBy
    <3> QED  BY <3>1, <3>2 DEF ClaimsShare
  <2> QED  BY <1>4, <2>2, <2>3 DEF LimitsInv
<1>6. CASE c \notin DOMAIN bs
  <2>1. buckets' = bs /\ UNCHANGED granted  BY <1>t, <1>6
  <2>2. ~(late[Global] = 0 /\ t = now)  BY <1>6, BothAreThere DEF Found
  <2> HIDE DEF bs
  <2>3. TypeOK'  BY <1>1, <1>2, <1>3, <2>1 DEF TypeOK, Shaped
  <2>4. \A k \in DOMAIN buckets' : buckets'[k].seen < now'
    BY <1>2, <1>3, <2>1 DEF SeenBy, Shaped, Bucket
  <2> QED  BY <1>2, <1>4, <2>1, <2>2, <2>3, <2>4 DEF LimitsInv, Bounded
<1> QED  BY <1>5, <1>6

LEMMA LimitsStep ==
    ASSUME LimitsInv, [Next]_vars, KeysAssumption, BoundsAssumption, RatesAssumption
    PROVE  LimitsInv'
<1>1. CASE Wait
  BY <1>1 DEF Wait, LimitsInv, TypeOK, Bucket, Bounded, ClaimsShare
<1>2. CASE UNCHANGED vars
  BY <1>2 DEF vars, LimitsInv, TypeOK, Bounded, ClaimsShare
<1>3. ASSUME NEW c \in Claimants, Claim(c)  PROVE LimitsInv'  BY <1>3, ClaimKeeps
<1>4. ASSUME NEW u \in Users, Dashboard(u)  PROVE LimitsInv'  BY <1>4, DashboardKeeps
<1> QED  BY <1>1, <1>2, <1>3, <1>4 DEF Next

-----------------------------------------------------------------------------
(* Where there is room for every key that is asked for, no bucket is evicted. *)

\* What a key got and may get at once is what it could have had when it was last
\* seen and while it waited; a key without a bucket has paid for all it got.
Paid(k, bs) ==
    IF k \in DOMAIN bs
    THEN granted[k] * Unit + bs[k].tokens <= BurstOf[k] + RefillOf[k] * (bs[k].seen + late[k])
    ELSE granted[k] * Unit <= RefillOf[k] * (now + late[k])

\* What a key got and may get of a request that read t is what its rate allows.
Ready(k, bs, t) ==
    granted[k] * Unit + bs[k].tokens + RefillOf[k] * Since(t, bs[k].seen)
        <= BurstOf[k] + RefillOf[k] * (now + late[k])

RateInv ==
    /\ LimitsInv
    /\ DOMAIN buckets \subseteq asked /\ IsFiniteSet(asked)
    /\ Cardinality(asked) <= MaxBuckets => \A k \in Keys : Paid(k, buckets)

\* The numbers of a key.
LEMMA KeyNumbers ==
    ASSUME TypeOK, BoundsAssumption, RatesAssumption, NEW k \in Keys
    PROVE  /\ now \in Nat /\ granted[k] \in Nat /\ Unit \in Nat /\ Ttl \in Nat /\ late[k] \in Nat
           /\ BurstOf[k] \in Nat /\ RefillOf[k] \in Nat /\ RefillOf[k] * Ttl >= BurstOf[k]
           /\ granted[k] * Unit \in Nat /\ RefillOf[k] * (now + late[k]) \in Nat
<1>1. /\ now \in Nat /\ granted[k] \in Nat /\ Unit \in Nat /\ Ttl \in Nat /\ late[k] \in Nat
      /\ BurstOf[k] \in Nat /\ RefillOf[k] \in Nat /\ RefillOf[k] * Ttl >= BurstOf[k]
  BY DEF TypeOK, BoundsAssumption, RatesAssumption
<1>2. now + late[k] \in Nat  BY <1>1
<1> QED  BY <1>1, <1>2

\* More time gives no less.
LEMMA MoreGivesMore ==
    ASSUME NEW m \in Nat, NEW i \in Nat, NEW j \in Nat, i <= j
    PROVE  m * i \in Nat /\ m * j \in Nat /\ m * i <= m * j
<1>1. PICK d \in Nat : j = i + d  BY j - i \in Nat
<1>2. m * (i + d) = m * i + m * d  BY TimesSum
<1>3. m * i \in Nat /\ m * d \in Nat  OBVIOUS
<1> QED  BY <1>1, <1>2, <1>3

\* A bucket is forgotten when it would be full again.
LEMMA EnsuredIsPaid ==
    ASSUME NEW bs, NEW key \in Keys, NEW t \in Times,
           Shaped(bs), Bounded(bs), SeenBy(bs, now), TypeOK,
           BoundsAssumption, RatesAssumption,
           NEW S, DOMAIN bs \cup {key} \subseteq S, IsFiniteSet(S), Cardinality(S) <= MaxBuckets,
           NEW k \in Keys, Paid(k, bs)
    PROVE  IF k = key THEN Ready(k, Ensured(bs, key, t), t) ELSE Paid(k, Ensured(bs, key, t))
<1>0. /\ now \in Nat /\ granted[k] \in Nat /\ Unit \in Nat /\ Ttl \in Nat /\ late[k] \in Nat
      /\ BurstOf[k] \in Nat /\ RefillOf[k] \in Nat /\ RefillOf[k] * Ttl >= BurstOf[k]
      /\ granted[k] * Unit \in Nat /\ RefillOf[k] * (now + late[k]) \in Nat
      /\ t \in Nat /\ t <= now
  BY KeyNumbers, TimesArePast
<1>1. CASE key \in DOMAIN bs
  <2>1. Ensured(bs, key, t) = bs  BY <1>1 DEF Ensured
  <2>2. ASSUME k = key  PROVE Ready(k, bs, t)
    <3> DEFINE gap == Since(t, bs[k].seen)
               at == bs[k].seen + late[k]
    <3>1. bs[k].tokens \in Nat /\ bs[k].seen \in Nat /\ bs[k].seen <= now
      BY <1>1, <2>2 DEF Shaped, Bucket, SeenBy
    <3>2. gap \in Nat /\ (gap = 0 \/ bs[k].seen + gap = t)  BY <1>0, <3>1, SinceType
    <3>3. granted[k] * Unit + bs[k].tokens <= BurstOf[k] + RefillOf[k] * at
      BY <1>1, <2>2 DEF Paid
    <3> HIDE DEF gap
    <3>4. at \in Nat /\ at + gap \in Nat /\ at + gap <= now + late[k]  BY <1>0, <3>1, <3>2
    <3> HIDE DEF at
    <3>5. RefillOf[k] * (at + gap) = RefillOf[k] * at + RefillOf[k] * gap
      <4>1. RefillOf[k] \in Nat /\ at \in Nat /\ gap \in Nat  BY <1>0, <3>2, <3>4
      <4> QED  BY <4>1, TimesSum
    <3>6. RefillOf[k] * (at + gap) <= RefillOf[k] * (now + late[k])
      BY <1>0, <3>4, MoreGivesMore
    <3>7. RefillOf[k] * at \in Nat /\ RefillOf[k] * gap \in Nat  BY <1>0, <3>2, <3>4
    <3>8. granted[k] * Unit + bs[k].tokens + RefillOf[k] * gap
              <= BurstOf[k] + RefillOf[k] * (now + late[k])
      BY <1>0, <3>1, <3>3, <3>5, <3>6, <3>7
    <3> QED  BY <3>8 DEF Ready, gap
  <2> QED  BY <2>1, <2>2
<1>2. CASE key \notin DOMAIN bs
  <2> DEFINE left == Kept(bs, t)
             es == Ensured(bs, key, t)
  <2>1. /\ DOMAIN left = {j \in DOMAIN bs : ~Idle(bs[j], t)}
        /\ \A j \in DOMAIN left : left[j] = bs[j]
    BY KeptIsPart DEF BoundsAssumption
  <2>2. Evicted(left) = left
    <3>1. DOMAIN left \subseteq S \ {key}  BY <1>2, <2>1
    <3>2. IsFiniteSet(S \ {key}) /\ Cardinality(S \ {key}) = Cardinality(S) - 1
      BY FS_RemoveElement
    <3>3. Cardinality(DOMAIN left) <= Cardinality(S \ {key})
      BY <3>1, <3>2, FS_Subset
    <3>4. IsFiniteSet(DOMAIN left)  BY <3>1, <3>2, FS_Subset
    <3>5. /\ Cardinality(DOMAIN left) \in Nat /\ Cardinality(S) \in Nat
          /\ MaxBuckets \in Nat
      BY <3>4, FS_CardinalityType DEF BoundsAssumption
    <3>6. ~(Cardinality(DOMAIN left) >= MaxBuckets)
      BY <3>2, <3>3, <3>5
    <3> QED  BY <3>6 DEF Evicted
  <2>3. es = [j \in DOMAIN left \cup {key} |->
                 IF j = key THEN [tokens |-> BurstOf[key], seen |-> t] ELSE left[j]]
    BY <1>2, <2>2 DEF Ensured
  <2> HIDE DEF left, es
  <2>5. CASE k = key
    <3>1. es[k] = [tokens |-> BurstOf[k], seen |-> t] /\ k \in DOMAIN es  BY <2>3, <2>5
    <3>2. granted[k] * Unit <= RefillOf[k] * (now + late[k])  BY <1>2, <2>5 DEF Paid
    <3>3. RefillOf[k] * Since(t, t) = 0  BY <1>0 DEF Since
    <3>4. granted[k] * Unit + BurstOf[k] + RefillOf[k] * Since(t, t)
              <= BurstOf[k] + RefillOf[k] * (now + late[k])
      BY <1>0, <3>2, <3>3
    <3> QED  BY <2>5, <3>1, <3>4 DEF Ready, es
  <2>6. CASE k # key /\ k \in DOMAIN left
    BY <2>1, <2>3, <2>6 DEF Paid, es
  <2>7. CASE k # key /\ k \notin DOMAIN bs
    BY <2>1, <2>3, <2>7 DEF Paid, es
  <2>8. CASE k \in DOMAIN bs /\ k \notin DOMAIN left
    <3> DEFINE at == bs[k].seen + late[k]
    <3>1. k \notin DOMAIN es /\ k # key  BY <1>2, <2>3, <2>8
    <3>2. bs[k].tokens \in Nat /\ bs[k].seen \in Nat /\ Since(t, bs[k].seen) > Ttl
      BY <2>1, <2>8 DEF Shaped, Bucket, Idle
    <3>3. Ttl + bs[k].seen <= now  BY <1>0, <3>2 DEF Since
    <3>4. granted[k] * Unit + bs[k].tokens <= BurstOf[k] + RefillOf[k] * at
      BY <2>8 DEF Paid
    <3>5. at \in Nat /\ Ttl + at \in Nat /\ Ttl + at <= now + late[k]  BY <1>0, <3>2, <3>3
    <3> HIDE DEF at
    <3>6. RefillOf[k] * (Ttl + at) <= RefillOf[k] * (now + late[k])
      BY <1>0, <3>5, MoreGivesMore
    <3>7. RefillOf[k] * (Ttl + at) = RefillOf[k] * Ttl + RefillOf[k] * at
      BY <1>0, <3>5, TimesSum
    <3>8. RefillOf[k] * Ttl \in Nat /\ RefillOf[k] * at \in Nat  BY <1>0, <3>5
    <3>9. granted[k] * Unit <= RefillOf[k] * (now + late[k])
      BY <1>0, <3>2, <3>4, <3>6, <3>7, <3>8
    <3> QED  BY <3>1, <3>9 DEF Paid, es
  <2> QED  BY <2>5, <2>6, <2>7, <2>8 DEF es
<1> QED  BY <1>1, <1>2

\* A request pays for what it gets.
LEMMA TakeIsPaid ==
    ASSUME NEW bs, NEW keys \in SUBSET Keys, NEW t \in Times, keys \subseteq DOMAIN bs,
           Shaped(bs), SeenBy(bs, now), TypeOK, Served(keys, t),
           Take(Refilled(bs, keys, t), keys), BoundsAssumption, RatesAssumption,
           NEW k \in Keys, IF k \in keys THEN Ready(k, bs, t) ELSE Paid(k, bs)
    PROVE  Paid(k, buckets)'
<1> DEFINE full == Refilled(bs, keys, t)
           may == Allowed(full, keys)
<1>0. /\ now \in Nat /\ granted[k] \in Nat /\ Unit \in Nat /\ late[k] \in Nat
      /\ BurstOf[k] \in Nat /\ RefillOf[k] \in Nat
      /\ granted[k] * Unit \in Nat /\ RefillOf[k] * (now + late[k]) \in Nat
      /\ t \in Nat /\ t <= now
  BY KeyNumbers, TimesArePast
<1>1. /\ DOMAIN full = DOMAIN bs
      /\ \A j \in DOMAIN bs \ keys : full[j] = bs[j]
      /\ \A j \in keys :
            /\ full[j] \in Bucket /\ full[j].seen = t
            /\ full[j].tokens <= bs[j].tokens + RefillOf[j] * Since(t, bs[j].seen)
  BY <1>0, RefillGives
<1>a. /\ now' = now + 1
      /\ late'[k] = IF k \in keys THEN late[k] + (now - t) ELSE late[k]
  BY ServedKeeps
<1> HIDE DEF full
<1>2. /\ buckets' = IF may THEN Spent(full, keys) ELSE full
      /\ granted'[k] = IF k \in keys /\ may THEN granted[k] + 1 ELSE granted[k]
  BY DEF Take, full
<1>3. DOMAIN buckets' = DOMAIN bs  BY <1>1, <1>2 DEF Spent
<1>5. CASE k \notin DOMAIN bs
  <2>1. k \notin keys  BY <1>5
  <2>2. granted[k] * Unit <= RefillOf[k] * (now + late[k])  BY <1>5, <2>1 DEF Paid
  <2>3. now + late[k] \in Nat /\ now' + late'[k] \in Nat /\ now + late[k] <= now' + late'[k]
    BY <1>0, <1>a, <2>1
  <2>4. /\ RefillOf[k] * (now + late[k]) <= RefillOf[k] * (now' + late'[k])
        /\ RefillOf[k] * (now' + late'[k]) \in Nat
    BY <1>0, <2>3, MoreGivesMore
  <2>5. granted[k] * Unit <= RefillOf[k] * (now' + late'[k])  BY <1>0, <2>2, <2>4
  <2> QED  BY <1>2, <1>3, <1>5, <2>1, <2>5 DEF Paid
<1>6. CASE k \in DOMAIN bs /\ k \notin keys
  <2>1. buckets'[k] = bs[k]  BY <1>1, <1>2, <1>6 DEF Spent
  <2> QED  BY <1>2, <1>3, <1>6, <1>a, <2>1 DEF Paid
<1>7. CASE k \in keys
  <2> DEFINE gap == Since(t, bs[k].seen)
  <2>1. bs[k].tokens \in Nat /\ bs[k].seen \in Nat /\ k \in DOMAIN bs
    BY <1>7 DEF Shaped, Bucket
  <2>2. granted[k] * Unit + bs[k].tokens + RefillOf[k] * gap
            <= BurstOf[k] + RefillOf[k] * (now + late[k])
    BY <1>7 DEF Ready
  <2>3. gap \in Nat  BY <1>0, <2>1, SinceType
  <2>4. /\ full[k].seen = t /\ full[k] \in Bucket
        /\ full[k].tokens <= bs[k].tokens + RefillOf[k] * gap
    BY <1>1, <1>7
  <2> HIDE DEF gap
  <2>5. RefillOf[k] * gap \in Nat /\ full[k].tokens \in Nat  BY <1>0, <2>3, <2>4 DEF Bucket
  <2>6. t + late'[k] = now + late[k]  BY <1>0, <1>7, <1>a
  <2>9. granted[k] * Unit + full[k].tokens <= BurstOf[k] + RefillOf[k] * (t + late'[k])
    BY <1>0, <2>1, <2>2, <2>4, <2>5, <2>6
  <2>10. CASE ~may
    <3>1. buckets'[k] = full[k] /\ granted'[k] = granted[k]  BY <1>2, <2>10
    <3> QED  BY <1>3, <2>1, <2>4, <2>9, <3>1 DEF Paid
  <2>11. CASE may
    <3>1. buckets'[k] = [full[k] EXCEPT !.tokens = full[k].tokens - Unit]
      BY <1>1, <1>2, <1>7, <2>1, <2>11 DEF Spent
    <3>3. buckets'[k].tokens = full[k].tokens - Unit /\ buckets'[k].seen = t
      BY <2>4, <3>1 DEF Bucket
    <3>2. granted'[k] = granted[k] + 1  BY <1>2, <1>7, <2>11
    <3>4. (granted[k] + 1) * Unit = granted[k] * Unit + Unit  BY <1>0
    <3>5. (granted[k] + 1) * Unit + (full[k].tokens - Unit)
              <= BurstOf[k] + RefillOf[k] * (t + late'[k])
      BY <1>0, <2>5, <2>6, <2>9, <3>4
    <3> QED  BY <1>3, <2>1, <3>2, <3>3, <3>5 DEF Paid
  <2> QED  BY <2>10, <2>11
<1> QED  BY <1>5, <1>6, <1>7

LEMMA TwoAreFinite == \A i, j : IsFiniteSet({i, j})
<1> TAKE i, j
<1>1. IsFiniteSet({i} \cup {j})  BY FS_Singleton, FS_Union
<1>2. {i} \cup {j} = {i, j}  OBVIOUS
<1> QED  BY <1>1, <1>2, Zenon

\* A table with a key more is asked of no more keys.
LEMMA AskedMore ==
    ASSUME NEW A, NEW B, IsFiniteSet(A), IsFiniteSet(B), MaxBuckets \in Nat,
           Cardinality(A \cup B) <= MaxBuckets
    PROVE  IsFiniteSet(A \cup B) /\ Cardinality(A) <= MaxBuckets
<1>1. IsFiniteSet(A \cup B)  BY FS_Union
<1>2. Cardinality(A) <= Cardinality(A \cup B)  BY <1>1, FS_Subset
<1>3. Cardinality(A) \in Nat /\ Cardinality(A \cup B) \in Nat  BY <1>1, FS_CardinalityType
<1> QED  BY <1>1, <1>2, <1>3

LEMMA ClaimIsPaid ==
    ASSUME RateInv, NEW c \in Claimants, Claim(c), KeysAssumption, BoundsAssumption,
           RatesAssumption
    PROVE  RateInv'
<1>t. PICK t \in Times :
          /\ Served({c, Global}, t)
          /\ IF c \in DOMAIN Both(c, t)
             THEN Take(Refilled(Both(c, t), {c, Global}, t), {c, Global})
             ELSE buckets' = Both(c, t) /\ UNCHANGED granted
  BY DEF Claim
<1> DEFINE one == Ensured(buckets, c, t)
           bs == Both(c, t)
           all == asked \cup {c, Global}
<1>0. LimitsInv'  BY ClaimKeeps DEF RateInv
<1>1. /\ Shaped(buckets) /\ Bounded(buckets) /\ SeenBy(buckets, now) /\ TypeOK /\ LimitsInv
      /\ DOMAIN buckets \subseteq asked /\ IsFiniteSet(asked)
      /\ Cardinality(asked) <= MaxBuckets => \A k \in Keys : Paid(k, buckets)
  BY DEF RateInv, LimitsInv, TypeOK, Shaped, SeenBy, Bucket
<1>2. {c, Global} \subseteq Keys /\ c # Global /\ now \in Nat
  BY <1>1 DEF Keys, KeysAssumption, TypeOK
<1>3. /\ c \in DOMAIN one /\ Shaped(one) /\ Bounded(one) /\ SeenBy(one, now)
      /\ c \in DOMAIN buckets => one = buckets
      /\ c \notin DOMAIN buckets => one[c].seen = t /\ one[c].tokens = BurstOf[c]
      /\ DOMAIN one \subseteq DOMAIN buckets \cup {c}
  <2> HIDE DEF one
  <2>1. /\ c \in DOMAIN one /\ Shaped(one) /\ Bounded(one) /\ SeenBy(one, now)
        /\ c \in DOMAIN buckets => one = buckets
        /\ c \notin DOMAIN buckets => one[c] = [tokens |-> BurstOf[c], seen |-> t]
        /\ DOMAIN one \subseteq DOMAIN buckets \cup {c}
    BY <1>1, <1>2, EnsuredIsThere DEF one
  <2> QED  BY <2>1
<1>4. bs = Ensured(one, Global, t)  BY DEF Both
<1> HIDE DEF one
<1>5. /\ Global \in DOMAIN bs /\ Shaped(bs) /\ Bounded(bs) /\ SeenBy(bs, now)
      /\ Global \in DOMAIN one => bs = one
      /\ Global \notin DOMAIN one => bs[Global].seen = t
      /\ \A k \in DOMAIN bs \ {Global} : k \in DOMAIN one /\ bs[k] = one[k]
  <2> HIDE DEF bs
  <2>1. /\ Global \in DOMAIN bs /\ Shaped(bs) /\ Bounded(bs) /\ SeenBy(bs, now)
        /\ Global \in DOMAIN one => bs = one
        /\ Global \notin DOMAIN one => bs[Global] = [tokens |-> BurstOf[Global], seen |-> t]
        /\ \A k \in DOMAIN bs \ {Global} : k \in DOMAIN one /\ bs[k] = one[k]
    BY <1>2, <1>3, <1>4, EnsuredIsThere
  <2> QED  BY <2>1
<1> HIDE DEF bs
<1>6. DOMAIN bs \subseteq all /\ asked' = all /\ IsFiniteSet(all)
  <2>1. IsFiniteSet({c, Global})  BY TwoAreFinite
  <2>2. IsFiniteSet(all)  BY <1>1, <2>1, FS_Union
  <2>3. DOMAIN bs \subseteq DOMAIN one \cup {Global}  BY <1>5
  <2>4. asked' = all  BY <1>1, <1>2, <1>t, ServedKeeps
  <2> QED  BY <1>1, <1>3, <2>2, <2>3, <2>4
<1>7. DOMAIN buckets' = DOMAIN bs
  <2>1. CASE c \in DOMAIN bs
    BY <1>1, <1>2, <1>5, <1>t, <2>1, TakeKeeps DEF bs
  <2>2. CASE c \notin DOMAIN bs  BY <1>t, <2>2 DEF bs
  <2> QED  BY <2>1, <2>2
<1>8. ASSUME NEW k \in Keys, Cardinality(all) <= MaxBuckets  PROVE Paid(k, buckets)'
  <2>1. IsFiniteSet({c, Global})  BY TwoAreFinite
  <2>2. Cardinality(asked) <= MaxBuckets
    BY <1>1, <1>8, <2>1, AskedMore DEF BoundsAssumption
  <2>3. \A j \in Keys : Paid(j, buckets)  BY <1>1, <2>2
  <2>4. DOMAIN buckets \cup {c} \subseteq all /\ DOMAIN one \cup {Global} \subseteq all
    BY <1>1, <1>3
  <2> HIDE DEF all
  <2>5. \A j \in Keys : IF j = c THEN Ready(j, one, t) ELSE Paid(j, one)
    BY <1>1, <1>2, <1>6, <1>8, <2>3, <2>4, EnsuredIsPaid DEF one
  <2>6. Ready(Global, bs, t)
    BY <1>1, <1>2, <1>3, <1>4, <1>6, <1>8, <2>4, <2>5, EnsuredIsPaid
  <2>7. \A j \in Keys : j # Global /\ Paid(j, one) => Paid(j, bs)
    BY <1>1, <1>2, <1>3, <1>4, <1>6, <1>8, <2>4, EnsuredIsPaid
  <2>8. CASE c \in DOMAIN bs
    <3>1. Take(Refilled(bs, {c, Global}, t), {c, Global})  BY <1>t, <2>8 DEF bs
    <3>2. bs[c] = one[c]  BY <1>2, <1>5, <2>8
    <3>3. Ready(c, bs, t)  BY <1>2, <2>5, <3>2 DEF Ready
    <3>4. IF k \in {c, Global} THEN Ready(k, bs, t) ELSE Paid(k, bs)
      BY <2>5, <2>6, <2>7, <3>3
    <3> QED  BY <1>1, <1>2, <1>5, <1>t, <2>8, <3>1, <3>4, TakeIsPaid
  <2>9. CASE c \notin DOMAIN bs
    <3>1. buckets' = bs /\ UNCHANGED granted  BY <1>t, <2>9 DEF bs
    <3>2. /\ now' = now + 1 /\ t \in Nat /\ t <= now
          /\ late'[k] = IF k \in {c, Global} THEN late[k] + (now - t) ELSE late[k]
      BY <1>1, <1>2, <1>t, ServedKeeps, TimesArePast
    <3>3. /\ now \in Nat /\ granted[k] \in Nat /\ Unit \in Nat /\ late[k] \in Nat
          /\ BurstOf[k] \in Nat /\ RefillOf[k] \in Nat
          /\ granted[k] * Unit \in Nat /\ RefillOf[k] * (now + late[k]) \in Nat
      BY <1>1, KeyNumbers
    <3>4. CASE k = Global
      <4>1. Global \notin DOMAIN one  BY <1>3, <1>5, <2>9
      <4>2. bs[k].seen = t /\ bs[k].tokens \in Nat /\ k \in DOMAIN bs
        BY <1>5, <3>4, <4>1 DEF Shaped, Bucket
      <4>3. RefillOf[k] * Since(t, bs[k].seen) = 0  BY <3>2, <3>3, <4>2 DEF Since
      <4>4. t + late'[k] = now + late[k]  BY <3>2, <3>3, <3>4
      <4>5. granted[k] * Unit + bs[k].tokens <= BurstOf[k] + RefillOf[k] * (t + late'[k])
        BY <2>6, <3>3, <3>4, <4>2, <4>3, <4>4 DEF Ready
      <4> QED  BY <3>1, <4>2, <4>5 DEF Paid
    <3>5. CASE k # Global
      <4>1. CASE k \in DOMAIN bs
        <5>1. k # c /\ Paid(k, bs)  BY <2>5, <2>7, <2>9, <3>5, <4>1
        <5> QED  BY <3>1, <3>2, <3>5, <4>1, <5>1 DEF Paid
      <4>2. CASE k \notin DOMAIN bs
        <5>1. granted[k] * Unit <= RefillOf[k] * (now + late[k])
          <6>1. CASE k # c \/ c \in DOMAIN buckets
            <7>1. Paid(k, one)  BY <1>3, <2>3, <2>5, <6>1
            <7> QED  BY <2>7, <3>5, <4>2, <7>1 DEF Paid
          <6>2. CASE k = c /\ c \notin DOMAIN buckets
            BY <2>3, <6>2 DEF Paid
          <6> QED  BY <6>1, <6>2
        <5>2. now + late[k] \in Nat /\ now' + late'[k] \in Nat /\ now + late[k] <= now' + late'[k]
          BY <3>2, <3>3
        <5>3. /\ RefillOf[k] * (now + late[k]) <= RefillOf[k] * (now' + late'[k])
              /\ RefillOf[k] * (now' + late'[k]) \in Nat
          BY <3>3, <5>2, MoreGivesMore
        <5>4. granted[k] * Unit <= RefillOf[k] * (now' + late'[k])  BY <3>3, <5>1, <5>3
        <5> QED  BY <3>1, <4>2, <5>4 DEF Paid
      <4> QED  BY <4>1, <4>2
    <3> QED  BY <3>4, <3>5
  <2> QED  BY <2>8, <2>9
<1> QED  BY <1>0, <1>6, <1>7, <1>8 DEF RateInv

LEMMA DashboardIsPaid ==
    ASSUME RateInv, NEW u \in Users, Dashboard(u), KeysAssumption, BoundsAssumption,
           RatesAssumption
    PROVE  RateInv'
<1>t. PICK t \in Times :
          Served({u}, t) /\ Take(Refilled(Ensured(buckets, u, t), {u}, t), {u})
  BY DEF Dashboard
<1> DEFINE bs == Ensured(buckets, u, t)
           all == asked \cup {u}
<1>0. LimitsInv'  BY DashboardKeeps DEF RateInv
<1>1. /\ Shaped(buckets) /\ Bounded(buckets) /\ SeenBy(buckets, now) /\ TypeOK
      /\ DOMAIN buckets \subseteq asked /\ IsFiniteSet(asked)
      /\ Cardinality(asked) <= MaxBuckets => \A k \in Keys : Paid(k, buckets)
  BY DEF RateInv, LimitsInv, TypeOK, Shaped, SeenBy, Bucket
<1>2. {u} \subseteq Keys /\ now \in Nat  BY <1>1 DEF Keys, TypeOK
<1>3. /\ u \in DOMAIN bs /\ Shaped(bs) /\ Bounded(bs) /\ SeenBy(bs, now)
      /\ DOMAIN bs \subseteq DOMAIN buckets \cup {u}
  BY <1>1, <1>2, EnsuredIsThere
<1>4. Take(Refilled(bs, {u}, t), {u})  BY <1>t
<1>5. asked' = all /\ IsFiniteSet(all) /\ DOMAIN buckets \cup {u} \subseteq all
  BY <1>1, <1>2, <1>t, ServedKeeps, FS_AddElement
<1>6. ASSUME NEW k \in Keys, Cardinality(all) <= MaxBuckets
      PROVE  IF k \in {u} THEN Ready(k, bs, t) ELSE Paid(k, bs)
  <2>1. Cardinality(asked) <= MaxBuckets
    BY <1>1, <1>6, AskedMore, FS_Singleton DEF BoundsAssumption
  <2>2. Paid(k, buckets)  BY <1>1, <2>1
  <2> HIDE DEF all
  <2> QED  BY <1>1, <1>2, <1>5, <1>6, <2>2, EnsuredIsPaid
<1> HIDE DEF bs, all
<1>7. DOMAIN buckets' = DOMAIN bs
  BY <1>1, <1>2, <1>3, <1>4, <1>t, TakeKeeps
<1>8. ASSUME NEW k \in Keys, Cardinality(all) <= MaxBuckets  PROVE Paid(k, buckets)'
  BY <1>1, <1>2, <1>3, <1>4, <1>6, <1>8, <1>t, TakeIsPaid
<1> QED  BY <1>0, <1>3, <1>5, <1>7, <1>8 DEF RateInv

LEMMA RateStep ==
    ASSUME RateInv, [Next]_vars, KeysAssumption, BoundsAssumption, RatesAssumption
    PROVE  RateInv'
<1>0. LimitsInv'  BY LimitsStep DEF RateInv
<1>1. TypeOK /\ DOMAIN buckets \subseteq asked /\ IsFiniteSet(asked)
      /\ (Cardinality(asked) <= MaxBuckets => \A k \in Keys : Paid(k, buckets))
  BY DEF RateInv, LimitsInv
<1>2. CASE Wait
  <2>1. ASSUME NEW k \in Keys, Paid(k, buckets)  PROVE Paid(k, buckets)'
    <3>1. /\ now \in Nat /\ late[k] \in Nat /\ RefillOf[k] \in Nat /\ granted[k] * Unit \in Nat
      BY <1>1, KeyNumbers
    <3>2. /\ RefillOf[k] * (now + late[k]) <= RefillOf[k] * (now + 1 + late[k])
          /\ RefillOf[k] * (now + late[k]) \in Nat /\ RefillOf[k] * (now + 1 + late[k]) \in Nat
      <4>1. now + late[k] \in Nat /\ now + 1 + late[k] \in Nat
            /\ now + late[k] <= now + 1 + late[k]
        BY <3>1
      <4> QED  BY <3>1, <4>1, MoreGivesMore
    <3>3. granted[k] * Unit <= RefillOf[k] * (now + late[k])
              => granted[k] * Unit <= RefillOf[k] * (now + 1 + late[k])
      BY <3>1, <3>2
    <3> QED  BY <1>2, <2>1, <3>3 DEF Wait, Paid
  <2> QED  BY <1>0, <1>1, <1>2, <2>1 DEF Wait, RateInv
<1>3. CASE UNCHANGED vars  BY <1>0, <1>1, <1>3 DEF vars, Paid, RateInv
<1>4. ASSUME NEW c \in Claimants, Claim(c)  PROVE RateInv'  BY <1>4, ClaimIsPaid
<1>5. ASSUME NEW u \in Users, Dashboard(u)  PROVE RateInv'  BY <1>5, DashboardIsPaid
<1> QED  BY <1>2, <1>3, <1>4, <1>5 DEF Next

\* The rate limits hold: the table is bounded; as long as no claim has waited for
\* the lock after it read the clock, a claim finds its buckets; and as long as
\* there is room for every key that is asked for, nobody is let through more often
\* than his burst and what was refilled since the start and while his requests
\* waited allow: neither pruning idle buckets, which start full when they come
\* back, nor a bucket set back to an earlier time gives more away
\* (RateBucket::refill, RATE_LIMIT_BUCKET_TTL).
THEOREM RatesAreKept ==
    ASSUME KeysAssumption, BoundsAssumption, RatesAssumption
    PROVE  Spec => []RatesHold
<1>1. Init => RateInv
  <2>1. SUFFICES ASSUME Init  PROVE RateInv  OBVIOUS
  <2>2. LimitsInv  BY <2>1, InitLimits
  <2>3. /\ buckets = <<>> /\ now = 0 /\ asked = {} /\ granted = [k \in Keys |-> 0]
        /\ late = [k \in Keys |-> 0]
    BY <2>1 DEF Init
  <2>4. DOMAIN buckets = {}  BY <2>3
  <2>5. ASSUME NEW k \in Keys  PROVE Paid(k, buckets)
    <3>1. granted[k] * Unit = 0 /\ RefillOf[k] * (now + late[k]) = 0
      BY <2>3 DEF RatesAssumption, BoundsAssumption
    <3> QED  BY <2>4, <3>1 DEF Paid
  <2> QED  BY <2>2, <2>3, <2>4, <2>5, FS_EmptySet DEF RateInv
<1>2. RateInv /\ [Next]_vars => RateInv'  BY RateStep
<1>3. RateInv => RatesHold
  <2>0. RateInv => TypeOK /\ BothFound /\ TableBounded
    BY BothAreThere DEF RateInv, LimitsInv, Bounded, TableBounded, BothFound
  <2>1. SUFFICES ASSUME RateInv, Cardinality(asked) <= MaxBuckets, NEW k \in Keys
                 PROVE  granted[k] * Unit <= BurstOf[k] + RefillOf[k] * (now + late[k])
    BY <2>0 DEF RateKept, RatesHold
  <2>2. /\ now \in Nat /\ late[k] \in Nat /\ BurstOf[k] \in Nat /\ RefillOf[k] \in Nat
        /\ granted[k] * Unit \in Nat /\ RefillOf[k] * (now + late[k]) \in Nat
    BY <2>1, KeyNumbers DEF RateInv, LimitsInv
  <2>4. CASE k \notin DOMAIN buckets
    <3>1. granted[k] * Unit <= RefillOf[k] * (now + late[k])
      BY <2>1, <2>4 DEF RateInv, Paid
    <3> QED  BY <2>2, <3>1
  <2>5. CASE k \in DOMAIN buckets
    <3> DEFINE at == buckets[k].seen + late[k]
    <3>1. buckets[k].tokens \in Nat /\ buckets[k].seen \in Nat /\ buckets[k].seen <= now
      BY <2>1, <2>2, <2>5 DEF RateInv, LimitsInv, TypeOK, Bucket
    <3>2. granted[k] * Unit + buckets[k].tokens <= BurstOf[k] + RefillOf[k] * at
      BY <2>1, <2>5 DEF RateInv, Paid
    <3>3. at \in Nat /\ now + late[k] \in Nat /\ at <= now + late[k]  BY <2>2, <3>1
    <3> HIDE DEF at
    <3>4. RefillOf[k] * at \in Nat /\ RefillOf[k] * at <= RefillOf[k] * (now + late[k])
      BY <2>2, <3>3, MoreGivesMore
    <3> QED  BY <2>2, <3>1, <3>2, <3>4
  <2> QED  BY <2>4, <2>5
<1> QED  BY <1>1, <1>2, <1>3, PTL DEF Spec

=============================================================================
