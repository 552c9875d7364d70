------------------------------ MODULE RelayLimits ------------------------------
(***************************************************************************)
(* The rate limits of the relay (conductor-relay/src/relay.rs): a table of *)
(* token buckets, one for each caller and one for all device claims,       *)
(* created when first asked for, pruned when idle, evicted when the table  *)
(* is full.  A request holds the relay's lock from its first lookup to its *)
(* answer, but has looked at the clock before it waited for the lock: the  *)
(* times of the requests are not in the order in which they are served.    *)
(* No two are served at the same instant.                                  *)
(***************************************************************************)
EXTENDS Naturals, FiniteSets

CONSTANTS
    Claimants,   \* keys of device claims
    Users,       \* keys of dashboard users
    Global,      \* DEVICE_CLAIM_GLOBAL_RATE_LIMIT_KEY
    Unit,        \* what a request costs; the code's 1.0
    BurstOf,     \* capacity of a bucket
    RefillOf,    \* tokens a bucket gets per instant
    MaxBuckets,  \* MAX_RATE_LIMIT_BUCKETS
    Ttl,         \* RATE_LIMIT_BUCKET_TTL
    MaxTime,     \* bound: instants
    MaxLate      \* bound: how long a request waits for the lock

Keys == Claimants \cup Users \cup {Global}

KeysAssumption == Global \notin Claimants \cup Users /\ Claimants \cap Users = {}
BoundsAssumption == {MaxBuckets, Ttl, MaxTime, MaxLate, Unit} \subseteq Nat /\ MaxBuckets >= 3
\* A bucket that is idle for the time to live would be full again.
RatesAssumption ==
    /\ BurstOf \in [Keys -> Nat \ {0}] /\ RefillOf \in [Keys -> Nat]
    /\ \A k \in Keys : RefillOf[k] * Ttl >= BurstOf[k]

VARIABLES
    now,
    buckets,     \* RelayInner.rate_limits
    asked,       \* keys a request came for
    granted,     \* requests let through for each key
    late         \* how long the requests of each key have waited, all in all

vars == <<now, buckets, asked, granted, late>>

Bucket == [tokens : Nat, seen : Nat]
Least(n, k) == IF n < k THEN n ELSE k

Init ==
    /\ now = 0 /\ buckets = <<>> /\ asked = {}
    /\ granted = [k \in Keys |-> 0] /\ late = [k \in Keys |-> 0]

-----------------------------------------------------------------------------
\* What a request that is served now may have read from the clock.
Times == {t \in 0..now : now - t <= MaxLate}

\* Instant::saturating_duration_since
Since(t, seen) == IF t < seen THEN 0 ELSE t - seen

Idle(b, t) == Since(t, b.seen) > Ttl

Kept(bs, t) == [k \in {k \in DOMAIN bs : ~Idle(bs[k], t)} |-> bs[k]]

Victims(bs) == DOMAIN bs \ {Global}
Oldest(bs) == CHOOSE k \in Victims(bs) : \A l \in Victims(bs) : bs[k].seen <= bs[l].seen
\* Mutant: room is made once the table is over its bound.
EvictedLate(bs) == IF Cardinality(DOMAIN bs) > MaxBuckets
                   THEN [k \in DOMAIN bs \ {Oldest(bs)} |-> bs[k]] ELSE bs
Evicted(bs) == IF Cardinality(DOMAIN bs) >= MaxBuckets
               THEN [k \in DOMAIN bs \ {Oldest(bs)} |-> bs[k]] ELSE bs

\* ensure_rate_limit_bucket
Ensured(bs, key, t) ==
    IF key \in DOMAIN bs THEN bs
    ELSE LET rest == Evicted(Kept(bs, t)) IN
         [k \in DOMAIN rest \cup {key} |->
             IF k = key THEN [tokens |-> BurstOf[key], seen |-> t] ELSE rest[k]]

\* RateBucket::refill: nothing for a time before the last one, which it goes back to.
Refilled(bs, keys, t) == [k \in DOMAIN bs |->
    IF k \in keys
    THEN [tokens |-> Least(bs[k].tokens + RefillOf[k] * Since(t, bs[k].seen), BurstOf[k]), seen |-> t]
    ELSE bs[k]]

Spent(bs, keys) == [k \in DOMAIN bs |->
    IF k \in keys THEN [bs[k] EXCEPT !.tokens = @ - Unit] ELSE bs[k]]

Allowed(bs, keys) == \A k \in keys : bs[k].tokens >= Unit

\* A request for the keys that read t is served.
Served(keys, t) ==
    /\ late' = [k \in Keys |-> IF k \in keys THEN late[k] + (now - t) ELSE late[k]]
    /\ asked' = asked \cup keys /\ now' = now + 1

Take(bs, keys) ==
    /\ buckets' = IF Allowed(bs, keys) THEN Spent(bs, keys) ELSE bs
    /\ granted' = [k \in Keys |-> IF k \in keys /\ Allowed(bs, keys) THEN granted[k] + 1
                                  ELSE granted[k]]

Dashboard(u) ==
    /\ now < MaxTime
    /\ \E t \in Times : Served({u}, t) /\ Take(Refilled(Ensured(buckets, u, t), {u}, t), {u})

\* A claim needs a token of its caller's bucket and one of everyone's.  Where the
\* first is not found once the second is there, the handler panics.
Both(c, t) == Ensured(Ensured(buckets, c, t), Global, t)
Claim(c) ==
    /\ now < MaxTime
    /\ \E t \in Times :
         /\ Served({c, Global}, t)
         /\ IF c \in DOMAIN Both(c, t)
            THEN Take(Refilled(Both(c, t), {c, Global}, t), {c, Global})
            ELSE buckets' = Both(c, t) /\ UNCHANGED granted

Wait == now < MaxTime /\ now' = now + 1 /\ UNCHANGED <<buckets, asked, granted, late>>

Next == (\E c \in Claimants : Claim(c)) \/ (\E u \in Users : Dashboard(u)) \/ Wait
Spec == Init /\ [][Next]_vars

-----------------------------------------------------------------------------
(* Properties.                                                              *)

TypeOK ==
    /\ now \in Nat
    /\ DOMAIN buckets \subseteq Keys
    /\ \A k \in DOMAIN buckets : buckets[k] \in Bucket
    /\ asked \subseteq Keys /\ granted \in [Keys -> Nat] /\ late \in [Keys -> Nat]

\* A claim finds the two buckets it has just made sure of: making sure of the
\* second one never prunes or evicts the first ("device-claim rate-limit bucket
\* should exist"), unless a claim has waited for the lock, however long the
\* requests of dashboards have.
Found(c, t) == {c, Global} \subseteq DOMAIN Both(c, t)
BothFound == late[Global] = 0 => \A c \in Claimants : Found(c, now)

\* The table never grows over its bound.
TableBounded == Cardinality(DOMAIN buckets) <= MaxBuckets

\* Nobody gets more than the burst and what was refilled since the start and while
\* his requests waited: neither pruning idle buckets nor a time that goes back
\* gives more away.  (As long as there is room for everybody who asks: an evicted
\* bucket starts full again.)
RateKept ==
    Cardinality(asked) <= MaxBuckets
        => \A k \in Keys : granted[k] * Unit <= BurstOf[k] + RefillOf[k] * (now + late[k])

\* The limits hold whatever the table forgets and in whatever order times arrive.
RatesHold == TypeOK /\ BothFound /\ TableBounded /\ RateKept

\* What the code expects of every claim ("device-claim rate-limit bucket should
\* exist"), which fails for claims that waited: such a claim is the oldest of a full
\* table and makes room for everybody's bucket itself; or it sets everybody's bucket
\* back, which is pruned while its caller's is kept, and the next claim of that
\* caller prunes the caller's for everybody's.
ClaimsFindBuckets == \A c \in Claimants, t \in Times : Found(c, t)

=============================================================================
