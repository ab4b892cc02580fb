---------------------------- MODULE RateLimiter -----------------------------
(***************************************************************************)
(* The token buckets of one shard (src/limiter.rs).  Shards share nothing, *)
(* and an address always falls in the same one, so one shard is the whole  *)
(* behaviour.  check reads the clock BEFORE it takes the shard's mutex:    *)
(* under the mutex its time may be older than that of a check that went    *)
(* first.  Tokens are u32 (% WORD); the time unit is 1/SECOND of a second, *)
(* so the fractions that `as u32` cuts off are there.                      *)
(***************************************************************************)
EXTENDS Integers, FiniteSets, Functions

CONSTANTS
    Threads,          \* tasks that call check
    Ips,              \* addresses that fall in this shard
    NoIp,             \* no call
    SECOND,           \* clock units per second
    CAPACITY,         \* RateLimiter.capacity
    REFILL,           \* RateLimiter.refill_per_sec
    IDLE_TTL,         \* BUCKET_IDLE_TTL, in clock units
    CLEANUP_INTERVAL, \* CLEANUP_INTERVAL, in clock units
    CLEANUP_THRESHOLD,\* SHARD_CLEANUP_THRESHOLD
    MAX_BUCKETS,      \* SHARD_MAX_BUCKETS
    WORD,             \* 2^32
    MaxClock          \* bound on the clock

ASSUME RateLimiterAssumption ==
    /\ NoIp \notin Ips
    /\ SECOND \in Nat \ {0}
    /\ CAPACITY \in Nat /\ REFILL \in Nat
    /\ IDLE_TTL \in Nat /\ CLEANUP_INTERVAL \in Nat /\ CLEANUP_THRESHOLD \in Nat
    /\ MAX_BUCKETS \in Nat /\ MAX_BUCKETS >= 4
    /\ WORD \in Nat /\ CAPACITY < WORD
    /\ MaxClock \in Nat

VARIABLES
    clock,         \* Instant::now()
    buckets,       \* Shard.buckets: address -> [tokens, last]
    last_cleanup,  \* Shard.last_cleanup
    call,          \* call[t]: the address t checks and the time it read
    life           \* history of each bucket: when it was made, the checks it
                   \* admitted, when it last admitted one

vars == <<clock, buckets, last_cleanup, call, life>>

-----------------------------------------------------------------------------
Bucket == [tokens : 0..CAPACITY, last : Nat]

NoCall == [ip |-> NoIp, now |-> 0]

TypeOK ==
    /\ clock \in Nat
    /\ DOMAIN buckets \subseteq Ips
    /\ buckets \in [DOMAIN buckets -> Bucket]
    /\ last_cleanup \in Nat
    /\ call \in [Threads -> [ip : Ips \cup {NoIp}, now : Nat]]
    /\ life \in [DOMAIN buckets -> [born : Nat, admitted : Nat, served : Nat]]

-----------------------------------------------------------------------------
(* duration_since saturates at zero. *)
Since(now, past) == IF now >= past THEN now - past ELSE 0

Smaller(x, y) == IF x <= y THEN x ELSE y

Keep(b, ips) == Restrict(b, ips)

(* The time-gated clean-up of buckets idle for IDLE_TTL. *)
CleanupDue(now) ==
    /\ Cardinality(DOMAIN buckets) >= CLEANUP_THRESHOLD
    /\ Since(now, last_cleanup) >= CLEANUP_INTERVAL

Idle(b, ip, now) == Since(now, b[ip].last) >= IDLE_TTL

Cleaned(now) ==
    IF CleanupDue(now) THEN Keep(buckets, {ip \in DOMAIN buckets : ~Idle(buckets, ip, now)})
    ELSE buckets

(* evict_oldest_quarter: cutoff is the evict-th oldest of the last fields. *)
Cutoff(b, evict) ==
    CHOOSE c \in {b[ip].last : ip \in DOMAIN b} :
        /\ Cardinality({ip \in DOMAIN b : b[ip].last < c}) < evict
        /\ Cardinality({ip \in DOMAIN b : b[ip].last <= c}) >= evict

(* Mutant of EvictOldestQuarter: the cutoff itself stays. *)
EvictOlderThanCutoff(b) ==
    LET evict == Cardinality(DOMAIN b) \div 4
    IN  IF evict = 0 THEN b
        ELSE Keep(b, {ip \in DOMAIN b : b[ip].last >= Cutoff(b, evict)})

EvictOldestQuarter(b) ==
    LET evict == Cardinality(DOMAIN b) \div 4
    IN  IF evict = 0 THEN b
        ELSE Keep(b, {ip \in DOMAIN b : b[ip].last > Cutoff(b, evict)})

(* Mutant of Bounded: off by one. *)
BoundedLate(b) == IF Cardinality(DOMAIN b) > MAX_BUCKETS THEN EvictOldestQuarter(b) ELSE b

(* The hard bound, checked before the entry is looked up. *)
Bounded(b) == IF Cardinality(DOMAIN b) >= MAX_BUCKETS THEN EvictOldestQuarter(b) ELSE b

(* (elapsed * refill) as u32: cut to an integer, saturating at u32::MAX. *)
Refill(elapsed) == Smaller((elapsed * REFILL) \div SECOND, WORD - 1)

(* Mutant of Refilled: the bucket takes the time of every check, older or not. *)
RefilledAnyTime(bucket, now) ==
    [tokens |-> Smaller((bucket.tokens + Refill(Since(now, bucket.last))) % WORD, CAPACITY),
     last   |-> now]

(* Mutant of Refilled: what is less than a token is lost at every check. *)
RefilledLosingFractions(bucket, now) ==
    [tokens |-> Smaller((bucket.tokens + Refill(Since(now, bucket.last))) % WORD, CAPACITY),
     last   |-> IF now > bucket.last THEN now ELSE bucket.last]

(* tokens + add is a plain u32 addition, which wraps in a release build. *)
Refilled(bucket, now) ==
    LET add == Refill(Since(now, bucket.last))
    IN  IF add > 0
        THEN [tokens |-> Smaller((bucket.tokens + add) % WORD, CAPACITY), last |-> now]
        ELSE bucket

(* The bucket check works on: the entry, or a full one made now. *)
Entry(b, ip, now) == IF ip \in DOMAIN b THEN b[ip] ELSE [tokens |-> CAPACITY, last |-> now]

-----------------------------------------------------------------------------
Init ==
    /\ clock = 0
    /\ buckets = [ip \in {} |-> 0]
    /\ last_cleanup = 0
    /\ call = [t \in Threads |-> NoCall]
    /\ life = [ip \in {} |-> 0]

(* Before the mutex: read the clock. *)
CallCheck(t, ip) ==
    /\ call[t].ip = NoIp
    /\ call' = [call EXCEPT ![t] = [ip |-> ip, now |-> clock]]
    /\ UNCHANGED <<clock, buckets, last_cleanup, life>>

(* The history of the bucket of ip after a check at time now. *)
LifeAfter(base, ip, now, taken) ==
    LET past == IF ip \in DOMAIN base THEN life[ip]
                ELSE [born |-> now, admitted |-> 0, served |-> clock]
    IN  IF taken THEN [past EXCEPT !.admitted = @ + 1, !.served = clock] ELSE past

(* Under the mutex: clean up, bound, refill, take a token. *)
Base(t) == Bounded(Cleaned(call[t].now))

Found(t) == Refilled(Entry(Base(t), call[t].ip, call[t].now), call[t].now)

Check(t) ==
    LET ip     == call[t].ip
        now    == call[t].now
        base   == Base(t)
        bucket == Found(t)
        taken  == bucket.tokens > 0      \* check returns ~taken
        left   == IF taken THEN bucket.tokens - 1 ELSE bucket.tokens
    IN  /\ ip # NoIp
        /\ buckets' = [i \in DOMAIN base \cup {ip} |->
                          IF i = ip THEN [bucket EXCEPT !.tokens = left] ELSE base[i]]
        /\ last_cleanup' = IF CleanupDue(now) THEN now ELSE last_cleanup
        /\ call' = [call EXCEPT ![t] = NoCall]
        /\ life' = [i \in DOMAIN buckets' |->
                       IF i = ip THEN LifeAfter(base, ip, now, taken) ELSE life[i]]
        /\ UNCHANGED clock

Tick ==
    /\ clock < MaxClock
    /\ clock' = clock + 1
    /\ UNCHANGED <<buckets, last_cleanup, call, life>>

Next ==
    \/ Tick
    \/ \E t \in Threads : Check(t) \/ \E ip \in Ips : CallCheck(t, ip)

Spec == Init /\ [][Next]_vars

-----------------------------------------------------------------------------
(***************************************************************************)
(* Memory: whatever addresses come, the shard never holds more than        *)
(* SHARD_MAX_BUCKETS buckets (limiter.rs:97), clean-up due or not.         *)
(***************************************************************************)
BucketsBounded == Cardinality(DOMAIN buckets) <= MAX_BUCKETS

(***************************************************************************)
(* No over-admission: over the life of a bucket the admitted checks and    *)
(* the tokens left are paid for by the first fill and by the refill of the *)
(* time that passed.  No stretch of time is refilled twice, although a     *)
(* check may be served with an older clock value than the one before it.   *)
(***************************************************************************)
NoOverAdmission ==
    \A ip \in DOMAIN buckets :
        SECOND * (life[ip].admitted + buckets[ip].tokens)
            <= SECOND * CAPACITY + REFILL * (buckets[ip].last - life[ip].born)

(***************************************************************************)
(* Eviction takes the oldest: of the tables the shard reaches at its hard  *)
(* bound, at least a quarter goes, and all of it is older than what stays  *)
(* (limiter.rs:151), however many buckets share one time.                  *)
(***************************************************************************)
EvictsTheOldest ==
    Cardinality(DOMAIN buckets) >= MAX_BUCKETS =>
        LET stay == DOMAIN Bounded(buckets)
            gone == DOMAIN buckets \ stay
        IN  /\ 4 * Cardinality(gone) > Cardinality(DOMAIN buckets) - 4
            /\ \A g \in gone, s \in stay : buckets[g].last < buckets[s].last

(***************************************************************************)
(* Patience is paid: once the time of one token has gone by since a client *)
(* was last admitted, its next check is not limited, however often it was  *)
(* refused in between: the fractions of a token that a refused check finds *)
(* (limiter.rs:109) are kept for the next one, and neither a sweep, nor an *)
(* eviction, nor checks served with older clock values take them away.     *)
(* (It holds only while tokens + add fits in u32: limiter.rs:111.)         *)
(***************************************************************************)
TokenTimeIsServed ==
    \A t \in Threads :
        LET ip  == call[t].ip
            now == call[t].now
        IN  (/\ CAPACITY > 0
             /\ ip \in DOMAIN buckets
             /\ (now - life[ip].served) * REFILL >= SECOND)
            => Found(t).tokens > 0
=============================================================================
