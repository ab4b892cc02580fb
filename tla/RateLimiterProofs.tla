------------------------- MODULE RateLimiterProofs --------------------------
(***************************************************************************)
(* Theorems about RateLimiter, for any addresses, threads and limits: the  *)
(* shard is bounded, eviction takes the oldest, no bucket admits more than *)
(* its capacity and refill pay for, and the time of one token is served.   *)
(* The first two rest on Evicts, what evict_oldest_quarter does to any     *)
(* table; the third is inductive with the types; the last rests on Paid: a *)
(* bucket's time moves only with a check that is admitted.                 *)
(***************************************************************************)
EXTENDS RateLimiter, FiniteSetTheorems, WellFoundedInduction, TLAPS

(* The table is finite and nothing in it is from the future. *)
Timely ==
    /\ IsFiniteSet(DOMAIN buckets)
    /\ \A ip \in DOMAIN buckets : buckets[ip].last <= clock
    /\ \A t \in Threads : call[t].now <= clock

ShardInv == TypeOK /\ Timely /\ BucketsBounded /\ NoOverAdmission

(* A bucket table of the shard. *)
Table(b) == b \in [DOMAIN b -> Bucket] /\ DOMAIN b \subseteq Ips /\ IsFiniteSet(DOMAIN b)

-----------------------------------------------------------------------------
LEMMA Quotient ==
    ASSUME NEW a \in Nat, NEW s \in Nat \ {0}
    PROVE  a \div s \in Nat /\ s * (a \div s) <= a
OBVIOUS

LEMMA Remainder ==
    ASSUME NEW a \in Nat, NEW s \in Nat \ {0}
    PROVE  a % s \in Nat /\ a % s <= a
OBVIOUS

(* A set of times has an earliest. *)
LEMMA Earliest ==
    ASSUME NEW T, T \subseteq Nat, T # {}
    PROVE  \E x \in T : \A y \in T : x <= y
<1>1. PICK x \in T : \A y \in T : ~ (<<y, x>> \in OpToRel(<, Nat))
  BY NatLessThanWellFounded, WFMin
<1>2. \A y \in T : ~ (y < x)
  BY <1>1 DEF OpToRel
<1> QED BY <1>2

(* select_nth finds what it looks for: fewer than evict buckets are older  *)
(* than the cutoff, at least evict are not younger.                        *)
LEMMA CutoffFound ==
    ASSUME NEW b, Table(b), NEW now \in Nat, \A ip \in DOMAIN b : b[ip].last <= now,
           NEW evict \in 1..Cardinality(DOMAIN b)
    PROVE  /\ Cutoff(b, evict) \in Nat
           /\ Cardinality({ip \in DOMAIN b : b[ip].last <= Cutoff(b, evict)}) >= evict
<1> DEFINE upTo(c) == {ip \in DOMAIN b : b[ip].last <= c}
           before(c) == {ip \in DOMAIN b : b[ip].last < c}
           lasts == {b[ip].last : ip \in DOMAIN b}
           T == {c \in Nat : Cardinality(upTo(c)) >= evict}
<1>1. \A ip \in DOMAIN b : b[ip].last \in Nat
  BY DEF Table, Bucket
<1>2. evict \in Nat /\ evict >= 1
  BY FS_CardinalityType DEF Table
<1>3. now \in T
  <2>1. upTo(now) = DOMAIN b
    OBVIOUS
  <2>2. Cardinality(DOMAIN b) \in Nat
    BY FS_CardinalityType DEF Table
  <2> QED BY <2>1, <2>2
<1>4. PICK c \in T : \A d \in T : c <= d
  <2>1. T \subseteq Nat /\ T # {}
    BY <1>3
  <2> HIDE DEF T
  <2> QED BY <2>1, Earliest
<1>5. Cardinality(before(c)) < evict
  <2>1. CASE c = 0
    <3>1. before(c) = {}
      BY <1>1, <2>1
    <3>2. Cardinality(before(c)) = 0
      BY <3>1, FS_EmptySet, Zenon
    <3> HIDE DEF before
    <3> QED BY <3>2, <1>2
  <2>2. CASE c # 0
    <3>1. c - 1 \in Nat /\ c - 1 \notin T
      BY <1>4, <2>2
    <3>2. upTo(c - 1) = before(c)
      BY <1>1, <1>4
    <3>3. Cardinality(before(c)) \in Nat
      BY FS_Subset, FS_CardinalityType DEF Table
    <3>4. ~ (Cardinality(before(c)) >= evict)
      BY <3>1, <3>2
    <3> HIDE DEF before
    <3> QED BY <1>2, <3>3, <3>4
  <2> QED BY <2>1, <2>2
<1>6. c \in lasts
  <2>1. upTo(c) # before(c)
    <3>1. Cardinality(before(c)) \in Nat
      BY FS_Subset, FS_CardinalityType DEF Table
    <3> QED BY <1>4, <1>5, <3>1
  <2>2. PICK ip \in upTo(c) : ip \notin before(c)
    BY <2>1, <1>1, <1>4
  <2> QED BY <2>2, <1>1, <1>4
<1>7. \E d \in lasts : Cardinality(before(d)) < evict /\ Cardinality(upTo(d)) >= evict
  BY <1>4, <1>5, <1>6
<1>8. Cutoff(b, evict) \in lasts /\ Cardinality(upTo(Cutoff(b, evict))) >= evict
  BY <1>7 DEF Cutoff
<1> QED BY <1>1, <1>8

(* What evict_oldest_quarter does to a table of four buckets or more. *)
LEMMA Evicts ==
    ASSUME NEW b, Table(b), NEW now \in Nat, \A ip \in DOMAIN b : b[ip].last <= now,
           Cardinality(DOMAIN b) >= 4,
           NEW stay, stay = DOMAIN EvictOldestQuarter(b)
    PROVE  /\ stay \subseteq DOMAIN b
           /\ EvictOldestQuarter(b) = [ip \in stay |-> b[ip]]
           /\ 4 * Cardinality(DOMAIN b \ stay) > Cardinality(DOMAIN b) - 4
           /\ Cardinality(stay) < Cardinality(DOMAIN b)
           /\ \A g \in DOMAIN b \ stay, s \in stay : b[g].last < b[s].last
<1> DEFINE n == Cardinality(DOMAIN b)
           evict == n \div 4
           c == Cutoff(b, evict)
           gone == {ip \in DOMAIN b : b[ip].last <= c}
<1>1. n \in Nat /\ IsFiniteSet(DOMAIN b)
  BY FS_CardinalityType DEF Table
<1>2. evict \in 1..n /\ 4 * evict > n - 4
  <2> HIDE DEF n
  <2> QED BY <1>1 DEF n
<1>3. c \in Nat /\ Cardinality(gone) >= evict
  <2> HIDE DEF evict
  <2> QED BY <1>2, CutoffFound
<1>4. \A ip \in DOMAIN b : b[ip].last \in Nat
  BY DEF Table, Bucket
<1>5. EvictOldestQuarter(b) = [ip \in {i \in DOMAIN b : b[i].last > c} |-> b[ip]]
  <2>1. n \div 4 # 0
    BY <1>1, <1>2
  <2> QED BY <2>1 DEF EvictOldestQuarter, Keep, Restrict
<1> HIDE DEF c
<1>6. stay = {i \in DOMAIN b : b[i].last > c}
  BY <1>5
<1>7. DOMAIN b \ stay = gone
  BY <1>3, <1>4, <1>6
<1>8. Cardinality(stay) < n
  <2>1. IsFiniteSet(stay) /\ Cardinality(stay) \in Nat /\ Cardinality(stay) <= n
    BY <1>1, <1>6, FS_Subset, FS_CardinalityType
  <2>2. gone # {}
    <3> HIDE DEF gone, evict, n
    <3> QED BY <1>1, <1>2, <1>3, FS_EmptySet
  <2>3. stay # DOMAIN b
    BY <1>7, <2>2
  <2>4. Cardinality(stay) # n
    BY <1>1, <1>6, <2>3, FS_Subset
  <2> QED BY <1>1, <2>1, <2>4
<1>9. Cardinality(gone) \in Nat
  BY <1>1, FS_Subset, FS_CardinalityType
<1>10. 4 * Cardinality(gone) > n - 4
  <2> HIDE DEF n, evict, gone
  <2> QED BY <1>1, <1>2, <1>3, <1>9
<1>11. \A g \in gone, s \in stay : b[g].last < b[s].last
  BY <1>3, <1>4, <1>6
<1> QED BY <1>5, <1>6, <1>7, <1>8, <1>10, <1>11

-----------------------------------------------------------------------------
(* The table check works on: what is left of the shard's, with room in it. *)
LEMMA BaseHasRoom ==
    ASSUME ShardInv, NEW t \in Threads, NEW base, base = Base(t)
    PROVE  /\ Table(base) /\ DOMAIN base \subseteq DOMAIN buckets
           /\ \A ip \in DOMAIN base : base[ip] = buckets[ip]
           /\ Cardinality(DOMAIN base) < MAX_BUCKETS
<1> DEFINE clean == Cleaned(call[t].now)
<1>1. Table(buckets) /\ clock \in Nat /\ \A ip \in DOMAIN buckets : buckets[ip].last <= clock
  BY DEF ShardInv, TypeOK, Timely, Table
<1>2. /\ DOMAIN clean \subseteq DOMAIN buckets
      /\ clean = [ip \in DOMAIN clean |-> buckets[ip]]
  BY <1>1 DEF Cleaned, Keep, Restrict, Table
<1> HIDE DEF clean
<1>3. Table(clean) /\ Cardinality(DOMAIN clean) \in Nat
      /\ Cardinality(DOMAIN clean) <= MAX_BUCKETS
  <2>1. IsFiniteSet(DOMAIN clean) /\ Cardinality(DOMAIN clean) <= Cardinality(DOMAIN buckets)
    BY <1>1, <1>2, FS_Subset DEF Table
  <2>2. Cardinality(DOMAIN clean) \in Nat /\ Cardinality(DOMAIN buckets) \in Nat
    BY <1>1, <2>1, FS_CardinalityType DEF Table
  <2>3. Cardinality(DOMAIN clean) <= MAX_BUCKETS
    BY <2>1, <2>2, RateLimiterAssumption DEF ShardInv, BucketsBounded
  <2>4. \A ip \in DOMAIN clean : clean[ip] = buckets[ip] /\ buckets[ip] \in Bucket
    BY <1>1, <1>2 DEF Table
  <2> QED BY <1>1, <1>2, <2>1, <2>2, <2>3, <2>4 DEF Table
<1>4. base = Bounded(clean)
  BY DEF Base, clean
<1>5. CASE Cardinality(DOMAIN clean) >= MAX_BUCKETS
  <2> DEFINE stay == DOMAIN EvictOldestQuarter(clean)
  <2>1. base = EvictOldestQuarter(clean)
    BY <1>4, <1>5 DEF Bounded
  <2>2. \A ip \in DOMAIN clean : clean[ip].last <= clock
    BY <1>1, <1>2
  <2>3. Cardinality(DOMAIN clean) >= 4
    BY <1>3, <1>5, RateLimiterAssumption
  <2>4. /\ stay \subseteq DOMAIN clean
        /\ EvictOldestQuarter(clean) = [ip \in stay |-> clean[ip]]
        /\ Cardinality(stay) < Cardinality(DOMAIN clean)
    BY <1>1, <1>3, <2>2, <2>3, Evicts
  <2>5. IsFiniteSet(stay) /\ Cardinality(stay) \in Nat
    BY <1>3, <2>4, FS_Subset, FS_CardinalityType DEF Table
  <2> HIDE DEF stay
  <2>6. DOMAIN base = stay /\ base = [ip \in stay |-> clean[ip]]
    BY <2>1, <2>4 DEF stay
  <2>7. Table(base)
    BY <1>3, <2>4, <2>5, <2>6 DEF Table
  <2>8. Cardinality(DOMAIN base) < MAX_BUCKETS
    BY <1>3, <2>4, <2>5, <2>6, RateLimiterAssumption
  <2> QED BY <1>2, <2>4, <2>6, <2>7, <2>8
<1>6. CASE ~ (Cardinality(DOMAIN clean) >= MAX_BUCKETS)
  BY <1>2, <1>3, <1>4, <1>6, RateLimiterAssumption DEF Bounded
<1> QED BY <1>5, <1>6

(* A refill is paid for by the time it moves last by. *)
LEMMA RefillIsPaid ==
    ASSUME NEW bucket \in Bucket, NEW now \in Nat, NEW r, r = Refilled(bucket, now)
    PROVE  /\ r \in Bucket
           /\ r.last = bucket.last \/ r.last = now
           /\ r.last >= bucket.last
           /\ SECOND * r.tokens <= SECOND * bucket.tokens + REFILL * (r.last - bucket.last)
<1> DEFINE elapsed == Since(now, bucket.last)
           add == Refill(elapsed)
<1>1. /\ SECOND \in Nat \ {0} /\ REFILL \in Nat /\ CAPACITY \in Nat
      /\ WORD \in Nat \ {0} /\ bucket.tokens \in Nat /\ bucket.last \in Nat
      /\ bucket.tokens <= CAPACITY
  BY RateLimiterAssumption DEF Bucket
<1>2. elapsed \in Nat /\ (elapsed > 0 => elapsed = now - bucket.last)
  BY <1>1 DEF Since
<1> HIDE DEF elapsed
<1>3. elapsed * REFILL \in Nat
  BY <1>1, <1>2
<1>4. /\ (elapsed * REFILL) \div SECOND \in Nat
      /\ SECOND * ((elapsed * REFILL) \div SECOND) <= elapsed * REFILL
  BY <1>1, <1>3, Quotient
<1>5. add \in Nat /\ add <= (elapsed * REFILL) \div SECOND
  BY <1>1, <1>4 DEF Refill, Smaller
<1> HIDE DEF add
<1>6. SECOND * add <= elapsed * REFILL
  <2> DEFINE q == (elapsed * REFILL) \div SECOND
  <2> HIDE DEF q
  <2>1. SECOND * add <= SECOND * q
    BY <1>1, <1>4, <1>5 DEF q
  <2>2. SECOND * add \in Nat /\ SECOND * q \in Nat
    BY <1>1, <1>4, <1>5 DEF q
  <2> QED BY <1>3, <1>4, <2>1, <2>2 DEF q
<1>7. CASE add > 0
  <2> DEFINE sum == bucket.tokens + add
             kept == sum % WORD
  <2>1. r = [tokens |-> Smaller(kept, CAPACITY), last |-> now]
    BY <1>7 DEF Refilled, add, elapsed
  <2>2. kept \in Nat /\ kept <= sum /\ sum \in Nat
    <3>1. sum \in Nat
      BY <1>1, <1>5
    <3> HIDE DEF sum
    <3> QED BY <1>1, <3>1, Remainder
  <2> HIDE DEF kept
  <2>3. /\ r.tokens \in 0..CAPACITY /\ r.tokens <= bucket.tokens + add /\ r.last = now
    BY <1>1, <2>1, <2>2 DEF Smaller
  <2>4. elapsed > 0
    <3>1. CASE elapsed = 0
      <4>1. SECOND * add <= 0
        BY <3>1, <1>6, <1>1
      <4> QED BY <4>1, <1>1, <1>5, <1>7
    <3> QED BY <3>1, <1>2
  <2>5. now - bucket.last = elapsed /\ now >= bucket.last
    BY <1>1, <1>2, <2>4
  <2>6. SECOND * r.tokens <= SECOND * bucket.tokens + SECOND * add
    <3>1. SECOND * r.tokens <= SECOND * (bucket.tokens + add)
      BY <1>1, <1>5, <2>3
    <3>2. SECOND * (bucket.tokens + add) = SECOND * bucket.tokens + SECOND * add
      BY <1>1, <1>5
    <3> QED BY <3>1, <3>2
  <2>7. SECOND * r.tokens <= SECOND * bucket.tokens + REFILL * (now - bucket.last)
    <3>1. elapsed * REFILL = REFILL * (now - bucket.last)
      BY <1>1, <1>2, <2>5
    <3>2. /\ SECOND * r.tokens \in Nat /\ SECOND * bucket.tokens \in Nat
          /\ SECOND * add \in Nat
      BY <1>1, <1>5, <2>3
    <3> QED BY <1>3, <1>6, <2>6, <3>1, <3>2
  <2>8. r \in Bucket
    BY <2>1, <2>3 DEF Bucket
  <2> QED BY <2>3, <2>5, <2>7, <2>8
<1>8. CASE ~ (add > 0)
  <2>1. r = bucket
    BY <1>8 DEF Refilled, add, elapsed
  <2>2. REFILL * (r.last - bucket.last) = 0 /\ SECOND * bucket.tokens \in Nat
    BY <1>1, <2>1
  <2> QED BY <1>1, <2>1, <2>2
<1> QED BY <1>7, <1>8

-----------------------------------------------------------------------------
LEMMA AtStart == Init => ShardInv
<1> SUFFICES ASSUME Init PROVE ShardInv
  OBVIOUS
<1>1. DOMAIN buckets = {} /\ DOMAIN life = {}
  BY DEF Init
<1>2. IsFiniteSet({}) /\ Cardinality({}) = 0
  BY FS_EmptySet
<1>3. TypeOK
  BY <1>1, RateLimiterAssumption DEF Init, TypeOK, NoCall
<1>4. Timely /\ BucketsBounded
  BY <1>1, <1>2, RateLimiterAssumption DEF Init, Timely, BucketsBounded, NoCall
<1> QED BY <1>1, <1>3, <1>4 DEF ShardInv, NoOverAdmission

(* Time passes, or a call reads the clock: the table is as it was. *)
LEMMA CallsKeep ==
    ASSUME ShardInv, Tick \/ \E t \in Threads, ip \in Ips : CallCheck(t, ip)
    PROVE  ShardInv'
<1>1. UNCHANGED <<buckets, last_cleanup, life>>
  BY DEF Tick, CallCheck
<1>2. clock \in Nat /\ clock' \in Nat /\ clock <= clock'
  BY DEF Tick, CallCheck, ShardInv, TypeOK
<1>3. /\ call' \in [Threads -> [ip : Ips \cup {NoIp}, now : Nat]]
      /\ \A t \in Threads : call'[t].now <= clock'
  BY <1>2 DEF Tick, CallCheck, ShardInv, TypeOK, Timely
<1>4. \A ip \in DOMAIN buckets : buckets[ip].last <= clock'
  <2> SUFFICES ASSUME NEW ip \in DOMAIN buckets PROVE buckets[ip].last <= clock'
    OBVIOUS
  <2>1. buckets[ip].last \in Nat /\ buckets[ip].last <= clock
    BY DEF ShardInv, TypeOK, Timely, Bucket
  <2> QED BY <1>2, <2>1
<1> QED BY <1>1, <1>2, <1>3, <1>4
        DEF ShardInv, TypeOK, Timely, BucketsBounded, NoOverAdmission

(* A check: one entry is made or refilled and loses a token, others may go. *)
LEMMA CheckKeeps ==
    ASSUME ShardInv, NEW t \in Threads, Check(t)
    PROVE  ShardInv'
<1> DEFINE ip == call[t].ip
           now == call[t].now
           base == Base(t)
           bucket == Found(t)
           taken == bucket.tokens > 0
           left == IF taken THEN bucket.tokens - 1 ELSE bucket.tokens
           entry == Entry(base, ip, now)
           past == IF ip \in DOMAIN base THEN life[ip]
                   ELSE [born |-> now, admitted |-> 0, served |-> clock]
           after == LifeAfter(base, ip, now, taken)
<1> USE DEF Table
<1>1. /\ ip \in Ips /\ now \in Nat /\ now <= clock
      /\ clock \in Nat /\ clock' = clock
      /\ SECOND \in Nat \ {0} /\ CAPACITY \in Nat /\ REFILL \in Nat
      /\ last_cleanup' = (IF CleanupDue(now) THEN now ELSE last_cleanup)
      /\ call' = [call EXCEPT ![t] = NoCall]
  BY RateLimiterAssumption DEF Check, ShardInv, TypeOK, Timely
<1>2. /\ Table(base) /\ DOMAIN base \subseteq DOMAIN buckets
      /\ \A i \in DOMAIN base : base[i] = buckets[i]
      /\ Cardinality(DOMAIN base) < MAX_BUCKETS
  BY BaseHasRoom
<1>3. /\ buckets' = [i \in DOMAIN base \cup {ip} |->
                        IF i = ip THEN [bucket EXCEPT !.tokens = left] ELSE base[i]]
      /\ life' = [i \in DOMAIN buckets' |-> IF i = ip THEN after ELSE life[i]]
  BY DEF Check
<1>4. DOMAIN buckets' = DOMAIN base \cup {ip} /\ DOMAIN life' = DOMAIN base \cup {ip}
  BY <1>3
<1>5. bucket = Refilled(entry, now)
  BY DEF Found
<1>6. entry \in Bucket /\ entry.last <= clock
  BY <1>1, <1>2, RateLimiterAssumption DEF Entry, Bucket, ShardInv, Timely
<1> HIDE DEF base, bucket, entry
<1>7. /\ bucket \in Bucket
      /\ bucket.last = entry.last \/ bucket.last = now
      /\ bucket.last >= entry.last
      /\ SECOND * bucket.tokens <= SECOND * entry.tokens + REFILL * (bucket.last - entry.last)
  BY <1>1, <1>5, <1>6, RefillIsPaid
<1>8. /\ past \in [born : Nat, admitted : Nat, served : Nat]
      /\ SECOND * (past.admitted + entry.tokens)
            <= SECOND * CAPACITY + REFILL * (entry.last - past.born)
  <2>1. CASE ip \in DOMAIN base
    <3>1. entry = buckets[ip] /\ past = life[ip] /\ ip \in DOMAIN buckets
      BY <1>2, <2>1 DEF Entry, entry
    <3> QED BY <3>1 DEF ShardInv, TypeOK, NoOverAdmission
  <2>2. CASE ip \notin DOMAIN base
    <3>1. entry = [tokens |-> CAPACITY, last |-> now]
          /\ past = [born |-> now, admitted |-> 0, served |-> clock]
      BY <2>2 DEF Entry, entry
    <3>2. REFILL * (entry.last - past.born) = 0
      BY <1>1, <3>1
    <3>3. past.admitted + entry.tokens = CAPACITY /\ SECOND * CAPACITY \in Nat
      BY <1>1, <3>1
    <3> HIDE DEF past
    <3> QED BY <1>1, <3>1, <3>2, <3>3
  <2> QED BY <2>1, <2>2
<1>9. /\ after.born = past.born
      /\ after.admitted = past.admitted + (IF taken THEN 1 ELSE 0)
      /\ after \in [born : Nat, admitted : Nat, served : Nat]
  <2>1. after = IF taken THEN [past EXCEPT !.admitted = past.admitted + 1, !.served = clock]
                ELSE past
    BY DEF LifeAfter
  <2> HIDE DEF after, past, taken
  <2>2. past.admitted + 0 = past.admitted /\ past.admitted + 1 \in Nat
    BY <1>8
  <2>3. CASE taken
    BY <1>1, <1>8, <2>1, <2>2, <2>3
  <2>4. CASE ~ taken
    BY <1>8, <2>1, <2>2, <2>4
  <2> QED BY <2>3, <2>4
<1> HIDE DEF after, past
<1>10. /\ bucket.tokens \in Nat /\ bucket.last \in Nat /\ bucket.last <= clock
       /\ left \in 0..CAPACITY /\ after.admitted + left = past.admitted + bucket.tokens
  <2>1. /\ bucket.tokens \in 0..CAPACITY /\ bucket.last \in Nat
        /\ entry.last \in Nat
    BY <1>6, <1>7 DEF Bucket
  <2>2. bucket.last <= clock
    BY <1>1, <1>6, <1>7, <2>1
  <2>3. past.admitted \in Nat
    BY <1>8
  <2>4. CASE taken
    <3>1. left = bucket.tokens - 1 /\ after.admitted = past.admitted + 1 /\ bucket.tokens > 0
      BY <1>9, <2>4
    <3> HIDE DEF left, taken
    <3> QED BY <2>1, <2>2, <2>3, <3>1, RateLimiterAssumption
  <2>5. CASE ~ taken
    <3>1. left = bucket.tokens /\ after.admitted = past.admitted + 0
      BY <1>9, <2>5
    <3> HIDE DEF left, taken
    <3> QED BY <2>1, <2>2, <2>3, <3>1, RateLimiterAssumption
  <2> QED BY <2>4, <2>5
<1> HIDE DEF left, taken
<1>11. /\ [bucket EXCEPT !.tokens = left] \in Bucket
       /\ [bucket EXCEPT !.tokens = left].last = bucket.last
       /\ [bucket EXCEPT !.tokens = left].tokens = left
  BY <1>7, <1>10 DEF Bucket
<1>12. TypeOK'
  <2>1. buckets' \in [DOMAIN buckets' -> Bucket]
    BY <1>2, <1>3, <1>4, <1>11
  <2>2. life' \in [DOMAIN buckets' -> [born : Nat, admitted : Nat, served : Nat]]
    BY <1>2, <1>3, <1>4, <1>9 DEF ShardInv, TypeOK
  <2>3. call' \in [Threads -> [ip : Ips \cup {NoIp}, now : Nat]] /\ last_cleanup' \in Nat
    BY <1>1 DEF ShardInv, TypeOK, NoCall
  <2> QED BY <1>1, <1>2, <1>4, <2>1, <2>2, <2>3 DEF TypeOK
<1>13. Timely'
  <2>1. IsFiniteSet(DOMAIN buckets')
    BY <1>2, <1>4, FS_AddElement
  <2>2. \A i \in DOMAIN buckets' : buckets'[i].last <= clock
    BY <1>2, <1>3, <1>4, <1>10, <1>11 DEF ShardInv, Timely
  <2>3. \A u \in Threads : call'[u].now <= clock
    BY <1>1 DEF ShardInv, TypeOK, Timely, NoCall
  <2> QED BY <1>1, <2>1, <2>2, <2>3 DEF Timely
<1>14. BucketsBounded'
  <2>1. Cardinality(DOMAIN base) \in Nat
    BY <1>2, FS_CardinalityType
  <2>2. Cardinality(DOMAIN base \cup {ip}) \in Nat
        /\ Cardinality(DOMAIN base \cup {ip}) <= Cardinality(DOMAIN base) + 1
    <3>1. Cardinality(DOMAIN base \cup {ip}) =
             IF ip \in DOMAIN base THEN Cardinality(DOMAIN base)
             ELSE Cardinality(DOMAIN base) + 1
      BY <1>2, FS_AddElement
    <3> HIDE DEF ip
    <3> QED BY <2>1, <3>1
  <2> QED BY <1>2, <1>4, <2>1, <2>2, RateLimiterAssumption DEF BucketsBounded
<1>15. NoOverAdmission'
  <2> SUFFICES ASSUME NEW i \in DOMAIN buckets'
               PROVE  SECOND * (life'[i].admitted + buckets'[i].tokens)
                        <= SECOND * CAPACITY + REFILL * (buckets'[i].last - life'[i].born)
    BY DEF NoOverAdmission
  <2>1. CASE i # ip
    <3>1. buckets'[i] = buckets[i] /\ life'[i] = life[i] /\ i \in DOMAIN buckets
      BY <1>2, <1>3, <1>4, <2>1
    <3> QED BY <3>1 DEF ShardInv, NoOverAdmission
  <2>2. CASE i = ip
    <3>1. /\ life'[i].admitted + buckets'[i].tokens = past.admitted + bucket.tokens
          /\ buckets'[i].last - life'[i].born = bucket.last - past.born
      BY <1>3, <1>4, <1>9, <1>10, <1>11, <2>2
    <3>2. SECOND * (past.admitted + bucket.tokens)
            <= SECOND * CAPACITY + REFILL * (bucket.last - past.born)
      <4> DEFINE el == entry.last - past.born
                 dl == bucket.last - entry.last
      <4>1. entry.tokens \in Nat /\ entry.last \in Nat
        BY <1>6 DEF Bucket
      <4>2. /\ SECOND * (past.admitted + bucket.tokens)
                 = SECOND * past.admitted + SECOND * bucket.tokens
            /\ SECOND * (past.admitted + entry.tokens)
                 = SECOND * past.admitted + SECOND * entry.tokens
        BY <1>1, <1>8, <1>10, <4>1
      <4>3. REFILL * (bucket.last - past.born) = REFILL * el + REFILL * dl
        BY <1>1, <1>8, <1>10, <4>1
      <4>4. /\ SECOND * past.admitted \in Int /\ SECOND * bucket.tokens \in Int
            /\ SECOND * entry.tokens \in Int /\ SECOND * CAPACITY \in Int
            /\ REFILL * el \in Int /\ REFILL * dl \in Int
        BY <1>1, <1>8, <1>10, <4>1
      <4>5. /\ SECOND * bucket.tokens <= SECOND * entry.tokens + REFILL * dl
            /\ SECOND * (past.admitted + entry.tokens) <= SECOND * CAPACITY + REFILL * el
        BY <1>7, <1>8
      <4> HIDE DEF el, dl
      <4> QED BY <4>2, <4>3, <4>4, <4>5
    <3> QED BY <3>1, <3>2
  <2> QED BY <2>1, <2>2
<1> QED BY <1>12, <1>13, <1>14, <1>15 DEF ShardInv

LEMMA ShardInvariant == Spec => []ShardInv
<1>1. ShardInv /\ [Next]_vars => ShardInv'
  <2>1. ASSUME ShardInv, UNCHANGED vars PROVE ShardInv'
    BY <2>1 DEF vars, ShardInv, TypeOK, Timely, BucketsBounded, NoOverAdmission
  <2> QED BY <2>1, CallsKeep, CheckKeeps DEF Next
<1> QED BY <1>1, AtStart, PTL DEF Spec

-----------------------------------------------------------------------------
(* The shard never holds more than MAX_BUCKETS buckets (limiter.rs:97),    *)
(* for any addresses and any bound of at least four.                       *)
THEOREM Bounds == Spec => []BucketsBounded
BY ShardInvariant, PTL DEF ShardInv

(* What a bucket admitted and what is left in it is paid for by its first  *)
(* fill and its refills (limiter.rs:111), though checks of many threads    *)
(* are served with clock values out of order, and for any word width.      *)
THEOREM Admission == Spec => []NoOverAdmission
BY ShardInvariant, PTL DEF ShardInv

(* At the bound at least a quarter of the buckets goes, and all of it is   *)
(* older than what stays (limiter.rs:151), however many share one time.    *)
THEOREM Eviction == Spec => []EvictsTheOldest
<1>1. ShardInv => EvictsTheOldest
  <2> SUFFICES ASSUME ShardInv, Cardinality(DOMAIN buckets) >= MAX_BUCKETS
               PROVE  LET stay == DOMAIN Bounded(buckets)
                          gone == DOMAIN buckets \ stay
                      IN  /\ 4 * Cardinality(gone) > Cardinality(DOMAIN buckets) - 4
                          /\ \A g \in gone, s \in stay : buckets[g].last < buckets[s].last
    BY DEF EvictsTheOldest
  <2>1. Table(buckets) /\ clock \in Nat /\ \A ip \in DOMAIN buckets : buckets[ip].last <= clock
    BY DEF ShardInv, TypeOK, Timely, Table
  <2>2. Cardinality(DOMAIN buckets) \in Nat /\ Cardinality(DOMAIN buckets) >= 4
    BY <2>1, FS_CardinalityType, RateLimiterAssumption DEF Table
  <2>3. Bounded(buckets) = EvictOldestQuarter(buckets)
    BY DEF Bounded
  <2> QED BY <2>1, <2>2, <2>3, Evicts
<1> QED BY <1>1, ShardInvariant, PTL

-----------------------------------------------------------------------------
(* The u32 sum of a refill (limiter.rs:111) does not wrap within MaxClock; *)
(* at 20 tokens a second the real one takes almost seven years to.         *)
SumsFit == MaxClock * REFILL + SECOND * CAPACITY < SECOND * WORD

(* A check that moves the time of a bucket is admitted, so a bucket's time *)
(* is no later than when it last admitted one.                             *)
Paid ==
    /\ clock <= MaxClock
    /\ CAPACITY > 0 => \A ip \in DOMAIN buckets : buckets[ip].last <= life[ip].served

(* A refill of a token or more leaves a token, as no sum wraps. *)
LEMMA RefillShows ==
    ASSUME SumsFit, CAPACITY > 0, NEW bucket \in Bucket, NEW now \in Nat, now <= MaxClock,
           Refill(Since(now, bucket.last)) > 0
    PROVE  Refilled(bucket, now).tokens > 0
<1> DEFINE elapsed == Since(now, bucket.last)
           earned == elapsed * REFILL
           all == earned \div SECOND
           add == Refill(elapsed)
           sum == bucket.tokens + add
<1>1. /\ SECOND \in Nat \ {0} /\ REFILL \in Nat /\ CAPACITY \in Nat /\ MaxClock \in Nat
      /\ WORD \in Nat \ {0} /\ CAPACITY < WORD
      /\ bucket.tokens \in Nat /\ bucket.tokens <= CAPACITY /\ bucket.last \in Nat
  BY RateLimiterAssumption DEF Bucket
<1>2. elapsed \in Nat /\ elapsed <= MaxClock
  BY <1>1 DEF Since
<1> HIDE DEF elapsed
<1>3. earned \in Nat /\ earned <= MaxClock * REFILL
  <2>1. MaxClock * REFILL = earned + (MaxClock - elapsed) * REFILL
    BY <1>1, <1>2
  <2>2. earned \in Nat /\ (MaxClock - elapsed) * REFILL \in Nat
    <3>1. MaxClock - elapsed \in Nat
      BY <1>1, <1>2
    <3> QED BY <1>1, <1>2, <3>1
  <2> QED BY <2>1, <2>2
<1> HIDE DEF earned
<1>4. all \in Nat /\ SECOND * all <= earned
  BY <1>1, <1>3, Quotient
<1> HIDE DEF all
<1>5. add = Smaller(all, WORD - 1)
  BY DEF Refill, all, earned
<1>6. add > 0
  BY DEF elapsed
<1> HIDE DEF add
<1>7. add \in Nat /\ add <= all
  BY <1>1, <1>4, <1>5 DEF Smaller
<1>8. sum < WORD
  <2>1. SECOND * sum = SECOND * bucket.tokens + SECOND * add
    BY <1>1, <1>7
  <2>2. SECOND * bucket.tokens <= SECOND * CAPACITY /\ SECOND * add <= SECOND * all
    BY <1>1, <1>4, <1>7
  <2>3. /\ SECOND * bucket.tokens \in Nat /\ SECOND * add \in Nat /\ SECOND * CAPACITY \in Nat
        /\ SECOND * all \in Nat /\ MaxClock * REFILL \in Nat /\ SECOND * WORD \in Nat
    BY <1>1, <1>4, <1>7
  <2>4. SECOND * sum < SECOND * WORD
    BY <1>3, <1>4, <2>1, <2>2, <2>3 DEF SumsFit
  <2>5. sum \in Nat
    BY <1>1, <1>7
  <2> HIDE DEF sum
  <2> QED BY <1>1, <2>4, <2>5
<1>9. sum % WORD = sum /\ sum > 0 /\ sum \in Nat
  <2>1. sum \in Nat /\ sum > 0
    BY <1>1, <1>6, <1>7
  <2> HIDE DEF sum
  <2> QED BY <1>1, <1>8, <2>1
<1>10. Refilled(bucket, now) = [tokens |-> Smaller(sum % WORD, CAPACITY), last |-> now]
  BY <1>6 DEF Refilled, add, elapsed
<1> HIDE DEF sum
<1> QED BY <1>1, <1>9, <1>10 DEF Smaller

LEMMA PaidKept == SumsFit /\ ShardInv /\ Paid /\ [Next]_vars => Paid'
<1> SUFFICES ASSUME SumsFit, ShardInv, Paid, [Next]_vars PROVE Paid'
  OBVIOUS
<1>1. CASE Tick
  <2>1. clock' = clock + 1 /\ clock < MaxClock /\ UNCHANGED <<buckets, life>>
    BY <1>1 DEF Tick
  <2>2. clock' <= MaxClock
    BY <2>1, RateLimiterAssumption DEF ShardInv, TypeOK
  <2>3. \A ip \in DOMAIN buckets : buckets'[ip] = buckets[ip] /\ life'[ip] = life[ip]
    BY <2>1
  <2> QED BY <2>1, <2>2, <2>3 DEF Paid
<1>2. ASSUME NEW t \in Threads, NEW ip \in Ips, CallCheck(t, ip) PROVE Paid'
  BY <1>2 DEF CallCheck, Paid
<1>3. ASSUME NEW t \in Threads, Check(t) PROVE Paid'
  <2> DEFINE ip == call[t].ip
             now == call[t].now
             base == Base(t)
             bucket == Found(t)
             entry == Entry(base, ip, now)
             taken == bucket.tokens > 0
             past == IF ip \in DOMAIN base THEN life[ip]
                     ELSE [born |-> now, admitted |-> 0, served |-> clock]
             after == LifeAfter(base, ip, now, taken)
  <2>1. PICK left : buckets' = [i \in DOMAIN base \cup {ip} |->
                                   IF i = ip THEN [bucket EXCEPT !.tokens = left] ELSE base[i]]
    BY <1>3 DEF Check
  <2>2. /\ clock' = clock
        /\ life' = [i \in DOMAIN buckets' |-> IF i = ip THEN after ELSE life[i]]
    BY <1>3 DEF Check
  <2>3. /\ Table(base) /\ DOMAIN base \subseteq DOMAIN buckets
        /\ \A i \in DOMAIN base : base[i] = buckets[i]
    BY BaseHasRoom
  <2>4. /\ ip \in Ips /\ now \in Nat /\ now <= clock /\ clock \in Nat /\ now <= MaxClock
    BY <1>3, RateLimiterAssumption DEF Check, ShardInv, TypeOK, Timely, Paid
  <2>5. bucket = Refilled(entry, now)
    BY DEF Found
  <2>6. entry \in Bucket /\ entry.last <= clock
    BY <2>3, <2>4, RateLimiterAssumption DEF Entry, Bucket, Table, ShardInv, Timely
  <2>7. /\ past \in [born : Nat, admitted : Nat, served : Nat]
        /\ CAPACITY > 0 => entry.last <= past.served
    <3>1. CASE ip \in DOMAIN base
      <4>1. past = life[ip] /\ entry = buckets[ip] /\ ip \in DOMAIN buckets
        BY <2>3, <3>1 DEF Entry
      <4> QED BY <4>1 DEF ShardInv, TypeOK, Paid
    <3>2. CASE ip \notin DOMAIN base
      <4>1. past = [born |-> now, admitted |-> 0, served |-> clock] /\ entry.last = now
        BY <3>2 DEF Entry
      <4> QED BY <2>4, <4>1
    <3> QED BY <3>1, <3>2
  <2>8. after = IF taken THEN [past EXCEPT !.admitted = @ + 1, !.served = clock] ELSE past
    BY DEF LifeAfter
  <2> HIDE DEF base, bucket, entry, ip, now, past, after
  <2>9. bucket \in Bucket /\ bucket.last <= clock
    BY <2>4, <2>5, <2>6, RefillIsPaid
  <2>10. CAPACITY > 0 => bucket.last <= after.served
    <3> SUFFICES ASSUME CAPACITY > 0 PROVE bucket.last <= after.served
      OBVIOUS
    <3>1. CASE taken
      <4>1. after.served = clock
        BY <2>7, <2>8, <3>1
      <4> QED BY <2>9, <4>1
    <3>2. CASE ~ taken
      <4>1. ~ (Refill(Since(now, entry.last)) > 0)
        BY <2>4, <2>5, <2>6, <3>2, RefillShows
      <4>2. bucket = entry
        BY <2>5, <4>1 DEF Refilled
      <4>3. after = past
        BY <2>8, <3>2
      <4> QED BY <2>7, <4>2, <4>3
    <3> QED BY <3>1, <3>2
  <2>11. [bucket EXCEPT !.tokens = left].last = bucket.last
    BY <2>9 DEF Bucket
  <2>12. ASSUME CAPACITY > 0, NEW i \in DOMAIN buckets' PROVE buckets'[i].last <= life'[i].served
    <3>1. CASE i = ip
      BY <2>1, <2>2, <2>10, <2>11, <2>12, <3>1
    <3>2. CASE i # ip
      <4>1. i \in DOMAIN base /\ buckets'[i] = base[i] /\ life'[i] = life[i]
        BY <2>1, <2>2, <3>2
      <4> QED BY <2>3, <2>12, <4>1 DEF Paid
    <3> QED BY <3>1, <3>2
  <2> QED BY <2>2, <2>12 DEF Paid
<1>4. CASE UNCHANGED vars
  BY <1>4 DEF vars, Paid
<1> QED BY <1>1, <1>2, <1>3, <1>4 DEF Next

(* The time of a token gives one, whatever part of it was there before. *)
LEMMA TokenTime ==
    ASSUME SumsFit, CAPACITY > 0, NEW bucket \in Bucket, NEW now \in Nat, now <= MaxClock,
           NEW served \in Nat, bucket.last <= served, (now - served) * REFILL >= SECOND
    PROVE  Refilled(bucket, now).tokens > 0
<1> DEFINE last == bucket.last
           earned == (now - last) * REFILL
           all == earned \div SECOND
<1>1. /\ SECOND \in Nat \ {0} /\ REFILL \in Nat /\ WORD \in Nat /\ CAPACITY \in Nat
      /\ CAPACITY < WORD /\ last \in Nat /\ last <= served
      /\ (now - served) * REFILL >= SECOND
  BY RateLimiterAssumption DEF Bucket
<1> HIDE DEF last
<1>2. now >= served
  BY <1>1
<1>3. earned \in Nat /\ earned >= SECOND
  <2>1. earned = (now - served) * REFILL + (served - last) * REFILL
    BY <1>1
  <2>2. (served - last) * REFILL \in Nat /\ (now - served) * REFILL \in Nat
    <3>1. served - last \in Nat /\ now - served \in Nat
      BY <1>1, <1>2
    <3> QED BY <1>1, <3>1
  <2> QED BY <1>1, <2>1, <2>2
<1>4. Since(now, last) = now - last
  BY <1>1, <1>2 DEF Since
<1>5. Refill(Since(now, last)) = Smaller(all, WORD - 1)
  BY <1>4 DEF Refill
<1> HIDE DEF earned
<1>6. all \in Nat /\ all >= 1
  BY <1>1, <1>3
<1> HIDE DEF all
<1>7. Refill(Since(now, bucket.last)) > 0
  BY <1>1, <1>5, <1>6 DEF Smaller, last
<1> QED BY <1>7, RefillShows

(* Once the time of one token has gone by since a client was last admitted *)
(* its next check is served, however often it asked and was refused in     *)
(* between and whatever happened to its bucket meanwhile, as long as no    *)
(* sum wraps (limiter.rs:104-118).                                         *)
THEOREM TokenServed == SumsFit => (Spec => []TokenTimeIsServed)
<1> SUFFICES ASSUME SumsFit PROVE Spec => []TokenTimeIsServed
  OBVIOUS
<1>1. Init => Paid
  BY RateLimiterAssumption DEF Init, Paid
<1>2. ASSUME ShardInv, Paid, NEW t \in Threads,
             CAPACITY > 0, call[t].ip \in DOMAIN buckets,
             (call[t].now - life[call[t].ip].served) * REFILL >= SECOND
      PROVE  Found(t).tokens > 0
  <2> DEFINE ip == call[t].ip
             now == call[t].now
             base == Base(t)
  <2>1. /\ DOMAIN base \subseteq DOMAIN buckets /\ \A i \in DOMAIN base : base[i] = buckets[i]
    BY <1>2, BaseHasRoom
  <2>2. /\ now \in Nat /\ now <= MaxClock
        /\ buckets[ip] \in Bucket /\ life[ip].served \in Nat
        /\ buckets[ip].last <= life[ip].served
    <3>1. now \in Nat /\ now <= clock /\ clock <= MaxClock /\ clock \in Nat
      BY <1>2 DEF ShardInv, TypeOK, Timely, Paid
    <3> QED BY <1>2, <3>1, RateLimiterAssumption DEF ShardInv, TypeOK, Paid
  <2>3. Found(t) = Refilled(Entry(base, ip, now), now)
    BY DEF Found
  <2> HIDE DEF base
  <2>4. CASE ip \in DOMAIN base
    <3>1. Entry(base, ip, now) = buckets[ip]
      BY <2>1, <2>4 DEF Entry
    <3>2. Refilled(buckets[ip], now).tokens > 0
      BY <1>2, <2>2, TokenTime
    <3> QED BY <2>3, <3>1, <3>2
  <2>5. CASE ip \notin DOMAIN base
    <3> DEFINE new == [tokens |-> CAPACITY, last |-> now]
    <3>1. Entry(base, ip, now) = new
      BY <2>5 DEF Entry
    <3>2. Refill(Since(now, new.last)) = 0
      <4>1. Since(now, new.last) = 0
        BY <2>2 DEF Since
      <4>2. (0 * REFILL) \div SECOND = 0 /\ WORD - 1 \in Nat
        BY RateLimiterAssumption
      <4> QED BY <4>1, <4>2 DEF Refill, Smaller
    <3>3. Refilled(new, now) = new
      BY <3>2 DEF Refilled
    <3> QED BY <1>2, <2>3, <3>1, <3>3
  <2> QED BY <2>4, <2>5
<1>3. ShardInv /\ Paid => TokenTimeIsServed
  BY <1>2 DEF TokenTimeIsServed
<1> QED BY <1>1, <1>3, PaidKept, ShardInvariant, PTL DEF Spec
=============================================================================
