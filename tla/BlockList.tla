----------------------------- MODULE BlockList ------------------------------
(***************************************************************************)
(* The manual block list (src/block.rs) and the bounds its REST endpoints  *)
(* put on a request (src/api.rs).  The list is a map from address to the   *)
(* instant its ban ends, behind one mutex.  Every operation that needs the *)
(* time reads it BEFORE it takes the mutex, so the value it works with may *)
(* be arbitrarily old once it holds the mutex, and operations may enter    *)
(* the mutex in another order than they read the clock.                    *)
(***************************************************************************)
EXTENDS Naturals, Functions

CONSTANTS
    Threads,          \* tasks that call the list concurrently
    Ips,              \* canonical addresses
    NoIp,             \* what an unparsable text stands for
    Texts,            \* address texts callers pass
    Canon,            \* Canon[text]: the canonical address, or NoIp
    Durations,        \* ban lengths operators ask for
    MaxBlock,         \* MAX_BLOCK_SECS
    CleanupInterval,  \* CLEANUP_INTERVAL
    MaxInstant        \* the last instant the clock type can represent

ASSUME BlockListAssumption ==
    /\ NoIp \notin Ips
    /\ Canon \in [Texts -> Ips \cup {NoIp}]
    /\ Durations \subseteq Nat
    /\ MaxBlock \in Nat
    /\ CleanupInterval \in Nat
    /\ MaxInstant \in Nat

VARIABLES
    clock,         \* Instant::now()
    map,           \* Inner.map: address -> end of its ban
    last_cleanup,  \* Inner.last_cleanup
    call,          \* call[t]: the operation t is in, with what it captured
    ret,           \* ret[t]: what the last operation of t returned
    since          \* history: since[ip] is when the entry of ip was asked for

vars == <<clock, map, last_cleanup, call, ret, since>>

-----------------------------------------------------------------------------
Instants == 0..MaxInstant

NoCall == [op |-> "none", ip |-> NoIp, now |-> 0, at |-> 0]

Calls == [op  : {"none", "block", "unblock", "is_blocked", "list"},
          ip  : Ips \cup {NoIp},
          now : Instants,    \* the clock value read before the mutex
          at  : Instants]    \* block: now + duration

Answer(a) == [is |-> a, ips |-> {}]

Answers == [is  : {"none", "ok", "error", "absent", "blocked", "allowed", "listed"},
            ips : SUBSET Ips]

TypeOK ==
    /\ clock \in Instants
    /\ DOMAIN map \subseteq Ips
    /\ map \in [DOMAIN map -> Instants]
    /\ last_cleanup \in Instants
    /\ call \in [Threads -> Calls]
    /\ ret \in [Threads -> Answers]
    /\ since \in [Ips -> Instants]

(* What the next request will meet: ip has an entry that is not over. *)
InForce(ip) == ip \in DOMAIN map /\ map[ip] > clock

-----------------------------------------------------------------------------
Insert(m, ip, at) ==
    [i \in DOMAIN m \cup {ip} |-> IF i = ip THEN at ELSE m[i]]

Remove(m, ip) == Restrict(m, DOMAIN m \ {ip})

(* Mutants of Retain: it keeps everything; its comparison is turned round. *)
RetainAll(m, now) == m

RetainExpired(m, now) == Restrict(m, {ip \in DOMAIN m : m[ip] <= now})

(* retain(|_, at| *at > now) *)
Retain(m, now) == Restrict(m, {ip \in DOMAIN m : m[ip] > now})

(* duration_since saturates at zero when now is the older of the two. *)
SweepDue(now) == now >= last_cleanup /\ now - last_cleanup >= CleanupInterval

(* Mutant of Swept: the clean-up forgets to look at the end of a ban. *)
SweptClean(now) == IF SweepDue(now) THEN Restrict(map, {}) ELSE map

(* maybe_sweep: the map after the time-gated clean-up. *)
Swept(now) == IF SweepDue(now) THEN Retain(map, now) ELSE map

(* Mutant of Hit: any entry counts, whether its ban is over or not. *)
HitEntry(m, ip, now) == ip \in DOMAIN m

(* Some(&at) if at > now *)
Hit(m, ip, now) == ip \in DOMAIN m /\ m[ip] > now

-----------------------------------------------------------------------------
Init ==
    /\ clock = 0
    /\ map = [ip \in {} |-> 0]
    /\ last_cleanup = 0
    /\ call = [t \in Threads |-> NoCall]
    /\ ret = [t \in Threads |-> Answer("none")]
    /\ since = [ip \in Ips |-> 0]

Idle(t) == call[t].op = "none"

Enter(t, op, ip, at) ==
    /\ call' = [call EXCEPT ![t] = [op |-> op, ip |-> ip, now |-> clock, at |-> at]]
    /\ ret' = [ret EXCEPT ![t] = Answer("none")]
    /\ UNCHANGED <<clock, map, last_cleanup, since>>

Return(t, answer) ==
    /\ call' = [call EXCEPT ![t] = NoCall]
    /\ ret' = [ret EXCEPT ![t] = answer]

(* Before the mutex: validate, normalise the address, read the clock. *)
CallBlock(t, text, d) ==
    /\ Idle(t)
    /\ d \in 1..MaxBlock
    /\ Canon[text] # NoIp
    /\ clock + d <= MaxInstant
    /\ Enter(t, "block", Canon[text], clock + d)

RefuseBlock(t, text, d) ==
    /\ Idle(t)
    /\ \/ d \notin 1..MaxBlock
       \/ Canon[text] = NoIp
       \/ clock + d > MaxInstant
    /\ Return(t, Answer("error"))
    /\ UNCHANGED <<clock, map, last_cleanup, since>>

CallUnblock(t, text) ==
    /\ Idle(t)
    /\ Canon[text] # NoIp
    /\ Enter(t, "unblock", Canon[text], 0)

CallIsBlocked(t, text) ==
    /\ Idle(t)
    /\ Canon[text] # NoIp
    /\ Enter(t, "is_blocked", Canon[text], 0)

(* An unparsable address is an error for unblock and not blocked for is_blocked. *)
RefuseText(t, text) ==
    /\ Idle(t)
    /\ Canon[text] = NoIp
    /\ \E a \in {"error", "allowed"} : Return(t, Answer(a))
    /\ UNCHANGED <<clock, map, last_cleanup, since>>

CallList(t) ==
    /\ Idle(t)
    /\ Enter(t, "list", NoIp, 0)

-----------------------------------------------------------------------------
(* Inside the mutex: one step per operation. *)
Block(t) ==
    /\ call[t].op = "block"
    /\ map' = Insert(map, call[t].ip, call[t].at)
    /\ since' = [since EXCEPT ![call[t].ip] = call[t].now]
    /\ Return(t, Answer("ok"))
    /\ UNCHANGED <<clock, last_cleanup>>

Unblock(t) ==
    /\ call[t].op = "unblock"
    /\ map' = Remove(map, call[t].ip)
    /\ Return(t, Answer(IF call[t].ip \in DOMAIN map THEN "ok" ELSE "absent"))
    /\ UNCHANGED <<clock, last_cleanup, since>>

IsBlocked(t) ==
    LET ip  == call[t].ip
        now == call[t].now
        m   == Swept(now)
        hit == Hit(m, ip, now)
    IN  /\ call[t].op = "is_blocked"
        /\ map' = IF hit THEN m ELSE Remove(m, ip)
        /\ last_cleanup' = IF SweepDue(now) THEN now ELSE last_cleanup
        /\ Return(t, Answer(IF hit THEN "blocked" ELSE "allowed"))
        /\ UNCHANGED <<clock, since>>

List(t) ==
    /\ call[t].op = "list"
    /\ map' = Retain(map, call[t].now)
    /\ last_cleanup' = call[t].now
    /\ Return(t, [is |-> "listed", ips |-> DOMAIN map'])
    /\ UNCHANGED <<clock, since>>

Tick ==
    /\ clock < MaxInstant
    /\ clock' = clock + 1
    /\ UNCHANGED <<map, last_cleanup, call, ret, since>>

Next ==
    \/ Tick
    \/ \E t \in Threads :
        \/ \E text \in Texts, d \in Durations : CallBlock(t, text, d) \/ RefuseBlock(t, text, d)
        \/ \E text \in Texts : CallUnblock(t, text) \/ CallIsBlocked(t, text) \/ RefuseText(t, text)
        \/ CallList(t)
        \/ Block(t) \/ Unblock(t) \/ IsBlocked(t) \/ List(t)

Spec == Init /\ [][Next]_vars

-----------------------------------------------------------------------------
(***************************************************************************)
(* Times and entries are honest, whatever order tasks enter the mutex in:  *)
(* no captured time and no clean-up time lies in the future, and every     *)
(* entry or pending entry is a ban asked for earlier, of a length the API  *)
(* admits.  (block.rs:67-131 with api.rs:204)                              *)
(***************************************************************************)
LegalBan(start, end, at) == start <= at /\ start < end /\ end <= start + MaxBlock

HonestTimes ==
    /\ last_cleanup <= clock
    /\ \A t \in Threads :
        /\ call[t].now <= clock
        /\ call[t].op \in {"block", "unblock", "is_blocked"} => call[t].ip \in Ips
        /\ call[t].op = "block" => LegalBan(call[t].now, call[t].at, clock)
    /\ \A ip \in DOMAIN map : LegalBan(since[ip], map[ip], clock)

Inv == TypeOK /\ HonestTimes

-----------------------------------------------------------------------------
(* The operation t completes in this step, inside the mutex. *)
Completes(t, op) == call[t].op = op /\ call'[t].op = "none"

(* Some instant of the call of t so far lies inside the ban of ip's entry. *)
UnderBanDuringCall(t, ip) ==
    /\ ip \in DOMAIN map
    /\ \E i \in Instants : /\ call[t].now <= i /\ i <= clock
                           /\ since[ip] <= i /\ i < map[ip]

AllowedStep ==
    \A t \in Threads :
        (Completes(t, "is_blocked") /\ ret'[t].is = "allowed") => ~InForce(call[t].ip)

RefusedStep ==
    \A t \in Threads :
        (Completes(t, "is_blocked") /\ ret'[t].is = "blocked") => UnderBanDuringCall(t, call[t].ip)

ListedStep ==
    \A t \in Threads :
        Completes(t, "list") =>
            \A ip \in Ips : /\ InForce(ip) => ip \in ret'[t].ips
                            /\ ip \in ret'[t].ips => UnderBanDuringCall(t, ip)

DropStep ==
    \A ip \in Ips :
        (InForce(ip) /\ ip \notin DOMAIN map') =>
            \E t \in Threads : Completes(t, "unblock") /\ call[t].ip = ip

(***************************************************************************)
(* No request passes a ban.  When is_blocked (block.rs:97) lets an address *)
(* through, no ban on it is in force at that very moment, although the     *)
(* time it compared with was read before other tasks changed the map.      *)
(***************************************************************************)
NoneAllowedWhileBanned == [][AllowedStep]_vars

(***************************************************************************)
(* No address is refused without a ban.  When is_blocked refuses an        *)
(* address, some instant between the call and its answer lies inside a ban *)
(* an operator asked for: the entry found was requested before the answer  *)
(* and ends after the call began.                                          *)
(***************************************************************************)
RefusedOnlyForABan == [][RefusedStep]_vars

(***************************************************************************)
(* The listing (block.rs:117) misses no ban in force, and every address it *)
(* shows was under a ban at some instant during the call.                  *)
(***************************************************************************)
ListingIsAccurate == [][ListedStep]_vars

(***************************************************************************)
(* Clean-up only collects: an entry leaves the map when an operator lifts  *)
(* it, or when its ban is over.  Neither the sweep of is_blocked, nor the  *)
(* removal of the queried entry, nor the listing drops a ban in force.     *)
(***************************************************************************)
CleanupKeepsBans == [][DropStep]_vars

-----------------------------------------------------------------------------
(* The bans in force and the requests under way, as the abstract table     *)
(* sees them.                                                              *)
until == [ip \in Ips |-> IF InForce(ip) THEN map[ip] ELSE 0]

request ==
    [t \in Threads |->
        CASE call[t].op = "block"   -> [op |-> "ban", ip |-> call[t].ip, end |-> call[t].at]
          [] call[t].op = "unblock" -> [op |-> "lift", ip |-> call[t].ip, end |-> 0]
          [] OTHER                  -> [op |-> "none", ip |-> NoIp, end |-> 0]]

Bans == INSTANCE BanTable
            WITH Operators <- Threads, clock <- clock, until <- until, request <- request

(***************************************************************************)
(* The list with its sweeps, lazy removals and stale clock readings        *)
(* implements the plain table of bans: a ban lasts exactly from the moment *)
(* its request holds the mutex (block.rs:73) to the instant counted when   *)
(* it was asked for, or to another operator's request on that address.     *)
(***************************************************************************)
ImplementsBanTable == Bans!Spec
=============================================================================
