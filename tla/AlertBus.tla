------------------------------ MODULE AlertBus ------------------------------
(***************************************************************************)
(* The alert bus (src/bus.rs): two atomic counters, and behind one mutex   *)
(* the alert history with the key of the last kept alert.  Request tasks   *)
(* call count_request and then, at most once, publish; readers call stats. *)
(* The counters are bumped OUTSIDE the mutex and an alert is broadcast     *)
(* after the mutex is released, so each call is several steps.             *)
(*                                                                         *)
(* The counters use relaxed atomics.  The mutex orders every bump that     *)
(* these properties compare (a task bumps blocked after it left the mutex  *)
(* in count_request), so interleaving the steps loses no behaviour of them.*)
(***************************************************************************)
EXTENDS Integers, FiniteSets, SequencesExt

CONSTANTS
    Workers,      \* tasks that serve requests
    Readers,      \* tasks that call stats
    Keys,         \* dedup keys: alerts that differ in more than their time
    NoKey,        \* last_dedup_key == None
    NoOne,        \* the mutex is free
    MAX_ALERTS,   \* capacity of the history
    MaxRequests   \* bound on the requests served

ASSUME AlertBusAssumption ==
    /\ IsFiniteSet(Workers)
    /\ NoKey \notin Keys
    /\ NoOne \notin Readers
    /\ MAX_ALERTS \in Nat \ {0}
    /\ MaxRequests \in Nat

VARIABLES
    total,           \* total_requests
    blocked,         \* blocked
    alerts,          \* Inner.alerts, oldest first
    last_dedup_key,  \* Inner.last_dedup_key
    holder,          \* the reader that holds the mutex over several steps
    at,              \* at[w]: where the task w is in its calls of the bus
    item,            \* item[w]: the alert w publishes
    reading,         \* reading[r]: where the reader r is in stats
    seen,            \* seen[r]: total_requests as r loaded it
    snap,            \* snap[r]: the last Stats r returned
    feed,            \* history: broadcast alerts in the order of their sends
    kept,            \* history: number of alerts publish kept (returned true)
    tally            \* history: the alert each blocked request was counted in, in order

counters == <<total, blocked>>
history == <<alerts, last_dedup_key, kept, tally>>
readers == <<holder, reading, seen, snap>>
vars == <<counters, history, readers, at, item, feed>>

-----------------------------------------------------------------------------
(* An alert of the history.  no tells alerts apart that have equal keys.   *)
Alerts == [key : Keys, count : Nat, no : Nat]

NoItem == [key |-> NoKey, no |-> 0]

TypeOK ==
    /\ total \in Nat
    /\ blocked \in Nat
    /\ alerts \in Seq(Alerts)
    /\ last_dedup_key \in Keys \cup {NoKey}
    /\ holder \in Readers \cup {NoOne}
    /\ at \in [Workers -> {"out", "counting", "counted", "publishing", "sending"}]
    /\ item \in [Workers -> [key : Keys \cup {NoKey}, no : Nat]]
    /\ \A w \in Workers : at[w] = "publishing" => item[w].key \in Keys
    /\ reading \in [Readers -> {"out", "locked", "loaded"}]
    /\ seen \in [Readers -> Nat]
    /\ snap \in [Readers -> [total : Nat, blocked : Nat]]
    /\ feed \in Seq(Nat)
    /\ kept \in Nat
    /\ tally \in Seq(Nat)

MutexFree == holder = NoOne

-----------------------------------------------------------------------------
Init ==
    /\ total = 0
    /\ blocked = 0
    /\ alerts = <<>>
    /\ last_dedup_key = NoKey
    /\ holder = NoOne
    /\ at = [w \in Workers |-> "out"]
    /\ item = [w \in Workers |-> NoItem]
    /\ reading = [r \in Readers |-> "out"]
    /\ seen = [r \in Readers |-> 0]
    /\ snap = [r \in Readers |-> [total |-> 0, blocked |-> 0]]
    /\ feed = <<>>
    /\ kept = 0
    /\ tally = <<>>

Goto(w, from, to) ==
    /\ at[w] = from
    /\ at' = [at EXCEPT ![w] = to]

(* count_request: the counter first, then the window behind the mutex. *)
CountAdd(w) ==
    /\ total < MaxRequests
    /\ Goto(w, "out", "counting")
    /\ total' = total + 1
    /\ UNCHANGED <<blocked, history, readers, item, feed>>

CountPush(w) ==
    /\ MutexFree
    /\ Goto(w, "counting", "counted")
    /\ UNCHANGED <<counters, history, readers, item, feed>>

(* The request is not blocked, or its task is dropped: no alert. *)
Leave(w) ==
    /\ Goto(w, "counted", "out")
    /\ UNCHANGED <<counters, history, readers, item, feed>>

(* publish: the counter first, *)
PublishAdd(w, key) ==
    /\ Goto(w, "counted", "publishing")
    /\ blocked' = blocked + 1
    /\ item' = [item EXCEPT ![w] = [key |-> key, no |-> 0]]
    /\ UNCHANGED <<total, history, readers, feed>>

(* Mutants of PublishMerge: a repeat is dropped; a repeat is broadcast. *)
PublishMergeUncounted(w) ==
    /\ MutexFree
    /\ item[w].key = last_dedup_key
    /\ Goto(w, "publishing", "out")
    /\ item' = [item EXCEPT ![w] = NoItem]
    /\ tally' = Append(tally, kept)
    /\ UNCHANGED <<counters, alerts, last_dedup_key, kept, readers, feed>>

PublishMergeSends(w) ==
    /\ MutexFree
    /\ item[w].key = last_dedup_key
    /\ Goto(w, "publishing", "sending")
    /\ alerts' = [alerts EXCEPT ![Len(alerts)].count = @ + 1]
    /\ item' = [item EXCEPT ![w].no = kept]
    /\ tally' = Append(tally, kept)
    /\ UNCHANGED <<counters, last_dedup_key, kept, readers, feed>>

(* then, behind the mutex, the alert is merged into the last one kept ... *)
PublishMerge(w) ==
    /\ MutexFree
    /\ item[w].key = last_dedup_key
    /\ Goto(w, "publishing", "out")
    /\ alerts' = IF alerts = <<>> THEN alerts
                 ELSE [alerts EXCEPT ![Len(alerts)].count = @ + 1]
    /\ item' = [item EXCEPT ![w] = NoItem]
    /\ tally' = Append(tally, kept)
    /\ UNCHANGED <<counters, last_dedup_key, kept, readers, feed>>

(* ... or kept, *)
PushAlert(s, alert) ==
    LET pushed == Append(s, alert)
    IN  IF Len(pushed) > MAX_ALERTS THEN Tail(pushed) ELSE pushed

PublishKeep(w) ==
    LET key == item[w].key
    IN  /\ MutexFree
        /\ key # last_dedup_key
        /\ Goto(w, "publishing", "sending")
        /\ last_dedup_key' = key
        /\ alerts' = PushAlert(alerts, [key |-> key, count |-> 1, no |-> kept + 1])
        /\ kept' = kept + 1
        /\ tally' = Append(tally, kept + 1)
        /\ item' = [item EXCEPT ![w].no = kept + 1]
        /\ UNCHANGED <<counters, readers, feed>>

(* and broadcast once the mutex is free again. *)
PublishSend(w) ==
    /\ Goto(w, "sending", "out")
    /\ feed' = Append(feed, item[w].no)
    /\ item' = [item EXCEPT ![w] = NoItem]
    /\ UNCHANGED <<counters, history, readers>>

-----------------------------------------------------------------------------
(* Mutant of StatsLock: the loads need no lock. *)
StatsLockFree(r) ==
    /\ MutexFree
    /\ reading[r] = "out"
    /\ reading' = [reading EXCEPT ![r] = "locked"]
    /\ UNCHANGED <<counters, history, holder, seen, snap, at, item, feed>>

(* stats holds the mutex over both loads: total_requests, then blocked. *)
StatsLock(r) ==
    /\ MutexFree
    /\ reading[r] = "out"
    /\ holder' = r
    /\ reading' = [reading EXCEPT ![r] = "locked"]
    /\ UNCHANGED <<counters, history, seen, snap, at, item, feed>>

StatsLoadTotal(r) ==
    /\ reading[r] = "locked"
    /\ reading' = [reading EXCEPT ![r] = "loaded"]
    /\ seen' = [seen EXCEPT ![r] = total]
    /\ UNCHANGED <<counters, history, holder, snap, at, item, feed>>

StatsLoadBlocked(r) ==
    /\ reading[r] = "loaded"
    /\ reading' = [reading EXCEPT ![r] = "out"]
    /\ snap' = [snap EXCEPT ![r] = [total |-> seen[r], blocked |-> blocked]]
    /\ holder' = NoOne
    /\ UNCHANGED <<counters, history, seen, at, item, feed>>

-----------------------------------------------------------------------------
Next ==
    \/ \E w \in Workers :
        \/ CountAdd(w) \/ CountPush(w) \/ Leave(w)
        \/ \E key \in Keys : PublishAdd(w, key)
        \/ PublishMerge(w) \/ PublishKeep(w) \/ PublishSend(w)
    \/ \E r \in Readers : StatsLock(r) \/ StatsLoadTotal(r) \/ StatsLoadBlocked(r)

Spec == Init /\ [][Next]_vars

-----------------------------------------------------------------------------
InPhase(p) == {w \in Workers : at[w] = p}

(***************************************************************************)
(* A panel never shows more blocked requests than requests: a Stats that   *)
(* stats (bus.rs:213) returns has blocked <= total_requests, although both *)
(* counters are bumped outside the mutex and are loaded one after the      *)
(* other while requests go on.                                             *)
(***************************************************************************)
StatsConsistent == \A r \in Readers : snap[r].blocked <= snap[r].total

(***************************************************************************)
(* Why: a request still on its way to publish is paid for in total, and a  *)
(* reader between its loads has already seen every request that can        *)
(* publish before it loads blocked, for the others wait for the mutex.     *)
(***************************************************************************)
CountsCovered ==
    /\ blocked + Cardinality(InPhase("counted")) + Cardinality(InPhase("counting")) <= total
    /\ \A r \in Readers :
        /\ reading[r] # "out" <=> holder = r
        /\ reading[r] = "loaded" => blocked + Cardinality(InPhase("counted")) <= seen[r]

CountInv == TypeOK /\ CountsCovered /\ StatsConsistent

(***************************************************************************)
(* Deduplication (bus.rs:167): the remembered key is the key of the newest *)
(* alert, so a repeat is merged into its own alert and into no other; no   *)
(* two neighbours of the history are repeats; the history keeps its bound. *)
(***************************************************************************)
Deduplicated ==
    /\ Len(alerts) <= MAX_ALERTS
    /\ alerts = <<>> <=> last_dedup_key = NoKey
    /\ alerts # <<>> => alerts[Len(alerts)].key = last_dedup_key
    /\ \A i \in 1..Len(alerts) - 1 : alerts[i].key # alerts[i + 1].key

(***************************************************************************)
(* Every blocked request is accounted for (bus.rs:167): its task is still  *)
(* between the counter and the history, or it was counted in one alert;    *)
(* and the count of an alert in the history is how many were counted in    *)
(* it, so no merge goes to another alert than the one it was compared      *)
(* with, however the history shifts, and none is lost.                     *)
(***************************************************************************)
CountedIn(no, counted) == {k \in DOMAIN counted : counted[k] = no}

EveryBlockAccounted ==
    /\ blocked = Len(tally) + Cardinality(InPhase("publishing"))
    /\ \A i \in DOMAIN alerts : alerts[i].count = Cardinality(CountedIn(alerts[i].no, tally))

(***************************************************************************)
(* The bus implements AlertFeed (bus.rs:167): between its counters and its *)
(* critical section, and between that and its broadcast, any other task    *)
(* may run, but every kept alert is broadcast exactly once, no repeat ever *)
(* is, and readers of the history see what the plain feed shows.  An alert *)
(* is pending from the critical section that kept it to its send.          *)
(***************************************************************************)
Feed == INSTANCE AlertFeed WITH
            alerts <- alerts,
            kept <- kept,
            pending <- {item[w].no : w \in InPhase("sending")},
            feed <- feed

ImplementsFeed == Feed!FeedSpec
=============================================================================
