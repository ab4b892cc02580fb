----------------------------- MODULE AlertFeed -----------------------------
(***************************************************************************)
(* What the alert bus promises to those who read it, with no counters, no  *)
(* tasks and no mutex: a bounded history of alerts in which repeats of the *)
(* newest one are only counted, and a feed on which every kept alert is    *)
(* broadcast exactly once, some time after it was kept and in any order.   *)
(***************************************************************************)
EXTENDS Integers, Sequences

CONSTANTS
    Keys,        \* dedup keys
    MAX_ALERTS   \* capacity of the history

VARIABLES
    alerts,      \* the history, oldest first
    kept,        \* how many alerts were ever kept; an alert's no counts them
    pending,     \* numbers of kept alerts that are not broadcast yet
    feed         \* numbers of broadcast alerts, in the order of broadcast

feedVars == <<alerts, kept, pending, feed>>

-----------------------------------------------------------------------------
FeedInit ==
    /\ alerts = <<>>
    /\ kept = 0
    /\ pending = {}
    /\ feed = <<>>

IsRepeat(key) == alerts # <<>> /\ alerts[Len(alerts)].key = key

(* A repeat of the newest alert is counted in it and broadcast to nobody. *)
Repeat(key) ==
    /\ IsRepeat(key)
    /\ alerts' = [alerts EXCEPT ![Len(alerts)].count = @ + 1]
    /\ UNCHANGED <<kept, pending, feed>>

(* Any other alert is kept; the oldest one leaves a full history. *)
Keep(key) ==
    /\ ~ IsRepeat(key)
    /\ LET room == IF Len(alerts) = MAX_ALERTS THEN Tail(alerts) ELSE alerts
       IN  alerts' = Append(room, [key |-> key, count |-> 1, no |-> kept + 1])
    /\ kept' = kept + 1
    /\ pending' = pending \cup {kept + 1}
    /\ UNCHANGED feed

Send(n) ==
    /\ n \in pending
    /\ pending' = pending \ {n}
    /\ feed' = Append(feed, n)
    /\ UNCHANGED <<alerts, kept>>

FeedNext ==
    \/ \E key \in Keys : Repeat(key) \/ Keep(key)
    \/ \E n \in pending : Send(n)

FeedSpec == FeedInit /\ [][FeedNext]_feedVars
=============================================================================
