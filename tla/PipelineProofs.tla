--------------------------- MODULE PipelineProofs ----------------------------
(***************************************************************************)
(* Theorems about AlertBus and RequestPipeline, for any tasks, readers and *)
(* alerts and any capacity of the audit channel.                           *)
(*                                                                         *)
(* Of the bus: the counters of a Stats are consistent (CountInv is         *)
(* inductive), the history deduplicates and keeps its bound (Deduplicated  *)
(* is inductive relative to TypeOK), and the bus implements AlertFeed      *)
(* (with SendersApart as the third invariant).                             *)
(*                                                                         *)
(* The pipeline drives the bus and does nothing else to it, so what holds  *)
(* of the bus alone holds of it here; on top of that the audit trail is    *)
(* complete and the counters match what clients saw.  A kept alert is a    *)
(* token that is in one place at a time: each step moves at most one       *)
(* token, and Conserved says that such a move loses none.                  *)
(***************************************************************************)
EXTENDS RequestPipeline, FiniteSetTheorems, SequenceTheorems, TLAPS

-----------------------------------------------------------------------------
(* Part 1: the alert bus. *)

LEMMA PhaseFinite ==
    ASSUME NEW p
    PROVE  IsFiniteSet(InPhase(p)) /\ Cardinality(InPhase(p)) \in Nat
<1>1. InPhase(p) \subseteq Workers
  BY DEF InPhase
<1>2. IsFiniteSet(InPhase(p))
  BY <1>1, FS_Subset, AlertBusAssumption
<1> QED BY <1>2, FS_CardinalityType

(* A task moves from one phase to another: the sizes of the two follow. *)
LEMMA GotoCounts ==
    ASSUME TypeOK, NEW w \in Workers,
           NEW from \in {"out", "counting", "counted", "publishing", "sending"},
           NEW to \in {"out", "counting", "counted", "publishing", "sending"},
           from # to, Goto(w, from, to), NEW p
    PROVE  Cardinality(InPhase(p))' = IF p = from THEN Cardinality(InPhase(p)) - 1
                                      ELSE IF p = to THEN Cardinality(InPhase(p)) + 1
                                      ELSE Cardinality(InPhase(p))
<1>1. /\ at[w] = from
      /\ at'[w] = to
      /\ \A u \in Workers \ {w} : at'[u] = at[u]
  BY DEF Goto, TypeOK
<1>2. CASE p = from
  <2>1. InPhase(p)' = InPhase(p) \ {w} /\ w \in InPhase(p)
    BY <1>1, <1>2 DEF InPhase
  <2> QED BY <1>2, <2>1, PhaseFinite, FS_RemoveElement
<1>3. CASE p = to
  <2>1. InPhase(p)' = InPhase(p) \cup {w} /\ w \notin InPhase(p)
    BY <1>1, <1>3 DEF InPhase
  <2> QED BY <1>3, <2>1, PhaseFinite, FS_AddElement
<1>4. CASE p # from /\ p # to
  <2>1. InPhase(p)' = InPhase(p)
    BY <1>1, <1>4 DEF InPhase
  <2> QED BY <1>4, <2>1
<1> QED BY <1>2, <1>3, <1>4

-----------------------------------------------------------------------------
LEMMA InitTypeOK == Init => TypeOK
<1>1. Init => <<>> \in Seq(Alerts) /\ <<>> \in Seq(Nat)
  OBVIOUS
<1> QED BY <1>1 DEF Init, TypeOK, NoItem

LEMMA PushType ==
    ASSUME TypeOK, NEW alert \in Alerts
    PROVE  PushAlert(alerts, alert) \in Seq(Alerts)
<1> DEFINE pushed == Append(alerts, alert)
<1>1. pushed \in Seq(Alerts) /\ Len(pushed) = Len(alerts) + 1 /\ Len(alerts) \in Nat
  BY DEF TypeOK
<1>2. pushed # <<>>
  BY <1>1
<1>3. Tail(pushed) \in Seq(Alerts)
  BY <1>1, <1>2
<1> QED BY <1>1, <1>3 DEF PushAlert

(* Types are kept by every step. *)
LEMMA NextTypeOK == TypeOK /\ [Next]_vars => TypeOK'
<1> SUFFICES ASSUME TypeOK, [Next]_vars PROVE TypeOK'
  OBVIOUS
<1> USE DEF counters, history, readers
<1>1. ASSUME NEW w \in Workers, CountAdd(w) PROVE TypeOK'
  BY <1>1 DEF CountAdd, Goto, TypeOK
<1>2. ASSUME NEW w \in Workers, CountPush(w) PROVE TypeOK'
  BY <1>2 DEF CountPush, Goto, TypeOK
<1>3. ASSUME NEW w \in Workers, Leave(w) PROVE TypeOK'
  BY <1>3 DEF Leave, Goto, TypeOK
<1>4. ASSUME NEW w \in Workers, NEW key \in Keys, PublishAdd(w, key) PROVE TypeOK'
  BY <1>4 DEF PublishAdd, Goto, TypeOK
<1>5. ASSUME NEW w \in Workers, PublishMerge(w) PROVE TypeOK'
  <2>1. alerts' \in Seq(Alerts)
    <3>1. CASE alerts = <<>>
      BY <1>5, <3>1 DEF PublishMerge, TypeOK
    <3>2. CASE alerts # <<>>
      <4>1. /\ alerts \in [1..Len(alerts) -> Alerts] /\ Len(alerts) \in 1..Len(alerts)
        BY <3>2 DEF TypeOK
      <4>2. [alerts[Len(alerts)] EXCEPT !.count = @ + 1] \in Alerts
        BY <4>1 DEF Alerts
      <4>3. alerts' = [alerts EXCEPT ![Len(alerts)] = [alerts[Len(alerts)] EXCEPT !.count = @ + 1]]
        BY <1>5, <3>2, <4>1 DEF PublishMerge, Alerts
      <4>4. alerts' \in [1..Len(alerts) -> Alerts]
        BY <4>1, <4>2, <4>3
      <4>5. Len(alerts) \in Nat
        BY DEF TypeOK
      <4> QED BY <4>4, <4>5
    <3> QED BY <3>1, <3>2
  <2>2. tally' \in Seq(Nat)
    BY <1>5 DEF PublishMerge, TypeOK
  <2> QED BY <1>5, <2>1, <2>2 DEF PublishMerge, Goto, TypeOK, NoItem
<1>6. ASSUME NEW w \in Workers, PublishKeep(w) PROVE TypeOK'
  <2> DEFINE alert == [key |-> item[w].key, count |-> 1, no |-> kept + 1]
  <2>1. item[w].key \in Keys
    BY <1>6 DEF PublishKeep, Goto, TypeOK
  <2>2. alert \in Alerts
    BY <2>1 DEF Alerts, TypeOK
  <2>3. alerts' \in Seq(Alerts)
    BY <1>6, <2>2, PushType DEF PublishKeep
  <2>4. tally' \in Seq(Nat)
    BY <1>6 DEF PublishKeep, TypeOK
  <2>5. item' \in [Workers -> [key : Keys \cup {NoKey}, no : Nat]] /\ item'[w].key = item[w].key
    <3>1. item' = [item EXCEPT ![w].no = kept + 1]
      BY <1>6 DEF PublishKeep
    <3> DEFINE marked == [item[w] EXCEPT !.no = kept + 1]
    <3>2. marked \in [key : Keys \cup {NoKey}, no : Nat] /\ marked.key = item[w].key
      <4>1. item[w] \in [key : Keys \cup {NoKey}, no : Nat] /\ kept + 1 \in Nat
        BY DEF TypeOK
      <4> QED BY <4>1
    <3>3. item' = [item EXCEPT ![w] = marked] /\ item \in [Workers -> [key : Keys \cup {NoKey}, no : Nat]]
      BY <3>1 DEF TypeOK
    <3> HIDE DEF marked
    <3> QED BY <3>2, <3>3
  <2>6. ASSUME NEW u \in Workers, at'[u] = "publishing" PROVE item'[u].key \in Keys
    BY <1>6, <2>6 DEF PublishKeep, Goto, TypeOK
  <2>7. kept' \in Nat /\ last_dedup_key' \in Keys
    BY <1>6, <2>1 DEF PublishKeep, TypeOK
  <2>8. at' \in [Workers -> {"out", "counting", "counted", "publishing", "sending"}]
    BY <1>6 DEF PublishKeep, Goto, TypeOK
  <2>9. UNCHANGED <<counters, readers, feed>>
    BY <1>6 DEF PublishKeep
  <2> QED BY <2>3, <2>4, <2>5, <2>6, <2>7, <2>8, <2>9 DEF TypeOK
<1>7. ASSUME NEW w \in Workers, PublishSend(w) PROVE TypeOK'
  BY <1>7 DEF PublishSend, Goto, TypeOK, NoItem
<1>8. ASSUME NEW r \in Readers, StatsLock(r) PROVE TypeOK'
  BY <1>8 DEF StatsLock, TypeOK
<1>9. ASSUME NEW r \in Readers, StatsLoadTotal(r) PROVE TypeOK'
  BY <1>9 DEF StatsLoadTotal, TypeOK
<1>10. ASSUME NEW r \in Readers, StatsLoadBlocked(r) PROVE TypeOK'
  BY <1>10 DEF StatsLoadBlocked, TypeOK
<1>11. CASE UNCHANGED vars
  BY <1>11 DEF vars, TypeOK
<1> QED BY <1>1, <1>2, <1>3, <1>4, <1>5, <1>6, <1>7, <1>8, <1>9, <1>10, <1>11 DEF Next

(* The type invariant of the bus. *)
THEOREM TypeCorrect == Spec => []TypeOK
BY InitTypeOK, NextTypeOK, PTL DEF Spec

-----------------------------------------------------------------------------
LEMMA InitCountInv == Init => CountInv
<1> SUFFICES ASSUME Init PROVE CountsCovered /\ StatsConsistent
  BY InitTypeOK DEF CountInv
<1>1. InPhase("counted") = {} /\ InPhase("counting") = {}
  BY DEF Init, InPhase
<1>2. Cardinality(InPhase("counted")) = 0 /\ Cardinality(InPhase("counting")) = 0
  BY <1>1, FS_EmptySet
<1> QED BY <1>2, AlertBusAssumption DEF Init, CountsCovered, StatsConsistent

(***************************************************************************)
(* Every step keeps CountInv.  The step that matters is CountPush: it      *)
(* adds a request that may publish, and no reader is between its loads,    *)
(* because the reader would hold the mutex.                                *)
(***************************************************************************)
LEMMA NextCountInv == CountInv /\ [Next]_vars => CountInv'
<1> SUFFICES ASSUME CountInv, [Next]_vars PROVE CountsCovered' /\ StatsConsistent'
  BY NextTypeOK DEF CountInv
<1> USE DEF counters, history, readers
<1> DEFINE counting == Cardinality(InPhase("counting"))
           counted == Cardinality(InPhase("counted"))
<1>1. /\ counting \in Nat /\ counted \in Nat /\ total \in Nat /\ blocked \in Nat
      /\ \A r \in Readers : seen[r] \in Nat
  BY PhaseFinite DEF CountInv, TypeOK
<1>2. /\ blocked + counted + counting <= total
      /\ \A r \in Readers : reading[r] # "out" <=> holder = r
      /\ \A r \in Readers : reading[r] = "loaded" => blocked + counted <= seen[r]
  BY DEF CountInv, CountsCovered
<1>0. counting' \in Nat /\ counted' \in Nat /\ blocked' \in Nat
  <2>1. InPhase("counting")' \subseteq Workers /\ InPhase("counted")' \subseteq Workers
    BY DEF InPhase
  <2>2. IsFiniteSet(InPhase("counting")') /\ IsFiniteSet(InPhase("counted")')
    BY <2>1, FS_Subset, AlertBusAssumption
  <2>3. Cardinality(InPhase("counting")') \in Nat /\ Cardinality(InPhase("counted")') \in Nat
    BY <2>2, FS_CardinalityType
  <2> QED BY <2>3, NextTypeOK DEF CountInv, TypeOK
<1>3. ASSUME counting' + counted' + blocked' <= total',
             counted' + blocked' <= counted + blocked \/ MutexFree,
             UNCHANGED readers
      PROVE  CountsCovered' /\ StatsConsistent'
  <2>1. ASSUME NEW r \in Readers, reading'[r] = "loaded"
        PROVE  blocked' + counted' <= seen'[r]
    <3>1. holder = r /\ ~MutexFree
      BY <1>2, <1>3, <2>1, AlertBusAssumption DEF MutexFree
    <3>2. counted' + blocked' <= counted + blocked /\ blocked + counted <= seen[r]
      BY <1>2, <1>3, <2>1, <3>1
    <3> QED BY <1>0, <1>1, <1>3, <3>2
  <2>3. blocked' + counted' + counting' <= total'
    BY <1>0, <1>3
  <2>4. StatsConsistent'
    BY <1>3 DEF CountInv, StatsConsistent
  <2> QED BY <1>2, <1>3, <2>1, <2>3, <2>4 DEF CountsCovered
<1>4. ASSUME NEW w \in Workers, CountAdd(w) PROVE CountsCovered' /\ StatsConsistent'
  <2>1. Goto(w, "out", "counting") /\ TypeOK
    BY <1>4 DEF CountAdd, CountInv
  <2>2. counting' = counting + 1 /\ counted' = counted
    BY <2>1, GotoCounts
  <2> QED BY <1>1, <1>2, <1>3, <1>4, <2>2 DEF CountAdd
<1>5. ASSUME NEW w \in Workers, CountPush(w) PROVE CountsCovered' /\ StatsConsistent'
  <2>1. Goto(w, "counting", "counted") /\ TypeOK
    BY <1>5 DEF CountPush, CountInv
  <2>2. counting' = counting - 1 /\ counted' = counted + 1
    BY <2>1, GotoCounts
  <2> QED BY <1>1, <1>2, <1>3, <1>5, <2>2 DEF CountPush
<1>6. ASSUME NEW w \in Workers, Leave(w) PROVE CountsCovered' /\ StatsConsistent'
  <2>1. Goto(w, "counted", "out") /\ TypeOK
    BY <1>6 DEF Leave, CountInv
  <2>2. counting' = counting /\ counted' = counted - 1
    BY <2>1, GotoCounts
  <2> QED BY <1>1, <1>2, <1>3, <1>6, <2>2 DEF Leave
<1>7. ASSUME NEW w \in Workers, NEW key \in Keys, PublishAdd(w, key)
      PROVE  CountsCovered' /\ StatsConsistent'
  <2>1. Goto(w, "counted", "publishing") /\ TypeOK
    BY <1>7 DEF PublishAdd, CountInv
  <2>2. counting' = counting /\ counted' = counted - 1
    BY <2>1, GotoCounts
  <2> QED BY <1>1, <1>2, <1>3, <1>7, <2>2 DEF PublishAdd
<1>8. ASSUME NEW w \in Workers, PublishMerge(w) \/ PublishKeep(w) \/ PublishSend(w)
      PROVE  CountsCovered' /\ StatsConsistent'
  <2>1. /\ TypeOK
        /\ \/ Goto(w, "publishing", "out")
           \/ Goto(w, "publishing", "sending")
           \/ Goto(w, "sending", "out")
    BY <1>8 DEF PublishMerge, PublishKeep, PublishSend, CountInv
  <2>2. counting' = counting /\ counted' = counted
    BY <2>1, GotoCounts
  <2>3. UNCHANGED <<counters, readers>>
    BY <1>8 DEF PublishMerge, PublishKeep, PublishSend
  <2> QED BY <1>1, <1>2, <1>3, <2>2, <2>3
<1>9. ASSUME UNCHANGED <<at, total, blocked>> PROVE counting' = counting /\ counted' = counted
  BY <1>9 DEF InPhase
<1>10. ASSUME NEW r \in Readers, StatsLock(r) PROVE CountsCovered' /\ StatsConsistent'
  <2>1. counting' = counting /\ counted' = counted
    BY <1>9, <1>10 DEF StatsLock
  <2>2. \A q \in Readers : /\ reading'[q] # "out" <=> holder' = q
                           /\ reading'[q] = "loaded" => reading[q] = "loaded"
    BY <1>2, <1>10, AlertBusAssumption DEF StatsLock, MutexFree, CountInv, TypeOK
  <2>3. UNCHANGED <<total, blocked, seen, snap>>
    BY <1>10 DEF StatsLock
  <2>4. \A q \in Readers : reading'[q] = "loaded" => blocked' + counted' <= seen'[q]
    BY <1>0, <1>1, <1>2, <2>1, <2>2, <2>3
  <2> QED BY <1>0, <1>1, <1>2, <2>1, <2>2, <2>3, <2>4 DEF CountsCovered, StatsConsistent, CountInv
<1>11. ASSUME NEW r \in Readers, StatsLoadTotal(r) PROVE CountsCovered' /\ StatsConsistent'
  <2>1. counting' = counting /\ counted' = counted
    BY <1>9, <1>11 DEF StatsLoadTotal
  <2>2. \A q \in Readers : reading'[q] # "out" <=> holder' = q
    BY <1>2, <1>11 DEF StatsLoadTotal, CountInv, TypeOK
  <2>3. \A q \in Readers : reading'[q] = "loaded" => blocked + counted <= seen'[q]
    BY <1>1, <1>2, <1>11 DEF StatsLoadTotal, CountInv, TypeOK
  <2> QED BY <1>2, <1>11, <2>1, <2>2, <2>3 DEF StatsLoadTotal, CountsCovered, StatsConsistent, CountInv
<1>12. ASSUME NEW r \in Readers, StatsLoadBlocked(r) PROVE CountsCovered' /\ StatsConsistent'
  <2>1. counting' = counting /\ counted' = counted
    BY <1>9, <1>12 DEF StatsLoadBlocked
  <2>2. \A q \in Readers : /\ reading'[q] # "out" <=> holder' = q
                           /\ reading'[q] = "loaded" => reading[q] = "loaded"
    BY <1>2, <1>12, AlertBusAssumption DEF StatsLoadBlocked, CountInv, TypeOK
  <2>3. blocked <= seen[r]
    BY <1>1, <1>2, <1>12 DEF StatsLoadBlocked
  <2>4. StatsConsistent'
    BY <1>12, <2>3 DEF StatsLoadBlocked, StatsConsistent, CountInv, TypeOK
  <2>5. UNCHANGED <<total, blocked, seen>>
    BY <1>12 DEF StatsLoadBlocked
  <2>6. \A q \in Readers : reading'[q] = "loaded" => blocked' + counted' <= seen'[q]
    BY <1>0, <1>1, <1>2, <2>1, <2>2, <2>5
  <2> QED BY <1>0, <1>1, <1>2, <2>1, <2>2, <2>4, <2>5, <2>6 DEF CountsCovered
<1>13. CASE UNCHANGED vars
  <2>1. counting' = counting /\ counted' = counted
    BY <1>9, <1>13 DEF vars
  <2> QED BY <1>1, <1>2, <1>3, <1>13, <2>1 DEF vars
<1> QED BY <1>4, <1>5, <1>6, <1>7, <1>8, <1>10, <1>11, <1>12, <1>13 DEF Next

(* A Stats never shows more blocked requests than requests. *)
THEOREM StatsCorrect == Spec => []StatsConsistent
<1>1. CountInv => StatsConsistent
  BY DEF CountInv
<1> QED BY InitCountInv, NextCountInv, <1>1, PTL DEF Spec

(* Requests that can still publish are covered by every total already read. *)
THEOREM CountsCorrect == Spec => []CountsCovered
<1>1. CountInv => CountsCovered
  BY DEF CountInv
<1> QED BY InitCountInv, NextCountInv, <1>1, PTL DEF Spec

-----------------------------------------------------------------------------
(* The history after an alert of another key than the newest is pushed.    *)
LEMMA PushDedup ==
    ASSUME TypeOK, Deduplicated, NEW alert \in Alerts, alert.key # last_dedup_key
    PROVE  LET s == PushAlert(alerts, alert)
           IN  /\ s \in Seq(Alerts)
               /\ Len(s) \in 1..MAX_ALERTS
               /\ s[Len(s)] = alert
               /\ \A i \in 1..Len(s) - 1 : s[i].key # s[i + 1].key
<1> DEFINE pushed == Append(alerts, alert)
           n == Len(alerts)
           s == PushAlert(alerts, alert)
<1>1. /\ alerts \in Seq(Alerts) /\ n \in Nat /\ n <= MAX_ALERTS /\ MAX_ALERTS \in Nat \ {0}
  BY AlertBusAssumption DEF TypeOK, Deduplicated
<1>2. /\ pushed \in Seq(Alerts) /\ Len(pushed) = n + 1
      /\ pushed[n + 1] = alert
      /\ \A i \in 1..n : pushed[i] = alerts[i]
  BY <1>1
<1>3. ASSUME NEW i \in 1..n PROVE pushed[i].key # pushed[i + 1].key
  <2>1. CASE i = n
    <3>1. alerts # <<>>
      BY <1>1
    <3>2. alerts[n].key = last_dedup_key
      BY <3>1 DEF Deduplicated
    <3> QED BY <1>2, <2>1, <3>2
  <2>2. CASE i < n
    <3>1. i \in 1..n - 1 /\ i + 1 \in 1..n
      BY <1>1, <2>2
    <3>2. alerts[i].key # alerts[i + 1].key
      BY <3>1 DEF Deduplicated
    <3> QED BY <1>2, <3>1, <3>2
  <2> QED BY <1>1, <2>1, <2>2
<1>4. CASE n + 1 > MAX_ALERTS
  <2>1. s = Tail(pushed)
    BY <1>2, <1>4 DEF PushAlert
  <2>2. /\ s \in Seq(Alerts) /\ Len(s) = n /\ n = MAX_ALERTS
        /\ \A i \in 1..n : s[i] = pushed[i + 1]
    BY <1>1, <1>2, <1>4, <2>1
  <2>3. \A i \in 1..n - 1 : s[i].key # s[i + 1].key
    <3> TAKE i \in 1..n - 1
    <3>1. i + 1 \in 1..n /\ i \in 1..n
      BY <1>1
    <3>2. pushed[i + 1].key # pushed[(i + 1) + 1].key
      BY <1>3, <3>1
    <3> QED BY <2>2, <3>1, <3>2
  <2>4. s[n] = alert /\ n \in 1..MAX_ALERTS
    BY <1>1, <1>2, <2>2
  <2> QED BY <2>2, <2>3, <2>4
<1>5. CASE ~(n + 1 > MAX_ALERTS)
  <2>1. s = pushed
    BY <1>2, <1>5 DEF PushAlert
  <2>2. n + 1 \in 1..MAX_ALERTS /\ (n + 1) - 1 = n
    BY <1>1, <1>5
  <2> QED BY <1>2, <1>3, <2>1, <2>2
<1> QED BY <1>4, <1>5

LEMMA InitDeduplicated == Init => Deduplicated
BY AlertBusAssumption DEF Init, Deduplicated

(* Only publish writes the history: it merges into the newest alert, or pushes. *)
LEMMA NextDeduplicated == TypeOK /\ Deduplicated /\ [Next]_vars => Deduplicated'
<1> SUFFICES ASSUME TypeOK, Deduplicated, [Next]_vars PROVE Deduplicated'
  OBVIOUS
<1> USE DEF counters, history, readers
<1>1. ASSUME UNCHANGED <<alerts, last_dedup_key>> PROVE Deduplicated'
  BY <1>1 DEF Deduplicated
<1>2. ASSUME NEW w \in Workers, PublishMerge(w) PROVE Deduplicated'
  <2>1. CASE alerts = <<>>
    BY <1>1, <1>2, <2>1 DEF PublishMerge
  <2>2. CASE alerts # <<>>
    <3>1. /\ alerts' = [alerts EXCEPT ![Len(alerts)].count = @ + 1]
          /\ last_dedup_key' = last_dedup_key
      BY <1>2, <2>2 DEF PublishMerge
    <3>2. alerts \in Seq(Alerts) /\ Len(alerts) \in Nat \ {0}
      BY <2>2 DEF TypeOK
    <3>3. Len(alerts') = Len(alerts) /\ alerts' # <<>>
      BY <3>1, <3>2
    <3>4. \A i \in 1..Len(alerts) : alerts'[i].key = alerts[i].key
      BY <3>1, <3>2 DEF Alerts
    <3>5. \A i \in 1..Len(alerts) - 1 : alerts'[i].key # alerts'[i + 1].key
      <4> TAKE i \in 1..Len(alerts) - 1
      <4>1. i \in 1..Len(alerts) /\ i + 1 \in 1..Len(alerts)
        BY <3>2
      <4>2. alerts[i].key # alerts[i + 1].key
        BY DEF Deduplicated
      <4> QED BY <3>4, <4>1, <4>2
    <3>6. alerts'[Len(alerts)].key = last_dedup_key
      <4>1. Len(alerts) \in 1..Len(alerts)
        BY <3>2
      <4> QED BY <2>2, <3>4, <4>1 DEF Deduplicated
    <3> QED BY <2>2, <3>1, <3>3, <3>5, <3>6 DEF Deduplicated
  <2> QED BY <2>1, <2>2
<1>3. ASSUME NEW w \in Workers, PublishKeep(w) PROVE Deduplicated'
  <2> DEFINE alert == [key |-> item[w].key, count |-> 1, no |-> kept + 1]
  <2>1. /\ item[w].key \in Keys /\ item[w].key # last_dedup_key
        /\ alerts' = PushAlert(alerts, alert)
        /\ last_dedup_key' = item[w].key
    BY <1>3 DEF PublishKeep, Goto, TypeOK
  <2>2. alert \in Alerts /\ alert.key = item[w].key
    BY <2>1 DEF Alerts, TypeOK
  <2>3. /\ alerts' \in Seq(Alerts)
        /\ Len(alerts') \in 1..MAX_ALERTS
        /\ alerts'[Len(alerts')] = alert
        /\ \A i \in 1..Len(alerts') - 1 : alerts'[i].key # alerts'[i + 1].key
    BY <2>1, <2>2, PushDedup
  <2>4. alerts' # <<>> /\ last_dedup_key' # NoKey /\ Len(alerts') <= MAX_ALERTS
    BY <2>1, <2>3, AlertBusAssumption
  <2> QED BY <2>1, <2>2, <2>3, <2>4 DEF Deduplicated
<1>4. ASSUME NEW w \in Workers,
             \/ CountAdd(w) \/ CountPush(w) \/ Leave(w) \/ PublishSend(w)
             \/ \E key \in Keys : PublishAdd(w, key)
      PROVE  Deduplicated'
  BY <1>1, <1>4 DEF CountAdd, CountPush, Leave, PublishSend, PublishAdd
<1>5. ASSUME NEW r \in Readers, StatsLock(r) \/ StatsLoadTotal(r) \/ StatsLoadBlocked(r)
      PROVE  Deduplicated'
  BY <1>1, <1>5 DEF StatsLock, StatsLoadTotal, StatsLoadBlocked
<1>6. CASE UNCHANGED vars
  BY <1>1, <1>6 DEF vars
<1> QED BY <1>2, <1>3, <1>4, <1>5, <1>6 DEF Next

(* Repeats are merged into the alert they repeat, and the history is bounded. *)
THEOREM DedupCorrect == Spec => []Deduplicated
BY InitTypeOK, NextTypeOK, InitDeduplicated, NextDeduplicated, PTL DEF Spec

-----------------------------------------------------------------------------
(* The history holds the newest alerts, numbered one after the other, and  *)
(* nothing was counted in an alert that is still to come.                  *)
Accounted ==
    /\ EveryBlockAccounted
    /\ \A k \in DOMAIN tally : tally[k] <= kept
    /\ \A i \in DOMAIN alerts : alerts[i].no = kept - Len(alerts) + i

LEMMA OneMoreCounted ==
    ASSUME TypeOK, NEW no \in Nat, tally' = Append(tally, no)
    PROVE  /\ Len(tally') = Len(tally) + 1 /\ Len(tally) \in Nat
           /\ \A k \in DOMAIN tally' : tally'[k] = no \/ \E j \in DOMAIN tally : tally'[k] = tally[j]
           /\ Cardinality(CountedIn(no, tally')) = Cardinality(CountedIn(no, tally)) + 1
           /\ \A other \in Nat \ {no} : CountedIn(other, tally') = CountedIn(other, tally)
<1>1. /\ Len(tally) \in Nat /\ DOMAIN tally = 1..Len(tally)
      /\ Len(tally') = Len(tally) + 1 /\ DOMAIN tally' = 1..Len(tally) + 1
      /\ \A k \in 1..Len(tally) : tally'[k] = tally[k]
      /\ tally'[Len(tally) + 1] = no
  BY DEF TypeOK
<1>2. CountedIn(no, tally') = CountedIn(no, tally) \cup {Len(tally) + 1} /\ Len(tally) + 1 \notin CountedIn(no, tally)
  BY <1>1 DEF CountedIn
<1>3. IsFiniteSet(CountedIn(no, tally))
  <2>1. CountedIn(no, tally) \subseteq 1..Len(tally) /\ IsFiniteSet(1..Len(tally))
    BY <1>1, FS_Interval DEF CountedIn
  <2> QED BY <2>1, FS_Subset
<1>4. \A other \in Nat \ {no} : CountedIn(other, tally') = CountedIn(other, tally)
  BY <1>1 DEF CountedIn
<1>5. Cardinality(CountedIn(no, tally')) = Cardinality(CountedIn(no, tally)) + 1
  BY <1>2, <1>3, FS_AddElement
<1>6. \A k \in DOMAIN tally' : tally'[k] = no \/ \E j \in DOMAIN tally : tally'[k] = tally[j]
  BY <1>1
<1> QED BY <1>1, <1>4, <1>5, <1>6

(* A push leaves the new alert last and the others in place or one down. *)
LEMMA PushShifts ==
    ASSUME TypeOK, Deduplicated, NEW alert \in Alerts, NEW s, s = PushAlert(alerts, alert)
    PROVE  \E d \in {0, 1} :
             /\ Len(s) = Len(alerts) + 1 - d /\ DOMAIN s = 1..Len(s) /\ Len(s) \in Nat \ {0}
             /\ s[Len(s)] = alert
             /\ \A i \in 1..Len(s) - 1 : i + d \in DOMAIN alerts /\ s[i] = alerts[i + d]
<1> DEFINE pushed == Append(alerts, alert)
           n == Len(alerts)
<1>1. /\ n \in Nat /\ n <= MAX_ALERTS /\ MAX_ALERTS \in Nat \ {0} /\ DOMAIN alerts = 1..n
      /\ pushed \in Seq(Alerts) /\ Len(pushed) = n + 1 /\ DOMAIN pushed = 1..n + 1
      /\ pushed[n + 1] = alert
      /\ \A i \in 1..n : pushed[i] = alerts[i]
  BY AlertBusAssumption DEF TypeOK, Deduplicated
<1>2. CASE n + 1 > MAX_ALERTS
  <2>1. /\ Len(s) = n /\ DOMAIN s = 1..n /\ n \in Nat \ {0}
        /\ \A i \in 1..n : s[i] = pushed[i + 1]
    BY <1>1, <1>2 DEF PushAlert
  <2>2. \A i \in 1..n - 1 : i + 1 \in 1..n /\ s[i] = alerts[i + 1]
    BY <1>1, <2>1
  <2>3. s[n] = alert
    BY <1>1, <2>1
  <2>4. Len(s) = n + 1 - 1
    BY <2>1
  <2> HIDE DEF n
  <2> QED BY <1>1, <2>1, <2>2, <2>3, <2>4 DEF n
<1>3. CASE ~(n + 1 > MAX_ALERTS)
  <2>1. s = pushed
    BY <1>1, <1>3 DEF PushAlert
  <2>2. \A i \in 1..n + 1 - 1 : i + 0 \in 1..n /\ s[i] = alerts[i + 0]
    BY <1>1, <2>1
  <2> HIDE DEF pushed
  <2> QED BY <1>1, <2>1, <2>2
<1> QED BY <1>2, <1>3

LEMMA InitAccounted == Init => Accounted
<1> SUFFICES ASSUME Init PROVE Accounted
  OBVIOUS
<1>1. InPhase("publishing") = {} /\ Cardinality({}) = 0
  BY FS_EmptySet DEF Init, InPhase
<1>2. alerts = <<>> /\ tally = <<>> /\ blocked = 0
  BY DEF Init
<1> QED BY <1>1, <1>2 DEF Accounted, EveryBlockAccounted

LEMMA NextAccounted == CountInv /\ Deduplicated /\ Accounted /\ [Next]_vars => Accounted'
<1> SUFFICES ASSUME TypeOK, Deduplicated, Accounted, [Next]_vars PROVE Accounted'
  BY DEF CountInv
<1> USE DEF counters, history, readers
<1> DEFINE Publishing == Cardinality(InPhase("publishing"))
<1>0. /\ blocked = Len(tally) + Publishing /\ Publishing \in Nat /\ Len(tally) \in Nat
      /\ \A i \in DOMAIN alerts : alerts[i].count = Cardinality(CountedIn(alerts[i].no, tally))
      /\ \A k \in DOMAIN tally : tally[k] <= kept
      /\ \A i \in DOMAIN alerts : alerts[i].no = kept - Len(alerts) + i
      /\ kept \in Nat /\ \A k \in DOMAIN tally : tally[k] \in Nat
  BY PhaseFinite DEF Accounted, EveryBlockAccounted, TypeOK
<1>1. ASSUME UNCHANGED history, blocked' - Publishing' = blocked - Publishing, Publishing' \in Nat,
             blocked' \in Nat
      PROVE  Accounted'
  <2>1. blocked' = Len(tally') + Publishing'
    BY <1>0, <1>1 DEF TypeOK
  <2> QED BY <1>0, <1>1, <2>1 DEF Accounted, EveryBlockAccounted
<1>2. ASSUME NEW w \in Workers, PublishMerge(w) PROVE Accounted'
  <2> DEFINE n == Len(alerts)
  <2>1. /\ alerts # <<>> /\ alerts \in Seq(Alerts) /\ n \in Nat \ {0} /\ DOMAIN alerts = 1..n
        /\ alerts' = [alerts EXCEPT ![n].count = @ + 1]
        /\ tally' = Append(tally, kept) /\ UNCHANGED <<kept, blocked>>
        /\ Goto(w, "publishing", "out")
    BY <1>2, AlertBusAssumption DEF PublishMerge, Goto, TypeOK, Deduplicated
  <2>2. Publishing' = Publishing - 1
    BY <2>1, GotoCounts
  <2>3. /\ Len(tally') = Len(tally) + 1
        /\ \A k \in DOMAIN tally' : tally'[k] = kept \/ \E j \in DOMAIN tally : tally'[k] = tally[j]
        /\ Cardinality(CountedIn(kept, tally')) = Cardinality(CountedIn(kept, tally)) + 1
        /\ \A other \in Nat \ {kept} : CountedIn(other, tally') = CountedIn(other, tally)
    BY <1>0, <2>1, OneMoreCounted
  <2>4. /\ Len(alerts') = n /\ DOMAIN alerts' = 1..n
        /\ \A i \in 1..n : alerts'[i].no = alerts[i].no /\ alerts[i].no \in Nat
        /\ \A i \in 1..n : alerts'[i].count = IF i = n THEN alerts[i].count + 1 ELSE alerts[i].count
    <3>1. \A i \in 1..n : alerts[i] \in Alerts
      BY <2>1
    <3>2. \A i \in 1..n : alerts'[i] = IF i = n THEN [alerts[n] EXCEPT !.count = @ + 1] ELSE alerts[i]
      BY <2>1
    <3>3. Len(alerts') = n /\ DOMAIN alerts' = 1..n
      BY <2>1
    <3> QED BY <2>1, <3>1, <3>2, <3>3 DEF Alerts
  <2>5. \A i \in 1..n : alerts[i].no = IF i = n THEN kept ELSE kept - n + i
    BY <1>0, <2>1
  <2>6. ASSUME NEW i \in 1..n PROVE alerts'[i].count = Cardinality(CountedIn(alerts'[i].no, tally'))
    <3>1. CASE i = n
      BY <1>0, <2>1, <2>3, <2>4, <2>5, <3>1
    <3>2. CASE i # n
      <4>1. alerts[i].no \in Nat \ {kept}
        BY <1>0, <2>1, <2>4, <2>5, <3>2
      <4> QED BY <1>0, <2>1, <2>3, <2>4, <3>2, <4>1
    <3> QED BY <3>1, <3>2
  <2> QED BY <1>0, <2>1, <2>2, <2>3, <2>4, <2>6 DEF Accounted, EveryBlockAccounted
<1>3. ASSUME NEW w \in Workers, PublishKeep(w) PROVE Accounted'
  <2> DEFINE alert == [key |-> item[w].key, count |-> 1, no |-> kept + 1]
  <2>1. /\ alerts' = PushAlert(alerts, alert) /\ alert \in Alerts
        /\ tally' = Append(tally, kept + 1) /\ kept' = kept + 1 /\ UNCHANGED blocked
        /\ Goto(w, "publishing", "sending")
        /\ Len(alerts) \in Nat /\ DOMAIN alerts = 1..Len(alerts)
        /\ \A i \in DOMAIN alerts : alerts[i] \in Alerts
    <3>1. item[w].key \in Keys
      BY <1>3 DEF PublishKeep, Goto, TypeOK
    <3>2. alert \in Alerts
      BY <1>0, <3>1 DEF Alerts
    <3> QED BY <1>3, <3>2 DEF PublishKeep, TypeOK
  <2>2. Publishing' = Publishing - 1
    BY <2>1, GotoCounts
  <2>3. /\ Len(tally') = Len(tally) + 1
        /\ \A k \in DOMAIN tally' : tally'[k] = kept + 1 \/ \E j \in DOMAIN tally : tally'[k] = tally[j]
        /\ Cardinality(CountedIn(kept + 1, tally')) = Cardinality(CountedIn(kept + 1, tally)) + 1
        /\ \A other \in Nat \ {kept + 1} : CountedIn(other, tally') = CountedIn(other, tally)
    BY <1>0, <2>1, OneMoreCounted
  <2>4. Cardinality(CountedIn(kept + 1, tally')) = 1
    <3>1. CountedIn(kept + 1, tally) = {}
      BY <1>0 DEF CountedIn
    <3>2. Cardinality(CountedIn(kept + 1, tally)) = 0
      BY <3>1, FS_EmptySet
    <3> QED BY <2>3, <3>2
  <2>5. PICK d \in {0, 1} :
          /\ Len(alerts') = Len(alerts) + 1 - d /\ DOMAIN alerts' = 1..Len(alerts')
          /\ Len(alerts') \in Nat \ {0}
          /\ alerts'[Len(alerts')] = alert
          /\ \A i \in 1..Len(alerts') - 1 : i + d \in DOMAIN alerts /\ alerts'[i] = alerts[i + d]
    BY <2>1, PushShifts
  <2>6. ASSUME NEW i \in 1..Len(alerts')
        PROVE  /\ alerts'[i].no = kept' - Len(alerts') + i
               /\ alerts'[i].count = Cardinality(CountedIn(alerts'[i].no, tally'))
    <3>1. CASE i = Len(alerts')
      BY <1>0, <2>1, <2>4, <2>5, <3>1
    <3>2. CASE i # Len(alerts')
      <4>1. i \in 1..Len(alerts') - 1
        BY <2>5, <3>2
      <4>2. i + d \in DOMAIN alerts /\ alerts'[i] = alerts[i + d]
        BY <2>5, <4>1
      <4>3. alerts[i + d].no = kept - Len(alerts) + (i + d) /\ alerts[i + d].no \in Nat
        BY <1>0, <2>1, <4>2 DEF Alerts
      <4>4. alerts[i + d].no # kept + 1
        BY <1>0, <2>1, <4>2, <4>3
      <4>5. alerts[i + d].count = Cardinality(CountedIn(alerts[i + d].no, tally))
        BY <1>0, <4>2
      <4> HIDE DEF alert
      <4>6. kept - Len(alerts) + (i + d) = kept' - Len(alerts') + i
        BY <1>0, <2>1, <2>5
      <4> QED BY <2>3, <4>2, <4>3, <4>4, <4>5, <4>6
    <3> QED BY <3>1, <3>2
  <2>7. \A k \in DOMAIN tally' : tally'[k] <= kept'
    BY <1>0, <2>1, <2>3
  <2>8. blocked' = Len(tally') + Publishing'
    BY <1>0, <2>1, <2>2, <2>3
  <2> HIDE DEF Publishing
  <2>9. EveryBlockAccounted'
    BY <2>5, <2>6, <2>8 DEF EveryBlockAccounted, Publishing
  <2> QED BY <2>5, <2>6, <2>7, <2>9 DEF Accounted
<1>4. ASSUME NEW w \in Workers, NEW key \in Keys, PublishAdd(w, key) PROVE Accounted'
  <2>1. UNCHANGED history /\ blocked' = blocked + 1 /\ Goto(w, "counted", "publishing")
    BY <1>4 DEF PublishAdd
  <2>2. Publishing' = Publishing + 1
    BY <2>1, GotoCounts
  <2> QED BY <1>0, <1>1, <2>1, <2>2
<1>5. ASSUME NEW w \in Workers, CountAdd(w) \/ CountPush(w) \/ Leave(w) \/ PublishSend(w)
      PROVE  Accounted'
  <2>1. UNCHANGED <<history, blocked>>
    BY <1>5 DEF CountAdd, CountPush, Leave, PublishSend
  <2>2. \E from, to \in {"out", "counting", "counted", "sending"} : from # to /\ Goto(w, from, to)
    BY <1>5 DEF CountAdd, CountPush, Leave, PublishSend
  <2>3. Publishing' = Publishing
    BY <2>2, GotoCounts
  <2> QED BY <1>0, <1>1, <2>1, <2>3
<1>6. ASSUME \/ \E r \in Readers : StatsLock(r) \/ StatsLoadTotal(r) \/ StatsLoadBlocked(r)
             \/ UNCHANGED vars
      PROVE  Accounted'
  <2>1. UNCHANGED <<history, blocked, at>>
    BY <1>6 DEF StatsLock, StatsLoadTotal, StatsLoadBlocked, vars
  <2>2. Publishing' = Publishing
    BY <2>1 DEF InPhase
  <2> QED BY <1>0, <1>1, <2>1, <2>2
<1> QED BY <1>2, <1>3, <1>4, <1>5, <1>6 DEF Next

(* No blocked request is lost between the counter and the counts of the    *)
(* alerts, and none is counted in an alert it does not repeat (bus.rs:167).*)
THEOREM BlocksAccounted == Spec => []EveryBlockAccounted
<1>1. Accounted => EveryBlockAccounted
  BY DEF Accounted
<1> QED BY <1>1, InitTypeOK, InitCountInv, NextCountInv, InitDeduplicated, NextDeduplicated,
           InitAccounted, NextAccounted, PTL DEF Spec, CountInv

-----------------------------------------------------------------------------
(* Two tasks never broadcast the same alert. *)
SendersApart ==
    /\ \A w \in InPhase("sending") : item[w].no \in 1..kept
    /\ \A w, u \in InPhase("sending") : item[w].no = item[u].no => w = u

FeedInv == TypeOK /\ Deduplicated /\ SendersApart

pending == {item[w].no : w \in InPhase("sending")}

LEMMA InitSendersApart == Init => SendersApart
BY DEF Init, SendersApart, InPhase

(* A task that is not sending goes where it does not send either. *)
LEMMA NotSending ==
    ASSUME TypeOK, NEW w \in Workers, NEW to, to # "sending", at[w] # "sending",
           at' = [at EXCEPT ![w] = to],
           \A u \in Workers \ {w} : item'[u] = item[u]
    PROVE  /\ InPhase("sending")' = InPhase("sending")
           /\ \A u \in InPhase("sending") : item'[u] = item[u]
           /\ pending' = pending
<1>1. InPhase("sending")' = InPhase("sending") /\ w \notin InPhase("sending")
  BY DEF InPhase, TypeOK
<1>2. \A u \in InPhase("sending") : item'[u] = item[u]
  BY <1>1 DEF InPhase
<1> QED BY <1>1, <1>2 DEF pending

LEMMA ApartStays ==
    ASSUME SendersApart, UNCHANGED kept,
           InPhase("sending")' \subseteq InPhase("sending"),
           \A u \in InPhase("sending")' : item'[u] = item[u]
    PROVE  SendersApart'
BY DEF SendersApart

(* What each step does to the tasks that send. *)
LEMMA QuietSteps ==
    ASSUME TypeOK, NEW w \in Workers,
           \/ CountAdd(w) \/ CountPush(w) \/ Leave(w) \/ PublishMerge(w)
           \/ \E key \in Keys : PublishAdd(w, key)
    PROVE  /\ InPhase("sending")' = InPhase("sending")
           /\ \A u \in InPhase("sending") : item'[u] = item[u]
           /\ pending' = pending /\ UNCHANGED <<kept, feed>>
<1> USE DEF counters, history, readers, Goto
<1>1. PICK to : to # "sending" /\ at[w] # "sending" /\ at' = [at EXCEPT ![w] = to]
  BY DEF CountAdd, CountPush, Leave, PublishMerge, PublishAdd
<1>2. \A u \in Workers \ {w} : item'[u] = item[u]
  BY DEF CountAdd, CountPush, Leave, PublishMerge, PublishAdd, TypeOK
<1>3. UNCHANGED <<kept, feed>>
  BY DEF CountAdd, CountPush, Leave, PublishMerge, PublishAdd
<1> QED BY <1>1, <1>2, <1>3, NotSending

LEMMA KeepStep ==
    ASSUME TypeOK, NEW w \in Workers, PublishKeep(w)
    PROVE  /\ InPhase("sending")' = InPhase("sending") \cup {w}
           /\ w \notin InPhase("sending")
           /\ item'[w].no = kept + 1
           /\ \A u \in InPhase("sending") : item'[u] = item[u]
           /\ pending' = pending \cup {kept + 1}
<1>1. /\ at[w] = "publishing" /\ at' = [at EXCEPT ![w] = "sending"]
      /\ item' = [item EXCEPT ![w].no = kept + 1]
  BY DEF PublishKeep, Goto
<1>2. InPhase("sending")' = InPhase("sending") \cup {w} /\ w \notin InPhase("sending")
  BY <1>1 DEF InPhase, TypeOK
<1>3. item'[w].no = kept + 1 /\ \A u \in InPhase("sending") : item'[u] = item[u]
  BY <1>1, <1>2 DEF TypeOK, InPhase
<1>4. pending' = pending \cup {kept + 1}
  BY <1>2, <1>3 DEF pending
<1> QED BY <1>2, <1>3, <1>4

LEMMA SendStep ==
    ASSUME TypeOK, SendersApart, NEW w \in Workers, PublishSend(w)
    PROVE  /\ InPhase("sending")' = InPhase("sending") \ {w}
           /\ w \in InPhase("sending")
           /\ \A u \in InPhase("sending") \ {w} : item'[u] = item[u]
           /\ pending' = pending \ {item[w].no}
<1>1. /\ at[w] = "sending" /\ at' = [at EXCEPT ![w] = "out"]
      /\ item' = [item EXCEPT ![w] = NoItem]
  BY DEF PublishSend, Goto
<1>2. InPhase("sending")' = InPhase("sending") \ {w} /\ w \in InPhase("sending")
  BY <1>1 DEF InPhase, TypeOK
<1>3. \A u \in InPhase("sending") \ {w} : item'[u] = item[u]
  BY <1>1 DEF TypeOK, InPhase
<1>4. \A u \in InPhase("sending") \ {w} : item[u].no # item[w].no
  BY <1>2 DEF SendersApart
<1>5. pending' = {item[u].no : u \in InPhase("sending") \ {w}}
  BY <1>2, <1>3 DEF pending
<1>6. pending = {item[u].no : u \in InPhase("sending") \ {w}} \cup {item[w].no}
  BY <1>2 DEF pending
<1> QED BY <1>2, <1>3, <1>4, <1>5, <1>6

(* Readers and stuttering leave all of it alone. *)
LEMMA ReaderSteps ==
    ASSUME \/ \E r \in Readers : StatsLock(r) \/ StatsLoadTotal(r) \/ StatsLoadBlocked(r)
           \/ UNCHANGED vars
    PROVE  UNCHANGED <<at, item, alerts, kept, feed>>
BY DEF StatsLock, StatsLoadTotal, StatsLoadBlocked, counters, history, readers, vars

LEMMA NextSendersApart == TypeOK /\ SendersApart /\ [Next]_vars => SendersApart'
<1> SUFFICES ASSUME TypeOK, SendersApart, [Next]_vars PROVE SendersApart'
  OBVIOUS
<1>1. ASSUME NEW w \in Workers,
             \/ CountAdd(w) \/ CountPush(w) \/ Leave(w) \/ PublishMerge(w)
             \/ \E key \in Keys : PublishAdd(w, key)
      PROVE  SendersApart'
  BY <1>1, QuietSteps, ApartStays
<1>2. ASSUME NEW w \in Workers, PublishKeep(w) PROVE SendersApart'
  <2>1. kept' = kept + 1 /\ kept \in Nat
    BY <1>2 DEF PublishKeep, TypeOK
  <2>2. \A u \in InPhase("sending") : item'[u].no \in 1..kept
    BY <1>2, KeepStep DEF SendersApart
  <2>3. \A u \in InPhase("sending") : item'[u].no # kept + 1 /\ item'[u].no \in 1..kept'
    BY <2>1, <2>2
  <2>4. item'[w].no = kept + 1 /\ item'[w].no \in 1..kept'
    BY <1>2, <2>1, KeepStep
  <2>5. \A u, v \in InPhase("sending") : item'[u].no = item'[v].no => u = v
    BY <1>2, KeepStep DEF SendersApart
  <2> QED BY <1>2, <2>3, <2>4, <2>5, KeepStep DEF SendersApart
<1>3. ASSUME NEW w \in Workers, PublishSend(w) PROVE SendersApart'
  <2>1. UNCHANGED kept
    BY <1>3 DEF PublishSend, history
  <2> QED BY <1>3, <2>1, SendStep, ApartStays
<1>4. ASSUME \/ \E r \in Readers : StatsLock(r) \/ StatsLoadTotal(r) \/ StatsLoadBlocked(r)
             \/ UNCHANGED vars
      PROVE  SendersApart'
  BY <1>4, ReaderSteps DEF SendersApart, InPhase
<1> QED BY <1>1, <1>2, <1>3, <1>4 DEF Next

LEMMA FeedInvariant == Spec => []FeedInv
<1>1. Init => FeedInv
  BY InitTypeOK, InitDeduplicated, InitSendersApart DEF FeedInv
<1>2. FeedInv /\ [Next]_vars => FeedInv'
  BY NextTypeOK, NextDeduplicated, NextSendersApart DEF FeedInv
<1> QED BY <1>1, <1>2, PTL DEF Spec

-----------------------------------------------------------------------------
(* Pushing and then dropping the oldest is dropping it and then pushing. *)
LEMMA PushIsKeep ==
    ASSUME TypeOK, Len(alerts) <= MAX_ALERTS, NEW alert \in Alerts
    PROVE  PushAlert(alerts, alert) =
               Append(IF Len(alerts) = MAX_ALERTS THEN Tail(alerts) ELSE alerts, alert)
<1> DEFINE n == Len(alerts)
<1>1. alerts \in Seq(Alerts) /\ n \in Nat /\ Len(Append(alerts, alert)) = n + 1
  BY DEF TypeOK
<1>2. CASE n = MAX_ALERTS
  <2>1. n \in Nat \ {0} /\ alerts # <<>>
    BY <1>1, <1>2, AlertBusAssumption
  <2>2. Tail(Append(alerts, alert)) = Append(Tail(alerts), alert)
    BY <1>1, <2>1
  <2> QED BY <1>1, <1>2, <2>2 DEF PushAlert
<1>3. CASE n # MAX_ALERTS
  BY <1>1, <1>3, AlertBusAssumption DEF PushAlert
<1> QED BY <1>2, <1>3

LEMMA RefineMerge ==
    ASSUME FeedInv, NEW w \in Workers, PublishMerge(w)
    PROVE  Feed!Repeat(last_dedup_key) /\ last_dedup_key \in Keys
<1>1. /\ item[w].key = last_dedup_key /\ item[w].key \in Keys
  BY DEF PublishMerge, Goto, FeedInv, TypeOK
<1>2. alerts # <<>> /\ alerts[Len(alerts)].key = last_dedup_key
  BY <1>1, AlertBusAssumption DEF FeedInv, Deduplicated
<1>3. alerts' = [alerts EXCEPT ![Len(alerts)].count = @ + 1]
  BY <1>2 DEF PublishMerge
<1>4. pending' = pending /\ UNCHANGED <<kept, feed>>
  BY QuietSteps DEF FeedInv
<1> QED BY <1>1, <1>2, <1>3, <1>4 DEF Feed!Repeat, Feed!IsRepeat, pending

LEMMA RefineKeep ==
    ASSUME FeedInv, NEW w \in Workers, NEW key, key = item[w].key, PublishKeep(w)
    PROVE  Feed!Keep(key) /\ key \in Keys
<1> DEFINE alert == [key |-> key, count |-> 1, no |-> kept + 1]
<1>1. /\ key \in Keys /\ key # last_dedup_key
      /\ alerts' = PushAlert(alerts, alert)
      /\ kept' = kept + 1 /\ UNCHANGED feed
  BY DEF PublishKeep, Goto, FeedInv, TypeOK
<1>2. alert \in Alerts
  BY <1>1 DEF Alerts, FeedInv, TypeOK
<1>3. alerts' = Append(IF Len(alerts) = MAX_ALERTS THEN Tail(alerts) ELSE alerts, alert)
  BY <1>1, <1>2, PushIsKeep DEF FeedInv, Deduplicated
<1>4. ~ Feed!IsRepeat(key)
  BY <1>1 DEF Feed!IsRepeat, FeedInv, Deduplicated
<1>5. pending' = pending \cup {kept + 1}
  BY KeepStep DEF FeedInv
<1> QED BY <1>1, <1>3, <1>4, <1>5 DEF Feed!Keep, pending

LEMMA RefineSend ==
    ASSUME FeedInv, NEW w \in Workers, NEW n, n = item[w].no, PublishSend(w)
    PROVE  Feed!Send(n) /\ n \in pending
<1>1. /\ w \in InPhase("sending") /\ pending' = pending \ {n}
  BY SendStep DEF FeedInv
<1>2. n \in pending
  BY <1>1 DEF pending
<1>3. feed' = Append(feed, n) /\ UNCHANGED <<alerts, kept>>
  BY DEF PublishSend, history
<1> QED BY <1>1, <1>2, <1>3 DEF Feed!Send, pending

(* For any tasks, readers, keys and capacity, what the readers of the bus  *)
(* see is the plain feed: repeats are counted and not broadcast, and every *)
(* kept alert is broadcast once, though tasks overlap (bus.rs:167).        *)
THEOREM Refinement == Spec => ImplementsFeed
<1>1. Init => Feed!FeedInit
  BY DEF Init, Feed!FeedInit, InPhase
<1>2. FeedInv /\ [Next]_vars => [Feed!FeedNext]_(Feed!feedVars)
  <2> SUFFICES ASSUME FeedInv, [Next]_vars
               PROVE  Feed!FeedNext \/ UNCHANGED <<alerts, kept, pending, feed>>
    BY DEF Feed!feedVars, pending
  <2>1. ASSUME NEW w \in Workers, PublishMerge(w) PROVE Feed!FeedNext
    <3>1. Feed!Repeat(last_dedup_key) /\ last_dedup_key \in Keys
      BY <2>1, RefineMerge
    <3>2. \E key \in Keys : Feed!Repeat(key) \/ Feed!Keep(key)
      BY <3>1, Zenon
    <3> QED BY <3>2, Zenon DEF Feed!FeedNext
  <2>2. ASSUME NEW w \in Workers, PublishKeep(w) PROVE Feed!FeedNext
    <3>1. PICK key : key = item[w].key
      OBVIOUS
    <3>2. Feed!Keep(key) /\ key \in Keys
      BY <2>2, <3>1, RefineKeep
    <3>3. \E k \in Keys : Feed!Repeat(k) \/ Feed!Keep(k)
      BY <3>2, Zenon
    <3> QED BY <3>3, Zenon DEF Feed!FeedNext
  <2>3. ASSUME NEW w \in Workers, PublishSend(w) PROVE Feed!FeedNext
    <3>1. PICK n : n = item[w].no
      OBVIOUS
    <3>2. Feed!Send(n) /\ n \in pending
      BY <2>3, <3>1, RefineSend
    <3> QED BY <3>2, Zenon DEF Feed!FeedNext, pending
  <2>4. ASSUME NEW w \in Workers,
               \/ CountAdd(w) \/ CountPush(w) \/ Leave(w)
               \/ \E key \in Keys : PublishAdd(w, key)
        PROVE  UNCHANGED <<alerts, kept, pending, feed>>
    <3>1. UNCHANGED alerts
      BY <2>4 DEF CountAdd, CountPush, Leave, PublishAdd, history
    <3> QED BY <2>4, <3>1, QuietSteps DEF FeedInv
  <2>5. ASSUME \/ \E r \in Readers : StatsLock(r) \/ StatsLoadTotal(r) \/ StatsLoadBlocked(r)
               \/ UNCHANGED vars
        PROVE  UNCHANGED <<alerts, kept, pending, feed>>
    BY <2>5, ReaderSteps DEF pending, InPhase
  <2> QED BY <2>1, <2>2, <2>3, <2>4, <2>5 DEF Next
<1> QED BY <1>1, <1>2, FeedInvariant, PTL DEF Spec, Feed!FeedSpec, ImplementsFeed

-----------------------------------------------------------------------------
(* Part 2: the request pipeline. *)

(* A place at the end of a queue for one who has none. *)
LEMMA JoinQueue ==
    ASSUME NEW S, NEW s \in Seq(S), NEW x \in S, IsInjective(s), x \notin ToSet(s)
    PROVE  /\ Append(s, x) \in Seq(S)
           /\ IsInjective(Append(s, x))
           /\ ToSet(Append(s, x)) = ToSet(s) \cup {x}
<1> DEFINE t == Append(s, x)
<1>1. /\ t \in Seq(S) /\ Len(s) \in Nat /\ DOMAIN s = 1..Len(s)
      /\ DOMAIN t = 1..Len(s) + 1
      /\ \A i \in 1..Len(s) : t[i] = s[i]
      /\ t[Len(s) + 1] = x
  OBVIOUS
<1> HIDE DEF t
<1>2. \A i \in 1..Len(s) : s[i] # x
  BY <1>1 DEF ToSet
<1>3. IsInjective(t)
  <2> SUFFICES ASSUME NEW i \in DOMAIN t, NEW j \in DOMAIN t, t[i] = t[j]
               PROVE  i = j
    BY DEF IsInjective
  <2>1. CASE i \in 1..Len(s) /\ j \in 1..Len(s)
    BY <2>1, <1>1 DEF IsInjective
  <2>2. CASE i = Len(s) + 1 \/ j = Len(s) + 1
    BY <2>2, <1>1, <1>2
  <2> QED BY <2>1, <2>2, <1>1
<1>4. ToSet(t) = ToSet(s) \cup {x}
  BY <1>1 DEF ToSet
<1> QED BY <1>1, <1>3, <1>4 DEF t

(* The first one leaves it. *)
LEMMA LeaveQueue ==
    ASSUME NEW S, NEW s \in Seq(S), s # <<>>, IsInjective(s)
    PROVE  /\ Head(s) \in ToSet(s) /\ Head(s) \in S
           /\ Tail(s) \in Seq(S)
           /\ IsInjective(Tail(s))
           /\ ToSet(Tail(s)) = ToSet(s) \ {Head(s)}
<1> DEFINE t == Tail(s)
<1>1. /\ t \in Seq(S) /\ Len(s) \in Nat \ {0} /\ DOMAIN s = 1..Len(s)
      /\ Len(t) = Len(s) - 1
      /\ DOMAIN t = 1..Len(s) - 1
      /\ \A i \in 1..Len(s) - 1 : t[i] = s[i + 1]
      /\ Head(s) = s[1] /\ s[1] \in S
  BY HeadTailProperties, EmptySeq
<1> HIDE DEF t
<1>2. IsInjective(t)
  <2> SUFFICES ASSUME NEW i \in DOMAIN t, NEW j \in DOMAIN t, t[i] = t[j]
               PROVE  i = j
    BY DEF IsInjective
  <2>1. s[i + 1] = s[j + 1] /\ i + 1 \in DOMAIN s /\ j + 1 \in DOMAIN s
    BY <1>1
  <2>2. i + 1 = j + 1
    BY <2>1 DEF IsInjective
  <2> QED BY <2>2, <1>1
<1>3. \A i \in 2..Len(s) : s[i] # s[1] /\ i - 1 \in DOMAIN t /\ t[i - 1] = s[i]
  BY <1>1 DEF IsInjective
<1>4. ToSet(t) \subseteq ToSet(s) \ {Head(s)}
  <2> SUFFICES ASSUME NEW i \in DOMAIN t
               PROVE  t[i] \in ToSet(s) \ {Head(s)}
    BY DEF ToSet
  <2>1. t[i] = s[i + 1] /\ i + 1 \in DOMAIN s /\ i + 1 \in 2..Len(s)
    BY <1>1
  <2> QED BY <2>1, <1>1, <1>3 DEF ToSet
<1>5. ToSet(s) \ {Head(s)} \subseteq ToSet(t)
  <2> SUFFICES ASSUME NEW i \in DOMAIN s, s[i] # s[1]
               PROVE  s[i] \in ToSet(t)
    BY <1>1 DEF ToSet
  <2>1. i \in 2..Len(s)
    BY <1>1
  <2> QED BY <2>1, <1>3 DEF ToSet
<1>6. Head(s) \in ToSet(s)
  BY <1>1 DEF ToSet
<1>7. ToSet(t) = ToSet(s) \ {Head(s)}
  BY <1>4, <1>5
<1> QED BY <1>1, <1>2, <1>6, <1>7 DEF t

(* A step of the pipeline is a step of the bus, or none of its business. *)
LEMMA BusStep == [PipelineNext]_pipelineVars => [Next]_vars
<1> SUFFICES ASSUME [PipelineNext]_pipelineVars PROVE Next \/ UNCHANGED vars
  OBVIOUS
<1>1. ASSUME NEW w \in Workers,
             \/ Arrive(w) \/ Counted(w) \/ Forward(w) \/ BodyFails(w) \/ DropRequest(w)
             \/ Report(w) \/ Merged(w) \/ Kept(w) \/ Broadcast(w)
      PROVE  Next
  <2>1. \/ CountAdd(w) \/ CountPush(w) \/ Leave(w)
        \/ \E key \in Keys : PublishAdd(w, key)
        \/ PublishMerge(w) \/ PublishKeep(w) \/ PublishSend(w)
    BY <1>1 DEF Arrive, Counted, Forward, BodyFails, DropRequest, Report, Merged, Kept, Broadcast
  <2> QED BY <2>1 DEF Next
<1>2. ASSUME NEW w \in Workers,
             \/ CheckBlockList(w) \/ CheckLimiter(w) \/ ReadBody(w) \/ CheckRules(w)
             \/ AppendNow(w) \/ AppendWait(w) \/ AppendAfterWait(w) \/ DropReport(w)
      PROVE  UNCHANGED vars
  BY <1>2 DEF CheckBlockList, CheckLimiter, ReadBody, CheckRules, Quietly,
              AppendNow, AppendWait, AppendAfterWait, DropReport
<1>3. ASSUME WorkerReceive \/ WorkerWrite \/ UNCHANGED pipelineVars PROVE UNCHANGED vars
  BY <1>3 DEF WorkerReceive, WorkerWrite, pipelineVars
<1> QED BY <1>1, <1>2, <1>3 DEF PipelineNext, Proceed

(* The bus of the pipeline is the alert bus: its theorems hold here.       *)
(* (handle calls it from main.rs:1309, 1324 and 1487.)                   *)
THEOREM PipelineHasBus == PipelineSpec => Spec
<1>1. PipelineInit => Init
  BY DEF PipelineInit
<1> QED BY <1>1, BusStep, PTL DEF PipelineSpec, Spec

(* So readers of the bus see the plain feed, whatever becomes of requests  *)
(* before and after it (bus.rs:167).                                       *)
THEOREM PipelineFeeds == PipelineSpec => ImplementsFeed
BY PipelineHasBus, Refinement, PTL

-----------------------------------------------------------------------------
(* Tokens 1..n lie in disjoint places. *)
Partition(P, n) ==
    /\ UNION {P[i] : i \in DOMAIN P} = 1..n
    /\ \A i, j \in DOMAIN P : i # j => P[i] \cap P[j] = {}

(* A token that moves is not lost, *)
LEMMA Conserved ==
    ASSUME NEW P, NEW Q, NEW n, Partition(P, n), DOMAIN Q = DOMAIN P,
           NEW i \in DOMAIN P, NEW j \in DOMAIN P, i # j,
           NEW x \in P[i], Q[i] = P[i] \ {x}, Q[j] = P[j] \cup {x},
           \A k \in DOMAIN P \ {i, j} : Q[k] = P[k]
    PROVE  Partition(Q, n)
<1>1. \A k \in DOMAIN P : k # i => x \notin P[k]
  BY DEF Partition
<1>2. \A k, l \in DOMAIN Q : k # l => Q[k] \cap Q[l] = {}
  <2> SUFFICES ASSUME NEW k \in DOMAIN P, NEW l \in DOMAIN P, k # l,
                      NEW y \in Q[k], y \in Q[l]
               PROVE  FALSE
    OBVIOUS
  <2>1. CASE y = x
    <3>1. \A m \in DOMAIN P : m # j => x \notin Q[m]
      BY <1>1
    <3> QED BY <2>1, <3>1
  <2>2. CASE y # x
    BY <2>2 DEF Partition
  <2> QED BY <2>1, <2>2
<1>3. UNION {Q[k] : k \in DOMAIN Q} = UNION {P[k] : k \in DOMAIN P}
  <2>1. ASSUME NEW k \in DOMAIN P, NEW y \in Q[k]
        PROVE  \E l \in DOMAIN P : y \in P[l]
    BY <2>1
  <2>2. ASSUME NEW k \in DOMAIN P, NEW y \in P[k]
        PROVE  \E l \in DOMAIN P : y \in Q[l]
    BY <2>2
  <2> QED BY <2>1, <2>2
<1> QED BY <1>2, <1>3 DEF Partition

(* and a new one is the next. *)
LEMMA Issued ==
    ASSUME NEW P, NEW Q, NEW n \in Nat, Partition(P, n), DOMAIN Q = DOMAIN P,
           NEW i \in DOMAIN P, Q[i] = P[i] \cup {n + 1},
           \A k \in DOMAIN P \ {i} : Q[k] = P[k]
    PROVE  Partition(Q, n + 1)
<1>1. \A k \in DOMAIN P : P[k] \subseteq 1..n
  BY DEF Partition
<1>2. \A k \in DOMAIN P : n + 1 \notin P[k]
  BY <1>1
<1>3. \A k, l \in DOMAIN Q : k # l => Q[k] \cap Q[l] = {}
  <2> SUFFICES ASSUME NEW k \in DOMAIN P, NEW l \in DOMAIN P, k # l,
                      NEW y \in Q[k], y \in Q[l]
               PROVE  FALSE
    OBVIOUS
  <2> QED BY <1>2 DEF Partition
<1>4. UNION {Q[k] : k \in DOMAIN Q} = (UNION {P[k] : k \in DOMAIN P}) \cup {n + 1}
  <2>1. ASSUME NEW k \in DOMAIN P, NEW y \in Q[k]
        PROVE  y = n + 1 \/ \E l \in DOMAIN P : y \in P[l]
    BY <2>1
  <2>2. ASSUME NEW k \in DOMAIN P, NEW y \in P[k]
        PROVE  \E l \in DOMAIN P : y \in Q[l]
    BY <2>2
  <2> QED BY <2>1, <2>2
<1>5. 1..n \cup {n + 1} = 1..n + 1
  OBVIOUS
<1> QED BY <1>3, <1>4, <1>5 DEF Partition

-----------------------------------------------------------------------------
(* The lines tasks hold, and the seven places of a kept alert. *)
Appending == InStage({"append", "waiting"})

Lines == {line[w] : w \in Appending}

Places == <<pending, Lines, ToSet(channel), {writing} \ {0}, ToSet(log), unwritten, lost>>

OnePlaceEach == Partition(Places, kept) /\ IsInjective(log) /\ IsInjective(channel)

LEMMA AuditIsPartition == AuditComplete <=> OnePlaceEach
<1>1. ToSet(Places) = {Places[i] : i \in DOMAIN Places}
  BY DEF ToSet
<1> QED BY <1>1 DEF AuditComplete, OnePlaceEach, Partition, Places, pending, Lines, Appending

-----------------------------------------------------------------------------
PipeTyped ==
    /\ stage \in [Workers -> Stages]
    /\ line \in [Workers -> Nat]
    /\ channel \in Seq(Nat)
    /\ writing \in Nat
    /\ log \in Seq(Nat)
    /\ outcome \in [Ends -> Nat]

(* No two tasks append the same line. *)
LinesApart == \A u, v \in Appending : line[u] = line[v] => u = v

TrailInv == PipeTyped /\ LinesApart /\ OnePlaceEach

(* How a step of a task changes what the tasks hold. *)
LEMMA HoldsAsBefore ==
    ASSUME PipeTyped, LinesApart, NEW w \in Workers, NEW from, NEW to, Step(w, from, to),
           from \in {"append", "waiting"} <=> to \in {"append", "waiting"},
           UNCHANGED line
    PROVE  Lines' = Lines /\ LinesApart'
<1>1. Appending' = Appending
  BY DEF Appending, InStage, Step, PipeTyped
<1> QED BY <1>1 DEF Lines, LinesApart

LEMMA TakesUp ==
    ASSUME PipeTyped, LinesApart, NEW w \in Workers, NEW from, NEW to, Step(w, from, to),
           from \notin {"append", "waiting"}, to \in {"append", "waiting"},
           NEW n, n \notin Lines, line' = [line EXCEPT ![w] = n]
    PROVE  Lines' = Lines \cup {n} /\ LinesApart'
<1>1. Appending' = Appending \cup {w} /\ w \notin Appending
  BY DEF Appending, InStage, Step, PipeTyped
<1>2. line'[w] = n /\ \A u \in Appending : line'[u] = line[u] /\ line[u] # n
  BY <1>1 DEF PipeTyped, Lines, Appending, InStage
<1> QED BY <1>1, <1>2 DEF Lines, LinesApart

LEMMA LaysDown ==
    ASSUME PipeTyped, LinesApart, NEW w \in Workers, NEW from, NEW to, Step(w, from, to),
           from \in {"append", "waiting"}, to \notin {"append", "waiting"},
           line' = [line EXCEPT ![w] = 0]
    PROVE  line[w] \in Lines /\ Lines' = Lines \ {line[w]} /\ LinesApart'
<1>1. Appending' = Appending \ {w} /\ w \in Appending
  BY DEF Appending, InStage, Step, PipeTyped
<1>2. \A u \in Appending \ {w} : line'[u] = line[u] /\ line[u] # line[w]
  BY <1>1 DEF PipeTyped, LinesApart, Appending, InStage
<1> QED BY <1>1, <1>2 DEF Lines, LinesApart

(* Steps of the trail, by what they do to the places. *)
LEMMA PlacesAre ==
    /\ DOMAIN Places = 1..7
    /\ Places[1] = pending /\ Places[2] = Lines /\ Places[3] = ToSet(channel)
    /\ Places[4] = {writing} \ {0} /\ Places[5] = ToSet(log)
    /\ Places[6] = unwritten /\ Places[7] = lost
BY DEF Places

LEMMA PlacesStay ==
    ASSUME OnePlaceEach, pending' = pending, Lines' = Lines, UNCHANGED <<kept, audit>>
    PROVE  OnePlaceEach'
BY DEF Places, audit, OnePlaceEach, Partition

(* A kept alert is given to its task. *)
LEMMA TrailKept ==
    ASSUME OnePlaceEach, TypeOK, NEW w \in Workers, PublishKeep(w),
           Lines' = Lines, UNCHANGED audit
    PROVE  OnePlaceEach'
<1>1. kept \in Nat /\ kept' = kept + 1 /\ pending' = pending \cup {kept + 1}
  BY KeepStep DEF PublishKeep, TypeOK
<1>2. /\ DOMAIN Places' = DOMAIN Places /\ 1 \in DOMAIN Places
      /\ Places'[1] = Places[1] \cup {kept + 1}
      /\ \A k \in DOMAIN Places \ {1} : Places'[k] = Places[k]
  BY <1>1 DEF Places, audit
<1>3. Partition(Places', kept + 1)
  BY <1>1, <1>2, Issued DEF OnePlaceEach
<1> QED BY <1>1, <1>3 DEF OnePlaceEach, audit

(* Broadcast, it is the line its task holds. *)
LEMMA TrailBroadcast ==
    ASSUME OnePlaceEach, TypeOK, SendersApart, NEW w \in Workers, PublishSend(w),
           Lines' = Lines \cup {item[w].no}, UNCHANGED audit
    PROVE  OnePlaceEach'
<1>1. kept' = kept /\ item[w].no \in pending /\ pending' = pending \ {item[w].no}
  BY SendStep DEF PublishSend, history, pending
<1>2. /\ DOMAIN Places' = DOMAIN Places /\ 1 \in DOMAIN Places /\ 2 \in DOMAIN Places
      /\ item[w].no \in Places[1] /\ Places'[1] = Places[1] \ {item[w].no}
      /\ Places'[2] = Places[2] \cup {item[w].no}
      /\ \A k \in DOMAIN Places \ {1, 2} : Places'[k] = Places[k]
  BY <1>1 DEF Places, audit
<1>3. Partition(Places', kept)
  BY <1>2, Conserved DEF OnePlaceEach
<1> QED BY <1>1, <1>3 DEF OnePlaceEach, audit

(* A line goes into the channel, where it was not before, *)
LEMMA ChannelTakes ==
    ASSUME OnePlaceEach, PipeTyped, NEW n \in Lines, n \in Nat, channel' = Append(channel, n)
    PROVE  IsInjective(channel') /\ ToSet(channel') = ToSet(channel) \cup {n}
<1>1. n \notin ToSet(channel)
  BY PlacesAre DEF OnePlaceEach, Partition
<1> QED BY <1>1, JoinQueue DEF PipeTyped, OnePlaceEach

LEMMA TrailAppend ==
    ASSUME OnePlaceEach, NEW n \in Lines, Lines' = Lines \ {n}, pending' = pending,
           IsInjective(channel'), ToSet(channel') = ToSet(channel) \cup {n},
           UNCHANGED <<kept, writing, log, unwritten, lost>>
    PROVE  OnePlaceEach'
<1>1. /\ DOMAIN Places' = DOMAIN Places /\ 2 \in DOMAIN Places /\ 3 \in DOMAIN Places
      /\ n \in Places[2] /\ Places'[2] = Places[2] \ {n}
      /\ Places'[3] = Places[3] \cup {n}
      /\ \A k \in DOMAIN Places \ {2, 3} : Places'[k] = Places[k]
  BY DEF Places
<1>2. Partition(Places', kept)
  BY <1>1, Conserved DEF OnePlaceEach
<1> QED BY <1>2 DEF OnePlaceEach

(* or is lost with its task. *)
LEMMA TrailDrop ==
    ASSUME OnePlaceEach, NEW n \in Lines, Lines' = Lines \ {n}, lost' = lost \cup {n},
           pending' = pending, UNCHANGED <<kept, channel, writing, log, unwritten>>
    PROVE  OnePlaceEach'
<1>1. /\ DOMAIN Places' = DOMAIN Places /\ 2 \in DOMAIN Places /\ 7 \in DOMAIN Places
      /\ n \in Places[2] /\ Places'[2] = Places[2] \ {n}
      /\ Places'[7] = Places[7] \cup {n}
      /\ \A k \in DOMAIN Places \ {2, 7} : Places'[k] = Places[k]
  BY DEF Places
<1>2. Partition(Places', kept)
  BY <1>1, Conserved DEF OnePlaceEach
<1> QED BY <1>2 DEF OnePlaceEach

(* The worker takes it out of the channel, *)
LEMMA TrailReceive ==
    ASSUME OnePlaceEach, PipeTyped, WorkerReceive, pending' = pending, Lines' = Lines
    PROVE  OnePlaceEach'
<1> DEFINE n == Head(channel)
<1>1. /\ writing = 0 /\ writing' = n /\ channel' = Tail(channel)
      /\ UNCHANGED <<kept, log, unwritten, lost>>
  BY DEF WorkerReceive, vars, history
<1>2. /\ n \in ToSet(channel) /\ IsInjective(channel')
      /\ ToSet(channel') = ToSet(channel) \ {n}
  BY <1>1, LeaveQueue DEF WorkerReceive, PipeTyped, OnePlaceEach
<1>3. n # 0
  <2>1. n \in UNION {Places[i] : i \in DOMAIN Places}
    BY <1>2, PlacesAre
  <2>2. n \in 1..kept
    BY <2>1 DEF OnePlaceEach, Partition
  <2> QED BY <2>2
<1>4. /\ DOMAIN Places' = DOMAIN Places /\ 3 \in DOMAIN Places /\ 4 \in DOMAIN Places
      /\ n \in Places[3] /\ Places'[3] = Places[3] \ {n}
      /\ Places'[4] = Places[4] \cup {n}
      /\ \A k \in DOMAIN Places \ {3, 4} : Places'[k] = Places[k]
  BY <1>1, <1>2, <1>3 DEF Places
<1>5. Partition(Places', kept)
  BY <1>4, Conserved DEF OnePlaceEach
<1> QED BY <1>1, <1>2, <1>5 DEF OnePlaceEach

(* and writes it, or fails to. *)
LEMMA TrailWrite ==
    ASSUME OnePlaceEach, PipeTyped, WorkerWrite, pending' = pending, Lines' = Lines
    PROVE  OnePlaceEach'
<1>1. /\ writing # 0 /\ writing' = 0 /\ writing \in Nat
      /\ UNCHANGED <<kept, channel, lost>>
  BY DEF WorkerWrite, vars, history, PipeTyped
<1>2. CASE log' = Append(log, writing) /\ UNCHANGED unwritten
  <2>1. writing \notin ToSet(log)
    BY <1>1, PlacesAre DEF OnePlaceEach, Partition
  <2>2. IsInjective(log') /\ ToSet(log') = ToSet(log) \cup {writing}
    BY <1>1, <1>2, <2>1, JoinQueue DEF PipeTyped, OnePlaceEach
  <2>3. /\ DOMAIN Places' = DOMAIN Places /\ 4 \in DOMAIN Places /\ 5 \in DOMAIN Places
        /\ writing \in Places[4] /\ Places'[4] = Places[4] \ {writing}
        /\ Places'[5] = Places[5] \cup {writing}
        /\ \A k \in DOMAIN Places \ {4, 5} : Places'[k] = Places[k]
    BY <1>1, <1>2, <2>2 DEF Places
  <2>4. Partition(Places', kept)
    BY <2>3, Conserved DEF OnePlaceEach
  <2> QED BY <1>1, <2>2, <2>4 DEF OnePlaceEach
<1>3. CASE unwritten' = unwritten \cup {writing} /\ UNCHANGED log
  <2>1. /\ DOMAIN Places' = DOMAIN Places /\ 4 \in DOMAIN Places /\ 6 \in DOMAIN Places
        /\ writing \in Places[4] /\ Places'[4] = Places[4] \ {writing}
        /\ Places'[6] = Places[6] \cup {writing}
        /\ \A k \in DOMAIN Places \ {4, 6} : Places'[k] = Places[k]
    BY <1>1, <1>3 DEF Places
  <2>2. Partition(Places', kept)
    BY <2>1, Conserved DEF OnePlaceEach
  <2> QED BY <1>1, <1>3, <2>2 DEF OnePlaceEach
<1> QED BY <1>2, <1>3 DEF WorkerWrite

-----------------------------------------------------------------------------
LEMMA TrailAtStart == PipelineInit => TrailInv
<1> SUFFICES ASSUME PipelineInit PROVE TrailInv
  OBVIOUS
<1>1. Appending = {} /\ pending = {} /\ ToSet(<<>>) = {} /\ IsInjective(<<>>)
  BY DEF PipelineInit, Init, Appending, InStage, pending, InPhase, ToSet, IsInjective
<1>2. Lines = {} /\ LinesApart
  BY <1>1 DEF Lines, LinesApart
<1>3. PipeTyped
  BY DEF PipelineInit, PipeTyped, Stages, Ends
<1>4. \A i \in 1..7 : Places[i] = {}
  BY <1>1, <1>2 DEF PipelineInit, Places
<1>5. Partition(Places, 0)
  BY <1>4, PlacesAre DEF Partition
<1> QED BY <1>1, <1>2, <1>3, <1>5 DEF PipelineInit, Init, TrailInv, OnePlaceEach

(* Types. *)
LEMMA TaskStepTyped ==
    ASSUME PipeTyped, NEW w \in Workers, NEW from, NEW to \in Stages, Step(w, from, to),
           UNCHANGED outcome \/ \E e \in Ends : End(e),
           UNCHANGED line \/ \E n \in Nat : line' = [line EXCEPT ![w] = n],
           UNCHANGED channel \/ \E n \in Nat : channel' = Append(channel, n),
           UNCHANGED <<writing, log>>
    PROVE  PipeTyped'
<1>1. stage' \in [Workers -> Stages]
  BY DEF PipeTyped, Step
<1>2. outcome' \in [Ends -> Nat]
  <2>1. ASSUME NEW e \in Ends, End(e) PROVE outcome' \in [Ends -> Nat]
    <3>1. outcome[e] + 1 \in Nat
      BY DEF PipeTyped
    <3> QED BY <2>1, <3>1 DEF PipeTyped, End
  <2> QED BY <2>1 DEF PipeTyped
<1>3. line' \in [Workers -> Nat]
  BY DEF PipeTyped
<1>4. channel' \in Seq(Nat)
  <2>1. channel \in Seq(Nat) /\ \A n \in Nat : Append(channel, n) \in Seq(Nat)
    BY DEF PipeTyped
  <2> QED BY <2>1
<1> QED BY <1>1, <1>2, <1>3, <1>4 DEF PipeTyped

LEMMA PipeTypedStays ==
    ASSUME PipeTyped, TypeOK, [PipelineNext]_pipelineVars
    PROVE  PipeTyped'
<1>1. ASSUME NEW w \in Workers,
             \/ Arrive(w) \/ Counted(w) \/ Forward(w) \/ BodyFails(w) \/ DropRequest(w)
      PROVE  PipeTyped'
  <2>1. \E from, to \in Stages : Step(w, from, to)
    BY <1>1 DEF Arrive, Counted, Forward, BodyFails, DropRequest, Stages
  <2>2. UNCHANGED <<line, audit>> /\ (UNCHANGED outcome \/ \E e \in Ends : End(e))
    BY <1>1 DEF Arrive, Counted, Forward, BodyFails, DropRequest, Ends
  <2> QED BY <2>1, <2>2, TaskStepTyped DEF audit
<1>2. ASSUME NEW w \in Workers,
             \/ CheckBlockList(w) \/ CheckLimiter(w) \/ ReadBody(w) \/ CheckRules(w)
      PROVE  PipeTyped'
  <2>1. \E from, to \in Stages : Step(w, from, to)
    BY <1>2 DEF CheckBlockList, CheckLimiter, ReadBody, CheckRules, Stages
  <2>2. UNCHANGED <<line, audit, outcome>>
    BY <1>2 DEF CheckBlockList, CheckLimiter, ReadBody, CheckRules, Quietly
  <2> QED BY <2>1, <2>2, TaskStepTyped DEF audit
<1>3. ASSUME NEW w \in Workers, Report(w) \/ Merged(w) \/ Kept(w) \/ Broadcast(w)
      PROVE  PipeTyped'
  <2>1. \E from, to \in Stages : Step(w, from, to)
    BY <1>3 DEF Report, Merged, Kept, Broadcast, Stages
  <2>2. UNCHANGED audit /\ (UNCHANGED outcome \/ \E e \in Ends : End(e))
    BY <1>3 DEF Report, Merged, Kept, Broadcast, Ends
  <2>3. UNCHANGED line \/ \E n \in Nat : line' = [line EXCEPT ![w] = n]
    <3>1. item[w].no \in Nat
      BY DEF TypeOK
    <3> QED BY <1>3, <3>1 DEF Report, Merged, Kept, Broadcast
  <2> QED BY <2>1, <2>2, <2>3, TaskStepTyped DEF audit
<1>4. ASSUME NEW w \in Workers,
             AppendNow(w) \/ AppendWait(w) \/ AppendAfterWait(w) \/ DropReport(w)
      PROVE  PipeTyped'
  <2>1. \E from, to \in Stages : Step(w, from, to)
    BY <1>4 DEF AppendNow, AppendWait, AppendAfterWait, DropReport, Stages
  <2>2. UNCHANGED <<writing, log>> /\ (UNCHANGED outcome \/ \E e \in Ends : End(e))
    BY <1>4 DEF AppendNow, AppendWait, AppendAfterWait, DropReport, Ends
  <2>3. UNCHANGED line \/ line' = [line EXCEPT ![w] = 0]
    BY <1>4 DEF AppendNow, AppendWait, AppendAfterWait, DropReport
  <2>4. UNCHANGED channel \/ channel' = Append(channel, line[w])
    BY <1>4 DEF AppendNow, AppendWait, AppendAfterWait, DropReport
  <2>5. line[w] \in Nat
    BY DEF PipeTyped
  <2> QED BY <2>1, <2>2, <2>3, <2>4, <2>5, TaskStepTyped
<1>5. CASE WorkerReceive
  <2>1. Head(channel) \in Nat /\ Tail(channel) \in Seq(Nat)
    BY <1>5 DEF WorkerReceive, PipeTyped
  <2> QED BY <1>5, <2>1 DEF WorkerReceive, PipeTyped
<1>6. CASE WorkerWrite
  <2>1. Append(log, writing) \in Seq(Nat)
    BY DEF PipeTyped
  <2> QED BY <1>6, <2>1 DEF WorkerWrite, PipeTyped
<1>7. CASE UNCHANGED pipelineVars
  BY <1>7 DEF pipelineVars, audit, PipeTyped
<1> QED BY <1>1, <1>2, <1>3, <1>4, <1>5, <1>6, <1>7 DEF PipelineNext, Proceed

(* Every step moves at most one line, from one place to another. *)
LEMMA TrailStays ==
    ASSUME TrailInv, FeedInv, [PipelineNext]_pipelineVars
    PROVE  LinesApart' /\ OnePlaceEach'
<1> USE DEF TrailInv, FeedInv
<1>1. ASSUME NEW w \in Workers,
             \/ Arrive(w) \/ Counted(w) \/ Forward(w) \/ BodyFails(w) \/ DropRequest(w)
             \/ Report(w) \/ Merged(w)
      PROVE  LinesApart' /\ OnePlaceEach'
  <2>1. \E from, to \in Stages \ {"append", "waiting"} : Step(w, from, to)
    BY <1>1 DEF Arrive, Counted, Forward, BodyFails, DropRequest, Report, Merged, Stages
  <2>2. UNCHANGED <<line, audit>>
    BY <1>1 DEF Arrive, Counted, Forward, BodyFails, DropRequest, Report, Merged
  <2>3. pending' = pending /\ UNCHANGED kept
    BY <1>1, QuietSteps DEF Arrive, Counted, Forward, BodyFails, DropRequest, Report, Merged
  <2>4. Lines' = Lines /\ LinesApart'
    BY <2>1, <2>2, HoldsAsBefore
  <2> QED BY <2>2, <2>3, <2>4, PlacesStay
<1>2. ASSUME NEW w \in Workers,
             \/ CheckBlockList(w) \/ CheckLimiter(w) \/ ReadBody(w) \/ CheckRules(w)
      PROVE  LinesApart' /\ OnePlaceEach'
  <2>1. \E from, to \in Stages \ {"append", "waiting"} : Step(w, from, to)
    BY <1>2 DEF CheckBlockList, CheckLimiter, ReadBody, CheckRules, Stages
  <2>2. UNCHANGED <<vars, line, audit>>
    BY <1>2 DEF CheckBlockList, CheckLimiter, ReadBody, CheckRules, Quietly
  <2>3. pending' = pending /\ UNCHANGED kept
    BY <2>2 DEF vars, history, pending, InPhase
  <2>4. Lines' = Lines /\ LinesApart'
    BY <2>1, <2>2, HoldsAsBefore
  <2> QED BY <2>2, <2>3, <2>4, PlacesStay
<1>3. ASSUME NEW w \in Workers, Kept(w) PROVE LinesApart' /\ OnePlaceEach'
  <2>1. Step(w, "publish", "publish") /\ PublishKeep(w) /\ UNCHANGED <<line, audit>>
    BY <1>3 DEF Kept
  <2>2. Lines' = Lines /\ LinesApart'
    BY <2>1, HoldsAsBefore
  <2> QED BY <2>1, <2>2, TrailKept
<1>4. ASSUME NEW w \in Workers, Broadcast(w) PROVE LinesApart' /\ OnePlaceEach'
  <2>1. /\ Step(w, "publish", "append") /\ PublishSend(w) /\ UNCHANGED audit
        /\ line' = [line EXCEPT ![w] = item[w].no]
    BY <1>4 DEF Broadcast
  <2>2. item[w].no \in pending
    BY <2>1, SendStep DEF pending
  <2>3. item[w].no \notin Lines
    BY <2>2, PlacesAre DEF OnePlaceEach, Partition
  <2>4. Lines' = Lines \cup {item[w].no} /\ LinesApart'
    BY <2>1, <2>3, TakesUp
  <2> QED BY <2>1, <2>4, TrailBroadcast
<1>5. ASSUME NEW w \in Workers,
             AppendNow(w) \/ AppendWait(w) \/ AppendAfterWait(w) \/ DropReport(w)
      PROVE  LinesApart' /\ OnePlaceEach'
  <2>1. pending' = pending /\ UNCHANGED <<kept, writing, log, unwritten>>
    BY <1>5 DEF AppendNow, AppendWait, AppendAfterWait, DropReport, vars, history,
                pending, InPhase
  <2>2. CASE AppendWait(w)
    <3>1. Step(w, "append", "waiting") /\ UNCHANGED <<line, channel, lost>>
      BY <2>2 DEF AppendWait
    <3>2. Lines' = Lines /\ LinesApart'
      BY <3>1, HoldsAsBefore
    <3> QED BY <2>1, <3>1, <3>2 DEF OnePlaceEach, Partition, Places
  <2>3. CASE AppendNow(w) \/ AppendAfterWait(w)
    <3>1. /\ \E from \in {"append", "waiting"} : Step(w, from, "idle")
          /\ line' = [line EXCEPT ![w] = 0] /\ channel' = Append(channel, line[w])
          /\ UNCHANGED lost
      BY <2>3 DEF AppendNow, AppendAfterWait
    <3>2. line[w] \in Lines /\ Lines' = Lines \ {line[w]} /\ LinesApart'
      BY <3>1, LaysDown
    <3>3. line[w] \in Nat
      BY DEF PipeTyped
    <3>4. IsInjective(channel') /\ ToSet(channel') = ToSet(channel) \cup {line[w]}
      BY <3>1, <3>2, <3>3, ChannelTakes
    <3> QED BY <2>1, <3>1, <3>2, <3>4, TrailAppend
  <2>4. CASE DropReport(w)
    <3>1. /\ Step(w, "waiting", "idle") /\ line' = [line EXCEPT ![w] = 0]
          /\ lost' = lost \cup {line[w]} /\ UNCHANGED channel
      BY <2>4 DEF DropReport
    <3>2. line[w] \in Lines /\ Lines' = Lines \ {line[w]} /\ LinesApart'
      BY <3>1, LaysDown
    <3> QED BY <2>1, <3>1, <3>2, TrailDrop
  <2> QED BY <1>5, <2>2, <2>3, <2>4
<1>6. CASE WorkerReceive \/ WorkerWrite
  <2>1. pending' = pending /\ Lines' = Lines /\ LinesApart'
    BY <1>6 DEF WorkerReceive, WorkerWrite, vars, pending, InPhase, Lines, LinesApart,
                Appending, InStage
  <2> QED BY <1>6, <2>1, TrailReceive, TrailWrite
<1>7. CASE UNCHANGED pipelineVars
  <2>1. /\ pending' = pending /\ Lines' = Lines /\ LinesApart'
        /\ UNCHANGED <<kept, audit>>
    BY <1>7 DEF pipelineVars, vars, history, pending, InPhase, Lines, LinesApart,
                Appending, InStage
  <2> QED BY <2>1, PlacesStay
<1> QED BY <1>1, <1>2, <1>3, <1>4, <1>5, <1>6, <1>7 DEF PipelineNext, Proceed

LEMMA TrailInvariant == PipelineSpec => [](TrailInv /\ FeedInv)
<1>1. TrailInv /\ FeedInv /\ [PipelineNext]_pipelineVars => TrailInv'
  BY PipeTypedStays, TrailStays DEF TrailInv, FeedInv
<1> QED BY <1>1, TrailAtStart, PipelineHasBus, FeedInvariant, PTL DEF PipelineSpec

(* Every kept alert is in one place, and the log has no line twice         *)
(* (main.rs:1487), for any tasks and any capacity of the channel,    *)
(* wherever clients leave and writes fail.                                 *)
THEOREM TrailComplete == PipelineSpec => []AuditComplete
<1>1. TrailInv => AuditComplete
  BY AuditIsPartition DEF TrailInv
<1> QED BY <1>1, TrailInvariant, PTL

-----------------------------------------------------------------------------
Reporting == {"publish", "append", "waiting"}

Busy == Stages \ {"idle"}

Size(S) == Cardinality(InStage(S))

LEMMA SizeType == \A S : Size(S) \in Nat /\ IsFiniteSet(InStage(S))
<1> SUFFICES ASSUME NEW S PROVE Size(S) \in Nat /\ IsFiniteSet(InStage(S))
  OBVIOUS
<1>1. InStage(S) \subseteq Workers
  BY DEF InStage
<1> QED BY <1>1, FS_Subset, FS_CardinalityType, AlertBusAssumption DEF Size

(* A task that changes its stage leaves some sets of stages for others. *)
LEMMA StageCounts ==
    ASSUME PipeTyped, NEW w \in Workers, NEW from \in Stages, NEW to \in Stages,
           Step(w, from, to), NEW S
    PROVE  /\ from \in S <=> to \in S => Size(S)' = Size(S)
           /\ from \in S /\ to \notin S => Size(S)' = Size(S) - 1
           /\ from \notin S /\ to \in S => Size(S)' = Size(S) + 1
<1>1. stage[w] = from /\ stage'[w] = to /\ \A u \in Workers \ {w} : stage'[u] = stage[u]
  BY DEF Step, PipeTyped
<1>2. CASE from \in S <=> to \in S
  <2>1. InStage(S)' = InStage(S)
    BY <1>1, <1>2 DEF InStage
  <2> QED BY <1>2, <2>1 DEF Size
<1>3. CASE from \in S /\ to \notin S
  <2>1. InStage(S)' = InStage(S) \ {w} /\ w \in InStage(S)
    BY <1>1, <1>3 DEF InStage
  <2> QED BY <1>3, <2>1, SizeType, FS_RemoveElement DEF Size
<1>4. CASE from \notin S /\ to \in S
  <2>1. InStage(S)' = InStage(S) \cup {w} /\ w \notin InStage(S)
    BY <1>1, <1>4 DEF InStage
  <2> QED BY <1>4, <2>1, SizeType, FS_AddElement DEF Size
<1> QED BY <1>2, <1>3, <1>4

LEMMA EndCounts ==
    ASSUME PipeTyped, NEW e \in Ends, End(e)
    PROVE  outcome'[e] = outcome[e] + 1 /\ \A f \in Ends \ {e} : outcome'[f] = outcome[f]
BY DEF End, PipeTyped

(* CountersMatchOutcomes, by the sizes. *)
Balanced ==
    /\ blocked = outcome["blocked"] + Cardinality(lost) + Size(Reporting)
    /\ total = outcome["passed"] + outcome["blocked"] + outcome["failed"] + outcome["gone"]
                 + Size(Busy)

LEMMA Numbers ==
    ASSUME TrailInv, FeedInv
    PROVE  /\ total \in Nat /\ blocked \in Nat
           /\ \A e \in Ends : outcome[e] \in Nat
           /\ IsFiniteSet(lost) /\ Cardinality(lost) \in Nat
           /\ Size(Reporting) \in Nat /\ Size(Busy) \in Nat
<1>1. IsFiniteSet(lost)
  <2>1. lost \subseteq 1..kept
    BY PlacesAre DEF TrailInv, OnePlaceEach, Partition
  <2>2. IsFiniteSet(1..kept)
    BY FS_Interval DEF FeedInv, TypeOK
  <2> QED BY <2>1, <2>2, FS_Subset
<1>2. Cardinality(lost) \in Nat
  BY <1>1, FS_CardinalityType
<1> QED BY <1>1, <1>2, SizeType DEF FeedInv, TypeOK, TrailInv, PipeTyped

LEMMA BalancedStays ==
    ASSUME Balanced, TrailInv, FeedInv, [PipelineNext]_pipelineVars
    PROVE  Balanced'
<1> USE Numbers DEF Ends
<1>a. PipeTyped
  BY DEF TrailInv
<1>b. /\ Reporting \subseteq Busy /\ "idle" \notin Busy
      /\ \A s \in Stages : s # "idle" <=> s \in Busy
  BY DEF Reporting, Busy, Stages
<1>1. ASSUME NEW w \in Workers, Arrive(w) PROVE Balanced'
  <2>1. Size(Reporting)' = Size(Reporting) /\ Size(Busy)' = Size(Busy) + 1
    BY <1>a, <1>1, StageCounts DEF Arrive, Reporting, Busy, Stages
  <2>2. total' = total + 1 /\ UNCHANGED <<blocked, lost, outcome>>
    BY <1>1 DEF Arrive, CountAdd, audit
  <2> QED BY <2>1, <2>2 DEF Balanced
<1>2. ASSUME NEW w \in Workers,
             \/ Counted(w) \/ CheckBlockList(w) \/ CheckLimiter(w) \/ ReadBody(w) \/ CheckRules(w)
             \/ Kept(w) \/ Broadcast(w) \/ AppendWait(w)
      PROVE  Balanced'
  <2>1. \E from, to \in Busy :
            Step(w, from, to) /\ (from \in Reporting <=> to \in Reporting)
    BY <1>2 DEF Counted, CheckBlockList, CheckLimiter, ReadBody, CheckRules,
                Kept, Broadcast, AppendWait, Reporting, Busy, Stages
  <2>2. Size(Reporting)' = Size(Reporting) /\ Size(Busy)' = Size(Busy)
    BY <1>a, <2>1, StageCounts DEF Busy
  <2>3. UNCHANGED <<total, blocked, lost, outcome>>
    BY <1>2 DEF Counted, CheckBlockList, CheckLimiter, ReadBody, CheckRules, Quietly, vars,
                Kept, Broadcast, AppendWait, CountPush, PublishKeep, PublishSend, counters, audit
  <2> QED BY <2>2, <2>3 DEF Balanced
<1>3. ASSUME NEW w \in Workers, Forward(w) \/ BodyFails(w) \/ DropRequest(w) PROVE Balanced'
  <2>1. \E from \in Busy \ Reporting : Step(w, from, "idle")
    BY <1>3 DEF Forward, BodyFails, DropRequest, Reporting, Busy, Stages
  <2>2. Size(Reporting)' = Size(Reporting) /\ Size(Busy)' = Size(Busy) - 1
    BY <1>a, <1>b, <2>1, StageCounts DEF Busy, Stages
  <2>3. \E e \in Ends \ {"blocked"} : End(e)
    BY <1>3 DEF Forward, BodyFails, DropRequest
  <2>4. UNCHANGED <<total, blocked, lost>>
    BY <1>3 DEF Forward, BodyFails, DropRequest, Leave, counters, audit
  <2>5. /\ outcome'["blocked"] = outcome["blocked"]
        /\ outcome'["passed"] + outcome'["failed"] + outcome'["gone"]
             = outcome["passed"] + outcome["failed"] + outcome["gone"] + 1
        /\ \A e \in Ends : outcome'[e] \in Nat
    BY <1>a, <2>3, EndCounts
  <2>6. /\ outcome["passed"] \in Nat /\ outcome["failed"] \in Nat /\ outcome["gone"] \in Nat
        /\ outcome["blocked"] \in Nat /\ outcome'["passed"] \in Nat
        /\ outcome'["failed"] \in Nat /\ outcome'["gone"] \in Nat
    BY <2>5
  <2>7. blocked' = outcome'["blocked"] + Cardinality(lost') + Size(Reporting)'
    BY <2>2, <2>4, <2>5 DEF Balanced
  <2>8. total' = outcome'["passed"] + outcome'["blocked"] + outcome'["failed"]
                   + outcome'["gone"] + Size(Busy)'
    <3>1. total = outcome["passed"] + outcome["blocked"] + outcome["failed"]
                    + outcome["gone"] + Size(Busy)
      BY DEF Balanced
    <3>2. total = outcome["blocked"] + Size(Busy)
                    + (outcome["passed"] + outcome["failed"] + outcome["gone"])
      BY <3>1, <2>6
    <3>3. Size(Busy) = Size(Busy)' + 1 /\ Size(Busy)' \in Int
      BY <2>2
    <3>4. total' = outcome'["blocked"] + Size(Busy)'
                     + (outcome'["passed"] + outcome'["failed"] + outcome'["gone"])
      BY <3>2, <3>3, <2>4, <2>5, <2>6
    <3>5. outcome'["blocked"] \in Nat
      BY <2>5
    <3> QED BY <3>3, <3>4, <3>5, <2>6
  <2> QED BY <2>7, <2>8 DEF Balanced
<1>4. ASSUME NEW w \in Workers, Report(w) PROVE Balanced'
  <2>1. Size(Reporting)' = Size(Reporting) + 1 /\ Size(Busy)' = Size(Busy)
    BY <1>a, <1>4, StageCounts DEF Report, Reporting, Busy, Stages
  <2>2. blocked' = blocked + 1 /\ UNCHANGED <<total, lost, outcome>>
    BY <1>4 DEF Report, PublishAdd, audit
  <2> QED BY <2>1, <2>2 DEF Balanced
<1>5. ASSUME NEW w \in Workers, Merged(w) \/ AppendNow(w) \/ AppendAfterWait(w) PROVE Balanced'
  <2>1. \E from \in Reporting : Step(w, from, "idle")
    BY <1>5 DEF Merged, AppendNow, AppendAfterWait, Reporting
  <2>2. Size(Reporting)' = Size(Reporting) - 1 /\ Size(Busy)' = Size(Busy) - 1
    BY <1>a, <1>b, <2>1, StageCounts DEF Busy, Stages, Reporting
  <2>3. End("blocked") /\ UNCHANGED <<total, blocked, lost>>
    BY <1>5 DEF Merged, AppendNow, AppendAfterWait, PublishMerge, vars, counters, audit
  <2>4. /\ outcome'["blocked"] = outcome["blocked"] + 1
        /\ \A e \in Ends \ {"blocked"} : outcome'[e] = outcome[e]
    BY <1>a, <2>3, EndCounts
  <2> QED BY <2>2, <2>3, <2>4 DEF Balanced
<1>6. ASSUME NEW w \in Workers, DropReport(w) PROVE Balanced'
  <2>1. Size(Reporting)' = Size(Reporting) - 1 /\ Size(Busy)' = Size(Busy) - 1
    BY <1>a, <1>6, StageCounts DEF DropReport, Busy, Stages, Reporting
  <2>2. /\ Step(w, "waiting", "idle") /\ End("gone") /\ lost' = lost \cup {line[w]}
        /\ line' = [line EXCEPT ![w] = 0] /\ UNCHANGED <<total, blocked>>
    BY <1>6 DEF DropReport, vars, counters
  <2>3. line[w] \in Lines
    BY <1>a, <2>2, LaysDown DEF TrailInv
  <2>4. line[w] \notin lost
    BY <2>3, PlacesAre DEF TrailInv, OnePlaceEach, Partition
  <2>5. Cardinality(lost') = Cardinality(lost) + 1
    BY <2>2, <2>4, FS_AddElement
  <2>6. /\ outcome'["gone"] = outcome["gone"] + 1
        /\ \A e \in Ends \ {"gone"} : outcome'[e] = outcome[e]
    BY <1>a, <2>2, EndCounts
  <2> QED BY <2>1, <2>2, <2>5, <2>6 DEF Balanced
<1>7. CASE WorkerReceive \/ WorkerWrite \/ UNCHANGED pipelineVars
  <2>1. UNCHANGED <<total, blocked, lost, outcome, stage>>
    BY <1>7 DEF WorkerReceive, WorkerWrite, pipelineVars, vars, counters, audit
  <2>2. Size(Reporting)' = Size(Reporting) /\ Size(Busy)' = Size(Busy)
    BY <2>1 DEF Size, InStage
  <2> QED BY <2>1, <2>2 DEF Balanced
<1> QED BY <1>1, <1>2, <1>3, <1>4, <1>5, <1>6, <1>7 DEF PipelineNext, Proceed

LEMMA BalancedAtStart == PipelineInit => Balanced
<1> SUFFICES ASSUME PipelineInit PROVE Balanced
  OBVIOUS
<1>1. InStage(Reporting) = {} /\ InStage(Busy) = {}
  BY DEF PipelineInit, InStage, Reporting, Busy
<1>2. Size(Reporting) = 0 /\ Size(Busy) = 0 /\ Cardinality({}) = 0
  BY <1>1, FS_EmptySet DEF Size
<1> QED BY <1>2 DEF PipelineInit, Init, Balanced, Ends

(* The panel's counters match what clients saw (main.rs:1309, 1324, 1487), *)
(* for any number of requests at once.                                     *)
THEOREM CountersCorrect == PipelineSpec => []CountersMatchOutcomes
<1>1. Balanced => CountersMatchOutcomes
  BY DEF Balanced, CountersMatchOutcomes, Size, Reporting, Busy
<1> QED BY <1>1, BalancedAtStart, BalancedStays, TrailInvariant, PTL DEF PipelineSpec
=============================================================================
