------------------------- MODULE AlertStreamProofs -------------------------
(***************************************************************************)
(* Theorems about AlertStream, for any sizes of history, channel, page and *)
(* socket, any alerts and any faults: what a session passes on is what was *)
(* broadcast since it subscribed, in order (StreamInOrder, which is        *)
(* inductive once it is known what is idle and what was skipped), and a    *)
(* page that has caught up shows what it was offered (Showing).            *)
(***************************************************************************)
EXTENDS AlertStream, SequenceTheorems, WellFoundedInduction, TLAPS

(* Every alert is broadcast at most once. *)
BroadcastOnce ==
    /\ \A i, j \in DOMAIN feed : feed[i] = feed[j] => i = j
    /\ \A i \in DOMAIN feed : feed[i] \notin pending

(* No session, no frames; what was skipped lies behind the receiver. *)
Behind ==
    /\ session # "open" => hand = Nothing /\ sock = <<>>
    /\ skipped \subseteq {feed[i] : i \in 1..cursor - 1}

(* The Flutter app shows nothing before it has its history and connects.   *)
NothingYet == kind = "flutter" /\ link = "none" => shown = <<>>

(* What was read, and what the answer held that was installed last, is     *)
(* shown or known to be lost.                                              *)
Showing ==
    /\ session = "open" /\ link = "up" => ToSet(read) \subseteq Numbers(shown) \cup lost
    /\ offered \subseteq Numbers(shown) \cup lost

StreamInv == TypeOK /\ BroadcastOnce /\ Behind /\ NothingYet /\ StreamInOrder /\ Showing

-----------------------------------------------------------------------------
LEMMA Constants ==
    /\ MAX_ALERTS \in Nat \ {0} /\ CHANNEL \in Nat \ {0} /\ RECENT \in Nat \ {0}
    /\ PAGE \in Nat \ {0} /\ SOCK \in Nat \ {0}
    /\ MaxKept \in Nat /\ MaxFaults \in Nat /\ RECENT <= PAGE
BY AlertStreamAssumption

(* Lists of entries and the alerts they stand for. *)
LEMMA InNumbers == \A list, n : n \in Numbers(list) <=> \E i \in DOMAIN list : n \in list[i].nos
BY DEF Numbers

LEMMA EntryType == \A key \in Keys, n \in Nat : Entry(key, n) \in Entries /\ Entry(key, n).nos = {n}
BY DEF Entry, Entries

LEMMA Joined ==
    ASSUME NEW s \in Seq(Entries), NEW t \in Seq(Entries)
    PROVE  /\ s \o t \in Seq(Entries) /\ Len(s \o t) = Len(s) + Len(t)
           /\ Numbers(s \o t) = Numbers(s) \cup Numbers(t)
<1> DEFINE u == s \o t
<1>1. /\ u \in Seq(Entries) /\ Len(u) = Len(s) + Len(t)
      /\ Len(s) \in Nat /\ Len(t) \in Nat
      /\ DOMAIN s = 1..Len(s) /\ DOMAIN t = 1..Len(t) /\ DOMAIN u = 1..Len(s) + Len(t)
      /\ \A i \in 1..Len(s) + Len(t) : u[i] = IF i <= Len(s) THEN s[i] ELSE t[i - Len(s)]
  OBVIOUS
<1> HIDE DEF u
<1>2. ASSUME NEW n \in Numbers(u) PROVE n \in Numbers(s) \cup Numbers(t)
  <2>1. PICK i \in DOMAIN u : n \in u[i].nos
    BY <1>2, InNumbers
  <2>2. CASE i <= Len(s)
    BY <1>1, <2>1, <2>2, InNumbers
  <2>3. CASE ~(i <= Len(s))
    <3>1. i - Len(s) \in DOMAIN t /\ u[i] = t[i - Len(s)]
      BY <1>1, <2>3
    <3> QED BY <2>1, <3>1, InNumbers
  <2> QED BY <2>2, <2>3
<1>3. ASSUME NEW n \in Numbers(s) PROVE n \in Numbers(u)
  <2>1. PICK i \in DOMAIN s : n \in s[i].nos
    BY <1>3, InNumbers
  <2>2. i \in DOMAIN u /\ u[i] = s[i]
    BY <1>1
  <2> QED BY <2>1, <2>2, InNumbers
<1>4. ASSUME NEW n \in Numbers(t) PROVE n \in Numbers(u)
  <2>1. PICK i \in DOMAIN t : n \in t[i].nos
    BY <1>4, InNumbers
  <2>2. i + Len(s) \in DOMAIN u /\ u[i + Len(s)] = t[i]
    BY <1>1
  <2> QED BY <2>1, <2>2, InNumbers
<1>5. Numbers(u) = Numbers(s) \cup Numbers(t)
  BY <1>2, <1>3, <1>4
<1> QED BY <1>1, <1>5 DEF u

LEMMA TurnedRound ==
    ASSUME NEW s \in Seq(Entries)
    PROVE  /\ Reverse(s) \in Seq(Entries) /\ Len(Reverse(s)) = Len(s)
           /\ Numbers(Reverse(s)) = Numbers(s)
<1> DEFINE u == Reverse(s)
<1>1. /\ u \in Seq(Entries) /\ Len(u) = Len(s) /\ Len(s) \in Nat
      /\ DOMAIN u = 1..Len(s) /\ DOMAIN s = 1..Len(s)
      /\ \A i \in 1..Len(s) : u[i] = s[Len(s) - i + 1]
  BY DEF Reverse
<1> HIDE DEF u
<1>2. \A i \in 1..Len(s) : Len(s) - i + 1 \in 1..Len(s) /\ Len(s) - (Len(s) - i + 1) + 1 = i
  BY <1>1
<1>3. \A n : n \in Numbers(u) <=> n \in Numbers(s)
  <2>1. ASSUME NEW n, n \in Numbers(u) PROVE n \in Numbers(s)
    <3>1. PICK i \in 1..Len(s) : n \in u[i].nos
      BY <1>1, <2>1, InNumbers
    <3> QED BY <1>1, <1>2, <3>1, InNumbers
  <2>2. ASSUME NEW n, n \in Numbers(s) PROVE n \in Numbers(u)
    <3>1. PICK i \in 1..Len(s) : n \in s[i].nos
      BY <1>1, <2>2, InNumbers
    <3>2. u[Len(s) - i + 1] = s[i]
      BY <1>1, <1>2, <3>1
    <3> QED BY <1>1, <1>2, <3>1, <3>2, InNumbers
  <2> QED BY <2>1, <2>2
<1>4. Numbers(u) = Numbers(s)
  BY <1>3
<1> QED BY <1>1, <1>4 DEF u

LEMMA LastOff ==
    ASSUME NEW s \in Seq(Entries), s # <<>>
    PROVE  /\ Front(s) \in Seq(Entries) /\ Len(Front(s)) = Len(s) - 1
           /\ Last(s) \in Entries
           /\ Numbers(s) = Numbers(Front(s)) \cup Last(s).nos
<1> DEFINE u == Front(s)
<1>1. /\ Len(s) \in Nat \ {0} /\ DOMAIN s = 1..Len(s) /\ \A i \in 1..Len(s) : s[i] \in Entries
  BY EmptySeq
<1>2. /\ u \in Seq(Entries) /\ Len(u) = Len(s) - 1
      /\ DOMAIN u = 1..Len(s) - 1
      /\ \A i \in 1..Len(s) - 1 : u[i] = s[i]
  <2>1. /\ u \in Seq(Entries)
        /\ Len(u) = IF 1 <= Len(s) - 1 THEN (Len(s) - 1) - 1 + 1 ELSE 0
        /\ \A i \in 1..(Len(s) - 1) - 1 + 1 : u[i] = s[1 + i - 1]
    BY <1>1, SubSeqProperties DEF Front
  <2> DEFINE m == Len(s) - 1
  <2>2. m \in Nat /\ (IF 1 <= m THEN m - 1 + 1 ELSE 0) = m /\ m - 1 + 1 = m
    BY <1>1
  <2>3. Len(u) = m /\ u \in Seq(Entries)
    BY <2>1, <2>2
  <2>4. ASSUME NEW i \in 1..m PROVE u[i] = s[i]
    <3> HIDE DEF u
    <3>1. i \in 1..m - 1 + 1
      BY <2>2
    <3>2. u[i] = s[1 + i - 1]
      BY <2>1, <3>1
    <3>3. 1 + i - 1 = i
      OBVIOUS
    <3> QED BY <3>2, <3>3
  <2> HIDE DEF u, m
  <2>5. DOMAIN u = 1..m
    BY <2>2, <2>3
  <2> QED BY <2>3, <2>4, <2>5 DEF m
<1> HIDE DEF u
<1>3. \A n : n \in Numbers(s) <=> n \in Numbers(u) \cup Last(s).nos
  <2>1. ASSUME NEW n, n \in Numbers(s) PROVE n \in Numbers(u) \cup Last(s).nos
    <3>1. PICK i \in 1..Len(s) : n \in s[i].nos
      BY <1>1, <2>1, InNumbers
    <3>2. CASE i = Len(s)
      BY <3>1, <3>2 DEF Last
    <3>3. CASE i # Len(s)
      <4>1. i \in 1..Len(s) - 1
        <5> DEFINE len == Len(s)
        <5>1. len \in Nat \ {0} /\ i \in 1..len /\ i # len
          BY <1>1, <3>3
        <5> HIDE DEF len
        <5>2. i \in 1..len - 1
          BY <5>1
        <5> QED BY <5>2 DEF len
      <4>2. i \in DOMAIN u /\ u[i] = s[i]
        BY <1>2, <4>1
      <4> QED BY <3>1, <4>2, InNumbers
    <3> QED BY <3>2, <3>3
  <2>2. ASSUME NEW n, n \in Numbers(u) PROVE n \in Numbers(s)
    <3>1. PICK i \in DOMAIN u : n \in u[i].nos
      BY <2>2, InNumbers
    <3>2. i \in DOMAIN s /\ u[i] = s[i]
      BY <1>1, <1>2
    <3> QED BY <3>1, <3>2, InNumbers
  <2>3. ASSUME NEW n, n \in Last(s).nos PROVE n \in Numbers(s)
    BY <1>1, <2>3, InNumbers DEF Last
  <2> QED BY <2>1, <2>2, <2>3
<1>4. Numbers(s) = Numbers(u) \cup Last(s).nos
  BY <1>3
<1> QED BY <1>1, <1>2, <1>4 DEF u, Last

LEMMA OneMoreIn ==
    ASSUME NEW s \in Seq(Entries), NEW i \in DOMAIN s, NEW n \in Nat,
           NEW t, t = [j \in DOMAIN s |-> t[j]],
           t[i] = [s[i] EXCEPT !.nos = @ \cup {n}],
           \A j \in DOMAIN s \ {i} : t[j] = s[j]
    PROVE  /\ t \in Seq(Entries) /\ Len(t) = Len(s)
           /\ Numbers(t) = Numbers(s) \cup {n}
<1> DEFINE more == [s[i] EXCEPT !.nos = @ \cup {n}]
<1>1. /\ more \in Entries /\ more.nos = s[i].nos \cup {n}
  <2>1. s[i] \in Entries
    OBVIOUS
  <2> QED BY <2>1 DEF Entries
<1>2. /\ t \in Seq(Entries) /\ Len(t) = Len(s) /\ DOMAIN t = DOMAIN s
      /\ t[i] = more /\ \A j \in DOMAIN s \ {i} : t[j] = s[j]
  <2> HIDE DEF more
  <2>1. DOMAIN t = DOMAIN s /\ t[i] = more
    BY DEF more
  <2>2. Len(s) \in Nat /\ DOMAIN s = 1..Len(s) /\ \A j \in 1..Len(s) : s[j] \in Entries
    OBVIOUS
  <2>3. \A j \in 1..Len(s) : t[j] \in Entries
    BY <1>1, <2>1, <2>2
  <2>4. t \in [1..Len(s) -> Entries]
    BY <2>2, <2>3
  <2>5. t \in Seq(Entries) /\ Len(t) = Len(s)
    BY <2>2, <2>4
  <2> QED BY <2>1, <2>5
<1> HIDE DEF more
<1>3. \A m : m \in Numbers(t) <=> m \in Numbers(s) \cup {n}
  <2>1. ASSUME NEW m, m \in Numbers(t) PROVE m \in Numbers(s) \cup {n}
    <3>1. PICK j \in DOMAIN t : m \in t[j].nos
      BY <2>1, InNumbers
    <3> QED BY <3>1, <1>1, <1>2, InNumbers
  <2>2. ASSUME NEW m, m \in Numbers(s) PROVE m \in Numbers(t)
    <3>1. PICK j \in DOMAIN s : m \in s[j].nos
      BY <2>2, InNumbers
    <3> QED BY <3>1, <1>1, <1>2, InNumbers
  <2>3. n \in Numbers(t)
    BY <1>1, <1>2, InNumbers
  <2> QED BY <2>1, <2>2, <2>3
<1>4. Numbers(t) = Numbers(s) \cup {n}
  BY <1>3
<1> QED BY <1>2, <1>4

(* A set of positions has a first one. *)
LEMMA First ==
    ASSUME NEW S, S \subseteq Nat, S # {}
    PROVE  Min(S) \in S
<1>1. PICK x \in S : \A y \in S : ~ (<<y, x>> \in OpToRel(<, Nat))
  BY NatLessThanWellFounded, WFMin
<1>2. \A y \in S : ~ (y < x)
  BY <1>1 DEF OpToRel
<1>3. \A y \in S : x <= y
  BY <1>2
<1> QED BY <1>3 DEF Min

(* A message adds its alert to the page, and takes nothing off it that is  *)
(* not known to be lost.                                                   *)
LEMMA MessageShown ==
    ASSUME BusTypes, PageTypes, NEW n \in 1..kept, OnMessage(n)
    PROVE  /\ shown' \in Seq(Entries) /\ Len(shown') <= PAGE /\ lost' \subseteq Nat
           /\ Numbers(shown) \cup lost \cup {n} \subseteq Numbers(shown') \cup lost'
<1> DEFINE alike == {i \in DOMAIN shown : shown[i].key = made[n]}
           entry == Entry(made[n], n)
           list == <<entry>> \o shown
<1>1. shown \in Seq(Entries) /\ Len(shown) \in Nat /\ Len(shown) <= PAGE /\ lost \subseteq Nat
  BY DEF PageTypes
<1>2. n \in Nat /\ made[n] \in Keys
  BY DEF BusTypes
<1>3. CASE kind = "web" /\ alike # {}
  <2> DEFINE i == Min(alike)
  <2>1. alike \subseteq Nat /\ alike \subseteq DOMAIN shown
    BY <1>1
  <2>2. i \in DOMAIN shown
    <3> HIDE DEF alike
    <3> QED BY <2>1, <1>3, First
  <2>3. shown' = [shown EXCEPT ![i].nos = @ \cup {n}] /\ lost' = lost
    BY <1>3 DEF OnMessage, CountIn
  <2> HIDE DEF i, alike
  <2>4. /\ shown' = [j \in DOMAIN shown |-> shown'[j]]
        /\ shown'[i] = [shown[i] EXCEPT !.nos = @ \cup {n}]
        /\ \A j \in DOMAIN shown \ {i} : shown'[j] = shown[j]
    BY <2>2, <2>3
  <2>5. /\ shown' \in Seq(Entries) /\ Len(shown') = Len(shown)
        /\ Numbers(shown') = Numbers(shown) \cup {n}
    BY <1>1, <1>2, <2>2, <2>4, OneMoreIn
  <2> QED BY <1>1, <2>3, <2>5
<1>4. CASE ~(kind = "web" /\ alike # {})
  <2>1. OnTop(entry)
    BY <1>4 DEF OnMessage
  <2>2. entry \in Entries /\ entry.nos = {n}
    BY <1>2, EntryType
  <2> HIDE DEF entry
  <2>3. /\ <<entry>> \in Seq(Entries) /\ Len(<<entry>>) = 1
        /\ Numbers(<<entry>>) = {n}
    <3>1. DOMAIN <<entry>> = {1} /\ <<entry>>[1] = entry
      OBVIOUS
    <3> QED BY <2>2, <3>1 DEF Numbers
  <2>4. /\ list \in Seq(Entries) /\ Len(list) = 1 + Len(shown)
        /\ Numbers(list) = {n} \cup Numbers(shown)
    BY <1>1, <2>3, Joined
  <2>5. /\ shown' = IF Len(list) > PAGE THEN Front(list) ELSE list
        /\ lost' = IF Len(list) > PAGE THEN lost \cup Last(list).nos ELSE lost
    BY <2>1 DEF OnTop
  <2>6. list # <<>>
    BY <1>1, <2>4
  <2> HIDE DEF list
  <2>7. CASE Len(list) > PAGE
    <3>1. /\ shown' \in Seq(Entries) /\ Len(shown') = Len(list) - 1
          /\ Last(list) \in Entries
          /\ Numbers(list) = Numbers(shown') \cup Last(list).nos
          /\ lost' = lost \cup Last(list).nos
      BY <2>4, <2>5, <2>6, <2>7, LastOff
    <3>2. Last(list).nos \subseteq Nat
      BY <3>1 DEF Entries
    <3>3. Len(shown') <= PAGE
      BY <1>1, <2>4, <3>1, Constants
    <3> QED BY <1>1, <2>4, <3>1, <3>2, <3>3
  <2>8. CASE ~(Len(list) > PAGE)
    BY <1>1, <2>4, <2>5, <2>8, Constants
  <2> QED BY <2>7, <2>8
<1> QED BY <1>3, <1>4

(* The answer to GET /api/alerts is as long as it may be. *)
LEMMA AnswerType ==
    ASSUME NEW h \in Seq([key : Keys, count : Nat, no : Nat]), NEW a,
           a = LET newest == Reverse(h)
               IN  SubSeq([i \in DOMAIN newest |-> Entry(newest[i].key, newest[i].no)], 1,
                          IF Len(newest) < RECENT THEN Len(newest) ELSE RECENT)
    PROVE  a \in Seq(Entries) /\ Len(a) <= RECENT
<1> DEFINE newest == Reverse(h)
           list == [i \in DOMAIN newest |-> Entry(newest[i].key, newest[i].no)]
           top == IF Len(newest) < RECENT THEN Len(newest) ELSE RECENT
<1>1. newest \in Seq([key : Keys, count : Nat, no : Nat]) /\ Len(newest) \in Nat
  <2>1. newest \in Seq([key : Keys, count : Nat, no : Nat])
    <3> DEFINE T == [key : Keys, count : Nat, no : Nat]
    <3> HIDE DEF T
    <3>1. h \in Seq(T) => Reverse(h) \in Seq(T)
      BY DEF Reverse
    <3> QED BY <3>1 DEF T
  <2> HIDE DEF newest
  <2> QED BY <2>1
<1> HIDE DEF newest
<1>2. list \in Seq(Entries) /\ Len(list) = Len(newest)
  <2>1. \A i \in 1..Len(newest) : Entry(newest[i].key, newest[i].no) \in Entries
    <3> TAKE i \in 1..Len(newest)
    <3>1. newest[i] \in [key : Keys, count : Nat, no : Nat]
      <4> DEFINE T == [key : Keys, count : Nat, no : Nat]
      <4>1. newest \in Seq(T)
        BY <1>1
      <4> HIDE DEF T
      <4>2. newest[i] \in T
        BY <4>1
      <4> QED BY <4>2 DEF T
    <3>2. newest[i].key \in Keys /\ newest[i].no \in Nat
      BY <3>1
    <3> QED BY <3>2, EntryType
  <2>2. DOMAIN newest = 1..Len(newest)
    BY <1>1
  <2> QED BY <1>1, <2>1, <2>2
<1>3. a = SubSeq(list, 1, top)
  BY DEF newest
<1> HIDE DEF list
<1>4. top \in Nat /\ top <= Len(list) /\ top <= RECENT
  BY <1>1, <1>2, Constants
<1> HIDE DEF top
<1>5. a \in Seq(Entries) /\ Len(a) = IF 1 <= top THEN top - 1 + 1 ELSE 0
  <2>1. \A i \in 1..top : list[i] \in Entries
    BY <1>2, <1>4
  <2>2. top \in Int /\ 1 \in Int
    BY <1>4
  <2>3. /\ SubSeq(list, 1, top) \in Seq(Entries)
        /\ Len(SubSeq(list, 1, top)) = IF 1 <= top THEN top - 1 + 1 ELSE 0
    BY <2>1, <2>2, SubSeqProperties
  <2> QED BY <2>3, <1>3
<1>6. RECENT \in Nat
  BY Constants
<1> QED BY <1>4, <1>5, <1>6

-----------------------------------------------------------------------------
(* What is broadcast, kept and waiting is typed. *)
LEMMA BusTyped == StreamInv /\ [Next]_vars => BusTypes'
<1> SUFFICES ASSUME StreamInv, [Next]_vars PROVE BusTypes'
  OBVIOUS
<1> USE DEF StreamInv, TypeOK
<1>1. ASSUME NEW key \in Keys, NewAlert(key) PROVE BusTypes'
  <2> DEFINE room == IF Len(alerts) = MAX_ALERTS THEN Tail(alerts) ELSE alerts
             one == [key |-> key, count |-> 1, no |-> kept + 1]
  <2>1. /\ alerts' = Append(room, one) /\ kept' = kept + 1 /\ pending' = pending \cup {kept + 1}
        /\ feed' = feed /\ made' = Append(made, key) /\ kept < MaxKept
    BY <1>1 DEF NewAlert, Keep
  <2>2. room \in Seq([key : Keys, count : Nat, no : Nat])
    <3>1. Len(alerts) = MAX_ALERTS => alerts # <<>>
      BY Constants DEF BusTypes
    <3> QED BY <3>1 DEF BusTypes
  <2>3. kept \in Nat /\ one \in [key : Keys, count : Nat, no : Nat]
    BY Constants DEF BusTypes
  <2>4. alerts' \in Seq([key : Keys, count : Nat, no : Nat])
    <3> HIDE DEF room, one
    <3> QED BY <2>1, <2>2, <2>3
  <2>5. pending' \cup ToSet(feed') \subseteq 1..kept'
    BY <2>1, <2>3 DEF BusTypes
  <2>6. kept' \in 0..MaxKept /\ made' \in Seq(Keys) /\ Len(made') = kept'
    BY <2>1, <2>3, Constants DEF BusTypes
  <2> QED BY <2>1, <2>4, <2>5, <2>6 DEF BusTypes
<1>2. ASSUME NEW n \in pending, Broadcast(n) PROVE BusTypes'
  <2>1. /\ pending' = pending \ {n} /\ feed' = Append(feed, n)
        /\ UNCHANGED <<alerts, kept, made>>
    BY <1>2 DEF Broadcast, Send
  <2>2. n \in Nat /\ n \in 1..kept
    BY DEF BusTypes
  <2>3. feed' \in Seq(Nat)
    BY <2>1, <2>2 DEF BusTypes
  <2>4. ToSet(feed') \subseteq 1..kept
    BY <2>1, <2>2 DEF BusTypes, ToSet
  <2> QED BY <2>1, <2>3, <2>4 DEF BusTypes
<1>3. CASE Restart
  BY <1>3 DEF Restart, BusTypes
<1>4. CASE UNCHANGED bus
  BY <1>4 DEF bus, feedVars, BusTypes
<1>5. Next => \/ \E key \in Keys : NewAlert(key)
              \/ \E n \in pending : Broadcast(n)
              \/ Restart
              \/ UNCHANGED bus
  BY DEF Next, Accept, Subscribe, Take, Lag, Beat, Push, End, KernelGivesUp, Answer,
         FetchFails, Install, Connect, ConnectFails, Read, ShowFatal, ShowNothing,
         ShowMistake, SaveSettings, Disconnect, Outage, Recover, Vanish
<1> QED BY <1>1, <1>2, <1>3, <1>4, <1>5 DEF vars

(* So is what the page holds; *)
LEMMA PageTyped == StreamInv /\ [Next]_vars => PageTypes'
<1> SUFFICES ASSUME StreamInv, [Next]_vars PROVE PageTypes'
  OBVIOUS
<1>1. BusTypes /\ PageTypes /\ ServerTypes
  BY DEF StreamInv, TypeOK
<1>2. CASE Accept \/ Connect \/ ConnectFails \/ FetchFails \/ Disconnect \/ Outage
  BY <1>1, <1>2 DEF Accept, Connect, ConnectFails, FetchFails, Disconnect, Outage, history,
     PageTypes
<1>3. CASE ShowFatal \/ ShowNothing \/ ShowMistake
  BY <1>1, <1>3 DEF ShowFatal, ShowNothing, ShowMistake, history, PageTypes
<1>4. CASE SaveSettings \/ Vanish
  <2>1. <<>> \in Seq(Entries) /\ Len(<<>>) <= PAGE
    BY Constants
  <2>2. CASE SaveSettings
    <3>1. asked' \subseteq BOOLEAN
      <4>1. asked' = (IF kind = "web" THEN asked ELSE {}) \cup {RequestPasses'}
        BY <2>2 DEF SaveSettings
      <4>2. RequestPasses' \in BOOLEAN
        BY DEF RequestPasses
      <4>3. asked \subseteq BOOLEAN
        BY <1>1 DEF PageTypes
      <4> QED BY <4>1, <4>2, <4>3
    <3>2. link' \in {"connecting", "none"} /\ answers' = answers /\ shown' = <<>>
          /\ fatal' = FALSE /\ box' = FALSE /\ offered' = {} /\ lost' = {}
      BY <2>2 DEF SaveSettings
    <3> QED BY <1>1, <2>1, <3>1, <3>2 DEF PageTypes
  <2>3. CASE Vanish
    <3>1. link' = "dead" /\ answers' = {} /\ shown' = <<>> /\ UNCHANGED <<asked, fatal, box>>
          /\ offered' = {} /\ lost' = {}
      BY <2>3 DEF Vanish
    <3> QED BY <1>1, <2>1, <3>1 DEF PageTypes
  <2> QED BY <1>4, <2>2, <2>3
<1>5. CASE Answer
  <2>1. PICK a : /\ answers' = answers \cup {a}
                 /\ a \in Seq(Entries) /\ Len(a) <= RECENT
    <3> DEFINE a == LET newest == Reverse(alerts)
                    IN  SubSeq([i \in DOMAIN newest |-> Entry(newest[i].key, newest[i].no)], 1,
                               IF Len(newest) < RECENT THEN Len(newest) ELSE RECENT)
    <3>1. answers' = answers \cup {a}
      BY <1>5 DEF Answer
    <3>2. a \in Seq(Entries) /\ Len(a) <= RECENT
      BY <1>1, AnswerType DEF BusTypes
    <3> HIDE DEF a
    <3> QED BY <3>1, <3>2
  <2>2. UNCHANGED <<link, asked, shown, fatal, box, offered, lost>>
    BY <1>5 DEF Answer, history
  <2> QED BY <1>1, <2>1, <2>2 DEF PageTypes
<1>6. ASSUME NEW list \in answers, Install(list) PROVE PageTypes'
  <2>1. /\ link' \in {link, "connecting"} /\ answers' = answers \ {list}
        /\ offered' = Numbers(list) /\ UNCHANGED <<asked, fatal, box>>
    BY <1>6 DEF Install
  <2>2. list \in Seq(Entries) /\ Len(list) \in Nat /\ Len(list) <= PAGE
    <3>1. list \in Seq(Entries) /\ Len(list) <= RECENT
      BY <1>1, <1>6 DEF PageTypes
    <3> QED BY <3>1, Constants
  <2>3. \A l \in Seq(Entries) : Numbers(l) \subseteq Nat
    <3> TAKE l \in Seq(Entries)
    <3>1. \A i \in DOMAIN l : l[i] \in Entries
      OBVIOUS
    <3> QED BY <3>1 DEF Numbers, Entries
  <2>4. CASE kind = "web"
    <3>1. shown' = Reverse(list) /\ lost' = lost \cup (Numbers(shown) \ Numbers(list))
      BY <1>6, <2>4 DEF Install
    <3>2. shown' \in Seq(Entries) /\ Len(shown') = Len(list)
      BY <2>2, <3>1, TurnedRound
    <3>3. Numbers(shown) \subseteq Nat
      BY <1>1, <2>3 DEF PageTypes
    <3> QED BY <1>1, <2>1, <2>2, <2>3, <3>1, <3>2, <3>3 DEF PageTypes
  <2>5. CASE kind # "web"
    <3>1. shown' = shown \o list /\ lost' = lost /\ link = "none"
      BY <1>6, <2>5 DEF Install
    <3>2. shown = <<>>
      BY <2>5, <3>1 DEF StreamInv, NothingYet, TypeOK, WorldTypes
    <3>3. shown' = list
      BY <2>2, <3>1, <3>2
    <3> QED BY <1>1, <2>1, <2>2, <2>3, <3>1, <3>3 DEF PageTypes
  <2> QED BY <2>4, <2>5
<1>7. CASE Read
  <2>1. UNCHANGED <<link, asked, answers, fatal, box, offered>>
    BY <1>7 DEF Read
  <2>2. CASE Head(sock) = Ping
    BY <1>1, <1>7, <2>1, <2>2 DEF Read, PageTypes
  <2>3. CASE Head(sock) # Ping
    <3>1. OnMessage(Head(sock))
      BY <1>7, <2>3 DEF Read
    <3>2. Head(sock) \in 1..kept
      BY <1>1, <1>7, <2>3 DEF Read, ServerTypes, ToSet
    <3> QED BY <1>1, <2>1, <3>1, <3>2, MessageShown DEF PageTypes
  <2> QED BY <2>2, <2>3
<1>8. CASE UNCHANGED <<page, offered, lost>>
  BY <1>1, <1>8 DEF page, PageTypes
<1>9. Next => \/ Accept \/ Connect \/ ConnectFails \/ FetchFails \/ Disconnect \/ Outage
              \/ ShowFatal \/ ShowNothing \/ ShowMistake \/ SaveSettings \/ Vanish \/ Answer
              \/ (\E list \in answers : Install(list)) \/ Read
              \/ UNCHANGED <<page, offered, lost>>
  BY DEF Next, history, NewAlert, Broadcast, Subscribe, Take, Lag, Beat, Push, End,
         KernelGivesUp, Recover, Restart
<1> QED BY <1>2, <1>3, <1>4, <1>5, <1>6, <1>7, <1>8, <1>9 DEF vars, history

(* what the session holds, *)
LEMMA ServerTyped == StreamInv /\ [Next]_vars => ServerTypes'
<1> SUFFICES ASSUME StreamInv, [Next]_vars PROVE ServerTypes'
  OBVIOUS
<1>1. BusTypes /\ PageTypes /\ ServerTypes
  BY DEF StreamInv, TypeOK
<1>2. /\ feed \in Seq(Nat) /\ Len(feed) \in Nat /\ kept \in Nat
      /\ {since, cursor} \subseteq Nat /\ since < cursor /\ cursor <= Len(feed) + 1
  BY <1>1, Constants DEF BusTypes, ServerTypes
<1>3. ASSUME NEW key \in Keys, NewAlert(key) PROVE ServerTypes'
  <2>1. feed' = feed /\ kept' = kept + 1 /\ UNCHANGED <<server, since, read, skipped>>
    BY <1>3 DEF NewAlert, Keep, history
  <2> QED BY <1>1, <1>2, <2>1 DEF server, ServerTypes
<1>4. ASSUME NEW n \in pending, Broadcast(n) PROVE ServerTypes'
  <2>1. feed' = Append(feed, n) /\ UNCHANGED <<kept, server, since, read, skipped>>
    BY <1>4 DEF Broadcast, Send, history
  <2>2. Len(feed') = Len(feed) + 1
    BY <1>2, <2>1
  <2> QED BY <1>1, <1>2, <2>1, <2>2 DEF server, ServerTypes
<1>5. CASE Accept \/ KernelGivesUp
  BY <1>1, <1>5 DEF Accept, KernelGivesUp, bus, feedVars, history, ServerTypes
<1>6. CASE Subscribe
  <2>1. /\ UNCHANGED <<feed, kept, hand, sock, broken>> /\ session' = "open"
        /\ cursor' = Len(feed) + 1 /\ since' = Len(feed) /\ read' = <<>> /\ skipped' = {}
    BY <1>6 DEF Subscribe, bus, feedVars
  <2> QED BY <1>1, <1>2, <2>1 DEF ServerTypes
<1>7. CASE Take
  <2>1. /\ UNCHANGED <<feed, kept, session, sock, broken, since, read, skipped>>
        /\ cursor \in DOMAIN feed /\ hand' = feed[cursor] /\ cursor' = cursor + 1
    BY <1>7 DEF Take, bus, feedVars, history
  <2>2. cursor' \in Nat /\ since' < cursor' /\ cursor' <= Len(feed') + 1
    BY <1>2, <2>1
  <2>3. hand' \in 1..kept
    BY <1>1, <2>1 DEF BusTypes, ToSet
  <2> QED BY <1>1, <2>1, <2>2, <2>3 DEF ServerTypes
<1>8. CASE Lag
  <2>1. /\ UNCHANGED <<feed, kept, session, hand, sock, broken, since, read>>
        /\ Len(feed) - cursor >= CHANNEL /\ cursor' = Len(feed) - CHANNEL + 1
        /\ skipped' = skipped \cup {feed[i] : i \in cursor..Len(feed) - CHANNEL}
    BY <1>8 DEF Lag, bus, feedVars
  <2>2. cursor' \in Nat /\ since' < cursor' /\ cursor' <= Len(feed') + 1
    BY <1>2, <2>1, Constants
  <2>3. \A i \in cursor..Len(feed) - CHANNEL : feed[i] \in Nat
    <3>1. DOMAIN feed = 1..Len(feed) /\ \A i \in 1..Len(feed) : feed[i] \in Nat
      BY <1>2
    <3>2. cursor >= 1 /\ cursor \in Nat
      BY <1>2
    <3>3. cursor..Len(feed) - CHANNEL \subseteq 1..Len(feed)
      BY <1>2, <3>2, Constants
    <3> QED BY <3>1, <3>3
  <2>4. skipped' \subseteq Nat
    BY <1>1, <2>1, <2>3 DEF ServerTypes
  <2> QED BY <1>1, <2>1, <2>2, <2>4 DEF ServerTypes
<1>9. CASE Beat
  BY <1>1, <1>9 DEF Beat, bus, feedVars, history, ServerTypes
<1>10. CASE Push
  <2>1. /\ UNCHANGED <<feed, kept, session, cursor, broken, since, read, skipped>>
        /\ hand # Nothing /\ Len(sock) < SOCK /\ sock' = Append(sock, hand) /\ hand' = Nothing
    BY <1>10 DEF Push, bus, feedVars, history
  <2>2. sock \in Seq(Int) /\ hand \in Int /\ Len(sock) \in Nat
    BY <1>1, <1>2 DEF ServerTypes, Nothing, Ping
  <2>3. sock' \in Seq(Int) /\ Len(sock') = Len(sock) + 1
    BY <2>1, <2>2
  <2>4. Len(sock') <= SOCK
    BY <2>1, <2>2, <2>3, Constants
  <2>5. ToSet(sock') \subseteq ToSet(sock) \cup {hand}
    BY <2>1, <2>2 DEF ToSet
  <2> QED BY <1>1, <2>1, <2>3, <2>4, <2>5 DEF ServerTypes
<1>11. CASE End \/ Restart
  <2>1. /\ UNCHANGED <<feed, kept>> /\ cursor' = 1 /\ since' = 0
        /\ session' = "none" /\ hand' = Nothing /\ sock' = <<>> /\ broken' = FALSE
        /\ read' = <<>> /\ skipped' = {}
    BY <1>11 DEF End, Restart, Closed, bus, feedVars
  <2>2. /\ <<>> \in Seq(Int) /\ <<>> \in Seq(Nat) /\ Len(<<>>) = 0 /\ ToSet(<<>>) = {}
        /\ 0 <= SOCK /\ 1 <= Len(feed) + 1
    BY <1>2, Constants DEF ToSet
  <2>3. /\ {since', cursor'} \subseteq Nat /\ since' < cursor' /\ cursor' <= Len(feed') + 1
        /\ sock' \in Seq(Int) /\ Len(sock') <= SOCK /\ ToSet(sock') = {}
        /\ read' \in Seq(Nat) /\ skipped' \subseteq Nat
    BY <2>1, <2>2
  <2> QED BY ONLY <2>1, <2>3 DEF ServerTypes
<1>12. CASE Read
  <2>1. /\ UNCHANGED <<feed, kept, session, cursor, hand, broken, since, skipped>>
        /\ sock # <<>> /\ sock' = Tail(sock)
        /\ read' = IF Head(sock) = Ping THEN read ELSE Append(read, Head(sock))
    BY <1>12 DEF Read, bus, feedVars
  <2>2. sock \in Seq(Int) /\ Len(sock) \in Nat /\ Len(sock) <= SOCK
    BY <1>1 DEF ServerTypes
  <2>3. /\ sock' \in Seq(Int) /\ Len(sock') = Len(sock) - 1
        /\ ToSet(sock') \subseteq ToSet(sock) /\ Head(sock) \in ToSet(sock)
    BY <2>1, <2>2 DEF ToSet
  <2>4. Len(sock') <= SOCK
    BY <2>2, <2>3, Constants
  <2>5. Head(sock) \in {Ping} \cup 1..kept
    BY <1>1, <2>3 DEF ServerTypes
  <2>6. read' \in Seq(Nat)
    BY <1>1, <2>1, <2>5 DEF ServerTypes, Ping
  <2> QED BY <1>1, <2>1, <2>3, <2>4, <2>6 DEF ServerTypes
<1>13. CASE UNCHANGED <<feed, kept, server, since, read, skipped>>
  BY <1>1, <1>13 DEF server, ServerTypes
<1>14. Next => \/ \E key \in Keys : NewAlert(key)
               \/ \E n \in pending : Broadcast(n)
               \/ Accept \/ KernelGivesUp \/ Subscribe \/ Take \/ Lag \/ Beat \/ Push
               \/ End \/ Restart \/ Read
               \/ UNCHANGED <<feed, kept, server, since, read, skipped>>
  BY DEF Next, bus, feedVars, history, Answer, FetchFails, Install, Connect, ConnectFails,
         ShowFatal, ShowNothing, ShowMistake, SaveSettings, Disconnect, Outage, Recover, Vanish
<1>15. CASE UNCHANGED vars
  BY <1>13, <1>15 DEF vars, bus, feedVars, history
<1> QED BY <1>3, <1>4, <1>5, <1>6, <1>7, <1>8, <1>9, <1>10, <1>11, <1>12, <1>13, <1>14, <1>15

(* and what else there is. *)
LEMMA WorldTyped == StreamInv /\ [Next]_vars => WorldTypes'
<1> SUFFICES ASSUME StreamInv, [Next]_vars PROVE WorldTypes'
  OBVIOUS
<1> USE DEF StreamInv, TypeOK, WorldTypes
<1>1. Fault => faults' \in 0..MaxFaults
  BY Constants DEF Fault
<1>2. CASE SaveSettings \/ Outage \/ Recover \/ Restart \/ Disconnect \/ Vanish
  BY <1>1, <1>2 DEF SaveSettings, Outage, Recover, Restart, Disconnect, Vanish
<1>3. CASE UNCHANGED world
  BY <1>3 DEF world
<1>4. Next => \/ SaveSettings \/ Outage \/ Recover \/ Restart \/ Disconnect \/ Vanish
              \/ UNCHANGED world
  BY DEF Next, NewAlert, Broadcast, Accept, Subscribe, Take, Lag, Beat, Push, End,
         KernelGivesUp, Answer, FetchFails, Install, Connect, ConnectFails, Read,
         ShowFatal, ShowNothing, ShowMistake
<1> QED BY <1>2, <1>3, <1>4 DEF vars

(* Every alert is broadcast once: its number leaves pending for the feed. *)
LEMMA BroadcastOnceKept == StreamInv /\ [Next]_vars => BroadcastOnce'
<1> SUFFICES ASSUME StreamInv, [Next]_vars PROVE BroadcastOnce'
  OBVIOUS
<1>1. /\ feed \in Seq(Nat) /\ pending \subseteq 1..kept /\ kept \in Nat
      /\ \A i \in DOMAIN feed : feed[i] \in 1..kept
      /\ BroadcastOnce
  BY Constants DEF StreamInv, TypeOK, BusTypes, ToSet
<1>2. ASSUME NEW key \in Keys, NewAlert(key) PROVE BroadcastOnce'
  <2>1. feed' = feed /\ pending' = pending \cup {kept + 1}
    BY <1>2 DEF NewAlert, Keep
  <2>2. kept + 1 \notin 1..kept
    BY <1>1
  <2> QED BY <1>1, <2>1, <2>2 DEF BroadcastOnce
<1>3. ASSUME NEW n \in pending, Broadcast(n) PROVE BroadcastOnce'
  <2>1. feed' = Append(feed, n) /\ pending' = pending \ {n}
    BY <1>3 DEF Broadcast, Send
  <2>2. n \in Nat
    BY <1>1
  <2>3. /\ DOMAIN feed = 1..Len(feed) /\ DOMAIN feed' = 1..Len(feed) + 1 /\ Len(feed) \in Nat
        /\ feed'[Len(feed) + 1] = n
        /\ \A i \in DOMAIN feed : feed'[i] = feed[i] /\ feed[i] # n
    BY <1>1, <2>1, <2>2 DEF BroadcastOnce
  <2>4. \A i \in DOMAIN feed' : i = Len(feed) + 1 \/ i \in DOMAIN feed
    BY <2>3
  <2> QED BY <1>1, <2>1, <2>3, <2>4 DEF BroadcastOnce
<1>4. CASE Restart
  BY <1>1, <1>4 DEF Restart, BroadcastOnce
<1>5. CASE UNCHANGED bus
  BY <1>1, <1>5 DEF bus, feedVars, BroadcastOnce
<1>6. Next => \/ \E key \in Keys : NewAlert(key)
              \/ \E n \in pending : Broadcast(n)
              \/ Restart
              \/ UNCHANGED bus
  BY DEF Next, Accept, Subscribe, Take, Lag, Beat, Push, End, KernelGivesUp, Answer,
         FetchFails, Install, Connect, ConnectFails, Read, ShowFatal, ShowNothing,
         ShowMistake, SaveSettings, Disconnect, Outage, Recover, Vanish
<1> QED BY <1>2, <1>3, <1>4, <1>5, <1>6 DEF vars

(* The feed only grows. *)
LEMMA FeedGrows ==
    StreamInv /\ [Next]_vars =>
        \A k \in DOMAIN feed : k \in DOMAIN feed' /\ feed'[k] = feed[k]
<1> SUFFICES ASSUME StreamInv, [Next]_vars
             PROVE  \A k \in DOMAIN feed : k \in DOMAIN feed' /\ feed'[k] = feed[k]
  OBVIOUS
<1>1. feed \in Seq(Nat)
  BY DEF StreamInv, TypeOK, BusTypes
<1>2. ASSUME NEW n \in pending, Broadcast(n)
      PROVE  \A k \in DOMAIN feed : k \in DOMAIN feed' /\ feed'[k] = feed[k]
  <2>1. feed' = Append(feed, n)
    BY <1>2 DEF Broadcast, Send
  <2> QED BY <1>1, <2>1
<1>3. Next => (\E n \in pending : Broadcast(n)) \/ feed' = feed
  BY DEF Next, bus, feedVars, NewAlert, Keep, Accept, Subscribe, Take, Lag, Beat, Push, End,
         KernelGivesUp, Answer, FetchFails, Install, Connect, ConnectFails, Read,
         ShowFatal, ShowNothing, ShowMistake, SaveSettings, Disconnect, Outage, Recover, Vanish, Restart
<1> QED BY <1>2, <1>3 DEF vars, bus, feedVars

(* What is idle stays idle, and what is skipped is behind. *)
LEMMA BehindKept == StreamInv /\ [Next]_vars => Behind'
<1> SUFFICES ASSUME StreamInv, [Next]_vars PROVE Behind'
  OBVIOUS
<1>1. /\ Behind
      /\ DOMAIN feed = 1..Len(feed) /\ Len(feed) \in Nat
      /\ cursor \in Nat /\ 1 <= cursor /\ cursor <= Len(feed) + 1
  BY DEF StreamInv, TypeOK, BusTypes, ServerTypes
<1>2. \A k \in 1..cursor - 1 : feed'[k] = feed[k]
  BY <1>1, FeedGrows
<1>3. CASE Subscribe
  BY <1>1, <1>3 DEF Subscribe, Behind
<1>4. CASE Take
  <2>1. session = "open" /\ UNCHANGED <<session, skipped>> /\ cursor' = cursor + 1
    BY <1>4 DEF Take, Polling, history
  <2>2. 1..cursor - 1 \subseteq 1..cursor' - 1
    BY <1>1, <2>1
  <2> QED BY <1>1, <1>2, <2>1, <2>2 DEF Behind
<1>5. CASE Lag
  <2>1. /\ session = "open" /\ UNCHANGED <<session, feed>>
        /\ Len(feed) - cursor >= CHANNEL /\ cursor' = Len(feed) - CHANNEL + 1
        /\ skipped' = skipped \cup {feed[i] : i \in cursor..Len(feed) - CHANNEL}
    BY <1>5 DEF Lag, Polling, bus, feedVars
  <2>2. /\ 1..cursor - 1 \subseteq 1..cursor' - 1
        /\ cursor..Len(feed) - CHANNEL \subseteq 1..cursor' - 1
    BY <1>1, <2>1, Constants
  <2> QED BY <1>1, <2>1, <2>2 DEF Behind
<1>6. CASE Beat \/ Push
  <2>1. session = "open" /\ UNCHANGED <<session, skipped, cursor>>
    BY <1>6 DEF Beat, Push, Polling, history
  <2> QED BY <1>1, <1>2, <2>1 DEF Behind
<1>7. CASE End \/ Restart
  <2>1. hand' = Nothing /\ sock' = <<>> /\ skipped' = {}
    BY <1>7 DEF End, Restart, Closed
  <2> QED BY <2>1 DEF Behind
<1>8. CASE Read
  <2>1. sock # <<>> /\ UNCHANGED <<session, skipped, cursor>>
    BY <1>8 DEF Read
  <2> QED BY <1>1, <1>2, <2>1 DEF Behind
<1>9. CASE Accept
  BY <1>1, <1>2, <1>9 DEF Accept, history, Behind
<1>10. CASE UNCHANGED <<session, hand, sock, cursor, skipped>>
  BY <1>1, <1>2, <1>10 DEF Behind
<1>11. Next => \/ Subscribe \/ Take \/ Lag \/ Beat \/ Push \/ End \/ Restart \/ Read \/ Accept
               \/ UNCHANGED <<session, hand, sock, cursor, skipped>>
  BY DEF Next, server, history, NewAlert, Broadcast, KernelGivesUp, Answer, FetchFails,
         Install, Connect, ConnectFails, ShowFatal, ShowNothing, ShowMistake, SaveSettings,
         Disconnect, Outage, Recover, Vanish
<1> QED BY <1>3, <1>4, <1>5, <1>6, <1>7, <1>8, <1>9, <1>10, <1>11 DEF vars, server, history

(* The Flutter app has no alerts before its history. *)
LEMMA NothingYetKept == StreamInv /\ [Next]_vars => NothingYet'
<1> SUFFICES ASSUME StreamInv, [Next]_vars PROVE NothingYet'
  OBVIOUS
<1>1. NothingYet
  BY DEF StreamInv
<1>2. CASE Accept \/ Connect \/ ConnectFails \/ FetchFails
  BY <1>1, <1>2 DEF Accept, Connect, ConnectFails, FetchFails, NothingYet
<1>3. ASSUME NEW list \in answers, Install(list) PROVE NothingYet'
  BY <1>1, <1>3 DEF Install, world, NothingYet
<1>4. CASE SaveSettings
  BY <1>4 DEF SaveSettings, NothingYet
<1>5. CASE Read
  BY <1>1, <1>5 DEF Read, world, NothingYet
<1>6. CASE Disconnect \/ Outage \/ Vanish
  BY <1>1, <1>6 DEF Disconnect, Outage, Vanish, NothingYet
<1>7. CASE UNCHANGED <<link, shown, kind>>
  BY <1>1, <1>7 DEF NothingYet
<1>8. Next => \/ Accept \/ Connect \/ ConnectFails \/ FetchFails
              \/ (\E list \in answers : Install(list)) \/ SaveSettings \/ Read
              \/ Disconnect \/ Outage \/ Vanish
              \/ UNCHANGED <<link, shown, kind>>
  BY DEF Next, page, world, NewAlert, Broadcast, Subscribe, Take, Lag, Beat, Push, End,
         KernelGivesUp, Answer, ShowFatal, ShowNothing, ShowMistake, Recover, Restart
<1> QED BY <1>2, <1>3, <1>4, <1>5, <1>6, <1>7, <1>8 DEF vars, page, world

(* What the page was given is shown or lost. *)
LEMMA ShowingKept == StreamInv /\ [Next]_vars => Showing'
<1> SUFFICES ASSUME StreamInv, [Next]_vars PROVE Showing'
  OBVIOUS
<1>1. Showing /\ BusTypes /\ PageTypes /\ ServerTypes /\ WorldTypes
  BY DEF StreamInv, TypeOK
<1>2. Numbers(<<>>) = {} /\ ToSet(<<>>) = {}
  BY DEF Numbers, ToSet
<1>3. CASE Subscribe
  BY <1>1, <1>2, <1>3 DEF Subscribe, page, Showing
<1>4. ASSUME NEW list \in answers, Install(list) PROVE Showing'
  <2>1. /\ offered' = Numbers(list) /\ UNCHANGED <<session, read>>
        /\ link' = link \/ link' = "connecting"
    BY <1>4 DEF Install, server
  <2>2. Numbers(shown) \cup lost \cup Numbers(list) \subseteq Numbers(shown') \cup lost'
    <3>0. list \in Seq(Entries)
      BY <1>1, <1>4 DEF PageTypes
    <3>1. CASE kind = "web"
      <4>1. shown' = Reverse(list) /\ lost' = lost \cup (Numbers(shown) \ Numbers(list))
        BY <1>4, <3>1 DEF Install
      <4>2. Numbers(shown') = Numbers(list)
        BY <3>0, <4>1, TurnedRound
      <4> QED BY <4>1, <4>2
    <3>2. CASE kind # "web"
      <4>1. shown' = shown \o list /\ lost' = lost
        BY <1>4, <3>2 DEF Install
      <4>2. Numbers(shown') = Numbers(shown) \cup Numbers(list)
        BY <1>1, <3>0, <4>1, Joined DEF PageTypes
      <4> QED BY <4>1, <4>2
    <3> QED BY <3>1, <3>2
  <2> QED BY <1>1, <2>1, <2>2 DEF Showing
<1>5. CASE Read
  <2>1. UNCHANGED <<session, link, offered>>
    BY <1>5 DEF Read
  <2>2. CASE Head(sock) = Ping
    <3>1. UNCHANGED <<shown, lost, read>>
      BY <1>5, <2>2 DEF Read
    <3> QED BY <1>1, <2>1, <3>1 DEF Showing
  <2>3. CASE Head(sock) # Ping
    <3> DEFINE n == Head(sock)
    <3>1. OnMessage(n) /\ read' = Append(read, n)
      BY <1>5, <2>3 DEF Read
    <3>2. n \in 1..kept
      BY <1>1, <1>5, <2>3 DEF Read, ServerTypes, ToSet
    <3>3. Numbers(shown) \cup lost \cup {n} \subseteq Numbers(shown') \cup lost'
      BY <1>1, <3>1, <3>2, MessageShown
    <3>4. ToSet(read') = ToSet(read) \cup {n}
      <4>1. read \in Seq(Nat) /\ n \in Nat
        BY <1>1, <3>2 DEF ServerTypes
      <4> HIDE DEF n
      <4>2. /\ DOMAIN read = 1..Len(read) /\ DOMAIN read' = 1..Len(read) + 1
            /\ Len(read) \in Nat /\ read'[Len(read) + 1] = n
            /\ \A i \in 1..Len(read) : read'[i] = read[i]
        BY <3>1, <4>1
      <4>3. \A i \in 1..Len(read) + 1 : i \in 1..Len(read) \/ i = Len(read) + 1
        BY <4>2
      <4>4. 1..Len(read) \subseteq 1..Len(read) + 1 /\ Len(read) + 1 \in 1..Len(read) + 1
        BY <4>2
      <4> HIDE <3>1, <4>1
      <4> QED BY <4>2, <4>3, <4>4 DEF ToSet
    <3> HIDE DEF n
    <3> QED BY <1>1, <2>1, <3>3, <3>4 DEF Showing
  <2> QED BY <2>2, <2>3
<1>6. CASE SaveSettings \/ Vanish
  BY <1>2, <1>6 DEF SaveSettings, Vanish, Showing
<1>7. CASE End \/ Restart
  BY <1>1, <1>7 DEF End, Restart, Closed, page, Showing
<1>8. CASE Accept
  BY <1>1, <1>8 DEF Accept, history, Showing
<1>9. CASE FetchFails \/ Connect \/ ConnectFails \/ Disconnect \/ Outage
  BY <1>1, <1>9 DEF FetchFails, Connect, ConnectFails, Disconnect, Outage, history, server,
     Showing
<1>10. CASE UNCHANGED <<session, link, offered, shown, read, lost>>
  BY <1>1, <1>10 DEF Showing
<1>11. Next => \/ Subscribe \/ (\E list \in answers : Install(list)) \/ Read
               \/ SaveSettings \/ Vanish \/ End \/ Restart \/ Accept
               \/ FetchFails \/ Connect \/ ConnectFails \/ Disconnect \/ Outage
               \/ UNCHANGED <<session, link, offered, shown, read, lost>>
  BY DEF Next, page, server, history, NewAlert, Broadcast, Take, Lag, Beat, Push,
         KernelGivesUp, Answer, ShowFatal, ShowNothing, ShowMistake, Recover
<1> QED BY <1>3, <1>4, <1>5, <1>6, <1>7, <1>8, <1>9, <1>10, <1>11
        DEF vars, page, server, history

-----------------------------------------------------------------------------
(* The order of what is passed on, for any sequence p of frames, feed f    *)
(* and set of positions D of the feed.                                     *)
At(p) == {i \in DOMAIN p : p[i] \notin {Nothing, Ping}}

InOrder(p, f, D) ==
    /\ {p[i] : i \in At(p)} = {f[k] : k \in D}
    /\ \A i, j \in At(p) : i < j => \E k, l \in D : k < l /\ p[i] = f[k] /\ p[j] = f[l]

LEMMA OrderIsAll == StreamInOrder <=> (session = "open" => InOrder(PassedOn, feed, Due))
BY DEF StreamInOrder, InOrder, AlertsAt, At

(* A sequence that has the same alerts in the same order is in order. *)
LEMMA SameAlerts ==
    ASSUME NEW p, NEW q, NEW f, NEW D, InOrder(p, f, D),
           NEW at \in [At(q) -> At(p)],
           \A i \in At(q) : q[i] = p[at[i]],
           \A i \in At(p) : \E j \in At(q) : at[j] = i,
           \A i, j \in At(q) : i < j => at[i] < at[j]
    PROVE  InOrder(q, f, D)
<1>1. {q[i] : i \in At(q)} = {p[i] : i \in At(p)}
  OBVIOUS
<1>2. ASSUME NEW i \in At(q), NEW j \in At(q), i < j
      PROVE  \E k, l \in D : k < l /\ q[i] = f[k] /\ q[j] = f[l]
  BY <1>2 DEF InOrder
<1> QED BY <1>1, <1>2 DEF InOrder

(* So is one with one more alert at its end, due after all the others. *)
LEMMA OneMoreAlert ==
    ASSUME NEW p, NEW q, NEW f, NEW D, InOrder(p, f, D),
           NEW m \in Nat, NEW c \in Nat,
           \A k \in D : k < c,
           At(q) = At(p) \cup {m}, \A i \in At(p) : i \in Nat /\ i < m /\ q[i] = p[i],
           q[m] = f[c]
    PROVE  InOrder(q, f, D \cup {c})
<1>1. {q[i] : i \in At(q)} = {f[k] : k \in D \cup {c}}
  <2>1. {q[i] : i \in At(q)} = {p[i] : i \in At(p)} \cup {q[m]}
    OBVIOUS
  <2> QED BY <2>1 DEF InOrder
<1>2. ASSUME NEW i \in At(q), NEW j \in At(q), i < j
      PROVE  \E k, l \in D \cup {c} : k < l /\ q[i] = f[k] /\ q[j] = f[l]
  <2>1. i \in At(p)
    BY <1>2
  <2>2. CASE j \in At(p)
    BY <1>2, <2>1, <2>2 DEF InOrder
  <2>3. CASE j = m
    <3>1. PICK k \in D : p[i] = f[k]
      BY <2>1 DEF InOrder
    <3> QED BY <2>1, <2>3, <3>1
  <2> QED BY <2>2, <2>3
<1> QED BY <1>1, <1>2 DEF InOrder

(* What is read (m frames), what waits in the socket (n), and the frame in *)
(* the hand.                                                               *)
Laid(m, n, r, s, h, p) ==
    /\ DOMAIN p = 1..m + n + 1
    /\ \A i \in 1..m : p[i] = r[i]
    /\ \A i \in 1..n : p[m + i] = s[i]
    /\ p[m + n + 1] = h

LEMMA Frames ==
    ASSUME NEW r \in Seq(Int), NEW s \in Seq(Int), NEW h \in Int, NEW p, p = r \o Append(s, h)
    PROVE  /\ Len(r) \in Nat /\ Len(s) \in Nat
           /\ Laid(Len(r), Len(s), r, s, h, p)
<1> DEFINE t == Append(s, h)
<1>1. /\ t \in Seq(Int) /\ Len(t) = Len(s) + 1 /\ Len(s) \in Nat /\ Len(r) \in Nat
      /\ \A i \in 1..Len(s) : t[i] = s[i]
      /\ t[Len(s) + 1] = h
  OBVIOUS
<1> HIDE DEF t
<1>2. p = r \o t
  BY DEF t
<1>3. /\ p \in Seq(Int) /\ Len(p) = Len(r) + Len(t)
      /\ \A i \in 1..Len(r) + Len(t) : p[i] = IF i <= Len(r) THEN r[i] ELSE t[i - Len(r)]
  <2>1. /\ r \o t \in Seq(Int) /\ Len(r \o t) = Len(r) + Len(t)
        /\ \A i \in 1..Len(r) + Len(t) : (r \o t)[i] = IF i <= Len(r) THEN r[i] ELSE t[i - Len(r)]
    BY <1>1, ConcatProperties
  <2> QED BY <1>2, <2>1
<1>4. DOMAIN p = 1..Len(r) + Len(s) + 1
  BY <1>1, <1>3
<1>5. ASSUME NEW i \in 1..Len(r) PROVE p[i] = r[i]
  BY <1>1, <1>3
<1>6. ASSUME NEW i \in 1..Len(s) + 1 PROVE p[Len(r) + i] = t[i]
  <2>1. /\ Len(r) + i \in 1..Len(r) + Len(t) /\ ~(Len(r) + i <= Len(r))
        /\ (Len(r) + i) - Len(r) = i
    BY <1>1
  <2> QED BY <1>3, <2>1
<1>7. ASSUME NEW i \in 1..Len(s) PROVE p[Len(r) + i] = s[i]
  <2>1. i \in 1..Len(s) + 1
    BY <1>1
  <2> QED BY <1>1, <1>6, <2>1
<1>8. p[Len(r) + Len(s) + 1] = h
  <2>1. Len(s) + 1 \in 1..Len(s) + 1 /\ Len(r) + (Len(s) + 1) = Len(r) + Len(s) + 1
    BY <1>1
  <2> QED BY <1>1, <1>6, <2>1
<1> QED BY <1>1, <1>4, <1>5, <1>7, <1>8 DEF Laid

(* The same alerts at the same positions are in the same order. *)
LEMMA SamePositions ==
    ASSUME NEW p, NEW q, NEW f, NEW D, InOrder(p, f, D),
           At(q) = At(p), \A i \in At(p) : q[i] = p[i]
    PROVE  InOrder(q, f, D)
<1>1. {q[i] : i \in At(q)} = {p[i] : i \in At(p)}
  OBVIOUS
<1>2. ASSUME NEW i \in At(q), NEW j \in At(q), i < j
      PROVE  \E k, l \in D : k < l /\ q[i] = f[k] /\ q[j] = f[l]
  <2>1. i \in At(p) /\ j \in At(p) /\ q[i] = p[i] /\ q[j] = p[j]
    OBVIOUS
  <2> QED BY <1>2, <2>1 DEF InOrder
<1> QED BY <1>1, <1>2 DEF InOrder

(* An alert that the page reads stays where it is among the frames:        *)
(* position by position,                                                   *)
Extends(m, r, r1) == \A i \in 1..m : r1[i] = r[i]

Follows(n, s, s1) == \A i \in 1..n - 1 : s1[i] = s[i + 1]

LEMMA AlertMoved ==
    ASSUME NEW m \in Nat, NEW n \in Nat \ {0}, NEW r, NEW s, NEW r1, NEW s1, NEW p, NEW q,
           NEW h, Laid(m, n, r, s, h, p), Laid(m + 1, n - 1, r1, s1, h, q),
           Extends(m, r, r1), Follows(n, s, s1), r1[m + 1] = s[1]
    PROVE  DOMAIN q = DOMAIN p /\ \A i \in DOMAIN p : q[i] = p[i]
<1>5a. ASSUME NEW i \in m + 2..m + n
      PROVE  i - m - 1 \in 1..n - 1 /\ (m + 1) + (i - m - 1) = i /\ m + ((i - m - 1) + 1) = i
  OBVIOUS
<1> USE DEF Laid, Extends, Follows
<1>0. (m + 1) + (n - 1) + 1 = m + n + 1
  OBVIOUS
<1> SUFFICES ASSUME NEW i \in 1..m + n + 1 PROVE q[i] = p[i]
  BY <1>0
<1>1. CASE i \in 1..m
  BY <1>1
<1>2. CASE i = m + 1
  <2>1. p[m + 1] = s[1]
    OBVIOUS
  <2>2. q[m + 1] = r1[m + 1]
    OBVIOUS
  <2> QED BY <1>2, <2>1, <2>2
<1>3. CASE i \in m + 2..m + n
  <2> DEFINE j == i - m - 1
  <2>1. j \in 1..n - 1 /\ (m + 1) + j = i /\ m + (j + 1) = i
    BY <1>3, <1>5a
  <2> HIDE DEF j
  <2>2. q[(m + 1) + j] = s1[j] /\ p[m + (j + 1)] = s[j + 1] /\ s1[j] = s[j + 1]
    BY <2>1
  <2> QED BY <2>1, <2>2
<1>4. CASE i = m + n + 1
  BY <1>0, <1>4
<1>5. i \in 1..m \/ i = m + 1 \/ i \in m + 2..m + n \/ i = m + n + 1
  OBVIOUS
<1> QED BY <1>1, <1>2, <1>3, <1>4, <1>5

(* and as a whole; *)
LEMMA AlertRead ==
    ASSUME NEW r \in Seq(Int), NEW s \in Seq(Int), NEW h \in Int,
           NEW p, NEW q, NEW f, NEW D
    PROVE  s # <<>> /\ p = r \o Append(s, h) /\ q = Append(r, Head(s)) \o Append(Tail(s), h)
               => (InOrder(p, f, D) => InOrder(q, f, D))
<1>0. ASSUME s # <<>>, p = r \o Append(s, h), q = Append(r, Head(s)) \o Append(Tail(s), h),
             InOrder(p, f, D)
      PROVE  InOrder(q, f, D)
  <2> DEFINE r1 == Append(r, Head(s))
             s1 == Tail(s)
             m == Len(r)
             n == Len(s)
  <2>1. r1 \in Seq(Int) /\ s1 \in Seq(Int) /\ m \in Nat /\ n \in Nat \ {0}
    BY <1>0
  <2>2. Extends(m, r, r1) /\ Follows(n, s, s1) /\ r1[m + 1] = s[1]
    BY <1>0 DEF Extends, Follows
  <2>3. Len(r1) = m + 1 /\ Len(s1) = n - 1
    BY <1>0
  <2>4. Laid(m, n, r, s, h, p)
    BY <1>0, Frames
  <2>5. q = r1 \o Append(s1, h)
    BY <1>0
  <2> HIDE DEF r1, s1
  <2>6. Laid(Len(r1), Len(s1), r1, s1, h, q)
    BY <2>1, <2>5, Frames
  <2> HIDE DEF m, n
  <2>7. Laid(m + 1, n - 1, r1, s1, h, q)
    BY <2>3, <2>6
  <2>8. DOMAIN q = DOMAIN p /\ \A i \in DOMAIN p : q[i] = p[i]
    BY <2>1, <2>2, <2>4, <2>7, AlertMoved
  <2>9. At(q) = At(p) /\ \A i \in At(p) : q[i] = p[i]
    BY <2>8 DEF At
  <2> QED BY <1>0, <2>9, SamePositions
<1> QED BY <1>0

(* a heartbeat that it reads is gone, and the others move up: position by  *)
(* position,                                                               *)
LEMMA PingMoved ==
    ASSUME NEW m \in Nat, NEW n \in Nat \ {0}, NEW r, NEW s, NEW s1, NEW p, NEW q,
           NEW h, Laid(m, n, r, s, h, p), Laid(m, n - 1, r, s1, h, q),
           Follows(n, s, s1), s[1] = Ping,
           NEW f, NEW D, InOrder(p, f, D)
    PROVE  InOrder(q, f, D)
<1> DEFINE to(i) == IF i <= m THEN i ELSE i + 1
           at == [i \in At(q) |-> to(i)]
<1> USE DEF Laid, Follows
<1>1. p[m + 1] = Ping /\ m + (n - 1) + 1 = m + n
  OBVIOUS
<1>2. ASSUME NEW i \in 1..m + n PROVE to(i) \in 1..m + n + 1 /\ q[i] = p[to(i)]
  <2>1. CASE i \in 1..m
    BY <2>1
  <2>2. CASE i \in m + 1..m + n - 1
    <3> DEFINE j == i - m
    <3>1. /\ j \in 1..n - 1 /\ j + 1 \in 1..n /\ m + j = i /\ m + (j + 1) = i + 1
          /\ to(i) = i + 1
      BY <2>2
    <3> HIDE DEF j, to
    <3>2. q[m + j] = s1[j] /\ p[m + (j + 1)] = s[j + 1] /\ s1[j] = s[j + 1]
      BY <3>1
    <3>3. to(i) \in 1..m + n + 1
      BY <2>2, <3>1
    <3> QED BY <3>1, <3>2, <3>3
  <2>3. CASE i = m + n
    <3>1. to(i) = m + n + 1 /\ m + n + 1 \in 1..m + n + 1
      BY <2>3
    <3> HIDE DEF to
    <3> QED BY <2>3, <3>1
  <2>4. i \in 1..m \/ i \in m + 1..m + n - 1 \/ i = m + n
    OBVIOUS
  <2> QED BY <2>1, <2>2, <2>3, <2>4
<1>3. at \in [At(q) -> At(p)] /\ \A i \in At(q) : q[i] = p[at[i]]
  <2> HIDE DEF to
  <2>1. \A i \in At(q) : i \in 1..m + n /\ q[i] \notin {Nothing, Ping}
    BY DEF At
  <2>2. \A i \in At(q) : to(i) \in At(p) /\ q[i] = p[to(i)]
    BY <1>2, <2>1 DEF At
  <2> QED BY <2>2
<1>4. ASSUME NEW i \in At(p) PROVE \E j \in At(q) : at[j] = i
  <2>1. i \in 1..m + n + 1 /\ i # m + 1 /\ p[i] \notin {Nothing, Ping}
    BY <1>1 DEF At
  <2>2. PICK j \in 1..m + n : to(j) = i
    <3>1. CASE i <= m
      <4>1. i \in 1..m + n /\ to(i) = i
        BY <2>1, <3>1
      <4> QED BY <4>1
    <3>2. CASE ~(i <= m)
      <4>1. i - 1 \in 1..m + n /\ to(i - 1) = i
        BY <2>1, <3>2
      <4> QED BY <4>1
    <3> QED BY <3>1, <3>2
  <2> HIDE DEF to
  <2>3. j \in At(q)
    BY <1>2, <2>1, <2>2 DEF At
  <2> QED BY <2>2, <2>3
<1>5. ASSUME NEW i \in At(q), NEW j \in At(q), i < j PROVE at[i] < at[j]
  <2>1. i \in 1..m + n /\ j \in 1..m + n
    BY DEF At
  <2>2. to(i) < to(j)
    BY <1>5, <2>1
  <2> HIDE DEF to
  <2> QED BY <2>2
<1>6. PICK g : g = at
  OBVIOUS
<1>7. /\ g \in [At(q) -> At(p)]
      /\ \A i \in At(q) : q[i] = p[g[i]]
      /\ \A i \in At(p) : \E j \in At(q) : g[j] = i
      /\ \A i, j \in At(q) : i < j => g[i] < g[j]
  <2> HIDE DEF at
  <2> QED BY <1>3, <1>4, <1>5, <1>6
<1> HIDE DEF at
<1> QED BY <1>7, SameAlerts

(* and as a whole. *)
LEMMA PingRead ==
    ASSUME NEW r \in Seq(Int), NEW s \in Seq(Int), NEW h \in Int,
           NEW p, NEW q, NEW f, NEW D
    PROVE  s # <<>> /\ Head(s) = Ping /\ p = r \o Append(s, h) /\ q = r \o Append(Tail(s), h)
               => (InOrder(p, f, D) => InOrder(q, f, D))
<1>0. ASSUME s # <<>>, Head(s) = Ping, p = r \o Append(s, h), q = r \o Append(Tail(s), h),
             InOrder(p, f, D)
      PROVE  InOrder(q, f, D)
  <2> DEFINE s1 == Tail(s)
             m == Len(r)
             n == Len(s)
  <2>1. s1 \in Seq(Int) /\ m \in Nat /\ n \in Nat \ {0}
    BY <1>0
  <2>2. Follows(n, s, s1) /\ s[1] = Ping
    BY <1>0 DEF Follows
  <2>3. Len(s1) = n - 1
    BY <1>0
  <2>4. Laid(m, n, r, s, h, p)
    BY <1>0, Frames
  <2>5. q = r \o Append(s1, h)
    BY <1>0
  <2> HIDE DEF s1
  <2>6. Laid(m, Len(s1), r, s1, h, q)
    BY <2>1, <2>5, Frames
  <2> HIDE DEF m, n
  <2>7. Laid(m, n - 1, r, s1, h, q)
    BY <2>3, <2>6
  <2> QED BY <1>0, <2>1, <2>2, <2>4, <2>7, PingMoved
<1> QED BY <1>0

(* The feed that is due lies before the receiver. *)
LEMMA OldFeed ==
    ASSUME NEW p, NEW f, NEW g, NEW D, InOrder(p, f, D), \A k \in D : g[k] = f[k]
    PROVE  InOrder(p, g, D)
<1>1. {g[k] : k \in D} = {f[k] : k \in D}
  OBVIOUS
<1> QED BY <1>1 DEF InOrder

(* What is passed on stays what was broadcast, in order. *)
LEMMA OrderKept == StreamInv /\ [Next]_vars => StreamInOrder'
<1> SUFFICES ASSUME StreamInv, [Next]_vars, session' = "open"
             PROVE  InOrder(PassedOn', feed', Due')
  BY DEF StreamInOrder, InOrder, AlertsAt, At
<1> DEFINE p == PassedOn
           q == PassedOn'
           m == Len(read) + Len(sock) + 1
<1>1. session = "open" => InOrder(p, feed, Due)
  BY OrderIsAll DEF StreamInv
<1>2. /\ read \in Seq(Int) /\ sock \in Seq(Int) /\ hand \in Int
      /\ since \in Nat /\ cursor \in Nat /\ since < cursor /\ cursor <= Len(feed) + 1
      /\ Len(feed) \in Nat /\ DOMAIN feed = 1..Len(feed) /\ kept \in Nat
      /\ \A k \in DOMAIN feed : feed[k] \in 1..kept
      /\ \A k \in Due : k \in Nat /\ k < cursor
  <2>1. /\ feed \in Seq(Nat) /\ kept \in Nat /\ ToSet(feed) \subseteq 1..kept
        /\ read \in Seq(Nat) /\ sock \in Seq(Int) /\ hand \in {Nothing, Ping} \cup 1..kept
        /\ since \in Nat /\ cursor \in Nat /\ since < cursor /\ cursor <= Len(feed) + 1
    BY Constants DEF StreamInv, TypeOK, BusTypes, ServerTypes
  <2>2. read \in Seq(Int)
    BY <2>1
  <2>3. hand \in Int
    BY <2>1 DEF Nothing, Ping
  <2> QED BY <2>1, <2>2, <2>3 DEF Due, ToSet
<1>3. Laid(Len(read), Len(sock), read, sock, hand, p) /\ m \in Nat
  <2>1. p = read \o Append(sock, hand)
    BY DEF PassedOn
  <2>2. read \in Seq(Int) /\ sock \in Seq(Int) /\ hand \in Int
    BY <1>2
  <2>3. Len(read) \in Nat /\ Len(sock) \in Nat
    BY <2>2
  <2> HIDE DEF p
  <2>4. Laid(Len(read), Len(sock), read, sock, hand, p)
    BY ONLY <2>1, <2>2, Frames
  <2> QED BY ONLY <2>3, <2>4
<1>4. CASE Subscribe
  <2>1. /\ read' = <<>> /\ sock' = <<>> /\ hand' = Nothing
        /\ cursor' = since' + 1 /\ since' \in Nat
    BY <1>2, <1>4 DEF Subscribe, StreamInv, Behind
  <2>2. q = <<Nothing>>
    BY <2>1 DEF PassedOn
  <2>3. At(q) = {}
    BY <2>2 DEF At
  <2>4. Due' = {}
    BY <2>1 DEF Due
  <2> HIDE DEF q
  <2>5. InOrder(q, feed', {})
    <3>1. {q[i] : i \in {}} = {} /\ {feed'[k] : k \in {}} = {}
      OBVIOUS
    <3> QED BY <2>3, <3>1 DEF InOrder
  <2> QED BY <2>4, <2>5 DEF q
<1>5. CASE Take
  <2>1. /\ hand = Nothing /\ hand' = feed[cursor] /\ cursor \in DOMAIN feed
        /\ cursor' = cursor + 1
        /\ UNCHANGED <<feed, session, read, sock, since, skipped>>
    BY <1>5 DEF Take, Polling, bus, feedVars, history
  <2>2. hand' \in Int /\ hand' \notin {Nothing, Ping}
    <3>1. feed[cursor] \in 1..kept /\ kept \in Nat
      BY <1>2, <2>1
    <3> QED BY <2>1, <3>1 DEF Nothing, Ping
  <2>3. Laid(Len(read), Len(sock), read, sock, hand', q)
    BY <1>2, <2>1, <2>2, Frames DEF PassedOn
  <2> HIDE DEF p, q, m
  <2>4. At(q) = At(p) \cup {m} /\ \A i \in At(p) : i \in Nat /\ i < m /\ q[i] = p[i]
    <3>1. DOMAIN p = 1..m /\ DOMAIN q = 1..m /\ p[m] = Nothing /\ q[m] = hand'
      BY <1>3, <2>1, <2>3 DEF Laid, m
    <3>2. ASSUME NEW i \in 1..m - 1 PROVE q[i] = p[i]
      <4>1. CASE i \in 1..Len(read)
        BY <1>3, <2>3, <4>1 DEF Laid
      <4>2. CASE i \notin 1..Len(read)
        <5> DEFINE j == i - Len(read)
        <5>1. j \in 1..Len(sock) /\ Len(read) + j = i
          <6>1. Len(read) \in Nat /\ Len(sock) \in Nat
            BY <1>2
          <6> QED BY <6>1, <4>2 DEF m
        <5> HIDE DEF j
        <5>2. p[Len(read) + j] = sock[j] /\ q[Len(read) + j] = sock[j]
          BY <1>3, <2>3, <5>1 DEF Laid
        <5> QED BY <5>1, <5>2
      <4> QED BY <4>1, <4>2
    <3>3. m \in Nat /\ \A i \in 1..m : i = m \/ i \in 1..m - 1
      BY <1>3
    <3>4. \A i \in At(p) : i \in 1..m - 1
      BY <3>1, <3>3 DEF At
    <3>5. At(q) = At(p) \cup {m}
      <4>1. \A i \in At(q) : i \in At(p) \cup {m}
        BY <3>1, <3>2, <3>3 DEF At
      <4>2. \A i \in At(p) : i \in At(q)
        BY <3>1, <3>2, <3>4 DEF At
      <4>3. m \in At(q)
        <5>1. m \in 1..m
          BY <1>3 DEF m
        <5> QED BY <2>2, <3>1, <5>1 DEF At
      <4> QED BY <4>1, <4>2, <4>3
    <3> QED BY <1>3, <3>2, <3>4, <3>5
  <2>5. q[m] = feed[cursor]
    BY <2>1, <2>3 DEF Laid, m
  <2>6. Due' = Due \cup {cursor}
    <3>1. feed[cursor] \notin skipped
      <4>1. \A i \in 1..cursor - 1 : i \in DOMAIN feed /\ i # cursor
        BY <1>2, <2>1
      <4>2. \A i \in 1..cursor - 1 : feed[i] # feed[cursor]
        BY <2>1, <4>1 DEF StreamInv, BroadcastOnce
      <4> QED BY <4>2 DEF StreamInv, Behind
    <3>2. since + 1..cursor' - 1 = (since + 1..cursor - 1) \cup {cursor}
      BY <1>2, <2>1
    <3> QED BY <2>1, <3>1, <3>2 DEF Due
  <2>7. InOrder(p, feed, Due)
    BY <1>1, <2>1
  <2>8. m \in Nat /\ cursor \in Nat /\ \A k \in Due : k < cursor
    BY <1>2, <1>3
  <2>9. InOrder(q, feed, Due \cup {cursor})
    BY <2>4, <2>5, <2>7, <2>8, OneMoreAlert
  <2> QED BY <2>1, <2>6, <2>9 DEF q
<1>6. CASE Lag
  <2>1. /\ Len(feed) - cursor >= CHANNEL /\ cursor' = Len(feed) - CHANNEL + 1
        /\ skipped' = skipped \cup {feed[i] : i \in cursor..Len(feed) - CHANNEL}
        /\ UNCHANGED <<feed, session, read, sock, hand, since>>
    BY <1>6 DEF Lag, bus, feedVars
  <2>2. /\ cursor' - 1 = Len(feed) - CHANNEL /\ cursor <= cursor' /\ cursor' \in Nat
        /\ cursor' <= Len(feed)
    BY <1>2, <2>1, Constants
  <2>3. ASSUME NEW k \in since' + 1..cursor' - 1
        PROVE  feed[k] \notin skipped' <=> k < cursor /\ feed[k] \notin skipped
    <3>1. k \in DOMAIN feed /\ (k < cursor \/ k \in cursor..Len(feed) - CHANNEL)
      BY <1>2, <2>1, <2>2
    <3>2. CASE k < cursor
      <4>1. \A i \in cursor..Len(feed) - CHANNEL : i \in DOMAIN feed /\ i # k
        BY <1>2, <2>2, <3>1, <3>2
      <4>2. \A i \in cursor..Len(feed) - CHANNEL : feed[i] # feed[k]
        BY <3>1, <4>1 DEF StreamInv, BroadcastOnce
      <4> QED BY <2>1, <3>2, <4>2
    <3>3. CASE ~(k < cursor)
      BY <2>1, <3>1, <3>3
    <3> QED BY <3>2, <3>3
  <2>4. Due' = Due
    <3>1. \A k : k \in since + 1..cursor - 1 <=> k \in since' + 1..cursor' - 1 /\ k < cursor
      BY <1>2, <2>1, <2>2
    <3> QED BY <2>1, <2>3, <3>1 DEF Due
  <2>5. q = p
    BY <2>1 DEF PassedOn
  <2> QED BY <1>1, <2>1, <2>4, <2>5
<1>7. CASE Beat
  <2>1. /\ hand = Nothing /\ hand' = Ping
        /\ UNCHANGED <<feed, session, read, sock, cursor, since, skipped>>
    BY <1>7 DEF Beat, Polling, bus, feedVars, history
  <2>2. hand' \in Int
    BY <2>1 DEF Ping
  <2>3. Laid(Len(read), Len(sock), read, sock, hand', q)
    BY <1>2, <2>1, <2>2, Frames DEF PassedOn
  <2>4. Due' = Due /\ feed' = feed /\ InOrder(p, feed, Due)
    BY <1>1, <2>1 DEF Due
  <2> HIDE DEF p, q
  <2>5. At(q) = At(p) /\ \A i \in At(p) : q[i] = p[i]
    <3>1. DOMAIN p = 1..m /\ DOMAIN q = 1..m /\ p[m] = Nothing /\ q[m] = Ping
      BY <1>3, <2>1, <2>3 DEF Laid
    <3>2. ASSUME NEW i \in 1..m - 1 PROVE q[i] = p[i]
      <4>1. CASE i \in 1..Len(read)
        BY <1>3, <2>3, <4>1 DEF Laid
      <4>2. CASE i \notin 1..Len(read)
        <5> DEFINE j == i - Len(read)
        <5>1. j \in 1..Len(sock) /\ Len(read) + j = i
          <6>1. Len(read) \in Nat /\ Len(sock) \in Nat
            BY <1>2
          <6> QED BY <6>1, <4>2
        <5> HIDE DEF j
        <5>2. p[Len(read) + j] = sock[j] /\ q[Len(read) + j] = sock[j]
          BY <1>3, <2>3, <5>1 DEF Laid
        <5> QED BY <5>1, <5>2
      <4> QED BY <4>1, <4>2
    <3> HIDE DEF m
    <3>3. \A i \in 1..m : i = m \/ i \in 1..m - 1
      BY <1>3
    <3> QED BY <3>1, <3>2, <3>3 DEF At
  <2>6. InOrder(q, feed, Due)
    BY <2>4, <2>5, SamePositions
  <2> QED BY <2>4, <2>6 DEF q
<1>8. CASE Push
  <2>1. /\ sock' = Append(sock, hand) /\ hand' = Nothing
        /\ UNCHANGED <<feed, session, read, cursor, since, skipped>>
    BY <1>8 DEF Push, bus, feedVars, history
  <2>2. /\ sock' \in Seq(Int) /\ hand' \in Int /\ Len(sock') = Len(sock) + 1
        /\ \A i \in 1..Len(sock) : sock'[i] = sock[i]
        /\ sock'[Len(sock) + 1] = hand
    BY <1>2, <2>1 DEF Nothing
  <2>3. Laid(Len(read), Len(sock) + 1, read, sock', hand', q)
    <3>1. Laid(Len(read), Len(sock'), read, sock', hand', q)
      BY <1>2, <2>1, <2>2, Frames DEF PassedOn
    <3> QED BY <2>2, <3>1
  <2>4. Due' = Due /\ feed' = feed /\ InOrder(p, feed, Due)
    BY <1>1, <2>1 DEF Due
  <2> HIDE DEF p, q
  <2>5. At(q) = At(p) /\ \A i \in At(p) : q[i] = p[i]
    <3>1. DOMAIN p = 1..m /\ DOMAIN q = 1..m + 1 /\ q[m + 1] = Nothing
      <4>1. Len(read) + (Len(sock) + 1) + 1 = m + 1
        BY <1>2
      <4> QED BY <1>3, <2>1, <2>3, <4>1 DEF Laid
    <3>2. ASSUME NEW i \in 1..m PROVE q[i] = p[i]
      <4>1. CASE i \in 1..Len(read)
        BY <1>3, <2>3, <4>1 DEF Laid
      <4>2. CASE i \notin 1..Len(read)
        <5> DEFINE j == i - Len(read)
        <5>1. j \in 1..Len(sock) + 1 /\ Len(read) + j = i
          <6>1. Len(read) \in Nat /\ Len(sock) \in Nat
            BY <1>2
          <6> QED BY <6>1, <4>2
        <5>2. j = Len(sock) + 1 \/ j \in 1..Len(sock)
          <6>1. Len(sock) \in Nat
            BY <1>2
          <6> HIDE DEF j
          <6> QED BY <5>1, <6>1
        <5> HIDE DEF j
        <5>3. q[Len(read) + j] = sock'[j]
          BY <2>3, <5>1 DEF Laid
        <5>4. CASE j \in 1..Len(sock)
          BY <1>3, <2>2, <5>1, <5>3, <5>4 DEF Laid
        <5>5. CASE j = Len(sock) + 1
          <6>1. i = Len(read) + Len(sock) + 1
            BY <1>2, <5>1, <5>5
          <6> QED BY <1>3, <2>2, <5>1, <5>3, <5>5, <6>1 DEF Laid
        <5> QED BY <5>2, <5>4, <5>5
      <4> QED BY <4>1, <4>2
    <3> HIDE DEF m
    <3>3. \A i \in 1..m + 1 : i = m + 1 \/ i \in 1..m
      BY <1>3
    <3>4. 1..m \subseteq 1..m + 1
      BY <1>3
    <3> QED BY <3>1, <3>2, <3>3, <3>4 DEF At
  <2>6. InOrder(q, feed, Due)
    BY <2>4, <2>5, SamePositions
  <2> QED BY <2>4, <2>6 DEF q
<1>9. CASE Read
  <2>1. /\ sock # <<>> /\ sock' = Tail(sock)
        /\ read' = IF Head(sock) = Ping THEN read ELSE Append(read, Head(sock))
        /\ UNCHANGED <<feed, session, hand, cursor, since, skipped>>
    BY <1>9 DEF Read, bus, feedVars
  <2>2. Due' = Due /\ feed' = feed /\ InOrder(p, feed, Due)
    BY <1>1, <2>1 DEF Due
  <2>3. p = read \o Append(sock, hand) /\ q = read' \o Append(Tail(sock), hand)
    BY <2>1 DEF PassedOn
  <2> HIDE DEF p, q
  <2>4. CASE Head(sock) = Ping
    <3>1. q = read \o Append(Tail(sock), hand)
      BY <2>1, <2>3, <2>4
    <3>2. InOrder(q, feed, Due)
      BY <1>2, <2>1, <2>2, <2>3, <2>4, <3>1, PingRead
    <3> QED BY <2>2, <3>2 DEF q
  <2>5. CASE Head(sock) # Ping
    <3>1. q = Append(read, Head(sock)) \o Append(Tail(sock), hand)
      BY <2>1, <2>3, <2>5
    <3>2. InOrder(q, feed, Due)
      BY <1>2, <2>1, <2>2, <2>3, <2>5, <3>1, AlertRead
    <3> QED BY <2>2, <3>2 DEF q
  <2> QED BY <2>4, <2>5
<1>10. CASE End \/ Restart \/ Accept
  BY <1>10 DEF End, Restart, Closed, Accept
<1>11. CASE UNCHANGED <<session, read, sock, hand, since, cursor, skipped>>
  <2>1. q = p
    BY <1>11 DEF PassedOn
  <2>2. \A k \in since + 1..cursor - 1 : feed'[k] = feed[k]
    <3>1. since + 1..cursor - 1 \subseteq DOMAIN feed
      BY <1>2
    <3> QED BY <3>1, FeedGrows
  <2>3. Due' = Due /\ \A k \in Due : feed'[k] = feed[k]
    BY <1>11, <2>2 DEF Due
  <2> HIDE DEF p, q
  <2>4. InOrder(p, feed, Due)
    BY <1>1, <1>11
  <2>5. InOrder(p, feed', Due)
    BY <2>3, <2>4, OldFeed
  <2> QED BY <2>1, <2>3, <2>5 DEF q
<1>12. Next => \/ Subscribe \/ Take \/ Lag \/ Beat \/ Push \/ Read \/ End \/ Restart \/ Accept
               \/ UNCHANGED <<session, read, sock, hand, since, cursor, skipped>>
  BY DEF Next, server, history, NewAlert, Broadcast, KernelGivesUp, Answer, FetchFails,
         Install, Connect, ConnectFails, ShowFatal, ShowNothing, ShowMistake, SaveSettings,
         Disconnect, Outage, Recover, Vanish
<1> QED BY <1>4, <1>5, <1>6, <1>7, <1>8, <1>9, <1>10, <1>11, <1>12
        DEF vars, server, history

-----------------------------------------------------------------------------
LEMMA InitOK == Init => StreamInv
<1> SUFFICES ASSUME Init PROVE StreamInv
  OBVIOUS
<1> USE Constants
<1>1. <<>> \in Seq(Entries) /\ Len(<<>>) = 0 /\ DOMAIN <<>> = {} /\ ToSet(<<>>) = {}
  BY DEF ToSet
<1>2. BusTypes
  BY <1>1 DEF Init, FeedInit, BusTypes
<1>3. PageTypes
  <2>1. 0 <= RECENT /\ 0 <= PAGE
    OBVIOUS
  <2>2. asked \subseteq BOOLEAN
    BY DEF Init, RequestPasses
  <2> QED BY ONLY <1>1, <2>1, <2>2, Init DEF Init, PageTypes
<1>4. ServerTypes
  <2>1. 0 <= SOCK /\ 0 < 1 /\ 1 <= 0 + 1 /\ <<>> \in Seq(Int) /\ <<>> \in Seq(Nat)
    OBVIOUS
  <2>2. /\ session = "none" /\ since = 0 /\ cursor = 1 /\ feed = <<>> /\ sock = <<>>
        /\ hand = Nothing /\ broken = FALSE /\ read = <<>> /\ skipped = {}
    BY DEF Init, FeedInit
  <2>3. /\ since \in Nat /\ cursor \in Nat /\ since < cursor /\ cursor <= Len(feed) + 1
        /\ Len(sock) <= SOCK /\ sock \in Seq(Int) /\ read \in Seq(Nat)
    BY ONLY <1>1, <2>1, <2>2
  <2>4. ToSet(sock) = {}
    BY ONLY <1>1, <2>2
  <2> QED BY ONLY <2>2, <2>3, <2>4 DEF ServerTypes
<1>5. WorldTypes
  BY DEF Init, WorldTypes
<1>6. BroadcastOnce /\ Behind
  BY <1>1 DEF Init, FeedInit, BroadcastOnce, Behind
<1>7. NothingYet /\ StreamInOrder /\ Showing
  BY DEF Init, NothingYet, StreamInOrder, Showing
<1> QED BY <1>2, <1>3, <1>4, <1>5, <1>6, <1>7 DEF StreamInv, TypeOK

LEMMA StepOK == StreamInv /\ [Next]_vars => StreamInv'
BY BusTyped, PageTyped, ServerTyped, WorldTyped, BroadcastOnceKept, BehindKept, NothingYetKept,
   OrderKept, ShowingKept DEF StreamInv, TypeOK

LEMMA Invariant == Spec => []StreamInv
BY InitOK, StepOK, PTL DEF Spec

(* Every variable has its type: the page shows at most PAGE alerts, the    *)
(* socket holds at most SOCK frames, and the receiver stands in the feed.  *)
THEOREM TypeCorrect == Spec => []TypeOK
<1>1. StreamInv => TypeOK
  BY DEF StreamInv
<1> QED BY <1>1, Invariant, PTL

(* A session passes on what was broadcast since it subscribed, in order    *)
(* and once, but for what the channel had dropped (api.rs:272).            *)
THEOREM StreamStaysInOrder == Spec => []StreamInOrder
<1>1. StreamInv => StreamInOrder
  BY DEF StreamInv
<1> QED BY <1>1, Invariant, PTL

(* A page that has caught up shows all that its answer held and all that   *)
(* was broadcast since its session subscribed, but for what the channel    *)
(* dropped, a late answer replaced or a full page let go.                  *)
THEOREM CaughtUpPagesShowAll == Spec => []OfferedIsShown
<1>1. ASSUME StreamInv PROVE OfferedIsShown
  <2> SUFFICES ASSUME CaughtUp
               PROVE  offered \cup {feed[i] : i \in since + 1..Len(feed)}
                          \subseteq Numbers(shown) \cup skipped \cup lost
    BY DEF OfferedIsShown
  <2>1. /\ ToSet(read) \cup offered \subseteq Numbers(shown) \cup lost
        /\ InOrder(PassedOn, feed, Due)
    BY <1>1, OrderIsAll DEF StreamInv, Showing, CaughtUp
  <2>2. /\ read \in Seq(Nat) /\ feed \in Seq(Nat) /\ since \in Nat /\ cursor = Len(feed) + 1
        /\ hand = Nothing /\ sock = <<>>
    BY <1>1 DEF StreamInv, TypeOK, BusTypes, ServerTypes, CaughtUp
  <2>3. \A i \in At(PassedOn) : PassedOn[i] \in ToSet(read)
    <3>1. PassedOn = Append(read, Nothing)
      BY <2>2 DEF PassedOn
    <3>2. ASSUME NEW i \in DOMAIN PassedOn, PassedOn[i] # Nothing
          PROVE  PassedOn[i] \in ToSet(read)
      <4>1. i \in 1..Len(read)
        BY <2>2, <3>1, <3>2 DEF Nothing
      <4>2. PassedOn[i] = read[i]
        BY <2>2, <3>1, <4>1 DEF Nothing
      <4> QED BY <2>2, <4>1, <4>2 DEF ToSet
    <3> QED BY <3>2 DEF At
  <2>4. ASSUME NEW k \in since + 1..Len(feed), feed[k] \notin skipped
        PROVE  feed[k] \in ToSet(read)
    <3>1. k \in Due
      BY <2>2, <2>4 DEF Due
    <3>2. feed[k] \in {PassedOn[i] : i \in At(PassedOn)}
      BY <2>1, <3>1 DEF InOrder
    <3> QED BY <2>3, <3>2
  <2> QED BY <2>1, <2>4
<1> QED BY <1>1, Invariant, PTL
=============================================================================
