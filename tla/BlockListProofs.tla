-------------------------- MODULE BlockListProofs ---------------------------
(***************************************************************************)
(* The block list is correct for every number of tasks and addresses, every *)
(* clean-up interval and every clock range: Inv is inductive, the action   *)
(* properties follow from it step by step, and the list implements the     *)
(* abstract table of bans.                                                 *)
(***************************************************************************)
EXTENDS BlockList, TLAPS

LEMMA RestrictType ==
    ASSUME NEW m, NEW S, DOMAIN m \subseteq Ips, m \in [DOMAIN m -> Instants], S \subseteq DOMAIN m
    PROVE  /\ DOMAIN Restrict(m, S) = S
           /\ DOMAIN Restrict(m, S) \subseteq Ips
           /\ Restrict(m, S) \in [DOMAIN Restrict(m, S) -> Instants]
           /\ \A ip \in S : Restrict(m, S)[ip] = m[ip]
BY DEF Restrict

LEMMA RetainType ==
    ASSUME NEW m, NEW now, DOMAIN m \subseteq Ips, m \in [DOMAIN m -> Instants]
    PROVE  /\ DOMAIN Retain(m, now) = {ip \in DOMAIN m : m[ip] > now}
           /\ Retain(m, now) \in [DOMAIN Retain(m, now) -> Instants]
           /\ \A ip \in DOMAIN Retain(m, now) : Retain(m, now)[ip] = m[ip]
<1> DEFINE S == {ip \in DOMAIN m : m[ip] > now}
<1>1. S \subseteq DOMAIN m
  OBVIOUS
<1>2. Retain(m, now) = Restrict(m, S)
  BY DEF Retain
<1> QED BY <1>1, <1>2, RestrictType

LEMMA RemoveType ==
    ASSUME NEW m, NEW ip, DOMAIN m \subseteq Ips, m \in [DOMAIN m -> Instants]
    PROVE  /\ DOMAIN Remove(m, ip) = DOMAIN m \ {ip}
           /\ Remove(m, ip) \in [DOMAIN Remove(m, ip) -> Instants]
           /\ \A i \in DOMAIN Remove(m, ip) : Remove(m, ip)[i] = m[i]
<1>1. DOMAIN m \ {ip} \subseteq DOMAIN m
  OBVIOUS
<1> QED BY <1>1, RestrictType DEF Remove

(***************************************************************************)
(* What every operation does to the map: entries it keeps are unchanged,   *)
(* entries it drops are over at the time it compares with, except the one  *)
(* an unblock removes, and only block writes an entry.                     *)
(***************************************************************************)
LEMMA IsBlockedEffect ==
    ASSUME Inv, NEW t \in Threads, IsBlocked(t)
    PROVE  /\ DOMAIN map' \subseteq DOMAIN map
           /\ map' \in [DOMAIN map' -> Instants]
           /\ \A ip \in DOMAIN map' : map'[ip] = map[ip]
           /\ \A ip \in DOMAIN map \ DOMAIN map' : map[ip] <= call[t].now
           /\ last_cleanup' \in {last_cleanup, call[t].now}
           /\ ret' = [ret EXCEPT ![t] = Answer(IF call[t].ip \in DOMAIN map /\ map[call[t].ip] > call[t].now
                                               THEN "blocked" ELSE "allowed")]
<1> DEFINE now == call[t].now
           q == call[t].ip
           m == Swept(now)
           hit == q \in DOMAIN m /\ m[q] > now
<1>0. now \in Nat /\ \A ip \in DOMAIN map : map[ip] \in Nat
  BY DEF Inv, TypeOK, Calls, Instants
<1>1. /\ DOMAIN m \subseteq DOMAIN map
      /\ m \in [DOMAIN m -> Instants]
      /\ \A ip \in DOMAIN m : m[ip] = map[ip]
      /\ \A ip \in DOMAIN map \ DOMAIN m : ~(map[ip] > now)
  <2>1. CASE SweepDue(now)
    <3>1. m = Retain(map, now)
      BY <2>1 DEF Swept
    <3>2. DOMAIN map \subseteq Ips /\ map \in [DOMAIN map -> Instants]
      BY DEF Inv, TypeOK
    <3>3. /\ DOMAIN Retain(map, now) = {ip \in DOMAIN map : map[ip] > now}
          /\ Retain(map, now) \in [DOMAIN Retain(map, now) -> Instants]
          /\ \A ip \in DOMAIN Retain(map, now) : Retain(map, now)[ip] = map[ip]
      BY <3>2, RetainType
    <3> QED BY <3>1, <3>3
  <2>2. CASE ~SweepDue(now)
    BY <2>2 DEF Inv, TypeOK, Swept
  <2> QED BY <2>1, <2>2
<1>2. hit <=> (q \in DOMAIN map /\ map[q] > now)
  BY <1>1
<1>3. map' = IF hit THEN m ELSE Remove(m, q)
  BY DEF IsBlocked, Hit
<1>4. /\ DOMAIN Remove(m, q) = DOMAIN m \ {q}
      /\ Remove(m, q) \in [DOMAIN Remove(m, q) -> Instants]
      /\ \A ip \in DOMAIN Remove(m, q) : Remove(m, q)[ip] = m[ip]
  <2>1. DOMAIN m \subseteq Ips
    BY <1>1 DEF Inv, TypeOK
  <2> QED BY <1>1, <2>1, RemoveType
<1>5. /\ DOMAIN map' \subseteq DOMAIN map
      /\ map' \in [DOMAIN map' -> Instants]
      /\ \A ip \in DOMAIN map' : map'[ip] = map[ip]
  <2>1. CASE hit BY <1>1, <1>3, <2>1
  <2>2. CASE ~hit BY <1>1, <1>3, <1>4, <2>2
  <2> QED BY <2>1, <2>2
<1>6. \A ip \in DOMAIN map \ DOMAIN map' : ~(map[ip] > now)
  <2>1. CASE hit BY <1>1, <1>3, <2>1
  <2>2. CASE ~hit BY <1>1, <1>2, <1>3, <1>4, <2>2
  <2> QED BY <2>1, <2>2
<1>7. \A ip \in DOMAIN map \ DOMAIN map' : map[ip] <= now
  BY <1>0, <1>6
<1>8. last_cleanup' \in {last_cleanup, now}
  BY DEF IsBlocked
<1>9. ret' = [ret EXCEPT ![t] = Answer(IF q \in DOMAIN map /\ map[q] > now THEN "blocked" ELSE "allowed")]
  BY <1>2 DEF IsBlocked, Hit, Return
<1> QED BY <1>5, <1>7, <1>8, <1>9

LEMMA UnblockEffect ==
    ASSUME Inv, NEW t \in Threads, Unblock(t)
    PROVE  /\ DOMAIN map' = DOMAIN map \ {call[t].ip}
           /\ map' \in [DOMAIN map' -> Instants]
           /\ \A ip \in DOMAIN map' : map'[ip] = map[ip]
<1>1. DOMAIN map \subseteq Ips /\ map \in [DOMAIN map -> Instants]
  BY DEF Inv, TypeOK
<1>2. map' = Remove(map, call[t].ip)
  BY DEF Unblock
<1> QED BY <1>1, <1>2, RemoveType

LEMMA ListEffect ==
    ASSUME Inv, NEW t \in Threads, List(t)
    PROVE  /\ DOMAIN map' = {ip \in DOMAIN map : map[ip] > call[t].now}
           /\ map' \in [DOMAIN map' -> Instants]
           /\ \A ip \in DOMAIN map' : map'[ip] = map[ip]
           /\ ret' = [ret EXCEPT ![t] = [is |-> "listed", ips |-> DOMAIN map']]
<1> DEFINE now == call[t].now
<1>1. DOMAIN map \subseteq Ips /\ map \in [DOMAIN map -> Instants]
  BY DEF Inv, TypeOK
<1>2. map' = Retain(map, now)
  BY DEF List
<1>3. /\ DOMAIN Retain(map, now) = {ip \in DOMAIN map : map[ip] > now}
      /\ Retain(map, now) \in [DOMAIN Retain(map, now) -> Instants]
      /\ \A ip \in DOMAIN Retain(map, now) : Retain(map, now)[ip] = map[ip]
  BY <1>1, RetainType
<1>4. ret' = [ret EXCEPT ![t] = [is |-> "listed", ips |-> DOMAIN map']]
  BY DEF List, Return
<1> QED BY <1>2, <1>3, <1>4

LEMMA BlockEffect ==
    ASSUME Inv, NEW t \in Threads, Block(t)
    PROVE  /\ call[t].ip \in Ips
           /\ LegalBan(call[t].now, call[t].at, clock)
           /\ DOMAIN map' = DOMAIN map \cup {call[t].ip}
           /\ map' \in [DOMAIN map' -> Instants]
           /\ map'[call[t].ip] = call[t].at
           /\ \A ip \in DOMAIN map \ {call[t].ip} : map'[ip] = map[ip]
           /\ since' = [since EXCEPT ![call[t].ip] = call[t].now]
<1>1. call[t].ip \in Ips /\ call[t].at \in Instants /\ LegalBan(call[t].now, call[t].at, clock)
  BY DEF Inv, TypeOK, HonestTimes, Calls, Block
<1>2. map' = Insert(map, call[t].ip, call[t].at)
  BY DEF Block
<1>3. map \in [DOMAIN map -> Instants]
  BY DEF Inv, TypeOK
<1> QED BY <1>1, <1>2, <1>3 DEF Insert, Block

-----------------------------------------------------------------------------
(* An operation that only drops entries, and returns, keeps Inv. *)
LEMMA ShrinkKeepsInv ==
    ASSUME Inv, NEW t \in Threads, NEW answer \in Answers,
           DOMAIN map' \subseteq DOMAIN map,
           map' \in [DOMAIN map' -> Instants],
           \A ip \in DOMAIN map' : map'[ip] = map[ip],
           last_cleanup' \in {last_cleanup, call[t].now},
           Return(t, answer),
           UNCHANGED <<clock, since>>
    PROVE  Inv'
<1>1. TypeOK'
  <2>1. call' \in [Threads -> Calls]
    BY BlockListAssumption DEF Inv, TypeOK, Return, NoCall, Calls, Instants
  <2>2. ret' \in [Threads -> Answers]
    BY DEF Inv, TypeOK, Return
  <2>3. last_cleanup' \in Instants
    BY DEF Inv, TypeOK, Calls
  <2> QED BY <2>1, <2>2, <2>3 DEF Inv, TypeOK
<1>2. HonestTimes'
  <2>1. last_cleanup' <= clock'
    BY DEF Inv, HonestTimes
  <2>2. ASSUME NEW u \in Threads
        PROVE  /\ call'[u].now <= clock'
               /\ call'[u].op \in {"block", "unblock", "is_blocked"} => call'[u].ip \in Ips
               /\ call'[u].op = "block" => LegalBan(call'[u].now, call'[u].at, clock')
    <3>1. CASE u = t
      <4>1. call'[u] = NoCall
        BY <3>1 DEF Return, Inv, TypeOK
      <4> QED BY <4>1 DEF NoCall, Inv, TypeOK, Instants
    <3>2. CASE u # t
      <4>1. call'[u] = call[u]
        BY <3>2 DEF Return, Inv, TypeOK
      <4> QED BY <4>1 DEF Inv, HonestTimes, LegalBan
    <3> QED BY <3>1, <3>2
  <2>3. \A ip \in DOMAIN map' : LegalBan(since'[ip], map'[ip], clock')
    BY DEF Inv, HonestTimes, LegalBan
  <2> QED BY <2>1, <2>2, <2>3 DEF HonestTimes, LegalBan
<1> QED BY <1>1, <1>2 DEF Inv

(* Entering an operation captures the clock and changes nothing shared. *)
LEMMA EnterKeepsInv ==
    ASSUME Inv, NEW t \in Threads,
           NEW op \in {"block", "unblock", "is_blocked", "list"},
           NEW ip \in Ips \cup {NoIp}, NEW at \in Instants,
           op # "list" => ip \in Ips,
           op = "block" => LegalBan(clock, at, clock),
           Enter(t, op, ip, at)
    PROVE  Inv'
<1>1. TypeOK'
  <2>1. call' \in [Threads -> Calls]
    BY DEF Inv, TypeOK, Enter, Calls
  <2>2. ret' \in [Threads -> Answers]
    BY DEF Inv, TypeOK, Enter, Answer, Answers
  <2> QED BY <2>1, <2>2 DEF Inv, TypeOK, Enter
<1>2. HonestTimes'
  <2>1. ASSUME NEW u \in Threads
        PROVE  /\ call'[u].now <= clock'
               /\ call'[u].op \in {"block", "unblock", "is_blocked"} => call'[u].ip \in Ips
               /\ call'[u].op = "block" => LegalBan(call'[u].now, call'[u].at, clock')
    <3>1. CASE u = t
      <4>1. call'[u] = [op |-> op, ip |-> ip, now |-> clock, at |-> at]
        BY <3>1 DEF Enter, Inv, TypeOK
      <4> QED BY <4>1 DEF Inv, TypeOK, Instants, Enter, LegalBan
    <3>2. CASE u # t
      <4>1. call'[u] = call[u]
        BY <3>2 DEF Enter, Inv, TypeOK
      <4> QED BY <4>1 DEF Enter, Inv, HonestTimes, LegalBan
    <3> QED BY <3>1, <3>2
  <2> QED BY <2>1 DEF Inv, HonestTimes, LegalBan, Enter
<1> QED BY <1>1, <1>2 DEF Inv

LEMMA InitInv == Init => Inv
BY BlockListAssumption
   DEF Init, Inv, TypeOK, HonestTimes, NoCall, Calls, Answer, Answers, Instants

(* Every step of the list keeps Inv: one step below for each action. *)
LEMMA NextInv == Inv /\ [Next]_vars => Inv'
<1> SUFFICES ASSUME Inv, [Next]_vars PROVE Inv'
  OBVIOUS
<1>1. CASE Tick
  <2>1. TypeOK'
    BY <1>1, BlockListAssumption DEF Inv, TypeOK, Tick, Instants
  <2>2. HonestTimes'
    <3>1. /\ clock' = clock + 1 /\ clock \in Nat /\ last_cleanup \in Nat
          /\ \A t \in Threads : call[t].now \in Nat
          /\ \A ip \in Ips : since[ip] \in Nat
      BY <1>1 DEF Inv, TypeOK, Tick, Instants, Calls
    <3> QED BY <1>1, <3>1 DEF Inv, TypeOK, HonestTimes, LegalBan, Tick
  <2> QED BY <2>1, <2>2 DEF Inv
<1>2. ASSUME NEW t \in Threads, NEW text \in Texts, NEW d \in Durations, CallBlock(t, text, d)
      PROVE  Inv'
  <2>1. Canon[text] \in Ips /\ d \in Nat /\ clock \in Nat
    BY <1>2, BlockListAssumption DEF CallBlock, Inv, TypeOK, Instants
  <2>2. clock + d \in Instants /\ LegalBan(clock, clock + d, clock)
    BY <1>2, <2>1, BlockListAssumption DEF CallBlock, Instants, LegalBan
  <2> QED BY <1>2, <2>1, <2>2, EnterKeepsInv DEF CallBlock
<1>3. ASSUME NEW t \in Threads, NEW text \in Texts, NEW d \in Durations, RefuseBlock(t, text, d)
      PROVE  Inv'
  <2>1. Answer("error") \in Answers
    BY DEF Answer, Answers
  <2> QED BY <1>3, <2>1, ShrinkKeepsInv DEF RefuseBlock, Inv, TypeOK
<1>4. ASSUME NEW t \in Threads, NEW text \in Texts, CallUnblock(t, text) \/ CallIsBlocked(t, text)
      PROVE  Inv'
  <2>1. Canon[text] \in Ips /\ 0 \in Instants
    BY <1>4, BlockListAssumption DEF CallUnblock, CallIsBlocked, Instants
  <2> QED BY <1>4, <2>1, EnterKeepsInv DEF CallUnblock, CallIsBlocked
<1>5. ASSUME NEW t \in Threads, NEW text \in Texts, RefuseText(t, text)
      PROVE  Inv'
  <2>1. Answer("error") \in Answers /\ Answer("allowed") \in Answers
    BY DEF Answer, Answers
  <2> QED BY <1>5, <2>1, ShrinkKeepsInv DEF RefuseText, Inv, TypeOK
<1>6. ASSUME NEW t \in Threads, CallList(t)
      PROVE  Inv'
  <2>1. 0 \in Instants
    BY BlockListAssumption DEF Instants
  <2> QED BY <1>6, <2>1, EnterKeepsInv DEF CallList
<1>7. ASSUME NEW t \in Threads, Block(t)
      PROVE  Inv'
  <2> DEFINE ip == call[t].ip
  <2>1. Return(t, Answer("ok")) /\ UNCHANGED <<clock, last_cleanup>>
    BY <1>7 DEF Block
  <2>2. call[t].now \in Instants /\ ip \in Ips
    BY <1>7, BlockEffect DEF Inv, TypeOK, Calls
  <2>3. TypeOK'
    <3>1. call' \in [Threads -> Calls]
      BY <2>1, BlockListAssumption DEF Inv, TypeOK, Return, NoCall, Calls, Instants
    <3>2. ret' \in [Threads -> Answers]
      BY <2>1 DEF Inv, TypeOK, Return, Answer, Answers
    <3>3. DOMAIN map' \subseteq Ips /\ map' \in [DOMAIN map' -> Instants] /\ since' \in [Ips -> Instants]
      BY <1>7, <2>2, BlockEffect DEF Inv, TypeOK
    <3> QED BY <2>1, <3>1, <3>2, <3>3 DEF Inv, TypeOK
  <2>4. HonestTimes'
    <3>1. ASSUME NEW u \in Threads PROVE call'[u] \in {call[u], NoCall}
      BY <2>1 DEF Return, Inv, TypeOK
    <3>2. \A u \in Threads :
            /\ call'[u].now <= clock'
            /\ call'[u].op \in {"block", "unblock", "is_blocked"} => call'[u].ip \in Ips
            /\ call'[u].op = "block" => LegalBan(call'[u].now, call'[u].at, clock')
      BY <2>1, <3>1 DEF Inv, TypeOK, HonestTimes, LegalBan, NoCall, Instants
    <3>3. ASSUME NEW i \in DOMAIN map' PROVE LegalBan(since'[i], map'[i], clock')
      <4>1. CASE i = ip
        BY <1>7, <2>1, <2>2, <4>1, BlockEffect DEF LegalBan, Inv, TypeOK
      <4>2. CASE i # ip
        BY <1>7, <2>1, <2>2, <4>2, BlockEffect DEF LegalBan, Inv, TypeOK, HonestTimes
      <4> QED BY <4>1, <4>2
    <3> QED BY <2>1, <3>2, <3>3 DEF Inv, HonestTimes, LegalBan
  <2> QED BY <2>3, <2>4 DEF Inv
<1>8. ASSUME NEW t \in Threads, Unblock(t)
      PROVE  Inv'
  <2> DEFINE answer == Answer(IF call[t].ip \in DOMAIN map THEN "ok" ELSE "absent")
  <2>1. answer \in Answers
    BY DEF Answer, Answers
  <2>2. Return(t, answer) /\ UNCHANGED <<clock, last_cleanup, since>>
    BY <1>8 DEF Unblock
  <2> QED BY <1>8, <2>1, <2>2, UnblockEffect, ShrinkKeepsInv
<1>9. ASSUME NEW t \in Threads, IsBlocked(t)
      PROVE  Inv'
  <2>1. PICK a \in {"blocked", "allowed"} : Return(t, Answer(a))
    BY <1>9 DEF IsBlocked
  <2>2. Answer(a) \in Answers
    BY DEF Answer, Answers
  <2>3. UNCHANGED <<clock, since>>
    BY <1>9 DEF IsBlocked
  <2> QED BY <1>9, <2>1, <2>2, <2>3, IsBlockedEffect, ShrinkKeepsInv
<1>10. ASSUME NEW t \in Threads, List(t)
       PROVE  Inv'
  <2> DEFINE answer == [is |-> "listed", ips |-> DOMAIN map']
  <2>1. DOMAIN map' \subseteq DOMAIN map
    BY <1>10, ListEffect
  <2>2. answer \in Answers
    BY <2>1 DEF Answers, Inv, TypeOK
  <2>3. Return(t, answer) /\ last_cleanup' = call[t].now /\ UNCHANGED <<clock, since>>
    BY <1>10 DEF List
  <2> QED BY <1>10, <2>1, <2>2, <2>3, ListEffect, ShrinkKeepsInv
<1>11. CASE UNCHANGED vars
  BY <1>11 DEF vars, Inv, TypeOK, HonestTimes, LegalBan
<1> QED BY <1>1, <1>2, <1>3, <1>4, <1>5, <1>6, <1>7, <1>8, <1>9, <1>10, <1>11 DEF Next

(***************************************************************************)
(* Types and times: no operation of the list ever works with a time from   *)
(* the future, and every entry is a legal ban asked for earlier.           *)
(***************************************************************************)
THEOREM ListInvariant == Spec => []Inv
<1>1. Inv /\ [Next]_vars => Inv'
  BY NextInv
<1> QED BY InitInv, <1>1, PTL DEF Spec

(* The type invariant of the block list. *)
THEOREM TypeCorrect == Spec => []TypeOK
<1>1. Inv => TypeOK
  BY DEF Inv
<1> QED BY ListInvariant, <1>1, PTL

(* Entries and captured times are honest. *)
THEOREM TimesCorrect == Spec => []HonestTimes
<1>1. Inv => HonestTimes
  BY DEF Inv
<1> QED BY ListInvariant, <1>1, PTL

-----------------------------------------------------------------------------
(* An operation completes only through its own locked step. *)
LEMMA CompletesBy ==
    ASSUME Inv, Next, NEW t \in Threads, NEW op \in {"unblock", "is_blocked", "list"}, Completes(t, op)
    PROVE  /\ op = "unblock" => Unblock(t)
           /\ op = "is_blocked" => IsBlocked(t)
           /\ op = "list" => List(t)
<1> USE DEF Completes
<1>1. CASE Tick
  BY <1>1 DEF Tick
<1>2. ASSUME NEW u \in Threads, NEW text \in Texts, NEW d \in Durations,
             CallBlock(u, text, d) \/ RefuseBlock(u, text, d)
      PROVE  FALSE
  BY <1>2 DEF CallBlock, RefuseBlock, Enter, Return, Idle, Inv, TypeOK
<1>3. ASSUME NEW u \in Threads, NEW text \in Texts,
             CallUnblock(u, text) \/ CallIsBlocked(u, text) \/ RefuseText(u, text)
      PROVE  FALSE
  BY <1>3 DEF CallUnblock, CallIsBlocked, RefuseText, Enter, Return, Idle, Inv, TypeOK
<1>4. ASSUME NEW u \in Threads, CallList(u) \/ Block(u)
      PROVE  FALSE
  BY <1>4 DEF CallList, Block, Enter, Return, Idle, Inv, TypeOK
<1>5. ASSUME NEW u \in Threads, Unblock(u) \/ IsBlocked(u) \/ List(u)
      PROVE  u = t
  BY <1>5 DEF Unblock, IsBlocked, List, Return, Inv, TypeOK
<1>6. ASSUME Unblock(t) \/ IsBlocked(t) \/ List(t)
      PROVE  /\ op = "unblock" => Unblock(t)
             /\ op = "is_blocked" => IsBlocked(t)
             /\ op = "list" => List(t)
  BY <1>6 DEF Unblock, IsBlocked, List
<1> QED BY <1>1, <1>2, <1>3, <1>4, <1>5, <1>6 DEF Next

(* What is_blocked answers, and what its answer says about the map. *)
LEMMA VerdictStep ==
    ASSUME Inv, NEW t \in Threads, IsBlocked(t)
    PROVE  /\ ret'[t].is = "allowed" => ~InForce(call[t].ip)
           /\ ret'[t].is = "blocked" => UnderBanDuringCall(t, call[t].ip)
<1> DEFINE q == call[t].ip
           now == call[t].now
<1>1. ret'[t].is = IF q \in DOMAIN map /\ map[q] > now THEN "blocked" ELSE "allowed"
  <2>1. ret' = [ret EXCEPT ![t] = Answer(IF q \in DOMAIN map /\ map[q] > now THEN "blocked" ELSE "allowed")]
    BY IsBlockedEffect
  <2> QED BY <2>1 DEF Inv, TypeOK, Answer
<1>2. now \in Nat /\ clock \in Nat /\ now <= clock /\ \A ip \in DOMAIN map : map[ip] \in Nat
  BY DEF Inv, TypeOK, HonestTimes, Calls, Instants
<1>3. ASSUME q \in DOMAIN map, map[q] > now PROVE UnderBanDuringCall(t, q)
  <2> DEFINE i == IF since[q] > now THEN since[q] ELSE now
  <2>1. /\ LegalBan(since[q], map[q], clock)
        /\ since[q] \in Instants /\ now \in Instants
    BY <1>3 DEF Inv, TypeOK, HonestTimes, Calls
  <2>2. i \in Instants /\ now <= i /\ i <= clock /\ since[q] <= i /\ i < map[q]
    BY <1>2, <1>3, <2>1 DEF LegalBan, Instants
  <2> QED BY <1>3, <2>2 DEF UnderBanDuringCall
<1>4. ASSUME ~(q \in DOMAIN map /\ map[q] > now) PROVE ~InForce(q)
  BY <1>2, <1>4 DEF InForce
<1> QED BY <1>1, <1>3, <1>4

(* A request is let through only when no ban on its address is in force. *)
THEOREM AllowedIsUnbanned == Spec => NoneAllowedWhileBanned
<1>1. Inv /\ [Next]_vars => [AllowedStep]_vars
  <2> SUFFICES ASSUME Inv, Next, NEW t \in Threads, Completes(t, "is_blocked"), ret'[t].is = "allowed"
               PROVE  ~InForce(call[t].ip)
    BY DEF AllowedStep
  <2>1. IsBlocked(t)
    BY CompletesBy
  <2> QED BY <2>1, VerdictStep
<1> QED BY <1>1, ListInvariant, PTL DEF Spec, NoneAllowedWhileBanned

(* A request is refused only when its address was under a ban during the call. *)
THEOREM RefusedIsBanned == Spec => RefusedOnlyForABan
<1>1. Inv /\ [Next]_vars => [RefusedStep]_vars
  <2> SUFFICES ASSUME Inv, Next, NEW t \in Threads, Completes(t, "is_blocked"), ret'[t].is = "blocked"
               PROVE  UnderBanDuringCall(t, call[t].ip)
    BY DEF RefusedStep
  <2>1. IsBlocked(t)
    BY CompletesBy
  <2> QED BY <2>1, VerdictStep
<1> QED BY <1>1, ListInvariant, PTL DEF Spec, RefusedOnlyForABan

(* The listing holds every ban in force, and nothing that was not one during the call. *)
THEOREM ListingCorrect == Spec => ListingIsAccurate
<1>1. Inv /\ [Next]_vars => [ListedStep]_vars
  <2> SUFFICES ASSUME Inv, Next, NEW t \in Threads, Completes(t, "list"), NEW ip \in Ips
               PROVE  /\ InForce(ip) => ip \in ret'[t].ips
                      /\ ip \in ret'[t].ips => UnderBanDuringCall(t, ip)
    BY DEF ListedStep
  <2> DEFINE now == call[t].now
  <2>1. List(t)
    BY CompletesBy
  <2>2. ret'[t].ips = {i \in DOMAIN map : map[i] > now}
    <3>1. ret' = [ret EXCEPT ![t] = [is |-> "listed", ips |-> DOMAIN map']]
      BY <2>1, ListEffect
    <3>2. ret'[t] = [is |-> "listed", ips |-> DOMAIN map']
      BY <3>1 DEF Inv, TypeOK
    <3>3. DOMAIN map' = {i \in DOMAIN map : map[i] > now}
      BY <2>1, ListEffect
    <3> QED BY <3>2, <3>3
  <2>3. now \in Nat /\ clock \in Nat /\ now <= clock /\ \A i \in DOMAIN map : map[i] \in Nat
    BY DEF Inv, TypeOK, HonestTimes, Calls, Instants
  <2>4. InForce(ip) => ip \in ret'[t].ips
    BY <2>2, <2>3 DEF InForce
  <2>5. ASSUME ip \in ret'[t].ips PROVE UnderBanDuringCall(t, ip)
    <3> DEFINE i == IF since[ip] > now THEN since[ip] ELSE now
    <3>1. /\ ip \in DOMAIN map /\ map[ip] > now
          /\ LegalBan(since[ip], map[ip], clock)
          /\ since[ip] \in Instants /\ now \in Instants
      BY <2>2, <2>5 DEF Inv, TypeOK, HonestTimes, Calls
    <3>2. i \in Instants /\ now <= i /\ i <= clock /\ since[ip] <= i /\ i < map[ip]
      BY <2>3, <3>1 DEF LegalBan, Instants
    <3> QED BY <3>1, <3>2 DEF UnderBanDuringCall
  <2> QED BY <2>4, <2>5
<1> QED BY <1>1, ListInvariant, PTL DEF Spec, ListingIsAccurate

(***************************************************************************)
(* What a step does to the bans in force, by the operation it completes.   *)
(* Everything but block, unblock and the clock leaves them alone.          *)
(***************************************************************************)
LEMMA DropOnly ==
    ASSUME Inv, NEW t \in Threads, IsBlocked(t) \/ List(t), NEW ip \in Ips
    PROVE  InForce(ip) => ip \in DOMAIN map' /\ map'[ip] = map[ip]
<1>1. call[t].now \in Nat /\ clock \in Nat /\ call[t].now <= clock /\ \A i \in DOMAIN map : map[i] \in Nat
  BY DEF Inv, TypeOK, HonestTimes, Calls, Instants
<1>2. CASE IsBlocked(t)
  BY <1>1, <1>2, IsBlockedEffect DEF InForce
<1>3. CASE List(t)
  <2>1. DOMAIN map' = {i \in DOMAIN map : map[i] > call[t].now}
    BY <1>3, ListEffect
  <2>2. \A i \in DOMAIN map' : map'[i] = map[i]
    BY <1>3, ListEffect
  <2> QED BY <1>1, <2>1, <2>2 DEF InForce
<1> QED BY <1>2, <1>3

LEMMA GrowOnly ==
    ASSUME Inv, NEW t \in Threads, IsBlocked(t) \/ List(t), NEW ip \in DOMAIN map'
    PROVE  ip \in DOMAIN map /\ map'[ip] = map[ip]
<1>1. CASE IsBlocked(t)
  BY <1>1, IsBlockedEffect
<1>2. CASE List(t)
  BY <1>2, ListEffect
<1> QED BY <1>1, <1>2

(* Clean-up never drops a ban in force: only an operator's unblock does. *)
THEOREM CleanupCorrect == Spec => CleanupKeepsBans
<1>1. Inv /\ [Next]_vars => [DropStep]_vars
  <2> SUFFICES ASSUME Inv, Next, NEW ip \in Ips, InForce(ip), ip \notin DOMAIN map'
               PROVE  \E t \in Threads : Completes(t, "unblock") /\ call[t].ip = ip
    BY DEF DropStep
  <2>1. ip \in DOMAIN map
    BY DEF InForce
  <2>2. CASE Tick
    BY <2>1, <2>2 DEF Tick
  <2>3. ASSUME NEW t \in Threads, NEW text \in Texts, NEW d \in Durations,
               CallBlock(t, text, d) \/ RefuseBlock(t, text, d)
        PROVE  FALSE
    BY <2>1, <2>3 DEF CallBlock, RefuseBlock, Enter
  <2>4. ASSUME NEW t \in Threads, NEW text \in Texts,
               CallUnblock(t, text) \/ CallIsBlocked(t, text) \/ RefuseText(t, text)
        PROVE  FALSE
    BY <2>1, <2>4 DEF CallUnblock, CallIsBlocked, RefuseText, Enter
  <2>5. ASSUME NEW t \in Threads, CallList(t)
        PROVE  FALSE
    BY <2>1, <2>5 DEF CallList, Enter
  <2>6. ASSUME NEW t \in Threads, Block(t)
        PROVE  FALSE
    BY <2>1, <2>6, BlockEffect
  <2>7. ASSUME NEW t \in Threads, IsBlocked(t) \/ List(t)
        PROVE  FALSE
    BY <2>7, DropOnly
  <2>8. ASSUME NEW t \in Threads, Unblock(t)
        PROVE  Completes(t, "unblock") /\ call[t].ip = ip
    <3>1. call[t].ip = ip
      BY <2>1, <2>8, UnblockEffect
    <3>2. Completes(t, "unblock")
      BY <2>8 DEF Completes, Unblock, Return, NoCall, Inv, TypeOK
    <3> QED BY <3>1, <3>2
  <2> QED BY <2>2, <2>3, <2>4, <2>5, <2>6, <2>7, <2>8 DEF Next
<1> QED BY <1>1, ListInvariant, PTL DEF Spec, CleanupKeepsBans

-----------------------------------------------------------------------------
(***************************************************************************)
(* The refinement.  A call of block or unblock asks, the locked step bans  *)
(* or lifts, the clock ticks, and every other step, sweeps and lazy        *)
(* removals included, is invisible.                                        *)
(***************************************************************************)
RequestOf(c) ==
    CASE c.op = "block"   -> [op |-> "ban", ip |-> c.ip, end |-> c.at]
      [] c.op = "unblock" -> [op |-> "lift", ip |-> c.ip, end |-> 0]
      [] OTHER            -> Bans!NoRequest

LEMMA RequestIs ==
    /\ request = [t \in Threads |-> RequestOf(call[t])]
    /\ request' = [t \in Threads |-> RequestOf(call'[t])]
BY DEF request, RequestOf, Bans!NoRequest

(* One task changes what it is in. *)
LEMMA RequestStep ==
    ASSUME Inv, NEW t \in Threads, NEW c, call' = [call EXCEPT ![t] = c]
    PROVE  request' = [request EXCEPT ![t] = RequestOf(c)]
<1>1. \A u \in Threads : call'[u] = IF u = t THEN c ELSE call[u]
  BY DEF Inv, TypeOK
<1>2. request' = [u \in Threads |-> IF u = t THEN RequestOf(c) ELSE RequestOf(call[u])]
  BY <1>1, RequestIs
<1>3. [request EXCEPT ![t] = RequestOf(c)]
      = [u \in Threads |-> IF u = t THEN RequestOf(c) ELSE RequestOf(call[u])]
  BY RequestIs
<1> QED BY <1>2, <1>3

(* A task that asks for nothing, before or after, changes no request. *)
LEMMA RequestStays ==
    ASSUME Inv, NEW t \in Threads, NEW c, call' = [call EXCEPT ![t] = c],
           RequestOf(c) = RequestOf(call[t])
    PROVE  request' = request
<1>1. request' = [request EXCEPT ![t] = RequestOf(c)]
  BY RequestStep
<1>2. \A u \in Threads : request'[u] = request[u]
  BY <1>1, RequestIs
<1>3. request' = [u \in Threads |-> request'[u]] /\ request = [u \in Threads |-> request[u]]
  BY RequestIs
<1> QED BY <1>2, <1>3

LEMMA Unasked ==
    /\ RequestOf(NoCall) = Bans!NoRequest
    /\ \A c : c.op \in {"none", "is_blocked", "list"} => RequestOf(c) = Bans!NoRequest
BY DEF RequestOf, NoCall

LEMMA RefineTick == ASSUME Inv, Tick PROVE Bans!Tick
<1>1. \A ip \in DOMAIN map : map[ip] \in Nat
  BY DEF Inv, TypeOK, Instants
<1>2. clock \in Nat
  BY DEF Inv, TypeOK, Instants
<1>3. ASSUME NEW ip \in Ips
      PROVE  until'[ip] = Bans!Remaining(until[ip], clock + 1)
  BY <1>1, <1>2 DEF Tick, until, InForce, Bans!Remaining
<1>4. until' = [ip \in Ips |-> Bans!Remaining(until[ip], clock + 1)]
  BY <1>3 DEF until
<1>5. request' = request
  BY DEF Tick, request
<1> QED BY <1>4, <1>5 DEF Tick, Bans!Tick

(* Entering an operation touches no ban, and asks if it is one of the two. *)
LEMMA RefineEnter ==
    ASSUME Inv, NEW t \in Threads, NEW op, NEW ip, NEW at, Idle(t), Enter(t, op, ip, at)
    PROVE  /\ UNCHANGED <<clock, until>>
           /\ request[t] = Bans!NoRequest
           /\ request' = [request EXCEPT ![t] =
                              RequestOf([op |-> op, ip |-> ip, now |-> clock, at |-> at])]
<1>1. UNCHANGED <<clock, map>>
  BY DEF Enter
<1>2. UNCHANGED <<clock, until>>
  BY <1>1 DEF until, InForce
<1>3. call[t].op = "none"
  BY DEF Idle
<1>4. request[t] = Bans!NoRequest
  BY <1>3, RequestIs, Unasked
<1> QED BY <1>2, <1>4, RequestStep DEF Enter

LEMMA RefineCall ==
    ASSUME Inv, NEW t \in Threads,
           \/ \E text \in Texts, d \in Durations : CallBlock(t, text, d)
           \/ \E text \in Texts : CallUnblock(t, text)
    PROVE  Bans!Ask(t)
<1>1. ASSUME NEW r \in Bans!Requests, request[t] = Bans!NoRequest,
             request' = [request EXCEPT ![t] = r], UNCHANGED <<clock, until>>
      PROVE  Bans!Ask(t)
  <2>1. request'[t] = r
    BY <1>1, RequestIs
  <2> QED BY <1>1, <2>1 DEF Bans!Ask
<1>2. ASSUME NEW text \in Texts, NEW d \in Durations, CallBlock(t, text, d) PROVE Bans!Ask(t)
  <2> DEFINE c == [op |-> "block", ip |-> Canon[text], now |-> clock, at |-> clock + d]
  <2>1. RequestOf(c) = [op |-> "ban", ip |-> Canon[text], end |-> clock + d]
    BY DEF RequestOf
  <2>2. Canon[text] \in Ips /\ clock + d \in clock + 1..clock + MaxBlock
    BY <1>2, BlockListAssumption DEF CallBlock, Inv, TypeOK, Instants
  <2>3. RequestOf(c) \in Bans!Requests
    BY <2>1, <2>2 DEF Bans!Requests
  <2>4. Idle(t) /\ Enter(t, "block", Canon[text], clock + d)
    BY <1>2 DEF CallBlock
  <2> QED BY <1>1, <2>3, <2>4, RefineEnter
<1>3. ASSUME NEW text \in Texts, CallUnblock(t, text) PROVE Bans!Ask(t)
  <2> DEFINE c == [op |-> "unblock", ip |-> Canon[text], now |-> clock, at |-> 0]
  <2>1. RequestOf(c) = [op |-> "lift", ip |-> Canon[text], end |-> 0]
    BY DEF RequestOf
  <2>2. Canon[text] \in Ips
    BY <1>3, BlockListAssumption DEF CallUnblock
  <2>3. RequestOf(c) \in Bans!Requests
    BY <2>1, <2>2 DEF Bans!Requests
  <2>4. Idle(t) /\ Enter(t, "unblock", Canon[text], 0)
    BY <1>3 DEF CallUnblock
  <2> QED BY <1>1, <2>3, <2>4, RefineEnter
<1> QED BY <1>2, <1>3

LEMMA RefineQuery ==
    ASSUME Inv, NEW t \in Threads,
           CallList(t) \/ \E text \in Texts : CallIsBlocked(t, text)
    PROVE  UNCHANGED <<clock, until, request>>
<1>1. PICK op \in {"is_blocked", "list"} : \E ip : Idle(t) /\ Enter(t, op, ip, 0)
  BY DEF CallList, CallIsBlocked
<1>2. PICK ip : Idle(t) /\ Enter(t, op, ip, 0)
  BY <1>1
<1> DEFINE c == [op |-> op, ip |-> ip, now |-> clock, at |-> 0]
<1>3. RequestOf(c) = Bans!NoRequest
  BY Unasked
<1>4. RequestOf(call[t]) = Bans!NoRequest
  BY <1>2, Unasked DEF Idle
<1>5. call' = [call EXCEPT ![t] = c]
  BY <1>2 DEF Enter
<1>6. request' = request
  BY <1>3, <1>4, <1>5, RequestStays
<1> QED BY <1>2, <1>6, RefineEnter

LEMMA RefineBlock ==
    ASSUME Inv, NEW t \in Threads, Block(t)
    PROVE  Bans!Ban(t)
<1> DEFINE q == call[t].ip
           end == call[t].at
<1>1. end \in Nat /\ clock \in Nat /\ clock' = clock
  BY DEF Inv, TypeOK, Calls, Instants, Block
<1>2. until' = [until EXCEPT ![q] = Bans!Remaining(end, clock)]
  <2>1. ASSUME NEW ip \in Ips
        PROVE  until'[ip] = [until EXCEPT ![q] = Bans!Remaining(end, clock)][ip]
    <3>1. CASE ip = q
      BY <1>1, <3>1, BlockEffect DEF until, InForce, Bans!Remaining
    <3>2. CASE ip # q
      BY <1>1, <3>2, BlockEffect DEF until, InForce
    <3> QED BY <3>1, <3>2
  <2> QED BY <2>1 DEF until
<1>3. request[t] = [op |-> "ban", ip |-> q, end |-> end]
  BY RequestIs DEF Block, RequestOf
<1>4. request' = [request EXCEPT ![t] = Bans!NoRequest]
  BY RequestStep, Unasked DEF Block, Return
<1> QED BY <1>1, <1>2, <1>3, <1>4 DEF Bans!Ban

LEMMA RefineUnblock ==
    ASSUME Inv, NEW t \in Threads, Unblock(t)
    PROVE  Bans!Lift(t)
<1>1. clock' = clock
  BY DEF Unblock
<1>2. ASSUME NEW ip \in Ips
      PROVE  until'[ip] = [until EXCEPT ![call[t].ip] = 0][ip]
  BY <1>1, UnblockEffect DEF until, InForce
<1>3. until' = [until EXCEPT ![call[t].ip] = 0]
  BY <1>2 DEF until
<1>4. request[t] = [op |-> "lift", ip |-> call[t].ip, end |-> 0]
  BY RequestIs DEF Unblock, RequestOf
<1>5. request' = [request EXCEPT ![t] = Bans!NoRequest]
  BY RequestStep, Unasked DEF Unblock, Return
<1> QED BY <1>1, <1>3, <1>4, <1>5 DEF Bans!Lift

LEMMA RefineCleanup ==
    ASSUME Inv, NEW t \in Threads, IsBlocked(t) \/ List(t)
    PROVE  UNCHANGED <<clock, until, request>>
<1>1. clock' = clock
  BY DEF IsBlocked, List
<1>2. ASSUME NEW ip \in Ips PROVE until'[ip] = until[ip]
  BY <1>1, DropOnly, GrowOnly DEF until, InForce
<1>3. call' = [call EXCEPT ![t] = NoCall] /\ call[t].op \in {"is_blocked", "list"}
  BY DEF IsBlocked, List, Return
<1>4. RequestOf(NoCall) = RequestOf(call[t])
  BY <1>3, Unasked
<1>5. request' = request
  BY <1>3, <1>4, RequestStays
<1> QED BY <1>1, <1>2, <1>5 DEF until

(* A refused request never reaches the list. *)
LEMMA RefineRefused ==
    ASSUME Inv, NEW t \in Threads,
           \/ \E text \in Texts, d \in Durations : RefuseBlock(t, text, d)
           \/ \E text \in Texts : RefuseText(t, text)
    PROVE  UNCHANGED <<clock, until, request>>
<1>1. /\ UNCHANGED <<clock, map>> /\ call[t].op = "none"
      /\ call' = [call EXCEPT ![t] = NoCall]
  BY DEF RefuseBlock, RefuseText, Idle, Return
<1>2. RequestOf(NoCall) = RequestOf(call[t])
  BY <1>1, Unasked
<1>3. request' = request
  BY <1>1, <1>2, RequestStays
<1> QED BY <1>1, <1>3 DEF until, InForce

(* The list implements the table of bans: a ban in force ends early only   *)
(* by an operator's request that is being served (block.rs:67-131).        *)
THEOREM Refinement == Spec => ImplementsBanTable
<1>1. Init => Bans!Init
  <2> SUFFICES ASSUME Init PROVE Bans!Init
    OBVIOUS
  <2>1. request = [t \in Threads |-> Bans!NoRequest]
    BY RequestIs, Unasked DEF Init
  <2> QED BY <2>1 DEF Init, Bans!Init, until, InForce
<1>2. Inv /\ [Next]_vars => [Bans!Next]_(Bans!vars)
  <2> SUFFICES ASSUME Inv, [Next]_vars
               PROVE  Bans!Next \/ UNCHANGED <<clock, until, request>>
    BY DEF Bans!vars
  <2>1. CASE Tick
    BY <2>1, RefineTick DEF Bans!Next
  <2>2. ASSUME NEW t \in Threads, NEW text \in Texts, NEW d \in Durations, CallBlock(t, text, d)
        PROVE  Bans!Next
    BY <2>2, RefineCall DEF Bans!Next
  <2>3. ASSUME NEW t \in Threads, NEW text \in Texts, CallUnblock(t, text)
        PROVE  Bans!Next
    BY <2>3, RefineCall DEF Bans!Next
  <2>4. ASSUME NEW t \in Threads, Block(t)
        PROVE  Bans!Next
    BY <2>4, RefineBlock DEF Bans!Next
  <2>5. ASSUME NEW t \in Threads, Unblock(t)
        PROVE  Bans!Next
    BY <2>5, RefineUnblock DEF Bans!Next
  <2>6. ASSUME NEW t \in Threads, IsBlocked(t) \/ List(t)
        PROVE  UNCHANGED <<clock, until, request>>
    BY <2>6, RefineCleanup
  <2>7. ASSUME NEW t \in Threads, NEW text \in Texts, NEW d \in Durations, RefuseBlock(t, text, d)
        PROVE  UNCHANGED <<clock, until, request>>
    BY <2>7, RefineRefused
  <2>8. ASSUME NEW t \in Threads, NEW text \in Texts, RefuseText(t, text)
        PROVE  UNCHANGED <<clock, until, request>>
    BY <2>8, RefineRefused
  <2>9. ASSUME NEW t \in Threads, NEW text \in Texts, CallIsBlocked(t, text)
        PROVE  UNCHANGED <<clock, until, request>>
    BY <2>9, RefineQuery
  <2>10. ASSUME NEW t \in Threads, CallList(t)
         PROVE  UNCHANGED <<clock, until, request>>
    BY <2>10, RefineQuery
  <2>11. CASE UNCHANGED vars
    BY <2>11 DEF vars, until, InForce, request
  <2> QED BY <2>1, <2>2, <2>3, <2>4, <2>5, <2>6, <2>7, <2>8, <2>9, <2>10, <2>11 DEF Next
<1> QED BY <1>1, <1>2, ListInvariant, PTL DEF Spec, Bans!Spec, ImplementsBanTable
=============================================================================
