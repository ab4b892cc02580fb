-------------------------- MODULE ConnectionsProofs --------------------------
(***************************************************************************)
(* For any set of connections, any number of permits and sockets and any   *)
(* requests: permits are neither lost nor made and nobody waits twice, a   *)
(* request that is forwarded has one length, the client address is the     *)
(* sender's, and only the gateway's own claims cross.  PermitsConserved is *)
(* inductive once the types are known; Checked says which checks a request *)
(* has behind it where it stands.  The last two hold of any request a      *)
(* connection may carry; what they rest on is how the addresses' bits are  *)
(* masked and how a list of addresses or headers is gone through.          *)
(***************************************************************************)
EXTENDS Connections, FiniteSetTheorems, SequenceTheorems, WellFoundedInduction, TLAPS

-----------------------------------------------------------------------------
(* A place at the end of a queue for one who has none. *)
LEMMA JoinQueue ==
    ASSUME NEW S, NEW s \in Seq(S), NEW x \in S, IsInjective(s), x \notin ToSet(s)
    PROVE  /\ Append(s, x) \in Seq(S)
           /\ IsInjective(Append(s, x))
           /\ ToSet(Append(s, x)) = ToSet(s) \cup {x}
<1> DEFINE t == Append(s, x)
<1>1. /\ t \in Seq(S) /\ Len(s) \in Nat /\ DOMAIN s = 1..Len(s)
      /\ DOMAIN t = 1..Len(s) + 1
      /\ \A i \in 1..Len(s) : t[i] = s[i]
      /\ t[Len(s) + 1] = x
  OBVIOUS
<1> HIDE DEF t
<1>2. \A i \in 1..Len(s) : s[i] # x
  BY <1>1 DEF ToSet
<1>3. IsInjective(t)
  <2> SUFFICES ASSUME NEW i \in DOMAIN t, NEW j \in DOMAIN t, t[i] = t[j]
               PROVE  i = j
    BY DEF IsInjective
  <2>1. CASE i \in 1..Len(s) /\ j \in 1..Len(s)
    BY <2>1, <1>1 DEF IsInjective
  <2>2. CASE i = Len(s) + 1 \/ j = Len(s) + 1
    BY <2>2, <1>1, <1>2
  <2> QED BY <2>1, <2>2, <1>1
<1>4. ToSet(t) = ToSet(s) \cup {x}
  BY <1>1 DEF ToSet
<1> QED BY <1>1, <1>3, <1>4 DEF t

(* The first one leaves it. *)
LEMMA LeaveQueue ==
    ASSUME NEW S, NEW s \in Seq(S), s # <<>>, IsInjective(s)
    PROVE  /\ Head(s) \in ToSet(s) /\ Head(s) \in S
           /\ Tail(s) \in Seq(S)
           /\ IsInjective(Tail(s))
           /\ ToSet(Tail(s)) = ToSet(s) \ {Head(s)}
<1> DEFINE t == Tail(s)
<1>1. /\ t \in Seq(S) /\ Len(s) \in Nat \ {0} /\ DOMAIN s = 1..Len(s)
      /\ Len(t) = Len(s) - 1
      /\ DOMAIN t = 1..Len(s) - 1
      /\ \A i \in 1..Len(s) - 1 : t[i] = s[i + 1]
      /\ Head(s) = s[1] /\ s[1] \in S
  BY HeadTailProperties, EmptySeq
<1> HIDE DEF t
<1>2. IsInjective(t)
  <2> SUFFICES ASSUME NEW i \in DOMAIN t, NEW j \in DOMAIN t, t[i] = t[j]
               PROVE  i = j
    BY DEF IsInjective
  <2>1. s[i + 1] = s[j + 1] /\ i + 1 \in DOMAIN s /\ j + 1 \in DOMAIN s
    BY <1>1
  <2>2. i + 1 = j + 1
    BY <2>1 DEF IsInjective
  <2> QED BY <2>2, <1>1
<1>3. \A i \in 2..Len(s) : s[i] # s[1] /\ i - 1 \in DOMAIN t /\ t[i - 1] = s[i]
  BY <1>1 DEF IsInjective
<1>4. ToSet(t) \subseteq ToSet(s) \ {Head(s)}
  <2> SUFFICES ASSUME NEW i \in DOMAIN t
               PROVE  t[i] \in ToSet(s) \ {Head(s)}
    BY DEF ToSet
  <2>1. t[i] = s[i + 1] /\ i + 1 \in DOMAIN s /\ i + 1 \in 2..Len(s)
    BY <1>1
  <2> QED BY <2>1, <1>1, <1>3 DEF ToSet
<1>5. ToSet(s) \ {Head(s)} \subseteq ToSet(t)
  <2> SUFFICES ASSUME NEW i \in DOMAIN s, s[i] # s[1]
               PROVE  s[i] \in ToSet(t)
    BY <1>1 DEF ToSet
  <2>1. i \in 2..Len(s)
    BY <1>1
  <2> QED BY <2>1, <1>3 DEF ToSet
<1>6. Head(s) \in ToSet(s)
  BY <1>1 DEF ToSet
<1>7. ToSet(t) = ToSet(s) \ {Head(s)}
  BY <1>4, <1>5
<1> QED BY <1>1, <1>2, <1>6, <1>7 DEF t

-----------------------------------------------------------------------------
Typed ==
    /\ stage \in [Conns -> Stages]
    /\ backlog \in Seq(Conns)
    /\ queue \in Seq(Conns)
    /\ permits \in Int

PermitInv == Typed /\ PermitsConserved

-----------------------------------------------------------------------------
(* One more holder, one fewer, and as many as before. *)
LEMMA HoldersFinite == IsFiniteSet(Holders) /\ Cardinality(Holders) \in Nat
BY ConnectionsAssumption, FS_Subset, FS_CardinalityType DEF Holders

LEMMA OneMore ==
    ASSUME NEW c \in Conns, c \notin Holders, Holders' = Holders \cup {c}
    PROVE  Cardinality(Holders') = Cardinality(Holders) + 1
BY HoldersFinite, FS_AddElement

LEMMA OneFewer ==
    ASSUME NEW c \in Holders, Holders' = Holders \ {c}
    PROVE  Cardinality(Holders') = Cardinality(Holders) - 1
BY HoldersFinite, FS_RemoveElement

-----------------------------------------------------------------------------
LEMMA PermitsAtStart ==
    Init => PermitInv
<1> SUFFICES ASSUME Init
             PROVE  PermitInv
  OBVIOUS
<1>1. Typed
  BY ConnectionsAssumption DEF Init, Typed, Stages
<1>2. Holders = {} /\ Cardinality(Holders) = 0
  BY FS_EmptySet DEF Init, Holders, Holding
<1>3. permits >= 0 /\ permits + Cardinality(Holders) = MaxConns
  BY <1>2, ConnectionsAssumption DEF Init
<1>4. IsInjective(<<>>) /\ ToSet(<<>>) = {}
  BY DEF IsInjective, ToSet
<1> QED BY <1>1, <1>3, <1>4 DEF Init, PermitInv, PermitsConserved

(* A connection that goes from one stage to another, both without a place  *)
(* in a queue, and both with a permit or both without.                     *)
LEMMA StaysAsItWas ==
    ASSUME PermitInv, NEW c \in Conns, NEW to,
           Goto(c, stage[c], to), stage[c] \in Holding, to \in Holding,
           UNCHANGED <<backlog, queue, permits>>
    PROVE  PermitInv'
<1> USE DEF PermitInv, Typed, PermitsConserved, Goto, Holding, Stages
<1>1. Typed'
  OBVIOUS
<1>2. Holders' = Holders
  BY DEF Holders
<1>3. /\ {d \in Conns : stage'[d] = "queued"} = {d \in Conns : stage[d] = "queued"}
      /\ {d \in Conns : stage'[d] = "backlog"} = {d \in Conns : stage[d] = "backlog"}
  OBVIOUS
<1> QED BY <1>1, <1>2, <1>3

LEMMA PermitsKept ==
    PermitInv /\ [Next]_vars => PermitInv'
<1> SUFFICES ASSUME PermitInv, [Next]_vars
             PROVE  PermitInv'
  OBVIOUS
<1> DEFINE Queued == {d \in Conns : stage[d] = "queued"}
           Waiting == {d \in Conns : stage[d] = "backlog"}
<1>0. /\ Typed /\ permits >= 0 /\ permits + Cardinality(Holders) = MaxConns
      /\ IsInjective(queue) /\ ToSet(queue) = Queued
      /\ IsInjective(backlog) /\ ToSet(backlog) = Waiting
  BY DEF PermitInv, PermitsConserved
<1>1. ASSUME NEW c \in Conns, Arrive(c)
      PROVE  PermitInv'
  <2>1. Typed'
    BY <1>0, <1>1 DEF Arrive, Goto, Typed, Stages
  <2>2. Holders' = Holders /\ Queued' = Queued
    BY <1>0, <1>1 DEF Arrive, Goto, Typed, Holders, Holding
  <2>3. Waiting' = Waiting \cup {c} /\ c \notin Waiting
    BY <1>0, <1>1 DEF Arrive, Goto, Typed
  <2>4. IsInjective(backlog') /\ ToSet(backlog') = Waiting'
    BY <1>0, <1>1, <2>3, JoinQueue DEF Arrive, Typed
  <2> QED BY <1>0, <1>1, <2>1, <2>2, <2>4 DEF Arrive, PermitInv, PermitsConserved
<1>2. CASE Accept
  <2> DEFINE c == Head(backlog)
  <2>1. /\ c \in Waiting /\ Tail(backlog) \in Seq(Conns)
        /\ IsInjective(Tail(backlog)) /\ ToSet(Tail(backlog)) = Waiting \ {c}
    BY <1>0, <1>2, LeaveQueue DEF Accept, Typed
  <2>2. c \in Conns /\ stage[c] = "backlog"
    BY <2>1
  <2> HIDE DEF c
  <2>3. stage' = [stage EXCEPT ![c] = "queued"] /\ queue' = Append(queue, c)
        /\ backlog' = Tail(backlog) /\ permits' = permits
    BY <1>2 DEF Accept, c
  <2>4. Holders' = Holders
    BY <1>0, <2>2, <2>3 DEF Typed, Holders, Holding
  <2>5. Waiting' = Waiting \ {c} /\ Queued' = Queued \cup {c} /\ c \notin Queued
    BY <1>0, <2>2, <2>3 DEF Typed
  <2>6. queue' \in Seq(Conns) /\ IsInjective(queue') /\ ToSet(queue') = Queued'
    BY <1>0, <2>2, <2>3, <2>5, JoinQueue DEF Typed
  <2>7. IsInjective(backlog') /\ ToSet(backlog') = Waiting'
    BY <2>1, <2>3, <2>5
  <2>8. Typed'
    BY <1>0, <2>1, <2>3, <2>6 DEF Typed, Stages
  <2> QED BY <1>0, <2>3, <2>4, <2>6, <2>7, <2>8 DEF PermitInv, PermitsConserved
<1>3. CASE AcceptFails \/ Wake
  <2>1. UNCHANGED <<stage, backlog, queue, permits>>
    BY <1>3 DEF AcceptFails, Wake
  <2> QED BY <2>1 DEF PermitInv, Typed, PermitsConserved, Holders
<1>4. CASE Acquire
  <2> DEFINE c == Head(queue)
             to == IF message.tls THEN "handshake" ELSE "head"
  <2>1. /\ c \in Queued /\ Tail(queue) \in Seq(Conns)
        /\ IsInjective(Tail(queue)) /\ ToSet(Tail(queue)) = Queued \ {c}
    BY <1>0, <1>4, LeaveQueue DEF Acquire, Typed
  <2>2. c \in Conns /\ stage[c] = "queued" /\ to \in Holding /\ to \in Stages
    BY <2>1 DEF Holding, Stages
  <2>3. stage' = [stage EXCEPT ![c] = to] /\ queue' = Tail(queue)
        /\ backlog' = backlog /\ permits' = permits - 1 /\ permits > 0
    BY <1>4 DEF Acquire
  <2> HIDE DEF c, to
  <2>4. c \notin Holders /\ Holders' = Holders \cup {c}
    BY <1>0, <2>2, <2>3 DEF Typed, Holders, Holding
  <2>5. Cardinality(Holders') = Cardinality(Holders) + 1
    BY <2>2, <2>4, OneMore
  <2>6. Waiting' = Waiting /\ Queued' = Queued \ {c}
    BY <1>0, <2>2, <2>3 DEF Typed, Holding
  <2>7. Typed'
    BY <1>0, <2>1, <2>2, <2>3 DEF Typed
  <2>8. permits' >= 0 /\ permits' + Cardinality(Holders') = MaxConns
    BY <1>0, <2>3, <2>5, HoldersFinite DEF Typed
  <2> QED BY <1>0, <2>1, <2>3, <2>6, <2>7, <2>8 DEF PermitInv, PermitsConserved
<1>5. ASSUME NEW c \in Conns, Handshake(c) \/ Request(c) \/ Refuse(c) \/ Forward(c) \/ Answer(c)
      PROVE  PermitInv'
  <2>1. PICK to \in Holding : Goto(c, stage[c], to) /\ stage[c] \in Holding
    BY <1>5 DEF Handshake, Request, Refuse, Forward, Answer, Goto, Holding
  <2>2. UNCHANGED <<backlog, queue, permits>>
    BY <1>5 DEF Handshake, Request, Refuse, Forward, Answer
  <2> QED BY <2>1, <2>2, StaysAsItWas
<1>6. ASSUME NEW c \in Conns, Leave(c)
      PROVE  PermitInv'
  <2>1. c \in Holders /\ Holders' = Holders \ {c}
    BY <1>0, <1>6 DEF Leave, Typed, Holders, Holding
  <2>2. Cardinality(Holders') = Cardinality(Holders) - 1
    BY <2>1, OneFewer
  <2>3. Waiting' = Waiting /\ Queued' = Queued
    BY <1>0, <1>6 DEF Leave, Typed, Holding
  <2>4. Typed'
    BY <1>0, <1>6 DEF Leave, Typed, Stages
  <2>5. permits' >= 0 /\ permits' + Cardinality(Holders') = MaxConns
    BY <1>0, <1>6, <2>2, HoldersFinite DEF Leave, Typed
  <2> QED BY <1>0, <1>6, <2>3, <2>4, <2>5 DEF Leave, PermitInv, PermitsConserved
<1>7. CASE UNCHANGED vars
  BY <1>7 DEF vars, PermitInv, Typed, PermitsConserved, Holders
<1> QED BY <1>1, <1>2, <1>3, <1>4, <1>5, <1>6, <1>7 DEF Next

(* However a connection ends, in the handshake, by the time-out for a head *)
(* or in the middle of a request, the semaphore of the accept loop counts  *)
(* what is left of MaxConns, and no task waits for a permit twice          *)
(* (main.rs:1029-1073).                                                    *)
THEOREM PermitsCorrect ==
    Spec => []PermitsConserved
<1>1. PermitInv => PermitsConserved
  BY DEF PermitInv
<1> QED BY <1>1, PermitsAtStart, PermitsKept, PTL DEF Spec

-----------------------------------------------------------------------------
(* How a request came to be forwarded: hyper took its head before it was   *)
(* served, and valid_request_boundaries before it went on.                 *)
Checked ==
    \A c \in Conns :
        /\ stage[c] \in {"serving", "forwarding"} => Parses(Heads(message))
        /\ stage[c] = "forwarding" => ValidBoundaries(Heads(message))

LEMMA CheckedAtStart == Init => Checked
BY DEF Init, Checked

LEMMA CheckedKept == Typed /\ Checked /\ [Next]_vars => Checked'
<1> SUFFICES ASSUME Typed, Checked, [Next]_vars PROVE Checked'
  OBVIOUS
<1>1. message' = message
  BY DEF Next, Accept, AcceptFails, Wake, Acquire, Arrive, Handshake, Request, Refuse,
         Forward, Answer, Leave, vars
<1>2. /\ Parses(Heads(message))' = Parses(Heads(message))
      /\ ValidBoundaries(Heads(message))' = ValidBoundaries(Heads(message))
  BY <1>1 DEF Parses, Places, Values, Heads, Line, ValidBoundaries, Codings
<1>3. ASSUME NEW c \in Conns
      PROVE  \/ stage'[c] = stage[c] \/ stage'[c] \notin {"serving", "forwarding"}
             \/ stage'[c] = "serving" /\ Parses(Heads(message))
             \/ /\ stage[c] = "serving" /\ stage'[c] = "forwarding"
                /\ ValidBoundaries(Heads(message))
  <2>1. CASE UNCHANGED vars \/ AcceptFails \/ Wake
    BY <2>1 DEF vars, AcceptFails, Wake
  <2>2. CASE Accept
    BY <2>2 DEF Accept, Typed
  <2>3. CASE Acquire
    <3>1. \E to \in {"handshake", "head"} : stage' = [stage EXCEPT ![Head(queue)] = to]
      BY <2>3 DEF Acquire
    <3> QED BY <3>1 DEF Typed
  <2>4. ASSUME NEW d \in Conns,
               Arrive(d) \/ Handshake(d) \/ Refuse(d) \/ Answer(d) \/ Leave(d)
        PROVE  stage'[c] = stage[c] \/ stage'[c] \notin {"serving", "forwarding"}
    <3>1. \E to \in {"backlog", "head", "away"} : stage' = [stage EXCEPT ![d] = to]
      BY <2>4 DEF Arrive, Handshake, Refuse, Answer, Leave, Goto
    <3> QED BY <3>1 DEF Typed
  <2>5. ASSUME NEW d \in Conns, Request(d)
        PROVE  stage'[c] = stage[c] \/ (stage'[c] = "serving" /\ Parses(Heads(message)))
    <3>1. stage'[c] = stage[c] \/ stage'[c] = "serving"
      BY <2>5 DEF Request, Goto, Typed
    <3> QED BY <2>5, <3>1 DEF Request
  <2>6. ASSUME NEW d \in Conns, Forward(d)
        PROVE  \/ stage'[c] = stage[c]
               \/ /\ stage[c] = "serving" /\ stage'[c] = "forwarding"
                  /\ ValidBoundaries(Heads(message))
    <3>1. stage'[c] = stage[c] \/ (stage[c] = "serving" /\ stage'[c] = "forwarding")
      BY <2>6 DEF Forward, Goto, Typed
    <3> QED BY <2>6, <3>1 DEF Forward
  <2> QED BY <2>1, <2>2, <2>3, <2>4, <2>5, <2>6 DEF Next
<1>4. ASSUME NEW c \in Conns
      PROVE  /\ stage'[c] \in {"serving", "forwarding"} => Parses(Heads(message))
             /\ stage'[c] = "forwarding" => ValidBoundaries(Heads(message))
  BY <1>3 DEF Checked
<1> QED BY <1>2, <1>4 DEF Checked

(* What the two checks leave open together: the last coding hyper saw was  *)
(* readable, so valid_request_boundaries saw it too.                       *)
LEMMA CheckedHasOneReading ==
    ASSUME NEW headers, Parses(headers), ValidBoundaries(headers)
    PROVE  Framing(headers)
<1> DEFINE places == Places(headers, "transfer-encoding")
           lengths == Values(headers, "content-length")
<1>1. /\ \A v \in lengths : v \in Numerals
      /\ \A v, u \in lengths : v = u
      /\ Codings(headers) # {} => /\ lengths = {}
                                 /\ \A i \in Codings(headers) : headers[i].value = "chunked"
  BY DEF ValidBoundaries
<1>2. CASE places = {}
  <2>1. Values(headers, "transfer-encoding") = {}
    BY <1>2 DEF Values
  <2> QED BY <1>1, <2>1 DEF Framing
<1>3. CASE places # {}
  <2>1. PICK last \in places : headers[last].value \in {"chunked", "gzip, chunked"}
    BY <1>3 DEF Parses
  <2>2. last \in Codings(headers)
    BY <2>1, ForwardingAssumption DEF Codings
  <2>3. lengths = {} /\ headers[last].value = "chunked"
    BY <1>1, <2>2
  <2>4. \A i \in places : headers[i].value \in {"chunked", Opaque}
    BY <1>1, <2>2 DEF Codings
  <2>5. /\ "chunked" \in Values(headers, "transfer-encoding")
        /\ Values(headers, "transfer-encoding") \subseteq {"chunked", Opaque}
    BY <2>1, <2>3, <2>4 DEF Values
  <2> QED BY <2>3, <2>5 DEF Framing
<1> QED BY <1>2, <1>3

(* Whatever the headers, a request that is forwarded has one length: hyper *)
(* and valid_request_boundaries are enough together, though neither is     *)
(* alone (main.rs:345).                                                    *)
THEOREM FramingCorrect ==
    Spec => []OneReading
<1> DEFINE IInv == PermitInv /\ Checked
<1>1. Init => IInv
  BY PermitsAtStart, CheckedAtStart
<1>2. IInv /\ [Next]_vars => IInv'
  BY PermitsKept, CheckedKept DEF PermitInv
<1>3. IInv => OneReading
  BY CheckedHasOneReading DEF Checked, OneReading
<1> QED BY <1>1, <1>2, <1>3, PTL DEF Spec
-----------------------------------------------------------------------------
(* A set of numbers has a least one: the form induction takes below. *)
LEMMA First ==
    ASSUME NEW T, T \subseteq Nat, T # {}
    PROVE  \E x \in T : \A y \in T : x <= y
<1>1. PICK x \in T : \A y \in T : ~ (<<y, x>> \in OpToRel(<, Nat))
  BY NatLessThanWellFounded, WFMin
<1>2. \A y \in T : ~ (y < x)
  BY <1>1 DEF OpToRel
<1> QED BY <1>2

(* Powers of two: the recursive function exists and is determined. *)
Powers(power, n) == power = [i \in 0..n |-> IF i = 0 THEN 1 ELSE 2 * power[i - 1]]

LEMMA PowersExist ==
    ASSUME NEW n \in Nat
    PROVE  \E power : Powers(power, n)
<1> DEFINE bad == {k \in Nat : ~ \E power : Powers(power, k)}
<1>1. CASE bad = {}
  BY <1>1
<1>2. CASE bad # {}
  <2>1. PICK m \in bad : \A k \in bad : m <= k
    <3>1. bad \subseteq Nat
      OBVIOUS
    <3> HIDE DEF bad
    <3> QED BY <1>2, <3>1, First
  <2>2. CASE m = 0
    <3> DEFINE g == [i \in 0..0 |-> 1]
    <3>1. g = [i \in 0..0 |-> IF i = 0 THEN 1 ELSE 2 * g[i - 1]]
      OBVIOUS
    <3> QED BY <2>1, <2>2, <3>1 DEF Powers
  <2>3. CASE m # 0
    <3>1. m - 1 \in Nat /\ m - 1 \notin bad
      BY <2>1, <2>3
    <3>2. PICK f : Powers(f, m - 1)
      BY <3>1
    <3> DEFINE g == [i \in 0..m |-> IF i < m THEN f[i] ELSE 2 * f[m - 1]]
    <3>3. ASSUME NEW i \in 0..m PROVE g[i] = IF i = 0 THEN 1 ELSE 2 * g[i - 1]
      <4>1. CASE i = m
        <5>1. i # 0 /\ i - 1 \in 0..m /\ i - 1 < m
          BY <2>1, <2>3, <4>1
        <5> QED BY <4>1, <5>1
      <4>2. CASE i < m
        <5>1. i \in 0..m - 1 /\ (i # 0 => i - 1 \in 0..m /\ i - 1 < m)
          BY <2>1, <4>2
        <5>2. f[i] = IF i = 0 THEN 1 ELSE 2 * f[i - 1]
          BY <3>2, <5>1 DEF Powers
        <5> QED BY <4>2, <5>1, <5>2
      <4> QED BY <2>1, <4>1, <4>2
    <3>4. g = [i \in 0..m |-> g[i]]
      OBVIOUS
    <3>5. Powers(g, m)
      <4> HIDE DEF g
      <4>1. [i \in 0..m |-> g[i]] = [i \in 0..m |-> IF i = 0 THEN 1 ELSE 2 * g[i - 1]]
        BY <3>3
      <4> QED BY <3>4, <4>1 DEF Powers
    <3> QED BY <2>1, <3>5
  <2> QED BY <2>2, <2>3
<1> QED BY <1>1, <1>2

LEMMA PowersAgree ==
    ASSUME NEW m \in Nat, NEW n \in Nat, m <= n,
           NEW f, Powers(f, m), NEW g, Powers(g, n)
    PROVE  \A i \in 0..m : f[i] = g[i]
<1> DEFINE bad == {k \in 0..m : g[k] # f[k]}
<1>1. CASE bad = {}
  BY <1>1
<1>2. CASE bad # {}
  <2>1. PICK k \in bad : \A j \in bad : k <= j
    <3>1. bad \subseteq Nat
      OBVIOUS
    <3> HIDE DEF bad
    <3> QED BY <1>2, <3>1, First
  <2>2. /\ f[k] = IF k = 0 THEN 1 ELSE 2 * f[k - 1]
        /\ g[k] = IF k = 0 THEN 1 ELSE 2 * g[k - 1]
    <3>1. k \in 0..m /\ k \in 0..n
      BY <2>1
    <3> QED BY <3>1 DEF Powers
  <2>3. k # 0 => k - 1 \in 0..m /\ k - 1 \notin bad
    BY <2>1
  <2> QED BY <2>1, <2>2, <2>3
<1> QED BY <1>1, <1>2

LEMMA PowerOf ==
    ASSUME NEW n \in Nat, NEW f, Powers(f, n)
    PROVE  Pow2(n) = f[n]
<1> DEFINE g == CHOOSE h : h = [i \in 0..n |-> IF i = 0 THEN 1 ELSE 2 * h[i - 1]]
<1>1. Pow2(n) = g[n]
  BY DEF Pow2
<1>2. Powers(g, n)
  BY DEF Powers
<1> HIDE DEF g
<1>3. g[n] = f[n]
  BY <1>2, PowersAgree
<1> QED BY <1>1, <1>3

LEMMA Pow2Zero == Pow2(0) = 1
<1>1. PICK f : Powers(f, 0)
  BY PowersExist
<1>2. f[0] = 1
  BY <1>1 DEF Powers
<1> QED BY <1>1, <1>2, PowerOf

LEMMA Pow2Next ==
    ASSUME NEW n \in Nat
    PROVE  Pow2(n + 1) = 2 * Pow2(n)
<1>1. PICK f : Powers(f, n)
  BY PowersExist
<1>2. PICK g : Powers(g, n + 1)
  BY PowersExist
<1>3. f[n] = g[n]
  <2>1. n <= n + 1 /\ n + 1 \in Nat /\ n \in 0..n
    OBVIOUS
  <2> QED BY <1>1, <1>2, <2>1, PowersAgree
<1>4. g[n + 1] = 2 * g[n]
  <2>1. n + 1 \in 0..n + 1 /\ n + 1 # 0 /\ n + 1 - 1 = n
    OBVIOUS
  <2> QED BY <1>2, <2>1 DEF Powers
<1> QED BY <1>1, <1>2, <1>3, <1>4, PowerOf

LEMMA Pow2Positive ==
    ASSUME NEW n \in Nat
    PROVE  Pow2(n) \in Nat \ {0}
<1> DEFINE bad == {k \in Nat : Pow2(k) \notin Nat \ {0}}
<1>1. CASE bad = {}
  BY <1>1
<1>2. CASE bad # {}
  <2>1. PICK k \in bad : \A j \in bad : k <= j
    <3>1. bad \subseteq Nat
      OBVIOUS
    <3> HIDE DEF bad
    <3> QED BY <1>2, <3>1, First
  <2>2. k # 0
    BY <2>1, Pow2Zero
  <2>3. k - 1 \in Nat /\ k - 1 \notin bad /\ k - 1 + 1 = k
    BY <2>1, <2>2
  <2>4. Pow2(k) = 2 * Pow2(k - 1)
    BY <2>3, Pow2Next
  <2> QED BY <2>1, <2>3, <2>4
<1> QED BY <1>1, <1>2

LEMMA Pow2Sum ==
    ASSUME NEW m \in Nat, NEW n \in Nat
    PROVE  Pow2(m + n) = Pow2(m) * Pow2(n)
<1> DEFINE bad == {k \in Nat : Pow2(m + k) # Pow2(m) * Pow2(k)}
<1>1. CASE bad = {}
  BY <1>1
<1>2. CASE bad # {}
  <2>1. PICK k \in bad : \A j \in bad : k <= j
    <3>1. bad \subseteq Nat
      OBVIOUS
    <3> HIDE DEF bad
    <3> QED BY <1>2, <3>1, First
  <2>2. Pow2(m + 0) = Pow2(m) * Pow2(0)
    BY Pow2Zero, Pow2Positive
  <2>3. k # 0
    BY <2>1, <2>2
  <2>4. k - 1 \in Nat /\ k - 1 \notin bad /\ k - 1 + 1 = k /\ m + (k - 1) + 1 = m + k
        /\ m + (k - 1) \in Nat
    BY <2>1, <2>3
  <2>5. Pow2(m + (k - 1)) = Pow2(m) * Pow2(k - 1)
    BY <2>4
  <2>6. Pow2(m + k) = 2 * Pow2(m + (k - 1)) /\ Pow2(k) = 2 * Pow2(k - 1)
    BY <2>4, Pow2Next
  <2>7. Pow2(m) * (2 * Pow2(k - 1)) = 2 * (Pow2(m) * Pow2(k - 1))
    BY <2>4, Pow2Positive
  <2> QED BY <2>1, <2>5, <2>6, <2>7
<1> QED BY <1>1, <1>2

-----------------------------------------------------------------------------
(* Quotients: they are determined by their rests, and halve as they should. *)
LEMMA Quotient ==
    ASSUME NEW a \in Nat, NEW u \in Nat \ {0}
    PROVE  a \div u \in Nat /\ a % u \in 0..u - 1 /\ a = (a \div u) * u + (a % u)
OBVIOUS

LEMMA QuotientIs ==
    ASSUME NEW a \in Nat, NEW u \in Nat \ {0}, NEW q \in Nat, NEW r \in 0..u - 1, a = q * u + r
    PROVE  a \div u = q /\ a % u = r
OBVIOUS

LEMMA Halved ==
    ASSUME NEW a \in Nat, NEW u \in Nat \ {0}
    PROVE  a \div (2 * u) = (a \div u) \div 2
OBVIOUS

(* A shift by one bit more drops the last bit. *)
Bit(a, j) == (a \div Pow2(j)) % 2

LEMMA OneBitMore ==
    ASSUME NEW a \in Nat, NEW j \in Nat
    PROVE  /\ a \div Pow2(j) \in Nat /\ a \div Pow2(j + 1) = (a \div Pow2(j)) \div 2
           /\ a \div Pow2(j) = 2 * (a \div Pow2(j + 1)) + Bit(a, j)
<1>1. Pow2(j) \in Nat \ {0} /\ Pow2(j + 1) = 2 * Pow2(j)
  BY Pow2Positive, Pow2Next
<1>2. a \div Pow2(j) \in Nat
  BY <1>1, Quotient
<1>3. a \div Pow2(j + 1) = (a \div Pow2(j)) \div 2
  BY <1>1, Halved
<1>4. ASSUME NEW q \in Nat PROVE q = 2 * (q \div 2) + (q % 2)
  OBVIOUS
<1> QED BY <1>2, <1>3, <1>4 DEF Bit

(* Two numbers of w bits are the same from bit k on if and only if they    *)
(* are the same shifted by k.                                              *)
LEMMA SameBits ==
    ASSUME NEW w \in Nat, NEW k \in 0..w,
           NEW a \in 0..Pow2(w) - 1, NEW b \in 0..Pow2(w) - 1
    PROVE  (\A j \in k..w - 1 : Bit(a, j) = Bit(b, j)) <=> a \div Pow2(k) = b \div Pow2(k)
<1>0. a \in Nat /\ b \in Nat /\ Pow2(w) \in Nat \ {0}
  BY Pow2Positive
<1>1. ASSUME \A j \in k..w - 1 : Bit(a, j) = Bit(b, j)
      PROVE  a \div Pow2(k) = b \div Pow2(k)
  <2> DEFINE bad == {d \in 0..w - k : a \div Pow2(w - d) # b \div Pow2(w - d)}
  <2>1. CASE bad = {}
    <3>1. w - k \in 0..w - k /\ w - (w - k) = k
      OBVIOUS
    <3> QED BY <2>1, <3>1
  <2>2. CASE bad # {}
    <3>1. PICK d \in bad : \A e \in bad : d <= e
      <4>1. bad \subseteq Nat
        OBVIOUS
      <4> HIDE DEF bad
      <4> QED BY <2>2, <4>1, First
    <3>2. d # 0
      <4>1. a \div Pow2(w) = 0 /\ b \div Pow2(w) = 0
        BY <1>0
      <4>2. w - 0 = w
        OBVIOUS
      <4> QED BY <3>1, <4>1, <4>2
    <3>3. /\ w - d \in k..w - 1 /\ w - d \in Nat /\ w - (d - 1) = w - d + 1
          /\ d - 1 \in 0..w - k /\ d - 1 \notin bad
      BY <3>1, <3>2
    <3>4. a \div Pow2(w - d + 1) = b \div Pow2(w - d + 1)
      BY <3>3
    <3>5. Bit(a, w - d) = Bit(b, w - d)
      BY <1>1, <3>3
    <3>6. a \div Pow2(w - d) = b \div Pow2(w - d)
      BY <1>0, <3>3, <3>4, <3>5, OneBitMore
    <3> QED BY <3>1, <3>6
  <2> QED BY <2>1, <2>2
<1>2. ASSUME a \div Pow2(k) = b \div Pow2(k), NEW j \in k..w - 1
      PROVE  Bit(a, j) = Bit(b, j)
  <2> DEFINE bad == {i \in k..w - 1 : a \div Pow2(i) # b \div Pow2(i)}
  <2>1. CASE bad = {}
    BY <2>1 DEF Bit
  <2>2. CASE bad # {}
    <3>1. PICK i \in bad : \A e \in bad : i <= e
      <4>1. bad \subseteq Nat
        OBVIOUS
      <4> HIDE DEF bad
      <4> QED BY <2>2, <4>1, First
    <3>2. i # k
      BY <1>2, <3>1
    <3>3. i - 1 \in k..w - 1 /\ i - 1 \in Nat /\ i - 1 \notin bad /\ i - 1 + 1 = i
      BY <3>1, <3>2
    <3>4. a \div Pow2(i - 1) = b \div Pow2(i - 1)
      BY <3>3
    <3>5. a \div Pow2(i) = b \div Pow2(i)
      BY <1>0, <3>3, <3>4, OneBitMore
    <3> QED BY <3>1, <3>5
  <2> QED BY <2>1, <2>2
<1> QED BY <1>1, <1>2

-----------------------------------------------------------------------------
(* The two widths, and what an address is in the wider one. *)
LEMMA Widths ==
    /\ W4 \in Nat \ {0} /\ W6 \in Nat /\ W6 - W4 \in Nat
    /\ Pow2(W4) \in Nat \ {0} /\ Pow2(W6 - W4) \in Nat \ {0}
    /\ Pow2(W6) = Pow2(W6 - W4) * Pow2(W4)
    /\ MAPPED \in 0..Pow2(W6 - W4) - 1 /\ MAPPED \in Nat
<1>1. W4 \in Nat \ {0} /\ W6 \in Nat \ {0} /\ W6 % W4 = 0
  BY ForwardingAssumption
<1>2. W6 = (W6 \div W4) * W4 /\ W6 \div W4 \in Nat
  BY <1>1, Quotient
<1>3. W6 - W4 \in Nat
  <2> DEFINE q == W6 \div W4
  <2>1. q # 0
    BY <1>1, <1>2
  <2>2. W6 - W4 = (q - 1) * W4 /\ q - 1 \in Nat
    <3> HIDE DEF q
    <3> QED BY <1>1, <1>2, <2>1 DEF q
  <2> HIDE DEF q
  <2> QED BY <1>1, <2>2
<1>4. Pow2(W6) = Pow2(W6 - W4) * Pow2(W4)
  <2>1. (W6 - W4) + W4 = W6
    BY <1>1
  <2> QED BY <1>1, <1>3, <2>1, Pow2Sum
<1>5. MAPPED \in 0..Pow2(W6 - W4) - 1
  BY ForwardingAssumption
<1>6. MAPPED \in Nat
  <2> DEFINE m == Pow2(W6 - W4)
  <2>1. m \in Nat
    BY <1>3, Pow2Positive
  <2>2. MAPPED \in 0..m - 1
    BY <1>5
  <2> HIDE DEF m
  <2> QED BY <2>1, <2>2
<1> QED BY <1>1, <1>3, <1>4, <1>5, <1>6, Pow2Positive

LEMMA AddressIs ==
    ASSUME NEW ip \in Addresses
    PROVE  /\ ip = Ip(ip.family, ip.n) /\ ip.n \in Nat
           /\ \/ ip.family = 4 /\ ip.n \in 0..Pow2(W4) - 1
              \/ ip.family = 6 /\ ip.n \in 0..Pow2(W6) - 1
BY DEF Addresses, Ip

(* Half an address and the rest of it. *)
LEMMA InRange ==
    ASSUME NEW u \in Nat \ {0}, NEW v \in Nat \ {0}, NEW q \in 0..v - 1, NEW r \in 0..u - 1
    PROVE  q * u + r \in 0..v * u - 1
OBVIOUS

LEMMA CanonicalIs ==
    ASSUME NEW ip \in Addresses
    PROVE  /\ Canonical(ip) \in Addresses /\ Canonical(Canonical(ip)) = Canonical(ip)
           /\ Wide(Canonical(ip)) = Wide(ip) /\ Wide(ip) \in 0..Pow2(W6) - 1
           /\ Canonical(ip).family = 6 => Canonical(ip) = ip
<1>1. CASE ip.family = 4
  <2>1. ip.n \in 0..Pow2(W4) - 1
    BY <1>1, AddressIs
  <2>2. Canonical(ip) = ip
    BY <1>1 DEF Canonical, IsMapped
  <2>3. MAPPED * Pow2(W4) + ip.n \in 0..Pow2(W6) - 1
    BY <2>1, Widths, InRange
  <2> QED BY <1>1, <2>2, <2>3 DEF Wide
<1>2. CASE ip.family = 6 /\ ~ IsMapped(ip)
  BY <1>2, AddressIs DEF Canonical, Wide
<1>3. CASE ip.family = 6 /\ IsMapped(ip)
  <2>1. ip.n \in 0..Pow2(W6) - 1 /\ ip.n \in Nat /\ ip.n \div Pow2(W4) = MAPPED
    BY <1>3, AddressIs DEF IsMapped
  <2>2. ip.n % Pow2(W4) \in 0..Pow2(W4) - 1 /\ ip.n = MAPPED * Pow2(W4) + (ip.n % Pow2(W4))
    BY <2>1, Widths, Quotient
  <2>3. Canonical(ip) = Ip(4, ip.n % Pow2(W4))
    BY <1>3 DEF Canonical
  <2>4. Canonical(ip) \in Addresses /\ Canonical(ip).family = 4
        /\ Canonical(ip).n = ip.n % Pow2(W4)
    BY <2>2, <2>3 DEF Addresses, Ip
  <2>5. Canonical(Canonical(ip)) = Canonical(ip)
    BY <2>4 DEF Canonical, IsMapped
  <2> QED BY <1>3, <2>1, <2>2, <2>4, <2>5 DEF Wide
<1> QED BY <1>1, <1>2, <1>3, AddressIs

LEMMA SameWide ==
    ASSUME NEW a \in Addresses, NEW b \in Addresses, a.family = b.family
    PROVE  Wide(a) = Wide(b) <=> a = b
<1>1. MAPPED * Pow2(W4) \in Int
  BY Widths
<1> QED BY <1>1, AddressIs DEF Wide

(* Shifted within the bits of IPv4, what a mapped address has above stays. *)
LEMMA ShiftedWide ==
    ASSUME NEW a \in Addresses, NEW b \in Addresses, a.family = 4, b.family = 4, NEW k \in 0..W4
    PROVE  Wide(a) \div Pow2(k) = Wide(b) \div Pow2(k) <=> a.n \div Pow2(k) = b.n \div Pow2(k)
<1> DEFINE u == Pow2(k)
           v == Pow2(W4 - k)
<1>1. u \in Nat \ {0} /\ v \in Nat \ {0} /\ Pow2(W4) = v * u
  <2>1. k \in Nat /\ W4 - k \in Nat /\ (W4 - k) + k = W4
    BY Widths
  <2> QED BY <2>1, Pow2Positive, Pow2Sum
<1>2. MAPPED \in Nat
  BY Widths
<1> HIDE DEF u, v
<1>3. ASSUME NEW n \in Nat
      PROVE  (MAPPED * Pow2(W4) + n) \div u = MAPPED * v + (n \div u)
  <2>1. n \div u \in Nat /\ n % u \in 0..u - 1 /\ n = (n \div u) * u + (n % u)
    BY <1>1, Quotient
  <2> DEFINE q == MAPPED * v + (n \div u)
  <2>0. MAPPED * v \in Nat /\ (MAPPED * v) * u = MAPPED * (v * u) /\ MAPPED * Pow2(W4) \in Nat
    BY <1>1, <1>2, Widths
  <2>2. q \in Nat /\ q * u = MAPPED * Pow2(W4) + (n \div u) * u
    BY <1>1, <1>2, <2>0, <2>1
  <2>3. MAPPED * Pow2(W4) + n \in Nat /\ MAPPED * Pow2(W4) + n = q * u + (n % u)
    <3>1. (n \div u) * u \in Nat
      BY <1>1, <2>1
    <3> DEFINE high == MAPPED * Pow2(W4)
               middle == (n \div u) * u
               low == n % u
               whole == q * u
    <3>2. whole = high + middle /\ n = middle + low /\ high \in Nat /\ middle \in Nat
          /\ low \in Nat
      BY <1>1, <2>0, <2>1, <2>2, <3>1
    <3> HIDE DEF high, middle, low, whole
    <3>3. high + n \in Nat /\ high + n = whole + low
      BY <3>2
    <3> QED BY <3>3 DEF high, low, whole
  <2> HIDE DEF q
  <2>4. (MAPPED * Pow2(W4) + n) \div u = q
    BY <1>1, <2>1, <2>2, <2>3, QuotientIs
  <2> QED BY <2>4 DEF q
<1>4. a.n \in Nat /\ b.n \in Nat
  BY AddressIs
<1>5. a.n \div u \in Nat /\ b.n \div u \in Nat /\ MAPPED * v \in Nat
  <2>1. MAPPED * v \in Nat
    BY <1>1, <1>2
  <2> QED BY <1>1, <1>4, <2>1, Quotient
<1>6. Wide(a) \div u = MAPPED * v + (a.n \div u) /\ Wide(b) \div u = MAPPED * v + (b.n \div u)
  BY <1>3, <1>4 DEF Wide
<1> QED BY <1>5, <1>6 DEF u

(* What cidr_match and its callers read, as a network read bit by bit.     *)
Reads(item, ip) ==
    IF item.prefix = Exact
    THEN Canonical(item.ip) = Canonical(ip)
    ELSE CidrMatch(Canonical(item.ip), item.prefix, Canonical(ip))

(* How far a network's prefix leaves an address to be shifted. *)
Shift(item) == W6 - (IF item.prefix = Exact THEN W6 ELSE item.prefix + W6 - Width(item.ip))

LEMMA ShiftIs ==
    ASSUME NEW item \in Proxies, item.ip # NoIp, item.prefix <= Width(item.ip)
    PROVE  /\ item.ip \in Addresses /\ item.prefix \in Nat \cup {Exact}
           /\ Shift(item) \in 0..W6
           /\ Shift(item) = IF item.prefix = Exact THEN 0 ELSE Width(item.ip) - item.prefix
<1>1. item.ip \in Addresses /\ item.prefix \in Nat \cup {Exact}
  BY DEF Proxies
<1>2. Width(item.ip) \in Nat /\ Width(item.ip) <= W6
  BY Widths DEF Width
<1> QED BY <1>1, <1>2, Widths DEF Shift

LEMMA NetworkIs ==
    ASSUME NEW item \in Proxies, item.ip # NoIp, item.prefix <= Width(item.ip), NEW ip \in Addresses
    PROVE  InNetwork(item, ip) <=>
               /\ Canonical(item.ip).family = Canonical(ip).family
               /\ Wide(item.ip) \div Pow2(Shift(item)) = Wide(ip) \div Pow2(Shift(item))
<1> DEFINE a == Wide(item.ip)
           b == Wide(ip)
           k == Shift(item)
           bits == IF item.prefix = Exact THEN W6 ELSE item.prefix + W6 - Width(item.ip)
<1>1. a \in 0..Pow2(W6) - 1 /\ b \in 0..Pow2(W6) - 1
  BY ShiftIs, CanonicalIs
<1>2. k \in 0..W6 /\ k = W6 - bits /\ W6 \in Nat /\ bits \in Int
  <2>1. Width(item.ip) \in Nat
    BY Widths DEF Width
  <2> QED BY <2>1, ShiftIs, Widths DEF Shift
<1>3. InNetwork(item, ip) <=>
          /\ Canonical(item.ip).family = Canonical(ip).family
          /\ \A i \in 1..bits : Bit(a, W6 - i) = Bit(b, W6 - i)
  BY DEF InNetwork, Bit
<1> HIDE DEF a, b, k, bits
<1>4. (\A i \in 1..bits : Bit(a, W6 - i) = Bit(b, W6 - i))
      <=> \A j \in k..W6 - 1 : Bit(a, j) = Bit(b, j)
  <2>1. ASSUME \A i \in 1..bits : Bit(a, W6 - i) = Bit(b, W6 - i), NEW j \in k..W6 - 1
        PROVE  Bit(a, j) = Bit(b, j)
    <3>1. W6 - j \in 1..bits /\ W6 - (W6 - j) = j
      BY <1>2
    <3> QED BY <2>1, <3>1
  <2>2. ASSUME \A j \in k..W6 - 1 : Bit(a, j) = Bit(b, j), NEW i \in 1..bits
        PROVE  Bit(a, W6 - i) = Bit(b, W6 - i)
    <3>1. W6 - i \in k..W6 - 1
      BY <1>2
    <3> QED BY <2>2, <3>1
  <2> QED BY <2>1, <2>2
<1>5. (\A j \in k..W6 - 1 : Bit(a, j) = Bit(b, j)) <=> a \div Pow2(k) = b \div Pow2(k)
  BY <1>1, <1>2, SameBits
<1> QED BY <1>3, <1>4, <1>5 DEF a, b, k

(* A remainder as the shifts of a release build take it. *)
LEMMA Wrapped ==
    ASSUME NEW w \in Nat \ {0}, NEW r \in 0..w - 1, NEW j \in Int
    PROVE  (r - j * w) % w = r
OBVIOUS

(* As long as the prefix of a mapped base reaches into the bits of IPv4,   *)
(* the arithmetic of cidr_match (main.rs:290) reads the network as written.*)
LEMMA NetworkReads ==
    ASSUME NEW item \in Proxies, item.ip # NoIp, item.prefix <= Width(item.ip),
           ~ Misread(item), NEW ip \in Addresses
    PROVE  Reads(item, ip) <=> InNetwork(item, ip)
<1> DEFINE base == Canonical(item.ip)
           c == Canonical(ip)
           k == Shift(item)
           p == item.prefix
<1>1. /\ base \in Addresses /\ c \in Addresses /\ k \in 0..W6 /\ p \in Nat \cup {Exact}
      /\ k = IF p = Exact THEN 0 ELSE Width(item.ip) - p
      /\ Wide(base) = Wide(item.ip) /\ Wide(c) = Wide(ip)
      /\ Wide(base) \in 0..Pow2(W6) - 1 /\ Wide(c) \in 0..Pow2(W6) - 1
      /\ base.family = 6 => base = item.ip
  BY ShiftIs, CanonicalIs
<1>2. InNetwork(item, ip) <=>
          base.family = c.family /\ Wide(base) \div Pow2(k) = Wide(c) \div Pow2(k)
  BY <1>1, NetworkIs
<1>3. Reads(item, ip) <=> IF p = Exact THEN base = c ELSE CidrMatch(base, p, c)
  BY DEF Reads
<1>4. ~ (item.ip.family = 6 /\ base.family = 4 /\ p \in 1..W6 - W4)
  BY DEF Misread, Canonical
<1>5. item.ip.family \in {4, 6} /\ (item.ip.family = 4 => base.family = 4)
  <2>1. item.ip \in Addresses
    BY ShiftIs
  <2> QED BY <2>1, AddressIs DEF Canonical, IsMapped
<1>6. p <= Width(item.ip) /\ Width(item.ip) = IF item.ip.family = 4 THEN W4 ELSE W6
  BY DEF Width
<1>7. base.family \in {4, 6} /\ c.family \in {4, 6}
  BY <1>1, AddressIs
<1> HIDE DEF base, c, k, p
<1>8. CASE base.family # c.family
  BY <1>2, <1>3, <1>8 DEF CidrMatch
<1>9. CASE base.family = c.family /\ p = Exact
  <2>1. k = 0 /\ Pow2(k) = 1
    BY <1>1, <1>9, Pow2Zero
  <2>2. Wide(base) \div Pow2(k) = Wide(base) /\ Wide(c) \div Pow2(k) = Wide(c)
    <3>1. Pow2(W6) \in Nat
      BY Widths, Pow2Positive
    <3> QED BY <1>1, <2>1, <3>1
  <2> QED BY <1>1, <1>2, <1>3, <1>9, <2>2, SameWide
<1>10. CASE base.family = c.family /\ p = 0
  <2>1. CidrMatch(base, p, c)
    BY <1>10 DEF CidrMatch
  <2>2. Wide(base) \div Pow2(k) = Wide(c) \div Pow2(k)
    <3>1. CASE item.ip.family = 4
      <4>1. k = W4 /\ base.family = 4 /\ c.family = 4
        BY <1>1, <1>5, <1>6, <1>10, <3>1, Widths DEF Exact
      <4>2. base.n \div Pow2(W4) = 0 /\ c.n \div Pow2(W4) = 0
        BY <1>1, <4>1, AddressIs, Widths
      <4>3. W4 \in 0..W4
        BY Widths
      <4> QED BY <1>1, <4>1, <4>2, <4>3, ShiftedWide
    <3>2. CASE item.ip.family = 6
      <4>1. k = W6 /\ Pow2(W6) \in Nat \ {0}
        BY <1>1, <1>6, <1>10, <3>2, Widths, Pow2Positive DEF Exact
      <4>2. Wide(base) \div Pow2(k) = 0 /\ Wide(c) \div Pow2(k) = 0
        BY <1>1, <4>1
      <4> QED BY <4>2
    <3> QED BY <1>5, <3>1, <3>2
  <2> QED BY <1>2, <1>3, <1>10, <2>1, <2>2 DEF Exact
<1>11. CASE base.family = 6 /\ c.family = 6 /\ p # Exact /\ p # 0
  <2>1. k = W6 - p /\ p \in 1..W6 /\ Width(base) = W6
    BY <1>1, <1>5, <1>6, <1>11, Widths DEF Width
  <2>2. (Width(base) - p) % Width(base) = k
    <3>1. k \in 0..W6 - 1 /\ W6 \in Nat \ {0}
      BY <2>1, Widths
    <3> QED BY <2>1, <3>1
  <2>3. CidrMatch(base, p, c) <=> base.n \div Pow2(k) = c.n \div Pow2(k)
    BY <1>11, <2>2 DEF CidrMatch
  <2>4. Wide(base) = base.n /\ Wide(c) = c.n
    BY <1>11 DEF Wide
  <2> QED BY <1>2, <1>3, <1>11, <2>3, <2>4
<1>12. CASE base.family = 4 /\ c.family = 4 /\ p # Exact /\ p # 0
  <2>1. k \in 0..W4 - 1 /\ Width(base) = W4
    BY <1>1, <1>4, <1>5, <1>6, <1>12, Widths DEF Width
  <2>2. (Width(base) - p) % Width(base) = k
    <3>1. PICK j \in Int : Width(base) - p = k - j * W4
      <4>1. CASE item.ip.family = 4
        <5>1. W4 - p = k - 0 * W4
          BY <1>1, <1>6, <1>12, <4>1, Widths
        <5> QED BY <2>1, <5>1
      <4>2. CASE item.ip.family = 6
        <5>1. PICK q \in Nat : W6 = q * W4
          <6>1. W6 = (W6 \div W4) * W4 + (W6 % W4) /\ W6 \div W4 \in Nat
            BY Quotient, Widths
          <6>2. W6 % W4 = 0
            BY ForwardingAssumption
          <6>3. W6 = (W6 \div W4) * W4
            <7> DEFINE x == (W6 \div W4) * W4
            <7>1. x \in Nat
              BY <6>1, Widths
            <7> HIDE DEF x
            <7>2. W6 = x + (W6 % W4)
              BY <6>1 DEF x
            <7>3. W6 = x
              BY <6>2, <7>1, <7>2
            <7> QED BY <7>3 DEF x
          <6> QED BY <6>1, <6>3
        <5>2. W4 - p = k - (q - 1) * W4
          <6>1. (q - 1) * W4 = W6 - W4 /\ p \in Nat /\ k = W6 - p
            BY <1>1, <1>6, <1>12, <4>2, <5>1, Widths
          <6> QED BY <6>1, Widths
        <5>3. q - 1 \in Int
          OBVIOUS
        <5> QED BY <2>1, <5>2, <5>3
      <4> QED BY <1>5, <4>1, <4>2
    <3>2. (k - j * W4) % W4 = k
      BY <2>1, Widths, Wrapped
    <3> QED BY <2>1, <3>1, <3>2
  <2>3. CidrMatch(base, p, c) <=> base.n \div Pow2(k) = c.n \div Pow2(k)
    BY <1>12, <2>2 DEF CidrMatch
  <2>4. k \in 0..W4
    BY <2>1, Widths
  <2>5. Wide(base) \div Pow2(k) = Wide(c) \div Pow2(k) <=> base.n \div Pow2(k) = c.n \div Pow2(k)
    BY <1>1, <1>12, <2>4, ShiftedWide
  <2> QED BY <1>2, <1>3, <1>12, <2>3, <2>5
<1> QED BY <1>7, <1>8, <1>9, <1>10, <1>11, <1>12

-----------------------------------------------------------------------------
(* What contains answers for the trusted proxies of a configuration.       *)
LEMMA TrustsProxies ==
    ASSUME message \in Messages, \A item \in message.trusted : ~ Misread(item),
           NEW ip \in Addresses
    PROVE  Trusts(message.trusted, ip) <=> IsProxy(ip)
<1>1. message.trusted \subseteq Proxies
  BY ConnectionsAssumption
<1>2. ASSUME NEW item \in message.trusted, item.ip # NoIp, item.prefix <= Width(item.ip)
      PROVE  Reads(item, ip) <=> InNetwork(item, ip)
  BY <1>1, <1>2, NetworkReads
<1>3. Trusts(message.trusted, ip) <=> \E item \in Parsed(message.trusted) : Reads(item, ip)
  BY DEF Trusts, Reads
<1> QED BY <1>2, <1>3 DEF IsProxy, Parsed

(* The addresses a request came through, and what the header says of them. *)
LEMMA Way ==
    ASSUME NEW client \in Addresses, NEW hops \in Seq(Addresses),
           NEW forged \in Seq(Addresses \cup {NoIp, Opaque})
    PROVE  LET way == <<client>> \o hops
               line == forged \o Front(way)
           IN  /\ Len(hops) \in Nat /\ Len(forged) \in Nat
               /\ Last(way) = IF Len(hops) = 0 THEN client ELSE hops[Len(hops)]
               /\ DOMAIN line = 1..Len(forged) + Len(hops)
               /\ \A i \in 1..Len(forged) : line[i] = forged[i]
               /\ \A i \in 1..Len(hops) :
                      line[Len(forged) + i] = IF i = 1 THEN client ELSE hops[i - 1]
<1> DEFINE way == <<client>> \o hops
           front == Front(way)
           line == forged \o front
           n == Len(hops)
<1>1. /\ n \in Nat /\ way \in Seq(Addresses) /\ Len(way) = n + 1
      /\ \A i \in 1..n + 1 : way[i] = IF i = 1 THEN client ELSE hops[i - 1]
  <2>1. /\ <<client>> \in Seq(Addresses) /\ Len(<<client>>) = 1 /\ <<client>>[1] = client
    OBVIOUS
  <2>2. /\ way \in Seq(Addresses) /\ Len(way) = 1 + n /\ n \in Nat
        /\ \A i \in 1..1 + n : way[i] = IF i <= 1 THEN <<client>>[i] ELSE hops[i - 1]
    BY <2>1, ConcatProperties
  <2> HIDE DEF way, n
  <2> QED BY <2>1, <2>2
<1>2. Last(way) = IF n = 0 THEN client ELSE hops[n]
  <2>1. Last(way) = way[n + 1]
    BY <1>1 DEF Last
  <2> HIDE DEF way, n
  <2> QED BY <1>1, <2>1
<1>3. /\ front \in Seq(Addresses) /\ Len(front) = n
      /\ \A i \in 1..n : front[i] = way[i]
  <2>1. front = SubSeq(way, 1, n)
    <3>1. Len(way) - 1 = n
      BY <1>1
    <3> QED BY <3>1 DEF Front
  <2> HIDE DEF way, n, front
  <2>2. \A i \in 1..n : way[i] \in Addresses
    BY <1>1, ElementOfSeq
  <2>3. /\ SubSeq(way, 1, n) \in Seq(Addresses)
        /\ Len(SubSeq(way, 1, n)) = IF 1 <= n THEN n - 1 + 1 ELSE 0
        /\ \A i \in 1..n - 1 + 1 : SubSeq(way, 1, n)[i] = way[1 + i - 1]
    <3>1. 1 \in Int /\ n \in Int
      BY <1>1
    <3> QED BY <2>2, <3>1, SubSeqProperties
  <2>4. ASSUME NEW i \in 1..n PROVE front[i] = way[i]
    <3>1. i \in 1..n - 1 + 1 /\ 1 + i - 1 = i
      BY <1>1
    <3> QED BY <2>1, <2>3, <3>1
  <2>5. Len(front) = n
    BY <1>1, <2>1, <2>3
  <2> QED BY <2>1, <2>3, <2>4, <2>5
<1>4. /\ Len(forged) \in Nat /\ line \in Seq(Addresses \cup {NoIp, Opaque})
      /\ Len(line) = Len(forged) + n
      /\ \A i \in 1..Len(forged) + n :
             line[i] = IF i <= Len(forged) THEN forged[i] ELSE front[i - Len(forged)]
  <2>1. front \in Seq(Addresses \cup {NoIp, Opaque})
    BY <1>3
  <2> DEFINE S == Addresses \cup {NoIp, Opaque}
  <2>2. forged \in Seq(S) /\ front \in Seq(S) /\ Len(front) = n
    BY <1>3, <2>1
  <2> HIDE DEF front, n, S
  <2>3. /\ Len(forged) \in Nat /\ forged \o front \in Seq(S)
        /\ Len(forged \o front) = Len(forged) + Len(front)
        /\ \A i \in 1..Len(forged) + Len(front) :
               (forged \o front)[i] = IF i <= Len(forged) THEN forged[i]
                                      ELSE front[i - Len(forged)]
    BY <2>2, ConcatProperties
  <2> QED BY <2>2, <2>3 DEF S
<1>5. DOMAIN line = 1..Len(forged) + n
  <2> HIDE DEF line, n
  <2> QED BY <1>4
<1>6. ASSUME NEW i \in 1..n
      PROVE  line[Len(forged) + i] = IF i = 1 THEN client ELSE hops[i - 1]
  <2> HIDE DEF line, front, way, n
  <2>1. /\ Len(forged) + i \in 1..Len(forged) + n /\ ~ (Len(forged) + i <= Len(forged))
        /\ Len(forged) + i - Len(forged) = i /\ i \in 1..n + 1
    BY <1>1, <1>4
  <2>2. line[Len(forged) + i] = front[i]
    BY <1>4, <2>1
  <2>3. front[i] = way[i]
    BY <1>3
  <2> QED BY <1>1, <2>1, <2>2, <2>3
<1>7. ASSUME NEW i \in 1..Len(forged) PROVE line[i] = forged[i]
  <2> HIDE DEF line, front, way, n
  <2>1. i \in 1..Len(forged) + n /\ i <= Len(forged)
    BY <1>1, <1>4
  <2> QED BY <1>4, <2>1
<1> QED BY <1>1, <1>2, <1>4, <1>5, <1>6, <1>7

LEMMA Greatest ==
    ASSUME NEW S, S \subseteq Int, NEW x \in S, \A y \in S : x >= y
    PROVE  Max(S) = x
<1>1. Max(S) \in S /\ \A y \in S : Max(S) >= y
  BY DEF Max
<1>2. Max(S) \in Int /\ x \in Int /\ Max(S) >= x /\ x >= Max(S)
  BY <1>1
<1> QED BY <1>2

LEMMA Least ==
    ASSUME NEW S, S \subseteq Int, NEW x \in S, \A y \in S : x <= y
    PROVE  Min(S) = x
<1>1. Min(S) \in S /\ \A y \in S : Min(S) <= y
  BY DEF Min
<1>2. Min(S) \in Int /\ x \in Int /\ Min(S) <= x /\ x <= Min(S)
  BY <1>1
<1> QED BY <1>2

(* Back along a way of trusted proxies client_ip comes to where it began,  *)
(* if it can read the line: it stops at a client that is no proxy, and     *)
(* goes on to nothing at one that is, if that one said nothing.            *)
LEMMA Walk ==
    ASSUME NEW client \in Addresses, NEW hops \in Seq(Addresses),
           NEW forged \in Seq(Addresses \cup {NoIp, Opaque}), NEW items,
           Opaque \notin ToSet(forged),
           \A i \in DOMAIN hops : Trusts(items, hops[i]),
           ~ Trusts(items, client) \/ forged = <<>>
    PROVE  LET way == <<client>> \o hops
           IN  ClientIp(Last(way), forged \o Front(way), items) = Canonical(client)
<1> DEFINE way == <<client>> \o hops
           line == forged \o Front(way)
           peer == Last(way)
           n == Len(hops)
           f == Len(forged)
           heard == {i \in DOMAIN line : line[i] # NoIp}
           strangers == {i \in heard : ~ Trusts(items, line[i])}
<1>1. /\ n \in Nat /\ f \in Nat
      /\ peer = IF n = 0 THEN client ELSE hops[n]
      /\ DOMAIN line = 1..f + n
      /\ \A i \in 1..n : line[f + i] = IF i = 1 THEN client ELSE hops[i - 1]
      /\ \A i \in 1..f : line[i] = forged[i]
  BY Way
<1>2. \A i \in 1..n : hops[i] \in Addresses /\ Trusts(items, hops[i])
  BY ElementOfSeq
<1>3. /\ client \notin {NoIp, Opaque} /\ \A i \in 1..n : hops[i] \notin {NoIp, Opaque}
      /\ \A i \in 1..f : forged[i] # Opaque
  <2>1. \A i \in 1..f : forged[i] \in ToSet(forged)
    BY DEF ToSet
  <2> QED BY <1>2, <2>1, ForwardingAssumption
<1>4. forged = <<>> => f = 0
  OBVIOUS
<1> HIDE DEF way, line, peer, n, f
<1>5. Opaque \notin ToSet(line)
  <2> SUFFICES ASSUME NEW i \in 1..f + n PROVE line[i] # Opaque
    BY <1>1 DEF ToSet
  <2>1. CASE i <= f
    <3>1. i \in 1..f
      BY <1>1, <2>1
    <3> QED BY <1>1, <1>3, <3>1
  <2>2. CASE ~ (i <= f)
    <3>1. /\ i - f \in 1..n /\ f + (i - f) = i
          /\ i - f # 1 => i - f - 1 \in 1..n
      BY <1>1, <2>2
    <3>2. line[i] = IF i - f = 1 THEN client ELSE hops[i - f - 1]
      BY <1>1, <3>1
    <3> QED BY <1>3, <3>1, <3>2
  <2> QED BY <2>1, <2>2
<1>6. ClientIp(peer, line, items) =
          Canonical(IF ~ Trusts(items, peer) \/ heard = {} THEN peer
                    ELSE line[IF strangers # {} THEN Max(strangers) ELSE Min(heard)])
  <2>1. Heard(line) = heard
    BY <1>5 DEF Heard
  <2> HIDE DEF heard
  <2> QED BY <2>1 DEF ClientIp
<1>7. CASE n = 0 /\ ~ Trusts(items, client)
  BY <1>1, <1>6, <1>7 DEF way, line, peer
<1>8. CASE n = 0 /\ forged = <<>>
  <2>1. DOMAIN line = {}
    BY <1>1, <1>4, <1>8
  <2> QED BY <1>1, <1>6, <1>8, <2>1 DEF way, line, peer
<1>9. CASE n # 0
  <2>1. n \in 1..n /\ Trusts(items, peer)
    BY <1>1, <1>2, <1>9
  <2>2. f + 1 \in heard /\ line[f + 1] = client
    <3>1. 1 \in 1..n /\ f + 1 \in 1..f + n
      BY <1>1, <1>9
    <3> QED BY <1>1, <1>3, <3>1
  <2>3. ASSUME NEW i \in heard, i > f + 1 PROVE Trusts(items, line[i])
    <3>0. i \in 1..f + n /\ f \in Nat /\ n \in Nat
      BY <1>1
    <3>1. i - f \in 1..n /\ i - f # 1 /\ f + (i - f) = i /\ i - f - 1 \in 1..n
      BY <2>3, <3>0
    <3>2. line[i] = hops[i - f - 1]
      BY <1>1, <3>1
    <3> QED BY <1>2, <3>1, <3>2
  <2>4. heard \subseteq 1..f + n
    BY <1>1
  <2>5. CASE ~ Trusts(items, client)
    <3>1. f + 1 \in strangers
      BY <2>2, <2>5
    <3>2. \A i \in strangers : i \in Int /\ f + 1 >= i
      BY <1>1, <2>3, <2>4
    <3>3. Max(strangers) = f + 1
      <4>1. strangers \subseteq Int
        BY <3>2
      <4> HIDE DEF strangers
      <4> QED BY <3>1, <3>2, <4>1, Greatest
    <3> HIDE DEF heard, strangers
    <3> QED BY <1>6, <2>1, <2>2, <3>1, <3>3 DEF way, line, peer
  <2>6. CASE Trusts(items, client) /\ forged = <<>>
    <3>1. f = 0
      BY <1>4, <2>6
    <3>2. strangers = {}
      <4> SUFFICES ASSUME NEW i \in heard PROVE Trusts(items, line[i])
        OBVIOUS
      <4>1. i \in 1..f + n
        BY <2>4
      <4>2. i = f + 1 \/ i > f + 1
        BY <1>1, <3>1, <4>1
      <4> QED BY <2>2, <2>3, <2>6, <4>2
    <3>3. Min(heard) = f + 1
      <4>1. \A i \in heard : i \in Int /\ f + 1 <= i
        BY <1>1, <2>4, <3>1
      <4>2. heard \subseteq Int
        BY <4>1
      <4> HIDE DEF heard
      <4> QED BY <2>2, <4>1, <4>2, Least
    <3> HIDE DEF heard, strangers
    <3> QED BY <1>6, <2>1, <2>2, <3>2, <3>3 DEF way, line, peer
  <2> QED BY <2>5, <2>6
<1> QED BY <1>7, <1>8, <1>9

-----------------------------------------------------------------------------
(* The configuration and the shape of the requests stay as chosen. *)
LEMMA Chosen ==
    ASSUME [Next]_vars
    PROVE  message' = message
BY DEF Next, Accept, AcceptFails, Wake, Acquire, Arrive, Handshake, Request, Refuse,
       Forward, Answer, Leave, vars

(* One item that to_str cannot read, and the line says nothing. *)
LEMMA Unread ==
    ASSUME NEW client \in Addresses, NEW hops \in Seq(Addresses),
           NEW forged \in Seq(Addresses \cup {NoIp, Opaque}), NEW items,
           Opaque \in ToSet(forged)
    PROVE  LET way == <<client>> \o hops
           IN  ClientIp(Last(way), forged \o Front(way), items) = Canonical(Last(way))
<1> DEFINE way == <<client>> \o hops
           line == forged \o Front(way)
<1>1. PICK i \in 1..Len(forged) : forged[i] = Opaque
  BY DEF ToSet
<1>2. line[i] = forged[i] /\ i \in DOMAIN line
  <2>1. /\ Len(hops) \in Nat /\ Len(forged) \in Nat
        /\ DOMAIN line = 1..Len(forged) + Len(hops)
        /\ \A j \in 1..Len(forged) : line[j] = forged[j]
    BY Way
  <2> HIDE DEF line
  <2> QED BY <2>1
<1> HIDE DEF way, line
<1>3. Heard(line) = {}
  BY <1>1, <1>2 DEF Heard, ToSet
<1>4. ClientIp(Last(way), line, items) = Canonical(Last(way))
  BY <1>3 DEF ClientIp
<1> QED BY <1>4 DEF way, line

LEMMA SenderFound ==
    message \in Messages => ClientIsTheSender
<1> SUFFICES ASSUME message \in Messages,
                    \A i \in DOMAIN message.hops : IsProxy(message.hops[i]),
                    ~ IsProxy(message.client) \/ message.forged = <<>>,
                    \A item \in message.trusted : ~ Misread(item)
             PROVE  ClientIp(Peer(message), Line(message), message.trusted)
                        = Canonical(IF Opaque \in ToSet(message.forged) THEN Peer(message)
                                    ELSE message.client)
  BY DEF ClientIsTheSender
<1> DEFINE m == message
<1>1. /\ m.client \in Addresses /\ m.hops \in Seq(Addresses)
      /\ m.forged \in Seq(Addresses \cup {NoIp, Opaque})
  BY ConnectionsAssumption
<1>2. \A i \in DOMAIN m.hops : Trusts(m.trusted, m.hops[i])
  <2> TAKE i \in DOMAIN m.hops
  <2>1. m.hops[i] \in Addresses
    BY <1>1
  <2> QED BY <2>1, TrustsProxies
<1>3. ~ Trusts(m.trusted, m.client) \/ m.forged = <<>>
  BY <1>1, TrustsProxies
<1>4. CASE Opaque \notin ToSet(m.forged)
  <2>1. ClientIp(Last(<<m.client>> \o m.hops), m.forged \o Front(<<m.client>> \o m.hops),
                 m.trusted) = Canonical(m.client)
    BY <1>1, <1>2, <1>3, <1>4, Walk
  <2> QED BY <1>4, <2>1 DEF Peer, Line
<1>5. CASE Opaque \in ToSet(m.forged)
  <2>1. ClientIp(Last(<<m.client>> \o m.hops), m.forged \o Front(<<m.client>> \o m.hops),
                 m.trusted) = Canonical(Last(<<m.client>> \o m.hops))
    BY <1>1, <1>5, Unread
  <2> QED BY <1>5, <2>1 DEF Peer, Line
<1> QED BY <1>4, <1>5

(* For any widths of addresses, lists of proxies, ways and headers: the    *)
(* client of a request is who sent it, where every hop is trusted and the  *)
(* client is not, or added nothing of its own, and no network is misread;  *)
(* but it is the last proxy if what the client said in X-Forwarded-For is  *)
(* no visible text (main.rs:316).                                          *)
THEOREM SenderCorrect ==
    Spec => []ClientIsTheSender
<1>1. Init => message \in Messages
  BY DEF Init
<1>2. message \in Messages /\ [Next]_vars => (message \in Messages)'
  BY Chosen
<1> QED BY <1>1, <1>2, SenderFound, PTL DEF Spec

-----------------------------------------------------------------------------
(* The parts of a sequence put together.  FlattenSeq is a recursive        *)
(* function: it exists and is determined.                                  *)
Flat(f, s, n) == f = [i \in 1..n |-> IF i = 1 THEN s[i] ELSE f[i - 1] \o s[i]]

LEMMA FlatExists ==
    ASSUME NEW s, NEW n \in Nat
    PROVE  \E f : Flat(f, s, n)
<1> DEFINE bad == {k \in Nat : ~ \E f : Flat(f, s, k)}
<1>1. CASE bad = {}
  BY <1>1
<1>2. CASE bad # {}
  <2>1. PICK m \in bad : \A k \in bad : m <= k
    <3>1. bad \subseteq Nat
      OBVIOUS
    <3> HIDE DEF bad
    <3> QED BY <1>2, <3>1, First
  <2>2. CASE m = 0
    <3> DEFINE f == [i \in 1..0 |-> s[i]]
    <3>1. f = [i \in 1..0 |-> IF i = 1 THEN s[i] ELSE f[i - 1] \o s[i]]
      <4>1. 1..0 = {}
        OBVIOUS
      <4> QED BY <4>1
    <3> QED BY <2>1, <2>2, <3>1 DEF Flat
  <2>3. CASE m # 0
    <3>1. m - 1 \in Nat /\ m - 1 \notin bad
      BY <2>1, <2>3
    <3>2. PICK f : Flat(f, s, m - 1)
      BY <3>1
    <3> DEFINE g == [i \in 1..m |-> IF i < m THEN f[i]
                                    ELSE IF m = 1 THEN s[m] ELSE f[m - 1] \o s[m]]
    <3>3. ASSUME NEW i \in 1..m PROVE g[i] = IF i = 1 THEN s[i] ELSE g[i - 1] \o s[i]
      <4>1. CASE i = m
        <5>1. i # 1 => i - 1 \in 1..m /\ i - 1 < m
          BY <2>1
        <5> QED BY <4>1, <5>1
      <4>2. CASE i < m
        <5>1. i \in 1..m - 1 /\ (i # 1 => i - 1 \in 1..m /\ i - 1 < m)
          BY <2>1, <4>2
        <5>2. f[i] = IF i = 1 THEN s[i] ELSE f[i - 1] \o s[i]
          BY <3>2, <5>1 DEF Flat
        <5> QED BY <4>2, <5>1, <5>2
      <4> QED BY <2>1, <4>1, <4>2
    <3>4. g = [i \in 1..m |-> g[i]]
      OBVIOUS
    <3>5. Flat(g, s, m)
      <4> HIDE DEF g
      <4>1. [i \in 1..m |-> g[i]] = [i \in 1..m |-> IF i = 1 THEN s[i] ELSE g[i - 1] \o s[i]]
        BY <3>3
      <4> QED BY <3>4, <4>1 DEF Flat
    <3> QED BY <2>1, <3>5
  <2> QED BY <2>2, <2>3
<1> QED BY <1>1, <1>2

SameFirst(s, t, m) == \A i \in 1..m : t[i] = s[i]

LEMMA FlatAgree ==
    ASSUME NEW s, NEW t, NEW m \in Nat, NEW n \in Nat, m <= n, SameFirst(s, t, m),
           NEW f, Flat(f, s, m), NEW g, Flat(g, t, n)
    PROVE  SameFirst(f, g, m)
<1> USE DEF SameFirst
<1> DEFINE bad == {k \in 1..m : g[k] # f[k]}
<1>1. CASE bad = {}
  BY <1>1
<1>2. CASE bad # {}
  <2>1. PICK k \in bad : \A j \in bad : k <= j
    <3>1. bad \subseteq Nat
      OBVIOUS
    <3> HIDE DEF bad
    <3> QED BY <1>2, <3>1, First
  <2>2. /\ f[k] = IF k = 1 THEN s[k] ELSE f[k - 1] \o s[k]
        /\ g[k] = IF k = 1 THEN t[k] ELSE g[k - 1] \o t[k]
    <3>1. k \in 1..m /\ k \in 1..n
      BY <2>1
    <3> QED BY <3>1 DEF Flat
  <2>3. k # 1 => k - 1 \in 1..m /\ k - 1 \notin bad
    BY <2>1
  <2> QED BY <2>1, <2>2, <2>3
<1> QED BY <1>1, <1>2

LEMMA FlattenIs ==
    ASSUME NEW S, NEW s \in Seq(S), s # <<>>, NEW f, Flat(f, s, Len(s))
    PROVE  FlattenSeq(s) = f[Len(s)]
<1>1. Len(s) # 0 /\ Len(s) \in Nat
  BY EmptySeq
<1> DEFINE g == CHOOSE h : h = [i \in 1..Len(s) |-> IF i = 1 THEN s[i] ELSE h[i - 1] \o s[i]]
<1>2. FlattenSeq(s) = g[Len(s)]
  BY <1>1 DEF FlattenSeq
<1>3. Flat(g, s, Len(s))
  BY DEF Flat
<1> HIDE DEF g
<1>4. SameFirst(s, s, Len(s))
  BY DEF SameFirst
<1>5. SameFirst(f, g, Len(s))
  BY <1>1, <1>3, <1>4, FlatAgree
<1> QED BY <1>1, <1>2, <1>5 DEF SameFirst

LEMMA Together ==
    ASSUME NEW S, NEW s \in Seq(S), NEW t \in Seq(S)
    PROVE  s \o t \in Seq(S) /\ ToSet(s \o t) = ToSet(s) \cup ToSet(t)
<1> DEFINE st == s \o t
<1>1. /\ st \in Seq(S) /\ Len(st) = Len(s) + Len(t) /\ Len(s) \in Nat /\ Len(t) \in Nat
      /\ DOMAIN st = 1..Len(s) + Len(t) /\ DOMAIN s = 1..Len(s) /\ DOMAIN t = 1..Len(t)
      /\ \A i \in 1..Len(s) + Len(t) : st[i] = IF i <= Len(s) THEN s[i] ELSE t[i - Len(s)]
  BY ConcatProperties
<1> HIDE DEF st
<1>2. ASSUME NEW i \in DOMAIN st PROVE st[i] \in ToSet(s) \cup ToSet(t)
  <2>1. CASE i <= Len(s)
    <3>1. i \in DOMAIN s /\ st[i] = s[i]
      BY <1>1, <2>1
    <3> QED BY <3>1 DEF ToSet
  <2>2. CASE ~ (i <= Len(s))
    <3>1. i - Len(s) \in DOMAIN t /\ st[i] = t[i - Len(s)]
      BY <1>1, <2>2
    <3> QED BY <3>1 DEF ToSet
  <2> QED BY <2>1, <2>2
<1>3. ASSUME NEW i \in DOMAIN s PROVE s[i] \in ToSet(st)
  <2>1. i \in DOMAIN st /\ st[i] = s[i]
    BY <1>1
  <2> QED BY <2>1 DEF ToSet
<1>4. ASSUME NEW i \in DOMAIN t PROVE t[i] \in ToSet(st)
  <2>1. /\ Len(s) + i \in DOMAIN st /\ ~ (Len(s) + i <= Len(s)) /\ Len(s) + i - Len(s) = i
    BY <1>1
  <2>2. st[Len(s) + i] = t[i]
    BY <1>1, <2>1
  <2> QED BY <2>1, <2>2 DEF ToSet
<1>5. ToSet(st) = ToSet(s) \cup ToSet(t)
  BY <1>2, <1>3, <1>4 DEF ToSet
<1> QED BY <1>1, <1>5 DEF st

(* Without keeps the headers that have other names, and those only. *)
LEMMA WithoutIs ==
    ASSUME NEW S, NEW headers \in Seq(S), NEW names
    PROVE  /\ Without(headers, names) \in Seq(S)
           /\ ToSet(Without(headers, names)) = {h \in ToSet(headers) : h.name \notin names}
<1> DEFINE n == Len(headers)
           s == [i \in DOMAIN headers |->
                    IF headers[i].name \in names THEN <<>> ELSE <<headers[i]>>]
           kept(k) == {headers[i] : i \in {j \in 1..k : headers[j].name \notin names}}
<1>1. n \in Nat /\ DOMAIN headers = 1..n /\ \A i \in 1..n : headers[i] \in S
  BY ElementOfSeq
<1>2. Without(headers, names) = FlattenSeq(s)
  BY DEF Without
<1>3. \A i \in 1..n : s[i] \in Seq(S) /\ s[i] = IF headers[i].name \in names THEN <<>>
                                               ELSE <<headers[i]>>
  BY <1>1
<1>4. s \in Seq(Seq(S)) /\ Len(s) = n
  <2>1. s \in [1..n -> Seq(S)]
    BY <1>1, <1>3
  <2> HIDE DEF s, n
  <2> QED BY <1>1, <2>1
<1>5. {h \in ToSet(headers) : h.name \notin names} = kept(n)
  BY <1>1 DEF ToSet
<1>6. ToSet(<<>>) = {} /\ \A h : ToSet(<<h>>) = {h}
  BY DEF ToSet
<1>7. ASSUME NEW i \in 1..n
      PROVE  ToSet(s[i]) = IF headers[i].name \in names THEN {} ELSE {headers[i]}
  <2> HIDE DEF s, n
  <2> QED BY <1>3, <1>6
<1> HIDE DEF s, n
<1>8. CASE n = 0
  <2>1. s = <<>> /\ FlattenSeq(s) = s
    BY <1>4, <1>8, EmptySeq DEF FlattenSeq
  <2>2. kept(n) = {}
    BY <1>8
  <2> QED BY <1>2, <1>5, <1>6, <2>1, <2>2, EmptySeq
<1>9. CASE n # 0
  <2>1. PICK f : Flat(f, s, n)
    BY <1>1, FlatExists
  <2>2. FlattenSeq(s) = f[n]
    <3>1. s # <<>>
      BY <1>4, <1>9, EmptySeq
    <3> QED BY <1>4, <2>1, <3>1, FlattenIs
  <2> DEFINE good(k) == f[k] \in Seq(S) /\ ToSet(f[k]) = kept(k)
             bad == {k \in 1..n : ~ good(k)}
  <2>3. CASE bad # {}
    <3>1. PICK k \in bad : \A j \in bad : k <= j
      <4>1. bad \subseteq Nat
        OBVIOUS
      <4> HIDE DEF bad
      <4> QED BY <2>3, <4>1, First
    <3>2. f[k] = IF k = 1 THEN s[k] ELSE f[k - 1] \o s[k]
      BY <2>1, <3>1 DEF Flat
    <3>3. kept(k) = kept(k - 1) \cup ToSet(s[k])
      <4>1. 1..k = (1..k - 1) \cup {k}
        BY <1>1, <3>1
      <4>2. k \in 1..n
        BY <3>1
      <4> DEFINE others(j) == {i \in 1..j : headers[i].name \notin names}
      <4>3. CASE headers[k].name \in names
        <5>1. others(k) = others(k - 1) /\ ToSet(s[k]) = {}
          BY <1>7, <4>1, <4>2, <4>3
        <5> QED BY <5>1
      <4>4. CASE headers[k].name \notin names
        <5>1. others(k) = others(k - 1) \cup {k} /\ ToSet(s[k]) = {headers[k]}
          BY <1>7, <4>1, <4>2, <4>4
        <5>2. kept(k) = {headers[i] : i \in others(k)}
              /\ kept(k - 1) = {headers[i] : i \in others(k - 1)}
          OBVIOUS
        <5> HIDE DEF others, kept
        <5> QED BY <5>1, <5>2
      <4> QED BY <4>3, <4>4
    <3>4. CASE k = 1
      <4>1. kept(k - 1) = {}
        BY <3>4
      <4> HIDE DEF kept
      <4> QED BY <1>3, <3>1, <3>2, <3>3, <3>4, <4>1
    <3>5. CASE k # 1
      <4>1. k - 1 \in 1..n /\ k - 1 \notin bad
        <5>1. k \in 1..n
          BY <3>1
        <5>2. k - 1 \in 1..n /\ ~ (k <= k - 1)
          BY <1>1, <3>5, <5>1
        <5> HIDE DEF bad
        <5> QED BY <3>1, <5>2
      <4>2. f[k - 1] \in Seq(S) /\ ToSet(f[k - 1]) = kept(k - 1) /\ s[k] \in Seq(S)
        BY <1>3, <3>1, <4>1
      <4>3. f[k] \in Seq(S) /\ ToSet(f[k]) = ToSet(f[k - 1]) \cup ToSet(s[k])
        BY <3>2, <3>5, <4>2, Together
      <4> HIDE DEF kept
      <4> QED BY <3>1, <3>3, <4>2, <4>3
    <3> QED BY <3>4, <3>5
  <2>4. CASE bad = {}
    <3>1. n \in 1..n
      BY <1>1, <1>9
    <3>2. good(n)
      BY <2>4, <3>1
    <3> HIDE DEF kept
    <3> QED BY <1>2, <1>5, <2>2, <3>2
  <2> QED BY <2>3, <2>4
<1> QED BY <1>8, <1>9

(* The header that proxies add is no header of the hop. *)
LEMMA HeadsAre ==
    ASSUME message \in Messages
    PROVE  LET m == message
               xff == [name |-> "x-forwarded-for", value |-> Line(m)]
           IN  /\ Heads(m) \in Seq(ToSet(Heads(m)))
               /\ ToSet(Heads(m)) = ToSet(m.headers) \cup {xff}
<1> DEFINE m == message
           s == m.headers
           x == [name |-> "x-forwarded-for", value |-> Line(m)]
           S == ToSet(s) \cup {x}
           t == Append(s, x)
<1>1. s \in Seq(ToSet(s))
  BY ConnectionsAssumption
<1>2. s \in Seq(S) /\ x \in S
  <2> DEFINE T == ToSet(s)
  <2>1. s \in Seq(T) /\ T \subseteq S
    BY <1>1
  <2> HIDE DEF T, S, s
  <2>2. s \in Seq(S)
    BY <2>1
  <2> QED BY <2>2 DEF S
<1>3. Heads(m) = t
  BY DEF Heads
<1> HIDE DEF s, x, t, m
<1>4. /\ Len(s) \in Nat /\ DOMAIN s = 1..Len(s) /\ DOMAIN t = 1..Len(s) + 1
      /\ \A i \in 1..Len(s) : t[i] = s[i]
      /\ t[Len(s) + 1] = x /\ t \in Seq(S)
  <2> HIDE DEF S
  <2> QED BY <1>2 DEF t
<1>5. ToSet(t) = S
  BY <1>4 DEF ToSet
<1> QED BY <1>3, <1>4, <1>5 DEF s, x, m

LEMMA TokensOf ==
    ASSUME NEW headers, NEW h
    PROVE  h.name \in HopByHop \cup HopTokens(headers) <=> OfTheHop(headers, h)
<1>1. \A n : n \in HopTokens(headers) <=>
                 \E i \in DOMAIN headers : /\ headers[i].name = "connection"
                                           /\ headers[i].value # Opaque
                                           /\ n \in headers[i].value
  BY DEF HopTokens, Values, Places
<1>2. (\E c \in ToSet(headers) :
           c.name = "connection" /\ c.value # Opaque /\ h.name \in c.value) <=>
          \E i \in DOMAIN headers : /\ headers[i].name = "connection"
                                    /\ headers[i].value # Opaque
                                    /\ h.name \in headers[i].value
  BY DEF ToSet
<1> QED BY <1>1, <1>2 DEF OfTheHop

LEMMA ClaimsOwn ==
    message \in Messages => OnlyOwnClaims
<1> SUFFICES ASSUME message \in Messages PROVE OnlyOwnClaims
  OBVIOUS
<1> DEFINE m == message
           client == ClientIp(Peer(m), Line(m), m.trusted)
           heads == Heads(m)
           xff == [name |-> "x-forwarded-for", value |-> Line(m)]
           own == OwnClaims(client, m.tls)
           first == [name |-> "x-forwarded-for", value |-> client]
           second == [name |-> "x-forwarded-proto", value |-> IF m.tls THEN "https" ELSE "http"]
           kept == Without(heads, Withheld(HopTokens(heads)))
           out == ToSet(Forwarded(heads, client, m.tls))
           back == ToSet(Stripped(m.answer))
<1>1. /\ m.headers \in Seq(ToSet(m.headers)) /\ m.answer \in Seq(ToSet(m.answer))
      /\ heads \in Seq(ToSet(heads)) /\ ToSet(heads) = ToSet(m.headers) \cup {xff}
  BY ConnectionsAssumption, HeadsAre
<1>2. kept \in Seq(ToSet(heads))
      /\ ToSet(kept) = {h \in ToSet(heads) : h.name \notin Withheld(HopTokens(heads))}
  BY <1>1, WithoutIs
<1>3. ToSet(own) = {first, second}
  BY DEF OwnClaims, ToSet
<1>4. out = ToSet(kept) \cup {first, second}
  <2> DEFINE S == ToSet(heads) \cup {first, second}
  <2>1. kept \in Seq(S)
    <3> DEFINE T == ToSet(heads)
    <3>1. kept \in Seq(T) /\ T \subseteq S
      BY <1>2
    <3> HIDE DEF T, S, kept
    <3> QED BY <3>1
  <2>2. own \in Seq(S)
    <3>1. own = <<first, second>> /\ first \in S /\ second \in S
      BY DEF OwnClaims
    <3> HIDE DEF own, first, second, S
    <3> QED BY <3>1
  <2>3. out = ToSet(kept \o own)
    BY DEF Forwarded
  <2> HIDE DEF kept, own, S, out, first, second
  <2> QED BY <1>3, <2>1, <2>2, <2>3, Together
<1>5. back = {h \in ToSet(m.answer) : h.name \notin HopByHop \cup HopTokens(m.answer)}
  BY <1>1, WithoutIs DEF Stripped
<1>6. first.name \in Claims /\ second.name \in Claims /\ xff.name \in Claims
  BY DEF Claims
<1>7. \A h : OfTheHop(heads, h) <=> OfTheHop(m.headers, h)
  <2>1. xff.name # "connection"
    OBVIOUS
  <2> HIDE DEF heads, xff, m
  <2> QED BY <1>1, <2>1 DEF OfTheHop
<1> HIDE DEF kept, own, first, second, xff, heads, client, out, back, m
<1>8. {h \in out : h.name \in Claims} = {first, second}
  BY <1>2, <1>4, <1>6 DEF Withheld
<1>9. ASSUME NEW h \in ToSet(m.headers), h.name \notin Claims \cup {"host"}
      PROVE  h \in out <=> ~ OfTheHop(m.headers, h)
  <2>1. h \in ToSet(heads) /\ h # first /\ h # second
    BY <1>1, <1>6, <1>9
  <2>2. h \in out <=> h.name \notin Withheld(HopTokens(heads))
    BY <1>2, <1>4, <2>1
  <2>3. h.name \in Withheld(HopTokens(heads)) <=> h.name \in HopByHop \cup HopTokens(heads)
    BY <1>9 DEF Withheld
  <2> QED BY <1>7, <2>2, <2>3, TokensOf
<1>10. ASSUME NEW h \in ToSet(m.answer)
       PROVE  h \in back <=> ~ OfTheHop(m.answer, h)
  BY <1>5, TokensOf
<1> QED BY <1>8, <1>9, <1>10 DEF OnlyOwnClaims, client, heads, first, second, out, back, m

(* Whatever headers a request and its answer have: the backend is told the *)
(* gateway's own client and protocol, and in either direction a header     *)
(* crosses iff it is not of the hop, which Connection says only where it   *)
(* is visible text (main.rs:1578, 1601, 1625).                             *)
THEOREM ClaimsCorrect ==
    Spec => []OnlyOwnClaims
<1>1. Init => message \in Messages
  BY DEF Init
<1>2. message \in Messages /\ [Next]_vars => (message \in Messages)'
  BY Chosen
<1> QED BY <1>1, <1>2, ClaimsOwn, PTL DEF Spec
=============================================================================
