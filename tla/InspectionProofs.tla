-------------------------- MODULE InspectionProofs --------------------------
(***************************************************************************)
(* For any rules, requests, frames, limit and time-out: a body is forwarded*)
(* as it was sent, it is complete at the backend only when the client      *)
(* completed it, and only a quiet client is timed out.  StreamInv is the   *)
(* inductive invariant; it adds to these that an end that was read ahead   *)
(* is the end, and that while nothing waits to be taken the time-out never *)
(* runs ahead of the client's silence.  SeenInv adds what the head is at   *)
(* each step of reading; it gives the theorem that the verdict is on the   *)
(* first bytes of the whole body.  The last two theorems are about what    *)
(* the engine computes: which hits count, and that the way a query is      *)
(* escaped does not change what the rules see.                             *)
(***************************************************************************)
EXTENDS Inspection, FiniteSetTheorems, SequenceTheorems, WellFoundedInduction, TLAPS

EndIsTheEnd ==
    /\ saw_end => client = "ended" /\ incoming = <<>>
    /\ phase = "complete" => client = "ended" /\ incoming = <<>> /\ prefix = <<>>

IdleIsQuiet == incoming = <<>> => idle <= quiet

StreamInv ==
    /\ TypeOK
    /\ FramesConserved
    /\ EndIsTheEnd
    /\ IdleIsQuiet
    /\ TimeoutMeansQuiet

-----------------------------------------------------------------------------
(* A sequence of one element, as TakeFrame finds in incoming. *)
LEMMA OneFrame ==
    ASSUME NEW S, NEW s \in Seq(S), Len(s) <= 1, s # <<>>
    PROVE  s[1] \in S /\ s = <<s[1]>>
<1>1. Len(s) = 1
  <2>1. Len(s) \in Nat \ {0}
    BY EmptySeq
  <2> QED BY <2>1
<1>2. s[1] \in S
  BY <1>1
<1>3. <<s[1]>> \in Seq(S) /\ Len(<<s[1]>>) = 1 /\ <<s[1]>>[1] = s[1]
  BY <1>2
<1>4. \A i \in 1 .. Len(s) : s[i] = <<s[1]>>[i]
  BY <1>1, <1>3
<1>5. s = <<s[1]>>
  BY <1>1, <1>3, <1>4, SeqEqual
<1> QED BY <1>2, <1>5

(* What waits is moved to the end of what is kept. *)
LEMMA MoveIn ==
    ASSUME NEW S, NEW f \in Seq(S), NEW p \in Seq(S), NEW x \in S
    PROVE  (f \o Append(p, x)) \o <<>> = (f \o p) \o <<x>>
<1>1. <<x>> \in Seq(S) /\ Append(p, x) = p \o <<x>>
  BY AppendIsConcat
<1>2. f \o Append(p, x) \in Seq(S)
  BY AppendProperties, ConcatProperties
<1>3. (f \o Append(p, x)) \o <<>> = f \o Append(p, x)
  BY <1>2, ConcatEmptySeq
<1>4. f \o (p \o <<x>>) = (f \o p) \o <<x>>
  BY <1>1, ConcatAssociative
<1> QED BY <1>1, <1>3, <1>4

(* The first of what is kept is moved to the end of what went out. *)
LEMMA MoveOut ==
    ASSUME NEW S, NEW f \in Seq(S), NEW p \in Seq(S), p # <<>>
    PROVE  Append(f, Head(p)) \o Tail(p) = f \o p
<1>1. Head(p) \in S /\ Tail(p) \in Seq(S) /\ <<Head(p)>> \in Seq(S)
  BY HeadTailProperties
<1>2. Append(f, Head(p)) = f \o <<Head(p)>>
  BY <1>1, AppendIsConcat
<1>3. (f \o <<Head(p)>>) \o Tail(p) = f \o (<<Head(p)>> \o Tail(p))
  BY <1>1, ConcatAssociative
<1>4. <<Head(p)>> \o Tail(p) = p
  <2> DEFINE q == <<Head(p)>> \o Tail(p)
  <2>1. q \in Seq(S) /\ Len(q) = 1 + Len(Tail(p))
        /\ \A i \in 1 .. 1 + Len(Tail(p)) :
               q[i] = IF i <= 1 THEN <<Head(p)>>[i] ELSE Tail(p)[i - 1]
    BY <1>1, ConcatProperties
  <2>2. Len(Tail(p)) = Len(p) - 1 /\ Len(p) \in Nat
        /\ \A i \in 1 .. Len(Tail(p)) : Tail(p)[i] = p[i + 1]
    BY HeadTailProperties
  <2>3. <<Head(p)>>[1] = p[1]
    OBVIOUS
  <2>4. Len(q) = Len(p)
    BY <2>1, <2>2
  <2>5. \A i \in 1 .. Len(q) : q[i] = p[i]
    <3> TAKE i \in 1 .. Len(q)
    <3>1. CASE i = 1
      BY <3>1, <2>1, <2>2, <2>3
    <3>2. CASE i # 1
      <4>1. i - 1 \in 1 .. Len(Tail(p)) /\ (i - 1) + 1 = i
        BY <3>2, <2>2, <2>4
      <4>2. q[i] = Tail(p)[i - 1]
        BY <3>2, <2>1, <2>2, <2>4
      <4> QED BY <4>1, <4>2, <2>2
    <3> QED BY <3>1, <3>2
  <2> QED BY <2>1, <2>4, <2>5, SeqEqual
<1> QED BY <1>2, <1>3, <1>4

-----------------------------------------------------------------------------
LEMMA InitStream == Init => StreamInv
<1> SUFFICES ASSUME Init PROVE StreamInv
  OBVIOUS
<1>1. <<>> \in Seq(AllFrames) /\ <<>> \in Seq(0..255) /\ Len(<<>>) = 0
  OBVIOUS
<1>2. (<<>> \o <<>>) \o <<>> = <<>>
  BY ConcatEmptySeq, <1>1
<1>3. BODY_READ_TIMEOUT \in Nat /\ BODY_INSPECT_LIMIT \in Nat
  BY InspectionAssumption
<1>5. TypeOK
  <2>1. \E case \in Cases : engine = case[1] /\ request = case[2]
    BY DEF Init
  <2>2. quiet \in 0..BODY_READ_TIMEOUT /\ idle \in 0..BODY_READ_TIMEOUT
    BY <1>3 DEF Init
  <2>3. /\ sent \in Seq(AllFrames) /\ prefix \in Seq(AllFrames) /\ forwarded \in Seq(AllFrames)
        /\ incoming \in Seq(AllFrames) /\ Len(incoming) <= 1
        /\ head \in Seq(0..255) /\ Len(head) <= BODY_INSPECT_LIMIT
    BY <1>1, <1>3 DEF Init
  <2>4. saw_end \in BOOLEAN
    BY DEF Init
  <2>5. /\ client \in {"sending", "ended", "broken"} /\ phase \in Phases
        /\ verdict = NoVerdict
    BY DEF Init, Phases
  <2> QED BY <2>1, <2>2, <2>3, <2>4, <2>5 DEF TypeOK
<1>6. FramesConserved
  BY <1>2 DEF Init, FramesConserved
<1> QED BY <1>5, <1>6 DEF Init, StreamInv, EndIsTheEnd, IdleIsQuiet, TimeoutMeansQuiet

-----------------------------------------------------------------------------
(* Taking the waiting frame, for ReadFrame and PollRest. *)
LEMMA Taken ==
    ASSUME TypeOK, TakeFrame
    PROVE  /\ incoming[1] \in AllFrames /\ incoming = <<incoming[1]>>
           /\ incoming' = <<>> /\ <<>> \in Seq(AllFrames)
           /\ idle' = 0 /\ sent' = sent /\ quiet' = quiet /\ client' = client
<1>1. incoming \in Seq(AllFrames) /\ Len(incoming) <= 1 /\ incoming # <<>>
  BY DEF TypeOK, TakeFrame
<1>2. incoming[1] \in AllFrames /\ incoming = <<incoming[1]>>
  BY <1>1, OneFrame
<1> QED BY <1>2 DEF TakeFrame

LEMMA BytesAreFrames == AllFrames \subseteq Seq(0..255)
<1>1. <<>> \in Seq(0..255)
  OBVIOUS
<1> QED BY <1>1, InspectionAssumption DEF AllFrames, Trailers

(* The head takes what there is room for. *)
LEMMA HeadFilled ==
    ASSUME NEW h \in Seq(0..255), NEW chunk \in Seq(0..255),
           Len(h) <= BODY_INSPECT_LIMIT
    PROVE  LET filled == h \o SubSeq(chunk, 1, Min({Len(chunk), BODY_INSPECT_LIMIT - Len(h)}))
           IN  filled \in Seq(0..255) /\ Len(filled) <= BODY_INSPECT_LIMIT
<1> DEFINE room == BODY_INSPECT_LIMIT - Len(h)
           n == Min({Len(chunk), room})
<1>1. Len(chunk) \in Nat /\ room \in Nat /\ Len(h) \in Nat
  BY InspectionAssumption
<1>2. n \in {Len(chunk), room} /\ n <= Len(chunk) /\ n <= room
  <2>1. \E x \in {Len(chunk), room} : \A y \in {Len(chunk), room} : x =< y
    BY <1>1
  <2> QED BY <2>1 DEF Min
<1> HIDE DEF n, room
<1>3. SubSeq(chunk, 1, n) \in Seq(0..255) /\ Len(SubSeq(chunk, 1, n)) = n
  <2>1. 1 \in Int /\ n \in Int /\ n \in Nat
    BY <1>1, <1>2
  <2>2. \A i \in 1 .. n : chunk[i] \in 0..255
    <3> TAKE i \in 1 .. n
    <3>1. i \in 1 .. Len(chunk)
      BY <1>1, <1>2, <2>1
    <3> QED BY <3>1, ElementOfSeq
  <2>3. /\ SubSeq(chunk, 1, n) \in Seq(0..255)
        /\ Len(SubSeq(chunk, 1, n)) = IF 1 <= n THEN n - 1 + 1 ELSE 0
    BY <2>1, <2>2, SubSeqProperties
  <2> QED BY <2>1, <2>3
<1>4. Len(h \o SubSeq(chunk, 1, n)) = Len(h) + n /\ h \o SubSeq(chunk, 1, n) \in Seq(0..255)
  BY <1>3, ConcatProperties
<1>5. Len(h) + n <= BODY_INSPECT_LIMIT
  BY <1>1, <1>2, InspectionAssumption DEF room
<1> QED BY <1>4, <1>5 DEF n, room

-----------------------------------------------------------------------------
LEMMA ReadFrameStream == StreamInv /\ ReadFrame => StreamInv'
<1> SUFFICES ASSUME StreamInv, ReadFrame PROVE StreamInv'
  OBVIOUS
<1>1. TypeOK /\ TakeFrame
  BY DEF StreamInv, ReadFrame
<1> DEFINE chunk == incoming[1]
<1>2. /\ chunk \in AllFrames /\ incoming = <<chunk>>
      /\ incoming' = <<>> /\ <<>> \in Seq(AllFrames)
      /\ idle' = 0 /\ sent' = sent /\ quiet' = quiet /\ client' = client
  BY <1>1, Taken
<1>3. chunk \in Seq(0..255)
  BY <1>2, BytesAreFrames
<1>4. head' \in Seq(0..255) /\ Len(head') <= BODY_INSPECT_LIMIT
  BY <1>1, <1>3, HeadFilled DEF TypeOK, ReadFrame
<1>5. prefix' = Append(prefix, chunk) /\ prefix' \in Seq(AllFrames)
  BY <1>1, <1>2 DEF TypeOK, ReadFrame
<1>6. TypeOK'
  <2>1. /\ idle' \in 0..BODY_READ_TIMEOUT /\ phase' \in Phases
        /\ phase = "reading" /\ UNCHANGED <<engine, request, saw_end, verdict, forwarded>>
    BY <1>2, InspectionAssumption DEF ReadFrame, Phases
  <2> QED BY <1>1, <1>2, <1>4, <1>5, <2>1 DEF TypeOK
<1>7. FramesConserved'
  <2>1. (forwarded \o Append(prefix, chunk)) \o <<>> = (forwarded \o prefix) \o <<chunk>>
    BY <1>1, <1>2, MoveIn DEF TypeOK
  <2> QED BY <2>1, <1>2, <1>5 DEF StreamInv, FramesConserved, ReadFrame
<1>8. EndIsTheEnd'
  BY <1>2 DEF StreamInv, EndIsTheEnd, ReadFrame, TakeFrame
<1>9. IdleIsQuiet' /\ TimeoutMeansQuiet'
  BY <1>1, <1>2 DEF TypeOK, IdleIsQuiet, TimeoutMeansQuiet, ReadFrame
<1> QED BY <1>6, <1>7, <1>8, <1>9 DEF StreamInv

LEMMA PollPrefixStream == StreamInv /\ PollPrefix => StreamInv'
<1> SUFFICES ASSUME StreamInv, PollPrefix PROVE StreamInv'
  OBVIOUS
<1>1. forwarded \in Seq(AllFrames) /\ prefix \in Seq(AllFrames) /\ prefix # <<>>
  BY DEF StreamInv, TypeOK, PollPrefix
<1>2. Head(prefix) \in AllFrames /\ Tail(prefix) \in Seq(AllFrames)
  BY <1>1, HeadTailProperties
<1>3. Append(forwarded, Head(prefix)) \in Seq(AllFrames)
  BY <1>1, <1>2
<1>4. TypeOK'
  BY <1>2, <1>3 DEF StreamInv, TypeOK, PollPrefix, Step, body, Phases
<1>5. FramesConserved'
  BY <1>1, MoveOut DEF StreamInv, FramesConserved, PollPrefix, body
<1> QED
  BY <1>4, <1>5 DEF StreamInv, EndIsTheEnd, IdleIsQuiet, TimeoutMeansQuiet, PollPrefix, Step, body

LEMMA PollRestStream == StreamInv /\ PollRest => StreamInv'
<1> SUFFICES ASSUME StreamInv, PollRest PROVE StreamInv'
  OBVIOUS
<1>1. TypeOK /\ TakeFrame
  BY DEF StreamInv, PollRest
<1> DEFINE chunk == incoming[1]
<1>2. /\ chunk \in AllFrames /\ incoming = <<chunk>>
      /\ incoming' = <<>> /\ <<>> \in Seq(AllFrames)
      /\ idle' = 0 /\ sent' = sent /\ quiet' = quiet /\ client' = client
  BY <1>1, Taken
<1>3. prefix = <<>> /\ prefix' = <<>> /\ forwarded' = Append(forwarded, chunk)
      /\ forwarded \in Seq(AllFrames) /\ Append(forwarded, chunk) \in Seq(AllFrames)
  BY <1>1, <1>2 DEF TypeOK, PollRest, ahead
<1>4. TypeOK'
  BY <1>1, <1>2, <1>3, InspectionAssumption DEF TypeOK, PollRest, Step, ahead, Phases
<1>5. FramesConserved'
  <2>1. forwarded \o <<>> = forwarded
        /\ (Append(forwarded, chunk) \o <<>>) \o <<>> = Append(forwarded, chunk)
    BY <1>3, ConcatEmptySeq
  <2>2. Append(forwarded, chunk) = forwarded \o <<chunk>>
    BY <1>2, <1>3, AppendIsConcat
  <2> QED BY <1>2, <1>3, <2>1, <2>2 DEF StreamInv, FramesConserved
<1>6. EndIsTheEnd'
  BY <1>2 DEF StreamInv, EndIsTheEnd, PollRest, Step, ahead
<1>7. IdleIsQuiet' /\ TimeoutMeansQuiet'
  BY <1>1, <1>2 DEF TypeOK, IdleIsQuiet, TimeoutMeansQuiet, PollRest, Step
<1> QED BY <1>4, <1>5, <1>6, <1>7 DEF StreamInv

LEMMA SendStream ==
    ASSUME StreamInv, NEW frame \in AllFrames, Send(frame)
    PROVE  StreamInv'
<1>1. /\ forwarded \in Seq(AllFrames) /\ prefix \in Seq(AllFrames) /\ sent \in Seq(AllFrames)
      /\ incoming = <<>> /\ incoming' = <<frame>> /\ sent' = Append(sent, frame)
  BY DEF StreamInv, TypeOK, Send
<1>2. <<frame>> \in Seq(AllFrames) /\ Len(<<frame>>) = 1 /\ <<frame>> # <<>>
      /\ Append(sent, frame) \in Seq(AllFrames)
  BY <1>1
<1>3. TypeOK'
  BY <1>1, <1>2, InspectionAssumption DEF StreamInv, TypeOK, Send, ahead
<1>4. FramesConserved'
  <2>1. forwarded \o prefix \in Seq(AllFrames)
    BY <1>1, ConcatProperties
  <2>2. (forwarded \o prefix) \o <<>> = forwarded \o prefix
    BY <2>1, ConcatEmptySeq
  <2>3. Append(sent, frame) = sent \o <<frame>>
    BY <1>1, AppendIsConcat
  <2> QED BY <1>1, <2>2, <2>3 DEF StreamInv, FramesConserved, Send, ahead
<1> QED
  BY <1>1, <1>2, <1>3, <1>4
  DEF StreamInv, EndIsTheEnd, IdleIsQuiet, TimeoutMeansQuiet, Send, ahead, Running

(* The steps that move no frame. *)
LEMMA OtherStream ==
    ASSUME StreamInv,
           \/ EndBody \/ Break \/ Tick \/ Begin \/ ReadEnd \/ ReadError \/ ReadElapsed
           \/ CheckRules \/ PollEnd \/ PollError \/ PollElapsed \/ GiveUp
           \/ UNCHANGED vars
    PROVE  StreamInv'
<1>1. TypeOK /\ FramesConserved
  BY DEF StreamInv
<1>2. BODY_READ_TIMEOUT \in Nat \ {0}
  BY InspectionAssumption
<1>3. FramesConserved'
  BY <1>1
  DEF FramesConserved, EndBody, Break, Tick, Begin, ReadEnd, ReadError, ReadElapsed, CheckRules,
      PollEnd, PollError, PollElapsed, GiveUp, vars, body, ahead, TakeEnd, TakeError, TakeElapsed
<1>4. CASE EndBody
  BY <1>1, <1>3, <1>4
  DEF EndBody, StreamInv, TypeOK, EndIsTheEnd, IdleIsQuiet, TimeoutMeansQuiet, ahead, Running
<1>5. CASE Break
  BY <1>1, <1>3, <1>5
  DEF Break, StreamInv, TypeOK, EndIsTheEnd, IdleIsQuiet, TimeoutMeansQuiet, ahead, Running
<1>6. CASE Tick
  <2> DEFINE capped(n) == Min({n + 1, BODY_READ_TIMEOUT})
  <2>1. \A n \in 0..BODY_READ_TIMEOUT :
            capped(n) = IF n < BODY_READ_TIMEOUT THEN n + 1 ELSE BODY_READ_TIMEOUT
    <3> TAKE n \in 0..BODY_READ_TIMEOUT
    <3>1. \E x \in {n + 1, BODY_READ_TIMEOUT} : \A y \in {n + 1, BODY_READ_TIMEOUT} : x =< y
      BY <1>2
    <3>2. capped(n) \in {n + 1, BODY_READ_TIMEOUT}
          /\ \A y \in {n + 1, BODY_READ_TIMEOUT} : capped(n) =< y
      BY <3>1 DEF Min
    <3> QED BY <1>2, <3>2
  <2>2. idle' = capped(idle) /\ quiet' = capped(quiet)
    BY <1>6 DEF Tick
  <2>3. /\ idle' = IF idle < BODY_READ_TIMEOUT THEN idle + 1 ELSE BODY_READ_TIMEOUT
        /\ quiet' = IF quiet < BODY_READ_TIMEOUT THEN quiet + 1 ELSE BODY_READ_TIMEOUT
    BY <1>1, <2>1, <2>2 DEF TypeOK
  <2> HIDE DEF capped
  <2>4. /\ idle' \in 0..BODY_READ_TIMEOUT /\ quiet' \in 0..BODY_READ_TIMEOUT
        /\ idle <= quiet => idle' <= quiet'
    BY <1>1, <1>2, <2>3 DEF TypeOK
  <2> QED BY <1>1, <1>3, <1>6, <2>4
    DEF Tick, StreamInv, TypeOK, EndIsTheEnd, IdleIsQuiet, TimeoutMeansQuiet, ahead, Running
<1>7. CASE Begin
  <2>1. phase = "start" /\ phase' \in {"reading", "rules"} /\ idle' = 0
    BY <1>7 DEF Begin, Step
  <2> QED BY <1>1, <1>2, <1>3, <1>7, <2>1
    DEF Begin, StreamInv, TypeOK, Phases, EndIsTheEnd, IdleIsQuiet, TimeoutMeansQuiet, body, ahead
<1>8. CASE ReadEnd
  BY <1>1, <1>3, <1>8
  DEF ReadEnd, TakeEnd, Step, StreamInv, TypeOK, Phases, EndIsTheEnd, IdleIsQuiet,
      TimeoutMeansQuiet, body
<1>9. CASE ReadError \/ PollError
  BY <1>1, <1>3, <1>9
  DEF ReadError, PollError, TakeError, Step, StreamInv, TypeOK, Phases, EndIsTheEnd, IdleIsQuiet,
      TimeoutMeansQuiet, body, ahead
<1>10. CASE ReadElapsed \/ PollElapsed
  <2>1. quiet = BODY_READ_TIMEOUT
    BY <1>1, <1>2, <1>10
    DEF ReadElapsed, PollElapsed, TakeElapsed, StreamInv, IdleIsQuiet, TypeOK
  <2> QED BY <1>1, <1>3, <1>10, <2>1
    DEF ReadElapsed, PollElapsed, TakeElapsed, Step, StreamInv, TypeOK, Phases, EndIsTheEnd,
        IdleIsQuiet, TimeoutMeansQuiet, body, ahead
<1>11. CASE CheckRules
  <2>1. phase = "rules" /\ phase' \in {"blocked", "forwarding"}
    BY <1>11 DEF CheckRules, Step
  <2>2. UNCHANGED <<engine, request, body, idle, ahead, forwarded>>
    BY <1>11 DEF CheckRules
  <2> QED BY <1>1, <1>3, <2>1, <2>2
    DEF StreamInv, TypeOK, Phases, EndIsTheEnd, IdleIsQuiet, TimeoutMeansQuiet, body, ahead
<1>12. CASE PollEnd
  <2>1. client = "ended" /\ incoming = <<>> /\ prefix = <<>>
    BY <1>12 DEF PollEnd, TakeEnd, StreamInv, EndIsTheEnd
  <2> QED BY <1>1, <1>3, <1>12, <2>1
    DEF PollEnd, Step, StreamInv, TypeOK, Phases, EndIsTheEnd, IdleIsQuiet, TimeoutMeansQuiet,
        body, ahead
<1>13. CASE GiveUp
  BY <1>1, <1>3, <1>13
  DEF GiveUp, Step, StreamInv, TypeOK, Phases, EndIsTheEnd, IdleIsQuiet, TimeoutMeansQuiet,
      body, ahead
<1>14. CASE UNCHANGED vars
  BY <1>1, <1>3, <1>14
  DEF vars, StreamInv, TypeOK, EndIsTheEnd, IdleIsQuiet, TimeoutMeansQuiet, body, ahead
<1> QED
  BY <1>4, <1>5, <1>6, <1>7, <1>8, <1>9, <1>10, <1>11, <1>12, <1>13, <1>14

LEMMA NextStream == StreamInv /\ [Next]_vars => StreamInv'
BY ReadFrameStream, PollPrefixStream, PollRestStream, SendStream, OtherStream
DEF Next, Handle, ReadBody, Poll, Environment

-----------------------------------------------------------------------------
(* The invariant behind the theorems below: it holds in every state. *)
THEOREM StreamInvariant == Spec => []StreamInv
<1> QED BY InitStream, NextStream, PTL DEF Spec

(* Every state is well typed; the head never exceeds BODY_INSPECT_LIMIT    *)
(* (read_body_prefix).                                                     *)
THEOREM TypeCorrect == Spec => []TypeOK
<1>1. StreamInv => TypeOK
  BY DEF StreamInv
<1> QED BY <1>1, StreamInvariant, PTL

(* Reading ahead loses, repeats and reorders no frame (read_body_prefix,   *)
(* PrefixedBody::poll_frame), whatever the frames and the limit.           *)
THEOREM StreamCorrect == Spec => []FramesConserved
<1>1. StreamInv => FramesConserved
  BY DEF StreamInv
<1> QED BY <1>1, StreamInvariant, PTL

(* What is complete for the backend is what the client sent and completed  *)
(* (PrefixedBody::poll_frame).                                             *)
THEOREM CompleteCorrect == Spec => []CompleteIfEnded
<1>1. ASSUME StreamInv PROVE CompleteIfEnded
  <2> SUFFICES ASSUME phase = "complete" PROVE client = "ended" /\ forwarded = sent
    BY DEF CompleteIfEnded
  <2>1. client = "ended" /\ incoming = <<>> /\ prefix = <<>> /\ forwarded \in Seq(AllFrames)
    BY <1>1 DEF StreamInv, EndIsTheEnd, TypeOK
  <2>2. (forwarded \o <<>>) \o <<>> = forwarded
    BY <2>1, ConcatEmptySeq
  <2> QED BY <1>1, <2>1, <2>2 DEF StreamInv, FramesConserved
<1> QED BY <1>1, StreamInvariant, PTL

(* Only a client that was quiet for BODY_READ_TIMEOUT is timed out, however*)
(* slow the handler and the backend are (read_body_prefix, poll_frame).    *)
THEOREM TimeoutCorrect == Spec => []TimeoutMeansQuiet
<1>1. StreamInv => TimeoutMeansQuiet
  BY DEF StreamInv
<1> QED BY <1>1, StreamInvariant, PTL

-----------------------------------------------------------------------------
(* The bytes of a sequence of frames.  FlattenSeq is a recursive function: *)
(* it exists and is determined, by descent to a first position where it    *)
(* would not be.                                                           *)
Flat(f, s, n) == f = [i \in 1..n |-> IF i = 1 THEN s[i] ELSE f[i - 1] \o s[i]]

LEMMA First ==
    ASSUME NEW T, T \subseteq Nat, T # {}
    PROVE  \E x \in T : \A y \in T : x <= y
<1>1. PICK x \in T : \A y \in T : ~ (<<y, x>> \in OpToRel(<, Nat))
  BY NatLessThanWellFounded, WFMin
<1>2. \A y \in T : ~ (y < x)
  BY <1>1 DEF OpToRel
<1> QED BY <1>2

LEMMA FlatExists ==
    ASSUME NEW s, NEW n \in Nat
    PROVE  \E f : Flat(f, s, n)
<1> DEFINE bad == {k \in Nat : ~ \E f : Flat(f, s, k)}
<1>1. CASE bad = {}
  BY <1>1
<1>2. CASE bad # {}
  <2>1. PICK m \in bad : \A k \in bad : m <= k
    <3>1. bad \subseteq Nat
      OBVIOUS
    <3> HIDE DEF bad
    <3> QED BY <1>2, <3>1, First
  <2>2. CASE m = 0
    <3> DEFINE f == [i \in 1..0 |-> s[i]]
    <3>1. f = [i \in 1..0 |-> IF i = 1 THEN s[i] ELSE f[i - 1] \o s[i]]
      <4>1. 1..0 = {}
        OBVIOUS
      <4> QED BY <4>1
    <3> QED BY <2>1, <2>2, <3>1 DEF Flat
  <2>3. CASE m # 0
    <3>1. m - 1 \in Nat /\ m - 1 \notin bad
      BY <2>1, <2>3
    <3>2. PICK f : Flat(f, s, m - 1)
      BY <3>1
    <3> DEFINE g == [i \in 1..m |-> IF i < m THEN f[i]
                                    ELSE IF m = 1 THEN s[m] ELSE f[m - 1] \o s[m]]
    <3>3. ASSUME NEW i \in 1..m PROVE g[i] = IF i = 1 THEN s[i] ELSE g[i - 1] \o s[i]
      <4>1. CASE i = m
        <5>1. i # 1 => i - 1 \in 1..m /\ i - 1 < m
          BY <2>1
        <5> QED BY <4>1, <5>1
      <4>2. CASE i < m
        <5>1. i \in 1..m - 1 /\ (i # 1 => i - 1 \in 1..m /\ i - 1 < m)
          BY <2>1, <4>2
        <5>2. f[i] = IF i = 1 THEN s[i] ELSE f[i - 1] \o s[i]
          BY <3>2, <5>1 DEF Flat
        <5> QED BY <4>2, <5>1, <5>2
      <4> QED BY <2>1, <4>1, <4>2
    <3>4. g = [i \in 1..m |-> g[i]]
      OBVIOUS
    <3>5. Flat(g, s, m)
      <4> HIDE DEF g
      <4>1. [i \in 1..m |-> g[i]] = [i \in 1..m |-> IF i = 1 THEN s[i] ELSE g[i - 1] \o s[i]]
        BY <3>3
      <4> QED BY <3>4, <4>1 DEF Flat
    <3> QED BY <2>1, <3>5
  <2> QED BY <2>2, <2>3
<1> QED BY <1>1, <1>2

SameFirst(s, t, m) == \A i \in 1..m : t[i] = s[i]

LEMMA FlatAgree ==
    ASSUME NEW s, NEW t, NEW m \in Nat, NEW n \in Nat, m <= n, SameFirst(s, t, m),
           NEW f, Flat(f, s, m), NEW g, Flat(g, t, n)
    PROVE  SameFirst(f, g, m)
<1> USE DEF SameFirst
<1> DEFINE bad == {k \in 1..m : g[k] # f[k]}
<1>1. CASE bad = {}
  BY <1>1
<1>2. CASE bad # {}
  <2>1. PICK k \in bad : \A j \in bad : k <= j
    <3>1. bad \subseteq Nat
      OBVIOUS
    <3> HIDE DEF bad
    <3> QED BY <1>2, <3>1, First
  <2>2. /\ f[k] = IF k = 1 THEN s[k] ELSE f[k - 1] \o s[k]
        /\ g[k] = IF k = 1 THEN t[k] ELSE g[k - 1] \o t[k]
    <3>1. k \in 1..m /\ k \in 1..n
      BY <2>1
    <3> QED BY <3>1 DEF Flat
  <2>3. k # 1 => k - 1 \in 1..m /\ k - 1 \notin bad
    BY <2>1
  <2> QED BY <2>1, <2>2, <2>3
<1> QED BY <1>1, <1>2

(* No frames, no bytes; one more frame, its bytes more. *)
LEMMA BytesOf ==
    ASSUME NEW s \in Seq(Seq(0..255)), NEW f, Flat(f, s, Len(s)), s # <<>>
    PROVE  Bytes(s) = f[Len(s)]
<1>1. Len(s) # 0 /\ Len(s) \in Nat
  BY EmptySeq
<1> DEFINE g == CHOOSE h : h = [i \in 1..Len(s) |-> IF i = 1 THEN s[i] ELSE h[i - 1] \o s[i]]
<1>2. Bytes(s) = g[Len(s)]
  BY <1>1 DEF Bytes, FlattenSeq
<1>3. Flat(g, s, Len(s))
  BY DEF Flat
<1> HIDE DEF g
<1>4. g[Len(s)] = f[Len(s)]
  <2>1. SameFirst(s, s, Len(s))
    BY DEF SameFirst
  <2>2. SameFirst(f, g, Len(s))
    BY <1>1, <1>3, <2>1, FlatAgree
  <2> QED BY <1>1, <2>2 DEF SameFirst
<1> QED BY <1>2, <1>4

LEMMA NoBytes == Bytes(<<>>) = <<>>
BY DEF Bytes, FlattenSeq

LEMMA BytesOfMore ==
    ASSUME NEW s \in Seq(Seq(0..255)), NEW x \in Seq(0..255)
    PROVE  Bytes(Append(s, x)) = Bytes(s) \o x
<1> DEFINE t == Append(s, x)
<1>1. /\ t \in Seq(Seq(0..255)) /\ t # <<>> /\ Len(t) = Len(s) + 1 /\ Len(s) \in Nat
      /\ t[Len(s) + 1] = x /\ \A i \in 1..Len(s) : t[i] = s[i]
  <2> DEFINE S == Seq(0..255)
  <2>1. s \in Seq(S) /\ x \in S
    OBVIOUS
  <2> HIDE DEF S
  <2>2. /\ t \in Seq(S) /\ t # <<>> /\ Len(t) = Len(s) + 1 /\ Len(s) \in Nat
        /\ t[Len(s) + 1] = x /\ \A i \in 1..Len(s) : t[i] = s[i]
    BY <2>1
  <2> QED BY <2>2 DEF S
<1> HIDE DEF t
<1>2. PICK g : Flat(g, t, Len(t))
  <2>1. Len(t) \in Nat
    BY <1>1
  <2> QED BY ONLY <2>1, FlatExists
<1>3. Bytes(t) = g[Len(t)]
  BY <1>1, <1>2, BytesOf
<1>4. g[Len(t)] = IF Len(t) = 1 THEN t[Len(t)] ELSE g[Len(t) - 1] \o t[Len(t)]
  <2>1. Len(t) \in 1..Len(t)
    BY <1>1
  <2> QED BY <1>2, <2>1 DEF Flat
<1>5. CASE s = <<>>
  <2>1. Len(t) = 1
    BY <1>1, <1>5
  <2>2. Bytes(t) = x
    BY <1>1, <1>3, <1>4, <2>1
  <2>3. <<>> \o x = x
    BY ConcatEmptySeq
  <2> QED BY <1>5, <2>2, <2>3, NoBytes DEF t
<1>6. CASE s # <<>>
  <2>1. Len(s) # 0
    BY <1>6, EmptySeq
  <2>2. PICK f : Flat(f, s, Len(s))
    BY <1>1, FlatExists
  <2>3. Bytes(s) = f[Len(s)]
    BY <1>6, <2>2, BytesOf
  <2>4. g[Len(s)] = f[Len(s)]
    <3>1. Len(s) <= Len(t) /\ Len(t) \in Nat /\ Len(s) \in Nat /\ Len(s) \in 1..Len(s)
      BY <1>1, <2>1
    <3>2. \A i \in 1..Len(s) : t[i] = s[i]
      BY <1>1
    <3>3. SameFirst(s, t, Len(s))
      BY <3>2 DEF SameFirst
    <3>4. SameFirst(f, g, Len(s))
      BY ONLY <1>2, <2>2, <3>1, <3>3, FlatAgree
    <3> QED BY <3>1, <3>4 DEF SameFirst
  <2>5. g[Len(t)] = g[Len(s)] \o x
    <3>1. Len(t) - 1 = Len(s) /\ Len(t) # 1
      BY <1>1, <2>1
    <3> QED BY <1>1, <1>4, <3>1
  <2> QED BY <1>3, <2>3, <2>4, <2>5 DEF t
<1> QED BY <1>5, <1>6

-----------------------------------------------------------------------------
(* What the rules see: text begins with the bytes of seen. *)
Begins(seen, text) == Len(seen) <= Len(text) /\ \A i \in 1..Len(seen) : text[i] = seen[i]

(* Nothing goes out before the verdict, which is the engine's on the head. *)
Judged ==
    /\ verdict = NoVerdict => forwarded = <<>>
    /\ phase = "forwarding" \/ forwarded # <<>> => verdict # NoVerdict /\ ~verdict.block
    /\ verdict # NoVerdict =>
           verdict = Inspect(engine, Normalized(engine.rules, request, head))

(* While it is read the head is all that was read, and not yet full; from  *)
(* then on it is full, or the whole of a body that has ended.              *)
ReadAhead ==
    /\ Bytes(sent) \in Seq(0..255)
    /\ phase = "start" => head = <<>> /\ prefix = <<>>
    /\ ~needs_body(engine.rules) => head = <<>> /\ phase # "reading"
    /\ phase = "reading" => head = Bytes(prefix) /\ Len(head) < BODY_INSPECT_LIMIT
    /\ needs_body(engine.rules) /\ (phase = "rules" \/ verdict # NoVerdict) =>
           /\ Begins(head, Bytes(sent))
           /\ Len(head) = BODY_INSPECT_LIMIT \/ (saw_end /\ head = Bytes(sent))

SeenInv == StreamInv /\ Judged /\ ReadAhead

(* The first of the bytes of a text, as SubSeq cuts them. *)
LEMMA FirstBytes ==
    ASSUME NEW text \in Seq(0..255), NEW n \in Nat, n <= Len(text)
    PROVE  /\ SubSeq(text, 1, n) \in Seq(0..255) /\ Len(SubSeq(text, 1, n)) = n
           /\ \A i \in 1..n : SubSeq(text, 1, n)[i] = text[i]
<1>1. \A i \in 1..n : text[i] \in 0..255
  <2> TAKE i \in 1..n
  <2>1. i \in 1..Len(text)
    OBVIOUS
  <2> QED BY <2>1, ElementOfSeq
<1>2. /\ SubSeq(text, 1, n) \in Seq(0..255)
      /\ Len(SubSeq(text, 1, n)) = IF 1 <= n THEN n - 1 + 1 ELSE 0
      /\ \A i \in 1..n - 1 + 1 : SubSeq(text, 1, n)[i] = text[1 + i - 1]
  <2>1. 1 \in Int /\ n \in Int
    OBVIOUS
  <2> QED BY <1>1, <2>1, SubSeqProperties
<1>3. ASSUME NEW i \in 1..n PROVE SubSeq(text, 1, n)[i] = text[i]
  <2>1. i \in 1..n - 1 + 1 /\ 1 + i - 1 = i
    OBVIOUS
  <2> QED BY <1>2, <2>1
<1> QED BY <1>2, <1>3

LEMMA Smallest ==
    ASSUME NEW m \in Nat, NEW n \in Nat
    PROVE  Min({m, n}) = IF m <= n THEN m ELSE n
<1>1. \E x \in {m, n} : \A y \in {m, n} : x <= y
  OBVIOUS
<1>2. Min({m, n}) \in {m, n} /\ \A y \in {m, n} : Min({m, n}) <= y
  BY <1>1 DEF Min
<1> QED BY <1>2

(* More bytes at the end change nothing at the beginning. *)
LEMMA BeginsMore ==
    ASSUME NEW seen \in Seq(0..255), NEW text \in Seq(0..255), NEW more \in Seq(0..255),
           Begins(seen, text)
    PROVE  Begins(seen, text \o more)
<1>1. /\ Len(text \o more) = Len(text) + Len(more)
      /\ \A i \in 1..Len(text) + Len(more) :
             (text \o more)[i] = IF i <= Len(text) THEN text[i] ELSE more[i - Len(text)]
      /\ Len(text) \in Nat /\ Len(more) \in Nat /\ Len(seen) \in Nat
  BY ConcatProperties
<1>2. \A i \in 1..Len(seen) : i \in 1..Len(text) + Len(more) /\ i <= Len(text)
  BY <1>1 DEF Begins
<1> QED BY <1>1, <1>2 DEF Begins

(* Filling the head with a chunk: all of it, or up to the limit. *)
LEMMA HeadTakes ==
    ASSUME NEW h \in Seq(0..255), NEW chunk \in Seq(0..255), Len(h) < BODY_INSPECT_LIMIT
    PROVE  LET filled == h \o SubSeq(chunk, 1, Min({Len(chunk), BODY_INSPECT_LIMIT - Len(h)}))
           IN  /\ Begins(filled, h \o chunk)
               /\ Len(filled) < BODY_INSPECT_LIMIT => filled = h \o chunk
               /\ ~(Len(filled) < BODY_INSPECT_LIMIT) => Len(filled) = BODY_INSPECT_LIMIT
<1> DEFINE room == BODY_INSPECT_LIMIT - Len(h)
           n == Min({Len(chunk), room})
           first == SubSeq(chunk, 1, n)
           filled == h \o first
           all == h \o chunk
<1>1. Len(h) \in Nat /\ Len(chunk) \in Nat /\ room \in Nat /\ BODY_INSPECT_LIMIT \in Nat
  BY InspectionAssumption
<1>2. n = IF Len(chunk) <= room THEN Len(chunk) ELSE room
  <2> HIDE DEF room
  <2> QED BY <1>1, Smallest
<1>3. n \in Nat /\ n <= Len(chunk) /\ Len(h) + n <= BODY_INSPECT_LIMIT
  <2> HIDE DEF n
  <2> QED BY <1>1, <1>2
<1>4. /\ first \in Seq(0..255) /\ Len(first) = n
      /\ \A i \in 1..n : first[i] = chunk[i]
  <2> HIDE DEF n
  <2> QED BY <1>3, FirstBytes
<1>5. /\ filled \in Seq(0..255) /\ Len(filled) = Len(h) + n
      /\ \A i \in 1..Len(h) + n : filled[i] = IF i <= Len(h) THEN h[i] ELSE first[i - Len(h)]
  <2> HIDE DEF first, n
  <2> QED BY <1>4, ConcatProperties
<1>6. /\ all \in Seq(0..255) /\ Len(all) = Len(h) + Len(chunk)
      /\ \A i \in 1..Len(h) + Len(chunk) :
             all[i] = IF i <= Len(h) THEN h[i] ELSE chunk[i - Len(h)]
  BY ConcatProperties
<1> HIDE DEF n, first, filled, all
<1>7. ASSUME NEW i \in 1..Len(h) + n PROVE all[i] = filled[i]
  <2>1. i \in 1..Len(h) + Len(chunk) /\ (~(i <= Len(h)) => i - Len(h) \in 1..n)
    BY <1>1, <1>3
  <2> QED BY <1>4, <1>5, <1>6, <2>1
<1>8. Begins(filled, all)
  <2>1. Len(filled) <= Len(all)
    BY <1>1, <1>3, <1>5, <1>6
  <2>2. \A i \in 1..Len(filled) : all[i] = filled[i]
    BY <1>5, <1>7
  <2> QED BY <2>1, <2>2 DEF Begins
<1>9. Len(filled) < BODY_INSPECT_LIMIT => filled = all
  <2> SUFFICES ASSUME Len(filled) < BODY_INSPECT_LIMIT PROVE filled = all
    OBVIOUS
  <2>1. n = Len(chunk)
    BY <1>1, <1>2, <1>3, <1>5 DEF room
  <2>2. Len(filled) = Len(all) /\ \A i \in 1..Len(filled) : filled[i] = all[i]
    BY <1>5, <1>6, <1>7, <2>1
  <2> QED BY <1>5, <1>6, <2>2, SeqEqual
<1>10. ~(Len(filled) < BODY_INSPECT_LIMIT) => Len(filled) = BODY_INSPECT_LIMIT
  <2>1. Len(filled) = Len(h) + n
    BY <1>5
  <2> HIDE DEF room
  <2> QED BY ONLY <1>1, <1>3, <2>1
<1> QED BY <1>8, <1>9, <1>10 DEF n, first, filled, all, room

(* What was read and sent is one sequence of frames, and of their bytes. *)
LEMMA BytesSent ==
    ASSUME NEW frame \in AllFrames, sent \in Seq(AllFrames)
    PROVE  /\ sent \in Seq(Seq(0..255)) /\ frame \in Seq(0..255)
           /\ Bytes(Append(sent, frame)) = Bytes(sent) \o frame
<1>1. sent \in Seq(Seq(0..255)) /\ frame \in Seq(0..255)
  <2> DEFINE S == Seq(0..255)
  <2>1. AllFrames \subseteq S
    BY BytesAreFrames
  <2> HIDE DEF S
  <2>2. sent \in Seq(S) /\ frame \in S
    <3>1. \A i \in 1..Len(sent) : sent[i] \in S
      BY <2>1
    <3> QED BY <2>1, <3>1
  <2> QED BY <2>2 DEF S
<1> QED BY <1>1, BytesOfMore

-----------------------------------------------------------------------------
LEMMA InitSeen == Init => SeenInv
<1> SUFFICES ASSUME Init PROVE SeenInv
  OBVIOUS
<1>1. StreamInv
  BY InitStream
<1>2. Judged
  BY DEF Init, Judged
<1>3. ReadAhead
  <2>1. Bytes(sent) \in Seq(0..255)
    <3>1. Bytes(sent) = <<>>
      BY NoBytes DEF Init
    <3> QED BY <3>1
  <2> QED BY <2>1 DEF Init, ReadAhead
<1> QED BY <1>1, <1>2, <1>3 DEF SeenInv

(* A frame more: the head, if it is judged, was full or the body complete. *)
LEMMA SendSeen ==
    ASSUME SeenInv, NEW frame \in AllFrames, Send(frame)
    PROVE  Judged' /\ ReadAhead'
<1>1. /\ TypeOK /\ EndIsTheEnd /\ Judged /\ ReadAhead
      /\ sent \in Seq(AllFrames) /\ head \in Seq(0..255)
  BY DEF SeenInv, StreamInv, TypeOK
<1>2. /\ client = "sending" /\ sent' = Append(sent, frame)
      /\ UNCHANGED <<engine, request, head, prefix, saw_end, verdict, forwarded, phase>>
  BY DEF Send, ahead
<1>3. frame \in Seq(0..255) /\ Bytes(sent') = Bytes(sent) \o frame
  BY <1>1, <1>2, BytesSent
<1>4. Bytes(sent) \in Seq(0..255)
  BY <1>1 DEF ReadAhead
<1>5. Bytes(sent') \in Seq(0..255)
  BY <1>3, <1>4, ConcatProperties
<1>6. Begins(head, Bytes(sent)) => Begins(head, Bytes(sent'))
  BY <1>1, <1>3, <1>4, BeginsMore
<1>7. ~saw_end
  BY <1>1, <1>2 DEF EndIsTheEnd
<1>8. Judged'
  BY <1>1, <1>2 DEF Judged
<1>9. ReadAhead'
  BY <1>1, <1>2, <1>5, <1>6, <1>7 DEF ReadAhead
<1> QED BY <1>8, <1>9

(* A frame read: while nothing went out, what was read and what waits is   *)
(* all that was sent.                                                      *)
LEMMA ReadFrameSeen ==
    ASSUME SeenInv, ReadFrame
    PROVE  Judged' /\ ReadAhead'
<1> DEFINE chunk == incoming[1]
<1>1. /\ TypeOK /\ FramesConserved /\ Judged /\ ReadAhead
      /\ prefix \in Seq(AllFrames) /\ head \in Seq(0..255)
  BY DEF SeenInv, StreamInv, TypeOK
<1>2. /\ chunk \in AllFrames /\ incoming = <<chunk>>
      /\ sent' = sent
  BY <1>1, Taken DEF ReadFrame
<1>3. /\ phase = "reading" /\ verdict = NoVerdict
      /\ needs_body(engine.rules) /\ head = Bytes(prefix) /\ Len(head) < BODY_INSPECT_LIMIT
  BY <1>1 DEF ReadFrame, ReadAhead, TypeOK
<1>4. forwarded = <<>>
  BY <1>1, <1>3 DEF Judged
<1>5. sent = Append(prefix, chunk)
  <2>1. (<<>> \o prefix) \o <<chunk>> = sent
    BY <1>1, <1>2, <1>4 DEF FramesConserved
  <2>2. <<>> \o prefix = prefix
    BY <1>1, ConcatEmptySeq
  <2>3. Append(prefix, chunk) = prefix \o <<chunk>>
    BY <1>1, <1>2, AppendIsConcat
  <2> QED BY <2>1, <2>2, <2>3
<1>6. /\ prefix' = Append(prefix, chunk)
      /\ head' = head \o SubSeq(chunk, 1, Min({Len(chunk), BODY_INSPECT_LIMIT - Len(head)}))
      /\ phase' = IF Len(head') < BODY_INSPECT_LIMIT THEN "reading" ELSE "rules"
      /\ UNCHANGED <<engine, request, saw_end, verdict, forwarded>>
  BY DEF ReadFrame
<1>7. chunk \in Seq(0..255)
  BY <1>2, BytesAreFrames
<1> HIDE DEF chunk
<1>8. Bytes(sent') = head \o chunk
  <2>1. prefix \in Seq(Seq(0..255))
    <3> DEFINE S == Seq(0..255)
    <3>1. AllFrames \subseteq S
      BY BytesAreFrames
    <3> HIDE DEF S
    <3>2. prefix \in Seq(S)
      <4>1. \A i \in 1..Len(prefix) : prefix[i] \in S
        BY <1>1, <3>1
      <4> QED BY <1>1, <4>1
    <3> QED BY <3>2 DEF S
  <2>2. Bytes(Append(prefix, chunk)) = Bytes(prefix) \o chunk
    BY <1>7, <2>1, BytesOfMore
  <2> QED BY <1>2, <1>3, <1>5, <2>2
<1>9. /\ Begins(head', Bytes(sent'))
      /\ Len(head') < BODY_INSPECT_LIMIT => head' = Bytes(sent')
      /\ ~(Len(head') < BODY_INSPECT_LIMIT) => Len(head') = BODY_INSPECT_LIMIT
  BY <1>1, <1>3, <1>6, <1>7, <1>8, HeadTakes
<1>10. Bytes(sent') \in Seq(0..255)
  BY <1>1, <1>2 DEF ReadAhead
<1>11. Judged'
  BY <1>3, <1>4, <1>6 DEF Judged
<1>12. ReadAhead'
  <2>1. sent' = prefix'
    BY <1>2, <1>5, <1>6
  <2>2. CASE Len(head') < BODY_INSPECT_LIMIT
    BY <1>3, <1>6, <1>9, <1>10, <2>1, <2>2 DEF ReadAhead
  <2>3. CASE ~(Len(head') < BODY_INSPECT_LIMIT)
    BY <1>3, <1>6, <1>9, <1>10, <2>3 DEF ReadAhead
  <2> QED BY <2>2, <2>3
<1> QED BY <1>11, <1>12

(* The end read: the head is the whole body. *)
LEMMA ReadEndSeen ==
    ASSUME SeenInv, ReadEnd
    PROVE  Judged' /\ ReadAhead'
<1>1. /\ TypeOK /\ FramesConserved /\ Judged /\ ReadAhead
      /\ prefix \in Seq(AllFrames) /\ head \in Seq(0..255)
  BY DEF SeenInv, StreamInv, TypeOK
<1>2. /\ phase = "reading" /\ verdict = NoVerdict /\ incoming = <<>>
      /\ needs_body(engine.rules) /\ head = Bytes(prefix)
  BY <1>1 DEF ReadEnd, TakeEnd, Step, ReadAhead, TypeOK
<1>3. forwarded = <<>>
  BY <1>1, <1>2 DEF Judged
<1>4. sent = prefix
  <2>1. (<<>> \o prefix) \o <<>> = sent
    BY <1>1, <1>2, <1>3 DEF FramesConserved
  <2> QED BY <1>1, <2>1, ConcatEmptySeq
<1>5. /\ phase' = "rules" /\ saw_end' = TRUE
      /\ UNCHANGED <<engine, request, sent, head, prefix, verdict, forwarded>>
  BY DEF ReadEnd, Step, TakeEnd, body
<1>6. Begins(head, Bytes(sent))
  <2>1. Len(head) \in Nat
    BY <1>1
  <2> QED BY <1>2, <1>4, <2>1 DEF Begins
<1>7. Judged'
  BY <1>2, <1>3, <1>5 DEF Judged
<1>8. ReadAhead'
  BY <1>1, <1>2, <1>4, <1>5, <1>6 DEF ReadAhead
<1> QED BY <1>7, <1>8

(* The verdict: the engine's on the head. *)
LEMMA CheckRulesSeen ==
    ASSUME SeenInv, CheckRules
    PROVE  Judged' /\ ReadAhead'
<1> DEFINE answer == Inspect(engine, Normalized(engine.rules, request, head))
<1>1. TypeOK /\ Judged /\ ReadAhead
  BY DEF SeenInv, StreamInv
<1>2. /\ phase = "rules" /\ phase' = IF answer.block THEN "blocked" ELSE "forwarding"
      /\ verdict' = answer
      /\ UNCHANGED <<engine, request, sent, head, prefix, saw_end, forwarded>>
  BY DEF CheckRules, Step, body, ahead
<1>3. answer # NoVerdict
  <2>1. "block" \in DOMAIN answer
    BY DEF Inspect
  <2>2. DOMAIN NoVerdict = {}
    BY DEF NoVerdict
  <2> QED BY <2>1, <2>2
<1>4. forwarded = <<>>
  BY <1>1, <1>2 DEF TypeOK, Judged
<1> HIDE DEF answer
<1>5. Judged'
  BY <1>2, <1>3, <1>4 DEF Judged, answer
<1>6. ReadAhead'
  BY <1>1, <1>2 DEF ReadAhead
<1> QED BY <1>5, <1>6

(* Every other step leaves what was read, and what it said, alone. *)
LEMMA OtherSeen ==
    ASSUME SeenInv,
           \/ EndBody \/ Break \/ Tick \/ Begin \/ ReadError \/ ReadElapsed
           \/ Poll \/ UNCHANGED vars
    PROVE  Judged' /\ ReadAhead'
<1>1. TypeOK /\ Judged /\ ReadAhead
  BY DEF SeenInv, StreamInv
<1>2. UNCHANGED <<engine, request, sent, head, saw_end, verdict>>
  BY DEF EndBody, Break, Tick, Begin, ReadError, ReadElapsed, Poll, PollPrefix, PollRest,
         PollEnd, PollError, PollElapsed, GiveUp, TakeFrame, TakeEnd,
         TakeError, TakeElapsed, vars, body, ahead
<1>3. CASE EndBody \/ Break \/ Tick \/ UNCHANGED vars
  <2>1. UNCHANGED <<prefix, forwarded, phase>>
    BY <1>3 DEF EndBody, Break, Tick, vars, ahead
  <2> QED BY <1>1, <1>2, <2>1 DEF Judged, ReadAhead
<1>4. CASE Begin
  <2>1. /\ phase = "start" /\ UNCHANGED <<prefix, forwarded>>
        /\ phase' = IF needs_body(engine.rules) THEN "reading" ELSE "rules"
    BY <1>4 DEF Begin, Step, ahead
  <2>2. head = <<>> /\ prefix = <<>> /\ verdict = NoVerdict
    BY <1>1, <2>1 DEF ReadAhead, TypeOK
  <2>3. Len(<<>>) < BODY_INSPECT_LIMIT /\ <<>> = Bytes(<<>>)
    BY InspectionAssumption, NoBytes
  <2> QED BY <1>1, <1>2, <2>1, <2>2, <2>3 DEF Judged, ReadAhead
<1>5. CASE ReadError \/ ReadElapsed
  <2>1. phase' \in {"failed", "timedOut"} /\ UNCHANGED <<prefix, forwarded>>
    BY <1>5 DEF ReadError, ReadElapsed, Step, ahead
  <2> QED BY <1>1, <1>2, <2>1 DEF Judged, ReadAhead
<1>6. CASE Poll
  <2>1. phase = "forwarding" /\ phase' \in {"forwarding", "complete", "failed", "timedOut", "givenUp"}
    BY <1>6 DEF Poll, PollPrefix, PollRest, PollEnd, PollError, PollElapsed, GiveUp, Step
  <2>2. verdict # NoVerdict /\ ~verdict.block
    BY <1>1, <2>1 DEF Judged
  <2> QED BY <1>1, <1>2, <2>1, <2>2 DEF Judged, ReadAhead
<1> QED BY <1>3, <1>4, <1>5, <1>6

LEMMA NextSeen == SeenInv /\ [Next]_vars => SeenInv'
<1> SUFFICES ASSUME SeenInv, [Next]_vars PROVE SeenInv'
  OBVIOUS
<1>1. StreamInv'
  BY NextStream DEF SeenInv
<1>2. Judged' /\ ReadAhead'
  BY SendSeen, ReadFrameSeen, ReadEndSeen, CheckRulesSeen, OtherSeen
  DEF Next, Handle, ReadBody, Environment
<1> QED BY <1>1, <1>2 DEF SeenInv

(* The head is the first BODY_INSPECT_LIMIT bytes of the body. *)
LEMMA HeadIsFirst ==
    ASSUME SeenInv, verdict # NoVerdict, needs_body(engine.rules)
    PROVE  head = SubSeq(Bytes(sent), 1, Min({BODY_INSPECT_LIMIT, Len(Bytes(sent))}))
<1> DEFINE all == Bytes(sent)
           n == Min({BODY_INSPECT_LIMIT, Len(all)})
<1>1. /\ all \in Seq(0..255) /\ head \in Seq(0..255) /\ Begins(head, all)
      /\ Len(head) = BODY_INSPECT_LIMIT \/ head = all
      /\ Len(head) <= BODY_INSPECT_LIMIT
  BY DEF SeenInv, StreamInv, TypeOK, ReadAhead
<1> HIDE DEF all
<1>2. Len(all) \in Nat /\ BODY_INSPECT_LIMIT \in Nat /\ Len(head) \in Nat
  BY <1>1, InspectionAssumption
<1>3. n = IF BODY_INSPECT_LIMIT <= Len(all) THEN BODY_INSPECT_LIMIT ELSE Len(all)
  BY <1>2, Smallest
<1> HIDE DEF n
<1>4. Len(head) <= Len(all) /\ \A i \in 1..Len(head) : all[i] = head[i]
  BY <1>1 DEF Begins
<1>5. n = Len(head) /\ n \in Nat /\ n <= Len(all)
  BY <1>1, <1>2, <1>3, <1>4
<1>6. /\ SubSeq(all, 1, n) \in Seq(0..255) /\ Len(SubSeq(all, 1, n)) = n
      /\ \A i \in 1..n : SubSeq(all, 1, n)[i] = all[i]
  BY <1>1, <1>5, FirstBytes
<1>7. Len(head) = Len(SubSeq(all, 1, n)) /\ \A i \in 1..Len(head) : head[i] = SubSeq(all, 1, n)[i]
  BY <1>4, <1>5, <1>6
<1> QED BY <1>1, <1>6, <1>7, SeqEqual DEF all, n

(* The verdict is the engine's on the first BODY_INSPECT_LIMIT bytes of    *)
(* the whole body, however it is cut into frames, for any rules and any    *)
(* limit, and nothing is forwarded before it or in spite of it (handle,    *)
(* read_body_prefix).                                                      *)
THEOREM VerdictCorrect == Spec => []VerdictOnTheBody
<1>1. Spec => []SeenInv
  BY InitSeen, NextSeen, PTL DEF Spec
<1>2. ASSUME SeenInv PROVE VerdictOnTheBody
  <2> DEFINE all == Bytes(sent)
             seen == IF needs_body(engine.rules)
                     THEN SubSeq(all, 1, Min({BODY_INSPECT_LIMIT, Len(all)}))
                     ELSE <<>>
  <2>1. verdict # NoVerdict =>
            verdict = Inspect(engine, Normalized(engine.rules, request, head))
    BY <1>2 DEF SeenInv, Judged
  <2>2. forwarded # <<>> => verdict # NoVerdict /\ ~verdict.block
    BY <1>2 DEF SeenInv, Judged
  <2>3. ASSUME verdict # NoVerdict PROVE head = seen
    <3>1. CASE needs_body(engine.rules)
      BY <1>2, <2>3, <3>1, HeadIsFirst
    <3>2. CASE ~needs_body(engine.rules)
      BY <1>2, <3>2 DEF SeenInv, ReadAhead
    <3> QED BY <3>1, <3>2
  <2> HIDE DEF seen
  <2>4. verdict # NoVerdict =>
            verdict = Inspect(engine, Normalized(engine.rules, request, seen))
    BY <2>1, <2>3
  <2> QED BY <2>2, <2>4 DEF VerdictOnTheBody, seen
<1> QED BY <1>1, <1>2, PTL
-----------------------------------------------------------------------------
(* The engine's hits.  What holds at 0 and is handed from each number to   *)
(* the next holds everywhere.                                              *)
LEMMA Climb ==
    ASSUME NEW n \in Nat, NEW good, 0 \in good,
           \A k \in 1..n : k - 1 \in good => k \in good
    PROVE  \A k \in 0..n : k \in good
<1> DEFINE bad == {k \in 0..n : k \notin good}
<1>1. CASE bad = {}
  BY <1>1
<1>2. CASE bad # {}
  <2>1. PICK k \in bad : \A j \in bad : k <= j
    <3>1. bad \subseteq Nat
      OBVIOUS
    <3> HIDE DEF bad
    <3> QED BY <1>2, <3>1, First
  <2>2. k \in 1..n /\ k - 1 \in 0..n /\ k - 1 \notin bad
    BY <2>1
  <2> QED BY <2>1, <2>2
<1> QED BY <1>1, <1>2

(* Two sequences put together have the elements of both, and none twice    *)
(* when each has none twice and they share none.                           *)
LEMMA Together ==
    ASSUME NEW S, NEW s \in Seq(S), NEW t \in Seq(S)
    PROVE  /\ s \o t \in Seq(S)
           /\ ToSet(s \o t) = ToSet(s) \cup ToSet(t)
           /\ IsInjective(s) /\ IsInjective(t) /\ ToSet(s) \cap ToSet(t) = {}
                  => IsInjective(s \o t)
<1> DEFINE st == s \o t
<1>1. /\ st \in Seq(S) /\ Len(st) = Len(s) + Len(t) /\ Len(s) \in Nat /\ Len(t) \in Nat
      /\ DOMAIN st = 1..Len(s) + Len(t) /\ DOMAIN s = 1..Len(s) /\ DOMAIN t = 1..Len(t)
      /\ \A i \in 1..Len(s) + Len(t) : st[i] = IF i <= Len(s) THEN s[i] ELSE t[i - Len(s)]
  BY ConcatProperties
<1> HIDE DEF st
<1>2. ASSUME NEW i \in DOMAIN st
      PROVE  \/ i <= Len(s) /\ i \in DOMAIN s /\ st[i] = s[i] /\ s[i] \in ToSet(s)
             \/ /\ ~ (i <= Len(s)) /\ i - Len(s) \in DOMAIN t
                /\ st[i] = t[i - Len(s)] /\ t[i - Len(s)] \in ToSet(t)
  <2>1. CASE i <= Len(s)
    <3>1. i \in DOMAIN s /\ st[i] = s[i]
      BY <1>1, <2>1
    <3> QED BY <2>1, <3>1 DEF ToSet
  <2>2. CASE ~ (i <= Len(s))
    <3>1. i - Len(s) \in DOMAIN t /\ st[i] = t[i - Len(s)]
      BY <1>1, <2>2
    <3> QED BY <2>2, <3>1 DEF ToSet
  <2> QED BY <2>1, <2>2
<1>3. ASSUME NEW i \in DOMAIN s PROVE s[i] \in ToSet(st)
  <2>1. i \in DOMAIN st /\ st[i] = s[i]
    BY <1>1
  <2> QED BY <2>1 DEF ToSet
<1>4. ASSUME NEW i \in DOMAIN t PROVE t[i] \in ToSet(st)
  <2>1. /\ Len(s) + i \in DOMAIN st /\ ~ (Len(s) + i <= Len(s)) /\ Len(s) + i - Len(s) = i
    BY <1>1
  <2>2. st[Len(s) + i] = t[i]
    BY <1>1, <2>1
  <2> QED BY <2>1, <2>2 DEF ToSet
<1>5. ToSet(st) = ToSet(s) \cup ToSet(t)
  <2>1. ASSUME NEW x \in ToSet(st) PROVE x \in ToSet(s) \cup ToSet(t)
    <3>1. PICK i \in DOMAIN st : x = st[i]
      BY DEF ToSet
    <3> QED BY <1>2, <3>1
  <2>2. ASSUME NEW x \in ToSet(s) \cup ToSet(t) PROVE x \in ToSet(st)
    BY <1>3, <1>4 DEF ToSet
  <2> QED BY <2>1, <2>2
<1>6. ASSUME IsInjective(s), IsInjective(t), ToSet(s) \cap ToSet(t) = {}
      PROVE  IsInjective(st)
  <2> SUFFICES ASSUME NEW i \in DOMAIN st, NEW j \in DOMAIN st, st[i] = st[j]
               PROVE  i = j
    BY DEF IsInjective
  <2>1. CASE i <= Len(s) /\ j <= Len(s)
    <3>1. i \in DOMAIN s /\ j \in DOMAIN s /\ s[i] = s[j]
      BY <1>2, <2>1
    <3> QED BY <1>6, <3>1 DEF IsInjective
  <2>2. CASE ~ (i <= Len(s)) /\ ~ (j <= Len(s))
    <3>1. i - Len(s) \in DOMAIN t /\ j - Len(s) \in DOMAIN t /\ t[i - Len(s)] = t[j - Len(s)]
      BY <1>2, <2>2
    <3>2. i - Len(s) = j - Len(s)
      BY <1>6, <3>1 DEF IsInjective
    <3> QED BY <1>1, <3>2
  <2>3. ~ (i <= Len(s) /\ ~ (j <= Len(s))) /\ ~ (j <= Len(s) /\ ~ (i <= Len(s)))
    BY <1>2, <1>6
  <2> QED BY <2>1, <2>2, <2>3
<1> QED BY <1>1, <1>5, <1>6 DEF st

LEMMA FlattenIs ==
    ASSUME NEW S, NEW s \in Seq(S), s # <<>>, NEW f, Flat(f, s, Len(s))
    PROVE  FlattenSeq(s) = f[Len(s)]
<1>1. Len(s) # 0 /\ Len(s) \in Nat
  BY EmptySeq
<1> DEFINE g == CHOOSE h : h = [i \in 1..Len(s) |-> IF i = 1 THEN s[i] ELSE h[i - 1] \o s[i]]
<1>2. FlattenSeq(s) = g[Len(s)]
  BY <1>1 DEF FlattenSeq
<1>3. Flat(g, s, Len(s))
  BY DEF Flat
<1> HIDE DEF g
<1>4. SameFirst(s, s, Len(s))
  BY DEF SameFirst
<1>5. SameFirst(f, g, Len(s))
  BY <1>1, <1>3, <1>4, FlatAgree
<1> QED BY <1>1, <1>2, <1>5 DEF SameFirst

(* What the first k parts hold. *)
Held(parts, k) == UNION {ToSet(parts[i]) : i \in 1..k}

(* No part has an element twice, and no two parts share one. *)
Apart(parts) ==
    /\ \A i \in DOMAIN parts : IsInjective(parts[i])
    /\ \A i, j \in DOMAIN parts : i # j => ToSet(parts[i]) \cap ToSet(parts[j]) = {}

(* Many put together. *)
LEMMA Flattened ==
    ASSUME NEW S, NEW parts \in Seq(Seq(S))
    PROVE  /\ FlattenSeq(parts) \in Seq(S)
           /\ ToSet(FlattenSeq(parts)) = Held(parts, Len(parts))
           /\ Apart(parts) => IsInjective(FlattenSeq(parts))
<1> DEFINE n == Len(parts)
<1>1. n \in Nat /\ DOMAIN parts = 1..n /\ \A i \in 1..n : parts[i] \in Seq(S)
  BY ElementOfSeq
<1> HIDE DEF n
<1>2. CASE n = 0
  <2>1. parts = <<>> /\ FlattenSeq(parts) = parts
    BY <1>2, EmptySeq DEF FlattenSeq, n
  <2>2. Held(parts, n) = {}
    BY <1>2 DEF Held
  <2>3. DOMAIN parts = {}
    BY <1>1, <1>2
  <2>4. ToSet(parts) = {} /\ IsInjective(parts)
    BY <2>3 DEF ToSet, IsInjective
  <2>5. parts \in Seq(S)
    BY <2>1, EmptySeq
  <2> QED BY <2>1, <2>2, <2>4, <2>5 DEF n
<1>3. CASE n # 0
  <2>1. PICK f : Flat(f, parts, n)
    BY <1>1, FlatExists
  <2>2. FlattenSeq(parts) = f[n]
    <3>1. parts # <<>>
      BY <1>3, EmptySeq DEF n
    <3> QED BY <2>1, <3>1, FlattenIs DEF n
  <2> DEFINE good == {k \in 0..n : k = 0 \/ (/\ f[k] \in Seq(S) /\ ToSet(f[k]) = Held(parts, k)
                                             /\ Apart(parts) => IsInjective(f[k]))}
  <2>3. 0 \in good
    BY <1>1
  <2>4. ASSUME NEW k \in 1..n, k - 1 \in good PROVE k \in good
    <3>1. f[k] = IF k = 1 THEN parts[k] ELSE f[k - 1] \o parts[k]
      BY <2>1 DEF Flat
    <3>2. parts[k] \in Seq(S) /\ (Apart(parts) => IsInjective(parts[k]))
      BY <1>1 DEF Apart
    <3>3. Held(parts, k) = Held(parts, k - 1) \cup ToSet(parts[k])
      <4>1. 1..k = (1..k - 1) \cup {k}
        BY <1>1
      <4> QED BY <4>1 DEF Held
    <3>4. CASE k = 1
      <4>1. Held(parts, k - 1) = {}
        BY <3>4 DEF Held
      <4>2. f[k] = parts[k] /\ ToSet(parts[k]) = Held(parts, k)
        BY <3>1, <3>3, <3>4, <4>1
      <4>3. /\ f[k] \in Seq(S) /\ ToSet(f[k]) = Held(parts, k)
            /\ Apart(parts) => IsInjective(f[k])
        BY <3>2, <4>2
      <4>4. k \in 0..n
        BY <1>1
      <4> QED BY <4>3, <4>4
    <3>5. CASE k # 1
      <4>1. /\ f[k - 1] \in Seq(S) /\ ToSet(f[k - 1]) = Held(parts, k - 1)
            /\ Apart(parts) => IsInjective(f[k - 1])
        BY <1>1, <2>4, <3>5
      <4>2. /\ f[k] \in Seq(S) /\ ToSet(f[k]) = ToSet(f[k - 1]) \cup ToSet(parts[k])
            /\ IsInjective(f[k - 1]) /\ IsInjective(parts[k])
               /\ ToSet(f[k - 1]) \cap ToSet(parts[k]) = {} => IsInjective(f[k])
        BY <3>1, <3>2, <3>5, <4>1, Together
      <4>3. Apart(parts) => Held(parts, k - 1) \cap ToSet(parts[k]) = {}
        <5>1. \A i \in 1..k - 1 : i \in 1..n /\ i # k
          BY <1>1
        <5> QED BY <1>1, <5>1 DEF Apart, Held
      <4>4. Apart(parts) => IsInjective(f[k])
        BY <3>2, <4>1, <4>2, <4>3
      <4>5. f[k] \in Seq(S) /\ ToSet(f[k]) = Held(parts, k)
        BY <3>3, <4>1, <4>2
      <4>6. k \in 0..n
        BY <1>1
      <4> QED BY <4>4, <4>5, <4>6
    <3> QED BY <3>4, <3>5
  <2>5. n \in good
    <3>1. n \in 0..n
      BY <1>1
    <3> HIDE DEF good
    <3> QED BY <1>1, <2>3, <2>4, <3>1, Climb
  <2> QED BY <1>3, <2>2, <2>5 DEF n
<1> QED BY <1>2, <1>3

(* A sequence written down place by place. *)
LEMMA Listed ==
    ASSUME NEW S, NEW n \in Nat, NEW f \in [1..n -> S]
    PROVE  f \in Seq(S) /\ Len(f) = n /\ DOMAIN f = 1..n
OBVIOUS
-----------------------------------------------------------------------------
(* A walk over a text from its first place: each place says what it gives  *)
(* and from where to go on, always further right; 0 is the end.  Unescaped *)
(* and FindIter are such walks; the recursive functions exist.             *)
Walked(f, m, n, piece, next) ==
    f = [i \in m..n |-> IF next[i] = 0 THEN <<>> ELSE piece[i] \o f[next[i]]]

Onward(n, next) == \A i \in 1..n : next[i] = 0 \/ next[i] \in i + 1..n

LEMMA WalkExists ==
    ASSUME NEW n \in Nat \ {0}, NEW piece, NEW next, Onward(n, next)
    PROVE  \E f : Walked(f, 1, n, piece, next)
<1> DEFINE good == {k \in 0..n : \E f : Walked(f, n + 1 - k, n, piece, next)}
<1>1. 0 \in good
  <2> DEFINE f == [i \in n + 1..n |-> 0]
  <2>1. f = [i \in n + 1..n |-> IF next[i] = 0 THEN <<>> ELSE piece[i] \o f[next[i]]]
    <3>1. n + 1..n = {}
      OBVIOUS
    <3> QED BY <3>1
  <2>2. Walked(f, n + 1 - 0, n, piece, next)
    <3>1. n + 1 - 0 = n + 1
      OBVIOUS
    <3> HIDE DEF f
    <3> QED BY <2>1, <3>1 DEF Walked
  <2>3. 0 \in 0..n
    OBVIOUS
  <2> QED BY <2>2, <2>3
<1>2. ASSUME NEW k \in 1..n, k - 1 \in good PROVE k \in good
  <2> DEFINE m == n + 1 - k
  <2>1. m \in 1..n /\ n + 1 - (k - 1) = m + 1
    OBVIOUS
  <2>2. PICK f : Walked(f, m + 1, n, piece, next)
    BY <1>2, <2>1
  <2> HIDE DEF m
  <2> DEFINE g == [i \in m..n |-> IF i = m
                                  THEN IF next[m] = 0 THEN <<>> ELSE piece[m] \o f[next[m]]
                                  ELSE f[i]]
  <2>3. ASSUME NEW i \in m..n
        PROVE  g[i] = IF next[i] = 0 THEN <<>> ELSE piece[i] \o g[next[i]]
    <3>1. next[i] # 0 => next[i] \in m..n /\ next[i] # m
      BY <2>1 DEF Onward
    <3>2. next[i] # 0 => g[next[i]] = f[next[i]]
      BY <3>1
    <3>3. CASE i = m
      BY <3>2, <3>3
    <3>4. CASE i # m
      <4>1. i \in m + 1..n
        BY <2>1, <3>4
      <4>2. f[i] = IF next[i] = 0 THEN <<>> ELSE piece[i] \o f[next[i]]
        BY <2>2, <4>1 DEF Walked
      <4> QED BY <3>2, <3>4, <4>2
    <3> QED BY <3>3, <3>4
  <2>4. g = [i \in m..n |-> g[i]]
    OBVIOUS
  <2> HIDE DEF g
  <2>5. Walked(g, m, n, piece, next)
    <3>1. [i \in m..n |-> g[i]]
          = [i \in m..n |-> IF next[i] = 0 THEN <<>> ELSE piece[i] \o g[next[i]]]
      BY <2>3
    <3> QED BY <2>4, <3>1 DEF Walked
  <2>6. k \in 0..n
    OBVIOUS
  <2> QED BY <2>5, <2>6 DEF m
<1>3. n \in good
  <2>1. n \in 0..n
    OBVIOUS
  <2> HIDE DEF good
  <2> QED BY <1>1, <1>2, <2>1, Climb
<1>4. n + 1 - n = 1
  OBVIOUS
<1> QED BY <1>3, <1>4

LEMMA WalkGives ==
    ASSUME NEW S, NEW n \in Nat \ {0}, NEW piece, NEW next, Onward(n, next),
           \A i \in 1..n : next[i] # 0 => piece[i] \in Seq(S),
           NEW f, Walked(f, 1, n, piece, next)
    PROVE  \A i \in 1..n : f[i] \in Seq(S)
<1> DEFINE good == {k \in 0..n : \A i \in n + 1 - k..n : f[i] \in Seq(S)}
<1>1. 0 \in good
  OBVIOUS
<1>2. ASSUME NEW k \in 1..n, k - 1 \in good PROVE k \in good
  <2> DEFINE m == n + 1 - k
  <2>1. m \in 1..n /\ n + 1 - (k - 1) = m + 1
    OBVIOUS
  <2>2. \A i \in m + 1..n : f[i] \in Seq(S)
    BY <1>2, <2>1
  <2> HIDE DEF m
  <2>3. f[m] = IF next[m] = 0 THEN <<>> ELSE piece[m] \o f[next[m]]
    BY <2>1 DEF Walked
  <2>4. next[m] # 0 => next[m] \in m + 1..n
    BY <2>1 DEF Onward
  <2>5. f[m] \in Seq(S)
    <3>1. CASE next[m] = 0
      BY <2>3, <3>1, EmptySeq
    <3>2. CASE next[m] # 0
      <4>1. piece[m] \in Seq(S) /\ f[next[m]] \in Seq(S)
        BY <2>1, <2>2, <2>4, <3>2
      <4> QED BY <2>3, <3>2, <4>1, ConcatProperties
    <3> QED BY <3>1, <3>2
  <2>6. \A i \in m..n : f[i] \in Seq(S)
    <3>1. \A i \in m..n : i = m \/ i \in m + 1..n
      BY <2>1
    <3> QED BY <2>2, <2>5, <3>1
  <2> QED BY <2>6 DEF m
<1>3. n \in good
  <2>1. n \in 0..n
    OBVIOUS
  <2> HIDE DEF good
  <2> QED BY <1>1, <1>2, <2>1, Climb
<1>4. n + 1 - n = 1
  OBVIOUS
<1> QED BY <1>3, <1>4

LEMMA TextIs ==
    ASSUME NEW s \in Text
    PROVE  DOMAIN s = 1..Len(s) /\ Len(s) \in Nat /\ \A i \in 1..Len(s) : s[i] \in 0..255
BY ElementOfSeq DEF Text

(* A text read byte by byte, each byte changed or not. *)
LEMMA LowerIs ==
    ASSUME NEW s \in Text
    PROVE  /\ Lower(s) \in Text /\ Len(Lower(s)) = Len(s)
           /\ \A i \in 1..Len(s) : Lower(s)[i] = IF s[i] \in 65..90 THEN s[i] + 32 ELSE s[i]
<1>1. DOMAIN s = 1..Len(s) /\ Len(s) \in Nat /\ \A i \in 1..Len(s) : s[i] \in 0..255
  BY TextIs
<1>2. Lower(s) = [i \in 1..Len(s) |-> IF s[i] \in 65..90 THEN s[i] + 32 ELSE s[i]]
  BY <1>1 DEF Lower
<1> DEFINE n == Len(s)
           t == Lower(s)
           low(b) == IF b \in 65..90 THEN b + 32 ELSE b
<1>3. \A b \in 0..255 : low(b) \in 0..255
  OBVIOUS
<1>4. n \in Nat /\ t = [i \in 1..n |-> low(s[i])] /\ \A i \in 1..n : s[i] \in 0..255
  BY <1>1, <1>2
<1> HIDE DEF t, n, low
<1>5. t \in [1..n -> 0..255]
  BY <1>3, <1>4
<1>6. t \in Seq(0..255) /\ Len(t) = n
  BY <1>4, <1>5, Listed
<1> QED BY <1>1, <1>2, <1>6 DEF Text, t, n

(* Escapes are pairs of hexadecimal digits, each worth less than 16. *)
LEMMA HexValue ==
    ASSUME NEW b \in Digits \cup UpperHex \cup LowerHex
    PROVE  hex_val(b) \in 0..15
BY DEF hex_val, Digits, UpperHex, LowerHex

EscapePiece(s) ==
    [i \in 1..Len(s) + 1 |->
        IF EscapeAt(s, i) THEN <<16 * hex_val(s[i + 1]) + hex_val(s[i + 2])>>
        ELSE <<IF s[i] = Plus THEN Space ELSE s[i]>>]

EscapeNext(s) ==
    [i \in 1..Len(s) + 1 |-> IF i > Len(s) THEN 0 ELSE IF EscapeAt(s, i) THEN i + 3 ELSE i + 1]

LEMMA EscapesOnward ==
    ASSUME NEW s \in Text
    PROVE  /\ Onward(Len(s) + 1, EscapeNext(s))
           /\ \A i \in 1..Len(s) + 1 :
                  EscapeNext(s)[i] # 0 => EscapePiece(s)[i] \in Seq(0..255)
<1>1. Len(s) \in Nat /\ \A i \in 1..Len(s) : s[i] \in 0..255
  BY ElementOfSeq DEF Text
<1>2. Onward(Len(s) + 1, EscapeNext(s))
  <2> SUFFICES ASSUME NEW i \in 1..Len(s) + 1
               PROVE  EscapeNext(s)[i] = 0 \/ EscapeNext(s)[i] \in i + 1..Len(s) + 1
    BY DEF Onward
  <2>1. CASE i > Len(s)
    BY <2>1 DEF EscapeNext
  <2>2. CASE ~ (i > Len(s)) /\ EscapeAt(s, i)
    <3>1. i + 2 <= Len(s)
      BY <2>2 DEF EscapeAt
    <3>2. EscapeNext(s)[i] = i + 3
      BY <2>2 DEF EscapeNext
    <3> QED BY <1>1, <3>1, <3>2
  <2>3. CASE ~ (i > Len(s)) /\ ~ EscapeAt(s, i)
    <3>1. EscapeNext(s)[i] = i + 1
      BY <2>3 DEF EscapeNext
    <3> QED BY <1>1, <2>3, <3>1
  <2> QED BY <2>1, <2>2, <2>3
<1>3. ASSUME NEW i \in 1..Len(s) + 1, EscapeNext(s)[i] # 0
      PROVE  EscapePiece(s)[i] \in Seq(0..255)
  <2>1. i \in 1..Len(s)
    BY <1>1, <1>3 DEF EscapeNext
  <2>2. CASE EscapeAt(s, i)
    <3>1. /\ s[i + 1] \in Digits \cup UpperHex \cup LowerHex
          /\ s[i + 2] \in Digits \cup UpperHex \cup LowerHex
      BY <2>2 DEF EscapeAt
    <3> DEFINE hi == hex_val(s[i + 1])
               lo == hex_val(s[i + 2])
    <3>2. hi \in 0..15 /\ lo \in 0..15
      BY <3>1, HexValue
    <3> HIDE DEF hi, lo
    <3>3. 16 * hi + lo \in 0..255
      BY <3>2
    <3>4. 16 * hex_val(s[i + 1]) + hex_val(s[i + 2]) \in 0..255
      BY <3>3 DEF hi, lo
    <3>5. EscapePiece(s)[i] = <<16 * hex_val(s[i + 1]) + hex_val(s[i + 2])>>
      BY <2>2 DEF EscapePiece
    <3> QED BY <3>4, <3>5
  <2>3. CASE ~ EscapeAt(s, i)
    <3>1. (IF s[i] = Plus THEN Space ELSE s[i]) \in 0..255
      BY <1>1, <2>1 DEF Plus, Space
    <3>2. EscapePiece(s)[i] = <<IF s[i] = Plus THEN Space ELSE s[i]>>
      BY <2>3 DEF EscapePiece
    <3> QED BY <3>1, <3>2
  <2> QED BY <2>2, <2>3
<1> QED BY <1>2, <1>3

LEMMA UnescapedWalks ==
    ASSUME NEW s \in Text
    PROVE  \E f : /\ Walked(f, 1, Len(s) + 1, EscapePiece(s), EscapeNext(s))
                  /\ Unescaped(s) = f[1]
<1>1. Len(s) \in Nat
  BY DEF Text
<1> DEFINE Reads(f) ==
        f = [i \in 1..Len(s) + 1 |->
                IF i > Len(s) THEN <<>>
                ELSE IF EscapeAt(s, i)
                THEN <<16 * hex_val(s[i + 1]) + hex_val(s[i + 2])>> \o f[i + 3]
                ELSE <<IF s[i] = Plus THEN Space ELSE s[i]>> \o f[i + 1]]
           from == CHOOSE f : Reads(f)
<1>2. ASSUME NEW f
      PROVE  Reads(f) <=> Walked(f, 1, Len(s) + 1, EscapePiece(s), EscapeNext(s))
  <2> DEFINE p == EscapePiece(s)
             q == EscapeNext(s)
  <2>1. ASSUME NEW i \in 1..Len(s) + 1
        PROVE  (IF i > Len(s) THEN <<>>
                ELSE IF EscapeAt(s, i)
                THEN <<16 * hex_val(s[i + 1]) + hex_val(s[i + 2])>> \o f[i + 3]
                ELSE <<IF s[i] = Plus THEN Space ELSE s[i]>> \o f[i + 1])
               = IF q[i] = 0 THEN <<>> ELSE p[i] \o f[q[i]]
    <3>1. CASE i > Len(s)
      BY <3>1 DEF EscapeNext
    <3>2. CASE ~ (i > Len(s)) /\ EscapeAt(s, i)
      <4>1. q[i] = i + 3 /\ i + 3 # 0
            /\ p[i] = <<16 * hex_val(s[i + 1]) + hex_val(s[i + 2])>>
        BY <3>2 DEF EscapeNext, EscapePiece
      <4> HIDE DEF p, q
      <4> QED BY <3>2, <4>1
    <3>3. CASE ~ (i > Len(s)) /\ ~ EscapeAt(s, i)
      <4>1. q[i] = i + 1 /\ i + 1 # 0
            /\ p[i] = <<IF s[i] = Plus THEN Space ELSE s[i]>>
        BY <3>3 DEF EscapeNext, EscapePiece
      <4> HIDE DEF p, q
      <4> QED BY <3>3, <4>1
    <3> QED BY <3>1, <3>2, <3>3
  <2> HIDE DEF p, q
  <2>2. Reads(f) <=> Walked(f, 1, Len(s) + 1, p, q)
    BY <2>1 DEF Walked
  <2> QED BY <2>2 DEF p, q
<1>3. Unescaped(s) = from[1]
  BY DEF Unescaped
<1> HIDE DEF Reads
<1>4. PICK f : Walked(f, 1, Len(s) + 1, EscapePiece(s), EscapeNext(s))
  <2>1. Len(s) + 1 \in Nat \ {0}
    BY <1>1
  <2> QED BY <2>1, EscapesOnward, WalkExists
<1>5. Reads(from)
  BY <1>2, <1>4
<1> HIDE DEF from
<1> QED BY <1>2, <1>3, <1>5

LEMMA UnescapedText ==
    ASSUME NEW s \in Text
    PROVE  Unescaped(s) \in Text
<1> DEFINE n == Len(s) + 1
           p == EscapePiece(s)
           q == EscapeNext(s)
<1>1. n \in Nat \ {0} /\ 1 \in 1..n
  BY DEF Text
<1>2. PICK f : Walked(f, 1, n, p, q) /\ Unescaped(s) = f[1]
  BY UnescapedWalks
<1>3. Onward(n, q) /\ \A i \in 1..n : q[i] # 0 => p[i] \in Seq(0..255)
  BY EscapesOnward
<1> HIDE DEF n, p, q
<1>4. \A i \in 1..n : f[i] \in Seq(0..255)
  BY <1>1, <1>2, <1>3, WalkGives
<1> QED BY <1>1, <1>2, <1>4 DEF Text

(* The decoded text is a text again, and its control bytes are counted. *)
LEMMA DecodedIs ==
    ASSUME NEW s \in Text
    PROVE  Decoded(s).text \in Text /\ Decoded(s).suspicious \in Nat
<1> DEFINE bytes == Unescaped(s)
<1>1. bytes \in Seq(0..255)
  BY UnescapedText DEF Text
<1>2. /\ Decoded(s).text = [i \in DOMAIN bytes |->
            IF bytes[i] \in Dangerous \cup Benign THEN Space ELSE bytes[i]]
      /\ Decoded(s).suspicious = Cardinality({i \in DOMAIN bytes : bytes[i] \in Dangerous})
  BY DEF Decoded
<1> HIDE DEF bytes
<1>3. DOMAIN bytes = 1..Len(bytes) /\ Len(bytes) \in Nat
      /\ \A i \in 1..Len(bytes) : bytes[i] \in 0..255
  BY <1>1, ElementOfSeq
<1>4. Decoded(s).text \in [1..Len(bytes) -> 0..255]
  <2>1. \A i \in 1..Len(bytes) :
            (IF bytes[i] \in Dangerous \cup Benign THEN Space ELSE bytes[i]) \in 0..255
    BY <1>3 DEF Space
  <2> QED BY <1>2, <1>3, <2>1
<1>5. {i \in DOMAIN bytes : bytes[i] \in Dangerous} \in SUBSET (1..Len(bytes))
  BY <1>3
<1>6. Decoded(s).suspicious \in Nat
  <2>1. IsFiniteSet(1..Len(bytes))
    BY <1>3, FS_Interval
  <2> QED BY <1>2, <1>5, <2>1, FS_Subset, FS_CardinalityType
<1> QED BY <1>3, <1>4, <1>6, Listed DEF Text
-----------------------------------------------------------------------------
LEMMA LeastIs ==
    ASSUME NEW T, T \subseteq Nat, T # {}
    PROVE  Min(T) \in T /\ \A y \in T : Min(T) <= y
<1>1. \E x \in T : \A y \in T : x <= y
  BY First
<1> QED BY <1>1 DEF Min

LEMMA PatternIs ==
    ASSUME NEW rules \in Seq(Rules), NEW r \in Literals(rules)
    PROVE  /\ r \in DOMAIN rules /\ r \in Nat /\ rules[r] \in Rules /\ ~rules[r].regex
           /\ rules[r].pattern \in Text /\ Len(rules[r].pattern) \in Nat \ {0}
<1>1. r \in DOMAIN rules /\ ~rules[r].regex /\ rules[r].pattern # <<>>
  BY DEF Literals
<1>2. r \in Nat /\ rules[r] \in Rules
  BY <1>1, ElementOfSeq
<1>3. rules[r].pattern \in Text
  BY <1>2 DEF Rules
<1> QED BY <1>1, <1>2, <1>3, EmptySeq DEF Text

(* The longest of some literals that fit before a place, of equal ones the *)
(* first, is one of them.                                                  *)
LEMMA ReportedIs ==
    ASSUME NEW rules \in Seq(Rules), NEW found \in SUBSET Literals(rules), found # {},
           NEW end \in Nat, \A r \in found : Len(rules[r].pattern) <= end
    PROVE  Reported(rules, found) \in found
<1> DEFINE long(r) == Len(rules[r].pattern)
<1>1. \A r \in found : r \in Nat /\ long(r) \in Nat /\ long(r) <= end
  BY PatternIs
<1> HIDE DEF long
<1> DEFINE gaps == {end - long(r) : r \in found}
<1>2. PICK g \in gaps : \A h \in gaps : g <= h
  <2>1. gaps \subseteq Nat /\ gaps # {}
    BY <1>1
  <2> HIDE DEF gaps
  <2> QED BY <2>1, First
<1>3. PICK top \in found : g = end - long(top)
  BY <1>2
<1>4. ASSUME NEW r \in found PROVE long(r) <= long(top)
  <2>1. end - long(r) \in gaps
    OBVIOUS
  <2> HIDE DEF gaps
  <2>2. end - long(top) <= end - long(r)
    BY <1>2, <1>3, <2>1
  <2> QED BY <1>1, <2>2
<1> DEFINE longest == {r \in found : long(r) = long(top)}
<1>5. PICK r \in longest : \A q \in longest : r <= q
  <2>1. longest \subseteq Nat /\ longest # {}
    BY <1>1
  <2> HIDE DEF longest
  <2> QED BY <2>1, First
<1>6. \A q \in found : long(r) > long(q) \/ (long(r) = long(q) /\ r <= q)
  BY <1>1, <1>4, <1>5
<1>7. \E x \in found : \A q \in found :
        \/ Len(rules[x].pattern) > Len(rules[q].pattern)
        \/ Len(rules[x].pattern) = Len(rules[q].pattern) /\ x <= q
  BY <1>5, <1>6 DEF long
<1> QED BY <1>7 DEF Reported

(* The group's literals that are somewhere in the text, as Matching has it.*)
Occurring(rules, group, hay) ==
    {r \in group : Lower(rules[r].pattern) \in SubSeqs(Lower(hay))}

LEMMA LowerPart ==
    ASSUME NEW s \in Text, NEW i \in 1..Len(s), NEW j \in i..Len(s)
    PROVE  /\ SubSeq(Lower(s), i, j) = Lower(SubSeq(s, i, j))
           /\ Len(SubSeq(s, i, j)) = j - i + 1 /\ SubSeq(s, i, j) \in Text
<1> DEFINE t == Lower(s)
           u == SubSeq(s, i, j)
           v == SubSeq(t, i, j)
           n == j - i + 1
<1>1. Len(s) \in Nat /\ i \in Nat /\ j \in Nat /\ n \in Nat
      /\ \A k \in i..j : k \in 1..Len(s)
  BY DEF Text
<1>2. /\ t \in Text /\ Len(t) = Len(s)
      /\ \A k \in 1..Len(s) : t[k] = IF s[k] \in 65..90 THEN s[k] + 32 ELSE s[k]
  BY LowerIs
<1>3. \A k \in i..j : s[k] \in 0..255
  BY <1>1, ElementOfSeq DEF Text
<1> HIDE DEF t
<1>4. \A k \in i..j : t[k] \in 0..255
  <2>1. \A k \in 1..Len(t) : t[k] \in 0..255
    BY <1>2, TextIs
  <2> QED BY <1>1, <1>2, <2>1
<1>5. u \in Text /\ Len(u) = n /\ \A k \in 1..n : u[k] = s[i + k - 1]
  BY <1>1, <1>3, SubSeqProperties DEF Text
<1>6. v \in Seq(0..255) /\ Len(v) = n /\ \A k \in 1..n : v[k] = t[i + k - 1]
  BY <1>1, <1>4, SubSeqProperties
<1> HIDE DEF u, v, n
<1>7. /\ Lower(u) \in Text /\ Len(Lower(u)) = n
      /\ \A k \in 1..n : Lower(u)[k] = IF u[k] \in 65..90 THEN u[k] + 32 ELSE u[k]
  BY <1>5, LowerIs
<1>8. ASSUME NEW k \in 1..n PROVE v[k] = Lower(u)[k]
  <2>1. i + k - 1 \in 1..Len(s)
    BY <1>1 DEF n
  <2>2. t[i + k - 1] = IF s[i + k - 1] \in 65..90 THEN s[i + k - 1] + 32 ELSE s[i + k - 1]
    BY <1>2, <2>1
  <2>3. v[k] = t[i + k - 1] /\ u[k] = s[i + k - 1]
    BY <1>5, <1>6
  <2> QED BY <1>7, <2>2, <2>3
<1>9. v = Lower(u)
  BY <1>6, <1>7, <1>8, SeqEqual DEF Text
<1> QED BY <1>5, <1>9 DEF t, u, v, n

LEMMA PartIs ==
    ASSUME NEW t, NEW i \in 0..Len(t), NEW j \in 0..Len(t)
    PROVE  SubSeq(t, i + 1, j) \in SubSeqs(t)
BY DEF SubSeqs

(* A literal that ends at a place occurs; one that occurs ends somewhere. *)
LEMMA EndingOccurs ==
    ASSUME NEW rules \in Seq(Rules), NEW group \in SUBSET Literals(rules), NEW hay \in Text,
           NEW at \in 1..Len(hay) + 1, NEW end \in at..Len(hay),
           NEW r \in EndingAt(rules, group, hay, at, end)
    PROVE  r \in Occurring(rules, group, hay) /\ Len(rules[r].pattern) <= end
<1> DEFINE long == Len(rules[r].pattern)
           first == end - long + 1
<1>1. r \in group /\ first >= at
      /\ Lower(SubSeq(hay, first, end)) = Lower(rules[r].pattern)
  BY DEF EndingAt
<1>2. long \in Nat \ {0} /\ Len(hay) \in Nat
  BY <1>1, PatternIs DEF Text
<1> HIDE DEF long
<1>3. first \in 1..Len(hay) /\ end \in first..Len(hay) /\ long <= end
  BY <1>1, <1>2
<1> HIDE DEF first
<1>4. Lower(rules[r].pattern) = SubSeq(Lower(hay), first, end)
  BY <1>1, <1>3, LowerPart
<1>5. Len(Lower(hay)) = Len(hay)
  BY LowerIs
<1>6. first - 1 \in 0..Len(hay) /\ end \in 0..Len(hay) /\ (first - 1) + 1 = first
  BY <1>2, <1>3
<1>7. SubSeq(Lower(hay), first, end) \in SubSeqs(Lower(hay))
  <2> DEFINE t == Lower(hay)
  <2>1. first - 1 \in 0..Len(t) /\ end \in 0..Len(t)
    BY <1>5, <1>6
  <2> HIDE DEF t
  <2>2. SubSeq(t, (first - 1) + 1, end) \in SubSeqs(t)
    BY <2>1, PartIs
  <2> QED BY <1>6, <2>2 DEF t
<1> QED BY <1>1, <1>3, <1>4, <1>7 DEF Occurring, long

LEMMA OccurringEnds ==
    ASSUME NEW rules \in Seq(Rules), NEW group \in SUBSET Literals(rules), NEW hay \in Text,
           NEW r \in Occurring(rules, group, hay)
    PROVE  \E end \in 1..Len(hay) : EndingAt(rules, group, hay, 1, end) # {}
<1> DEFINE p == rules[r].pattern
<1>1. r \in group /\ Lower(p) \in SubSeqs(Lower(hay))
  BY DEF Occurring
<1>2. p \in Text /\ Len(p) \in Nat \ {0} /\ Len(hay) \in Nat
  BY <1>1, PatternIs DEF Text
<1> HIDE DEF p
<1>3. Len(Lower(hay)) = Len(hay) /\ Len(Lower(p)) = Len(p)
  BY <1>2, LowerIs
<1>4. PICK i \in 0..Len(hay), j \in 0..Len(hay) : Lower(p) = SubSeq(Lower(hay), i + 1, j)
  BY <1>1, <1>3 DEF SubSeqs
<1>5. i < j
  <2>1. SUFFICES ASSUME j < i + 1 PROVE FALSE
    BY <1>2
  <2>2. SubSeq(Lower(hay), i + 1, j) = <<>>
    BY <2>1, <1>2, SubSeqEmpty
  <2> QED BY <1>2, <1>3, <1>4, <2>2, EmptySeq
<1>6. i + 1 \in 1..Len(hay) /\ j \in i + 1..Len(hay)
  BY <1>2, <1>5
<1>7. /\ Lower(p) = Lower(SubSeq(hay, i + 1, j))
      /\ Len(SubSeq(hay, i + 1, j)) = j - (i + 1) + 1 /\ SubSeq(hay, i + 1, j) \in Text
  BY <1>4, <1>6, LowerPart
<1>8. Len(p) = j - i
  <2>1. Len(Lower(SubSeq(hay, i + 1, j))) = Len(SubSeq(hay, i + 1, j))
    BY <1>7, LowerIs
  <2>2. j - (i + 1) + 1 = j - i
    BY <1>2
  <2> QED BY <1>3, <1>7, <2>1, <2>2
<1>9. j - Len(p) + 1 = i + 1 /\ i + 1 >= 1 /\ j \in 1..Len(hay)
  BY <1>2, <1>6, <1>8
<1>10. r \in EndingAt(rules, group, hay, 1, j)
  BY <1>1, <1>7, <1>9 DEF EndingAt, p
<1> QED BY <1>9, <1>10

Ends(rules, group, hay, at) ==
    {e \in at..Len(hay) : EndingAt(rules, group, hay, at, e) # {}}

FindPiece(rules, group, hay) ==
    [at \in 1..Len(hay) + 1 |->
        <<Reported(rules, EndingAt(rules, group, hay, at, Min(Ends(rules, group, hay, at))))>>]

FindNext(rules, group, hay) ==
    [at \in 1..Len(hay) + 1 |-> IF Ends(rules, group, hay, at) = {} THEN 0
                                ELSE Min(Ends(rules, group, hay, at)) + 1]

LEMMA FindOnward ==
    ASSUME NEW rules \in Seq(Rules), NEW group \in SUBSET Literals(rules), NEW hay \in Text
    PROVE  /\ Onward(Len(hay) + 1, FindNext(rules, group, hay))
           /\ \A at \in 1..Len(hay) + 1 :
                  FindNext(rules, group, hay)[at] # 0 =>
                      FindPiece(rules, group, hay)[at] \in Seq(Occurring(rules, group, hay))
<1>1. Len(hay) \in Nat
  BY DEF Text
<1>2. ASSUME NEW at \in 1..Len(hay) + 1, Ends(rules, group, hay, at) # {}
      PROVE  /\ Min(Ends(rules, group, hay, at)) + 1 \in at + 1..Len(hay) + 1
             /\ FindPiece(rules, group, hay)[at] \in Seq(Occurring(rules, group, hay))
  <2> DEFINE end == Min(Ends(rules, group, hay, at))
             found == EndingAt(rules, group, hay, at, end)
  <2>1. end \in Ends(rules, group, hay, at)
    <3>1. Ends(rules, group, hay, at) \subseteq Nat
      BY <1>1 DEF Ends
    <3> QED BY <1>2, <3>1, LeastIs
  <2> HIDE DEF end
  <2>2. end \in at..Len(hay) /\ found # {} /\ end \in Nat
    BY <1>1, <2>1 DEF Ends
  <2>3. found \subseteq group
    BY DEF EndingAt
  <2>4. \A r \in found : r \in Occurring(rules, group, hay) /\ Len(rules[r].pattern) <= end
    BY <2>2, EndingOccurs
  <2> HIDE DEF found
  <2>5. Reported(rules, found) \in found
    BY <2>2, <2>3, <2>4, ReportedIs
  <2>6. FindPiece(rules, group, hay)[at] = <<Reported(rules, found)>>
    BY DEF FindPiece, end, found
  <2>7. end + 1 \in at + 1..Len(hay) + 1
    BY <1>1, <2>2
  <2> QED BY <2>4, <2>5, <2>6, <2>7 DEF end
<1>3. ASSUME NEW at \in 1..Len(hay) + 1
      PROVE  FindNext(rules, group, hay)[at] = IF Ends(rules, group, hay, at) = {} THEN 0
                                               ELSE Min(Ends(rules, group, hay, at)) + 1
  BY DEF FindNext
<1> QED BY <1>2, <1>3 DEF Onward

LEMMA FindWalks ==
    ASSUME NEW rules \in Seq(Rules), NEW group \in SUBSET Literals(rules), NEW hay \in Text
    PROVE  \E f : /\ Walked(f, 1, Len(hay) + 1, FindPiece(rules, group, hay),
                            FindNext(rules, group, hay))
                  /\ FindIter(rules, group, hay) = f[1]
<1> DEFINE n == Len(hay) + 1
           p == FindPiece(rules, group, hay)
           q == FindNext(rules, group, hay)
           ends(at) == Ends(rules, group, hay, at)
           Reads(f) ==
        f = [at \in 1..n |->
                IF ends(at) = {} THEN <<>>
                ELSE <<Reported(rules, EndingAt(rules, group, hay, at, Min(ends(at))))>>
                     \o f[Min(ends(at)) + 1]]
           matches == CHOOSE f : Reads(f)
<1>1. FindIter(rules, group, hay) = matches[1]
  BY DEF FindIter, Ends
<1>2. \A at \in 1..n : ends(at) # {} => Min(ends(at)) + 1 # 0
  <2> SUFFICES ASSUME NEW at \in 1..n, ends(at) # {} PROVE Min(ends(at)) + 1 # 0
    OBVIOUS
  <2>1. ends(at) \subseteq Nat
    BY DEF Text, Ends
  <2> HIDE DEF ends
  <2>2. Min(ends(at)) \in Nat
    BY <2>1, LeastIs
  <2> QED BY <2>2
<1>3. \A at \in 1..n :
        /\ q[at] = IF ends(at) = {} THEN 0 ELSE Min(ends(at)) + 1
        /\ p[at] = <<Reported(rules, EndingAt(rules, group, hay, at, Min(ends(at))))>>
  BY DEF FindNext, FindPiece
<1>4. PICK f : Walked(f, 1, n, p, q)
  <2>1. n \in Nat \ {0}
    BY DEF Text
  <2>2. Onward(n, q)
    BY FindOnward
  <2> HIDE DEF n, p, q
  <2> QED BY <2>1, <2>2, WalkExists
<1> HIDE DEF n, p, q, ends
<1>5. ASSUME NEW g PROVE Reads(g) <=> Walked(g, 1, n, p, q)
  <2>1. ASSUME NEW at \in 1..n
        PROVE  (IF ends(at) = {} THEN <<>>
                ELSE <<Reported(rules, EndingAt(rules, group, hay, at, Min(ends(at))))>>
                     \o g[Min(ends(at)) + 1])
               = IF q[at] = 0 THEN <<>> ELSE p[at] \o g[q[at]]
    BY <1>2, <1>3
  <2> QED BY <2>1 DEF Walked
<1> HIDE DEF Reads
<1>6. Reads(matches)
  BY <1>4, <1>5
<1> HIDE DEF matches
<1> QED BY <1>1, <1>5, <1>6 DEF n, p, q

(* What the automaton reports occurs, and when something occurs it reports *)
(* something.                                                              *)
LEMMA FindIterIs ==
    ASSUME NEW rules \in Seq(Rules), NEW group \in SUBSET Literals(rules), NEW hay \in Text
    PROVE  /\ FindIter(rules, group, hay) \in Seq(Occurring(rules, group, hay))
           /\ Occurring(rules, group, hay) # {} => FindIter(rules, group, hay) # <<>>
<1> DEFINE n == Len(hay) + 1
           p == FindPiece(rules, group, hay)
           q == FindNext(rules, group, hay)
           S == Occurring(rules, group, hay)
<1>1. PICK f : Walked(f, 1, n, p, q) /\ FindIter(rules, group, hay) = f[1]
  BY FindWalks
<1>2. n \in Nat \ {0} /\ 1 \in 1..n
  BY DEF Text
<1>3. Onward(n, q) /\ \A i \in 1..n : q[i] # 0 => p[i] \in Seq(S)
  BY FindOnward
<1>4. S # {} => q[1] # 0
  <2> SUFFICES ASSUME S # {} PROVE q[1] # 0
    OBVIOUS
  <2>1. Ends(rules, group, hay, 1) # {} /\ Ends(rules, group, hay, 1) \subseteq Nat
    BY OccurringEnds DEF Ends
  <2>2. Min(Ends(rules, group, hay, 1)) \in Nat
    BY <2>1, LeastIs
  <2>3. q[1] = Min(Ends(rules, group, hay, 1)) + 1
    BY <1>2, <2>1 DEF FindNext
  <2> QED BY <2>2, <2>3
<1>5. p[1] # <<>>
  BY <1>2 DEF FindPiece
<1> HIDE DEF n, p, q, S
<1>6. \A i \in 1..n : f[i] \in Seq(S)
  BY <1>1, <1>2, <1>3, WalkGives
<1>7. ASSUME q[1] # 0 PROVE f[1] # <<>>
  <2>1. f[1] = p[1] \o f[q[1]]
    BY <1>1, <1>2, <1>7 DEF Walked
  <2>2. q[1] \in 1..n
    BY <1>2, <1>3, <1>7 DEF Onward
  <2>3. p[1] \in Seq(S) /\ f[q[1]] \in Seq(S)
    BY <1>2, <1>3, <1>6, <1>7, <2>2
  <2> QED BY <1>5, <2>1, <2>3, ConcatEqualIffEmpty
<1> QED BY <1>1, <1>2, <1>4, <1>6, <1>7 DEF S
-----------------------------------------------------------------------------
(* Each rule that is found counts once. *)
LEMMA GroupHitsAre ==
    ASSUME NEW rules \in Seq(Rules), NEW group \in SUBSET Literals(rules), NEW hay \in Text
    PROVE  /\ GroupHits(rules, group, hay) \in Seq(Occurring(rules, group, hay))
           /\ IsInjective(GroupHits(rules, group, hay))
           /\ Occurring(rules, group, hay) # {} => ToSet(GroupHits(rules, group, hay)) # {}
<1> DEFINE S == Occurring(rules, group, hay)
           found == FindIter(rules, group, hay)
           parts == [k \in DOMAIN found |->
                        IF \E j \in 1..k - 1 : found[j] = found[k] THEN <<>> ELSE <<found[k]>>]
           n == Len(found)
<1>1. found \in Seq(S) /\ (S # {} => found # <<>>)
  BY FindIterIs
<1>2. GroupHits(rules, group, hay) = FlattenSeq(parts)
  BY DEF GroupHits
<1> HIDE DEF S, found
<1>3. n \in Nat /\ DOMAIN found = 1..n /\ (\A k \in 1..n : found[k] \in S)
      /\ (S # {} => 1 \in 1..n)
  BY <1>1, ElementOfSeq, EmptySeq
<1>4. ASSUME NEW k \in 1..n
      PROVE  parts[k] = IF \E j \in 1..k - 1 : found[j] = found[k] THEN <<>> ELSE <<found[k]>>
  BY <1>3
<1>5. ASSUME NEW x
      PROVE  ToSet(<<x>>) = {x} /\ IsInjective(<<x>>) /\ ToSet(<<>>) = {} /\ IsInjective(<<>>)
  BY DEF ToSet, IsInjective
<1>6. ASSUME NEW k \in 1..n
      PROVE  /\ parts[k] \in Seq(S) /\ IsInjective(parts[k])
             /\ \A x \in ToSet(parts[k]) :
                    x = found[k] /\ ~ \E j \in 1..k - 1 : found[j] = found[k]
  <2>1. CASE \E j \in 1..k - 1 : found[j] = found[k]
    <3>1. parts[k] = <<>>
      BY <1>4, <2>1
    <3> HIDE DEF parts
    <3> QED BY <1>5, <3>1, EmptySeq
  <2>2. CASE ~ \E j \in 1..k - 1 : found[j] = found[k]
    <3>1. parts[k] = <<found[k]>>
      BY <1>4, <2>2
    <3>2. found[k] \in S
      BY <1>3
    <3> HIDE DEF parts
    <3>3. parts[k] \in Seq(S)
      BY <3>1, <3>2
    <3> QED BY <1>5, <2>2, <3>1, <3>3
  <2> QED BY <2>1, <2>2
<1>7. parts \in Seq(Seq(S)) /\ Len(parts) = n /\ DOMAIN parts = 1..n
  <2>1. parts \in [1..n -> Seq(S)]
    <3>1. parts = [k \in 1..n |-> parts[k]]
      BY <1>3
    <3> HIDE DEF parts
    <3> QED BY <1>6, <3>1
  <2> HIDE DEF parts
  <2> QED BY <1>3, <2>1, Listed
<1>8. S # {} => ToSet(parts[1]) # {}
  <2> SUFFICES ASSUME S # {} PROVE ToSet(parts[1]) # {}
    OBVIOUS
  <2>1. 1 \in 1..n /\ ~ \E j \in 1..1 - 1 : found[j] = found[1]
    BY <1>3
  <2>2. parts[1] = <<found[1]>>
    BY <1>4, <2>1
  <2> HIDE DEF parts
  <2> QED BY <1>5, <2>2
<1> HIDE DEF parts
<1>9. Apart(parts)
  <2>1. ASSUME NEW i \in 1..n, NEW j \in 1..n, i < j
        PROVE  ToSet(parts[i]) \cap ToSet(parts[j]) = {}
    <3> SUFFICES ASSUME NEW x \in ToSet(parts[i]), x \in ToSet(parts[j]) PROVE FALSE
      OBVIOUS
    <3>1. found[i] = found[j] /\ ~ \E k \in 1..j - 1 : found[k] = found[j]
      BY <1>6
    <3>2. i \in 1..j - 1
      BY <1>3, <2>1
    <3> QED BY <3>1, <3>2
  <2>2. ASSUME NEW i \in 1..n, NEW j \in 1..n, i # j
        PROVE  ToSet(parts[i]) \cap ToSet(parts[j]) = {}
    <3>1. i < j \/ j < i
      BY <1>3, <2>2
    <3> QED BY <2>1, <3>1
  <2> QED BY <1>6, <1>7, <2>2 DEF Apart
<1>10. /\ FlattenSeq(parts) \in Seq(S) /\ IsInjective(FlattenSeq(parts))
       /\ ToSet(FlattenSeq(parts)) = Held(parts, n)
  BY <1>7, <1>9, Flattened
<1>11. S # {} => Held(parts, n) # {}
  <2>1. S # {} => 1 \in 1..n
    BY <1>3
  <2> QED BY <1>8, <2>1 DEF Held
<1> QED BY <1>2, <1>10, <1>11 DEF S

-----------------------------------------------------------------------------
(* The texts that the rules are held against. *)
HeaderLines == [name : Text, value : Text]

LEMMA Joined ==
    ASSUME NEW s \in Text, NEW t \in Text
    PROVE  s \o t \in Text
BY ConcatProperties DEF Text

LEMMA Bits ==
    /\ <<>> \in Text /\ <<Comma, Space>> \in Text /\ <<Equals>> \in Text /\ <<Space>> \in Text
BY DEF Text, Comma, Space, Equals

LEMMA FlatHeadersText ==
    ASSUME NEW headers \in Seq(HeaderLines)
    PROVE  FlatHeaders(headers) \in Text
<1> DEFINE n == Len(headers)
           part(h) == h.name \o <<Equals>> \o h.value \o <<Space>>
           parts == [i \in DOMAIN headers |-> part(headers[i])]
<1>1. n \in Nat /\ DOMAIN headers = 1..n /\ \A i \in 1..n : headers[i] \in HeaderLines
  BY ElementOfSeq
<1>2. ASSUME NEW h \in HeaderLines PROVE part(h) \in Text
  <2>1. h.name \in Text /\ h.value \in Text
    BY DEF HeaderLines
  <2>2. h.name \o <<Equals>> \in Text
    BY <2>1, Bits, Joined
  <2>3. (h.name \o <<Equals>>) \o h.value \in Text
    BY <2>1, <2>2, Joined
  <2> QED BY <2>3, Bits, Joined
<1>3. FlatHeaders(headers) = FlattenSeq(parts)
  BY DEF FlatHeaders
<1> HIDE DEF n, part
<1>4. parts \in [1..n -> Text]
  BY <1>1, <1>2
<1> HIDE DEF parts
<1>5. parts \in Seq(Text)
  BY <1>1, <1>4, Listed
<1>6. FlattenSeq(parts) \in Text
  BY <1>5, Flattened DEF Text
<1> QED BY <1>3, <1>6

LEMMA HeaderValueText ==
    ASSUME NEW headers \in Seq(HeaderLines), NEW name
    PROVE  HeaderValue(headers, name) \in Text
<1> DEFINE n == Len(headers)
           named == {i \in DOMAIN headers : headers[i].name = name}
           comma(i) == IF i = Min(named) THEN <<>> ELSE <<Comma, Space>>
           part(i) == IF i \notin named THEN <<>> ELSE comma(i) \o headers[i].value
           parts == [i \in DOMAIN headers |-> part(i)]
<1>1. n \in Nat /\ DOMAIN headers = 1..n /\ \A i \in 1..n : headers[i].value \in Text
  <2>1. n \in Nat /\ DOMAIN headers = 1..n /\ \A i \in 1..n : headers[i] \in HeaderLines
    BY ElementOfSeq
  <2>2. \A h \in HeaderLines : h.value \in Text
    BY DEF HeaderLines
  <2> HIDE DEF n
  <2> QED BY <2>1, <2>2
<1>2. HeaderValue(headers, name) = FlattenSeq(parts)
  BY DEF HeaderValue
<1> HIDE DEF n, named
<1>3. \A i : comma(i) \in Text
  BY Bits
<1> HIDE DEF comma
<1>4. \A i \in 1..n : part(i) \in Text
  BY <1>1, <1>3, Bits, Joined
<1> HIDE DEF part
<1>5. parts \in [1..n -> Text]
  BY <1>1, <1>4
<1> HIDE DEF parts
<1>6. parts \in Seq(Text)
  BY <1>1, <1>5, Listed
<1>7. FlattenSeq(parts) \in Text
  BY <1>6, Flattened DEF Text
<1> QED BY <1>2, <1>7

LEMMA QueryText ==
    ASSUME NEW s \in Text
    PROVE  Query(s) \in Text
<1> DEFINE marks == {i \in DOMAIN s : s[i] = Question}
<1>1. DOMAIN s = 1..Len(s) /\ Len(s) \in Nat /\ \A i \in 1..Len(s) : s[i] \in 0..255
  BY TextIs
<1>2. marks \subseteq 1..Len(s)
  BY <1>1
<1>3. Query(s) = IF marks = {} THEN <<>> ELSE SubSeq(s, Min(marks) + 1, Len(s))
  BY DEF Query
<1> HIDE DEF marks
<1>4. CASE marks = {}
  BY <1>3, <1>4, Bits
<1>5. CASE marks # {}
  <2>1. Min(marks) \in 1..Len(s)
    <3>1. marks \subseteq Nat
      BY <1>1, <1>2
    <3> QED BY <1>2, <1>5, <3>1, LeastIs
  <2> DEFINE m == Min(marks) + 1
  <2>2. m \in Int /\ Len(s) \in Int /\ \A i \in m..Len(s) : s[i] \in 0..255
    BY <1>1, <2>1
  <2> HIDE DEF m
  <2>3. SubSeq(s, m, Len(s)) \in Seq(0..255)
    BY <2>2, SubSeqProperties
  <2> QED BY <1>3, <1>5, <2>3 DEF Text, m
<1> QED BY <1>4, <1>5

LEMMA NormalizedTexts ==
    ASSUME NEW rules, NEW asked, asked.method \in Text, asked.target \in Text,
           asked.headers \in Seq(HeaderLines), NEW part \in Text
    PROVE  /\ Normalized(rules, asked, part).suspicious \in Nat
           /\ \A rule \in Rules : field_value(Normalized(rules, asked, part), rule) \in Text
<1> DEFINE req == Normalized(rules, asked, part)
           headers == IF needs_headers(rules) THEN asked.headers ELSE <<>>
           url == Decoded(asked.target)
           args == Decoded(Query(asked.target))
<1>1. /\ url.text \in Text /\ url.suspicious \in Nat
      /\ args.text \in Text /\ args.suspicious \in Nat
  BY DecodedIs, QueryText
<1>2. headers \in Seq(HeaderLines)
  BY EmptySeq
<1>3. req = [Method |-> asked.method, Url |-> url.text, Args |-> args.text,
             Header |-> FlatHeaders(headers), Body |-> part, headers |-> headers,
             suspicious |-> url.suspicious + args.suspicious]
  BY DEF Normalized
<1> HIDE DEF req, headers, url, args
<1>4. /\ req.Method \in Text /\ req.Url \in Text /\ req.Args \in Text /\ req.Body \in Text
      /\ req.Header \in Text /\ req.headers \in Seq(HeaderLines)
  BY <1>1, <1>2, <1>3, FlatHeadersText
<1>5. req.suspicious \in Nat
  <2>1. req.suspicious = url.suspicious + args.suspicious
    BY <1>3
  <2> QED BY <1>1, <2>1
<1>6. ASSUME NEW rule \in Rules PROVE field_value(req, rule) \in Text
  <2>1. rule.field \in {"Method", "Url", "Args", "Header", "Body"}
    BY DEF Rules
  <2>2. CASE rule.field = "Header" /\ rule.header # NoHeader
    BY <1>4, <2>2, HeaderValueText DEF field_value
  <2>3. CASE ~ (rule.field = "Header" /\ rule.header # NoHeader)
    <3>1. field_value(req, rule) = req[rule.field]
      BY <2>3 DEF field_value
    <3> QED BY <1>4, <2>1, <3>1
  <2> QED BY <2>2, <2>3
<1> QED BY <1>5, <1>6 DEF req

(* The rules of a group look at the same text. *)
LEMMA SameKey ==
    ASSUME NEW r \in Rules, NEW q \in Rules, Key(r) = Key(q), NEW req
    PROVE  field_value(req, r) = field_value(req, q)
<1>1. /\ r.header = NoHeader \/ r.header \in Text
      /\ q.header = NoHeader \/ q.header \in Text
  BY DEF Rules
<1>2. \A h \in Text : Lower(h) # NoHeader
  BY LowerIs, InspectionAssumption
<1>3. /\ r.field = q.field
      /\ (IF r.header = NoHeader THEN NoHeader ELSE Lower(r.header))
         = IF q.header = NoHeader THEN NoHeader ELSE Lower(q.header)
  BY DEF Key
<1>4. (r.header = NoHeader <=> q.header = NoHeader)
      /\ (r.header # NoHeader => Lower(r.header) = Lower(q.header))
  BY <1>1, <1>2, <1>3
<1> QED BY <1>3, <1>4 DEF field_value
-----------------------------------------------------------------------------
(* Rule i matches, as Matching has it. *)
Matches(rules, req, i) ==
    IF rules[i].regex THEN rules[i].pattern \in SubSeqs(field_value(req, rules[i]))
    ELSE /\ rules[i].pattern # <<>>
         /\ Lower(rules[i].pattern) \in SubSeqs(Lower(field_value(req, rules[i])))

Regexes(rules, req) == {i \in DOMAIN rules : rules[i].regex /\ Matches(rules, req, i)}
Spoken(rules, req) == {i \in Literals(rules) : Matches(rules, req, i)}

LEMMA OneHit ==
    ASSUME NEW x
    PROVE  ToSet(<<x>>) = {x} /\ IsInjective(<<x>>) /\ ToSet(<<>>) = {} /\ IsInjective(<<>>)
BY DEF ToSet, IsInjective

LEMMA RegexHitsAre ==
    ASSUME NEW rules \in Seq(Rules), NEW req
    PROVE  /\ RegexHits(rules, req) \in Seq(Regexes(rules, req))
           /\ IsInjective(RegexHits(rules, req))
           /\ ToSet(RegexHits(rules, req)) = Regexes(rules, req)
<1> DEFINE n == Len(rules)
           S == Regexes(rules, req)
           parts == [i \in DOMAIN rules |->
                        IF /\ rules[i].regex
                           /\ rules[i].pattern \in SubSeqs(field_value(req, rules[i]))
                        THEN <<i>> ELSE <<>>]
<1>1. n \in Nat /\ DOMAIN rules = 1..n
  OBVIOUS
<1>2. RegexHits(rules, req) = FlattenSeq(parts)
  BY DEF RegexHits
<1>3. S \subseteq 1..n /\ \A i \in 1..n : parts[i] = IF i \in S THEN <<i>> ELSE <<>>
  BY <1>1 DEF Regexes, Matches
<1>4. DOMAIN parts = 1..n /\ parts = [i \in 1..n |-> parts[i]]
  BY <1>1
<1> HIDE DEF parts, S, n
<1>5. ASSUME NEW i \in 1..n
      PROVE  /\ parts[i] \in Seq(S) /\ IsInjective(parts[i])
             /\ ToSet(parts[i]) = IF i \in S THEN {i} ELSE {}
  <2>1. CASE i \in S
    <3>1. parts[i] = <<i>>
      BY <1>3, <2>1
    <3>2. <<i>> \in Seq(S)
      BY <2>1
    <3> QED BY <2>1, <3>1, <3>2, OneHit
  <2>2. CASE i \notin S
    <3>1. parts[i] = <<>>
      BY <1>3, <2>2
    <3> QED BY <2>2, <3>1, OneHit, EmptySeq
  <2> QED BY <2>1, <2>2
<1>6. parts \in Seq(Seq(S)) /\ Len(parts) = n
  <2>1. parts \in [1..n -> Seq(S)]
    BY <1>4, <1>5
  <2> QED BY <1>1, <2>1, Listed
<1>7. Apart(parts)
  BY <1>4, <1>5 DEF Apart
<1>8. Held(parts, n) = S
  BY <1>3, <1>5 DEF Held
<1> QED BY <1>2, <1>6, <1>7, <1>8, Flattened DEF S

(* The literals: those of a group in the place of the one that leads it. *)
LEMMA GroupIs ==
    ASSUME NEW rules \in Seq(Rules), NEW req,
           \A rule \in Rules : field_value(req, rule) \in Text,
           NEW i \in DOMAIN rules
    PROVE  LET group == Group(rules, i)
               hay == field_value(req, rules[i])
           IN  /\ group \in SUBSET Literals(rules) /\ hay \in Text
               /\ Occurring(rules, group, hay) = group \cap Spoken(rules, req)
<1> DEFINE group == Group(rules, i)
           hay == field_value(req, rules[i])
<1>1. rules[i] \in Rules
  BY ElementOfSeq
<1>2. group \subseteq Literals(rules) /\ hay \in Text
  BY <1>1 DEF Group
<1>3. ASSUME NEW r \in group
      PROVE  Matches(rules, req, r) <=> Lower(rules[r].pattern) \in SubSeqs(Lower(hay))
  <2>1. rules[r] \in Rules /\ ~rules[r].regex /\ rules[r].pattern # <<>>
    BY <1>2, PatternIs DEF Literals
  <2>2. Key(rules[r]) = Key(rules[i])
    BY DEF Group
  <2>3. field_value(req, rules[r]) = hay
    BY <1>1, <2>1, <2>2, SameKey
  <2> QED BY <2>1, <2>3 DEF Matches
<1> HIDE DEF group, hay
<1>4. Occurring(rules, group, hay) = group \cap Spoken(rules, req)
  BY <1>2, <1>3 DEF Occurring, Spoken
<1> QED BY <1>2, <1>4 DEF group, hay

LEMMA LiteralHitsAre ==
    ASSUME NEW rules \in Seq(Rules), NEW req,
           \A rule \in Rules : field_value(req, rule) \in Text
    PROVE  /\ LiteralHits(rules, req) \in Seq(Spoken(rules, req))
           /\ IsInjective(LiteralHits(rules, req))
           /\ \A i \in Spoken(rules, req) : \E j \in ToSet(LiteralHits(rules, req)) :
                  Key(rules[j]) = Key(rules[i])
<1> DEFINE n == Len(rules)
           S == Spoken(rules, req)
           hits(i) == GroupHits(rules, Group(rules, i), field_value(req, rules[i]))
           parts == [i \in DOMAIN rules |-> IF Leads(rules, i) THEN hits(i) ELSE <<>>]
<1>1. n \in Nat /\ DOMAIN rules = 1..n
  OBVIOUS
<1>2. LiteralHits(rules, req) = FlattenSeq(parts)
  BY DEF LiteralHits
<1>3. DOMAIN parts = 1..n /\ parts = [i \in 1..n |-> parts[i]]
      /\ \A i \in 1..n : parts[i] = IF Leads(rules, i) THEN hits(i) ELSE <<>>
  BY <1>1
<1>4. ASSUME NEW i \in 1..n
      PROVE  /\ hits(i) \in Seq(Group(rules, i) \cap S) /\ IsInjective(hits(i))
             /\ Group(rules, i) \cap S # {} => ToSet(hits(i)) # {}
  <2> DEFINE group == Group(rules, i)
             hay == field_value(req, rules[i])
  <2>1. /\ group \in SUBSET Literals(rules) /\ hay \in Text
        /\ Occurring(rules, group, hay) = group \cap S
    BY <1>1, GroupIs
  <2> HIDE DEF group, hay, S
  <2>2. /\ GroupHits(rules, group, hay) \in Seq(Occurring(rules, group, hay))
        /\ IsInjective(GroupHits(rules, group, hay))
        /\ Occurring(rules, group, hay) # {} => ToSet(GroupHits(rules, group, hay)) # {}
    BY <2>1, GroupHitsAre
  <2>3. hits(i) = GroupHits(rules, group, hay)
    BY DEF group, hay
  <2> HIDE DEF hits
  <2>4. hits(i) \in Seq(group \cap S) /\ IsInjective(hits(i))
        /\ (group \cap S # {} => ToSet(hits(i)) # {})
    BY <2>1, <2>2, <2>3
  <2> QED BY <2>4 DEF group
<1> HIDE DEF parts, S, n, hits
<1>5. ASSUME NEW i \in 1..n
      PROVE  /\ parts[i] \in Seq(S) /\ IsInjective(parts[i])
             /\ \A x \in ToSet(parts[i]) : Leads(rules, i) /\ x \in Group(rules, i)
  <2>1. CASE Leads(rules, i)
    <3>1. parts[i] = hits(i)
      BY <1>3, <2>1
    <3>2. parts[i] \in Seq(S)
      <4>1. Group(rules, i) \cap S \subseteq S
        OBVIOUS
      <4> QED BY <1>4, <3>1, <4>1, SeqMonotonic
    <3>3. \A x \in ToSet(hits(i)) : x \in Group(rules, i)
      <4> DEFINE T == Group(rules, i) \cap S
                 h == hits(i)
      <4>1. h \in Seq(T)
        BY <1>4
      <4> HIDE DEF T, h
      <4>2. \A x \in ToSet(h) : x \in T
        BY <4>1, ElementOfSeq DEF ToSet
      <4> QED BY <4>2 DEF T, h
    <3> QED BY <1>4, <2>1, <3>1, <3>2, <3>3
  <2>2. CASE ~ Leads(rules, i)
    <3>1. parts[i] = <<>>
      BY <1>3, <2>2
    <3> QED BY <3>1, OneHit, EmptySeq
  <2> QED BY <2>1, <2>2
<1>6. parts \in Seq(Seq(S)) /\ Len(parts) = n
  <2>1. parts \in [1..n -> Seq(S)]
    BY <1>3, <1>5
  <2> QED BY <1>1, <2>1, Listed
<1>7. Apart(parts)
  <2>1. ASSUME NEW i \in 1..n, NEW j \in 1..n,
               NEW x \in ToSet(parts[i]), x \in ToSet(parts[j])
        PROVE  i = j
    <3>1. /\ Leads(rules, i) /\ x \in Group(rules, i)
          /\ Leads(rules, j) /\ x \in Group(rules, j)
      BY <1>5, <2>1
    <3>2. Key(rules[i]) = Key(rules[j])
      BY <3>1 DEF Group
    <3>3. Group(rules, i) = Group(rules, j)
      BY <3>2 DEF Group
    <3> QED BY <3>1, <3>3 DEF Leads
  <2> QED BY <1>3, <1>5, <2>1 DEF Apart
<1>8. ASSUME NEW i \in S
      PROVE  \E j \in Held(parts, n) : Key(rules[j]) = Key(rules[i])
  <2> DEFINE lead == Min(Group(rules, i))
  <2>1. i \in Literals(rules) /\ i \in Group(rules, i) /\ Group(rules, i) \subseteq Nat
        /\ Group(rules, i) \subseteq Literals(rules) /\ Literals(rules) \subseteq 1..n
    BY <1>1 DEF S, Spoken, Group, Literals
  <2>2. lead \in Group(rules, i)
    BY <2>1, LeastIs
  <2>3. Key(rules[lead]) = Key(rules[i])
    BY <2>2 DEF Group
  <2>4. Group(rules, lead) = Group(rules, i)
    BY <2>3 DEF Group
  <2>5. lead \in 1..n /\ Leads(rules, lead)
    BY <2>1, <2>2, <2>4 DEF Leads
  <2> HIDE DEF lead
  <2>6. i \in Group(rules, lead) \cap S
    BY <2>1, <2>4
  <2>7. PICK j : j \in ToSet(parts[lead])
    <3>1. parts[lead] = hits(lead) /\ ToSet(hits(lead)) # {}
      BY <1>3, <1>4, <2>5, <2>6
    <3> QED BY <3>1
  <2>8. Key(rules[j]) = Key(rules[i])
    <3>1. j \in Group(rules, lead)
      BY <1>5, <2>5, <2>7
    <3> QED BY <2>3, <3>1 DEF Group
  <2>9. j \in Held(parts, n)
    BY <2>5, <2>7 DEF Held
  <2> QED BY <2>8, <2>9
<1> QED BY <1>2, <1>6, <1>7, <1>8, Flattened DEF S

(* Every hit matches, none comes twice, no regular expression and no group *)
(* is missed.                                                              *)
LEMMA HitsAre ==
    ASSUME NEW rules \in Seq(Rules), NEW req,
           \A rule \in Rules : field_value(req, rule) \in Text
    PROVE  /\ Hits(rules, req) \in Seq(DOMAIN rules)
           /\ IsInjective(Hits(rules, req))
           /\ \A i \in ToSet(Hits(rules, req)) : i \in DOMAIN rules /\ Matches(rules, req, i)
           /\ \A i \in DOMAIN rules : Matches(rules, req, i) =>
                  \/ i \in ToSet(Hits(rules, req))
                  \/ /\ ~rules[i].regex
                     /\ \E j \in ToSet(Hits(rules, req)) : Key(rules[j]) = Key(rules[i])
<1> DEFINE s == LiteralHits(rules, req)
           t == RegexHits(rules, req)
           A == Spoken(rules, req)
           B == Regexes(rules, req)
           D == DOMAIN rules
<1>1. /\ s \in Seq(A) /\ IsInjective(s)
      /\ \A i \in A : \E j \in ToSet(s) : Key(rules[j]) = Key(rules[i])
  BY LiteralHitsAre
<1>2. t \in Seq(B) /\ IsInjective(t) /\ ToSet(t) = B
  BY RegexHitsAre
<1>3. /\ A \subseteq D /\ B \subseteq D /\ A \cap B = {}
      /\ \A i \in A : Matches(rules, req, i)
      /\ \A i \in B : Matches(rules, req, i)
  BY DEF Spoken, Regexes, Literals
<1>4. Hits(rules, req) = s \o t
  BY DEF Hits
<1>5. ASSUME NEW i \in D, Matches(rules, req, i) PROVE IF rules[i].regex THEN i \in B ELSE i \in A
  BY <1>5 DEF Matches, Spoken, Regexes, Literals
<1> HIDE DEF s, t, A, B, D
<1>6. ToSet(s) \subseteq A
  BY <1>1, ElementOfSeq DEF ToSet
<1>7. s \in Seq(D) /\ t \in Seq(D)
  BY <1>1, <1>2, <1>3, SeqMonotonic
<1>8. /\ s \o t \in Seq(D) /\ ToSet(s \o t) = ToSet(s) \cup B /\ IsInjective(s \o t)
  <2>1. ToSet(s) \cap ToSet(t) = {}
    BY <1>2, <1>3, <1>6
  <2> QED BY <1>1, <1>2, <1>7, <2>1, Together
<1>9. \A i \in ToSet(s \o t) : i \in D /\ Matches(rules, req, i)
  BY <1>3, <1>6, <1>8
<1>10. ASSUME NEW i \in D, Matches(rules, req, i)
       PROVE  \/ i \in ToSet(s \o t)
              \/ /\ ~rules[i].regex
                 /\ \E j \in ToSet(s \o t) : Key(rules[j]) = Key(rules[i])
  BY <1>1, <1>5, <1>8, <1>10
<1> QED BY <1>4, <1>8, <1>9, <1>10 DEF D
-----------------------------------------------------------------------------
(* Scores: the first k of some weights added up, on top of a base.         *)
Adds(f, base, w, n) == f = [k \in 0..n |-> IF k = 0 THEN base ELSE f[k - 1] + w[k]]

LEMMA AddsExist ==
    ASSUME NEW base, NEW w, NEW n \in Nat
    PROVE  \E f : Adds(f, base, w, n)
<1> DEFINE good == {k \in 0..n : \E f : Adds(f, base, w, k)}
<1>1. 0 \in good
  <2> DEFINE f == [k \in 0..0 |-> base]
  <2>1. f = [k \in 0..0 |-> IF k = 0 THEN base ELSE f[k - 1] + w[k]]
    OBVIOUS
  <2> HIDE DEF f
  <2>2. Adds(f, base, w, 0) /\ 0 \in 0..n
    BY <2>1 DEF Adds
  <2> QED BY <2>2
<1>2. ASSUME NEW m \in 1..n, m - 1 \in good PROVE m \in good
  <2>1. PICK f : Adds(f, base, w, m - 1)
    BY <1>2
  <2> DEFINE g == [k \in 0..m |-> IF k = m THEN f[m - 1] + w[m] ELSE f[k]]
  <2>2. ASSUME NEW k \in 0..m PROVE g[k] = IF k = 0 THEN base ELSE g[k - 1] + w[k]
    <3>1. CASE k = m
      <4>1. m - 1 \in 0..m /\ m - 1 # m /\ m # 0
        OBVIOUS
      <4> QED BY <3>1, <4>1
    <3>2. CASE k # m
      <4>1. k \in 0..m - 1 /\ (k # 0 => k - 1 \in 0..m /\ k - 1 # m)
        BY <3>2
      <4>2. f[k] = IF k = 0 THEN base ELSE f[k - 1] + w[k]
        BY <2>1, <4>1 DEF Adds
      <4> QED BY <3>2, <4>1, <4>2
    <3> QED BY <3>1, <3>2
  <2>3. g = [k \in 0..m |-> g[k]]
    OBVIOUS
  <2> HIDE DEF g
  <2>4. Adds(g, base, w, m)
    <3>1. [k \in 0..m |-> g[k]] = [k \in 0..m |-> IF k = 0 THEN base ELSE g[k - 1] + w[k]]
      BY <2>2
    <3> QED BY <2>3, <3>1 DEF Adds
  <2>5. m \in 0..n
    OBVIOUS
  <2> QED BY <2>4, <2>5
<1>3. n \in good
  <2>1. n \in 0..n
    OBVIOUS
  <2> HIDE DEF good
  <2> QED BY <1>1, <1>2, <2>1, Climb
<1> QED BY <1>3

(* Summed is such a sum: a rule weighs its score when it is in the set.    *)
Weight(rules, i) == IF i \in rules THEN engine.rules[i].score ELSE 0
Weights(rules) == [i \in DOMAIN engine.rules |-> Weight(rules, i)]

ScoresTyped == engine.rules \in Seq(Rules)

LEMMA WeightIs ==
    ASSUME ScoresTyped, NEW i \in DOMAIN engine.rules
    PROVE  engine.rules[i].score \in Nat
<1>1. engine.rules[i] \in Rules
  BY ElementOfSeq DEF ScoresTyped
<1> QED BY <1>1 DEF Rules

LEMMA SummedIs ==
    ASSUME ScoresTyped, NEW rules
    PROVE  \E f : Adds(f, 0, Weights(rules), Len(engine.rules))
                  /\ Summed(rules) = f[Len(engine.rules)]
<1> DEFINE n == Len(engine.rules)
           w == Weights(rules)
           Reads(f) == f = [i \in 0..n |-> IF i = 0 THEN 0
                             ELSE f[i - 1] + (IF i \in rules THEN engine.rules[i].score ELSE 0)]
           sum == CHOOSE f : Reads(f)
<1>1. Summed(rules) = sum[n]
  BY DEF Summed
<1>2. n \in Nat /\ \A i \in 1..n : w[i] = IF i \in rules THEN engine.rules[i].score ELSE 0
  BY DEF ScoresTyped, Weights, Weight
<1> HIDE DEF n, w
<1>3. ASSUME NEW f PROVE Reads(f) <=> Adds(f, 0, w, n)
  <2>1. ASSUME NEW i \in 0..n
        PROVE  (IF i = 0 THEN 0
                ELSE f[i - 1] + (IF i \in rules THEN engine.rules[i].score ELSE 0))
               = IF i = 0 THEN 0 ELSE f[i - 1] + w[i]
    BY <1>2
  <2> QED BY <2>1 DEF Adds
<1>4. \E f : Adds(f, 0, w, n)
  BY <1>2, AddsExist
<1> HIDE DEF Reads
<1>5. Reads(sum)
  BY <1>3, <1>4
<1> HIDE DEF sum
<1> QED BY <1>1, <1>3, <1>5 DEF n, w

(* No rules, no score; one rule more, its score more. *)
LEMMA SummedNone ==
    ASSUME ScoresTyped
    PROVE  Summed({}) = 0
<1> DEFINE n == Len(engine.rules)
           w == Weights({})
<1>1. PICK f : Adds(f, 0, w, n) /\ Summed({}) = f[n]
  BY SummedIs
<1>2. n \in Nat /\ \A i \in 1..n : w[i] = 0
  BY DEF ScoresTyped, Weights, Weight
<1> HIDE DEF n, w
<1>3. \A i \in 0..n : f[i] = IF i = 0 THEN 0 ELSE f[i - 1] + w[i]
  BY <1>1 DEF Adds
<1> DEFINE good == {i \in 0..n : f[i] = 0}
<1>4. 0 \in good
  BY <1>2, <1>3
<1>5. ASSUME NEW i \in 1..n, i - 1 \in good PROVE i \in good
  <2>1. i \in 0..n /\ i # 0 /\ f[i - 1] = 0 /\ w[i] = 0
    BY <1>2, <1>5
  <2>2. f[i] = f[i - 1] + w[i]
    BY <1>3, <2>1
  <2> QED BY <2>1, <2>2
<1>6. n \in good
  <2>1. n \in 0..n
    BY <1>2
  <2> HIDE DEF good
  <2> QED BY <1>2, <1>4, <1>5, <2>1, Climb
<1> QED BY <1>1, <1>6

LEMMA SummedMore ==
    ASSUME ScoresTyped, NEW rules, NEW x \in DOMAIN engine.rules, x \notin rules
    PROVE  /\ Summed(rules \cup {x}) = Summed(rules) + engine.rules[x].score
           /\ Summed(rules) \in Nat
<1> DEFINE n == Len(engine.rules)
           w == Weights(rules)
           v == Weights(rules \cup {x})
           s == engine.rules[x].score
<1>1. PICK f : Adds(f, 0, w, n) /\ Summed(rules) = f[n]
  BY SummedIs
<1>2. PICK g : Adds(g, 0, v, n) /\ Summed(rules \cup {x}) = g[n]
  BY SummedIs
<1>3. n \in Nat /\ DOMAIN engine.rules = 1..n /\ x \in 1..n /\ s \in Nat
  BY WeightIs DEF ScoresTyped
<1>4. ASSUME NEW i \in 1..n
      PROVE  w[i] \in Nat /\ v[i] = IF i = x THEN w[i] + s ELSE w[i]
  <2>1. /\ w[i] = IF i \in rules THEN engine.rules[i].score ELSE 0
        /\ v[i] = IF i \in rules \cup {x} THEN engine.rules[i].score ELSE 0
    BY <1>3 DEF Weights, Weight
  <2>2. engine.rules[i].score \in Nat
    BY <1>3, WeightIs
  <2> HIDE DEF w, v
  <2> QED BY <2>1, <2>2
<1>5. /\ \A i \in 0..n : f[i] = IF i = 0 THEN 0 ELSE f[i - 1] + w[i]
      /\ \A i \in 0..n : g[i] = IF i = 0 THEN 0 ELSE g[i - 1] + v[i]
  BY <1>1, <1>2 DEF Adds
<1> HIDE DEF n, w, v, s
<1> DEFINE good == {i \in 0..n : /\ f[i] \in Nat
                                 /\ g[i] = IF x <= i THEN f[i] + s ELSE f[i]}
<1>6. 0 \in good
  BY <1>3, <1>5
<1>7. ASSUME NEW i \in 1..n, i - 1 \in good PROVE i \in good
  <2>1. i \in 0..n /\ i # 0 /\ f[i - 1] \in Nat
        /\ g[i - 1] = IF x <= i - 1 THEN f[i - 1] + s ELSE f[i - 1]
    BY <1>3, <1>7
  <2>2. f[i] = f[i - 1] + w[i] /\ g[i] = g[i - 1] + v[i]
    BY <1>5, <2>1
  <2>3. w[i] \in Nat /\ v[i] = IF i = x THEN w[i] + s ELSE w[i]
    BY <1>4
  <2>4. f[i] \in Nat /\ g[i] = IF x <= i THEN f[i] + s ELSE f[i]
    BY <1>3, <2>1, <2>2, <2>3
  <2> QED BY <2>1, <2>4
<1>8. n \in good
  <2>1. n \in 0..n
    BY <1>3
  <2> HIDE DEF good
  <2> QED BY <1>3, <1>6, <1>7, <2>1, Climb
<1>9. x <= n
  BY <1>3
<1> QED BY <1>1, <1>2, <1>8, <1>9 DEF s

(* The score of hits that are all different is the sum of their rules'     *)
(* scores, and there are as many as there are rules among them.            *)
LEMMA TotalIs ==
    ASSUME ScoresTyped, NEW hits \in Seq(DOMAIN engine.rules), IsInjective(hits),
           NEW base \in Nat, NEW f,
           f = [k \in 0..Len(hits) |-> IF k = 0 THEN base
                                       ELSE f[k - 1] + engine.rules[hits[k]].score]
    PROVE  /\ f[Len(hits)] = base + Summed(ToSet(hits))
           /\ Cardinality(ToSet(hits)) = Len(hits)
<1> DEFINE n == Len(hits)
           part(k) == {hits[j] : j \in 1..k}
<1>1. n \in Nat /\ DOMAIN hits = 1..n /\ \A k \in 1..n : hits[k] \in DOMAIN engine.rules
  BY ElementOfSeq
<1>2. \A k \in 0..n : f[k] = IF k = 0 THEN base ELSE f[k - 1] + engine.rules[hits[k]].score
  BY DEF n
<1>3. ToSet(hits) = part(n)
  BY <1>1 DEF ToSet
<1>4. part(0) = {}
  OBVIOUS
<1>5. ASSUME NEW k \in 1..n PROVE part(k) = part(k - 1) \cup {hits[k]} /\ hits[k] \notin part(k - 1)
  <2>1. 1..k = (1..k - 1) \cup {k} /\ \A j \in 1..k - 1 : j \in 1..n /\ j # k
    BY <1>1
  <2>2. \A j \in 1..k - 1 : hits[j] # hits[k]
    BY <1>1, <2>1 DEF IsInjective
  <2> QED BY <2>1, <2>2
<1> HIDE DEF n, part
<1> DEFINE good == {k \in 0..n : /\ f[k] = base + Summed(part(k))
                                 /\ IsFiniteSet(part(k)) /\ Cardinality(part(k)) = k}
<1>6. 0 \in good
  <2>1. 0 \in 0..n /\ f[0] = base
    BY <1>1, <1>2
  <2>2. f[0] = base + Summed(part(0))
    <3>1. Summed(part(0)) = 0
      BY <1>4, SummedNone
    <3> QED BY <2>1, <3>1
  <2>3. IsFiniteSet(part(0)) /\ Cardinality(part(0)) = 0
    BY <1>4, FS_EmptySet
  <2> QED BY <2>1, <2>2, <2>3
<1>7. ASSUME NEW k \in 1..n, k - 1 \in good PROVE k \in good
  <2>1. /\ k \in 0..n /\ k # 0
        /\ f[k - 1] = base + Summed(part(k - 1))
        /\ IsFiniteSet(part(k - 1)) /\ Cardinality(part(k - 1)) = k - 1
    BY <1>1, <1>7
  <2> DEFINE s == engine.rules[hits[k]].score
  <2>2. s \in Nat
    BY <1>1, WeightIs
  <2>3. Summed(part(k)) = Summed(part(k - 1)) + s /\ Summed(part(k - 1)) \in Nat
    BY <1>1, <1>5, SummedMore
  <2>4. f[k] = f[k - 1] + s
    BY <1>2, <2>1
  <2>5. f[k] = base + Summed(part(k))
    <3> HIDE DEF s
    <3> QED BY <2>1, <2>2, <2>3, <2>4
  <2>6. IsFiniteSet(part(k)) /\ Cardinality(part(k)) = k
    <3>1. IsFiniteSet(part(k)) /\ Cardinality(part(k)) = Cardinality(part(k - 1)) + 1
      <4> DEFINE T == part(k - 1)
                 x == hits[k]
      <4>1. part(k) = T \cup {x} /\ x \notin T /\ IsFiniteSet(T)
        BY <1>5, <2>1
      <4> HIDE DEF T, x
      <4>2. IsFiniteSet(T \cup {x}) /\ Cardinality(T \cup {x}) = Cardinality(T) + 1
        BY <4>1, FS_AddElement
      <4> QED BY <4>1, <4>2 DEF T
    <3> QED BY <2>1, <3>1
  <2> QED BY <2>1, <2>5, <2>6
<1>8. n \in good
  <2>1. n \in 0..n
    BY <1>1
  <2> HIDE DEF good
  <2> QED BY <1>1, <1>6, <1>7, <2>1, Climb
<1> QED BY <1>3, <1>8 DEF n

LEMMA InspectIs ==
    ASSUME ScoresTyped, engine.threshold \in Nat, NEW req, req.suspicious \in Nat,
           \A rule \in Rules : field_value(req, rule) \in Text
    PROVE  LET answer == Inspect(engine, req)
               hits == Hits(engine.rules, req)
           IN  /\ answer.score = req.suspicious * SUSPICIOUS_BYTE_SCORE + Summed(ToSet(hits))
               /\ Cardinality(ToSet(hits)) = Len(hits)
               /\ answer.block <=> answer.score >= engine.threshold
               /\ answer.hits = IF hits = <<>> /\ answer.score >= engine.threshold
                                THEN <<Suspicious>> ELSE hits
<1> DEFINE hits == Hits(engine.rules, req)
           base == req.suspicious * SUSPICIOUS_BYTE_SCORE
           score(k) == engine.rules[hits[k]].score
           Totals(f) == f = [k \in 0..Len(hits) |-> IF k = 0 THEN base
                               ELSE f[k - 1] + engine.rules[hits[k]].score]
           total == CHOOSE f : Totals(f)
           answer == Inspect(engine, req)
           w == [k \in 1..Len(hits) |-> score(k)]
<1>1. hits \in Seq(DOMAIN engine.rules) /\ IsInjective(hits)
  BY HitsAre DEF ScoresTyped
<1>2. base \in Nat
  BY DEF SUSPICIOUS_BYTE_SCORE
<1>3. /\ answer.score = total[Len(hits)]
      /\ answer.block = (total[Len(hits)] >= engine.threshold)
      /\ answer.hits = IF hits = <<>> /\ total[Len(hits)] >= engine.threshold
                       THEN <<Suspicious>> ELSE hits
  BY DEF Inspect
<1> HIDE DEF hits, base, answer
<1>4. PICK f : Adds(f, base, w, Len(hits))
  <2>1. Len(hits) \in Nat
    BY <1>1
  <2> HIDE DEF w
  <2> QED BY <2>1, AddsExist
<1>5. Totals(f)
  <2>1. \A k \in 0..Len(hits) :
            (IF k = 0 THEN base ELSE f[k - 1] + w[k])
            = IF k = 0 THEN base ELSE f[k - 1] + engine.rules[hits[k]].score
    BY <1>1
  <2> HIDE DEF w
  <2> QED BY <1>4, <2>1 DEF Adds
<1>6. Totals(total)
  <2> HIDE DEF Totals
  <2> QED BY <1>5
<1> HIDE DEF total
<1>7. /\ total[Len(hits)] = base + Summed(ToSet(hits))
      /\ Cardinality(ToSet(hits)) = Len(hits)
  BY <1>1, <1>2, <1>6, TotalIs
<1> QED BY <1>3, <1>7 DEF hits, base, answer

(* For any rules, any request and any body: the score is the sum over the  *)
(* rules that are reported, which all match and come once, and a rule that *)
(* matches is missed only beside another of its group (Engine::inspect).   *)
THEOREM ScoreCorrect == Spec => []ScoreAddsUp
<1>1. Spec => []SeenInv
  BY InitSeen, NextSeen, PTL DEF Spec
<1>2. ASSUME SeenInv PROVE ScoreAddsUp
  <2> SUFFICES ASSUME verdict # NoVerdict
               PROVE  LET hits == ToSet(verdict.hits) \ {Suspicious}
                          found == Matching(Seen)
                      IN  /\ hits \subseteq found
                          /\ Len(verdict.hits) = Cardinality(ToSet(verdict.hits))
                          /\ \A i \in found :
                                \/ i \in hits
                                \/ /\ ~engine.rules[i].regex
                                   /\ \E j \in hits :
                                        Key(engine.rules[j]) = Key(engine.rules[i])
                          /\ verdict.score
                             = Seen.suspicious * SUSPICIOUS_BYTE_SCORE + Summed(hits)
                          /\ verdict.block <=> verdict.score >= engine.threshold
                          /\ verdict.block => verdict.hits # <<>>
    BY DEF ScoreAddsUp
  <2> DEFINE all == Hits(engine.rules, Seen)
             hits == ToSet(verdict.hits) \ {Suspicious}
             found == Matching(Seen)
             D == DOMAIN engine.rules
  <2>1. verdict = Inspect(engine, Seen) /\ TypeOK
    BY <1>2 DEF SeenInv, StreamInv, Judged, Seen
  <2>2. /\ ScoresTyped /\ engine.threshold \in Nat
        /\ request.method \in Text /\ request.target \in Text
        /\ request.headers \in Seq(HeaderLines) /\ head \in Text
    BY <2>1, InspectionAssumption DEF TypeOK, ScoresTyped, HeaderLines, Text
  <2>3. Seen.suspicious \in Nat /\ \A rule \in Rules : field_value(Seen, rule) \in Text
    BY <2>2, NormalizedTexts DEF Seen
  <2>4. /\ verdict.score = Seen.suspicious * SUSPICIOUS_BYTE_SCORE + Summed(ToSet(all))
        /\ Cardinality(ToSet(all)) = Len(all)
        /\ verdict.block <=> verdict.score >= engine.threshold
        /\ verdict.hits = IF all = <<>> /\ verdict.score >= engine.threshold
                          THEN <<Suspicious>> ELSE all
    BY <2>1, <2>2, <2>3, InspectIs
  <2>5. /\ all \in Seq(D)
        /\ \A i \in ToSet(all) : i \in D /\ Matches(engine.rules, Seen, i)
        /\ \A i \in D : Matches(engine.rules, Seen, i) =>
               \/ i \in ToSet(all)
               \/ /\ ~engine.rules[i].regex
                  /\ \E j \in ToSet(all) : Key(engine.rules[j]) = Key(engine.rules[i])
    BY <2>2, <2>3, HitsAre DEF ScoresTyped
  <2>6. found = {i \in D : Matches(engine.rules, Seen, i)}
    BY DEF Matching, Matches
  <2>7. Suspicious \notin D
    BY <2>2 DEF ScoresTyped, Suspicious
  <2> HIDE DEF all, found, D
  <2>8. hits = ToSet(all)
    <3>1. CASE verdict.hits = all
      BY <2>5, <2>7, <3>1
    <3>2. CASE all = <<>> /\ verdict.hits = <<Suspicious>>
      BY <3>2, OneHit
    <3> QED BY <2>4, <3>1, <3>2
  <2>9. Len(verdict.hits) = Cardinality(ToSet(verdict.hits))
    <3>1. CASE verdict.hits = all
      BY <2>4, <3>1
    <3>2. CASE verdict.hits = <<Suspicious>>
      <4>1. ToSet(verdict.hits) = {Suspicious}
        BY <3>2, OneHit
      <4>2. Len(verdict.hits) = 1
        BY <3>2
      <4> QED BY <4>1, <4>2, FS_Singleton
    <3> QED BY <2>4, <3>1, <3>2
  <2>10. verdict.block => verdict.hits # <<>>
    BY <2>4
  <2> HIDE DEF hits
  <2>11. hits \subseteq found
    BY <2>5, <2>6, <2>8
  <2>12. \A i \in found :
            \/ i \in hits
            \/ /\ ~engine.rules[i].regex
               /\ \E j \in hits : Key(engine.rules[j]) = Key(engine.rules[i])
    BY <2>5, <2>6, <2>8
  <2>13. verdict.score = Seen.suspicious * SUSPICIOUS_BYTE_SCORE + Summed(hits)
    BY <2>4, <2>8
  <2>14. verdict.block <=> verdict.score >= engine.threshold
    BY <2>4
  <2> QED BY <2>9, <2>10, <2>11, <2>12, <2>13, <2>14 DEF hits, found
<1> QED BY <1>1, <1>2, PTL
-----------------------------------------------------------------------------
(* Encodings.  Where the byte after the i-th is written. *)
LEMMA PlaceIs ==
    ASSUME NEW n \in Nat, NEW escaped \in SUBSET (1..n)
    PROVE  /\ Place(escaped, 1) = 1
           /\ \A i \in 1..n + 1 : Place(escaped, i) \in Nat /\ Place(escaped, i) >= i
           /\ \A i \in 1..n : Place(escaped, i + 1)
                              = Place(escaped, i) + IF i \in escaped THEN 3 ELSE 1
<1> DEFINE before(i) == {j \in escaped : j < i}
<1>1. IsFiniteSet(1..n)
  BY FS_Interval
<1>2. ASSUME NEW i \in 1..n + 1 PROVE IsFiniteSet(before(i)) /\ Cardinality(before(i)) \in Nat
  <2>1. before(i) \in SUBSET (1..n)
    OBVIOUS
  <2> HIDE DEF before
  <2> QED BY <1>1, <2>1, FS_Subset, FS_CardinalityType
<1>3. Cardinality(before(1)) = 0
  <2>1. \A j \in escaped : ~ (j < 1)
    OBVIOUS
  <2>2. before(1) = {}
    BY <2>1
  <2> QED BY <2>2, FS_EmptySet
<1>4. ASSUME NEW i \in 1..n
      PROVE  Cardinality(before(i + 1)) = Cardinality(before(i)) + IF i \in escaped THEN 1 ELSE 0
  <2>1. \A j \in escaped : j \in Nat /\ (j < i + 1 <=> j < i \/ j = i)
    OBVIOUS
  <2>2. i \notin before(i) /\ IsFiniteSet(before(i)) /\ Cardinality(before(i)) \in Nat
    BY <1>2
  <2>3. before(i + 1) = IF i \in escaped THEN before(i) \cup {i} ELSE before(i)
    BY <2>1
  <2> HIDE DEF before
  <2>4. CASE i \in escaped
    BY <2>2, <2>3, <2>4, FS_AddElement
  <2>5. CASE i \notin escaped
    BY <2>2, <2>3, <2>5
  <2> QED BY <2>4, <2>5
<1>5. \A i : Place(escaped, i) = i + 2 * Cardinality(before(i))
  BY DEF Place
<1> HIDE DEF before
<1>6. Place(escaped, 1) = 1
  BY <1>3, <1>5
<1>7. \A i \in 1..n + 1 : Place(escaped, i) \in Nat /\ Place(escaped, i) >= i
  BY <1>2, <1>5
<1>8. ASSUME NEW i \in 1..n
      PROVE  Place(escaped, i + 1) = Place(escaped, i) + IF i \in escaped THEN 3 ELSE 1
  <2> DEFINE a == Cardinality(before(i))
             b == Cardinality(before(i + 1))
  <2>1. a \in Nat /\ b = a + IF i \in escaped THEN 1 ELSE 0
    BY <1>2, <1>4
  <2>2. Place(escaped, i) = i + 2 * a /\ Place(escaped, i + 1) = i + 1 + 2 * b
    BY <1>5
  <2> HIDE DEF a, b
  <2> QED BY <2>1, <2>2
<1> QED BY <1>6, <1>7, <1>8

(* A query that says a text is decoded to it. *)
LEMMA SaidIsUnescaped ==
    ASSUME NEW s \in Text, NEW plain \in Text, Says(s, plain)
    PROVE  Unescaped(s) = plain
<1> DEFINE n == Len(plain)
           m == Len(s)
           p == EscapePiece(s)
           q == EscapeNext(s)
<1>1. PICK escaped \in SUBSET DOMAIN plain : WrittenWith(s, plain, escaped)
  BY DEF Says
<1>2. /\ n \in Nat /\ DOMAIN plain = 1..n /\ \A i \in 1..n : plain[i] \in 0..255
      /\ m \in Nat /\ \A i \in 1..m : s[i] \in 0..255
  BY TextIs
<1> DEFINE at(i) == Place(escaped, i)
<1>3. /\ at(1) = 1 /\ at(n + 1) = m + 1
      /\ \A i \in 1..n + 1 : at(i) \in Nat /\ at(i) >= i
      /\ \A i \in 1..n : at(i + 1) = at(i) + IF i \in escaped THEN 3 ELSE 1
  <2>1. n \in Nat /\ escaped \in SUBSET (1..n)
    BY <1>2
  <2>2. at(n + 1) = m + 1
    BY <1>1 DEF WrittenWith
  <2> HIDE DEF n, m
  <2>3. /\ Place(escaped, 1) = 1
        /\ \A i \in 1..n + 1 : Place(escaped, i) \in Nat /\ Place(escaped, i) >= i
        /\ \A i \in 1..n : Place(escaped, i + 1)
                           = Place(escaped, i) + IF i \in escaped THEN 3 ELSE 1
    BY <2>1, PlaceIs
  <2> QED BY <2>2, <2>3
<1>4. PICK f : Walked(f, 1, m + 1, p, q) /\ Unescaped(s) = f[1]
  BY UnescapedWalks
<1>5. ASSUME NEW i \in 1..n, at(i) \in 1..m
      PROVE  /\ p[at(i)] = <<plain[i]>>
             /\ q[at(i)] = at(i + 1)
  <2> DEFINE a == at(i)
  <2>1. IF i \in escaped THEN EscapeOf(s, a, plain[i])
        ELSE /\ plain[i] = IF s[a] = Plus THEN Space ELSE s[a]
             /\ \A b \in 0..255 : ~ EscapeOf(s, a, b)
    BY <1>1, <1>2 DEF WrittenWith
  <2>2. at(i + 1) = a + IF i \in escaped THEN 3 ELSE 1
    BY <1>3
  <2>3. a \in 1..m + 1 /\ ~ (a > m)
    BY <1>2, <1>5
  <2> HIDE DEF a, at
  <2>4. CASE i \in escaped
    <3>1. EscapeAt(s, a) /\ plain[i] = 16 * hex_val(s[a + 1]) + hex_val(s[a + 2])
      BY <2>1, <2>4 DEF EscapeOf, EscapeAt
    <3> QED BY <2>2, <2>3, <2>4, <3>1 DEF EscapePiece, EscapeNext, a
  <2>5. CASE i \notin escaped
    <3>1. ~ EscapeAt(s, a)
      <4> SUFFICES ASSUME EscapeAt(s, a) PROVE FALSE
        OBVIOUS
      <4> DEFINE hi == hex_val(s[a + 1])
                 lo == hex_val(s[a + 2])
      <4>1. hi \in 0..15 /\ lo \in 0..15
        BY HexValue DEF EscapeAt
      <4> HIDE DEF hi, lo
      <4>2. 16 * hi + lo \in 0..255
        BY <4>1
      <4>3. EscapeOf(s, a, 16 * hi + lo)
        BY DEF EscapeOf, EscapeAt, hi, lo
      <4> QED BY <2>1, <2>5, <4>2, <4>3
    <3>2. p[a] = <<IF s[a] = Plus THEN Space ELSE s[a]>>
      BY <2>3, <3>1 DEF EscapePiece
    <3>3. q[a] = a + 1
      BY <2>3, <3>1 DEF EscapeNext
    <3> HIDE DEF p, q
    <3> QED BY <2>1, <2>2, <2>5, <3>2, <3>3 DEF a
  <2> QED BY <2>4, <2>5
<1>6. q[m + 1] = 0 /\ \A i \in 1..m : q[i] # 0
  <2>1. m + 1 \in 1..m + 1 /\ m + 1 > m
    BY <1>2
  <2>2. q[m + 1] = 0
    BY <2>1 DEF EscapeNext
  <2>3. \A i \in 1..m : q[i] # 0
    BY <1>2 DEF EscapeNext
  <2> QED BY <2>2, <2>3
<1> HIDE DEF p, q, m, n, at
<1> DEFINE good == {k \in 0..n : /\ at(n + 1 - k) <= m + 1
                                 /\ f[at(n + 1 - k)] = SubSeq(plain, n + 1 - k, n)}
<1>7. 0 \in good
  <2>1. n + 1 - 0 = n + 1 /\ 0 \in 0..n /\ n < n + 1 /\ m + 1 \in 1..m + 1 /\ m + 1 <= m + 1
    BY <1>2
  <2>2. SubSeq(plain, n + 1, n) = <<>>
    BY <1>2, <2>1, SubSeqEmpty
  <2>3. f[m + 1] = <<>>
    BY <1>4, <1>6, <2>1 DEF Walked
  <2> QED BY <1>3, <2>1, <2>2, <2>3
<1>8. ASSUME NEW k \in 1..n, k - 1 \in good PROVE k \in good
  <2> DEFINE i == n + 1 - k
  <2>1. i \in 1..n /\ n + 1 - (k - 1) = i + 1 /\ k \in 0..n /\ n \in i..n
    BY <1>2
  <2> HIDE DEF i
  <2>2. at(i + 1) <= m + 1 /\ f[at(i + 1)] = SubSeq(plain, i + 1, n)
    BY <1>8, <2>1
  <2>3. at(i) \in 1..m
    <3>1. /\ at(i) \in Nat /\ at(i) >= i
          /\ at(i + 1) = at(i) + IF i \in escaped THEN 3 ELSE 1
      BY <1>2, <1>3, <2>1
    <3> QED BY <1>2, <2>1, <2>2, <3>1
  <2>4. p[at(i)] = <<plain[i]>> /\ q[at(i)] = at(i + 1)
    BY <1>5, <2>1, <2>3
  <2>5. f[at(i)] = p[at(i)] \o f[q[at(i)]]
    <3>1. at(i) \in 1..m + 1 /\ q[at(i)] # 0
      BY <1>2, <1>6, <2>3
    <3> QED BY <1>4, <3>1 DEF Walked
  <2>6. SubSeq(plain, i, n) = <<plain[i]>> \o SubSeq(plain, i + 1, n)
    BY <2>1, SubSeqRecursiveFirst DEF Text, n
  <2>7. f[at(i)] = SubSeq(plain, i, n) /\ at(i) <= m + 1
    BY <1>2, <2>2, <2>3, <2>4, <2>5, <2>6
  <2> QED BY <2>1, <2>7 DEF i
<1>9. n \in good
  <2>1. n \in 0..n
    BY <1>2
  <2> HIDE DEF good
  <2> QED BY <1>2, <1>7, <1>8, <2>1, Climb
<1>10. f[1] = SubSeq(plain, 1, n)
  <2>1. n + 1 - n = 1
    BY <1>2
  <2> QED BY <1>3, <1>9, <2>1
<1>11. SubSeq(plain, 1, n) = plain
  BY SubSeqFull DEF Text, n
<1> QED BY <1>4, <1>10, <1>11

-----------------------------------------------------------------------------
LEMMA PutBefore ==
    ASSUME NEW S, NEW x \in Seq(S), NEW u \in Seq(S), NEW y \in Seq(S), NEW v, v = u \o y
    PROVE  x \o u \in Seq(S) /\ x \o v = (x \o u) \o y
<1>1. x \o u \in Seq(S)
  BY ConcatProperties
<1>2. (x \o u) \o y = x \o (u \o y)
  BY ConcatAssociative
<1> QED BY <1>1, <1>2

(* The query is the end of the target, decoded or not.  No escape reaches  *)
(* over the question mark: the walk over the target comes by the byte      *)
(* behind it, and goes on there as the walk over the query.                *)
LEMMA WalkComesBy ==
    ASSUME NEW s \in Text, NEW m \in 1..Len(s), s[m] = Question,
           NEW f, Walked(f, 1, Len(s) + 1, EscapePiece(s), EscapeNext(s))
    PROVE  \E u \in Text : f[1] = u \o f[m + 1]
<1> DEFINE n == Len(s)
           p == EscapePiece(s)
           q == EscapeNext(s)
           S == 0..255
<1>1. n \in Nat /\ m \in Nat /\ m + 1 \in 1..n + 1 /\ n + 1 \in Nat \ {0}
  BY TextIs
<1>2. Onward(n + 1, q) /\ \A i \in 1..n + 1 : q[i] # 0 => p[i] \in Seq(S)
  BY EscapesOnward
<1>3. ASSUME NEW i \in 1..m PROVE q[i] \in i + 1..m + 1 /\ p[i] \in Seq(S)
  <2>1. i \in 1..n + 1 /\ ~ (i > n)
    BY <1>1
  <2>2. CASE EscapeAt(s, i)
    <3>1. /\ s[i] = Percent /\ s[i + 1] # Question /\ s[i + 2] # Question
      <4>1. \A b \in Digits \cup UpperHex \cup LowerHex : b # Question
        BY DEF Digits, UpperHex, LowerHex, Question
      <4>2. /\ s[i] = Percent
            /\ s[i + 1] \in Digits \cup UpperHex \cup LowerHex
            /\ s[i + 2] \in Digits \cup UpperHex \cup LowerHex
        BY <2>2 DEF EscapeAt
      <4> QED BY <4>1, <4>2
    <3>2. i # m /\ i + 1 # m /\ i + 2 # m
      BY <3>1 DEF Percent, Question
    <3>3. q[i] = i + 3
      BY <2>1, <2>2 DEF EscapeNext
    <3>4. q[i] \in i + 1..m + 1 /\ q[i] # 0
      BY <1>1, <3>2, <3>3
    <3> QED BY <1>2, <2>1, <3>4
  <2>3. CASE ~ EscapeAt(s, i)
    <3>1. q[i] = i + 1
      BY <2>1, <2>3 DEF EscapeNext
    <3>2. q[i] \in i + 1..m + 1 /\ q[i] # 0
      BY <1>1, <3>1
    <3> QED BY <1>2, <2>1, <3>2
  <2> QED BY <2>2, <2>3
<1> HIDE DEF n, p, q, S
<1>4. \A i \in 1..n + 1 : f[i] \in Seq(S)
  <2>1. Walked(f, 1, n + 1, p, q)
    BY DEF n, p, q
  <2> QED BY <1>1, <1>2, <2>1, WalkGives
<1> DEFINE good == {k \in 0..m : \A i \in m + 1 - k..m + 1 : \E u \in Seq(S) : f[i] = u \o f[m + 1]}
<1>5. 0 \in good
  <2>1. f[m + 1] = <<>> \o f[m + 1] /\ <<>> \in Seq(S)
    BY <1>1, <1>4, ConcatEmptySeq, EmptySeq
  <2>2. \A i \in m + 1 - 0..m + 1 : i = m + 1
    BY <1>1
  <2>3. 0 \in 0..m
    BY <1>1
  <2> QED BY <2>1, <2>2, <2>3
<1>6. ASSUME NEW k \in 1..m, k - 1 \in good PROVE k \in good
  <2> DEFINE j == m + 1 - k
  <2>1. j \in 1..m /\ m + 1 - (k - 1) = j + 1 /\ k \in 0..m
        /\ \A i \in j..m + 1 : i = j \/ i \in j + 1..m + 1
    BY <1>1
  <2>2. \A i \in j + 1..m + 1 : \E u \in Seq(S) : f[i] = u \o f[m + 1]
    BY <1>6, <2>1
  <2> HIDE DEF j
  <2>3. q[j] \in j + 1..m + 1 /\ p[j] \in Seq(S) /\ q[j] # 0 /\ j \in 1..n + 1
    <3>1. q[j] \in j + 1..m + 1 /\ p[j] \in Seq(S)
      BY <1>3, <2>1
    <3>2. j \in 1..n + 1 /\ q[j] # 0
      BY <1>1, <2>1, <3>1
    <3> QED BY <3>1, <3>2
  <2>4. f[j] = p[j] \o f[q[j]]
    BY <2>3 DEF Walked, p, q, n
  <2>5. PICK u \in Seq(S) : f[q[j]] = u \o f[m + 1]
    BY <2>2, <2>3
  <2>6. p[j] \o u \in Seq(S) /\ f[j] = (p[j] \o u) \o f[m + 1]
    <3>1. f[m + 1] \in Seq(S)
      BY <1>1, <1>4
    <3>2. p[j] \in Seq(S) /\ f[q[j]] = u \o f[m + 1]
      BY <2>3, <2>5
    <3> HIDE DEF good
    <3> DEFINE x == p[j]
               y == f[m + 1]
               v == f[q[j]]
    <3>3. x \in Seq(S) /\ u \in Seq(S) /\ y \in Seq(S) /\ v = u \o y
      BY <2>5, <3>1, <3>2
    <3> HIDE DEF x, y, v
    <3>4. x \o u \in Seq(S) /\ x \o v = (x \o u) \o y
      BY <3>3, PutBefore
    <3> QED BY <2>4, <3>4 DEF x, y, v
  <2>7. \A i \in j..m + 1 : \E v \in Seq(S) : f[i] = v \o f[m + 1]
    BY <2>1, <2>2, <2>6
  <2> QED BY <2>1, <2>7 DEF j
<1>7. m \in good
  <2>1. m \in 0..m
    BY <1>1
  <2> HIDE DEF good
  <2> QED BY <1>1, <1>5, <1>6, <2>1, Climb
<1>8. 1 \in m + 1 - m..m + 1
  BY <1>1
<1> QED BY <1>7, <1>8 DEF S, Text

Rest(s, m, rest) ==
    Len(rest) = Len(s) - m /\ \A i \in 1..Len(rest) : rest[i] = s[m + i]

(* From a place on, the walk over a text is the walk over the rest. *)
LEMMA WalkGoesOn ==
    ASSUME NEW s \in Text, NEW m \in 1..Len(s), NEW rest \in Text, Rest(s, m, rest),
           NEW f, Walked(f, 1, Len(s) + 1, EscapePiece(s), EscapeNext(s)),
           NEW g, Walked(g, 1, Len(rest) + 1, EscapePiece(rest), EscapeNext(rest))
    PROVE  f[m + 1] = g[1]
<1> DEFINE n == Len(rest)
<1>1. n \in Nat /\ m \in Nat /\ Len(s) = m + n /\ Len(s) \in Nat
      /\ \A i \in 1..n : rest[i] = s[m + i]
  BY TextIs DEF Rest
<1>2. ASSUME NEW j \in 1..n + 1
      PROVE  /\ f[m + j] = IF EscapeNext(s)[m + j] = 0 THEN <<>>
                           ELSE EscapePiece(s)[m + j] \o f[EscapeNext(s)[m + j]]
             /\ g[j] = IF EscapeNext(rest)[j] = 0 THEN <<>>
                       ELSE EscapePiece(rest)[j] \o g[EscapeNext(rest)[j]]
  <2>1. m + j \in 1..Len(s) + 1 /\ j \in 1..Len(rest) + 1
    BY <1>1
  <2> QED BY <2>1 DEF Walked
<1>3. ASSUME NEW j \in 1..n
      PROVE  /\ EscapePiece(s)[m + j] = EscapePiece(rest)[j]
             /\ EscapeNext(rest)[j] \in j + 1..n + 1
             /\ EscapeNext(s)[m + j] = m + EscapeNext(rest)[j]
             /\ EscapeNext(s)[m + j] # 0 /\ EscapeNext(rest)[j] # 0
  <2>1. /\ m + j \in 1..Len(s) + 1 /\ ~ (m + j > Len(s))
        /\ j \in 1..n + 1 /\ ~ (j > n) /\ rest[j] = s[m + j]
    BY <1>1
  <2>2. j + 2 <= n <=> m + j + 2 <= Len(s)
    BY <1>1
  <2>3. j + 2 <= n => rest[j + 1] = s[m + j + 1] /\ rest[j + 2] = s[m + j + 2]
    <3> SUFFICES ASSUME j + 2 <= n
                 PROVE  rest[j + 1] = s[m + j + 1] /\ rest[j + 2] = s[m + j + 2]
      OBVIOUS
    <3>1. /\ j + 1 \in 1..n /\ j + 2 \in 1..n
          /\ m + (j + 1) = m + j + 1 /\ m + (j + 2) = m + j + 2
      BY <1>1
    <3>2. rest[j + 1] = s[m + (j + 1)] /\ rest[j + 2] = s[m + (j + 2)]
      BY <1>1, <3>1
    <3> QED BY <3>1, <3>2
  <2>4. EscapeAt(rest, j) <=> EscapeAt(s, m + j)
    BY <2>1, <2>2, <2>3 DEF EscapeAt
  <2>5. CASE EscapeAt(rest, j)
    <3>1. EscapeAt(s, m + j) /\ j + 2 <= n
      BY <2>4, <2>5 DEF EscapeAt
    <3>2. EscapeNext(rest)[j] = j + 3 /\ EscapeNext(s)[m + j] = m + j + 3
      BY <2>1, <2>5, <3>1 DEF EscapeNext
    <3>3. EscapePiece(s)[m + j] = EscapePiece(rest)[j]
      BY <2>1, <2>3, <2>5, <3>1 DEF EscapePiece
    <3> QED BY <1>1, <3>1, <3>2, <3>3
  <2>6. CASE ~ EscapeAt(rest, j)
    <3>1. ~ EscapeAt(s, m + j)
      BY <2>4, <2>6
    <3>2. EscapeNext(rest)[j] = j + 1 /\ EscapeNext(s)[m + j] = m + j + 1
      BY <2>1, <2>6, <3>1 DEF EscapeNext
    <3>3. EscapePiece(s)[m + j] = EscapePiece(rest)[j]
      BY <2>1, <2>6, <3>1 DEF EscapePiece
    <3> QED BY <1>1, <3>2, <3>3
  <2> QED BY <2>5, <2>6
<1>4. f[m + (n + 1)] = <<>> /\ g[n + 1] = <<>>
  <2>1. n + 1 \in 1..n + 1 /\ n + 1 > n /\ m + (n + 1) \in 1..Len(s) + 1 /\ m + (n + 1) > Len(s)
    BY <1>1
  <2>2. EscapeNext(rest)[n + 1] = 0 /\ EscapeNext(s)[m + (n + 1)] = 0
    BY <2>1 DEF EscapeNext
  <2> QED BY <1>2, <2>1, <2>2
<1> HIDE DEF n
<1> DEFINE good == {k \in 0..n : \A j \in n + 1 - k..n + 1 : f[m + j] = g[j]}
<1>5. 0 \in good
  <2>1. \A j \in n + 1 - 0..n + 1 : j = n + 1
    BY <1>1
  <2>2. 0 \in 0..n
    BY <1>1
  <2> QED BY <1>4, <2>1, <2>2
<1>6. ASSUME NEW k \in 1..n, k - 1 \in good PROVE k \in good
  <2> DEFINE j == n + 1 - k
  <2>1. j \in 1..n /\ j \in 1..n + 1 /\ n + 1 - (k - 1) = j + 1 /\ k \in 0..n
        /\ \A i \in j..n + 1 : i = j \/ i \in j + 1..n + 1
    BY <1>1
  <2>2. \A i \in j + 1..n + 1 : f[m + i] = g[i]
    BY <1>6, <2>1
  <2> HIDE DEF j
  <2> DEFINE i == EscapeNext(rest)[j]
  <2>3. /\ i \in j + 1..n + 1 /\ EscapeNext(s)[m + j] = m + i
        /\ EscapeNext(s)[m + j] # 0 /\ i # 0
        /\ EscapePiece(s)[m + j] = EscapePiece(rest)[j]
    BY <1>3, <2>1
  <2>4. f[m + j] = EscapePiece(s)[m + j] \o f[m + i] /\ g[j] = EscapePiece(rest)[j] \o g[i]
    BY <1>2, <2>1, <2>3
  <2> HIDE DEF i
  <2>5. f[m + j] = g[j]
    BY <2>2, <2>3, <2>4
  <2>6. \A h \in j..n + 1 : f[m + h] = g[h]
    BY <2>1, <2>2, <2>5
  <2> QED BY <2>1, <2>6 DEF j
<1>7. n \in good
  <2>1. n \in 0..n
    BY <1>1
  <2> HIDE DEF good
  <2> QED BY <1>1, <1>5, <1>6, <2>1, Climb
<1>8. 1 \in n + 1 - n..n + 1
  BY <1>1
<1> QED BY <1>7, <1>8

LEMMA QueryIsTheEnd ==
    ASSUME NEW target \in Text
    PROVE  \E u \in Text : Unescaped(target) = u \o Unescaped(Query(target))
<1> DEFINE marks == {i \in DOMAIN target : target[i] = Question}
           m == Min(marks)
           rest == Query(target)
<1>1. /\ DOMAIN target = 1..Len(target) /\ Len(target) \in Nat
      /\ \A i \in 1..Len(target) : target[i] \in 0..255
  BY TextIs
<1>2. marks \subseteq 1..Len(target) /\ marks \subseteq Nat
      /\ \A i \in marks : target[i] = Question
  BY <1>1
<1>3. rest = IF marks = {} THEN <<>> ELSE SubSeq(target, m + 1, Len(target))
  BY DEF Query
<1>4. rest \in Text
  BY QueryText
<1>5. PICK f : /\ Walked(f, 1, Len(target) + 1, EscapePiece(target), EscapeNext(target))
               /\ Unescaped(target) = f[1]
  BY UnescapedWalks
<1>6. PICK g : /\ Walked(g, 1, Len(rest) + 1, EscapePiece(rest), EscapeNext(rest))
               /\ Unescaped(rest) = g[1]
  BY <1>4, UnescapedWalks
<1> HIDE DEF marks, rest
<1>7. CASE marks = {}
  <2>1. rest = <<>> /\ Len(rest) = 0
    BY <1>3, <1>7
  <2>2. Unescaped(rest) = <<>>
    <3>1. 1 \in 1..Len(rest) + 1 /\ 1 > Len(rest)
      BY <2>1
    <3>2. EscapeNext(rest)[1] = 0
      BY <3>1 DEF EscapeNext
    <3> QED BY <1>6, <3>1, <3>2 DEF Walked
  <2>3. Unescaped(target) \in Text
    BY UnescapedText
  <2>4. Unescaped(target) = Unescaped(target) \o <<>>
    BY <2>3, ConcatEmptySeq DEF Text
  <2> QED BY <2>2, <2>3, <2>4 DEF rest
<1>8. CASE marks # {}
  <2>1. m \in 1..Len(target) /\ target[m] = Question
    BY <1>2, <1>8, LeastIs
  <2> HIDE DEF m
  <2>2. m + 1 \in Int /\ Len(target) \in Int /\ \A i \in m + 1..Len(target) : target[i] \in 0..255
    BY <1>1, <2>1
  <2>3. /\ Len(rest) = IF m + 1 <= Len(target) THEN Len(target) - (m + 1) + 1 ELSE 0
        /\ \A i \in 1..Len(target) - (m + 1) + 1 : rest[i] = target[m + 1 + i - 1]
    BY <1>3, <1>8, <2>2, SubSeqProperties
  <2>4. Len(rest) = Len(target) - m
    <3> DEFINE l == Len(target)
               r == Len(rest)
    <3>1. l \in Nat /\ m \in 1..l /\ r = IF m + 1 <= l THEN l - (m + 1) + 1 ELSE 0
      BY <1>1, <2>1, <2>3
    <3> HIDE DEF l, r
    <3>2. r = l - m
      BY <3>1
    <3> QED BY <3>2 DEF l, r
  <2>5. \A i \in 1..Len(rest) : rest[i] = target[m + i]
    <3>1. ASSUME NEW i \in 1..Len(rest) PROVE rest[i] = target[m + i]
      <4>1. i \in 1..Len(target) - (m + 1) + 1 /\ m + 1 + i - 1 = m + i
        BY <1>1, <2>1, <2>4
      <4> QED BY <2>3, <4>1
    <3> QED BY <3>1
  <2>6. f[m + 1] = g[1]
    <3>1. Rest(target, m, rest)
      BY <2>4, <2>5 DEF Rest
    <3> QED BY <1>4, <1>5, <1>6, <2>1, <3>1, WalkGoesOn
  <2>7. \E u \in Text : f[1] = u \o f[m + 1]
    BY <1>5, <2>1, WalkComesBy
  <2> QED BY <1>5, <1>6, <2>6, <2>7 DEF rest
<1> QED BY <1>7, <1>8

-----------------------------------------------------------------------------
(* The bytes a rule is shown: a control byte is shown as a space. *)
Shown(b) == IF b \in Dangerous \cup Benign THEN Space ELSE b

ShownAs(bytes, text) == text = [i \in DOMAIN bytes |-> Shown(bytes[i])]

LEMMA ShownIs ==
    ASSUME NEW s \in Text
    PROVE  /\ Decoded(s).text = [i \in DOMAIN Unescaped(s) |-> Shown(Unescaped(s)[i])]
           /\ Decoded(s).suspicious
              = Cardinality({i \in DOMAIN Unescaped(s) : Unescaped(s)[i] \in Dangerous})
BY DEF Decoded, Shown

(* What stands at the end of a sequence is a suffix of it. *)
LEMMA StandsAtTheEnd ==
    ASSUME NEW m \in Nat, NEW n \in Nat, NEW a, NEW b, Len(a) = n, Len(b) = m + n,
           \A i \in 1..n : b[m + i] = a[i]
    PROVE  IsSuffix(a, b)
<1> DEFINE x == Reverse(a)
           y == Reverse(b)
<1>1. x = [i \in 1..n |-> a[n - i + 1]] /\ y = [i \in 1..m + n |-> b[m + n - i + 1]]
  BY DEF Reverse
<1> HIDE DEF x, y
<1>2. Len(x) = n /\ Len(y) = m + n
  BY <1>1
<1> DEFINE S == {a[i] : i \in 1..n}
<1>3. ASSUME NEW i \in 1..n PROVE x[i] = y[i] /\ x[i] \in S
  <2>1. /\ i \in 1..m + n /\ n - i + 1 \in 1..n
        /\ m + n - i + 1 = m + (n - i + 1)
    OBVIOUS
  <2>2. b[m + (n - i + 1)] = a[n - i + 1]
    BY <2>1
  <2>3. x[i] = a[n - i + 1] /\ y[i] = b[m + n - i + 1]
    BY <1>1, <2>1
  <2> QED BY <2>1, <2>2, <2>3
<1> HIDE DEF S
<1>4. SubSeq(x, 1, n) = SubSeq(y, 1, n)
  <2> DEFINE p == SubSeq(x, 1, n)
             q == SubSeq(y, 1, n)
  <2>1. p \in Seq(S) /\ Len(p) = (IF 1 <= n THEN n - 1 + 1 ELSE 0)
        /\ \A i \in 1..n - 1 + 1 : p[i] = x[1 + i - 1]
    BY <1>3, SubSeqProperties
  <2>2. q \in Seq(S) /\ Len(q) = (IF 1 <= n THEN n - 1 + 1 ELSE 0)
        /\ \A i \in 1..n - 1 + 1 : q[i] = y[1 + i - 1]
    BY <1>3, SubSeqProperties
  <2> HIDE DEF p, q
  <2>3. ASSUME NEW i \in 1..Len(p) PROVE p[i] = q[i]
    <3>1. i \in 1..n /\ i \in 1..n - 1 + 1 /\ 1 + i - 1 = i
      BY <2>1
    <3>2. p[i] = x[i] /\ q[i] = y[i]
      BY <2>1, <2>2, <3>1
    <3> QED BY <1>3, <3>1, <3>2
  <2>4. Len(p) = Len(q)
    BY <2>1, <2>2
  <2> QED BY <2>1, <2>2, <2>3, <2>4, SeqEqual DEF p, q
<1> QED BY <1>2, <1>4 DEF IsSuffix, IsPrefix, x, y

LEMMA BehindIs ==
    ASSUME NEW u \in Text, NEW v \in Text
    PROVE  /\ u \o v \in Text /\ Len(u \o v) = Len(u) + Len(v)
           /\ \A i \in 1..Len(v) : (u \o v)[Len(u) + i] = v[i]
<1> DEFINE w == u \o v
           m == Len(u)
           n == Len(v)
<1>1. /\ m \in Nat /\ n \in Nat /\ w \in Text /\ Len(w) = m + n
      /\ \A i \in 1..m + n : w[i] = IF i <= m THEN u[i] ELSE v[i - m]
  BY ConcatProperties DEF Text
<1> HIDE DEF w, m, n
<1>2. ASSUME NEW i \in 1..n PROVE w[m + i] = v[i]
  <2>1. m + i \in 1..m + n /\ ~ (m + i <= m) /\ m + i - m = i
    BY <1>1
  <2>2. w[m + i] = v[m + i - m]
    BY <1>1, <2>1
  <2> QED BY <2>1, <2>2
<1> QED BY <1>1, <1>2 DEF w, m, n

(* Shown or not, what is put behind something else is its end. *)
LEMMA ShownEnds ==
    ASSUME NEW v \in Text, NEW w \in Text, NEW m \in Nat, Len(w) = m + Len(v),
           \A i \in 1..Len(v) : w[m + i] = v[i],
           NEW a, ShownAs(v, a), NEW b, ShownAs(w, b)
    PROVE  IsSuffix(a, b)
<1> DEFINE n == Len(v)
<1>1. n \in Nat /\ DOMAIN v = 1..n /\ DOMAIN w = 1..m + n
  BY TextIs
<1> HIDE DEF n
<1>2. Len(a) = n /\ Len(b) = m + n
  BY <1>1 DEF ShownAs
<1>3. ASSUME NEW i \in 1..n PROVE b[m + i] = a[i]
  <2>1. m + i \in 1..m + n
    BY <1>1
  <2>2. w[m + i] = v[i]
    BY DEF n
  <2> QED BY <1>1, <2>1, <2>2 DEF ShownAs
<1> QED BY <1>1, <1>2, <1>3, StandsAtTheEnd

(* For any request whose query says a text: the rules see that text,       *)
(* however it was written, and the query they see is the end of the target *)
(* they see (decode_and_normalize, NormalizedRequest::build).              *)
THEOREM EncodingCorrect == Spec => []EncodingInvisible
<1>1. Spec => []TypeOK
  BY TypeCorrect
<1>2. ASSUME TypeOK PROVE EncodingInvisible
  <2> DEFINE target == request.target
             plain == request.plain
             query == Query(request.target)
  <2>1. target \in Text /\ plain \in Text /\ Says(query, plain)
    BY <1>2, InspectionAssumption DEF TypeOK
  <2>2. query \in Text
    BY <2>1, QueryText
  <2>3. Unescaped(query) = plain
    BY <2>1, <2>2, SaidIsUnescaped
  <2>4. PICK u \in Text : Unescaped(target) = u \o plain
    BY <2>1, <2>3, QueryIsTheEnd
  <2> HIDE DEF target, plain, query
  <2>5. /\ Decoded(query).text = [i \in DOMAIN plain |-> Shown(plain[i])]
        /\ Decoded(query).suspicious = Cardinality({i \in DOMAIN plain : plain[i] \in Dangerous})
    BY <2>2, <2>3, ShownIs
  <2>6. IsSuffix(Decoded(query).text, Decoded(target).text)
    <3> DEFINE w == Unescaped(target)
    <3>1. Decoded(target).text = [i \in DOMAIN w |-> Shown(w[i])]
      BY <2>1, ShownIs
    <3>2. w = u \o plain
      BY <2>4
    <3> HIDE DEF w
    <3> DEFINE a == Decoded(query).text
               b == Decoded(target).text
    <3>3. ShownAs(plain, a) /\ ShownAs(w, b)
      BY <2>5, <3>1 DEF ShownAs
    <3> HIDE DEF a, b
    <3>4. w \in Text /\ Len(u) \in Nat /\ Len(w) = Len(u) + Len(plain)
          /\ \A i \in 1..Len(plain) : w[Len(u) + i] = plain[i]
      BY <2>1, <3>2, BehindIs, TextIs
    <3>5. IsSuffix(a, b)
      BY <2>1, <3>3, <3>4, ShownEnds
    <3> QED BY <3>5 DEF a, b
  <2> QED BY <2>5, <2>6 DEF EncodingInvisible, Shown, target, plain, query
<1> QED BY <1>1, <1>2, PTL
=============================================================================
