------------------------ MODULE ConfigurationProofs -------------------------
(***************************************************************************)
(* Theorems about the two files a process is configured by.                *)
(*                                                                         *)
(* Part 1, Settings: for any texts, command lines, environments and number *)
(* of operators, what is saved is read back.  First the conversion:        *)
(* Unescape undoes Escape, and a content gives its seven lines back even   *)
(* when only a beginning of it is on the disk or a longer file's rest      *)
(* stands behind it.  Then SettingsInv, the inductive invariant: it adds   *)
(* to the properties what a command under way carries (Carried), that      *)
(* while calm there is one at most (Alone), and that neither the file nor  *)
(* a command holds a value nobody gave (WholeValues).                      *)
(*                                                                         *)
(* Part 2, HotReload: a reload is all or nothing, and no request is        *)
(* inspected by rules older than the limits it passed, for any contents,   *)
(* any edits and any number of requests.  The order of the two swaps is    *)
(* opposite to the order of the two clones; what carries the second        *)
(* property from one clone to the other is LimitsNotAhead.                 *)
(***************************************************************************)
EXTENDS Settings, HotReload, FiniteSetTheorems, SequenceTheorems, WellFoundedInduction, TLAPS

-----------------------------------------------------------------------------
(* Recursive functions.  Each exists and is determined, by descent to a    *)
(* first number where it would not be; First gives that number.            *)
Flat(f, s, n) == f = [i \in 1..n |-> IF i = 1 THEN s[i] ELSE f[i - 1] \o s[i]]

LEMMA First ==
    ASSUME NEW T, T \subseteq Nat, T # {}
    PROVE  \E x \in T : \A y \in T : x <= y
<1>1. PICK x \in T : \A y \in T : ~ (<<y, x>> \in OpToRel(<, Nat))
  BY NatLessThanWellFounded, WFMin
<1>2. \A y \in T : ~ (y < x)
  BY <1>1 DEF OpToRel
<1> QED BY <1>2

(* What holds at 0 and is handed from each number to the next holds        *)
(* everywhere.                                                             *)
LEMMA Climb ==
    ASSUME NEW n \in Nat, NEW good, 0 \in good,
           \A k \in 1..n : k - 1 \in good => k \in good
    PROVE  \A k \in 0..n : k \in good
<1> DEFINE bad == {k \in 0..n : k \notin good}
<1>1. CASE bad = {}
  BY <1>1
<1>2. CASE bad # {}
  <2>1. PICK k \in bad : \A j \in bad : k <= j
    <3>1. bad \subseteq Nat
      OBVIOUS
    <3> HIDE DEF bad
    <3> QED BY <1>2, <3>1, First
  <2>2. k \in 1..n /\ k - 1 \in 0..n /\ k - 1 \notin bad
    BY <2>1
  <2> QED BY <2>1, <2>2
<1> QED BY <1>1, <1>2

(* FlattenSeq is such a function. *)
LEMMA FlatExists ==
    ASSUME NEW s, NEW n \in Nat
    PROVE  \E f : Flat(f, s, n)
<1> DEFINE bad == {k \in Nat : ~ \E f : Flat(f, s, k)}
<1>1. CASE bad = {}
  BY <1>1
<1>2. CASE bad # {}
  <2>1. PICK m \in bad : \A k \in bad : m <= k
    <3>1. bad \subseteq Nat
      OBVIOUS
    <3> HIDE DEF bad
    <3> QED BY <1>2, <3>1, First
  <2>2. CASE m = 0
    <3> DEFINE f == [i \in 1..0 |-> s[i]]
    <3>1. f = [i \in 1..0 |-> IF i = 1 THEN s[i] ELSE f[i - 1] \o s[i]]
      <4>1. 1..0 = {}
        OBVIOUS
      <4> QED BY <4>1
    <3> QED BY <2>1, <2>2, <3>1 DEF Flat
  <2>3. CASE m # 0
    <3>1. m - 1 \in Nat /\ m - 1 \notin bad
      BY <2>1, <2>3
    <3>2. PICK f : Flat(f, s, m - 1)
      BY <3>1
    <3> DEFINE g == [i \in 1..m |-> IF i < m THEN f[i]
                                    ELSE IF m = 1 THEN s[m] ELSE f[m - 1] \o s[m]]
    <3>3. ASSUME NEW i \in 1..m PROVE g[i] = IF i = 1 THEN s[i] ELSE g[i - 1] \o s[i]
      <4>1. CASE i = m
        <5>1. i # 1 => i - 1 \in 1..m /\ i - 1 < m
          BY <2>1
        <5> QED BY <4>1, <5>1
      <4>2. CASE i < m
        <5>1. i \in 1..m - 1 /\ (i # 1 => i - 1 \in 1..m /\ i - 1 < m)
          BY <2>1, <4>2
        <5>2. f[i] = IF i = 1 THEN s[i] ELSE f[i - 1] \o s[i]
          BY <3>2, <5>1 DEF Flat
        <5> QED BY <4>2, <5>1, <5>2
      <4> QED BY <2>1, <4>1, <4>2
    <3>4. g = [i \in 1..m |-> g[i]]
      OBVIOUS
    <3>5. Flat(g, s, m)
      <4> HIDE DEF g
      <4>1. [i \in 1..m |-> g[i]] = [i \in 1..m |-> IF i = 1 THEN s[i] ELSE g[i - 1] \o s[i]]
        BY <3>3
      <4> QED BY <3>4, <4>1 DEF Flat
    <3> QED BY <2>1, <3>5
  <2> QED BY <2>2, <2>3
<1> QED BY <1>1, <1>2

SameFirst(s, t, m) == \A i \in 1..m : t[i] = s[i]

LEMMA FlatAgree ==
    ASSUME NEW s, NEW t, NEW m \in Nat, NEW n \in Nat, m <= n, SameFirst(s, t, m),
           NEW f, Flat(f, s, m), NEW g, Flat(g, t, n)
    PROVE  SameFirst(f, g, m)
<1> USE DEF SameFirst
<1> DEFINE bad == {k \in 1..m : g[k] # f[k]}
<1>1. CASE bad = {}
  BY <1>1
<1>2. CASE bad # {}
  <2>1. PICK k \in bad : \A j \in bad : k <= j
    <3>1. bad \subseteq Nat
      OBVIOUS
    <3> HIDE DEF bad
    <3> QED BY <1>2, <3>1, First
  <2>2. /\ f[k] = IF k = 1 THEN s[k] ELSE f[k - 1] \o s[k]
        /\ g[k] = IF k = 1 THEN t[k] ELSE g[k - 1] \o t[k]
    <3>1. k \in 1..m /\ k \in 1..n
      BY <2>1
    <3> QED BY <3>1 DEF Flat
  <2>3. k # 1 => k - 1 \in 1..m /\ k - 1 \notin bad
    BY <2>1
  <2> QED BY <2>1, <2>2, <2>3
<1> QED BY <1>1, <1>2

LEMMA FlattenIs ==
    ASSUME NEW S, NEW s \in Seq(S), s # <<>>, NEW f, Flat(f, s, Len(s))
    PROVE  FlattenSeq(s) = f[Len(s)]
<1>1. Len(s) # 0 /\ Len(s) \in Nat
  BY EmptySeq
<1> DEFINE g == CHOOSE h : h = [i \in 1..Len(s) |-> IF i = 1 THEN s[i] ELSE h[i - 1] \o s[i]]
<1>2. FlattenSeq(s) = g[Len(s)]
  BY <1>1 DEF FlattenSeq
<1>3. Flat(g, s, Len(s))
  BY DEF Flat
<1> HIDE DEF g
<1>4. SameFirst(s, s, Len(s))
  BY DEF SameFirst
<1>5. SameFirst(f, g, Len(s))
  BY <1>1, <1>3, <1>4, FlatAgree
<1> QED BY <1>1, <1>2, <1>5 DEF SameFirst

(* A walk over a text from its first place: each place says what it gives  *)
(* and from where to go on, always further right; 0 is the end.  Unescape  *)
(* is such a walk.                                                         *)
Walked(f, m, n, piece, next) ==
    f = [i \in m..n |-> IF next[i] = 0 THEN <<>> ELSE piece[i] \o f[next[i]]]

Onward(n, next) == \A i \in 1..n : next[i] = 0 \/ next[i] \in i + 1..n

LEMMA WalkExists ==
    ASSUME NEW n \in Nat \ {0}, NEW piece, NEW next, Onward(n, next)
    PROVE  \E f : Walked(f, 1, n, piece, next)
<1> DEFINE good == {k \in 0..n : \E f : Walked(f, n + 1 - k, n, piece, next)}
<1>1. 0 \in good
  <2> DEFINE f == [i \in n + 1..n |-> 0]
  <2>1. f = [i \in n + 1..n |-> IF next[i] = 0 THEN <<>> ELSE piece[i] \o f[next[i]]]
    <3>1. n + 1..n = {}
      OBVIOUS
    <3> QED BY <3>1
  <2>2. Walked(f, n + 1 - 0, n, piece, next)
    <3>1. n + 1 - 0 = n + 1
      OBVIOUS
    <3> HIDE DEF f
    <3> QED BY <2>1, <3>1 DEF Walked
  <2>3. 0 \in 0..n
    OBVIOUS
  <2> QED BY <2>2, <2>3
<1>2. ASSUME NEW k \in 1..n, k - 1 \in good PROVE k \in good
  <2> DEFINE m == n + 1 - k
  <2>1. m \in 1..n /\ n + 1 - (k - 1) = m + 1
    OBVIOUS
  <2>2. PICK f : Walked(f, m + 1, n, piece, next)
    BY <1>2, <2>1
  <2> HIDE DEF m
  <2> DEFINE g == [i \in m..n |-> IF i = m
                                  THEN IF next[m] = 0 THEN <<>> ELSE piece[m] \o f[next[m]]
                                  ELSE f[i]]
  <2>3. ASSUME NEW i \in m..n
        PROVE  g[i] = IF next[i] = 0 THEN <<>> ELSE piece[i] \o g[next[i]]
    <3>1. next[i] # 0 => next[i] \in m..n /\ next[i] # m
      BY <2>1 DEF Onward
    <3>2. next[i] # 0 => g[next[i]] = f[next[i]]
      BY <3>1
    <3>3. CASE i = m
      BY <3>2, <3>3
    <3>4. CASE i # m
      <4>1. i \in m + 1..n
        BY <2>1, <3>4
      <4>2. f[i] = IF next[i] = 0 THEN <<>> ELSE piece[i] \o f[next[i]]
        BY <2>2, <4>1 DEF Walked
      <4> QED BY <3>2, <3>4, <4>2
    <3> QED BY <3>3, <3>4
  <2>4. g = [i \in m..n |-> g[i]]
    OBVIOUS
  <2> HIDE DEF g
  <2>5. Walked(g, m, n, piece, next)
    <3>1. [i \in m..n |-> g[i]]
          = [i \in m..n |-> IF next[i] = 0 THEN <<>> ELSE piece[i] \o g[next[i]]]
      BY <2>3
    <3> QED BY <2>4, <3>1 DEF Walked
  <2>6. k \in 0..n
    OBVIOUS
  <2> QED BY <2>5, <2>6 DEF m
<1>3. n \in good
  <2>1. n \in 0..n
    OBVIOUS
  <2> HIDE DEF good
  <2> QED BY <1>1, <1>2, <2>1, Climb
<1>4. n + 1 - n = 1
  OBVIOUS
<1> QED BY <1>3, <1>4

LEMMA WalkGives ==
    ASSUME NEW S, NEW n \in Nat \ {0}, NEW piece, NEW next, Onward(n, next),
           \A i \in 1..n : next[i] # 0 => piece[i] \in Seq(S),
           NEW f, Walked(f, 1, n, piece, next)
    PROVE  \A i \in 1..n : f[i] \in Seq(S)
<1> DEFINE good == {k \in 0..n : \A i \in n + 1 - k..n : f[i] \in Seq(S)}
<1>1. 0 \in good
  OBVIOUS
<1>2. ASSUME NEW k \in 1..n, k - 1 \in good PROVE k \in good
  <2> DEFINE m == n + 1 - k
  <2>1. m \in 1..n /\ n + 1 - (k - 1) = m + 1
    OBVIOUS
  <2>2. \A i \in m + 1..n : f[i] \in Seq(S)
    BY <1>2, <2>1
  <2> HIDE DEF m
  <2>3. f[m] = IF next[m] = 0 THEN <<>> ELSE piece[m] \o f[next[m]]
    BY <2>1 DEF Walked
  <2>4. next[m] # 0 => next[m] \in m + 1..n
    BY <2>1 DEF Onward
  <2>5. f[m] \in Seq(S)
    <3>1. CASE next[m] = 0
      BY <2>3, <3>1, EmptySeq
    <3>2. CASE next[m] # 0
      <4>1. piece[m] \in Seq(S) /\ f[next[m]] \in Seq(S)
        BY <2>1, <2>2, <2>4, <3>2
      <4> QED BY <2>3, <3>2, <4>1, ConcatProperties
    <3> QED BY <3>1, <3>2
  <2>6. \A i \in m..n : f[i] \in Seq(S)
    <3>1. \A i \in m..n : i = m \/ i \in m + 1..n
      BY <2>1
    <3> QED BY <2>2, <2>5, <3>1
  <2> QED BY <2>6 DEF m
<1>3. n \in good
  <2>1. n \in 0..n
    OBVIOUS
  <2> HIDE DEF good
  <2> QED BY <1>1, <1>2, <2>1, Climb
<1>4. n + 1 - n = 1
  OBVIOUS
<1> QED BY <1>3, <1>4

-----------------------------------------------------------------------------
(* Texts.  What Escape has written after each piece of a text. *)
Written(h, s) ==
    /\ h[0] = <<>>
    /\ \A k \in 1..Len(s) : h[k] = h[k - 1] \o EscapeOf(s[k])

LEMMA PieceIs ==
    /\ Backslash \in Pieces /\ NewLine \in Pieces /\ Return \in Pieces
    /\ LetterN \in Pieces /\ LetterR \in Pieces
    /\ Backslash # NewLine /\ Backslash # Return /\ NewLine # Return
    /\ Backslash # LetterN /\ Backslash # LetterR /\ LetterN # LetterR
    /\ NewLine # LetterN /\ NewLine # LetterR
<1> DEFINE five == <<Backslash, NewLine, Return, LetterN, LetterR>>
<1>1. /\ five[1] = Backslash /\ five[2] = NewLine /\ five[3] = Return
      /\ five[4] = LetterN /\ five[5] = LetterR
      /\ DOMAIN five = 1..5
  OBVIOUS
<1>2. \A i, j \in DOMAIN five : five[i] = five[j] => i = j
  BY TextAssumption DEF IsInjective
<1> HIDE DEF five
<1>3. \A i, j \in 1..5 : five[i] = five[j] => i = j
  BY <1>1, <1>2
<1> QED BY <1>1, <1>3, TextAssumption

(* A piece stays, or becomes a backslash and the letter that means it. *)
LEMMA EscapeOfIs ==
    ASSUME NEW c \in Pieces
    PROVE  \/ /\ c # Backslash /\ c # NewLine /\ EscapeOf(c) = <<c>>
           \/ \E d \in {Backslash, LetterN, LetterR} :
                  EscapeOf(c) = <<Backslash, d>> /\ Meant(d) = <<c>>
<1> USE PieceIs DEF EscapeOf, Meant
<1>1. CASE c = Backslash
  BY <1>1
<1>2. CASE c = NewLine
  BY <1>2
<1>3. CASE c = Return
  BY <1>3
<1>4. CASE c \notin {Backslash, NewLine, Return}
  BY <1>4
<1> QED BY <1>1, <1>2, <1>3, <1>4

LEMMA EscapeOfText ==
    ASSUME NEW c \in Pieces
    PROVE  /\ EscapeOf(c) \in Seq(Pieces \ {NewLine})
           /\ Len(EscapeOf(c)) \in 1..2
<1>1. CASE c # Backslash /\ c # NewLine /\ EscapeOf(c) = <<c>>
  BY <1>1
<1>2. ASSUME NEW d \in {Backslash, LetterN, LetterR}, EscapeOf(c) = <<Backslash, d>>
      PROVE  EscapeOf(c) \in Seq(Pieces \ {NewLine}) /\ Len(EscapeOf(c)) \in 1..2
  <2>1. Backslash \in Pieces \ {NewLine} /\ d \in Pieces \ {NewLine}
    BY PieceIs
  <2> QED BY <1>2, <2>1
<1> QED BY <1>1, <1>2, EscapeOfIs

LEMMA TextIs ==
    ASSUME NEW s \in Texts
    PROVE  /\ s \in Seq(Pieces) /\ Len(s) \in Nat /\ DOMAIN s = 1..Len(s)
           /\ \A i \in 1..Len(s) : s[i] \in Pieces
BY ElementOfSeq DEF Texts

(* Escape writes the text piece by piece, and no line ends in what it writes. *)
LEMMA EscapeWrites ==
    ASSUME NEW s \in Texts
    PROVE  \E h : /\ Written(h, s) /\ Escape(s) = h[Len(s)]
                  /\ \A k \in 0..Len(s) : h[k] \in Seq(Pieces \ {NewLine})
<1> DEFINE n == Len(s)
           parts == [i \in DOMAIN s |-> EscapeOf(s[i])]
           Q == Pieces \ {NewLine}
<1>1. n \in Nat /\ DOMAIN s = 1..n /\ \A i \in 1..n : s[i] \in Pieces
  BY TextIs
<1>2. \A i \in 1..n : EscapeOf(s[i]) \in Seq(Q)
  BY <1>1, EscapeOfText
<1>3. parts \in [1..n -> Seq(Q)]
  BY <1>1, <1>2
<1>4. \A i \in 1..n : parts[i] = EscapeOf(s[i])
  BY <1>1
<1>5. Escape(s) = FlattenSeq(parts)
  BY DEF Escape
<1> HIDE DEF n, parts, Q
<1>6. parts \in Seq(Seq(Q)) /\ Len(parts) = n /\ DOMAIN parts = 1..n
  BY <1>1, <1>3
<1>7. PICK g : Flat(g, parts, n)
  BY <1>1, FlatExists
<1> DEFINE h == [k \in 0..n |-> IF k = 0 THEN <<>> ELSE g[k]]
<1>8. h[0] = <<>> /\ \A k \in 1..n : h[k] = g[k]
  BY <1>1
<1> HIDE DEF h
<1>9. ASSUME NEW k \in 1..n
      PROVE  g[k] = IF k = 1 THEN parts[k] ELSE g[k - 1] \o parts[k]
  BY <1>7 DEF Flat
<1>10. ASSUME NEW k \in 1..n
       PROVE  h[k] = h[k - 1] \o EscapeOf(s[k])
  <2>1. h[k] = g[k] /\ parts[k] = EscapeOf(s[k]) /\ parts[k] \in Seq(Q)
    BY <1>2, <1>4, <1>8
  <2>2. CASE k = 1
    <3>1. h[k - 1] = <<>> /\ g[k] = parts[k]
      BY <1>8, <1>9, <2>2
    <3> QED BY <2>1, <3>1, ConcatEmptySeq
  <2>3. CASE k # 1
    <3>1. k - 1 \in 1..n
      BY <1>1, <2>3
    <3>2. h[k - 1] = g[k - 1]
      BY <1>8, <3>1
    <3> QED BY <1>9, <2>1, <2>3, <3>2
  <2> QED BY <2>2, <2>3
<1>11. \A k \in 0..n : h[k] \in Seq(Q)
  <2> DEFINE good == {k \in 0..n : h[k] \in Seq(Q)}
  <2>1. 0 \in good
    <3>1. h[0] \in Seq(Q)
      BY <1>8, EmptySeq
    <3>2. 0 \in 0..n
      BY <1>1
    <3> QED BY <3>1, <3>2
  <2>2. ASSUME NEW k \in 1..n, k - 1 \in good PROVE k \in good
    <3>1. h[k] = h[k - 1] \o EscapeOf(s[k])
      BY <1>10
    <3>2. h[k] \in Seq(Q)
      BY <1>2, <2>2, <3>1, ConcatProperties
    <3> QED BY <3>2
  <2> HIDE DEF good
  <2>3. \A k \in 0..n : k \in good
    BY <1>1, <2>1, <2>2, Climb
  <2> QED BY <2>3 DEF good
<1>12. Escape(s) = h[n]
  <2>1. CASE n = 0
    <3>1. parts = <<>>
      BY <1>6, <2>1, EmptySeq
    <3>2. FlattenSeq(parts) = <<>>
      BY <3>1 DEF FlattenSeq
    <3> QED BY <1>5, <1>8, <2>1, <3>2
  <2>2. CASE n # 0
    <3>1. parts # <<>>
      BY <1>6, <2>2, EmptySeq
    <3>2. FlattenSeq(parts) = g[n]
      BY <1>6, <1>7, <3>1, FlattenIs
    <3> QED BY <1>1, <1>5, <1>8, <2>2, <3>2
  <2> QED BY <2>1, <2>2
<1> QED BY <1>8, <1>10, <1>11, <1>12 DEF Written, n, Q

LEMMA EscapeIs ==
    ASSUME NEW s \in Texts
    PROVE  /\ Escape(s) \in Texts
           /\ \A i \in 1..Len(Escape(s)) : Escape(s)[i] # NewLine
<1>1. PICK h : /\ Escape(s) = h[Len(s)]
               /\ \A k \in 0..Len(s) : h[k] \in Seq(Pieces \ {NewLine})
  BY EscapeWrites
<1>2. Escape(s) \in Seq(Pieces \ {NewLine})
  <2>1. Len(s) \in 0..Len(s)
    BY TextIs
  <2> QED BY <1>1, <2>1
<1>3. \A i \in 1..Len(Escape(s)) : Escape(s)[i] \in Pieces \ {NewLine}
  BY <1>2, ElementOfSeq
<1>4. Escape(s) \in Texts
  <2>1. Pieces \ {NewLine} \subseteq Pieces
    OBVIOUS
  <2> QED BY <1>2, <2>1, SeqMonotonic DEF Texts
<1> QED BY <1>3, <1>4

(* Reading a text with Unescape, place by place. *)
Pairs(t, i) == t[i] = Backslash /\ i < Len(t)

ReadPiece(t) == [i \in 1..Len(t) + 1 |-> IF Pairs(t, i) THEN Meant(t[i + 1]) ELSE <<t[i]>>]

ReadNext(t) ==
    [i \in 1..Len(t) + 1 |-> IF i > Len(t) THEN 0 ELSE IF Pairs(t, i) THEN i + 2 ELSE i + 1]

Reading(f, t) ==
    /\ f[Len(t) + 1] = <<>>
    /\ \A i \in 1..Len(t) : f[i] = IF Pairs(t, i) THEN Meant(t[i + 1]) \o f[i + 2]
                                   ELSE <<t[i]>> \o f[i + 1]

LEMMA MeantText ==
    ASSUME NEW c \in Pieces
    PROVE  Meant(c) \in Seq(Pieces)
BY PieceIs DEF Meant

LEMMA ReadsOnward ==
    ASSUME NEW t \in Texts
    PROVE  /\ Onward(Len(t) + 1, ReadNext(t))
           /\ \A i \in 1..Len(t) + 1 : ReadNext(t)[i] # 0 => ReadPiece(t)[i] \in Seq(Pieces)
<1>1. Len(t) \in Nat /\ \A i \in 1..Len(t) : t[i] \in Pieces
  BY TextIs
<1>2. Onward(Len(t) + 1, ReadNext(t))
  <2> SUFFICES ASSUME NEW i \in 1..Len(t) + 1
               PROVE  ReadNext(t)[i] = 0 \/ ReadNext(t)[i] \in i + 1..Len(t) + 1
    BY DEF Onward
  <2>1. CASE i > Len(t)
    BY <2>1 DEF ReadNext
  <2>2. CASE ~ (i > Len(t)) /\ Pairs(t, i)
    BY <1>1, <2>2 DEF ReadNext, Pairs
  <2>3. CASE ~ (i > Len(t)) /\ ~ Pairs(t, i)
    BY <1>1, <2>3 DEF ReadNext
  <2> QED BY <2>1, <2>2, <2>3
<1>3. ASSUME NEW i \in 1..Len(t) + 1, ReadNext(t)[i] # 0
      PROVE  ReadPiece(t)[i] \in Seq(Pieces)
  <2>1. i \in 1..Len(t)
    BY <1>1, <1>3 DEF ReadNext
  <2>2. CASE Pairs(t, i)
    <3>1. i + 1 \in 1..Len(t)
      BY <1>1, <2>1, <2>2 DEF Pairs
    <3>2. ReadPiece(t)[i] = Meant(t[i + 1])
      BY <2>2 DEF ReadPiece
    <3> QED BY <1>1, <3>1, <3>2, MeantText
  <2>3. CASE ~ Pairs(t, i)
    BY <1>1, <2>1, <2>3 DEF ReadPiece
  <2> QED BY <2>2, <2>3
<1> QED BY <1>2, <1>3

(* Unescape is the reading from the first place on. *)
LEMMA UnescapeReads ==
    ASSUME NEW t \in Texts
    PROVE  /\ \E f : Reading(f, t) /\ Unescape(t) = f[1]
           /\ Unescape(t) \in Texts
<1>1. Len(t) \in Nat
  BY TextIs
<1> DEFINE Reads(f) ==
        f = [i \in 1..Len(t) + 1 |->
                IF i > Len(t) THEN <<>>
                ELSE IF t[i] = Backslash /\ i < Len(t) THEN Meant(t[i + 1]) \o f[i + 2]
                ELSE <<t[i]>> \o f[i + 1]]
           from == CHOOSE f : Reads(f)
           n == Len(t) + 1
           p == ReadPiece(t)
           q == ReadNext(t)
<1>2. ASSUME NEW f
      PROVE  Reads(f) <=> Walked(f, 1, n, p, q)
  <2>1. ASSUME NEW i \in 1..Len(t) + 1
        PROVE  (IF i > Len(t) THEN <<>>
                ELSE IF t[i] = Backslash /\ i < Len(t) THEN Meant(t[i + 1]) \o f[i + 2]
                ELSE <<t[i]>> \o f[i + 1])
               = IF q[i] = 0 THEN <<>> ELSE p[i] \o f[q[i]]
    <3>1. CASE i > Len(t)
      BY <3>1 DEF ReadNext
    <3>2. CASE ~ (i > Len(t)) /\ Pairs(t, i)
      <4>1. q[i] = i + 2 /\ i + 2 # 0 /\ p[i] = Meant(t[i + 1])
        BY <3>2 DEF ReadNext, ReadPiece
      <4> HIDE DEF p, q
      <4> QED BY <3>2, <4>1 DEF Pairs
    <3>3. CASE ~ (i > Len(t)) /\ ~ Pairs(t, i)
      <4>1. q[i] = i + 1 /\ i + 1 # 0 /\ p[i] = <<t[i]>>
        BY <3>3 DEF ReadNext, ReadPiece
      <4> HIDE DEF p, q
      <4> QED BY <3>3, <4>1 DEF Pairs
    <3> QED BY <3>1, <3>2, <3>3
  <2> HIDE DEF p, q
  <2> QED BY <2>1 DEF Walked
<1>3. Unescape(t) = from[1]
  BY DEF Unescape
<1> HIDE DEF Reads
<1>4. n \in Nat \ {0} /\ 1 \in 1..n
  BY <1>1
<1>5. Onward(n, q) /\ \A i \in 1..n : q[i] # 0 => p[i] \in Seq(Pieces)
  BY ReadsOnward
<1> HIDE DEF p, q
<1>6. PICK f : Walked(f, 1, n, p, q)
  <2> HIDE DEF n
  <2> QED BY <1>4, <1>5, WalkExists
<1>7. Reads(from)
  BY <1>2, <1>6
<1> HIDE DEF from
<1>8. Walked(from, 1, n, p, q)
  BY <1>2, <1>7
<1>9. \A i \in 1..n : from[i] \in Seq(Pieces)
  <2> HIDE DEF n
  <2> QED BY <1>4, <1>5, <1>8, WalkGives
<1>10. Reading(from, t)
  <2>1. ASSUME NEW i \in 1..Len(t) + 1
        PROVE  from[i] = IF i > Len(t) THEN <<>>
                         ELSE IF t[i] = Backslash /\ i < Len(t) THEN Meant(t[i + 1]) \o from[i + 2]
                         ELSE <<t[i]>> \o from[i + 1]
    BY <1>7 DEF Reads
  <2>2. from[Len(t) + 1] = <<>>
    <3>1. Len(t) + 1 \in 1..Len(t) + 1 /\ Len(t) + 1 > Len(t)
      BY <1>1
    <3> QED BY <2>1, <3>1
  <2>3. ASSUME NEW i \in 1..Len(t)
        PROVE  from[i] = IF Pairs(t, i) THEN Meant(t[i + 1]) \o from[i + 2]
                         ELSE <<t[i]>> \o from[i + 1]
    <3>1. i \in 1..Len(t) + 1 /\ ~ (i > Len(t))
      BY <1>1
    <3> QED BY <2>1, <3>1 DEF Pairs
  <2> QED BY <2>2, <2>3 DEF Reading
<1> QED BY <1>3, <1>4, <1>9, <1>10 DEF Texts

(* What is written before a place is not changed by what follows. *)
Starts(a, b) == Len(a) <= Len(b) /\ \A i \in 1..Len(a) : b[i] = a[i]

LEMMA WrittenStays ==
    ASSUME NEW s \in Texts, NEW h, Written(h, s),
           \A k \in 0..Len(s) : h[k] \in Seq(Pieces)
    PROVE  \A k \in 0..Len(s) : Starts(h[k], h[Len(s)])
<1> DEFINE n == Len(s)
           good == {k \in 0..n : Starts(h[n - k], h[n])}
<1>1. n \in Nat /\ \A i \in 1..n : s[i] \in Pieces
  BY TextIs
<1>2. 0 \in good
  <2>1. n \in 0..n /\ 0 \in 0..n /\ n - 0 = n
    BY <1>1
  <2>2. Len(h[n]) \in Nat
    BY <2>1
  <2> HIDE DEF n
  <2>3. Starts(h[n - 0], h[n])
    BY <2>1, <2>2 DEF Starts
  <2> QED BY <2>1, <2>3
<1>3. ASSUME NEW k \in 1..n, k - 1 \in good PROVE k \in good
  <2> DEFINE m == n - k
             a == h[m]
             b == h[m + 1]
             c == EscapeOf(s[m + 1])
             e == h[n]
  <2>1. m \in 0..n /\ m + 1 \in 1..n /\ m + 1 \in 0..n /\ m + 1 - 1 = m
        /\ n - (k - 1) = m + 1 /\ n \in 0..n
    BY <1>1
  <2>2. a \in Seq(Pieces) /\ b \in Seq(Pieces) /\ e \in Seq(Pieces)
    BY <2>1
  <2>3. c \in Seq(Pieces)
    <3>1. c \in Seq(Pieces \ {NewLine})
      BY <1>1, <2>1, EscapeOfText
    <3>2. Pieces \ {NewLine} \subseteq Pieces
      OBVIOUS
    <3> HIDE DEF c
    <3> QED BY <3>1, <3>2, SeqMonotonic
  <2>4. b = a \o c
    <3>1. \A j \in 1..n : h[j] = h[j - 1] \o EscapeOf(s[j])
      BY DEF Written
    <3> DEFINE j == m + 1
    <3>2. j \in 1..n /\ j - 1 = m
      BY <2>1
    <3> HIDE DEF j, m
    <3>3. h[j] = h[j - 1] \o EscapeOf(s[j])
      BY <3>1, <3>2
    <3>4. h[j] = h[m] \o EscapeOf(s[j])
      BY <3>2, <3>3
    <3> QED BY <3>4 DEF j
  <2>5. Starts(b, e)
    BY <1>3, <2>1
  <2> HIDE DEF a, b, c, e
  <2>6. /\ Len(b) = Len(a) + Len(c)
        /\ \A i \in 1..Len(a) + Len(c) : b[i] = IF i <= Len(a) THEN a[i] ELSE c[i - Len(a)]
    BY <2>2, <2>3, <2>4, ConcatProperties
  <2>7. Len(a) \in Nat /\ Len(c) \in Nat /\ Len(e) \in Nat
    BY <2>2, <2>3
  <2>8. Starts(a, e)
    BY <2>5, <2>6, <2>7 DEF Starts
  <2>9. Starts(h[m], h[n])
    BY <2>8 DEF a, e
  <2>10. k \in 0..n
    BY <1>1
  <2> QED BY <2>9, <2>10 DEF m
<1>4. \A k \in 0..n : k \in good
  <2> HIDE DEF n, good
  <2> QED BY <1>1, <1>2, <1>3, Climb
<1>5. ASSUME NEW k \in 0..n PROVE Starts(h[k], h[n])
  <2>1. n - k \in 0..n /\ n - (n - k) = k
    BY <1>1
  <2>2. n - k \in good
    BY <1>4, <2>1
  <2> QED BY <2>1, <2>2
<1> QED BY <1>5

(***************************************************************************)
(* Whatever a value holds, line ends, carriage returns and backslashes     *)
(* included, Unescape gives it back from what Escape made of it            *)
(* (main.rs:715, 721).                                                     *)
(***************************************************************************)
THEOREM EscapeComesBack ==
    ASSUME NEW s \in Texts
    PROVE  Unescape(Escape(s)) = s
<1> DEFINE n == Len(s)
           E == Escape(s)
<1>1. n \in Nat /\ \A i \in 1..n : s[i] \in Pieces
  BY TextIs
<1>2. PICK h : /\ Written(h, s) /\ E = h[n]
               /\ \A k \in 0..n : h[k] \in Seq(Pieces \ {NewLine})
  BY EscapeWrites
<1>3. \A k \in 0..n : h[k] \in Seq(Pieces)
  <2>1. Pieces \ {NewLine} \subseteq Pieces
    OBVIOUS
  <2> QED BY <1>2, <2>1, SeqMonotonic
<1>4. \A k \in 0..n : Starts(h[k], E)
  BY <1>2, <1>3, WrittenStays
<1>5. PICK f : Reading(f, E) /\ Unescape(E) = f[1]
  BY EscapeIs, UnescapeReads
<1>6. E \in Seq(Pieces) /\ Len(E) \in Nat
  BY EscapeIs DEF Texts
<1>7. s = SubSeq(s, 1, n)
  BY SubSeqFull DEF Texts
<1>8. \A k \in 1..n : SubSeq(s, k, n) = <<s[k]>> \o SubSeq(s, k + 1, n)
  <2> SUFFICES ASSUME NEW k \in 1..n PROVE SubSeq(s, k, n) = <<s[k]>> \o SubSeq(s, k + 1, n)
    OBVIOUS
  <2>1. s \in Seq(Pieces) /\ n \in k..Len(s)
    BY <1>1 DEF Texts
  <2> QED BY <2>1, SubSeqRecursiveFirst
<1>9. SubSeq(s, n + 1, n) = <<>>
  BY <1>1, SubSeqEmpty
<1> DEFINE rest == [k \in 1..n + 1 |-> SubSeq(s, k, n)]
<1>10. /\ rest[1] = s /\ rest[n + 1] = <<>>
       /\ \A k \in 1..n : rest[k] = <<s[k]>> \o rest[k + 1]
  <2>1. 1 \in 1..n + 1 /\ n + 1 \in 1..n + 1 /\ \A k \in 1..n : k \in 1..n + 1 /\ k + 1 \in 1..n + 1
    BY <1>1
  <2>2. \A k \in 1..n + 1 : rest[k] = SubSeq(s, k, n)
    OBVIOUS
  <2> HIDE DEF rest, n
  <2> QED BY <1>7, <1>8, <1>9, <2>1, <2>2
<1> HIDE DEF n, E, rest
<1> DEFINE good == {k \in 0..n : f[Len(h[n - k]) + 1] = rest[n - k + 1]}
<1>11. 0 \in good
  <2>1. n - 0 = n /\ 0 \in 0..n
    BY <1>1
  <2>2. f[Len(h[n]) + 1] = rest[n + 1]
    BY <1>2, <1>5, <1>10 DEF Reading
  <2> QED BY <2>1, <2>2
<1>12. ASSUME NEW k \in 1..n, k - 1 \in good PROVE k \in good
  <2> DEFINE m == n - k + 1
             a == h[m - 1]
             b == h[m]
             c == s[m]
             q == Len(a) + 1
  <2>1. m \in 1..n /\ m \in 0..n /\ m - 1 \in 0..n /\ n - k = m - 1 /\ n - (k - 1) = m
    BY <1>1
  <2>2. a \in Seq(Pieces) /\ b \in Seq(Pieces) /\ c \in Pieces /\ Len(a) \in Nat
    BY <1>1, <1>3, <2>1
  <2>3. b = a \o EscapeOf(c)
    BY <2>1, <1>2 DEF Written, n
  <2>4. f[Len(b) + 1] = rest[m + 1]
    BY <1>12, <2>1
  <2>5. rest[m] = <<c>> \o rest[m + 1]
    BY <1>10, <2>1
  <2>6. Starts(b, E)
    BY <1>4, <2>1
  <2> HIDE DEF m, a, b, c
  <2>7. ASSUME c # Backslash, EscapeOf(c) = <<c>>
        PROVE  f[q] = rest[m]
    <3>1. Len(b) = q /\ b[q] = c
      BY <2>2, <2>3, <2>7
    <3>2. q \in 1..Len(E) /\ E[q] = c /\ ~ Pairs(E, q)
      BY <1>6, <2>2, <2>6, <2>7, <3>1 DEF Starts, Pairs
    <3>3. f[q] = <<c>> \o f[q + 1]
      BY <1>5, <3>2 DEF Reading
    <3> HIDE DEF q
    <3> QED BY <2>4, <2>5, <3>1, <3>3
  <2>8. ASSUME NEW d \in {Backslash, LetterN, LetterR},
               EscapeOf(c) = <<Backslash, d>>, Meant(d) = <<c>>
        PROVE  f[q] = rest[m]
    <3>0. d \in Pieces /\ Backslash \in Pieces
      BY PieceIs
    <3>1. Len(b) = q + 1 /\ b[q] = Backslash /\ b[q + 1] = d
      BY <2>2, <2>3, <2>8, <3>0
    <3>2. /\ q \in 1..Len(E) /\ E[q] = Backslash /\ E[q + 1] = d /\ q < Len(E)
      BY <1>6, <2>2, <2>6, <3>1 DEF Starts
    <3>3. f[q] = <<c>> \o f[q + 2]
      BY <1>5, <2>8, <3>2 DEF Reading, Pairs
    <3>4. Len(b) + 1 = q + 2
      BY <2>2, <3>1
    <3> HIDE DEF q
    <3> QED BY <2>4, <2>5, <3>3, <3>4
  <2>9. f[q] = rest[m]
    <3>1. CASE c # Backslash /\ EscapeOf(c) = <<c>>
      BY <2>7, <3>1
    <3>2. CASE \E d \in {Backslash, LetterN, LetterR} :
                   EscapeOf(c) = <<Backslash, d>> /\ Meant(d) = <<c>>
      BY <2>8, <3>2
    <3> HIDE DEF q
    <3> QED BY <2>2, <3>1, <3>2, EscapeOfIs
  <2>10. f[Len(h[n - k]) + 1] = rest[n - k + 1]
    BY <2>1, <2>9 DEF a, m
  <2>11. k \in 0..n
    BY <1>1
  <2> QED BY <2>10, <2>11
<1>13. n \in good
  <2>1. n \in 0..n
    BY <1>1
  <2> HIDE DEF good
  <2> QED BY <1>1, <1>11, <1>12, <2>1, Climb
<1>14. f[Len(h[0]) + 1] = rest[1]
  <2>1. n - n = 0 /\ n - n + 1 = 1
    BY <1>1
  <2> QED BY <1>13, <2>1
<1>15. Len(h[0]) + 1 = 1
  <2>1. h[0] = <<>>
    BY <1>2 DEF Written
  <2> QED BY <2>1, EmptySeq
<1> QED BY <1>5, <1>10, <1>14, <1>15 DEF E

-----------------------------------------------------------------------------
(* Lines. *)
NoBreak(a) == \A i \in 1..Len(a) : a[i] # NewLine

Put(a, b) == a \o <<NewLine>> \o b

LEMMA PutIs ==
    ASSUME NEW a \in Texts, NEW b \in Texts
    PROVE  /\ Put(a, b) \in Texts
           /\ Len(Put(a, b)) = Len(a) + 1 + Len(b)
           /\ \A i \in 1..Len(a) : Put(a, b)[i] = a[i]
           /\ Put(a, b)[Len(a) + 1] = NewLine
           /\ \A i \in 1..Len(b) : Put(a, b)[Len(a) + 1 + i] = b[i]
<1> DEFINE c == <<NewLine>>
           d == a \o c
           e == d \o b
<1>1. a \in Seq(Pieces) /\ b \in Seq(Pieces) /\ Len(a) \in Nat /\ Len(b) \in Nat
  BY TextIs
<1>2. c \in Seq(Pieces) /\ Len(c) = 1 /\ c[1] = NewLine
  BY PieceIs
<1> HIDE DEF c
<1>3. /\ d \in Seq(Pieces) /\ Len(d) = Len(a) + 1
      /\ \A i \in 1..Len(a) + 1 : d[i] = IF i <= Len(a) THEN a[i] ELSE c[i - Len(a)]
  <2>1. /\ d \in Seq(Pieces) /\ Len(d) = Len(a) + Len(c)
        /\ \A i \in 1..Len(a) + Len(c) : d[i] = IF i <= Len(a) THEN a[i] ELSE c[i - Len(a)]
    BY <1>1, <1>2, ConcatProperties
  <2> HIDE DEF d
  <2> QED BY <1>2, <2>1
<1> HIDE DEF d
<1>4. /\ e \in Seq(Pieces) /\ Len(e) = Len(a) + 1 + Len(b)
      /\ \A i \in 1..Len(a) + 1 + Len(b) :
             e[i] = IF i <= Len(a) + 1 THEN d[i] ELSE b[i - (Len(a) + 1)]
  <2>1. /\ e \in Seq(Pieces) /\ Len(e) = Len(d) + Len(b)
        /\ \A i \in 1..Len(d) + Len(b) : e[i] = IF i <= Len(d) THEN d[i] ELSE b[i - Len(d)]
    <3>1. d \in Seq(Pieces) /\ b \in Seq(Pieces)
      BY <1>1, <1>3
    <3> QED BY <3>1, ConcatProperties
  <2> HIDE DEF e
  <2> QED BY <1>3, <2>1
<1>5. Put(a, b) = e
  BY DEF Put, c, d
<1> HIDE DEF e
<1>6. \A i \in 1..Len(a) : e[i] = a[i]
  BY <1>1, <1>3, <1>4
<1>7. e[Len(a) + 1] = NewLine
  <2>1. /\ Len(a) + 1 \in 1..Len(a) + 1 /\ Len(a) + 1 \in 1..Len(a) + 1 + Len(b)
        /\ ~ (Len(a) + 1 <= Len(a)) /\ Len(a) + 1 - Len(a) = 1 /\ Len(a) + 1 <= Len(a) + 1
    BY <1>1
  <2> QED BY <1>2, <1>3, <1>4, <2>1
<1>8. ASSUME NEW i \in 1..Len(b) PROVE e[Len(a) + 1 + i] = b[i]
  <2>1. /\ Len(a) + 1 + i \in 1..Len(a) + 1 + Len(b) /\ ~ (Len(a) + 1 + i <= Len(a) + 1)
        /\ Len(a) + 1 + i - (Len(a) + 1) = i
    BY <1>1
  <2> QED BY <1>4, <2>1
<1> QED BY <1>4, <1>5, <1>6, <1>7, <1>8 DEF Texts

LEMMA PutMore ==
    ASSUME NEW a \in Texts, NEW b \in Texts, NEW c \in Texts
    PROVE  Put(a, b) \o c = Put(a, b \o c)
<1> DEFINE d == a \o <<NewLine>>
<1>1. d \in Seq(Pieces)
  BY PieceIs DEF Texts
<1> HIDE DEF d
<1>2. (d \o b) \o c = d \o (b \o c)
  BY <1>1, ConcatAssociative DEF Texts
<1> QED BY <1>2 DEF Put, d

LEMMA Parts ==
    ASSUME NEW t \in Texts, NEW m \in 1..Len(t) + 1, NEW n \in 0..Len(t)
    PROVE  /\ SubSeq(t, m, n) \in Texts
           /\ Len(SubSeq(t, m, n)) = IF m <= n THEN n - m + 1 ELSE 0
           /\ \A i \in 1..n - m + 1 : SubSeq(t, m, n)[i] = t[m + i - 1]
<1>1. Len(t) \in Nat /\ \A i \in 1..Len(t) : t[i] \in Pieces
  BY TextIs
<1>2. m \in Int /\ n \in Int /\ \A i \in m..n : t[i] \in Pieces
  BY <1>1
<1> QED BY <1>2, SubSeqProperties DEF Texts

LEMMA SameText ==
    ASSUME NEW a \in Texts, NEW b \in Texts, Len(a) = Len(b),
           \A i \in 1..Len(a) : a[i] = b[i]
    PROVE  a = b
BY SeqEqual DEF Texts

LEMMA NoText ==
    /\ <<>> \in Texts /\ Len(<<>>) = 0
    /\ \A a \in Texts : Len(a) = 0 => a = <<>>
BY EmptySeq DEF Texts

(* The end of the first line. *)
LEMMA EndIs ==
    ASSUME NEW t \in Texts, NEW n \in 1..Len(t), t[n] = NewLine,
           \A i \in 1..n - 1 : t[i] # NewLine
    PROVE  Ends(t) # {} /\ Min(Ends(t)) = n
<1>1. Len(t) \in Nat /\ DOMAIN t = 1..Len(t)
  BY TextIs
<1>2. n \in Ends(t) /\ \A i \in Ends(t) : n <= i /\ i \in Nat
  BY <1>1 DEF Ends
<1>3. Min(Ends(t)) = CHOOSE x \in Ends(t) : \A y \in Ends(t) : x <= y
  BY DEF Min
<1> DEFINE e == Ends(t)
<1> HIDE DEF e
<1> DEFINE least == CHOOSE x \in e : \A y \in e : x <= y
<1>4. least = n
  <2>1. n \in e /\ \A y \in e : n <= y /\ y \in Nat
    BY <1>2 DEF e
  <2>2. least \in e /\ \A y \in e : least <= y
    BY <2>1
  <2> HIDE DEF least
  <2>3. least <= n /\ n <= least /\ least \in Nat /\ n \in Nat
    BY <2>1, <2>2
  <2> QED BY <2>3
<1> QED BY <1>2, <1>3, <1>4 DEF e

(* A line that is followed by a NewLine is taken whole, and what follows is left. *)
LEMMA LineStands ==
    ASSUME NEW a \in Texts, NEW b \in Texts, NoBreak(a)
    PROVE  FirstLine(Put(a, b)) = a /\ Behind(Put(a, b)) = b
<1> DEFINE t == Put(a, b)
           n == Len(a) + 1
<1>1. /\ t \in Texts /\ Len(t) = Len(a) + 1 + Len(b)
      /\ \A i \in 1..Len(a) : t[i] = a[i]
      /\ t[Len(a) + 1] = NewLine
      /\ \A i \in 1..Len(b) : t[Len(a) + 1 + i] = b[i]
  BY PutIs
<1>2. Len(a) \in Nat /\ Len(b) \in Nat
  BY TextIs
<1> HIDE DEF t
<1>3. n \in 1..Len(t) /\ t[n] = NewLine /\ \A i \in 1..n - 1 : t[i] # NewLine
  BY <1>1, <1>2 DEF NoBreak
<1>4. Ends(t) # {} /\ Min(Ends(t)) = n
  <2> HIDE DEF n
  <2> QED BY <1>1, <1>3, EndIs
<1>5. FirstLine(t) = SubSeq(t, 1, n - 1) /\ Behind(t) = SubSeq(t, n + 1, Len(t))
  BY <1>4 DEF FirstLine, Behind
<1>6. SubSeq(t, 1, n - 1) = a
  <2> DEFINE u == SubSeq(t, 1, n - 1)
  <2>1. 1 \in 1..Len(t) + 1 /\ n - 1 \in 0..Len(t) /\ n - 1 - 1 + 1 = Len(a)
    BY <1>1, <1>2
  <2>2. /\ u \in Texts /\ Len(u) = (IF 1 <= n - 1 THEN n - 1 - 1 + 1 ELSE 0)
        /\ \A i \in 1..n - 1 - 1 + 1 : u[i] = t[1 + i - 1]
    BY <1>1, <2>1, Parts
  <2> HIDE DEF u
  <2>3. Len(u) = Len(a)
    BY <1>2, <2>2
  <2>4. \A i \in 1..Len(u) : u[i] = a[i]
    <3> SUFFICES ASSUME NEW i \in 1..Len(u) PROVE u[i] = a[i]
      OBVIOUS
    <3>1. i \in 1..n - 1 - 1 + 1 /\ i \in 1..Len(a) /\ 1 + i - 1 = i
      BY <1>2, <2>1, <2>3
    <3> QED BY <1>1, <2>2, <3>1
  <2>5. u = a
    BY <2>2, <2>3, <2>4, SameText
  <2> QED BY <2>5 DEF u
<1>7. SubSeq(t, n + 1, Len(t)) = b
  <2> DEFINE u == SubSeq(t, n + 1, Len(t))
  <2>1. n + 1 \in 1..Len(t) + 1 /\ Len(t) \in 0..Len(t) /\ Len(t) - (n + 1) + 1 = Len(b)
    BY <1>1, <1>2
  <2>2. /\ u \in Texts /\ Len(u) = (IF n + 1 <= Len(t) THEN Len(t) - (n + 1) + 1 ELSE 0)
        /\ \A i \in 1..Len(t) - (n + 1) + 1 : u[i] = t[n + 1 + i - 1]
    BY <1>1, <2>1, Parts
  <2> HIDE DEF u
  <2>3. Len(u) = Len(b)
    BY <1>1, <1>2, <2>2
  <2>4. \A i \in 1..Len(u) : u[i] = b[i]
    <3> SUFFICES ASSUME NEW i \in 1..Len(u) PROVE u[i] = b[i]
      OBVIOUS
    <3>1. i \in 1..Len(t) - (n + 1) + 1 /\ i \in 1..Len(b) /\ n + 1 + i - 1 = Len(a) + 1 + i
      BY <1>2, <2>1, <2>3
    <3> QED BY <1>1, <2>2, <3>1
  <2>5. u = b
    BY <2>2, <2>3, <2>4, SameText
  <2> QED BY <2>5 DEF u
<1> QED BY <1>5, <1>6, <1>7 DEF t

(* A text without a NewLine is one line. *)
LEMMA LastStands ==
    ASSUME NEW a \in Texts, NoBreak(a)
    PROVE  FirstLine(a) = a /\ Behind(a) = <<>>
<1>1. Ends(a) = {}
  BY TextIs DEF Ends, NoBreak
<1> QED BY <1>1 DEF FirstLine, Behind

LEMMA NothingLeft == Behind(<<>>) = <<>> /\ FirstLine(<<>>) = <<>>
<1>1. NoBreak(<<>>)
  BY NoText DEF NoBreak
<1> QED BY <1>1, NoText, LastStands

(* What is taken from a text is a text. *)
LEMMA LinesAreTexts ==
    ASSUME NEW t \in Texts
    PROVE  FirstLine(t) \in Texts /\ Behind(t) \in Texts
<1>1. Len(t) \in Nat /\ DOMAIN t = 1..Len(t)
  BY TextIs
<1>2. CASE Ends(t) = {}
  BY <1>2, NoText DEF FirstLine, Behind
<1>3. CASE Ends(t) # {}
  <2>1. Ends(t) \subseteq Nat
    BY <1>1 DEF Ends
  <2>2. \E x \in Ends(t) : \A y \in Ends(t) : x <= y
    BY <1>3, <2>1, First
  <2> DEFINE n == Min(Ends(t))
  <2>3. n \in Ends(t)
    BY <2>2 DEF Min
  <2> HIDE DEF n
  <2>4. n \in 1..Len(t)
    BY <1>1, <2>3 DEF Ends
  <2>5. SubSeq(t, 1, n - 1) \in Texts
    <3>1. 1 \in 1..Len(t) + 1 /\ n - 1 \in 0..Len(t)
      BY <1>1, <2>4
    <3> QED BY <3>1, Parts
  <2>6. SubSeq(t, n + 1, Len(t)) \in Texts
    <3>1. n + 1 \in 1..Len(t) + 1 /\ Len(t) \in 0..Len(t)
      BY <1>1, <2>4
    <3> QED BY <3>1, Parts
  <2> QED BY <1>3, <2>5, <2>6 DEF FirstLine, Behind, n
<1> QED BY <1>2, <1>3

(* A beginning of a line and what follows: a part of the line, or the line *)
(* and a beginning of what follows.                                        *)
LEMMA CutLine ==
    ASSUME NEW a \in Texts, NEW b \in Texts, NoBreak(a), NEW n \in 0..Len(Put(a, b))
    PROVE  LET p == SubSeq(Put(a, b), 1, n)
           IN  \/ Behind(p) = <<>>
               \/ \E m \in 0..Len(b) : p = Put(a, SubSeq(b, 1, m))
<1> DEFINE t == Put(a, b)
           p == SubSeq(t, 1, n)
<1>1. /\ t \in Texts /\ Len(t) = Len(a) + 1 + Len(b)
      /\ \A i \in 1..Len(a) : t[i] = a[i]
      /\ t[Len(a) + 1] = NewLine
      /\ \A i \in 1..Len(b) : t[Len(a) + 1 + i] = b[i]
  BY PutIs
<1>2. Len(a) \in Nat /\ Len(b) \in Nat
  BY TextIs
<1>3. n \in 0..Len(t) /\ n \in Nat
  BY <1>1, <1>2
<1> HIDE DEF t
<1>4. p \in Texts /\ Len(p) = n /\ \A i \in 1..n : p[i] = t[i]
  <2>1. 1 \in 1..Len(t) + 1 /\ n - 1 + 1 = n /\ \A i \in 1..n : 1 + i - 1 = i
    BY <1>1, <1>2, <1>3
  <2>2. /\ p \in Texts /\ Len(p) = (IF 1 <= n THEN n - 1 + 1 ELSE 0)
        /\ \A i \in 1..n - 1 + 1 : p[i] = t[1 + i - 1]
    BY <1>1, <1>3, <2>1, Parts
  <2> HIDE DEF p
  <2> QED BY <1>3, <2>1, <2>2
<1> HIDE DEF p
<1>5. CASE n <= Len(a)
  <2>1. NoBreak(p)
    <3>1. \A i \in 1..n : i \in 1..Len(a) /\ p[i] = a[i]
      <4>1. \A i \in 1..n : i \in 1..Len(a)
        BY <1>2, <1>3, <1>5
      <4> QED BY <1>1, <1>4, <4>1
    <3> QED BY <1>4, <3>1 DEF NoBreak
  <2> QED BY <1>4, <2>1, LastStands DEF p, t
<1>6. CASE ~ (n <= Len(a))
  <2> DEFINE m == n - (Len(a) + 1)
             c == SubSeq(b, 1, m)
             u == Put(a, c)
  <2>1. m \in 0..Len(b) /\ n = Len(a) + 1 + m /\ m \in Nat
    BY <1>1, <1>2, <1>3, <1>6
  <2> HIDE DEF m
  <2>2. c \in Texts /\ Len(c) = m /\ \A i \in 1..m : c[i] = b[i]
    <3>1. 1 \in 1..Len(b) + 1 /\ m - 1 + 1 = m /\ \A i \in 1..m : 1 + i - 1 = i
      BY <1>2, <2>1
    <3>2. /\ c \in Texts /\ Len(c) = (IF 1 <= m THEN m - 1 + 1 ELSE 0)
          /\ \A i \in 1..m - 1 + 1 : c[i] = b[1 + i - 1]
      BY <2>1, <3>1, Parts
    <3> HIDE DEF c
    <3> QED BY <2>1, <3>1, <3>2
  <2> HIDE DEF c
  <2>3. /\ u \in Texts /\ Len(u) = Len(a) + 1 + Len(c)
        /\ \A i \in 1..Len(a) : u[i] = a[i]
        /\ u[Len(a) + 1] = NewLine
        /\ \A i \in 1..Len(c) : u[Len(a) + 1 + i] = c[i]
    BY <2>2, PutIs
  <2> HIDE DEF u
  <2>4. \A i \in 1..Len(p) : p[i] = u[i]
    <3> SUFFICES ASSUME NEW i \in 1..n PROVE p[i] = u[i]
      BY <1>4
    <3>1. CASE i <= Len(a)
      <4>1. i \in 1..Len(a)
        BY <1>2, <3>1
      <4> QED BY <1>1, <1>4, <2>3, <4>1
    <3>2. CASE i = Len(a) + 1
      BY <1>1, <1>4, <2>3, <3>2
    <3>3. CASE ~ (i <= Len(a) + 1)
      <4> DEFINE j == i - (Len(a) + 1)
      <4>1. j \in 1..m /\ j \in 1..Len(b) /\ i = Len(a) + 1 + j
        BY <1>2, <2>1, <3>3
      <4> HIDE DEF j
      <4>2. p[i] = b[j] /\ u[i] = c[j]
        BY <1>1, <1>4, <2>2, <2>3, <4>1
      <4> QED BY <2>2, <4>1, <4>2
    <3> QED BY <1>2, <3>1, <3>2, <3>3
  <2>5. p = u
    <3>1. Len(p) = Len(u)
      BY <1>4, <2>1, <2>2, <2>3
    <3> QED BY <1>4, <2>3, <2>4, <3>1, SameText
  <2>6. \E k \in 0..Len(b) : p = Put(a, SubSeq(b, 1, k))
    BY <2>1, <2>5 DEF u, c
  <2> QED BY <2>6 DEF p, t
<1> QED BY <1>5, <1>6

-----------------------------------------------------------------------------
(* The file. *)
Values == [FieldSet -> Texts]

LEMMA FieldsAre ==
    /\ FieldSet = {"backend", "token", "api_addr", "listen_addr", "tls_cert", "tls_key",
                   "trusted_proxies"}
    /\ LineOf("backend") = 1 /\ LineOf("token") = 2 /\ LineOf("api_addr") = 3
    /\ LineOf("listen_addr") = 4 /\ LineOf("tls_cert") = 5 /\ LineOf("tls_key") = 6
    /\ LineOf("trusted_proxies") = 7
<1>1. /\ DOMAIN Fields = 1..7
      /\ Fields[1] = "backend" /\ Fields[2] = "token" /\ Fields[3] = "api_addr"
      /\ Fields[4] = "listen_addr" /\ Fields[5] = "tls_cert" /\ Fields[6] = "tls_key"
      /\ Fields[7] = "trusted_proxies"
  BY DEF Fields
<1>2. \A i \in 1..7 : i \in {1, 2, 3, 4, 5, 6, 7}
  OBVIOUS
<1>3. FieldSet = {Fields[i] : i \in 1..7}
  BY <1>1 DEF FieldSet, ToSet
<1>4. ASSUME NEW k \in 1..7, \A i \in 1..7 : Fields[i] = Fields[k] => i = k
      PROVE  LineOf(Fields[k]) = k
  <2> HIDE DEF Fields
  <2>1. LineOf(Fields[k]) = CHOOSE i \in 1..7 : Fields[i] = Fields[k]
    BY <1>1 DEF LineOf
  <2> QED BY <1>4, <2>1
<1> HIDE DEF Fields
<1>5. \A i, k \in 1..7 : Fields[i] = Fields[k] => i = k
  <2>1. \A i, k \in {1, 2, 3, 4, 5, 6, 7} : Fields[i] = Fields[k] => i = k
    BY <1>1
  <2> QED BY <1>2, <2>1
<1>6. \A k \in 1..7 : LineOf(Fields[k]) = k
  BY <1>4, <1>5
<1>7. FieldSet = {"backend", "token", "api_addr", "listen_addr", "tls_cert", "tls_key",
                  "trusted_proxies"}
  <2>1. \A i \in 1..7 : Fields[i] \in {"backend", "token", "api_addr", "listen_addr",
                                       "tls_cert", "tls_key", "trusted_proxies"}
    BY <1>1, <1>2
  <2>2. {"backend", "token", "api_addr", "listen_addr", "tls_cert", "tls_key",
         "trusted_proxies"} \subseteq {Fields[i] : i \in 1..7}
    BY <1>1
  <2> QED BY <1>3, <2>1, <2>2
<1> QED BY <1>1, <1>6, <1>7

LEMMA LeftIs ==
    ASSUME NEW t
    PROVE  /\ Left(t)[1] = t
           /\ Left(t)[2] = Behind(Left(t)[1]) /\ Left(t)[3] = Behind(Left(t)[2])
           /\ Left(t)[4] = Behind(Left(t)[3]) /\ Left(t)[5] = Behind(Left(t)[4])
           /\ Left(t)[6] = Behind(Left(t)[5]) /\ Left(t)[7] = Behind(Left(t)[6])
BY DEF Left

LEMMA LeftText ==
    ASSUME NEW t \in Texts
    PROVE  \A i \in 1..7 : Left(t)[i] \in Texts
<1>1. /\ Left(t)[1] \in Texts /\ Left(t)[2] \in Texts /\ Left(t)[3] \in Texts
      /\ Left(t)[4] \in Texts /\ Left(t)[5] \in Texts /\ Left(t)[6] \in Texts
      /\ Left(t)[7] \in Texts
  BY LeftIs, LinesAreTexts
<1>2. \A i \in 1..7 : i \in {1, 2, 3, 4, 5, 6, 7}
  OBVIOUS
<1> QED BY <1>1, <1>2

LEMMA LoadText ==
    ASSUME NEW t \in Texts
    PROVE  Load(t) \in Values
<1>1. ASSUME NEW f \in FieldSet PROVE Unescape(FirstLine(Left(t)[LineOf(f)])) \in Texts
  <2>1. LineOf(f) \in 1..7
    BY FieldsAre
  <2>2. FirstLine(Left(t)[LineOf(f)]) \in Texts
    BY <2>1, LeftText, LinesAreTexts
  <2> QED BY <2>2, UnescapeReads
<1> QED BY <1>1 DEF Load, Values

LEMMA DefaultsAre == Defaults \in Values /\ \A f \in FieldSet : Defaults[f] = Unset
BY NoText DEF Defaults, Values, Unset

LEMMA LoadedValues ==
    ASSUME NEW t \in Texts \cup {Absent}
    PROVE  LoadOrDefaults(t) \in Values
<1>1. CASE Loads(t)
  BY <1>1, LoadText DEF LoadOrDefaults, Loads
<1>2. CASE ~ Loads(t)
  BY <1>2, DefaultsAre DEF LoadOrDefaults
<1> QED BY <1>1, <1>2

(* What is written, line by line, with more behind it. *)
Stands(t, v, rest) ==
    \E a, b, c, d, e, f \in Texts :
        /\ t = Put(Escape(v["backend"]), a)
        /\ a = Put(Escape(v["token"]), b)
        /\ b = Put(Escape(v["api_addr"]), c)
        /\ c = Put(Escape(v["listen_addr"]), d)
        /\ d = Put(Escape(v["tls_cert"]), e)
        /\ e = Put(Escape(v["tls_key"]), f)
        /\ f = Put(Escape(v["trusted_proxies"]), rest)

LEMMA ValueIs ==
    ASSUME NEW v \in Values
    PROVE  \A f \in FieldSet : /\ v[f] \in Texts /\ Escape(v[f]) \in Texts
                               /\ NoBreak(Escape(v[f])) /\ Unescape(Escape(v[f])) = v[f]
BY EscapeIs, EscapeComesBack DEF Values, NoBreak

(* The content that is written has the seven lines, and keeps them in front *)
(* of what a longer file leaves behind it.                                 *)
LEMMA ContentStands ==
    ASSUME NEW v \in Values, NEW rest \in Texts
    PROVE  /\ Content(v) \in Texts /\ Content(v) \o rest \in Texts
           /\ Stands(Content(v), v, <<>>)
           /\ Stands(Content(v) \o rest, v, rest)
<1> DEFINE e1 == Escape(v["backend"])
           e2 == Escape(v["token"])
           e3 == Escape(v["api_addr"])
           e4 == Escape(v["listen_addr"])
           e5 == Escape(v["tls_cert"])
           e6 == Escape(v["tls_key"])
           e7 == Escape(v["trusted_proxies"])
<1>1. /\ e1 \in Texts /\ e2 \in Texts /\ e3 \in Texts /\ e4 \in Texts
      /\ e5 \in Texts /\ e6 \in Texts /\ e7 \in Texts
  BY ValueIs, FieldsAre
<1>2. Content(v) = Put(e1, Put(e2, Put(e3, Put(e4, Put(e5, Put(e6, Put(e7, <<>>)))))))
  BY DEF Content, Put
<1>3. ASSUME NEW x \in Texts
      PROVE  LET t == Put(e1, Put(e2, Put(e3, Put(e4, Put(e5, Put(e6, Put(e7, x)))))))
             IN  t \in Texts /\ Stands(t, v, x)
  <2> DEFINE p7 == Put(e7, x)
             p6 == Put(e6, p7)
             p5 == Put(e5, p6)
             p4 == Put(e4, p5)
             p3 == Put(e3, p4)
             p2 == Put(e2, p3)
             p1 == Put(e1, p2)
  <2>1. /\ p7 \in Texts /\ p6 \in Texts /\ p5 \in Texts /\ p4 \in Texts
        /\ p3 \in Texts /\ p2 \in Texts /\ p1 \in Texts
    <3> HIDE DEF e1, e2, e3, e4, e5, e6, e7
    <3>1. p7 \in Texts
      BY <1>1, PutIs
    <3> HIDE DEF p7
    <3>2. p6 \in Texts
      BY <1>1, <3>1, PutIs
    <3> HIDE DEF p6
    <3>3. p5 \in Texts
      BY <1>1, <3>2, PutIs
    <3> HIDE DEF p5
    <3>4. p4 \in Texts
      BY <1>1, <3>3, PutIs
    <3> HIDE DEF p4
    <3>5. p3 \in Texts
      BY <1>1, <3>4, PutIs
    <3> HIDE DEF p3
    <3>6. p2 \in Texts
      BY <1>1, <3>5, PutIs
    <3> HIDE DEF p2
    <3>7. p1 \in Texts
      BY <1>1, <3>6, PutIs
    <3> QED BY <3>1, <3>2, <3>3, <3>4, <3>5, <3>6, <3>7
  <2>2. /\ p1 = Put(e1, p2) /\ p2 = Put(e2, p3) /\ p3 = Put(e3, p4) /\ p4 = Put(e4, p5)
        /\ p5 = Put(e5, p6) /\ p6 = Put(e6, p7) /\ p7 = Put(e7, x)
    OBVIOUS
  <2> HIDE DEF p1, p2, p3, p4, p5, p6, p7
  <2>3. Stands(p1, v, x)
    BY <2>1, <2>2 DEF Stands
  <2> QED BY <2>1, <2>3 DEF p1, p2, p3, p4, p5, p6, p7
<1>4. ASSUME NEW x \in Texts
      PROVE  Put(e1, Put(e2, Put(e3, Put(e4, Put(e5, Put(e6, Put(e7, x))))))) \o rest
             = Put(e1, Put(e2, Put(e3, Put(e4, Put(e5, Put(e6, Put(e7, x \o rest)))))))
  <2>0. ASSUME NEW y \in Texts, NEW z \in Texts
        PROVE  Put(y, z) \in Texts /\ Put(y, z) \o rest = Put(y, z \o rest)
    <3>1. Put(y, z) \in Texts
      BY PutIs
    <3>2. Put(y, z) \o rest = Put(y, z \o rest)
      BY PutMore
    <3> QED BY <3>1, <3>2
  <2> HIDE DEF e1, e2, e3, e4, e5, e6, e7
  <2> DEFINE p7 == Put(e7, x)
             p6 == Put(e6, p7)
             p5 == Put(e5, p6)
             p4 == Put(e4, p5)
             p3 == Put(e3, p4)
             p2 == Put(e2, p3)
  <2>1. p7 \in Texts /\ p7 \o rest = Put(e7, x \o rest)
    BY <1>1, <2>0
  <2> HIDE DEF p7
  <2>2. p6 \in Texts /\ p6 \o rest = Put(e6, p7 \o rest)
    BY <1>1, <2>1, <2>0
  <2> HIDE DEF p6
  <2>3. p5 \in Texts /\ p5 \o rest = Put(e5, p6 \o rest)
    BY <1>1, <2>2, <2>0
  <2> HIDE DEF p5
  <2>4. p4 \in Texts /\ p4 \o rest = Put(e4, p5 \o rest)
    BY <1>1, <2>3, <2>0
  <2> HIDE DEF p4
  <2>5. p3 \in Texts /\ p3 \o rest = Put(e3, p4 \o rest)
    BY <1>1, <2>4, <2>0
  <2> HIDE DEF p3
  <2>6. p2 \in Texts /\ p2 \o rest = Put(e2, p3 \o rest)
    BY <1>1, <2>5, <2>0
  <2> HIDE DEF p2
  <2>7. Put(e1, p2) \o rest = Put(e1, p2 \o rest)
    BY <1>1, <2>6, <2>0
  <2> QED BY <2>1, <2>2, <2>3, <2>4, <2>5, <2>6, <2>7 DEF p2, p3, p4, p5, p6, p7
<1> HIDE DEF e1, e2, e3, e4, e5, e6, e7
<1>5. <<>> \in Texts /\ <<>> \o rest = rest
  BY NoText, ConcatEmptySeq DEF Texts
<1>6. Content(v) \in Texts /\ Stands(Content(v), v, <<>>)
  BY <1>2, <1>3, <1>5
<1>7. Content(v) \o rest = Put(e1, Put(e2, Put(e3, Put(e4, Put(e5, Put(e6, Put(e7, rest)))))))
  BY <1>2, <1>4, <1>5
<1>8. Content(v) \o rest \in Texts /\ Stands(Content(v) \o rest, v, rest)
  BY <1>3, <1>7
<1> QED BY <1>6, <1>8

(* What was written is read back, whatever stands behind it. *)
LEMMA ReadsBack ==
    ASSUME NEW t \in Texts, NEW v \in Values, NEW rest \in Texts, Stands(t, v, rest)
    PROVE  Loads(t) /\ LoadOrDefaults(t) = v
<1>1. PICK a, b, c, d, e, f \in Texts :
        /\ t = Put(Escape(v["backend"]), a)
        /\ a = Put(Escape(v["token"]), b)
        /\ b = Put(Escape(v["api_addr"]), c)
        /\ c = Put(Escape(v["listen_addr"]), d)
        /\ d = Put(Escape(v["tls_cert"]), e)
        /\ e = Put(Escape(v["tls_key"]), f)
        /\ f = Put(Escape(v["trusted_proxies"]), rest)
  BY DEF Stands
<1>2. /\ FirstLine(t) = Escape(v["backend"]) /\ Behind(t) = a
      /\ FirstLine(a) = Escape(v["token"]) /\ Behind(a) = b
      /\ FirstLine(b) = Escape(v["api_addr"]) /\ Behind(b) = c
      /\ FirstLine(c) = Escape(v["listen_addr"]) /\ Behind(c) = d
      /\ FirstLine(d) = Escape(v["tls_cert"]) /\ Behind(d) = e
      /\ FirstLine(e) = Escape(v["tls_key"]) /\ Behind(e) = f
      /\ FirstLine(f) = Escape(v["trusted_proxies"])
  <2>1. ASSUME NEW x \in FieldSet, NEW y \in Texts
        PROVE  FirstLine(Put(Escape(v[x]), y)) = Escape(v[x]) /\ Behind(Put(Escape(v[x]), y)) = y
    BY ValueIs, LineStands
  <2>2. \A x \in {"backend", "token", "api_addr", "listen_addr", "tls_cert", "tls_key",
                   "trusted_proxies"} : x \in FieldSet
    BY FieldsAre
  <2> QED BY <1>1, <2>1, <2>2
<1>3. /\ Left(t)[1] = t /\ Left(t)[2] = a /\ Left(t)[3] = b /\ Left(t)[4] = c
      /\ Left(t)[5] = d /\ Left(t)[6] = e /\ Left(t)[7] = f
  BY <1>2, LeftIs
<1>4. Loads(t)
  <2>1. Escape(v["listen_addr"]) \in Texts
    BY ValueIs, FieldsAre
  <2>2. Len(c) = Len(Escape(v["listen_addr"])) + 1 + Len(d)
    BY <1>1, <2>1, PutIs
  <2>3. Len(c) # 0
    BY <2>1, <2>2, TextIs
  <2>4. c # <<>>
    BY <2>3, NoText
  <2>5. t # Absent
    BY TextAssumption
  <2> QED BY <1>3, <2>4, <2>5 DEF Loads
<1>5. ASSUME NEW x \in FieldSet PROVE FirstLine(Left(t)[LineOf(x)]) = Escape(v[x])
  BY <1>2, <1>3, FieldsAre
<1>6. \A x \in FieldSet : Load(t)[x] = v[x]
  BY <1>5, ValueIs DEF Load
<1>7. Load(t) \in Values
  BY LoadText
<1>8. Load(t) = v
  BY <1>6, <1>7 DEF Values
<1> QED BY <1>4, <1>8 DEF LoadOrDefaults

(* A beginning of it is no setting, or its first three lines are whole. *)
LEMMA FragmentReads ==
    ASSUME NEW v \in Values, NEW n \in 0..Len(Content(v))
    PROVE  LET p == SubSeq(Content(v), 1, n)
           IN  /\ p \in Texts
               /\ \/ LoadOrDefaults(p) = Defaults
                  \/ \A f \in {"backend", "token", "api_addr"} : LoadOrDefaults(p)[f] = v[f]
<1> DEFINE t == Content(v)
           p == SubSeq(t, 1, n)
<1>1. t \in Texts /\ Stands(t, v, <<>>)
  BY NoText, ContentStands
<1> HIDE DEF t
<1>2. p \in Texts
  <2>1. Len(t) \in Nat /\ n \in 0..Len(t)
    BY <1>1, TextIs DEF t
  <2>2. 1 \in 1..Len(t) + 1
    BY <2>1
  <2> QED BY <1>1, <2>1, <2>2, Parts
<1>3. PICK a, b, c \in Texts :
        /\ t = Put(Escape(v["backend"]), a)
        /\ a = Put(Escape(v["token"]), b)
        /\ b = Put(Escape(v["api_addr"]), c)
  BY <1>1 DEF Stands
<1>4. ASSUME NEW x \in {"backend", "token", "api_addr"}, NEW y \in Texts
      PROVE  /\ Escape(v[x]) \in Texts /\ NoBreak(Escape(v[x]))
             /\ FirstLine(Put(Escape(v[x]), y)) = Escape(v[x]) /\ Behind(Put(Escape(v[x]), y)) = y
  <2>1. x \in FieldSet
    BY FieldsAre
  <2> QED BY <2>1, ValueIs, LineStands
<1>5. ASSUME Left(p)[4] = <<>> PROVE LoadOrDefaults(p) = Defaults
  BY <1>5 DEF LoadOrDefaults, Loads
<1>6. ASSUME Left(p)[4] # <<>>
      PROVE  \A f \in {"backend", "token", "api_addr"} : LoadOrDefaults(p)[f] = v[f]
  <2>1. /\ Left(p)[1] = p
        /\ Left(p)[2] = Behind(p) /\ Left(p)[3] = Behind(Behind(p))
        /\ Left(p)[4] = Behind(Behind(Behind(p)))
    <3> HIDE DEF p
    <3> QED BY LeftIs
  <2> DEFINE p2 == Behind(p)
             p3 == Behind(p2)
             p4 == Behind(p3)
  <2>2. p4 # <<>> /\ p3 # <<>> /\ p2 # <<>>
    BY <1>6, <2>1, NothingLeft
  <2>3. \E m \in 0..Len(a) : p = Put(Escape(v["backend"]), SubSeq(a, 1, m))
    BY <1>3, <1>4, <2>2, CutLine DEF t
  <2>4. PICK m \in 0..Len(a) : p = Put(Escape(v["backend"]), SubSeq(a, 1, m))
    BY <2>3
  <2>5. \A y \in Texts : \A k \in 0..Len(y) : SubSeq(y, 1, k) \in Texts
    <3> SUFFICES ASSUME NEW y \in Texts, NEW k \in 0..Len(y) PROVE SubSeq(y, 1, k) \in Texts
      OBVIOUS
    <3>1. 1 \in 1..Len(y) + 1
      BY TextIs
    <3> QED BY <3>1, Parts
  <2> HIDE DEF p
  <2>6. FirstLine(p) = Escape(v["backend"]) /\ p2 = SubSeq(a, 1, m)
    BY <1>4, <2>4, <2>5
  <2> HIDE DEF p2
  <2>7. PICK k \in 0..Len(b) : p2 = Put(Escape(v["token"]), SubSeq(b, 1, k))
    <3>1. /\ Escape(v["token"]) \in Texts /\ NoBreak(Escape(v["token"]))
          /\ m \in 0..Len(Put(Escape(v["token"]), b))
          /\ p2 = SubSeq(Put(Escape(v["token"]), b), 1, m)
      BY <1>3, <1>4, <2>4, <2>6
    <3> QED BY <2>2, <3>1, CutLine
  <2>8. FirstLine(p2) = Escape(v["token"]) /\ p3 = SubSeq(b, 1, k)
    BY <1>4, <2>5, <2>7
  <2> HIDE DEF p3
  <2>9. PICK l \in 0..Len(c) : p3 = Put(Escape(v["api_addr"]), SubSeq(c, 1, l))
    BY <1>3, <1>4, <2>2, <2>7, <2>8, CutLine
  <2>10. FirstLine(p3) = Escape(v["api_addr"])
    BY <1>4, <2>5, <2>9
  <2>11. ASSUME NEW x \in {"backend", "token", "api_addr"}
         PROVE  FirstLine(Left(p)[LineOf(x)]) = Escape(v[x])
    BY <2>1, <2>6, <2>8, <2>10, FieldsAre DEF p2, p3
  <2>12. Loads(p)
    BY <1>2, <1>6, TextAssumption DEF Loads
  <2>13. ASSUME NEW x \in {"backend", "token", "api_addr"}
         PROVE  LoadOrDefaults(p)[x] = v[x]
    <3>1. x \in FieldSet
      BY FieldsAre
    <3>2. Load(p)[x] = Unescape(FirstLine(Left(p)[LineOf(x)]))
      BY <3>1 DEF Load
    <3>3. Unescape(Escape(v[x])) = v[x]
      BY <3>1, ValueIs
    <3> QED BY <2>11, <2>12, <3>2, <3>3 DEF LoadOrDefaults
  <2> QED BY <2>13
<1> QED BY <1>2, <1>5, <1>6 DEF t

(* What was in the file is only ever left behind what is written. *)
LEMMA WrittenOver ==
    ASSUME NEW t \in Texts, NEW c \in Texts
    PROVE  /\ \E rest \in Texts : WriteOver(t, c) = c \o rest
           /\ t = <<>> => WriteOver(t, c) = c
           /\ WriteOver(t, c) \in Texts
<1>1. Len(t) \in Nat /\ Len(c) \in Nat
  BY TextIs
<1>2. c \o <<>> = c /\ <<>> \in Texts
  BY NoText, ConcatEmptySeq DEF Texts
<1>3. CASE Len(t) > Len(c)
  <2> DEFINE r == SubSeq(t, Len(c) + 1, Len(t))
  <2>1. r \in Texts
    <3>1. Len(c) + 1 \in 1..Len(t) + 1 /\ Len(t) \in 0..Len(t)
      BY <1>1, <1>3
    <3> QED BY <3>1, Parts
  <2>2. WriteOver(t, c) = c \o r
    BY <1>3 DEF WriteOver
  <2>3. t # <<>>
    BY <1>1, <1>3, NoText
  <2> HIDE DEF r
  <2>4. c \o r \in Texts
    BY <2>1, ConcatProperties DEF Texts
  <2> QED BY <2>1, <2>2, <2>3, <2>4
<1>4. CASE ~ (Len(t) > Len(c))
  <2>1. WriteOver(t, c) = c \o <<>>
    BY <1>4 DEF WriteOver
  <2> QED BY <1>2, <2>1
<1> QED BY <1>3, <1>4

-----------------------------------------------------------------------------
(* The command line. *)
Orders == UNION {[F -> Texts] : F \in SUBSET FieldSet}

LEMMA ArgsAre ==
    ASSUME NEW args \in CommandLines, IsSetting(args)
    PROVE  SettingArgs(args) \in Seq(Texts)
<1> DEFINE found == {i \in DOMAIN args : args[i] \in SettingArg}
           pos == CHOOSE i \in DOMAIN args : /\ args[i] \in SettingArg
                                             /\ \A j \in 1..(i - 1) : args[j] \notin SettingArg
<1>1. args \in Seq(Texts) /\ Len(args) \in Nat /\ DOMAIN args = 1..Len(args)
  BY TextAssumption
<1>2. found # {} /\ found \subseteq Nat
  <2>1. PICK x \in ToSet(args) : x \in SettingArg
    BY DEF IsSetting
  <2>2. PICK i \in DOMAIN args : args[i] = x
    BY <2>1 DEF ToSet
  <2> QED BY <1>1, <2>1, <2>2
<1>3. PICK k \in found : \A j \in found : k <= j
  <2> HIDE DEF found
  <2> QED BY <1>2, First
<1>4. k \in DOMAIN args /\ args[k] \in SettingArg /\ \A j \in 1..(k - 1) : args[j] \notin SettingArg
  BY <1>1, <1>3
<1>5. pos \in DOMAIN args
  BY <1>4
<1>6. SettingArgs(args) = SubSeq(args, pos + 1, Len(args))
  BY DEF SettingArgs
<1> HIDE DEF pos
<1>7. pos \in 1..Len(args) /\ pos + 1 \in Int /\ Len(args) \in Int
  BY <1>1, <1>5
<1>8. \A i \in pos + 1..Len(args) : args[i] \in Texts
  BY <1>1, <1>7, ElementOfSeq
<1> QED BY <1>6, <1>7, <1>8, SubSeqProperties

LEMMA GreatestIs ==
    ASSUME NEW n \in Nat, NEW T, T \subseteq 1..n, T # {}
    PROVE  Max(T) \in T
<1> DEFINE D == {n - i : i \in T}
<1>1. D \subseteq Nat /\ D # {}
  OBVIOUS
<1>2. PICK d \in D : \A e \in D : d <= e
  <2> HIDE DEF D
  <2> QED BY <1>1, First
<1>3. PICK m \in T : d = n - m
  BY <1>2
<1>4. \A y \in T : m >= y
  <2> SUFFICES ASSUME NEW y \in T PROVE m >= y
    OBVIOUS
  <2>1. n - m <= n - y
    BY <1>2, <1>3
  <2>2. n \in Nat /\ m \in 1..n /\ y \in 1..n
    BY <1>3
  <2> QED BY <2>1, <2>2
<1>5. \E x \in T : \A y \in T : x >= y
  BY <1>3, <1>4
<1> QED BY <1>5 DEF Max

(* Every word a command line gives is one it offers, and a text. *)
LEMMA OrderIs ==
    ASSUME NEW args \in CommandLines, IsSetting(args), WellFormed(SettingArgs(args))
    PROVE  /\ Order(SettingArgs(args)) \in Orders
           /\ \A f \in DOMAIN Order(SettingArgs(args)) : Order(SettingArgs(args))[f] \in Offered(f)
<1> DEFINE rest == SettingArgs(args)
           F == {FieldOf(rest[i]) : i \in Flags(rest)}
           o == Order(rest)
<1>1. rest \in Seq(Texts) /\ Len(rest) \in Nat /\ DOMAIN rest = 1..Len(rest)
  BY ArgsAre
<1> HIDE DEF rest
<1>2. /\ Len(rest) % 2 = 0
      /\ \A i \in Flags(rest) : IsFlag(rest[i]) /\ Legal(FieldOf(rest[i]), rest[i + 1])
  BY DEF WellFormed, rest
<1>3. \A i \in Flags(rest) : FieldOf(rest[i]) \in FieldSet
  BY <1>2 DEF IsFlag, FieldOf
<1>4. \A i \in Flags(rest) : i \in 1..Len(rest) /\ i + 1 \in 1..Len(rest)
  BY <1>1, <1>2 DEF Flags
<1>5. DOMAIN o = F
  BY DEF Order
<1>6. ASSUME NEW f \in F PROVE o[f] \in Texts
  <2> DEFINE mine == {i \in Flags(rest) : FieldOf(rest[i]) = f}
             latest == Max(mine)
  <2>1. mine # {} /\ mine \subseteq 1..Len(rest)
    BY <1>4
  <2> HIDE DEF mine
  <2>2. latest \in mine
    BY <1>1, <2>1, GreatestIs
  <2>3. o[f] = Text(f, rest[latest + 1])
    BY DEF Order, mine
  <2> HIDE DEF latest
  <2>4. latest \in Flags(rest) /\ FieldOf(rest[latest]) = f
    BY <2>2 DEF mine
  <2>5. rest[latest + 1] \in Texts
    BY <1>1, <1>4, <2>4, ElementOfSeq
  <2>6. Legal(f, rest[latest + 1])
    BY <1>2, <2>4
  <2>7. CASE IsAddr(f)
    <3>1. rest[latest + 1] \in DOMAIN AddrText
      BY <2>6, <2>7 DEF Legal
    <3>2. AddrText[rest[latest + 1]] \in Texts
      BY <3>1, AddrTextAssumption
    <3> QED BY <2>3, <2>7, <3>2 DEF Text
  <2>8. CASE ~ IsAddr(f)
    BY <2>3, <2>5, <2>8 DEF Text
  <2> QED BY <2>7, <2>8
<1>7. F \subseteq FieldSet
  BY <1>3
<1>8. o \in Orders
  <2>1. o = [f \in F |-> o[f]]
    BY DEF Order
  <2> HIDE DEF o, F
  <2>2. [f \in F |-> o[f]] \in [F -> Texts]
    BY <1>6
  <2>3. o \in [F -> Texts]
    BY <2>1, <2>2
  <2> QED BY <1>7, <2>3 DEF Orders
<1>9. ASSUME NEW f \in DOMAIN o PROVE o[f] \in Offered(f)
  BY <1>9 DEF Offered, Accepted, rest
<1> QED BY <1>8, <1>9 DEF rest

-----------------------------------------------------------------------------
(* The invariant. *)
Commands == [phase : {"idle", "open", "write"}, order : Orders, merged : Values]

SettingsType ==
    /\ file \in Texts \cup {Absent}
    /\ cmd \in [Tasks -> Commands]
    /\ given \in Values
    /\ calm \in BOOLEAN
    /\ mixed \in BOOLEAN

Active(t)  == cmd[t].phase # "idle"
Writing(t) == cmd[t].phase = "write"

(* What a command carries is what its line gave, over what it had read. *)
Carried ==
    \A t \in Tasks : Active(t) =>
        /\ \A f \in DOMAIN cmd[t].order : /\ cmd[t].merged[f] = cmd[t].order[f]
                                          /\ cmd[t].order[f] \in Offered(f)
        /\ SchemeOk(cmd[t].merged.backend)

(* Whoever is going to write has created the file. *)
Created == (\E t \in Tasks : Writing(t)) => file # Absent

(* While calm, one command is under way at most, and it merged what was    *)
(* given before it.                                                        *)
Alone ==
    calm =>
        /\ \A t, u \in Tasks : Active(t) /\ Active(u) => t = u
        /\ \A t \in Tasks : Active(t) => cmd[t].merged = Over(cmd[t].order, given)

(* Three whole values some command gave, each for its field. *)
Whole(v) ==
    /\ \A f \in {"backend", "token", "api_addr"} : v[f] \in Offered(f) \cup {Unset}
    /\ SchemeOk(v.backend)

(* Unless lines were mixed, neither the file nor a command has others. *)
WholeValues ==
    ~ mixed => /\ Whole(LoadOrDefaults(file))
               /\ \A t \in Tasks : Active(t) => Whole(cmd[t].merged)

SettingsInv ==
    /\ SettingsType
    /\ Carried
    /\ Created
    /\ Alone
    /\ SettingIsKept
    /\ WholeValues
    /\ ServesWhatWasSet

-----------------------------------------------------------------------------
LEMMA OverIs ==
    ASSUME NEW o \in Orders, NEW v \in Values
    PROVE  /\ Over(o, v) \in Values
           /\ \A f \in FieldSet : Over(o, v)[f] = IF f \in DOMAIN o THEN o[f] ELSE v[f]
<1>1. \A f \in DOMAIN o : o[f] \in Texts
  BY DEF Orders
<1>2. \A f \in FieldSet : v[f] \in Texts
  BY DEF Values
<1> QED BY <1>1, <1>2 DEF Over, Values

LEMMA NothingOffered == Whole(Defaults)
<1>1. \A f \in {"backend", "token", "api_addr"} : f \in FieldSet /\ Defaults[f] = Unset
  BY FieldsAre, DefaultsAre
<1>2. Defaults.backend = Unset
  BY <1>1
<1> QED BY <1>1, <1>2 DEF Whole, SchemeOk

LEMMA IdleIs == Idle \in Commands /\ Idle.phase = "idle"
<1>1. [f \in {} |-> Unset] \in [{} -> Texts] /\ {} \in SUBSET FieldSet
  OBVIOUS
<1>2. [f \in {} |-> Unset] \in Orders
  BY <1>1 DEF Orders
<1> QED BY <1>2, DefaultsAre DEF Idle, Commands

LEMMA AtStart == Init => SettingsInv
<1> SUFFICES ASSUME Init PROVE SettingsInv
  OBVIOUS
<1>1. Idle \in Commands /\ Idle.phase = "idle"
  BY IdleIs
<1>2. SettingsType
  BY <1>1, DefaultsAre DEF Init, SettingsType
<1>3. \A t \in Tasks : ~ Active(t) /\ ~ Writing(t)
  BY <1>1 DEF Init, Active, Writing
<1>4. LoadOrDefaults(file) = Defaults
  BY DEF Init, LoadOrDefaults, Loads
<1>5. SettingIsKept
  BY <1>4 DEF Init, SettingIsKept
<1>6. WholeValues
  BY <1>3, <1>4, NothingOffered DEF WholeValues
<1>7. ServesWhatWasSet
  BY DEF Init, Off, ServesWhatWasSet
<1> QED BY <1>2, <1>3, <1>5, <1>6, <1>7 DEF SettingsInv, Carried, Created, Alone

(* One command takes a step, the others none. *)
LEMMA OneSteps ==
    ASSUME SettingsType, NEW t \in Tasks, NEW c \in Commands, cmd' = [cmd EXCEPT ![t] = c]
    PROVE  /\ cmd' \in [Tasks -> Commands]
           /\ cmd'[t] = c
           /\ Active(t)' <=> c.phase # "idle"
           /\ Writing(t)' <=> c.phase = "write"
           /\ \A u \in Tasks \ {t} : /\ cmd'[u] = cmd[u]
                                     /\ Active(u)' <=> Active(u)
                                     /\ Writing(u)' <=> Writing(u)
BY DEF SettingsType, Active, Writing

LEMMA OthersAre ==
    ASSUME NEW t \in Tasks, Others(t) = {}
    PROVE  \A u \in Tasks \ {t} : ~ Active(u)
BY DEF Others, Active

(* A command that has merged carries what its line gave and the rest of    *)
(* what it read; if all was calm and it is alone, that is what was given.  *)
LEMMA PrepareKeeps ==
    ASSUME SettingsInv, NEW t \in Tasks, NEW args \in CommandLines, Prepare(t, args)
    PROVE  SettingsInv'
<1> DEFINE o == Order(SettingArgs(args))
           saved == LoadOrDefaults(file)
           m == Merge(saved, o)
           c == [phase |-> "open", order |-> o, merged |-> m]
<1>1. /\ IsSetting(args) /\ WellFormed(SettingArgs(args))
      /\ cmd[t].phase = "idle" /\ SchemeOk(m.backend)
      /\ cmd' = [cmd EXCEPT ![t] = c]
      /\ calm' = (calm /\ Others(t) = {})
      /\ file' = file /\ waf' = waf /\ given' = given /\ mixed' = mixed
  BY DEF Prepare
<1>2. o \in Orders /\ \A f \in DOMAIN o : o[f] \in Offered(f)
  BY <1>1, OrderIs
<1>3. saved \in Values
  BY LoadedValues DEF SettingsInv, SettingsType
<1> HIDE DEF o, saved
<1>4. m = Over(o, saved)
  BY DEF Merge
<1>5. m \in Values /\ \A f \in FieldSet : m[f] = IF f \in DOMAIN o THEN o[f] ELSE saved[f]
  BY <1>2, <1>3, <1>4, OverIs
<1> HIDE DEF m
<1>6. c \in Commands /\ c.phase = "open" /\ c.order = o /\ c.merged = m
  BY <1>2, <1>5 DEF Commands
<1> HIDE DEF c
<1>7. DOMAIN o \subseteq FieldSet
  BY <1>2 DEF Orders
<1>8. /\ cmd' \in [Tasks -> Commands] /\ cmd'[t] = c
      /\ ~ Writing(t)'
      /\ \A u \in Tasks \ {t} : /\ cmd'[u] = cmd[u]
                                /\ Active(u)' <=> Active(u)
                                /\ Writing(u)' <=> Writing(u)
  BY <1>1, <1>6, OneSteps DEF SettingsInv
<1>9. ~ Writing(t)
  BY <1>1 DEF Writing
<1>10. SettingsType'
  BY <1>1, <1>8 DEF SettingsInv, SettingsType
<1>11. Carried'
  <2> SUFFICES ASSUME NEW u \in Tasks, Active(u)'
               PROVE  /\ \A f \in DOMAIN cmd'[u].order : /\ cmd'[u].merged[f] = cmd'[u].order[f]
                                                         /\ cmd'[u].order[f] \in Offered(f)
                      /\ SchemeOk(cmd'[u].merged.backend)
    BY DEF Carried
  <2>1. CASE u = t
    BY <1>1, <1>2, <1>5, <1>6, <1>7, <1>8, <2>1
  <2>2. CASE u # t
    BY <1>8, <2>2 DEF SettingsInv, Carried
  <2> QED BY <2>1, <2>2
<1>12. Created'
  BY <1>1, <1>8 DEF SettingsInv, Created
<1>13. ASSUME calm' PROVE /\ \A u \in Tasks \ {t} : ~ Active(u)
                          /\ saved = given
  <2>1. calm /\ \A u \in Tasks \ {t} : ~ Active(u)
    BY <1>1, <1>13, OthersAre
  <2>2. \A u \in Tasks : cmd[u].phase # "write"
    BY <1>1, <2>1 DEF Active
  <2> QED BY <2>1, <2>2 DEF SettingsInv, SettingIsKept, saved
<1>14. Alone'
  <2> SUFFICES ASSUME calm'
               PROVE  /\ \A u, w \in Tasks : Active(u)' /\ Active(w)' => u = w
                      /\ \A u \in Tasks : Active(u)' => cmd'[u].merged = Over(cmd'[u].order, given')
    BY DEF Alone
  <2>1. \A u \in Tasks : Active(u)' => u = t
    BY <1>8, <1>13
  <2>2. cmd'[t].merged = Over(cmd'[t].order, given')
    BY <1>1, <1>4, <1>6, <1>8, <1>13
  <2> QED BY <2>1, <2>2
<1>15. SettingIsKept'
  <2>1. ASSUME calm' PROVE LoadOrDefaults(file') = given'
    BY <1>1, <1>13, <2>1 DEF saved
  <2> QED BY <2>1 DEF SettingIsKept
<1>16. WholeValues'
  <2> SUFFICES ASSUME ~ mixed
               PROVE  /\ Whole(LoadOrDefaults(file))
                      /\ \A u \in Tasks : Active(u)' => Whole(cmd'[u].merged)
    BY <1>1 DEF WholeValues, Whole
  <2>1. Whole(saved) /\ \A u \in Tasks : Active(u) => Whole(cmd[u].merged)
    BY DEF SettingsInv, WholeValues, saved
  <2>2. \A f \in {"backend", "token", "api_addr"} : f \in FieldSet
    BY FieldsAre
  <2>3. Whole(m)
    BY <1>1, <1>2, <1>5, <2>1, <2>2 DEF Whole
  <2> QED BY <1>6, <1>8, <2>1, <2>3 DEF saved
<1>17. ServesWhatWasSet'
  BY <1>1 DEF SettingsInv, ServesWhatWasSet
<1> QED BY <1>10, <1>11, <1>12, <1>14, <1>15, <1>16, <1>17 DEF SettingsInv

(* A command that ends carries nothing any more. *)
LEMMA CommandEnds ==
    ASSUME SettingsType, NEW t \in Tasks, cmd' = [cmd EXCEPT ![t] = Idle]
    PROVE  /\ cmd' \in [Tasks -> Commands]
           /\ ~ Active(t)' /\ ~ Writing(t)'
           /\ \A u \in Tasks \ {t} : /\ cmd'[u] = cmd[u]
                                     /\ Active(u)' <=> Active(u)
                                     /\ Writing(u)' <=> Writing(u)
<1>1. Idle \in Commands /\ Idle.phase = "idle"
  BY IdleIs
<1> QED BY <1>1, OneSteps

LEMMA EndKeeps ==
    ASSUME SettingsInv, NEW t \in Tasks, cmd' = [cmd EXCEPT ![t] = Idle], ~ Writing(t),
           UNCHANGED <<file, waf, given, calm, mixed>>
    PROVE  SettingsInv'
<1>1. /\ cmd' \in [Tasks -> Commands]
      /\ ~ Active(t)' /\ ~ Writing(t)'
      /\ \A u \in Tasks \ {t} : /\ cmd'[u] = cmd[u]
                                /\ Active(u)' <=> Active(u)
                                /\ Writing(u)' <=> Writing(u)
  BY CommandEnds DEF SettingsInv
<1>2. \A u \in Tasks : Active(u)' => u # t /\ Active(u) /\ cmd'[u] = cmd[u]
  BY <1>1
<1>3. SettingsType'
  BY <1>1 DEF SettingsInv, SettingsType
<1>4. Carried'
  BY <1>2 DEF SettingsInv, Carried
<1>5. Created'
  BY <1>1 DEF SettingsInv, Created
<1>6. Alone'
  BY <1>2 DEF SettingsInv, Alone
<1>7. SettingIsKept'
  <2>1. \A u \in Tasks : Writing(u)' <=> Writing(u)
    BY <1>1
  <2> QED BY <2>1 DEF SettingsInv, SettingIsKept, Writing
<1>8. WholeValues'
  BY <1>2 DEF SettingsInv, WholeValues, Whole
<1>9. ServesWhatWasSet'
  BY DEF SettingsInv, ServesWhatWasSet
<1> QED BY <1>3, <1>4, <1>5, <1>6, <1>7, <1>8, <1>9 DEF SettingsInv

(* Opening empties the file. *)
LEMMA OpenKeeps ==
    ASSUME SettingsInv, NEW t \in Tasks, Open(t)
    PROVE  SettingsInv'
<1>1. /\ cmd[t].phase = "open"
      /\ waf' = waf /\ given' = given /\ calm' = calm /\ mixed' = mixed
  BY DEF Open
<1>2. cmd \in [Tasks -> Commands] /\ cmd[t] \in Commands /\ Active(t) /\ ~ Writing(t)
  BY <1>1 DEF SettingsInv, SettingsType, Active, Writing
<1>3. CASE file' = <<>> /\ cmd' = [cmd EXCEPT ![t].phase = "write"]
  <2> DEFINE c == [cmd[t] EXCEPT !.phase = "write"]
  <2>1. c \in Commands /\ c.phase = "write" /\ c.order = cmd[t].order /\ c.merged = cmd[t].merged
    BY <1>2 DEF Commands
  <2>2. cmd' = [cmd EXCEPT ![t] = c]
    BY <1>3
  <2> HIDE DEF c
  <2>3. /\ cmd' \in [Tasks -> Commands] /\ cmd'[t] = c
        /\ Active(t)' /\ Writing(t)'
        /\ \A u \in Tasks \ {t} : /\ cmd'[u] = cmd[u]
                                  /\ Active(u)' <=> Active(u)
                                  /\ Writing(u)' <=> Writing(u)
    BY <2>1, <2>2, OneSteps DEF SettingsInv
  <2>4. /\ \A u \in Tasks : Active(u)' <=> Active(u)
        /\ \A u \in Tasks : cmd'[u].order = cmd[u].order /\ cmd'[u].merged = cmd[u].merged
    BY <1>2, <2>1, <2>3
  <2>5. file' \in Texts /\ file' # Absent /\ LoadOrDefaults(file') = Defaults
    <3>1. <<>> \in Texts /\ <<>> # Absent
      BY NoText, TextAssumption
    <3>2. Left(<<>>)[4] = <<>>
      BY LeftIs, NothingLeft
    <3> QED BY <1>3, <3>1, <3>2 DEF LoadOrDefaults, Loads
  <2>6. SettingsType'
    BY <1>1, <2>3, <2>5 DEF SettingsInv, SettingsType
  <2>7. Carried'
    BY <2>4 DEF SettingsInv, Carried
  <2>8. Created' /\ SettingIsKept'
    <3>1. cmd'[t].phase = "write"
      BY <2>1, <2>3
    <3> QED BY <2>5, <3>1 DEF Created, SettingIsKept
  <2>9. Alone'
    BY <1>1, <2>4 DEF SettingsInv, Alone
  <2>10. WholeValues'
    <3> SUFFICES ASSUME ~ mixed
                 PROVE  /\ Whole(LoadOrDefaults(file'))
                        /\ \A u \in Tasks : Active(u)' => Whole(cmd'[u].merged)
      BY <1>1 DEF WholeValues, Whole
    <3> QED BY <2>4, <2>5, NothingOffered DEF SettingsInv, WholeValues
  <2>11. ServesWhatWasSet'
    BY <1>1 DEF SettingsInv, ServesWhatWasSet
  <2> QED BY <2>6, <2>7, <2>8, <2>9, <2>10, <2>11 DEF SettingsInv
<1>4. CASE UNCHANGED file /\ cmd' = [cmd EXCEPT ![t] = Idle]
  BY <1>1, <1>2, <1>4, EndKeeps
<1> QED BY <1>3, <1>4 DEF Open

(* What was written is what is read back. *)
LEMMA WriteKeeps ==
    ASSUME SettingsInv, NEW t \in Tasks, Write(t)
    PROVE  SettingsInv'
<1> DEFINE v == cmd[t].merged
           o == cmd[t].order
<1>1. /\ cmd[t].phase = "write" /\ file' = WriteOver(file, Content(v))
      /\ given' = Over(o, given)
      /\ calm' = (calm \/ Renews(t)) /\ mixed' = (mixed /\ ~ Renews(t))
      /\ cmd' = [cmd EXCEPT ![t] = Idle] /\ waf' = waf
  BY DEF Write
<1>2. /\ v \in Values /\ o \in Orders /\ Active(t) /\ Writing(t)
      /\ given \in Values
  <2>1. cmd[t] \in Commands
    BY DEF SettingsInv, SettingsType
  <2> QED BY <1>1, <2>1 DEF SettingsInv, SettingsType, Commands, Active, Writing
<1>3. /\ cmd' \in [Tasks -> Commands]
      /\ ~ Active(t)' /\ ~ Writing(t)'
      /\ \A u \in Tasks \ {t} : /\ cmd'[u] = cmd[u]
                                /\ Active(u)' <=> Active(u)
                                /\ Writing(u)' <=> Writing(u)
  BY <1>1, CommandEnds DEF SettingsInv
<1>4. \A u \in Tasks : Active(u)' => u # t /\ Active(u) /\ cmd'[u] = cmd[u]
  BY <1>3
<1>5. /\ \A f \in DOMAIN o : v[f] = o[f] /\ o[f] \in Offered(f)
      /\ SchemeOk(v.backend)
  BY <1>2 DEF SettingsInv, Carried
<1> HIDE DEF v, o
<1>6. file' \in Texts /\ LoadOrDefaults(file') = v
  <2>1. file \in Texts
    BY <1>2 DEF SettingsInv, SettingsType, Created
  <2>2. Content(v) \in Texts
    BY <1>2, NoText, ContentStands
  <2>3. file' \in Texts /\ \E rest \in Texts : file' = Content(v) \o rest
    BY <1>1, <2>1, <2>2, WrittenOver
  <2>4. PICK rest \in Texts : file' = Content(v) \o rest
    BY <2>3
  <2>5. Stands(file', v, rest)
    BY <1>2, <2>4, ContentStands
  <2> QED BY <1>2, <2>3, <2>5, ReadsBack
<1>7. /\ given' \in Values
      /\ \A f \in FieldSet : given'[f] = IF f \in DOMAIN o THEN o[f] ELSE given[f]
  BY <1>1, <1>2, OverIs
<1>8. ASSUME Renews(t) PROVE /\ DOMAIN o = FieldSet
                            /\ \A u \in Tasks \ {t} : ~ Active(u)
  BY <1>8, OthersAre DEF Renews, o
<1>9. ASSUME calm' PROVE v = given' /\ \A u \in Tasks \ {t} : ~ Active(u)
  <2>1. CASE calm
    BY <1>1, <1>2, <2>1 DEF SettingsInv, Alone, v, o
  <2>2. CASE Renews(t)
    <3>1. \A f \in FieldSet : v[f] = given'[f]
      BY <1>5, <1>7, <1>8, <2>2
    <3>2. v = given'
      BY <1>2, <1>7, <3>1 DEF Values
    <3> QED BY <1>8, <2>2, <3>2
  <2> QED BY <1>1, <1>9, <2>1, <2>2
<1>10. SettingsType'
  <2>1. calm' \in BOOLEAN /\ mixed' \in BOOLEAN
    BY <1>1 DEF Renews
  <2> QED BY <1>3, <1>6, <1>7, <2>1 DEF SettingsType
<1>11. Carried'
  BY <1>4 DEF SettingsInv, Carried
<1>12. Created'
  BY <1>6, TextAssumption DEF Created
<1>13. Alone'
  BY <1>4, <1>9 DEF Alone
<1>14. SettingIsKept'
  BY <1>6, <1>9 DEF SettingIsKept
<1>15. WholeValues'
  <2> SUFFICES ASSUME ~ mixed'
               PROVE  /\ Whole(v)
                      /\ \A u \in Tasks : Active(u)' => Whole(cmd[u].merged)
    BY <1>4, <1>6 DEF WholeValues, Whole
  <2>1. CASE ~ mixed
    BY <1>2, <1>4, <2>1 DEF SettingsInv, WholeValues, v
  <2>2. CASE Renews(t)
    <3>1. \A f \in {"backend", "token", "api_addr"} : f \in FieldSet
      BY FieldsAre
    <3>2. Whole(v)
      BY <1>5, <1>8, <2>2, <3>1 DEF Whole
    <3> QED BY <1>4, <1>8, <2>2, <3>2
  <2> QED BY <1>1, <2>1, <2>2
<1>16. ServesWhatWasSet'
  BY <1>1 DEF SettingsInv, ServesWhatWasSet
<1> QED BY <1>10, <1>11, <1>12, <1>13, <1>14, <1>15, <1>16 DEF SettingsInv

(* A beginning of it has no value that is not whole, unless it is mixed    *)
(* with another text.                                                      *)
LEMMA CutKeeps ==
    ASSUME SettingsInv, NEW t \in Tasks, Cut(t)
    PROVE  SettingsInv'
<1> DEFINE v == cmd[t].merged
<1>1. PICK n \in 0..(Len(Content(v)) - 1) : file' = WriteOver(file, SubSeq(Content(v), 1, n))
  BY DEF Cut
<1>2. /\ cmd[t].phase = "write" /\ calm' = FALSE /\ mixed' = (mixed \/ file # <<>>)
      /\ cmd' = [cmd EXCEPT ![t] = Idle] /\ waf' = waf /\ given' = given
  BY DEF Cut
<1>3. v \in Values /\ Active(t) /\ Writing(t)
  <2>1. cmd[t] \in Commands
    BY DEF SettingsInv, SettingsType
  <2> QED BY <1>2, <2>1 DEF Commands, Active, Writing
<1>4. /\ cmd' \in [Tasks -> Commands]
      /\ ~ Active(t)' /\ ~ Writing(t)'
      /\ \A u \in Tasks \ {t} : cmd'[u] = cmd[u] /\ (Active(u)' <=> Active(u))
  BY <1>2, CommandEnds DEF SettingsInv
<1>5. \A u \in Tasks : Active(u)' => u # t /\ Active(u) /\ cmd'[u] = cmd[u]
  BY <1>4
<1>6. file \in Texts
  BY <1>3 DEF SettingsInv, SettingsType, Created
<1> DEFINE p == SubSeq(Content(v), 1, n)
<1>7. /\ p \in Texts
      /\ \/ LoadOrDefaults(p) = Defaults
         \/ \A f \in {"backend", "token", "api_addr"} : LoadOrDefaults(p)[f] = v[f]
  <2>1. Content(v) \in Texts
    BY <1>3, NoText, ContentStands
  <2>2. Len(Content(v)) \in Nat
    BY <2>1, TextIs
  <2>3. n \in 0..Len(Content(v))
    BY <2>2
  <2> HIDE DEF v
  <2> QED BY <1>3, <2>3, FragmentReads
<1> HIDE DEF p
<1>8. file' \in Texts /\ (file = <<>> => file' = p)
  BY <1>1, <1>6, <1>7, WrittenOver DEF p
<1>9. SettingsType'
  <2>1. calm' \in BOOLEAN /\ mixed' \in BOOLEAN
    BY <1>2
  <2> QED BY <1>2, <1>4, <1>8, <2>1 DEF SettingsInv, SettingsType
<1>10. Carried'
  BY <1>5 DEF SettingsInv, Carried
<1>11. Created'
  BY <1>8, TextAssumption DEF Created
<1>12. Alone' /\ SettingIsKept'
  BY <1>2 DEF Alone, SettingIsKept
<1>13. WholeValues'
  <2> SUFFICES ASSUME ~ mixed, file = <<>>
               PROVE  /\ Whole(LoadOrDefaults(file'))
                      /\ \A u \in Tasks : Active(u)' => Whole(cmd'[u].merged)
    BY <1>2 DEF WholeValues, Whole
  <2>1. /\ Whole(v) /\ \A u \in Tasks : Active(u) => Whole(cmd[u].merged)
    BY <1>3 DEF SettingsInv, WholeValues
  <2> HIDE DEF v
  <2>2. ASSUME NEW w, \A f \in {"backend", "token", "api_addr"} : w[f] = v[f]
        PROVE  Whole(w)
    BY <2>1, <2>2 DEF Whole
  <2>3. Whole(LoadOrDefaults(p))
    BY <1>7, <2>2, NothingOffered
  <2> QED BY <1>5, <1>8, <2>1, <2>3
<1>14. ServesWhatWasSet'
  BY <1>2 DEF SettingsInv, ServesWhatWasSet
<1> QED BY <1>9, <1>10, <1>11, <1>12, <1>13, <1>14 DEF SettingsInv

(* The process reads and changes nothing. *)
LEMMA WafKeeps ==
    ASSUME SettingsInv, (\E env \in Environments : Boot(env)) \/ Stop
    PROVE  SettingsInv'
<1>1. UNCHANGED <<file, cmd, given, calm, mixed>>
  BY DEF Boot, Stop
<1>2. ServesWhatWasSet'
  <2>1. ASSUME NEW env \in Environments, Boot(env) PROVE ServesWhatWasSet'
    <3> DEFINE saved == LoadOrDefaults(file)
               whole == {"backend", "token", "api_addr"}
               g == IF Damage = "none" THEN given ELSE Defaults
    <3>1. /\ Missing(env, saved) = {}
          /\ waf' = [phase |-> "serving", env |-> env, use |-> Over(env, saved), given |-> g,
                     damage |-> Damage]
      BY <2>1 DEF Boot, Effective
    <3>2. Damage = "none" => saved = g
      BY DEF SettingsInv, SettingIsKept, Damage
    <3>3. Damage # "mixed" => Whole(saved)
      BY DEF SettingsInv, WholeValues, Damage
    <3>4. \A f \in FieldSet : Over(env, saved)[f] = IF f \in DOMAIN env THEN env[f] ELSE saved[f]
      BY DEF Over
    <3>5. \A f \in whole \ DOMAIN env : saved[f] # Unset
      BY <3>1 DEF Missing, Required
    <3> HIDE DEF saved, g
    <3>6. \A f \in whole : f \in FieldSet
      BY FieldsAre
    <3>7. /\ waf'.env = env /\ waf'.use = Over(env, saved) /\ waf'.given = g
          /\ waf'.damage = Damage
      BY <3>1
    <3>8. Damage # "mixed" =>
              \A f \in whole \ DOMAIN env : saved[f] \in Offered(f) \ {Unset}
      BY <3>3, <3>5 DEF Whole
    <3> QED BY <3>2, <3>4, <3>6, <3>7, <3>8 DEF ServesWhatWasSet, Offered, Accepted
  <2>2. CASE Stop
    BY <2>2 DEF Stop, Off, ServesWhatWasSet
  <2> QED BY <2>1, <2>2
<1>3. /\ SettingsType' /\ Carried' /\ Created' /\ Alone' /\ SettingIsKept' /\ WholeValues'
  <2>1. \A t \in Tasks : (Active(t)' <=> Active(t)) /\ (Writing(t)' <=> Writing(t))
    BY <1>1 DEF Active, Writing
  <2> QED BY <1>1, <2>1 DEF SettingsInv, SettingsType, Carried, Created, Alone, SettingIsKept,
                WholeValues, Whole
<1> QED BY <1>2, <1>3 DEF SettingsInv

LEMMA NextKeeps == SettingsInv /\ [Next]_vars => SettingsInv'
<1> SUFFICES ASSUME SettingsInv, [Next]_vars PROVE SettingsInv'
  OBVIOUS
<1>1. CASE \E t \in Tasks : \E args \in CommandLines : Prepare(t, args)
  BY <1>1, PrepareKeeps
<1>2. CASE \E t \in Tasks : Open(t)
  BY <1>2, OpenKeeps
<1>3. CASE \E t \in Tasks : Write(t)
  BY <1>3, WriteKeeps
<1>4. CASE \E t \in Tasks : Cut(t)
  BY <1>4, CutKeeps
<1>5. CASE (\E env \in Environments : Boot(env)) \/ Stop
  BY <1>5, WafKeeps
<1>6. CASE UNCHANGED vars
  BY <1>6 DEF vars, SettingsInv, SettingsType, Carried, Created, Alone, SettingIsKept,
              WholeValues, Whole, ServesWhatWasSet, Active, Writing
<1> QED BY <1>1, <1>2, <1>3, <1>4, <1>5, <1>6 DEF Next

(***************************************************************************)
(* The file, the commands and what the process uses, as one inductive      *)
(* invariant (main.rs:603-757).                                            *)
(***************************************************************************)
THEOREM SettingsInvariant == Spec => []SettingsInv
BY AtStart, NextKeeps, PTL DEF Spec

(***************************************************************************)
(* A partial update keeps the rest: as long as no write failed and no two  *)
(* commands overlapped since a complete setting, what is read back is what *)
(* was given, whatever characters the values hold, for any command lines   *)
(* and any number of operators (main.rs:603, 643, 694, 756).               *)
(***************************************************************************)
THEOREM SettingKept == Spec => []SettingIsKept
<1>1. SettingsInv => SettingIsKept
  BY DEF SettingsInv
<1> QED BY <1>1, SettingsInvariant, PTL

(***************************************************************************)
(* However commands overlap and wherever a write is cut, the backend, the  *)
(* token and the API address that are read back are whole values given for *)
(* that field, unless the lines of two commands were mixed (main.rs:114).  *)
(***************************************************************************)
THEOREM ValuesWhole == Spec => []NothingInvented
<1>1. SettingsInv => NothingInvented
  BY DEF SettingsInv, WholeValues, Whole, NothingInvented
<1> QED BY <1>1, SettingsInvariant, PTL

(***************************************************************************)
(* A process uses its environment first and then what the commands gave;   *)
(* if one was writing when it started, or had been damaged, still whole    *)
(* backends, tokens and API addresses given for that field, unless lines   *)
(* were mixed (main.rs:806-960).                                           *)
(***************************************************************************)
THEOREM MeantServed == Spec => []ServesWhatWasSet
<1>1. SettingsInv => ServesWhatWasSet
  BY DEF SettingsInv
<1> QED BY <1>1, SettingsInvariant, PTL

-----------------------------------------------------------------------------
(* Part 2.  Rule hot reload.                                               *)

(* A limiter some request cloned is never of a later reload than the engine. *)
LimitsNotAhead ==
    \A q \in Requests :
        handling[q].at # "idle" =>
            /\ loop # "boot"
            /\ handling[q].limiter \in Generation
            /\ handling[q].limiter.no <= engine.no

ReloadInv == TypeOK /\ ReloadedTogether /\ LimitsNotAhead /\ RulesNotOlderThanLimits

-----------------------------------------------------------------------------
LEMMA ReloadAtStart == ReloadInit => ReloadInv
<1> SUFFICES ASSUME ReloadInit PROVE ReloadInv
  OBVIOUS
<1>1. 0 \in 0..MaxEdits /\ 0 \in 0..MaxErrors
  BY HotReloadAssumption
<1>2. last \in Fingerprints
  BY <1>1 DEF ReloadInit, NoFingerprint, Fingerprints
<1>3. \A q \in Requests : handling[q] = Unhandled /\ Unhandled.at = "idle"
  BY DEF ReloadInit, Unhandled
<1>4. Unhandled \in [at : {"idle", "limited", "serving"},
                limiter : Generation \cup {None}, engine : Generation \cup {None}]
  BY DEF Unhandled
<1>5. TypeOK
  BY HotReloadAssumption, <1>1, <1>2, <1>4 DEF ReloadInit, TypeOK, Stages
<1> QED BY <1>3, <1>5 DEF ReloadInit, ReloadInv, ReloadedTogether, LimitsNotAhead,
              RulesNotOlderThanLimits

(* The steps of the loop and of whoever edits leave the requests alone. *)
LEMMA LoopKeeps ==
    ASSUME ReloadInv, Loop \/ \E text \in Contents \cup {Unreadable} : Edit(text)
    PROVE  ReloadInv'
<1> USE HotReloadAssumption
<1>1. CASE \E text \in Contents \cup {Unreadable} : Edit(text)
  BY <1>1 DEF Edit, ReloadInv, TypeOK, ReloadedTogether, LimitsNotAhead,
              RulesNotOlderThanLimits
<1>2. CASE FirstLoad
  <2>1. engine' \in Generation /\ limiter' \in Generation /\ engine' = limiter'
    BY <1>2 DEF FirstLoad, Generation
  <2>2. \A q \in Requests : handling[q].at = "idle"
    BY <1>2 DEF FirstLoad, ReloadInv, LimitsNotAhead
  <2> QED BY <1>2, <2>1, <2>2 DEF FirstLoad, ReloadInv, TypeOK, ReloadedTogether, LimitsNotAhead,
                RulesNotOlderThanLimits, Stages
<1>3. CASE FirstMetadata \/ ProbeMetadata
  <2>1. last' \in Fingerprints
    BY <1>3 DEF FirstMetadata, ProbeMetadata, Probed, ReloadInv, TypeOK, Fingerprint,
                Fingerprints, NoFingerprint, Readable
  <2> QED BY <1>3, <2>1 DEF FirstMetadata, ProbeMetadata, ReloadInv, TypeOK,
                ReloadedTogether, LimitsNotAhead, RulesNotOlderThanLimits, Stages
<1>4. CASE FirstBytes \/ ProbeBytes \/ ReloadRuntime
  <2>1. errors' \in 0..MaxErrors /\ read' \in Contents \cup {Unreadable}
    BY <1>4 DEF FirstBytes, ProbeBytes, ReloadRuntime, Read, ReloadInv, TypeOK
  <2>2. loop' \in {"first_probe", "probe", "engine", "wait"} /\ missed' \in BOOLEAN
    BY <1>4 DEF FirstBytes, ProbeBytes, ReloadRuntime, ReloadInv, TypeOK
  <2>3. loop' = "engine" => read' \in Good
    BY <1>4 DEF FirstBytes, ProbeBytes, ReloadRuntime
  <2>4. loop \notin {"boot", "limiter"}
        /\ UNCHANGED <<rules_file, mtime, last, engine, limiter, handling>>
    BY <1>4 DEF FirstBytes, ProbeBytes, ReloadRuntime
  <2> QED BY <2>1, <2>2, <2>3, <2>4 DEF ReloadInv, TypeOK, ReloadedTogether,
                LimitsNotAhead, RulesNotOlderThanLimits, Stages
<1>5. CASE InstallEngine
  <2>1. /\ engine = limiter /\ engine \in Generation
        /\ engine' \in Generation /\ engine'.no = engine.no + 1 /\ engine'.rules = read
    BY <1>5 DEF InstallEngine, ReloadInv, TypeOK, ReloadedTogether, Generation
  <2>2. engine.no \in Nat /\ engine.no <= engine'.no
    BY <2>1 DEF Generation
  <2>3. LimitsNotAhead'
    <3> SUFFICES ASSUME NEW q \in Requests, handling[q].at # "idle"
                 PROVE  handling[q].limiter \in Generation
                        /\ handling[q].limiter.no <= engine'.no
      BY <1>5 DEF InstallEngine, LimitsNotAhead
    <3> QED BY <2>1, <2>2 DEF ReloadInv, LimitsNotAhead, Generation
  <2> QED BY <1>5, <2>1, <2>3 DEF InstallEngine, ReloadInv, TypeOK, ReloadedTogether,
                RulesNotOlderThanLimits, Stages
<1>6. CASE InstallLimiter
  <2>1. /\ engine.no = limiter.no + 1 /\ engine.rules = read
        /\ limiter' = [rules |-> read, no |-> limiter.no + 1]
        /\ engine \in Generation /\ limiter \in Generation /\ read \in Good
    BY <1>6 DEF InstallLimiter, ReloadInv, TypeOK, ReloadedTogether
  <2>2. limiter' \in Generation /\ engine = limiter'
    BY <2>1 DEF Generation
  <2> QED BY <1>6, <2>2 DEF InstallLimiter, ReloadInv, TypeOK, ReloadedTogether,
                LimitsNotAhead, RulesNotOlderThanLimits, Stages
<1> QED BY <1>1, <1>2, <1>3, <1>4, <1>5, <1>6 DEF Loop

(* A request clones the limiter and later the engine, and goes. *)
LEMMA RequestsKeep ==
    ASSUME ReloadInv, NEW q \in Requests, CloneLimiter(q) \/ CloneEngine(q) \/ Finish(q)
    PROVE  ReloadInv'
<1>1. UNCHANGED <<rules_file, mtime, loop, last, read, engine, limiter, errors, missed>>
  BY DEF CloneLimiter, CloneEngine, Finish
<1>2. loop # "boot" /\ engine \in Generation /\ limiter \in Generation
  BY DEF CloneLimiter, CloneEngine, Finish, ReloadInv, TypeOK, LimitsNotAhead
<1>3. limiter.no <= engine.no
  BY <1>2 DEF ReloadInv, ReloadedTogether, Generation
<1>4. \A p \in Requests \ {q} : handling'[p] = handling[p]
  BY DEF CloneLimiter, CloneEngine, Finish, ReloadInv, TypeOK
<1>5. /\ handling'[q] \in [at : {"idle", "limited", "serving"},
                           limiter : Generation \cup {None}, engine : Generation \cup {None}]
      /\ handling'[q].at # "idle" =>
            handling'[q].limiter \in Generation /\ handling'[q].limiter.no <= engine.no
      /\ handling'[q].at = "serving" => handling'[q].engine = engine
  BY <1>2, <1>3 DEF CloneLimiter, CloneEngine, Finish, ReloadInv, TypeOK, LimitsNotAhead, Unhandled
<1>6. handling' \in [Requests -> [at : {"idle", "limited", "serving"},
                                  limiter : Generation \cup {None},
                                  engine : Generation \cup {None}]]
  BY <1>5 DEF CloneLimiter, CloneEngine, Finish, ReloadInv, TypeOK
<1>7. TypeOK' /\ ReloadedTogether'
  BY <1>1, <1>6 DEF ReloadInv, TypeOK, ReloadedTogether
<1>8. LimitsNotAhead'
  BY <1>1, <1>2, <1>4, <1>5 DEF ReloadInv, LimitsNotAhead
<1>9. RulesNotOlderThanLimits'
  <2> SUFFICES ASSUME NEW p \in Requests, handling'[p].at = "serving"
               PROVE  handling'[p].engine.no >= handling'[p].limiter.no
    BY DEF RulesNotOlderThanLimits
  <2>1. CASE p = q
    BY <1>2, <1>5, <2>1 DEF Generation
  <2>2. CASE p # q
    BY <1>4, <2>2 DEF ReloadInv, RulesNotOlderThanLimits
  <2> QED BY <2>1, <2>2
<1> QED BY <1>7, <1>8, <1>9 DEF ReloadInv

LEMMA ReloadInvariant == ReloadSpec => []ReloadInv
<1>1. ReloadInit => ReloadInv
  BY ReloadAtStart
<1>2. ReloadInv /\ [ReloadNext]_reloadVars => ReloadInv'
  <2>1. ASSUME ReloadInv, UNCHANGED reloadVars PROVE ReloadInv'
    BY <2>1 DEF reloadVars, ReloadInv, TypeOK, ReloadedTogether, LimitsNotAhead,
                RulesNotOlderThanLimits
  <2> QED BY <2>1, LoopKeeps, RequestsKeep DEF ReloadNext
<1> QED BY <1>1, <1>2, PTL DEF ReloadSpec

-----------------------------------------------------------------------------
(* What the loop and the requests hold has its type; in particular only    *)
(* contents that compile are ever installed (main.rs:1266).                *)
THEOREM ReloadTypeCorrect == ReloadSpec => []TypeOK
BY ReloadInvariant, PTL DEF ReloadInv

(* The engine and the limiter are swapped as one, but for the moment       *)
(* between the two locks (main.rs:1245), wherever edits fall.              *)
THEOREM AllOrNothing == ReloadSpec => []ReloadedTogether
BY ReloadInvariant, PTL DEF ReloadInv

(* No request is inspected by rules older than the limits it passed        *)
(* (main.rs:1335), however many requests are in flight.                    *)
THEOREM NeverOlder == ReloadSpec => []RulesNotOlderThanLimits
BY ReloadInvariant, PTL DEF ReloadInv
=============================================================================
