--------------------------- MODULE AuditLogProofs ---------------------------
(***************************************************************************)
(* Theorems about AuditLog, for any number and size of files, any records  *)
(* and any failing calls and restarts: the records on disk are in order,   *)
(* what leaves is the oldest, enough stays, and damage stays local.  The   *)
(* order comes first (OrderInv); the other two rest on it and on what a    *)
(* rotation leaves behind at each of its steps: which slot is free         *)
(* (Vacated), how many unused numbers there may be (HolesBounded), and     *)
(* what the current file ends with (LastLine).                             *)
(***************************************************************************)
EXTENDS AuditLog, FiniteSetTheorems, SequenceTheorems, TLAPS

Parts == [no : Records, whole : BOOLEAN]

(* The part of an append in which the record is not on disk yet. *)
Before == {"rotate", "open", "text"}

(* A record is new until its text is written, and not done until the end.  *)
RecordIsNew ==
    /\ written \subseteq 1..record /\ done \subseteq written
    /\ \A i \in Slots : RecordsOf(files[i]) \subseteq 1..record
    /\ at # "recv" => record \in 1..MaxRecords /\ record \notin done
    /\ at \in Before => record \notin written /\ \A i \in Slots : record \notin RecordsOf(files[i])

OrderInv == TypeOK /\ RecordIsNew /\ RecordsInOrder

-----------------------------------------------------------------------------
(* During a rotation the current file is full and the slot above the next  *)
(* one to move is free, unless it is the last and could not be removed.    *)
Vacated ==
    /\ at = "rotate" => Full
    /\ at = "rotate" /\ slot < AUDIT_KEEP /\ ~jammed =>
          files[slot + 1] = Absent \/ slot + 1 = AUDIT_KEEP

RotatedAreFull ==
    ~jammed => \A i \in 1..AUDIT_KEEP : files[i] # Absent => IsFull(files[i])

(* Unused numbers up to i, but for the one a rotation is about to fill.    *)
Gap == IF at = "rotate" /\ slot < AUDIT_KEEP THEN {slot + 1} ELSE {}

Holes(i) == {j \in 1..i : files[j] = Absent} \ Gap

Dropped == ~ (written \subseteq OnDisk)

HolesBounded ==
    ~jammed => \A i \in 1..AUDIT_KEEP :
        files[i] # Absent \/ (i = AUDIT_KEEP /\ Dropped) => Cardinality(Holes(i)) <= restarts

KeepInv == OldestGoFirst /\ Vacated /\ RotatedAreFull /\ HolesBounded

-----------------------------------------------------------------------------
(* A record that is done is followed by its line end, and what follows a   *)
(* record that is done, or nothing at all, starts a line.                  *)
Follows(no) == no - 1 \in done \/ no = 1

LinesApart ==
    \A i \in Slots : files[i] # Absent =>
        \A k \in DOMAIN files[i] :
            /\ files[i][k].no \in done =>
                   files[i][k].whole /\ k < Len(files[i]) /\ files[i][k + 1] = LineEnd
            /\ files[i][k].no # 0 /\ Follows(files[i][k].no) /\ k > 1 =>
                   files[i][k - 1] = LineEnd

(* The record to come would follow a line end. *)
LastLine ==
    LET next == IF at = "recv" THEN record + 1 ELSE record
    IN  at # "end" /\ Follows(next) /\ files[0] # Absent /\ files[0] # <<>> =>
            files[0][Len(files[0])] = LineEnd

LineInv == LinesApart /\ LastLine

AuditInv == OrderInv /\ KeepInv /\ LineInv

-----------------------------------------------------------------------------
(* What a file holds is told from no file; a part more is a text more, or  *)
(* a line end.                                                             *)
LEMMA FileOrNone == Absent \notin Contents /\ <<>> \in Contents
<1>1. Parts \subseteq [no : Nat, whole : BOOLEAN]
  BY AuditLogAssumption DEF Parts, Records
<1>2. ASSUME NEW c \in Contents PROVE c \in Seq([no : Nat, whole : BOOLEAN])
  <2>1. c \in Seq(Parts)
    BY DEF Contents, Parts
  <2> QED BY ONLY <1>1, <2>1, SeqMonotonic
<1>3. Absent \notin Seq([no : Nat, whole : BOOLEAN])
  BY AuditLogAssumption
<1>4. <<>> \in Contents
  BY DEF Contents
<1> QED BY <1>2, <1>3, <1>4

LEMMA OnePartMore ==
    ASSUME NEW c \in Contents, NEW part \in Parts
    PROVE  LET d == Append(c, part)
           IN  /\ d \in Contents /\ d # Absent /\ d # <<>> /\ c # Absent
               /\ Len(c) \in Nat /\ DOMAIN c = 1..Len(c)
               /\ Len(d) = Len(c) + 1 /\ DOMAIN d = 1..Len(c) + 1
               /\ \A k \in 1..Len(c) : d[k] = c[k]
               /\ d[Len(c) + 1] = part
               /\ TextsOf(d) = TextsOf(c) \cup (IF part.no = 0 THEN {} ELSE {Len(c) + 1})
               /\ RecordsOf(d) = RecordsOf(c) \cup ({part.no} \ {0})
<1> DEFINE d == Append(c, part)
<1>1. /\ d \in Contents /\ Len(c) \in Nat /\ DOMAIN c = 1..Len(c)
      /\ Len(d) = Len(c) + 1 /\ DOMAIN d = 1..Len(c) + 1
      /\ \A k \in 1..Len(c) : d[k] = c[k]
      /\ d[Len(c) + 1] = part
  BY DEF Contents, Parts
<1>2. c # Absent /\ d # Absent
  BY <1>1, FileOrNone
<1>6. d # <<>>
  BY AppendProperties DEF Contents, Parts
<1> HIDE DEF d
<1>3. TextsOf(d) = TextsOf(c) \cup (IF part.no = 0 THEN {} ELSE {Len(c) + 1})
  BY <1>1, <1>2 DEF TextsOf
<1>4. \A k \in TextsOf(c) : k \in 1..Len(c)
  BY <1>1 DEF TextsOf
<1>5. RecordsOf(d) = RecordsOf(c) \cup ({part.no} \ {0})
  BY <1>1, <1>3, <1>4 DEF RecordsOf
<1> QED BY <1>1, <1>2, <1>3, <1>5, <1>6 DEF d

LEMMA NoRecords == TextsOf(Absent) = {} /\ RecordsOf(Absent) = {}
                /\ TextsOf(<<>>) = {} /\ RecordsOf(<<>>) = {}
BY DEF TextsOf, RecordsOf

-----------------------------------------------------------------------------
(* The four ways in which a step changes the files. *)
Drops == files' = [files EXCEPT ![AUDIT_KEEP] = Absent]
Moves == \E s \in 0..AUDIT_KEEP - 1 : files' = Moved(s, s + 1)
Creates == files[0] = Absent /\ files' = [files EXCEPT ![0] = <<>>]
Puts(part) == files[0] # Absent /\ Put(part)

(* The files stay files, and what the rotation does to them leaves the     *)
(* records in order: a file goes up to a number that no older one is below.*)
LEMMA Rotated ==
    ASSUME OrderInv, Drops \/ Moves \/ Creates \/ UNCHANGED files
    PROVE  /\ DOMAIN files' = Slots
           /\ \A i \in Slots : files'[i] = Absent \/ files'[i] \in Contents
           /\ \A i \in Slots : RecordsOf(files'[i]) \subseteq OnDisk
           /\ RecordsInOrder'
<1>1. /\ DOMAIN files = Slots
      /\ \A i \in Slots : files[i] = Absent \/ files[i] \in Contents
      /\ RecordsInOrder /\ AUDIT_KEEP \in Nat \ {0}
  BY AuditLogAssumption DEF OrderInv, TypeOK
<1>2. CASE Drops
  <2>1. \A i \in Slots : files'[i] = IF i = AUDIT_KEEP THEN Absent ELSE files[i]
    BY <1>1, <1>2 DEF Drops
  <2>2. DOMAIN files' = Slots
    BY <1>1, <1>2 DEF Drops
  <2>3. RecordsInOrder'
    BY <1>1, <2>1, NoRecords DEF RecordsInOrder, Slots
  <2> QED BY <1>1, <2>1, <2>2, <2>3, NoRecords DEF OnDisk
<1>3. CASE Moves
  <2>1. PICK s \in 0..AUDIT_KEEP - 1 : files' = Moved(s, s + 1)
    BY <1>3 DEF Moves
  <2>2. s \in Slots /\ s + 1 \in Slots
    BY <1>1 DEF Slots
  <2>3. \A i \in Slots : files'[i] = IF i = s THEN Absent
                                       ELSE IF i = s + 1 THEN files[s] ELSE files[i]
    BY <1>1, <2>1, <2>2 DEF Moved, Slots
  <2>4. DOMAIN files' = Slots
    BY <1>1, <2>1 DEF Moved
  <2>5. RecordsInOrder'
    <3> SUFFICES ASSUME NEW i \in Slots, NEW j \in Slots,
                        NEW k \in TextsOf(files'[i]), NEW l \in TextsOf(files'[j]),
                        i > j \/ (i = j /\ k < l)
                 PROVE  files'[i][k].no < files'[j][l].no
      BY DEF RecordsInOrder
    <3> DEFINE from(n) == IF n = s + 1 THEN s ELSE n
    <3>1. i # s /\ j # s
      BY <2>3, NoRecords
    <3>2. /\ from(i) \in Slots /\ files'[i] = files[from(i)]
          /\ from(j) \in Slots /\ files'[j] = files[from(j)]
          /\ from(i) > from(j) \/ (from(i) = from(j) /\ k < l)
      BY <1>1, <2>2, <2>3, <3>1 DEF Slots
    <3> HIDE DEF from
    <3> QED BY <1>1, <3>2 DEF RecordsInOrder
  <2> QED BY <1>1, <2>2, <2>3, <2>4, <2>5, NoRecords DEF OnDisk
<1>4. CASE Creates
  <2>1. 0 \in Slots /\ DOMAIN files' = Slots
        /\ \A i \in Slots : files'[i] = IF i = 0 THEN <<>> ELSE files[i]
    BY <1>1, <1>4 DEF Creates, Slots
  <2>2. RecordsInOrder'
    BY <1>1, <2>1, NoRecords DEF RecordsInOrder
  <2> QED BY <1>1, <2>1, <2>2, NoRecords, FileOrNone DEF OnDisk
<1>5. CASE UNCHANGED files
  BY <1>1, <1>5 DEF RecordsInOrder, OnDisk
<1> QED BY <1>2, <1>3, <1>4, <1>5

(* What is appended is the newest record, or a line end. *)
LEMMA Appended ==
    ASSUME OrderInv, NEW part \in Parts, Puts(part),
           part.no # 0 => part.no = record /\ at = "text"
    PROVE  /\ DOMAIN files' = Slots
           /\ \A i \in Slots : files'[i] = IF i = 0 THEN Append(files[0], part) ELSE files[i]
           /\ \A i \in Slots : files'[i] = Absent \/ files'[i] \in Contents
           /\ \A i \in Slots : RecordsOf(files'[i]) \subseteq RecordsOf(files[i]) \cup ({part.no} \ {0})
           /\ RecordsInOrder'
<1>1. /\ DOMAIN files = Slots /\ 0 \in Slots
      /\ \A i \in Slots : files[i] = Absent \/ files[i] \in Contents
      /\ RecordsInOrder /\ files[0] \in Contents
      /\ record \in Nat /\ MaxRecords \in Nat
      /\ \A i \in Slots : RecordsOf(files[i]) \subseteq 1..record
      /\ at = "text" => \A i \in Slots : record \notin RecordsOf(files[i])
  BY AuditLogAssumption DEF OrderInv, TypeOK, Puts, Slots, Records, RecordIsNew, Before
<1>2. /\ DOMAIN files' = Slots
      /\ \A i \in Slots : files'[i] = IF i = 0 THEN Append(files[0], part) ELSE files[i]
  BY <1>1 DEF Puts, Put
<1> DEFINE c == files[0]  d == Append(c, part)
<1>3. /\ d \in Contents /\ d # Absent /\ c # Absent /\ Len(c) \in Nat /\ DOMAIN c = 1..Len(c)
      /\ \A k \in 1..Len(c) : d[k] = c[k]
      /\ d[Len(c) + 1] = part
      /\ TextsOf(d) = TextsOf(c) \cup (IF part.no = 0 THEN {} ELSE {Len(c) + 1})
      /\ RecordsOf(d) = RecordsOf(c) \cup ({part.no} \ {0})
  BY <1>1, OnePartMore
<1> HIDE DEF d
<1>4. \A i \in Slots : files'[i] = IF i = 0 THEN d ELSE files[i]
  BY <1>2 DEF d
<1>5. RecordsInOrder'
  <2> SUFFICES ASSUME NEW i \in Slots, NEW j \in Slots,
                      NEW k \in TextsOf(files'[i]), NEW l \in TextsOf(files'[j]),
                      i > j \/ (i = j /\ k < l)
               PROVE  files'[i][k].no < files'[j][l].no
    BY DEF RecordsInOrder
  <2>1. TextsOf(c) \subseteq 1..Len(c)
    BY <1>3 DEF TextsOf
  <2>2. i \in Nat /\ j \in Nat
    BY AuditLogAssumption DEF Slots
  <2>3. CASE j = 0 /\ l = Len(c) + 1
    <3>1. part.no = record /\ at = "text" /\ files'[j][l].no = record
      BY <1>1, <1>3, <1>4, <2>1, <2>3
    <3>2. k \in TextsOf(files[i]) /\ files'[i][k] = files[i][k]
      BY <1>1, <1>3, <1>4, <2>1, <2>2, <2>3
    <3>3. files[i][k].no \in RecordsOf(files[i])
      BY <3>2 DEF RecordsOf
    <3> QED BY <1>1, <3>1, <3>2, <3>3
  <2>4. CASE ~ (j = 0 /\ l = Len(c) + 1)
    <3>1. l \in TextsOf(files[j]) /\ files'[j][l] = files[j][l]
      BY <1>1, <1>3, <1>4, <2>1, <2>4
    <3>2. k \in TextsOf(files[i]) /\ files'[i][k] = files[i][k]
      BY <1>1, <1>3, <1>4, <2>1, <2>2, <2>4, <3>1
    <3> QED BY <1>1, <3>1, <3>2 DEF RecordsInOrder
  <2> QED BY <2>3, <2>4
<1> QED BY <1>1, <1>2, <1>3, <1>4, <1>5

(* The record stays the same and the files get no record. *)
LEMMA SameRecord ==
    ASSUME RecordIsNew, UNCHANGED <<record, written, done>>,
           at' # "recv" => at # "recv", at' \in Before => at \in Before,
           \A i \in Slots : RecordsOf(files'[i]) \subseteq OnDisk
    PROVE  RecordIsNew'
<1>1. /\ \A i \in Slots : RecordsOf(files'[i]) \subseteq 1..record
      /\ at \in Before => \A i \in Slots : record \notin RecordsOf(files'[i])
  BY DEF RecordIsNew, OnDisk
<1> QED BY <1>1 DEF RecordIsNew

-----------------------------------------------------------------------------
LEMMA OrderInit == Init => OrderInv
<1> SUFFICES ASSUME Init PROVE OrderInv
  OBVIOUS
<1>1. TypeOK
  BY AuditLogAssumption DEF Init, TypeOK, Slots, Records
<1>2. RecordIsNew /\ RecordsInOrder
  BY NoRecords DEF Init, RecordIsNew, RecordsInOrder, Before
<1> QED BY <1>1, <1>2 DEF OrderInv

LEMMA OrderStep == OrderInv /\ [Next]_vars => OrderInv'
<1> SUFFICES ASSUME OrderInv, [Next]_vars PROVE OrderInv'
  OBVIOUS
<1> USE DEF OrderInv
<1>0. /\ AUDIT_KEEP \in Nat \ {0} /\ MaxRecords \in Nat /\ MaxFaults \in Nat
      /\ TypeOK /\ RecordIsNew /\ RecordsInOrder /\ record \in Nat /\ 0 \in Slots
  BY AuditLogAssumption DEF TypeOK, Records, Slots
<1>9. Works \/ Fault => faults' \in 0..MaxFaults /\ restarts \in 0..faults'
  BY <1>0 DEF Works, Fault, TypeOK
<1>1. CASE Begin
  <2>1. TypeOK'
    BY <1>0, <1>1 DEF Begin, Works, Fault, TypeOK, Records, Slots
  <2>2. RecordIsNew'
    BY <1>0, <1>1 DEF Begin, RecordIsNew, TypeOK, Records, Before
  <2> QED BY <1>0, <1>1, <2>1, <2>2, Rotated DEF Begin
<1>2. CASE RemoveOldest
  <2>1. Drops \/ UNCHANGED files
    BY <1>2 DEF RemoveOldest, Drops
  <2>2. slot' \in Slots /\ faults' \in 0..MaxFaults /\ restarts \in 0..faults'
    BY <1>0, <1>2 DEF RemoveOldest, Works, Fault, TypeOK, Slots
  <2>3. TypeOK'
    BY <1>0, <1>2, <2>1, <2>2, Rotated DEF RemoveOldest, TypeOK
  <2>4. RecordIsNew'
    BY <1>0, <1>2, <2>1, Rotated, SameRecord DEF RemoveOldest
  <2> QED BY <2>1, <2>3, <2>4, Rotated
<1>3. CASE Shift
  <2>1. Moves \/ UNCHANGED files
    BY <1>0, <1>3 DEF Shift, Moves, TypeOK, Slots
  <2>2. /\ slot' \in Slots /\ faults' \in 0..MaxFaults /\ restarts \in 0..faults'
        /\ jammed' \in BOOLEAN /\ at' \in {"rotate", "open"}
    <3>1. slot \in 0..AUDIT_KEEP /\ jammed \in BOOLEAN /\ slot' = IF slot = 0 THEN slot ELSE slot - 1
      BY <1>0, <1>3 DEF Shift, TypeOK, Slots
    <3>2. slot' \in Slots
      BY <1>0, <3>1 DEF Slots
    <3>3. jammed' \in BOOLEAN /\ at' \in {"rotate", "open"} /\ (Works \/ Fault)
      BY <1>3, <3>1 DEF Shift
    <3> QED BY <1>9, <3>2, <3>3
  <2>3. TypeOK'
    BY <1>0, <1>3, <2>1, <2>2, Rotated DEF Shift, TypeOK
  <2>4. RecordIsNew'
    BY <1>0, <1>3, <2>1, <2>2, Rotated, SameRecord DEF Shift, Before
  <2> QED BY <2>1, <2>3, <2>4, Rotated
<1>4. CASE Open
  <2>1. Creates \/ UNCHANGED files
    BY <1>0, <1>4 DEF Open, Creates, TypeOK
  <2>2. /\ faults' \in 0..MaxFaults /\ restarts \in 0..faults' /\ at' \in {"recv", "text"}
        /\ at' = "text" => files'[0] # Absent
    BY <1>0, <1>4, FileOrNone DEF Open, Works, Fault, TypeOK
  <2>3. TypeOK'
    BY <1>0, <1>4, <2>1, <2>2, Rotated DEF Open, TypeOK
  <2>4. RecordIsNew'
    BY <1>0, <1>4, <2>1, <2>2, Rotated, SameRecord DEF Open, Before
  <2> QED BY <2>1, <2>3, <2>4, Rotated
<1>5. CASE WriteText
  <2>1. /\ faults' \in 0..MaxFaults /\ restarts \in 0..faults' /\ at' \in {"recv", "end"}
        /\ record \in 1..MaxRecords /\ written' \subseteq written \cup {record}
        /\ at' = "recv" \/ (at' = "end" /\ Put(Text(record)))
    <3>1. (Works \/ Fault) /\ at = "text" /\ written' \subseteq written \cup {record}
      BY <1>5 DEF WriteText
    <3>2. at' = "recv" \/ (at' = "end" /\ Put(Text(record)))
      BY <1>5 DEF WriteText
    <3>3. record \in 1..MaxRecords
      BY <1>0, <3>1 DEF RecordIsNew
    <3> QED BY <1>9, <3>1, <3>2, <3>3
  <2>2. CASE UNCHANGED <<files, written>>
    <3>1. TypeOK'
      BY <1>0, <1>5, <2>1, <2>2 DEF WriteText, TypeOK
    <3>2. RecordIsNew'
      BY <1>0, <1>5, <2>1, <2>2 DEF WriteText, RecordIsNew, Before
    <3> QED BY <2>2, <3>1, <3>2, Rotated
  <2>3. CASE written' = written \cup {record} /\ (Put(Text(record)) \/ Put(Torn(record)))
    <3>1. PICK part \in {Text(record), Torn(record)} : Put(part)
      BY <2>3
    <3>2. /\ part \in Parts /\ part.no = record /\ Text(record) \in Parts
          /\ Puts(part) /\ files[0] \in Contents
      <4>1. files[0] # Absent /\ files[0] \in Contents /\ record \in Records
        BY <1>0, <1>5 DEF WriteText, TypeOK
      <4>2. /\ Text(record) \in Parts /\ Text(record).no = record
            /\ Torn(record) \in Parts /\ Torn(record).no = record
        BY <4>1 DEF Text, Torn, Parts
      <4> QED BY <3>1, <4>1, <4>2 DEF Puts
    <3>3. /\ DOMAIN files' = Slots
          /\ \A i \in Slots : files'[i] = IF i = 0 THEN Append(files[0], part) ELSE files[i]
          /\ \A i \in Slots : files'[i] = Absent \/ files'[i] \in Contents
          /\ \A i \in Slots : RecordsOf(files'[i]) \subseteq RecordsOf(files[i]) \cup {record}
          /\ RecordsInOrder'
      BY <1>0, <1>5, <3>2, Appended DEF WriteText
    <3>4. /\ Append(files[0], part) # <<>> /\ Append(files[0], part) # Absent
          /\ Len(Append(files[0], part)) = Len(files[0]) + 1
          /\ Append(files[0], part)[Len(files[0]) + 1] = part
      BY <3>2, OnePartMore
    <3>5. at' = "end" => files'[0] # <<>> /\ Last(files'[0]) = Text(record')
      <4>1. ASSUME at' = "end" PROVE Append(files[0], part) = Append(files[0], Text(record))
        BY <1>0, <2>1, <3>1, <4>1 DEF Put, TypeOK
      <4> DEFINE d == Append(files[0], Text(record))
      <4>2. d # <<>> /\ Len(d) = Len(files[0]) + 1 /\ d[Len(files[0]) + 1] = Text(record)
        BY <3>2, OnePartMore
      <4>3. at' = "end" => files'[0] = d
        BY <1>0, <3>3, <4>1
      <4> HIDE DEF d
      <4> QED BY <1>5, <4>2, <4>3 DEF WriteText, Last
    <3>6. TypeOK'
      <4>1. written' \subseteq Records
        BY <1>0, <2>1 DEF TypeOK
      <4>2. UNCHANGED <<slot, record, restarts, jammed, done>> /\ at' \notin {"text"}
        BY <1>5 DEF WriteText
      <4>3. files'[0] # Absent
        BY <1>0, <3>3, <3>4
      <4> QED BY <1>0, <2>1, <3>3, <3>5, <4>1, <4>2, <4>3 DEF TypeOK
    <3>7. RecordIsNew'
      BY <1>0, <1>5, <2>1, <2>3, <3>3 DEF WriteText, RecordIsNew, Before
    <3> QED BY <3>3, <3>6, <3>7
  <2> QED BY <1>5, <2>2, <2>3 DEF WriteText
<1>6. CASE WriteEnd
  <2>1. /\ faults' \in 0..MaxFaults /\ restarts \in 0..faults' /\ at' = "recv"
        /\ record \in written /\ done' \subseteq done \cup {record}
    BY <1>0, <1>6 DEF WriteEnd, Works, Fault, TypeOK, RecordIsNew
  <2>2. CASE UNCHANGED files
    <3>1. TypeOK'
      BY <1>0, <1>6, <2>1, <2>2 DEF WriteEnd, TypeOK
    <3>2. RecordIsNew'
      BY <1>0, <1>6, <2>1, <2>2 DEF WriteEnd, RecordIsNew, Before
    <3> QED BY <2>2, <3>1, <3>2, Rotated
  <2>3. CASE Put(LineEnd)
    <3>1. LineEnd \in Parts /\ LineEnd.no = 0 /\ Puts(LineEnd)
      BY <1>0, <1>6, <2>3 DEF WriteEnd, TypeOK, LineEnd, Parts, Records, Puts
    <3>2. /\ DOMAIN files' = Slots
          /\ \A i \in Slots : files'[i] = Absent \/ files'[i] \in Contents
          /\ \A i \in Slots : RecordsOf(files'[i]) \subseteq RecordsOf(files[i])
          /\ RecordsInOrder'
      BY <3>1, Appended
    <3>3. TypeOK'
      BY <1>0, <1>6, <2>1, <3>2 DEF WriteEnd, TypeOK
    <3>4. RecordIsNew'
      BY <1>0, <1>6, <2>1, <3>2 DEF WriteEnd, RecordIsNew, Before
    <3> QED BY <3>2, <3>3, <3>4
  <2> QED BY <1>6, <2>2, <2>3 DEF WriteEnd
<1>7. CASE Restart
  <2>1. TypeOK'
    BY <1>0, <1>7 DEF Restart, Fault, TypeOK, Records, Slots
  <2>2. RecordIsNew'
    BY <1>0, <1>7 DEF Restart, RecordIsNew, Before
  <2> QED BY <1>7, <2>1, <2>2, Rotated DEF Restart
<1>8. CASE UNCHANGED vars
  <2>1. TypeOK'
    BY <1>0, <1>8 DEF vars, TypeOK
  <2>2. RecordIsNew'
    BY <1>0, <1>8 DEF vars, RecordIsNew, Before
  <2> QED BY <1>8, <2>1, <2>2, Rotated DEF vars
<1> QED BY <1>1, <1>2, <1>3, <1>4, <1>5, <1>6, <1>7, <1>8 DEF Next

-----------------------------------------------------------------------------
LEMMA SlotsAreFinite ==
    /\ AUDIT_KEEP \in Nat \ {0} /\ 0 \in Slots /\ AUDIT_KEEP \in Slots /\ IsFiniteSet(Slots)
    /\ \A i \in 1..AUDIT_KEEP : i \in Slots /\ i # 0 /\ i \in Nat
    /\ \A i \in 1..AUDIT_KEEP : IsFiniteSet(Holes(i)) /\ Cardinality(Holes(i)) \in Nat
<1>1. AUDIT_KEEP \in Nat \ {0} /\ 0 \in Slots /\ AUDIT_KEEP \in Slots /\ IsFiniteSet(Slots)
  BY AuditLogAssumption, FS_Interval DEF Slots
<1>2. \A i \in 1..AUDIT_KEEP : i \in Slots /\ i # 0 /\ i \in Nat
  BY <1>1 DEF Slots
<1>3. ASSUME NEW i \in 1..AUDIT_KEEP PROVE IsFiniteSet(Holes(i)) /\ Cardinality(Holes(i)) \in Nat
  <2>1. Holes(i) \subseteq Slots
    BY <1>1, <1>3 DEF Holes, Slots
  <2> QED BY <1>1, <2>1, FS_Subset, FS_CardinalityType
<1> QED BY <1>1, <1>2, <1>3

(* Retention follows from what the numbers left unused can be: each slot   *)
(* is full or a hole, or the gap of a rotation whose current file is full. *)
LEMMA FewHolesMuchKept == OrderInv /\ KeepInv => NewestAreKept
<1> SUFFICES ASSUME OrderInv, KeepInv, ~jammed, Dropped
             PROVE  Cardinality({i \in Slots : IsFull(files[i])}) + restarts >= AUDIT_KEEP
  BY DEF NewestAreKept, KeepInv, EnoughIsKept, Dropped
<1> DEFINE F == {i \in Slots : IsFull(files[i])}
           H == Holes(AUDIT_KEEP)
           C == 1..AUDIT_KEEP
<1>1. /\ IsFiniteSet(H) /\ Cardinality(H) \in Nat /\ Cardinality(H) <= restarts
      /\ restarts \in Nat /\ IsFiniteSet(C) /\ Cardinality(C) = AUDIT_KEEP
      /\ AUDIT_KEEP \in Nat \ {0} /\ AUDIT_KEEP \in C
  BY SlotsAreFinite, FS_Interval, AuditLogAssumption
     DEF KeepInv, HolesBounded, OrderInv, TypeOK
<1>2. /\ IsFiniteSet(F) /\ Cardinality(F) \in Nat
      /\ IsFiniteSet(F \ {0}) /\ Cardinality(F \ {0}) \in Nat
      /\ Cardinality(F \ {0}) = IF 0 \in F THEN Cardinality(F) - 1 ELSE Cardinality(F)
  <2>1. F \in SUBSET Slots
    OBVIOUS
  <2>2. IsFiniteSet(F) /\ IsFiniteSet(F \ {0})
    BY <2>1, SlotsAreFinite, FS_Subset, FS_RemoveElement
  <2> HIDE DEF F
  <2> QED BY <2>2, FS_RemoveElement, FS_CardinalityType
<1>3. Gap = {} \/ (0 \in F /\ \E g : Gap = {g})
  BY SlotsAreFinite DEF Gap, KeepInv, Vacated, Full
<1>4. C \subseteq ((F \ {0}) \cup H) \cup Gap
  BY SlotsAreFinite DEF KeepInv, RotatedAreFull, Holes
<1> HIDE DEF F, H, C
<1>5. /\ IsFiniteSet((F \ {0}) \cup H)
      /\ Cardinality((F \ {0}) \cup H) \in Nat
      /\ Cardinality((F \ {0}) \cup H) <= Cardinality(F \ {0}) + Cardinality(H)
  <2>1. IsFiniteSet((F \ {0}) \cap H) /\ Cardinality((F \ {0}) \cap H) \in Nat
    <3>1. (F \ {0}) \cap H \in SUBSET H
      OBVIOUS
    <3> QED BY <1>1, <3>1, FS_Subset, FS_CardinalityType
  <2> DEFINE G == F \ {0}
  <2>2. IsFiniteSet(G) /\ Cardinality(G) \in Nat
    BY <1>2
  <2>3. IsFiniteSet(G \cap H) /\ Cardinality(G \cap H) \in Nat
    BY <2>1
  <2> HIDE DEF G
  <2>4. /\ IsFiniteSet(G \cup H)
        /\ Cardinality(G \cup H) = Cardinality(G) + Cardinality(H) - Cardinality(G \cap H)
    BY <1>1, <2>2, FS_Union
  <2>5. Cardinality(G \cup H) \in Nat
    BY <2>4, FS_CardinalityType
  <2>6. Cardinality(G \cup H) <= Cardinality(G) + Cardinality(H)
    BY <1>1, <2>2, <2>3, <2>4
  <2> QED BY <2>4, <2>5, <2>6 DEF G
<1>6. CASE Gap = {}
  <2>1. C \in SUBSET ((F \ {0}) \cup H)
    BY <1>4, <1>6
  <2>2. Cardinality(C) <= Cardinality((F \ {0}) \cup H)
    BY <1>5, <2>1, FS_Subset
  <2> QED BY <1>1, <1>2, <1>5, <2>2 DEF F
<1>7. CASE 0 \in F /\ \E g : Gap = {g}
  <2>1. PICK g : Gap = {g}
    BY <1>7
  <2>2. /\ IsFiniteSet(((F \ {0}) \cup H) \cup {g})
        /\ Cardinality(((F \ {0}) \cup H) \cup {g}) <= Cardinality((F \ {0}) \cup H) + 1
    BY <1>5, FS_AddElement
  <2>3. C \in SUBSET (((F \ {0}) \cup H) \cup {g})
    BY <1>4, <2>1
  <2>4. Cardinality(C) <= Cardinality(((F \ {0}) \cup H) \cup {g})
    BY <2>2, <2>3, FS_Subset
  <2>5. Cardinality(((F \ {0}) \cup H) \cup {g}) \in Nat
    BY <2>2, FS_CardinalityType
  <2> QED BY <1>1, <1>2, <1>5, <1>7, <2>2, <2>4, <2>5 DEF F
<1> QED BY <1>3, <1>6, <1>7

-----------------------------------------------------------------------------
(* What the records on disk become when a step drops the last file. *)
LEMMA DropTheOldest ==
    ASSUME OrderInv, OldestGoFirst, ~jammed, written' = written,
           OnDisk' = OnDisk \/ OnDisk' = UNION {RecordsOf(files[i]) : i \in Slots \ {AUDIT_KEEP}}
    PROVE  OldestGoFirst'
<1>1. CASE OnDisk' = OnDisk
  BY <1>1 DEF OldestGoFirst
<1>2. CASE OnDisk' = UNION {RecordsOf(files[i]) : i \in Slots \ {AUDIT_KEEP}}
  <2>1. OnDisk' \subseteq OnDisk /\ OnDisk \subseteq written
    BY <1>2 DEF OnDisk, OldestGoFirst
  <2>2. ASSUME NEW m \in OnDisk', NEW n \in written, m < n PROVE n \in OnDisk'
    <3>1. PICK i \in Slots \ {AUDIT_KEEP} : m \in RecordsOf(files[i])
      BY <1>2
    <3>2. n \in OnDisk
      BY <2>1, <2>2 DEF OldestGoFirst
    <3>3. PICK j \in Slots : n \in RecordsOf(files[j])
      BY <3>2 DEF OnDisk
    <3>4. j # AUDIT_KEEP
      <4> SUFFICES ASSUME j = AUDIT_KEEP PROVE FALSE
        OBVIOUS
      <4>1. j > i /\ m \in Nat /\ n \in Nat
        BY <3>1, <3>3, AuditLogAssumption DEF Slots, OrderInv, RecordIsNew
      <4>2. PICK k \in TextsOf(files[i]) : m = files[i][k].no
        BY <3>1 DEF RecordsOf
      <4>3. PICK l \in TextsOf(files[j]) : n = files[j][l].no
        BY <3>3 DEF RecordsOf
      <4>4. n < m
        BY <4>1, <4>2, <4>3 DEF OrderInv, RecordsInOrder
      <4> QED BY <2>2, <4>1, <4>4
    <3> QED BY <1>2, <3>3, <3>4
  <2> QED BY <2>1, <2>2 DEF OldestGoFirst
<1> QED BY <1>1, <1>2

(* Steps outside a rotation touch the current file only. *)
LEMMA OutsideRotation ==
    ASSUME OrderInv, KeepInv, UNCHANGED <<restarts, jammed>>, at # "rotate",
           at' = "rotate" => slot' = AUDIT_KEEP /\ Full',
           \A i \in 1..AUDIT_KEEP : files'[i] = files[i],
           \/ UNCHANGED written /\ OnDisk' = OnDisk
           \/ at = "text" /\ written' = written \cup {record} /\ OnDisk' = OnDisk \cup {record}
    PROVE  KeepInv'
<1>1. OldestGoFirst'
  <2>1. CASE UNCHANGED written /\ OnDisk' = OnDisk
    BY <2>1 DEF KeepInv, OldestGoFirst
  <2>2. CASE at = "text" /\ written' = written \cup {record} /\ OnDisk' = OnDisk \cup {record}
    <3>1. \A n \in written : n \in 1..record /\ record \in Nat
      BY <2>2 DEF OrderInv, RecordIsNew
    <3> QED BY <2>2, <3>1 DEF KeepInv, OldestGoFirst
  <2> QED BY <2>1, <2>2
<1>2. Vacated'
  BY AuditLogAssumption DEF Vacated
<1>3. RotatedAreFull'
  BY DEF KeepInv, RotatedAreFull
<1>4. HolesBounded'
  <2> SUFFICES ASSUME ~jammed, NEW i \in 1..AUDIT_KEEP,
                      files'[i] # Absent \/ (i = AUDIT_KEEP /\ Dropped')
               PROVE  Cardinality(Holes(i)') <= restarts
    BY DEF HolesBounded
  <2>1. Dropped' => Dropped
    BY DEF Dropped
  <2>2. Gap' = {} /\ Gap = {}
    BY AuditLogAssumption DEF Gap
  <2>3. Holes(i)' = Holes(i)
    <3>1. \A j \in 1..i : files'[j] = files[j]
      BY SlotsAreFinite
    <3> QED BY <2>2, <3>1 DEF Holes
  <2> QED BY <2>1, <2>3 DEF KeepInv, HolesBounded
<1> QED BY <1>1, <1>2, <1>3, <1>4 DEF KeepInv

(* Removing the oldest file opens the gap at its number. *)
LEMMA RemoveOldestKeeps == OrderInv /\ KeepInv /\ RemoveOldest => KeepInv'
<1> SUFFICES ASSUME OrderInv, KeepInv, RemoveOldest PROVE KeepInv'
  OBVIOUS
<1>1. /\ at = "rotate" /\ at' = "rotate" /\ slot = AUDIT_KEEP /\ slot' = AUDIT_KEEP - 1
      /\ UNCHANGED <<restarts, jammed, written>> /\ AUDIT_KEEP \in Nat \ {0}
      /\ DOMAIN files = Slots
      /\ \A i \in Slots : i # AUDIT_KEEP => files'[i] = files[i]
      /\ files'[AUDIT_KEEP] \in {Absent, files[AUDIT_KEEP]}
  BY AuditLogAssumption DEF RemoveOldest, OrderInv, TypeOK
<1>2. OnDisk' = OnDisk \/ OnDisk' = UNION {RecordsOf(files[i]) : i \in Slots \ {AUDIT_KEEP}}
  <2>1. CASE files'[AUDIT_KEEP] = files[AUDIT_KEEP]
    <3>1. \A i \in Slots : files'[i] = files[i]
      BY <1>1, <2>1
    <3> QED BY <3>1 DEF OnDisk
  <2>2. CASE files'[AUDIT_KEEP] = Absent
    <3>1. \A i \in Slots : RecordsOf(files'[i]) = IF i = AUDIT_KEEP THEN {} ELSE RecordsOf(files[i])
      BY <1>1, <2>2, NoRecords
    <3> QED BY <3>1 DEF OnDisk
  <2> QED BY <1>1, <2>1, <2>2
<1>3. OldestGoFirst'
  <2>1. CASE jammed
    BY <1>1, <2>1 DEF OldestGoFirst
  <2>2. CASE ~jammed
    BY <1>1, <1>2, <2>2, DropTheOldest DEF KeepInv
  <2> QED BY <2>1, <2>2
<1>4. Vacated'
  <2>1. files'[0] = files[0]
    BY <1>1, SlotsAreFinite
  <2> QED BY <1>1, <2>1 DEF KeepInv, Vacated, Full
<1>5. RotatedAreFull'
  BY <1>1, SlotsAreFinite DEF KeepInv, RotatedAreFull
<1>6. HolesBounded'
  <2> SUFFICES ASSUME ~jammed, NEW i \in 1..AUDIT_KEEP,
                      files'[i] # Absent \/ (i = AUDIT_KEEP /\ Dropped')
               PROVE  Cardinality(Holes(i)') <= restarts
    BY <1>1 DEF HolesBounded
  <2>1. Gap = {} /\ Gap' = {AUDIT_KEEP}
    BY <1>1 DEF Gap
  <2>2. Holes(i)' \subseteq Holes(i)
    <3>1. \A j \in 1..i : j \in Slots
      BY <1>1 DEF Slots
    <3> QED BY <1>1, <2>1, <3>1 DEF Holes
  <2>3. files[i] # Absent \/ (i = AUDIT_KEEP /\ Dropped)
    <3>1. CASE files[i] = Absent
      <4>1. i = AUDIT_KEEP /\ Dropped'
        BY <1>1, <3>1, SlotsAreFinite
      <4>2. \A j \in Slots : files'[j] = files[j]
        BY <1>1, <3>1, <4>1
      <4>3. OnDisk' = OnDisk
        BY <4>2 DEF OnDisk
      <4> QED BY <1>1, <4>1, <4>3 DEF Dropped
    <3> QED BY <3>1
  <2>4. Cardinality(Holes(i)) <= restarts
    BY <2>3 DEF KeepInv, HolesBounded
  <2>5. IsFiniteSet(Holes(i)') /\ Cardinality(Holes(i)') <= Cardinality(Holes(i))
    BY <2>2, SlotsAreFinite, FS_Subset
  <2>6. Cardinality(Holes(i)') \in Nat /\ restarts \in Nat
    BY <2>5, FS_CardinalityType DEF OrderInv, TypeOK
  <2> QED BY <2>4, <2>5, <2>6, SlotsAreFinite
<1> QED BY <1>3, <1>4, <1>5, <1>6 DEF KeepInv

(* A restart may leave the gap of a rotation behind. *)
LEMMA RestartKeeps == OrderInv /\ KeepInv /\ Restart => KeepInv'
<1> SUFFICES ASSUME OrderInv, KeepInv, Restart PROVE KeepInv'
  OBVIOUS
<1>1. /\ at' = "recv" /\ restarts' = restarts + 1 /\ UNCHANGED <<files, jammed, written>>
      /\ restarts \in Nat
  BY DEF Restart, OrderInv, TypeOK
<1>2. OnDisk' = OnDisk
  BY <1>1 DEF OnDisk
<1>3. OldestGoFirst' /\ Vacated' /\ RotatedAreFull'
  BY <1>1, <1>2 DEF KeepInv, OldestGoFirst, Vacated, RotatedAreFull
<1>4. HolesBounded'
  <2> SUFFICES ASSUME ~jammed, NEW i \in 1..AUDIT_KEEP,
                      files[i] # Absent \/ (i = AUDIT_KEEP /\ Dropped)
               PROVE  Cardinality(Holes(i)') <= restarts + 1
    BY <1>1, <1>2 DEF HolesBounded, Dropped
  <2>1. Cardinality(Holes(i)) <= restarts
    BY DEF KeepInv, HolesBounded
  <2>2. PICK g : Holes(i)' \in SUBSET (Holes(i) \cup {g})
    <3>1. Holes(i)' = {j \in 1..i : files[j] = Absent}
      BY <1>1 DEF Holes, Gap
    <3>2. Holes(i)' \in SUBSET (Holes(i) \cup {slot + 1})
      BY <3>1 DEF Holes, Gap
    <3> QED BY <3>2
  <2>3. /\ IsFiniteSet(Holes(i) \cup {g})
        /\ Cardinality(Holes(i) \cup {g}) <= Cardinality(Holes(i)) + 1
        /\ Cardinality(Holes(i)) \in Nat
    <3>1. IsFiniteSet(Holes(i)) /\ Cardinality(Holes(i)) \in Nat
      BY SlotsAreFinite
    <3>2. /\ IsFiniteSet(Holes(i) \cup {g})
          /\ Cardinality(Holes(i) \cup {g}) =
                IF g \in Holes(i) THEN Cardinality(Holes(i)) ELSE Cardinality(Holes(i)) + 1
      BY <3>1, FS_AddElement
    <3> QED BY <3>1, <3>2
  <2>4. /\ IsFiniteSet(Holes(i)')
        /\ Cardinality(Holes(i)') <= Cardinality(Holes(i) \cup {g})
    BY <2>2, <2>3, FS_Subset
  <2>5. Cardinality(Holes(i)') \in Nat /\ Cardinality(Holes(i) \cup {g}) \in Nat
    BY <2>3, <2>4, FS_CardinalityType
  <2> QED BY <1>1, <2>1, <2>3, <2>4, <2>5
<1> QED BY <1>3, <1>4 DEF KeepInv

(* A rename moves the gap from above a file to where the file was; a slot  *)
(* passed over because it has no file becomes the gap itself.              *)
LEMMA ShiftKeeps == OrderInv /\ KeepInv /\ Shift => KeepInv'
<1> SUFFICES ASSUME OrderInv, KeepInv, Shift PROVE KeepInv'
  OBVIOUS
<1>1. /\ at = "rotate" /\ slot \in 0..AUDIT_KEEP - 1 /\ slot \in Slots /\ slot + 1 \in Slots
      /\ UNCHANGED <<restarts, written>> /\ AUDIT_KEEP \in Nat \ {0} /\ DOMAIN files = Slots
      /\ IF slot = 0 THEN at' = "open" ELSE at' = at /\ slot' = slot - 1
      /\ restarts \in Nat /\ files[0] # Absent /\ IsFull(files[0])
      /\ jammed \/ files[slot + 1] = Absent \/ slot + 1 = AUDIT_KEEP
  BY AuditLogAssumption DEF Shift, OrderInv, TypeOK, Slots, KeepInv, Vacated, Full
<1>2. CASE jammed'
  <2>1. Vacated'
    <3>1. CASE slot = 0
      BY <1>1, <1>2, <3>1 DEF Vacated
    <3>2. CASE slot # 0
      <4>1. files'[0] = files[0]
        BY <1>1, <3>2, SlotsAreFinite DEF Shift, Moved
      <4> QED BY <1>1, <1>2, <4>1 DEF Vacated, Full
    <3> QED BY <3>1, <3>2
  <2> QED BY <1>2, <2>1 DEF KeepInv, OldestGoFirst, RotatedAreFull, HolesBounded
<1>3. CASE ~jammed' /\ UNCHANGED files
  <2>1. ~jammed /\ files[slot] = Absent /\ slot # 0
    BY <1>1, <1>3 DEF Shift, Moved
  <2>2. OnDisk' = OnDisk
    BY <1>3 DEF OnDisk
  <2>3. OldestGoFirst'
    BY <1>1, <2>1, <2>2 DEF KeepInv, OldestGoFirst
  <2>4. Vacated'
    BY <1>1, <1>3, <2>1 DEF Vacated, Full
  <2>5. RotatedAreFull'
    BY <1>3, <2>1 DEF KeepInv, RotatedAreFull
  <2>6. HolesBounded'
    <3> SUFFICES ASSUME NEW i \in 1..AUDIT_KEEP,
                        files[i] # Absent \/ (i = AUDIT_KEEP /\ Dropped)
                 PROVE  Cardinality(Holes(i)') <= restarts
      BY <1>1, <1>3, <2>2 DEF HolesBounded, Dropped
    <3>1. Cardinality(Holes(i)) <= restarts
      BY <2>1 DEF KeepInv, HolesBounded
    <3> DEFINE A == {j \in 1..i : files[j] = Absent}
    <3>2. Holes(i)' = A \ {slot} /\ Holes(i) = A \ {slot + 1}
      <4>1. Gap = {slot + 1} /\ Gap' = {slot}
        BY <1>1, <2>1 DEF Gap
      <4> QED BY <1>3, <4>1 DEF Holes
    <3>3. IsFiniteSet(A) /\ Cardinality(A) \in Nat
      <4>1. IsFiniteSet(1..i) /\ A \in SUBSET (1..i)
        BY FS_Interval
      <4> QED BY <4>1, FS_Subset, FS_CardinalityType
    <3>4. slot \in A \/ (slot \notin A /\ slot + 1 \notin A)
      <4>1. slot \in A <=> slot \in 1..i
        BY <2>1
      <4>2. slot + 1 \in A => slot + 1 \in 1..i
        OBVIOUS
      <4>3. i # slot
        BY <1>1, <2>1
      <4> HIDE DEF A
      <4> QED BY <1>1, <2>1, <4>1, <4>2, <4>3
    <3> HIDE DEF A
    <3>5. Cardinality(A \ {slot}) <= Cardinality(A \ {slot + 1})
      <4>1. Cardinality(A \ {slot}) = IF slot \in A THEN Cardinality(A) - 1 ELSE Cardinality(A)
        BY <3>3, FS_RemoveElement
      <4>2. Cardinality(A \ {slot + 1}) =
              IF slot + 1 \in A THEN Cardinality(A) - 1 ELSE Cardinality(A)
        BY <3>3, FS_RemoveElement
      <4> QED BY <3>3, <3>4, <4>1, <4>2
    <3>6. Cardinality(A \ {slot}) \in Nat /\ Cardinality(A \ {slot + 1}) \in Nat
      BY <3>3, FS_RemoveElement, FS_CardinalityType
    <3> QED BY <1>1, <3>1, <3>2, <3>5, <3>6
  <2> QED BY <2>3, <2>4, <2>5, <2>6 DEF KeepInv
<1>4. CASE ~jammed' /\ ~ UNCHANGED files
  <2>1. ~jammed /\ files[slot] # Absent /\ files' = Moved(slot, slot + 1)
    BY <1>4 DEF Shift
  <2>2. \A i \in Slots : files'[i] = IF i = slot THEN Absent
                                     ELSE IF i = slot + 1 THEN files[slot] ELSE files[i]
    BY <1>1, <2>1 DEF Moved
  <2>8. ASSUME files[slot + 1] = Absent PROVE OnDisk' = OnDisk
    <3>1. OnDisk' \subseteq OnDisk
      BY <1>1, <2>2, NoRecords DEF OnDisk
    <3>2. OnDisk \subseteq OnDisk'
      <4> SUFFICES ASSUME NEW i \in Slots PROVE RecordsOf(files[i]) \subseteq OnDisk'
        BY DEF OnDisk
      <4>1. CASE i = slot
        <5>1. files'[slot + 1] = files[i]
          BY <1>1, <2>2, <4>1
        <5> QED BY <1>1, <5>1 DEF OnDisk
      <4>2. CASE i = slot + 1
        BY <2>8, <4>2, NoRecords
      <4>3. CASE i # slot /\ i # slot + 1
        BY <2>2, <4>3 DEF OnDisk
      <4> QED BY <4>1, <4>2, <4>3
    <3> QED BY <3>1, <3>2
  <2>3. OnDisk' = OnDisk \/ OnDisk' = UNION {RecordsOf(files[i]) : i \in Slots \ {AUDIT_KEEP}}
    <3>1. CASE files[slot + 1] = Absent
      BY <2>8, <3>1
    <3>2. CASE slot + 1 = AUDIT_KEEP
      <4> DEFINE Kept == UNION {RecordsOf(files[i]) : i \in Slots \ {AUDIT_KEEP}}
      <4>1. OnDisk' \subseteq Kept
        BY <1>1, <2>2, <3>2, NoRecords DEF OnDisk
      <4>2. ASSUME NEW i \in Slots \ {AUDIT_KEEP} PROVE RecordsOf(files[i]) \subseteq OnDisk'
        <5>1. CASE i = slot
          <6>1. files'[slot + 1] = files[i]
            BY <1>1, <2>2, <5>1
          <6> QED BY <1>1, <6>1 DEF OnDisk
        <5>2. CASE i # slot
          BY <2>2, <3>2, <5>2 DEF OnDisk
        <5> QED BY <5>1, <5>2
      <4> QED BY <4>1, <4>2
    <3> QED BY <1>1, <2>1, <3>1, <3>2
  <2>4. OldestGoFirst'
    BY <1>1, <2>1, <2>3, DropTheOldest DEF KeepInv
  <2>5. Vacated'
    <3>1. CASE slot = 0
      BY <1>1, <3>1 DEF Vacated
    <3>2. CASE slot # 0
      <4>1. files'[0] = files[0] /\ files'[slot] = Absent
        BY <1>1, <2>2, <3>2, SlotsAreFinite
      <4> QED BY <1>1, <3>2, <4>1 DEF Vacated, Full
    <3> QED BY <3>1, <3>2
  <2>6. RotatedAreFull'
    <3> SUFFICES ASSUME NEW i \in 1..AUDIT_KEEP, files'[i] # Absent PROVE IsFull(files'[i])
      BY DEF RotatedAreFull
    <3>1. \A j \in 1..AUDIT_KEEP : files[j] # Absent => IsFull(files[j])
      BY <2>1 DEF KeepInv, RotatedAreFull
    <3>2. slot = 0 \/ slot \in 1..AUDIT_KEEP
      BY <1>1
    <3> QED BY <1>1, <2>1, <2>2, <3>1, <3>2, SlotsAreFinite
  <2>7. HolesBounded'
    <3> SUFFICES ASSUME NEW i \in 1..AUDIT_KEEP,
                        files'[i] # Absent \/ (i = AUDIT_KEEP /\ Dropped')
                 PROVE  Cardinality(Holes(i)') <= restarts
      BY <1>1 DEF HolesBounded
    <3>1. \A j \in 1..AUDIT_KEEP : files[j] # Absent \/ (j = AUDIT_KEEP /\ Dropped)
             => Cardinality(Holes(j)) <= restarts
      BY <2>1 DEF KeepInv, HolesBounded
    <3>2. Gap = {slot + 1} /\ Gap' = IF slot = 0 THEN {} ELSE {slot}
      BY <1>1 DEF Gap
    <3>3. \A j \in 1..i : j \in Slots /\ j \in Nat
      BY <1>1 DEF Slots
    <3>4. i \in Slots /\ i \in Nat /\ slot \in Nat /\ i # slot
      <4>1. i \in Slots /\ i \in Nat /\ slot \in Nat
        BY <1>1, SlotsAreFinite
      <4> QED BY <1>1, <2>2, <4>1
    <3>5. CASE i < slot
      <4>1. Holes(i)' = Holes(i) /\ files'[i] = files[i] /\ i # AUDIT_KEEP
        BY <1>1, <2>2, <3>2, <3>3, <3>4, <3>5 DEF Holes
      <4> QED BY <3>1, <4>1
    <3>6. CASE i = slot + 1
      <4>1. CASE slot = 0
        <5>1. Holes(i)' = {}
          BY <1>1, <2>1, <2>2, <3>2, <3>3, <3>6, <4>1 DEF Holes
        <5> QED BY <1>1, <5>1, FS_EmptySet
      <4>2. CASE slot # 0
        <5>1. Holes(i)' = Holes(slot) /\ slot \in 1..AUDIT_KEEP
          BY <1>1, <2>1, <2>2, <3>2, <3>3, <3>4, <3>6, <4>2 DEF Holes
        <5> QED BY <2>1, <3>1, <5>1
      <4> QED BY <4>1, <4>2
    <3>7. CASE i > slot + 1
      <4>1. Holes(i)' = Holes(i)
        BY <1>1, <2>1, <2>2, <3>2, <3>3, <3>4, <3>7 DEF Holes
      <4>2. files'[i] = files[i]
        BY <2>2, <3>4, <3>7
      <4>3. files[slot + 1] = Absent
        BY <1>1, <2>1, <3>7
      <4>4. OnDisk' = OnDisk
        BY <2>8, <4>3
      <4> QED BY <1>1, <3>1, <4>1, <4>2, <4>4 DEF Dropped
    <3> QED BY <3>4, <3>5, <3>6, <3>7
  <2> QED BY <2>4, <2>5, <2>6, <2>7 DEF KeepInv
<1> QED BY <1>2, <1>3, <1>4

LEMMA KeepInit == Init => KeepInv
<1> SUFFICES ASSUME Init PROVE KeepInv
  OBVIOUS
<1>1. /\ \A i \in Slots : files[i] = Absent
      /\ at = "recv" /\ written = {} /\ AUDIT_KEEP \in Nat \ {0}
  BY AuditLogAssumption DEF Init
<1>2. OnDisk = {} /\ ~Dropped
  BY <1>1, NoRecords DEF OnDisk, Dropped
<1>3. OldestGoFirst /\ Vacated
  BY <1>1, <1>2 DEF OldestGoFirst, Vacated
<1>4. RotatedAreFull /\ HolesBounded
  BY <1>1, <1>2, SlotsAreFinite DEF RotatedAreFull, HolesBounded
<1> QED BY <1>3, <1>4 DEF KeepInv

LEMMA KeepStep == OrderInv /\ KeepInv /\ [Next]_vars => KeepInv'
<1> SUFFICES ASSUME OrderInv, KeepInv, [Next]_vars PROVE KeepInv'
  OBVIOUS
<1>0. /\ DOMAIN files = Slots /\ 0 \in Slots
      /\ \A i \in 1..AUDIT_KEEP : i \in Slots /\ i # 0
      /\ at \in {"text", "end"} => files[0] \in Contents
      /\ record \in Records
  BY SlotsAreFinite DEF OrderInv, TypeOK
<1>1. CASE Begin
  <2>1. UNCHANGED <<restarts, jammed, written, files>> /\ at = "recv" /\ slot' = AUDIT_KEEP
        /\ (at' = "rotate" => Full)
    BY <1>1 DEF Begin
  <2>2. OnDisk' = OnDisk /\ (at' = "rotate" => Full')
    BY <2>1 DEF OnDisk, Full
  <2> QED BY <2>1, <2>2, OutsideRotation
<1>2. CASE Open
  <2>1. UNCHANGED <<restarts, jammed, written>> /\ at = "open" /\ at' # "rotate"
    BY <1>2 DEF Open
  <2>2. \A i \in Slots : RecordsOf(files'[i]) = RecordsOf(files[i])
    BY <1>0, <1>2, NoRecords DEF Open
  <2>3. OnDisk' = OnDisk
    BY <2>2 DEF OnDisk
  <2>4. \A i \in 1..AUDIT_KEEP : files'[i] = files[i]
    BY <1>0, <1>2 DEF Open
  <2> QED BY <2>1, <2>3, <2>4, OutsideRotation
<1>3. CASE WriteText \/ WriteEnd
  <2>1. UNCHANGED <<restarts, jammed>> /\ at \in {"text", "end"} /\ at' # "rotate"
    BY <1>3 DEF WriteText, WriteEnd
  <2>2. CASE UNCHANGED <<files, written>>
    <3>1. OnDisk' = OnDisk
      BY <2>2 DEF OnDisk
    <3> QED BY <2>1, <2>2, <3>1, OutsideRotation
  <2>3. ASSUME NEW part \in Parts, Put(part), written' = written \cup ({part.no} \ {0}),
               part.no = 0 \/ (part.no = record /\ at = "text")
        PROVE  KeepInv'
    <3>1. \A i \in Slots : files'[i] = IF i = 0 THEN Append(files[0], part) ELSE files[i]
      BY <1>0, <2>3 DEF Put
    <3>2. RecordsOf(Append(files[0], part)) = RecordsOf(files[0]) \cup ({part.no} \ {0})
      BY <1>0, <2>1, OnePartMore
    <3>3. OnDisk' = OnDisk \cup ({part.no} \ {0})
      <4>1. OnDisk' = UNION {IF i = 0 THEN RecordsOf(files[0]) \cup ({part.no} \ {0})
                                      ELSE RecordsOf(files[i]) : i \in Slots}
        BY <3>1, <3>2 DEF OnDisk
      <4> QED BY <1>0, <4>1 DEF OnDisk
    <3>4. \/ UNCHANGED written /\ OnDisk' = OnDisk
          \/ at = "text" /\ written' = written \cup {record} /\ OnDisk' = OnDisk \cup {record}
      <4>1. CASE part.no = 0
        BY <2>3, <3>3, <4>1
      <4>2. CASE part.no # 0
        BY <2>3, <3>3, <4>2
      <4> QED BY <4>1, <4>2
    <3>5. \A i \in 1..AUDIT_KEEP : files'[i] = files[i]
      BY <1>0, <3>1
    <3> QED BY <2>1, <3>4, <3>5, OutsideRotation
  <2>4. /\ Text(record) \in Parts /\ Text(record).no = record
        /\ Torn(record) \in Parts /\ Torn(record).no = record
        /\ LineEnd \in Parts /\ LineEnd.no = 0
    BY <1>0, AuditLogAssumption DEF Text, Torn, LineEnd, Parts, Records
  <2>5. CASE WriteText
    <3>1. record # 0 /\ at = "text"
      BY <2>5 DEF WriteText, OrderInv, RecordIsNew
    <3>2. CASE Put(Text(record)) /\ written' = written \cup {record}
      BY <2>3, <2>4, <3>1, <3>2
    <3>3. CASE Put(Torn(record)) /\ written' = written \cup {record}
      BY <2>3, <2>4, <3>1, <3>3
    <3> QED BY <2>2, <2>5, <3>2, <3>3 DEF WriteText
  <2>6. CASE WriteEnd
    <3>1. UNCHANGED written
      BY <2>6 DEF WriteEnd
    <3>2. CASE Put(LineEnd)
      BY <2>3, <2>4, <3>1, <3>2
    <3> QED BY <2>2, <2>6, <3>1, <3>2 DEF WriteEnd
  <2> QED BY <1>3, <2>5, <2>6
<1>4. CASE UNCHANGED vars
  <2>1. OnDisk' = OnDisk
    BY <1>4 DEF vars, OnDisk
  <2>2. Dropped' = Dropped /\ Gap' = Gap
    BY <1>4, <2>1 DEF vars, Dropped, Gap
  <2>3. HolesBounded'
    BY <1>4, <2>2 DEF vars, KeepInv, HolesBounded, Holes
  <2> QED BY <1>4, <2>1, <2>3 DEF vars, KeepInv, OldestGoFirst, Vacated, Full, RotatedAreFull
<1> QED BY <1>1, <1>2, <1>3, <1>4, RemoveOldestKeeps, ShiftKeeps, RestartKeeps DEF Next

-----------------------------------------------------------------------------
(* A file that only moves keeps its lines. *)
LEMMA LinesMove ==
    ASSUME LinesApart, UNCHANGED done,
           \A i \in Slots : files'[i] \in {Absent, <<>>} \/ \E j \in Slots : files'[i] = files[j]
    PROVE  LinesApart'
<1> SUFFICES ASSUME NEW i \in Slots, files'[i] # Absent, NEW k \in DOMAIN files'[i]
             PROVE  /\ files'[i][k].no \in done =>
                          /\ files'[i][k].whole /\ k < Len(files'[i])
                          /\ files'[i][k + 1] = LineEnd
                    /\ files'[i][k].no # 0 /\ Follows(files'[i][k].no) /\ k > 1 =>
                          files'[i][k - 1] = LineEnd
  BY DEF LinesApart, Follows
<1>1. files'[i] # <<>>
  OBVIOUS
<1>2. PICK j \in Slots : files'[i] = files[j]
  BY <1>1
<1> QED BY <1>2 DEF LinesApart

(* The next line would not follow a record that is done. *)
LEMMA NothingToFollow ==
    ASSUME OrderInv, at # "recv", at' = "recv", UNCHANGED <<record, done>>
    PROVE  LastLine'
<1>1. record \in 1..MaxRecords /\ record \notin done /\ MaxRecords \in Nat
  BY AuditLogAssumption DEF OrderInv, RecordIsNew
<1>2. ~Follows(record + 1)'
  BY <1>1 DEF Follows
<1> QED BY <1>2 DEF LastLine

(* A record's text starts a line where it follows a record that is done.   *)
LEMMA TextStartsLine ==
    ASSUME OrderInv, LineInv, NEW part \in Parts, Puts(part), UNCHANGED done,
           at = "text", part.no = record
    PROVE  LinesApart'
<1> DEFINE c == files[0]  d == Append(c, part)
<1>1. /\ \A i \in Slots : files'[i] = IF i = 0 THEN d ELSE files[i]
      /\ record \notin done /\ record \in 1..MaxRecords /\ 0 \in Slots /\ c \in Contents
  BY Appended, SlotsAreFinite DEF OrderInv, RecordIsNew, TypeOK, Puts
<1>2. /\ Len(c) \in Nat /\ DOMAIN c = 1..Len(c) /\ c # Absent
      /\ Len(d) = Len(c) + 1 /\ DOMAIN d = 1..Len(c) + 1
      /\ \A k \in 1..Len(c) : d[k] = c[k]
      /\ d[Len(c) + 1] = part
  BY <1>1, OnePartMore
<1>3. Follows(record) /\ Len(c) # 0 => c[Len(c)] = LineEnd
  BY <1>2 DEF LineInv, LastLine
<1> HIDE DEF d, c
<1> SUFFICES ASSUME NEW i \in Slots, files'[i] # Absent, NEW k \in DOMAIN files'[i]
             PROVE  /\ files'[i][k].no \in done =>
                          /\ files'[i][k].whole /\ k < Len(files'[i])
                          /\ files'[i][k + 1] = LineEnd
                    /\ files'[i][k].no # 0 /\ Follows(files'[i][k].no) /\ k > 1 =>
                          files'[i][k - 1] = LineEnd
  BY DEF LinesApart, Follows
<1>4. CASE i # 0
  BY <1>1, <1>4 DEF LineInv, LinesApart
<1>5. CASE i = 0 /\ k = Len(c) + 1
  BY <1>1, <1>2, <1>3, <1>5
<1>6. CASE i = 0 /\ k # Len(c) + 1
  <2>1. k \in 1..Len(c) /\ files'[i] = d
    BY <1>1, <1>2, <1>6
  <2>2. /\ c[k].no \in done => c[k].whole /\ k < Len(c) /\ c[k + 1] = LineEnd
        /\ c[k].no # 0 /\ Follows(c[k].no) /\ k > 1 => c[k - 1] = LineEnd
    BY <1>1, <1>2, <2>1 DEF LineInv, LinesApart, c
  <2>3. k < Len(c) => k + 1 \in 1..Len(c)
    BY <1>2, <2>1
  <2>4. k > 1 => k - 1 \in 1..Len(c)
    BY <1>2, <2>1
  <2> QED BY <1>2, <2>1, <2>2, <2>3, <2>4
<1> QED BY <1>4, <1>5, <1>6

(* The line end closes the line of the record that is done with it. *)
LEMMA EndClosesLine ==
    ASSUME OrderInv, LineInv, Puts(LineEnd), at = "end", at' = "recv",
           done' = done \cup {record}, UNCHANGED record
    PROVE  LineInv'
<1> DEFINE c == files[0]  d == Append(c, LineEnd)
<1>1. LineEnd \in Parts /\ LineEnd.no = 0
  BY AuditLogAssumption DEF LineEnd, Parts, Records
<1>2. /\ \A i \in Slots : files'[i] = IF i = 0 THEN d ELSE files[i]
      /\ \A i \in Slots : files[i] = Absent \/ files[i] \in Contents
      /\ record \in 1..MaxRecords /\ MaxRecords \in Nat /\ 0 \in Slots
      /\ c \in Contents /\ c # <<>> /\ c[Len(c)] = Text(record)
      /\ \A i \in Slots : RecordsOf(files[i]) \subseteq 1..record
      /\ \A i \in Slots : i \in Nat /\ ~(i < 0)
      /\ 0 \notin done
  <2>1. \A i \in Slots : files'[i] = IF i = 0 THEN d ELSE files[i]
    BY <1>1, Appended
  <2>2. /\ \A i \in Slots : RecordsOf(files[i]) \subseteq 1..record
        /\ record \in 1..MaxRecords /\ 0 \notin done
    BY DEF OrderInv, RecordIsNew
  <2>3. /\ c \in Contents /\ c # <<>> /\ c[Len(c)] = Text(record)
        /\ \A i \in Slots : files[i] = Absent \/ files[i] \in Contents
    BY SlotsAreFinite DEF OrderInv, TypeOK, Puts, Last
  <2>4. \A i \in Slots : i \in Nat /\ ~(i < 0)
    BY SlotsAreFinite DEF Slots
  <2> QED BY <2>1, <2>2, <2>3, <2>4, SlotsAreFinite, AuditLogAssumption
<1>3. /\ Len(c) \in Nat /\ DOMAIN c = 1..Len(c) /\ c # Absent /\ d # Absent
      /\ Len(d) = Len(c) + 1 /\ DOMAIN d = 1..Len(c) + 1
      /\ \A k \in 1..Len(c) : d[k] = c[k]
      /\ d[Len(c) + 1] = LineEnd
  BY <1>1, <1>2, OnePartMore
<1>4. Len(c) # 0
  BY <1>2, EmptySeq DEF Contents
<1>5. ASSUME NEW i \in Slots, files[i] # Absent, NEW k \in DOMAIN files[i], files[i][k].no = record
      PROVE  i = 0 /\ k = Len(c)
  <2>1. k \in TextsOf(files[i]) /\ Len(c) \in TextsOf(c)
    BY <1>2, <1>3, <1>4, <1>5 DEF TextsOf, Text
  <2>2. c[Len(c)].no = record
    BY <1>2 DEF Text
  <2>3. i = 0
    BY <1>2, <1>5, <2>1, <2>2 DEF OrderInv, RecordsInOrder
  <2>4. k \in 1..Len(c)
    BY <1>3, <1>5, <2>3
  <2>5. ~ (k < Len(c))
    BY <1>2, <1>5, <2>1, <2>2, <2>3 DEF OrderInv, RecordsInOrder
  <2> QED BY <1>3, <2>3, <2>4, <2>5
<1> HIDE DEF d, c
<1>6. LinesApart'
  <2> SUFFICES ASSUME NEW i \in Slots, files'[i] # Absent, NEW k \in DOMAIN files'[i]
               PROVE  /\ files'[i][k].no \in done \cup {record} =>
                            /\ files'[i][k].whole /\ k < Len(files'[i])
                            /\ files'[i][k + 1] = LineEnd
                      /\ /\ files'[i][k].no # 0 /\ k > 1
                         /\ files'[i][k].no - 1 \in done \cup {record} \/ files'[i][k].no = 1
                         => files'[i][k - 1] = LineEnd
    BY DEF LinesApart, Follows
  <2>1. CASE i = 0 /\ k = Len(c) + 1
    BY <1>1, <1>2, <1>3, <2>1
  <2>2. CASE ~(i = 0 /\ k = Len(c) + 1)
    <3>1. files[i] # Absent /\ k \in DOMAIN files[i] /\ files'[i][k] = files[i][k]
      BY <1>2, <1>3, <2>2 DEF c
    <3>2. /\ files[i][k].no \in done =>
                files[i][k].whole /\ k < Len(files[i]) /\ files[i][k + 1] = LineEnd
          /\ files[i][k].no # 0 /\ Follows(files[i][k].no) /\ k > 1 =>
                files[i][k - 1] = LineEnd
      BY <3>1 DEF LineInv, LinesApart
    <3>3. /\ Len(files[i]) \in Nat /\ DOMAIN files[i] = 1..Len(files[i]) /\ k \in 1..Len(files[i])
          /\ files[i][k].no \in Nat
      <4>1. files[i] \in Seq(Parts)
        BY <1>2, <3>1 DEF Contents, Parts
      <4>2. /\ Len(files[i]) \in Nat /\ DOMAIN files[i] = 1..Len(files[i])
            /\ k \in 1..Len(files[i]) /\ files[i][k] \in Parts
        BY <3>1, <4>1
      <4> QED BY <4>2, AuditLogAssumption DEF Parts, Records
    <3>4. files[i][k].no # 0 => files[i][k].no \in 1..record
      <4>1. files[i][k].no # 0 => files[i][k].no \in RecordsOf(files[i])
        BY <3>1 DEF RecordsOf, TextsOf
      <4> QED BY <1>2, <4>1
    <3>5. files[i][k].no = record => i = 0 /\ k = Len(c)
      BY <1>5, <3>1
    <3>6. \A l \in 1..Len(files[i]) : files'[i][l] = files[i][l]
      BY <1>2, <1>3 DEF c
    <3>7. k < Len(files[i]) => k < Len(files'[i]) /\ files'[i][k + 1] = files[i][k + 1]
      <4>1. k < Len(files[i]) => k + 1 \in 1..Len(files[i])
        BY <3>3
      <4>2. Len(files'[i]) = IF i = 0 THEN Len(c) + 1 ELSE Len(files[i])
        BY <1>2, <1>3
      <4>3. i = 0 => files[i] = c
        BY DEF c
      <4> QED BY <1>3, <3>3, <3>6, <4>1, <4>2, <4>3
    <3>8. k > 1 => files'[i][k - 1] = files[i][k - 1]
      BY <3>3, <3>6
    <3>9. files'[i][k].no \in done \cup {record} =>
            files'[i][k].whole /\ k < Len(files'[i]) /\ files'[i][k + 1] = LineEnd
      <4>1. CASE files[i][k].no \in done
        BY <3>1, <3>2, <3>7, <4>1
      <4>2. CASE files[i][k].no = record
        <5>1. i = 0 /\ k = Len(c) /\ files[i] = c
          BY <3>5, <4>2 DEF c
        <5>2. files'[i] = d
          BY <1>2, <5>1
        <5>3. files'[i][k] = Text(record)
          BY <1>2, <3>1, <5>1
        <5> QED BY <1>3, <5>1, <5>2, <5>3 DEF Text
      <4> QED BY <3>1, <4>1, <4>2
    <3>10. /\ files'[i][k].no # 0 /\ k > 1
           /\ files'[i][k].no - 1 \in done \cup {record} \/ files'[i][k].no = 1
           => files'[i][k - 1] = LineEnd
      <4>1. files[i][k].no # 0 => files[i][k].no - 1 # record
        BY <1>2, <3>3, <3>4
      <4> QED BY <3>1, <3>2, <3>8, <4>1 DEF Follows
    <3> QED BY <3>9, <3>10
  <2> QED BY <2>1, <2>2
<1>7. LastLine'
  <2>1. files'[0] = d
    BY <1>2
  <2> QED BY <1>3, <2>1 DEF LastLine
<1> QED BY <1>6, <1>7 DEF LineInv

LEMMA LineStep == OrderInv /\ LineInv /\ [Next]_vars => LineInv'
<1> SUFFICES ASSUME OrderInv, LineInv, [Next]_vars PROVE LineInv'
  OBVIOUS
<1>0. /\ DOMAIN files = Slots /\ 0 \in Slots /\ AUDIT_KEEP \in Slots /\ AUDIT_KEEP \in Nat \ {0}
      /\ slot \in Slots /\ record \in Records /\ record \in Nat
      /\ LinesApart /\ LastLine
  BY SlotsAreFinite, AuditLogAssumption DEF OrderInv, TypeOK, LineInv, Records
<1>1. CASE Begin
  <2>1. UNCHANGED <<files, done>> /\ at = "recv" /\ record' = record + 1
        /\ (at' \in {"rotate", "open"} \/ at' = "recv")
    BY <1>1 DEF Begin
  <2>2. LinesApart'
    BY <1>0, <2>1, LinesMove
  <2>3. CASE at' = "recv"
    <3>1. ~Follows(record + 1)'
      BY <1>0, <2>1 DEF Follows, OrderInv, RecordIsNew
    <3> QED BY <2>2, <2>3, <3>1 DEF LineInv, LastLine
  <2>4. CASE at' \in {"rotate", "open"}
    BY <1>0, <2>1, <2>2, <2>4 DEF LineInv, LastLine, Follows
  <2> QED BY <2>1, <2>3, <2>4
<1>2. CASE RemoveOldest
  <2>1. \A i \in Slots : files'[i] \in {Absent, files[i]}
    BY <1>0, <1>2 DEF RemoveOldest
  <2>2. files'[0] = files[0] /\ UNCHANGED <<at, record, done>>
    BY <1>0, <1>2 DEF RemoveOldest
  <2>3. LinesApart'
    BY <1>0, <2>1, <2>2, LinesMove
  <2> QED BY <1>0, <2>2, <2>3 DEF LineInv, LastLine, Follows
<1>3. CASE Shift
  <2>1. \A i \in Slots : files'[i] \in {Absent, files[i], files[slot]}
    BY <1>0, <1>3 DEF Shift, Moved
  <2>2. files'[0] \in {Absent, files[0]} /\ UNCHANGED <<record, done>> /\ at = "rotate"
        /\ at' \in {"rotate", "open"}
    <3>1. slot + 1 # 0
      BY <1>0 DEF Slots
    <3>2. UNCHANGED files \/ files' = Moved(slot, slot + 1)
      BY <1>3 DEF Shift
    <3>3. files'[0] \in {Absent, files[0]}
      BY <1>0, <3>1, <3>2 DEF Moved
    <3> QED BY <1>3, <3>3 DEF Shift
  <2>3. LinesApart'
    BY <1>0, <2>1, <2>2, LinesMove
  <2> QED BY <1>0, <2>2, <2>3 DEF LineInv, LastLine, Follows
<1>4. CASE Open
  <2>1. \A i \in Slots : files'[i] \in {<<>>, files[i]}
    BY <1>0, <1>4 DEF Open
  <2>2. UNCHANGED <<record, done>> /\ at = "open" /\ at' \in {"recv", "text"}
    BY <1>4 DEF Open
  <2>3. LinesApart'
    BY <1>0, <2>1, <2>2, LinesMove
  <2>4. CASE at' = "recv"
    BY <2>2, <2>3, <2>4, NothingToFollow DEF LineInv
  <2>5. CASE at' = "text"
    <3>1. files'[0] \in {<<>>, files[0]}
      BY <1>0, <2>1
    <3>2. files[0] = Absent => files'[0] = <<>>
      BY <1>0, <1>4, <2>5 DEF Open
    <3> QED BY <1>0, <2>2, <2>3, <2>5, <3>1, <3>2 DEF LineInv, LastLine, Follows
  <2> QED BY <2>2, <2>4, <2>5
<1>5. CASE WriteText
  <2>1. /\ at = "text" /\ UNCHANGED <<record, done>> /\ files[0] # Absent
        /\ at' = "recv" \/ at' = "end"
    BY <1>5 DEF WriteText, OrderInv, TypeOK
  <2>2. /\ Text(record) \in Parts /\ Text(record).no = record
        /\ Torn(record) \in Parts /\ Torn(record).no = record
    BY <1>0 DEF Text, Torn, Parts
  <2>3. LinesApart'
    <3>1. CASE UNCHANGED files
      BY <1>0, <2>1, <3>1, LinesMove
    <3>2. CASE Put(Text(record))
      BY <2>1, <2>2, <3>2, TextStartsLine DEF Puts
    <3>3. CASE Put(Torn(record))
      BY <2>1, <2>2, <3>3, TextStartsLine DEF Puts
    <3> QED BY <1>5, <3>1, <3>2, <3>3 DEF WriteText
  <2>4. CASE at' = "recv"
    BY <2>1, <2>3, <2>4, NothingToFollow DEF LineInv
  <2>5. CASE at' = "end"
    BY <2>3, <2>5 DEF LineInv, LastLine
  <2> QED BY <2>1, <2>4, <2>5
<1>6. CASE WriteEnd
  <2>1. at = "end" /\ at' = "recv" /\ UNCHANGED record /\ files[0] # Absent
    BY <1>6 DEF WriteEnd, OrderInv, TypeOK
  <2>2. CASE Put(LineEnd) /\ done' = done \cup {record}
    BY <2>1, <2>2, EndClosesLine DEF Puts
  <2>3. CASE UNCHANGED <<files, done>>
    <3>1. LinesApart'
      BY <1>0, <2>3, LinesMove
    <3> QED BY <2>1, <2>3, <3>1, NothingToFollow DEF LineInv
  <2> QED BY <1>6, <2>2, <2>3 DEF WriteEnd
<1>7. CASE Restart
  <2>1. at # "recv" /\ at' = "recv" /\ UNCHANGED <<files, record, done>>
    BY <1>7 DEF Restart
  <2>2. LinesApart'
    BY <1>0, <2>1, LinesMove
  <2> QED BY <2>1, <2>2, NothingToFollow DEF LineInv
<1>8. CASE UNCHANGED vars
  <2>1. LinesApart'
    BY <1>0, <1>8, LinesMove DEF vars
  <2> QED BY <1>0, <1>8, <2>1 DEF vars, LineInv, LastLine, Follows
<1> QED BY <1>1, <1>2, <1>3, <1>4, <1>5, <1>6, <1>7, <1>8 DEF Next

-----------------------------------------------------------------------------
LEMMA AuditInvariant == Spec => []AuditInv
<1>1. Init => AuditInv
  <2> SUFFICES ASSUME Init PROVE AuditInv
    OBVIOUS
  <2>1. \A i \in Slots : files[i] = Absent
    BY DEF Init
  <2>2. LineInv
    BY <2>1, SlotsAreFinite DEF LineInv, LinesApart, LastLine
  <2> QED BY <2>2, OrderInit, KeepInit DEF AuditInv
<1>2. AuditInv /\ [Next]_vars => AuditInv'
  BY OrderStep, KeepStep, LineStep DEF AuditInv
<1> QED BY <1>1, <1>2, PTL DEF Spec

(***************************************************************************)
(* Every variable of AuditLog has its type; the worker has the current     *)
(* file open when it writes.                                               *)
(***************************************************************************)
THEOREM TypeCorrect == Spec => []TypeOK
<1>1. AuditInv => TypeOK
  BY DEF AuditInv, OrderInv
<1> QED BY <1>1, AuditInvariant, PTL

(***************************************************************************)
(* append_audit_to and rotate_audit_in keep the records in order over all  *)
(* the files, whatever fails and wherever the process stops.               *)
(***************************************************************************)
THEOREM RecordsStayInOrder == Spec => []RecordsInOrder
<1>1. AuditInv => RecordsInOrder
  BY DEF AuditInv, OrderInv
<1> QED BY <1>1, AuditInvariant, PTL

(***************************************************************************)
(* rotate_audit_in drops the oldest records first, and while it drops any  *)
(* keeps as many full files as it was set to, less one for every restart.  *)
(***************************************************************************)
THEOREM NewestRecordsAreKept == Spec => []NewestAreKept
<1>1. AuditInv => NewestAreKept
  BY FewHolesMuchKept DEF AuditInv
<1> QED BY <1>1, AuditInvariant, PTL

(***************************************************************************)
(* A record written without an error after one written without an error    *)
(* has its line to itself, whatever failed before and after the two.       *)
(***************************************************************************)
THEOREM DamageStaysLocal == Spec => []DamageIsLocal
<1>1. AuditInv => DamageIsLocal
  <2> SUFFICES ASSUME AuditInv, NEW i \in Slots, files[i] # Absent, NEW k \in DOMAIN files[i],
                      files[i][k].no \in done, Follows(files[i][k].no)
               PROVE  Alone(files[i], k)
    BY DEF DamageIsLocal, Follows
  <2>1. files[i][k].no # 0
    BY DEF AuditInv, OrderInv, RecordIsNew
  <2> QED BY <2>1 DEF AuditInv, LineInv, LinesApart, Alone
<1> QED BY <1>1, AuditInvariant, PTL
=============================================================================
