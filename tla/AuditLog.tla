------------------------------ MODULE AuditLog ------------------------------
(***************************************************************************)
(* The audit log on disk (src/main.rs): one worker appends records to the  *)
(* current file, a line each, and rotates the files when the current one   *)
(* is full: the oldest is removed, the others are renamed from the back to *)
(* the front.  Errors of the rotation are ignored, an error of the append  *)
(* loses the record, and the process may stop between any two calls of the *)
(* file system.  writeln! on a File writes the text and the line end in    *)
(* two calls.                                                              *)
(***************************************************************************)
EXTENDS Naturals, FiniteSets, SequencesExt

CONSTANTS
    AUDIT_KEEP,      \* rotated files kept: audit.jsonl.1 to audit.jsonl.AUDIT_KEEP
    AUDIT_MAX_SIZE,  \* size at which the current file is rotated, in records
    Absent,          \* no file
    MaxRecords,      \* bound on the records appended
    MaxFaults        \* bound on failing calls and restarts

ASSUME AuditLogAssumption ==
    /\ AUDIT_KEEP \in Nat \ {0}
    /\ AUDIT_MAX_SIZE \in Nat \ {0}
    /\ MaxRecords \in Nat
    /\ MaxFaults \in Nat
    /\ Absent \notin Seq([no : Nat, whole : BOOLEAN])

VARIABLES
    files,     \* files[0] is audit.jsonl, files[i] is audit.jsonl.i
    at,        \* where the worker is in append_audit_to
    slot,      \* the file the rotation moves next
    record,    \* the record being appended; the last one when at = "recv"
    faults,    \* failing calls and restarts so far
    restarts,  \* history: restarts among them
    jammed,    \* history: some rename failed
    written,   \* history: records that got to the disk, whole or not
    done       \* history: records whose append returned Ok

vars == <<files, at, slot, record, faults, restarts, jammed, written, done>>

-----------------------------------------------------------------------------
(* What a file holds: the text of a record, part of it, or a line end (no = 0). *)
Text(no) == [no |-> no, whole |-> TRUE]
Torn(no) == [no |-> no, whole |-> FALSE]
LineEnd == [no |-> 0, whole |-> TRUE]

Slots == 0..AUDIT_KEEP
Records == 0..MaxRecords

Contents == Seq([no : Records, whole : BOOLEAN])

TypeOK ==
    /\ DOMAIN files = Slots
    /\ \A i \in Slots : files[i] = Absent \/ files[i] \in Contents
    /\ at \in {"recv", "rotate", "open", "text", "end"}
    /\ slot \in Slots
    /\ record \in Records
    /\ at \in {"text", "end"} => files[0] # Absent
    /\ at = "end" => files[0] # <<>> /\ Last(files[0]) = Text(record)
    /\ faults \in 0..MaxFaults
    /\ restarts \in 0..faults
    /\ jammed \in BOOLEAN
    /\ written \subseteq Records
    /\ done \subseteq Records

(* Where the texts are, whole or torn, in what a file holds. *)
TextsOf(content) ==
    IF content = Absent THEN {} ELSE {k \in DOMAIN content : content[k].no # 0}

IsFull(content) == Cardinality(TextsOf(content)) >= AUDIT_MAX_SIZE

(* Mutant of Full: off by one. *)
FullEarly == files[0] # Absent /\ Cardinality(TextsOf(files[0])) + 1 >= AUDIT_MAX_SIZE

Full == files[0] # Absent /\ IsFull(files[0])

-----------------------------------------------------------------------------
Init ==
    /\ files = [i \in Slots |-> Absent]
    /\ at = "recv"
    /\ slot = AUDIT_KEEP
    /\ record = 0
    /\ faults = 0
    /\ restarts = 0
    /\ jammed = FALSE
    /\ written = {}
    /\ done = {}

Fault == faults < MaxFaults /\ faults' = faults + 1

Works == UNCHANGED faults

(* The worker has a record: create the directory, look at the current file. *)
Begin ==
    /\ at = "recv"
    /\ record < MaxRecords
    /\ record' = record + 1
    /\ \/ Works /\ Full /\ at' = "rotate"
       \/ Works /\ ~Full /\ at' = "open"
       \/ Fault /\ Full /\ at' = "open"    \* metadata() fails: no rotation
       \/ Fault /\ at' = "recv"            \* the directory cannot be created
    /\ slot' = AUDIT_KEEP
    /\ UNCHANGED <<files, restarts, jammed, written, done>>

(* rotate_audit_in: remove the oldest, *)
RemoveOldest ==
    /\ at = "rotate"
    /\ slot = AUDIT_KEEP
    /\ \/ Works /\ files' = [files EXCEPT ![slot] = Absent]
       \/ Fault /\ UNCHANGED files
    /\ slot' = slot - 1
    /\ UNCHANGED <<at, record, restarts, jammed, written, done>>

(* Mutant of Moved: a copy. *)
Copied(from, to) == [files EXCEPT ![to] = files[from]]

(* then rename each file to the next number, from the back; the current one last. *)
Moved(from, to) == [files EXCEPT ![to] = files[from], ![from] = Absent]

Shift ==
    /\ at = "rotate"
    /\ slot < AUDIT_KEEP
    /\ \/ Works /\ files[slot] # Absent /\ files' = Moved(slot, slot + 1) /\ UNCHANGED jammed
       \/ Works /\ files[slot] = Absent /\ UNCHANGED <<files, jammed>>
       \/ Fault /\ files[slot] # Absent /\ jammed' = TRUE /\ UNCHANGED files
    /\ IF slot = 0 THEN at' = "open" /\ UNCHANGED slot
                   ELSE slot' = slot - 1 /\ UNCHANGED at
    /\ UNCHANGED <<record, restarts, written, done>>

(* Open for appending, or create. *)
Open ==
    /\ at = "open"
    /\ \/ /\ Works
          /\ files' = [files EXCEPT ![0] = IF @ = Absent THEN <<>> ELSE @]
          /\ at' = "text"
       \/ Fault /\ at' = "recv" /\ UNCHANGED files
    /\ UNCHANGED <<slot, record, restarts, jammed, written, done>>

Put(part) == files' = [files EXCEPT ![0] = Append(@, part)]

(* writeln!: the text, *)
WriteText ==
    /\ at = "text"
    /\ \/ Works /\ Put(Text(record)) /\ at' = "end" /\ written' = written \cup {record}
       \/ Fault /\ Put(Torn(record)) /\ at' = "recv" /\ written' = written \cup {record}
       \/ Fault /\ at' = "recv" /\ UNCHANGED <<files, written>>
    /\ UNCHANGED <<slot, record, restarts, jammed, done>>

(* Mutant of WriteEnd: write! for writeln!. *)
WriteNoEnd ==
    /\ at = "end"
    /\ done' = done \cup {record}
    /\ at' = "recv"
    /\ UNCHANGED <<files, slot, record, faults, restarts, jammed, written>>

(* and the line end.  The worker goes on to the next record in any case. *)
WriteEnd ==
    /\ at = "end"
    /\ \/ Works /\ Put(LineEnd) /\ done' = done \cup {record}
       \/ Fault /\ UNCHANGED <<files, done>>
    /\ at' = "recv"
    /\ UNCHANGED <<slot, record, restarts, jammed, written>>

(* The process stops in the middle of an append and is started again. *)
Restart ==
    /\ at # "recv"
    /\ Fault
    /\ at' = "recv"
    /\ restarts' = restarts + 1
    /\ UNCHANGED <<files, slot, record, jammed, written, done>>

Next ==
    \/ Begin \/ RemoveOldest \/ Shift \/ Open \/ WriteText \/ WriteEnd
    \/ Restart

Spec == Init /\ [][Next]_vars

-----------------------------------------------------------------------------
(***************************************************************************)
(* Read from the oldest file to the current one, the log has the records   *)
(* in the order they were appended, and none twice: whatever renames fail  *)
(* and wherever a rotation is cut off and started anew.                    *)
(***************************************************************************)
RecordsInOrder ==
    \A i, j \in Slots : \A k \in TextsOf(files[i]), l \in TextsOf(files[j]) :
        i > j \/ (i = j /\ k < l) => files[i][k].no < files[j][l].no

(* The records on disk, whole or torn, and those of one file. *)
RecordsOf(content) == {content[k].no : k \in TextsOf(content)}

OnDisk == UNION {RecordsOf(files[i]) : i \in Slots}

(***************************************************************************)
(* The oldest records go first: unless a rename failed, what is on disk is *)
(* the end of what was written, with no hole in it, also when restarts cut *)
(* rotations off half-way and left numbers unused.                         *)
(***************************************************************************)
OldestGoFirst ==
    ~jammed => /\ OnDisk \subseteq written
               /\ \A m \in OnDisk, n \in written : m < n => n \in OnDisk

(***************************************************************************)
(* Retention (README.md:12, "10MB x 5"): once a record is gone, the log    *)
(* keeps at least AUDIT_KEEP full files, less one for every restart, which *)
(* may cut a rotation off after its first renames and so make the next one *)
(* remove a second file.                                                   *)
(***************************************************************************)
EnoughIsKept ==
    ~jammed =>
        \/ written \subseteq OnDisk
        \/ Cardinality({i \in Slots : IsFull(files[i])}) + restarts >= AUDIT_KEEP

(***************************************************************************)
(* Both together: what leaves the log is the oldest, and no more of it     *)
(* than the rotation has to drop (main.rs:1546).                           *)
(***************************************************************************)
NewestAreKept == OldestGoFirst /\ EnoughIsKept

(* The k-th part of a file is a whole record and has its line to itself. *)
Alone(content, k) ==
    /\ content[k].whole
    /\ k > 1 => content[k - 1] = LineEnd
    /\ k < Len(content) => content[k + 1] = LineEnd

(***************************************************************************)
(* Damage stays local: a record whose append returned Ok stands alone on   *)
(* its line if the append before it returned Ok as well.                   *)
(***************************************************************************)
DamageIsLocal ==
    \A i \in Slots : files[i] # Absent =>
        \A k \in DOMAIN files[i] :
            LET no == files[i][k].no
            IN  (no \in done /\ (no - 1 \in done \/ no = 1)) => Alone(files[i], k)
=============================================================================
