----------------------------- MODULE HotReload ------------------------------
(***************************************************************************)
(* Rule hot reload (src/main.rs): the process loads the rules file once at *)
(* start, then a loop polls the file's fingerprint, and on a change loads  *)
(* the file again and replaces the engine and the rate limiter, one write  *)
(* lock after the other.  Requests clone the limiter first and the engine  *)
(* later.  Whoever edits the rules is outside: an edit may come between    *)
(* any two steps, a file may be absent or not parse, and a read may fail.  *)
(***************************************************************************)
EXTENDS Naturals

CONSTANTS
    Requests,   \* requests in flight at once
    Contents,   \* contents of the rules file
    Good,       \* the contents that parse and compile
    Unreadable, \* no file, or not readable
    MaxEdits,   \* bound on the edits
    MaxErrors   \* bound on the failing reads of a present file

ASSUME HotReloadAssumption ==
    /\ Good \subseteq Contents /\ Good # {}
    /\ Unreadable \notin Contents
    /\ MaxEdits \in Nat
    /\ MaxErrors \in Nat

VARIABLES
    rules_file, \* what the path holds
    mtime,     \* its modification time: the number of edits so far
    loop,      \* where the start-up and then the polling loop is
    last,      \* fingerprint of the last poll, or NoFingerprint
    read,      \* bytes fingerprint() or reload_runtime() read, being used
    engine,    \* the shared engine: rules and how many were installed before
    limiter,   \* the shared limiter: likewise
    handling,  \* handling[q]: what the request q has cloned so far
    errors,    \* reads of a present file that failed so far
    missed     \* history: the last edit came between the first load and the
               \* bytes of the first fingerprint, or brought those bytes back
               \* before its metadata, or its load failed on a read error

reloadVars == <<rules_file, mtime, loop, last, read, engine, limiter, handling, errors, missed>>

-----------------------------------------------------------------------------
NoFingerprint == [text |-> Unreadable, mtime |-> 0]

(* len and hash stand for the bytes read, modified for the metadata. *)
Fingerprint(bytes) == [text |-> bytes, mtime |-> mtime]

Fingerprints == [text : Contents \cup {Unreadable}, mtime : 0..MaxEdits]

Generation == [rules : Good, no : Nat]

(* Placeholder generation of a request that has not cloned yet. *)
None == [rules |-> Unreadable, no |-> 0]

Stages == {"boot", "first", "first_probe", "wait", "probe", "compare", "load", "engine", "limiter"}

TypeOK ==
    /\ rules_file \in Contents \cup {Unreadable}
    /\ mtime \in 0..MaxEdits
    /\ loop \in Stages
    /\ last \in Fingerprints
    /\ read \in Contents \cup {Unreadable}
    /\ loop # "boot" => engine \in Generation /\ limiter \in Generation
    /\ loop \in {"engine", "limiter"} => read \in Good
    /\ handling \in [Requests -> [at : {"idle", "limited", "serving"},
                                  limiter : Generation \cup {None},
                                  engine : Generation \cup {None}]]
    /\ errors \in 0..MaxErrors
    /\ missed \in BOOLEAN

Unhandled == [at |-> "idle", limiter |-> None, engine |-> None]

-----------------------------------------------------------------------------
ReloadInit ==
    /\ rules_file \in Good
    /\ mtime = 0
    /\ loop = "boot"
    /\ last = NoFingerprint
    /\ read = Unreadable
    /\ engine = None
    /\ limiter = None
    /\ handling = [q \in Requests |-> Unhandled]
    /\ errors = 0
    /\ missed = FALSE

(* Someone saves other rules, touches the file, removes it or puts it back. *)
Edit(text) ==
    /\ mtime < MaxEdits
    /\ rules_file' = text
    /\ mtime' = mtime + 1
    /\ missed' = (loop = "first" \/ (loop = "first_probe" /\ text = read))
    /\ UNCHANGED <<loop, last, read, engine, limiter, handling, errors>>

Readable == rules_file # Unreadable

(* A read of the file yields its bytes, or fails. *)
Read(bytes) ==
    \/ bytes = rules_file /\ UNCHANGED errors
    \/ /\ Readable /\ errors < MaxErrors
       /\ bytes = Unreadable
       /\ errors' = errors + 1

(* main: Config::load, Engine::new, RateLimiter::new; it exits if they fail. *)
FirstLoad ==
    /\ loop = "boot"
    /\ rules_file \in Good
    /\ engine' = [rules |-> rules_file, no |-> 0]
    /\ limiter' = [rules |-> rules_file, no |-> 0]
    /\ loop' = "first"
    /\ UNCHANGED <<rules_file, mtime, last, read, handling, errors, missed>>

(* What fingerprint() returns once it has read the bytes and asks for the
   metadata: nothing if either is not to be had. *)
Probed == IF read = Unreadable \/ ~Readable THEN NoFingerprint ELSE Fingerprint(read)

(* The spawned loop starts: fingerprint() reads the bytes, *)
FirstBytes ==
    /\ loop = "first"
    /\ \E bytes \in Contents \cup {Unreadable} : Read(bytes) /\ read' = bytes
    /\ loop' = "first_probe"
    /\ UNCHANGED <<rules_file, mtime, last, engine, limiter, handling, missed>>

(* then the metadata: let mut last = fingerprint(&path). *)
FirstMetadata ==
    /\ loop = "first_probe"
    /\ last' = Probed
    /\ loop' = "wait"
    /\ UNCHANGED <<rules_file, mtime, read, engine, limiter, handling, errors, missed>>

(* The interval ticks; fingerprint() reads the bytes, *)
ProbeBytes ==
    /\ loop = "wait"
    /\ \E bytes \in Contents \cup {Unreadable} : Read(bytes) /\ read' = bytes
    /\ loop' = "probe"
    /\ UNCHANGED <<rules_file, mtime, last, engine, limiter, handling, missed>>

(* then the metadata, and the loop compares.  last is set BEFORE the load. *)
ProbeMetadata ==
    /\ loop = "probe"
    /\ last' = Probed
    /\ loop' = IF Probed \in {NoFingerprint, last} THEN "wait" ELSE "load"
    /\ UNCHANGED <<rules_file, mtime, read, engine, limiter, handling, errors, missed>>

(* apply_hot_reload: reload_runtime reads the file again; failure keeps the old. *)
ReloadRuntime ==
    /\ loop = "load"
    /\ \E bytes \in Contents \cup {Unreadable} :
        /\ Read(bytes)
        /\ read' = bytes
        /\ loop' = IF bytes \in Good THEN "engine" ELSE "wait"
        /\ missed' = (bytes = Unreadable /\ Readable)
    /\ UNCHANGED <<rules_file, mtime, last, engine, limiter, handling>>

(* Mutant of InstallEngine: the limiter comes first. *)
InstallLimiterFirst ==
    /\ loop = "engine"
    /\ limiter' = [rules |-> read, no |-> limiter.no + 1]
    /\ loop' = "limiter"
    /\ UNCHANGED <<rules_file, mtime, last, read, engine, handling, errors, missed>>

(* install_reloaded: the engine under its write lock, *)
InstallEngine ==
    /\ loop = "engine"
    /\ engine' = [rules |-> read, no |-> engine.no + 1]
    /\ loop' = "limiter"
    /\ UNCHANGED <<rules_file, mtime, last, read, limiter, handling, errors, missed>>

(* Mutants of InstallLimiter: its parameters are read from the file once more;
   the fingerprint is taken again after the reload. *)
InstallLimiterRereads ==
    /\ loop = "limiter"
    /\ limiter' = [rules |-> IF rules_file \in Good THEN rules_file ELSE read, no |-> limiter.no + 1]
    /\ loop' = "wait"
    /\ UNCHANGED <<rules_file, mtime, last, read, engine, handling, errors, missed>>

InstallLimiterRefreshes ==
    /\ loop = "limiter"
    /\ limiter' = [rules |-> read, no |-> limiter.no + 1]
    /\ last' = IF Readable THEN Fingerprint(rules_file) ELSE NoFingerprint
    /\ loop' = "wait"
    /\ UNCHANGED <<rules_file, mtime, read, engine, handling, errors, missed>>

(* then the limiter under its own. *)
InstallLimiter ==
    /\ loop = "limiter"
    /\ limiter' = [rules |-> read, no |-> limiter.no + 1]
    /\ loop' = "wait"
    /\ UNCHANGED <<rules_file, mtime, last, read, engine, handling, errors, missed>>

-----------------------------------------------------------------------------
(* handle: clone the limiter, check; later clone the engine, inspect. *)
CloneLimiter(q) ==
    /\ loop # "boot"
    /\ handling[q].at = "idle"
    /\ handling' = [handling EXCEPT ![q] = [at |-> "limited", limiter |-> limiter, engine |-> None]]
    /\ UNCHANGED <<rules_file, mtime, loop, last, read, engine, limiter, errors, missed>>

CloneEngine(q) ==
    /\ handling[q].at = "limited"
    /\ handling' = [handling EXCEPT ![q].at = "serving", ![q].engine = engine]
    /\ UNCHANGED <<rules_file, mtime, loop, last, read, engine, limiter, errors, missed>>

(* The request is answered, limited, or its connection is dropped. *)
Finish(q) ==
    /\ handling[q].at # "idle"
    /\ handling' = [handling EXCEPT ![q] = Unhandled]
    /\ UNCHANGED <<rules_file, mtime, loop, last, read, engine, limiter, errors, missed>>

-----------------------------------------------------------------------------
Loop ==
    \/ FirstLoad \/ FirstBytes \/ FirstMetadata \/ ProbeBytes \/ ProbeMetadata
    \/ ReloadRuntime \/ InstallEngine \/ InstallLimiter

ReloadNext ==
    \/ Loop
    \/ \E text \in Contents \cup {Unreadable} : Edit(text)
    \/ \E q \in Requests : CloneLimiter(q) \/ CloneEngine(q) \/ Finish(q)

ReloadSpec == ReloadInit /\ [][ReloadNext]_reloadVars

(* The interval keeps ticking and the runtime runs the loop's task. *)
FairReload == ReloadSpec /\ WF_reloadVars(Loop)

-----------------------------------------------------------------------------
(***************************************************************************)
(* No request runs an old engine behind a new limiter: install_reloaded    *)
(* (main.rs:1245) replaces the engine first and handle (main.rs:1335)      *)
(* clones the limiter first, so a request that was limited by the CC       *)
(* parameters of a reload is inspected by its rules, or by later ones.     *)
(***************************************************************************)
RulesNotOlderThanLimits ==
    \A q \in Requests :
        handling[q].at = "serving" => handling[q].engine.no >= handling[q].limiter.no

(***************************************************************************)
(* A reload is all or nothing: outside the two swaps the engine and the    *)
(* limiter come from the same read of the file, and in between the engine  *)
(* is exactly one reload ahead; what was read while the file was saved     *)
(* half-way, or could not be read, is never installed.                     *)
(***************************************************************************)
ReloadedTogether ==
    loop # "boot" =>
        IF loop = "limiter"
        THEN engine.no = limiter.no + 1 /\ engine.rules = read
        ELSE engine = limiter

(* The rules in force are those of the file. *)
UpToDate == engine.rules = rules_file /\ limiter.rules = rules_file

(***************************************************************************)
(* Hot reload converges: once the edits are over and the file is good, its *)
(* rules are eventually in force and stay so (README: "within 5 seconds"), *)
(* unless an edit fell into the start-up or a load met a read error        *)
(* (missed).  A torn fingerprint, whose bytes are older than its metadata, *)
(* only causes one more reload.                                            *)
(***************************************************************************)
Converges == <>[](rules_file \in Good /\ loop # "boot") => <>[](UpToDate \/ missed)

(***************************************************************************)
(* What README.md says without that exception.                             *)
(***************************************************************************)
EverySaveIsLoaded == <>[](rules_file \in Good /\ loop # "boot") => <>[]UpToDate
=============================================================================
