-------------------------- MODULE RequestPipeline ---------------------------
(***************************************************************************)
(* One request after another through handle (src/main.rs), and the audit   *)
(* log behind it.  A task counts its request, takes it through the checks  *)
(* in their order, forwards it or reports it: publish on the alert bus     *)
(* and, if the alert was kept, one line into the bounded audit channel,    *)
(* which a single worker writes to disk.  When the channel is full the     *)
(* task waits.  A client that disconnects drops the handler's future at    *)
(* whatever await it is in.  The verdicts of the checks are left open.     *)
(***************************************************************************)
EXTENDS AlertBus

CONSTANTS AUDIT_CHANNEL   \* capacity of the mpsc channel: 1024

ASSUME PipelineAssumption == AUDIT_CHANNEL \in Nat \ {0}

VARIABLES
    stage,      \* stage[w]: where the task w is in handle
    line,       \* line[w]: the alert whose audit line w is to append
    channel,    \* audit lines in the channel, by alert number
    waiters,    \* tasks waiting for room in the channel, in their order
    writing,    \* the line the audit worker is writing, 0 when it has none
    log,        \* history: lines written, in order
    unwritten,  \* history: lines whose write failed
    lost,       \* history: lines dropped with a waiting task
    outcome     \* history: how many requests ended in which way

audit == <<channel, waiters, writing, log, unwritten, lost>>
pipelineVars == <<vars, stage, line, audit, outcome>>

-----------------------------------------------------------------------------
Stages == {"idle", "counting", "blocklist", "limiter", "body", "rules",
           "forward", "report", "publish", "append", "waiting"}

Ends == {"passed", "blocked", "failed", "gone"}

PipelineTypeOK ==
    /\ stage \in [Workers -> Stages]
    /\ line \in [Workers -> Nat]
    /\ channel \in Seq(Nat) /\ Len(channel) <= AUDIT_CHANNEL
    /\ waiters \in Seq(Workers)
    /\ ToSet(waiters) = {w \in Workers : stage[w] = "waiting"}
    /\ writing \in Nat
    /\ log \in Seq(Nat)
    /\ unwritten \subseteq Nat
    /\ lost \subseteq Nat
    /\ outcome \in [Ends -> Nat]

PipelineInit ==
    /\ Init
    /\ stage = [w \in Workers |-> "idle"]
    /\ line = [w \in Workers |-> 0]
    /\ channel = <<>>
    /\ waiters = <<>>
    /\ writing = 0
    /\ log = <<>>
    /\ unwritten = {}
    /\ lost = {}
    /\ outcome = [e \in Ends |-> 0]

-----------------------------------------------------------------------------
Step(w, from, to) ==
    /\ stage[w] = from
    /\ stage' = [stage EXCEPT ![w] = to]

End(e) == outcome' = [outcome EXCEPT ![e] = @ + 1]

(* A step of the task w that touches neither the bus nor the audit log. *)
Quietly == UNCHANGED <<vars, line, audit, outcome>>

(* A request arrives and is counted, with bad boundaries or with good ones. *)
Arrive(w) ==
    /\ Step(w, "idle", "counting")
    /\ CountAdd(w)
    /\ UNCHANGED <<line, audit, outcome>>

Counted(w) ==
    /\ \E to \in {"report", "blocklist"} : Step(w, "counting", to)
    /\ CountPush(w)
    /\ UNCHANGED <<line, audit, outcome>>

(* Block list, rate limiter, rules: report the request or go on. *)
CheckBlockList(w) ==
    /\ \E to \in {"report", "limiter"} : Step(w, "blocklist", to)
    /\ Quietly

CheckLimiter(w) ==
    /\ \E to \in {"report", "body", "rules"} : Step(w, "limiter", to)
    /\ Quietly

ReadBody(w) ==
    /\ Step(w, "body", "rules")
    /\ Quietly

CheckRules(w) ==
    /\ \E to \in {"report", "forward"} : Step(w, "rules", to)
    /\ Quietly

(* The client gets the backend's answer, or 502 in its place. *)
Forward(w) ==
    /\ Step(w, "forward", "idle")
    /\ Leave(w)
    /\ End("passed")
    /\ UNCHANGED <<line, audit>>

(* read_body_prefix fails, `?` leaves handle, serve_conn answers 502. *)
BodyFails(w) ==
    /\ Step(w, "body", "idle")
    /\ Leave(w)
    /\ End("failed")
    /\ UNCHANGED <<line, audit>>

(* report_and_block *)
Report(w) ==
    /\ Step(w, "report", "publish")
    /\ \E key \in Keys : PublishAdd(w, key)
    /\ UNCHANGED <<line, audit, outcome>>

(* Mutant of Merged: a repeat that publish does not keep is let through. *)
MergedForwards(w) ==
    /\ Step(w, "publish", "forward")
    /\ PublishMerge(w)
    /\ UNCHANGED <<line, audit, outcome>>

Merged(w) ==
    /\ Step(w, "publish", "idle")
    /\ PublishMerge(w)
    /\ End("blocked")
    /\ UNCHANGED <<line, audit>>

Kept(w) ==
    /\ Step(w, "publish", "publish")
    /\ PublishKeep(w)
    /\ UNCHANGED <<line, audit, outcome>>

Broadcast(w) ==
    /\ Step(w, "publish", "append")
    /\ PublishSend(w)
    /\ line' = [line EXCEPT ![w] = item[w].no]
    /\ UNCHANGED <<audit, outcome>>

(* AuditLogger::append: send, or wait in line for room. *)
Room == Len(channel) < AUDIT_CHANNEL

AppendNow(w) ==
    /\ Room /\ waiters = <<>>
    /\ Step(w, "append", "idle")
    /\ channel' = Append(channel, line[w])
    /\ line' = [line EXCEPT ![w] = 0]
    /\ End("blocked")
    /\ UNCHANGED <<vars, waiters, writing, log, unwritten, lost>>

(* Mutant of AppendWait: try_send, which drops the line when there is no room. *)
AppendOrDrop(w) ==
    /\ ~(Room /\ waiters = <<>>)
    /\ Step(w, "append", "idle")
    /\ line' = [line EXCEPT ![w] = 0]
    /\ End("blocked")
    /\ UNCHANGED <<vars, audit>>

AppendWait(w) ==
    /\ ~(Room /\ waiters = <<>>)
    /\ Step(w, "append", "waiting")
    /\ waiters' = Append(waiters, w)
    /\ UNCHANGED <<vars, line, channel, writing, log, unwritten, lost, outcome>>

(* Room goes to the task that has waited longest. *)
AppendAfterWait(w) ==
    /\ Room /\ waiters # <<>> /\ w = Head(waiters)
    /\ Step(w, "waiting", "idle")
    /\ waiters' = Tail(waiters)
    /\ channel' = Append(channel, line[w])
    /\ line' = [line EXCEPT ![w] = 0]
    /\ End("blocked")
    /\ UNCHANGED <<vars, writing, log, unwritten, lost>>

(* The client is gone: hyper drops the future at its await. *)
DropRequest(w) ==
    /\ stage[w] \in {"body", "forward"}
    /\ Step(w, stage[w], "idle")
    /\ Leave(w)
    /\ End("gone")
    /\ UNCHANGED <<line, audit>>

DropReport(w) ==
    /\ Step(w, "waiting", "idle")
    /\ waiters' = SelectSeq(waiters, LAMBDA v : v # w)
    /\ lost' = lost \cup {line[w]}
    /\ line' = [line EXCEPT ![w] = 0]
    /\ End("gone")
    /\ UNCHANGED <<vars, channel, writing, log, unwritten>>

-----------------------------------------------------------------------------
(* audit_worker: receive a line, write it; a failed write is only logged. *)
WorkerReceive ==
    /\ writing = 0
    /\ channel # <<>>
    /\ writing' = Head(channel)
    /\ channel' = Tail(channel)
    /\ UNCHANGED <<vars, stage, line, waiters, log, unwritten, lost, outcome>>

(* Mutant of WorkerWrite: the worker ends with its first failed write. *)
WorkerWriteStops ==
    /\ writing # 0
    /\ writing \notin unwritten
    /\ \/ log' = Append(log, writing) /\ writing' = 0 /\ UNCHANGED unwritten
       \/ unwritten' = unwritten \cup {writing} /\ UNCHANGED <<log, writing>>
    /\ UNCHANGED <<vars, stage, line, channel, waiters, lost, outcome>>

WorkerWrite ==
    /\ writing # 0
    /\ \/ log' = Append(log, writing) /\ UNCHANGED unwritten
       \/ unwritten' = unwritten \cup {writing} /\ UNCHANGED log
    /\ writing' = 0
    /\ UNCHANGED <<vars, stage, line, channel, waiters, lost, outcome>>

-----------------------------------------------------------------------------
(* What the task does by itself; reading a body and forwarding depend on others. *)
Proceed(w) ==
    \/ Counted(w) \/ CheckBlockList(w) \/ CheckLimiter(w) \/ CheckRules(w)
    \/ Report(w) \/ Merged(w) \/ Kept(w) \/ Broadcast(w)
    \/ AppendNow(w) \/ AppendWait(w) \/ AppendAfterWait(w)

PipelineNext ==
    \/ \E w \in Workers :
        \/ Arrive(w) \/ Proceed(w) \/ ReadBody(w) \/ BodyFails(w) \/ Forward(w)
        \/ DropRequest(w) \/ DropReport(w)
    \/ WorkerReceive \/ WorkerWrite

PipelineSpec ==
    /\ PipelineInit /\ [][PipelineNext]_pipelineVars
    /\ \A w \in Workers : WF_pipelineVars(Proceed(w))
    /\ WF_pipelineVars(WorkerReceive) /\ WF_pipelineVars(WorkerWrite)

-----------------------------------------------------------------------------
InStage(s) == {w \in Workers : stage[w] \in s}

(***************************************************************************)
(* The counters of the panel against what clients saw: every request that  *)
(* was blocked is in blocked, also one whose client left while its report  *)
(* waited; a request is passed, blocked or neither, never both; and a      *)
(* request that ended no way yet is still being handled.                   *)
(***************************************************************************)
CountersMatchOutcomes ==
    /\ blocked = outcome["blocked"] + Cardinality(lost)
                   + Cardinality(InStage({"publish", "append", "waiting"}))
    /\ total = outcome["passed"] + outcome["blocked"] + outcome["failed"] + outcome["gone"]
                 + Cardinality(InStage(Stages \ {"idle"}))

(***************************************************************************)
(* The audit trail: every kept alert is in one place and in one only, on   *)
(* its way to the log, in it, or lost in one of the two ways the code has  *)
(* (a failed write, a client that left while the channel was full), and    *)
(* the log never holds a line twice.                                       *)
(***************************************************************************)
AuditComplete ==
    LET pending == {line[w] : w \in InStage({"append", "waiting"})}
        sending == {item[w].no : w \in InPhase("sending")}
        places  == <<sending, pending, ToSet(channel), {writing} \ {0},
                     ToSet(log), unwritten, lost>>
    IN  /\ UNION ToSet(places) = 1..kept
        /\ \A i, j \in DOMAIN places : i # j => places[i] \cap places[j] = {}
        /\ IsInjective(log) /\ IsInjective(channel)

(***************************************************************************)
(* Logging never holds a blocked client for ever: a task that reports a    *)
(* request ends, however long the channel is full, because the worker goes *)
(* on after a failed write and room is given out in order.                 *)
(***************************************************************************)
ReportsEnd ==
    \A w \in Workers :
        stage[w] \in {"report", "publish", "append", "waiting"} ~> stage[w] = "idle"
=============================================================================
