----------------------------- MODULE Inspection -----------------------------
(***************************************************************************)
(* One request on its way through the rules (handle, read_body_prefix and  *)
(* PrefixedBody in src/main.rs, the engine in src/engine.rs).  When a rule *)
(* looks at bodies, the first BODY_INSPECT_LIMIT bytes are read and kept   *)
(* before the verdict; a request that passes is forwarded as the kept      *)
(* frames followed by the rest of the stream.  Between two frames at most  *)
(* BODY_READ_TIMEOUT may go by.  The client, the backend that polls for    *)
(* frames, and time act in between.                                        *)
(*                                                                         *)
(* A frame is a sequence of bytes; the empty one stands for the trailers.  *)
(***************************************************************************)
EXTENDS InspectEngine

CONSTANTS
    Cases,               \* pairs of an engine and a request to begin with
    Frames,              \* data frames a client may send
    BODY_INSPECT_LIMIT,  \* 64 * 1024
    BODY_READ_TIMEOUT,   \* 10 seconds, in ticks
    MaxFrames            \* bound: frames of the body

Trailers == <<>>
NoVerdict == <<>>

Text == Seq(0..255)

Rules ==
    [field : {"Method", "Url", "Args", "Header", "Body"}, header : {NoHeader} \cup Text,
     regex : BOOLEAN, pattern : Text, score : Nat]

(***************************************************************************)
(* The query s says plain, byte by byte: at the places in escaped a byte   *)
(* is written as an escape; elsewhere it stands as it is, or a plus sign   *)
(* stands for a space, and nobody can take it for an escape.               *)
(***************************************************************************)
EscapeOf(s, i, b) ==
    /\ i + 2 <= Len(s)
    /\ s[i] = Percent
    /\ s[i + 1] \in Digits \cup UpperHex \cup LowerHex
    /\ s[i + 2] \in Digits \cup UpperHex \cup LowerHex
    /\ b = 16 * hex_val(s[i + 1]) + hex_val(s[i + 2])

Place(escaped, i) == i + 2 * Cardinality({j \in escaped : j < i})

WrittenWith(s, plain, escaped) ==
    /\ Place(escaped, Len(plain) + 1) = Len(s) + 1
    /\ \A i \in DOMAIN plain :
        LET at == Place(escaped, i)
        IN  IF i \in escaped THEN EscapeOf(s, at, plain[i])
            ELSE /\ plain[i] = IF s[at] = Plus THEN Space ELSE s[at]
                 /\ \A b \in 0..255 : ~ EscapeOf(s, at, b)

Says(s, plain) == \E escaped \in SUBSET DOMAIN plain : WrittenWith(s, plain, escaped)

ASSUME InspectionAssumption ==
    /\ NoHeader \notin Text
    /\ \A case \in Cases :
        /\ case[1].rules \in Seq(Rules) /\ case[1].threshold \in Nat
        /\ case[2].method \in Text /\ case[2].target \in Text
        /\ case[2].headers \in Seq([name : Text, value : Text])
        /\ case[2].plain \in Text /\ Says(Query(case[2].target), case[2].plain)
    /\ Frames \subseteq Seq(0..255) \ {Trailers}
    /\ BODY_INSPECT_LIMIT \in Nat \ {0}
    /\ BODY_READ_TIMEOUT \in Nat \ {0}

VARIABLES
    engine,     \* the engine this request was given: threshold and rules
    request,    \* its method, target and headers
    sent,       \* history: frames the client sent
    quiet,      \* history: ticks since the client sent one
    client,     \* "sending", "ended" or "broken"
    incoming,   \* at most one frame that hyper has read and nobody took
    idle,       \* ticks since a frame was taken from the timed stream
    head,       \* bytes for the rules
    prefix,     \* frames read ahead, to be forwarded
    saw_end,    \* the end of the body was read ahead
    verdict,    \* the engine's answer
    forwarded,  \* history: frames the backend got
    phase       \* where handle, or the body it forwards, is

body == <<sent, quiet, client, incoming>>
ahead == <<head, prefix, saw_end>>
vars == <<engine, request, body, idle, ahead, verdict, forwarded, phase>>

-----------------------------------------------------------------------------
(* The last five are the ends: refused; complete at the backend; the body  *)
(* failed, timed out, or was given up by the backend's connection.         *)
Phases == {"start", "reading", "rules", "forwarding",
           "blocked", "complete", "failed", "timedOut", "givenUp"}
Running == {"start", "reading", "rules", "forwarding"}

Bytes(frames) == FlattenSeq(frames)

AllFrames == Frames \cup {Trailers}

TypeOK ==
    /\ \E case \in Cases : engine = case[1] /\ request = case[2]
    /\ sent \in Seq(AllFrames)
    /\ quiet \in 0..BODY_READ_TIMEOUT
    /\ client \in {"sending", "ended", "broken"}
    /\ incoming \in Seq(AllFrames) /\ Len(incoming) <= 1
    /\ idle \in 0..BODY_READ_TIMEOUT
    /\ head \in Seq(0..255) /\ Len(head) <= BODY_INSPECT_LIMIT
    /\ prefix \in Seq(AllFrames)
    /\ saw_end \in BOOLEAN
    /\ phase \in {"start", "reading", "rules"} => verdict = NoVerdict
    /\ forwarded \in Seq(AllFrames)
    /\ phase \in Phases

Init ==
    /\ \E case \in Cases : engine = case[1] /\ request = case[2]
    /\ sent = <<>>
    /\ quiet = 0
    /\ client = "sending"
    /\ incoming = <<>>
    /\ idle = 0
    /\ head = <<>>
    /\ prefix = <<>>
    /\ saw_end = FALSE
    /\ verdict = NoVerdict
    /\ forwarded = <<>>
    /\ phase = "start"

-----------------------------------------------------------------------------
(* The client, hyper's reading of its connection, and time                 *)

Send(frame) ==
    /\ phase \in Running
    /\ client = "sending"
    /\ Len(sent) < MaxFrames
    /\ incoming = <<>>
    /\ Len(sent) > 0 => sent[Len(sent)] # Trailers
    /\ sent' = Append(sent, frame)
    /\ incoming' = <<frame>>
    /\ quiet' = 0
    /\ UNCHANGED <<engine, request, client, idle, ahead, verdict, forwarded, phase>>

EndBody ==
    /\ phase \in Running
    /\ client = "sending"
    /\ client' = "ended"
    /\ UNCHANGED <<engine, request, sent, quiet, incoming, idle, ahead, verdict,
                   forwarded, phase>>

(* The connection breaks, or the body is not what its framing promised. *)
Break ==
    /\ phase \in Running
    /\ client = "sending"
    /\ Len(sent) > 0 => sent[Len(sent)] # Trailers
    /\ client' = "broken"
    /\ UNCHANGED <<engine, request, sent, quiet, incoming, idle, ahead, verdict,
                   forwarded, phase>>

Tick ==
    /\ phase \in Running
    /\ idle < BODY_READ_TIMEOUT \/ quiet < BODY_READ_TIMEOUT
    /\ idle' = Min({idle + 1, BODY_READ_TIMEOUT})
    /\ quiet' = Min({quiet + 1, BODY_READ_TIMEOUT})
    /\ UNCHANGED <<engine, request, sent, client, incoming, ahead, verdict,
                   forwarded, phase>>

-----------------------------------------------------------------------------
(* What polling the timed stream yields, when it is ready.                 *)

(* Mutant of TakeFrame: one time-out for the whole body. *)
TakeFrameUntimed ==
    /\ incoming # <<>>
    /\ incoming' = <<>>
    /\ UNCHANGED <<sent, quiet, client, idle>>

(* A frame; the time-out starts again. *)
TakeFrame ==
    /\ incoming # <<>>
    /\ incoming' = <<>>
    /\ idle' = 0
    /\ UNCHANGED <<sent, quiet, client>>

TakeEnd == incoming = <<>> /\ client = "ended" /\ UNCHANGED <<body, idle>>

TakeError == incoming = <<>> /\ client = "broken" /\ UNCHANGED <<body, idle>>

TakeElapsed ==
    /\ incoming = <<>>
    /\ client = "sending"
    /\ idle = BODY_READ_TIMEOUT
    /\ UNCHANGED <<body, idle>>

Step(from, to) == phase = from /\ phase' = to

-----------------------------------------------------------------------------
(* handle and read_body_prefix                                             *)

(* The stream is made and with it its time-out; is there a Body rule? *)
Begin ==
    /\ Step("start", IF needs_body(engine.rules) THEN "reading" ELSE "rules")
    /\ idle' = 0
    /\ UNCHANGED <<engine, request, body, ahead, verdict, forwarded>>

(* Mutant of ReadFrame: the first frame is taken for the whole body. *)
ReadFrameOnce ==
    /\ Step("reading", "rules")
    /\ TakeFrame
    /\ head' = SubSeq(incoming[1], 1, Min({Len(incoming[1]), BODY_INSPECT_LIMIT}))
    /\ prefix' = Append(prefix, incoming[1])
    /\ UNCHANGED <<engine, request, saw_end, verdict, forwarded>>

(* Mutant of ReadFrame: the frame that fills the head is not kept. *)
ReadFrameDropsLast ==
    /\ phase = "reading"
    /\ TakeFrame
    /\ LET room == BODY_INSPECT_LIMIT - Len(head)
           chunk == incoming[1]
           filled == head \o SubSeq(chunk, 1, Min({Len(chunk), room}))
           full == Len(filled) = BODY_INSPECT_LIMIT
       IN  /\ head' = filled
           /\ prefix' = IF full THEN prefix ELSE Append(prefix, chunk)
           /\ phase' = IF full THEN "rules" ELSE "reading"
    /\ UNCHANGED <<engine, request, saw_end, verdict, forwarded>>

ReadFrame ==
    /\ phase = "reading"
    /\ TakeFrame
    /\ LET room == BODY_INSPECT_LIMIT - Len(head)
           chunk == incoming[1]
       IN  head' = head \o SubSeq(chunk, 1, Min({Len(chunk), room}))
    /\ prefix' = Append(prefix, incoming[1])
    /\ phase' = IF Len(head') < BODY_INSPECT_LIMIT THEN "reading" ELSE "rules"
    /\ UNCHANGED <<engine, request, saw_end, verdict, forwarded>>

ReadEnd ==
    /\ Step("reading", "rules")
    /\ TakeEnd
    /\ saw_end' = TRUE
    /\ UNCHANGED <<engine, request, head, prefix, verdict, forwarded>>

ReadError ==
    /\ Step("reading", "failed")
    /\ TakeError
    /\ UNCHANGED <<engine, request, ahead, verdict, forwarded>>

(* Mutant of ReadElapsed: the stream is read on. *)
ReadElapsedIgnored ==
    /\ Step("reading", "reading")
    /\ TakeElapsed
    /\ UNCHANGED <<engine, request, ahead, verdict, forwarded>>

ReadElapsed ==
    /\ Step("reading", "timedOut")
    /\ TakeElapsed
    /\ UNCHANGED <<engine, request, ahead, verdict, forwarded>>

(* check_rules *)
CheckRules ==
    LET answer == Inspect(engine, Normalized(engine.rules, request, head))
    IN  /\ Step("rules", IF answer.block THEN "blocked" ELSE "forwarding")
        /\ verdict' = answer
        /\ UNCHANGED <<engine, request, body, idle, ahead, forwarded>>

-----------------------------------------------------------------------------
(* PrefixedBody::poll_frame, called as the backend's connection has room.  *)

PollPrefix ==
    /\ Step("forwarding", "forwarding")
    /\ prefix # <<>>
    /\ forwarded' = Append(forwarded, Head(prefix))
    /\ prefix' = Tail(prefix)
    /\ UNCHANGED <<engine, request, body, idle, head, saw_end, verdict>>

PollRest ==
    /\ Step("forwarding", "forwarding")
    /\ prefix = <<>>
    /\ ~saw_end
    /\ TakeFrame
    /\ forwarded' = Append(forwarded, incoming[1])
    /\ UNCHANGED <<engine, request, ahead, verdict>>

(* Mutant of PollEnd: a broken body ends like a complete one. *)
PollEndAnyway ==
    /\ Step("forwarding", "complete")
    /\ prefix = <<>>
    /\ saw_end \/ TakeEnd \/ TakeError
    /\ UNCHANGED <<engine, request, body, idle, ahead, verdict, forwarded>>

PollEnd ==
    /\ Step("forwarding", "complete")
    /\ prefix = <<>>
    /\ saw_end \/ TakeEnd
    /\ UNCHANGED <<engine, request, body, idle, ahead, verdict, forwarded>>

PollError ==
    /\ Step("forwarding", "failed")
    /\ prefix = <<>>
    /\ ~saw_end
    /\ TakeError
    /\ UNCHANGED <<engine, request, ahead, verdict, forwarded>>

PollElapsed ==
    /\ Step("forwarding", "timedOut")
    /\ prefix = <<>>
    /\ ~saw_end
    /\ TakeElapsed
    /\ UNCHANGED <<engine, request, ahead, verdict, forwarded>>

(* The backend answers early or fails: the body is dropped. *)
GiveUp ==
    /\ Step("forwarding", "givenUp")
    /\ UNCHANGED <<engine, request, body, idle, ahead, verdict, forwarded>>

-----------------------------------------------------------------------------
ReadBody == ReadFrame \/ ReadEnd \/ ReadError \/ ReadElapsed

Handle == Begin \/ ReadBody \/ CheckRules

Poll == PollPrefix \/ PollRest \/ PollEnd \/ PollError \/ PollElapsed \/ GiveUp

Environment == (\E frame \in AllFrames : Send(frame)) \/ EndBody \/ Break \/ Tick

Next == Handle \/ Poll \/ Environment

(* A task that can read is scheduled, and time goes on. *)
Spec == Init /\ [][Next]_vars /\ WF_vars(ReadBody) /\ WF_vars(Tick)

-----------------------------------------------------------------------------
(* No frame is lost, repeated or reordered by being read ahead: what the   *)
(* backend got, what is kept and what waits make up what the client sent   *)
(* (read_body_prefix, PrefixedBody::poll_frame).                           *)
FramesConserved == forwarded \o prefix \o incoming = sent

(* The verdict does not depend on how the body was cut into frames or on   *)
(* what came later: it is the engine's on the first BODY_INSPECT_LIMIT     *)
(* bytes of the whole body (on none, without a Body rule), and not a frame *)
(* leaves before it, or in spite of it.                                    *)
VerdictOnTheBody ==
    /\ verdict # NoVerdict =>
         LET all == Bytes(sent)
             seen == IF needs_body(engine.rules)
                     THEN SubSeq(all, 1, Min({BODY_INSPECT_LIMIT, Len(all)}))
                     ELSE <<>>
         IN  verdict = Inspect(engine, Normalized(engine.rules, request, seen))
    /\ forwarded # <<>> => verdict # NoVerdict /\ ~verdict.block

(* A body that reaches the backend as complete is complete: neither a      *)
(* broken connection nor a time-out ends it early without an error         *)
(* (PrefixedBody::poll_frame, saw_end).                                    *)
CompleteIfEnded ==
    phase = "complete" => client = "ended" /\ forwarded = sent

(* Only a client that was quiet for the whole time-out is cut off; a slow  *)
(* handler or backend, or a long body, does not count against it           *)
(* (BODY_READ_TIMEOUT between frames).                                     *)
TimeoutMeansQuiet ==
    phase = "timedOut" => quiet = BODY_READ_TIMEOUT

(* Reading ahead ends, whatever the client does or fails to do             *)
(* (read_body_prefix with its time-out).                                   *)
ReadingEnds == phase = "reading" ~> phase # "reading"

-----------------------------------------------------------------------------
(* The rules that match what the request says, found independently of      *)
(* groups and automata: the pattern is somewhere in the rule's field.      *)
Matching(req) ==
    {i \in DOMAIN engine.rules :
        LET rule == engine.rules[i]
            hay == field_value(req, rule)
        IN  IF rule.regex THEN rule.pattern \in SubSeqs(hay)
            ELSE rule.pattern # <<>> /\ Lower(rule.pattern) \in SubSeqs(Lower(hay))}

Seen == Normalized(engine.rules, request, head)

(* The scores of these rules, in the order of the rules file. *)
Summed(rules) ==
    LET sum[i \in 0..Len(engine.rules)] ==
            IF i = 0 THEN 0
            ELSE sum[i - 1] + (IF i \in rules THEN engine.rules[i].score ELSE 0)
    IN  sum[Len(engine.rules)]

(* The score adds up: every hit is a rule that matches, none counts twice, *)
(* no regular expression and no group of literals with a match is missed,  *)
(* whatever the cut into groups; the verdict follows the score, and a      *)
(* blocked request always names something (Engine::inspect, hits[0]).      *)
ScoreAddsUp ==
    verdict # NoVerdict =>
        LET hits == ToSet(verdict.hits) \ {Suspicious}
            found == Matching(Seen)
        IN  /\ hits \subseteq found
            /\ Len(verdict.hits) = Cardinality(ToSet(verdict.hits))
            /\ \A i \in found : \/ i \in hits
                                \/ /\ ~engine.rules[i].regex
                                   /\ \E j \in hits : Key(engine.rules[j]) = Key(engine.rules[i])
            /\ verdict.score = Seen.suspicious * SUSPICIOUS_BYTE_SCORE + Summed(hits)
            /\ verdict.block <=> verdict.score >= engine.threshold
            /\ verdict.block => verdict.hits # <<>>

(* What the query says does not depend on how the client wrote it: sent as *)
(* it is or escaped, byte by byte, a text is decoded to itself, with a     *)
(* space for each control byte, and the dangerous ones are counted         *)
(* (decode_and_normalize on uri.query()).  No escape reaches over the      *)
(* question mark: the query, though it is decoded on its own, is the end   *)
(* of the decoded target, so a rule for Url sees all that one for Args     *)
(* sees (NormalizedRequest::build).                                        *)
EncodingInvisible ==
    LET args == Decoded(Query(request.target))
        plain == request.plain
    IN  /\ args.text = [i \in DOMAIN plain |->
                           IF plain[i] \in Dangerous \cup Benign THEN Space ELSE plain[i]]
        /\ args.suspicious = Cardinality({i \in DOMAIN plain : plain[i] \in Dangerous})
        /\ IsSuffix(args.text, Decoded(request.target).text)

(* rules/rules.toml:2 says that a request is blocked when the scores of    *)
(* the rules it matches reach the threshold.  Literals that overlap in the *)
(* text hide each other: find_iter reports one of them.                    *)
MatchedScoresBlock ==
    verdict # NoVerdict /\ Summed(Matching(Seen)) >= engine.threshold => verdict.block
=============================================================================
