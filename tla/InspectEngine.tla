--------------------------- MODULE InspectEngine ----------------------------
(***************************************************************************)
(* The rule engine (src/engine.rs) as operators: how a request is brought  *)
(* to its normal form, which rules hit it, and the verdict.  Text is a     *)
(* sequence of bytes.  A literal rule is looked for by a multi-pattern     *)
(* automaton, one for all literals of a field; a regular expression stands *)
(* for one that matches a given word as it is written.                     *)
(***************************************************************************)
EXTENDS Integers, SequencesExt

CONSTANT NoHeader    \* a rule's header == None

Percent == 37
Plus == 43
Space == 32
Question == 63
Equals == 61
Comma == 44

SUSPICIOUS_BYTE_SCORE == 5

Dangerous == ((0..31) \ {9, 10, 13}) \cup {127}
Benign == {9, 10, 13}

Digits == 48..57
UpperHex == 65..70
LowerHex == 97..102

hex_val(b) == b - (IF b \in Digits THEN 48 ELSE IF b \in LowerHex THEN 87 ELSE 55)

-----------------------------------------------------------------------------
(* decode_and_normalize: one layer of %XX and +; every control byte then   *)
(* becomes a space, and the dangerous ones are counted.                    *)

(* Mutant of EscapeAt: the last escape of a text is overlooked. *)
EscapeAtNotLast(s, i) ==
    /\ s[i] = Percent
    /\ i + 2 < Len(s)
    /\ {s[i + 1], s[i + 2]} \subseteq Digits \cup UpperHex \cup LowerHex

(* An escape starts at i: two hexadecimal digits follow the percent sign. *)
EscapeAt(s, i) ==
    /\ s[i] = Percent
    /\ i + 2 <= Len(s)
    /\ {s[i + 1], s[i + 2]} \subseteq Digits \cup UpperHex \cup LowerHex

(* The bytes meant: each escape is one byte, each plus sign a space. *)
Unescaped(s) ==
    LET from[i \in 1 .. Len(s) + 1] ==
            IF i > Len(s) THEN <<>>
            ELSE IF EscapeAt(s, i)
            THEN <<16 * hex_val(s[i + 1]) + hex_val(s[i + 2])>> \o from[i + 3]
            ELSE <<IF s[i] = Plus THEN Space ELSE s[i]>> \o from[i + 1]
    IN  from[1]

Decoded(s) ==
    LET bytes == Unescaped(s)
    IN  [text |-> [i \in DOMAIN bytes |->
                      IF bytes[i] \in Dangerous \cup Benign THEN Space ELSE bytes[i]],
         suspicious |-> Cardinality({i \in DOMAIN bytes : bytes[i] \in Dangerous})]

(* uri.query(): what follows the first question mark *)
Query(target) ==
    LET marks == {i \in DOMAIN target : target[i] = Question}
    IN  IF marks = {} THEN <<>> ELSE SubSeq(target, Min(marks) + 1, Len(target))

-----------------------------------------------------------------------------
(* NormalizedRequest::build: the texts by field, and the headers by name.  *)
(* A request is its method, its target and its headers in order.           *)

Lower(s) == [i \in DOMAIN s |-> IF s[i] \in 65..90 THEN s[i] + 32 ELSE s[i]]

FlatHeaders(headers) ==
    FlattenSeq([i \in DOMAIN headers |->
                    headers[i].name \o <<Equals>> \o headers[i].value \o <<Space>>])

(* The values of one header, joined by ", "; empty when it is missing. *)
HeaderValue(headers, name) ==
    LET named == {i \in DOMAIN headers : headers[i].name = name}
    IN  FlattenSeq([i \in DOMAIN headers |->
                        IF i \notin named THEN <<>>
                        ELSE (IF i = Min(named) THEN <<>> ELSE <<Comma, Space>>)
                             \o headers[i].value])

needs_body(rules) == \E i \in DOMAIN rules : rules[i].field = "Body"
needs_headers(rules) == \E i \in DOMAIN rules : rules[i].field = "Header"

Normalized(rules, request, body) ==
    LET headers == IF needs_headers(rules) THEN request.headers ELSE <<>>
        url == Decoded(request.target)
        args == Decoded(Query(request.target))
    IN  [Method |-> request.method, Url |-> url.text, Args |-> args.text,
         Header |-> FlatHeaders(headers), Body |-> body, headers |-> headers,
         suspicious |-> url.suspicious + args.suspicious]

field_value(req, rule) ==
    IF rule.field = "Header" /\ rule.header # NoHeader
    THEN HeaderValue(req.headers, Lower(rule.header))
    ELSE req[rule.field]

-----------------------------------------------------------------------------
(* Engine::new: literals that are not empty, grouped by field and header.  *)

Literals(rules) == {i \in DOMAIN rules : ~rules[i].regex /\ rules[i].pattern # <<>>}

Key(rule) ==
    <<rule.field, IF rule.header = NoHeader THEN NoHeader ELSE Lower(rule.header)>>

Group(rules, i) == {j \in Literals(rules) : Key(rules[j]) = Key(rules[i])}

(* The rule with which its group comes up. *)
Leads(rules, i) == i \in Literals(rules) /\ i = Min(Group(rules, i))

-----------------------------------------------------------------------------
(* Engine::inspect *)

(* The group's literals that lie in hay[at..end] and stop at its end. *)
EndingAt(rules, group, hay, at, end) ==
    {r \in group :
        LET first == end - Len(rules[r].pattern) + 1
        IN  first >= at /\ Lower(SubSeq(hay, first, end)) = Lower(rules[r].pattern)}

(* Of the literals that end at one place the automaton reports the longest,*)
(* of equal ones the first.                                                *)
Reported(rules, found) ==
    CHOOSE r \in found : \A q \in found :
        \/ Len(rules[r].pattern) > Len(rules[q].pattern)
        \/ Len(rules[r].pattern) = Len(rules[q].pattern) /\ r <= q

(* find_iter: matches that do not overlap, each the one that ends first. *)
FindIter(rules, group, hay) ==
    LET matches[at \in 1 .. Len(hay) + 1] ==
            LET ends == {e \in at .. Len(hay) : EndingAt(rules, group, hay, at, e) # {}}
            IN  IF ends = {} THEN <<>>
                ELSE <<Reported(rules, EndingAt(rules, group, hay, at, Min(ends)))>>
                     \o matches[Min(ends) + 1]
    IN  matches[1]

(* Mutant of GroupHits: a rule counts as often as it is found. *)
GroupHitsRepeated(rules, group, hay) == FindIter(rules, group, hay)

(* Each rule counts once, at its first match. *)
GroupHits(rules, group, hay) ==
    LET found == FindIter(rules, group, hay)
    IN  FlattenSeq([k \in DOMAIN found |->
                        IF \E j \in 1..k - 1 : found[j] = found[k] THEN <<>> ELSE <<found[k]>>])

RegexHits(rules, req) ==
    FlattenSeq([i \in DOMAIN rules |->
                    IF /\ rules[i].regex
                       /\ rules[i].pattern \in SubSeqs(field_value(req, rules[i]))
                    THEN <<i>> ELSE <<>>])

(* Group by group, in the order in which they came up. *)
LiteralHits(rules, req) ==
    FlattenSeq([i \in DOMAIN rules |->
                    IF Leads(rules, i)
                    THEN GroupHits(rules, Group(rules, i), field_value(req, rules[i]))
                    ELSE <<>>])

Hits(rules, req) == LiteralHits(rules, req) \o RegexHits(rules, req)

(* The rule number 0 of a request that only its control bytes condemn *)
Suspicious == 0

Inspect(engine, req) ==
    LET hits == Hits(engine.rules, req)
        total[k \in 0..Len(hits)] ==
            IF k = 0 THEN req.suspicious * SUSPICIOUS_BYTE_SCORE
            ELSE total[k - 1] + engine.rules[hits[k]].score
        score == total[Len(hits)]
    IN  [block |-> score >= engine.threshold,
         hits |-> IF hits = <<>> /\ score >= engine.threshold THEN <<Suspicious>> ELSE hits,
         score |-> score]
=============================================================================
