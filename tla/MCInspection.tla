---------------------------- MODULE MCInspection ----------------------------
(* Queries in every encoding against rules that overlap; bodies of up to   *)
(* three frames against a limit of three bytes; headers with and without   *)
(* a name.                                                                 *)
EXTENDS Inspection

a == 97
b == 98
c == 99

Rule(field, header, regex, pattern, score) ==
    [field |-> field, header |-> header, regex |-> regex, pattern |-> pattern,
     score |-> score]

Literal(field, pattern, score) == Rule(field, NoHeader, FALSE, pattern, score)
Regex(field, pattern, score) == Rule(field, NoHeader, TRUE, pattern, score)

Engine(rules) == [threshold |-> 20, rules |-> rules]

Overlapping == Engine(<<
    Literal("Args", <<a, b>>, 12), Literal("Url", <<65, b>>, 4),
    Regex("Args", <<c>>, 3), Literal("Args", <<b, c>>, 12), Literal("Args", <<>>, 20)>>)

InBodies == Engine(<<
    Literal("Body", <<b, c>>, 10), Regex("Body", <<b>>, 10),
    Literal("Body", <<a, b, c>>, 10)>>)

InHeaders == Engine(<<
    Rule("Header", <<85>>, FALSE, <<a>>, 20), Literal("Header", <<117, Equals, b>>, 10),
    Rule("Header", <<117>>, TRUE, <<b, Comma>>, 10), Literal("Method", <<a>>, 10)>>)

NoRules == Engine(<<>>)

(***************************************************************************)
(* Requests: the query is written with the bytes at some places escaped,   *)
(* among them all that a query cannot show as they are.                    *)
(***************************************************************************)
HexDigit(n) == IF n < 10 THEN 48 + n ELSE 55 + n

Written(plain, places) ==
    FlattenSeq([i \in DOMAIN plain |->
        IF i \in places
        THEN <<Percent, HexDigit(plain[i] \div 16), HexDigit(plain[i] % 16)>>
        ELSE <<plain[i]>>])

Unshown(plain) ==
    {i \in DOMAIN plain : plain[i] \in Dangerous \cup Benign \cup {Space, Percent, Plus}}

Asking(query, plain) ==
    [method |-> <<a>>, target |-> <<47, Question>> \o query, plain |-> plain,
     headers |-> <<>>]

Texts == {<<a, b, c>>, <<65, b, b, c>>, <<0, a, b>>, <<Percent, 52, 49>>,
          <<Plus, 9, Question>>, <<127, 0>>}

Queries ==
    UNION {{Asking(Written(t, S), t) : S \in {S \in SUBSET DOMAIN t : Unshown(t) \subseteq S}}
           : t \in Texts}
    \cup {Asking(<<a, Plus, b>>, <<a, Space, b>>),          \* a plus for a space
          Asking(<<Percent, 54, 97, b>>, <<106, b>>),       \* lower-case digits
          Asking(<<Percent, 71, 49>>, <<Percent, 71, 49>>), \* no digits behind it
          Asking(<<a, Percent, 54>>, <<a, Percent, 54>>),   \* cut off
          [Asking(<<>>, <<49>>) EXCEPT                      \* split by the mark
              !.target = <<47, Percent, 54, Question, 49>>]}

Bare == [method |-> <<a>>, target |-> <<47>>, plain |-> <<>>, headers |-> <<>>]

Header(name, value) == [name |-> name, value |-> value]

WithHeaders ==
    {[Bare EXCEPT !.headers = h] :
        h \in {<<Header(<<117>>, <<b>>), Header(<<117>>, <<a, a>>)>>,
               <<Header(<<118>>, <<a>>)>>, <<Header(<<117>>, <<b>>)>>, <<>>}}

MCCases ==
    ({Overlapping, NoRules} \X Queries)
    \cup ({InHeaders} \X WithHeaders)
    \cup {<<InBodies, Bare>>}

MCFrames == {<<a>>, <<b, c>>, <<a, b, c, a>>}
=============================================================================
