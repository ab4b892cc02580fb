------------------------------ MODULE Settings ------------------------------
(***************************************************************************)
(* The saved constants of RustGate (src/main.rs): `rustgate --setting` *)
(* reads the settings file, puts what the command line gives over it and   *)
(* writes the whole file anew; `rustgate waf` reads the file, puts the     *)
(* environment over it, checks it and starts.                              *)
(*                                                                         *)
(* The file is a sequence of pieces of text, a field's value a short one,  *)
(* because what is checked is the conversion between the two: escapes, the *)
(* order of the lines, and what is read back from a file that another      *)
(* command has just emptied or that a failed write left short.  A write is *)
(* truncate, then one write at the start of the file, with no lock, no     *)
(* temporary file and no fsync; a full disk, a kill or a power failure     *)
(* leaves a prefix.                                                        *)
(***************************************************************************)
EXTENDS Naturals, Sequences, SequencesExt

CONSTANTS Tasks,          \* operators running `--setting`, one command each at a time
          CommandLines,   \* the argument lists they use, sequences of words
          Environments,   \* RUSTGATE_* variables of a `waf` process: field -> word
          AddrText,       \* the words that parse as SocketAddr -> their canonical text
          Pieces,         \* what texts are made of
          Absent,         \* no settings file
          Backslash, NewLine, Return, LetterN, LetterR, Http,  \* some of them
          MaxCommands     \* bound: commands run

Texts == Seq(Pieces)

ASSUME AddrTextAssumption ==
    /\ DOMAIN AddrText \subseteq Texts
    /\ \A w \in DOMAIN AddrText : /\ AddrText[w] \in DOMAIN AddrText
                                  /\ AddrText[AddrText[w]] = AddrText[w]

ASSUME TextAssumption ==
    /\ CommandLines \subseteq Seq(Texts)
    /\ {Backslash, NewLine, Return, LetterN, LetterR} \subseteq Pieces
    /\ IsInjective(<<Backslash, NewLine, Return, LetterN, LetterR>>)
    /\ Absent \notin Texts

VARIABLES file,    \* the settings file, or Absent
          cmd,     \* the commands: phase, what the line gives, the merged settings
          waf,     \* the `waf` process: phase, its environment, the settings it
                   \*          uses; history: what was given and what was damaged
                   \*          when it started
          given,   \* history: for each field the last value a completed command gave
          calm,    \* history: no write failed and no two commands overlapped since a
                   \*          complete setting
          mixed,   \* history: a write failed in the middle of another command's text
          runs     \* commands run so far

vars == <<file, cmd, waf, given, calm, mixed, runs>>

Fields == <<"backend", "token", "api_addr", "listen_addr", "tls_cert", "tls_key",
            "trusted_proxies">>
FieldSet == ToSet(Fields)
Required == {"backend", "token", "api_addr", "listen_addr"}

Unset    == << >>
Defaults == [f \in FieldSet |-> Unset]

Over(g, h) == [f \in FieldSet |-> IF f \in DOMAIN g THEN g[f] ELSE h[f]]

-----------------------------------------------------------------------------
(* The command line.                                                       *)

Help       == {<<"-h">>, <<"--help">>}
SettingArg == {<<"--setting">>, <<"--settings">>}

FlagsOf ==
    [backend         |-> {<<"-s">>, <<"--server">>},
     token           |-> {<<"-t">>, <<"--token">>},
     api_addr        |-> {<<"-a">>, <<"--api">>},
     listen_addr     |-> {<<"-l">>, <<"--listen">>},
     tls_cert        |-> {<<"-c">>, <<"--tls-cert">>},
     tls_key         |-> {<<"-k">>, <<"--tls-key">>},
     trusted_proxies |-> {<<"--trusted-proxies">>}]

IsFlag(word) == \E f \in FieldSet : word \in FlagsOf[f]
FieldOf(flag) == CHOOSE f \in FieldSet : flag \in FlagsOf[f]

\* `--setting`, wherever it stands, unless help is asked for anywhere.
IsSetting(args) == /\ ToSet(args) \cap Help = {}
                   /\ ToSet(args) \cap SettingArg # {}

SettingArgs(args) ==
    LET pos == CHOOSE i \in DOMAIN args : /\ args[i] \in SettingArg
                                          /\ \A j \in 1..(i - 1) : args[j] \notin SettingArg
    IN  SubSeq(args, pos + 1, Len(args))

\* Flags and values alternate; anything else, or an address that does not
\* parse, ends the process (None) before it has read the file.
Flags(rest)      == {i \in DOMAIN rest : i % 2 = 1}
IsAddr(f)        == f \in {"api_addr", "listen_addr"}
Legal(f, word)   == IsAddr(f) => word \in DOMAIN AddrText
Text(f, word)    == IF IsAddr(f) THEN AddrText[word] ELSE word

WellFormed(rest) ==
    /\ Len(rest) % 2 = 0
    /\ \A i \in Flags(rest) : IsFlag(rest[i]) /\ Legal(FieldOf(rest[i]), rest[i + 1])

\* A flag given twice counts for its last value.
Order(rest) ==
    [f \in {FieldOf(rest[i]) : i \in Flags(rest)} |->
        LET latest == Max({i \in Flags(rest) : FieldOf(rest[i]) = f})
        IN  Text(f, rest[latest + 1])]

-----------------------------------------------------------------------------
(* The file format.                                                        *)

EscapeOf(c) == IF c = Backslash THEN <<Backslash, Backslash>>
               ELSE IF c = NewLine THEN <<Backslash, LetterN>>
               ELSE IF c = Return THEN <<Backslash, LetterR>>
               ELSE <<c>>

Escape(s) == FlattenSeq([i \in DOMAIN s |-> EscapeOf(s[i])])

\* Anything but n, r and a backslash after a backslash stays as it is, and so
\* does a backslash that ends the line.
Meant(c) == IF c = LetterN THEN <<NewLine>>
            ELSE IF c = LetterR THEN <<Return>>
            ELSE IF c = Backslash THEN <<Backslash>>
            ELSE <<Backslash, c>>

Unescape(s) ==
    LET from[i \in 1..Len(s) + 1] ==
            IF i > Len(s) THEN << >>
            ELSE IF s[i] = Backslash /\ i < Len(s) THEN Meant(s[i + 1]) \o from[i + 2]
            ELSE <<s[i]>> \o from[i + 1]
    IN  from[1]

\* str::lines, one next() at a time: a line ends at a NewLine or, unless it is
\* empty, at the end of the text.  (It also drops a Return before a NewLine:
\* Escape leaves none.)
Ends(text) == {i \in DOMAIN text : text[i] = NewLine}

FirstLine(text) ==
    IF Ends(text) = {} THEN text ELSE SubSeq(text, 1, Min(Ends(text)) - 1)

Behind(text) ==
    IF Ends(text) = {} THEN << >> ELSE SubSeq(text, Min(Ends(text)) + 1, Len(text))

\* What is left of the text at each of the seven lines that are taken.
Left(text) ==
    LET second  == Behind(text)
        third   == Behind(second)
        fourth  == Behind(third)
        fifth   == Behind(fourth)
        sixth   == Behind(fifth)
        seventh == Behind(sixth)
    IN  <<text, second, third, fourth, fifth, sixth, seventh>>

Content(settings) ==
    LET Before(f, lines) == Escape(settings[f]) \o <<NewLine>> \o lines
    IN  Before("backend", Before("token", Before("api_addr", Before("listen_addr",
            Before("tls_cert", Before("tls_key", Before("trusted_proxies", << >>)))))))

\* Mutant: missing lines are empty, the required ones included.
LoadsAny(text) == text # Absent

\* Settings::load: an error when there is no file or it has not even the four
\* required lines; lines five to seven may be missing (files of older
\* versions), lines after the seventh are not read.
Loads(text) == text # Absent /\ Left(text)[4] # << >>

LineOf(f) == CHOOSE i \in DOMAIN Fields : Fields[i] = f

Load(text) == [f \in FieldSet |-> Unescape(FirstLine(Left(text)[LineOf(f)]))]

LoadOrDefaults(text) == IF Loads(text) THEN Load(text) ELSE Defaults

\* Writing at the start of a file leaves what it holds beyond.
WriteOver(text, content) ==
    content \o (IF Len(text) > Len(content) THEN SubSeq(text, Len(content) + 1, Len(text))
                                            ELSE << >>)

-----------------------------------------------------------------------------
(* `rustgate --setting`                                                    *)

Idle == [phase |-> "idle", order |-> [f \in {} |-> Unset], merged |-> Defaults]

Others(t)  == {u \in Tasks \ {t} : cmd[u].phase # "idle"}
SchemeOk(backend) == backend # Unset => Head(backend) = Http

\* Mutant: what the command does not give is not kept.
MergeFresh(settings, order) == Over(order, Defaults)

Merge(settings, order) == Over(order, settings)

\* Parse, load, merge, check: up to the first change of the file.  A command
\* that is refused on the way changes nothing and is not modelled further.
Prepare(t, args) ==
    /\ cmd[t].phase = "idle"
    /\ runs < MaxCommands
    /\ IsSetting(args) /\ WellFormed(SettingArgs(args))
    /\ LET order  == Order(SettingArgs(args))
           merged == Merge(LoadOrDefaults(file), order)
       IN  /\ SchemeOk(merged.backend)
           /\ cmd' = [cmd EXCEPT ![t] = [phase |-> "open", order |-> order, merged |-> merged]]
    /\ runs' = runs + 1
    /\ calm' = (calm /\ Others(t) = {})
    /\ UNCHANGED <<file, waf, given, mixed>>

\* Opening truncates; a directory or file that cannot be created, or a kill,
\* ends the command with the file as it was.
Open(t) ==
    /\ cmd[t].phase = "open"
    /\ \/ file' = << >> /\ cmd' = [cmd EXCEPT ![t].phase = "write"]
       \/ UNCHANGED file /\ cmd' = [cmd EXCEPT ![t] = Idle]
    /\ UNCHANGED <<waf, given, calm, mixed, runs>>

\* A complete setting: it gives every field, and no other command is under way.
Renews(t) == DOMAIN cmd[t].order = FieldSet /\ Others(t) = {}

Write(t) ==
    /\ cmd[t].phase = "write"
    /\ file'  = WriteOver(file, Content(cmd[t].merged))
    /\ given' = Over(cmd[t].order, given)
    /\ calm'  = (calm \/ Renews(t))
    /\ mixed' = (mixed /\ ~Renews(t))
    /\ cmd'   = [cmd EXCEPT ![t] = Idle]
    /\ UNCHANGED <<waf, runs>>

\* The write fails or the process dies: any prefix may be on the disk.
Cut(t) ==
    /\ cmd[t].phase = "write"
    /\ \E n \in 0..(Len(Content(cmd[t].merged)) - 1) :
           file' = WriteOver(file, SubSeq(Content(cmd[t].merged), 1, n))
    /\ calm'  = FALSE
    /\ mixed' = (mixed \/ file # << >>)
    /\ cmd'   = [cmd EXCEPT ![t] = Idle]
    /\ UNCHANGED <<waf, given, runs>>

-----------------------------------------------------------------------------
(* `rustgate waf`                                                          *)

Off == [phase |-> "off", env |-> [f \in {} |-> Unset], use |-> Defaults,
        given |-> Defaults, damage |-> "none"]

\* History: whether the file is what was given, may have lost some of it, or may
\* have the lines of two commands mixed.
Damage == IF mixed THEN "mixed"
          ELSE IF calm /\ \A t \in Tasks : cmd[t].phase # "write" THEN "none" ELSE "lost"

\* A variable that is set counts, even when it is set to nothing.
Missing(env, saved) == {f \in Required : f \notin DOMAIN env /\ saved[f] = Unset}

\* Mutant: the file is put over the environment.
EffectiveFileFirst(env, saved) ==
    [f \in FieldSet |-> IF saved[f] # Unset THEN saved[f] ELSE Over(env, saved)[f]]

Effective(env, saved) == Over(env, saved)

\* The process reads the file once and checks what it is going to use, in
\* this order: the required fields, the two addresses, the certificate pair.
\* Whatever fails ends it, and so does a certificate, a rules file or a listen
\* address that cannot be used; the management API has a listener of its own,
\* whose failure is only logged.
Boot(env) ==
    /\ waf.phase = "off"
    /\ LET saved == LoadOrDefaults(file)
           use   == Effective(env, saved)
       IN  /\ Missing(env, saved) = {}
           /\ use.listen_addr \in DOMAIN AddrText
           /\ (use.tls_cert = Unset) <=> (use.tls_key = Unset)
           /\ use.api_addr \in DOMAIN AddrText
           /\ waf' = [phase |-> "serving", env |-> env, use |-> use,
                      given |-> IF Damage = "none" THEN given ELSE Defaults,
                      damage |-> Damage]
    /\ UNCHANGED <<file, cmd, given, calm, mixed, runs>>

Stop == /\ waf.phase = "serving"
        /\ waf' = Off
        /\ UNCHANGED <<file, cmd, given, calm, mixed, runs>>

-----------------------------------------------------------------------------
Init ==
    /\ file  = Absent
    /\ cmd   = [t \in Tasks |-> Idle]
    /\ waf   = Off
    /\ given = Defaults
    /\ calm  = TRUE
    /\ mixed = FALSE
    /\ runs  = 0

Next ==
    \/ \E t \in Tasks : \/ \E args \in CommandLines : Prepare(t, args)
                        \/ Open(t) \/ Write(t) \/ Cut(t)
    \/ \E env \in Environments : Boot(env)
    \/ Stop

Spec == Init /\ [][Next]_vars

-----------------------------------------------------------------------------
(* Properties.                                                             *)

Accepted == {args \in CommandLines : IsSetting(args) /\ WellFormed(SettingArgs(args))}
Offered(f) == {Order(SettingArgs(args))[f] :
                  args \in {a \in Accepted : f \in DOMAIN Order(SettingArgs(a))}}

\* What the file says is, field by field, the last value a completed command
\* gave, and nothing for a field no command ever gave: a partial update keeps
\* the rest, whatever characters the values hold.  It is claimed as long as no
\* two commands overlap and no write fails, and again from the first complete
\* setting afterwards (main.rs:603, 756).
SettingIsKept ==
    calm /\ (\A t \in Tasks : cmd[t].phase # "write") => LoadOrDefaults(file) = given

\* Overlaps and failed writes can lose settings and can cut a value of the
\* lines from the listen address on, but a backend, a token and an API address
\* that are read back are whole values some command gave for that very field,
\* and the backend has a scheme, unless a write failed in the middle of what
\* another command had written: then the lines of the two are mixed and a value
\* may be read as another field's (main.rs:114-120).
NothingInvented ==
    LET saved == LoadOrDefaults(file)
    IN  ~mixed =>
          /\ \A f \in {"backend", "token", "api_addr"} : saved[f] \in Offered(f) \cup {Unset}
          /\ SchemeOk(saved.backend)

\* A running WAF uses what the operators mean: the variable of its environment
\* where there is one, and otherwise the last value a command gave, unless a
\* command was writing when it started or something had been damaged.  Even then
\* its backend, token and API address are whole values that were given for that
\* field, unless lines were mixed: it refuses to start rather than serve without
\* one of them (main.rs:806-960).
ServesWhatWasSet ==
    LET saved == FieldSet \ DOMAIN waf.env
    IN  waf.phase = "serving" =>
          /\ \A f \in FieldSet \cap DOMAIN waf.env : waf.use[f] = waf.env[f]
          /\ waf.damage = "none" => \A f \in saved : waf.use[f] = waf.given[f]
          /\ waf.damage # "mixed" =>
                \A f \in saved \cap {"backend", "token", "api_addr"} :
                    waf.use[f] \in Offered(f) \ {Unset}
=============================================================================
