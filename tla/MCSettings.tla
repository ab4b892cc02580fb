----------------------------- MODULE MCSettings -----------------------------
(* Two operators and three commands: a complete setting, one with the text   *)
(* that has to be escaped, updates of single fields, a flag given twice, an  *)
(* argument list after `waf`, a backend without a scheme, and lists that are *)
(* refused.  The listen address and the trusted proxies have a proper prefix *)
(* that is a value as well.                                                  *)
EXTENDS Settings

Short == <<"0:", "9">>
Long  == <<"0:", "9", "0">>
Api   == <<"1:", "1">>

MCAddrText == [w \in {Short, Long, Api} |-> w] @@ (<<"01:", "1">> :> Api)

Complete == <<<<"--setting">>, <<"-s">>, <<"http", "a">>, <<"-t">>, <<"BS", "n">>,
              <<"-a">>, <<"01:", "1">>, <<"-l">>, Long, <<"-c">>, <<"c">>, <<"-k">>, <<"k">>,
              <<"--trusted-proxies">>, <<"p", "2">> >>

MCCommandLines ==
    { Complete,
      <<<<"waf">>, <<"--settings">>, <<"-t">>, <<"x">>, <<"--token">>, <<"NL", "n", "CR">> >>,
      <<<<"--setting">>, <<"-l">>, Short, <<"-c">>, << >>, <<"-k">>, << >> >>,
      <<<<"--setting">>, <<"-s">>, <<"ftp">> >>,
      <<<<"--setting">>, <<"-t">> >>,
      <<<<"--setting">>, <<"-t">>, <<"--help">> >>,
      <<<<"--setting">>, <<"-a">>, <<"p">> >> }

MCEnvironments ==
    { [f \in {} |-> Unset],
      "token" :> << >>,
      "listen_addr" :> Long @@ "tls_cert" :> << >> @@ "tls_key" :> << >>,
      "backend" :> <<"http", "e">> @@ "token" :> <<"e">> @@ "api_addr" :> Api
          @@ "listen_addr" :> Short }

MCPieces ==
    UNION {ToSet(word) : word \in DOMAIN MCAddrText \cup UNION {ToSet(args) : args \in MCCommandLines}}
        \cup {"BS", "NL", "CR", "n", "r"}

Operators == Permutations(Tasks)
=============================================================================
