---------------------------- MODULE MCConnections ----------------------------
(***************************************************************************)
(* Four connections, two permits, three sockets.  Addresses of two and four *)
(* bits: the IPv6 addresses 4 to 7 are the IPv4 addresses 0 to 3.  The     *)
(* messages vary where they come from, or what their headers say.          *)
(***************************************************************************)
EXTENDS Connections

CONSTANTS c1, c2, c3, c4

MCConns == {c1, c2, c3, c4}
MCNumerals == {"3", "03", "4"}

Net(ip, prefix) == [ip |-> ip, prefix |-> prefix]

(* Networks with a plain and a mapped base, everything, and what is ignored, *)
(* each with ways through proxies that the list trusts, and with none.     *)
Listed == {Net(Ip(4, 0), Exact), Net(Ip(4, 2), 1)}
ListedMapped == {Net(Ip(6, 6), 3), Net(Ip(6, 8), 1), Net(Ip(6, 4), Exact)}
Ignored == {Net(Ip(6, 0), 0), Net(NoIp, 1), Net(Ip(4, 1), 3)}

Ways ==
    { [trusted |-> list, hops |-> hops] :
        list \in {Listed, ListedMapped}, hops \in {<<>>, <<Ip(6, 6), Ip(4, 0)>>} }
    \cup { [trusted |-> ListedMapped, hops |-> <<Ip(6, 9), Ip(6, 4)>>],
           [trusted |-> Ignored, hops |-> <<>>] }

Plain == [client |-> Ip(4, 1), hops |-> <<>>, forged |-> <<>>, headers |-> <<>>,
          answer |-> <<>>, trusted |-> {}, tls |-> FALSE]

FromAnywhere ==
    { [Plain EXCEPT !.client = client, !.hops = way.hops, !.forged = forged,
                    !.trusted = way.trusted] :
        client \in {Ip(6, 5), Ip(6, 9)}, way \in Ways,
        forged \in {<<>>, <<Ip(4, 1), NoIp, Ip(4, 2)>>} }

(* A client that sends what is no visible text, to the gateway and to a proxy. *)
Unreadable ==
    { [Plain EXCEPT !.client = Ip(6, 9), !.hops = hops, !.forged = <<Ip(4, 1), Opaque>>,
                    !.trusted = Listed] :
        hops \in {<<>>, <<Ip(6, 6), Ip(4, 0)>>} }

H(name, value) == [name |-> name, value |-> value]
Length(text) == H("content-length", text)
Coding(text) == H("transfer-encoding", text)

Framings == {
    <<>>, <<Length("3")>>, <<Length("03"), Length("3")>>, <<Length("3"), Length("3")>>,
    <<Length("x")>>, <<Coding("chunked")>>, <<Length("3"), Coding("chunked")>>,
    <<Coding("gzip"), Coding("chunked")>>, <<Coding("gzip, chunked")>>,
    <<Coding(Opaque), Length("4")>>, <<Coding(Opaque), Coding("chunked")>>,
    <<Coding("chunked"), Coding(Opaque)>> }

Usual == <<H("host", "a"), H("forwarded", "b"), H("x-trace", "c")>>
Naming == {
    <<H("connection", {"x-trace", "close"}), H("x-trace", "c"), H("te", "d")>>,
    <<H("connection", Opaque), H("connection", {"x-other"}), H("x-trace", "c"), H("x-other", "e")>>,
    <<H("connection", {"content-length"}), H("connection", {"x-forwarded-for"}), H("x-other", "e")>> }

WithHeaders ==
    { [Plain EXCEPT !.headers = pair[1] \o pair[2], !.answer = pair[2], !.tls = TRUE] :
        pair \in (Framings \X {Usual})
                    \cup ({<<Length("3")>>, <<Coding("chunked")>>} \X Naming) }

MCMessages == FromAnywhere \cup Unreadable \cup WithHeaders
=============================================================================
