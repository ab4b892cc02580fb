----------------------------- MODULE Forwarding -----------------------------
(***************************************************************************)
(* What src/main.rs makes of a request's head: whose it is (client_ip with *)
(* the trusted proxies), whether its length can be read in one way only    *)
(* (valid_request_boundaries), and which headers cross the gateway in      *)
(* either direction (forward).                                             *)
(*                                                                         *)
(* An address is a number of W4 or W6 bits; the IPv6 addresses whose upper *)
(* bits are MAPPED carry an IPv4 address.  Arithmetic is that of a release *)
(* build: a subtraction wraps, a shift counts modulo the width.  A header  *)
(* is a name with a value: a text, a set of names (Connection), a sequence *)
(* of addresses and other items (X-Forwarded-For, first line), or Opaque,  *)
(* which to_str cannot read.  One Opaque item makes its line unreadable.   *)
(***************************************************************************)
EXTENDS Integers, FiniteSetsExt, SequencesExt

CONSTANTS
    W4, W6,   \* widths of IPv4 and IPv6 addresses (32, 128)
    MAPPED,   \* upper bits of an IPv4-mapped address (::ffff)
    NoIp,     \* a text that is no address
    Numerals, \* texts that are decimal numbers
    Opaque    \* a value, or an item of one, that is no visible text

Pow2(n) ==
    LET power[i \in 0..n] == IF i = 0 THEN 1 ELSE 2 * power[i - 1]
    IN  power[n]

Ip(family, n) == [family |-> family, n |-> n]
Width(ip) == IF ip.family = 4 THEN W4 ELSE W6

Addresses == {Ip(4, n) : n \in 0..Pow2(W4) - 1} \cup {Ip(6, n) : n \in 0..Pow2(W6) - 1}

ASSUME ForwardingAssumption ==
    /\ W4 \in Nat \ {0} /\ W6 \in Nat \ {0}
    /\ W6 % W4 = 0
    /\ MAPPED \in 0..Pow2(W6 - W4) - 1
    /\ NoIp \notin Addresses
    /\ Opaque \notin Addresses \cup {NoIp}
    /\ Opaque \notin Numerals \cup {"chunked", "gzip, chunked"}

IsMapped(ip) == ip.family = 6 /\ ip.n \div Pow2(W4) = MAPPED

Canonical(ip) == IF IsMapped(ip) THEN Ip(4, ip.n % Pow2(W4)) ELSE ip

-----------------------------------------------------------------------------
(* A trusted proxy is an address, or a network with a prefix.              *)
Exact == -1

Proxies == [ip : Addresses \cup {NoIp}, prefix : Nat \cup {Exact}]

Parsed(items) ==
    {item \in items : item.ip # NoIp /\ item.prefix <= Width(item.ip)}

(* The base is canonical already, the prefix may still count IPv6 bits.    *)
CidrMatch(base, prefix, ip) ==
    LET unit == Pow2((Width(base) - prefix) % Width(base))
    IN  /\ base.family = ip.family
        /\ prefix = 0 \/ base.n \div unit = ip.n \div unit

Trusts(items, ip) ==
    \E item \in Parsed(items) :
        IF item.prefix = Exact
        THEN Canonical(item.ip) = Canonical(ip)
        ELSE CidrMatch(Canonical(item.ip), item.prefix, Canonical(ip))

(* The places of a line that hold addresses, if to_str can read the line.  *)
Heard(line) ==
    {i \in DOMAIN line : Opaque \notin ToSet(line) /\ line[i] # NoIp}

(* Mutant of ClientIp: from left to right. *)
ClientIpFromLeft(peer, line, items) ==
    LET heard == Heard(line)
        strangers == {i \in heard : ~ Trusts(items, line[i])}
    IN  Canonical(IF ~ Trusts(items, peer) \/ heard = {} THEN peer
                  ELSE line[Min(IF strangers # {} THEN strangers ELSE heard)])

(* A peer that is no trusted proxy is the client.  Behind one, the client  *)
(* is the last address of the header that is no proxy, else the first      *)
(* address, else the peer.                                                 *)
ClientIp(peer, line, items) ==
    LET heard == Heard(line)
        strangers == {i \in heard : ~ Trusts(items, line[i])}
    IN  Canonical(IF ~ Trusts(items, peer) \/ heard = {} THEN peer
                  ELSE line[IF strangers # {} THEN Max(strangers) ELSE Min(heard)])

-----------------------------------------------------------------------------
Places(headers, name) == {i \in DOMAIN headers : headers[i].name = name}
Values(headers, name) == {headers[i].value : i \in Places(headers, name)}

(* Where to_str can read a transfer coding; filter_map drops the others.   *)
Codings(headers) ==
    {i \in Places(headers, "transfer-encoding") : headers[i].value # Opaque}

(* Mutant of ValidBoundaries: a length is ignored beside a transfer coding. *)
ValidBoundariesEither(headers) ==
    LET lengths == Values(headers, "content-length")
        codings == Codings(headers)
    IN  /\ \A v \in lengths : v \in Numerals
        /\ \A v, u \in lengths : v = u
        /\ codings # {} => /\ Cardinality(codings) = 1
                           /\ \A i \in codings : headers[i].value = "chunked"

(* Lengths are numbers, all written alike, and exclude a transfer coding,  *)
(* which is "chunked" alone.                                               *)
ValidBoundaries(headers) ==
    LET lengths == Values(headers, "content-length")
        codings == Codings(headers)
    IN  /\ \A v \in lengths : v \in Numerals
        /\ \A v, u \in lengths : v = u
        /\ codings # {} => /\ lengths = {}
                           /\ Cardinality(codings) = 1
                           /\ \A i \in codings : headers[i].value = "chunked"

-----------------------------------------------------------------------------
HopByHop == {"connection", "keep-alive", "proxy-connection", "proxy-authenticate",
             "proxy-authorization", "te", "trailer", "transfer-encoding", "upgrade"}

(* What the sender of a request could claim about itself. *)
Claims == {"x-forwarded-for", "x-real-ip", "x-forwarded-proto", "x-forwarded-host",
           "x-forwarded-port", "x-forwarded-server", "x-forwarded-scheme", "forwarded"}

(* The headers that Connection names, where to_str can read it, belong to  *)
(* the hop as well.                                                        *)
HopTokens(headers) == UNION (Values(headers, "connection") \ {Opaque})

Withheld(tokens) == {"host"} \cup HopByHop \cup tokens \cup Claims

(* The headers that do not have these names, in their order. *)
Without(headers, names) ==
    FlattenSeq([i \in DOMAIN headers |->
                    IF headers[i].name \in names THEN <<>> ELSE <<headers[i]>>])

OwnClaims(client, tls) ==
    << [name |-> "x-forwarded-for", value |-> client],
       [name |-> "x-forwarded-proto", value |-> IF tls THEN "https" ELSE "http"] >>

(* Mutant of Forwarded: the claims of the sender stay. *)
ForwardedClaims(headers, client, tls) ==
    Without(headers, {"host"} \cup HopByHop \cup HopTokens(headers)) \o OwnClaims(client, tls)

Forwarded(headers, client, tls) ==
    Without(headers, Withheld(HopTokens(headers))) \o OwnClaims(client, tls)

Stripped(headers) == Without(headers, HopByHop \cup HopTokens(headers))
=============================================================================
