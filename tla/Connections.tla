----------------------------- MODULE Connections -----------------------------
(***************************************************************************)
(* Connections to the gateway (src/main.rs): the accept loop, the          *)
(* semaphore that bounds the connections served, the TLS handshake under   *)
(* its permit, and serve_conn with its requests one after the other.  What *)
(* a request's head says is read by Forwarding; the checks and the body    *)
(* are in RequestPipeline and Inspection, here a request ends any way.     *)
(*                                                                         *)
(* The requests of a behaviour all look like message, chosen once with the *)
(* configuration.  A message was sent by message.client and passed on by   *)
(* the proxies message.hops, each of which put the address it got it from  *)
(* behind what X-Forwarded-For said already.                               *)
(***************************************************************************)
EXTENDS Forwarding

CONSTANTS
    Conns,       \* connections
    MaxConns,    \* permits of the semaphore (1024)
    Fds,         \* sockets the process may have open
    MaxErrors,   \* bound on accepts that fail though a socket is left
    Messages     \* records [client, hops, forged, headers, answer, trusted, tls]

ASSUME ConnectionsAssumption ==
    /\ IsFiniteSet(Conns)
    /\ MaxConns \in Nat \ {0}
    /\ Fds \in Nat \ {0} /\ MaxErrors \in Nat
    /\ \A m \in Messages :
        /\ m.client \in Addresses /\ m.hops \in Seq(Addresses)
        /\ m.forged \in Seq(Addresses \cup {NoIp, Opaque})
        /\ m.trusted \subseteq Proxies
        /\ m.headers \in Seq(ToSet(m.headers)) /\ m.answer \in Seq(ToSet(m.answer))

VARIABLES
    message,     \* what requests look like, and the configuration
    stage,       \* stage[c]: where the connection is
    backlog,     \* connections the kernel holds for accept
    queue,       \* tasks that wait for a permit, first come first served
    permits,     \* permits the semaphore has left
    loop,        \* the accept loop: "accept", or "sleep" after an error
    errors       \* how many accepts failed though a socket was left

acceptor == <<loop, errors>>
vars == <<message, stage, backlog, queue, permits, acceptor>>

Stages == {"away", "backlog", "queued", "handshake", "head", "serving", "forwarding"}
Holding == {"handshake", "head", "serving", "forwarding"}
Holders == {c \in Conns : stage[c] \in Holding}
Open == {c \in Conns : stage[c] = "queued"} \cup Holders

Goto(c, from, to) ==
    /\ stage[c] = from
    /\ stage' = [stage EXCEPT ![c] = to]

-----------------------------------------------------------------------------
(* The head of message, as it arrives. *)
Peer(m) == Last(<<m.client>> \o m.hops)
Line(m) == m.forged \o Front(<<m.client>> \o m.hops)
Heads(m) == Append(m.headers, [name |-> "x-forwarded-for", value |-> Line(m)])

(* hyper answers 400 itself to a length that is no number, and to a        *)
(* request whose last transfer coding is not chunked.                      *)
Parses(headers) ==
    LET codings == Places(headers, "transfer-encoding")
    IN  IF codings = {}
        THEN Values(headers, "content-length") \subseteq Numerals
        ELSE \E last \in codings :
                /\ \A i \in codings : i <= last
                /\ headers[last].value \in {"chunked", "gzip, chunked"}

-----------------------------------------------------------------------------
Init ==
    /\ message \in Messages
    /\ stage = [c \in Conns |-> "away"]
    /\ backlog = <<>>
    /\ queue = <<>>
    /\ permits = MaxConns
    /\ loop = "accept" /\ errors = 0

Arrive(c) ==
    /\ Goto(c, "away", "backlog")
    /\ backlog' = Append(backlog, c)
    /\ UNCHANGED <<message, queue, permits, acceptor>>

(* Mutant of Accept: the connection of an accept that failed is lost. *)
AcceptOrLose ==
    /\ loop = "accept" /\ backlog # <<>>
    /\ backlog' = Tail(backlog)
    /\ IF Cardinality(Open) < Fds
       THEN /\ stage' = [stage EXCEPT ![Head(backlog)] = "queued"]
            /\ queue' = Append(queue, Head(backlog))
       ELSE UNCHANGED <<stage, queue>>
    /\ UNCHANGED <<message, permits, acceptor>>

(* A connection gets a task, and the task a place in the queue. *)
Accept ==
    /\ loop = "accept" /\ backlog # <<>>
    /\ Cardinality(Open) < Fds
    /\ stage' = [stage EXCEPT ![Head(backlog)] = "queued"]
    /\ queue' = Append(queue, Head(backlog))
    /\ backlog' = Tail(backlog)
    /\ UNCHANGED <<message, permits, acceptor>>

(* Sockets have run out, or accept fails for another reason.               *)
AcceptFails ==
    /\ loop = "accept" /\ backlog # <<>>
    /\ IF Cardinality(Open) < Fds
       THEN errors < MaxErrors /\ errors' = errors + 1
       ELSE UNCHANGED errors
    /\ loop' = "sleep"
    /\ UNCHANGED <<message, stage, backlog, queue, permits>>

Wake ==
    /\ loop = "sleep"
    /\ loop' = "accept"
    /\ UNCHANGED <<message, stage, backlog, queue, permits, errors>>

Acquire ==
    /\ permits > 0 /\ queue # <<>>
    /\ permits' = permits - 1
    /\ stage' = [stage EXCEPT ![Head(queue)] = IF message.tls THEN "handshake" ELSE "head"]
    /\ queue' = Tail(queue)
    /\ UNCHANGED <<message, backlog, acceptor>>

Handshake(c) ==
    /\ Goto(c, "handshake", "head")
    /\ UNCHANGED <<message, backlog, queue, permits, acceptor>>

Request(c) ==
    /\ Parses(Heads(message))
    /\ Goto(c, "head", "serving")
    /\ UNCHANGED <<message, backlog, queue, permits, acceptor>>

(* handle answers itself: 400, 403, 429, or 502 for an error. *)
Refuse(c) ==
    /\ Goto(c, "serving", "head")
    /\ UNCHANGED <<message, backlog, queue, permits, acceptor>>

Forward(c) ==
    /\ ValidBoundaries(Heads(message))
    /\ Goto(c, "serving", "forwarding")
    /\ UNCHANGED <<message, backlog, queue, permits, acceptor>>

Answer(c) ==
    /\ Goto(c, "forwarding", "head")
    /\ UNCHANGED <<message, backlog, queue, permits, acceptor>>

(* Mutant of Leave: a handshake that fails keeps its permit. *)
LeaveUnshaken(c) ==
    /\ stage[c] \in Holding
    /\ stage' = [stage EXCEPT ![c] = "away"]
    /\ permits' = IF stage[c] = "handshake" THEN permits ELSE permits + 1
    /\ UNCHANGED <<message, backlog, queue, acceptor>>

(* The handshake fails, hyper refuses the head or has waited 10 seconds    *)
(* for it, the connection is closed or breaks, or the task panics.         *)
Leave(c) ==
    /\ stage[c] \in Holding
    /\ stage' = [stage EXCEPT ![c] = "away"]
    /\ permits' = permits + 1
    /\ UNCHANGED <<message, backlog, queue, acceptor>>

Next ==
    \/ Accept \/ AcceptFails \/ Wake \/ Acquire
    \/ \E c \in Conns :
        \/ Arrive(c) \/ Handshake(c) \/ Request(c) \/ Refuse(c)
        \/ Forward(c) \/ Answer(c) \/ Leave(c)

(***************************************************************************)
(* The accept loop runs, its sleep ends, and a free permit is given to the *)
(* task that waits longest.  Nothing is assumed of peers or of backends.   *)
(***************************************************************************)
Spec ==
    /\ Init /\ [][Next]_vars
    /\ WF_vars(Accept \/ AcceptFails) /\ WF_vars(Wake) /\ WF_vars(Acquire)

-----------------------------------------------------------------------------
(***************************************************************************)
(* Permits are neither lost nor made (main.rs:1029-1073), however a        *)
(* connection ends, so at most MaxConns are served at once; a task waits   *)
(* in the queue once, and the kernel holds a connection once.              *)
(***************************************************************************)
PermitsConserved ==
    /\ permits >= 0 /\ permits + Cardinality(Holders) = MaxConns
    /\ IsInjective(queue) /\ ToSet(queue) = {c \in Conns : stage[c] = "queued"}
    /\ IsInjective(backlog) /\ ToSet(backlog) = {c \in Conns : stage[c] = "backlog"}

(***************************************************************************)
(* No connection starves, though all are accepted before they have a       *)
(* permit (main.rs:1028) and the loop sleeps when sockets run out or       *)
(* accept fails otherwise: as long as each connection served lets its      *)
(* permit go again and again, each that arrived is served.                 *)
(***************************************************************************)
LetGo == \A c \in Conns : []<>(c \notin Holders)

NobodyStarves ==
    LetGo => \A c \in Conns : stage[c] = "backlog" ~> c \in Holders

(***************************************************************************)
(* A network read bit by bit: the first bits of base and address agree,    *)
(* where an IPv4-mapped base and its prefix count all the bits of IPv6.    *)
(***************************************************************************)
Wide(ip) == IF ip.family = 4 THEN MAPPED * Pow2(W4) + ip.n ELSE ip.n

InNetwork(item, ip) ==
    LET bits == IF item.prefix = Exact THEN W6
                ELSE item.prefix + W6 - Width(item.ip)
    IN  /\ Canonical(item.ip).family = Canonical(ip).family
        /\ \A i \in 1..bits :
            (Wide(item.ip) \div Pow2(W6 - i)) % 2 = (Wide(ip) \div Pow2(W6 - i)) % 2

IsProxy(ip) ==
    \E item \in message.trusted :
        /\ item.ip # NoIp /\ item.prefix <= Width(item.ip)
        /\ InNetwork(item, ip)

(* A mapped base whose prefix ends before the IPv4 address: the prefix     *)
(* counts the bits of an IPv6 address and is taken for one of IPv4         *)
(* (main.rs:297).  A release build then compares IPv4 bits that the        *)
(* network does not mention.                                               *)
Misread(item) ==
    item.ip # NoIp /\ IsMapped(item.ip) /\ item.prefix \in 1..W6 - W4

(***************************************************************************)
(* Whoever sent a request through trusted proxies is the client that the   *)
(* checks and the backend see, whatever X-Forwarded-For said when it left  *)
(* the client (main.rs:316), unless the client is a trusted proxy itself   *)
(* and said something there, or the list has a network that is misread.    *)
(* A third case the code gets wrong: what the client said is no visible    *)
(* text.  The proxies add to that line, to_str refuses all of it           *)
(* (main.rs:322), and the last proxy passes for the client.                *)
(***************************************************************************)
ClientIsTheSender ==
    LET m == message
        seen == ClientIp(Peer(m), Line(m), m.trusted)
    IN  /\ \A i \in DOMAIN m.hops : IsProxy(m.hops[i])
        /\ ~ IsProxy(m.client) \/ m.forged = <<>>
        /\ \A item \in m.trusted : ~ Misread(item)
        => seen = Canonical(IF Opaque \in ToSet(m.forged) THEN Peer(m) ELSE m.client)

(***************************************************************************)
(* A request that is forwarded has one length, whichever of its headers is *)
(* read first and whichever wins (main.rs:345): lengths that are the same  *)
(* text, or else no length at all and no coding but chunked.  A coding     *)
(* that is no visible text is not looked at by valid_request_boundaries;   *)
(* that it stands before a chunked one, hyper saw to.                      *)
(***************************************************************************)
Framing(headers) ==
    LET lengths == Values(headers, "content-length")
        codings == Values(headers, "transfer-encoding")
    IN  \/ codings = {} /\ lengths \subseteq Numerals /\ \A v, u \in lengths : v = u
        \/ lengths = {} /\ "chunked" \in codings /\ codings \subseteq {"chunked", Opaque}

OneReading == (\E c \in Conns : stage[c] = "forwarding") => Framing(Heads(message))

(***************************************************************************)
(* The backend is told one client address and one protocol, the gateway's  *)
(* own.  In either direction no header of the hop crosses, nor any that a  *)
(* Connection line names which is visible text, and every other one does   *)
(* (main.rs:1601, 1625).  A line with one other byte is skipped as a whole *)
(* (main.rs:1578): what only that line names crosses too.                  *)
(***************************************************************************)
OfTheHop(headers, h) ==
    \/ h.name \in HopByHop
    \/ \E c \in ToSet(headers) :
        c.name = "connection" /\ c.value # Opaque /\ h.name \in c.value

OnlyOwnClaims ==
    LET m == message
        client == ClientIp(Peer(m), Line(m), m.trusted)
        out == ToSet(Forwarded(Heads(m), client, m.tls))
        back == ToSet(Stripped(m.answer))
    IN  /\ {h \in out : h.name \in Claims} =
                { [name |-> "x-forwarded-for", value |-> client],
                  [name |-> "x-forwarded-proto", value |-> IF m.tls THEN "https" ELSE "http"] }
        /\ \A h \in ToSet(m.headers) :
            h.name \notin Claims \cup {"host"} => (h \in out <=> ~ OfTheHop(m.headers, h))
        /\ \A h \in ToSet(m.answer) : h \in back <=> ~ OfTheHop(m.answer, h)
=============================================================================
