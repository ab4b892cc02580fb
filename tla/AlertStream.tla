----------------------------- MODULE AlertStream -----------------------------
(***************************************************************************)
(* One dashboard and what it is told about the alerts: the WebSocket       *)
(* session of src/api.rs that serves it, and its page, which is either the *)
(* Web UI embedded in src/api.rs or the Flutter app.  The page asks for    *)
(* the recent alerts and subscribes to the new ones by two requests, while *)
(* the bus (AlertFeed) goes on.                                            *)
(*                                                                         *)
(* Sessions share nothing but the broadcast channel, in which a receiver   *)
(* is only a position, so one dashboard stands for any number.  A page     *)
(* opens its next socket when the server is done with the old one: what an *)
(* old session still does reaches no page.  All alerts carry one second,   *)
(* so two of them look alike to the Web UI iff their keys agree.  Counts   *)
(* are left out, and with them the repeats, which the bus broadcasts to    *)
(* nobody.                                                                 *)
(***************************************************************************)
EXTENDS AlertFeed, FiniteSets, SequencesExt

CONSTANTS
    CHANNEL,     \* alerts the broadcast channel retains (512)
    RECENT,      \* alerts GET /api/alerts answers (100)
    PAGE,        \* alerts a page shows (200)
    SOCK,        \* frames that fit between server and client
    Fetches,     \* bound on answers that are under way to a page at once
    Tasks,       \* tasks that publish at once
    MaxKept,     \* bound on alerts
    MaxFaults    \* bound on outages, lost connections and saved settings

ASSUME AlertStreamAssumption ==
    /\ {MAX_ALERTS, CHANNEL, RECENT, PAGE, SOCK, Fetches, Tasks} \subseteq Nat \ {0}
    /\ RECENT <= PAGE
    /\ {MaxKept, MaxFaults} \subseteq Nat

VARIABLES
    made,        \* made[n]: what alert n says
    kind,        \* "web" or "flutter"
    token,       \* what the page sends as token: "plain" is the API's; so is
                 \* "coded", but URL encoding changes it; "wrong" is not
    link,        \* the page's socket: "none", "connecting", "up", "closed";
                 \* "dead" when the page's machine is gone without a word
    asked,       \* what the tokens are worth that the page has sent requests with:
                 \* any number of each may still be under way
    answers,     \* answers to GET /api/alerts on their way to the page, newest first
    shown,       \* the page's alerts from its top
    fatal,       \* fatalErr: the Web UI asks for nothing and opens no socket
    box,         \* the red box shows, and fatalErr is set: what it shows
                 \* besides, mistakes in the ban panel, stops nothing
    reachable,   \* the API can be reached
    session,     \* stream_alerts: "none", "upgrading", "open"
    cursor,      \* rx: position in feed of the next alert to receive
    hand,        \* the frame that is being sent
    sock,        \* frames sent and not read by the page
    broken,      \* the server's kernel gave the connection up
    faults,      \* how many faults there were
    since,       \* history: position in feed at which the session subscribed
    read,        \* history: numbers of the alerts read since then
    offered,     \* history: numbers in the answer that the page installed last
    skipped,     \* history: numbers the session skipped since then
    lost         \* history: numbers that were replaced on the page or cut off

bus == <<feedVars, made>>
page == <<link, asked, answers, shown, fatal, box>>
server == <<session, cursor, hand, sock, broken>>
world == <<kind, token, reachable, faults>>
history == <<since, read, offered, skipped, lost>>
vars == <<bus, page, server, world, history>>

Ping == 0
Nothing == -1

(* An alert as a page shows it; nos are the alerts an entry stands for.    *)
Entry(key, n) == [key |-> key, nos |-> {n}]
Numbers(list) == UNION {list[i].nos : i \in DOMAIN list}

Fault == faults < MaxFaults /\ faults' = faults + 1

-----------------------------------------------------------------------------
(* auth_middleware: a request carries the token as it is, a socket carries *)
(* it URL-encoded, and the server compares it as it comes.                 *)
RequestPasses == token \in {"plain", "coded"}
SocketPasses == token = "plain"

Init ==
    /\ FeedInit
    /\ made = <<>>
    /\ kind \in {"web", "flutter"}
    /\ token \in {"plain", "coded", "wrong"}
    /\ link = IF kind = "web" THEN "connecting" ELSE "none"
    /\ asked = {RequestPasses} /\ answers = {}
    /\ shown = <<>>
    /\ fatal = FALSE /\ box = FALSE
    /\ reachable = TRUE /\ broken = FALSE
    /\ session = "none"
    /\ cursor = 1 /\ since = 0
    /\ hand = Nothing /\ sock = <<>>
    /\ faults = 0
    /\ read = <<>> /\ offered = {} /\ skipped = {} /\ lost = {}

(* The bus. *)
NewAlert(key) ==
    /\ kept < MaxKept /\ Cardinality(pending) < Tasks
    /\ Keep(key)
    /\ made' = Append(made, key)
    /\ UNCHANGED <<page, server, world, history>>

Broadcast(n) ==
    /\ Send(n)
    /\ UNCHANGED <<made, page, server, world, history>>

-----------------------------------------------------------------------------
(* The server.  The page's socket is open before the session subscribes.   *)
Accept ==
    /\ link = "connecting" /\ reachable /\ session = "none"
    /\ SocketPasses
    /\ link' = "up"
    /\ session' = "upgrading"
    /\ UNCHANGED <<bus, asked, answers, shown, fatal, box, cursor, hand, sock, broken, world,
                   history>>

Subscribe ==
    /\ session = "upgrading"
    /\ session' = "open"
    /\ cursor' = Len(feed) + 1
    /\ since' = Len(feed)
    /\ read' = <<>> /\ skipped' = {}
    /\ UNCHANGED <<bus, page, hand, sock, broken, world, offered, lost>>

Polling == session = "open" /\ hand = Nothing

(* rx.recv: the next alert, if the channel still retains it; *)
Take ==
    /\ Polling
    /\ cursor \in DOMAIN feed
    /\ Len(feed) - cursor < CHANNEL
    /\ hand' = feed[cursor]
    /\ cursor' = cursor + 1
    /\ UNCHANGED <<bus, page, session, sock, broken, world, history>>

(* Mutant of Lag: on from the one after the oldest. *)
LagPastOldest ==
    /\ Polling
    /\ Len(feed) - cursor >= CHANNEL
    /\ cursor' = Len(feed) - CHANNEL + 2
    /\ skipped' = skipped \cup {feed[i] : i \in cursor..Len(feed) - CHANNEL}
    /\ UNCHANGED <<bus, page, session, hand, sock, broken, world, since, read, offered, lost>>

(* else the receiver is moved to the oldest one that is. *)
Lag ==
    /\ Polling
    /\ Len(feed) - cursor >= CHANNEL
    /\ cursor' = Len(feed) - CHANNEL + 1
    /\ skipped' = skipped \cup {feed[i] : i \in cursor..Len(feed) - CHANNEL}
    /\ UNCHANGED <<bus, page, session, hand, sock, broken, world, since, read, offered, lost>>

(* Mutant of Beat: a ping only while the page has something to read. *)
BeatWhileUnread ==
    /\ Polling
    /\ sock # <<>>
    /\ hand' = Ping
    /\ UNCHANGED <<bus, page, session, cursor, sock, broken, world, history>>

(* The heart beats every 30 seconds. *)
Beat ==
    /\ Polling
    /\ hand' = Ping
    /\ UNCHANGED <<bus, page, session, cursor, sock, broken, world, history>>

(* Mutant of Push: a frame that finds no room is dropped. *)
PushOrDrop ==
    /\ session = "open" /\ hand # Nothing
    /\ sock' = IF Len(sock) < SOCK THEN Append(sock, hand) ELSE sock
    /\ hand' = Nothing
    /\ UNCHANGED <<bus, page, session, cursor, broken, world, history>>

(* A frame waits for room in the socket; nothing else is polled meanwhile. *)
Push ==
    /\ session = "open" /\ hand # Nothing
    /\ Len(sock) < SOCK
    /\ sock' = Append(sock, hand)
    /\ hand' = Nothing
    /\ UNCHANGED <<bus, page, session, cursor, broken, world, history>>

(* With the session its receiver goes, and what is known of it. *)
Closed ==
    /\ session' = "none"
    /\ cursor' = 1 /\ hand' = Nothing /\ sock' = <<>> /\ broken' = FALSE
    /\ since' = 0 /\ read' = <<>> /\ skipped' = {}

(* The peer closed, or a send or receive meets a broken connection. *)
End ==
    /\ session = "open"
    /\ broken \/ link \notin {"up", "dead"}
    /\ Closed
    /\ UNCHANGED <<bus, page, world, offered, lost>>

(* What a peer that is gone never acknowledges makes the kernel give up. *)
KernelGivesUp ==
    /\ link = "dead" /\ session = "open" /\ sock # <<>>
    /\ broken' = TRUE
    /\ UNCHANGED <<bus, page, session, cursor, hand, sock, world, history>>

-----------------------------------------------------------------------------
(* The page.  GET /api/alerts reads the history at one instant, newest     *)
(* first.  The Web UI asks when it starts, when settings are saved and     *)
(* whenever the operator refreshes it, and waits for no answer before it   *)
(* asks again; the Flutter app asks once, before it connects.              *)
Answer ==
    /\ reachable /\ TRUE \in asked /\ link # "dead"
    /\ IF kind = "web" THEN Cardinality(answers) < Fetches ELSE link = "none" /\ answers = {}
    /\ answers' = answers \cup
           { LET newest == Reverse(alerts)
             IN  SubSeq([i \in DOMAIN newest |-> Entry(newest[i].key, newest[i].no)], 1,
                        IF Len(newest) < RECENT THEN Len(newest) ELSE RECENT) }
    /\ UNCHANGED <<bus, link, asked, shown, fatal, box, server, world, history>>

(* The Web UI replaces its list by the answer turned round, whatever came  *)
(* since it asked; the Flutter app adds the answer and connects.           *)
Install(list) ==
    /\ link # "dead"
    /\ IF kind = "web"
       THEN /\ shown' = Reverse(list)
            /\ lost' = lost \cup (Numbers(shown) \ Numbers(list))
            /\ UNCHANGED link
       ELSE /\ link = "none" /\ link' = "connecting"
            /\ shown' = shown \o list
            /\ UNCHANGED lost
    /\ answers' = answers \ {list}
    /\ offered' = Numbers(list)
    /\ UNCHANGED <<bus, asked, fatal, box, server, world, since, read, skipped>>

(* The Flutter app goes on without the history. *)
FetchFails ==
    /\ kind = "flutter" /\ link = "none"
    /\ ~ reachable \/ ~ RequestPasses
    /\ link' = "connecting"
    /\ answers' = {}
    /\ UNCHANGED <<bus, asked, shown, fatal, box, server, world, history>>

-----------------------------------------------------------------------------
(* The red box of the Web UI.  Requests look at fatalErr before they are   *)
(* sent and not when they are over.  A poll that fails sets it and shows   *)
(* the box, and so does a 401 to any request, new or old;                  *)
ShowFatal ==
    /\ kind = "web" /\ link # "dead"
    /\ ~ reachable \/ FALSE \in asked
    /\ fatal' = TRUE /\ box' = TRUE
    /\ UNCHANGED <<bus, link, asked, answers, shown, server, world, history>>

(* a poll, a ban or an unban that succeeds hides the box, and that is all; *)
ShowNothing ==
    /\ fatal /\ link # "dead"
    /\ reachable /\ TRUE \in asked
    /\ box' = FALSE
    /\ UNCHANGED <<bus, link, asked, answers, shown, fatal, server, world, history>>

(* a ban or an unban that does not shows the box and sets nothing.         *)
ShowMistake ==
    /\ fatal /\ link # "dead"
    /\ box' = TRUE
    /\ UNCHANGED <<bus, link, asked, answers, shown, fatal, server, world, history>>

(* refreshStats, which asks every two seconds until fatalErr is set. *)
PollFails ==
    /\ ~ fatal /\ (~ reachable \/ ~ RequestPasses)
    /\ ShowFatal

(* connectWs: the Web UI's timer opens a closed socket again, unless       *)
(* fatalErr is set.                                                        *)
Connect ==
    /\ kind = "web" /\ link = "closed" /\ ~ fatal
    /\ link' = "connecting"
    /\ UNCHANGED <<bus, asked, answers, shown, fatal, box, server, world, history>>

(* Mutant of ConnectFails: the socket counts as never opened. *)
ConnectFailsForGood ==
    /\ link = "connecting"
    /\ ~ reachable \/ ~ SocketPasses
    /\ link' = "none"
    /\ UNCHANGED <<bus, asked, answers, shown, fatal, box, server, world, history>>

(* Out of reach, or 401; the page cannot tell these apart. *)
ConnectFails ==
    /\ link = "connecting"
    /\ ~ reachable \/ ~ SocketPasses
    /\ link' = "closed"
    /\ UNCHANGED <<bus, asked, answers, shown, fatal, box, server, world, history>>

(* Mutant of OnTop: a full page takes nothing new. *)
OnTopIfRoom(entry) ==
    /\ shown' = IF Len(shown) < PAGE THEN <<entry>> \o shown ELSE shown
    /\ UNCHANGED lost

(* A new entry goes on top, and the last one off a full page. *)
OnTop(entry) ==
    LET list == <<entry>> \o shown
        cut == Len(list) > PAGE
    IN  /\ shown' = IF cut THEN Front(list) ELSE list
        /\ lost' = IF cut THEN lost \cup Last(list).nos ELSE lost

(* The Web UI counts an alert in the first entry that looks like it. *)
CountIn(i, n) ==
    /\ shown' = [shown EXCEPT ![i].nos = @ \cup {n}]
    /\ UNCHANGED lost

OnMessage(n) ==
    LET alike == {i \in DOMAIN shown : shown[i].key = made[n]}
    IN  IF kind = "web" /\ alike # {}
        THEN CountIn(Min(alike), n)
        ELSE OnTop(Entry(made[n], n))

Read ==
    /\ link = "up" /\ sock # <<>>
    /\ sock' = Tail(sock)
    /\ IF Head(sock) = Ping
       THEN UNCHANGED <<shown, lost, read>>
       ELSE /\ OnMessage(Head(sock))
            /\ read' = Append(read, Head(sock))
    /\ UNCHANGED <<bus, link, asked, answers, fatal, box, session, cursor, hand, broken, world,
                   since, offered, skipped>>

(* The operator saves settings, the token among them: the page starts      *)
(* again.  Requests of the Web UI go on; those of the Flutter app are over *)
(* (the bound: its settings are not saved again before it has connected).  *)
SaveSettings ==
    /\ Fault
    /\ link # "dead" /\ (kind = "flutter" => link # "none")
    /\ token' \in {"plain", "coded", "wrong"}
    /\ asked' = (IF kind = "web" THEN asked ELSE {}) \cup {RequestPasses'}
    /\ shown' = <<>> /\ offered' = {} /\ lost' = {}
    /\ fatal' = FALSE /\ box' = FALSE
    /\ link' = IF kind = "web" THEN "connecting" ELSE "none"
    /\ UNCHANGED <<bus, answers, server, kind, reachable, since, read, skipped>>

-----------------------------------------------------------------------------
(* The network. *)
Disconnect ==
    /\ Fault
    /\ link = "up"
    /\ link' = "closed"
    /\ UNCHANGED <<bus, asked, answers, shown, fatal, box, server, kind, token, reachable, history>>

Outage ==
    /\ Fault
    /\ reachable
    /\ reachable' = FALSE
    /\ link' = IF link = "up" THEN "closed" ELSE link
    /\ UNCHANGED <<bus, asked, answers, shown, fatal, box, server, kind, token, history>>

Recover ==
    /\ ~ reachable
    /\ reachable' = TRUE
    /\ UNCHANGED <<bus, page, server, kind, token, faults, history>>

(* The outage was that the process stopped; it starts with an empty bus.    *)
Restart ==
    /\ ~ reachable
    /\ reachable' = TRUE
    /\ alerts' = <<>> /\ pending' = {}
    /\ Closed
    /\ UNCHANGED <<kept, feed, made, page, kind, token, faults, offered, lost>>

(* The page's machine is gone, and what the page showed with it. *)
Vanish ==
    /\ Fault
    /\ link = "up"
    /\ link' = "dead"
    /\ answers' = {} /\ shown' = <<>> /\ offered' = {} /\ lost' = {}
    /\ UNCHANGED <<bus, asked, fatal, box, server, kind, token, reachable, since, read, skipped>>

Next ==
    \/ \E key \in Keys : NewAlert(key)
    \/ \E n \in pending : Broadcast(n)
    \/ Accept \/ Subscribe \/ Take \/ Lag \/ Beat \/ Push \/ End \/ KernelGivesUp
    \/ \E list \in answers : Install(list)
    \/ Answer \/ FetchFails \/ Connect \/ ConnectFails \/ Read
    \/ ShowFatal \/ ShowNothing \/ ShowMistake \/ SaveSettings
    \/ Disconnect \/ Outage \/ Recover \/ Restart \/ Vanish

(***************************************************************************)
(* Tasks that publish run, and so does a session: select! picks at random  *)
(* among the ready branches, and 30 seconds lie between two beats, so an   *)
(* alert that waits is taken although beats come in between.  The page and *)
(* the server see to the socket that is there, and the page polls; a       *)
(* kernel gives up a peer that acknowledges nothing.  Nobody owes an       *)
(* outage its end or a request its answer.                                 *)
(***************************************************************************)
Fairness ==
    /\ WF_vars(\E n \in pending : Broadcast(n))
    /\ WF_vars(Subscribe \/ Beat \/ Push \/ End) /\ SF_vars(Take \/ Lag)
    /\ WF_vars(KernelGivesUp)
    /\ WF_vars(Accept \/ Connect \/ Read) /\ WF_vars(PollFails)

Spec == Init /\ [][Next]_vars /\ Fairness

-----------------------------------------------------------------------------
Entries == [key : Keys, nos : SUBSET Nat]

BusTypes ==
    /\ alerts \in Seq([key : Keys, count : Nat, no : Nat])
    /\ kept \in 0..MaxKept
    /\ feed \in Seq(Nat) /\ pending \cup ToSet(feed) \subseteq 1..kept
    /\ made \in Seq(Keys) /\ Len(made) = kept

PageTypes ==
    /\ link \in {"none", "connecting", "up", "closed", "dead"}
    /\ asked \subseteq BOOLEAN
    /\ \A list \in answers : list \in Seq(Entries) /\ Len(list) <= RECENT
    /\ shown \in Seq(Entries) /\ Len(shown) <= PAGE
    /\ {fatal, box} \subseteq BOOLEAN
    /\ {offered, lost} \subseteq SUBSET Nat

ServerTypes ==
    /\ session \in {"none", "upgrading", "open"}
    /\ {since, cursor} \subseteq Nat /\ since < cursor /\ cursor <= Len(feed) + 1
    /\ sock \in Seq(Int) /\ Len(sock) <= SOCK /\ ToSet(sock) \subseteq {Ping} \cup 1..kept
    /\ hand \in {Nothing, Ping} \cup 1..kept
    /\ broken \in BOOLEAN
    /\ read \in Seq(Nat) /\ skipped \subseteq Nat

WorldTypes ==
    /\ kind \in {"web", "flutter"}
    /\ token \in {"plain", "coded", "wrong"}
    /\ reachable \in BOOLEAN
    /\ faults \in 0..MaxFaults

TypeOK == BusTypes /\ PageTypes /\ ServerTypes /\ WorldTypes

(***************************************************************************)
(* However slow the page is (api.rs:272), its session passes on what was   *)
(* broadcast since it subscribed, in that order, each alert once, and      *)
(* leaves out only what the channel no longer held for it.                 *)
(***************************************************************************)
PassedOn == read \o Append(sock, hand)

AlertsAt == {i \in DOMAIN PassedOn : PassedOn[i] \notin {Nothing, Ping}}

Due == {k \in since + 1..cursor - 1 : feed[k] \notin skipped}

StreamInOrder ==
    session = "open" =>
        /\ {PassedOn[i] : i \in AlertsAt} = {feed[k] : k \in Due}
        /\ \A i, j \in AlertsAt : i < j =>
               \E k, l \in Due : k < l /\ PassedOn[i] = feed[k] /\ PassedOn[j] = feed[l]

(***************************************************************************)
(* When a page has caught up, it shows every alert that its answer held or *)
(* that was broadcast since its session subscribed, but for those that the *)
(* channel dropped, that the answer replaced when it came late, or that    *)
(* left a full page (api.rs:456, 545; state.dart:62).  What a page misses  *)
(* besides are the alerts kept after its answer was read and broadcast     *)
(* before its session subscribed.                                          *)
(***************************************************************************)
CaughtUp ==
    /\ link = "up" /\ session = "open"
    /\ hand = Nothing /\ sock = <<>> /\ cursor = Len(feed) + 1

OfferedIsShown ==
    CaughtUp => offered \cup {feed[i] : i \in since + 1..Len(feed)}
                    \subseteq Numbers(shown) \cup skipped \cup lost

(***************************************************************************)
(* An alert that is kept while the page is connected gets to the page, or  *)
(* is lost to lag, or the connection is (api.rs:283).                      *)
(***************************************************************************)
Connected == link = "up" /\ session = "open"

NewAlertsAppear ==
    \A n \in 1..MaxKept :
        n \in pending /\ Connected ~> n \in Numbers(shown) \cup skipped \cup lost \/ ~ Connected

(***************************************************************************)
(* The session of a page whose machine is gone without closing anything    *)
(* ends: the heartbeat finds it even if no alert ever comes (api.rs:269).  *)
(***************************************************************************)
DeadSessionsEnd == link = "dead" /\ session = "open" ~> session = "none"

(***************************************************************************)
(* A Web UI whose socket closed opens it again by itself, or shows the red *)
(* box until the operator acts (api.rs:591), whatever failed.  Two cases   *)
(* are excepted, because the code fails them.  The token is right, but     *)
(* encoding changes it: every request is answered, every socket is refused *)
(* (api.rs:114), and the page tries again for ever in silence.  Or the     *)
(* page is silenced: fatalErr stops polls and timer, but the success of an *)
(* older poll or of a ban has hidden the box (api.rs:450, 525, 538).       *)
(***************************************************************************)
Told == fatal /\ box
Silenced == fatal /\ ~ box

ClosedIsReopened ==
    kind = "web" /\ link = "closed"
        ~> link \in {"up", "dead"} \/ Told \/ Silenced \/ token = "coded"
=============================================================================
