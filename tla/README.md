# RustGate in TLA+

RustGate is a reverse proxy with a web application firewall: it counts a
request, takes it through a block list, a rate limiter and a rule engine, and
forwards or refuses it. What is hard to test in it is concurrency: tasks that
read the clock before they take a lock, counters bumped outside locks, rules
that are replaced while requests run, a log written behind a bounded channel,
dashboards that follow a broadcast they may fall behind of, settings saved by
two commands at once.
This directory models those parts in TLA+, checks them with TLC and proves the
central properties with TLAPS.

    tlc -config MCBlockList.cfg MCBlockList      # any run of the table below
    tlapm BlockListProofs.tla                    # a proof module

Paths below are relative to the repository's root.

## Inventory

| Component | State | Operations | Hard behaviour | Correct when |
|---|---|---|---|---|
| Block list (`src/block.rs`, bounds in `src/api.rs`) | map address → end of ban, time of the last sweep | block, unblock, is_blocked, list | stale clock readings, lazy removal, sweep inside a lookup | nobody passes a ban, nobody is refused without one, clean-up drops no ban |
| Rate limiter (`src/limiter.rs`) | 16 shards of token buckets | check, tokens_left | stale clock readings, flood of addresses, truncation | memory bounded, no over-admission, whoever waits for the time of a token is served |
| Alert bus (`src/bus.rs`) | two atomic counters; history, last key and QPS window behind a mutex; broadcast channel | count_request, publish, stats, recent_alerts, subscribe | counters outside the mutex, send after the mutex | snapshots consistent, repeats merged rightly, every block accounted for |
| Request pipeline (`handle` in `src/main.rs`) | one future per request | the checks in order, forward, report | dropped futures, failing bodies | every request ends one way, counters agree with the outcomes |
| Audit channel and worker (`src/main.rs`) | bounded channel of 1024 lines, one worker | append, receive, write | back pressure, failing writes | every kept alert is logged or lost in a known way; nobody waits for ever |
| Audit log files (`src/main.rs`) | `audit.jsonl`, `.1` to `.5` | append, rotate | failing calls, restarts in the middle | order, retention, damage stays local |
| Rule hot reload (`src/main.rs`) | fingerprint of the last poll, shared engine and limiter | poll, reload, install | edits between any two steps, two locks | reloads are all or nothing, the last good text gets in force |
| Rule engine (`src/engine.rs`) | compiled rules, immutable | normalize, inspect | escapes at the edges, overlapping patterns | agrees with a direct reading of the rules, for any encoding of the request |
| Rules configuration (`src/config.rs`) | – | load | – | defaults |
| Body prefix and stream (`src/main.rs`) | frames read, rest of the stream | read_body_prefix, poll_frame | time-outs between frames, limit inside a frame | the backend gets exactly the bytes the client sent |
| Client address, trusted proxies (`src/main.rs`) | list of networks | client_ip | chains of proxies, mapped addresses | the address is the nearest untrusted one |
| Request boundaries, header forwarding (`src/main.rs`) | – | valid_request_boundaries, is_forwardable_header, strip_response_hop_by_hop | combinations of headers | one reading of the length, nothing of the hop crosses |
| Connection admission (`src/main.rs`) | semaphore of 1024 permits | accept, serve_conn | permit after accept, header time-out, no sockets left | bounded concurrency, permits come back, nobody starves |
| Settings, command line, start-up (`src/main.rs`) | settings file | load, merge, save, main | truncate and write, overlapping commands, precedence | a partial update keeps the rest, the effective value is the documented one |
| Management API, alert stream (`src/api.rs`) | a session per dashboard: position in the broadcast | REST calls, `/ws/alerts` | lag, back pressure, half-open connections | in order, once; dead sessions end |
| Web UI (`src/api.rs`), Flutter dashboard (`flutter_dashboard/lib`) | list of alerts, socket, fatalErr and the red box | fetch, connect, read, poll, ban and unban, save settings | history against stream, answers out of order, reconnects, wrong token | shows what it was offered, comes back or says why not |

Calls: `handle` calls block list, limiter, engine and bus, and sends audit lines
to the worker; the reload loop replaces engine and limiter under their locks;
the management API calls block list and bus and subscribes to broadcasts. Shared
state is behind `Mutex`/`RwLock` or atomic; the only messages are the audit
channel and the broadcast channel.

## Modules

| Module | Models | Extends / uses |
|---|---|---|
| `BanTable` | what the block list promises: the requests of operators and the end of each ban, no lock, no clean-up | |
| `BlockList` | `src/block.rs` with the bounds of `/api/block` | instance of `BanTable` |
| `BlockListProofs` | its theorems | `BlockList` |
| `AlertFeed` | what the bus promises its readers: history, merging, every kept alert broadcast once | |
| `AlertBus` | counters, history, broadcast and `stats` of `src/bus.rs` | instance of `AlertFeed` |
| `RateLimiter` | one shard of `src/limiter.rs` | |
| `RateLimiterProofs` | its theorems | `RateLimiter` |
| `HotReload` | first load, polling loop and installation in `src/main.rs` | |
| `RequestPipeline` | `handle`, `report_and_block`, audit channel and worker | `AlertBus` |
| `PipelineProofs` | theorems of `AlertBus` (part 1) and `RequestPipeline` (part 2) | `RequestPipeline` |
| `InspectEngine` | `src/engine.rs` as operators: normal form, groups, matches, score | |
| `Inspection` | one request through `read_body_prefix`, `check_rules` and `PrefixedBody` | `InspectEngine` |
| `InspectionProofs` | its theorems | `Inspection` |
| `AuditLog` | `append_audit_to` and `rotate_audit_in` on the file system | |
| `AuditLogProofs` | its theorems | `AuditLog` |
| `AlertStream` | one dashboard: `stream_alerts`, `auth_middleware`, and the Web UI's or Flutter's list of alerts | `AlertFeed` |
| `AlertStreamProofs` | its theorems | `AlertStream` |
| `Forwarding` | what is made of a request's head, as operators: `client_ip`, `valid_request_boundaries`, the headers of `forward` | |
| `Connections` | accept loop, permits, TLS, requests one after the other | `Forwarding` |
| `ConnectionsProofs` | its theorems | `Connections` |
| `Settings` | `rustgate --setting` and the start of `rustgate waf`, on the settings file | |
| `ConfigurationProofs` | theorems of `Settings` (part 1) and `HotReload` (part 2) | `Settings`, `HotReload` |
| `MC*` | model values and symmetry of the instances | the module they are named after |

How the steps are cut. A critical section is one step, because nothing it
touches is reachable without the mutex; what comes before it is a step of its
own. So `is_blocked` is `CallIsBlocked` (normalise, read the clock) and
`IsBlocked` (sweep, look up, remove), and other tasks act in between with later
clock readings. `publish` is `PublishAdd` (the counter), `PublishMerge` or
`PublishKeep` (the critical section) and `PublishSend`. In `stats` the two loads
are separate steps with the mutex held, since the counters are bumped without
it. The reload loop is cut at every read of the file and every lock, the audit
log at every call of the file system.

State and code. Variables carry the names of the fields (`map`, `last_cleanup`,
`total`, `alerts`, `last_dedup_key`, `buckets`, ...). `call`, `at`, `stage` and
`loop` say where a task is and what it captured. Variables declared as
"history" exist for the properties only: no action looks at them. Operators
introduced by a comment "Mutant of X" are slips that the properties are tested
against; no specification uses them.

Time is a number. In `BlockList` a unit is a second; in `RateLimiter` it is a
fraction `1/SECOND`, so that the refill cut off by `as u32` has fractions to
lose. `Instant` subtraction saturates at zero (`Since`, `SweepDue`).

Data abstracted away: address texts (a text stands for its canonical address or
for none), alerts (their dedup key and a number), rules (contents that compile
or not), records of the log (a text, part of a text, a line end). File sizes
are counted in records. The verdicts of the checks in `RequestPipeline` are
open: any request may be stopped by any check; `Inspection` models the last one.

`AlertStream` is about one session and one page. A receiver of tokio's broadcast
channel is only a position, so sessions do not influence each other, and one
stands for all; the bus is `AlertFeed`, which `AlertBus` is checked to implement.
`cursor`, `hand` and `sock` are the receiver, the frame `send` is awaiting, and
what lies in buffers up to the page. `token` has three values because a token
can be right and yet be refused (see below). `fatal` is the variable `fatalErr`, `box`
whether the red box shows while it is set: the code lets them differ. `answers` are
responses to `/api/alerts` on their way, in any order; `asked` is what the tokens of
the requests sent so far are worth, since an old one may still be answered. The alerts of an instance all carry
one second, the case in which the Web UI takes two of them for one. In
`Connections` every request of a behaviour looks the same and is chosen at the
start: what a head says and when connections are served do not influence each
other, but for the answer. Addresses have few bits; `CidrMatch` shifts modulo the
width, as a release build does. In `Settings` a text is a sequence of pieces, so
that a backslash, a line end and a cut value are there; `str::lines` is its
iterator, one line (`FirstLine`) and what is left of the text (`Behind`) at a time.
`Loads` and `Load` take seven lines of it, as `Settings::load` calls `next()`.
Operators of `HotReload` have names of their own (`ReloadInit`, `rules_file`, ...),
because `ConfigurationProofs` extends both.

In `Inspection` a byte is a number and a text a sequence of them, since its
properties are about escapes and overlaps; regular expressions stand for fixed
words, non-ASCII text (`from_utf8_lossy`) is left out, and a frame of trailers is
the empty frame. hyper reads one frame ahead of the handler (`incoming`). A tick
is a part of the time-out: `idle` counts from the last frame taken, as
tokio_stream's `Timeout` does, and `quiet` from the last frame sent.

## Runs

| Run | Instance | What it shows |
|---|---|---|
| `block_list` | 2 tasks, 2 addresses, an unparsable text; bans of 1 and 3 and the refused 0; sweep interval 2; clock to 4 | the three accuracy properties and the refinement of `BanTable` |
| `alert_bus` | 3 tasks, 2 keys, 1 reader, history of 2, 5 requests | consistent snapshots, accounting, the refinement of `AlertFeed` |
| `rate_limiter` | 5 addresses for 4 buckets, 2 tasks, quarter-second clock to 3, capacity 2, refill 3 per second | bound, eviction, no over-admission, no fraction of a token lost |
| `hot_reload` | 2 good texts, 1 bad, 3 edits or removals, 1 failing read, 1 request | all or nothing, order of the swaps, convergence |
| `request_pipeline` | 2 tasks, 4 requests, 2 keys, channel of 1 | counters against outcomes, audit trail, progress |
| `audit_log` | 2 rotated files of 2 records, 9 records, 3 failing calls or restarts | order, retention, extent of damage |
| `inspection` | 85 pairs of rules and request: 4 rule sets, requests (6 queries in every encoding, malformed escapes, repeated headers), 3 frames of 1, 2 and 4 bytes or trailers, limit 3 bytes, time-out 2 ticks | verdict and forwarding of the body, time-outs, decoding, score |
| `connections` | 4 connections, 2 permits, 3 sockets; 24 requests by origin (2 clients, one of them with a mapped address, no proxy or chains of 2 that are trusted, forged headers or none, 3 lists of networks), 2 with a forged line that is no visible text, 18 by headers (12 framings, `Connection` in one and two lines, one of them unreadable), one failing accept while sockets are left | permits and queues, progress, client address, lengths, headers |
| `alert_stream` | 2 alerts of 2 kinds, channel of 1, page of 2, 2 answers under way, socket of 1 frame, 1 fault, an outage with or without a restart of the process; Web UI and Flutter; 3 kinds of token | order, what a page shows, misses and replaces, recovery |
| `settings` | 2 operators, 3 commands out of 7 lines (complete, partial, escapes, refused), 4 environments, a write cut anywhere | partial updates, damage, precedence |
| `hot_reload_startup` | 1 edit | finding: an edit during the start-up is not loaded |
| `inspection_overlap` | as `inspection` | finding: overlapping literals are not added up |

Bounds. Two tasks inside `BlockList` are enough for one to hold an old clock
reading while the other changes the map, and for entries of both orders; the
clock spans a ban, its end, and two sweeps. `AlertBus` needs a task on either
side of a reader's critical section and a third to publish in between; a
history of two makes neighbours and evictions. `RateLimiter` reaches the hard
bound (5 addresses for 4 buckets) with clean-up due and not due; its three clock
units of a quarter second span the time of a token (4/3 of a unit, so that every check
in between finds a fraction), a full refill (8/3) and an expired idle time. Three
edits are one before, one during and one after a reload. A channel of one
line with two tasks makes a waiting sender; `AuditLog`'s nine records fill all
files and rotate past the oldest.

`Inspection`'s limit of three bytes falls at the end of a frame, inside one, and
is not reached; three frames are one before, at and behind the limit, two ticks
let a time-out be half over when a frame comes.

`AlertStream`: with a channel of one, two alerts are a lag; an answer of two fills the
page, and an alert that it held and the stream brings again pushes one off (Flutter);
two answers are an old and a new one, installed in either order; one frame in the
socket makes the second wait, with the session. One
fault may be a lost connection, an outage (at its end the process may be another
one, with an empty bus), a machine that vanishes or saved
settings. `Connections`: four connections for two permits and three sockets make
a queue and a failing accept, and one accept fails for another reason. The IPv6 addresses 4 to 7 of four bits are the IPv4
addresses of two bits; the lists have networks with a plain and with a mapped
base, a network of everything and three entries that are ignored. `Settings`:
three commands are a complete one and two that overlap behind it; two values
have a proper prefix that is a value too, so a cut can go unnoticed.

No deadlock is checked for: every instance stops when its counters or its clock
reach their bound, and the block list's and limiter's tasks may idle for ever.

Fairness. `HotReload!FairReload` is weakly fair for the loop's next step: it has
its own task on the runtime, its interval never ends, and file reads return.
`PipelineSpec` is weakly fair for each task's own steps and for the worker. A
task is scheduled by the runtime, a free mutex is given to a waiting task, the
channel's semaphore queues its waiters, and `WorkerWrite` ends because a write
to a file returns. `Inspection!Spec` is weakly fair for reading when the stream is ready, and for time.
Nothing is assumed of body reads, of the backend, of clients,
or of edits. `Connections!Spec` is weakly fair for the accept loop (an accept that ends, one way or
the other), its sleep, and giving a free permit to the task that waits longest (tokio's semaphore is fair);
that connections end is an environment's promise, so it is the antecedent of
`NobodyStarves` (`LetGo`). `AlertStream!Spec` is weakly fair for a session's steps, for the
page and the server seeing to the socket that is there, and for the Web UI's poll, which
is sent every two seconds until `fatalErr` is set; it is strongly fair for `Take` and `Lag`: `select!` starts with a
random branch and heartbeats are 30 seconds apart, so a waiting alert is not
passed over for ever. That requests are answered and that an outage ends is not
assumed; that a kernel gives up a peer which acknowledges nothing is. `ReportsEnd` therefore starts where a task no longer depends on
others, and `Converges` speaks of the time after the edits end.

## What the findings say

* `hot_reload_startup`: `hot_reload_loop` takes its first fingerprint itself
  (`src/main.rs:1202`), after `main` loaded the rules (`src/main.rs:891`). An
  edit in between becomes the reference; it is loaded only when the file changes
  again. So does an edit between the bytes and the metadata of that fingerprint, if it
  brings the same bytes back. `Converges` states what remains true: an edit at any other time gets in
  force, unless the load after it met a read error (which is not tried again).
* `inspection_overlap`: `find_iter` (`src/engine.rs:354`) reports matches that do
  not overlap, so of two literals of one group that share bytes of the text only
  one counts. `ScoreAddsUp` is what remains true: no group with a match is
  missed, and what is counted does match, once. The rules in `rules/rules.toml`
  are not written to overlap; the finding is about other configurations.

Named as an exception in a property that holds but for it:

* Both pages URL-encode the token for the socket (`src/api.rs:549`,
  `flutter_dashboard/lib/api.dart:68`), and `auth_middleware` compares it as it
  comes (`src/api.rs:110-119`). With a token that encoding changes (`+`, `/`,
  `=`, `%`) every REST call is answered and every socket gets 401: the Web UI
  tries again every three seconds, shows no error, and no new alert. The case is
  `token = "coded"` in `ClosedIsReopened`. Tokens from `openssl rand -hex`, as
  `README.md:178` suggests, are not affected.
* `fatalErr` and the red box come apart: `refreshStats` looks at `fatalErr` before it
  waits for the answer and not after (`src/api.rs:440`), and its success, like that of a
  ban or an unban, calls `showErr(null)` (`src/api.rs:450`, `525`, `538`), which hides
  the box and leaves `fatalErr` set. Polls, the timer of `src/api.rs:591` and
  `connectWs` stay stopped: after an outage the operator lifts a ban, and the page is
  silent until settings are saved or the page is loaded anew. The comments at
  `src/api.rs:417` and `440` have a box that is not covered up.
  The case is `Silenced` in `ClosedIsReopened`.
* `to_str` refuses a value with one byte that is no visible text, and the code takes
  such a line for none. In `X-Forwarded-For` (`src/main.rs:322`) the line includes what the
  proxies added, so a client's byte makes the last proxy the client (the last line of
  `ClientIsTheSender`). In `Connection` (`src/main.rs:1578`) the headers that the line
  names cross the gateway (`OfTheHop` in `OnlyOwnClaims` is about readable lines).
* A `--setting` that is cut (full disk, kill) or overlaps another one can leave a
  file that loads: a listen address or a list of proxies shortened to a prefix,
  or the certificate and key lines gone, which turns TLS off without an error.
  `NothingInvented` and `SettingIsKept` say what holds and until when, and
  `ServesWhatWasSet` what a gateway started on such a file uses: its environment, and
  whole values for backend, token and API address, or it does not start.
* A network whose base is an IPv4-mapped address and whose prefix is 1 to 96:
  the base becomes an IPv4 address, the prefix still counts the bits of an IPv6 one
  (`src/main.rs:278`), and a release build compares bits the network does not
  mention. `ClientIsTheSender` names it `Misread`. Beyond 96 (`::ffff:10.0.0.0/104`)
  `32 - prefix` (`src/main.rs:297`) wraps and the shift comes out right; a debug
  build panics there, and already from 33 on.
* `valid_request_boundaries` drops the values of `Transfer-Encoding` that `to_str`
  cannot read (`src/main.rs:366`) before it counts them, where its comment
  (`src/main.rs:344`) allows a single `chunked`; the proof of `OneReading` met it.
  `Framing` is what remains true: hyper answers 400 unless the last coding is
  chunked, so both read the body as chunked, no length stands beside it, and
  `forward` drops the header in any case.
* An alert that is kept after the history was read and broadcast before the
  session subscribed reaches no page; an answer that comes late replaces what
  the stream showed. `OfferedIsShown` names both.
* An audit line is serialised before `publish`, with count 1
  (`src/main.rs:1485`): `README.md:12` says the count is kept, the log has it not.
* A request whose body fails is in `total` and neither passed nor blocked
  (`src/main.rs:1323` says they add up); `CountersMatchOutcomes` has the rest.
* `writeln!` on a `File` makes two writes: when one fails, the next record is on
  the damaged line. `DamageIsLocal` says how far it goes.

Also met, without a run: a rules file saved again with the same text is reloaded
and empties the token buckets, because the fingerprint compares the modification
time too (`src/main.rs:1185`; the comment at 1169 says only changed text does);
a control byte in the query counts twice, once in the target and once in the
query (`src/engine.rs:96`; a test comment counts 5 points for it); the frames
read ahead may exceed 64 KB by what the last frame holds beyond the limit (the
comment at `src/main.rs:1713` has 64 KB); `tokens + add` (`src/limiter.rs:111`) wraps when a
refill reaches 2^32 (`WORD` models it; no usual configuration comes near);
`README.md:11` says the rules are polled every second, the loop waits five; with
a refill of 0 the time of a bucket never moves, so clean-up may drop a bucket in
constant use; the hard bound is applied also when the address has a bucket; only
the first `X-Forwarded-For` line is read (`src/main.rs:322`); after a refresh the
Web UI shows the oldest alert on top and new ones above it (`src/api.rs:463`),
Flutter the newest; the Web UI counts an alert twice when it was both answered
and streamed; connections are accepted without bound before they wait for a permit
(the comment at `src/main.rs:1028` says otherwise); neither the TLS handshake nor a
`send` to a dashboard has a time-out; an environment variable set to nothing
counts as set, so an empty token or backend starts (`src/main.rs:820`).

## Proofs

`BlockListProofs`, for all sets of tasks, addresses and texts, any spelling map
and any bounds that satisfy `BlockListAssumption`:

* `Inv == TypeOK /\ HonestTimes` is inductive (`ListInvariant`). `HonestTimes` is
  the strengthening: captured times and `last_cleanup` are not in the future, and
  every entry `map[ip]` is the end of a ban asked for at `since[ip]`, of a length
  the API admits. It is needed since the accuracy of an answer rests on the
  captured time being old, never new: an entry that is over at the captured time
  is over now.
* The properties of steps follow from `Inv` and a lemma per operation that says
  what it does to the map (`IsBlockedEffect`, `ListEffect`, ...): entries kept are
  unchanged, entries dropped are over at the captured time.
* `Refinement`: with `until[ip]` the end of a ban in force, and `request[t]` the ban or
  unban that task `t` has captured and not made, every step is a step of `BanTable` or
  changes none of its variables. Sweeps, lookups and listings are stutters because what
  they drop is not in force; `BanTable` ends a ban only by a request that was asked for,
  so dropping a live one would be no step of it.

`PipelineProofs`, part 1, the bus, for any finite set of tasks, any readers, keys, bounds:

* `CountInv == TypeOK /\ CountsCovered /\ StatsConsistent` is inductive.
  `StatsConsistent` alone is not: it needs that a request which can still bump
  `blocked` is paid for in `total`, and, for a reader between its two loads, in
  the `total` it has seen. The second part holds because a task can only get from
  `counting` to `counted` through the mutex the reader holds. The lemmas count
  the tasks in a phase before and after a step (`GotoCounts`).
* `Deduplicated` is inductive relative to `TypeOK`.
* `Refinement`: `pending`, the numbers of the tasks in `sending`, follows from the
  tasks. `SendersApart` (no two tasks send one number, and each is a kept one) is
  needed so that a send takes its own number from `pending` and no other;
  `Deduplicated` so that the remembered key says what the newest alert says.
* `BlocksAccounted`: `tally` is the history of publishes, the number of the alert
  each was counted in. `Accounted` adds to the property that every number in it is
  of an alert that was kept, so that the next one kept starts with a count of one, and
  that the history is the newest alerts, numbered one after the other.
  A merge counts in the newest alert (`OneMoreCounted`: one more there, as many as
  before elsewhere); an alert that leaves the history takes its count with it.

`PipelineProofs`, part 2, for any finite set of tasks and any capacity of the channel:

* `PipelineHasBus`: a step of the pipeline is a step of the bus or leaves it alone.
  So the theorems of part 1 hold of the pipeline as well, its invariants
  can be used here, and `PipelineFeeds` is a corollary.
* `TrailComplete`: a kept alert is a token in one of seven places. `Conserved` and
  `Issued` say, of any partition, that moving a token or adding the next keeps it
  one; there is a lemma per move (`TrailBroadcast`, `TrailAppend`, ...). The
  strengthening is `LinesApart`: if two tasks held one line, appending it once
  would leave it in two places.
* `CountersCorrect` rests on the trail: a line that is lost with its task was not
  lost before, so `lost` grows by one with each `DropReport`.

`ConnectionsProofs`, for any connections, permits, sockets and messages:

* `PermitsCorrect`: `PermitsConserved` is inductive with the types of the queues.
* `FramingCorrect`: `Checked` says that a request that is served was taken by hyper
  and one that is forwarded passed `valid_request_boundaries`; the argument is
  `CheckedHasOneReading`. Neither check is enough: an unreadable coding beside a
  length passes the second, a length beside chunked the first. It assumes that
  `Opaque` is no number and no coding (`ForwardingAssumption`), which is what
  `to_str` failing means.
* `SenderCorrect`, for any widths of addresses, lists of networks and chains of
  proxies. `NetworkReads` is about bits: powers of two and quotients, in the
  unsigned arithmetic of `cidr_match` and with shifts taken modulo the width.
  It says that a network is read as written, unless its base is mapped and its prefix
  leaves no bit of the IPv4 address; this exception is in the property
  (`Misread`), and the attempt to prove it without was how it was met. `Walk` goes
  back along the chain: `client_ip` stops at the last address outside the networks.
  `Unread` is the line that is no visible text, where it is the peer.
* `ClaimsCorrect`, for any headers: which headers cross, in either direction, as sets.
  `Without` is a `FlattenSeq`, of which the proof needs what it holds (`WithoutIs`); the
  tokens to drop are those of the `Connection` lines that are visible text (`TokensOf`).

`ConfigurationProofs`, part 1, for any pieces, command lines, environments and
operators, with `AddrText` idempotent (an address that was parsed and printed
parses to itself) and the five special pieces distinct:

* `EscapeComesBack`: `Unescape(Escape(s)) = s`. `Written` is what `Escape` has written
  after each piece, `Reading` what `Unescape` reads from each place on; going down
  from the end, the reading from where piece `k` was written gives the text from `k`.
* A content gives its values back (`ContentStands`, `ReadsBack`), also when the rest
  of a longer text stands behind it (`WrittenOver`). A beginning of one does not load,
  or its first three lines are whole (`CutLine`, `FragmentReads`): `load` wants
  something of the fourth line, and that is behind the end of the third.
* `SettingsInv` is inductive. It joins the two properties of the file with what they
  need: `Carried` (a command writes what its line gave, and a backend with a scheme),
  `Created` (who is about to write has truncated: the file is there), `Alone` (while
  `calm`, one command at most is under way, and it merged over what was given)
  and `WholeValues` (neither the file nor the merged settings of a command have a
  value nobody gave, since commands pass on what they read). `mixed` is the one hole:
  a write that is cut over another command's text leaves a beginning of the one
  followed by an end of the other, where nothing can be said of the lines.
* `SettingKept`, `ValuesWhole` and `MeantServed` follow. What a process that starts
  takes from the file is, by the state the file is in: what was given, or whole values of
  the first three fields, or anything; the history `waf.damage` says which.

Part 2, for any contents, edits and requests: `ReloadedTogether` is
inductive with `TypeOK`; `RulesNotOlderThanLimits` needs `LimitsNotAhead`: a
limiter that a request holds is not of a later reload than the shared engine,
which is there for the moment when the request clones the engine.

`RateLimiterProofs`, for any addresses, threads and limits:

* `CutoffFound`: the time `select_nth_unstable` yields exists in every finite
  table. The least time up to which `evict` buckets lie is the time of one of
  them (the natural numbers are well-founded). `Evicts` follows: at least a
  quarter goes, the rest is younger; it gives `Bounds` and `Eviction`.
* `Admission`: `NoOverAdmission` is inductive with the types (`RefillIsPaid`: the
  tokens added are paid for by the time `last` moves by). It holds for any word
  width, since a sum that wraps only loses tokens.
* `TokenServed`: `Paid` says that the time of a bucket is no later than the last
  moment its client was admitted: `last` moves only when the refill gives a token, and
  then the check takes one. So a refused check leaves the fraction to the next
  (`PaidKept`), and what has gone by since the last admission gives a token (`TokenTime`);
  a client without a bucket gets a full one.
  This one has a hypothesis on the constants, `SumsFit`: the sum of
  `src/limiter.rs:111` stays below the word within `MaxClock`. The checked instance
  satisfies it; at 20 tokens a second a bucket would have to be left alone for
  almost seven years not to. Without it the property is false, which is the hazard
  that `PROJECT.json` lists without a property.

`InspectionProofs`, for any rules, requests, frames, limit and time-out:
`StreamInv` is inductive. Besides `TypeOK`, `FramesConserved` and
`TimeoutMeansQuiet` it says that an end which was read ahead is the end
(`EndIsTheEnd`; without it the end of the kept frames could hide waiting ones)
and that, while no frame waits, the stream's clock is not ahead of the client's
silence (`IdleIsQuiet`; a frame taken late resets the one and not the other).
`CompleteIfEnded` follows. `MoveIn` and `MoveOut` are what the two ways of moving
a frame do to the concatenation.

`VerdictCorrect` rests on `SeenInv`. While it is read, the head is the bytes of the
frames read so far and below the limit; from then on it is full, or the whole of a
body that has ended, and in either case what the client sends later does not change
that it is the beginning (`ReadAhead`, `BeginsMore`); and nothing is forwarded before
the verdict (`Judged`), which is what makes the frames read so far all that was sent
when a frame is taken. The bytes of a sequence of frames are a recursive function
(`FlattenSeq`). What is needed of it is one step, `BytesOfMore`: that the function
exists and is determined follows by descent to a least position (`FlatExists`,
`FlatAgree`; the natural numbers are well-founded). The engine is opaque in this proof.

`ScoreCorrect` is about the engine, for any rules and any request. `FindIter` and
`Unescaped` are walks over a text, each place giving something and going on
further right; `WalkExists` and `WalkGives` say that such a function exists, is
determined, and gives only what its places give. So what the automaton reports occurs
(`FindIterIs`), and when a literal of a group occurs it reports one. Hits are the
regular expressions, the literals of the groups by their leaders, flattened
(`HitsAre`: none twice). `SummedIs` and `TotalIs` compare the fold over hits with
the sum over the set of rules: one rule more is its score more.

`EncodingCorrect`: `InspectionAssumption` says of a case that its query says
`plain` (`Says`: each byte written as it is or as an escape, `+` for a space). What is
decoded is `plain` (`SaidIsUnescaped`), and the query a rule sees is the end of the
target it sees: no escape reaches over the question mark, so the walk over the target
comes by the byte behind it and goes on as the walk over the query (`WalkComesBy`,
`QueryIsTheEnd`).

`AuditLogProofs`, for any number and size of files, any records, failing calls and
restarts. `AuditInv` has three parts, each resting on the one before:

* `OrderInv`: the record in hand is newer than any on disk until it is written
  (`RecordIsNew`), so an append keeps `RecordsInOrder`; a rename keeps it because it
  raises a file to a number that was free or is the last (`Rotated`).
* `KeepInv`: the oldest go first, since a rename never overwrites a file but the last
  (`Vacated`). That enough stays is counting: each number is taken by a full file
  (`RotatedAreFull`), unused, or the gap that a rotation under way has opened;
  unused numbers below a file come from restarts only (`HolesBounded`), and a
  rotation under way has its full file at 0. `TextsOf` and `Cardinality` replace a
  fold over the file for this.
* `LineInv`: a record that is done is followed by its line end, and the next text
  after a record that is done starts a line (`LinesApart`, `LastLine`).

`AlertStreamProofs`, for any sizes of history, channel, page and socket, any alerts
and faults: `StreamInv` is inductive. `StreamInOrder` needs that an alert is broadcast
once (`BroadcastOnce`; else it could be skipped at one position and due at another)
and that only an open session has frames under way and what it skipped lies behind
its receiver (`Behind`). `OfferedIsShown` follows from `Showing`: what the page has read,
and the answer once it is installed, is shown or among what is known to be lost,
after every step and not only when the page has caught up. `NothingYet` is what the
order in which the Flutter app asks for history and stream gives: until it connects it
shows nothing.

On recursion. The provers cannot instantiate the library's induction theorems, which
take an operator. What the proofs use instead is that a non-empty set of natural
numbers has a least one (`First`, from `NatLessThanWellFounded` and `WFMin`, about
sets and not operators): take the set of positions where the claim fails.

Every invariant and every action property of the runs is stated by a theorem, and so
are the refinements `ImplementsBanTable` and `ImplementsFeed`. Left to TLC:

* Liveness (`Converges`, `ReportsEnd`, `ReadingEnds`, `NobodyStarves`,
  `NewAlertsAppear`, ...): fairness and ENABLED are outside the prover.
* The two violations: `EverySaveIsLoaded` and `MatchedScoresBlock` are false.

## Not modelled

`PROJECT.json` lists every component with its status. Not modelled for good:
TOML and JSON syntax, terminal output, TLS and HTTP parsing and the backend's
connection pool (external), the dashboards' cards, charts, table of bans and
widgets, which only show an answer (what the ban panel does to the red box is in
`AlertStream`), and the tools around the program. Not modelled so far: the QPS window
of the bus, several `X-Forwarded-For` lines, and a Flutter app whose settings are saved
again before it has connected (`flutter_dashboard/lib/state.dart:35`: `_connect` runs
twice then, and the first subscription is never cancelled).

## Plan

1. QPS window of the bus.
2. A property for buckets whose refill is 0.
3. Several `X-Forwarded-For` lines: which one the code reads is not in the model.
4. Overlapping `reconnect` calls of the Flutter app.
