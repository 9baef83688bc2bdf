# TLA+ specifications of my-socks-server

my-socks-server is a SOCKS5 proxy (CONNECT with username/password only) in Rust
on Tokio. These modules model its concurrent core, its protocol down to the bytes,
and its decision functions. TLC checks them on small instances, and TLAPS proves,
for every size, input and timeout, every invariant and action property that a passing run
checks and the safety part of every refinement; liveness is left to TLC. Paths below are relative to the crate
(`src/` of the repository).

## The system

| part | state | operations | talks to |
|---|---|---|---|
| main task, `server/socks_server.rs`, `main.rs` | listener, semaphore `connection_permits`, tokens `force_close`, `stop_background` | accept loop, `admit`, `drain`, join, runtime shutdown | everything |
| connection task, `server/connection.rs`, `handshake.rs`, `connector.rs` | client and target socket, permit, report | handshake, resolve and dial, reply, relay, release | ban list, policy, users, relay |
| relay, `relay/` | two buffers, counters, the activity clock | read, write, half-close, idle timeout | the two peers |
| ban list, `policy/ban_list*.rs` | table of failures and bans behind a mutex | `is_banned`, `record_failure`, `purge`, `stats` | accept loop, tasks, background |
| policy, `policy/` | none (settings) | classify an address, match a network, judge a destination | `admit`, connector |
| background, `server/background.rs` | tickers | stats line, purge | ban list, semaphore |
| codec and client, `socks/` | none | read and encode messages, `client_handshake` | handshake |
| users, `auth/` | none (settings) | `verify` | handshake |
| stats and throttle, `server/server_stats.rs`, `log_throttle.rs` | atomic counters | count, allow | all tasks |
| configuration, `config/`; limits, `limits/` | none after start | parse and validate; system calls | start-up |

What is hard here, and hard to test: the drain takes permits out of the same
semaphore that connections give them back to, with two timeouts of its own;
a task may be dropped at any `await`; the ban list reads the clock before it
takes its lock; two pumps share one idle deadline and each renews the other's;
every phase of a connection has a timeout, some nested; lookups and stats lines
share the blocking threads, and a lookup keeps its thread when its timeout is over;
client and server take turns on a stream that cuts messages anywhere; the policy
and the codec are made of masks, lengths and boundaries. PROJECT.json lists these
hazards with the properties that watch them.

## Modules

| module | models | checked by |
|---|---|---|
| `Server` | life of the server: accept, admit, connection tasks, drain, exit | `MCServer` |
| `ConnectionPool` | what `max_connections` and `shutdown_grace_sec` promise, abstractly | refined by `Server` |
| `ServerProofs` | proofs about `Server` | TLAPS |
| `Connection` | one connection task in detail, with timers | `MCConnection` |
| `ConnectionInServer` | what `Server` sees of that task | `MCConnection` |
| `ConnectionProofs` | proofs about both | TLAPS |
| `Relay` | one relay: two pumps and the idle clock | `MCRelay` |
| `Tunnel` | what a relay is to its peers: two streams, abstractly | refined by `Relay` |
| `RelayProofs` | proofs about `Relay` | TLAPS |
| `Dialogue` | a client and the connection task, byte by byte over TCP | `MCDialogue` |
| `DialogueProofs` | proofs about `Dialogue` | TLAPS |
| `BanList` | the ban table and its callers | `MCBanList` |
| `BanListProofs` | proofs about `BanList` | TLAPS |
| `Policy`, `PolicyText` | decisions and parsers of `policy/` | `MCPolicy`, in `MCFunctions` |
| `UserStore`, `Settings` | `auth/user_store.rs`, validation in `config/server_config.rs` | `MCSettings`, in `MCFunctions` |
| `Wire`, `WireMessages` | readers and encoders of `socks/`; all that its messages can hold | `MCWire`, in `MCFunctions`; `MCDialogue` |
| `PolicyProofs` | proofs about `Policy` and `PolicyText` | TLAPS |
| `HandshakeProofs` | lemmas about `Wire` and `UserStore` that two modules use | TLAPS |
| `FunctionProofs` | proofs about `Wire`, `UserStore` and `Settings` | TLAPS |

How they fit together: `Server` sees a connection task as a few phases with
sockets, a permit and a free choice of outcomes. `Connection` refines that task:
`ImplementsTask` in `ConnectionInServer` instantiates `Server` for a single connection and
says that each of its steps is a step of `Server!ConnectionTask` or invisible
there. `Dialogue` runs the handshake of that task against a client, with `Wire`
and `UserStore` in place of `Connection`'s free choice of what is read.
`Relay` details the phase "relaying" and implements `Tunnel`. `BanList` details the
verdict "banned" of `admit` and the failures that `authenticate` records, and `Policy`
the set `Permitted` and the function `Canonical` that `Connection` takes as parameters.
`Settings` shows what of a settings file reaches them: what it accepts satisfies
the assumptions on constants that the proofs start from.
`Server` itself implements `ConnectionPool`.

Operators introduced by a comment "Mutant:" are not part of the model; each is
a plausible mistake in the definition after it, used to make sure that some
property would notice.

### Server

`main` is the program counter of `SocksServer::run`. The semaphore is external
code (Tokio): `available` is `available_permits()`, `assigned` what a queued
`acquire_many` has been given so far. The queue is fair, so a released permit
goes to the waiter first, and dropping the future returns what it had. A timeout
is an action that may happen while the future it bounds is not ready. A
connection's task holds its permit until "closed"; in "ending" its sockets are
dropped, and in "logging" its bytes are in the totals (`counted`). Blocking
threads are external too: `busy` are the jobs that have one, `queue` those that
wait, first come first served. A lookup, the reporter's line and the last line of
`run` are jobs; a lookup stays a job when its task has gone on or ended. What `runtime.shutdown_timeout`
drops is "aborted".

### Connection

The steps are the awaits of `run_connection` and of what it calls. Reads deliver
what the readers of `socks/` distinguish; writes complete, fail or wait. Two
timers count down, the one around the phase and the one in `send_reply`, and
time does not pass a timer that has run out. A partly written answer counts as
not sent. The relay is one step here. `lookup` is set while `getaddrinfo` runs,
which a timeout does not end.

### Dialogue

Streams are sequences of bytes of which some have arrived. Each read of the code is
a function of what has arrived (`Wire`): it waits, or it decides and says how many
bytes it has taken. The client is `client_handshake`, or one that sends all its
messages and data at once. A socket that is closed with input unread resets the
connection, and what the reset overtakes is lost, as TCP does it. The ban list has
no part here; dialling is a free choice among the codes of `ConnectError::reply_code`.
The refusals that `send_reply` sends are a few bytes into an empty send buffer and do
not time out here; the timeout of the good reply is a step, since the task then ends
otherwise.

### Relay

A step is one poll, from the await it resumes to the next one. Time is relative
(`timer`, `idleFor`), so runs are not cut off. `touch` stores whole milliseconds
while `idle_for` compares with the exact clock, so a relay may end up to one
millisecond early: `IdleOnTime` allows exactly that. `Slack` is the delay
with which a due timer is served. A TCP shutdown does not wait in practice, but
the code bounds it, and so does the model.

### BanList

Each call is two steps, the clock and the locked section. The order of the deque
of failures is never used, so it is a set. The map is total, with `tracked` its
key set and default entries elsewhere. `bans` and `since` are history for the
properties. An IPv6 address has an upper half `net` and a lower half `host`.

### Policy, PolicyText, UserStore, Settings, Wire

Pure functions. Addresses are sequences of octets or segments as the code reads
them, and masks act on them unit by unit. The lines of a whitelist are sequences
of tokens: the code splits at separators and leaves single numbers and addresses to
std. Messages are bytes, credentials 256-byte blocks. A settings record has an
optional value per key. `MCFunctions` has no behaviour: a state is a question, and
the answers are compared with the documented tables, with a definition that takes
another way, or with the inverse function.

## What TLC checks

| run | instance | shows |
|---|---|---|
| `server_safety` | 4 clients, 2 permits, 1 blocking thread | `PermitConservation`, `DescriptorsBounded`, `DrainedMeansClosed`, `LastLineComplete`, `ActiveConnectionsExact`, `LimitRejectsOnlyWhenFull` |
| `server_liveness` | 2 clients, 1 permit, 1 blocking thread, fair | `ShutdownCompletes`, `PermitsComeBack`, refinement `ImplementsPool` |
| `ban_safety` | 4 attempts, table of 1, 2 failures ban | `TableBounded`, `BanHolds`, `BannedStayOut`, `GuessesBounded`, `RejectionJustified` |
| `ban_disabled` | `ban_max_failures` 0, both background tasks | `RejectionJustified`: nobody is turned away |
| `relay` | 2 bytes each way, buffer of 2, idle 2 ms of 2 ticks, fair | `IdleOnTime`, `BlameIsRight`, `RelayEnds`, refinement `ImplementsTunnel` |
| `connection` | 5 addresses, lookups of up to 3, 2 attempts, timeouts of 2, fair | `ServiceNeedsLogin`, `ConversationLegal`, `OnlyPermittedDialled`, `RefusalExplained`, `PreRelayBounded`, `ImplementsTask`, `LeavesEveryPhase` |
| `dialogue` | 45 clients, 1 user, segments of any length, fair | `OutcomesAgree`, `DataBeginsWhereTheHandshakeEnds`, `RefusalIsHeard`, `DialogueEnds` |
| `functions` | 188599 questions | policy: `ClassMatchesNetworks`, `PrefixDecides`, `CheckMatchesTable`, `LineOpensWhatItSays`; users and settings: `LoginNeedsListedPair`, `ValidationIsExact`; codec: `MessagesSurvive`, `ReadsDecideOnce` |

`relay` and `connection` also check `TypeOK`; that of `Server` and `BanList` is only proved.

Bounds. In `Server`, more clients than permits make the limit bite and permits be
reused; connections are interchangeable, so the safety run uses symmetry. One
blocking thread is the fewest that make jobs wait for each other. In
`BanList`, three attempts come from two addresses of one /64 and one from an IPv4
client, so a table of one entry is full; that the two spellings of an IPv4 address
are one client is left to the theorems, which hold for all addresses. Four ticks are
enough for a window and a ban of two to begin and to expire, and `MaxDelay` 1 lets
two callers enter the lock in the wrong order. The monotonic clock stops at
`MaxTime`, so that run may stop. In `Relay`, two bytes make short reads and short
writes possible, and two ticks per millisecond the truncation. In `Connection`,
three permitted addresses exceed the two attempts, one has a second spelling and
one is denied; the bound `MaxElapsed` lies beyond what the timers let pass. In
`Dialogue`, clients are right or wrong in each message and one has a field that
cannot be encoded; both sides' first data looks like a message. A connect gives
success, a refusal or a general failure; the last is also the answer to a domain that
is no name, and the two must be told apart. The questions of
`functions` take every length, mask, number and address class on both sides of its
limits, pairs of settings, and all sequences of up to six bytes out of five.

Fairness. `Server`: the main and background tasks are scheduled and their timers
fire, and a connection leaves every point that a timeout bounds, which `Connection`
justifies from its timers alone (`LeavesEveryPhase`). A background task in its
`select!` is told to stop sooner or later although ticks go on (strong fairness: the
branches are polled in random order). A lookup ends some day: the system resolver
has timeouts of its own, as the repository's README says. Without that the last
stats line could wait behind lookups for ever, since `shutdown_timeout` in `main.rs`
begins only after `run` has returned. No fairness is assumed of clients, of a
signal, or of a relay's end. `Dialogue`: both programs run and what is written
arrives; no timeout is bound to fire, so `DialogueEnds` means that the two never
need one to get apart. `Relay`: time passes, and a pump whose
future is ready is polled; peers owe nothing, not even to read. `Connection`: time
passes, timers fire, and an ended task is scheduled.

### Where the code and its comments differ

Four runs are expected to find a violation, each of a sentence in the repository:

- `server_stats_line`: while `drain` waits, `active_connections` in the stats line
  is `max_connections`, since the waiter holds all free permits
  (`server_state.rs:44`). The lines that `drain` logs itself are right
  (`ActiveConnectionsExact`).
- `ban_stats_line`: `tracked` also counts entries that have run out and wait for
  the purge (`ban_list.rs:24`).
- `relay_completed`: `Completed` does not mean that each half-close was forwarded,
  since a failed `shutdown` is ignored (`bidirectional.rs:26`).
- `connection_answer`: a client that breaks the protocol is closed without an
  answer (`handshake.rs:28`).

None of them affects what is served.

## What is proved

For every finite set of connections, every `max_connections >= 1` and any number
of blocking threads (`ServerAssumption`), `ServerProofs` proves `PermitsConserved`, `SocketsBounded`,
`DrainIsComplete`, `LastLineIsComplete`, `ActiveConnectionsCorrect`, `LimitIsExact` and, against
`ConnectionPool`, that each step of `Server` is a step of the pool or a stutter
(`ServerImplementsPool`). The argument is one inductive invariant `IInv`: permit
conservation alone is not inductive, since a drain could give back more than it
has; `IInv` adds that `assigned` is zero outside the two waits, that nothing is
available during them (so a permit that comes back goes to the waiter), that sockets
belong to tasks that hold permits, and that nobody holds one after a drain that
reported success or once the process is gone. Steps that move a permit
change the cardinality of `Holders` by one, which the lemmas on finite sets
establish once. `LastLineIsComplete` needs a second invariant, `CountInv`: who is
past "ending" has been counted, and tasks are dropped only after a drain that failed.

For every setting that `ServerConfig::from_settings` admits, any finite set of attempts and any
bounded delay between clock and lock (`BanAssumption`), `BanListProofs` proves
`TableIsBounded`, `BansHold`, `BannedClientsStayOut`, `GuessingIsBounded` and
`RejectionsAreJustified`. Its invariant is stated per key (`Sound`) and relates the
entry to the history: a ban in force has an entry with that very ban, every
recent counted failure is still in the entry, a rejected client has a ban with its
evidence, and no moment in the table lies ahead of the clock. The
last part is what makes an update with an older moment harmless: a saturating
difference never makes a failure or a ban look older than it is.

For every idle timeout of at least a millisecond, every resolution of the clock,
delay of a timer, size of the buffer and number of bytes (`RelayAssumption`),
`RelayProofs` proves `TypesHold`, `IdleHolds`, `BlameHolds` and `RelayRefinement`: the
relay implements `Tunnel`. Its invariant has two parts of substance. `Flow`: what a peer
has sent is, in order, what has been written to the other, what the pump holds and
what it has not read, and the counter is the length of the first. `Timing`: the
clock runs ahead of the true idle time by less than a millisecond, and the timer of a pump
that reads or writes is due no later than the clock says; this is what keeps a
deadline that one pump renews for the other from drifting.

For every set of addresses, every canonical form and policy on them, every list that a
lookup returns and all timeouts (`ConnectionAssumption`; its `"none" \notin Address`
keeps the marker for "no address yet" apart from the addresses), `ConnectionProofs` proves
`TypesHold`, `LoginHolds`, `ConversationHolds`, `DiallingHolds`, `RefusalHolds` and
`BoundHolds`. The invariant says for each step what has been sent and
presented by then (`Conversation`, `Login`), that the addresses dialled and those still
untried are together the list that the policy left (`Dialling`), and what the timers
leave of the time before the relay (`Clock`: `elapsed` plus the rest of the timer of
the phase is within the bound, which `elapsed` alone does not show). That the loop of
`connect_to_target` leaves exactly the permitted addresses, each once, is shown for
lists of any length. `TaskRefinement`, in the same module, is proved step by step on top
of that invariant.

For every list of users that `UserStore::new` admits, every client, every message and
data it may send, every set of results of a connect, every banner of the target and
every way of cutting the streams into segments, `DialogueProofs` proves
`OutcomesAlwaysAgree`, `RefusalIsAlwaysHeard` and
`DataAlwaysBeginsWhereTheHandshakeEnds`. `DialogueAssumption` says what a client is:
`client_handshake` offers one method and asks for CONNECT, and a client that sends
everything at once sends messages that can be encoded. Its methods, credentials,
command, target and data are otherwise free. The inductive invariant `IInv`
(`DialogueInvariant`) relates the bytes under way to the positions of both sides:

- `UpHolds`: while the server is there, the bytes it has not read, with those it has passed on to the target
  before them, are the messages that the client has said beyond those the server has read;
- `DownHolds`: what a client that is there has not read is what the server has told it since, or, once
  the server has closed, a beginning of that;
- `Knows`: past `authenticate` the user is listed and reported, past
  `read_connect_request` the target is the one in the script;
- `Waits`: when the server has refused a client that waits for each answer, the stream to the server is
  empty and the refusal is all that the client has still to read.

The properties are not inductive without these: `RefusalIsHeard` needs that no reset
is due (`Waits`), which needs that the server has read all that was sent, and that needs
`UpHolds`. Each reading step combines one of them with what `HandshakeProofs` says of
the reader: on the beginning of a message followed by anything, it asks for more or
takes exactly that message.

The pure functions are proved for the questions of `MCFunctions` without its bounds:

- `PolicyProofs`: `ClassIsExact` and `CheckIsExact` for every IPv4 and IPv6 address, port and policy,
  `PrefixIsExact` for every network and address. The comparison of masked units is first
  shown to be one of quotients, then of bits; the six-, seven- and ten-bit boundaries inside
  a unit are cases of the same lemma. `LineAlwaysOpensWhatItSays` for every whitelist line
  (`WhitelistLine`: any address, prefix and pair of ports, in brackets or not, padded or not)
  and every place of a word in it. Where a text is split at its first separator is shown
  to be unique (`Splits`), so each parser is computed from the shape of the line; a word
  survives every trim and split, so the piece that holds it is refused. Left out
  are lines that spell another address (`IsAnotherAddress`: ports after an IPv6 address without
  brackets or prefix, as in `::1:80`).
- `FunctionProofs`: `ReadsAreFinal` for every sequence of bytes and `MessagesAreSafe` for every message. A read that has
  decided is shown to be final, for each reader from its parts (`HandshakeProofs`). Reading a whole encoding
  to its last byte then implies that every shorter beginning asks for more and that bytes
  behind it change nothing. `LoginIsExact` for every list of users and every attempt (a block determines
  the value it was made from), `ValidationIsSound` for all settings of the types that
  serde gives them (`IsSettings`), which includes that no line of a whitelist, whatever
  its tokens, yields an entry without ports or with port 0.

The hypotheses of these theorems are the types of the question (bytes below 256, ports
below 65536, addresses of 4 or 16 bytes), as the Rust types have them.

Induction over sequences is done by hand: the induction theorems of the library take an
operator that the provers cannot instantiate, but a set of numbers has a least element
(`Least`), so a first place where a claim fails leads to a contradiction. Loops are recursive functions
for that reason (`AllowedAfter`).

Only model-checked: the liveness properties (`ShutdownCompletes`, `PermitsComeBack`,
`RelayEnds`, `LeavesEveryPhase`, `DialogueEnds`) and the fairness part of `ImplementsPool`, which are
out of reach of the prover.

## Not modelled

- `config/settings_reader.rs` and the YAML parser: file I/O and a library. `Settings`
  starts from a parsed record.
- `limits/`: system calls without state of their own. Keepalive and user timeout only
  make a peer fail, which `Relay` allows at any time; the descriptor limit is raised
  once, at the start.
- `main.rs` before `run`: arguments, logging, the warning about file permissions.
- `server/log_throttle.rs`: one caller, the accept loop, and only a log line depends
  on it. The counters of `server/server_stats.rs` other than the bytes are incremented
  in one place each and read by the stats line alone.
- `Display` and `Debug` implementations and the text of log lines.
- Constant time of `verify`: not a property of states.
- `examples/fd_stress.rs`: a load generator around `client_handshake`.
- `Server` and `BanList` in one module: they share nothing but the verdict on
  arrival, which is free in `Server` and the only link in `BanList`.
