# A verification project for vpverk

vpverk is a small VPN: a server that owns a tun device and forwards packets between it and its
authenticated clients, and a client that does the same on the other end of a TCP connection. Both are C++20
coroutines on asio. This directory holds TLA+ models of the server, the client, their logger and their start, the TLC runs
that check them and the TLAPS proofs about them. Paths below are relative to `src/src`; `sessionscontrol.cpp` is
`server/contexts/sessionscontrol.cpp`, `connection.cpp` is `server/connection.cpp`.

1. [The system](#1-the-system)
2. [The models](#2-the-models)
3. [The runs](#3-the-runs)
4. [Fairness](#4-fairness)
5. [What is proved](#5-what-is-proved)
6. [What the code does differently from what it says](#6-what-the-code-does-differently-from-what-it-says)
7. [What is not modelled](#7-what-is-not-modelled)
8. [The plan](#8-the-plan)

## 1. The system

### Components

| Component | State it keeps | Operations | Correct when |
|---|---|---|---|
| Address pool (`getNewAddress`, `startConnection`) | `unique_address_counter`, `unique_address_set`, `unique_address_mutex`; per session `assigned_address` | take the next free host number; give it back at the end of the session | live sessions have different addresses; every address comes back on every path |
| Route table (`tunQueue`, `emptyQueue`, `tunRouter`) | a bounded lock-free queue of add and remove records; an ordered map from address to route; `local_handle` | sessions push, the router applies and looks up | a packet goes to the live holder of its address; every active session is routed; a route does not outlive its session; `emptyQueue` returns |
| Router (`routeTunToClients`) | nested coroutines, the packet each carries, the AES stream of each connection | read tun, look up, encrypt, send; nest when a lock is taken; restart after an exception | no waiting with a lock held; encryption order is sending order; a blocked frame resumes |
| `Connection` | `read_lock_`, `write_lock_`, `closed`, the socket, `created` | `read_lock`, `write_lock`, `is_active`, `close`, `send`, `read`, `wait_read` | locks released on all paths; one close; frames whole; a close ends the session |
| Acceptor and sweep | `connections_`, the cleanup timer | accept, start a session, close what is too old, drop what is over | expired sessions are closed, ended ones forgotten, the vector stays consistent across co_awaits |
| Handshake (`exchangeAESkey`, `authenticateUser`, `sendIp`) | locals | exchange keys, check the login, send the address | both sides agree on the sequence of messages; a failure closes the connection |
| Settings | one `SettingsSnapshot`, read at start-up | hand out copies to other contexts | a copy has the values of the original |
| `Tun` | `lock_`, `it_is_read_lock`, the device, the cancel timer, a strand | `read` with a timeout, `write` that cancels a pending read | one operation at a time; nobody is resumed twice or never; a write does not wait for a whole read timeout |
| Client | socket, AES session, signal set, stop source | handshake, two forwarding coroutines | agrees with the server's handshake; stays in step with the server; waits for nothing that nobody sends |
| Logger | a queue under a mutex, a condition variable, a worker thread | write, drain, stop | nothing lost, nothing out of order, stop returns |
| `flat_map` | two sorted vectors | find, insert, erase | behaves as a map |
| asio helpers | none | `send` loops over partial writes, `read_some` over partial reads | all bytes or an error |
| Start of the server (`main`, `onAsyncStart`, `asyncStart`, `threadchecking.hpp`) | three contexts and their threads, thread ids, `acceptor_` | register and launch the contexts, check the threads, open the acceptor, again after an error | the acceptor opens in a context that is set up, whatever thread is first; no assertion fires |
| Command line (both `main`s, `misc/lyra.hpp`) | the token iterator, the variables bound to the options | parse, then restore the network, start, or refuse | legal lines are accepted, others refused; nothing runs that was not asked for |
| Statistics, crypto wrappers, unit tests | | | see section 7 |

### How they interact

A context is an `io_context` with one thread (`asyncStart` and `threadchecking.hpp` speak of several; today
there is one). Coroutines of a context interleave at `co_await`s only.

* `main` of the server reads the settings, launches the threads of three contexts (main, settings, statistics) and, from its own
  thread, starts `acceptConnection`; that asks the settings context for a snapshot and goes on in the main context.
* `acceptConnection` adds a connection to `connections_` and starts a detached `startConnection` for it.
* `startConnection` runs the handshake, takes an address, sends it, pushes an *add* record on `tunQueue`,
  forwards packets from its socket to the tun device (`performDataExchange`), and at the end pushes a *remove*
  record and gives the address back. Its catch block covers everything after the connection is made.
* `routeTunToClients` is the one consumer of `tunQueue`. After each tun read it applies the records and looks
  the packet's destination up. It writes to sockets whose sessions read from them at the same time, under
  `write_lock_`.
* A timer runs `closeOldSessions` every ten seconds, and the acceptor runs it when the vector is long. It takes
  the locks of connections whose sessions and router may be in the middle of a frame.
* Sessions write to the tun device while the router reads from it; `Tun` serialises them.

### What is hard to test

The full list is in `PROJECT.json` under `hazards`, each at its line. In groups:

* **Order of records and reuse of addresses.** An address is freed while records of its former owner are still
  queued; `emptyQueue` reorders what it cannot apply.
* **Early ends of a session.** Between the address and the registration there are two ways to fail, and both
  run the unregister part.
* **Try-locks held over co_awaits.** Session, router and sweep can each be inside `close()`, in a send or in the
  middle of a frame.
* **Nested and restarted coroutines.** A lock conflict nests, an exception restarts, and both use the same
  tunRouter.
* **Order of ready handlers.** Whether a writer that cancels a read gets `lock_` is decided by the position of
  handlers in asio's queue.
* **Limits.** A full `tunQueue`, an exhausted address pool, the wrap-around of the 16-bit counter.
* **Two ends in step.** Both ends decrypt with a stream cipher: a byte too many or too few, once, and nothing makes
  sense any more. Clients need not keep to the protocol, and the one in the repository does not.
* **The start.** Three threads come up while the first coroutine already asks for their services; the settings and the command line
  are only looked at here.
* **Handles in two hands.** The client's peek resumes a coroutine that has gone on; its signal set is gone before a signal comes.
* **The end of the log.** The logger's worker meets its stop between the test of a predicate and the wait.

## 2. The models

Each module covers one piece of shared state with all coroutines that touch it, and takes the other pieces as outcomes:

```
            AddressPool                      what pool and table promise
                 | implemented by
            SessionRoutes                    pool, tunQueue, tunRouter
             |         \
   "data exchange ends" "records applied"
             |            \
        Connection ------ TunRouter          locks and close() | nesting and restarts
             |  "closer has the lock"
           "tun write returns"
             |
            Tun                              lock_, strand, ready queue

   Sweep                                     connections_; close() returns (Connection)
   Client                                    handshake, frames, both ends of the AES streams
   CommandLine                               cli::parse and both main functions
        | "started"
   ServerStart                               settings, threads of the contexts, acceptor
   LogQueue -- FlatMap                       queue, worker, stop | the map of its streams
```

| Model | Proofs | Run by |
|---|---|---|
| `SessionRoutes`, `AddressPool` | `SessionRoutesProofs` | `MCSessionRoutes` |
| `Connection` | `ConnectionProofs` | itself |
| `TunRouter` | `TunRouterProofs` | `MCTunRouter` |
| `Tun` | `TunProofs` | `MCTun` |
| `Sweep` | `SweepProofs` | `MCSweep` |
| `Client` | `ClientProofs` | `MCClient` |
| `CommandLine`, `ServerStart` | `ServerStartProofs` | `MCServerStart` |
| `LogQueue`, `FlatMap` | `LogProofs` | `MCLog` |

Operators whose comment begins with "Mutant" are variants with a plausible bug; no action of a model uses them. For each
property, `PROJECT.json` names a variant that makes the property fail.

### SessionRoutes

One process per session (`pc[s]`), the router (`rpc`), the pool, the queue, the table.

| Model | Code |
|---|---|
| `counter`, `used`, `MutexFree` | `unique_address_counter`, `unique_address_set`, `unique_address_mutex` |
| `EnterGetNewAddress`, `ProbeAddress`, `NextCounter` | `getNewAddress`: one step per iteration of its do-while loop |
| `SendIpFails`, `Register` | `sendIp` throwing; `try_push` of the add record, which throws when the queue is full |
| `DataExchangeEnds`, `PushUnregister`, `ReleaseAddress` | the end of `startConnection`: the push is retried until there is room, then the address is erased from the set |
| `TunRead`, `DrainPop`, `DrainEnds`, `RetryCheck`, `RoundStep`, `RoundEnds`, `Lookup` | the tun read, both loops of `emptyQueue`, the lookup |
| `MustWait`, `Applied` | `emptyQueue`'s conditions on a record and what it writes into tunRouter |

`Pool` says whether the context has one thread (then a piece of code without a co_await excludes all others) or
several (then only the mutex and the atomic queue order the steps). The runs use one thread, as the code does;
the proofs cover both. `Probes` says whether the two unconditional `cuabort(res)` diagnostics are in the code.
They are (`Probes = TRUE`, the run `routes_probes`), and then the first session that reaches one ends the server. They have to go before the
server can serve anybody; the other runs of the module ask whether the code around them is right when they are gone, and the theorems hold with
and without them.

Two history variables: `addr` keeps the address of an ended session, `unmatched` collects the sessions that
unregister without having registered.

### Connection

One connection, its session, the router and the sweep. A step is the code from one co_await to the next.
`sess` is where the session is, `sending` the router's send, `closing[a]` the position of each actor inside
`close()` (spinning on the write lock, sending the error frame, shutting the socket). `partial`, `mangled` and
`errorSent` record what reached the TCP stream: a frame that somebody has begun, bytes of one
frame inside another, the error frame that ends the stream. `WriteLocked`, `ReadLocked`, `WriteUnlocked` and `ReadUnlocked`
are the two try-locks and the destructor of `Socket_lock`.

`OpenAnswers` is what `reliable_is_open` can say: a peek that returns bytes says "open" even when the peer is
gone, and any other error of TCP is one of its answers. `IsActive` is that under the read lock, or no answer. A sweep that meets such
an error, or in which the socket's `shutdown` throws, aborts the server (`aborted`); liveness properties allow
for it.

`blocked` is a frame of the router that waits for the write lock with this connection in its `con`: it tries again when the nested
router returns, also if the route has been erased by then (`RouterBlocked`, `RouterSends`). `expired` is what the next sweep finds when it compares the
age with its limit. Every sweep has its own copy of the settings, in which the limit is uninitialized, so `expired` may change at any time (`NewLimit`).

### TunRouter

The stacks of `routeTunToClients` coroutines. `stacks[i]` are the frames of the i-th root; only the top frame
runs. A frame is reading, blocked (waiting for the frame above), about to retry, sending or closing. `unsent[c]`
lists the packets encrypted for connection `c` and not yet sent: an AES session is a stream, so they must be
sent in that order. Closing coroutines appear as `CloserLocks` and `CloserUnlocks`. An
exception of `Tun::read` (`ReadThrows`) or of `close()` (`CloseThrows`) starts a new root (`Restart`).

`cussert` says whether the build has the assertions (`in`, the default, or `out`, with NCUSSERT; the run has both), or whether one has
failed. `cussert(tunRouter.empty())`, on entry, was written for the first call: it fails at the first nested or restarted one that finds a
route (`Enter`), and the server ends. What happens after a nested call is the behaviour of a build with NCUSSERT.

### Tun

Here the order in which ready handlers run decides, so the module has asio's FIFO queue `ready` and the queue of
the strand. Every action but `PacketArrives`, `TimerExpires`, `CallRead` and `CallWrite` runs the handler at the
head of `ready`. The reader is the router (server) or `startTunRead` (client); the writers are sessions (server, so `tun`
has two) or `startSocketRead` (client, one).

A write to the device is taken to complete without waiting for the device: a tun device takes a packet at once.
With a write that stays pending, the cancel of a writer that looked at `it_is_read_lock` earlier could hit it.

### Sweep

The vector `connections_` as a sequence, the acceptor that appends, and sweeps that walk over it with an index
(`index[k]`, the code's `i`), drop an element by moving the last one into its place (`Dropped`), and wait in `close()`
(`pc[k] = "closing"`) before they look at the same index again. Nothing keeps a second sweep from starting meanwhile: the
timer is set again at once, and the acceptor starts one whenever the vector is long. A sweep in its loop is not
interrupted (one thread), so other actions need `ThreadFree`.

`busy`, `over` and `old` are what `is_active` and `alive_time` answer. `SnapshotLimits` stands for the limit the sweep gets
from the settings: the copy constructor leaves it uninitialized, so it may be anything. `ListedOrClosed` and
`NobodySkipped` are to hold for all limits. The history variable `due` has the connections that were listed when some sweep
began and that no sweep has looked at since.

### Client

The client and the session that serves it, with the two directions of their TCP connection. A direction is a sequence of
units; a unit has a value and the position of the AES stream at which it was encrypted (or is plain, or part of the RSA
block). An end decrypts a unit only at its own position; at another position it gets garbage, and a size read as garbage may
be anything (`Sizes`). So an end that reads too much or too little is out of step from then on.

| Model | Code |
|---|---|
| `Create`, `ClientSession`, `ServerSession` | `AesSession::create` on both ends: each decrypts where the other encrypts |
| `RsaEncrypt`, `SendKey` | `RsaKey::encrypt` with its check of sizes; the file, the key block, the first send |
| `cpc`: `SendKey` ... `ReadIp`; `SetupTun` | `startAsync`, from the key exchange to `setupTun` |
| `ReadBlockSize`, `MayBeMark`, `stale`, `PeekCallback`, `TextSeen` | `read_block_size`; its test of the bytes as they arrive, which an encrypted size can pass too; its `async_receive` with `message_peek`, which does not suspend the coroutine whose handle it has |
| `TunRead`, `TunSend`; `SockReadSize`, `SockReadBody`, `SockWrite` | `startTunRead`; `startSocketRead` |
| `SignalsDestroyed` | the `signal_set`, a local of `startAsync` that is destroyed at its `co_return`: the handler gets `operation_aborted` and calls `cuabort` |
| `ReadKeySize`, `ReadKey`; `ReadLoginSize`, `ReadLogin` | `exchangeAESkey`; `authenticateUser` |
| `SendIp`, `RegisterFails`; `ReadFrameSize`, `ReadFrame`; `RouterSends`, `RouteErased` | `sendIp`; `performDataExchange`; the sends of the router, as long as it has the route |
| `Amount` | `read_some`: amount 0 means "as much as the buffer holds" |

`Clients` are records of what a client puts into its fields: the size of its key block, its login, the length field and how
often it sends the login. `MCClients` has the client of the repository (4 bytes where the server expects 256, no length,
login sent twice), one that conforms, one with a wrong login and others in between. `Announced` are the sizes that
`EVP_PKEY_decrypt` may announce for the 64-byte buffer of the key, `PublicSizes` those of the block that the client's own file makes
(0 where it holds no public key).

A client that has come up does not last: the handler of its signal set ends it as soon as it runs, and so does the first packet, at the inverted
`cussert(read_size > max)` (`SockReadSize`; a build with NCUSSERT goes on). Between `startAsync` and that handler the two coroutines can run, and
what they do is in the model. Nothing stops them but the end of the process: the code behind a signal, `stop_source_` and `ctx.run()` is
never reached.

### LogQueue and FlatMap

Threads push messages under the mutex, the worker writes the front of the queue to the file of its target, and
`Logger::exit` stops it (`RequestStop`, `Notify`, `Joined`, `RemainsOnExit`). A stream that is not good ends the process
(`worker = "aborted"`, the assertion in `WriteFront`). `Predicate` and `Wait` are two steps: the stop takes no mutex, so it may come between them
(`missed`). The files are found in a `flat_map`; `FlatMap` has `binarySearch`, `insert`, `remove` and the
first comparisons of `at_tryFirst`, as operators on sorted sequences, and `SearchFinds` compares them with the set of keys.

### ServerStart

`ServerStart` extends `CommandLine`: its steps begin when a server has got past its command line, and `StartNext` has the steps of both.
One process is the thread of `main` (`mpc`), three are the threads of the contexts (`ctx[c]`: launched, between the two halves of
`checkThread`, in its loop), and one is the coroutine `acceptConnection`, which changes threads (`accepting`, `ResumesIn`).

| Model | Code |
|---|---|
| `ReadSettings`, `FromPemFile`, `SortedLogins` | `Settings::read`: what can be wrong with the file or the key ends the process; the port keeps 16 bits; the logins are sorted |
| `OnAsyncStart`, `Index`, `CallOrder` | the three `onAsyncStart` in the order of main's chain, each with its assertion on the order of the enumeration |
| `RegisterContextsFails`, `StartContexts`, `StartAcceptingConnections` | the rest of the chain in `main` |
| `SettingsStart`, `StatisticsStart`; `CheckThread`, `CheckAllThreadIDsCollision` | `asyncStart` of the two contexts; `checkThread`: set or compare the own id, then compare all |
| `SetupTun`, `TunOpens`, `CheckThreadIsNOT` | `asyncStart` of the main context, up to its loop, with the opening of the device |
| `Cussert`, `CuAbort`, `Breakpoint` | the ends of the process by an assertion, by an error, and by the debugger trap of a `breakpoint` when no debugger goes on past it |
| `GetSettings`, `OpenAcceptor`, `AcceptorError` | `acceptConnection` from its `Invoke` on; its catch block, which calls it again |
| `AuthenticateUser`, `BinarySearch`, `LowerBound` | the search for a login, as `std::ranges::binary_search` does it |

The store of contexts and `Invoke` belong to a submodule that is not in the repository; of them the model takes what the comments at the
call say: the method runs in the loop of the context it is addressed to, and the coroutine goes on in the loop of the other
one. Whether the threads are running when `startContexts` returns is left open: they may all be later than `main`.
The ids are read without a lock while other threads write theirs; each is one machine word that changes once, so that the
outcomes are those of reading it before or after.

### CommandLine

`argv` is a sequence of arguments as lyra's token iterator sees them: an option with two dashes, with or without a value after a
delimiter, an option with one dash, or a word. `pos` is the iterator, `seen` the options that have used up their cardinality,
`args` the variables bound to the options, `result` what `cli::parse` returns (`ok` and `value` are two things: an error has a value too).

| Model | Code |
|---|---|
| `ParserCardinality`, `ParsingCount`, `MayParse`, `CountsFit` | how often an option may be parsed: the condition in the loop and the check at its end |
| `Matches`, `Pop`, `Refuse`, `UnrecognizedToken` | the loop of `arguments::parse_any` and its ends |
| `HasTokens`, `HasLongOptionPrefix`, `HasShortOptionPrefix`, `OptionToken`, `IsMatch` | the token iterator and the match of a name |
| `ParseFlag`, `FlagWithValue`, `ParseValue`, `RefuseValue` | the paths through `opt::parse` |
| `HasValue`, `Value`, `After` | `token_iterator::value` and `pop`: the next argument is the value whatever it looks like |
| `Converts`, `Converted`, `SetValue`, `SetFlag` | `from_string` for `uint16_t` and `std::string`; the bound variables |
| `AllTokensParsed` | `cli::parse` finding nothing left |
| `RestoreNetwork`, `ExitWithMessage`, `StartClient`, `StartServer` | the two `main`s |

The properties speak of the command line without reading it from left to right: `Grouping(S)` says that `S` are the places of the options and
the other places hold their values, `Legal(S)` that every option is known, given once and has a value that converts.

## 3. The runs

| Run | Module | Result | Bounds |
|---|---|---|---|
| `routes_single` | MCSessionRoutes | pass | 4 sessions, 2 addresses, queue of 2 |
| `routes_live` | MCSessionRoutes | pass | 3 sessions, 2 addresses, queue of 3 |
| `routes_probes` | MCSessionRoutes | violation | 2 sessions, 3 addresses, queue of 2, `Probes` |
| `connection` | Connection | pass | 1 connection, 3 actors |
| `connection_expiry` | Connection | violation | as above |
| `router` | MCTunRouter | pass | 2 connections, 3 frames per stack, 2 roots, with and without assertions |
| `tun` | MCTun | pass | 1 reader, 2 writers |
| `tun_two_writers` | MCTun | violation | as above |
| `sweep` | MCSweep | pass | 3 connections, 3 simultaneous sweeps, limit 1 |
| `client` | MCClient | pass | 7 clients, logins of up to 3 units, 2 packets of 1 or 2 units |
| `server_start` | MCServerStart | pass | up to 4 of 11 arguments for the client, 1 for the server; 8 files, up to 5 logins in one, 2 faults |
| `log` | MCLog | pass | 2 writers with 2 messages each, maps of 1 to 6 keys |

Why the bounds are enough:

* `routes_single`. Host numbers 2 and 3 with four sessions: both addresses are reused, a session can find one
  taken, the counter wraps around, and the counter passes the network's own numbers. A queue of two records is
  full while a session wants to register or unregister. The real queue and pool are larger; the theorems of
  section 5 hold for all sizes. Sessions are symmetric, and the run has no liveness property, so symmetry is sound.
* `routes_live`. Two addresses for three sessions: a probe meets an address in use, the counter wraps around, an address is reused, and
  the pool can be empty, when `getNewAddress` spins with the mutex held (`AddressGranted` has the condition that an address is free,
  `RoutesForgotten` allows for `Exhausted`). The queue takes an add, a remove and one more in one run of `emptyQueue`, so records that wait
  for each other meet in `local_handle`; with the queue of two of `routes_single` it is also full.
* `routes_probes`. One session is enough; everything stops at its first probe.
* `connection`. All that is shared belongs to one connection, and each of the three kinds of coroutine exists once
  per connection. Only two sweeps at the same time are more than that, and no two of them close the same connection
  (`ListedOrClosed`). Nothing in the module is bounded, so that the run covers all of it; the proof of `FramesWhole` says why it holds.
* `router`. Three frames are one that waits for each of the two connections and one that runs. Two roots
  come from one exception while a stack is nested. With all bounds reached there may be nothing left to do, so deadlock is not checked.
  The two invariants are proved for all bounds.
* `tun`, `tun_two_writers`. Two writers are sessions of the server, the fewest that can meet on `lock_`. Nothing else is
  bounded. The three invariants are proved for any set of writers. `SendLocksFirst`, which two writers violate, is proved for one: the client.
* `sweep`. One connection to drop, one to be moved behind another sweep's index and one more; three sweeps are one more
  than that takes. With four connections and two sweeps the result is the same. Theorems cover all sizes. `Limit` is
  `1 << 13` in the code; with 1 the acceptor starts sweeps in nearly every state.
* `client`. A login of two units is enough to be exchanged, cut or continued by its length field; packets of one and two units
  have different sizes, so a torn one shows; two packets go up, down, or one each way, which is enough for a frame
  that follows another one. The longest login is one unit longer than the limit. The three invariants
  are proved for all clients and any number of packets of any size.
* `server_start`. Four arguments are the three options that the client needs and one more; the server has one option. Among the eleven are
  options with the value in the argument, behind it or missing, a port that does not fit, a flag with a value, words that no option takes. The
  theorems cover lines of any length and words. The files are one of each way to fail and four good ones, with logins unsorted and repeated, in lists of one to five, on which
  the bisection takes all its turns, and with a port of 17 bits. Two faults are one before and one after the acceptor is open.
* `log`. With two messages each the worker can be in the middle of the queue when the third arrives, and two writers
  interleave. One to six keys reach every branch of the bisection; the code's own map has three.

What the passing runs show:

* `routes_single`: `UniqueAddresses` (live sessions have different addresses, the set is exactly theirs),
  `RoutesOwned` (a route outlives its session by at most one run of `emptyQueue`), `PacketsReachOwner`,
  `ActiveSessionsRouted`, `ImplementsAddressPool`.
* `routes_live`: `AddressGranted` (past addresses in use and the end of the counter), `EmptyQueueReturns` (for every mix of records),
  `RoutesForgotten` (which needs the unregister loop to end).
* `connection`: `FramesWhole` (no bytes of one frame inside another), `CloseCompletes` (`close()` gets the write lock: every path drops
  it), `CloseEndsSession`, `EndedForgotten` (an ended session is dropped: when its socket is closed, whatever the limit; when it is not, if the
  sweeps find the limit exceeded), `ExpiresUnlessMidFrame` (under such a limit a session that is not in the middle of a frame ends). That
  the limit is ever exceeded is not assumed and not shown.
* `router`: `NoLockWhileWaiting`, `CipherOrder`.
* `tun`: `OneOperation`, `TimeoutOfOwnRead` (the timer of a read does not cut the next one short),
  `ResumedOnce`, `WriteEnds` (unless other writers come for ever).
* `sweep`: `ListedOrClosed` (no connection is listed twice, lost without a close, or closed by two sweeps) and
  `NobodySkipped` (what one sweep moves behind the index of another is still ahead of a third or of the mover).
* `client`: `OnlyAllowedServed` (whatever a client sends, it is served only if the login its length field covers is in the list),
  `InStep` (what is under way was encrypted where the other end is going to decrypt it), `PacketsIntact` (whole, in order, once),
  `AddressArrives` (a client whose address was sent comes to use it or ends: it never waits for bytes that nobody sends). In the run the client of the repository is refused: it is served by no interleaving.
* `server_start`: `AcceptedIffLegal`, `ArgsAsGiven` (what the variables hold is what the part of the line read so far says, also if the rest is
  refused), `ActsAsAsked` (the client acts on nothing that is not on its line as an option), `AcceptsWhenSetUp` (no order of the threads opens the acceptor outside a main context that has its tun device),
  `NoAssertFails`, `LoginsAsConfigured` (who is let in is who the file names, although the search is a bisection),
  `Listens` (also after errors of the acceptor, unless the process ends).
* `log`: `NothingLost` (each message is in its file, the exit file or the queue, in order), `PushedIsWritten`,
  `ExitReturnsUnlessMissed`, `SearchFinds`.

Deadlock is not checked where the system may stop: a connection that is closed and swept has nothing left to do
(`connection`, `connection_expiry`); an abort in the sweep ends the server (`sweep`); the client process ends (`client`);
an assertion ends the server, or the bounds are reached (`router`); a
main function may refuse its command line, and the start of the server end in an error (`server_start`); the
logger has been joined (`log`).

## 4. Fairness

* **A ready coroutine is resumed.** An `io_context` runs its ready handlers in FIFO order. Weak fairness where
  the step stays possible; strong fairness where another coroutine's turn disables it for a while (one thread:
  a session cannot step while the router is between two co_awaits; a spin on a try-lock with `reschedule`).
* **The tun read ends**, with a packet or by its timer (`TunRead` belongs to `RouterStep`).
* **The client owes nothing.** No fairness on the arrival of a connection, the end of a handshake, a frame
  being completed, a client leaving.
* **The client's TCP goes on taking what is sent** (Connection). The code has no timeout on a send:
  without this assumption a client that does not read holds the write lock and the router for ever.
* **The sweep** is run by its timer again and again. Nothing is assumed of the age limit: what depends on it has it as a condition
  (`<>[]expired`), and in Client the sweep need not close anything.
* **TunRouter** has no fairness and no liveness property: a blocked frame resumes only if there is traffic for somebody else.
* **Tun**: handlers run in the order of the queue, a timer that is armed expires unless it is cancelled, the
  reader calls `read` again.
* **Client**: `startAsync` goes on when what it waits for is there. Nothing is assumed of the session, the router, the sweep or the tun devices.
* **ServerStart**: main, from its command line on, and every thread that was launched run, the settings answer. The port need not be free: `MaxFaults` ends the faults, which is
  the assumption that it will be; while it is not, the code retries without a pause.
* **LogQueue**: worker and `exit` run while the process does. Nobody has to log or to end the program, and no wait is assumed to end
  without a notification.

## 5. What is proved

All proofs are checked by TLAPS, for all values of the constants that fulfil the named `ASSUME`s of the models. Each starts from an
invariant that TLC has confirmed on the instances of section 3.

### SessionRoutes

`SessionRoutesProofs.tla`, for any set of sessions, any `CounterMax > 2`, any queue capacity, with and
without the diagnostics, on one thread or several. The assumptions are the four `ASSUME`s of `SessionRoutes` and no others.

| Theorem | Property | On several threads too |
|---|---|---|
| `TypeCorrect` | `TypeOK` (no run) | yes |
| `AddressesUnique` | `UniqueAddresses` | yes |
| `RoutesAreOwned` | `RoutesOwned` | yes |
| `PacketsReachTheirOwner` | `PacketsReachOwner` | the property speaks of one thread |
| `AddsApplyAtOnce` | `AddsNeverWait` (no run: the queue's order gives it) | yes |
| `RetryNeedsAnOrphan` | `RetryOnlyForOrphans` (no run) | yes |
| `ActiveSessionsReachable` | `ActiveRoutedOrPending` | yes |
| `ActiveSessionsAreRouted` | `ActiveSessionsRouted` | the property speaks of one thread |

The argument. Uniqueness of addresses is inductive together with the types. The statements on routes are not: they
depend on where the records of a session are. `PathInv` says that a session and its records are on one path.
`QueueInv` and `RouterInv`: a record or a route carries the address of its session and fits how far the session has
come. `RemovePending` and `RemoveBehindAdd`: the route, or the queued add, of an ended session has its remove in the
queue, behind the add. `RemoveBeforeAdd` and `RemoveBetweenAdds`: what stands before an add for a reused address is the
remove of the previous owner. The reason is the order in `startConnection`: a session pushes its remove before it
erases the address, and the next owner takes the address after that. So an add at the head of the queue finds its
address free (`AddsNeverWait`), and a route has a holder or a remove on its way (`RoutesOwned`). `LocalInv` (only
removes are put aside) and `EmptyAfterDrain` (one thread: nothing is pushed while `emptyQueue` runs) complete
`Inv == TypeOK /\ UniqueAddresses /\ PathInv /\ LocalInv /\ EmptyAfterDrain`.

What remains is to see that a remove does not hit somebody else's route. It can, after an unregister without a
register (section 6). `MatchedInv` says that up to the first such event nothing is put aside in `local`, each remove record
finds its own route or its own add in front of it, and each live session is routed or its add is queued. With
`Inv` this is inductive (`FullInvariance`), and it gives the last three theorems.

At the end of the module is `Refinement`, `Spec => ImplementsAddressPool`. The invariant is that of above. Granting an address is
`Grant` because nobody holds it (`UniqueAddresses`); applying an add to the route table is `Attach`, or a stutter if its session is over; erasing
a route is `Detach` or, if its session is over, a stutter; releasing the address is `GiveBack`, because `Route` forgets the
route at that moment. Everything else stutters. It holds on several threads too.

### Sweep

`SweepProofs.tla`, for any sets of connections and sweeps and any limit; the assumption is that of `Sweep`.

| Theorem | Property |
|---|---|
| `TypeCorrect` | `TypeOK` |
| `VectorConsistent` | `ListedOrClosed` |
| `SweepsSkipNobody` | `NobodySkipped` |

`ListedOrClosed` needs the types and `VictimsClosed` (a sweep in `close()` has marked its connection): the next victim is
listed, so it is not closed, so no other sweep has it. `DropFacts` says what moving and popping does to a sequence
without duplicates. `NobodySkipped` is then inductive by itself: an element only moves to the index of the sweep that moves it, which
looks there next; an index only passes an element that has been looked at; a clipped index still covers what is listed.

`TypeCorrect` is a theorem of its own; no run repeats it.

### Connection

`ConnectionProofs.tla`; the module has no constants and no assumptions.

| Theorem | Property |
|---|---|
| `FramesStayWhole` | `FramesWhole` |

Frames are kept apart by two things that hold one after the other. Before the address is sent the session writes without the write lock, and the router
has no packets for it, so nobody can have left a frame half written (`EarlyInv`). Afterwards all writers hold the lock (`LockInv`), and a begun
frame keeps it with its writer until it is whole or the stream has ended (`BegunInv`). `OneCloses` and `RouterBusyOnce` say
that the flag `closed` lets one actor write the error frame, and that the router does not do so in the middle of its own send.

### TunRouter

`TunRouterProofs.tla`, for any connections and any bounds on depth and roots, in builds with and without assertions.

| Theorem | Property |
|---|---|
| `FramesWaitWithoutLock` | `NoLockWhileWaiting` |
| `SentInCipherOrder` | `CipherOrder` |

`StackInv`: all frames but the top one are blocked, and a frame that is past its read has a connection. `LockInv`: a root
has the write lock of a connection exactly if its top frame sends to it. With the types and `CipherOrder` this is inductive;
three lemmas cover all steps of a root: it sends the same as before (`SendsTheSame`), it takes a lock (`Takes`), it drops one (`Drops`).

### Tun

`TunProofs.tla`, for any set of writers (the server has as many as sessions).

| Theorem | Property |
|---|---|
| `TypeCorrect` | `TypeOK` (no run repeats it) |
| `OneOperationAtATime` | `OneOperation` |
| `ReadsCanEnd` | `ReadEnds` (no run) |
| `NobodyResumedTwice` | `ResumedOnce` |
| `TimersAreOwn` | `TimeoutOfOwnRead` |
| `WriterLocksFirst` | `SendLocksFirst`, for one writer (for two it is false: section 6) |

The central part of the invariant is `TurnInv`: a coroutine that is not away has exactly one handler that will resume it, in `ready` or in
the strand, or is the reader of the pending read. Cancel, timer and packet each turn the pending read into one handler and
find it no longer pending afterwards.

The last two theorems need the order of the handlers (`OrderInv`). For `TimersAreOwn` it has to be seen that the handler of an expired timer
runs before the reader arms the timer of its next read. A cancel posts the end of the read behind that handler, so the reader alone cannot
overtake it. But who hops between `ready` and the strand loses places, and a writer may have `lock_` meanwhile: `WriteBehind` says that a
writer keeps the lock until the expired timer has had its turn, because its completion is behind it in both queues (`Late`), `ReadBehind` that
a reader that could take the lock is behind it too, or behind the writer that takes the lock next. `StrandInv`, `KindInv` and `ArmedInv` say
what the handlers in the queues are for. With one writer `SendInv` is inductive on top of that: a writer that has cancelled a read and waits for the
lock is resumed before the reader is.

### Client

`ClientProofs.tla`, for any clients whose length field covers no more than their login, any list of logins and any sizes. A client with a
longer length field would have what follows the login taken for its end; the model has no value for it.

| Theorem | Property |
|---|---|
| `OnlyAllowed` | `OnlyAllowedServed` |
| `StreamsInStep` | `InStep` |
| `PacketsStayWhole` | `PacketsIntact` |

The decision in `ReadLogin` compares what the server decrypted; that this is the login the client sent is `StreamInv`: until
the server has read it, the first login stands at a known place of what is under way, encrypted at positions 0 to its
length. Nothing else can be there because a client sends packets only with an answer of the server (`RunInv`), and before the
login the only answer is a close. 

`InStep` and `PacketsIntact` rest on one invariant for each direction. `UpInv`, for a client that keeps to the protocol, and `DownInv`, until a
peek is started, say that there is a function `B` from the number of a packet to the position of the AES stream at which its frame starts (`Bounds`). What is under way is,
unit for unit, what the packets have from the reader's position on, up to the writer's (`Carried`). The reader has written out the first packets
and is at the start of the next frame, or behind its size and wants as many units as that packet has (`ReaderAt`). So a reader takes a size where a
size is, and is never out of step afterwards. The cases that make it more than counting: the key block and the login in front of the first frame;
the error frame of `close()`, which is plain and the last; a packet whose send fails after `aes.encrypt` has moved
on, which is the last one of its stream; the address, which goes down before the first packet. Of a client that does not conform, or that
has gone on while its peek is pending (`stale`), the properties claim nothing: such a one can be out of step.

### ServerStart

`ServerStartProofs.tla`, for any files, logins and number of faults.

| Theorem | Property |
|---|---|
| `StartTypeCorrect` | `StartTypeOK` (no run repeats it) |
| `ListensWhenSetUp` | `AcceptsWhenSetUp` |
| `StartAsserts` | `NoAssertFails` |
| `LoginsAreConfigured` | `LoginsAsConfigured` |
| `StartReadsItsLine` | `StartSpec => Spec`: what is proved of the command line holds of the start |

`IdsOwn`: a thread's variable has its own id or none, so no comparison at any time finds a collision. `Answered` and `Listening`: an answer means that
the settings context is in its loop and that the coroutine has the snapshot; an open acceptor means that the main context is in its loop, which
it reaches through `setupTun` only.

`LoginsAreConfigured` is about the two algorithms between file and answer. `SortedLogins` is chosen among the orderings of the file's logins; that
there is one is an induction on the number of places (`OnePlaceMore` puts the next login where it belongs). `LowerBound` halves what is left,
and by induction on its length it returns the first place whose login is not less.

### CommandLine

The first part of `ServerStartProofs.tla`, for command lines of any length, made of any words with any numbers.

| Theorem | Property |
|---|---|
| `TypeCorrect` | `TypeOK` (no run repeats it) |
| `ReadsAllLines` | `AcceptedIffLegal` |
| `HoldsWhatIsSaid` | `ArgsAsGiven` |
| `ActsOnOptions` | `ActsAsAsked` |

The heart is `Reading(S)`: the iterator stands at a place of `S`; every place of `S` before it says an option, none twice, and these are the ones in
`seen`; the variables hold what they say. `PopReads` carries it over an option that is read: the iterator comes to the next place of `S`,
because it passes the value exactly where `Grouping` does. `EndKeeps` is for the ends of the parsing: where the code
refuses an argument, no legal line has it. `MatchIsName` (an option matches exactly where its name stands), `ParsedOnce` and `MatchesFirst` bring the
conditions of the loop into the words of `Legal`. There is at most one `S` for a line, but the proof does not need that.

### LogQueue and FlatMap

`LogProofs.tla`, for any writers, targets (which are numbers) and any number of messages.

| Theorem | Property |
|---|---|
| `NothingIsLost` | `NothingLost` |
| `SearchIsRight` | `SearchFinds` |

`Inv` adds to `NothingLost` that the messages are typed, that the streams are sorted, that what is queued has an open file, and that the exit file
is written only when the worker is gone. `ForAppend` and `ForHead` say what pushing and taking does to the messages of one target,
`ForCounts` how `For` goes on from one place to the next. For the search, `FindFinds` is an induction on the distance of the two ends, with the middle as `binarySearch` computes it;
`InsertedKeeps` and `RemovedKeeps` carry the order of the keys over `insert` and `remove`.

The recursive functions of this module and of `ServerStart` are reasoned about by `SetInduction`: induction over a set of numbers in the place of a
predicate, from the library's `NatLessThanWellFounded` and `WFMin`. `RecursionHasFunction` gives a recursive definition the function it defines.

### Only model-checked

The liveness properties, all of them: what follows from fairness is beyond the prover (it has no rule for `ENABLED`). They are `AddressGranted`,
`EmptyQueueReturns`, `RoutesForgotten`, `CloseCompletes`, `CloseEndsSession`, `EndedForgotten`, `ExpiresUnlessMidFrame`,
`WriteEnds`, `AddressArrives`, `PushedIsWritten`, `ExitReturnsUnlessMissed` and `Listens`. Each safety property that a
passing run checks is stated by a theorem.

## 6. What the code does differently from what it says

Each is a `findings` entry with the run that shows it.

1. **No address is ever sent** (`routes_probes`). `cuabort(res)` at `sessionscontrol.cpp:280` is called in every iteration of `getNewAddress`, whether
   `res` is "like this" or not, and ends the process; `:98` does the same before every lookup. A server comes there only under a debugger, which has to go
   on past the breakpoints from `:298` on. Whatever the other runs show of sessions with an address is about the code without these two calls.
2. **A half frame prevents expiry** (`connection_expiry`). The session holds `read_lock_` while it waits for the rest of
   a frame; the sweep skips connections whose lock it cannot get.
3. **The writer that cancels is not always first** (`tun_two_writers`). "so i have guarantee that after cancel here, send will acquire lock first"
   (`tun.cpp:133`) holds for one writer (`WriterLocksFirst`). On the server every session writes: a second one can hold `lock_` when the reader comes back,
   both spin, and the reader can be ahead of the writer that cancelled it.

Seen while reading, or while proving; most are facts of one line, so that a run would only repeat them (hazards in `PROJECT.json` where they bite):

* An active session can be without a route. `sendIp` throws, or `tunQueue` is full; the session unregisters all the same. Its remove record finds no
  route and is put aside. The freed address goes to another session whose add record is applied in the same run of `emptyQueue`; the retry loop then applies
  the orphan to the new route. The comment at the lookup says that all active connections are in the router (`EveryActiveSessionRouted`; it holds under
  the condition of `ActiveSessionsRouted`). It takes a server without the two `cuabort(res)`.
* The entry assertion at `sessionscontrol.cpp:37` fails at the first nested or restarted router that finds a route (`Enter`); the check at
  `client/async.cpp:291` is inverted (`SockReadSize`).
* `client/main.cpp:76` asks `result.has_value()`, which is true of errors too (`basic_result::error` keeps a value), instead of the result itself: the
  branch that prints the message and returns 1 is never taken, and a refused command line such as `--restore --logdir` runs with the options
  before the refused one. The server ignores its result. `RestoreNetwork` and `StartClient` model what is asked.
* The copy and move constructors of `SettingsSnapshot` leave `max_alive_time` uninitialized (`SnapshotLimits`).
* The client announces a key of 4 bytes, no login length, and sends its login twice. Its `signal_set` is destroyed when `startAsync`
  returns, so that a client that has come up aborts (`SignalsDestroyed`), and the exit that `client/main.cpp:116-119` describes cannot happen. Its peek does
  not suspend: "it was just funny -1 due to encryption" (`client/async.cpp:210`) leaves a callback that later resumes a coroutine that has gone on
  (`MayBeMark`, `PeekCallback`).
* `RsaKey::decrypt` compares a 64-byte buffer with an announced size of 256.
* A frame of length zero is read as a full buffer (`Amount`).
* A throwing `shutdown` or `is_active` inside the sweep ends the server; a client that does not read stops the router; nesting has no limit.
* The logger's `stop()` can lose its wake-up (`missed`), and nobody calls `Logger::exit`. A build with NDEBUG does not notice a stream that has failed
  and loses its lines.
* `restore_network` of the client sets the link down before it deletes the routes that went with it.
* The awaiters of `asioapi.hpp` post the resumption before they store the result, which is right on one thread only.

## 7. What is not modelled

| Left out | Why |
|---|---|
| Bytes of frames, keys, addresses of IP packets | data; the properties tell frames apart by who writes them, units by value and position |
| OpenSSL, key files, key generation | library calls; their effect on control is that an AES session is a stream with an order (`CipherOrder`, `InStep`) and that a decryption can fail |
| The statistics context but for its start | its operation is empty and has no caller |
| What the network commands do (`setupTun` of both ends, `restore_network`) | shell commands; that they may fail is an outcome of `ReadIp`, `SetupTun` and `RestoreNetwork` |
| `checkThread` of several threads, `move_to_main_context` | nobody calls the one; the other is an operation without effect |
| `breakpoint` outside the start | a debugger trap, which ends the process unless a debugger goes on. `ServerStart` has it as an outcome (`Breakpoint`); the other modules model a server that goes on |
| The stop of both programs on a signal, the end of the client's `main`, the destructor of the static Logger | not reached: the client's signal set never delivers a signal, the client ends by `cuabort`, and nothing stops the server |
| asio, the method-invoke future, the atomic queue | libraries that are not in the repository; modelled from how the code uses them (marked external in `map`) |
| `context_lock` of Connection | no caller; `call_lock` guards one thread against itself |
| JSON syntax, the use counter of snapshots (nobody reads it) | a library; no effect on what other parts see |
| Messages pushed after `Logger::exit` has joined the worker | `exit` looks at the queue without the mutex and relies on nobody pushing any more |
| `totalOrder` of the log | a counter without a lock, which two threads can give the same value; only the text of a line depends on it |
| Most of `lyra.hpp`: groups, commands, positional arguments, choices, help texts, other styles; an option name with one dash that is bound to something | the two programs do not use them. The header is vendored, and with 5126 of 8497 lines it is more than half of the tree: the map covers an eighth of it, and most of the program's own code |
| Unit tests of the key classes | they exercise OpenSSL |

## 8. The plan

Done: all components with state of their own are modelled, and each safety property that a passing run checks is proved: those of SessionRoutes (with
its refinement of AddressPool), Connection, TunRouter, Tun, Sweep, Client, LogQueue with FlatMap, ServerStart and CommandLine. What would add most from here:

1. **Several connections in one Connection module**, with the router's one packet at a time between them, to replace the
   assumption on the client's TCP by a statement on what a client that does not read costs the others.
2. **Action properties of Connection and Tun** next to the invariants: that nothing follows the error frame on the stream, and that a cancel only
   ever meets a read that is pending.
3. **An abstract specification of the two AES streams** (a queue of packets in each direction, cut off by the close) that Client implements.
