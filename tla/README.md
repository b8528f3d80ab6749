# A verification development of tonutils

`tonutils` is an asyncio library for the TON blockchain: clients that talk to
lite-servers over ADNL/TCP, to HTTP services, and to the DHT over ADNL/UDP;
balancers over them; contracts and wallets; a block scanner.  Everything runs in
one event loop, so a race is between the awaits of tasks, never inside a step.
The modules here model what happens between awaits, TLC checks them on small
instances, and TLAPS proves the safety properties of these runs for all
instances: of the limiter that every request passes, the connection, the
balancers, the block scanner, the wallet, the clients, the monitors and the DHT.

Paths below are relative to the package `tonutils/`.

## Inventory

| Part | State | Operations | Hard behaviour | Correct when |
|---|---|---|---|---|
| Rate limiter `transports/limiter.py` | tokens, time of the last refill, count of priority waiters, a condition | `acquire`, `when_ready` | woken and timed-out tasks race; cancellation in a wait; priority | the rate holds, no waiter is forgotten, priority is respected |
| Retry `transports/retry.py`, `types.py` | attempts per rule, deadline | `send_with_retry` | rules interleave with a common deadline | attempts and time stay within the policy |
| ADNL TCP transport `transports/adnl/tcp.py` | connected and closing flags, streams, ciphers, reader task, queue of frames | `connect`, `close`, send, receive, reader loop | a session that ends during connect, close or flush | flags, streams, ciphers and reader belong to one session |
| Workers `transports/worker.py`, `providers/lite/{reader,pinger,updater}.py` | task, running flag, last block, last ping | start, stop, loops | errors end a worker; stop from within itself | the workers of a connected provider run |
| Lite provider `providers/lite/provider.py` | pending futures, lock, loop, limiter | connect, reconnect, close, queries | queries between limiter, send and answer while the session changes | queries end, close leaves nothing behind |
| Lite balancer `clients/lite/balancer.py` | error counts, cooldowns, health task | failover, connect, close, health loop | concurrent requests change the cooldowns that each relies on | a healthy server is found, close is final, lost servers return |
| HTTP transport `transports/http.py` | aiohttp session, who owns it, lock | requests, connect, close | session closed under a request, lock waiters | sessions it makes are closed |
| HTTP clients and providers `clients/http/{toncenter,tonapi}.py`, `providers/http/` | none | requests, get-methods, parsing | answers that are odd, errors that are answers | the libraries read alike what they both carry |
| HTTP balancer `clients/http/balancer.py` | error counts, cooldowns, round robin | failover | as the lite balancer, with limiters and retries inside | it gives up when all usable clients failed |
| Lite client, mixin `clients/lite/{client,mixin}.py`, `clients/base.py` | the provider's last block | typed queries, histories, get-methods, `dnsresolve` | the block reference moves under queries; pages join | reads go forward, histories are complete |
| ADNL UDP, channels, DHT provider `transports/adnl/{udp,channel}.py`, `providers/dht/` | peers, channels, sequence numbers, pending futures, parts of messages | bind, channel handshake, queries, reinit | lost, late, damaged and duplicated datagrams, concurrent handshakes, a reader that dies | nothing a call waits for is lost, closing goes to the end, messages are put together right |
| DHT network, client, codec `clients/dht/`, `providers/dht/codec.py` | buckets, node health, priority list | lookup, store | parallel queries, late answers, workers that wait for each other | the lookup ends, asks the closest nodes, stores go there |
| Block scanner `tools/block_scanner/` | queue of blocks, seen seqnos, stop event, stored seqno | start, resume, stop | splits and merges, stop and crash between steps | every block once, in order, none lost |
| Wallets `contracts/wallet/`, `contracts/base.py` | key and state_init, info; the guard's lock | transfers of every version, `SeqnoGuard`, gasless sends | errors, timeouts, lost answers, transfers past the guard | a confirmation means the transfer's own transaction, batches arrive whole |
| Status monitors `tools/status_monitor/` | loops, clients, status of servers, cached archive depth | run, stop, connect, updates, archive search | stop while connecting; failed probes, a `close()` that raises | stop leaves nothing it could close, the depth is right |
| CLI, jetton, NFT and DNS wrappers, models, configuration | none that interacts | data conversion, display | - | - |

A call goes from a client (or a balancer that picks one) to a provider, which
takes a token of the limiter, registers a future and writes to the transport; the
transport's reader task queues frames, the provider's reader worker takes them
and resolves the future.  Pinger and updater are users of the same path; their
results order the servers in the balancer, whose health task reconnects the lost
ones.  The scanner polls the updater's last block and queries through the
balancer.

## Modules

| Module | Models | Builds on |
|---|---|---|
| `TokenBucket` | what the limiter promises: a continuous token bucket (abstract) | - |
| `RateLimiter` | `transports/limiter.py` | implements `TokenBucket` |
| `RateLimiterProofs` | theorems about `RateLimiter` | `RateLimiter` |
| `PowersOfTwo` | 2 ** n as a recursive function (the provers know nothing of `^`) | - |
| `LockQueue` | who waits for an `asyncio.Lock`: the queue, and leaving it | - |
| `DataLemmas` | induction, recursion, sums, powers and queues, for the proofs | `PowersOfTwo`, `LockQueue` |
| `AdnlTcpTransport` | `transports/adnl/tcp.py`, its steps | - |
| `LiteProvider` | `providers/lite/*`, `transports/worker.py` | `AdnlTcpTransport` |
| `LiteProviderProofs` | theorems about `LiteProvider` | `LiteProvider` |
| `LiteBalancer` | `clients/lite/balancer.py` | `PowersOfTwo` |
| `LiteBalancerProofs` | theorems about `LiteBalancer` | `LiteBalancer`, `DataLemmas` |
| `ShardMath` | the shard arithmetic of the scanner | `PowersOfTwo` |
| `BlockScanner` | `tools/block_scanner/` | `ShardMath` |
| `BlockFeed` | what the scanner promises its handlers and a later run (abstract) | - |
| `BlockScannerProofs` | theorems about the scanner and its arithmetic; it implements `BlockFeed` | `BlockScanner`, `BlockFeed`, `DataLemmas` |
| `WalletMessages` | what a wallet of each version signs, `contracts/wallet/versions/` | - |
| `Wallet` | `contracts/wallet/{guard,base}.py`, `contracts/base.py`, gasless sends | `WalletMessages`, `LockQueue` |
| `SendsInTurn` | what the guard promises: transfers take turns (abstract) | - |
| `WalletProofs` | theorems about `Wallet`; it implements `SendsInTurn` | `Wallet`, `SendsInTurn`, `DataLemmas` |
| `RetryPolicy` | `transports/retry.py`, rules of `types.py` | - |
| `HttpTransport` | the session of `transports/http.py` | `LockQueue` |
| `HttpClients` | what a Toncenter or Tonapi client makes of a response | - |
| `HttpBalancer` | `clients/http/balancer.py` and the requests under it | the three above |
| `TransactionPages` | histories and block transactions, by pages | - |
| `LiteQueries` | the typed queries of `providers/lite/provider.py`, `clients/lite/` | - |
| `GetMethods` | stacks of get-methods in three libraries, `dnsresolve` | - |
| `StatusMonitor`, `ArchiveDepth` | `tools/status_monitor/` | - |
| `ClientsProofs` | theorems about the balancer and its parts, pages, `LiteQueries`, get-methods, the monitors | these, `DataLemmas` |
| `DhtNodes` | affinity, buckets, priority list of `clients/dht/models.py` | `PowersOfTwo` |
| `AdnlUdpTransport` | the channels of `transports/adnl/udp.py` with one node | - |
| `DhtProvider` | `providers/dht/{provider,reader}.py` | `AdnlUdpTransport`, `DhtNodes` |
| `DhtNetwork` | `clients/dht/network.py` | `DhtNodes` |
| `MessageParts` | `_handle_part()` of `providers/dht/reader.py` | - |
| `DhtProofs` | theorems about the three above | these, `DataLemmas` |
| `MC*` | instances for TLC | |

An action is what a task does between two awaits, named for the code; a comment
gives the function.  Times are ticks, and what is left of a timeout, not
absolute clock values.  Definitions whose comment says "mutant of X" are X with a
bug one could well write; no specification uses them, they are there to show
that each property fails when X is wrong.

### RateLimiter

`acquire()` holds the condition's lock except in `wait()`, so that a task's turn
of the loop is one action: `Take` (refill, token, notify, leave through
`finally`) or `Park` (refill, register, wait, with or without a timeout).
`Cancel` is a CancelledError raised in a wait.  Tokens are counted in units of
1/Period of a token, so that the rate is an integer per tick; the code's floats
are taken as exact numbers.  The order in which woken tasks get the lock is open.
`registered` holds the tasks whose local `is_waiting` is true.

### AdnlTcpTransport and LiteProvider

Every TCP connection is a session with a number; the writer, the ciphers and the
reader task are known by the session they belong to, 0 is None.  `closing` says
who runs `close()`: an operation of the provider, the task that the reader loop
starts when it ends, or a query whose flush failed.  Between the steps of these,
`LiteProvider` interleaves connect, reconnect and close (one at a time, by the
lock), the worker loops, queries that wait for the limiter or an answer, session
loss, and callers that give up (`CallerTimesOut`, as the balancer's `wait_for`
does).  `drain()` is taken not to suspend, since requests are far below the
high-water mark of a stream, but it may fail.  Error answers and malformed frames
are chosen freely.

### LiteBalancer

A tick is half a second.  `cool[c]` is what is left of a cooldown.  The choice
of `_pick_client()` among the servers that are alive depends on block heights and
ping times, which the network decides: the model lets it be any of them.  A "healthy" server is one that stays
connected and answers; the others drop, fail, time out.  One task connects and
closes the balancer; overlapping calls of `connect()` and `close()` are not
modelled.

### BlockScanner

The environment is a chain of one workchain whose shards advance, split and
merge, at most one of the last two per masterchain block; a shard splits or
merges only from blocks the masterchain already refers to, as TON demands.  The
scanner computes the ids of predecessors with `ShardMath` on integers, while the
environment names shards by address prefixes: `WalksTheChain` says that they
agree.  The network and the storage may raise at any await; the process may die
at any step, keeping only the storage.  Histories: `done` (blocks that were
handled, or that lie before the point where a run was started afresh),
`runDone`, `leftover`.  `start_from()` is modelled from masterchain block 1 on,
the walk to the zero state is not.

### Wallet

A call of `transfer()` and its kin is a task; its `pc` names the await it is at.
`Taken`, `Apply`, `RunLevel` and `Expire` are the network's: a message that a node
took may be applied, expire, or stay for ever; one whose answer was lost (`Lost`)
was taken all the same.  `Fields`, `MaxMessages` and `Levels` are read off the
version classes.  Servers answer with the newest state: the guard takes any change
of the seqno for progress, so an older answer, through a balancer over servers
that lag, would confirm a transfer before it is in a block.

`GuardConfirms` has two parts.  As long as every message in the network is of a
guarded transfer that did not fail, "sent" means applied.  Whatever else happens,
no two transfers are confirmed by one transaction.  After a timeout, or with
transfers past the guard, the first part does not hold: the late message of the
transfer that timed out confirms the next.

`Given` is the seqno a caller puts into `params`, which the message is signed with
whatever the account says: ahead of the account, the message waits or expires.  A
`valid_until` of the caller only says when, and `Expire` may come at any time.

### HttpTransport, HttpClients, RetryPolicy, HttpBalancer

The session of each client goes through `connect()`, `close()` and cancellations
of several tasks under `_connect_lock`, which is a queue.  A request of the
balancer is an attempt after the other; inside an attempt `send_with_retry()`
sleeps and tries again by the rules of the client's policy; inside a try
`_send_once()` waits for the limiter and then uses whatever session there is.
`RaiseError` turns the body of an error into the message that the rules look at.

What the models show besides the properties:

* `clients/http/balancer.py:233` promises an error only "If all clients fail", which
  is so for two clients and not for more: with three, two clients whose cooldown
  ends before the next attempt fails may take all the attempts.  `GivesUpLast` says
  what is so for any number: a usable client is passed over only if another was
  tried twice, with an attempt of a third between.  The run has three clients and
  gets there; without its second disjunct TLC finds the property violated.
* A transport given a session and closed makes its own on the next `connect()` and
  never closes that one, since `_owns_session` is fixed by the constructor
  (`NoSessionLost` leaves those clients out).
* `RetryLimitError` hides the code of the last error: under a policy that retries
  429 - the default one does - the balancer never sees a rate limit and applies
  the shorter cooldown.
* `_send_once()` looks at the session before it waits for the limiter.  Closed
  meanwhile, it raises what no failover catches (`TokenGranted`).
* The messages put in place of a page that says "502 bad gateway" or "503 service
  unavailable" hold none of the markers that the third default rule looks for;
  unless the status code is retried by another rule, such a page is not.

### TransactionPages, LiteQueries, GetMethods

`TransactionPages` is a history of logical times 1, 2, 3... that grows while a
call reads it; servers cut pages where they like.  `HistoryComplete` compares the
result with `Window`, what the call asks for at one moment.  `LiteQueries` has the
block reference `last_mc_block` moved by the updater and by queries that find
none.  Two `refresh()` overlap when the first queries of a connection find no
reference, and the later answer may set it back; `overlap` lasts from there until
nothing that asks for the reference is under way.  `ReadsGoForward`
excludes that time, and only that: from its end on no task reads an older block
than one it has had an answer about since; an answer that was under way at the end,
about a block that the reference has been set back behind, counts as one about the
reference.  `InfoState`
gives "nonexist" for an account that is not there; the branch of
`provider.py:846-848` is never taken, as 32 zero bytes are not false.  An empty first page
that claims to be incomplete would make `get_block_transactions()` index an empty
list; servers of the model do not send it.

`GetMethods` encodes and decodes stacks as each library does; lists and tuples
nest up to `Depth`, and what is nested is converted by a function that recurses
over the depth.  `ClientsAgree` is about each two libraries: on what both carry
alike (`Common`, `Portable`) a get-method gives the same through either, and
`dnsresolve()` ends the same.  What differs is in the models, and outside of that:

* A slice that holds an address is an `Address` for Toncenter and Tonapi.  Where
  `ton_core` reads it as one too (`VmAddresses`), the lite client makes a `Cell`
  of it again: `tests/unit/test_serialize.py` expects the first at 69-73 and
  140-144, the second at 211-215.  A cell that holds an address is an `Address` for all
  three.
* A list of the TVM is its elements for Toncenter and Tonapi, pairs within pairs
  for the lite client.
* "nan" is `None` for Tonapi; the model lets the others leave it out.  Builders and
  unknown entries become different things.
* Lite and Toncenter drop `None` from arguments, Tonapi drops lists, and later
  arguments move up.
* A missing result is an empty stack for Toncenter and an error for the others.

A resolver that answers 0 bits makes `dnsresolve()` ask the same again.

### StatusMonitor and ArchiveDepth

One server with its three loops, of which the fast one connects; `stop()` may come
at any moment, before `run()` too.  A `close()` of a client that raises is gathered and
forgotten (`refused`), and what that client had open may stay so.  `ArchiveDepth` is
the binary search, begun from the cached result, in days.  A search with failed
probes shows and caches a result that may be too small; `DepthFound` says that it is
never too large and never smaller than the one before, so that a later search makes
up for it.  It excludes archives that were pruned, which a search from the cached
value cannot notice.

### AdnlUdpTransport, DhtProvider, MessageParts

One node and the concurrent queries to it, over a network that keeps every datagram
for good, so that each may be lost, late or repeated.  A channel is known by the
key made for its handshake.  The node may restart and may keep an old channel.
The network may also damage a datagram behind the clear-text id it begins with.

The reader dies of what `decrypt_incoming()` raises: an answer through an earlier
channel after two handshakes with the node overlapped, or a damaged datagram of a
live channel (`udp.py:517-521`, `channel.py:118-119`), or one whose sender's key is
damaged.  `bind()` does not start a dead reader again while `_loop` is set, so every
later query of every node times out.  The first `close()` then raises half-way, at
`provider.py:190`: socket, channels and calls stay, and `_loop` too, until a second
`close()` goes to the end.  A call that only connects, over a channel that is there,
registers a query that it never sends and times out.  `NothingForgotten` is what
holds all the same: what a call waits for is where the reader and `close()` find it,
nothing else is registered or counted in flight, and a provider that can be bound
again has been closed to the end.

One task binds and closes the provider; a `close()` during `bind()` or a second one
in the turn of the loop in which the first still waits are left out.  An answer to
the bundled query that comes before the task has taken up its confirmation is kept, one for a channel not known yet is dropped.

### DhtNodes and DhtNetwork

Identifiers of three bits.  `AddToBucket` and `AddAll` give the set of results,
since the order among equally good nodes is by latency and age, which are open.
In a lookup `crew` counts the workers that are ready, waiting or woken, `asking`
the nodes of those at work; a worker that ends by an exception nobody catches is
not counted in `waiting_count`, so the others leave by their timeout and nodes
may stay unasked (`died`).  Judgements of a node object that a newer one replaced
in the bucket are kept apart (`orphans`).  Values are judged by `VerifyValue`;
whether they can be forged is not looked at.  `StoresOnClosest` is careful about
ties: a round of `store()` ends when it no longer improves the best affinity, so a
node left out may be as close as those that get the value, and even closer than
the others of them, but never closer than the best.

## Runs

| Run | Shows |
|---|---|
| `rate_limiter` | accounting of waiters, no lost wakeup, accurate timers, priority, the bucket refinement, and that waiters are served |
| `lite_provider` | one session's parts belong together, sockets have an owner, queries and operations end, workers serve, close is final - if `wait_closed()` ends before the next connection is made (`PromptClose`) |
| `lite_provider_slow_close` | violated without that premise: the old session's `close()` wipes the ciphers of the new session |
| `lite_provider_updater` | violated: an error answer ends the updater while the provider stays connected |
| `lite_balancer` | over two unreliable servers, with two requests: a failover ends and never goes straight back to the server that failed it; close is final; lost servers return |
| `lite_balancer_exhausted` | violated with three servers: two bad ones use up all the attempts |
| `lite_balancer_escapes` | violated: NotConnectedError and CancelledError leave the failover |
| `block_scanner` | blocks in order, once per run, none lost over crashes and errors, the scanner keeps up and stops - if it is stopped only while it waits (`StopsAnywhere = FALSE`) |
| `wallet` | what a confirmation of the guard means, that batches arrive whole and within the limit of actions, and that the guard's lock is always given back |
| `clients` | HTTP sessions and retries; failover among three clients; pages; lite queries; get-methods; monitor and archive search: each of these parts on its own (`part`) |
| `dht` | the calls of a DHT provider with a reader that may die, parts of messages, lookups and stores, each on its own |
| `block_scanner_stop` | violated otherwise: `stop()` during processing loses the queued blocks for a resumed scanner |

### Bounds

* `rate_limiter`: two tasks of each kind, so that tasks compete within a kind and
  across kinds; 2 tokens per 3 ticks, so that tokens come in between ticks and
  roundings show.  `elapsed` stops at Period, which fills any bucket.
* `lite_provider`: two sessions, one that ends while queries are under way and
  the one that replaces it; the user's query, the updater and the pinger make
  three queries at a time.  The run may stop when the sessions are used up, hence
  no deadlock check.
* `lite_balancer`: two requests, so that one may clear or extend the cooldown the
  other relies on; cooldowns up to 2 ticks, so that a second error doubles the
  first cooldown and a rate limit reaches the ceiling.  The violation with three
  servers takes one request.
  Requests need not be made, hence no deadlock check.
* `block_scanner`: three masterchain blocks after the first and six shard blocks:
  split, uneven advance and merge fit, with two blocks of a shard between
  masterchain blocks.  4-bit shard ids; a scanner is run again with at most one
  block in its queue (`MaxLeft`).  The chain ends, hence no deadlock check.

* `wallet`: two guarded calls, one that asks for a jetton wallet first, one past
  the guard, one through the relay; four versions, which are the four kinds of
  protection; 600 messages make three levels, 256 and 2 are one too many for
  their versions.  One guarded call was given the seqno of a wallet that is
  deployed, the bare one a seqno ahead of the account.
* `clients`: of the sessions and retries, two clients, one with a limiter and a
  policy of two rules, one with a session of its caller's; one request and two tasks
  that connect and close, of which two at most are under way, and tasks only while
  no error counts (`MCBound`): the session of a client matters to a call through
  `Open` alone.  Of the failover, three clients, the least with which one is passed
  over, and two requests, so that one may end or extend a cooldown the other relies on; there the tasks
  only connect, before the requests, and no call is retried.
  Delays of 1 and 2 ticks and a deadline of 2, so that both the count of a rule
  and the deadline end a call.  Four transactions in pages of two; a chain of
  three blocks, three calls by two readers and one lost connection; of the
  methods of a lite client one that reads an account, one that reads shards, one
  that refers to no block - the others behave like one of these.  Stacks nest up
  to `Depth = 4`: a list in a tuple in a tuple, which Toncenter decodes by another
  function than what is not nested.  Names of two bytes; the archive of six days.  Everything may stop, hence no deadlock check.
* `dht`: three calls, one of which only connects, and two keys, which is the first
  number of handshakes that can overlap; two messages of two and three
  parts; eight identifiers, buckets of two, k = 2, three workers, two calls.
  Symmetry of the two calls that are alike is sound, as the liveness property
  concerns the network part, which has none of them.

### Fairness

* The event loop runs every ready task: weak fairness of the steps that need
  nothing but a turn.
* Timeouts end handshakes and queries (`request_timeout`, `connect_timeout`), so
  they end even if no server ever answers.  No fairness is put on answers, on
  callers, on cancellations, drops or errors.
* `Tick` is weakly fair in the limiter: time passes.
* A server that is reconnected again and again is strongly fair in the balancer
  run: `LostAreReconnected` is about servers that can be reached in the end.
* In `Wallet` requests end and time passes during the polls; nothing is asked of
  the network.  In a lookup the steps of the workers are fair: queries and waits
  have timeouts.  Nothing is fair in the `clients` run, which has no liveness.
* `WaitersServed` and `PriorityServed` claim service only if new callers do not
  keep arriving: the condition's lock gives no order among woken tasks.

## Proofs

Every theorem is about the specification of the component alone and for every
value of its constants that the named assumptions of the module allow.  Bounds of
the models are constants too, so that the theorems hold whatever they are.  The
parts of the runs `clients` and `dht` have specifications of their own
(`MonitorSpec`, `DepthSpec`, `QueriesSpec`, `TransportSpec`, `ProviderSpec`,
`NetworkSpec`, `PartsSpec`, `PagesSpec`, `MethodsSpec`, and `Spec` of `HttpBalancer`), which the MC modules
interleave or choose from.

### RateLimiterProofs

For every `MaxRate`, `Period`, finite set of priority tasks and any set of normal
tasks (`RateAssumption` and `TaskAssumption`, which the constructor enforces or
asyncio implies):

* `InductiveInvariant`: `TypeOK /\ WaiterAccounting /\ NoLostWakeup /\
  TimersAccurate` is inductive.  None is inductive alone: that a registered
  waiter exists (`NoLostWakeup`) follows only with the exact count, the count
  only with finite types, and a timer's accuracy is kept by `Park` and `Take`
  only because `Take` wakes every sleeper.  The four properties follow.
* `PriorityFirst`: `NormalNeverOvertakes`, an action property, from the count.
* `Refinement`: `Spec => ImplementsBucket`.  The refinement mapping sends the
  bucket's level to the level a refill would give now; `Take` is `Grant`, `Tick`
  is the bucket's `Tick`, `Park` and `Cancel` stutter.
* `RateBounded`: with histories of ticks and grants, never more than
  `MaxRate + MaxRate * ticks / Period` grants, from the conservation of units.

### LiteProviderProofs

For any users and any number of sessions.  `IInv` ties the flags, the socket, the
ciphers, the reader task and the workers together at every await: `ClosePhases`
(what `close()` has undone in each of its phases), `OperationSteps` (what an
operation relies on between its awaits), `NoneLeftOpen` (only a handshake holds a
socket that is neither connected nor being closed).  It is inductive under
`PromptClose`, the premise of the run `lite_provider`; without it
`lite_provider_slow_close` refutes `SessionUsable`, so the premise stands in the
theorems as a hypothesis.  From it `SessionUsable`, `SocketsOwned`, `ReaderServes`
and `ClosedIsQuiet`.  The types and `WaitersReachable` need no premise.

### LiteBalancerProofs

For any servers, requests and cooldowns.  `ClosedStaysClosed` needs what `close()`
has done before it is through (`ClosingIsQuiet`) and that only the health task
reconnects (`JoinedByHealth`).  `NeverTwiceInARow` is an action property: the error
of the attempt leaves a cooldown of at least a tick, however high the error count
(`CooldownBounds`, from the powers of two), and what is in its cooldown is not
picked.

### WalletProofs

For any transfers and batches and every version.  `GuardInv`: a call that has read
the seqno is the head of the queue for the lock (`LockHeld`), the seqno it read is
above those of the calls confirmed before (`SeenOrder`), and as long as nothing
went around the guard or failed, the account leaves that seqno only by executing
its message (`OnlyOwnMessage`).  The two parts of `GuardConfirms` follow.
`BatchDelivered`: what is left in the levels of a batch and what was delivered
always make the batch, which rests on what the levels add up to for a batch of any
size - the lemmas on `Total`, `Packs` and `Levels`.

`GuardSendsInTurn`: `Spec => Turns!Spec`, with no hypothesis about failures or
about transfers past the guard.  In `SendsInTurn` there is no lock, poll or seqno
in a message: at most one guarded transfer has its turn, only in its turn is it
posted, once, and it is confirmed only after the wallet made a transaction since
its turn began.  The mapping gives the turn to the call that has read the seqno
(`Holders`) and takes its seqno for the count of transactions; reading
the seqno is `TakeTurn`, sending is `Post` (lost answers included), a poll that
sees progress is `Confirm`, an error or a timeout is `GiveUp`, and waiting for the
lock, polling on, expiry and the deliveries of a batch stutter.  It needs `GuardInv` and
that only guarded calls poll, after they sent (`GuardedPoll`).

### BlockScannerProofs

For shard ids of any width, chains of any length, any shards.

* `ChildAndParent`, `ShardsOneToOne`: the integer arithmetic of the scanner, with
  its wrap to 64 signed bits, follows the address prefixes, and an id belongs to
  one prefix.
* `WalksTheChain`, without further hypothesis, from `ChainInv`, which the network
  keeps: blocks build on blocks with lower seqnos (`Grounded`), the tips share no
  accounts (`TipsApart`) and nothing of their accounts is ahead of them
  (`TipsLead`), and in a masterchain block each shard gets a chain of blocks above
  what was there (`SeqnosGrow`, `TipsCover`, `ShardsGrow`).
* What the walk back from a tip finds (`Missing`, which branches at a merge) is a
  recursive function on blocks, ranked by seqno: `MissingStep` gives its equation,
  `MissingClimbs` what it returns, the unseen blocks of the shard up to the tip,
  oldest first, none twice, each after those it builds on.
* `SavedIsHandled`, `InOrder` and `OncePerRun` from `ScanInv`: what each await can
  count on (`Position`) and, unless `stop()` may find blocks on the queue, that
  every block up to the one at work has been handled (`NothingMissed`); what `seen` says was seen and that it says it of all tips
  (`SeenSoFar`), that what it says of new blocks was queued (`SeenIsQueued`), that
  each queued block comes after those it builds on (`InTurn`), what has been
  handed out (`HandedOut`), and that nothing is queued twice (`NoneTwiceQueued`).
* `ScannerIsFeed`: `Spec => Feed!Spec`.  `BlockFeed` knows no queue, no walk over
  shards, no `seen_shard_seqno` and no stop event: a block is given to the handlers
  when it is new in a masterchain block all before which is handled, when all it
  builds on is handled, and once per run; a number is stored when nothing up to it
  is missing.  What a run that was cut off has left on the queue (`left`) may be
  given again in any order, as the code does.  Taking a block off the queue
  is `Give`, the return of its handlers is `Finish`, the storage's `set` is `Store`;
  the walk, the waits and `stop()` itself stutter.

`OncePerRun` holds however `stop()` is called.  `SavedIsHandled`, `InOrder` and
`ScannerIsFeed` assume `~StopsAnywhere`, as the run `block_scanner` does: if `stop()` comes while a block is processed, the seqno is stored with blocks of it
still queued, which `block_scanner_stop` shows.

### ClientsProofs

* `StopLeavesNothing`: how far `stop()` has come says which loops it still waits
  for, and any other loop has ended or is yet to take its first turn, in which it
  sees the stop event.
* `DepthFound`, for an archive of any depth: what was found is there and is no less
  than what was cached, and what is unsearched begins right above it, unless a probe
  failed.
* `ReadsGoForward`, for any number of readers: while no two `refresh()` overlap
  (`OneRefresh`), one under way began without a reference and there is still none,
  the updater waits for the block after the reference, and what readers know or
  read is never above it (`BehindReference`); at the end of an overlap nothing is
  under way that could be behind it (`OverlapsApart`).
* `NoSessionLost`, for any clients and tasks: who holds the lock of a transport is
  the head of its queue, so a task in the middle of closing is, and the session it
  closed is not replaced before it leaves (`ClosesAtHead`).
* `RetriesWithinPolicy`, from the counts and times of each call.
* `GivesUpLast`, for any number of clients: no client is tried twice in a row
  (`InTurn`) - the first attempt leaves it a cooldown of at least a tick.  So a call
  that used up its attempts tried either every client, or one of them twice with
  another in between (`CalledAgain`, which counts the clients tried).
* `HistoryComplete`, for histories, limits and pages of any size: between pages,
  what was found is the history the account had at one moment of the call, from
  where it began down to where the next page does (`PagesJoin`).  The loop over a
  page keeps this or ends with all that was asked for (`ReadPageFacts`).
* `ClientsAgree`, for stacks, tuples and names of any size and lists nested to any
  `Depth`: what a client has returned is what the stacks give (`AnswersRight`), what
  its `dnsresolve()` came to is the verdict at the bytes it has left
  (`VerdictsRight`), and all clients are on one path from resolver to resolver
  (`OnePath`), so that the one ahead is where the other will be.  That the libraries
  make the same of a nested stack (`NestedSame`) is by induction on its depth.
* `BalancerKeepsTransport`: `Spec => TransportSpec`.  The balancer implements the
  transports alone, so `NoSessionLost` holds of it as well.

### DhtProofs

* `NothingForgotten` and `ProviderTypeOK`, for any number of calls and handshakes:
  keys of handshakes have one owner (`KeysOwned`), an answered future no longer waits,
  and each way a call ends takes what was registered for it (`CallEnds`).  `bind()`
  finds what `close()` left because `_loop` is cleared with the rest, last.
* `PartsReassemble`: the parts that are kept are parts of their message, and fewer
  than all of them are shorter in total, so that the sum of lengths that the
  code compares reaches the total with the last part only.
* `LookupAsksAll` and `StoresOnClosest`, for every `Width`, `Capacity`, `K`, number of
  workers and network: `NetworkInv` says that the priority list is the best of
  what was offered (`IsBest`, kept by `PriorityList.add` through `AddOneKeepsBest`
  and `AddAllKeepsBest`, whatever way ties are broken), that every node taken from it is asked or was asked before,
  and that a store has kept the best of those that answered and knows no healthy
  node closer than them.

### DataLemmas

The installed provers cannot use the library's induction rule, whose parameter is
an operator.  Instead a set of counterexamples has a least element (`LeastNat`,
from the well-foundedness of `<`, and `SetInduction` from it), and a recursive
function exists and satisfies its equation by `PrimitiveRecursion`,
`DescendingRecursion`, `BranchingRecursion` (two calls, on arguments of lower
rank), `RunningSum` and `StepRecursion`.  The models are written so that these
apply: recursion only in functions, over an index or blocks.

### Only model-checked

* All liveness (`WaitersServed`, `QueriesEnd`, `OperationsEnd`, `RequestsEnd`,
  `LostAreReconnected`, `KeepsUp`, `StopEnds`, `CallsEnd`, `LookupEnds` and their like):
  fairness and `ENABLED` are out of the prover's reach.
* The refinements `ScannerIsFeed` and `GuardSendsInTurn` are the other way round:
  theorems that no run checks.  TLC agrees with both under the bounds of the runs
  `block_scanner` and `wallet`, and refutes the first, at `Store`, with
  `StopsAnywhere = TRUE`.
* The theorems about the scanner and `LiteProvider` have the hypotheses named above.
  Without them `SavedIsHandled` and `SessionUsable` are false, as a run shows for
  each.

## Not modelled

* Frames, TL serialisation, cells, cryptography, wording of errors: they carry no
  state the properties look at.
* Sequence numbers and reinit dates of UDP packets.  By `reader.py:35-51` a late
  datagram of a node's previous incarnation can raise `confirm_seqno`; what the
  node makes of it is not in this repository.  Peers are known by their endpoint
  alone.
* The DHT client's names of services, and overlays above it; a `close()` of a
  provider that is still binding.
* Servers that lag, in `Wallet`; how a block is looked up (by seqno, lt or time);
  a configuration object shared between wallets.
* The wrappers of jetton, NFT, DNS and Telegram contracts, vendor presets, the
  command line, console output, the parsing of global configurations.
* `tonconnect/` and `utils.py` only say where their code has gone.

## Plan

Done: models of all parts; proofs of every safety property of the passing runs;
refinements of abstract specifications by the limiter, the scanner and the
wallet.  What is left:

1. Liveness, which stays with TLC until the provers reach fairness.
2. Abstract specifications of the connection (one session, whose end everyone
   hears of) and of a DHT lookup, with refinements like the three above.
3. The wallet over servers that lag, where a confirmation needs what the code does
   not ask for: that answers come from one server.
