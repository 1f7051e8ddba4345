# bzapi: a verification project

bzapi is the client library of the Bluzelle database. A client calls it from its own thread; one
io thread, started by `bzapi::initialize`, runs every network and timer handler. This directory
holds TLA+ models of the library, its registry reader and its command line program, the TLC runs
that check them on small instances, and TLAPS proofs of their safety properties for instances of
every size.

## The system

| component | state | operations | hard behaviour |
|---|---|---|---|
| `db_dispatch` | `next_nonce`, `messages` (per nonce: responses, required number, retry timer, timeout timer, handler) | `send_message_to_swarm`, response and error handlers, two timer handlers, `has_uuid`, `create_uuid` | two threads without a lock; responses, retries and timeouts in any order; faulty nodes |
| `swarm` | node list, primary, fastest node, status timers, `init_handler` | `initialize`, `send_request`, status requests and answers, message dispatch | the list is replaced while the client's thread, callbacks and timers still refer to the old one |
| `node` | connection state, current websocket, send queue, backoff | `send_message`, connect, write, read, close and timer handlers | handlers of an old connection run after a new one was made, or after the node is gone |
| `swarm_factory` | registry of swarms, cache `swarm_dbs` | `initialize`, `has_db`, `create_db` with retries | the contract changes and requests fail while it is read; many swarms answer one question; creations race and fail |
| `esr`, `http_req` | none of their own | requests to the contract, two parsers of its replies, one blocking exchange | lines and sizes counted by hand |
| `udp_response` | promise, result, error, port to notify | completion by the io thread; `set_signal_id`, `get_result`, `get_error` by the client | completion against waiting and registration |
| `library` | `initialized`, the singletons, the io thread | `initialize`, `terminate`, has/create/open in a blocking and an asynchronous form | failure half way, termination with requests outstanding |
| `async_database`, `database` | `init_state`, swarm, uuid | one method per database operation; each sends one message and translates its response | which errors reach the client |
| `bzapi-cli` | its command line | one handler per command | seven ways out of `main`, with a thread to join |
| `crypto`, `log`, boost wrappers | none of their own | signing, formatting, I/O | none that interleaves |

How they interact: the client's thread enters through `library` or `async_database`, which make
a `udp_response` and call `swarm_factory` or `db_dispatch`. `db_dispatch` stores the request,
and `swarm::send_request` hands it to one `node` or to all. A `node` posts to its strand,
connects if need be and writes. Answers come up the same way on the io thread: `node::receive`,
`swarm::handle_node_message`, the handler registered for the payload (`db_dispatch` or the
swarm's own status handler), and finally the handler of the request, which completes the
`udp_response` and may itself issue requests (`create_uuid` after `has_uuid`).

What makes each part correct:

- `db_dispatch`: one call of the handler per request, with an answer enough nodes agree on, or a
  timeout; and it comes.
- `node`: messages are delivered in order and once, one write at a time, no lost wakeup.
- `swarm`: every listed node stays polled, requests go to nodes that exist, the fastest node is
  the fastest, `initialize` completes once.
- `swarm_factory`: nobody is sent to a swarm without the database; every operation calls back.
- `esr` and the registry: the registry holds what the contract lists, neither more nor less, and
  nothing of a contract that could not be read to its end.
- `udp_response`: one notification, when the result is there; the result is the outcome.
- `async_database`: a failure of the swarm, a timeout included, reaches the client as an error.
- `library`: every outcome is decided once, databases handed out can be used, sessions do not
  disturb each other, and whoever waits gets an answer.
- `bzapi-cli`: it ends, with the library terminated, and its code tells what was done.

## Modules

| module | models | role |
|---|---|---|
| `AsyncRequest` | the promise of `send_message_to_swarm` | abstract specification: issued, then completed once with a legitimate outcome, or abandoned where an error allows it |
| `DbDispatch` | `db_dispatch`, `swarm::honest_majority_size` | detailed specification, refines `AsyncRequest` |
| `Node` | `node` | connection and queue |
| `Swarm` | `swarm` | node list and status polling |
| `SwarmFactory` | `swarm_factory`, over what `AsyncRequest` promises of `has_uuid` and `create_uuid` | lookup and creation |
| `Esr` | `esr_peer_info` | requests and parsers as operators |
| `Registry` | `swarm_factory::initialize` and `update_swarm_registry`, `http_req`; the contract is external; extends `Esr` | reading the registry |
| `UdpResponse` | `udp_response` | io thread against client's thread |
| `AsyncDatabase` | `async_database_impl`, over `AsyncRequest` | results of the methods |
| `Library` | `library`, `database_impl`, `async_database_impl::open`; composes `SwarmFactory` and `AsyncDatabase` | the client's view |
| `Cli` | `bzapi-cli`; extends `Library` | a whole program around the library |
| `DbDispatchProofs`, `NodeProofs`, `SwarmProofs`, `SwarmFactoryProofs`, `UdpResponseProofs`, `RegistryProofs`, `LibraryProofs`, `CliProofs` | | theorems about the module they extend |
| `MC*` | | instances for TLC |

Operators ending in `_Something` preceded by a comment `Mutant` are altered forms of the
definition that follows them; each stands for a plausible mistake in the code and breaks the
property it is listed with in `PROJECT.json`.

### DbDispatch

One action per step of `send_message_to_swarm` that the other thread can see: `ReadNonce`,
`SetupTimers`, `StoreInfo`, `SendRequest`; one per asio handler: `HandleRequestTimeout`,
`HandleClientTimeout`, `HandleSwarmResponse`, `HandleFatalError`, `HandleDuplicateError`.
Handlers run to completion and only while the io thread is not inside a call of its own
(`IoIdle`). A timer is the set of its waits: `cancel` and destruction drop an armed wait but not
a queued one, which is how asio behaves and what makes a late timer find another message or
none. Requests carry abstract values; an honest node answers `Answer[r]` to the request it
received under a nonce. A faulty one sends any value and reports any error for any message at
any time: signed under its own name, or unsigned under any name, the empty one included
(`MayReply`, `MayReport`). As in the code a response is exempt from the signature by its own
payload (`QuickValues`: it is a quick_read response), whatever was asked (`SignatureOk`), and it
is filed under the sender its envelope names. So one faulty node can decide a request with a
quick_read payload, and the properties about quorums are about the other payloads.

`crashed` records what brings the io thread down: a null retry timer that is dereferenced, or
the assertion of `qualify_response`. `dropped` records the requests a fatal error has erased.
`AsyncRequest` has both: a request whose thread or message is gone is abandoned, and nothing
happens to it any more.

Abstractions: messages that are ignored (unknown nonce, unparsable, unsigned where a signature
is needed, `TOO_BUSY`) are stuttering steps. Handlers of requests do not throw. The operations
on the map are atomic; the data race on the tree itself is outside the model. A request issued
by a handler is a separate call that starts after the handler. `sends` saturates at `MaxSends`.

### Node

The connections made by `connect()` are numbered; `websocket` is the one the member points at.
Handlers do not know their connection, so each action takes the connection `k` it belongs to and
acts on `websocket` and `state`. A lost connection is `broken` until an operation notices.
`writes[k]` records whether the websocket was open when the write began; a write that fails on
such a connection may have reached the peer or not (`Arrives`). A secure stream whose ssl
handshake fails drops the handler (`HandshakeDropped`): the connection stays `dropped` and the
node `connecting`. `failure` records the assertion of `schedule_send` and the `pop_front` on an
empty queue, and the use of a node that is gone.

`Destroy` is the owner dropping the node: its members go, with an armed wait of the timer and
with the websocket unless a read or a close holds it. The handlers under way still run
(`LateConnection`, `LateRead`, `LateWrite`, `BackoffDone`) and find the weak pointer empty; the
write handler calls its callback all the same. The wait handler is the one that does not look:
`LateExpiry = FALSE` keeps the node alive while an expired wait is queued; with `TRUE` the
handler of that wait may use a node that is gone. The buffer of a write belongs to the queue,
which goes with the node: what is left is delivered whole or not at all, garbled bytes are left
out.

### Swarm

`nodes` are the keys of the current list, `blank` those with a null node. A status answer is one
step, as it is one handler; the client's `send_request` is two, the copy under the mutex and the
choice, since the io thread may replace the list in between (and has put null entries into the
copied one). The polls of a node are counted by phase; a write whose callback refers to an entry
of a replaced list is `stale`, and what its failure does is a nondeterministic choice between
the entry's memory being intact and not. A dropped node is destroyed with the old list, with its
queue and its connection, but the handler of the write it had under way still calls back, and
uses an entry and a timer that are destroyed (`gone`, `GoneWriteEnds`): that may do nothing, arm
a wait, or be the end (`failed`). Signing, `get_status` and the times shown by it are left out.
The peer list of a status is not empty.

### SwarmFactory

The answers of `has_uuid` and `create_uuid` come once per call and in any order; `exists` is
what the swarms really hold. `select_swarm_for_size` is the index it computes. The registry is
fixed: `update_swarm_registry` runs before any operation (`Registry`). By itself the module is
checked under the assumption that every request is answered; `Library` has the ones db_dispatch
drops.

### Esr and Registry

`Esr` translates the requests and the two line by line parsers to operators on bytes: two hex
digits are one byte, and a line has `LineBytes` of them, 32 in the code. A parser is a fold over
the lines whose accumulator holds the variables of the loop. What is only logged (counts and
sizes that do not agree) changes nothing and is left out. The JSON around the data is left out
too: a reply that is not JSON or has no result throws.

`Registry` puts them against the contract they are written for, by the rules of the ABI: it
decodes the request it gets, finds the swarm or the node, and encodes the reply. `initialize` is
one request per step; between two steps the contract may gain a node or lose a node or a swarm,
which leaves an element with an empty id, and each request may throw (`RequestThrows`), which
leaves `initialize`. `Decoded` compares what the parsers make of a reply with what the contract
meant: the check of the requests and the parsers against a reference. The other two properties
compare `swarm_reg` with the contents the contract had (`listed`) and with what was taken out of
it (`removed`): the loops around the requests. `http` says whether the contract has the HTTP
port that `GET_PEER_INFO_ABI` lists among the outputs of `getNodeInfo`: the constant is not used
by the code and the parser has no line for the port, so both forms are modelled. `Readable` is
what the parser of addresses can read, an address without that port and with a host of one byte
to one line. The properties are about all contracts: of a node whose address is not readable
they say that it is registered, and that nothing else is misread because of it. Ids are texts
without zero bytes, and no two swarms, and no two nodes of a swarm, have the same
(`WellFormed`).

### UdpResponse

`set_error` is two steps, the promise and the signal; `set_signal_id` and `signal` exclude each
other by the mutex. `get_error` only reads `error_val`. Whether a response is completed at all
is left open: fatal errors, a swarm without a status and `terminate` leave some uncompleted.

### AsyncDatabase

One operator per method: the result its handler stores for an answer of the swarm. A
`database_response` is a oneof, so it has an error or a payload and reading the other gives an
empty message; this is what the timeout of a quick read meets. The error codes db_dispatch could
pass, and never does, are left out, as are keys and values.

### Library

A step of `SwarmFactory` and the callback it runs are one step, as in the code: `WithCallback`
looks at what the step appended to `results` and completes the response, or opens the database.
`FirstStatus` stands for the first status answer of a swarm (`Swarm` has the details) and ends
with the promise, the first thing the client can notice: the database is set before.
`DropRequest` is a request that db_dispatch erases for a fatal error: it is never answered
(`lost`), and its handler lets go of the swarm. `set_error` on the io thread is two steps, so
that a blocking call may read the error before it is stored. A swarm lives while something holds
it (`Held`): the registry has a weak pointer only, and a new swarm object can be initialized
again. The client is one thread; databases of a session that has ended are not called. A second
completion of a response throws (`thrown`), and what follows is not modelled: `node.cpp:182`
catches what leaves a handler of a message, what leaves a timer handler ends the process. A
malformed endpoint and a registry that cannot be read (`unread`) are the failures of
`initialize`; the second leaves the io thread running and the error 0. A bad private key is not
noticed by the code.

### Cli

The command line is chosen in `CliInit`: what `program_options` refuses, help, a configuration
that is unreadable or has a member of another type, a missing uuid, command or option.
`MainStep` is the main thread: the checks of `main`, the handler's call of `initialize`, of
`has_db`, `create_db` or `open_db`, of the method, the destruction of the database, and the way
out. The calls are the actions of `Library`; those of the io thread interleave until the process
exits. A process that ends with its io thread not joined ends in `ABORT`: the thread is a global
whose destructor terminates. Option texts, `--timing`, `--verbose` and what is printed are left
out.

## Runs

| run | instance | checks |
|---|---|---|
| `dispatch_safety` | 2 requests (one quick read), 4 nodes with 1 faulty, majorities for 3 and 4 nodes, answers signed and unsigned under any name, all errors | `HandlerAtMostOnce`, `QuorumBacked`, `AgreedAnswer`, `UnansweredTracked`, `TrackedTimesOut`, `TrackedRetries`, `NoCrash` |
| `dispatch_live` | the same with 3 nodes of a list of 4, fair | `ImplementsAsyncRequest` |
| `dispatch_too_large` | 4 honest nodes that report `TOO_LARGE`, fair | `EveryRequestAnswered` fails |
| `node_connect` | 3 messages, connects and handshakes that fail, reported or not, handlers that throw, 4 connections, fair | `ExactlyOneSender`, `InOrderExactlyOnce`, `CallbackCalled` |
| `node_faults` | 2 messages, every fault, 1 lost connection, the destruction of the node at any time, 3 connections | `SomebodyActs` |
| `factory_many` | 2 swarms, 2 databases, a lookup and two creations, failures, fair | `CacheSound`, `GoodNewsTrue`, `BadNewsOnce`, `EveryOpCallsBack` |
| `registry_read` | contracts of 0, 1 and 3 swarms with 0 to 3 nodes, removed elements, texts of 0 to 4 bytes in lines of 3, with and without an HTTP port, 3 changes while it is read, failing requests | `Decoded`, `RegisteredWasListed`, `StableNodesRegistered` |
| `response_live` | 2 ports, success and error, 4 client calls, fair | `NotifiedOnceWhenReady`, `ResultOnce`, `NotificationArrives` |
| `swarm_faults` | 2 nodes of which one joins, 2 initializations, every fault, 4 status answers, 1 client request | `InitHandlerOnce`, `ListedNodesPolled`, `FastestIsFastest` |
| `library_session` | 2 swarms, 1 database that is created, opened and looked up in blocking and asynchronous form, 1 call of a method, failing and dropped requests, 2 initializations from good and bad endpoints and registries, fair | `OutcomeOnce`, `DatabasesUsable`, `AbortedOnlyUnread`, `QuietAfterTerminate`, `EveryOperationEnds`, `BlockedClientGoesOn` |
| `library_quick_read` | 1 swarm, 1 quick read | `QuickReadTruthful` fails |
| `cli_command` | every command and every kind of command line, 2 swarms, failing and dropped requests, a registry that may be unreadable, fair | `CleanExit`, `SuccessMeansDone`, `FailuresReported`, `ProgramEnds` |

The `TypeOK` of the modules document the types of the variables. They are proved
(`TypeCorrect`), hold on the instances above, and are not properties of the runs.

Why the bounds are enough. Requests meet each other only through a shared nonce, a shared thread
or the shared counter, so two show every pairwise effect. Four nodes are the smallest swarm that
tolerates a fault (majority 3); size 3 has majority 1 and reaches the other branch of
`qualify_response`. `MaxSends = 2` tells the first transmission from a repeated one, which an
honest node may call a duplicate. In `dispatch_live` three of the four nodes answer, one of them
faulty, so that a majority takes the faulty node or does not come. In `Node`, three messages
give a first, a middle and a last; two messages, one loss and three connections are the smallest
instance in which the handlers of a lost connection act on its successor (and there the
assertion of `schedule_send` fails, see the observations). In `Swarm`, four answers let a node
join, leave, rejoin and be polled again. In `SwarmFactory`, two swarms are the smallest number
for which one swarm's answer is not the last, and two operations share a database. The client of
`UdpResponse` can make every call, one of them twice. In `Library`, two initializations give a
failure or a session before a session, the creation and the opening of one database contend for
its swarm, and two swarms are the number from which swarm_factory calls back twice. In
`Registry`, three bytes to a line make a text of four, a host for instance, cross one, three
elements have a first, a removed and a last, and three changes remove a node and the swarm
around it, or add a node, remove it and add it again. `Cli` runs one command per process, which
calls the library once and the database at most once.

`CHECK_DEADLOCK FALSE` is set everywhere: a client that has made its calls is done.

Fairness. `DbDispatch`: a thread inside a call goes on, the clock runs, the io thread gets to
every expired timer; no node has to answer. `Node`: asio completes connects and closes, reports
a lost connection to its reader, and timers expire. Handshakes and writes have no timeout in
`boost_asio_beast.hpp`, so nothing is assumed of them, and `CallbackCalled` names one that never
ends as an exception. `SwarmFactory`: every request is answered, an assumption that db_dispatch
keeps for requests no node declares too old or too large. `UdpResponse`: a completion that was
begun ends; none has to begin. `Library`: db_dispatch answers every request it has not dropped
while the io thread runs, which is the liveness of `AsyncRequest`, and a client whose result is
there goes on; no status has to come and any request may be dropped, and the liveness properties
say so (`MayWait`). `Cli`: the main thread goes on unless it waits or reads the registry, and
the same of db_dispatch. `Registry` and `Swarm` are checked for safety only: nothing in the code
bounds the time a request for the registry takes, or makes a status answer come.

## Proofs

Each theorem holds for every value of the constants that satisfies the assumption named with its
module and the hypotheses of the theorem; sets of requests, nodes, messages, swarms, databases
and operations have any size, the counters any bound. Every safety property of a passing run is
the conclusion of a theorem, but for `Decoded` of `Registry`. The argument is always the same:
an inductive invariant, checked by TLC on the module's run first, one lemma that says `Init`
establishes it and one that says each action preserves it, with a step for each action.

The prover does not reason about fairness, so the liveness properties themselves are TLC's. What
can go wrong with them in this code is not the scheduling but a lost obligation: a request, an
operation or a client in a state from which nothing will bring it on. That is a safety property,
and it is proved for each of them:

| liveness property | its safety core | theorem |
|---|---|---|
| `ImplementsAsyncRequest` | `AnswerAhead` | `NothingUnanswered` |
| `CallbackCalled` | `OnItsWay` | `NothingStranded` |
| `EveryOpCallsBack` | `NeverForgotten`, `AnswersRunOut` | `NoOpForgotten`, `AnswersAlwaysRunOut` |
| `NotificationArrives` | `NotificationNotLost` | `NoLostNotification` |
| `EveryOperationEnds` | `NothingForgotten` | `NoOperationForgotten` |
| `BlockedClientGoesOn` | `MethodUnderWay` | `NoMethodForgotten` |
| `ProgramEnds` | `MainWaits` | `NeverWaitsInVain` |

With the core, what liveness needs besides is that the steps fairness names are taken, and that
only finitely many of them come before the goal; the second is `AnswersRunOut` for the retries
of `SwarmFactory`.

### DbDispatchProofs

- `TypeCorrect`: `[]TypeOK`.
- `AtMostOnce`: `[]HandlerAtMostOnce`. The invariant is `Lifecycle`: a tracked request was
  stored and not answered, an answered one is not tracked, and a request not yet stored has
  neither answer nor call. Only with this does the erasure in the same step as the call exclude
  a second call. It needs no hypothesis on threads, nonces or timers.
- `TimeoutNeverLost` and `RetryNeverLost`: `[]TrackedTimesOut` and `[]TrackedRetries`, if no
  timer expires before its message is stored (`EarlyExpiry = FALSE`). `TimeoutAhead` and
  `RetryAhead` add that a request between the arming and the insertion still has its wait armed.
  A message overwritten under the same nonce leaves the map, so nonce collisions do not matter
  here.
- `QuorumAlwaysBacked`: `[]QuorumBacked`, for any faulty nodes. `ResponsesHeard` adds that every
  stored response that is no quick_read payload was signed by the node it is filed under; a
  quorum of stored equal responses is then a quorum of nodes, by cardinality
  (`QualifiedIsBacked`).
- `AnswerIsHonest`: `[]AgreedAnswer`, if no request is issued on the io thread (`IoRequests =
  {}`). `Nonces` says that the calls then have distinct nonces below `next_nonce`;
  `HonestReplies` that an honest node's answer to a tracked request is the answer to this
  request; `QuorumAgrees` that a quorum larger than the faulty set has an honest member.
  Quick_read payloads are not signed, so nothing of the kind holds of them.
- `NeverCrashes`: `[]NoCrash`, if `IoRequests = {}`. Timers and errors find messages by nonce;
  `Nonces` makes them find their own (`FindsItself`), and `Unretried` says that a quick read,
  whose retry timer is null, is sent once and never armed, and that a request which needs one
  response holds none. What remains is the `DUPLICATE` for a quick read that was transmitted
  once, which brings the io thread down.
- `NeverForgotten`: `[]UnansweredTracked`, if `IoRequests = {}`: only `TIMESTAMP` and
  `TOO_LARGE` erase a message without calling its handler. `StoredTracked` starts at the
  insertion rather than at the sending.
- `Refinement`: every behaviour satisfies the initial predicate and the next-state relation of
  `AsyncRequest` under the mapping of `Abstract`, with every error and any behaviour of the
  faulty nodes, if `IoRequests = {}` and every size the node list may have outvotes the faulty
  nodes (`MajorityHonest`). `ReadNonce` is the abstract issue, a call of the handler the
  abstract completion, a fatal error or a crash the abandonment of one request or of all that
  are pending, every other step stutters. `MajorityRequired` says that the required number was
  that of some list; with `AgreedAnswer` the value is then legitimate.
- `NothingUnanswered`: `[]AnswerAhead`, from `NeverForgotten` and `TimeoutNeverLost` and under
  their hypotheses: a request that was issued is being sent, was answered, was dropped for a
  fatal error, or is tracked with its client timeout ahead of it.

The hypotheses `EarlyExpiry = FALSE` and `IoRequests = {}` are places where the code is not
safe: see the observations.

### NodeProofs

- `TypeCorrect`: `[]TypeOK`, under every fault.
- `OneSender`, `InOrder` and `LosslessSafe`: `[]ExactlyOneSender`, `[]InOrderExactlyOnce` and
  `[]HandlersSafe`, if no connection is lost (`NoLoss`: attempts to connect may fail and the
  message handler may throw). `Link` says that at most one connection is under way or open, and
  that `state` and `websocket` name it; `Reading` that only the open one is read; `Sending` that
  a connected node with messages has exactly one write of the front of the queue, one armed wait
  or one expired one, and otherwise none. With losses the three properties fail, see the
  observations.
- `AlwaysSomebodyActs`: `[]SomebodyActs`, under every fault, with any number of lost connections
  and the destruction of the node at any time. Here `Link` does not hold: late handlers close
  and reconnect over each other. The invariant adds only that a node which is connected, or
  about to be by the handler of a handshake, has a websocket to write to (`HasWebsocket`); the
  step that connects the node then begins a write or a wait, and the step that ends one begins
  the next or reconnects.
- `DroppedInOrder` and `DroppedDelivered`: `[]InOrderCutShort` and `[]DeliveredOnce` for any
  number of messages and a node that may be destroyed, if no connection is lost and no expired
  wait is queued when it is (`Droppable`). `Destroy` breaks `Link` and `Sending`, so the
  invariant is a disjunction: they hold, or the node is gone and at most one write of the next
  message is left of it (`LeftBehind`), whose message may still arrive and be called back.
  `InOrderExactlyOnce` does not survive this, since the queue is gone; what does is that
  deliveries and callbacks are each a beginning of what was accepted.
- `NothingStranded`: `[]OnItsWay`, if no connection is lost: a message that was not called back
  has an attempt to connect, a write or a wait under way, unless the last attempt to connect
  failed or the secure stream dropped its handshake. `AttemptUnderWay` adds that a connecting
  node has its attempt.

### SwarmProofs

`TypeCorrect`, and `[]InitHandlerOnce`, `[]ListedNodesPolled`, `[]FastestIsFastest`
(`InitHandlerAtMostOnce`, `NodesStayPolled`, `FastestAlways`), without further hypotheses. The
invariant adds that a node that is not listed has no latency and no request on its way whose
failure an entry would hear of (`Unlisted`), which is why one that comes back is polled anew and
does not become the fastest by an old latency; and that a call of `initialize` that waits was
told nothing (`HandlerWaits`).

### SwarmFactoryProofs

`TypeCorrect`, and `[]CacheSound`, `[]GoodNewsTrue` and `[]BadNewsOnce` (`CacheAlwaysSound`,
`GoodNewsAlwaysTrue`, `BadNewsAtMostOnce`), for any number of swarms. The invariant adds that
the counter the answers share is the number of outstanding ones (`Counted`), that an operation
creates only after it has asked (`Phased`) and that bad news comes last (`BadNewsLast`): the
counter reaches zero with the last answer and with no other.

`NoOpForgotten` says that an operation that was begun and told nothing has a request
outstanding, if there is a swarm at all (`NumSwarms >= 1`: with an empty registry `has_db` asks
nobody and never calls back). `AnswersAlwaysRunOut` is the termination argument: each answer
decreases `Remaining`, the swarms still to answer and the creations they may still lead to, and
leaves that of the other operations alone.

### UdpResponseProofs

`TypeCorrect`, and `[]NotifiedOnceWhenReady` and `[]ResultOnce` (`NotifiedOnce`,
`ResultGivenOnce`). The invariant is the order in which the io thread writes (`Completion`),
that a notification is owed or sent but never both (`Notification`), and that the call which
took the future is waiting or has returned (`Retrieval`).

`NoLostNotification` (`Owed`): whichever of `signal` and `set_signal_id` comes second finds what
the first has left.

### LibraryProofs

- `AbortsOnlyUnread` and `QuietOutsideSessions`: `[]AbortedOnlyUnread` and the action property
  `QuietAfterTerminate`, without hypotheses. `SessionInv` says that outside a session the io
  thread runs only if a registry could not be read, and that it then has nothing to do (`Idle`:
  no request outstanding, nobody who waits for a status).
- `FailuresAlwaysReported`: `[]FailuresReported`, for methods the library has (`MethodNames`).
  `MethodsInv` says that what is stored is the handler's result for the answer.
- `TruthInvariant`: results are true, for any number of swarms. It contains the invariant of
  `SwarmFactoryProofs`, which is instantiated with the library's variables (`FP`), so that its
  lemmas are used here and not proved again: a step of the library is a step of `SwarmFactory`
  with its callback, or leaves its variables alone.
- `OutcomeDecidedOnce` and `DatabasesAlwaysUsable`: `[]OutcomeOnce` and `[]DatabasesUsable`, for
  any number of swarms. `DecidedInv` says that an operation which is complete or waits for a
  status was reported by `swarm_factory`, and that with one report it is one of the two, on one
  swarm, so that a second completion needs a second report; `UsableInv` that a swarm that is
  waited for or has a database is initialized and stays so. `OneSwarmNeverThrows`: with one
  swarm a report is the last thing `swarm_factory` does for an operation (`OneReport`), and no
  handler throws (`StageInv`). With two it does, see the observations.
- `TypeCorrect`: `[]TypeOK`, which contains that `init_called` names only swarms someone holds,
  the model's form of the weak pointers of the registry of swarms, and that one operation at
  most waits for a swarm.
- `NoOperationForgotten`, for any number of swarms but none: `ReportInv` says that an operation
  `swarm_factory` has not reported is at work, and one it has reported is complete or waits for
  a status; `HandlersInv` that a swarm which is waited for refuses another handler, so that no
  handler is overwritten. The exception is an operation one of whose requests was dropped.
  `NoMethodForgotten` says the same of the methods of databases.
- `RunsFactory` and `ImplementsFactory`: the factory inside the library takes the steps of
  `SwarmFactory` and no other, except that a new session replaces it (`FactoryReplaced`); with
  one session (`MaxInits <= 1`) the library implements `SwarmFactory!Spec`, since replacing a
  factory nobody has used changes nothing (`FirstSession`).

### CliProofs

It extends `LibraryProofs`. `ExitsCleanly`, `[]CleanExit`, has no hypothesis: `ExitInv` says
that the io thread runs without a session exactly if the registry could not be read, which is
when the process is aborted. `SuccessIsTrue`, `[]SuccessMeansDone`, is for any number of swarms
and the methods of the commands (`AllMethods`). Every step of the program is a step of the
library or leaves it alone (`LibraryStep`), so `TruthInv` and `MethodsInv` hold here too;
`SuccessInv` says what main knows at each place.

`UsesLibrary` is the refinement this is: `CliSpec` implies the `Spec` of `Library`, the
variables of `Library` being variables of `Cli`. `NeverWaitsInVain`, `[]MainWaits`, uses it to
take over the theorems about any number of swarms but none: where main waits, the session is
open, its thread runs, and an answer, a first status or the result is there or on its way, or
db_dispatch has dropped a request of the call. `Blocking` says that the operations main calls
are the blocking forms.

### RegistryProofs

`NothingInvented` and `NothingLost`: `Spec /\ []Decoded` implies `[]RegisteredWasListed` and
`[]StableNodesRegistered`, for contracts of any size, any newcomers and any number of changes.
The work is divided: that the parsers understand the contract, as far as addresses are readable,
is `Decoded`, which `registry_read` checks; that the loops put together what the parsers give,
while the contract changes under them, is proved. The invariant says of the registry under
construction what the properties say of the finished one: it invents nothing (`SoundSoFar`), it
has the right address of every node with a readable one that was there all the time
(`RightSoFar`), and such a node is entered, or its swarm or the node itself is still to be read
(`CompleteSoFar`). The proof needs that removed nodes are told apart from those that came back,
hence the history `removed`: a node that is listed, removed, asked for and added again is
entered without host and port although the contract lists it at the end.

### Only model-checked

- Everything with fairness: `CallbackCalled`, `EveryOpCallsBack`, `NotificationArrives`,
  `EveryOperationEnds`, `BlockedClientGoesOn`, `ProgramEnds`, and the liveness part of
  `ImplementsAsyncRequest`. Their safety cores are proved, see above.
- `Decoded` of `Registry`: the parsers are folds over the bytes of a reply, and that they give
  back what the contract encoded is an induction over data, which the provers cannot do.
- The types of the variables of `Cli` and `Registry`, of which the invariants above contain what
  the proofs need.

## Observations

Kept as runs that end in a violation: the `TOO_LARGE` error that never times out
(`dispatch_too_large`) and the quick read whose timeout looks like a success
(`library_quick_read`). Seen with the same models, with the constants or the property named, and
not kept as runs:

- After a lost connection the late read error of the old websocket lets the node connect a
  second time while it has connected again; two writes of one message are under way, the queue
  is popped twice for one message, and at last it is popped, or scheduled, empty
  (`node.cpp:215`, `:238`, whose assertion says `assert(!strong_this->send_queue.empty())`;
  `HandlersSafe` of `NodeProofs` with two messages, `Faults = {"break"}`, four connections and
  one break).
- A node dropped while an expired wait of its backoff timer is queued is dereferenced after it
  is gone: `if (auto strong_this = weak_this.lock(); !ec)` tests only the error (`node.cpp:236`;
  `HandlersSafe` with `LateExpiry = TRUE`).
- With two swarms the callback that `create_db` gives to `has_db` is called twice: the first
  call reports `already_exists`, the second creates the database on another swarm
  (`swarm_factory.cpp:116`; `NoSecondCopy` with two swarms and one creation).
- With an empty registry `has_db` asks nobody and never calls back, and everything that starts
  with it waits for ever (`swarm_factory.cpp:82`; `EveryOpCallsBack` with `NumSwarms = 0`). An
  empty ESR address or url gives such a registry, and `initialize` succeeds.
- A host longer than a line is cut, and the rest of it is read as the size of the name; for an
  empty host the size of the name is read as the host (`esr_peer_info.cpp:338-348`; not
  `Readable`).
- `GET_PEER_INFO_ABI` lists five outputs, an HTTP port among them, and the parser reads four
  head lines (`esr_peer_info.cpp:87-109`, `:288`); the constant is not used, and addresses are
  made with the HTTP port 0. If the contract is as the ABI says, no address is read rightly
  (`http`).
- Responses are exempt from the signature by their own payload, whatever was asked, and counted
  under the sender they name (`db_dispatch.cpp:148`, `:155`): any request can be answered with a
  quick_read payload nobody signed (`OutcomesOf`, and the payloads `QuorumBacked` leaves out).
- One `DUPLICATE` for a quick read dereferences its null retry timer (`db_dispatch.cpp:220`; the
  exception in `NoCrash`). Honest nodes do not send it, since a quick read is transmitted once.
- A write that fails on a lost connection after the peer has received it is written again on the
  next one: the message is delivered twice (`node.cpp:210`; `Arrives`).
- When the ssl handshake of a secure stream fails the handler is not called: the node stays
  connecting, and everything it is given from then on stays in its queue
  (`boost_asio_beast.hpp:546`; the exception in `SomebodyActs`).
- A handshake or a write that the peer does not answer keeps the node waiting: neither has a
  timeout (`node.cpp:160`, `:200`; `Hangs`).
- The callback of a status request to a node that was dropped writes to its destroyed entry and
  arms its destroyed timer (`node.cpp:222`, `swarm.cpp:334-338`; `GoneWriteEnds`).
- A node removed from the contract between the request for the list and that for its address is
  registered with the host `""` and the port 0 (`swarm_factory.cpp:194`; the second case of
  `RegisteredWasListed`).
- When the registry cannot be read, `bzapi-cli` prints the error and then aborts at exit:
  `terminate` does nothing, as the library is not initialized, and its thread is joinable
  (`library.cpp:166`, `main.cpp:762`; the `ABORT` in `CleanExit`).
- `bzapi-cli` returns `SUCCESS` when the method reports an error: the handlers print the JSON
  and return true (`main.cpp:299`); `SuccessMeansDone` asks only for a result.
- A request issued on the io thread (`create_uuid` after `has_uuid`) and one of the client's
  thread can get the same nonce, and the later replaces the earlier in `messages`
  (`db_dispatch.cpp:37`; `UnansweredTracked` with a request in `IoRequests`).
- A client that copied the node list before a status answer adds a node can pick the null entry
  the lookup of that node left in it (`swarm.cpp:252`; `NoNullNode` with three nodes).
- An `initialize` that cannot read the registry returns false, leaves the io thread running and
  the error 0; the next one destroys the object of a running thread, which ends the process
  (`library.cpp:166`; the exception in `AbortedOnlyUnread`).
- With two swarms the second callback of `has_db` overwrites the result and sets the promise
  again, which throws: `has_db` can say 0 and `open_db` "No database" of a database that exists,
  and out of a timeout handler the exception ends the process (`library.cpp:206`; the exception
  in `OutcomeOnce`).
- A timeout that expires before `messages[nonce] = info` (`db_dispatch.cpp:51-54`, for instance
  with `set_timeout(0)`) finds nothing, and its request never times out (`EarlyExpiry = TRUE`).
- After a `DUPLICATE` error a retry handler that is already queued broadcasts once more and arms
  the timer again (`db_dispatch.cpp:220`; "Stop resending to avoid flooding").
- The read error of a lost connection closes the new, healthy one (`node.cpp:263`).
- With two swarms, `has_db` of an existing database calls back with success and again with
  `no_database` (`swarm_factory.cpp:101`).
- `get_error` right after `get_result` can still be 0 for a failed operation
  (`udp_response.hpp:116`); a second `get_result` returns the error result (`:129`).
- An exception while a status is handled (a peer that cannot be resolved) leaves null nodes in
  the list in use, which the next message of any node dereferences (`swarm.cpp:252-258`,
  `:406`).
- A failed status request resets the latency of an entry of a list that may have been replaced
  and destroyed since (`swarm.cpp:327-338`; "reset latency so this node won't be fastest").
- A second database on a swarm in use cannot be opened: `initialize` refuses
  (`swarm.cpp:60-64`).

## Not modelled

- `crypto`: OpenSSL calls without state of their own; a signature is valid or not.
- `log` and the generated protocol code.
- The boost wrappers: they pass calls through, and what asio does is in the modules that use it;
  the secure handshake that drops its handler is in `Node`.
- The mocks and tests.
- Of `swarm`: signing, `get_status` (which only reads) and the dispatch by payload. Of
  `http_req`: sockets and TLS. Of `esr`: JSON. Of `bzapi-cli`: texts and timing.
- The data race on the tree of `db_dispatch::messages` (`db_dispatch.cpp:54`): it can have any
  outcome, so no property of a model that has it would hold.

## Limits of the proofs

Some hypotheses only say what the constants stand for (`Methods` and `AllMethods`, `Blocking`,
and `MajorityHonest`, the fault bound of the protocol). The others are what the code needs:
without one of them the property fails, and the observations say how. They are no request on the
io thread and no early timer for `db_dispatch`, no lost connection and no late expiry for the
order of deliveries of `node`, a swarm at all for `NoOperationForgotten` and one swarm for
`OneSwarmNeverThrows`.

Where the code gives up without a trace of it in the properties' own terms, the exception is
part of the property and not of the instance: a quick_read payload (`QuorumBacked`,
`AgreedAnswer`), a false `DUPLICATE` (`NoCrash`), a fatal error (`UnansweredTracked`,
`MayWait`), a dropped or endless handshake or write (`SomebodyActs`, `CallbackCalled`), a second
report of `swarm_factory` (`OutcomeOnce`), an unreadable registry (`AbortedOnlyUnread`,
`CleanExit`) and an address the parser cannot read (`Decoded` and what follows from it).

