# libvalkey in TLA+

This directory specifies the protocol logic of libvalkey, the C client library
for Valkey: what happens between a user's call, the callbacks and connections
it involves, and the server's replies. TLC checks the specifications on small
instances; TLAPS proves for all instances the central safety properties of the
asynchronous and the synchronous context, of subscriptions, of the event library
adapters, of connecting, of the command path of both cluster clients, of cluster
pipelines and of the RDMA transport, and that an asynchronous context implements
its abstract specification. Paths below are relative to the root of the
repository, so that `src/async.c` is the library's asynchronous code.
PROJECT.json lists the runs, the faulty variant each property was tried
against, the source lines behind every definition, and the hazards.

## 1. Inventory

| Component | State | Operations | What makes it correct |
|---|---|---|---|
| Asynchronous context, `src/async.c`, `src/async_private.h` | flags, error, callback queue `replies`, output buffer, reader, event registrations, timer and its reply count | command, disconnect, free, set timeout; read, write, timeout events; callbacks | each callback once, with its own reply, in order; nothing lost on any way down; deferred shutdown happens |
| Subscriptions of such a context, `src/async.c` | three dictionaries, `sub.replies`, `pending_unsubs`, SUBSCRIBED | (p/s)subscribe, (p/s)unsubscribe, regular commands beside them | messages reach the subscriber; regular replies are not confused with them; mode and dictionaries follow the server |
| Event library adapters, `include/valkey/adapters/*.h` | container, registrations, timer, deferred deletion | attach, add/del read and write, schedule timer, clean up, the library's callbacks | nothing is used after cleanup, what the context wants is what the library watches, everything is released |
| Synchronous context, `src/valkey.c` | output buffer, reader, error, file descriptor | append, get reply, reconnect, free | the n-th reply is the n-th command's; an error is final until reconnect; calls return |
| Reply parser, `src/read.c`, reply objects of `src/valkey.c` | task stack, buffer, position, half-built reply | feed, get reply, free | the same replies however the bytes are cut; failures are final and leak nothing |
| Connecting, `src/net.c`, `src/conn.c`, `src/dns.c` | candidate addresses, socket, deadline | connect over TCP, Unix socket or descriptor, wait ready, check done, reconnect | no socket is lost; the result is reported; the deadline is kept |
| Synchronous cluster client, `src/cluster.c` | slot table, nodes, their contexts, `need_update_route`, `retry_count` | command, command to node | own reply; at most one execution; routes converge |
| Cluster pipelines, `src/cluster.c` | list of outstanding requests | append, get reply, reset | replies in the order of the requests; a reset returns |
| Slot map and nodes, `src/cluster.c` | table, node dictionary, `route_version` | parse, replace, redirect, iterate | the map is the servers'; no pointer to a released node; connections survive |
| Asynchronous cluster client, `src/cluster.c` | `lastSlotmapUpdateAttempt`, DISCONNECTING, per-command retry data | command, redirect, throttled update, disconnect, free | each callback once; one update at a time; an end to everything |
| Commands, `src/valkey.c`, `src/command.c`, `src/crc16.c` | none | format, key position, hash tag, CRC16 | the bytes and the slot the server expects |
| Dictionary and list, `src/dict.c`, `src/adlist.c` | buckets, used, iterator; prev and next | add, replace, expand, iterate; append, delete | a map and a list, under iterators that are in use |
| RDMA transport, `src/rdma.c` | registered buffers, offsets, command slots, epoll | connect, read, write, wait, close | streams intact, no write out of bounds, no event slept through |
| TLS transport, `src/tls.c` | session | read, write | - |
| Strings, allocation, platform layers | - | - | sequential helpers |

How the parts interact. The asynchronous context contains a synchronous one and
uses its buffers and reader; the adapter calls `valkeyAsyncHandleRead`,
`...Write` and `...Timeout` when the event library reports something, and the
context calls the adapter's hooks to (de)register. Both cluster clients keep
one context per node and share the node table and the slot map. Everything runs
in one thread: what interleaves are user callbacks that call the library from
inside its handlers, the server, and the connection.

What is hard here: user callbacks in the middle of the library's loops
(free, disconnect, more commands), replies without identity that are matched to
callbacks by position only, two callback lists that change roles with the
subscribed mode, a timer that is not restarted per command, a slot map that is
fetched behind a command on the same connection and may release the nodes in
use, containers that event libraries release later, edge-triggered
notifications, and every failure between two of these steps. PROJECT.json lists
them with their lines.

## 2. Modules

| Module | Models | Kind |
|---|---|---|
| `CommandQueue` | what an asynchronous context promises: commands answered in order, then NULL | abstract specification |
| `Async` | one asynchronous context, from connect to release; implements `CommandQueue` | component |
| `AsyncProof` | theorems about `Async`, and that it implements `CommandQueue` | TLAPS |
| `PubSub` | subscriptions of an asynchronous context | component |
| `Adapters` | the twelve event library adapters under a context that may close anywhere | component |
| `Connection` | establishing and re-establishing a connection | component |
| `Blocking` | the synchronous context on a `Connection` | composition |
| `Reader` | the incremental reply parser | component |
| `Command` | formatting, key positions, slots; extends `Reader` for its bytes | operators |
| `Dict`, `AdList` | the hash table with its iterator, the linked list with its pointers | operators |
| `SlotMap` | nodes, slot table, contexts and iterators, on `Dict` | component |
| `ClusterSync` | `valkeyClusterCommand` for one slot, with the cluster around it | component |
| `ClusterPipeline` | pipelines over several nodes, on `AdList` | component |
| `ClusterAsync` | the asynchronous cluster client over contexts that behave like `CommandQueue` | component |
| `Rdma` | the RDMA transport with the fabric and the server's end | component |
| `PubSubProof`, `AdaptersProof`, `BlockingProof`, `ClusterSyncProof`, `PipelineProof`, `ClusterAsyncProof`, `RdmaProof` | theorems about `PubSub`, `Adapters`, `Blocking` with `Connection`, `ClusterSync`, `ClusterPipeline` with `AdList`, `ClusterAsync`, and `Rdma` | TLAPS |
| `MC...` | the instances for TLC | TLC |

A definition named `D_Fault` is `D` with a plausible mistake in it. It is not
used by the specification; replacing `D` by it must violate the property it was
written for, which shows that the property depends on `D`.

### Async and CommandQueue

A byte stream is represented by positions: of the commands `1..issued`, those up
to `sent` were written, up to `served` executed by the server, up to `fed` read
into the reader and up to `parsed` taken from it. The reply to command `i` is
the number `i`, so that a reply delivered to the wrong callback is visible.
`replies` is `ac->replies`. `pc` names the library function that is suspended
in a user callback; in such a state the user may call the library, which sees
IN_CALLBACK. What a handler does between two callbacks is one action:

| Action | Code |
|---|---|
| `AsyncCommand` | `valkeyAsyncAppendCmdLen` with `refreshTimeout` and `_EL_ADD_WRITE` |
| `valkeyAsyncDisconnect`, `valkeyAsyncFree`, `valkeyAsyncSetTimeout` | the functions of that name; both shutdowns are deferred inside a callback |
| `valkeyAsyncHandleWrite`, `valkeyAsyncWrite` | connecting (`valkeyAsyncHandleConnect`, its failure) and writing |
| `valkeyAsyncHandleRead` | `valkeyAsyncRead`: any amount of what is in the socket, or its end |
| `ProcessReply`, `ProcessPush`, `ProcessSpontaneousError`, `ProcessEnd` | the turns of `valkeyProcessCallbacks` |
| `valkeyAsyncHandleTimeout`, `TimeoutDrain` | the connect and the command timeout |
| `valkeyAsyncFreeInternal` | draining the callbacks, `onDisconnect`, release |
| `...Returns` | a user callback returns to the function that called it |
| `LinkResolves`, `ServerReply`, `ServerPush`, `ServerEnd` | connection and server (external) |

The server may close the stream, send bytes that are no RESP, reset the
connection, or refuse it with an error. Partial replies appear as reads that
complete no reply. `timer` is whether a deadline is set; time has no length.

`CommandQueue` knows a queue of commands and a connection that is open or
closed: commands are answered in order while it is open, and with NULL once it
is closed for good. `ImplementsQueue` is its specification under the mapping in
`Async`; it forbids, for instance, a real reply after the first NULL.

### PubSub

Three dictionaries are one function `dict`, since a name has one kind here
(`Kind`). A turn of `valkeyProcessCallbacks` is one action, because the user's
callback is the last thing in it. The server (external) answers a subscribe or
unsubscribe with a message per channel that carries its count of subscriptions,
sharded ones counted apart; it may refuse an SSUBSCRIBE or fail a regular
command. Connection set-up, timeouts and deferral are left to `Async`. Messages
are RESP3 pushes. `Cases` says what the user does: which names, how many
commands, `repeats` (an unsubscribe of what is already unsubscribed) and
`nested` (an SSUBSCRIBE on a subscribed context); `MaxArgs` is the number of
channels in one command.

### Adapters

One state record holds what the context asked for (`want`), the adapter's copy
of it (`flags`) and what the library does (`watch`, `timer`), the container
(`data`) and what keeps it alive (`closing`, handles, deferred deletion). Every
adapter has its own hooks, named as in its header, and the handler its library
calls; the library (external) delivers events it has found one callback after
the other, and the context may be freed in any of them or between them. A
failing attachment is an initial state. A use of what was released is recorded
in `s.bad`.

### Connection and Blocking

`Connection` follows `valkeyConnectWithOptions` and `valkeyReconnect` through
the loop of `valkeyContextConnectTcp` over families, addresses and source
addresses; sockets have identities, every system call may fail, and `poll` may
time out, be interrupted or report a refusal. `elapsed` adds up the ticks spent
waiting. `Blocking` adds the buffers, `valkeyGetReply` with its two loops, and
the server. Commands and replies travel in two parts, so that a read or a write
may stop in the middle of one. `ConnectStep` is any step of the connecting.

### Reader and Command

`Reader` keeps the structure of `src/read.c`: the stack of tasks, the
index `ridx`, the position and the buffer; `processItem` with its line, bulk and
aggregate cases; and the object functions of `src/valkey.c` on a heap in which
every object has an identity. `valkeyReaderGetReply` is one action, since
nothing runs beside it; between two of them the stream is fed piece by piece.
Integers keep their width, which is a constant (8 bits in the instance).
The reference is an encoder: `Encode(tree)` is what a server sends.

`Command` is pure. Formatting is a fold over the format with the state of
`valkeyvFormatCommand`; `valkey_parse_cmd` looks the command up in the table and
finds the first key; `keyHashSlot` applies the hash tag rule and CRC16. The
properties compare them with definitions that say what is meant, for example a
key position as an index into the arguments.

### Cluster

`SlotMap` is the data structure both clients share. Pointers to nodes are pairs
of an address and the version of the map they were allocated for, so that a
pointer that survived an update is visible. `HandleReply` is one update: parse
(`SlotsEntry`, `NodesLine`), build the table, move the contexts over
(`cluster_nodes_swap_ctx`), release the old nodes, or leave everything as it was
when the reply is malformed. The node dictionary is a `Dict`, whose growth and
whose order are what an iterator depends on.

In `ClusterSync` there is one slot, nodes named by their address. `con[n]` is
node `n`'s `valkeyContext`: absent, usable, broken without the client knowing,
or with `c->err` set; `out[n]` are the requests on it whose replies have not
been read. The variable `pc` follows `valkey_cluster_command_execute` between
its labels `retry`, `moved_retry`, `ask_retry`, `error` and `done`, a step
ending where the client waits for a reply. `valkeyClusterUpdateSlotmap` is one
step: a node of `nodes` that answers, after any of those that do not. Keepers
are nodes that serve other slots and thus are in every slot map. The cluster
(external) migrates the slot (ASK while it moves, MOVED after), lets nodes
crash, restart and be replaced, and lets every node lag behind in what it
believes. A command counts as executed when a node answers it, and may have been
executed when its connection fails. A call that times out on a node that lives
is, for the client, a crash and a restart at once. The state `dangling` ends a
call that goes on to use a released node, see section 4.

`ClusterPipeline` has one action per call (`valkeyClusterAppendCommand`,
`...ToNode`, `valkeyClusterGetReply`, `valkeyClusterCommandToNode`, a slot map
update), except that `valkeyClusterReset` is taken step by step, since servers
may fail while it reads, and deletes what is left of `cc->requests`, an `AdList`
with its pointers, node by node under an iterator (`iter`).
`careful` distinguishes applications that reset after a failure and do not
update the slot map inside a pipeline; both kinds run, the properties are about
the first.

`ClusterAsync` maps `acc` to the set of its possible values after a call, since
the functions choose a node and may fail to connect. `Step(n)` is what the event
loop does for node `n`: a connect ends, a reply runs
`valkeyClusterAsyncCallback`, `clusterSlotsReplyCallback` or `selectReplyCallback`,
a connection is lost and its callbacks run with NULL one by one. Contexts that
were released together with their nodes by an update run their callbacks as
`orphans`. Time passes with `Tick`, which ends the throttling of updates.

### Rdma

The thread inside the library is modelled from one call on the hardware to the
next: `wait` is where `valkeyRdmaWaitEvent` is, `batch` what `epoll_wait`
returned. The completion queue notifies once and has to be armed again; the
connection manager's events and completions arrive at any moment (`Fabric`). The
server registers its buffer again when it has emptied it. Bytes are numbered.

## 3. Runs

| Run | Instance | States | Shows |
|---|---|---|---|
| `async` | 3 commands with or without callback, 1 push, both timeouts, NOAUTOFREE or not, all endings | 390 000 | callbacks are called once, with their own reply, in order, and none is lost on release (`CallbacksSound`); an orderly disconnect delivers everything (`GracefulDisconnectDelivers`); connect and disconnect callbacks pair up; nothing is registered with a detached loop; assertions hold; the reply count is active only with a timer; the context implements `CommandQueue`. Deadlock is checked: only a released context stops, or one given away under NOAUTOFREE |
| `async_live` | 2 commands, both timeouts, all endings | 16 000 | on contexts without push messages and without NOAUTOFREE disconnect and free complete, called outside of callbacks or in a reply, connect or timeout callback (`ShutdownCompletes`); every callback is eventually called though the server may fall silent |
| `pubsub` | a channel and a pattern with 5 commands and 1 message, or two sharded channels with 4 commands and refusals | 498 000 | regular commands get their own reply and none is lost across changes of mode (`RegularSound`); when all is quiet dictionary and mode are the server's, and no assertion fails before (`SubscriptionsFollow`); messages go to their subscriber |
| `adapters` | all twelve adapters, 3 commands | 2 200 | no hook or handler uses what was released (`NoLateUse`); the library watches what the context believes and, but for libsdevent and libhv, times it (`LoopAgrees`); the container and its handles are released when the context is gone, and that happens (`ReleasedInTheEnd`) |
| `blocking` | 7 option sets, 2 addresses, 3 commands, 1 push | 531 000 | replies in step with commands, across reconnects (`RepliesInStep`); one open socket, in the right mode, with its timeout, and blocking only where an answer can come (`SocketSound`); a connect ends in bounded time and reports how it went (`ConnectReports`); `valkeyGetReply` returns |
| `reader` | connections with nested, malformed and numeric replies, cut into pieces of 1, 2 or 7 bytes, with an allocation failing anywhere; formats of two words, vectors of up to seven arguments | 949 000 | the parser accepts exactly the encodings and returns what was encoded (`ParsesExactly`); an error leaks nothing and is final (`FailsCleanly`); commands, key positions and slots are those of the reference, where STREAMS is not the first word of its command (`CommandsExact`) |
| `slotmap` | 5 addresses, 4 slots, good and malformed answers in both formats, 2 updates, 2 contexts, an iterator | 38 000 | the table is what the servers said (`MapIsTopology`), nothing points to what was released (`NothingDangles`), open connections stay with their address, an iterator never follows an old dictionary and visits every node when it is not disturbed (`IterationSound`) |
| `cluster` | 3 nodes, 2 retries; 2 migrations with TRYAGAIN and CLUSTERDOWN, 2 migrations and a crash, or 2 crashes | 107 000 | the caller gets its command's reply or none, no unread reply is left for the next command (`RepliesInStep`); executed at most once, sent at most `max_retry_count`+1 times (`SentSparingly`); the context whose slot map is awaited is not released; every call returns and the route converges to the owner (`CallsConverge`) |
| `pipeline` | 3 nodes, 2 slots, 3 commands, 1 crash, 1 move | 488 000 | the i-th reply is that of the i-th request and no connection keeps a reply nobody waits for (`PipelineInStep`); a MOVED reply leads to an update (`RedirectRemembered`); a reset returns |
| `cluster_async` | 3 nodes, 2 slots, 2 commands, 1 retry; moves, lost connections, retry errors, unusable slot maps, SELECT | 93 000 | one callback per command, one slot map request at a time, bounded sends (`RequestsAccounted`); no connection is opened after a disconnect; commands and disconnects end (`EverythingEnds`) |
| `rdma` | buffers of 2 bytes, 2 command slots, 5 bytes to the client and 4 to the server | 194 000 | streams intact, writes inside the server's buffer (`BuffersSound`); whoever polls the descriptor is woken up for every byte there is to read, whatever a write consumed (`ReaderWoken`); reads and writes return (`TransfersReturn`) |
| `cluster_async_stale_error` | as `cluster_async` | - | a violation of `ReplyDelivered`, which states the comment at `src/cluster.c:2911`: a reply is withheld when a command issued later was refused before it arrived (finding in PROJECT.json) |

A property named in the table is often a conjunction of named parts that are
defined just before it in its module (`CallbacksSound` is
`CallbackOnceWithOwnReply /\ CallbacksInOrder /\ NoCallbackLost`), with the
module's type invariant among them.

### Bounds

Three commands are the smallest number with a first, a last and one between: a
callback list can slip in either direction. One push shows its interleaving with
replies. For subscriptions, subscribe, unsubscribe, subscribe again and a
regular command before and after need five commands. For the cluster, two
migrations make a chain of two MOVED redirections, or ASK after MOVED; with two
retries all ends of the loop are reached, the limit included; the third node is
the one that is neither old nor new owner. Two crashes are needed for a
connection that breaks after the client has recovered from the first. In
`slotmap` four addresses fill the dictionary and the fifth makes it grow, two of
them share a bucket, and two updates give an iterator one that it notices and
one after its restart. A pipeline of three over two nodes has one node with two
requests and another one between them. The parser's stack starts with two tasks
(`StackSize`) and grows in the deepest reply; pieces of one byte cut everywhere
and longer ones bring several items at once. Two addresses and a retry reach
every way out of the connect loop. RDMA buffers of two bytes are registered
again two or three times in each direction.

### Fairness

`LoopFairness` (`Async`): one thread runs to the end of its handlers and
callbacks (weak fairness); the event loop looks at every registered descriptor
and at the deadline in each turn, so an event that keeps recurring is handled
(strong fairness, because a handler of the same turn may disable another for a
moment); a socket is eventually drained and a connection attempt ends. Nothing
is demanded of the server, which is why `async_live` sets timeouts: without them
the code waits for ever, as documented. In `ClusterSync`, `FairSpec` has the
blocking call go on (each wait ends with a reply, a timeout or a broken
connection), the user issue commands, migrations end, news spread, a lost owner
be replaced, and the nodes in every slot map come back; other nodes may stay
away. The `LiveSpec` of the other modules is weak fairness of the thread that is
inside the library (`valkeyClusterReset`, `valkeyGetReply`, the RDMA waits), of
the event loop (`ClusterAsync`, `Adapters`), and of a server that answers where
no timeout is set (`Blocking`, `Rdma`). Timeouts are never made to happen there.

## 4. What the runs leave out, and why

The code does not keep the following statements, which its documents and comments
make. They are written down in the modules, and TLC refutes each of them on an
instance of a few commands; the passing runs leave the case out as the third column
says.

| Statement | What the code does | How the runs leave it out |
|---|---|---|
| `FreeCompletes` (`Async`), `src/async.c:402` | a context freed in a push callback is not released when the callback returns (`src/async.c:592`) | `MaxPush` is 0 in `async_live` |
| `DisconnectCompletes` (`Async`), `docs/standalone.md:88` | after a failure under VALKEY_OPT_NOAUTOFREE with a callback pending, `valkeyAsyncDisconnect` waits for a reply that a detached context never gets (`src/async.c:453`) | `NoAutoFree` is {FALSE} in `async_live` |
| `CommandTimerArmed` (`Async`), `include/valkey/async.h:127` | a command timeout set to zero leaves the reply count active without a timer; one set later is never armed (`src/async.c:793`) | FALSE is not in `SetTimeouts` |
| `NoAssertFails` (`PubSub`), `src/async.c:920` | a shutdown before SSUBSCRIBE is answered fails the assertion against NULL | `AssertsHold` is about contexts that used no sharded channel |
| `MessageToSubscriber` (`PubSub`), `src/async.c:906` | an SSUBSCRIBE on a subscribed context gets its channel confirmed without a function (`src/async.c:1070`); its callback would take a regular command's reply later (`src/async.c:960`) | `nested` is FALSE |
| `DisconnectDelivers` (`PubSub`), `docs/standalone.md:372` | on a subscribed context a disconnect does not wait for the commands in `sub.replies` (`src/async.c:455`) | `GracefulDisconnectDelivers` is about contexts that are not subscribed |
| `ModeAgrees` (`PubSub`), `src/async.c:511` | SUBSCRIBE of an existing and a new channel: the new one inherits the pending count, and the context never leaves subscribed mode (`src/async.c:1036`) | `MaxArgs` is 1 |
| `RestartComplete` (`SlotMap`), `docs/cluster.md:409` | a node iterator that restarts returns one more node and ends (`src/cluster.c:3375`) | `IterationComplete` is about iterations without a restart |
| `OwnReply` (`ClusterSync`), `src/cluster.c:2002` | TRYAGAIN with a slot map query pipelined behind the command: the answer to the query is returned for the command's (`src/cluster.c:1984`) | `Scenarios` do not combine crashes with TRYAGAIN |
| `NodeHeld` (`ClusterSync`), `docs/cluster.md:107` | a connection that breaks between MOVED and the slot map query: the map is fetched elsewhere, which releases the node of the redirection, which is used next (`src/cluster.c:1944`) | such a call ends in the state `dangling` |
| `KeywordFound` (`Command`), `src/command.c:253` | `XREAD STREAMS key id` is refused: the search skips the first position (`src/command.c:259`) | `KeyLocated` is not about commands in which STREAMS comes first |
| `TimerExists` (`Adapters`), `libhv.h:84` | libhv's timer is reset and deleted after it fired and was released (`libhv.h:85`, `:51`) | the timers of libhv and libsdevent are `Untimed` |
| `WaitConnSeesCM` (`Rdma`), `src/rdma.c:1064` | "established" and "disconnected" handled in one call make the next wait see the completion channel, and the assertion fails | not checked |
| `FailureReported` (`Rdma`), `src/valkey.c:906` | a connect that ran into its deadline or was rejected leaves `c->err` at zero (`src/rdma.c:1050`) | not checked |
| `ResourcesReleased` (`Rdma`), `docs/standalone.md:155` | a connect rejected after the route was resolved keeps queue pair and buffers (`src/rdma.c:1229`) | not checked |

To see one refuted, take the run's cfg with the statement as its only invariant or
property and, where the third column names a constant, with the value it leaves out:
`MCPubSub` has `OneSharded`, `NestedSharded`, `OneChannel` and, for `MaxArgs` = 2,
`TwoChannels` with `TwoNames`; `MCClusterSync` has `RetryCases` and `CrashCases`;
`MCReader` has `StreamsFirst`.

Further exceptions:

Asynchronous context and subscriptions:

- `repeats` is FALSE: unsubscribing twice and subscribing again, pipelined,
  leaves `pending_unsubs` at one.
- A refused SSUBSCRIBE leaves the mode behind (`src/async.c:625`) and, pipelined
  with its SUNSUBSCRIBE, takes `pending_unsubs` to -1.

Adapters: glib and libhv use a context that was freed inside the first of two
handlers, and the destructor of qt's adapter writes to the context it was attached
to, which was freed before (`qt.h:71-75`); both are `Exposed`. The other order, a qt
adapter destroyed before its context, is not modelled. A failing attachment of libuv
or macosx leaves hooks without a container; libsdevent does not enable its timer
again (`libsdevent.h:146`), libhv starts none for less than a millisecond
(`libhv.h:72`); ae, ivykis, glib, macosx and qt have no timer at all.

Blocking context: the time spent in plain `getaddrinfo` (`src/dns.c:345`), which has
no bound, counts as none in `ConnectTimeBounded`; a failing SO_REUSEADDR ends the
connect without `c->err` (`conn.silent`, `src/net.c:482`); a failing `set_timeout` in
`valkeyReconnect` is ignored (`src/valkey.c:834`); without a push callback push
messages are returned as replies.

Parser and commands: attributes are returned as replies of their own; a printf
conversion of 14 or more characters is copied literally (`src/valkey.c:482`); an
argument that is a beginning of STREAMS, the empty one included, is taken for it
(`src/command.c:261`), and none of the arguments compared is one.

Cluster:

- A slot that returns to a node which this call has already been redirected by has
  the effect of TRYAGAIN above: with
  MaxRetry = 3, three nodes, two migrations and a crash, the failover cancels an
  import, the node that was asked answers MOVED and is sent a slot map query, then
  imports the slot again, and an ASK leads back to it, where the answer to the
  query is taken for that to ASKING. Two retries, as in `cluster`, are too few for
  it. `StaysAway` in `ClusterSyncProof` names what these have in common, and the
  theorems there are about calls that meet neither.
- A node iterator under which the dictionary grows skips or repeats nodes.
- Slot numbers of CLUSTER SLOTS are narrowed to 32 bits before they are compared
  (`src/cluster.c:551`), here to 6 bits (`UINT32` = 64): a number that is too large
  by a multiple of it is taken for a slot, as one reply of the instance is.
- Pipelines of applications that ignore a failed reply, or update the slot map
  between append and reply, are not in step and can block (`careful`).

RDMA: after a connect that failed in silence the application goes on, as `c->err` is
zero: a write reads through the released `privctx`, where the model stops
(`WriteUnconnected`), a read fails on the closed descriptor; a reply that arrives
with the disconnect may be dropped (`src/rdma.c:710`).

## 5. Proofs

Every theorem holds for all values of the constants that satisfy the module's
`ASSUME`. The assumptions are the types of the constants, that limits are natural
numbers and sets that must have an element do, and that `NULL` is none of the
values it is compared with. In each module the work is one inductive invariant
`IInv`; TLC checked every one of them on reachable states before it was proved.

| Module | Theorem | Property |
|---|---|---|
| `AsyncProof` | `InductiveInvariant` | `IInv` |
| | `TypeCorrect` | `TypeOK` |
| | `OwnReply` | `CallbackOnceWithOwnReply` |
| | `Ordered` | `CallbacksInOrder` |
| | `NothingLost` | `NoCallbackLost` |
| | `CallbackContract` | `CallbacksSound`, the three together |
| | `AssertsNeverFail` | `AssertsHold` |
| | `HooksQuiet` | `QuietWhenDetached` |
| | `Paired` | `ConnectDisconnectPaired` |
| | `GracefulDelivery` | `GracefulDisconnectDelivers` |
| | `TimerArmed` | `CommandTimerArmed`, when FALSE is not in `SetTimeouts` |
| | `Refinement` | `ImplementsQueue`: every step of `Async` is a step of `CommandQueue` or a stutter |
| `PubSubProof` | `RegularAlwaysSound` | `RegularSound`, in `Plain` behaviours |
| | `SubscriptionsAlwaysFollow` | `SubscriptionsFollow`, in `Plain` behaviours |
| | `MessagesReachSubscribers` | `MessageToSubscriber`, in `Plain` behaviours |
| `AdaptersProof` | `NeverLate` | `NoLateUse`, which leaves out what `Exposed` names |
| | `AlwaysAgrees` | `LoopAgrees`, whose timer part leaves out libsdevent and libhv |
| | `GoneForGood` | what was given back stays given back: the safety half of `ReleasedInTheEnd` |
| `BlockingProof` | `BlockingInvariant` | `IInv` |
| | `RepliesStayInStep` | `RepliesInStep` |
| | `SocketStaysSound` | `SocketSound` |
| | `ConnectAlwaysReports` | `ConnectReports` |
| `ClusterSyncProof` | `CallInvariant` | `IInv` |
| | `ContextHeld` | `UpdatingContextHeld` |
| | `SendsBounded` | `BoundedSends`: at most `max_retry_count` + 1 sends |
| | `StaysInStep` | `InStep`, while `StaysAway` holds |
| | `ReplyIsOwn` | `RepliesInStep`, while `StaysAway` holds |
| | `ExecutedOnce` | `SentSparingly`, while `StaysAway` holds |
| `PipelineProof` | `PipelineInvariant` | `IInv` |
| | `RepliesOfPipeline` | `PipelineInStep` |
| | `RedirectNotForgotten` | `RedirectRemembered` |
| `ClusterAsyncProof` | `RequestInvariant` | `IInv` |
| | `AllAccounted` | `RequestsAccounted` |
| | `NothingOpensAgain` | `NoConnectionAfterDisconnect` |
| `RdmaProof` | `RdmaInvariant` | `IInv` |
| | `StreamsStayIntact` | `BuffersSound` |
| | `ReaderAlwaysWoken` | `ReaderWoken` |

### Asynchronous context

None of these is inductive: that callbacks get their own replies depends on the
callback queue and the reply stream being in step, about which the properties
say nothing. `IInv` says that `replies` is always the run of the last commands
issued (`QueueIsSuffix`), that exactly the callbacks of the commands before it
were called (`CallsMatchQueue`), and that, as long as replies are taken from the
reader, the next one belongs to the head of the queue (`Aligned`); the
exception is a refused connection, whose error goes to whoever is first. The
rest ties flags, error and registrations to the handler that is running: no
command is accepted on a detached context, failures have an error set, and a
context is released with an empty queue. `ShiftAndRun` and `PushCommand` are the
two lemmas about the queue, and there is one lemma per action or group of
actions that do not touch it.

Three more invariants are inductive relative to `IInv`. `EventsFollow` lists the four histories of onConnect and onDisconnect with the
places a context can be in after each: in particular one whose failed connect was
reported never comes back to the event loop attached, so that it cannot be
reported twice. `NobodyCutOff` says that a context without an error that was not
freed has called nobody with NULL and, once it has ended, has nothing left to send
or to answer; at the moment it ends this comes from `Aligned`: with an empty queue
the last reply read belongs to the last command issued, which was therefore sent.
`TimerFollows` says that replies are counted only with a command timeout set and
with a timer running wherever control goes back to the loop.

The refinement needs `IInv` in three places: `Aligned`
makes a reply taken from the reader the answer to the head of the queue,
`HandlersAttached` says that a context that still processes replies is not
closing, and `ReleasedEmpty` that a released one has no command left.

### Subscriptions

A context that is subscribed has two lists of callbacks: `replies`, which takes
regular commands while it is not in subscribed mode, and `sub.replies`, which
takes them while it is. Replies say neither which list nor which command they
belong to. `IInv` of `PubSubProof` has four parts.

- `Chan` is about each channel and ties its entry in the dictionary to the
  server's set of subscriptions and to everything on its way in either direction:
  `pending_subs` counts the subscribe messages still to come, so that it is zero
  only when an unsubscribe message is the last word; an entry the server no longer
  has still has an unsubscribe message to come; an entry that is wanted is not
  marked `unsubscribe_sent`.
- `Regs` takes the two lists together and ties them to the regular commands on the
  wire and to the replies in the socket, each in the order of issue and matched
  one to one.
- `Mixed` is what makes the change of roles safe: as long as callbacks are left in
  `replies`, their replies come before any pushed message, since that list is
  served first whatever arrives.
- `Expecting` says that a callback is in a list until it is called, and then never
  again.

`RegularSound` follows from `Regs` and `Expecting`, `SubscriptionsFollow` from
`Chan` once nothing is on its way, `MessageToSubscriber` from the entries that
`Chan` says are there.

The theorems hold for any number of channels and patterns, commands and messages,
and any of the server's refusals of regular commands. They are about the behaviours
`Plain` describes: one name per command, no unsubscribing of what is unsubscribed
already, no sharded channels. Each condition is needed for the three together, as
TLC shows on the same model without it. With two names in a command the second
inherits the state of the first (`src/async.c:1036`): `SubscriptionsFollow` and
`MessageToSubscriber` fail, and `RegularSound` holds in the 784 674 states of that
instance. With `repeats`, `SubscriptionsFollow` fails and the other two hold.
With channels next to sharded ones that the server may refuse `RegularSound` and
`MessageToSubscriber` fail, and with `nested` `MessageToSubscriber`. Sharded
channels by themselves, as in the second case of `pubsub`, violate nothing and are
checked by TLC only. TLC
checked `IInv` on a channel and a pattern with refusals (984 362 states), on two
channels (1 025 726) and on one channel with six commands (849 231).

### Event library adapters

`IInv` of `AdaptersProof` says that the container is in one of three conditions.
`Open`: the context is there, the container is whole, `flags` is what the library
watches and the library watches what the context wants. `Closed`: the context is
gone, and what is left depends on the adapter: nothing, or the container alone
(libuv until its handles are closed, qt and glib), or, inside
a handler, the container with its deletion marked for the end of the handler
(libevent, libsdevent, poll). `Unattached`: what a failed attachment leaves. For each
hook and each handler there is a lemma that says which condition it leads to, for
all twelve adapters; a deletion that was postponed is why the handler that goes on
after its context was freed finds a container. `GoneForGood` is an action property
in temporal form: no step leaves `Gone`, so that reaching it once is enough for
liveness. TLC checked `IInv` on the 2 156 states of `adapters`.

### Synchronous context and connecting

`IInv` of `BlockingProof` has two halves. About the connection it says where a
connect call can be and what it has left (`CallPlaced`, `CallReported`): which
socket is open, whether it is blocking, which of the addresses and retries are
still to come, and how much time the call may have spent to get there
(`TimeKept`), so that the bound on its duration follows by adding up. About the
stream it says that every command of the present connection is answered, on its
way back or on its way to the server, in this order and without gaps: what was
read and parsed and what the server has sent are `Replies`, what is in the output
buffer and in the socket are `Commands`, each cut anywhere (`Streams`), and the
replies handed out are the first ones (`AnsweredInRow`). A push message in the
stream is counted once (`PushesCounted`), so that it takes no reply's place.
TLC checked `IInv` on the 530 651 states of `blocking`.

### Synchronous cluster client

`IInv` of `ClusterSyncProof` says which context and node each place of
`valkey_cluster_command_execute` has in hand (`HasContext`, `RouteKept`), and
counts sends against retries (`SendsCounted`). It needs no assumption on the
servers. Being in step does: replies carry no identity, and when a retry sends
the command on the very connection on which this call's slot map query is still
unread, the answer to the query is read as the answer to the command (section 4).
`StaysAway` says that this does not happen: the call never sends ASKING or the
command on a usable context that is `c_updating_route`. It is a condition on how
the cluster moves slots, not on the client, and the runs of `cluster` satisfy it;
the theorems `ReplyIsOwn` and `ExecutedOnce` show that nothing else can bring
requests and replies out of step. `InStep` is their inductive part: every
connection has outstanding just what the place of the call says, and a command
has been executed only if its reply is outstanding or was taken. TLC checked
`IInv`, `StaysAway` and `InStep` with four nodes and four retries, on three
migrations with TRYAGAIN and on three crashes.

### Cluster pipelines

Requests are numbered in the order of their appending, so the list is a row with
increasing numbers (`IsRow`): two lemmas say that `listAddNodeTail` extends the
row and that `listDelNode` of the head shortens it, pointers included, with an
iterator that moved on before at the new head. A request is aimed at the node its
reply will be read from (`AimOf`). For a careful application the numbers expected
on a usable connection are exactly those of the requests aimed at its node, in
increasing order (`Matches`). The head of the list is the least number of all, so
it is the first one expected on the connection it is aimed at, and the reply read
there is its own. The rest of `IInv` says when this is allowed to fail: between
calls, unless a read failed, every request is aimed at a usable connection, and
while a reset reads at least at one that exists; after a failed read the error
makes the next reset drop every connection, and once the requests are being
deleted nothing is expected anywhere. Other applications need no more than the
types, the row and the count of expected replies. `RedirectRemembered` is
inductive by itself. TLC checked `IInv` on the 488 541 states of `pipeline`.

### Asynchronous cluster client

`IInv` of `ClusterAsyncProof` is about where a request waits: in the queue of one
node's context, in that of one orphaned context, or nowhere. No request waits in
two places or twice in one (`Good`), every waiting command was accepted, has not
been called back and was sent no more often than its retries allow, and a command
accepted and not called back waits somewhere (`Accounted`). Since a callback of
the library may send, redirect, open connections and update the slot map before
it returns, the proof is built on what each of these does to the set of waiting
requests: one lemma per operator says which request leaves, which is added, and
that everything else stays where it was. TLC checked `IInv` on the 92 690 states
of `cluster_async`.

### RDMA

The right to fill a buffer is a token. For the client's buffer it is with the
client before the connection is up (`RxIdle`), on its way to the server in a
registration (`RxAsked`), or with the server (`RxOpen`); for the server's buffer
with the server (`TxWithheld`), on its way (`TxGranted`) or with the client
(`TxOpen`). While the writer has it, what was written and not yet read is
contiguous from the reader's offset to the writer's, in the completion queue, in
memory or on the wire (`InFlight`, `OnTheWay`); the completion of a registration
comes before everything it brings, which is why a command slot is free whenever
the buffer has to be registered again. The rest of `IInv` follows the connection:
what the connection manager may have reported (`Reported`), that nothing else
happens before the connection is up (`NothingBefore`), and what the call under way
knows of it (`CallFits`). `ReaderWoken` needs `WInv` beside it: an event of the
connection manager or in the completion channel is in the ready list or in the batch
that the call under way works through (`EventsSeen`); a completion that nobody polls
for has put an event into the channel, or the channel is armed for the next
(`CompletionsSeen`); a connection that is down is still to be reported (`LossSeen`);
and bytes that a write took are left to a reader that is woken (`UnreadSeen`). TLC
checked both on the 194 293 states of `rdma`.

### Checked by TLC only

- The liveness properties: the prover has no fairness and no ENABLED.
- Subscriptions outside of `Plain`: sharded channels, several names in a command,
  repeated unsubscribes. What holds there depends on which of these meet.
- `MapIsTopology`, `NothingDangles`, `ConnectionsSurvive` and `IterationSound` of
  `SlotMap`: the nodes they are about are made by folds over a reply and over the
  chains of the hash table, and every step of a proof would need what such a fold
  yields for a reply of any length.
- `ParsesExactly` and `FailsCleanly` of `Reader` and `CommandsExact` of `Command`,
  which are recursive over the input (`Command` also uses bit operations).

Where a proof needs a least element (the first position at which something holds)
it takes it from `WFMin` of `WellFoundedInduction`.

## 6. Not modelled

- TLS: nearly every step of `src/tls.c` is decided inside OpenSSL.
- Strings, allocation, socket compatibility and `vkutil` are sequential helpers
  without protocol state; `ffc.h` is vendored, `cmddef.h` generated.
- Out-of-memory paths, except in `Reader`.
- MONITOR mode; the RESP2 recognition of subscription messages; private data of
  callbacks.
- In the cluster clients: contexts of replica nodes, authentication,
  `valkeyClusterSetOptionTimeout`, and freeing the asynchronous client from one of
  its own callbacks (`src/cluster.c:3333`).
- The functions of `src/rdma.c` for asynchronous contexts, which only assert that
  they are not called (`src/rdma.c:853-859`); the length of the device's send queue.
- `dictDelete`: subscriptions use it, and their dictionaries are functions here.
- 32-bit builds; Windows.

## 7. Plan

What is left, in this order:

1. Proofs: sharded channels by themselves in `PubSub`; `NothingDangles` of
   `SlotMap`, from lemmas about its folds.
2. Models: MONITOR mode in `Async`; freeing the asynchronous cluster client from
   its callbacks; replica contexts in `SlotMap`.
