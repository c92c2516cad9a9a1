# Verification of rabble

Rabble is a library for clustered actor systems: nodes joined by TCP into a full
mesh, lightweight processes run by one executor thread per node, and services
that run on threads of their own. This directory holds TLA+ models of its core,
TLC configurations that check them on small instances, and TLAPS proofs for
instances of any size. `PROJECT.json` maps every definition to the source lines
it stands for and lists the runs, findings, hazards and theorems. Paths below
are relative to the repository.

    tlc -workers 2 -config MeshCrossing.cfg MCMesh
    tlapm ClusterNode_proofs.tla

## The system

| Component | State | Operations | Talks to |
|---|---|---|---|
| Cluster server (`src/cluster/server.rs`) | `connections`, `established`, `timer_wheel`, `members` | poll notifications (accept, read, write, two timers), join, leave, send_remote, get_status, shutdown | peers over TCP; the executor by channel |
| Membership (`src/members.rs`) | an ORSet of NodeIds | new, add, leave, join, join_delta, all | owned by the cluster server |
| Timer wheel (`src/timer_wheel.rs`) | a ring of key sets, two pointers | insert, remove, expire | cluster server, TCP server handler |
| Executor (`src/executor/executor.rs`) | `processes`, `service_senders`, a ferris wheel, its own channel | envelope, start, stop, register, status, tick, shutdown | processes by call, services and cluster server by channel |
| Node API and threads (`src/node.rs`, `src/lib.rs`) | two senders; three threads | one message per call; shutdown is two | executor, cluster server |
| Service (`src/service/service.rs`) | a channel and a poller | wait, handle_envelopes | executor, its handler |
| TCP server handler (`src/service/tcp_server_handler.rs`) | connections, two timer wheels, one output Vec | accept, read, two ticks, envelopes | clients, Node, its connection handlers |
| Serializers (`src/serialize/`) | a frame reader, a frame writer | read_msg, write_msgs, set_writable | a socket |
| Ids, metrics | none of their own | naming, counting | the above |

What is hard in it:

* **Two ends, one connection.** Two nodes may dial each other at once, or one
  may redial after a time-out the other has not noticed. Each end decides from
  what it has seen which connection to close (`choose_connection_to_close`).
  Correct if the ends settle on the same connection, and no third state (a
  connection that is pinged for ever but used by nobody) is left.
* **Several maps for one fact.** A connection is in `connections`, perhaps in
  `established`, and in the wheel under a slot only it remembers; handlers close
  connections in the middle of loops over messages, and errors are acted on only
  after a whole batch. Correct if the three agree between any two steps.
* **Membership spreads in two ways**, by Members on a new connection and by
  deltas, and only the second is passed on.
* **Nested routing.** The executor handles its own envelopes at once, other
  local ones through its channel, and metrics requests by recursion. Correct if
  output arrives in order and no expired timer is lost.
* **Shutdown** is two messages to two threads that unwrap their sends to each
  other. A service that ends takes the executor with it at the next envelope.
  Correct if no thread is left waiting for one that is gone.
* **Sockets that block.** Frames are kept, a flag says so, and the poller has to
  be asked for a write event: three things, changed in different functions.
* **Requests of a TCP service** are answered, time out, or both, in either
  order, before or after their connection has gone; connections share one
  output Vec, and every error leaves a loop half way. Correct if a request
  stays timed while its connection lives, whatever happens to the others.

## The modules

    TimerWheel ───────────────┬── ClusterServer ──┬── ClusterNode
                              │                   └── Mesh
                              └── TcpServer
    FrameWriter ──────────────┬── TcpServer
                              └── ClusterWriter
    Executor, NodeThreads     on their own
    KeepAlive                 abstract, implemented by ClusterNode and TcpServer
    Basics_proofs ────────────┬── ClusterServer_proofs ──┬── ClusterNode_proofs
                              │                          └── Mesh_proofs
                              └── TcpServer_proofs ───────── TcpReplies_proofs
    Executor_proofs, ClusterWriter_proofs   on their own

Each `MC*` module only instantiates a specification for TLC.

**TimerWheel** has the operations of `timer_wheel.rs` as operators on a record
of slots and pointers, with the arithmetic modulo the size.

**KeepAlive** is what the users of a wheel are promised: a key has `Size` ticks
left when it is armed, loses one at every tick, and does not survive the tick
with one left. `ClusterNode` and `TcpServer` are shown to implement it
(`TimeoutsHold`, `ConnectionTimeoutsHold`), mapping a connection to the number
of ticks from its slot to the read pointer. Both properties also tie the ticks
together: a step of `tick` (of `connection_tick`) has to be a Tick of KeepAlive,
so that one which moves the wheel without ageing a connection, or re-arms it,
breaks them. (A `connection_tick` that changed nothing at all would be a
stuttering step, which no action property can tell from no tick.)

**FrameWriter** is the writer of the amy crate (external) as both servers use
it: a flag and the frames kept, as operators on a record.

**ClusterServer** has the handlers of `server.rs` as functions from server state
to server state, one operator per method, under the method's name: `close`,
`reset_timer`, `establish_connection`, `check_connections`, ... It has no
variables, so both specifications below use the same text.

**ClusterNode** is one server thread among arbitrary peers. An action is one
notification of a batch, one decoded message of a read, or one other
`ClusterMsg`; `errs` holds the ids of the errors that `run()` will close at the
end of the batch, `reading` the connection whose messages are being handled, so
that everything that can happen between two steps of the code does. Any write
may fail, any peer may connect, and a peer's Members or Delta may make the
membership anything. Peers are assumed to be rabble nodes in one respect: the
first message on a connection is Members, with the sender's own NodeId. Unwraps
that can fail end in status `panicked`.

**Mesh** is several servers joined by sockets with FIFO contents, running the
same handlers, with the replicated membership (dots and tombstones; the `orset`
crate is external). Timers are not counted: a tick may time out any connection,
as often as `MaxTimeouts` allows. A read handles any number of the messages
that have arrived, in one step, because the thread does nothing else meanwhile.
The error of writing to a socket the peer has closed is optional at each write
(`WritesFail`), and closes the connection. Pings are left out; they only re-arm
timers. Envelopes for actors on other nodes are in: each is numbered, and
`mail` remembers on which connection it was written, and whether it was
delivered or lost (`send_remote` found no connection, or one that was closed with
the envelope in it). A node may join
itself, which the code does not prevent; the membership part of that is in, the
socket it would dial to itself is not.

**ClusterWriter** is what ClusterServer leaves out of one connection: the frames
its writer keeps and the interest in write events (`write` and `conn_write`),
against a socket with room for `Room` frames.

**Executor** is one executor thread with arbitrary processes: each call returns
any list of at most `MaxOutput` envelopes. The loops of `start`,
`route_to_process` and `tick` are unrolled with an explicit call stack, so that
the nesting through `send_metrics` is there. Messages of other threads are
taken to arrive when they are handled: as those threads run concurrently, they
can have put them in the channel at the right place. This allows a little more
than the code does (an answer of a service may overtake). The history `owed`,
`void` and `own` says which timers should fire, which a process has cancelled
(from the moment the call that returned the CancelTimer ended, before the
executor has looked at it), and which were started by the process that has the
Pid now.

**TcpServer** is a service thread that runs a `TcpServerHandler`: the loop of
`Service::wait`, the listener, connections with their serializers, the two
wheels, `handle_connection_msgs` with its early return, and the clients.
Connection handlers are arbitrary: a call returns any list of replies and of
envelopes with CorrelationIds of its connection, or with none, or (`Loose`) with
one that leaves the connection out. A client's bytes are chunks that turn out to
be a message, a part of one, or garbage. `Failing` says where a write may fail.
Actions are single notifications, one turn of the loop of `request_tick`
(`Fire`), one message of `handle_readable`, or one envelope.

**NodeThreads** is the three threads of a node and that of one service, reduced
to which message leads to which send, what a failed send does in each place,
and how each thread ends. A batch of notifications may hold the executor's tick
together with a read that forwards an envelope, in either order.

## Runs

| Run | Instance | What it shows |
|---|---|---|
| `cluster_node` | 2 sockets, 3 NodeIds, 2 slots | the two maps and the wheel agree after every step; time-outs are exact; only heard peers are re-armed; no panic while the executor lives |
| `mesh_crossing` | 2 nodes, 2 sockets, 2 joins, 1 time-out, 1 envelope, failing writes | crossing and repeated connections: when nothing is under way the ends agree, and the mesh converges; what a failed write costs of a read is bounded, and never the handshake |
| `mesh_transitive` | 3 nodes, 3 sockets, 2 joins in turn, 1 envelope | joins are transitive if they do not overlap; what was written to a connection that stays up is delivered, also among handshakes and duplicate connections |
| `mesh_leave` | 2 nodes, 1 join, 1 leave (of anyone, by anyone), 1 time-out, failing writes | who has left is disconnected |
| `cluster_writer` | room for 2 frames, 7 frames | blocked frames keep their order and arrive; write events are asked for as long as they are of use, and no longer |
| `executor` | a process with 2 correlation ids, a service and a remote actor with 1, timers of all of them, 3 envelopes | output in order, calls do not nest, no expired timer of a process is lost, a cancelled one is out of the wheel before the next message |
| `node_threads` | 3 messages in the channels, 2 calls, errors, a service | shutdown ends all threads, also after a failure; a lost executor ends the node; a service ends when told to |
| `tcp_requests` | 2 clients, 2 slots in each wheel, lists of 2, failing writes | requests stay timed, replies stay on their connection, a connection has one slot of the wheel and times out as KeepAlive says, no panic while the executor lives |
| `tcp_request_timeouts` | 2 clients, 2 slots, lists of 1, no connection timeout | every Timeout has its turn; a client that is gone is dropped |

Three more runs end in a violation, each of a statement of a document, a
comment or a test:

| Run | Disagreement |
|---|---|
| `mesh_concurrent_joins` | two nodes that join a third at once may never learn of each other: what comes by Members is not passed on |
| `node_shutdown_panics` | a tick between the two messages of `shutdown` panics the cluster server, while the tests unwrap the join handles |
| `tcp_unflushed` | a reply that did not fit into the socket stays in the serializer: the socket is registered for reading only |

**Statements that do not hold.** Eight more were met while modelling. They are
not among the runs of `PROJECT.json`, but stated in the modules, each with a
configuration with which TLC refutes it:

| Configuration | Definition | What the code does instead |
|---|---|---|
| `MeshReadLoss.cfg` | `ReadIsApplied` | a failed re-broadcast on one connection drops the messages already decoded from another, which stays up |
| `MeshRejoin.cfg` | `JoinConnects` | a node that left itself is not a member in its own eyes after `join` and disconnects at every tick |
| `MeshSendDrops.cfg` | `MembersAreReached` | `send_remote` drops an envelope to a member that is not connected yet |
| `ExecutorServiceTimers.cfg` | `ServiceTimersFire` | an expired timer of a service is dropped, though the user guide offers timers to services |
| `ExecutorStaleTimer.cfg` | `TimeoutsAreOwn` | a process is told the Timeout of its predecessor under the same Pid |
| `TcpTickLoses.cfg` | `RequestsAreTimed` | a failed write in `request_tick` loses the Timeouts of the other connections in that tick |
| `TcpPartResets.cfg` | `OnlyMessagesReset` | bytes that are no message reset the connection timer |
| `TcpLooseCid.cfg` | `PanicsOnlyWithoutExecutor` | a CorrelationId without a connection panics the service thread |

`RequestsAreTimed` and `PanicsOnlyWithoutExecutor` (of TcpServer) hold in the
runs above under assumptions that these configurations lift: writes of
`request_tick` do not fail (`"tick"` not in `Failing`), and handlers name their
connection (not `Loose`). So neither says anything of the hazards at
`tcp_server_handler.rs:181` and `:261`, which `PROJECT.json` lists without a
property; and `JoinConnects` and `MembersAreReached` name hazards that no property
covers because the code does what they rule out. `EnvelopesArrive` is checked
without failing writes. In place of `ReadIsApplied`, which the code does not
satisfy, `ReadLossIsBounded` says what it does satisfy with failing writes: only
what comes behind a delta of the same read is lost, never the handshake, and only
if some connection to a peer that is gone is closed.

A timer cancelled in the very tick in which it expires is told all the same,
because `expire()` returns every key of the tick before the first owner is
called. `CancelHolds` is about every later tick: it takes the timer for cancelled
when the call returns, and asks that it be out of the wheel when the executor
takes its next message. That `CancelTimer` does not wait in the channel behind
other output is what makes it true.

**Bounds.** Two sockets per pair are what it takes for connections to cross; a
third would only be one more of the same direction. One time-out gives a redial
against a half-open connection. Three nodes are what transitivity needs. Two
slots make the pointers wrap at every second tick. Three envelopes are the
least with which a process can overtake itself (two returned together, one in
answer to the first); the executor treats a process that sends to itself as any
other, so one of them shows what several would. The
process has two correlation ids, so that it may cancel one timer when told of the
other, in the same tick; the service and the remote actor use one of them
(`SharedCid`), which makes four timers to expire together.
Seven frames over a socket that takes two make it block, drain and block again.
Two clients share the Vec and the wheels of a TCP service. One chunk of bytes
is enough there, because envelopes from other actors come at any time and call
a handler as a message does, and a handler may send the same request again; two
replies are the least an error can leave half way. In `tcp_requests` that chunk is
a message: a part of one re-arms the connection as a message does whose handler
returns nothing, and a frame that does not decode drops it as the end of the
stream does; `tcp_request_timeouts` has all three (`Chunk`).

**Deadlock** is checked except where the threads really end (ClusterNode,
Executor, NodeThreads and TcpServer after shutdown or panic; ClusterWriter
after its last frame or Close).

**Fairness.** Mesh: the poller is level-triggered (`write()` re-registers a
socket because its event "will keep firing indefinitely"), so a socket that can
be read or accepted is reported in the end, and the interval timer ticks;
nothing is assumed about joins, leaves, time-outs. NodeThreads: threads run,
a begun `shutdown` goes on, and the interval timer fires again and again (strong
fairness, because the bounded channel may be full in between). A service whose
`handle_envelopes` returns early with an error is taken to be told again of the
messages left in its channel (the poller's side of an amy channel). ClusterWriter:
the poller reports a socket that has room and was asked for, and the peer reads;
nobody has to send. TcpServer: every notification of a batch is handled before
the poller is asked again, so a socket or listener that goes on being reported
gets its turn although `request_tick` takes its own in between (strong
fairness); its interval timer goes on firing; clients that stay read. Nothing is
assumed about what clients send or when they go.

**Symmetry** is used where sockets (`cluster_node`) or clients (`tcp_requests`)
are interchangeable and no liveness property is checked.

**Mutants.** Every property has a variant of the code that breaks it: a
forgotten map entry, a timer inserted and not removed, a pointer that does not
wrap, "the first connection wins", a loop that gives up early, a broadcast to
connections without a handshake, output to the executor that waits in its
channel, a poller that ignores its failed send, a writer that drops frames while it is not writable, a
Vec that is not drained, a tick that stops at a connection that is gone.

## Proofs

Every safety invariant and every action property that a passing run checks is a
theorem of its specification, for all values of the constants; so are the two
refinements of `KeepAlive`. The constants are restricted by the named
assumptions of the modules only (`Size` is a positive natural number, NodeIds and
poller ids are numbers whose order is all that is used, the sets of a mesh are
finite, `NoNode`, `NoId` and the like are not among the values they stand
beside) and by the three hypotheses named below (all of them of TcpServer).

`Basics_proofs` has what insert, remove and expire leave in the slots of a wheel,
for any keys and size, and induction over the natural numbers, for a set in place
of a predicate. The library's induction theorems take an operator as parameter,
which the provers here cannot instantiate; well-founded induction in terms of
sets serves for the two recursive functions of the models (`Replies` of
TcpServer, `HandleFirst` of Mesh).

`ClusterServer_proofs` has one lemma per handler of ClusterServer (`CloseGood`,
`EstablishConnectionGood`, `CheckConnectionsGood`, ...): it keeps the state of a
server good (types, the wheel and the connections agree, an established entry
names a live, greeted connection of its peer), and this is what it does to the
connections. `ClusterNode_proofs` and `Mesh_proofs` cite the same lemmas.

`ClusterNode_proofs` proves the types and five safety invariants (`TypeCorrect`,
`EstablishedConnectionsAreLive`, `OneConnectionPerPeer`, `TimersMatchConnections`,
`MembersFirst`, `NoPanicWithExecutor`). None of the five is inductive alone.
`SingleConnection` needs to know that an established connection is live and
belongs to its peer (otherwise the winner of two connections could be a closed
one) and that history names live connections only; `EstablishedIsLive` needs that
the `node` field of a connection, once set, is the peer really at the other end; a
connection's timer can be taken out of the wheel only because it is in the slot it
remembers and in no other; and the absence of panics is `EstablishedIsLive` at the
moment of the unwrap. Their conjunction with the types, `IInv`, is inductive.
From it, and from the distance of the two pointers (`PointersStayAdjacent`):

* `ServerKeepsTime`: ClusterNode implements `KeepAlive`. Initial states map to
  initial states; `tick` maps to a tick, and every other step arms some of the
  connections that were heard, drops some or stutters. The distance
  from a slot to the read pointer is the number of ticks left, so a tick lowers it
  by one modulo the size.
* `OnlyReadingRearms`: `OnlyHeardPeersAreRearmed`.

`Mesh_proofs` proves, for any number of nodes and sockets, joins, leaves,
time-outs and envelopes:

* `EndsAgreeWhenQuiet`: `EndsAgree`. The property speaks of a mesh in which
  nothing is under way; the invariant says what holds while something is. Once
  the other end has sent its Members on a connection and they are not in the
  inbox any more, this end has decided about it: it is gone or the established
  one (`SettledInv`). For that, Members has to be the first message on every
  socket and never sent twice (`MessagesInv`), a socket must have at most two
  ends, which name each other (`PairInv`), and only one of them, which has said
  nothing, until it is accepted (`BacklogInv`). Both ends run the same handler on
  what they have seen, and nothing is needed about the order in which they do.
* `ReadLossBounded`: `ReadLossIsBounded`, with failing writes. The induction
  runs over the messages of one read, of one way the fold may take: as long as
  the handler has not returned every message is applied and what one merged
  stays; it returns at a delta, which is applied by then, with a connection to a
  peer that is gone among its errors. That the handshake is never lost is not in
  the fold: Members is the first message on a socket (`MessagesInv`), so nothing
  of the same read comes before it.
* `TypeCorrectness`. Its types bound the dots by the number of joins, so it needs
  that a dot is known to the node that made it (`DotsInv`): nobody else's count
  can be ahead of its own.

Nearly every action of Mesh ends in `Commit` of what a handler has done so far.
`Working` is what a handler keeps true of that, step by step; `Outcome` is the
mesh after it; `OutcomeIInv` shows that an outcome keeps the invariant, and is
applied to every action but `accept_connection`.

`Executor_proofs`, for any actors, timers and output:

* `NoProcessTimerIsLost`: `ProcessTimersFire`, with the fact that only services
  are registered as services; a lemma for the tick, one for a turn of its loop.
* `CancelledTimersAreOut`: `CancelHolds`, which speaks of the moments between two
  messages. The invariant (`CancelInv`) says what holds in the loops: a cancelled
  timer that is still in the wheel has its CancelTimer in one of the frames of the
  call stack, so none is left when the stack is empty.
* `CallsNestOnlyForMetrics`: `CallsDoNotNest`, from the shapes the call stack can
  have.
* `ProcessOutputInOrder`: `OutputInOrder`, from the types, the nesting of the calls,
  and what the frames of the stack still hold and the channel contains.
* `TypeCorrectness`.

`ClusterWriter_proofs` proves `KeptFramesAreAwaited` and `FramesKeepTheirOrder`
for any room and number of frames. One lemma says how a write splits what is
kept and what is new; the order then follows from the associativity of `\o`.
The strengthening adds that the socket holds no more than its room (otherwise
"how many fit" would mean nothing) and that the order holds after Close too.

`TcpServer_proofs` proves, for any clients, requests, wheel size and output of
the handlers:

* `RequestTimersAreKept`: `RequestsAreTimed`, if no write of `request_tick` fails
  (`"tick" \notin Failing`; `TcpTickLoses.cfg` shows why that is assumed).
  It needs that nothing is awaited for a connection that is gone (`AwaitedInv`),
  because `Fire` lets such a request go.
* `ConnectionsHaveOneSlot`: `OneSlotPerConnection`. Dropped connections leave
  their ids in the wheel, so it needs that an id not yet accepted is nowhere in
  it (`FreshInv`): ids are not used twice.
* `NoPanicUnderExecutor`: `PanicsOnlyWithoutExecutor`, if handlers name the
  connection in their CorrelationIds (`~Loose`; see `TcpLooseCid.cfg`).
* `ConnectionsKeepTime`: the connection timers implement `KeepAlive`, if there is
  an idle timeout at all (`IdleTimeout`; without one the wheel never moves).

`TcpReplies_proofs` proves `RepliesGoHome` (`RepliesStayHome`) and the types of
TcpServer. What `handle_connection_msgs` writes is a selection of the output of a
connection, so both go by induction over that output: it is a list of messages,
and its replies name that connection. The Vec being empty between two
notifications is part of the invariant.

Only model-checked: liveness (`MeshConverges`, `EnvelopesArrive`,
`LeaveDisconnects`, `FramesArrive`, `NoIdleEvents`, `RequestsEnd`,
`GoneClientsAreDropped` and all of NodeThreads), which rests on fairness and
`ENABLED`.

## Not modelled

Parsing and printing of Pids, NodeIds and errors; metrics and logging (counters
that nothing reads back); the contents and encoding of messages, and how frames
are put together from bytes on the reading side, beyond what a read may return;
the protobuf serializer, which has the methods of the msgpack one over another
encoding; the set-up of a node (configuration, building the channels); the
crates amy (poller, frames), orset and ferris beyond what is said above; the
example of chain replication under `src/tests`, which is read as a statement of
what is expected. An interval of zero (a request timeout below ten
milliseconds) is left to the poller crate.

## Plan

1. Done: TimerWheel, ClusterServer, ClusterNode with its invariants and their
   proofs; Mesh with envelopes, and the agreement of its ends proved;
   ClusterWriter and TcpServer with their proofs; Executor with cancelled timers
   and incarnations, and its proofs; NodeThreads with a service.
2. Theorems left: the safety half of `EnvelopesArrive` (an envelope that was
   written and not cut is in the inbox at the other end), and of NodeThreads the
   absence of panics before shutdown begins.
3. Models left: several envelopes across a replaced connection (their order);
   an executor and a TCP service composed, so that a request, its answer and
   its time-out are seen from both sides.
