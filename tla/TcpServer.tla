------------------------------ MODULE TcpServer ------------------------------
(***************************************************************************)
(* A service thread (src/service/service.rs) that runs a TcpServerHandler  *)
(* (src/service/tcp_server_handler.rs) over a serializer (src/serialize).  *)
(* Clients connect, send and go at will.  Connection handlers are          *)
(* arbitrary: a call may return any short list of replies to its client    *)
(* and of envelopes to other actors, with CorrelationIds of that           *)
(* connection or none.                                                     *)
(*                                                                         *)
(* Poller ids are not used twice, so a client has the id its connection    *)
(* has or will have.  The poller is level-triggered and a socket is        *)
(* registered for reading only, once and for all, so what it reports is    *)
(* what Event::Read says: bytes to read, or the end of the stream.         *)
(* The loop of handle_readable does not matter to anyone else, so its      *)
(* turns are single notifications; what other threads put into the channel *)
(* of the service is taken to arrive when it is handled.                   *)
(***************************************************************************)
EXTENDS TimerWheel, FrameWriter, FiniteSets

CONSTANTS Id,           \* clients
          Request,      \* the request field of CorrelationIds
          NoCid,        \* None, of Option<CorrelationId>
          NoConn,       \* a CorrelationId whose connection is None
          Loose,        \* handlers use that one too
          IdleTimeout,  \* connection_timeout.is_some()
          Failing,      \* where write_msgs may return an error: "read",
                        \* "envelope" or "tick"
          Room,         \* replies a socket takes before it blocks
          MaxOutput,    \* ConnectionMsgs returned by one call
          MaxReplies,   \* replies returned by all calls
          Chunk,        \* what bytes of a client may make: a message, a part
                        \* of one that the frame reader keeps, or a frame
                        \* that does not decode
          MaxChunks     \* chunks of bytes sent by all clients

ASSUME TcpAssumption ==
    /\ {MaxOutput, MaxReplies, MaxChunks, Room} \subseteq Nat
    /\ {Loose, IdleTimeout} \subseteq BOOLEAN
    /\ Failing \subseteq {"read", "envelope", "tick"}
    /\ Chunk \subseteq {"message", "part", "garbage"}
    /\ NoConn \notin Id \X Request /\ NoCid \notin (Id \X Request) \cup {NoConn}
    /\ IsFiniteSet(Id)

VARIABLES
    connections,            \* HashMap: id -> [timer_wheel_slot, serializer]
    connection_timer_wheel, request_timer_wheel,
    firing,                 \* what is left of the loop of request_tick
    output,                 \* the Vec that all connections share
    status,                 \* "running", "returned" or "panicked"
    node_up,                \* the executor holds its end of the channel
    sock,                   \* the client's side of every connection
    awaiting,               \* history: requests sent, no Timeout so far
    budget                  \* what is left of the bounds

vars == <<connections, connection_timer_wheel, request_timer_wheel, firing, output,
          status, node_up, sock, awaiting, budget>>

Cid == (Id \X Request) \cup (IF Loose THEN {NoConn} ELSE {})

(* A ConnectionMsg: an envelope, or a reply stamped with the connection    *)
(* whose handler returned it.                                              *)
Output == [reply : {FALSE}, cid : Cid \cup {NoCid}] \cup [reply : {TRUE}, of : Id]

Sock == [state : {"none", "waiting", "open", "gone", "closed"},
         inbox : Seq(Chunk), wire : Seq(Id)]

Connection == [timer_wheel_slot : Slot, serializer : Writers(Id)]

Live == DOMAIN connections

TypeOK ==
    /\ Live \subseteq Id /\ \A i \in Live : connections[i] \in Connection
    /\ connection_timer_wheel \in Wheels(Id)
    /\ request_timer_wheel \in Wheels(Cid)
    /\ firing \subseteq Cid /\ awaiting \subseteq Cid
    /\ output \in Seq(Output)
    /\ status \in {"running", "returned", "panicked"} /\ node_up \in BOOLEAN
    /\ \A i \in Id : sock[i] \in Sock
    /\ budget \in [replies : 0 .. MaxReplies, chunks : 0 .. MaxChunks]

Init ==
    /\ connections = [i \in {} |-> {}]
    /\ connection_timer_wheel = WheelNew /\ request_timer_wheel = WheelNew
    /\ firing = {} /\ output = <<>> /\ awaiting = {}
    /\ status = "running" /\ node_up = TRUE
    /\ sock = [i \in Id |-> [state |-> "none", inbox |-> <<>>, wire |-> <<>>]]
    /\ budget = [replies |-> MaxReplies, chunks |-> MaxChunks]

Idle == status = "running" /\ firing = {}

(* The replies in the output of a call, and their number.                  *)
Replies(out) ==
    LET upto[n \in 0 .. Len(out)] ==
            IF n = 0 THEN <<>>
            ELSE IF out[n].reply THEN Append(upto[n - 1], out[n]) ELSE upto[n - 1]
    IN upto[Len(out)]

Replied(out) == Cardinality({k \in DOMAIN out : out[k].reply})

(* What the handler of i may return: envelopes and replies.                *)
Msgs(i) ==
    {[reply |-> FALSE, cid |-> c] : c \in ({i} \X Request) \cup {NoCid} \cup (Cid \cap {NoConn})}
    \cup {[reply |-> TRUE, of |-> i]}

Lists == [i \in Id |-> UNION {[1 .. n -> Msgs(i)] : n \in 0 .. MaxOutput}]

Outputs(i) == {out \in Lists[i] : Replied(out) <= budget.replies}

-----------------------------------------------------------------------------
(* The calls of a handler and what is done with their output.              *)

Cids(msgs) == {msgs[k].cid : k \in {k \in DOMAIN msgs : ~msgs[k].reply}} \ {NoCid}

HasEnvelope(msgs) == \E k \in DOMAIN msgs : ~msgs[k].reply

(* What write_msgs, for each of the replies, leaves in the serializer of i *)
(* and in the socket.                                                      *)
write_msgs(i, msgs) ==
    LET replies == Replies(msgs)
        frames == [k \in DOMAIN replies |-> replies[k].of]
        room   == Room - Len(sock[i].wire)
    IN [serializer |-> FrameWrite(connections[i].serializer, frames, room),
        wire |-> sock[i].wire \o Written(connections[i].serializer, frames, room)]

(* handle_connection_msgs that goes through the Vec and does not drain it: *)
(* an error leaves the rest to the next connection.                        *)
handle_connection_msgs_mut(msgs, place) ==
    {[done |-> msgs, failed |-> FALSE, rest |-> <<>>]} \cup
    {[done |-> SubSeq(msgs, 1, k - 1), failed |-> TRUE,
      rest |-> SubSeq(msgs, k + 1, Len(msgs))] :
        k \in {k \in DOMAIN msgs : msgs[k].reply /\ place \in Failing}}

(* How far the loop over the output comes: to the end, or to a reply that  *)
(* cannot be encoded or written.  The Vec is drained in either case.       *)
handle_connection_msgs(msgs, place) ==
    {[done |-> msgs, failed |-> FALSE, rest |-> <<>>]} \cup
    {[done |-> SubSeq(msgs, 1, k - 1), failed |-> TRUE, rest |-> <<>>] :
        k \in {k \in DOMAIN msgs : msgs[k].reply /\ place \in Failing}}

(* Connections leave the map and their sockets are closed.                 *)
Without(f, ids) == [j \in DOMAIN f \ ids |-> f[j]]

Closed(socks, ids) ==
    [j \in Id |-> IF j \in ids THEN [state |-> "closed", inbox |-> <<>>, wire |-> <<>>]
                               ELSE socks[j]]

(* Nothing is awaited for a connection that is gone; its requests stay in  *)
(* the wheel.                                                              *)
Awaited(cids, ids) == {c \in cids : c = NoConn \/ c[1] \notin ids}

(* The id is not taken out of the slot it was in.                          *)
update_connection_timeout_mut(i) ==
    WheelInsert(connection_timer_wheel, {i})

(* The wheel afterwards; the slot is its current_write.                    *)
update_connection_timeout(i) ==
    WheelInsert(WheelRemove(connection_timer_wheel,
                            [j \in {i} |-> connections[i].timer_wheel_slot]), {i})

Rearmed(i) == IF IdleTimeout THEN update_connection_timeout(i) ELSE connection_timer_wheel

NewSlot(i) == IF IdleTimeout THEN connection_timer_wheel.current_write
                             ELSE connections[i].timer_wheel_slot

(* The thread ends and drops all it holds: clients find their connections  *)
(* closed.  Nothing more happens.                                          *)
Ends(how) ==
    /\ status' = how
    /\ connections' = Without(connections, Live)
    /\ connection_timer_wheel' = WheelNew /\ request_timer_wheel' = WheelNew
    /\ firing' = {} /\ output' = <<>> /\ awaiting' = {}
    /\ sock' = Closed(sock, Id)
    /\ budget' = [replies |-> 0, chunks |-> 0]
    /\ UNCHANGED node_up

(* The output of the handler of i is handled.  was is what was awaited     *)
(* before and left what is left of the loop of request_tick.  An error     *)
(* ends that loop, and drops the connection in handle_readable; elsewhere  *)
(* it is only logged.                                                      *)
Handled(i, place, was, left, out, o) ==
    LET w     == write_msgs(i, o.done)
        dead  == IF o.failed /\ place = "read" THEN {i} ELSE {}
        reset == place = "read" /\ ~o.failed
        conn  == [timer_wheel_slot |-> IF reset THEN NewSlot(i)
                                       ELSE connections[i].timer_wheel_slot,
                  serializer |-> w.serializer]
    IN /\ request_timer_wheel' = WheelInsert(request_timer_wheel, Cids(o.done))
       /\ connection_timer_wheel' = IF reset THEN Rearmed(i) ELSE connection_timer_wheel
       /\ awaiting' = Awaited(was \cup Cids(o.done), dead)
       /\ output' = o.rest
       /\ firing' = IF o.failed THEN {} ELSE left
       /\ connections' = Without([connections EXCEPT ![i] = conn], dead)
       /\ sock' = Closed([sock EXCEPT ![i].wire = w.wire,
                                      ![i].inbox = IF place = "read" THEN Tail(@)
                                                                     ELSE @], dead)
       /\ budget' = [budget EXCEPT !.replies = @ - Replied(out)]
       /\ UNCHANGED <<status, node_up>>

(* The handler of i is called.  The send to the executor is unwrapped.     *)
Call(i, place, was, left) ==
    \E out \in Outputs(i) : \E o \in handle_connection_msgs(output \o out, place) :
        \/ HasEnvelope(o.done) /\ ~node_up /\ Ends("panicked")
        \/ (HasEnvelope(o.done) => node_up) /\ Handled(i, place, was, left, out, o)

-----------------------------------------------------------------------------
(* handle_notification: the listener.                                      *)

new_connection(ids) ==
    /\ connections' = [j \in Live \cup ids |->
          IF j \in ids
          THEN [timer_wheel_slot |->
                    IF IdleTimeout THEN connection_timer_wheel.current_write ELSE 0,
                serializer |-> FrameWriterNew]
          ELSE connections[j]]
    /\ connection_timer_wheel' =
          IF IdleTimeout THEN WheelInsert(connection_timer_wheel, ids)
                         ELSE connection_timer_wheel

Backlog == {i \in Id : sock[i].state = "waiting"}

(* All that wait are accepted, or those before the one, lost, that cannot  *)
(* be registered.                                                          *)
accept_connections(ids, lost) ==
    /\ Idle /\ Backlog # {}
    /\ ids \cup lost \subseteq Backlog /\ ids \cap lost = {} /\ Cardinality(lost) <= 1
    /\ lost = {} => ids = Backlog
    /\ new_connection(ids)
    /\ sock' = Closed([j \in Id |-> IF j \in ids THEN [sock[j] EXCEPT !.state = "open"]
                                                 ELSE sock[j]], lost)
    /\ UNCHANGED <<request_timer_wheel, firing, output, status, node_up, awaiting, budget>>

-----------------------------------------------------------------------------
(* handle_notification: a connection.                                      *)

(* read_msg returns a message and handle_readable goes on with it.         *)
ReadMessage(i) ==
    /\ Idle /\ i \in Live /\ sock[i].inbox # <<>> /\ Head(sock[i].inbox) = "message"
    /\ Call(i, "read", awaiting, {})

(* There were bytes, but no message.                                       *)
ReadPart(i) ==
    /\ Idle /\ i \in Live /\ sock[i].inbox # <<>> /\ Head(sock[i].inbox) = "part"
    /\ sock' = [sock EXCEPT ![i].inbox = Tail(@)]
    /\ connections' = [connections EXCEPT ![i].timer_wheel_slot = NewSlot(i)]
    /\ connection_timer_wheel' = Rearmed(i)
    /\ UNCHANGED <<request_timer_wheel, firing, output, status, node_up, awaiting, budget>>

(* The errors of a connection are only logged.                             *)
ReadError_mut(i) ==
    /\ Idle /\ i \in Live
    /\ \/ sock[i].state = "gone"
       \/ sock[i].inbox # <<>> /\ Head(sock[i].inbox) = "garbage"
    /\ UNCHANGED vars

(* The end of the stream, which may be seen before the last messages are   *)
(* taken out of the frame reader, or a frame that does not decode: the     *)
(* connection is dropped, its id stays in the wheel.                       *)
ReadError(i) ==
    /\ Idle /\ i \in Live
    /\ \/ sock[i].state = "gone"
       \/ sock[i].inbox # <<>> /\ Head(sock[i].inbox) = "garbage"
    /\ connections' = Without(connections, {i})
    /\ sock' = Closed(sock, {i})
    /\ awaiting' = Awaited(awaiting, {i})
    /\ UNCHANGED <<connection_timer_wheel, request_timer_wheel, firing, output, status,
                   node_up, budget>>

-----------------------------------------------------------------------------
(* handle_notification: the two interval timers.                           *)

connection_tick ==
    /\ Idle /\ IdleTimeout
    /\ connection_timer_wheel' = WheelExpire(connection_timer_wheel)
    /\ LET ids == WheelExpired(connection_timer_wheel)
       IN /\ connections' = Without(connections, ids)
          /\ sock' = Closed(sock, ids \cap Live)
          /\ awaiting' = Awaited(awaiting, ids \cap Live)
    /\ UNCHANGED <<request_timer_wheel, firing, output, status, node_up, budget>>

(* request_tick: the expired CorrelationIds, in any order.                 *)
request_tick ==
    /\ Idle
    /\ firing' = WheelExpired(request_timer_wheel)
    /\ request_timer_wheel' = WheelExpire(request_timer_wheel)
    /\ UNCHANGED <<connections, connection_timer_wheel, output, status, node_up, sock,
                   awaiting, budget>>

(* request_tick that stops at a connection that is gone.                   *)
Fire_mut(c) ==
    /\ status = "running" /\ c \in firing /\ c # NoConn
    /\ \/ c[1] \in Live /\ Call(c[1], "tick", awaiting \ {c}, firing \ {c})
       \/ /\ c[1] \notin Live
          /\ firing' = {}
          /\ UNCHANGED <<connections, connection_timer_wheel, request_timer_wheel,
                         output, status, node_up, sock, awaiting, budget>>

(* One of them: the handler is told.  The connection field is unwrapped,   *)
(* and an error of the output ends the loop.                               *)
Fire(c) ==
    /\ status = "running" /\ c \in firing
    /\ \/ c = NoConn /\ Ends("panicked")
       \/ c # NoConn /\ c[1] \in Live /\ Call(c[1], "tick", awaiting \ {c}, firing \ {c})
       \/ /\ c # NoConn /\ c[1] \notin Live
          /\ firing' = firing \ {c}
          /\ UNCHANGED <<connections, connection_timer_wheel, request_timer_wheel,
                         output, status, node_up, sock, awaiting, budget>>

-----------------------------------------------------------------------------
(* handle_envelopes: one envelope of the channel.                          *)

(* A reply whose connection is gone is not expected.                       *)
handle_envelope_mut(c) ==
    /\ Idle
    /\ \/ c = NoConn /\ Ends("panicked")
       \/ c = NoCid /\ UNCHANGED vars
       \/ c \notin {NoCid, NoConn} /\ c[1] \in Live /\ Call(c[1], "envelope", awaiting, {})
       \/ c \notin {NoCid, NoConn} /\ c[1] \notin Live /\ Ends("panicked")

(* Without a CorrelationId it is an error, without a connection in it the  *)
(* unwrap panics; the timer of the request goes on.                        *)
handle_envelope(c) ==
    /\ Idle
    /\ \/ c = NoConn /\ Ends("panicked")
       \/ c = NoCid /\ UNCHANGED vars
       \/ c \notin {NoCid, NoConn} /\ c[1] \in Live /\ Call(c[1], "envelope", awaiting, {})
       \/ c \notin {NoCid, NoConn} /\ c[1] \notin Live /\ UNCHANGED vars

(* Msg::Shutdown returns from wait().                                      *)
Shutdown == Idle /\ Ends("returned")

-----------------------------------------------------------------------------
(* Clients, and the executor that ends, as long as the service runs.       *)

ClientConnects(i) ==
    /\ status = "running" /\ sock[i].state = "none"
    /\ sock' = [sock EXCEPT ![i].state = "waiting"]
    /\ UNCHANGED <<connections, connection_timer_wheel, request_timer_wheel, firing,
                   output, status, node_up, awaiting, budget>>

ClientSends(i, chunk) ==
    /\ status = "running" /\ sock[i].state = "open" /\ budget.chunks > 0
    /\ sock' = [sock EXCEPT ![i].inbox = Append(@, chunk)]
    /\ budget' = [budget EXCEPT !.chunks = @ - 1]
    /\ UNCHANGED <<connections, connection_timer_wheel, request_timer_wheel, firing,
                   output, status, node_up, awaiting>>

ClientReads(i) ==
    /\ status = "running" /\ sock[i].state = "open" /\ sock[i].wire # <<>>
    /\ sock' = [sock EXCEPT ![i].wire = Tail(@)]
    /\ UNCHANGED <<connections, connection_timer_wheel, request_timer_wheel, firing,
                   output, status, node_up, awaiting, budget>>

ClientGoes(i) ==
    /\ status = "running" /\ sock[i].state = "open"
    /\ sock' = [sock EXCEPT ![i].state = "gone"]
    /\ UNCHANGED <<connections, connection_timer_wheel, request_timer_wheel, firing,
                   output, status, node_up, awaiting, budget>>

ExecutorEnds ==
    /\ status = "running" /\ node_up
    /\ node_up' = FALSE
    /\ UNCHANGED <<connections, connection_timer_wheel, request_timer_wheel, firing,
                   output, status, sock, awaiting, budget>>

Accept == \E ids, lost \in SUBSET Backlog : accept_connections(ids, lost)

Read(i) == ReadMessage(i) \/ ReadPart(i) \/ ReadError(i)

Next ==
    \/ Accept \/ connection_tick \/ request_tick \/ Shutdown \/ ExecutorEnds
    \/ \E i \in Id : \/ Read(i)
                     \/ ClientConnects(i) \/ ClientReads(i) \/ ClientGoes(i)
                     \/ \E chunk \in Chunk : ClientSends(i, chunk)
    \/ \E c \in firing : Fire(c)
    \/ \E c \in Cid \cup {NoCid} : handle_envelope(c)

Spec == Init /\ [][Next]_vars

(* Every notification of a batch is handled before the poller is asked     *)
(* again, so what it goes on reporting gets its turn although request_tick *)
(* comes in between; the interval timer goes on firing.  Clients that stay *)
(* read what is sent to them.                                              *)
Fairness ==
    /\ SF_vars(Accept) /\ WF_vars(request_tick)
    /\ WF_vars(\E c \in firing : Fire(c))
    /\ \A i \in Id : SF_vars(Read(i)) /\ WF_vars(ClientReads(i))

FairSpec == Spec /\ Fairness

-----------------------------------------------------------------------------
(* "Every request with a CorrelationId is also tracked with a timer": as   *)
(* long as its connection lives, a request that was sent and whose Timeout *)
(* the handler has not seen is in the wheel or about to be fired.  What    *)
(* becomes of other connections does not change that, with one exception:  *)
(* a write that fails in request_tick ends its loop ("tick" in Failing).   *)
RequestsAreTimed ==
    status = "running" =>
        \A c \in awaiting : c \in firing \/ \E k \in Slot : c \in request_timer_wheel.data[k]

(* So the turn of its Timeout comes, also if it is sent again and again,   *)
(* unless the connection goes first.                                       *)
RequestsEnd ==
    \A c \in Id \X Request :
        c \in awaiting ~> (c \in firing \/ c \notin awaiting \/ status # "running")

(* What the handler of one connection returned is never written to the     *)
(* client of another, though they share one Vec and errors leave its loop  *)
(* half way.                                                               *)
RepliesStayHome ==
    \A i \in Id :
        /\ \A k \in DOMAIN sock[i].wire : sock[i].wire[k] = i
        /\ i \in Live => \A k \in DOMAIN connections[i].serializer.pending :
                            connections[i].serializer.pending[k] = i

(* The service thread does not panic while the executor lives: replies and *)
(* time-outs for connections that are gone are expected.                   *)
PanicsOnlyWithoutExecutor == status = "panicked" => ~node_up

(* A live connection is in the slot it remembers and in no other, though   *)
(* ids of dropped connections stay in the wheel: otherwise it would be     *)
(* closed under a client that is heard.                                    *)
OneSlotPerConnection ==
    IdleTimeout => \A i \in Live : \A k \in Slot :
        i \in connection_timer_wheel.data[k] <=> k = connections[i].timer_wheel_slot

(* Every connection_tick counts: a connection is not there after Size of   *)
(* them without a readable event.                                          *)
TicksLeftOf ==
    [i \in Live |-> TicksLeft(connection_timer_wheel, connections[i].timer_wheel_slot)]

ConnectionTimeouts == INSTANCE KeepAlive WITH Key <- Id, left <- TicksLeftOf
ConnectionTimeoutsHold ==
    /\ ConnectionTimeouts!Spec
    /\ [][connection_tick => ConnectionTimeouts!Tick]_vars

(* A client that is gone is noticed, with or without a connection timeout. *)
GoneClientsAreDropped ==
    \A i \in Id : sock[i].state = "gone" ~> (i \notin Live \/ status # "running")

(* "A new message has been received on a connection.  Reset the timer."    *)
OnlyMessagesReset ==
    [][\A i \in Live \cap DOMAIN connections' :
          connections'[i].timer_wheel_slot # connections[i].timer_wheel_slot =>
             sock[i].inbox # <<>> /\ Head(sock[i].inbox) = "message"]_vars

(* "When a complete message cannot be sent it is buffered for when the     *)
(* `Write` type is next writable": a reply that was buffered is written to *)
(* a client that reads, unless the connection goes first.                  *)
BufferedRepliesAreWritten ==
    \A i \in Id :
        (i \in Live /\ connections[i].serializer.pending # <<>>) ~>
            \/ i \notin Live \/ sock[i].state # "open" \/ status # "running"
            \/ connections[i].serializer.pending = <<>>
=============================================================================
