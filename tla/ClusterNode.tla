----------------------------- MODULE ClusterNode -----------------------------
(***************************************************************************)
(* One cluster server thread (ClusterServer::run) among arbitrary peers:   *)
(* the poller may report any of its sockets, any peer may connect, any     *)
(* write may fail, and what a peer's Members or Delta does to the          *)
(* membership is arbitrary, because the peer's own history is.  A peer is  *)
(* taken to be another rabble node in one respect only: the first message  *)
(* it sends on a connection is its Members, with its own NodeId.           *)
(*                                                                         *)
(* One action is one notification of a PollNotifications batch, one        *)
(* decoded message of a read, or one other ClusterMsg.  errs holds the     *)
(* socket ids of the errors a batch has met so far: they are closed by     *)
(* run() only when the whole batch has been handled.                       *)
(***************************************************************************)
EXTENDS ClusterServer

CONSTANTS Me,       \* this node
          NoId      \* no socket is being read

ASSUME MeAssumption == Me \in Node /\ NoId \notin Id

VARIABLES
    members,        \* what Members::all() returns
    srv,            \* connections, established and timer_wheel
    errs,           \* ids of the errors collected in the current batch
    reading,        \* the id whose decoded messages are being handled
    executor_up,    \* the executor thread still holds its receiver
    status,         \* "running", "stopped" or "panicked"
    greeted         \* history: live connections whose Members was handled

vars == <<members, srv, errs, reading, executor_up, status, greeted>>

conns == srv.connections
est   == srv.established
wheel == srv.timer_wheel

TypeOK ==
    /\ members \subseteq Node
    /\ srv \in ServerState /\ srv.node = Me
    /\ errs \subseteq Id
    /\ reading \in Id \cup {NoId}
    /\ executor_up \in BOOLEAN
    /\ status \in {"running", "stopped", "panicked"}
    /\ greeted \subseteq Id

Init ==
    /\ members = {Me}
    /\ srv = ServerNew(Me)
    /\ errs = {}
    /\ reading = NoId
    /\ executor_up = TRUE
    /\ status = "running"
    /\ greeted = {}

Polling == status = "running" /\ reading = NoId     \* between notifications
Handled == Polling /\ errs = {}                     \* between ClusterMsgs

(* A new server state; connections that are gone take their history along. *)
Becomes(s, heard) ==
    /\ srv' = s
    /\ greeted' = (greeted \cup heard) \cap Live(s)

(* run() returns, or the thread unwinds: every socket is closed.           *)
Exit(how) ==
    /\ status' = how
    /\ Becomes(ServerNew(Me), {})
    /\ errs' = {} /\ reading' = NoId

(* Fresh ids for client connections: sockets that connect() opened.        *)
DialSets == {d \in PartialFn(Id \ Live(srv), Node) :
               \A i, j \in DOMAIN d : d[i] = d[j] => i = j}

(* check_connections on s, or the panic of its unwrap.                     *)
Check(s, all, dial, heard) ==
    IF CheckPanics(s, all)
    THEN Exit("panicked")
    ELSE /\ Dials(s, all, dial)
         /\ Becomes(check_connections(s, all, dial, dial), heard)
         /\ UNCHANGED <<errs, reading, status>>

-----------------------------------------------------------------------------
(* Poll notifications.                                                     *)

(* One accepted socket: init_connection and send_members.  A failed write  *)
(* leaves members_sent unset and the id among the errors.                  *)
accept_connection(id, n) ==
    /\ Polling /\ id \notin Live(srv)
    /\ LET t == init_connection(srv, [i \in {id} |-> n], [i \in {id} |-> NoNode])
       IN \/ Becomes(send_members(t, id), {}) /\ UNCHANGED errs
          \/ Becomes(t, {}) /\ errs' = errs \cup {id}
    /\ UNCHANGED <<members, reading, executor_up, status>>

(* First Event::Read of a client connection: it is connected.              *)
ReadUnsent(id) ==
    /\ Polling /\ id \in Live(srv) /\ ~conns[id].members_sent
    /\ Becomes(send_members(srv, id), {})
    /\ UNCHANGED <<members, errs, reading, executor_up, status>>

(* A write, read, decode or reregister error on a socket that was polled.  *)
SocketError(id) ==
    /\ Polling /\ id \in Live(srv)
    /\ errs' = errs \cup {id}
    /\ UNCHANGED <<members, srv, reading, executor_up, status, greeted>>

(* read() that does not ask whether the members were sent.                 *)
BeginRead_mut(id) ==
    /\ Polling /\ id \in Live(srv)
    /\ reading' = id
    /\ UNCHANGED <<members, srv, errs, executor_up, status, greeted>>

(* decode_messages succeeded: handle the messages one after the other.     *)
BeginRead(id) ==
    /\ Polling /\ id \in Live(srv) /\ conns[id].members_sent
    /\ reading' = id
    /\ UNCHANGED <<members, srv, errs, executor_up, status, greeted>>

EndRead ==
    /\ status = "running" /\ reading # NoId
    /\ reading' = NoId
    /\ UNCHANGED <<members, srv, errs, executor_up, status, greeted>>

(* tick() that also resets the timers of the connections it pings.         *)
tick_mut(failed, dial) ==
    LET t == [srv EXCEPT !.timer_wheel = WheelExpire(@)]
        u == close(t, WheelExpired(wheel))
        v == [u EXCEPT !.connections =
                 [i \in Live(u) |->
                   [u.connections[i] EXCEPT !.timer_wheel_index =
                       IF u.connections[i].members_sent
                       THEN u.timer_wheel.current_write ELSE @]],
              !.timer_wheel = WheelInsert(WheelRemove(@, IndexOf(u, Receivers(u))),
                                          Receivers(u))]
    IN /\ Polling
       /\ failed = {}
       /\ Check(v, members, dial, {})
       /\ UNCHANGED <<members, executor_up>>

(***************************************************************************)
(* tick(): close the connections whose timer ran out, ping the others,     *)
(* and - unless a ping could not be written - check the connections.       *)
(***************************************************************************)
tick(failed, dial) ==
    LET t == [srv EXCEPT !.timer_wheel = WheelExpire(@)]
        u == close(t, WheelExpired(wheel))
    IN /\ Polling
       /\ failed \subseteq Receivers(u)
       /\ \/ /\ failed # {}
             /\ dial = [i \in {} |-> {}]
             /\ Becomes(u, {})
             /\ errs' = errs \cup failed
             /\ UNCHANGED <<reading, status>>
          \/ /\ failed = {}
             /\ Check(u, members, dial, {})
       /\ UNCHANGED <<members, executor_up>>

(* The executor's tick: the send is unwrapped.                             *)
tick_executor ==
    /\ Polling /\ ~executor_up
    /\ Exit("panicked")
    /\ UNCHANGED <<members, executor_up>>

(* A batch with errors is over: run() closes the ids it names.  A          *)
(* PollNotificationErrors never breaks the loop, whatever is in it.        *)
HandleErrors ==
    /\ Polling /\ errs # {}
    /\ Becomes(close(srv, errs), {})
    /\ errs' = {}
    /\ UNCHANGED <<members, reading, executor_up, status>>

-----------------------------------------------------------------------------
(* handle_decoded_message, for the messages of the connection being read.  *)
(* The connection may have been closed by an earlier message of the read.  *)

(* Members opens the stream of every peer, so its connection is still live.*)
RecvMembers(all, dial) ==
    /\ status = "running" /\ reading \in Live(srv)
    /\ members' = all
    /\ Check(establish_connection(srv, reading, conns[reading].sock),
             all, dial, {reading})
    /\ UNCHANGED executor_up

RecvPing ==
    /\ status = "running" /\ reading # NoId
    /\ Becomes(reset_timer(srv, reading), {})
    /\ UNCHANGED <<members, errs, reading, executor_up, status>>

(* With the executor gone the rest of the decoded messages is dropped.     *)
RecvEnvelope ==
    /\ status = "running" /\ reading # NoId
    /\ reading' = IF executor_up THEN reading ELSE NoId
    /\ UNCHANGED <<members, srv, errs, executor_up, status, greeted>>

(* A delta that changes the members is sent on; a failed write drops the   *)
(* rest of the decoded messages.  The connections are left to the tick.    *)
RecvDelta(all, failed) ==
    /\ status = "running" /\ reading # NoId
    /\ members' = all
    /\ failed \subseteq Receivers(srv)
    /\ errs' = errs \cup failed
    /\ reading' = IF failed = {} THEN reading ELSE NoId
    /\ UNCHANGED <<srv, executor_up, status, greeted>>

-----------------------------------------------------------------------------
(* The other ClusterMsgs.  run() closes the ids of their errors at once.   *)

(* broadcast_delta comes before connect, which a failed write prevents.    *)
(* A socket that the poller will not register stops the server.            *)
join(n, failed, dial) ==
    /\ Handled
    /\ members' = members \cup {n}
    /\ failed \subseteq Receivers(srv)
    /\ \A i \in DOMAIN dial : dial[i] = n /\ failed = {}
    /\ \/ /\ Becomes(close(init_connection(srv, dial, dial), failed), {})
          /\ UNCHANGED <<errs, reading, status>>
       \/ failed = {} /\ dial = [i \in {} |-> {}] /\ Exit("stopped")
    /\ UNCHANGED executor_up

leave(n, failed) ==
    /\ Handled
    /\ members' = members \ {n}
    /\ failed \subseteq Receivers(srv)
    /\ Becomes(close(srv, failed), {})
    /\ UNCHANGED <<errs, reading, executor_up, status>>

(* A write that fails in send_remote closes the connection; a failure to   *)
(* reregister or to encode stops the server as well.                       *)
SendRemoteFails(n) ==
    /\ Handled /\ n \in DOMAIN est
    /\ \/ /\ Becomes(close(srv, {est[n]}), {})
          /\ UNCHANGED <<errs, reading, status>>
       \/ Exit("stopped")
    /\ UNCHANGED <<members, executor_up>>

(* A status answer that the executor does not take is a SendError.         *)
GetStatusFails ==
    /\ Handled /\ ~executor_up
    /\ Exit("stopped")
    /\ UNCHANGED <<members, executor_up>>

Shutdown ==
    /\ Handled
    /\ Exit("stopped")
    /\ UNCHANGED <<members, executor_up>>

ExecutorExits ==
    /\ executor_up
    /\ executor_up' = FALSE
    /\ UNCHANGED <<members, srv, errs, reading, status, greeted>>

-----------------------------------------------------------------------------
Notification ==
    \/ \E id \in Id, n \in Node : accept_connection(id, n)
    \/ \E id \in Id : ReadUnsent(id) \/ SocketError(id) \/ BeginRead(id)
    \/ \E failed \in SUBSET Live(srv), dial \in DialSets : tick(failed, dial)
    \/ tick_executor
    \/ HandleErrors

Message ==
    \/ \E all \in SUBSET Node, dial \in DialSets : RecvMembers(all, dial)
    \/ RecvPing \/ RecvEnvelope \/ EndRead
    \/ \E all \in SUBSET Node, failed \in SUBSET Live(srv) : RecvDelta(all, failed)

Request ==
    \/ \E n \in Node, failed \in SUBSET Live(srv), dial \in DialSets :
          join(n, failed, dial)
    \/ \E n \in Node, failed \in SUBSET Live(srv) : leave(n, failed)
    \/ \E n \in Node : SendRemoteFails(n)
    \/ GetStatusFails \/ Shutdown \/ ExecutorExits

Next == Notification \/ Message \/ Request

Spec == Init /\ [][Next]_vars

-----------------------------------------------------------------------------
(* Every established entry names a live connection that belongs to that    *)
(* peer: disconnect_established unwraps connections.remove(id) on it and   *)
(* send_remote writes to it.  Any path that forgets one of the two maps    *)
(* breaks it.                                                              *)
EstablishedIsLive ==
    \A n \in DOMAIN est :
        est[n] \in DOMAIN conns /\ conns[est[n]].node = n /\ conns[est[n]].sock = n

(* "We only want a single connection between nodes": a connection on which *)
(* the peer's Members was handled is the established connection to that    *)
(* peer.  One that is live without being established would be pinged, and  *)
(* so kept alive, for ever.                                                *)
SingleConnection ==
    \A i \in greeted : conns[i].sock \in DOMAIN est /\ est[conns[i].sock] = i

(* The timer wheel holds every live connection in exactly the slot that    *)
(* the connection remembers, and nothing else: no connection without a     *)
(* timer, no timer that outlives its connection or fires twice.            *)
WheelMatchesConnections ==
    \A i \in Slot :
        wheel.data[i] = {id \in Live(srv) : conns[id].timer_wheel_index = i}

(* A peer is established only on a connection on which our own Members has *)
(* been written, so that Members is the first thing the peer reads there.  *)
MembersBeforeEstablished ==
    \A n \in DOMAIN est : conns[est[n]].members_sent

(* The write pointer is one slot behind the read pointer.                  *)
PointersAdjacent == wheel.current_read = (wheel.current_write + 1) % Size

(* The connection timers as KeepAlive sees them.                           *)
TicksLeftOf == [i \in Live(srv) |-> TicksLeft(wheel, conns[i].timer_wheel_index)]

KA == INSTANCE KeepAlive WITH Key <- Id, left <- TicksLeftOf

(* The server drives its wheel as KeepAlive asks, and tick() is a Tick of  *)
(* it: each one takes one from every connection it leaves, and one not     *)
(* heard from for Size ticks is closed by the last of them.  That none is  *)
(* timed out before is WheelMatchesConnections.                            *)
TimeoutsHold ==
    /\ KA!Spec
    /\ [][(\E failed \in SUBSET Live(srv), dial \in DialSets : tick(failed, dial))
             => KA!Tick]_vars

(* Only a message read from a connection re-arms its timer - nothing that  *)
(* this server sends on it, and nothing heard from others: the time left   *)
(* to a connection that is not being read changes only by ticking away.    *)
OnlyHeardPeersAreRearmed ==
    [][\A i \in (DOMAIN TicksLeftOf \cap DOMAIN TicksLeftOf') \ {reading} :
          TicksLeftOf[i] - TicksLeftOf'[i] =
             IF wheel'.current_read = wheel.current_read THEN 0 ELSE 1]_vars

(* No panic as long as the executor thread lives: the only unwrap of the   *)
(* server that its own state decides is the one in disconnect_established. *)
PanicsOnlyWithoutExecutor == status = "panicked" => ~executor_up
=============================================================================
