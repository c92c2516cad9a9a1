---------------------------- MODULE ClusterServer ----------------------------
(***************************************************************************)
(* The connection bookkeeping of src/cluster/server.rs, as functions from  *)
(* the state of one cluster server to its next state.  A server state is   *)
(* the part of struct ClusterServer these handlers change:                 *)
(*                                                                         *)
(*   node         the NodeId of this server                                *)
(*   connections  HashMap<usize, Conn>, keyed by poller id                 *)
(*   established  HashMap<NodeId, usize>                                   *)
(*   timer_wheel  TimerWheel<usize>                                        *)
(*                                                                         *)
(* A Conn keeps the fields the handlers read; sock stands for the socket   *)
(* and is the NodeId of the server at its other end, which this server     *)
(* learns only from the peer's Members message.  Frame readers and writers *)
(* are not part of this state.                                             *)
(*                                                                         *)
(* ClusterNode runs these handlers in one server with arbitrary peers;     *)
(* Mesh runs them in several servers joined by sockets.                    *)
(***************************************************************************)
EXTENDS TimerWheel

CONSTANTS Node,     \* NodeIds, numbered by their derived Ord (name, addr)
          Id,       \* poller ids, one per socket
          NoNode    \* None, of Option<NodeId>

ASSUME NodeAssumption == Node \subseteq Nat /\ NoNode \notin Node

Conn == [sock : Node,
         node : Node \cup {NoNode},
         is_client : BOOLEAN,
         members_sent : BOOLEAN,
         timer_wheel_index : Slot]

(* Partial functions: the HashMaps of the server.                          *)
PartialFn(S, T) == UNION {[D -> T] : D \in SUBSET S}

ServerState == [node : Node,
                connections : PartialFn(Id, Conn),
                established : PartialFn(Node, Id),
                timer_wheel : Wheels(Id)]

Without(f, S) == [x \in DOMAIN f \ S |-> f[x]]

ServerNew(n) == [node |-> n,
                 connections |-> [i \in {} |-> {}],
                 established |-> [m \in {} |-> {}],
                 timer_wheel |-> WheelNew]

Live(s) == DOMAIN s.connections

(* The slot each of the ids in S was inserted at.                          *)
IndexOf(s, S) == [i \in S |-> s.connections[i].timer_wheel_index]

(***************************************************************************)
(* init_connection for every socket of DOMAIN sock, all fresh ids: peer[i] *)
(* is the Option<NodeId> argument (Some for a client connection) and       *)
(* sock[i] the server really at the other end.                             *)
(***************************************************************************)
init_connection(s, sock, peer) ==
    [s EXCEPT
       !.connections =
          [i \in Live(s) \cup DOMAIN sock |->
             IF i \in DOMAIN sock
             THEN [sock |-> sock[i],
                   node |-> peer[i],
                   is_client |-> peer[i] # NoNode,
                   members_sent |-> FALSE,
                   timer_wheel_index |-> s.timer_wheel.current_write]
             ELSE s.connections[i]],
       !.timer_wheel = WheelInsert(@, DOMAIN sock)]

(* send_members, once conn_write has accepted the encoded members.         *)
send_members(s, id) ==
    IF id \in Live(s) THEN [s EXCEPT !.connections[id].members_sent = TRUE]
                      ELSE s

(* broadcast() that writes to every connection.                            *)
Receivers_mut(s) == Live(s)

(* The connections broadcast() writes to.                                  *)
Receivers(s) == {i \in Live(s) : s.connections[i].members_sent}

(* close() that takes the established entry of a peer whichever of its     *)
(* connections is closed, instead of putting it back.                      *)
close_mut(s, ids) ==
    LET gone == ids \cap Live(s)
        lost == {n \in DOMAIN s.established :
                   \E i \in gone : s.connections[i].node = n}
    IN [s EXCEPT !.connections = Without(@, gone),
                 !.timer_wheel = WheelRemove(@, IndexOf(s, gone)),
                 !.established = Without(@, lost)]

(* close() that leaves the established entry behind.                       *)
close_keeps_entry(s, ids) ==
    LET gone == ids \cap Live(s)
    IN [s EXCEPT !.connections = Without(@, gone),
                 !.timer_wheel = WheelRemove(@, IndexOf(s, gone))]

(***************************************************************************)
(* close(id) for every id of a set.  An id that is not (any more) in       *)
(* connections is ignored; the established entry of a closed connection's  *)
(* peer goes only if it is for that very connection.                       *)
(***************************************************************************)
close(s, ids) ==
    LET gone == ids \cap Live(s)
        lost == {n \in DOMAIN s.established :
                   /\ s.established[n] \in gone
                   /\ s.connections[s.established[n]].node = n}
    IN [s EXCEPT !.connections = Without(@, gone),
                 !.timer_wheel = WheelRemove(@, IndexOf(s, gone)),
                 !.established = Without(@, lost)]

(* Re-insert a connection's id in the wheel without taking it out of the   *)
(* slot it is in.                                                          *)
reset_timer_mut(s, id) ==
    IF id \in Live(s)
    THEN [s EXCEPT
            !.timer_wheel = WheelInsert(@, {id}),
            !.connections[id].timer_wheel_index = s.timer_wheel.current_write]
    ELSE s

reset_timer(s, id) ==
    IF id \in Live(s)
    THEN [s EXCEPT
            !.timer_wheel = WheelInsert(WheelRemove(@, IndexOf(s, {id})), {id}),
            !.connections[id].timer_wheel_index = s.timer_wheel.current_write]
    ELSE s

(* The connection that was there first stays.                              *)
choose_connection_mut(s, id, from) ==
    IF from \in DOMAIN s.established /\ s.established[from] \in Live(s)
    THEN {id} ELSE {}

(***************************************************************************)
(* Of two connections to the same peer, the one whose client is the lower  *)
(* of the two nodes goes - judged by the established one alone.  The       *)
(* result is the set of at most one id.                                    *)
(***************************************************************************)
choose_connection_to_close(s, id, from) ==
    IF from \in DOMAIN s.established /\ s.established[from] \in Live(s)
    THEN LET saved_id   == s.established[from]
             saved_conn == s.connections[saved_id]
         IN IF \/ saved_conn.is_client /\ s.node < from
               \/ ~saved_conn.is_client /\ from < s.node
            THEN {saved_id} ELSE {id}
    ELSE {}

(* The tail of establish_connection: id becomes the connection to from.    *)
Establish(s, id, from) ==
    LET t == reset_timer(s, id)
    IN [t EXCEPT !.connections[id].node = from,
                 !.established = [n \in DOMAIN @ \cup {from} |->
                                    IF n = from THEN id ELSE s.established[n]]]

(* establish_connection that overwrites the established entry without      *)
(* closing the connection it was for.                                      *)
establish_connection_mut(s, id, from) ==
    IF id \in Live(s) THEN Establish(s, id, from) ELSE s

establish_connection(s, id, from) ==
    LET close_id == choose_connection_to_close(s, id, from)
        t        == close(s, close_id)
    IN IF id \in close_id \/ id \notin Live(t) THEN t ELSE Establish(t, id, from)

-----------------------------------------------------------------------------
(* check_connections: make the connections match the membership all.       *)

(* Peers of pending client connections and of established ones.            *)
KnownPeers(s) == {s.connections[i].node : i \in Live(s)} \ {NoNode}

ToConnect(s, all) == (all \ KnownPeers(s)) \ {s.node}

ToDisconnect(s, all) == KnownPeers(s) \ all

disconnect_all(s) ==
    [s EXCEPT !.established = [n \in {} |-> {}],
              !.connections = [i \in {} |-> {}],
              !.timer_wheel = WheelRemove(@, IndexOf(s, Live(s)))]

(* disconnect_established unwraps connections.remove(id) for the id of     *)
(* every established entry it drops: it panics if one is not there.        *)
DisconnectPanics(s, nodes) ==
    \E n \in nodes \cap DOMAIN s.established : s.established[n] \notin Live(s)

disconnect_established(s, nodes) ==
    LET ids == {s.established[n] : n \in nodes \cap DOMAIN s.established}
    IN [s EXCEPT !.established = Without(@, nodes),
                 !.connections = Without(@, ids),
                 !.timer_wheel = WheelRemove(@, IndexOf(s, ids \cap Live(s)))]

(***************************************************************************)
(* dial maps the fresh ids of the sockets that connect() managed to set up *)
(* to the member each was dialled for; a member of ToConnect that is not   *)
(* in its range is one whose connect() failed, which is only logged.       *)
(***************************************************************************)
Dials(s, all, dial) ==
    /\ DOMAIN dial \cap Live(s) = {}
    /\ \A i \in DOMAIN dial : dial[i] \in ToConnect(s, all)
    /\ \A i, j \in DOMAIN dial : dial[i] = dial[j] => i = j

(* check_connections that only connects.                                   *)
check_connections_mut(s, all, dial, sock) ==
    IF s.node \notin all THEN s ELSE init_connection(s, sock, dial)

check_connections(s, all, dial, sock) ==
    IF s.node \notin all THEN disconnect_all(s)
    ELSE disconnect_established(init_connection(s, sock, dial),
                                ToDisconnect(s, all))

CheckPanics(s, all) ==
    s.node \in all /\ DisconnectPanics(s, ToDisconnect(s, all))
=============================================================================
