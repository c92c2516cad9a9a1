-------------------------------- MODULE Mesh --------------------------------
(***************************************************************************)
(* Several cluster servers joined by TCP sockets, each running the         *)
(* handlers of ClusterServer, with the membership they replicate.          *)
(*                                                                         *)
(* A socket has one id, the same at both ends, which is free again when    *)
(* both ends are closed.  inbox[n][c] holds what was written to n on c and *)
(* not yet read.  Timers are not counted here (ClusterNode does that): the *)
(* wheel never turns, and a tick may time out any connection at the cost   *)
(* of one of MaxTimeouts.  Pings are left out: all they do is re-arm.      *)
(*                                                                         *)
(* The membership is an ORSet (orset, an external crate, known from how    *)
(* members.rs uses it): every add makes a fresh dot <<element, actor, k>>, *)
(* a remove tombstones the dots its node has seen, and joining a state or  *)
(* a delta is union.                                                       *)
(***************************************************************************)
EXTENDS ClusterServer, Sequences, FiniteSets

CONSTANTS MaxJoins, MaxLeaves,  \* calls of Node::join and Node::leave
          MaxTimeouts,          \* connections that time out at a tick
          MaxSends,             \* envelopes for actors on other nodes
          WritesFail,           \* a write to a socket the peer closed may fail
          JoinsWait             \* join is called only when the last one is done,
                                \* as tests/join_leave.rs waits for the status

ASSUME MeshAssumption ==
    /\ {MaxJoins, MaxLeaves, MaxTimeouts, MaxSends} \subseteq Nat
    /\ {WritesFail, JoinsWait} \subseteq BOOLEAN
    /\ Id \subseteq Nat /\ IsFiniteSet(Id) /\ IsFiniteSet(Node)

VARIABLES
    members,    \* [Node -> ORSet]
    srv,        \* [Node -> ServerState]
    inbox,      \* [Node -> [Id -> sequence of messages]]
    backlog,    \* [Node -> set of <<socket, client>> not yet accepted]
    wanted,     \* history: <<n, m>> if n was told to join m after the last leave
    mail,       \* history: the fate of each envelope, and the socket it is on
    budget      \* what is left of the bounds

vars == <<members, srv, inbox, backlog, wanted, mail, budget>>

-----------------------------------------------------------------------------
(* Members.                                                                *)

Dot == Node \X Node \X (1 .. MaxJoins + 1)
ORSet == [add : SUBSET Dot, rem : SUBSET Dot]

all(o) == {d[1] : d \in o.add \ o.rem}

Merge(o, d) == [add |-> o.add \cup d.add, rem |-> o.rem \cup d.rem]

(* The delta of an add: one fresh dot of this actor.                       *)
AddDelta(o, n, m) ==
    [add |-> {<<m, n, 1 + Cardinality({d \in o.add : d[2] = n})>>}, rem |-> {}]

(* The delta of a remove: the dots seen here, whether still live or not.   *)
RemoveDelta(o, m) == [add |-> {}, rem |-> {d \in o.add : d[1] = m}]

(* Counting the adds of an actor from nought.                              *)
MembersNew_mut(n) == [add |-> {<<n, n, 0>>}, rem |-> {}]

MembersNew(n) == [add |-> {<<n, n, 1>>}, rem |-> {}]

-----------------------------------------------------------------------------
(* Sockets.                                                                *)

MembersMsg(n, o) == [type |-> "Members", from |-> n, orset |-> o]
DeltaMsg(n, d)   == [type |-> "Delta", from |-> n, orset |-> d]
EnvelopeMsg(n, k) == [type |-> "Envelope", from |-> n, envelope |-> k]
Msg == [type : {"Members", "Delta"}, from : Node, orset : ORSet] \cup
       [type : {"Envelope"}, from : Node, envelope : 1 .. MaxSends]

(* Of an envelope to a member: not sent yet; written to a socket; handed   *)
(* to the executor of the other node; or lost, because send_remote found   *)
(* no connection or one that was closed with the envelope in it.           *)
Fate == {"unsent", "written", "delivered", "lost"}

Peer(n, c) == srv[n].connections[c].sock

InBacklog(c) == \E n \in Node : \E e \in backlog[n] : e[1] = c

(* The other end of c, of which n has one, is closed.                      *)
PeerGone(n, c) ==
    /\ c \notin Live(srv[Peer(n, c)])
    /\ <<c, n>> \notin backlog[Peer(n, c)]

Gone(n) == {c \in Live(srv[n]) : PeerGone(n, c)}

Free == {c \in Id : ~InBacklog(c) /\ \A n \in Node : c \notin Live(srv[n])}

Rank(x, S) == Cardinality({y \in S : y < x})

(* connect() to every node of a set, as far as there are free sockets.     *)
Connect(nodes) ==
    [c \in {c \in Free : Rank(c, Free) < Cardinality(nodes)} |->
        CHOOSE n \in nodes : Rank(n, nodes) = Rank(c, Free)]

(* What a handler at n has done so far: its new server state and members,  *)
(* what it wrote on which socket, whom it dialled, the sockets it met an   *)
(* error on, whether an error made it return, and the envelopes it has     *)
(* handed to the executor.  The operators below                            *)
(* yield the set of what it may have done next.                            *)
Start(n) == [s |-> srv[n], o |-> members[n], out |-> [c \in Id |-> <<>>],
             dial |-> <<>>, errs |-> {}, stop |-> FALSE, got |-> {}]

write(h, ids, msg) ==
    [h EXCEPT !.out = [c \in Id |-> IF c \in ids THEN Append(h.out[c], msg)
                                                 ELSE h.out[c]]]

(* broadcast_delta, of a delta this node has just applied: an error on one *)
(* of the sockets does not keep the others from being written, but makes   *)
(* the handler return.                                                     *)
broadcast_delta(n, h, d) ==
    {[write(h, Receivers(h.s) \ failed, DeltaMsg(n, d))
        EXCEPT !.o = Merge(@, d), !.errs = @ \cup failed, !.stop = failed # {}] :
      failed \in IF WritesFail THEN SUBSET (Receivers(h.s) \cap Gone(n)) ELSE {{}}}

check(h) ==
    LET ms == all(h.o)
    IN {[h EXCEPT !.dial = dial, !.s = check_connections(@, ms, dial, dial)] :
          dial \in {IF h.s.node \in ms THEN Connect(ToConnect(h.s, ms)) ELSE <<>>}}

(* Joins the two halves of a handler: what n keeps, and what its peers see.*)
(* left is the rest of inbox[n]; the errors of the handler are closed.     *)
Commit(n, h, left) ==
    \E s \in {close(h.s, h.errs)} :
       /\ srv' = [srv EXCEPT ![n] = s]
       /\ members' = [members EXCEPT ![n] = h.o]
       /\ inbox' = [m \in Node |-> [c \in Id |->
             IF m = n THEN IF c \in Live(s) THEN left[c] ELSE <<>>
             ELSE IF c \in Live(srv[m]) /\ Peer(m, c) = n
                  THEN inbox[m][c] \o h.out[c] ELSE inbox[m][c]]]
       /\ backlog' = [m \in Node |-> backlog[m] \cup
             {<<c, n>> : c \in {c \in DOMAIN h.dial : h.dial[c] = m}}]
       /\ mail' = [k \in DOMAIN mail |->
             IF k \in h.got THEN [fate |-> "delivered", on |-> {}]
             ELSE IF mail[k].on \subseteq Live(s) \cup (Id \ Live(srv[n])) THEN mail[k]
             ELSE [fate |-> "lost", on |-> {}]]

Established(n) == srv[n].established

(* n and m are connected: both established the same socket.                *)
Connected(n, m) ==
    /\ m \in DOMAIN Established(n) /\ n \in DOMAIN Established(m)
    /\ Established(n)[m] = Established(m)[n]

(* Nothing is under way: no message, no unaccepted and no half-open socket.*)
Quiet == \A n \in Node : /\ backlog[n] = {} /\ Gone(n) = {}
                         /\ \A c \in Id : inbox[n][c] = <<>>

(* Every node and all its members have the same members and are connected. *)
Meshed == \A n \in Node : \A m \in all(members[n]) \ {n} :
             all(members[m]) = all(members[n]) /\ Connected(n, m)

-----------------------------------------------------------------------------
Init ==
    /\ members = [n \in Node |-> MembersNew(n)]
    /\ srv = [n \in Node |-> ServerNew(n)]
    /\ inbox = [n \in Node |-> [c \in Id |-> <<>>]]
    /\ backlog = [n \in Node |-> {}]
    /\ wanted = {}
    /\ mail = [k \in 1 .. MaxSends |-> [fate |-> "unsent", on |-> {}]]
    /\ budget = [joins |-> MaxJoins, leaves |-> MaxLeaves, timeouts |-> MaxTimeouts]

(* The errors of the broadcast keep join from connecting.  A node that     *)
(* joins itself dials itself too; that socket is left out: its ends meet   *)
(* in one server, and choose_connection_to_close closes the second one.    *)
join(n, m) ==
    /\ budget.joins > 0
    /\ JoinsWait => Meshed /\ Quiet
    /\ \E h \in broadcast_delta(n, Start(n), AddDelta(members[n], n, m)) :
       \E dial \in {IF h.stop THEN <<>> ELSE Connect({m} \ {n})} :
          Commit(n, [h EXCEPT !.dial = dial, !.s = init_connection(@, dial, dial)],
                 inbox[n])
    /\ wanted' = wanted \cup {<<n, m>>}
    /\ budget' = [budget EXCEPT !.joins = @ - 1]

leave(n, m) ==
    /\ budget.leaves > 0 /\ RemoveDelta(members[n], m).rem # {}
    /\ \E h \in broadcast_delta(n, Start(n), RemoveDelta(members[n], m)) :
          Commit(n, h, inbox[n])
    /\ wanted' = {}
    /\ budget' = [budget EXCEPT !.leaves = @ - 1]

(* An error of the write closes the connection, as any other.  What is     *)
(* sent to a node that is neither connected nor a member leaves no trace.  *)
send_remote(n, m, k) ==
    /\ m # n /\ mail[k].fate = "unsent" /\ \A j \in 1 .. k - 1 : mail[j].fate # "unsent"
    /\ IF m \in DOMAIN Established(n)
       THEN \E c \in {Established(n)[m]} :
            \E errs \in IF WritesFail /\ PeerGone(n, c) THEN {{}, {c}} ELSE {{}} :
              /\ srv' = [srv EXCEPT ![n] = close(@, errs)]
              /\ inbox' = IF PeerGone(n, c)
                          THEN [inbox EXCEPT ![n][c] = IF c \in errs THEN <<>> ELSE @]
                          ELSE [inbox EXCEPT ![m][c] = Append(@, EnvelopeMsg(n, k))]
              /\ mail' = [mail EXCEPT ![k] = IF PeerGone(n, c)
                                             THEN [fate |-> "lost", on |-> {}]
                                             ELSE [fate |-> "written", on |-> {c}]]
       ELSE /\ mail' = IF m \in all(members[n]) THEN [mail EXCEPT ![k].fate = "lost"]
                                                 ELSE mail
            /\ UNCHANGED <<srv, inbox>>
    /\ UNCHANGED <<members, backlog, wanted, budget>>

(* A socket is accepted and our Members written to it.                     *)
accept_connection(n, c, m) ==
    LET t == init_connection(srv[n], [i \in {c} |-> m], [i \in {c} |-> NoNode])
        h == write([Start(n) EXCEPT !.s = send_members(t, c)], {c},
                   MembersMsg(n, members[n]))
    IN /\ <<c, m>> \in backlog[n]
       /\ srv' = [srv EXCEPT ![n] = h.s]
       /\ inbox' = IF c \in Live(srv[m]) THEN [inbox EXCEPT ![m][c] = @ \o h.out[c]]
                                         ELSE inbox
       /\ backlog' = [backlog EXCEPT ![n] = @ \ {<<c, m>>}]
       /\ UNCHANGED <<members, wanted, mail, budget>>

(* First Event::Read of a client connection: send our Members, read later. *)
ReadUnsent(n, c) ==
    /\ c \in Live(srv[n]) /\ ~srv[n].connections[c].members_sent
    /\ inbox[n][c] # <<>>
    /\ Commit(n, write([Start(n) EXCEPT !.s = send_members(@, c)], {c},
                       MembersMsg(n, members[n])), inbox[n])
    /\ UNCHANGED <<wanted, budget>>

(* handle_decoded_message that ends the read after a Members message.      *)
Handle_stops(n, h, c, msg) ==
    IF h.stop THEN {h}
    ELSE IF msg.type = "Members"
    THEN UNION {check(t) : t \in {[h EXCEPT !.o = Merge(@, msg.orset), !.stop = TRUE,
                                  !.s = establish_connection(@, c, msg.from)]}}
    ELSE IF msg.type = "Envelope" THEN {[h EXCEPT !.got = @ \cup {msg.envelope}]}
    ELSE IF Merge(h.o, msg.orset) = h.o THEN {h}
    ELSE broadcast_delta(n, h, msg.orset)

(* establish_connection that takes only the sender from a Members message. *)
Handle_nojoin(n, h, c, msg) ==
    IF h.stop THEN {h}
    ELSE IF msg.type = "Members"
    THEN UNION {check(t) : t \in {[h EXCEPT !.o.add = @ \cup {<<msg.from, msg.from, 1>>},
                                  !.s = establish_connection(@, c, msg.from)]}}
    ELSE IF msg.type = "Envelope" THEN {[h EXCEPT !.got = @ \cup {msg.envelope}]}
    ELSE IF Merge(h.o, msg.orset) = h.o THEN {h}
    ELSE broadcast_delta(n, h, msg.orset)

(* handle_decoded_message, once no earlier message of the read failed.     *)
Handle(n, h, c, msg) ==
    IF h.stop THEN {h}
    ELSE IF msg.type = "Members"
    THEN UNION {check(t) : t \in {[h EXCEPT !.o = Merge(@, msg.orset),
                                  !.s = establish_connection(@, c, msg.from)]}}
    ELSE IF msg.type = "Envelope" THEN {[h EXCEPT !.got = @ \cup {msg.envelope}]}
    ELSE IF Merge(h.o, msg.orset) = h.o THEN {h}
    ELSE broadcast_delta(n, h, msg.orset)

(* read: the k messages that have arrived are handled in one go.           *)
HandleFirst(n, c, k) ==
    LET after[i \in 0 .. k] ==
          IF i = 0 THEN {Start(n)}
          ELSE UNION {Handle(n, h, c, inbox[n][c][i]) : h \in after[i - 1]}
    IN after[k]

Read(n, c, k) ==
    /\ c \in Live(srv[n]) /\ srv[n].connections[c].members_sent
    /\ k \in 1 .. Len(inbox[n][c])
    /\ \E h \in HandleFirst(n, c, k) :
          Commit(n, h, [inbox[n] EXCEPT ![c] = SubSeq(@, k + 1, Len(@))])
    /\ UNCHANGED <<wanted, budget>>

(* Reading or writing a socket whose other end is closed is an error.      *)
PeerClosed(n, c) ==
    /\ c \in Gone(n)
    /\ Commit(n, [Start(n) EXCEPT !.errs = {c}], inbox[n])
    /\ UNCHANGED <<wanted, budget>>

tick(n, expired) ==
    /\ expired \subseteq Live(srv[n]) /\ Cardinality(expired) <= budget.timeouts
    /\ \E t \in {[Start(n) EXCEPT !.s = close(@, expired)]} : \E h \in check(t) :
          Commit(n, h, inbox[n])
    /\ budget' = [budget EXCEPT !.timeouts = @ - Cardinality(expired)]
    /\ UNCHANGED wanted

Receive(n) ==
    \/ \E c \in Id : ReadUnsent(n, c)
    \/ \E c \in Id : \E k \in 1 .. Len(inbox[n][c]) : Read(n, c, k)
    \/ \E c \in Id : PeerClosed(n, c)

Next ==
    \E n \in Node :
        \/ \E m \in Node : \/ join(n, m) \/ leave(n, m)
                            \/ \E k \in 1 .. MaxSends : send_remote(n, m, k)
        \/ \E e \in backlog[n] : accept_connection(n, e[1], e[2])
        \/ Receive(n)
        \/ \E expired \in SUBSET Live(srv[n]) : tick(n, expired)

Spec == Init /\ [][Next]_vars

(* The poller reports every socket that can be read or accepted, and the   *)
(* interval timer ticks.  Nobody has to join, leave or time out.           *)
Fairness ==
    \A n \in Node :
        /\ WF_vars(\E e \in backlog[n] : accept_connection(n, e[1], e[2]))
        /\ WF_vars(tick(n, {}))
        /\ \A c \in Id :
             /\ WF_vars(ReadUnsent(n, c))
             /\ WF_vars(Read(n, c, Len(inbox[n][c])))
             /\ WF_vars(PeerClosed(n, c))

FairSpec == Spec /\ Fairness

-----------------------------------------------------------------------------
TypeOK ==
    /\ members \in [Node -> ORSet]
    /\ \A n \in Node : srv[n] \in ServerState /\ srv[n].node = n
    /\ \A n \in Node, c \in Id : \A k \in DOMAIN inbox[n][c] : inbox[n][c][k] \in Msg
    /\ \A n \in Node : backlog[n] \subseteq Id \X Node
    /\ wanted \subseteq Node \X Node
    /\ mail \in [1 .. MaxSends -> [fate : Fate, on : SUBSET Id]]
    /\ DOMAIN budget = {"joins", "leaves", "timeouts"}

(* However connections crossed, were duplicated or timed out, once nothing *)
(* is under way the two ends agree: a node that counts another among its   *)
(* established peers is counted by it, on the same socket.  The choice of  *)
(* choose_connection_to_close is made at each end from what it has seen.   *)
EndsAgree ==
    Quiet => \A n \in Node : \A m \in DOMAIN Established(n) : Connected(n, m)

(* This step leaves n with what the message says.                          *)
Applies(n, msg) ==
    IF msg.type = "Envelope" THEN mail'[msg.envelope].fate = "delivered"
                             ELSE Merge(members'[n], msg.orset) = members'[n]

(* A message taken off a connection that stays up has been applied.        *)
ReadIsApplied ==
    [][\A n \in Node : \A c \in Live(srv[n]) \cap Live(srv'[n]) :
         \A k \in 1 .. Len(inbox[n][c]) - Len(inbox'[n][c]) :
            Applies(n, inbox[n][c][k])]_vars

(* How much of a read is lost when a write fails in the middle of it: only *)
(* what comes after a delta of the same read, which itself and all before  *)
(* it are applied; only if some other connection, to a peer that is gone,  *)
(* is closed for it; and never the Members of the peer.  A handshake that  *)
(* is lost on a connection that stays up would never be repeated, and its  *)
(* ends would not agree about it.                                          *)
ReadLossIsBounded ==
    [][\A n \in Node : \A c \in Live(srv[n]) \cap Live(srv'[n]) :
         \A k \in 1 .. Len(inbox[n][c]) - Len(inbox'[n][c]) :
            \/ Applies(n, inbox[n][c][k])
            \/ /\ inbox[n][c][k].type # "Members"
               /\ Gone(n) \ Live(srv'[n]) # {}
               /\ \E j \in 1 .. k - 1 :
                     /\ inbox[n][c][j].type = "Delta"
                     /\ \A i \in 1 .. j : Applies(n, inbox[n][c][i])]_vars

(* An envelope written to a connection reaches the executor at the other   *)
(* end, unless one of the ends closes that connection: also if it comes in *)
(* one read with the handshake, or while two connections cross.            *)
EnvelopesArrive ==
    \A k \in 1 .. MaxSends : mail[k].fate = "written" ~> mail[k].fate # "written"

(* "messages [...] sent to processes on other nodes when the appropriate   *)
(* peer sockets are writable": with no failure, time-out or leave, and one *)
(* connection between two nodes, an envelope to a member arrives.          *)
MembersAreReached ==
    \A k \in 1 .. MaxSends :
        mail[k].fate # "unsent" ~> mail[k].fate = "delivered"

(* "Node joins are transitive": once the joins are over, a node and all    *)
(* its members come to have the same members and to be connected.          *)
MeshConverges == <>[]Meshed

(* A member that is gone from a node's membership is disconnected by it,   *)
(* unless it comes back, even if the ticks fall between the handshakes.    *)
LeaveDisconnects ==
    \A n \in Node : \A m \in Node \ {n} :
        m \notin all(members[n]) ~> (\/ m \in all(members[n])
                                    \/ m \notin DOMAIN Established(n))

(* "The joining node will continuously try to connect to the remote node": *)
(* unless there is another leave, a join ends with the peer established.   *)
JoinConnects ==
    \A n \in Node : \A m \in Node \ {n} :
        <<n, m>> \in wanted ~> (\/ <<n, m>> \notin wanted
                                \/ m \in DOMAIN Established(n))
=============================================================================
