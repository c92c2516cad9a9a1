------------------------ MODULE ClusterServer_proofs ------------------------
(***************************************************************************)
(* What the handlers of ClusterServer make of a server state, for every    *)
(* number of slots, nodes and sockets.  Good collects what every handler   *)
(* keeps true of the server me; a lemma per handler shows that it does.    *)
(* The proofs about one server (ClusterNode) and about several (Mesh) cite *)
(* them.                                                                   *)
(***************************************************************************)
EXTENDS ClusterServer, Basics_proofs

(* The timer wheel holds the live connections where they say they are.     *)
WheelOK(s) ==
    \A i \in Slot :
        s.timer_wheel.data[i] =
            {id \in Live(s) : s.connections[id].timer_wheel_index = i}

(* An established entry names a live, greeted connection of that peer.     *)
EstOK(s) ==
    \A n \in DOMAIN s.established :
        /\ s.established[n] \in Live(s)
        /\ s.connections[s.established[n]].node = n
        /\ s.connections[s.established[n]].sock = n
        /\ s.connections[s.established[n]].members_sent

Good(me, s) == s \in ServerState /\ s.node = me /\ WheelOK(s) /\ EstOK(s)

(* All connections of a set are the established ones of their peers.       *)
SingleOK(s, G) ==
    \A i \in G : /\ i \in Live(s)
                 /\ s.connections[i].sock \in DOMAIN s.established
                 /\ s.established[s.connections[i].sock] = i

Index(s, i) == s.connections[i].timer_wheel_index

SameSock(s, t) == \A i \in Live(t) : t.connections[i].sock = s.connections[i].sock

(* From s to t the wheel stands still: a connection keeps its slot, unless *)
(* it is new, or among those heard, and gets the slot written at now.      *)
Arms(s, t, heard) ==
    /\ t.timer_wheel.current_read = s.timer_wheel.current_read
    /\ t.timer_wheel.current_write = s.timer_wheel.current_write
    /\ \A i \in Live(t) :
          \/ i \in Live(s) /\ Index(t, i) = Index(s, i)
          \/ /\ Index(t, i) = s.timer_wheel.current_write
             /\ i \in Live(s) => i \in heard

-----------------------------------------------------------------------------
(* Partial functions and server states, field by field.                    *)

LEMMA PartialFnChar ==
    ASSUME NEW S, NEW T, NEW f
    PROVE  f \in PartialFn(S, T) <=>
             /\ f = [x \in DOMAIN f |-> f[x]]
             /\ DOMAIN f \subseteq S
             /\ \A x \in DOMAIN f : f[x] \in T
<1>1. ASSUME f \in PartialFn(S, T)
      PROVE  /\ f = [x \in DOMAIN f |-> f[x]]
             /\ DOMAIN f \subseteq S
             /\ \A x \in DOMAIN f : f[x] \in T
  <2>1. PICK D \in SUBSET S : f \in [D -> T]
    BY <1>1 DEF PartialFn
  <2> QED
    BY <2>1
<1>2. ASSUME f = [x \in DOMAIN f |-> f[x]], DOMAIN f \subseteq S,
             \A x \in DOMAIN f : f[x] \in T
      PROVE  f \in PartialFn(S, T)
  <2>1. f \in [DOMAIN f -> T] /\ DOMAIN f \in SUBSET S
    BY <1>2
  <2> QED
    BY <2>1 DEF PartialFn
<1> QED
  BY <1>1, <1>2

LEMMA EmptyFn ==
    ASSUME NEW S, NEW T
    PROVE  [x \in {} |-> {}] \in PartialFn(S, T)
<1>1. [x \in {} |-> {}] \in [{} -> T]
  OBVIOUS
<1> QED
  BY <1>1, {} \in SUBSET S DEF PartialFn

LEMMA ServerStateFields ==
    ASSUME NEW s \in ServerState
    PROVE  /\ s = [node |-> s.node, connections |-> s.connections,
                   established |-> s.established, timer_wheel |-> s.timer_wheel]
           /\ s.node \in Node
           /\ s.connections \in PartialFn(Id, Conn)
           /\ s.established \in PartialFn(Node, Id)
           /\ s.timer_wheel \in Wheels(Id)
           /\ Live(s) \subseteq Id
           /\ \A i \in Live(s) : s.connections[i] \in Conn
           /\ DOMAIN s.established \subseteq Node
           /\ \A n \in DOMAIN s.established : s.established[n] \in Id
<1>1. /\ s = [node |-> s.node, connections |-> s.connections,
              established |-> s.established, timer_wheel |-> s.timer_wheel]
      /\ s.node \in Node
      /\ s.connections \in PartialFn(Id, Conn)
      /\ s.established \in PartialFn(Node, Id)
      /\ s.timer_wheel \in Wheels(Id)
  BY DEF ServerState
<1> QED
  BY <1>1, PartialFnChar DEF Live

LEMMA WithoutType ==
    ASSUME NEW S, NEW T, NEW f \in PartialFn(S, T), NEW X
    PROVE  Without(f, X) \in PartialFn(S, T)
  BY PartialFnChar DEF Without

-----------------------------------------------------------------------------
(* Handlers that drop connections.                                         *)

(* t is s without some connections: what is left is as it was, and an      *)
(* established entry is left exactly if its connection is.                 *)
Shrinks(s, t) ==
    /\ Live(t) \subseteq Live(s)
    /\ \A i \in Live(t) : t.connections[i] = s.connections[i]
    /\ \A n \in DOMAIN t.established :
          n \in DOMAIN s.established /\ t.established[n] = s.established[n]
    /\ \A n \in DOMAIN s.established :
          s.established[n] \in Live(t) => n \in DOMAIN t.established
    /\ t.timer_wheel.current_read = s.timer_wheel.current_read
    /\ t.timer_wheel.current_write = s.timer_wheel.current_write

LEMMA ShrinksSingle ==
    ASSUME NEW s, NEW t, Shrinks(s, t), NEW G, SingleOK(s, G)
    PROVE  SingleOK(t, G \cap Live(t))
  BY DEF Shrinks, SingleOK

LEMMA CloseGood ==
    ASSUME NEW me, NEW s, Good(me, s), NEW ids
    PROVE  /\ Good(me, close(s, ids))
           /\ Shrinks(s, close(s, ids))
           /\ Live(close(s, ids)) = Live(s) \ ids
<1> DEFINE gone == ids \cap Live(s)
           lost == {n \in DOMAIN s.established :
                      /\ s.established[n] \in gone
                      /\ s.connections[s.established[n]].node = n}
           t == close(s, ids)
<1>1. /\ s \in ServerState /\ s.node = me /\ s.node \in Node
      /\ s.connections \in PartialFn(Id, Conn)
      /\ s.established \in PartialFn(Node, Id)
      /\ s.timer_wheel \in Wheels(Id)
  BY ServerStateFields DEF Good
<1>2. /\ Without(s.connections, gone) \in PartialFn(Id, Conn)
      /\ Without(s.established, lost) \in PartialFn(Node, Id)
      /\ WheelRemove(s.timer_wheel, IndexOf(s, gone)) \in Wheels(Id)
  BY <1>1, WithoutType, WheelRemoveFields
<1>3. /\ t.node = s.node
      /\ t.connections = Without(s.connections, gone)
      /\ t.established = Without(s.established, lost)
      /\ t.timer_wheel = WheelRemove(s.timer_wheel, IndexOf(s, gone))
  BY <1>1 DEF close, ServerState
<1>4. t \in ServerState
  BY <1>1, <1>2 DEF close, ServerState
<1> HIDE DEF t
<1>5. /\ Live(t) = Live(s) \ ids
      /\ \A i \in Live(t) : t.connections[i] = s.connections[i]
  BY <1>3 DEF Live, Without
<1>6. /\ DOMAIN t.established = DOMAIN s.established \ lost
      /\ \A n \in DOMAIN t.established : t.established[n] = s.established[n]
  BY <1>3 DEF Without
<1>7. EstOK(t)
  BY <1>5, <1>6 DEF EstOK, Good, Live
<1>8. WheelOK(t)
  <2> SUFFICES ASSUME NEW i \in Slot
               PROVE  t.timer_wheel.data[i] =
                        {id \in Live(t) : t.connections[id].timer_wheel_index = i}
    BY DEF WheelOK
  <2>1. t.timer_wheel.data[i] = s.timer_wheel.data[i] \
            {k \in DOMAIN IndexOf(s, gone) : IndexOf(s, gone)[k] = i}
    BY <1>1, <1>3, WheelRemoveFields
  <2>2. {k \in DOMAIN IndexOf(s, gone) : IndexOf(s, gone)[k] = i}
          = {k \in gone : s.connections[k].timer_wheel_index = i}
    BY DEF IndexOf
  <2>3. s.timer_wheel.data[i] =
            {id \in Live(s) : s.connections[id].timer_wheel_index = i}
    BY DEF Good, WheelOK
  <2> QED
    BY <2>1, <2>2, <2>3, <1>5
<1>9. Shrinks(s, t)
  <2>1. /\ t.timer_wheel.current_read = s.timer_wheel.current_read
        /\ t.timer_wheel.current_write = s.timer_wheel.current_write
    BY <1>1, <1>3, WheelRemoveFields
  <2> QED
    BY <2>1, <1>5, <1>6 DEF Shrinks
<1> QED
  BY <1>1, <1>3, <1>4, <1>5, <1>7, <1>8, <1>9 DEF Good, t

LEMMA DisconnectAllGood ==
    ASSUME NEW me, NEW s, Good(me, s)
    PROVE  /\ Good(me, disconnect_all(s))
           /\ Shrinks(s, disconnect_all(s))
<1> DEFINE t == disconnect_all(s)
<1>1. /\ s \in ServerState /\ s.node = me /\ s.node \in Node
      /\ s.timer_wheel \in Wheels(Id)
  BY ServerStateFields DEF Good
<1>2. WheelRemove(s.timer_wheel, IndexOf(s, Live(s))) \in Wheels(Id)
  BY <1>1, WheelRemoveFields
<1>3. /\ t.node = s.node
      /\ t.connections = [i \in {} |-> {}]
      /\ t.established = [n \in {} |-> {}]
      /\ t.timer_wheel = WheelRemove(s.timer_wheel, IndexOf(s, Live(s)))
  BY <1>1 DEF disconnect_all, ServerState
<1>4. t \in ServerState
  BY <1>1, <1>2, EmptyFn DEF disconnect_all, ServerState
<1> HIDE DEF t
<1>5. Live(t) = {} /\ DOMAIN t.established = {}
  BY <1>3 DEF Live
<1>6. WheelOK(t)
  <2> SUFFICES ASSUME NEW i \in Slot
               PROVE  t.timer_wheel.data[i] = {}
    BY <1>5 DEF WheelOK
  <2>1. t.timer_wheel.data[i] = s.timer_wheel.data[i] \
            {k \in DOMAIN IndexOf(s, Live(s)) : IndexOf(s, Live(s))[k] = i}
    BY <1>1, <1>3, WheelRemoveFields
  <2>2. {k \in DOMAIN IndexOf(s, Live(s)) : IndexOf(s, Live(s))[k] = i}
          = {k \in Live(s) : s.connections[k].timer_wheel_index = i}
    BY DEF IndexOf
  <2>3. s.timer_wheel.data[i] =
            {id \in Live(s) : s.connections[id].timer_wheel_index = i}
    BY DEF Good, WheelOK
  <2> QED
    BY <2>1, <2>2, <2>3
<1>7. Shrinks(s, t)
  <2>1. /\ t.timer_wheel.current_read = s.timer_wheel.current_read
        /\ t.timer_wheel.current_write = s.timer_wheel.current_write
    BY <1>1, <1>3, WheelRemoveFields
  <2> QED
    BY <2>1, <1>5 DEF Shrinks
<1> QED
  BY <1>1, <1>3, <1>4, <1>5, <1>6, <1>7 DEF Good, EstOK, t

(* The unwrap of disconnect_established succeeds, and distinct peers have  *)
(* distinct established connections.                                       *)
LEMMA DisconnectEstablishedGood ==
    ASSUME NEW me, NEW s, Good(me, s), NEW nodes
    PROVE  /\ ~DisconnectPanics(s, nodes)
           /\ Good(me, disconnect_established(s, nodes))
           /\ Shrinks(s, disconnect_established(s, nodes))
<1> DEFINE ids == {s.established[n] : n \in nodes \cap DOMAIN s.established}
           t == disconnect_established(s, nodes)
<1>1. /\ s \in ServerState /\ s.node = me /\ s.node \in Node
      /\ s.connections \in PartialFn(Id, Conn)
      /\ s.established \in PartialFn(Node, Id)
      /\ s.timer_wheel \in Wheels(Id)
  BY ServerStateFields DEF Good
<1>2. ids \subseteq Live(s)
  BY DEF Good, EstOK
<1>3. /\ Without(s.connections, ids) \in PartialFn(Id, Conn)
      /\ Without(s.established, nodes) \in PartialFn(Node, Id)
      /\ WheelRemove(s.timer_wheel, IndexOf(s, ids \cap Live(s))) \in Wheels(Id)
  BY <1>1, WithoutType, WheelRemoveFields
<1>4. /\ t.node = s.node
      /\ t.connections = Without(s.connections, ids)
      /\ t.established = Without(s.established, nodes)
      /\ t.timer_wheel = WheelRemove(s.timer_wheel, IndexOf(s, ids \cap Live(s)))
  BY <1>1 DEF disconnect_established, ServerState
<1>5. t \in ServerState
  BY <1>1, <1>3 DEF disconnect_established, ServerState
<1> HIDE DEF t
<1>6. /\ Live(t) = Live(s) \ ids
      /\ \A i \in Live(t) : t.connections[i] = s.connections[i]
  BY <1>4 DEF Live, Without
<1>7. /\ DOMAIN t.established = DOMAIN s.established \ nodes
      /\ \A n \in DOMAIN t.established : t.established[n] = s.established[n]
  BY <1>4 DEF Without
<1>8. \A n \in DOMAIN s.established : s.established[n] \in ids <=> n \in nodes
  BY DEF Good, EstOK
<1>9. EstOK(t)
  BY <1>6, <1>7, <1>8 DEF EstOK, Good
<1>10. WheelOK(t)
  <2> SUFFICES ASSUME NEW i \in Slot
               PROVE  t.timer_wheel.data[i] =
                        {id \in Live(t) : t.connections[id].timer_wheel_index = i}
    BY DEF WheelOK
  <2>1. t.timer_wheel.data[i] = s.timer_wheel.data[i] \
            {k \in DOMAIN IndexOf(s, ids \cap Live(s)) :
                 IndexOf(s, ids \cap Live(s))[k] = i}
    BY <1>1, <1>4, WheelRemoveFields
  <2>2. {k \in DOMAIN IndexOf(s, ids \cap Live(s)) :
             IndexOf(s, ids \cap Live(s))[k] = i}
          = {k \in ids \cap Live(s) : s.connections[k].timer_wheel_index = i}
    BY DEF IndexOf
  <2>3. s.timer_wheel.data[i] =
            {id \in Live(s) : s.connections[id].timer_wheel_index = i}
    BY DEF Good, WheelOK
  <2> HIDE DEF ids
  <2> QED
    BY <2>1, <2>2, <2>3, <1>6
<1>11. Shrinks(s, t)
  <2>1. /\ t.timer_wheel.current_read = s.timer_wheel.current_read
        /\ t.timer_wheel.current_write = s.timer_wheel.current_write
    BY <1>1, <1>4, WheelRemoveFields
  <2> HIDE DEF ids
  <2> QED
    BY <2>1, <1>6, <1>7, <1>8 DEF Shrinks
<1>12. ~DisconnectPanics(s, nodes)
  BY DEF DisconnectPanics, Good, EstOK
<1> QED
  BY <1>1, <1>4, <1>5, <1>9, <1>10, <1>11, <1>12 DEF Good, t

-----------------------------------------------------------------------------
(* Handlers that add or change connections.                                *)

LEMMA ServerNewGood ==
    ASSUME NEW me \in Node
    PROVE  Good(me, ServerNew(me)) /\ Live(ServerNew(me)) = {}
<1>1. ServerNew(me) \in ServerState
  BY EmptyFn, WheelNewType DEF ServerNew, ServerState
<1>2. WheelOK(ServerNew(me))
  BY DEF WheelOK, ServerNew, WheelNew, Live
<1> QED
  BY <1>1, <1>2 DEF Good, EstOK, ServerNew, Live

(* s with the connections of DOMAIN sock added: the old ones keep.         *)
LEMMA InitConnectionGood ==
    ASSUME NEW me, NEW s, Good(me, s), NEW sock, NEW peer,
           DOMAIN sock \subseteq Id \ Live(s),
           \A i \in DOMAIN sock : sock[i] \in Node /\ peer[i] \in Node \cup {NoNode}
    PROVE  LET t == init_connection(s, sock, peer)
           IN  /\ Good(me, t)
               /\ Live(t) = Live(s) \cup DOMAIN sock
               /\ \A i \in Live(s) : t.connections[i] = s.connections[i]
               /\ t.established = s.established
               /\ t.timer_wheel.current_read = s.timer_wheel.current_read
               /\ t.timer_wheel.current_write = s.timer_wheel.current_write
               /\ \A i \in DOMAIN sock :
                    /\ t.connections[i].sock = sock[i]
                    /\ ~t.connections[i].members_sent
                    /\ t.connections[i].timer_wheel_index = s.timer_wheel.current_write
<1> DEFINE t == init_connection(s, sock, peer)
           new(i) == [sock |-> sock[i],
                      node |-> peer[i],
                      is_client |-> peer[i] # NoNode,
                      members_sent |-> FALSE,
                      timer_wheel_index |-> s.timer_wheel.current_write]
           c == [i \in Live(s) \cup DOMAIN sock |->
                   IF i \in DOMAIN sock THEN new(i) ELSE s.connections[i]]
<1>1. /\ s \in ServerState /\ s.node = me /\ s.node \in Node
      /\ Live(s) \subseteq Id
      /\ \A i \in Live(s) : s.connections[i] \in Conn
      /\ s.established \in PartialFn(Node, Id)
      /\ s.timer_wheel \in Wheels(Id)
  BY ServerStateFields DEF Good
<1>2. s.timer_wheel.current_write \in Slot
  BY <1>1 DEF Wheels
<1>3. \A i \in DOMAIN sock : new(i) \in Conn
  BY <1>2 DEF Conn
<1>4. c \in PartialFn(Id, Conn)
  <2> HIDE DEF new
  <2> QED
    BY <1>1, <1>3, PartialFnChar
<1>5. /\ WheelInsert(s.timer_wheel, DOMAIN sock) \in Wheels(Id)
      /\ DOMAIN sock \subseteq Id
  BY <1>1, WheelInsertFields
<1>6. /\ t.node = s.node
      /\ t.connections = c
      /\ t.established = s.established
      /\ t.timer_wheel = WheelInsert(s.timer_wheel, DOMAIN sock)
  BY <1>1 DEF init_connection, ServerState
<1>7. t \in ServerState
  <2>1. t = [s EXCEPT !.connections = c,
                      !.timer_wheel = WheelInsert(@, DOMAIN sock)]
    BY DEF init_connection
  <2> HIDE DEF c, t
  <2> QED
    BY <2>1, <1>1, <1>4, <1>5 DEF ServerState
<1> HIDE DEF t
<1>8. /\ Live(t) = Live(s) \cup DOMAIN sock
      /\ \A i \in Live(s) : t.connections[i] = s.connections[i]
      /\ \A i \in DOMAIN sock : t.connections[i] = new(i)
  <2> HIDE DEF new
  <2> QED
    BY <1>6 DEF Live
<1>9. \A i \in DOMAIN sock :
        /\ t.connections[i].sock = sock[i]
        /\ ~t.connections[i].members_sent
        /\ t.connections[i].timer_wheel_index = s.timer_wheel.current_write
  <2>1. \A i : /\ new(i).sock = sock[i] /\ ~new(i).members_sent
               /\ new(i).timer_wheel_index = s.timer_wheel.current_write
    OBVIOUS
  <2> HIDE DEF new
  <2> QED
    BY <2>1, <1>8
<1> HIDE DEF new, c
<1>10. EstOK(t)
  BY <1>6, <1>8 DEF Good, EstOK
<1>11. /\ t.timer_wheel.current_read = s.timer_wheel.current_read
       /\ t.timer_wheel.current_write = s.timer_wheel.current_write
       /\ t.timer_wheel.data[s.timer_wheel.current_write]
            = s.timer_wheel.data[s.timer_wheel.current_write] \cup DOMAIN sock
       /\ \A i \in Slot : i # s.timer_wheel.current_write =>
            t.timer_wheel.data[i] = s.timer_wheel.data[i]
  <2> DEFINE w == s.timer_wheel
             v == WheelInsert(w, DOMAIN sock)
  <2>1. w \in Wheels(Id) /\ DOMAIN sock \subseteq Id
    BY <1>1, <1>5
  <2> HIDE DEF w
  <2>2. /\ v.current_read = w.current_read /\ v.current_write = w.current_write
        /\ v.data[w.current_write] = w.data[w.current_write] \cup DOMAIN sock
        /\ \A i \in Slot : i # w.current_write => v.data[i] = w.data[i]
    BY <2>1, WheelInsertFields
  <2> QED
    BY <2>2, <1>6 DEF w
<1>12. WheelOK(t)
  <2> SUFFICES ASSUME NEW i \in Slot
               PROVE  t.timer_wheel.data[i] =
                        {id \in Live(t) : t.connections[id].timer_wheel_index = i}
    BY DEF WheelOK
  <2>2. s.timer_wheel.data[i] =
            {id \in Live(s) : s.connections[id].timer_wheel_index = i}
    BY DEF Good, WheelOK
  <2> QED
    BY <2>2, <1>8, <1>9, <1>11
<1> QED
  BY <1>1, <1>6, <1>7, <1>8, <1>9, <1>10, <1>11, <1>12 DEF Good, t

(* Setting members_sent disturbs nothing else.                             *)
LEMMA SendMembersGood ==
    ASSUME NEW me, NEW s, Good(me, s), NEW id
    PROVE  LET t == send_members(s, id)
           IN  /\ Good(me, t)
               /\ Live(t) = Live(s)
               /\ \A i \in Live(s) :
                    /\ t.connections[i].sock = s.connections[i].sock
                    /\ t.connections[i].timer_wheel_index
                         = s.connections[i].timer_wheel_index
                    /\ s.connections[i].members_sent => t.connections[i].members_sent
                    /\ i # id => t.connections[i] = s.connections[i]
                    /\ i = id => t.connections[i].members_sent
               /\ t.established = s.established
               /\ t.timer_wheel = s.timer_wheel
<1> DEFINE t == send_members(s, id)
<1> SUFFICES ASSUME id \in Live(s)
             PROVE  /\ Good(me, t)
                    /\ Live(t) = Live(s)
                    /\ \A i \in Live(s) :
                         /\ t.connections[i].sock = s.connections[i].sock
                         /\ t.connections[i].timer_wheel_index
                              = s.connections[i].timer_wheel_index
                         /\ s.connections[i].members_sent
                              => t.connections[i].members_sent
                         /\ i # id => t.connections[i] = s.connections[i]
                         /\ i = id => t.connections[i].members_sent
                    /\ t.established = s.established
                    /\ t.timer_wheel = s.timer_wheel
  BY DEF send_members
<1> DEFINE c == [s.connections EXCEPT ![id].members_sent = TRUE]
<1>1. /\ s \in ServerState /\ s.node = me
      /\ s.connections \in PartialFn(Id, Conn)
      /\ Live(s) \subseteq Id
      /\ \A i \in Live(s) : s.connections[i] \in Conn
  BY ServerStateFields DEF Good
<1>2. /\ t.node = s.node
      /\ t.connections = c
      /\ t.established = s.established
      /\ t.timer_wheel = s.timer_wheel
  BY <1>1 DEF send_members, ServerState
<1> DEFINE r == [s.connections[id] EXCEPT !.members_sent = TRUE]
<1>3. /\ DOMAIN c = Live(s)
      /\ \A i \in Live(s) : i # id => c[i] = s.connections[i]
      /\ c[id] = r
      /\ c = [i \in DOMAIN c |-> c[i]]
  <2>1. c = [s.connections EXCEPT ![id] = r]
    OBVIOUS
  <2> HIDE DEF r, c
  <2> QED
    BY <2>1, <1>1, PartialFnChar DEF Live
<1>4. /\ c[id] \in Conn
      /\ c[id].node = s.connections[id].node
      /\ c[id].sock = s.connections[id].sock
      /\ c[id].timer_wheel_index = s.connections[id].timer_wheel_index
      /\ c[id].members_sent = TRUE
  <2> HIDE DEF c
  <2> QED
    BY <1>1, <1>3 DEF Conn
<1>5. t \in ServerState
  <2>1. t = [s EXCEPT !.connections = c]
    BY DEF send_members
  <2> HIDE DEF c, t
  <2>2. c \in PartialFn(Id, Conn)
    BY <1>1, <1>3, <1>4, PartialFnChar
  <2> QED
    BY <2>1, <2>2, <1>1 DEF ServerState
<1> HIDE DEF c, t
<1>6. /\ Live(t) = Live(s)
      /\ \A i \in Live(s) :
           /\ t.connections[i].node = s.connections[i].node
           /\ t.connections[i].sock = s.connections[i].sock
           /\ t.connections[i].timer_wheel_index = s.connections[i].timer_wheel_index
           /\ s.connections[i].members_sent => t.connections[i].members_sent
           /\ i # id => t.connections[i] = s.connections[i]
           /\ i = id => t.connections[i].members_sent
  BY <1>2, <1>3, <1>4 DEF Live
<1>7. EstOK(t)
  BY <1>2, <1>6 DEF Good, EstOK
<1>8. WheelOK(t)
  <2> SUFFICES ASSUME NEW i \in Slot
               PROVE  t.timer_wheel.data[i] =
                        {k \in Live(t) : t.connections[k].timer_wheel_index = i}
    BY DEF WheelOK
  <2>1. s.timer_wheel.data[i] =
            {k \in Live(s) : s.connections[k].timer_wheel_index = i}
    BY DEF Good, WheelOK
  <2> QED
    BY <2>1, <1>2, <1>6
<1> QED
  BY <1>1, <1>2, <1>5, <1>6, <1>7, <1>8 DEF Good

(* Re-arming the timer of one connection touches its slot and nothing else.*)
LEMMA ResetTimerGood ==
    ASSUME NEW me, NEW s, Good(me, s), NEW id
    PROVE  LET t == reset_timer(s, id)
           IN  /\ Good(me, t)
               /\ Live(t) = Live(s)
               /\ \A i \in Live(s) :
                    /\ t.connections[i].node = s.connections[i].node
                    /\ t.connections[i].sock = s.connections[i].sock
                    /\ t.connections[i].members_sent = s.connections[i].members_sent
                    /\ t.connections[i].timer_wheel_index =
                         IF i = id THEN s.timer_wheel.current_write
                         ELSE s.connections[i].timer_wheel_index
               /\ t.established = s.established
               /\ t.timer_wheel.current_read = s.timer_wheel.current_read
               /\ t.timer_wheel.current_write = s.timer_wheel.current_write
<1> DEFINE t == reset_timer(s, id)
<1>0. CASE id \notin Live(s)
  BY <1>0 DEF reset_timer
<1>1. CASE id \in Live(s)
  <2> USE <1>1
  <2> DEFINE cw == s.timer_wheel.current_write
             r  == [s.connections[id] EXCEPT !.timer_wheel_index = cw]
             c  == [s.connections EXCEPT ![id] = r]
             v  == WheelRemove(s.timer_wheel, IndexOf(s, {id}))
             K  == {id}
             w  == WheelInsert(v, K)
  <2>1. /\ s \in ServerState /\ s.node = me
        /\ s.connections \in PartialFn(Id, Conn)
        /\ Live(s) \subseteq Id
        /\ \A i \in Live(s) : s.connections[i] \in Conn
        /\ s.timer_wheel \in Wheels(Id) /\ cw \in Slot
    BY ServerStateFields DEF Good, Wheels
  <2>2. t = [s EXCEPT !.timer_wheel = w, !.connections = c]
    BY DEF reset_timer
  <2>3. /\ r \in Conn
        /\ r.node = s.connections[id].node
        /\ r.sock = s.connections[id].sock
        /\ r.members_sent = s.connections[id].members_sent
        /\ r.timer_wheel_index = cw
    BY <2>1 DEF Conn
  <2> HIDE DEF r
  <2>4. /\ DOMAIN c = Live(s)
        /\ c[id] = r
        /\ \A i \in Live(s) : i # id => c[i] = s.connections[i]
        /\ c \in PartialFn(Id, Conn)
    BY <2>1, <2>3, PartialFnChar DEF Live
  <2>5. /\ v \in Wheels(Id)
        /\ v.current_read = s.timer_wheel.current_read /\ v.current_write = cw
        /\ \A i \in Slot : v.data[i] = s.timer_wheel.data[i] \
             {k \in DOMAIN IndexOf(s, {id}) : IndexOf(s, {id})[k] = i}
    BY <2>1, WheelRemoveFields
  <2> HIDE DEF v
  <2>6. \A i \in Slot :
          v.data[i] = s.timer_wheel.data[i] \
            {k \in {id} : s.connections[k].timer_wheel_index = i}
    BY <2>5 DEF IndexOf
  <2>7. K \subseteq Id
    BY <2>1
  <2> HIDE DEF K
  <2>8. /\ w \in Wheels(Id)
        /\ w.current_read = s.timer_wheel.current_read /\ w.current_write = cw
        /\ w.data[cw] = v.data[cw] \cup K
        /\ \A i \in Slot : i # cw => w.data[i] = v.data[i]
    BY <2>5, <2>7, WheelInsertFields
  <2> HIDE DEF w, c
  <2>9. /\ t.node = s.node
        /\ t.connections = c
        /\ t.established = s.established
        /\ t.timer_wheel = w
        /\ t \in ServerState
    BY <2>1, <2>2, <2>4, <2>8 DEF ServerState
  <2> HIDE DEF t
  <2>10. /\ Live(t) = Live(s)
         /\ \A i \in Live(s) :
              /\ t.connections[i].node = s.connections[i].node
              /\ t.connections[i].sock = s.connections[i].sock
              /\ t.connections[i].members_sent = s.connections[i].members_sent
              /\ t.connections[i].timer_wheel_index =
                   IF i = id THEN cw ELSE s.connections[i].timer_wheel_index
    BY <2>3, <2>4, <2>9 DEF Live
  <2>11. EstOK(t)
    BY <2>9, <2>10 DEF Good, EstOK
  <2>12. WheelOK(t)
    <3> SUFFICES ASSUME NEW i \in Slot
                 PROVE  t.timer_wheel.data[i] =
                          {k \in Live(t) : t.connections[k].timer_wheel_index = i}
      BY DEF WheelOK
    <3>1. s.timer_wheel.data[i] =
              {k \in Live(s) : s.connections[k].timer_wheel_index = i}
      BY DEF Good, WheelOK
    <3> QED
      BY <3>1, <2>6, <2>8, <2>9, <2>10 DEF K
  <2> QED
    BY <2>1, <2>8, <2>9, <2>10, <2>11, <2>12 DEF Good, t
<1> QED
  BY <1>0, <1>1

LEMMA EstablishGood ==
    ASSUME NEW me, NEW s, Good(me, s), NEW id \in Live(s), NEW from \in Node,
           s.connections[id].sock = from, s.connections[id].members_sent,
           from \notin DOMAIN s.established
    PROVE  LET t == Establish(s, id, from)
           IN  /\ Good(me, t)
               /\ Live(t) = Live(s)
               /\ \A i \in Live(s) :
                    /\ t.connections[i].sock = s.connections[i].sock
                    /\ t.connections[i].members_sent = s.connections[i].members_sent
                    /\ t.connections[i].timer_wheel_index =
                         IF i = id THEN s.timer_wheel.current_write
                         ELSE s.connections[i].timer_wheel_index
               /\ DOMAIN t.established = DOMAIN s.established \cup {from}
               /\ t.established[from] = id
               /\ \A n \in DOMAIN s.established :
                    t.established[n] = s.established[n]
               /\ t.timer_wheel.current_read = s.timer_wheel.current_read
               /\ t.timer_wheel.current_write = s.timer_wheel.current_write
<1> DEFINE u == reset_timer(s, id)
           t == Establish(s, id, from)
           r == [u.connections[id] EXCEPT !.node = from]
           c == [u.connections EXCEPT ![id] = r]
           e == [n \in DOMAIN u.established \cup {from} |->
                   IF n = from THEN id ELSE s.established[n]]
<1>1. /\ Good(me, u)
      /\ Live(u) = Live(s)
      /\ \A i \in Live(s) :
           /\ u.connections[i].node = s.connections[i].node
           /\ u.connections[i].sock = s.connections[i].sock
           /\ u.connections[i].members_sent = s.connections[i].members_sent
           /\ u.connections[i].timer_wheel_index =
                IF i = id THEN s.timer_wheel.current_write
                ELSE s.connections[i].timer_wheel_index
      /\ u.established = s.established
      /\ u.timer_wheel.current_read = s.timer_wheel.current_read
      /\ u.timer_wheel.current_write = s.timer_wheel.current_write
  BY ResetTimerGood
<1>2. t = [u EXCEPT !.connections = c, !.established = e]
  BY DEF Establish
<1> HIDE DEF u, t
<1>3. /\ u \in ServerState /\ u.node = me
      /\ u.connections \in PartialFn(Id, Conn)
      /\ Live(u) \subseteq Id
      /\ \A i \in Live(u) : u.connections[i] \in Conn
      /\ DOMAIN s.established \subseteq Node
      /\ \A n \in DOMAIN s.established : s.established[n] \in Id
  BY <1>1, ServerStateFields DEF Good
<1>4. /\ r \in Conn
      /\ r.node = from
      /\ r.sock = u.connections[id].sock
      /\ r.members_sent = u.connections[id].members_sent
      /\ r.timer_wheel_index = u.connections[id].timer_wheel_index
  BY <1>1, <1>3 DEF Conn
<1> HIDE DEF r
<1>5. /\ DOMAIN c = Live(s)
      /\ c[id] = r
      /\ \A i \in Live(s) : i # id => c[i] = u.connections[i]
      /\ c \in PartialFn(Id, Conn)
  BY <1>1, <1>3, <1>4, PartialFnChar DEF Live
<1>6. /\ DOMAIN e = DOMAIN s.established \cup {from}
      /\ e[from] = id
      /\ \A n \in DOMAIN s.established : e[n] = s.established[n]
      /\ e \in PartialFn(Node, Id)
  BY <1>1, <1>3, PartialFnChar
<1> HIDE DEF c, e
<1>7. /\ t.node = u.node
      /\ t.connections = c
      /\ t.established = e
      /\ t.timer_wheel = u.timer_wheel
      /\ t \in ServerState
  BY <1>2, <1>3, <1>5, <1>6 DEF ServerState
<1>8. /\ Live(t) = Live(s)
      /\ \A i \in Live(s) :
           /\ t.connections[i].node =
                IF i = id THEN from ELSE s.connections[i].node
           /\ t.connections[i].sock = s.connections[i].sock
           /\ t.connections[i].members_sent = s.connections[i].members_sent
           /\ t.connections[i].timer_wheel_index =
                IF i = id THEN s.timer_wheel.current_write
                ELSE s.connections[i].timer_wheel_index
  BY <1>1, <1>4, <1>5, <1>7 DEF Live
<1>9. EstOK(t)
  BY <1>6, <1>7, <1>8 DEF Good, EstOK
<1>10. WheelOK(t)
  <2> SUFFICES ASSUME NEW i \in Slot
               PROVE  t.timer_wheel.data[i] =
                        {k \in Live(t) : t.connections[k].timer_wheel_index = i}
    BY DEF WheelOK
  <2>1. u.timer_wheel.data[i] =
            {k \in Live(u) : u.connections[k].timer_wheel_index = i}
    BY <1>1 DEF Good, WheelOK
  <2> QED
    BY <2>1, <1>1, <1>7, <1>8
<1> QED
  BY <1>1, <1>3, <1>6, <1>7, <1>8, <1>9, <1>10 DEF Good, t

(* Of two connections to a peer only the established one survives.         *)
LEMMA EstablishConnectionGood ==
    ASSUME NEW me, NEW s, Good(me, s), NEW id \in Live(s), s.connections[id].members_sent,
           NEW from, from = s.connections[id].sock, NEW G, SingleOK(s, G)
    PROVE  LET t == establish_connection(s, id, from)
           IN  /\ Good(me, t)
               /\ Live(t) \subseteq Live(s)
               /\ SameSock(s, t)
               /\ \A i \in Live(t) :
                    /\ s.connections[i].members_sent => t.connections[i].members_sent
                    /\ t.connections[i].members_sent => s.connections[i].members_sent
               /\ SingleOK(t, (G \cup {id}) \cap Live(t))
               /\ Arms(s, t, {id})
<1> DEFINE x == choose_connection_to_close(s, id, from)
           u == close(s, x)
           t == establish_connection(s, id, from)
<1>1. /\ Good(me, u)
      /\ Shrinks(s, u)
      /\ Live(u) = Live(s) \ x
  BY CloseGood
<1>2. from \in Node
  BY ServerStateFields DEF Good, Conn
<1>3. SingleOK(u, G \cap Live(u))
  BY <1>1, ShrinksSingle
<1>4. \/ from \in DOMAIN s.established /\ x = {s.established[from]}
      \/ x = {id}
      \/ from \notin DOMAIN s.established /\ x = {}
  BY DEF choose_connection_to_close, Good, EstOK
<1>5. /\ id \in x => t = u
      /\ id \notin x => t = Establish(u, id, from)
  BY <1>1 DEF establish_connection
<1> HIDE DEF x, u, t
<1>6. CASE id \in x
  <2>1. t = u /\ id \notin Live(t) /\ (G \cup {id}) \cap Live(t) = G \cap Live(t)
    BY <1>1, <1>5, <1>6
  <2>2. /\ Good(me, t)
        /\ SingleOK(t, (G \cup {id}) \cap Live(t))
    BY <1>1, <1>3, <2>1
  <2>3. \A i \in Live(t) : i # id /\ t.connections[i] = s.connections[i]
    BY <1>1, <2>1 DEF Shrinks
  <2>4. /\ Live(t) \subseteq Live(s)
        /\ t.timer_wheel.current_read = s.timer_wheel.current_read
        /\ t.timer_wheel.current_write = s.timer_wheel.current_write
    BY <1>1, <2>1 DEF Shrinks
  <2>5. Arms(s, t, {id})
    BY <2>3, <2>4 DEF Arms, Index
  <2> QED
    BY <2>2, <2>3, <2>4, <2>5 DEF t, SameSock
<1>7. CASE id \notin x
  <2>1. from \notin DOMAIN u.established
    BY <1>1, <1>4, <1>7 DEF Shrinks, Good, EstOK
  <2>2. /\ id \in Live(u)
        /\ u.connections[id] = s.connections[id]
    BY <1>1, <1>7 DEF Shrinks
  <2>3. /\ Good(me, t)
        /\ Live(t) = Live(u)
        /\ \A i \in Live(u) :
             /\ t.connections[i].sock = u.connections[i].sock
             /\ t.connections[i].members_sent = u.connections[i].members_sent
             /\ t.connections[i].timer_wheel_index =
                  IF i = id THEN u.timer_wheel.current_write
                  ELSE u.connections[i].timer_wheel_index
        /\ DOMAIN t.established = DOMAIN u.established \cup {from}
        /\ t.established[from] = id
        /\ \A n \in DOMAIN u.established : t.established[n] = u.established[n]
        /\ t.timer_wheel.current_read = u.timer_wheel.current_read
        /\ t.timer_wheel.current_write = u.timer_wheel.current_write
    BY <1>1, <1>2, <1>5, <1>7, <2>1, <2>2, EstablishGood
  <2>4. SingleOK(t, (G \cup {id}) \cap Live(t))
    BY <1>3, <2>1, <2>2, <2>3 DEF SingleOK
  <2>5. /\ t.timer_wheel.current_read = s.timer_wheel.current_read
        /\ t.timer_wheel.current_write = s.timer_wheel.current_write
        /\ u.timer_wheel.current_write = s.timer_wheel.current_write
    BY <1>1, <2>3 DEF Shrinks
  <2>6. /\ Live(t) \subseteq Live(s)
        /\ \A i \in Live(t) :
             /\ t.connections[i].sock = s.connections[i].sock
             /\ t.connections[i].members_sent = s.connections[i].members_sent
             /\ t.connections[i].timer_wheel_index =
                  IF i = id THEN s.timer_wheel.current_write
                  ELSE s.connections[i].timer_wheel_index
    BY <1>1, <2>3, <2>5 DEF Shrinks
  <2>7. Arms(s, t, {id})
    BY <2>5, <2>6 DEF Arms, Index
  <2> QED
    BY <2>3, <2>4, <2>6, <2>7 DEF t, SameSock
<1> QED
  BY <1>6, <1>7

(* What check_connections leaves of s, given fresh ids for what it dials:  *)
(* every connection of s it keeps is as it was, the dialled ones are new,  *)
(* and the established entries follow their connections.                   *)
Checked(s, t, dial) ==
    /\ Live(t) \subseteq Live(s) \cup DOMAIN dial
    /\ \A i \in Live(t) \cap Live(s) : t.connections[i] = s.connections[i]
    /\ \A i \in Live(t) \ Live(s) :
          /\ t.connections[i].sock = dial[i]
          /\ ~t.connections[i].members_sent
          /\ t.connections[i].timer_wheel_index = s.timer_wheel.current_write
    /\ \A G \in SUBSET Live(s) : SingleOK(s, G) => SingleOK(t, G \cap Live(t))
    /\ t.timer_wheel.current_read = s.timer_wheel.current_read
    /\ t.timer_wheel.current_write = s.timer_wheel.current_write

LEMMA CheckConnectionsGood ==
    ASSUME NEW me, NEW s, Good(me, s), NEW all \in SUBSET Node, NEW dial, Dials(s, all, dial),
           DOMAIN dial \subseteq Id
    PROVE  /\ ~CheckPanics(s, all)
           /\ Good(me, check_connections(s, all, dial, dial))
           /\ Checked(s, check_connections(s, all, dial, dial), dial)
<1> DEFINE t == check_connections(s, all, dial, dial)
           u == init_connection(s, dial, dial)
           d == ToDisconnect(s, all)
<1>1. ~CheckPanics(s, all)
  BY DisconnectEstablishedGood DEF CheckPanics
<1>2. CASE s.node \notin all
  <2>1. Good(me, t) /\ Shrinks(s, t)
    BY <1>2, DisconnectAllGood DEF check_connections
  <2> HIDE DEF t
  <2>2. \A G \in SUBSET Live(s) : SingleOK(s, G) => SingleOK(t, G \cap Live(t))
    BY <2>1, ShrinksSingle
  <2>3. Checked(s, t, dial)
    BY <2>1, <2>2 DEF Checked, Shrinks
  <2> QED
    BY <1>1, <2>1, <2>3 DEF t
<1>3. CASE s.node \in all
  <2>1. /\ DOMAIN dial \subseteq Id \ Live(s)
        /\ \A i \in DOMAIN dial : dial[i] \in Node
    BY DEF Dials, ToConnect
  <2>2. /\ Good(me, u)
        /\ Live(u) = Live(s) \cup DOMAIN dial
        /\ \A i \in Live(s) : u.connections[i] = s.connections[i]
        /\ u.established = s.established
        /\ u.timer_wheel.current_read = s.timer_wheel.current_read
        /\ u.timer_wheel.current_write = s.timer_wheel.current_write
        /\ \A i \in DOMAIN dial :
             /\ u.connections[i].sock = dial[i]
             /\ ~u.connections[i].members_sent
             /\ u.connections[i].timer_wheel_index = s.timer_wheel.current_write
    BY <2>1, InitConnectionGood
  <2>3. t = disconnect_established(u, d)
    BY <1>3 DEF check_connections
  <2> HIDE DEF t, u, d
  <2>4. Good(me, t) /\ Shrinks(u, t)
    BY <2>2, <2>3, DisconnectEstablishedGood
  <2>5. \A G \in SUBSET Live(s) : SingleOK(s, G) => SingleOK(u, G)
    BY <2>2 DEF SingleOK
  <2>6. \A G \in SUBSET Live(s) : SingleOK(s, G) => SingleOK(t, G \cap Live(t))
    BY <2>4, <2>5, ShrinksSingle
  <2>7. Checked(s, t, dial)
    BY <2>2, <2>4, <2>6 DEF Checked, Shrinks
  <2> QED
    BY <1>1, <2>4, <2>7 DEF t
<1> QED
  BY <1>2, <1>3

(* The connections of the slot that is read are the ones that time out.    *)
LEMMA ExpireGood ==
    ASSUME NEW me, NEW s, Good(me, s)
    PROVE  LET x == [s EXCEPT !.timer_wheel = WheelExpire(@)]
               t == close(x, WheelExpired(s.timer_wheel))
           IN  /\ Good(me, t)
               /\ Live(t) = {i \in Live(s) : s.connections[i].timer_wheel_index
                                               # s.timer_wheel.current_read}
               /\ \A i \in Live(t) : t.connections[i] = s.connections[i]
               /\ \A G : SingleOK(s, G) => SingleOK(t, G \cap Live(t))
               /\ t.timer_wheel.current_read = (s.timer_wheel.current_read + 1) % Size
               /\ t.timer_wheel.current_write = (s.timer_wheel.current_write + 1) % Size
<1> DEFINE x == [s EXCEPT !.timer_wheel = WheelExpire(@)]
           ids == WheelExpired(s.timer_wheel)
           t == close(x, ids)
           lost == {n \in DOMAIN s.established :
                      /\ s.established[n] \in ids
                      /\ s.connections[s.established[n]].node = n}
           cr == s.timer_wheel.current_read
           w == WheelExpire(s.timer_wheel)
           v == WheelRemove(w, IndexOf(s, ids))
<1>1. /\ s \in ServerState /\ s.node = me
      /\ s.connections \in PartialFn(Id, Conn)
      /\ s.established \in PartialFn(Node, Id)
      /\ s.timer_wheel \in Wheels(Id) /\ cr \in Slot
  BY ServerStateFields DEF Good, Wheels
<1>2. ids = {i \in Live(s) : s.connections[i].timer_wheel_index = cr}
  BY <1>1 DEF Good, WheelOK, WheelExpired
<1>3. /\ w \in Wheels(Id)
      /\ w.current_read = (s.timer_wheel.current_read + 1) % Size
      /\ w.current_write = (s.timer_wheel.current_write + 1) % Size
      /\ \A i \in Slot : w.data[i] = IF i = cr THEN {} ELSE s.timer_wheel.data[i]
  BY <1>1, WheelExpireFields
<1>4. /\ v \in Wheels(Id)
      /\ v.current_read = w.current_read /\ v.current_write = w.current_write
      /\ \A i \in Slot : v.data[i] =
           w.data[i] \ {k \in DOMAIN IndexOf(s, ids) : IndexOf(s, ids)[k] = i}
  BY <1>3, WheelRemoveFields
<1> HIDE DEF w
<1>5. /\ x.node = s.node /\ x.connections = s.connections
      /\ x.established = s.established /\ x.timer_wheel = w
      /\ x \in ServerState
  BY <1>1, <1>3 DEF ServerState, w
<1> HIDE DEF x
<1>6. /\ ids \cap Live(x) = ids
      /\ IndexOf(x, ids) = IndexOf(s, ids)
  BY <1>2, <1>5 DEF Live, IndexOf
<1>7. t = [x EXCEPT !.connections = Without(s.connections, ids),
                    !.timer_wheel = v,
                    !.established = Without(s.established, lost)]
  BY <1>5, <1>6 DEF close
<1>8. /\ Without(s.connections, ids) \in PartialFn(Id, Conn)
      /\ Without(s.established, lost) \in PartialFn(Node, Id)
  BY <1>1, WithoutType
<1> HIDE DEF t, v, lost, ids
<1>9. /\ t.node = s.node
      /\ t.connections = Without(s.connections, ids)
      /\ t.established = Without(s.established, lost)
      /\ t.timer_wheel = v
      /\ t \in ServerState
  BY <1>4, <1>5, <1>7, <1>8 DEF ServerState
<1>10. /\ Live(t) = Live(s) \ ids
       /\ \A i \in Live(t) : t.connections[i] = s.connections[i]
       /\ DOMAIN t.established = DOMAIN s.established \ lost
       /\ \A n \in DOMAIN t.established : t.established[n] = s.established[n]
  BY <1>9 DEF Live, Without
<1>11. EstOK(t)
  BY <1>10 DEF EstOK, Good, lost
<1>12. WheelOK(t)
  <2> SUFFICES ASSUME NEW i \in Slot
               PROVE  t.timer_wheel.data[i] =
                        {k \in Live(t) : t.connections[k].timer_wheel_index = i}
    BY DEF WheelOK
  <2>1. {k \in DOMAIN IndexOf(s, ids) : IndexOf(s, ids)[k] = i}
          = {k \in ids : s.connections[k].timer_wheel_index = i}
    BY DEF IndexOf
  <2>2. s.timer_wheel.data[i] =
            {k \in Live(s) : s.connections[k].timer_wheel_index = i}
    BY DEF Good, WheelOK
  <2>3. CASE i = cr
    BY <2>3, <1>2, <1>3, <1>4, <1>9, <1>10
  <2>4. CASE i # cr
    <3>1. t.timer_wheel.data[i] = s.timer_wheel.data[i] \
             {k \in ids : s.connections[k].timer_wheel_index = i}
      BY <2>1, <2>4, <1>3, <1>4, <1>9
    <3>2. {k \in ids : s.connections[k].timer_wheel_index = i} = {}
      BY <2>4, <1>2
    <3> QED
      BY <3>1, <3>2, <2>2, <2>4, <1>2, <1>10
  <2> QED
    BY <2>3, <2>4
<1>13. \A G : SingleOK(s, G) => SingleOK(t, G \cap Live(t))
  BY <1>10 DEF SingleOK, lost
<1> QED
  BY <1>1, <1>2, <1>3, <1>4, <1>9, <1>10, <1>11, <1>12, <1>13 DEF Good, t, x, ids
=============================================================================
