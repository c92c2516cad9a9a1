--------------------------- MODULE TcpServer_proofs ---------------------------
(***************************************************************************)
(* For any clients, requests, wheel size and whatever the connection       *)
(* handlers return: requests stay timed, a connection has one slot of the  *)
(* wheel and keeps the time of KeepAlive, and the thread does not panic    *)
(* under a running executor.  TcpReplies_proofs goes on with the replies.  *)
(***************************************************************************)
EXTENDS TcpServer, Basics_proofs

(* The part of the types that the argument needs; the Vec is always empty  *)
(* between two notifications.                                              *)
TypeInv ==
    /\ request_timer_wheel \in Wheels(Cid)
    /\ firing \subseteq Cid /\ awaiting \subseteq Cid
    /\ output = <<>>
    /\ Live \subseteq Id

SlotsInv ==
    /\ connection_timer_wheel \in Wheels(Id)
    /\ \A i \in Live :
          /\ connections[i].timer_wheel_slot \in Slot
          /\ connections[i] = [timer_wheel_slot |-> connections[i].timer_wheel_slot,
                               serializer |-> connections[i].serializer]

SockInv ==
    sock = [j \in Id |-> [state |-> sock[j].state, inbox |-> sock[j].inbox,
                          wire |-> sock[j].wire]]

(* A client that is not accepted yet is nowhere; ids are not used twice.   *)
FreshInv ==
    \A i \in Id : sock[i].state \in {"none", "waiting"} =>
        i \notin Live /\ \A k \in Slot : i \notin connection_timer_wheel.data[k]

(* Nothing is awaited for a connection that is gone: request_tick may drop *)
(* what it finds without a connection.                                     *)
AwaitedInv == \A c \in awaiting : c # NoConn => c[1] \in Live

TimedInv == "tick" \notin Failing => RequestsAreTimed

PanicInv == ~Loose => PanicsOnlyWithoutExecutor

RequestInv == TypeInv /\ AwaitedInv /\ TimedInv /\ PanicInv

SlotInv == SlotsInv /\ SockInv /\ FreshInv /\ OneSlotPerConnection

IInv == RequestInv /\ SlotInv

-----------------------------------------------------------------------------
(* The end of the thread leaves nothing to be wrong about.                 *)
LEMMA EndsIInv ==
    ASSUME IInv, NEW how, Ends(how), how = "panicked" => (~node_up \/ Loose)
    PROVE  IInv'
<1>1. /\ DOMAIN connections' = {} /\ firing' = {} /\ awaiting' = {} /\ output' = <<>>
      /\ status' = how /\ node_up' = node_up
      /\ request_timer_wheel' = WheelNew /\ connection_timer_wheel' = WheelNew
  BY DEF Ends, Without, Live
<1>2. sock' = Closed(sock, Id)
  BY DEF Ends
<1>3. WheelNew \in Wheels(Cid) /\ WheelNew \in Wheels(Id)
  BY WheelNewType
<1>4. RequestInv'
  BY <1>1, <1>3 DEF RequestInv, TypeInv, AwaitedInv, TimedInv, RequestsAreTimed, PanicInv,
                    PanicsOnlyWithoutExecutor, Live
<1>5. \A i \in Id : sock'[i].state = "closed"
  BY <1>2 DEF Closed
<1>6. SockInv'
  BY <1>2 DEF Closed, SockInv
<1> QED
  BY <1>1, <1>3, <1>4, <1>5, <1>6 DEF IInv, SlotInv, SlotsInv, FreshInv, OneSlotPerConnection, Live

(* What is handled of the output of a call is of the handler that was      *)
(* called: the Vec was empty.                                              *)
LEMMA OutputDone ==
    ASSUME NEW i \in Id, NEW out \in Outputs(i), NEW place,
           NEW o \in handle_connection_msgs(<<>> \o out, place)
    PROVE  /\ o.done \in Seq(Msgs(i)) /\ Replied(out) <= budget.replies
           /\ \E n \in Nat : DOMAIN out = 1 .. n
           /\ o.rest = <<>> /\ o.failed \in BOOLEAN
           /\ o.failed => place \in Failing
<1>1. PICK n \in 0 .. MaxOutput : out \in [1 .. n -> Msgs(i)] /\ Replied(out) <= budget.replies
  BY DEF Outputs, Lists
<1>2. n \in Nat
  BY <1>1, TcpAssumption
<1>3. out \in Seq(Msgs(i)) /\ Len(out) = n /\ <<>> \o out = out
  BY <1>1, <1>2
<1>4. /\ o.rest = <<>> /\ o.failed \in BOOLEAN /\ (o.failed => place \in Failing)
      /\ \/ o.done = out
         \/ \E k \in 1 .. n : o.done = SubSeq(out, 1, k - 1)
  <2>1. o \in handle_connection_msgs(out, place)
    BY <1>3
  <2>2. \/ o = [done |-> out, failed |-> FALSE, rest |-> <<>>]
        \/ \E k \in DOMAIN out :
             /\ o = [done |-> SubSeq(out, 1, k - 1), failed |-> TRUE, rest |-> <<>>]
             /\ place \in Failing
    BY <2>1, Zenon DEF handle_connection_msgs
  <2>3. CASE o = [done |-> out, failed |-> FALSE, rest |-> <<>>]
    BY <2>3
  <2>4. CASE \E k \in DOMAIN out :
               /\ o = [done |-> SubSeq(out, 1, k - 1), failed |-> TRUE, rest |-> <<>>]
               /\ place \in Failing
    <3>1. PICK k \in DOMAIN out :
            /\ o = [done |-> SubSeq(out, 1, k - 1), failed |-> TRUE, rest |-> <<>>]
            /\ place \in Failing
      BY <2>4
    <3>2. k \in 1 .. n
      BY <1>1
    <3>3. o.rest = <<>> /\ o.failed = TRUE /\ o.done = SubSeq(out, 1, k - 1)
      BY <3>1
    <3> QED
      BY <3>1, <3>2, <3>3
  <2> QED
    BY <2>2, <2>3, <2>4
<1>5. o.done \in Seq(Msgs(i))
  BY <1>2, <1>3, <1>4
<1> QED
  BY <1>1, <1>2, <1>4, <1>5

(* What a call sends carries no CorrelationId of another connection.       *)
LEMMA OutputCids ==
    ASSUME NEW i \in Id, NEW out \in Outputs(i), NEW place,
           NEW o \in handle_connection_msgs(<<>> \o out, place)
    PROVE  /\ Cids(o.done) \subseteq Cid
           /\ \A c \in Cids(o.done) : c # NoConn => c[1] = i
           /\ o.rest = <<>> /\ o.failed \in BOOLEAN
           /\ o.failed => place \in Failing
<1>1. o.rest = <<>> /\ o.failed \in BOOLEAN /\ (o.failed => place \in Failing)
  BY OutputDone
<1>2. \A k \in DOMAIN o.done : o.done[k] \in Msgs(i)
  BY OutputDone
<1>3. ASSUME NEW c \in Cids(o.done)
      PROVE  c \in ({i} \X Request) \cup (Cid \cap {NoConn})
  <2>1. PICK k \in DOMAIN o.done : ~o.done[k].reply /\ c = o.done[k].cid /\ c # NoCid
    BY DEF Cids
  <2> QED
    BY <2>1, <1>2 DEF Msgs
<1>4. {i} \X Request \subseteq Cid
  BY DEF Cid
<1> QED
  BY <1>1, <1>3, <1>4

-----------------------------------------------------------------------------
(* Requests.                                                               *)

(* A call adds to the wheel what it sends; what was awaited before stays   *)
(* in the wheel, or is left for the loop of request_tick.                  *)
LEMMA HandledRequests ==
    ASSUME RequestInv, NEW i \in Live, NEW place, NEW was, NEW left,
           NEW out \in Outputs(i), NEW o \in handle_connection_msgs(output \o out, place),
           was \subseteq awaiting, left \subseteq firing,
           \A c \in was : c \in firing => c \in left,
           place = "tick" \/ firing = {},
           Handled(i, place, was, left, out, o)
    PROVE  RequestInv'
<1> DEFINE cids == Cids(o.done)
           dead == IF o.failed /\ place = "read" THEN {i} ELSE {}
<1>1. output = <<>> /\ i \in Id /\ request_timer_wheel \in Wheels(Cid)
      /\ firing \subseteq Cid /\ awaiting \subseteq Cid /\ Live \subseteq Id
  BY DEF RequestInv, TypeInv
<1>2. /\ cids \subseteq Cid
      /\ \A c \in cids : c # NoConn => c[1] = i
      /\ o.rest = <<>> /\ o.failed \in BOOLEAN
      /\ o.failed => place \in Failing
  BY <1>1, OutputCids
<1> HIDE DEF cids
<1>3. /\ request_timer_wheel' = WheelInsert(request_timer_wheel, cids)
      /\ awaiting' = Awaited(was \cup cids, dead)
      /\ output' = o.rest
      /\ firing' = IF o.failed THEN {} ELSE left
      /\ status' = status /\ node_up' = node_up
      /\ DOMAIN connections' = Live \ dead
  BY DEF Handled, Without, Live, cids
<1>4. awaiting' = {c \in was \cup cids : c = NoConn \/ c[1] \notin dead}
  BY <1>3 DEF Awaited
<1>5. TypeInv'
  <2>1. WheelInsert(request_timer_wheel, cids) \in Wheels(Cid)
    BY <1>1, <1>2, WheelInsertFields
  <2>2. awaiting' \subseteq Cid /\ firing' \subseteq Cid
    BY <1>1, <1>2, <1>3, <1>4
  <2> QED
    BY <2>1, <2>2, <1>1, <1>2, <1>3 DEF TypeInv, Live
<1>6. AwaitedInv'
  <2> SUFFICES ASSUME NEW c \in awaiting', c # NoConn
               PROVE  c[1] \in Live \ dead
    BY <1>3 DEF AwaitedInv, Live
  <2>1. c \in cids => c[1] = i
    BY <1>2
  <2>2. c \in was => c[1] \in Live
    BY DEF RequestInv, AwaitedInv
  <2> QED
    BY <2>1, <2>2, <1>4
<1>7. TimedInv'
  <2> SUFFICES ASSUME "tick" \notin Failing, status = "running", NEW c \in awaiting'
               PROVE  c \in firing' \/ \E k \in Slot : c \in request_timer_wheel'.data[k]
    BY <1>3 DEF TimedInv, RequestsAreTimed
  <2> DEFINE w == request_timer_wheel
  <2>0. w \in Wheels(Cid) /\ w.current_write \in Slot /\ cids \subseteq Cid
    BY <1>1, <1>2 DEF Wheels
  <2> HIDE DEF w
  <2>1. /\ w.current_write \in Slot
        /\ WheelInsert(w, cids).data[w.current_write] = w.data[w.current_write] \cup cids
        /\ \A k \in Slot : k # w.current_write => WheelInsert(w, cids).data[k] = w.data[k]
    BY <2>0, WheelInsertFields
  <2> USE DEF w
  <2>2. CASE c \in cids
    BY <2>1, <2>2, <1>3
  <2>3. CASE c \in was /\ c \in firing
    <3>1. place = "tick" /\ ~o.failed
      BY <2>3, <1>2
    <3> QED
      BY <2>3, <3>1, <1>3
  <2>4. CASE c \in was /\ c \notin firing
    <3>1. PICK k \in Slot : c \in w.data[k]
      BY <2>4 DEF RequestInv, TimedInv, RequestsAreTimed
    <3>2. c \in WheelInsert(w, cids).data[k]
      BY <2>1, <3>1
    <3> QED
      BY <3>2, <1>3
  <2> QED
    BY <2>2, <2>3, <2>4, <1>4
<1>8. PanicInv'
  BY <1>3 DEF RequestInv, PanicInv, PanicsOnlyWithoutExecutor
<1> QED
  BY <1>5, <1>6, <1>7, <1>8 DEF RequestInv

(* A step that touches neither the wheel nor what is awaited, but for      *)
(* connections that go.                                                    *)
LEMMA RequestsUntouched ==
    ASSUME RequestInv, NEW gone,
           UNCHANGED <<request_timer_wheel, firing, output, status>>,
           node_up' = node_up \/ ~node_up',
           awaiting' = Awaited(awaiting, gone),
           DOMAIN connections' \subseteq Id, Live \ gone \subseteq DOMAIN connections'
    PROVE  RequestInv'
<1>1. awaiting' \subseteq awaiting /\ \A c \in awaiting' : c = NoConn \/ c[1] \notin gone
  BY DEF Awaited
<1>2. TypeInv' /\ PanicInv'
  BY <1>1 DEF RequestInv, TypeInv, PanicInv, PanicsOnlyWithoutExecutor, Live
<1>3. AwaitedInv'
  BY <1>1 DEF RequestInv, AwaitedInv, Live
<1>4. TimedInv'
  BY <1>1 DEF RequestInv, TimedInv, RequestsAreTimed
<1> QED
  BY <1>2, <1>3, <1>4 DEF RequestInv

(* A tick takes from the wheel what it is going to fire.                   *)
LEMMA TickRequests ==
    ASSUME RequestInv, request_tick
    PROVE  RequestInv'
<1> DEFINE w == request_timer_wheel
<1>1. /\ firing = {} /\ firing' = w.data[w.current_read]
      /\ request_timer_wheel' = WheelExpire(w)
      /\ UNCHANGED <<connections, output, status, node_up, awaiting>>
  BY DEF request_tick, Idle, WheelExpired
<1>2. /\ w \in Wheels(Cid) /\ WheelExpire(w) \in Wheels(Cid)
      /\ \A k \in Slot : WheelExpire(w).data[k] = IF k = w.current_read THEN {} ELSE w.data[k]
  BY WheelExpireFields DEF RequestInv, TypeInv
<1>3. w.data[w.current_read] \subseteq Cid
  BY <1>2 DEF Wheels
<1>4. TypeInv' /\ PanicInv' /\ AwaitedInv'
  BY <1>1, <1>2, <1>3 DEF RequestInv, TypeInv, PanicInv, PanicsOnlyWithoutExecutor,
                          AwaitedInv, Live
<1>5. TimedInv'
  <2> SUFFICES ASSUME "tick" \notin Failing, status = "running", NEW c \in awaiting
               PROVE  c \in firing' \/ \E k \in Slot : c \in request_timer_wheel'.data[k]
    BY <1>1 DEF TimedInv, RequestsAreTimed
  <2>1. PICK k \in Slot : c \in w.data[k]
    BY <1>1 DEF RequestInv, TimedInv, RequestsAreTimed
  <2> QED
    BY <2>1, <1>1, <1>2
<1> QED
  BY <1>4, <1>5 DEF RequestInv

-----------------------------------------------------------------------------
(* Slots.                                                                  *)

(* A step that adds no connection and puts nothing into the wheel but      *)
(* connections that live.                                                  *)
LEMMA SlotStep ==
    ASSUME SlotInv, Live \subseteq Id, connection_timer_wheel' \in Wheels(Id), SockInv',
           DOMAIN connections' \subseteq Live,
           \A j \in DOMAIN connections' :
              /\ connections'[j].timer_wheel_slot \in Slot
              /\ connections'[j] = [timer_wheel_slot |-> connections'[j].timer_wheel_slot,
                                    serializer |-> connections'[j].serializer],
           IdleTimeout => \A j \in DOMAIN connections' : \A k \in Slot :
              j \in connection_timer_wheel'.data[k] <=>
                 k = connections'[j].timer_wheel_slot,
           \A j \in Id \ Live : \A k \in Slot :
              j \in connection_timer_wheel'.data[k] => j \in connection_timer_wheel.data[k],
           \A j \in Id : sock'[j].state \in {"none", "waiting"} =>
                           sock[j].state \in {"none", "waiting"}
    PROVE  SlotInv'
<1>1. SlotsInv'
  BY DEF SlotsInv, Live
<1>2. OneSlotPerConnection'
  BY DEF OneSlotPerConnection, Live
<1>3. FreshInv'
  BY DEF SlotInv, FreshInv, Live
<1> QED
  BY <1>1, <1>2, <1>3 DEF SlotInv

(* The timer of one connection is moved to the slot written to now.        *)
LEMMA RearmedSlots ==
    ASSUME SlotInv, Live \subseteq Id, NEW i \in Live
    PROVE  /\ Rearmed(i) \in Wheels(Id) /\ NewSlot(i) \in Slot
           /\ IdleTimeout => \A k \in Slot : i \in Rearmed(i).data[k] <=> k = NewSlot(i)
           /\ \A j \in Id \ {i} : \A k \in Slot :
                 j \in Rearmed(i).data[k] <=> j \in connection_timer_wheel.data[k]
<1> DEFINE w == connection_timer_wheel
           slot == [j \in {i} |-> connections[i].timer_wheel_slot]
<1>1. w \in Wheels(Id) /\ connections[i].timer_wheel_slot \in Slot /\ i \in Id
  BY DEF SlotInv, SlotsInv
<1>2. w.current_write \in Slot
  BY <1>1 DEF Wheels
<1>3. NewSlot(i) \in Slot /\ (IdleTimeout => NewSlot(i) = w.current_write)
  BY <1>1, <1>2 DEF NewSlot
<1>4. CASE ~IdleTimeout
  BY <1>1, <1>3, <1>4 DEF Rearmed
<1>5. CASE IdleTimeout
  <2>1. i \in w.data[connections[i].timer_wheel_slot]
        /\ \A k \in Slot : i \in w.data[k] <=> k = connections[i].timer_wheel_slot
    BY <1>1, <1>5 DEF SlotInv, OneSlotPerConnection
  <2>2. Rearmed(i) = WheelInsert(WheelRemove(w, slot), {i})
    BY <1>5 DEF Rearmed, update_connection_timeout
  <2>3. DOMAIN slot = {i} /\ slot[i] = connections[i].timer_wheel_slot
    OBVIOUS
  <2> DEFINE v == WheelRemove(w, slot)
  <2> HIDE DEF w, slot
  <2>4. /\ v \in Wheels(Id) /\ v.current_write = w.current_write
        /\ \A k \in Slot : v.data[k] = w.data[k] \ {j \in DOMAIN slot : slot[j] = k}
    BY <1>1, WheelRemoveFields
  <2>5. {i} \subseteq Id
    BY <1>1
  <2> HIDE DEF v
  <2>6. /\ WheelInsert(v, {i}) \in Wheels(Id)
        /\ WheelInsert(v, {i}).data[v.current_write] = v.data[v.current_write] \cup {i}
        /\ \A k \in Slot : k # v.current_write => WheelInsert(v, {i}).data[k] = v.data[k]
    BY <2>4, <2>5, WheelInsertFields
  <2>7. \A k \in Slot : i \notin v.data[k]
    BY <2>1, <2>3, <2>4
  <2>8. \A j \in Id \ {i} : \A k \in Slot : j \in v.data[k] <=> j \in w.data[k]
    BY <2>3, <2>4
  <2>9. Rearmed(i) = WheelInsert(v, {i})
    BY <2>2 DEF v
  <2> QED
    BY <1>2, <1>3, <1>5, <2>4, <2>6, <2>7, <2>8, <2>9 DEF w
<1> QED
  BY <1>4, <1>5

(* Sockets keep their fields when they are written, read or closed.        *)
LEMMA ClosedSock ==
    ASSUME SockInv, NEW s, NEW ids, sock' = Closed(s, ids),
           \A j \in Id : s[j] = [state |-> s[j].state, inbox |-> s[j].inbox,
                                 wire |-> s[j].wire]
    PROVE  /\ SockInv'
           /\ \A j \in Id : sock'[j].state = IF j \in ids THEN "closed" ELSE s[j].state
<1> DEFINE t == [state |-> "closed", inbox |-> <<>>, wire |-> <<>>]
<1>1. sock' = [j \in Id |-> IF j \in ids THEN t ELSE s[j]]
  BY DEF Closed
<1>2. t.state = "closed" /\ t = [state |-> t.state, inbox |-> t.inbox, wire |-> t.wire]
  OBVIOUS
<1> HIDE DEF t
<1>3. \A j \in Id : sock'[j] = [state |-> sock'[j].state, inbox |-> sock'[j].inbox,
                               wire |-> sock'[j].wire]
  BY <1>1, <1>2
<1>4. sock' = [j \in Id |-> sock'[j]]
  BY <1>1
<1> QED
  BY <1>1, <1>2, <1>3, <1>4 DEF SockInv

(* What the handling of output leaves in the socket of i.                  *)
Answered(i, place, w) ==
    [sock EXCEPT ![i].wire = w, ![i].inbox = IF place = "read" THEN Tail(@) ELSE @]

LEMMA SockWritten ==
    ASSUME SockInv, NEW i \in Id, NEW place, NEW w
    PROVE  \A j \in Id :
              Answered(i, place, w)[j] =
              IF j = i THEN [state |-> sock[i].state,
                             inbox |-> IF place = "read" THEN Tail(sock[i].inbox)
                                                         ELSE sock[i].inbox,
                             wire |-> w]
                       ELSE sock[j]
<1> DEFINE s == Answered(i, place, w)
           rec(x) == x = [state |-> x.state, inbox |-> x.inbox, wire |-> x.wire]
           r == sock[i]
           in == IF place = "read" THEN Tail(r.inbox) ELSE r.inbox
           u == [state |-> r.state, inbox |-> in, wire |-> w]
           v == [state |-> r.state, inbox |-> r.inbox, wire |-> w]
<1>1. DOMAIN sock = Id /\ rec(r)
  BY DEF SockInv
<1>2. s = [sock EXCEPT ![i] = [[r EXCEPT !.wire = w]
                                 EXCEPT !.inbox = IF place = "read" THEN Tail(@) ELSE @]]
  BY <1>1 DEF Answered
<1> HIDE DEF s, r
<1>3. [r EXCEPT !.wire = w] = v
  BY <1>1
<1>4. (IF place = "read" THEN Tail(v.inbox) ELSE v.inbox) = in
  OBVIOUS
<1> HIDE DEF in
<1>5. [v EXCEPT !.inbox = in] = u
  OBVIOUS
<1> HIDE DEF v, u
<1>6. [[r EXCEPT !.wire = w] EXCEPT !.inbox = IF place = "read" THEN Tail(@) ELSE @] = u
  BY <1>3, <1>4, <1>5
<1>7. \A j \in Id : s[j] = IF j = i THEN u ELSE sock[j]
  BY <1>1, <1>2, <1>6
<1> QED
  BY <1>7 DEF s, u, in, r

LEMMA HandledSlots ==
    ASSUME IInv, NEW i \in Live, NEW place, NEW was, NEW left,
           NEW out \in Outputs(i), NEW o \in handle_connection_msgs(output \o out, place),
           Handled(i, place, was, left, out, o)
    PROVE  SlotInv'
<1> DEFINE dead == IF o.failed /\ place = "read" THEN {i} ELSE {}
           reset == place = "read" /\ ~o.failed
           slot == IF reset THEN NewSlot(i) ELSE connections[i].timer_wheel_slot
           conn == [timer_wheel_slot |-> slot, serializer |-> write_msgs(i, o.done).serializer]
           s == Answered(i, place, write_msgs(i, o.done).wire)
<1>1. i \in Id /\ Live \subseteq Id /\ SlotInv /\ SockInv
  BY DEF IInv, RequestInv, TypeInv, SlotInv
<1>2. /\ connection_timer_wheel' = IF reset THEN Rearmed(i) ELSE connection_timer_wheel
      /\ connections' = Without([connections EXCEPT ![i] = conn], dead)
      /\ sock' = Closed(s, dead)
  BY DEF Handled, Answered
<1>3. conn.timer_wheel_slot = slot
      /\ conn = [timer_wheel_slot |-> conn.timer_wheel_slot, serializer |-> conn.serializer]
  OBVIOUS
<1>4. \A j \in Id : /\ s[j] = [state |-> s[j].state, inbox |-> s[j].inbox, wire |-> s[j].wire]
                     /\ s[j].state = sock[j].state
  <2> DEFINE u == [state |-> sock[i].state,
                   inbox |-> IF place = "read" THEN Tail(sock[i].inbox) ELSE sock[i].inbox,
                   wire |-> write_msgs(i, o.done).wire]
  <2>1. \A j \in Id : s[j] = IF j = i THEN u ELSE sock[j]
    BY <1>1, SockWritten
  <2>2. u.state = sock[i].state /\ u = [state |-> u.state, inbox |-> u.inbox, wire |-> u.wire]
    OBVIOUS
  <2> HIDE DEF s, u
  <2> QED
    BY <1>1, <2>1, <2>2 DEF SockInv
<1> HIDE DEF s, conn
<1>5. /\ DOMAIN connections' = Live \ dead
      /\ \A j \in Live \ dead : connections'[j] = IF j = i THEN conn ELSE connections[j]
  BY <1>2 DEF Without, Live
<1>6. /\ Rearmed(i) \in Wheels(Id) /\ NewSlot(i) \in Slot
      /\ IdleTimeout => \A k \in Slot : i \in Rearmed(i).data[k] <=> k = NewSlot(i)
      /\ \A j \in Id \ {i} : \A k \in Slot :
            j \in Rearmed(i).data[k] <=> j \in connection_timer_wheel.data[k]
  BY <1>1, RearmedSlots
<1>7. connection_timer_wheel' \in Wheels(Id)
  BY <1>1, <1>2, <1>6 DEF SlotInv, SlotsInv
<1>8. SockInv' /\ \A j \in Id : sock'[j].state \in {"none", "waiting"} =>
                                 sock[j].state \in {"none", "waiting"}
  <2>1. \A j \in Id : s[j] = [state |-> s[j].state, inbox |-> s[j].inbox, wire |-> s[j].wire]
    BY <1>4
  <2>2. SockInv' /\ \A j \in Id : sock'[j].state = IF j \in dead THEN "closed" ELSE s[j].state
    BY <1>1, <1>2, <2>1, ClosedSock
  <2> QED
    BY <2>2, <1>4
<1>9. \A j \in DOMAIN connections' :
        /\ connections'[j].timer_wheel_slot \in Slot
        /\ connections'[j] = [timer_wheel_slot |-> connections'[j].timer_wheel_slot,
                              serializer |-> connections'[j].serializer]
  BY <1>1, <1>3, <1>5, <1>6 DEF SlotInv, SlotsInv
<1>10. ASSUME IdleTimeout, NEW j \in DOMAIN connections', NEW k \in Slot
       PROVE  j \in connection_timer_wheel'.data[k] <=> k = connections'[j].timer_wheel_slot
  <2>1. j \in Live /\ (j \in connection_timer_wheel.data[k] <=>
                          k = connections[j].timer_wheel_slot)
    BY <1>1, <1>5, <1>10 DEF SlotInv, OneSlotPerConnection
  <2>2. CASE j # i
    BY <2>1, <2>2, <1>1, <1>2, <1>5, <1>6
  <2>3. CASE j = i
    BY <2>1, <2>3, <1>2, <1>3, <1>5, <1>6, <1>10
  <2> QED
    BY <2>2, <2>3
<1>11. \A j \in Id \ Live : \A k \in Slot :
         j \in connection_timer_wheel'.data[k] => j \in connection_timer_wheel.data[k]
  BY <1>2, <1>6
<1> QED
  BY <1>1, <1>5, <1>7, <1>8, <1>9, <1>10, <1>11, SlotStep

-----------------------------------------------------------------------------
(* The actions.                                                            *)

LEMMA CallIInv ==
    ASSUME IInv, NEW i \in Live, NEW place, NEW was, NEW left,
           was \subseteq awaiting, left \subseteq firing,
           \A c \in was : c \in firing => c \in left,
           place = "tick" \/ firing = {},
           Call(i, place, was, left)
    PROVE  IInv'
<1>1. CASE ~node_up /\ Ends("panicked")
  BY <1>1, EndsIInv
<1>2. ASSUME NEW out \in Outputs(i),
             NEW o \in handle_connection_msgs(output \o out, place),
             Handled(i, place, was, left, out, o)
      PROVE  IInv'
  <2>1. RequestInv'
    BY <1>2, HandledRequests DEF IInv
  <2>2. SlotInv'
    BY <1>2, HandledSlots
  <2> QED
    BY <2>1, <2>2 DEF IInv
<1> QED
  BY <1>1, <1>2 DEF Call

LEMMA AcceptIInv ==
    ASSUME IInv, NEW ids, NEW lost, accept_connections(ids, lost)
    PROVE  IInv'
<1> DEFINE w == connection_timer_wheel
           slot == IF IdleTimeout THEN w.current_write ELSE 0
           new == [timer_wheel_slot |-> slot, serializer |-> FrameWriterNew]
           s == [j \in Id |-> IF j \in ids THEN [sock[j] EXCEPT !.state = "open"] ELSE sock[j]]
<1>1. /\ ids \subseteq Id /\ lost \subseteq Id
      /\ \A j \in ids : sock[j].state = "waiting"
      /\ connections' = [j \in Live \cup ids |-> IF j \in ids THEN new ELSE connections[j]]
      /\ connection_timer_wheel' = IF IdleTimeout THEN WheelInsert(w, ids) ELSE w
      /\ sock' = Closed(s, lost)
      /\ UNCHANGED <<request_timer_wheel, firing, output, status, node_up, awaiting>>
  BY DEF accept_connections, new_connection, Backlog
<1>2. /\ Live \subseteq Id /\ w \in Wheels(Id) /\ w.current_write \in Slot /\ 0 \in Slot
      /\ SockInv /\ SlotsInv /\ FreshInv /\ OneSlotPerConnection
  BY SizeAssumption DEF IInv, RequestInv, TypeInv, SlotInv, SlotsInv, Wheels, Slot
<1>3. new.timer_wheel_slot = slot /\ slot \in Slot
      /\ new = [timer_wheel_slot |-> new.timer_wheel_slot, serializer |-> new.serializer]
  BY <1>2
<1>4. \A j \in Id :
        /\ s[j] = [state |-> s[j].state, inbox |-> s[j].inbox, wire |-> s[j].wire]
        /\ s[j].state = IF j \in ids THEN "open" ELSE sock[j].state
  <2> SUFFICES ASSUME NEW j \in Id
               PROVE  /\ s[j] = [state |-> s[j].state, inbox |-> s[j].inbox, wire |-> s[j].wire]
                      /\ s[j].state = IF j \in ids THEN "open" ELSE sock[j].state
    OBVIOUS
  <2>1. sock[j] = [state |-> sock[j].state, inbox |-> sock[j].inbox, wire |-> sock[j].wire]
    BY <1>2 DEF SockInv
  <2> QED
    BY <2>1
<1> HIDE DEF s, new
<1>5. SockInv' /\ \A j \in Id : sock'[j].state \in {"none", "waiting"} =>
                        j \notin ids /\ sock[j].state \in {"none", "waiting"}
  <2>1. SockInv' /\ \A j \in Id : sock'[j].state = IF j \in lost THEN "closed" ELSE s[j].state
    BY <1>1, <1>2, <1>4, ClosedSock
  <2> QED
    BY <2>1, <1>4
<1>6. /\ DOMAIN connections' = Live \cup ids
      /\ \A j \in ids : connections'[j] = new
      /\ \A j \in Live \ ids : connections'[j] = connections[j]
  BY <1>1 DEF Live
<1>7. RequestInv'
  <2>1. TypeInv' /\ PanicInv'
    BY <1>1, <1>2, <1>6 DEF IInv, RequestInv, TypeInv, PanicInv, PanicsOnlyWithoutExecutor, Live
  <2>2. AwaitedInv' /\ TimedInv'
    BY <1>1, <1>6 DEF IInv, RequestInv, AwaitedInv, TimedInv, RequestsAreTimed, Live
  <2> QED
    BY <2>1, <2>2 DEF RequestInv
<1>8. /\ connection_timer_wheel' \in Wheels(Id)
      /\ IdleTimeout => \A k \in Slot : connection_timer_wheel'.data[k] =
            IF k = w.current_write THEN w.data[k] \cup ids ELSE w.data[k]
      /\ ~IdleTimeout => connection_timer_wheel' = w
  <2>1. w \in Wheels(Id) /\ ids \subseteq Id
    BY <1>1, <1>2
  <2>2. connection_timer_wheel' = IF IdleTimeout THEN WheelInsert(w, ids) ELSE w
    BY <1>1
  <2> HIDE DEF w
  <2>3. /\ WheelInsert(w, ids) \in Wheels(Id)
        /\ WheelInsert(w, ids).data[w.current_write] = w.data[w.current_write] \cup ids
        /\ \A k \in Slot : k # w.current_write => WheelInsert(w, ids).data[k] = w.data[k]
    BY <2>1, WheelInsertFields
  <2> QED
    BY <2>1, <2>2, <2>3
<1>9. SlotsInv'
  BY <1>2, <1>3, <1>6, <1>8 DEF SlotsInv, Live
<1>10. FreshInv'
  BY <1>2, <1>5, <1>6, <1>8 DEF FreshInv, Live
<1>11. OneSlotPerConnection'
  <2> SUFFICES ASSUME IdleTimeout, NEW j \in Live \cup ids, NEW k \in Slot
               PROVE  j \in connection_timer_wheel'.data[k] <=>
                         k = connections'[j].timer_wheel_slot
    BY <1>6 DEF OneSlotPerConnection, Live
  <2>1. CASE j \in ids
    <3>1. j \notin w.data[k]
      BY <2>1, <1>1, <1>2 DEF FreshInv
    <3> QED
      BY <2>1, <3>1, <1>3, <1>6, <1>8
  <2>2. CASE j \notin ids
    BY <2>2, <1>2, <1>6, <1>8 DEF OneSlotPerConnection
  <2> QED
    BY <2>1, <2>2
<1> QED
  BY <1>5, <1>7, <1>9, <1>10, <1>11 DEF IInv, SlotInv

LEMMA ReadPartIInv ==
    ASSUME IInv, NEW i \in Live, ReadPart(i)
    PROVE  IInv'
<1>1. /\ sock' = [sock EXCEPT ![i].inbox = Tail(@)]
      /\ connections' = [connections EXCEPT ![i].timer_wheel_slot = NewSlot(i)]
      /\ connection_timer_wheel' = Rearmed(i)
      /\ UNCHANGED <<request_timer_wheel, firing, output, status, node_up, awaiting>>
  BY DEF ReadPart
<1>2. Live \subseteq Id /\ i \in Id /\ SlotInv /\ SockInv /\ SlotsInv
  BY DEF IInv, RequestInv, TypeInv, SlotInv
<1>3. /\ DOMAIN connections' = Live
      /\ \A j \in Live \ {i} : connections'[j] = connections[j]
      /\ connections'[i] = [timer_wheel_slot |-> NewSlot(i),
                            serializer |-> connections[i].serializer]
  <2>1. connections' = [connections EXCEPT ![i] =
                          [connections[i] EXCEPT !.timer_wheel_slot = NewSlot(i)]]
    BY <1>1
  <2>2. [connections[i] EXCEPT !.timer_wheel_slot = NewSlot(i)] =
           [timer_wheel_slot |-> NewSlot(i), serializer |-> connections[i].serializer]
    <3>1. connections[i] = [timer_wheel_slot |-> connections[i].timer_wheel_slot,
                            serializer |-> connections[i].serializer]
      BY <1>2 DEF SlotsInv
    <3> QED
      BY <3>1
  <2> QED
    BY <2>1, <2>2 DEF Live
<1>4. RequestInv'
  <2>1. TypeInv' /\ PanicInv'
    BY <1>1, <1>3 DEF IInv, RequestInv, TypeInv, PanicInv, PanicsOnlyWithoutExecutor, Live
  <2>2. AwaitedInv' /\ TimedInv'
    BY <1>1, <1>3 DEF IInv, RequestInv, AwaitedInv, TimedInv, RequestsAreTimed, Live
  <2> QED
    BY <2>1, <2>2 DEF RequestInv
<1>5. SockInv' /\ \A j \in Id : sock'[j].state = sock[j].state
  <2> DEFINE t == Tail(sock[i].inbox)
  <2>1. DOMAIN sock = Id /\ \A j \in Id :
          sock[j] = [state |-> sock[j].state, inbox |-> sock[j].inbox, wire |-> sock[j].wire]
    BY <1>2 DEF SockInv
  <2>2. sock' = [sock EXCEPT ![i] = [sock[i] EXCEPT !.inbox = t]]
    BY <1>1
  <2> HIDE DEF t
  <2>3. [sock[i] EXCEPT !.inbox = t] = [state |-> sock[i].state, inbox |-> t,
                                        wire |-> sock[i].wire]
    BY <2>1, <1>2
  <2>4. DOMAIN sock' = Id /\ \A j \in Id : sock'[j] = IF j = i
          THEN [state |-> sock[i].state, inbox |-> t, wire |-> sock[i].wire] ELSE sock[j]
    BY <2>1, <2>2, <2>3
  <2>5. \A j \in Id : /\ sock'[j].state = sock[j].state
                      /\ sock'[j] = [state |-> sock'[j].state, inbox |-> sock'[j].inbox,
                                     wire |-> sock'[j].wire]
    BY <2>1, <2>4
  <2>6. sock' = [j \in Id |-> sock'[j]]
    BY <2>1, <2>2
  <2> QED
    BY <2>5, <2>6 DEF SockInv
<1>6. /\ Rearmed(i) \in Wheels(Id) /\ NewSlot(i) \in Slot
      /\ IdleTimeout => \A k \in Slot : i \in Rearmed(i).data[k] <=> k = NewSlot(i)
      /\ \A j \in Id \ {i} : \A k \in Slot :
            j \in Rearmed(i).data[k] <=> j \in connection_timer_wheel.data[k]
  BY <1>2, RearmedSlots
<1>7. \A j \in DOMAIN connections' :
        /\ connections'[j].timer_wheel_slot \in Slot
        /\ connections'[j] = [timer_wheel_slot |-> connections'[j].timer_wheel_slot,
                              serializer |-> connections'[j].serializer]
  <2> SUFFICES ASSUME NEW j \in Live
               PROVE  /\ connections'[j].timer_wheel_slot \in Slot
                      /\ connections'[j] =
                            [timer_wheel_slot |-> connections'[j].timer_wheel_slot,
                             serializer |-> connections'[j].serializer]
    BY <1>3
  <2>1. CASE j = i
    BY <2>1, <1>3, <1>6
  <2>2. CASE j # i
    BY <2>2, <1>2, <1>3 DEF SlotsInv
  <2> QED
    BY <2>1, <2>2
<1>8. ASSUME IdleTimeout, NEW j \in DOMAIN connections', NEW k \in Slot
      PROVE  j \in connection_timer_wheel'.data[k] <=> k = connections'[j].timer_wheel_slot
  BY <1>1, <1>2, <1>3, <1>6, <1>8 DEF SlotInv, OneSlotPerConnection
<1>9. SlotInv'
  BY <1>1, <1>2, <1>3, <1>5, <1>6, <1>7, <1>8, SlotStep
<1> QED
  BY <1>4, <1>9 DEF IInv

(* Connections go, alone or with everything in their slot of the wheel.    *)
LEMMA DropIInv ==
    ASSUME IInv, NEW ids, connections' = Without(connections, ids),
           sock' = Closed(sock, ids \cap Live), awaiting' = Awaited(awaiting, ids \cap Live),
           UNCHANGED <<request_timer_wheel, firing, output, status, node_up>>,
           \/ connection_timer_wheel' = connection_timer_wheel
           \/ /\ ids = WheelExpired(connection_timer_wheel)
              /\ connection_timer_wheel' = WheelExpire(connection_timer_wheel)
              /\ IdleTimeout
    PROVE  IInv'
<1> DEFINE w == connection_timer_wheel
<1>1. Live \subseteq Id /\ SlotInv /\ SockInv /\ SlotsInv /\ w \in Wheels(Id)
  BY DEF IInv, RequestInv, TypeInv, SlotInv, SlotsInv
<1>2. DOMAIN connections' = Live \ ids /\ \A j \in Live \ ids : connections'[j] = connections[j]
  BY DEF Without, Live
<1>3. RequestInv'
  BY <1>1, <1>2, RequestsUntouched DEF IInv
<1>4. SockInv' /\ \A j \in Id : sock'[j].state \in {"none", "waiting"} =>
                                 sock[j].state \in {"none", "waiting"}
  <2>1. \A j \in Id : sock[j] = [state |-> sock[j].state, inbox |-> sock[j].inbox,
                                 wire |-> sock[j].wire]
    BY <1>1 DEF SockInv
  <2>2. SockInv' /\ \A j \in Id : sock'[j].state =
                        IF j \in ids \cap Live THEN "closed" ELSE sock[j].state
    BY <1>1, <2>1, ClosedSock
  <2> QED
    BY <2>2
<1>5. /\ WheelExpire(w) \in Wheels(Id)
      /\ \A k \in Slot : WheelExpire(w).data[k] = IF k = w.current_read THEN {} ELSE w.data[k]
  BY <1>1, WheelExpireFields
<1>6. connection_timer_wheel' \in Wheels(Id)
  BY <1>1, <1>5
<1>7. ASSUME IdleTimeout, NEW j \in DOMAIN connections', NEW k \in Slot
      PROVE  j \in connection_timer_wheel'.data[k] <=> k = connections'[j].timer_wheel_slot
  <2>1. j \in Live \ ids /\ connections'[j] = connections[j]
        /\ (j \in w.data[k] <=> k = connections[j].timer_wheel_slot)
    BY <1>1, <1>2, <1>7 DEF SlotInv, OneSlotPerConnection
  <2>2. CASE connection_timer_wheel' = w
    BY <2>1, <2>2
  <2>3. CASE ids = WheelExpired(w) /\ connection_timer_wheel' = WheelExpire(w)
    <3>1. j \notin w.data[w.current_read]
      BY <2>1, <2>3 DEF WheelExpired
    <3> QED
      BY <2>1, <2>3, <3>1, <1>5
  <2> QED
    BY <2>2, <2>3
<1>8. \A j \in Id \ Live : \A k \in Slot :
        j \in connection_timer_wheel'.data[k] => j \in w.data[k]
  BY <1>5
<1>9. \A j \in DOMAIN connections' :
        /\ connections'[j].timer_wheel_slot \in Slot
        /\ connections'[j] = [timer_wheel_slot |-> connections'[j].timer_wheel_slot,
                              serializer |-> connections'[j].serializer]
  <2>1. \A j \in Live \ ids :
          /\ connections[j].timer_wheel_slot \in Slot
          /\ connections[j] = [timer_wheel_slot |-> connections[j].timer_wheel_slot,
                               serializer |-> connections[j].serializer]
    BY <1>1 DEF SlotsInv
  <2>2. \A j \in DOMAIN connections' : j \in Live \ ids /\ connections'[j] = connections[j]
    BY <1>2
  <2> HIDE DEF SlotsInv
  <2> QED
    BY <2>1, <2>2
<1>10. SlotInv'
  BY <1>1, <1>2, <1>4, <1>6, <1>7, <1>8, <1>9, SlotStep
<1> QED
  BY <1>3, <1>10 DEF IInv

(* Nothing but the request wheel and the loop over what expired.           *)
LEMMA SlotsUntouched ==
    ASSUME IInv, RequestInv', UNCHANGED <<connections, connection_timer_wheel, sock>>
    PROVE  IInv'
  BY DEF IInv, SlotInv, SlotsInv, SockInv, FreshInv, OneSlotPerConnection, Live

LEMMA FireIInv ==
    ASSUME IInv, NEW c \in firing, Fire(c)
    PROVE  IInv'
<1>1. CASE c = NoConn /\ Ends("panicked")
  <2>1. Loose
    BY <1>1, TcpAssumption DEF IInv, RequestInv, TypeInv, Cid
  <2> QED
    BY <1>1, <2>1, EndsIInv
<1>2. CASE c[1] \in Live /\ Call(c[1], "tick", awaiting \ {c}, firing \ {c})
  <2> DEFINE i == c[1]
             was == awaiting \ {c}
             left == firing \ {c}
  <2>1. /\ i \in Live /\ was \subseteq awaiting /\ left \subseteq firing
        /\ \A d \in was : d \in firing => d \in left
        /\ Call(i, "tick", was, left)
    BY <1>2
  <2> HIDE DEF i, was, left
  <2> QED
    BY <2>1, CallIInv
<1>3. CASE /\ c # NoConn /\ c[1] \notin Live
           /\ firing' = firing \ {c}
           /\ UNCHANGED <<connections, connection_timer_wheel, request_timer_wheel,
                          output, status, node_up, sock, awaiting, budget>>
  <2>1. c \notin awaiting
    BY <1>3 DEF IInv, RequestInv, AwaitedInv
  <2>2. TypeInv' /\ AwaitedInv' /\ PanicInv'
    BY <1>3 DEF IInv, RequestInv, TypeInv, AwaitedInv, PanicInv, PanicsOnlyWithoutExecutor, Live
  <2>3. TimedInv'
    BY <1>3, <2>1 DEF IInv, RequestInv, TimedInv, RequestsAreTimed
  <2> QED
    BY <1>3, <2>2, <2>3, SlotsUntouched DEF RequestInv
<1> QED
  BY <1>1, <1>2, <1>3 DEF Fire

LEMMA EnvelopeIInv ==
    ASSUME IInv, NEW c \in Cid \cup {NoCid}, handle_envelope(c)
    PROVE  IInv'
<1>1. CASE c = NoConn /\ Ends("panicked")
  <2>1. Loose
    BY <1>1, TcpAssumption DEF Cid
  <2> QED
    BY <1>1, <2>1, EndsIInv
<1>2. CASE c[1] \in Live /\ Call(c[1], "envelope", awaiting, {})
  <2> DEFINE i == c[1]
  <2>1. i \in Live /\ Call(i, "envelope", awaiting, {}) /\ firing = {}
    BY <1>2 DEF handle_envelope, Idle
  <2> HIDE DEF i
  <2> QED
    BY <2>1, CallIInv
<1>3. CASE UNCHANGED vars
  BY <1>3 DEF vars, IInv, RequestInv, TypeInv, AwaitedInv, TimedInv, RequestsAreTimed, PanicInv,
              PanicsOnlyWithoutExecutor, SlotInv, SlotsInv, SockInv, FreshInv,
              OneSlotPerConnection, Live
<1> QED
  BY <1>1, <1>2, <1>3 DEF handle_envelope

(* What clients do to their sockets makes none of them new.                *)
LEMMA ClientIInv ==
    ASSUME IInv, NEW i \in Id,
           \/ ClientConnects(i) \/ ClientReads(i) \/ ClientGoes(i)
           \/ \E chunk \in Chunk : ClientSends(i, chunk)
    PROVE  IInv'
<1>1. /\ UNCHANGED <<connections, connection_timer_wheel, request_timer_wheel, firing,
                     output, status, node_up, awaiting>>
      /\ \/ sock[i].state = "none" /\ sock' = [sock EXCEPT ![i].state = "waiting"]
         \/ sock' = [sock EXCEPT ![i].state = "gone"]
         \/ sock' = [sock EXCEPT ![i].wire = Tail(@)]
         \/ \E chunk \in Chunk : sock' = [sock EXCEPT ![i].inbox = Append(@, chunk)]
  BY DEF ClientConnects, ClientReads, ClientGoes, ClientSends
<1>2. PICK st, in, w :
        /\ sock' = [sock EXCEPT ![i] = [state |-> st, inbox |-> in, wire |-> w]]
        /\ st \in {"none", "waiting"} => sock[i].state \in {"none", "waiting"}
  <2> DEFINE r == sock[i]
  <2>1. r = [state |-> r.state, inbox |-> r.inbox, wire |-> r.wire]
    BY DEF IInv, SlotInv, SockInv
  <2>2. CASE r.state = "none" /\ sock' = [sock EXCEPT ![i].state = "waiting"]
    <3>1. sock' = [sock EXCEPT ![i] = [r EXCEPT !.state = "waiting"]]
      BY <2>2
    <3> HIDE DEF r
    <3>2. [r EXCEPT !.state = "waiting"] = [state |-> "waiting", inbox |-> r.inbox,
                                            wire |-> r.wire]
      BY <2>1
    <3>3. sock' = [sock EXCEPT ![i] = [state |-> "waiting", inbox |-> r.inbox,
                                       wire |-> r.wire]]
      BY <3>1, <3>2
    <3> WITNESS "waiting", r.inbox, r.wire
    <3> QED
      BY <2>2, <3>3 DEF r
  <2>3. CASE sock' = [sock EXCEPT ![i].state = "gone"]
    <3>1. sock' = [sock EXCEPT ![i] = [r EXCEPT !.state = "gone"]]
      BY <2>3
    <3> HIDE DEF r
    <3>2. [r EXCEPT !.state = "gone"] = [state |-> "gone", inbox |-> r.inbox, wire |-> r.wire]
      BY <2>1
    <3>3. sock' = [sock EXCEPT ![i] = [state |-> "gone", inbox |-> r.inbox, wire |-> r.wire]]
      BY <3>1, <3>2
    <3> WITNESS "gone", r.inbox, r.wire
    <3> QED
      BY <3>3
  <2>4. CASE sock' = [sock EXCEPT ![i].wire = Tail(@)]
    <3> DEFINE t == Tail(r.wire)
    <3>1. sock' = [sock EXCEPT ![i] = [r EXCEPT !.wire = t]]
      BY <2>4
    <3> HIDE DEF r, t
    <3>2. [r EXCEPT !.wire = t] = [state |-> r.state, inbox |-> r.inbox, wire |-> t]
      BY <2>1
    <3>3. sock' = [sock EXCEPT ![i] = [state |-> r.state, inbox |-> r.inbox, wire |-> t]]
      BY <3>1, <3>2
    <3> WITNESS r.state, r.inbox, t
    <3> QED
      BY <3>3 DEF r
  <2>5. ASSUME NEW chunk, sock' = [sock EXCEPT ![i].inbox = Append(@, chunk)]
        PROVE  \E st, in, w :
                 /\ sock' = [sock EXCEPT ![i] = [state |-> st, inbox |-> in, wire |-> w]]
                 /\ st \in {"none", "waiting"} => r.state \in {"none", "waiting"}
    <3> DEFINE t == Append(r.inbox, chunk)
    <3>1. sock' = [sock EXCEPT ![i] = [r EXCEPT !.inbox = t]]
      BY <2>5
    <3> HIDE DEF r, t
    <3>2. [r EXCEPT !.inbox = t] = [state |-> r.state, inbox |-> t, wire |-> r.wire]
      BY <2>1
    <3> QED
      BY <3>1, <3>2
  <2> QED
    BY <1>1, <2>2, <2>3, <2>4, <2>5
<1>3. DOMAIN sock = Id /\ \A j \in Id :
        sock[j] = [state |-> sock[j].state, inbox |-> sock[j].inbox, wire |-> sock[j].wire]
  BY DEF IInv, SlotInv, SockInv
<1>4. /\ sock' = [j \in Id |-> sock'[j]]
      /\ \A j \in Id : sock'[j] = IF j = i THEN [state |-> st, inbox |-> in, wire |-> w]
                                            ELSE sock[j]
  BY <1>2, <1>3
<1>5. SockInv'
  BY <1>3, <1>4 DEF SockInv
<1>6. FreshInv'
  BY <1>1, <1>2, <1>4 DEF IInv, SlotInv, FreshInv, Live
<1>7. SlotInv'
  BY <1>1, <1>5, <1>6 DEF IInv, SlotInv, SlotsInv, OneSlotPerConnection, Live
<1>8. RequestInv'
  BY <1>1 DEF IInv, RequestInv, TypeInv, AwaitedInv, TimedInv, RequestsAreTimed, PanicInv,
              PanicsOnlyWithoutExecutor, Live
<1> QED
  BY <1>7, <1>8 DEF IInv

LEMMA InitIInv == Init => IInv
<1> SUFFICES ASSUME Init PROVE IInv
  OBVIOUS
<1>1. Live = {} /\ firing = {} /\ output = <<>> /\ awaiting = {} /\ status = "running"
      /\ connection_timer_wheel = WheelNew /\ request_timer_wheel = WheelNew
      /\ sock = [i \in Id |-> [state |-> "none", inbox |-> <<>>, wire |-> <<>>]]
  BY DEF Init, Live
<1>2. WheelNew \in Wheels(Cid) /\ WheelNew \in Wheels(Id)
      /\ \A k \in Slot : WheelNew.data[k] = {}
  BY WheelNewType DEF WheelNew
<1>3. RequestInv
  BY <1>1, <1>2 DEF RequestInv, TypeInv, AwaitedInv, TimedInv, RequestsAreTimed, PanicInv,
                    PanicsOnlyWithoutExecutor
<1>4. SlotsInv /\ SockInv /\ FreshInv /\ OneSlotPerConnection
  BY <1>1, <1>2 DEF SlotsInv, SockInv, FreshInv, OneSlotPerConnection
<1> QED
  BY <1>3, <1>4 DEF IInv, SlotInv

LEMMA NextIInv == IInv /\ [Next]_vars => IInv'
<1> SUFFICES ASSUME IInv, [Next]_vars PROVE IInv'
  OBVIOUS
<1>1. CASE Accept
  BY <1>1, AcceptIInv DEF Accept
<1>2. CASE connection_tick
  <2> DEFINE ids == WheelExpired(connection_timer_wheel)
  <2>1. /\ connections' = Without(connections, ids)
        /\ sock' = Closed(sock, ids \cap Live)
        /\ awaiting' = Awaited(awaiting, ids \cap Live)
        /\ UNCHANGED <<request_timer_wheel, firing, output, status, node_up>>
        /\ connection_timer_wheel' = WheelExpire(connection_timer_wheel)
        /\ IdleTimeout
    BY <1>2 DEF connection_tick
  <2> QED
    BY <2>1, DropIInv
<1>3. CASE request_tick
  <2>1. RequestInv'
    BY <1>3, TickRequests DEF IInv
  <2> QED
    BY <1>3, <2>1, SlotsUntouched DEF request_tick
<1>4. CASE Shutdown
  BY <1>4, EndsIInv DEF Shutdown
<1>5. CASE ExecutorEnds
  BY <1>5 DEF ExecutorEnds, IInv, RequestInv, TypeInv, AwaitedInv, TimedInv, RequestsAreTimed,
              PanicInv, PanicsOnlyWithoutExecutor, SlotInv, SlotsInv, SockInv, FreshInv,
              OneSlotPerConnection, Live
<1>6. ASSUME NEW i \in Id, ReadMessage(i)
      PROVE  IInv'
  <2>1. i \in Live /\ firing = {} /\ Call(i, "read", awaiting, {})
    BY <1>6 DEF ReadMessage, Idle
  <2> QED
    BY <2>1, CallIInv
<1>7. ASSUME NEW i \in Id, ReadPart(i)
      PROVE  IInv'
  BY <1>7, ReadPartIInv DEF ReadPart
<1>8. ASSUME NEW i \in Id, ReadError(i)
      PROVE  IInv'
  <2>1. /\ i \in Live /\ connections' = Without(connections, {i}) /\ sock' = Closed(sock, {i})
        /\ awaiting' = Awaited(awaiting, {i})
        /\ UNCHANGED <<connection_timer_wheel, request_timer_wheel, firing, output, status,
                       node_up>>
    BY <1>8 DEF ReadError
  <2>2. {i} \cap Live = {i}
    BY <2>1
  <2> QED
    BY <2>1, <2>2, DropIInv
<1>9. ASSUME NEW i \in Id,
             \/ ClientConnects(i) \/ ClientReads(i) \/ ClientGoes(i)
             \/ \E chunk \in Chunk : ClientSends(i, chunk)
      PROVE  IInv'
  BY <1>9, ClientIInv
<1>10. ASSUME NEW c \in firing, Fire(c)
       PROVE  IInv'
  BY <1>10, FireIInv
<1>11. ASSUME NEW c \in Cid \cup {NoCid}, handle_envelope(c)
       PROVE  IInv'
  BY <1>11, EnvelopeIInv
<1>12. CASE UNCHANGED vars
  BY <1>12 DEF vars, IInv, RequestInv, TypeInv, AwaitedInv, TimedInv, RequestsAreTimed, PanicInv,
               PanicsOnlyWithoutExecutor, SlotInv, SlotsInv, SockInv, FreshInv,
               OneSlotPerConnection, Live
<1> QED
  BY <1>1, <1>2, <1>3, <1>4, <1>5, <1>6, <1>7, <1>8, <1>9, <1>10, <1>11, <1>12 DEF Next, Read

(* IInv is an invariant: whatever a handler of TcpServerHandler does, and    *)
(* wherever it returns early, the connections, the slots they remember and   *)
(* the two wheels stay in step.                                              *)
THEOREM Invariance == Spec => []IInv
<1> QED
  BY InitIInv, NextIInv, PTL DEF Spec

(* A request that was sent is in the wheel or about to be fired until the  *)
(* handler is told or its connection goes, if the output of request_tick   *)
(* can be written: handle_connection_msgs and request_tick lose no timer.  *)
THEOREM RequestTimersAreKept ==
    ASSUME "tick" \notin Failing
    PROVE  Spec => []RequestsAreTimed
<1>1. IInv => RequestsAreTimed
  BY DEF IInv, RequestInv, TimedInv
<1> QED
  BY <1>1, Invariance, PTL

(* A connection is in the slot of the wheel it remembers and in no other:  *)
(* update_connection_timeout leaves no timer behind that would drop it.    *)
THEOREM ConnectionsHaveOneSlot == Spec => []OneSlotPerConnection
<1>1. IInv => OneSlotPerConnection
  BY DEF IInv, SlotInv
<1> QED
  BY <1>1, Invariance, PTL

(* No reply, time-out or end of a connection panics the service thread, if *)
(* handlers name a connection in every CorrelationId.                      *)
THEOREM NoPanicUnderExecutor ==
    ASSUME ~Loose
    PROVE  Spec => []PanicsOnlyWithoutExecutor
<1>1. IInv => PanicsOnlyWithoutExecutor
  BY DEF IInv, RequestInv, PanicInv
<1> QED
  BY <1>1, Invariance, PTL

-----------------------------------------------------------------------------
(* Connection timers.  With a connection timeout every step arms some of   *)
(* them, makes all of them one tick older, or is the last of the thread.   *)

ArmsSlots ==
    /\ connection_timer_wheel'.current_read = connection_timer_wheel.current_read
    /\ connection_timer_wheel'.current_write = connection_timer_wheel.current_write
    /\ \A j \in DOMAIN connections' :
          \/ /\ j \in Live
             /\ connections'[j].timer_wheel_slot = connections[j].timer_wheel_slot
          \/ connections'[j].timer_wheel_slot = connection_timer_wheel.current_write

AgesSlots ==
    /\ connection_timer_wheel'.current_read = (connection_timer_wheel.current_read + 1) % Size
    /\ connection_timer_wheel'.current_write = (connection_timer_wheel.current_write + 1) % Size
    /\ \A j \in DOMAIN connections' :
          /\ j \in Live
          /\ connections'[j].timer_wheel_slot = connections[j].timer_wheel_slot
          /\ connections[j].timer_wheel_slot # connection_timer_wheel.current_read

EndsSlots == DOMAIN connections' = {} /\ connection_timer_wheel' = WheelNew

SlotsStep == ArmsSlots \/ AgesSlots \/ EndsSlots

LEMMA EndsTimers == ASSUME NEW how, Ends(how) PROVE SlotsStep
  BY DEF Ends, Without, Live, SlotsStep, EndsSlots

LEMMA RearmedPointers ==
    ASSUME IInv, IdleTimeout, NEW i \in Live
    PROVE  /\ Rearmed(i).current_read = connection_timer_wheel.current_read
           /\ Rearmed(i).current_write = connection_timer_wheel.current_write
           /\ NewSlot(i) = connection_timer_wheel.current_write
<1> DEFINE w == connection_timer_wheel
           slot == [j \in {i} |-> connections[i].timer_wheel_slot]
           ids == {i}
<1>1. w \in Wheels(Id) /\ ids \subseteq Id
  BY DEF IInv, RequestInv, TypeInv, SlotInv, SlotsInv
<1>2. Rearmed(i) = WheelInsert(WheelRemove(w, slot), ids) /\ NewSlot(i) = w.current_write
  BY DEF Rearmed, NewSlot, update_connection_timeout
<1> DEFINE v == WheelRemove(w, slot)
<1> HIDE DEF w, slot, ids
<1>3. /\ v \in Wheels(Id) /\ v.current_read = w.current_read
      /\ v.current_write = w.current_write
  BY <1>1, WheelRemoveFields
<1> HIDE DEF v
<1>4. /\ WheelInsert(v, ids).current_read = v.current_read
      /\ WheelInsert(v, ids).current_write = v.current_write
  BY <1>1, <1>3, WheelInsertFields
<1> QED
  BY <1>2, <1>3, <1>4 DEF w, v

(* A call re-arms the timer of its connection, or none.                    *)
LEMMA CallTimers ==
    ASSUME IInv, IdleTimeout, NEW i \in Live, NEW place, NEW was, NEW left,
           Call(i, place, was, left)
    PROVE  SlotsStep
<1>1. ASSUME NEW out, NEW o, Handled(i, place, was, left, out, o)
      PROVE  SlotsStep
  <2> DEFINE dead == IF o.failed /\ place = "read" THEN {i} ELSE {}
             reset == place = "read" /\ ~o.failed
             slot == IF reset THEN NewSlot(i) ELSE connections[i].timer_wheel_slot
             conn == [timer_wheel_slot |-> slot, serializer |-> write_msgs(i, o.done).serializer]
  <2>1. /\ connection_timer_wheel' = IF reset THEN Rearmed(i) ELSE connection_timer_wheel
        /\ connections' = Without([connections EXCEPT ![i] = conn], dead)
    BY <1>1 DEF Handled
  <2>2. conn.timer_wheel_slot = slot
    OBVIOUS
  <2> HIDE DEF conn
  <2>3. \A j \in DOMAIN connections' :
          j \in Live /\ connections'[j] = IF j = i THEN conn ELSE connections[j]
    BY <2>1 DEF Without, Live
  <2> QED
    BY <2>1, <2>2, <2>3, RearmedPointers DEF SlotsStep, ArmsSlots
<1>2. ASSUME NEW how, Ends(how)
      PROVE  SlotsStep
  BY <1>2, EndsTimers
<1> QED
  BY <1>1, <1>2 DEF Call

(* Connections go, and the others keep their slots.                        *)
LEMMA DropTimers ==
    ASSUME IInv, NEW ids, connections' = Without(connections, ids),
           UNCHANGED connection_timer_wheel
    PROVE  SlotsStep
  BY DEF Without, Live, SlotsStep, ArmsSlots

(* The connections that connection_tick leaves are not in the slot it      *)
(* empties.                                                                *)
LEMMA TickAgesSlots ==
    ASSUME IInv, IdleTimeout, connection_tick
    PROVE  AgesSlots
<1> DEFINE w == connection_timer_wheel
<1>0. w \in Wheels(Id)
  BY DEF IInv, SlotInv, SlotsInv
<1>1. /\ connections' = Without(connections, w.data[w.current_read])
      /\ connection_timer_wheel' = WheelExpire(w)
  BY DEF connection_tick, WheelExpired
<1>2. /\ WheelExpire(w).current_read = (w.current_read + 1) % Size
      /\ WheelExpire(w).current_write = (w.current_write + 1) % Size
  BY <1>0, WheelExpireFields
<1>3. w.current_read \in Slot
  BY <1>0 DEF Wheels
<1>4. \A j \in DOMAIN connections' :
        /\ j \in Live /\ connections'[j] = connections[j]
        /\ j \notin w.data[w.current_read]
  BY <1>1 DEF Without, Live
<1>5. \A j \in Live : connections[j].timer_wheel_slot = w.current_read =>
                        j \in w.data[w.current_read]
  BY <1>3 DEF IInv, SlotInv, OneSlotPerConnection
<1> QED
  BY <1>1, <1>2, <1>4, <1>5 DEF AgesSlots

LEMMA NextTimers ==
    ASSUME IInv, IdleTimeout, [Next]_vars
    PROVE  SlotsStep
<1> DEFINE w == connection_timer_wheel
<1>0. w \in Wheels(Id)
  BY DEF IInv, SlotInv, SlotsInv
<1>1. ASSUME NEW ids, NEW lost, accept_connections(ids, lost)
      PROVE  SlotsStep
  <2>1. ids \subseteq Id
    BY <1>1 DEF accept_connections, Backlog
  <2>2. connection_timer_wheel' = WheelInsert(w, ids)
    BY <1>1 DEF accept_connections, new_connection
  <2> DEFINE new == [timer_wheel_slot |-> w.current_write, serializer |-> FrameWriterNew]
  <2>3. connections' = [j \in Live \cup ids |-> IF j \in ids THEN new ELSE connections[j]]
    BY <1>1 DEF accept_connections, new_connection
  <2>4. new.timer_wheel_slot = w.current_write
    OBVIOUS
  <2> HIDE DEF w, new
  <2>5. /\ WheelInsert(w, ids).current_read = w.current_read
        /\ WheelInsert(w, ids).current_write = w.current_write
    BY <1>0, <2>1, WheelInsertFields
  <2>6. \A j \in DOMAIN connections' :
          \/ j \in Live /\ connections'[j] = connections[j]
          \/ connections'[j] = new
    BY <2>3
  <2> QED
    BY <2>2, <2>4, <2>5, <2>6 DEF SlotsStep, ArmsSlots, w
<1>2. CASE connection_tick
  BY <1>2, TickAgesSlots DEF SlotsStep
<1>3. CASE UNCHANGED <<connections, connection_timer_wheel>>
  BY <1>3 DEF SlotsStep, ArmsSlots, Live
<1>4. CASE request_tick \/ ExecutorEnds \/ UNCHANGED vars
  BY <1>3, <1>4 DEF request_tick, ExecutorEnds, vars
<1>5. CASE Shutdown
  BY <1>5, EndsTimers DEF Shutdown
<1>6. ASSUME NEW i \in Id, ReadMessage(i)
      PROVE  SlotsStep
  BY <1>6, CallTimers DEF ReadMessage
<1>7. ASSUME NEW i \in Id, ReadPart(i)
      PROVE  SlotsStep
  <2> DEFINE r == connections[i]
             new == NewSlot(i)
             conn == [r EXCEPT !.timer_wheel_slot = new]
  <2>1. /\ i \in Live /\ connection_timer_wheel' = Rearmed(i)
        /\ connections' = [connections EXCEPT ![i] = conn]
    BY <1>7 DEF ReadPart
  <2>2. conn.timer_wheel_slot = new
    <3>1. r = [timer_wheel_slot |-> r.timer_wheel_slot, serializer |-> r.serializer]
      BY <2>1 DEF IInv, SlotInv, SlotsInv
    <3> HIDE DEF r, new
    <3> QED
      BY <3>1
  <2> HIDE DEF conn
  <2>3. \A j \in DOMAIN connections' :
          j \in Live /\ connections'[j] = IF j = i THEN conn ELSE connections[j]
    BY <2>1 DEF Live
  <2> QED
    BY <2>1, <2>2, <2>3, RearmedPointers DEF SlotsStep, ArmsSlots
<1>8. ASSUME NEW i \in Id, ReadError(i)
      PROVE  SlotsStep
  BY <1>8, DropTimers DEF ReadError
<1>9. ASSUME NEW i \in Id,
             \/ ClientConnects(i) \/ ClientReads(i) \/ ClientGoes(i)
             \/ \E chunk \in Chunk : ClientSends(i, chunk)
      PROVE  SlotsStep
  BY <1>3, <1>9 DEF ClientConnects, ClientReads, ClientGoes, ClientSends
<1>10. ASSUME NEW c \in firing, Fire(c)
       PROVE  SlotsStep
  BY <1>3, <1>10, CallTimers, EndsTimers DEF Fire
<1>11. ASSUME NEW c \in Cid \cup {NoCid}, handle_envelope(c)
       PROVE  SlotsStep
  BY <1>3, <1>11, CallTimers, EndsTimers DEF handle_envelope, vars
<1> QED
  BY <1>1, <1>2, <1>4, <1>5, <1>6, <1>7, <1>8, <1>9, <1>10, <1>11 DEF Next, Accept, Read

TimersInv == IInv /\ (IdleTimeout => Adjacent(connection_timer_wheel))

(* The write pointer stays one slot behind the read pointer.               *)
LEMMA TimersInvariance == Spec => []TimersInv
<1>1. Init => Adjacent(connection_timer_wheel)
  BY WheelNewAdjacent DEF Init
<1>2. TimersInv /\ [Next]_vars => (IdleTimeout => Adjacent(connection_timer_wheel)')
  <2> SUFFICES ASSUME TimersInv, [Next]_vars, IdleTimeout
               PROVE  Adjacent(connection_timer_wheel')
    BY DEF Adjacent
  <2>1. SlotsStep /\ Adjacent(connection_timer_wheel)
    BY NextTimers DEF TimersInv
  <2> QED
    BY <2>1, WheelNewAdjacent DEF SlotsStep, ArmsSlots, AgesSlots, EndsSlots, Adjacent
<1>3. TimersInv /\ IInv' /\ [Next]_vars => TimersInv'
  BY <1>2 DEF TimersInv
<1>4. Init => TimersInv
  BY <1>1, InitIInv DEF TimersInv
<1> QED
  BY <1>3, <1>4, Invariance, PTL DEF Spec

(* Where the slots age, every connection left has one tick less.           *)
LEMMA AgesTick ==
    ASSUME TimersInv, IInv', IdleTimeout, AgesSlots
    PROVE  ConnectionTimeouts!Tick
<1> DEFINE w == connection_timer_wheel
           v == connection_timer_wheel'
           a == [j \in Live |-> TicksLeft(w, connections[j].timer_wheel_slot)]
           b == [j \in DOMAIN connections' |-> TicksLeft(v, connections'[j].timer_wheel_slot)]
<1>1. w \in Wheels(Id) /\ v \in Wheels(Id)
  BY DEF TimersInv, IInv, SlotInv, SlotsInv
<1>2. \A j \in Live : connections[j].timer_wheel_slot \in Slot
  BY DEF TimersInv, IInv, SlotInv, SlotsInv
<1>3. v.current_read = (w.current_read + 1) % Size
  BY DEF AgesSlots
<1>4. \A j \in DOMAIN connections' :
        /\ j \in Live /\ connections'[j].timer_wheel_slot = connections[j].timer_wheel_slot
        /\ connections[j].timer_wheel_slot # w.current_read
  BY DEF AgesSlots
<1>5. a = TicksLeftOf /\ b = TicksLeftOf'
  BY DEF TicksLeftOf, Live
<1> HIDE DEF w, v
<1>6. \A k \in Slot : k # w.current_read =>
         TicksLeft(w, k) > 1 /\ TicksLeft(v, k) = TicksLeft(w, k) - 1
  BY <1>1, <1>3, TicksLeftTick
<1>7. \A j \in DOMAIN b : j \in DOMAIN a /\ a[j] > 1 /\ b[j] = a[j] - 1
  BY <1>2, <1>4, <1>6
<1> HIDE DEF a, b
<1> QED
  BY <1>5, <1>7 DEF ConnectionTimeouts!Tick

LEMMA KeepAliveStep ==
    ASSUME TimersInv, IInv', IdleTimeout, [Next]_vars
    PROVE  ConnectionTimeouts!Next
<1> DEFINE w == connection_timer_wheel
           v == connection_timer_wheel'
           a == [j \in Live |-> TicksLeft(w, connections[j].timer_wheel_slot)]
           b == [j \in DOMAIN connections' |-> TicksLeft(v, connections'[j].timer_wheel_slot)]
           Armed == \A j \in DOMAIN b : b[j] = Size \/ (j \in DOMAIN a /\ b[j] = a[j])
<1>1. /\ SlotsStep /\ w \in Wheels(Id) /\ v \in Wheels(Id)
      /\ DOMAIN connections' \subseteq Id
  BY NextTimers DEF TimersInv, IInv, RequestInv, TypeInv, SlotInv, SlotsInv, Live
<1>2. Adjacent(w)
  BY DEF TimersInv
<1>3. \A j \in Live : connections[j].timer_wheel_slot \in Slot
  BY DEF TimersInv, IInv, SlotInv, SlotsInv
<1>4. ASSUME ArmsSlots
      PROVE  Armed
  <2>1. v.current_read = w.current_read /\ v.current_write = w.current_write
    BY <1>4 DEF ArmsSlots
  <2>2. \A j \in DOMAIN connections' :
          \/ j \in Live /\ connections'[j].timer_wheel_slot = connections[j].timer_wheel_slot
          \/ connections'[j].timer_wheel_slot = w.current_write
    BY <1>4 DEF ArmsSlots
  <2> HIDE DEF w, v
  <2>3. TicksLeft(w, w.current_write) = Size
    BY <1>1, <1>2, TicksLeftArmed
  <2>4. \A k : TicksLeft(v, k) = TicksLeft(w, k)
    BY <2>1 DEF TicksLeft
  <2> QED
    BY <2>2, <2>3, <2>4
<1>5. ASSUME AgesSlots
      PROVE  ConnectionTimeouts!Tick
  BY <1>5, AgesTick
<1>6. Armed \/ ConnectionTimeouts!Tick
  BY <1>1, <1>4, <1>5 DEF SlotsStep, EndsSlots
<1>7. DOMAIN b \subseteq Id
  BY <1>1
<1> HIDE DEF a, b
<1>8. a = TicksLeftOf /\ b = TicksLeftOf'
  BY DEF a, b, TicksLeftOf, Live
<1> QED
  BY <1>6, <1>7, <1>8 DEF ConnectionTimeouts!Next, ConnectionTimeouts!Touch

(* A handler with a connection timeout implements KeepAlive: a connection  *)
(* has Size ticks when it is accepted or heard, whatever its handler sends *)
(* or answers in between, each connection_tick takes one from it, and it   *)
(* is dropped by the last of them.                                         *)
THEOREM ConnectionsKeepTime ==
    ASSUME IdleTimeout
    PROVE  Spec => ConnectionTimeoutsHold
<1>1. Init => ConnectionTimeouts!Init
  BY DEF Init, ConnectionTimeouts!Init, TicksLeftOf, Live
<1>2. TimersInv /\ IInv' /\ [Next]_vars => [ConnectionTimeouts!Next]_TicksLeftOf
  BY KeepAliveStep
<1>3. TimersInv /\ IInv' /\ [Next]_vars => [connection_tick => ConnectionTimeouts!Tick]_vars
  BY TickAgesSlots, AgesTick DEF TimersInv
<1> QED
  BY <1>1, <1>2, <1>3, Invariance, TimersInvariance, PTL
     DEF Spec, ConnectionTimeoutsHold, ConnectionTimeouts!Spec
=============================================================================
