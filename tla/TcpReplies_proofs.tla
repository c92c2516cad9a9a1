-------------------------- MODULE TcpReplies_proofs --------------------------
(***************************************************************************)
(* For any clients, requests and output of the connection handlers: the    *)
(* replies of a handler are written to its own client, and the state of a  *)
(* TcpServerHandler keeps its types.                                       *)
(*                                                                         *)
(* All connections share one Vec for their output.  That it is empty       *)
(* between two calls is a part of the invariant of TcpServer_proofs; here  *)
(* it makes the frames of a socket and of its writer a list over the one   *)
(* client.                                                                 *)
(***************************************************************************)
EXTENDS TcpServer_proofs, FiniteSetTheorems

-----------------------------------------------------------------------------
(* The replies in a list.                                                  *)

(* The recursion of Replies has a solution, and what it has collected is   *)
(* replies.                                                                *)
Collects(f, out, n) ==
    f = [k \in 0 .. n |->
            IF k = 0 THEN <<>>
            ELSE IF out[k].reply THEN Append(f[k - 1], out[k]) ELSE f[k - 1]]

LEMMA CollectsTo ==
    ASSUME NEW out
    PROVE  \A n \in Nat : \E f : Collects(f, out, n)
<1> DEFINE S == {n \in Nat : \E f : Collects(f, out, n)}
<1>1. 0 \in S
  <2>1. Collects([k \in 0 .. 0 |-> <<>>], out, 0)
    BY DEF Collects
  <2> QED
    BY <2>1
<1>2. ASSUME NEW n \in Nat, n \in S
      PROVE  n + 1 \in S
  <2>1. PICK f : Collects(f, out, n)
    BY <1>2
  <2> DEFINE last == IF out[n + 1].reply THEN Append(f[n], out[n + 1]) ELSE f[n]
             g == [k \in 0 .. n + 1 |-> IF k = n + 1 THEN last ELSE f[k]]
  <2>2. \A k \in 0 .. n : f[k] = IF k = 0 THEN <<>>
                                 ELSE IF out[k].reply THEN Append(f[k - 1], out[k]) ELSE f[k - 1]
    BY <2>1 DEF Collects
  <2> HIDE DEF last
  <2>3. \A k \in 0 .. n : g[k] = f[k] /\ (k # 0 => g[k - 1] = f[k - 1])
    OBVIOUS
  <2>4. g[n + 1] = last /\ g[(n + 1) - 1] = f[n] /\ n + 1 # 0
    OBVIOUS
  <2>5. \A k \in 0 .. n + 1 : k \in 0 .. n \/ k = n + 1
    OBVIOUS
  <2> DEFINE h == [k \in 0 .. n + 1 |->
                      IF k = 0 THEN <<>>
                      ELSE IF out[k].reply THEN Append(g[k - 1], out[k]) ELSE g[k - 1]]
  <2>6. \A k \in 0 .. n + 1 : g[k] = h[k]
    <3> SUFFICES ASSUME NEW k \in 0 .. n + 1
                 PROVE  g[k] = IF k = 0 THEN <<>>
                               ELSE IF out[k].reply THEN Append(g[k - 1], out[k]) ELSE g[k - 1]
      OBVIOUS
    <3> HIDE DEF g
    <3>1. CASE k \in 0 .. n
      BY <2>2, <2>3, <3>1
    <3>2. CASE k = n + 1
      BY <2>4, <3>2 DEF last
    <3> QED
      BY <2>5, <3>1, <3>2
  <2>7. g = [k \in 0 .. n + 1 |-> g[k]] /\ h = [k \in 0 .. n + 1 |-> h[k]]
    OBVIOUS
  <2>8. h = [k \in 0 .. n + 1 |->
                IF k = 0 THEN <<>>
                ELSE IF out[k].reply THEN Append(g[k - 1], out[k]) ELSE g[k - 1]]
    OBVIOUS
  <2> HIDE DEF g, h
  <2>9. g = h
    BY <2>6, <2>7
  <2>10. g = [k \in 0 .. n + 1 |->
                IF k = 0 THEN <<>>
                ELSE IF out[k].reply THEN Append(g[k - 1], out[k]) ELSE g[k - 1]]
    BY <2>8, <2>9, Zenon
  <2>11. Collects(g, out, n + 1)
    BY <2>10, Zenon DEF Collects
  <2> QED
    BY <2>11
<1> HIDE DEF S
<1>3. Nat \subseteq S
  BY <1>1, <1>2, NatSetInduction
<1> QED
  BY <1>3 DEF S

LEMMA RepliesType ==
    ASSUME NEW S, NEW out \in Seq(S)
    PROVE  Replies(out) \in Seq({m \in S : m.reply})
<1> DEFINE N == Len(out)
           M == {m \in S : m.reply}
           T == Seq(M)
           f == CHOOSE g : Collects(g, out, N)
           A == {n \in Nat : n <= N => f[n] \in T}
<1>1. N \in Nat /\ \A k \in 1 .. N : out[k] \in S
  OBVIOUS
<1>2. Replies(out) = f[N]
  BY DEF Replies, Collects
<1>3. Collects(f, out, N)
  <2>1. \E g : Collects(g, out, N)
    BY <1>1, CollectsTo
  <2> QED
    BY <2>1
<1> HIDE DEF f, N
<1>4. \A k \in 0 .. N : f[k] = IF k = 0 THEN <<>>
                               ELSE IF out[k].reply THEN Append(f[k - 1], out[k]) ELSE f[k - 1]
  BY <1>3 DEF Collects
<1>5. 0 \in A
  <2>1. 0 \in 0 .. N
    BY <1>1
  <2>2. f[0] = <<>>
    BY <1>4, <2>1
  <2> HIDE DEF M
  <2>3. <<>> \in T
    OBVIOUS
  <2> QED
    BY <2>2, <2>3
<1>6. ASSUME NEW n \in Nat, n \in A
      PROVE  n + 1 \in A
  <2> SUFFICES ASSUME n + 1 <= N
               PROVE  f[n + 1] \in T
    OBVIOUS
  <2>1. n + 1 \in 0 .. N /\ n + 1 # 0 /\ (n + 1) - 1 = n /\ n + 1 \in 1 .. N
    BY <1>1
  <2>2. f[n + 1] = IF out[n + 1].reply THEN Append(f[n], out[n + 1]) ELSE f[n]
    BY <1>4, <2>1
  <2>3. f[n] \in T
    BY <1>1, <1>6
  <2>4. out[n + 1] \in S
    BY <1>1, <2>1
  <2>5. CASE out[n + 1].reply
    <3>1. out[n + 1] \in M
      BY <2>4, <2>5
    <3> HIDE DEF M
    <3> QED
      BY <2>2, <2>3, <2>5, <3>1
  <2> QED
    BY <2>2, <2>3, <2>5
<1> HIDE DEF A, M
<1>7. N \in A
  BY <1>1, <1>5, <1>6, NatSetInduction
<1> QED
  BY <1>1, <1>2, <1>7 DEF A, M

-----------------------------------------------------------------------------
(* The invariant.                                                          *)

(* A socket carries replies to its client, at most what there is room for. *)
HomeSock(i) == [state : {"none", "waiting", "open", "gone", "closed"},
                inbox : Seq(Chunk), wire : {s \in Seq({i}) : Len(s) <= Room}]

SocksHome == \A i \in Id : sock[i] \in HomeSock(i)

WritersHome == \A i \in Live : connections[i].serializer \in Writers({i})

RestTypes ==
    /\ status \in {"running", "returned", "panicked"} /\ node_up \in BOOLEAN
    /\ budget \in [replies : 0 .. MaxReplies, chunks : 0 .. MaxChunks]

HomeInv == SocksHome /\ WritersHome /\ RestTypes

LEMMA FrameWriteType ==
    ASSUME NEW S, NEW w \in Writers(S), NEW frames \in Seq(S), NEW room \in Nat
    PROVE  /\ FrameWrite(w, frames, room) \in Writers(S)
           /\ Written(w, frames, room) \in Seq(S)
           /\ Len(Written(w, frames, room)) <= room
<1> DEFINE all == w.pending \o frames
           k == Fit(w, frames, room)
<1>1. w.pending \in Seq(S) /\ w.is_writable \in BOOLEAN
  BY DEF Writers
<1>2. /\ all \in Seq(S) /\ Len(all) = Len(w.pending) + Len(frames)
      /\ Len(all) \in Nat
  BY <1>1
<1>3. k \in 0 .. Len(all) /\ k <= room
  BY <1>2 DEF Fit
<1>4. /\ Written(w, frames, room) = SubSeq(all, 1, k)
      /\ FrameWrite(w, frames, room) = [is_writable |-> w.is_writable /\ k = Len(all),
                                        pending |-> SubSeq(all, k + 1, Len(all))]
  BY DEF Written, FrameWrite
<1> HIDE DEF all, k
<1>5. SubSeq(all, 1, k) \in Seq(S) /\ Len(SubSeq(all, 1, k)) = k
  BY <1>2, <1>3
<1>6. SubSeq(all, k + 1, Len(all)) \in Seq(S)
  BY <1>2, <1>3
<1> QED
  BY <1>1, <1>3, <1>4, <1>5, <1>6 DEF Writers

(* What write_msgs does with output of the handler of i.                   *)
LEMMA WriteMsgsHome ==
    ASSUME HomeInv, Live \subseteq Id, NEW i \in Live, NEW msgs \in Seq(Msgs(i))
    PROVE  /\ write_msgs(i, msgs).serializer \in Writers({i})
           /\ write_msgs(i, msgs).wire \in {s \in Seq({i}) : Len(s) <= Room}
<1> DEFINE replies == Replies(msgs)
           frames == [k \in DOMAIN replies |-> replies[k].of]
           room == Room - Len(sock[i].wire)
           w == connections[i].serializer
<1>1. replies \in Seq({m \in Msgs(i) : m.reply})
  BY RepliesType
<1>2. \A m \in {m \in Msgs(i) : m.reply} : m.of = i
  BY DEF Msgs
<1>3. write_msgs(i, msgs) = [serializer |-> FrameWrite(w, frames, room),
                             wire |-> sock[i].wire \o Written(w, frames, room)]
  BY DEF write_msgs
<1>4. frames \in Seq({i})
  <2> DEFINE M == {m \in Msgs(i) : m.reply}
  <2> HIDE DEF M, replies
  <2>1. replies \in Seq(M) /\ \A m \in M : m.of = i
    BY <1>1, <1>2 DEF M
  <2>2. /\ Len(replies) \in Nat /\ DOMAIN replies = 1 .. Len(replies)
        /\ \A k \in 1 .. Len(replies) : replies[k] \in M
    BY <2>1
  <2>3. \A k \in 1 .. Len(replies) : replies[k].of = i
    BY <2>1, <2>2
  <2>4. frames \in [1 .. Len(replies) -> {i}]
    BY <2>2, <2>3
  <2> QED
    BY <2>2, <2>4
<1>5. w \in Writers({i}) /\ sock[i] \in HomeSock(i)
  BY DEF HomeInv, WritersHome, SocksHome
<1>6. sock[i].wire \in Seq({i}) /\ Len(sock[i].wire) <= Room /\ Len(sock[i].wire) \in Nat
  BY <1>5 DEF HomeSock
<1>7. room \in Nat
  BY <1>6, TcpAssumption
<1> HIDE DEF frames, room, w
<1>8. /\ FrameWrite(w, frames, room) \in Writers({i})
      /\ Written(w, frames, room) \in Seq({i})
      /\ Len(Written(w, frames, room)) <= room
  BY <1>4, <1>5, <1>7, FrameWriteType
<1> DEFINE out == Written(w, frames, room)
           wire == sock[i].wire \o out
<1> HIDE DEF out
<1>9. /\ Len(out) <= Room - Len(sock[i].wire) /\ out \in Seq({i})
  BY <1>8 DEF room, out
<1>10. wire \in Seq({i}) /\ Len(wire) = Len(sock[i].wire) + Len(out) /\ Len(out) \in Nat
  BY <1>6, <1>9
<1>11. Len(wire) <= Room
  BY <1>6, <1>9, <1>10, TcpAssumption
<1> QED
  BY <1>3, <1>8, <1>10, <1>11 DEF out

-----------------------------------------------------------------------------
(* The steps.                                                              *)

LEMMA ClosedHome ==
    ASSUME NEW s, NEW ids, \A j \in Id : s[j] \in HomeSock(j), sock' = Closed(s, ids)
    PROVE  SocksHome'
<1> DEFINE t == [state |-> "closed", inbox |-> <<>>, wire |-> <<>>]
<1>1. \A j \in Id : sock'[j] = IF j \in ids THEN t ELSE s[j]
  BY DEF Closed
<1>2. ASSUME NEW j \in Id
      PROVE  t \in HomeSock(j)
  <2>1. <<>> \in Seq(Chunk) /\ <<>> \in Seq({j}) /\ Len(<<>>) <= Room
    BY TcpAssumption
  <2> QED
    BY <2>1 DEF HomeSock
<1> HIDE DEF t
<1>3. \A j \in Id : sock'[j] \in HomeSock(j)
  BY <1>1, <1>2
<1> QED
  BY <1>3 DEF SocksHome, HomeSock

LEMMA EndsHome ==
    ASSUME HomeInv, NEW how \in {"returned", "panicked"}, Ends(how)
    PROVE  HomeInv'
<1>1. SocksHome'
  BY ClosedHome DEF HomeInv, SocksHome, Ends
<1>2. WritersHome'
  BY DEF Ends, Without, Live, WritersHome
<1>3. budget' \in [replies : 0 .. MaxReplies, chunks : 0 .. MaxChunks]
  BY TcpAssumption DEF Ends
<1> QED
  BY <1>1, <1>2, <1>3 DEF HomeInv, RestTypes, Ends

LEMMA HandledHome ==
    ASSUME IInv, HomeInv, NEW i \in Live, NEW place, NEW was, NEW left,
           place = "read" => sock[i].inbox # <<>>,
           NEW out \in Outputs(i), NEW o \in handle_connection_msgs(output \o out, place),
           Handled(i, place, was, left, out, o)
    PROVE  HomeInv'
<1> DEFINE w == write_msgs(i, o.done)
           dead == IF o.failed /\ place = "read" THEN {i} ELSE {}
           reset == place = "read" /\ ~o.failed
           slot == IF reset THEN NewSlot(i) ELSE connections[i].timer_wheel_slot
           conn == [timer_wheel_slot |-> slot, serializer |-> w.serializer]
           s == Answered(i, place, w.wire)
           in == IF place = "read" THEN Tail(sock[i].inbox) ELSE sock[i].inbox
           u == [state |-> sock[i].state, inbox |-> in, wire |-> w.wire]
<1>1. i \in Id /\ Live \subseteq Id /\ output = <<>> /\ SockInv
  BY DEF IInv, RequestInv, TypeInv, SlotInv
<1>2. o.done \in Seq(Msgs(i)) /\ Replied(out) <= budget.replies /\ \E n \in Nat : DOMAIN out = 1 .. n
  BY <1>1, OutputDone
<1>3. w.serializer \in Writers({i}) /\ w.wire \in {x \in Seq({i}) : Len(x) <= Room}
  BY <1>1, <1>2, WriteMsgsHome
<1>4. /\ connections' = Without([connections EXCEPT ![i] = conn], dead)
      /\ sock' = Closed(s, dead)
      /\ budget' = [budget EXCEPT !.replies = @ - Replied(out)]
      /\ UNCHANGED <<status, node_up>>
  BY DEF Handled, Answered
<1>5. conn.serializer = w.serializer
  OBVIOUS
<1>6. \A j \in Id : s[j] = IF j = i THEN u ELSE sock[j]
  BY <1>1, SockWritten
<1> HIDE DEF conn, s, w
<1>7. SocksHome'
  <2>1. sock[i] \in HomeSock(i)
    BY <1>1 DEF HomeInv, SocksHome
  <2>2. in \in Seq(Chunk) /\ sock[i].state \in {"none", "waiting", "open", "gone", "closed"}
    BY <2>1 DEF HomeSock
  <2> HIDE DEF in
  <2>3. u \in HomeSock(i)
    BY <1>3, <2>2 DEF HomeSock
  <2> HIDE DEF u
  <2>4. \A j \in Id : s[j] \in HomeSock(j)
    BY <1>6, <2>3 DEF HomeInv, SocksHome
  <2> QED
    BY <1>4, <2>4, ClosedHome
<1>8. WritersHome'
  <2>1. /\ DOMAIN connections' = Live \ dead
        /\ \A j \in Live \ dead : connections'[j] = IF j = i THEN conn ELSE connections[j]
    BY <1>4 DEF Without, Live
  <2>2. \A j \in DOMAIN connections' : connections'[j].serializer \in Writers({j})
    BY <1>3, <1>5, <2>1 DEF HomeInv, WritersHome
  <2> QED
    BY <2>2 DEF WritersHome, Live
<1>9. RestTypes'
  <2>1. Replied(out) \in Nat
    <3> DEFINE K == {k \in DOMAIN out : out[k].reply}
    <3>1. PICK n \in Nat : DOMAIN out = 1 .. n
      BY <1>2
    <3>2. IsFiniteSet(1 .. n)
      BY <3>1, FS_Interval
    <3>3. IsFiniteSet(K)
      BY <3>1, <3>2, FS_Subset
    <3> QED
      BY <3>3, FS_CardinalityType DEF Replied
  <2>2. budget \in [replies : 0 .. MaxReplies, chunks : 0 .. MaxChunks]
    BY DEF HomeInv, RestTypes
  <2>3. budget.replies - Replied(out) \in 0 .. MaxReplies
    BY <1>2, <2>1, <2>2, TcpAssumption
  <2>4. budget' \in [replies : 0 .. MaxReplies, chunks : 0 .. MaxChunks]
    BY <1>4, <2>2, <2>3
  <2> QED
    BY <1>4, <2>4 DEF HomeInv, RestTypes
<1> QED
  BY <1>7, <1>8, <1>9 DEF HomeInv

LEMMA CallHome ==
    ASSUME IInv, HomeInv, NEW i \in Live, NEW place, NEW was, NEW left,
           place = "read" => sock[i].inbox # <<>>, Call(i, place, was, left)
    PROVE  HomeInv'
  BY EndsHome, HandledHome DEF Call

(* Connections go, or nothing happens to them.                             *)
LEMMA DropHome ==
    ASSUME HomeInv, NEW ids, NEW gone, connections' = Without(connections, ids),
           sock' = Closed(sock, gone), UNCHANGED <<status, node_up, budget>>
    PROVE  HomeInv'
<1>1. SocksHome'
  BY ClosedHome DEF HomeInv, SocksHome
<1>2. WritersHome'
  BY DEF Without, Live, HomeInv, WritersHome
<1> QED
  BY <1>1, <1>2 DEF HomeInv, RestTypes

(* One socket changes, no connection is added and no writer changes.       *)
LEMMA SocketHome ==
    ASSUME HomeInv, SockInv, NEW i \in Id, NEW u \in HomeSock(i), sock' = [sock EXCEPT ![i] = u],
           DOMAIN connections' \subseteq Live,
           \A j \in DOMAIN connections' : connections'[j].serializer = connections[j].serializer,
           RestTypes'
    PROVE  HomeInv'
<1>1. DOMAIN sock = Id
  BY DEF SockInv
<1>2. \A j \in Id : sock'[j] = IF j = i THEN u ELSE sock[j]
  BY <1>1
<1>3. \A j \in Id : sock'[j] \in HomeSock(j)
  BY <1>2 DEF HomeInv, SocksHome
<1>4. SocksHome'
  BY <1>3 DEF SocksHome, HomeSock
<1>5. WritersHome'
  BY DEF HomeInv, WritersHome, Live
<1> QED
  BY <1>4, <1>5 DEF HomeInv

LEMMA AcceptHome ==
    ASSUME IInv, HomeInv, NEW ids \in SUBSET Backlog, NEW lost, accept_connections(ids, lost)
    PROVE  HomeInv'
<1> DEFINE s == [j \in Id |-> IF j \in ids THEN [sock[j] EXCEPT !.state = "open"] ELSE sock[j]]
<1>1. /\ sock' = Closed(s, lost) /\ UNCHANGED <<status, node_up, budget>>
      /\ DOMAIN connections' = Live \cup ids
      /\ \A j \in Live \cup ids :
            connections'[j].serializer = IF j \in ids THEN FrameWriterNew
                                         ELSE connections[j].serializer
  BY DEF accept_connections, new_connection
<1>2. ASSUME NEW j \in Id
      PROVE  s[j] \in HomeSock(j)
  BY DEF HomeInv, SocksHome, HomeSock
<1> HIDE DEF s
<1>3. SocksHome'
  BY <1>1, <1>2, ClosedHome
<1>4. \A j : FrameWriterNew \in Writers({j})
  BY DEF FrameWriterNew, Writers
<1>5. WritersHome'
  BY <1>1, <1>4 DEF HomeInv, WritersHome, Live
<1> QED
  BY <1>1, <1>3, <1>5 DEF HomeInv, RestTypes

LEMMA ReadHome ==
    ASSUME IInv, HomeInv, NEW i \in Id, Read(i)
    PROVE  HomeInv'
<1>1. CASE ReadMessage(i)
  BY <1>1, CallHome DEF ReadMessage
<1>2. CASE ReadPart(i)
  <2> DEFINE u == [state |-> sock[i].state, inbox |-> Tail(sock[i].inbox), wire |-> sock[i].wire]
  <2>1. SockInv /\ sock[i] \in HomeSock(i)
    BY DEF IInv, SlotInv, HomeInv, SocksHome
  <2>2. u \in HomeSock(i)
    BY <1>2, <2>1 DEF ReadPart, HomeSock
  <2>3. sock' = [sock EXCEPT ![i] = u]
    <3> DEFINE r == sock[i]
               x == Tail(r.inbox)
    <3>1. r = [state |-> r.state, inbox |-> r.inbox, wire |-> r.wire]
      BY <2>1 DEF SockInv
    <3>2. sock' = [sock EXCEPT ![i] = [r EXCEPT !.inbox = x]]
      BY <1>2 DEF ReadPart
    <3>3. u = [state |-> r.state, inbox |-> x, wire |-> r.wire]
      OBVIOUS
    <3> HIDE DEF r, x, u
    <3>4. [r EXCEPT !.inbox = x] = u
      BY <3>1, <3>3
    <3> QED
      BY <3>2, <3>4
  <2>4. /\ DOMAIN connections' = Live
        /\ \A j \in Live : connections'[j].serializer = connections[j].serializer
    <3> DEFINE r == connections[i]
               new == NewSlot(i)
               conn == [r EXCEPT !.timer_wheel_slot = new]
    <3>1. i \in Live /\ connections' = [connections EXCEPT ![i] = conn]
      BY <1>2 DEF ReadPart
    <3>2. conn.serializer = r.serializer
      <4>1. r = [timer_wheel_slot |-> r.timer_wheel_slot, serializer |-> r.serializer]
        BY <3>1 DEF IInv, SlotInv, SlotsInv
      <4> HIDE DEF r, new
      <4> QED
        BY <4>1
    <3> HIDE DEF conn
    <3> QED
      BY <3>1, <3>2 DEF Live
  <2> HIDE DEF u
  <2>5. RestTypes'
    BY <1>2 DEF ReadPart, HomeInv, RestTypes
  <2> QED
    BY <2>1, <2>2, <2>3, <2>4, <2>5, SocketHome
<1>3. CASE ReadError(i)
  BY <1>3, DropHome DEF ReadError
<1> QED
  BY <1>1, <1>2, <1>3 DEF Read

LEMMA ClientHome ==
    ASSUME IInv, HomeInv, NEW i \in Id,
           \/ ClientConnects(i) \/ ClientReads(i) \/ ClientGoes(i)
           \/ \E chunk \in Chunk : ClientSends(i, chunk)
    PROVE  HomeInv'
<1> DEFINE r == sock[i]
<1>1. /\ SockInv /\ r \in HomeSock(i) /\ connections' = connections
      /\ r = [state |-> r.state, inbox |-> r.inbox, wire |-> r.wire]
  BY DEF IInv, SlotInv, SockInv, HomeInv, SocksHome,
         ClientConnects, ClientReads, ClientGoes, ClientSends
<1>2. /\ r.inbox \in Seq(Chunk) /\ r.wire \in Seq({i}) /\ Len(r.wire) <= Room
      /\ r.state \in {"none", "waiting", "open", "gone", "closed"}
  BY <1>1 DEF HomeSock
<1>3. RestTypes'
  <2>1. CASE ClientConnects(i) \/ ClientReads(i) \/ ClientGoes(i)
    BY <2>1 DEF HomeInv, RestTypes, ClientConnects, ClientReads, ClientGoes
  <2>2. ASSUME NEW chunk \in Chunk, ClientSends(i, chunk)
        PROVE  RestTypes'
    <3>1. budget \in [replies : 0 .. MaxReplies, chunks : 0 .. MaxChunks] /\ budget.chunks > 0
      BY <2>2 DEF HomeInv, RestTypes, ClientSends
    <3>2. budget.chunks - 1 \in 0 .. MaxChunks
      BY <3>1, TcpAssumption
    <3>3. budget' \in [replies : 0 .. MaxReplies, chunks : 0 .. MaxChunks]
      BY <2>2, <3>1, <3>2 DEF ClientSends
    <3> QED
      BY <2>2, <3>3 DEF HomeInv, RestTypes, ClientSends
  <2> QED
    BY <2>1, <2>2
<1>4. \E u \in HomeSock(i) : sock' = [sock EXCEPT ![i] = u]
  <2>1. CASE ClientConnects(i) \/ ClientGoes(i)
    <3>1. PICK x \in {"waiting", "gone"} : sock' = [sock EXCEPT ![i] = [r EXCEPT !.state = x]]
      BY <2>1 DEF ClientConnects, ClientGoes
    <3>2. [r EXCEPT !.state = x] \in HomeSock(i)
      BY <1>1 DEF HomeSock
    <3> QED
      BY <3>1, <3>2
  <2>2. CASE ClientReads(i)
    <3> DEFINE x == Tail(r.wire)
    <3>1. sock' = [sock EXCEPT ![i] = [r EXCEPT !.wire = x]] /\ r.wire # <<>>
      BY <2>2 DEF ClientReads
    <3>2. x \in Seq({i}) /\ Len(x) <= Room
      BY <1>2, <3>1, TcpAssumption
    <3> HIDE DEF x
    <3>3. [r EXCEPT !.wire = x] \in HomeSock(i)
      BY <1>1, <3>2 DEF HomeSock
    <3> QED
      BY <3>1, <3>3
  <2>3. ASSUME NEW chunk \in Chunk, ClientSends(i, chunk)
        PROVE  \E u \in HomeSock(i) : sock' = [sock EXCEPT ![i] = u]
    <3> DEFINE x == Append(r.inbox, chunk)
    <3>1. sock' = [sock EXCEPT ![i] = [r EXCEPT !.inbox = x]]
      BY <2>3 DEF ClientSends
    <3>2. x \in Seq(Chunk)
      BY <1>2
    <3> HIDE DEF x
    <3>3. [r EXCEPT !.inbox = x] \in HomeSock(i)
      BY <1>1, <3>2 DEF HomeSock
    <3> QED
      BY <3>1, <3>3
  <2> QED
    BY <2>1, <2>2, <2>3
<1> QED
  BY <1>1, <1>3, <1>4, SocketHome DEF Live

LEMMA HomeStep ==
    ASSUME IInv, HomeInv, [Next]_vars
    PROVE  HomeInv'
<1>1. CASE UNCHANGED <<connections, sock, status, budget>> /\ node_up' \in BOOLEAN
  BY <1>1 DEF HomeInv, SocksHome, HomeSock, WritersHome, RestTypes, Live
<1>2. CASE Accept
  BY <1>2, AcceptHome DEF Accept
<1>3. CASE connection_tick
  BY <1>3, DropHome DEF connection_tick
<1>4. CASE request_tick \/ ExecutorEnds \/ UNCHANGED vars
  <2>1. node_up \in BOOLEAN
    BY DEF HomeInv, RestTypes
  <2> QED
    BY <1>1, <1>4, <2>1 DEF request_tick, ExecutorEnds, vars
<1>5. CASE Shutdown
  BY <1>5, EndsHome DEF Shutdown
<1>6. ASSUME NEW c \in firing, Fire(c)
      PROVE  HomeInv'
  <2>1. CASE Ends("panicked")
    BY <2>1, EndsHome
  <2>2. CASE c[1] \in Live /\ Call(c[1], "tick", awaiting \ {c}, firing \ {c})
    BY <2>2, CallHome
  <2>3. CASE UNCHANGED <<connections, sock, status, budget, node_up>>
    BY <1>1, <2>3 DEF HomeInv, RestTypes
  <2> QED
    BY <1>6, <2>1, <2>2, <2>3 DEF Fire
<1>7. ASSUME NEW c, handle_envelope(c)
      PROVE  HomeInv'
  <2>1. CASE Ends("panicked")
    BY <2>1, EndsHome
  <2>2. CASE c[1] \in Live /\ Call(c[1], "envelope", awaiting, {})
    BY <2>2, CallHome
  <2>3. CASE UNCHANGED vars
    BY <1>4, <2>3
  <2> QED
    BY <1>7, <2>1, <2>2, <2>3 DEF handle_envelope
<1> QED
  BY <1>2, <1>3, <1>4, <1>5, <1>6, <1>7, ReadHome, ClientHome DEF Next

LEMMA InitHome == Init => HomeInv
<1> SUFFICES ASSUME Init PROVE HomeInv
  OBVIOUS
<1>1. SocksHome
  BY TcpAssumption DEF Init, SocksHome, HomeSock
<1>2. WritersHome /\ RestTypes
  BY TcpAssumption DEF Init, WritersHome, RestTypes, Live
<1> QED
  BY <1>1, <1>2 DEF HomeInv

LEMMA HomeInvariance == Spec => []HomeInv
<1>1. IInv /\ HomeInv /\ [Next]_vars => HomeInv'
  BY HomeStep
<1> QED
  BY <1>1, InitHome, Invariance, PTL DEF Spec

(* What the handler of a connection has returned is written to its client  *)
(* only, although all connections share one Vec for their output and an    *)
(* error leaves the loop over it half way.                                 *)
THEOREM RepliesGoHome == Spec => []RepliesStayHome
<1>1. HomeInv => RepliesStayHome
  <2> SUFFICES ASSUME HomeInv, NEW i \in Id
               PROVE  /\ \A k \in DOMAIN sock[i].wire : sock[i].wire[k] = i
                      /\ i \in Live => \A k \in DOMAIN connections[i].serializer.pending :
                                          connections[i].serializer.pending[k] = i
    BY DEF RepliesStayHome
  <2>1. sock[i].wire \in Seq({i})
    BY DEF HomeInv, SocksHome, HomeSock
  <2>2. i \in Live => connections[i].serializer.pending \in Seq({i})
    BY DEF HomeInv, WritersHome, Writers
  <2>3. \A s \in Seq({i}) : \A k \in DOMAIN s : s[k] = i
    OBVIOUS
  <2> QED
    BY <2>1, <2>2, <2>3
<1> QED
  BY <1>1, HomeInvariance, PTL

(* The maps, wheels, sockets and frame writers keep their types.           *)
THEOREM TypeCorrectness == Spec => []TypeOK
<1>1. IInv /\ HomeInv => TypeOK
  <2> SUFFICES ASSUME IInv, HomeInv PROVE TypeOK
    OBVIOUS
  <2>1. \A i \in Id : Seq({i}) \subseteq Seq(Id)
    <3> SUFFICES ASSUME NEW i \in Id, NEW s \in Seq({i})
                 PROVE  s \in Seq(Id)
      OBVIOUS
    <3>1. Len(s) \in Nat /\ s \in [1 .. Len(s) -> {i}]
      OBVIOUS
    <3> QED
      BY <3>1
  <2>2. \A i \in Id : sock[i] \in Sock
    BY <2>1 DEF HomeInv, SocksHome, HomeSock, Sock
  <2>3. ASSUME NEW i \in Live
        PROVE  connections[i] \in Connection
    <3>1. i \in Id /\ connections[i].serializer \in Writers({i})
      BY DEF IInv, RequestInv, TypeInv, HomeInv, WritersHome
    <3>2. connections[i].serializer \in Writers(Id)
      BY <2>1, <3>1 DEF Writers
    <3>3. /\ connections[i].timer_wheel_slot \in Slot
          /\ connections[i] = [timer_wheel_slot |-> connections[i].timer_wheel_slot,
                               serializer |-> connections[i].serializer]
      BY DEF IInv, SlotInv, SlotsInv
    <3> QED
      BY <3>2, <3>3 DEF Connection
  <2>4. output \in Seq(Output)
    BY DEF IInv, RequestInv, TypeInv
  <2> QED
    BY <2>2, <2>3, <2>4
       DEF IInv, RequestInv, TypeInv, SlotInv, SlotsInv, HomeInv, RestTypes, TypeOK
<1> QED
  BY <1>1, HomeInvariance, Invariance, PTL
=============================================================================
