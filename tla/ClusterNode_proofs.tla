------------------------- MODULE ClusterNode_proofs -------------------------
(***************************************************************************)
(* The safety properties of ClusterNode, for every number of slots, nodes  *)
(* and sockets, and its connection timers: the cluster server implements   *)
(* KeepAlive, and only reading from a connection re-arms it.               *)
(***************************************************************************)
EXTENDS ClusterNode, ClusterServer_proofs

-----------------------------------------------------------------------------
(* The inductive invariant.  ReadingOK is what Establish needs: a socket   *)
(* is read only after our Members went out on it, and an id that is closed *)
(* while it is read does not come back to life before the read is over.    *)

ReadingOK == reading \in Live(srv) => conns[reading].members_sent

IInv == /\ TypeOK
        /\ Good(Me, srv)
        /\ SingleOK(srv, greeted)
        /\ ReadingOK
        /\ PanicsOnlyWithoutExecutor

LEMMA LiveIds == ASSUME Good(Me, srv) PROVE Live(srv) \subseteq Id
  BY ServerStateFields DEF Good

(* A state transformer that keeps Good and the established connections.    *)
LEMMA BecomesGood ==
    ASSUME NEW s, Good(Me, s), NEW heard, Becomes(s, heard),
           SingleOK(s, (greeted \cup heard) \cap Live(s))
    PROVE  /\ srv' = s
           /\ Good(Me, srv)'
           /\ SingleOK(srv, greeted)'
           /\ srv' \in ServerState /\ srv'.node = Me
           /\ greeted' \subseteq Id
<1>1. srv' = s /\ greeted' = (greeted \cup heard) \cap Live(s)
  BY DEF Becomes
<1>2. s \in ServerState /\ s.node = Me /\ Live(s) \subseteq Id
  BY ServerStateFields DEF Good
<1>3. Good(Me, srv') /\ SingleOK(srv', greeted')
  BY <1>1
<1>4. Good(Me, srv)' /\ SingleOK(srv, greeted)'
  BY <1>3 DEF Good, SingleOK, WheelOK, EstOK, Live
<1> QED
  BY <1>1, <1>2, <1>4

LEMMA ExitGood ==
    ASSUME NEW how, Exit(how)
    PROVE  /\ Good(Me, srv)'
           /\ SingleOK(srv, greeted)'
           /\ srv' \in ServerState /\ srv'.node = Me
           /\ greeted' \subseteq Id
           /\ status' = how /\ errs' = {} /\ reading' = NoId
<1>1. Becomes(ServerNew(Me), {}) /\ status' = how /\ errs' = {} /\ reading' = NoId
  BY DEF Exit
<1>2. SingleOK(ServerNew(Me), (greeted \cup {}) \cap Live(ServerNew(Me)))
  BY ServerNewGood, MeAssumption DEF SingleOK
<1> QED
  BY <1>1, <1>2, ServerNewGood, MeAssumption, BecomesGood

LEMMA CheckGood ==
    ASSUME NEW s, Good(Me, s), NEW all \in SUBSET Node, NEW dial, NEW heard,
           DOMAIN dial \subseteq Id, DOMAIN dial \cap (greeted \cup heard) = {},
           SingleOK(s, (greeted \cup heard) \cap Live(s)),
           Check(s, all, dial, heard)
    PROVE  /\ srv' = check_connections(s, all, dial, dial)
           /\ Checked(s, srv', dial)
           /\ Good(Me, srv)'
           /\ SingleOK(srv, greeted)'
           /\ srv' \in ServerState /\ srv'.node = Me
           /\ greeted' \subseteq Id
           /\ UNCHANGED <<errs, reading, status>>
<1> DEFINE t == check_connections(s, all, dial, dial)
           G == (greeted \cup heard) \cap Live(s)
<1>1. ~CheckPanics(s, all)
  BY DisconnectEstablishedGood DEF CheckPanics
<1>2. Dials(s, all, dial) /\ Becomes(t, heard) /\ UNCHANGED <<errs, reading, status>>
  BY <1>1 DEF Check
<1>3. Good(Me, t) /\ Checked(s, t, dial)
  BY <1>2, CheckConnectionsGood
<1> HIDE DEF t
<1>4. G \cap Live(t) = (greeted \cup heard) \cap Live(t)
  BY <1>3 DEF Checked
<1>5. SingleOK(t, G \cap Live(t))
  BY <1>3 DEF Checked
<1>6. SingleOK(t, (greeted \cup heard) \cap Live(t))
  BY <1>4, <1>5
<1>7. /\ srv' = t
      /\ Good(Me, srv)'
      /\ SingleOK(srv, greeted)'
      /\ srv' \in ServerState /\ srv'.node = Me
      /\ greeted' \subseteq Id
  BY <1>2, <1>3, <1>6, BecomesGood
<1> QED
  BY <1>2, <1>3, <1>7 DEF t

LEMMA DialSetsFacts ==
    ASSUME NEW dial \in DialSets, Good(Me, srv)
    PROVE  /\ DOMAIN dial \subseteq Id \ Live(srv)
           /\ \A i \in DOMAIN dial : dial[i] \in Node
  BY PartialFnChar DEF DialSets

LEMMA InitIInv == Init => IInv
<1> SUFFICES ASSUME Init PROVE IInv
  OBVIOUS
<1>1. Good(Me, srv) /\ Live(srv) = {}
  BY ServerNewGood, MeAssumption DEF Init
<1>2. TypeOK
  BY <1>1, MeAssumption DEF Init, TypeOK, Good
<1> QED
  BY <1>1, <1>2 DEF Init, IInv, SingleOK, ReadingOK, PanicsOnlyWithoutExecutor

(* close on the current state, as the error paths use it.                  *)
LEMMA CloseSrv ==
    ASSUME IInv, NEW ids, Becomes(close(srv, ids), {})
    PROVE  /\ Good(Me, srv)'
           /\ SingleOK(srv, greeted)'
           /\ srv' \in ServerState /\ srv'.node = Me
           /\ greeted' \subseteq Id
<1> DEFINE t == close(srv, ids)
<1>1. Good(Me, t) /\ Shrinks(srv, t)
  BY CloseGood DEF IInv
<1> HIDE DEF t
<1>2. SingleOK(t, greeted \cap Live(t))
  BY <1>1, ShrinksSingle DEF IInv
<1>3. SingleOK(t, (greeted \cup {}) \cap Live(t))
  BY <1>2
<1> QED
  BY <1>1, <1>3, BecomesGood DEF t

(* IInv is back once no socket is being read.                              *)
LEMMA IdleIInv ==
    ASSUME Good(Me, srv)', SingleOK(srv, greeted)', srv' \in ServerState, srv'.node = Me,
           greeted' \subseteq Id, members' \subseteq Node, errs' \subseteq Id,
           reading' = NoId, executor_up' \in BOOLEAN,
           status' \in {"running", "stopped", "panicked"},
           PanicsOnlyWithoutExecutor'
    PROVE  IInv'
<1>1. Live(srv)' \subseteq Id
  BY ServerStateFields DEF Live
<1>2. ReadingOK'
  BY <1>1, MeAssumption DEF ReadingOK
<1>3. TypeOK'
  BY DEF TypeOK
<1> QED
  BY <1>2, <1>3 DEF IInv

LEMMA NotificationIInv ==
    ASSUME IInv, Notification
    PROVE  IInv'
<1> USE DEF IInv
<1>0. /\ TypeOK /\ Good(Me, srv) /\ Live(srv) \subseteq Id
      /\ greeted \subseteq Live(srv) /\ NoId \notin Id
  BY LiveIds, MeAssumption DEF SingleOK
<1>1. ASSUME NEW id \in Id, NEW n \in Node, accept_connection(id, n)
      PROVE  IInv'
  <2> DEFINE sock == [i \in {id} |-> n]
             peer == [i \in {id} |-> NoNode]
             t == init_connection(srv, sock, peer)
  <2>1. /\ DOMAIN sock = {id} /\ DOMAIN sock \subseteq Id \ Live(srv)
        /\ \A i \in DOMAIN sock : sock[i] \in Node /\ peer[i] \in Node \cup {NoNode}
    BY <1>1 DEF accept_connection
  <2>2. /\ Good(Me, t)
        /\ Live(t) = Live(srv) \cup {id}
        /\ \A i \in Live(srv) : t.connections[i] = srv.connections[i]
        /\ t.established = srv.established
    <3> HIDE DEF sock, peer
    <3> QED
      BY <1>0, <2>1, InitConnectionGood
  <2>3. /\ \/ Becomes(send_members(t, id), {}) /\ UNCHANGED errs
           \/ Becomes(t, {}) /\ errs' = errs \cup {id}
        /\ UNCHANGED <<members, reading, executor_up, status>>
        /\ reading = NoId /\ id \notin greeted
    BY <1>0, <1>1 DEF accept_connection, Polling
  <2> HIDE DEF t
  <2>4. SingleOK(t, (greeted \cup {}) \cap Live(t))
    BY <1>0, <2>2 DEF SingleOK
  <2>5. LET u == send_members(t, id)
        IN  Good(Me, u) /\ SingleOK(u, (greeted \cup {}) \cap Live(u))
    <3> DEFINE u == send_members(t, id)
    <3>1. /\ Good(Me, u)
          /\ Live(u) = Live(t)
          /\ \A i \in Live(t) : u.connections[i].sock = t.connections[i].sock
          /\ u.established = t.established
      BY <2>2, SendMembersGood
    <3> HIDE DEF u
    <3>2. SingleOK(u, (greeted \cup {}) \cap Live(u))
      BY <3>1, <2>4 DEF SingleOK
    <3> QED
      BY <3>1, <3>2 DEF u
  <2>6. /\ Good(Me, srv)'
        /\ SingleOK(srv, greeted)'
        /\ srv' \in ServerState /\ srv'.node = Me
        /\ greeted' \subseteq Id
    BY <2>2, <2>3, <2>4, <2>5, BecomesGood
  <2> QED
    BY <1>0, <2>3, <2>6, IdleIInv DEF TypeOK, PanicsOnlyWithoutExecutor
<1>2. ASSUME NEW id \in Id, ReadUnsent(id)
      PROVE  IInv'
  <2> DEFINE u == send_members(srv, id)
  <2>1. /\ Becomes(u, {})
        /\ UNCHANGED <<members, errs, reading, executor_up, status>>
        /\ reading = NoId
    BY <1>2 DEF ReadUnsent, Polling
  <2>2. /\ Good(Me, u)
        /\ Live(u) = Live(srv)
        /\ \A i \in Live(srv) : u.connections[i].sock = srv.connections[i].sock
        /\ u.established = srv.established
    BY <1>0, SendMembersGood
  <2> HIDE DEF u
  <2>3. SingleOK(u, (greeted \cup {}) \cap Live(u))
    BY <2>2 DEF SingleOK
  <2>4. /\ Good(Me, srv)'
        /\ SingleOK(srv, greeted)'
        /\ srv' \in ServerState /\ srv'.node = Me
        /\ greeted' \subseteq Id
    BY <2>1, <2>2, <2>3, BecomesGood
  <2> QED
    BY <1>0, <2>1, <2>4, IdleIInv DEF TypeOK, PanicsOnlyWithoutExecutor
<1>3. ASSUME NEW id \in Id, SocketError(id)
      PROVE  IInv'
  <2>1. /\ UNCHANGED <<members, srv, reading, executor_up, status, greeted>>
        /\ errs' = errs \cup {id}
    BY <1>3 DEF SocketError
  <2>2. Good(Me, srv)' /\ SingleOK(srv, greeted)' /\ ReadingOK'
    BY <2>1 DEF Good, WheelOK, EstOK, SingleOK, ReadingOK, Live, conns
  <2> QED
    BY <2>1, <2>2 DEF TypeOK, PanicsOnlyWithoutExecutor
<1>4. ASSUME NEW id \in Id, BeginRead(id)
      PROVE  IInv'
  <2>1. /\ UNCHANGED <<members, srv, errs, executor_up, status, greeted>>
        /\ reading' = id /\ conns[id].members_sent
    BY <1>4 DEF BeginRead
  <2>2. Good(Me, srv)' /\ SingleOK(srv, greeted)' /\ ReadingOK'
    BY <2>1 DEF Good, WheelOK, EstOK, SingleOK, ReadingOK, Live, conns
  <2> QED
    BY <2>1, <2>2 DEF TypeOK, PanicsOnlyWithoutExecutor
<1>5. ASSUME NEW failed \in SUBSET Live(srv), NEW dial \in DialSets, tick(failed, dial)
      PROVE  IInv'
  <2> DEFINE u == close([srv EXCEPT !.timer_wheel = WheelExpire(@)],
                        WheelExpired(srv.timer_wheel))
  <2>1. /\ Good(Me, u)
        /\ Live(u) \subseteq Live(srv)
        /\ SingleOK(u, greeted \cap Live(u))
    BY <1>0, ExpireGood
  <2>2. /\ \/ /\ Becomes(u, {})
              /\ errs' = errs \cup failed
              /\ UNCHANGED <<reading, status>>
           \/ Check(u, members, dial, {})
        /\ UNCHANGED <<members, executor_up>>
        /\ reading = NoId
    BY <1>5 DEF tick, Polling, wheel
  <2> HIDE DEF u
  <2>3. SingleOK(u, (greeted \cup {}) \cap Live(u))
    BY <2>1
  <2>4. CASE Becomes(u, {}) /\ errs' = errs \cup failed /\ UNCHANGED <<reading, status>>
    <3>1. /\ Good(Me, srv)'
          /\ SingleOK(srv, greeted)'
          /\ srv' \in ServerState /\ srv'.node = Me
          /\ greeted' \subseteq Id
      BY <2>1, <2>3, <2>4, BecomesGood
    <3> QED
      BY <1>0, <2>2, <2>4, <3>1, IdleIInv DEF TypeOK, PanicsOnlyWithoutExecutor
  <2>5. CASE Check(u, members, dial, {})
    <3>1. /\ DOMAIN dial \subseteq Id
          /\ DOMAIN dial \cap (greeted \cup {}) = {}
          /\ members \in SUBSET Node
      BY <1>0, DialSetsFacts DEF TypeOK
    <3>2. /\ Good(Me, srv)'
          /\ SingleOK(srv, greeted)'
          /\ srv' \in ServerState /\ srv'.node = Me
          /\ greeted' \subseteq Id
          /\ UNCHANGED <<errs, reading, status>>
      BY <2>1, <2>3, <2>5, <3>1, CheckGood
    <3> QED
      BY <1>0, <2>2, <3>2, IdleIInv DEF TypeOK, PanicsOnlyWithoutExecutor
  <2> QED
    BY <2>2, <2>4, <2>5
<1>6. CASE tick_executor
  <2>1. Exit("panicked") /\ ~executor_up /\ UNCHANGED <<members, executor_up>>
    BY <1>6 DEF tick_executor
  <2> QED
    BY <1>0, <2>1, ExitGood, IdleIInv DEF TypeOK, PanicsOnlyWithoutExecutor
<1>7. CASE HandleErrors
  <2>1. /\ Becomes(close(srv, errs), {}) /\ errs' = {}
        /\ UNCHANGED <<members, reading, executor_up, status>>
        /\ reading = NoId
    BY <1>7 DEF HandleErrors, Polling
  <2> QED
    BY <1>0, <2>1, CloseSrv, IdleIInv DEF TypeOK, PanicsOnlyWithoutExecutor
<1> QED
  BY <1>1, <1>2, <1>3, <1>4, <1>5, <1>6, <1>7 DEF Notification

LEMMA MessageIInv ==
    ASSUME IInv, Message
    PROVE  IInv'
<1> USE DEF IInv
<1>0. /\ TypeOK /\ Good(Me, srv) /\ Live(srv) \subseteq Id
      /\ greeted \subseteq Live(srv) /\ NoId \notin Id
  BY LiveIds, MeAssumption DEF SingleOK
<1>1. ASSUME NEW all \in SUBSET Node, NEW dial \in DialSets, RecvMembers(all, dial)
      PROVE  IInv'
  <2> DEFINE from == srv.connections[reading].sock
             t == establish_connection(srv, reading, from)
  <2>1. /\ reading \in Live(srv) /\ srv.connections[reading].members_sent
        /\ members' = all /\ executor_up' = executor_up
        /\ Check(t, all, dial, {reading})
        /\ from = srv.connections[reading].sock /\ SingleOK(srv, greeted)
    BY <1>1 DEF RecvMembers, ReadingOK, conns
  <2> HIDE DEF from
  <2>2. /\ Good(Me, t)
        /\ Live(t) \subseteq Live(srv)
        /\ \A i \in Live(t) :
             srv.connections[i].members_sent => t.connections[i].members_sent
        /\ SingleOK(t, (greeted \cup {reading}) \cap Live(t))
    BY <1>0, <2>1, EstablishConnectionGood
  <2>3. /\ DOMAIN dial \subseteq Id
        /\ DOMAIN dial \cap (greeted \cup {reading}) = {}
    BY <1>0, <2>1, DialSetsFacts
  <2> HIDE DEF t
  <2>4. /\ Checked(t, srv', dial)
        /\ Good(Me, srv)'
        /\ SingleOK(srv, greeted)'
        /\ srv' \in ServerState /\ srv'.node = Me
        /\ greeted' \subseteq Id
        /\ UNCHANGED <<errs, reading, status>>
    BY <2>1, <2>2, <2>3, CheckGood
  <2>5. ReadingOK'
    BY <2>1, <2>2, <2>3, <2>4 DEF ReadingOK, Checked, conns, Live
  <2>6. TypeOK' /\ PanicsOnlyWithoutExecutor'
    BY <1>0, <2>1, <2>4 DEF TypeOK, PanicsOnlyWithoutExecutor
  <2> QED
    BY <2>4, <2>5, <2>6
<1>2. CASE RecvPing
  <2> DEFINE t == reset_timer(srv, reading)
  <2>1. Becomes(t, {}) /\ UNCHANGED <<members, errs, reading, executor_up, status>>
    BY <1>2 DEF RecvPing
  <2>2. /\ Good(Me, t)
        /\ Live(t) = Live(srv)
        /\ \A i \in Live(srv) :
             /\ t.connections[i].sock = srv.connections[i].sock
             /\ t.connections[i].members_sent = srv.connections[i].members_sent
        /\ t.established = srv.established
    BY <1>0, ResetTimerGood
  <2> HIDE DEF t
  <2>3. SingleOK(t, (greeted \cup {}) \cap Live(t))
    BY <2>2 DEF SingleOK
  <2>4. /\ srv' = t
        /\ Good(Me, srv)'
        /\ SingleOK(srv, greeted)'
        /\ srv' \in ServerState /\ srv'.node = Me
        /\ greeted' \subseteq Id
    BY <2>1, <2>2, <2>3, BecomesGood
  <2>5. ReadingOK'
    BY <2>1, <2>2, <2>4 DEF ReadingOK, conns, Live
  <2> QED
    BY <1>0, <2>1, <2>4, <2>5 DEF TypeOK, PanicsOnlyWithoutExecutor
<1>3. CASE RecvEnvelope \/ EndRead
  <2>1. /\ UNCHANGED <<members, srv, errs, executor_up, status, greeted>>
        /\ reading' \in {reading, NoId}
    BY <1>3 DEF RecvEnvelope, EndRead
  <2>2. Good(Me, srv)' /\ SingleOK(srv, greeted)' /\ ReadingOK'
    BY <1>0, <2>1 DEF Good, WheelOK, EstOK, SingleOK, ReadingOK, Live, conns
  <2> QED
    BY <1>0, <2>1, <2>2 DEF TypeOK, PanicsOnlyWithoutExecutor
<1>4. ASSUME NEW all \in SUBSET Node, NEW failed \in SUBSET Live(srv),
             RecvDelta(all, failed)
      PROVE  IInv'
  <2>1. /\ UNCHANGED <<srv, executor_up, status, greeted>>
        /\ members' = all /\ errs' = errs \cup failed
        /\ reading' \in {reading, NoId}
    BY <1>4 DEF RecvDelta
  <2>2. Good(Me, srv)' /\ SingleOK(srv, greeted)' /\ ReadingOK'
    BY <1>0, <2>1 DEF Good, WheelOK, EstOK, SingleOK, ReadingOK, Live, conns
  <2> QED
    BY <1>0, <2>1, <2>2 DEF TypeOK, PanicsOnlyWithoutExecutor
<1> QED
  BY <1>1, <1>2, <1>3, <1>4 DEF Message

LEMMA RequestIInv ==
    ASSUME IInv, Request
    PROVE  IInv'
<1> USE DEF IInv
<1>0. /\ TypeOK /\ Good(Me, srv) /\ Live(srv) \subseteq Id
      /\ greeted \subseteq Live(srv) /\ NoId \notin Id
  BY LiveIds, MeAssumption DEF SingleOK
<1>1. ASSUME NEW n \in Node, NEW failed \in SUBSET Live(srv), NEW dial \in DialSets,
             join(n, failed, dial)
      PROVE  IInv'
  <2> DEFINE u == init_connection(srv, dial, dial)
             t == close(u, failed)
  <2>1. /\ members' = members \cup {n} /\ executor_up' = executor_up
        /\ \/ Becomes(t, {}) /\ UNCHANGED <<errs, reading, status>>
           \/ Exit("stopped")
        /\ reading = NoId
    BY <1>1 DEF join, Handled, Polling
  <2>2. /\ DOMAIN dial \subseteq Id \ Live(srv)
        /\ \A i \in DOMAIN dial : dial[i] \in Node
    BY <1>0, DialSetsFacts
  <2>3. /\ Good(Me, u)
        /\ \A i \in Live(srv) : i \in Live(u) /\ u.connections[i] = srv.connections[i]
        /\ u.established = srv.established
    BY <1>0, <2>2, InitConnectionGood
  <2> HIDE DEF u
  <2>4. SingleOK(u, greeted)
    BY <1>0, <2>3 DEF SingleOK
  <2>5. Good(Me, t) /\ Shrinks(u, t)
    BY <2>3, CloseGood
  <2> HIDE DEF t
  <2>6. SingleOK(t, greeted \cap Live(t))
    BY <2>4, <2>5, ShrinksSingle
  <2>7. SingleOK(t, (greeted \cup {}) \cap Live(t))
    BY <2>6
  <2>8. CASE Becomes(t, {}) /\ UNCHANGED <<errs, reading, status>>
    <3>1. /\ Good(Me, srv)'
          /\ SingleOK(srv, greeted)'
          /\ srv' \in ServerState /\ srv'.node = Me
          /\ greeted' \subseteq Id
      BY <2>5, <2>7, <2>8, BecomesGood
    <3> QED
      BY <1>0, <2>1, <2>8, <3>1, IdleIInv DEF TypeOK, PanicsOnlyWithoutExecutor
  <2>9. CASE Exit("stopped")
    BY <1>0, <2>1, <2>9, ExitGood, IdleIInv DEF TypeOK, PanicsOnlyWithoutExecutor
  <2> QED
    BY <2>1, <2>8, <2>9
<1>2. ASSUME NEW n \in Node, NEW failed \in SUBSET Live(srv), leave(n, failed)
      PROVE  IInv'
  <2>1. /\ Becomes(close(srv, failed), {}) /\ members' = members \ {n}
        /\ UNCHANGED <<errs, reading, executor_up, status>>
        /\ reading = NoId
    BY <1>2 DEF leave, Handled, Polling
  <2> QED
    BY <1>0, <2>1, CloseSrv, IdleIInv DEF TypeOK, PanicsOnlyWithoutExecutor
<1>3. ASSUME NEW n \in Node, SendRemoteFails(n)
      PROVE  IInv'
  <2>1. /\ \/ Becomes(close(srv, {est[n]}), {}) /\ UNCHANGED <<errs, reading, status>>
           \/ Exit("stopped")
        /\ UNCHANGED <<members, executor_up>>
        /\ reading = NoId
    BY <1>3 DEF SendRemoteFails, Handled, Polling
  <2>2. CASE Becomes(close(srv, {est[n]}), {}) /\ UNCHANGED <<errs, reading, status>>
    BY <1>0, <2>1, <2>2, CloseSrv, IdleIInv DEF TypeOK, PanicsOnlyWithoutExecutor
  <2>3. CASE Exit("stopped")
    BY <1>0, <2>1, <2>3, ExitGood, IdleIInv DEF TypeOK, PanicsOnlyWithoutExecutor
  <2> QED
    BY <2>1, <2>2, <2>3
<1>4. CASE GetStatusFails \/ Shutdown
  <2>1. Exit("stopped") /\ UNCHANGED <<members, executor_up>>
    BY <1>4 DEF GetStatusFails, Shutdown
  <2> QED
    BY <1>0, <2>1, ExitGood, IdleIInv DEF TypeOK, PanicsOnlyWithoutExecutor
<1>5. CASE ExecutorExits
  <2>1. /\ UNCHANGED <<members, srv, errs, reading, status, greeted>>
        /\ executor_up' = FALSE
    BY <1>5 DEF ExecutorExits
  <2>2. Good(Me, srv)' /\ SingleOK(srv, greeted)' /\ ReadingOK'
    BY <2>1 DEF Good, WheelOK, EstOK, SingleOK, ReadingOK, Live, conns
  <2> QED
    BY <2>1, <2>2 DEF TypeOK, PanicsOnlyWithoutExecutor
<1> QED
  BY <1>1, <1>2, <1>3, <1>4, <1>5 DEF Request

LEMMA StutterIInv ==
    ASSUME IInv, UNCHANGED vars
    PROVE  IInv'
  BY DEF vars, IInv, TypeOK, Good, WheelOK, EstOK, SingleOK, ReadingOK, Live, conns,
         PanicsOnlyWithoutExecutor

(* IInv is an invariant: every handler keeps the two connection maps, the  *)
(* timer wheel and the history of greetings in step.                       *)
THEOREM Invariance == Spec => []IInv
<1>1. Init => IInv
  BY InitIInv
<1>2. IInv /\ [Next]_vars => IInv'
  BY NotificationIInv, MessageIInv, RequestIInv, StutterIInv DEF Next
<1> QED
  BY <1>1, <1>2, PTL DEF Spec

-----------------------------------------------------------------------------
(* The variables of a server keep their types through every notification,  *)
(* message and request.                                                    *)
THEOREM TypeCorrect == Spec => []TypeOK
<1>1. IInv => TypeOK
  BY DEF IInv
<1> QED
  BY <1>1, Invariance, PTL

(* The established map never names a connection that is gone or belongs to *)
(* another peer, so the unwrap in disconnect_established and the write in  *)
(* send_remote always find their connection.                               *)
THEOREM EstablishedConnectionsAreLive == Spec => []EstablishedIsLive
<1>1. IInv => EstablishedIsLive
  BY DEF IInv, Good, EstOK, EstablishedIsLive, Live, est, conns
<1> QED
  BY <1>1, Invariance, PTL

(* choose_connection_to_close leaves at most one greeted connection per    *)
(* peer, and it is the established one.                                    *)
THEOREM OneConnectionPerPeer == Spec => []SingleConnection
<1>1. IInv => SingleConnection
  BY DEF IInv, SingleOK, SingleConnection, est, conns
<1> QED
  BY <1>1, Invariance, PTL

(* Every live connection has exactly one timer, where it says it is.       *)
THEOREM TimersMatchConnections == Spec => []WheelMatchesConnections
<1>1. IInv => WheelMatchesConnections
  BY DEF IInv, Good, WheelOK, WheelMatchesConnections, wheel, conns
<1> QED
  BY <1>1, Invariance, PTL

(* A peer is established only after our Members was written to it.         *)
THEOREM MembersFirst == Spec => []MembersBeforeEstablished
<1>1. IInv => MembersBeforeEstablished
  BY DEF IInv, Good, EstOK, MembersBeforeEstablished, est, conns
<1> QED
  BY <1>1, Invariance, PTL

(* The cluster server panics only once the executor thread is gone.        *)
THEOREM NoPanicWithExecutor == Spec => []PanicsOnlyWithoutExecutor
<1>1. IInv => PanicsOnlyWithoutExecutor
  BY DEF IInv
<1> QED
  BY <1>1, Invariance, PTL

-----------------------------------------------------------------------------
(* Timers.  Every step either arms some timers (Arms) or makes all of them *)
(* one tick older (Ages), or the server ends.                              *)

(* The wheel moves on by one slot and those in the slot it leaves are gone.*)
Ages(s, t) ==
    /\ t.timer_wheel.current_read = (s.timer_wheel.current_read + 1) % Size
    /\ t.timer_wheel.current_write = (s.timer_wheel.current_write + 1) % Size
    /\ \A i \in Live(t) :
          IF i \in Live(s)
          THEN Index(t, i) = Index(s, i) /\ Index(s, i) # s.timer_wheel.current_read
          ELSE Index(t, i) = t.timer_wheel.current_write

-----------------------------------------------------------------------------
(* Handlers as timer steps.                                                *)

LEMMA ArmsRefl ==
    ASSUME NEW s, NEW t, t = s, NEW heard
    PROVE  Arms(s, t, heard)
  BY DEF Arms

LEMMA ShrinksArms ==
    ASSUME NEW s, NEW t, Shrinks(s, t), NEW heard
    PROVE  Arms(s, t, heard)
  BY DEF Shrinks, Arms, Index

LEMMA CheckedArms ==
    ASSUME NEW s, NEW t, NEW dial, Checked(s, t, dial)
    PROVE  Arms(s, t, {})
  BY DEF Checked, Arms, Index

(* An id that is gone in u and dialled again in t was not live in s.       *)
LEMMA ArmsArms ==
    ASSUME NEW s, NEW u, NEW t, NEW heard, Arms(s, u, heard), Arms(u, t, {}),
           Live(t) \cap Live(s) \subseteq Live(u)
    PROVE  Arms(s, t, heard)
  BY DEF Arms

LEMMA AgesArms ==
    ASSUME NEW s, NEW u, NEW t, Ages(s, u), Arms(u, t, {}),
           Live(t) \cap Live(s) \subseteq Live(u)
    PROVE  Ages(s, t)
  BY DEF Arms, Ages

LEMMA CloseArms ==
    ASSUME NEW s, Good(Me, s), NEW ids, NEW heard
    PROVE  Arms(s, close(s, ids), heard)
  BY CloseGood, ShrinksArms

(* init_connection arms the new connections.                               *)
LEMMA InitConnectionArms ==
    ASSUME NEW s, Good(Me, s), NEW sock, NEW peer,
           DOMAIN sock \subseteq Id \ Live(s),
           \A i \in DOMAIN sock : sock[i] \in Node /\ peer[i] \in Node \cup {NoNode}
    PROVE  Arms(s, init_connection(s, sock, peer), {})
<1> DEFINE t == init_connection(s, sock, peer)
<1>1. /\ Live(t) = Live(s) \cup DOMAIN sock
      /\ \A i \in Live(s) : t.connections[i] = s.connections[i]
      /\ t.timer_wheel.current_read = s.timer_wheel.current_read
      /\ t.timer_wheel.current_write = s.timer_wheel.current_write
      /\ \A i \in DOMAIN sock :
           t.connections[i].timer_wheel_index = s.timer_wheel.current_write
  BY InitConnectionGood
<1> QED
  BY <1>1 DEF Arms, Index

(* send_members arms nothing.                                              *)
LEMMA SendMembersArms ==
    ASSUME NEW s, Good(Me, s), NEW id
    PROVE  Arms(s, send_members(s, id), {})
<1> DEFINE t == send_members(s, id)
<1>1. /\ Live(t) = Live(s)
      /\ \A i \in Live(s) : t.connections[i].timer_wheel_index
                              = s.connections[i].timer_wheel_index
      /\ t.timer_wheel = s.timer_wheel
  BY SendMembersGood
<1> QED
  BY <1>1 DEF Arms, Index

(* reset_timer arms the connection that is read.                           *)
LEMMA ResetTimerArms ==
    ASSUME NEW s, Good(Me, s), NEW id
    PROVE  Arms(s, reset_timer(s, id), {id})
<1> DEFINE t == reset_timer(s, id)
<1>1. /\ Live(t) = Live(s)
      /\ \A i \in Live(s) : t.connections[i].timer_wheel_index =
                              IF i = id THEN s.timer_wheel.current_write
                              ELSE s.connections[i].timer_wheel_index
      /\ t.timer_wheel.current_read = s.timer_wheel.current_read
      /\ t.timer_wheel.current_write = s.timer_wheel.current_write
  BY ResetTimerGood
<1> QED
  BY <1>1 DEF Arms, Index

(* establish_connection arms the connection that is read, and at most      *)
(* closes the other one to the same peer.                                  *)
LEMMA EstablishConnectionArms ==
    ASSUME NEW s, Good(Me, s), NEW id \in Live(s), s.connections[id].members_sent,
           NEW from, from = s.connections[id].sock
    PROVE  LET t == establish_connection(s, id, from)
           IN  Good(Me, t) /\ Arms(s, t, {id}) /\ Live(t) \subseteq Live(s)
<1>1. SingleOK(s, {})
  BY DEF SingleOK
<1> QED
  BY <1>1, EstablishConnectionGood

(* What is left after the connections of the expired slot were closed has  *)
(* aged.                                                                   *)
LEMMA ExpireAges ==
    ASSUME NEW s, Good(Me, s)
    PROVE  LET x == [s EXCEPT !.timer_wheel = WheelExpire(@)]
               t == close(x, WheelExpired(s.timer_wheel))
           IN  Good(Me, t) /\ Ages(s, t) /\ Live(t) \subseteq Live(s)
<1> DEFINE x == [s EXCEPT !.timer_wheel = WheelExpire(@)]
           t == close(x, WheelExpired(s.timer_wheel))
<1>1. /\ Good(Me, t)
      /\ Live(t) = {i \in Live(s) : s.connections[i].timer_wheel_index
                                      # s.timer_wheel.current_read}
      /\ \A i \in Live(t) : t.connections[i] = s.connections[i]
      /\ t.timer_wheel.current_read = (s.timer_wheel.current_read + 1) % Size
      /\ t.timer_wheel.current_write = (s.timer_wheel.current_write + 1) % Size
  BY ExpireGood
<1> QED
  BY <1>1 DEF Ages, Index

-----------------------------------------------------------------------------
(* Every step of the server is a timer step, or its end.                   *)

TimerStep(s, t, heard) == Arms(s, t, heard) \/ Ages(s, t) \/ t = ServerNew(Me)

LEMMA ExitTimers ==
    ASSUME NEW how, Exit(how)
    PROVE  srv' = ServerNew(Me)
  BY DEF Exit, Becomes

(* check_connections, the last thing a notification does, only dials ids   *)
(* that are fresh in the state the notification began with.                *)
LEMMA CheckTimers ==
    ASSUME Good(Me, srv), NEW u, Good(Me, u), Live(u) \subseteq Live(srv),
           NEW all \in SUBSET Node, NEW dial \in DialSets, NEW heard,
           Check(u, all, dial, heard)
    PROVE  Arms(u, srv', {}) /\ Live(srv') \cap Live(srv) \subseteq Live(u)
<1> DEFINE t == check_connections(u, all, dial, dial)
<1>1. DOMAIN dial \subseteq Id \ Live(srv)
  BY DialSetsFacts
<1>2. ~CheckPanics(u, all)
  BY DisconnectEstablishedGood DEF CheckPanics
<1>3. Dials(u, all, dial) /\ srv' = t
  BY <1>2 DEF Check, Becomes
<1>4. Checked(u, t, dial)
  BY <1>1, <1>3, CheckConnectionsGood
<1> HIDE DEF t
<1>5. Arms(u, t, {})
  BY <1>4, CheckedArms
<1>6. Live(t) \cap Live(srv) \subseteq Live(u)
  BY <1>1, <1>4 DEF Checked
<1> QED
  BY <1>3, <1>5, <1>6

LEMMA TickAges ==
    ASSUME IInv, NEW failed \in SUBSET Live(srv), NEW dial \in DialSets,
           tick(failed, dial)
    PROVE  Ages(srv, srv')
<1> DEFINE u == close([srv EXCEPT !.timer_wheel = WheelExpire(@)],
                      WheelExpired(srv.timer_wheel))
<1>1. TypeOK /\ Good(Me, srv)
  BY DEF IInv
<1>2. Good(Me, u) /\ Ages(srv, u) /\ Live(u) \subseteq Live(srv)
  BY <1>1, ExpireAges
<1>3. srv' = u \/ Check(u, members, dial, {})
  BY DEF tick, wheel, Becomes
<1> HIDE DEF u
<1>4. CASE Check(u, members, dial, {})
  <2>1. Arms(u, srv', {}) /\ Live(srv') \cap Live(srv) \subseteq Live(u)
    BY <1>1, <1>2, <1>4, CheckTimers DEF TypeOK
  <2> QED
    BY <1>2, <2>1, AgesArms
<1> QED
  BY <1>2, <1>3, <1>4

LEMMA NotificationTimers ==
    ASSUME IInv, Notification
    PROVE  TimerStep(srv, srv', {})
<1>0. TypeOK /\ Good(Me, srv)
  BY DEF IInv
<1>1. ASSUME NEW id \in Id, NEW n \in Node, accept_connection(id, n)
      PROVE  TimerStep(srv, srv', {})
  <2> DEFINE sock == [i \in {id} |-> n]
             peer == [i \in {id} |-> NoNode]
             t == init_connection(srv, sock, peer)
  <2>1. /\ DOMAIN sock \subseteq Id \ Live(srv)
        /\ \A i \in DOMAIN sock : sock[i] \in Node /\ peer[i] \in Node \cup {NoNode}
    BY <1>1 DEF accept_connection
  <2>2. srv' = send_members(t, id) \/ srv' = t
    BY <1>1 DEF accept_connection, Becomes
  <2>3. Live(t) = Live(srv) \cup DOMAIN sock /\ Good(Me, t)
    <3> HIDE DEF sock, peer
    <3> QED
      BY <1>0, <2>1, InitConnectionGood
  <2>4. Arms(srv, t, {})
    <3> HIDE DEF sock, peer
    <3> QED
      BY <1>0, <2>1, InitConnectionArms
  <2> HIDE DEF t, sock
  <2>5. Arms(t, send_members(t, id), {})
    BY <2>3, SendMembersArms
  <2>6. Arms(srv, send_members(t, id), {})
    BY <2>3, <2>4, <2>5, ArmsArms
  <2> QED
    BY <2>2, <2>4, <2>6 DEF TimerStep
<1>2. ASSUME NEW id \in Id, ReadUnsent(id)
      PROVE  TimerStep(srv, srv', {})
  <2>1. srv' = send_members(srv, id)
    BY <1>2 DEF ReadUnsent, Becomes
  <2> QED
    BY <1>0, <2>1, SendMembersArms DEF TimerStep
<1>3. ASSUME NEW id \in Id, SocketError(id) \/ BeginRead(id)
      PROVE  TimerStep(srv, srv', {})
  <2>1. srv' = srv
    BY <1>3 DEF SocketError, BeginRead
  <2> QED
    BY <2>1, ArmsRefl DEF TimerStep
<1>4. ASSUME NEW failed \in SUBSET Live(srv), NEW dial \in DialSets, tick(failed, dial)
      PROVE  TimerStep(srv, srv', {})
  BY <1>4, TickAges DEF TimerStep
<1>5. CASE tick_executor
  BY <1>5, ExitTimers DEF tick_executor, TimerStep
<1>6. CASE HandleErrors
  <2>1. srv' = close(srv, errs)
    BY <1>6 DEF HandleErrors, Becomes
  <2> QED
    BY <1>0, <2>1, CloseArms DEF TimerStep
<1> QED
  BY <1>1, <1>2, <1>3, <1>4, <1>5, <1>6 DEF Notification

LEMMA MessageTimers ==
    ASSUME IInv, Message
    PROVE  TimerStep(srv, srv', {reading})
<1>0. TypeOK /\ Good(Me, srv) /\ ReadingOK
  BY DEF IInv
<1>1. ASSUME NEW all \in SUBSET Node, NEW dial \in DialSets, RecvMembers(all, dial)
      PROVE  TimerStep(srv, srv', {reading})
  <2> DEFINE from == srv.connections[reading].sock
             u == establish_connection(srv, reading, from)
  <2>1. /\ reading \in Live(srv) /\ srv.connections[reading].members_sent
        /\ Check(u, all, dial, {reading})
        /\ from = srv.connections[reading].sock
    BY <1>0, <1>1 DEF RecvMembers, ReadingOK, conns
  <2> HIDE DEF from
  <2>2. Good(Me, u) /\ Arms(srv, u, {reading}) /\ Live(u) \subseteq Live(srv)
    BY <1>0, <2>1, EstablishConnectionArms
  <2> HIDE DEF u
  <2>3. Arms(u, srv', {}) /\ Live(srv') \cap Live(srv) \subseteq Live(u)
    BY <1>0, <2>1, <2>2, CheckTimers
  <2> QED
    BY <2>2, <2>3, ArmsArms DEF TimerStep
<1>2. CASE RecvPing
  <2>1. srv' = reset_timer(srv, reading)
    BY <1>2 DEF RecvPing, Becomes
  <2> QED
    BY <1>0, <2>1, ResetTimerArms DEF TimerStep
<1>3. CASE RecvEnvelope \/ EndRead
  <2>1. srv' = srv
    BY <1>3 DEF RecvEnvelope, EndRead
  <2> QED
    BY <2>1, ArmsRefl DEF TimerStep
<1>4. ASSUME NEW all \in SUBSET Node, NEW failed \in SUBSET Live(srv),
             RecvDelta(all, failed)
      PROVE  TimerStep(srv, srv', {reading})
  <2>1. srv' = srv
    BY <1>4 DEF RecvDelta
  <2> QED
    BY <2>1, ArmsRefl DEF TimerStep
<1> QED
  BY <1>1, <1>2, <1>3, <1>4 DEF Message

LEMMA RequestTimers ==
    ASSUME IInv, Request
    PROVE  TimerStep(srv, srv', {})
<1>0. TypeOK /\ Good(Me, srv)
  BY DEF IInv
<1>1. ASSUME NEW n \in Node, NEW failed \in SUBSET Live(srv), NEW dial \in DialSets,
             join(n, failed, dial)
      PROVE  TimerStep(srv, srv', {})
  <2> DEFINE u == init_connection(srv, dial, dial)
             t == close(u, failed)
  <2>1. srv' = t \/ srv' = ServerNew(Me)
    BY <1>1, ExitTimers DEF join, Becomes
  <2>2. /\ DOMAIN dial \subseteq Id \ Live(srv)
        /\ \A i \in DOMAIN dial : dial[i] \in Node
    BY <1>0, DialSetsFacts
  <2>3. /\ Good(Me, u)
        /\ Live(u) = Live(srv) \cup DOMAIN dial
        /\ Arms(srv, u, {})
    BY <1>0, <2>2, InitConnectionGood, InitConnectionArms
  <2> HIDE DEF u
  <2>4. Arms(u, t, {})
    BY <2>3, CloseArms
  <2> HIDE DEF t
  <2>5. Arms(srv, t, {})
    BY <2>3, <2>4, ArmsArms
  <2> QED
    BY <2>1, <2>5 DEF TimerStep
<1>2. ASSUME NEW n \in Node, NEW failed \in SUBSET Live(srv), leave(n, failed)
      PROVE  TimerStep(srv, srv', {})
  <2>1. srv' = close(srv, failed)
    BY <1>2 DEF leave, Becomes
  <2> QED
    BY <1>0, <2>1, CloseArms DEF TimerStep
<1>3. ASSUME NEW n \in Node, SendRemoteFails(n)
      PROVE  TimerStep(srv, srv', {})
  <2>1. srv' = close(srv, {est[n]}) \/ srv' = ServerNew(Me)
    BY <1>3, ExitTimers DEF SendRemoteFails, Becomes
  <2> QED
    BY <1>0, <2>1, CloseArms DEF TimerStep
<1>4. CASE GetStatusFails \/ Shutdown
  BY <1>4, ExitTimers DEF GetStatusFails, Shutdown, TimerStep
<1>5. CASE ExecutorExits
  <2>1. srv' = srv
    BY <1>5 DEF ExecutorExits
  <2> QED
    BY <2>1, ArmsRefl DEF TimerStep
<1> QED
  BY <1>1, <1>2, <1>3, <1>4, <1>5 DEF Request

LEMMA NextTimers ==
    ASSUME IInv, [Next]_vars
    PROVE  TimerStep(srv, srv', {reading})
<1>1. \A s, t : TimerStep(s, t, {}) => TimerStep(s, t, {reading})
  BY DEF TimerStep, Arms
<1>2. CASE UNCHANGED vars
  BY <1>2, ArmsRefl DEF vars, TimerStep
<1> QED
  BY <1>1, <1>2, NotificationTimers, MessageTimers, RequestTimers DEF Next

-----------------------------------------------------------------------------
(* The ticks left to the connections of a server state, and what a timer   *)
(* step makes of them.                                                     *)

Left(s) == [i \in Live(s) |-> TicksLeft(s.timer_wheel, Index(s, i))]

LEMMA GoodTimers ==
    ASSUME NEW s, Good(Me, s)
    PROVE  /\ s.timer_wheel \in Wheels(Id)
           /\ \A i \in Live(s) : Index(s, i) \in Slot
           /\ Live(s) \subseteq Id
  BY ServerStateFields DEF Good, Conn, Index

(* Without a tick a connection has as many left as before, or all.         *)
LEMMA LeftArms ==
    ASSUME NEW s, Good(Me, s), NEW t, Good(Me, t), NEW heard, Arms(s, t, heard),
           Adjacent(s.timer_wheel)
    PROVE  \A i \in Live(t) :
              \/ i \in Live(s) /\ Left(t)[i] = Left(s)[i]
              \/ Left(t)[i] = Size /\ (i \in Live(s) => i \in heard)
<1> DEFINE w == s.timer_wheel
           v == t.timer_wheel
<1>1. w \in Wheels(Id) /\ v \in Wheels(Id)
  BY GoodTimers
<1>2. v.current_read = w.current_read /\ v.current_write = w.current_write
  BY DEF Arms
<1>3. TicksLeft(v, w.current_write) = Size
  <2>1. Adjacent(v)
    BY <1>2 DEF Adjacent
  <2> HIDE DEF w, v
  <2> QED
    BY <1>1, <1>2, <2>1, TicksLeftArmed
<1>4. \A k : TicksLeft(v, k) = TicksLeft(w, k)
  BY <1>2 DEF TicksLeft
<1> HIDE DEF w, v
<1>5. \A i \in Live(t) : \/ i \in Live(s) /\ Index(t, i) = Index(s, i)
                         \/ Index(t, i) = w.current_write /\ (i \in Live(s) => i \in heard)
  BY DEF Arms, w
<1>6. /\ \A i \in Live(t) : Left(t)[i] = TicksLeft(v, Index(t, i))
      /\ \A i \in Live(s) : Left(s)[i] = TicksLeft(w, Index(s, i))
  BY DEF Left, w, v
<1> QED
  BY <1>3, <1>4, <1>5, <1>6

(* With a tick it has one less, and had more than that one.                *)
LEMMA LeftAges ==
    ASSUME NEW s, Good(Me, s), NEW t, Good(Me, t), Ages(s, t), Adjacent(s.timer_wheel)
    PROVE  \A i \in Live(t) :
              IF i \in Live(s) THEN Left(s)[i] > 1 /\ Left(t)[i] = Left(s)[i] - 1
                               ELSE Left(t)[i] = Size
<1> DEFINE w == s.timer_wheel
           v == t.timer_wheel
<1>1. w \in Wheels(Id) /\ v \in Wheels(Id)
  BY GoodTimers
<1>2. /\ v.current_read = (w.current_read + 1) % Size
      /\ v.current_write = (w.current_write + 1) % Size
  BY DEF Ages
<1>3. Adjacent(v)
  BY <1>2 DEF Adjacent
<1> HIDE DEF w, v
<1>4. TicksLeft(v, v.current_write) = Size
  BY <1>1, <1>3, TicksLeftArmed
<1>5. \A k \in Slot : k # w.current_read =>
         TicksLeft(w, k) > 1 /\ TicksLeft(v, k) = TicksLeft(w, k) - 1
  BY <1>1, <1>2, TicksLeftTick
<1>6. \A i \in Live(t) : IF i \in Live(s)
                         THEN Index(t, i) = Index(s, i) /\ Index(s, i) # w.current_read
                         ELSE Index(t, i) = v.current_write
  BY DEF Ages, w, v
<1>7. /\ \A i \in Live(t) : Left(t)[i] = TicksLeft(v, Index(t, i))
      /\ \A i \in Live(s) : Left(s)[i] = TicksLeft(w, Index(s, i))
  BY DEF Left, w, v
<1>8. \A i \in Live(s) : Index(s, i) \in Slot
  BY GoodTimers
<1> QED
  BY <1>4, <1>5, <1>6, <1>7, <1>8

(* The pointers stay one slot apart.                                       *)
LEMMA StepAdjacent ==
    ASSUME NEW s, Adjacent(s.timer_wheel), NEW t, NEW heard, TimerStep(s, t, heard)
    PROVE  Adjacent(t.timer_wheel)
<1>1. CASE Arms(s, t, heard) \/ Ages(s, t)
  BY <1>1 DEF Arms, Ages, Adjacent
<1>2. CASE t = ServerNew(Me)
  BY <1>2, WheelNewAdjacent DEF ServerNew
<1> QED
  BY <1>1, <1>2 DEF TimerStep

-----------------------------------------------------------------------------
(* The theorems.                                                           *)

TimersInv == IInv /\ PointersAdjacent

LEMMA WheelViews ==
    /\ PointersAdjacent <=> Adjacent(srv.timer_wheel)
    /\ PointersAdjacent' <=> Adjacent(srv'.timer_wheel)
    /\ TicksLeftOf = Left(srv)
    /\ TicksLeftOf' = Left(srv')
  BY DEF PointersAdjacent, Adjacent, TicksLeftOf, Left, Index, Live, wheel, conns

LEMMA GoodPrime == Good(Me, srv)' <=> Good(Me, srv')
  BY DEF Good, WheelOK, EstOK, Live

(* Every operation of the server leaves the write pointer of its wheel one *)
(* slot behind the read pointer, so that an armed timer always has Size    *)
(* ticks left.                                                             *)
THEOREM PointersStayAdjacent == Spec => []TimersInv
<1>1. Init => PointersAdjacent
  BY WheelNewAdjacent, WheelViews DEF Init, ServerNew
<1>2. IInv /\ PointersAdjacent /\ [Next]_vars => PointersAdjacent'
  BY NextTimers, StepAdjacent, WheelViews
<1> QED
  BY <1>1, <1>2, Invariance, PTL DEF Spec, TimersInv

LEMMA KeepAliveStep ==
    ASSUME TimersInv, IInv', [Next]_vars
    PROVE  KA!Next
<1>1. /\ Good(Me, srv) /\ Good(Me, srv') /\ Adjacent(srv.timer_wheel)
      /\ TimerStep(srv, srv', {reading})
  BY NextTimers, WheelViews, GoodPrime DEF TimersInv, IInv
<1>2. /\ TicksLeftOf = Left(srv) /\ TicksLeftOf' = Left(srv')
      /\ DOMAIN Left(srv) = Live(srv) /\ DOMAIN Left(srv') = Live(srv')
      /\ Live(srv') \subseteq Id
  BY <1>1, WheelViews, GoodTimers DEF Left
<1>3. KA!Touch \/ KA!Tick
  <2>1. CASE Arms(srv, srv', {reading})
    BY <1>1, <1>2, <2>1, LeftArms DEF KA!Touch
  <2>2. CASE Ages(srv, srv')
    BY <1>1, <1>2, <2>2, LeftAges DEF KA!Tick
  <2>3. CASE srv' = ServerNew(Me)
    <3>1. Live(srv') = {}
      BY <2>3, ServerNewGood, MeAssumption
    <3> QED
      BY <1>2, <3>1 DEF KA!Touch
  <2> QED
    BY <1>1, <2>1, <2>2, <2>3 DEF TimerStep
<1> QED
  BY <1>2, <1>3 DEF KA!Next

LEMMA KeepAliveTick ==
    ASSUME TimersInv, IInv', NEW failed \in SUBSET Live(srv), NEW dial \in DialSets,
           tick(failed, dial)
    PROVE  KA!Tick
<1>1. /\ Good(Me, srv) /\ Good(Me, srv') /\ Adjacent(srv.timer_wheel)
      /\ Ages(srv, srv')
  BY TickAges, WheelViews, GoodPrime DEF TimersInv, IInv
<1>2. /\ TicksLeftOf = Left(srv) /\ TicksLeftOf' = Left(srv')
      /\ DOMAIN Left(srv) = Live(srv) /\ DOMAIN Left(srv') = Live(srv')
  BY WheelViews DEF Left
<1> QED
  BY <1>1, <1>2, LeftAges DEF KA!Tick

(* The server implements KeepAlive: whatever it reads, writes, dials or    *)
(* closes, a connection has Size ticks when it is armed, each tick() takes *)
(* one from it, and one that is not heard from is closed by the last.      *)
THEOREM ServerKeepsTime == Spec => TimeoutsHold
<1>1. Init => KA!Init
  <2> SUFFICES ASSUME Init PROVE KA!Init
    OBVIOUS
  <2>1. Live(srv) = {}
    BY ServerNewGood, MeAssumption DEF Init
  <2> QED
    BY <2>1, WheelViews DEF KA!Init, Left
<1>2. TimersInv /\ IInv' /\ [Next]_vars => [KA!Next]_TicksLeftOf
  BY KeepAliveStep
<1>3. TimersInv /\ IInv' /\ [Next]_vars =>
         [(\E failed \in SUBSET Live(srv), dial \in DialSets : tick(failed, dial))
             => KA!Tick]_vars
  BY KeepAliveTick
<1> QED
  BY <1>1, <1>2, <1>3, Invariance, PointersStayAdjacent, PTL
     DEF Spec, TimeoutsHold, KA!Spec

(* Only a message read from a connection gives it more time.               *)
THEOREM OnlyReadingRearms == Spec => OnlyHeardPeersAreRearmed
<1> DEFINE A == \A i \in (DOMAIN TicksLeftOf \cap DOMAIN TicksLeftOf') \ {reading} :
                   TicksLeftOf[i] - TicksLeftOf'[i] =
                     IF wheel'.current_read = wheel.current_read THEN 0 ELSE 1
<1>1. TimersInv /\ IInv' /\ [Next]_vars => A
  <2> SUFFICES ASSUME TimersInv, IInv', [Next]_vars,
                      NEW i \in (DOMAIN TicksLeftOf \cap DOMAIN TicksLeftOf') \ {reading}
               PROVE  TicksLeftOf[i] - TicksLeftOf'[i] =
                        IF wheel'.current_read = wheel.current_read THEN 0 ELSE 1
    OBVIOUS
  <2>1. /\ Good(Me, srv) /\ Good(Me, srv') /\ Adjacent(srv.timer_wheel)
        /\ TimerStep(srv, srv', {reading})
    BY NextTimers, WheelViews, GoodPrime DEF TimersInv, IInv
  <2>2. /\ TicksLeftOf = Left(srv) /\ TicksLeftOf' = Left(srv')
        /\ i \in Live(srv) /\ i \in Live(srv') /\ i # reading
    BY WheelViews DEF Left
  <2>3. Left(srv)[i] \in 1 .. Size
    <3>1. srv.timer_wheel \in Wheels(Id) /\ Index(srv, i) \in Slot
      BY <2>1, <2>2, GoodTimers
    <3>2. TicksLeft(srv.timer_wheel, Index(srv, i)) \in 1 .. Size
      BY <3>1, TicksLeftRange
    <3> QED
      BY <2>2, <3>2 DEF Left
  <2>4. CASE Arms(srv, srv', {reading})
    <3>1. Left(srv')[i] = Left(srv)[i]
      BY <2>1, <2>2, <2>4, LeftArms
    <3>2. wheel'.current_read = wheel.current_read
      BY <2>4 DEF Arms, wheel
    <3> QED
      BY <2>2, <2>3, <3>1, <3>2, SizeAssumption
  <2>5. CASE Ages(srv, srv')
    <3>1. Left(srv')[i] = Left(srv)[i] - 1
      BY <2>1, <2>2, <2>5, LeftAges
    <3>2. wheel'.current_read # wheel.current_read
      <4>1. /\ Index(srv, i) \in Slot /\ Index(srv, i) # srv.timer_wheel.current_read
            /\ srv.timer_wheel.current_read \in Slot
        BY <2>1, <2>2, <2>5, GoodTimers DEF Ages, Wheels
      <4>2. (srv.timer_wheel.current_read + 1) % Size # srv.timer_wheel.current_read
        BY <4>1, NextSlotDiffers
      <4> QED
        BY <2>5, <4>2 DEF Ages, wheel
    <3> QED
      BY <2>2, <2>3, <3>1, <3>2, SizeAssumption
  <2>6. CASE srv' = ServerNew(Me)
    BY <2>2, <2>6, ServerNewGood, MeAssumption
  <2> QED
    BY <2>1, <2>4, <2>5, <2>6 DEF TimerStep
<1>2. TimersInv /\ IInv' /\ [Next]_vars => [A]_vars
  BY <1>1
<1> QED
  BY <1>2, Invariance, PointersStayAdjacent, PTL DEF Spec, OnlyHeardPeersAreRearmed
=============================================================================
