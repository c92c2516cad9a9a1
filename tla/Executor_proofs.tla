--------------------------- MODULE Executor_proofs ---------------------------
(***************************************************************************)
(* For any number of processes, services and timers, and whatever the      *)
(* processes return: tick() loses no timer of a process, no tick after a   *)
(* cancellation fires the timer, calls nest for the answer to GetMetrics   *)
(* only, output is routed in the order it was returned, and the types hold.*)
(*                                                                         *)
(* None of it is inductive as it stands.  For ProcessTimersFire one has to *)
(* know that only services are registered as services: Fire clears a key   *)
(* from owed unless one of that Pid is.  For CancelHolds, where the        *)
(* CancelTimer of a timer that is still in the wheel is: in one of the     *)
(* loops that are under way, and nowhere else.                             *)
(***************************************************************************)
EXTENDS Executor, TLAPS

ServicesOnly == services \subseteq Service

(* The inductive invariant: only services are registered as services, and  *)
(* the expired timers of processes not told yet are those tick() has still *)
(* to come to.                                                             *)
TimerInv == ServicesOnly /\ ProcessTimersFire

(* What a step must leave alone to keep the invariant.                     *)
LEMMA TimersUntouched ==
    ASSUME TimerInv, UNCHANGED <<firing, owed>>, services' \subseteq Service
    PROVE  TimerInv'
  BY DEF TimerInv, ServicesOnly, ProcessTimersFire

(* A tick owes exactly what it is about to go through.                     *)
LEMMA TickOwes ==
    ASSUME TimerInv, NEW expired, tick(expired)
    PROVE  TimerInv'
  <1>1. firing = {} /\ firing' = expired /\ owed' = owed \cup expired
    BY DEF tick, Idle
  <1>2. services' = services
    BY DEF tick, env
  <1>3. \A k \in owed : k[1] \notin Process
    BY <1>1 DEF TimerInv, ProcessTimersFire
  <1> QED
    BY <1>1, <1>2, <1>3 DEF TimerInv, ServicesOnly, ProcessTimersFire

(* A process that the loop comes to is told, or is not there to be told.   *)
LEMMA FireTells ==
    ASSUME TimerInv, NEW k \in firing, Fire(k)
    PROVE  TimerInv'
  <1>1. /\ firing' = firing \ {k}
        /\ owed' = IF k[1] \in services THEN owed ELSE owed \ {k}
    BY DEF Fire
  <1>2. services' = services
    BY DEF Fire, env
  <1>3. k[1] \in Process => owed' = owed \ {k}
    BY <1>1, ExecutorAssumption DEF TimerInv, ServicesOnly
  <1>4. \A j \in owed' : j[1] \in Process => j \in firing'
    BY <1>1, <1>3 DEF TimerInv, ProcessTimersFire
  <1> QED
    BY <1>2, <1>4 DEF TimerInv, ServicesOnly, ProcessTimersFire

LEMMA TimerStep ==
    ASSUME TimerInv, [Next]_vars
    PROVE  TimerInv'
  <1>1. CASE \E expired \in SUBSET timers : tick(expired)
    BY <1>1, TickOwes
  <1>2. CASE \E k \in firing : Fire(k)
    BY <1>2, FireTells
  <1>3. CASE \E s \in Service : RegisterService(s)
    <2>1. PICK s \in Service : RegisterService(s)
      BY <1>3
    <2>2. UNCHANGED <<firing, owed>> /\ services' = services \cup {s}
      BY <2>1 DEF RegisterService
    <2> QED
      BY <2>2, TimersUntouched DEF TimerInv, ServicesOnly
  <1>4. CASE \/ \E f \in Service \cup Remote : \E e \in Mails(f) : RecvEnvelope(e)
             \/ \E p \in Process : start(p) \/ stop(p)
             \/ \E s \in Service : get_status(s) \/ ServiceExits(s)
    <2>1. UNCHANGED <<services, firing, owed>>
      BY <1>4 DEF RecvEnvelope, start, stop, get_status, ServiceExits, env
    <2> QED
      BY <2>1, TimersUntouched DEF TimerInv, ServicesOnly
  <1>5. CASE RecvOwn \/ InitStep \/ DrainStep \/ Return \/ Shutdown \/ ClusterExits
    <2>1. UNCHANGED <<services, firing, owed>>
      BY <1>5 DEF RecvOwn, InitStep, DrainStep, Return, Shutdown, ClusterExits, env
    <2> QED
      BY <2>1, TimersUntouched DEF TimerInv, ServicesOnly
  <1>6. CASE UNCHANGED vars
    BY <1>6, TimersUntouched DEF vars, TimerInv, ServicesOnly
  <1> QED
    BY <1>1, <1>2, <1>3, <1>4, <1>5, <1>6 DEF Next

(* tick() tells every process whose timer has expired, however many of the *)
(* owners of the other timers of the tick are gone.                        *)
THEOREM NoProcessTimerIsLost == Spec => []ProcessTimersFire
  <1>1. Init => TimerInv
    BY DEF Init, TimerInv, ServicesOnly, ProcessTimersFire
  <1>2. TimerInv /\ [Next]_vars => TimerInv'
    BY TimerStep
  <1>3. TimerInv => ProcessTimersFire
    BY DEF TimerInv
  <1> QED
    BY <1>1, <1>2, <1>3, PTL DEF Spec

-----------------------------------------------------------------------------
(* What routing does.                                                      *)

(* What an envelope for the executor does to the timers.                   *)
Times(e) ==
    \/ UNCHANGED timing /\ (e.to = Executor => e.msg # "CancelTimer")
    \/ e.msg = "StartTimer" /\ StartTimer(e)
    \/ e.msg = "CancelTimer" /\ CancelTimer(e)

(* What routing envelope e does: the thread dies; the envelope is dropped, *)
(* is for the executor or reaches a service, the cluster server or nobody; *)
(* or a process is called.                                                 *)
Dies == /\ status' = "panicked" /\ stack' = <<>>
        /\ UNCHANGED <<timing, emitted, last, asked>>

Settles(e, rest) ==
    /\ stack' = rest /\ UNCHANGED <<status, emitted, asked>>
    /\ last' = last \/ Arrives(e)
    /\ Times(e)

Calls(e, p, out, rest) ==
    /\ Returns(p, "drain", out, rest) /\ UNCHANGED <<timers, own, status>>
    /\ \/ p = e.to /\ Arrives(e)
       \/ p = e.from /\ e.msg = "GetMetrics" /\ last' = last

Effect(e, rest) ==
    \/ Dies
    \/ Settles(e, rest)
    \/ \E p \in processes : \E out \in Outputs(p) : Calls(e, p, out, rest)

LEMMA DeliverEffect ==
    ASSUME NEW e, NEW rest, Deliver(e, rest)
    PROVE  \/ Dies
           \/ /\ stack' = rest /\ UNCHANGED <<timing, status, emitted, asked>>
              /\ last' = last \/ Arrives(e)
           \/ \E out \in Outputs(e.to) :
                 /\ e.to \in processes /\ Returns(e.to, "drain", out, rest)
                 /\ UNCHANGED <<timers, own, status>> /\ Arrives(e)
  BY DEF Deliver, ToCluster, NoGroup, Handle, route_to_service, Send, Panic, timing, Dies

(* GetMetrics is answered, and the answer handled, on the spot; nothing    *)
(* that an actor has sent arrives.                                         *)
Answers(e, rest) ==
    /\ last' = last
    /\ \/ Dies
       \/ Settles(e, rest)
       \/ /\ e.msg = "GetMetrics" /\ e.from \in processes
          /\ \E out \in Outputs(e.from) : Calls(e, e.from, out, rest)

LEMMA ExecutorEffect ==
    ASSUME NEW e, NEW rest, handle_executor_envelope(e, rest)
    PROVE  Answers(e, rest) /\ Effect(e, rest)
  <1>1. CASE e.msg = "GetMetrics"
    <2> DEFINE m == Mail(e.from, Executor, "Metrics", e.cid)
    <2>1. Deliver(m, rest)
      BY <1>1 DEF handle_executor_envelope
    <2>2. m.to = e.from /\ m.stamp = 0
      BY DEF Mail
    <2>3. Arrives(m) => last' = last
      BY <2>2 DEF Arrives
    <2> HIDE DEF m
    <2>4. last' = last
      BY <2>1, <2>3, DeliverEffect DEF Dies
    <2> QED
      BY <1>1, <2>1, <2>2, <2>4, DeliverEffect DEF Times, Answers, Effect, Settles, Calls
  <1>2. CASE e.msg # "GetMetrics"
    BY <1>2 DEF handle_executor_envelope, Times, Answers, Effect, Settles
  <1> QED
    BY <1>1, <1>2

LEMMA RouteEffect ==
    ASSUME NEW e, NEW rest, route(e, rest)
    PROVE  Effect(e, rest)
  BY ExecutorEffect, DeliverEffect DEF route, Times, Effect, Calls, Settles

-----------------------------------------------------------------------------
(* Types.  TypeOK is not inductive: the timer of an envelope has an owner  *)
(* and a CorrelationId only because actors do not send anything else.      *)

Letter ==
    {e \in Envelope : /\ e.from \in Owner
                      /\ e.msg = "StartTimer" => e.cid \in Cid
                      /\ e.msg = "CancelTimer" => e.arg \in Cid /\ e.to = Executor}

LetterFrame == [kind : {"init", "drain"}, todo : Seq(Letter)]

TypeInv == TypeOK /\ rx \in Seq(Letter) /\ stack \in Seq(LetterFrame)

LEMMA MailsAreLetters ==
    ASSUME NEW f \in Owner, NEW e \in Mails(f)
    PROVE  e \in Letter /\ e.from = f /\ e.stamp = 0
  <1>1. 0 \in 0 .. MaxEmit
    BY ExecutorAssumption
  <1>2. CASE \E d \in Dest \cup {Executor} : e = Mail(d, f, "User", NoCid)
    BY <1>1, <1>2 DEF Mail, Letter, Envelope, Owner
  <1> Cids(f) \subseteq Cid
    BY ExecutorAssumption DEF Cids
  <1>3. CASE \E c \in Cids(f) : e = Mail(Executor, f, "StartTimer", c)
    BY <1>1, <1>3 DEF Mail, Letter, Envelope, Owner
  <1>4. CASE \E c \in Cids(f) : e = [Mail(Executor, f, "CancelTimer", NoCid) EXCEPT !.arg = c]
    BY <1>1, <1>4 DEF Mail, Letter, Envelope, Owner
  <1>5. CASE e = Mail(Executor, f, "GetMetrics", NoCid)
    BY <1>1, <1>5 DEF Mail, Letter, Envelope, Owner
  <1> QED
    BY <1>2, <1>3, <1>4, <1>5 DEF Mails

(* What a call returns, as it is and with its stamps.                      *)
LEMMA OutputsGood ==
    ASSUME emitted \in 0 .. MaxEmit, NEW p \in Process, NEW out \in Outputs(p)
    PROVE  /\ Len(out) \in Nat /\ emitted + Len(out) \in 0 .. MaxEmit
           /\ out \in Seq(Letter) /\ Stamped(out) \in Seq(Letter)
           /\ Len(Stamped(out)) = Len(out) /\ DOMAIN out = 1 .. Len(out)
           /\ Cancels(out) \subseteq Owner \X Cid
           /\ \A k \in 1 .. Len(out) :
                 /\ out[k].from = p /\ out[k].stamp = 0
                 /\ Stamped(out)[k].from = p /\ Stamped(out)[k].stamp = emitted + k
                 /\ Stamped(out)[k].msg = out[k].msg
  <1>1. PICK n \in 0 .. MaxOutput : emitted + n <= MaxEmit /\ out \in [1 .. n -> Mails(p)]
    BY DEF Outputs
  <1>2. n \in Nat /\ MaxEmit \in Nat
    BY ExecutorAssumption
  <1>3. \A k \in 1 .. n : out[k] \in Letter /\ out[k].from = p /\ out[k].stamp = 0
    BY <1>1, MailsAreLetters DEF Owner
  <1>4. \A k \in 1 .. n : out[k] \in Letter
    BY <1>3
  <1>5. out \in Seq(Letter) /\ Len(out) = n
    BY <1>1, <1>2, <1>4
  <1> DEFINE st == [k \in 1 .. n |-> [out[k] EXCEPT !.stamp = emitted + k]]
  <1>6. st = Stamped(out)
    BY <1>1 DEF Stamped
  <1>7. \A k \in 1 .. n : /\ st[k] \in Letter /\ st[k].from = p
                          /\ st[k].stamp = emitted + k /\ st[k].msg = out[k].msg
    <2> SUFFICES ASSUME NEW k \in 1 .. n
                 PROVE  /\ st[k] \in Letter /\ st[k].from = p
                        /\ st[k].stamp = emitted + k /\ st[k].msg = out[k].msg
      OBVIOUS
    <2>1. emitted + k \in 0 .. MaxEmit
      BY <1>1, <1>2
    <2>2. out[k] \in Letter /\ out[k].from = p
      BY <1>3
    <2> QED
      BY <2>1, <2>2 DEF Letter, Envelope
  <1> HIDE DEF st
  <1>8. st \in [1 .. n -> Letter]
    BY <1>7 DEF st
  <1>9. st \in Seq(Letter) /\ Len(st) = n
    BY <1>2, <1>8
  <1>10. Cancels(out) \subseteq Owner \X Cid
    BY <1>1, <1>3 DEF Cancels, Letter
  <1> QED
    BY <1>1, <1>2, <1>3, <1>5, <1>6, <1>7, <1>9, <1>10

LEMMA ArrivesTypes ==
    ASSUME TypeInv, NEW e \in Envelope, last' = last \/ Arrives(e)
    PROVE  last' \in [Process -> [Dest -> 0 .. MaxEmit]]
  <1> DEFINE row == [last[e.from] EXCEPT ![e.to] = e.stamp]
  <1>1. last \in [Process -> [Dest -> 0 .. MaxEmit]] /\ e.stamp \in 0 .. MaxEmit
    BY DEF TypeInv, TypeOK, Envelope
  <1>2. last' = last \/ last' = [last EXCEPT ![e.from] = row]
    BY DEF Arrives
  <1>3. e.from \in Process => row \in [Dest -> 0 .. MaxEmit]
    BY <1>1
  <1> HIDE DEF row
  <1> QED
    BY <1>1, <1>2, <1>3

LEMMA TimesTypes ==
    ASSUME TypeInv, NEW e \in Letter, Times(e)
    PROVE  timers' \cup void' \subseteq Owner \X Cid /\ own' \subseteq Process \X Cid
  BY DEF TypeInv, TypeOK, Times, StartTimer, CancelTimer, TimerKey, Letter, timing

(* The variables that routing changes.                                     *)
Routed ==
    /\ stack' \in Seq(LetterFrame) /\ status' \in {"running", "stopped", "panicked"}
    /\ emitted' \in 0 .. MaxEmit /\ asked' \subseteq Process
    /\ last' \in [Process -> [Dest -> 0 .. MaxEmit]]
    /\ timers' \cup void' \subseteq Owner \X Cid /\ own' \subseteq Process \X Cid

LEMMA CallTypes ==
    ASSUME TypeInv, NEW e \in Envelope, NEW rest \in Seq(LetterFrame),
           NEW p \in processes, NEW out \in Outputs(p), Calls(e, p, out, rest)
    PROVE  Routed
  <1>1. p \in Process /\ emitted \in 0 .. MaxEmit /\ asked \subseteq Process
    BY DEF TypeInv, TypeOK
  <1> DEFINE frame == [kind |-> "drain", todo |-> Stamped(out)]
  <1>2. stack' = <<frame>> \o rest
    BY DEF Calls, Returns
  <1>3. frame \in LetterFrame
    BY <1>1, OutputsGood DEF LetterFrame
  <1> HIDE DEF frame
  <1>4. stack' \in Seq(LetterFrame)
    BY <1>2, <1>3
  <1>5. emitted' \in 0 .. MaxEmit /\ asked' \subseteq Process /\ UNCHANGED status
    BY <1>1, OutputsGood DEF Calls, Returns
  <1>6. timers' \cup void' \subseteq Owner \X Cid /\ own' \subseteq Process \X Cid
    BY <1>1, OutputsGood DEF Calls, Returns, TypeInv, TypeOK
  <1>7. last' \in [Process -> [Dest -> 0 .. MaxEmit]]
    BY ArrivesTypes DEF Calls
  <1> QED
    BY <1>4, <1>5, <1>6, <1>7 DEF Routed, TypeInv, TypeOK

LEMMA EffectTypes ==
    ASSUME TypeInv, NEW e \in Letter, NEW rest \in Seq(LetterFrame), Effect(e, rest)
    PROVE  Routed
  <1> e \in Envelope
    BY DEF Letter
  <1>1. CASE Dies
    BY <1>1 DEF Dies, TypeInv, TypeOK, timing, Routed
  <1>2. CASE Settles(e, rest)
    BY <1>2, ArrivesTypes, TimesTypes DEF Settles, TypeInv, TypeOK, Routed
  <1> QED
    BY <1>1, <1>2, CallTypes DEF Effect

(* The loops: an envelope leaves the list at the top of the stack.         *)
LEMMA RestGood ==
    ASSUME stack \in Seq(LetterFrame), stack # <<>>
    PROVE  /\ Top \in LetterFrame /\ Top = stack[1] /\ Tail(stack) \in Seq(LetterFrame)
           /\ Top.todo # <<>> =>
                /\ Head(Top.todo) \in Letter
                /\ Rest \in Seq(LetterFrame) /\ Len(Rest) = Len(stack)
                /\ Rest[1].kind = Top.kind /\ Rest[1].todo = Tail(Top.todo)
                /\ \A k \in 2 .. Len(stack) : Rest[k] = stack[k]
  <1>1. /\ Top \in LetterFrame /\ Tail(stack) \in Seq(LetterFrame) /\ Top = stack[1]
        /\ Len(stack) \in Nat \ {0} /\ Len(Tail(stack)) = Len(stack) - 1
        /\ \A k \in 1 .. Len(stack) - 1 : Tail(stack)[k] = stack[k + 1]
    BY DEF Top
  <1>2. Top = [kind |-> Top.kind, todo |-> Top.todo] /\ Top.kind \in {"init", "drain"}
        /\ Top.todo \in Seq(Letter)
    BY <1>1 DEF LetterFrame
  <1> DEFINE f == [Top EXCEPT !.todo = Tail(@)]
  <1>3. ASSUME Top.todo # <<>>
        PROVE  /\ f \in LetterFrame /\ f.kind = Top.kind /\ f.todo = Tail(Top.todo)
               /\ Head(Top.todo) \in Letter
    <2> HIDE DEF Top
    <2>1. Tail(Top.todo) \in Seq(Letter) /\ Head(Top.todo) \in Letter
      BY <1>2, <1>3
    <2> QED
      BY <1>2, <2>1 DEF LetterFrame
  <1>4. Rest = <<f>> \o Tail(stack)
    BY DEF Rest
  <1> HIDE DEF f, Top
  <1>5. ASSUME Top.todo # <<>>
        PROVE  /\ Rest \in Seq(LetterFrame) /\ Len(Rest) = Len(stack) /\ Rest[1] = f
               /\ \A k \in 2 .. Len(stack) : Rest[k] = stack[k]
    BY <1>1, <1>3, <1>4, <1>5
  <1> QED
    BY <1>1, <1>3, <1>5

LEMMA LettersAreEnvelopes ==
    /\ \A s \in Seq(Letter) : s \in Seq(Envelope)
    /\ \A s \in Seq(LetterFrame) : s \in Seq(Frame)
  <1>1. Letter \subseteq Envelope
    BY DEF Letter
  <1>2. ASSUME NEW s \in Seq(Letter)
        PROVE  s \in Seq(Envelope)
    <2>1. Len(s) \in Nat /\ s \in [1 .. Len(s) -> Letter]
      OBVIOUS
    <2> QED
      BY <1>1, <2>1
  <1>3. LetterFrame \subseteq Frame
    BY <1>2 DEF LetterFrame, Frame
  <1>4. ASSUME NEW s \in Seq(LetterFrame)
        PROVE  s \in Seq(Frame)
    <2>1. Len(s) \in Nat /\ s \in [1 .. Len(s) -> LetterFrame]
      OBVIOUS
    <2> QED
      BY <1>3, <2>1
  <1> QED
    BY <1>2, <1>4

LEMMA RoutedTypes ==
    ASSUME TypeInv, NEW e \in Letter, NEW rest \in Seq(LetterFrame),
           Effect(e, rest), rx' \in Seq(Letter),
           UNCHANGED <<processes, env, firing, owed>>
    PROVE  TypeInv'
  <1>1. Routed
    BY EffectTypes
  <1> QED
    BY <1>1, LettersAreEnvelopes DEF Routed, TypeInv, TypeOK, env

(* What the branches of DrainStep come to.                                 *)
Drains(e) ==
    \/ UNCHANGED rx /\ Answers(e, Rest)
    \/ /\ e.to \in Remote /\ UNCHANGED rx
       /\ Dies \/ (stack' = Rest /\ Arrives(e) /\ UNCHANGED <<status, emitted, asked>>)
    \/ /\ e.to \notin Remote \cup {Executor} /\ rx' = Append(rx, e)
       /\ stack' = Rest /\ UNCHANGED <<status, emitted, last, asked>>

LEMMA DrainEffect ==
    ASSUME DrainStep
    PROVE  /\ stack # <<>> /\ Top.kind = "drain" /\ Top.todo # <<>>
           /\ UNCHANGED <<processes, env, firing, owed>>
           /\ Drains(Head(Top.todo))
           /\ Effect(Head(Top.todo), Rest)
  <1> DEFINE e == Head(Top.todo)
  <1>1. /\ stack # <<>> /\ Top.kind = "drain" /\ Top.todo # <<>>
        /\ UNCHANGED <<processes, env, firing, owed>>
    BY DEF DrainStep
  <1>2. CASE e.to = Executor /\ handle_executor_envelope(e, Rest) /\ UNCHANGED rx
    BY <1>1, <1>2, ExecutorEffect DEF Drains
  <1>3. CASE /\ e.to \notin Remote \cup {Executor} /\ rx' = Append(rx, e)
             /\ stack' = Rest /\ UNCHANGED <<timing, status, emitted, last, asked>>
    BY <1>1, <1>3 DEF Drains, Times, Effect, Settles, timing
  <1>4. CASE e.to \in Remote /\ Send(e, cluster_up, Rest) /\ UNCHANGED rx
    BY <1>1, <1>4, ExecutorAssumption
       DEF Send, Panic, Drains, Times, Effect, Dies, Settles, timing
  <1> QED
    BY <1>2, <1>3, <1>4 DEF DrainStep

LEMMA TypeStep ==
    ASSUME TypeInv, [Next]_vars
    PROVE  TypeInv'
  <1> <<>> \in Seq(LetterFrame) /\ <<>> \in Seq(Letter)
    OBVIOUS
  <1>1. ASSUME NEW f \in Service \cup Remote, NEW e \in Mails(f), RecvEnvelope(e)
        PROVE  TypeInv'
    <2>1. e \in Letter
      BY MailsAreLetters DEF Owner
    <2>2. rx' \in Seq(Letter)
      BY <1>1 DEF RecvEnvelope, TypeInv
    <2> QED
      BY <1>1, <2>1, <2>2, RouteEffect, RoutedTypes DEF RecvEnvelope
  <1>2. CASE RecvOwn
    <2>1. Head(rx) \in Letter /\ Tail(rx) \in Seq(Letter)
      BY <1>2 DEF RecvOwn, TypeInv
    <2> QED
      BY <1>2, <2>1, RouteEffect, RoutedTypes DEF RecvOwn
  <1>3. CASE InitStep
    <2>1. Head(Top.todo) \in Letter /\ Rest \in Seq(LetterFrame)
      BY <1>3, RestGood DEF InitStep, TypeInv
    <2>2. rx' \in Seq(Letter)
      BY <1>3 DEF InitStep, TypeInv
    <2> QED
      BY <1>3, <2>1, <2>2, RouteEffect, RoutedTypes DEF InitStep
  <1>4. CASE DrainStep
    <2>1. Head(Top.todo) \in Letter /\ Rest \in Seq(LetterFrame)
      BY <1>4, DrainEffect, RestGood DEF TypeInv
    <2>2. rx' \in Seq(Letter)
      BY <1>4, <2>1, DrainEffect DEF Drains, TypeInv
    <2> QED
      BY <1>4, <2>1, <2>2, DrainEffect, RoutedTypes
  <1>5. ASSUME NEW p \in Process, start(p)
        PROVE  TypeInv'
    <2>1. PICK out \in Outputs(p) : Returns(p, "init", out, <<>>)
      BY <1>5 DEF start
    <2>2. /\ out \in Seq(Letter) /\ emitted' \in 0 .. MaxEmit /\ asked' \subseteq Process
          /\ void' \subseteq Owner \X Cid
      BY <2>1, OutputsGood DEF Returns, TypeInv, TypeOK
    <2> DEFINE f == [kind |-> "init", todo |-> out]
    <2>3. f \in LetterFrame /\ stack' = <<f>> \o <<>>
      BY <2>1, <2>2 DEF LetterFrame, Returns
    <2> HIDE DEF f
    <2>4. stack' \in Seq(LetterFrame)
      BY <2>3
    <2> QED
      BY <1>5, <2>2, <2>4, LettersAreEnvelopes DEF start, env, TypeInv, TypeOK
  <1>6. ASSUME NEW s \in Service, get_status(s)
        PROVE  TypeInv'
    <2>1. /\ UNCHANGED <<processes, env, timing, firing, owed, rx, emitted, last, asked>>
          /\ stack' = <<>> /\ status' \in {status, "panicked"}
      BY <1>6 DEF get_status, route_to_service, Send, Panic, Arrives, Mail
    <2> QED
      BY <2>1, LettersAreEnvelopes DEF TypeInv, TypeOK, env, timing
  <1>7. ASSUME NEW k \in firing, Fire(k)
        PROVE  TypeInv'
    <2> DEFINE e == Mail(k[1], Executor, "Timeout", k[2])
    <2>1. k \in Owner \X Cid
      BY DEF TypeInv, TypeOK
    <2>2. e \in Envelope /\ e.to = k[1]
      BY <2>1, ExecutorAssumption DEF Mail, Envelope, Dest, Owner
    <2>3. /\ UNCHANGED <<processes, env, rx>> /\ firing' \subseteq firing
          /\ owed' \subseteq owed
          /\ Handle(e, <<>>) \/ UNCHANGED <<timing, stack, status, emitted, last, asked>>
      BY <1>7 DEF Fire
    <2> HIDE DEF e
    <2>4. ASSUME Handle(e, <<>>)
          PROVE  Routed
      <3>1. PICK out \in Outputs(e.to) : e.to \in processes /\ Calls(e, e.to, out, <<>>)
        BY <2>4 DEF Handle, Calls
      <3> QED
        BY <2>2, <3>1, CallTypes
    <2>5. ASSUME UNCHANGED <<timing, stack, status, emitted, last, asked>>
          PROVE  Routed
      BY <2>5 DEF TypeInv, TypeOK, timing, Routed
    <2> QED
      BY <2>3, <2>4, <2>5, LettersAreEnvelopes DEF Routed, TypeInv, TypeOK, env
  <1>8. CASE Return
    <2>1. stack' \in Seq(LetterFrame)
      BY <1>8 DEF Return, TypeInv
    <2> QED
      BY <1>8, <2>1, LettersAreEnvelopes DEF Return, TypeInv, TypeOK, env, timing
  <1>9. ASSUME NEW expired \in SUBSET timers, tick(expired)
        PROVE  TypeInv'
    BY <1>9, LettersAreEnvelopes DEF tick, TypeInv, TypeOK, env
  <1>10. ASSUME \/ \E p \in Process : stop(p)
                \/ \E s \in Service : RegisterService(s) \/ ServiceExits(s)
                \/ Shutdown \/ ClusterExits \/ UNCHANGED vars
         PROVE  TypeInv'
    BY <1>10, LettersAreEnvelopes
       DEF stop, RegisterService, ServiceExits, Shutdown, ClusterExits, vars, env, timing,
           TypeInv, TypeOK
  <1> QED
    BY <1>1, <1>2, <1>3, <1>4, <1>5, <1>6, <1>7, <1>8, <1>9, <1>10 DEF Next

LEMMA InitTypes == Init => TypeInv
  BY LettersAreEnvelopes, ExecutorAssumption DEF Init, TypeInv, TypeOK

(* Whatever processes return and whoever is gone, the executor keeps       *)
(* timers of actors with a CorrelationId, and lists of envelopes.          *)
THEOREM TypeCorrectness == Spec => []TypeOK
  <1>1. TypeInv => TypeOK
    BY DEF TypeInv
  <1> QED
    BY <1>1, InitTypes, TypeStep, PTL DEF Spec

-----------------------------------------------------------------------------
(* A timer in the wheel that its owner has cancelled: the CancelTimer is   *)
(* in a loop that has still to come to it.                                 *)

Pending(st) == UNION {Cancels(st[k].todo) : k \in 1 .. Len(st)}

CancelInv == status = "running" => void \cap timers \subseteq Pending(stack)

LEMMA PendingPush ==
    ASSUME NEW st \in Seq(LetterFrame), NEW f \in LetterFrame
    PROVE  Pending(<<f>> \o st) = Cancels(f.todo) \cup Pending(st)
  <1> DEFINE s == <<f>> \o st
  <1>1. /\ Len(st) \in Nat /\ Len(s) = Len(st) + 1 /\ s[1] = f
        /\ \A k \in 1 .. Len(st) : s[k + 1] = st[k]
    OBVIOUS
  <1> HIDE DEF s
  <1>2. \A k \in 1 .. Len(s) : k = 1 \/ (k - 1 \in 1 .. Len(st) /\ (k - 1) + 1 = k)
    BY <1>1
  <1>3. 1 \in 1 .. Len(s) /\ \A k \in 1 .. Len(st) : k + 1 \in 1 .. Len(s)
    BY <1>1
  <1>4. Pending(s) \subseteq Cancels(f.todo) \cup Pending(st)
    BY <1>1, <1>2 DEF Pending
  <1>5. Cancels(f.todo) \cup Pending(st) \subseteq Pending(s)
    BY <1>1, <1>3 DEF Pending
  <1> QED
    BY <1>4, <1>5 DEF s

LEMMA CancelsTail ==
    ASSUME NEW q \in Seq(Letter), q # <<>>
    PROVE  \A k \in Cancels(q) \ Cancels(Tail(q)) :
              Head(q).msg = "CancelTimer" /\ k = <<Head(q).from, Head(q).arg>>
  <1>1. /\ Len(q) \in Nat /\ Len(Tail(q)) = Len(q) - 1 /\ Head(q) = q[1]
        /\ DOMAIN q = 1 .. Len(q) /\ DOMAIN Tail(q) = 1 .. Len(q) - 1
        /\ \A j \in 1 .. Len(q) - 1 : Tail(q)[j] = q[j + 1]
    OBVIOUS
  <1>2. \A j \in 1 .. Len(q) : j = 1 \/ (j - 1 \in 1 .. Len(q) - 1 /\ Tail(q)[j - 1] = q[j])
    BY <1>1
  <1> SUFFICES ASSUME NEW k \in Cancels(q), k \notin Cancels(Tail(q))
               PROVE  Head(q).msg = "CancelTimer" /\ k = <<Head(q).from, Head(q).arg>>
    OBVIOUS
  <1>3. PICK j \in 1 .. Len(q) : q[j].msg = "CancelTimer" /\ k = <<q[j].from, q[j].arg>>
    BY <1>1 DEF Cancels
  <1>4. \A i \in 1 .. Len(q) - 1 : Tail(q)[i].msg = "CancelTimer" =>
           <<Tail(q)[i].from, Tail(q)[i].arg>> \in Cancels(Tail(q))
    BY <1>1 DEF Cancels
  <1>5. j = 1
    BY <1>2, <1>3, <1>4
  <1> QED
    BY <1>1, <1>3, <1>5

(* A loop that goes on gives up the cancellation it comes to, no other.    *)
LEMMA PendingRest ==
    ASSUME stack \in Seq(LetterFrame), stack # <<>>, Top.todo # <<>>
    PROVE  \A k \in Pending(stack) \ Pending(Rest) :
              /\ Head(Top.todo).msg = "CancelTimer"
              /\ k = <<Head(Top.todo).from, Head(Top.todo).arg>>
  <1>1. /\ Top \in LetterFrame /\ Top = stack[1]
        /\ Len(Rest) = Len(stack) /\ Rest[1].todo = Tail(Top.todo)
        /\ \A k \in 2 .. Len(stack) : Rest[k] = stack[k]
    BY RestGood
  <1>2. Top.todo \in Seq(Letter) /\ Len(stack) \in Nat
    BY <1>1 DEF LetterFrame
  <1>3. \A k \in 1 .. Len(stack) : k = 1 \/ k \in 2 .. Len(stack)
    BY <1>2
  <1> SUFFICES ASSUME NEW k \in Pending(stack) \ Pending(Rest)
               PROVE  k \in Cancels(Top.todo) \ Cancels(Tail(Top.todo))
    BY <1>2, CancelsTail
  <1>4. PICK i \in 1 .. Len(stack) : k \in Cancels(stack[i].todo)
    BY DEF Pending
  <1> QED
    BY <1>1, <1>3, <1>4 DEF Pending

LEMMA StampedCancels ==
    ASSUME TypeInv, NEW p \in Process, NEW out \in Outputs(p)
    PROVE  Cancels(Stamped(out)) = Cancels(out)
  <1>1. emitted \in 0 .. MaxEmit
    BY DEF TypeInv, TypeOK
  <1>2. out \in Seq(Letter) /\ DOMAIN Stamped(out) = DOMAIN out
    BY <1>1, OutputsGood DEF Stamped
  <1>3. \A k \in DOMAIN out : out[k] \in Letter
    BY <1>2
  <1>4. \A k \in DOMAIN out : /\ Stamped(out)[k].msg = out[k].msg
                              /\ Stamped(out)[k].from = out[k].from
                              /\ Stamped(out)[k].arg = out[k].arg
    BY <1>3 DEF Stamped, Letter, Envelope
  <1> QED
    BY <1>2, <1>4 DEF Cancels

LEMMA CallCancels ==
    ASSUME TypeInv, NEW rest \in Seq(LetterFrame), void \cap timers \subseteq Pending(rest),
           NEW p \in Process, NEW out \in Outputs(p), NEW kind \in {"init", "drain"},
           Returns(p, kind, out, rest), UNCHANGED timers
    PROVE  CancelInv'
  <1> DEFINE todo == IF kind = "drain" THEN Stamped(out) ELSE out
             f == [kind |-> kind, todo |-> todo]
  <1>1. emitted \in 0 .. MaxEmit
    BY DEF TypeInv, TypeOK
  <1>2. todo \in Seq(Letter) /\ Cancels(todo) = Cancels(out)
    BY <1>1, OutputsGood, StampedCancels
  <1>3. stack' = <<f>> \o rest /\ void' = void \cup Cancels(out)
    BY DEF Returns
  <1> HIDE DEF todo
  <1>4. f \in LetterFrame /\ f.todo = todo
    BY <1>2 DEF LetterFrame
  <1> HIDE DEF f
  <1>5. Pending(stack') = Cancels(out) \cup Pending(rest)
    BY <1>2, <1>3, <1>4, PendingPush
  <1> QED
    BY <1>3, <1>5 DEF CancelInv

(* Routing envelope e, when all other cancellations are pending in rest.   *)
LEMMA EffectCancels ==
    ASSUME TypeInv, NEW e \in Letter, NEW rest \in Seq(LetterFrame), Effect(e, rest),
           \A k \in void \cap timers :
              \/ k \in Pending(rest)
              \/ e.msg = "CancelTimer" /\ k = <<e.from, e.arg>> /\ e.to = Executor
    PROVE  CancelInv'
  <1>1. CASE Dies
    BY <1>1 DEF Dies, CancelInv
  <1>2. CASE Settles(e, rest)
    <2>1. stack' = rest /\ Times(e)
      BY <1>2 DEF Settles
    <2>2. CASE UNCHANGED timing /\ (e.to = Executor => e.msg # "CancelTimer")
      BY <2>1, <2>2 DEF timing, CancelInv
    <2>3. CASE e.msg = "StartTimer" /\ StartTimer(e)
      BY <2>1, <2>3 DEF StartTimer, TimerKey, CancelInv
    <2>4. CASE e.msg = "CancelTimer" /\ CancelTimer(e)
      BY <2>1, <2>4 DEF CancelTimer, TimerKey, CancelInv
    <2> QED
      BY <2>1, <2>2, <2>3, <2>4 DEF Times
  <1>3. ASSUME NEW p \in processes, NEW out \in Outputs(p), Calls(e, p, out, rest)
        PROVE  CancelInv'
    <2>1. p \in Process /\ processes \subseteq Process
      BY DEF TypeInv, TypeOK
    <2>2. e.msg = "CancelTimer" => e.to = Executor
      BY DEF Letter
    <2>3. e.msg # "CancelTimer"
      BY <1>3, <2>1, <2>2, ExecutorAssumption DEF Calls
    <2> QED
      BY <1>3, <2>1, <2>3, CallCancels DEF Calls
  <1> QED
    BY <1>1, <1>2, <1>3 DEF Effect

LEMMA CancelStep ==
    ASSUME TypeInv, CancelInv, [Next]_vars
    PROVE  CancelInv'
  <1> /\ stack \in Seq(LetterFrame) /\ <<>> \in Seq(LetterFrame)
    BY DEF TypeInv
  <1>1. Idle => void \cap timers \subseteq Pending(<<>>)
    BY DEF Idle, CancelInv
  <1>2. ASSUME NEW f \in Service \cup Remote, NEW e \in Mails(f), RecvEnvelope(e)
        PROVE  CancelInv'
    <2>1. e \in Letter
      BY MailsAreLetters DEF Owner
    <2> QED
      BY <1>1, <1>2, <2>1, RouteEffect, EffectCancels DEF RecvEnvelope
  <1>3. CASE RecvOwn
    <2>1. Head(rx) \in Letter
      BY <1>3 DEF RecvOwn, TypeInv
    <2> QED
      BY <1>1, <1>3, <2>1, RouteEffect, EffectCancels DEF RecvOwn
  <1>4. CASE InitStep \/ DrainStep
    <2> DEFINE e == Head(Top.todo)
    <2>1. /\ stack # <<>> /\ Top.todo # <<>> /\ status = "running" /\ Effect(e, Rest)
      BY <1>4, RouteEffect, DrainEffect DEF InitStep, DrainStep
    <2>2. e \in Letter /\ Rest \in Seq(LetterFrame)
      BY <2>1, RestGood
    <2>3. \A k \in void \cap timers :
             k \in Pending(Rest) \/ (e.msg = "CancelTimer" /\ k = <<e.from, e.arg>>)
      BY <2>1, PendingRest DEF CancelInv
    <2>4. e.msg = "CancelTimer" => e.to = Executor
      BY <2>2 DEF Letter
    <2> HIDE DEF e
    <2> QED
      BY <2>1, <2>2, <2>3, <2>4, EffectCancels
  <1>5. ASSUME NEW p \in Process, start(p)
        PROVE  CancelInv'
    BY <1>1, <1>5, CallCancels DEF start
  <1>6. ASSUME NEW k \in firing, Fire(k)
        PROVE  CancelInv'
    <2> DEFINE e == Mail(k[1], Executor, "Timeout", k[2])
    <2>1. /\ status = "running" /\ stack = <<>>
          /\ Handle(e, <<>>) \/ UNCHANGED <<timing, stack, status>>
      BY <1>6 DEF Fire
    <2> HIDE DEF e
    <2>2. CASE Handle(e, <<>>)
      <3>1. PICK out \in Outputs(e.to) :
               /\ e.to \in Process /\ Returns(e.to, "drain", out, <<>>) /\ UNCHANGED timers
        BY <2>2 DEF Handle, TypeInv, TypeOK
      <3>2. void \cap timers \subseteq Pending(<<>>)
        BY <2>1 DEF CancelInv
      <3> QED
        BY <3>1, <3>2, CallCancels
    <2>3. CASE UNCHANGED <<timing, stack, status>>
      BY <2>3 DEF CancelInv, timing
    <2> QED
      BY <2>1, <2>2, <2>3
  <1>7. CASE Return
    <2>1. /\ stack # <<>> /\ Top.todo = <<>> /\ stack' = Tail(stack)
          /\ UNCHANGED <<timing, status>>
      BY <1>7 DEF Return
    <2>2. Top \in LetterFrame /\ Top = stack[1] /\ Tail(stack) \in Seq(LetterFrame)
      BY <2>1, RestGood
    <2> DEFINE u == Tail(stack)
    <2>3. stack = <<Top>> \o u
      <3>1. stack = <<Head(stack)>> \o Tail(stack)
        BY <2>1
      <3> QED
        BY <3>1 DEF Top
    <2>4. Cancels(Top.todo) = {}
      <3>1. DOMAIN Top.todo = {}
        BY <2>1
      <3> QED
        BY <3>1 DEF Cancels
    <2>5. Pending(stack) = Pending(Tail(stack))
      <3>1. u \in Seq(LetterFrame)
        BY <2>2
      <3> HIDE DEF u
      <3>2. Pending(<<Top>> \o u) = Cancels(Top.todo) \cup Pending(u)
        BY <2>2, <3>1, PendingPush
      <3>3. Pending(stack) = Pending(u)
        BY <2>3, <2>4, <3>2
      <3> QED
        BY <3>3 DEF u
    <2> QED
      BY <2>1, <2>5 DEF CancelInv, timing
  <1>8. ASSUME NEW s \in Service, get_status(s)
        PROVE  CancelInv'
    BY <1>8 DEF get_status, Idle, route_to_service, Send, Panic, timing, CancelInv
  <1>9. ASSUME NEW expired \in SUBSET timers, tick(expired)
        PROVE  CancelInv'
    BY <1>9 DEF tick, CancelInv
  <1>10. ASSUME \/ \E p \in Process : stop(p)
                \/ \E s \in Service : RegisterService(s) \/ ServiceExits(s)
                \/ Shutdown \/ ClusterExits \/ UNCHANGED vars
         PROVE  CancelInv'
    BY <1>10 DEF stop, RegisterService, ServiceExits, Shutdown, ClusterExits, vars, timing,
                 CancelInv
  <1> QED
    BY <1>2, <1>3, <1>4, <1>5, <1>6, <1>7, <1>8, <1>9, <1>10 DEF Next

(* A CancelTimer that handle() or init() has returned is carried out       *)
(* before the executor takes another message, also when the calls nest:    *)
(* the loop that comes to it does not put it in the channel behind a Tick. *)
(* So no tick after that call finds the timer in the wheel, unless it was  *)
(* started again.  A tick under way that has the key already still tells   *)
(* the owner.                                                              *)
THEOREM CancelledTimersAreOut == Spec => []CancelHolds
  <1>1. Init => CancelInv
    BY DEF Init, CancelInv
  <1>2. CancelInv => CancelHolds
    BY DEF CancelInv, CancelHolds, Idle, Pending
  <1> QED
    BY <1>1, <1>2, CancelStep, InitTypes, TypeStep, PTL DEF Spec

-----------------------------------------------------------------------------
(* The stack.  Loops of start() are at its bottom and go through envelopes *)
(* without a stamp.  The output of one call has one sender; a loop over it *)
(* that is not at the top is the loop of a process that has asked for      *)
(* metrics.                                                                *)

FrameGood(f, A) ==
    IF f.kind = "init"
    THEN \A k \in 1 .. Len(f.todo) : f.todo[k].stamp = 0
    ELSE \A k \in 1 .. Len(f.todo) :
            /\ f.todo[k].msg = "GetMetrics" => f.todo[k].from \in A
            /\ \A l \in 1 .. Len(f.todo) : f.todo[k].from = f.todo[l].from

Asking(f, A) == A # {} /\ \A k \in 1 .. Len(f.todo) : f.todo[k].from \in A

Nests(st, A) ==
    \A k \in 1 .. Len(st) :
        /\ FrameGood(st[k], A)
        /\ k < Len(st) => st[k].kind = "drain"
        /\ k > 1 /\ st[k].kind = "drain" => Asking(st[k], A)

NestInv == Nests(stack, asked)

LEMMA NestsMore ==
    ASSUME NEW st \in Seq(LetterFrame), NEW A, NEW B, A \subseteq B, Nests(st, A)
    PROVE  Nests(st, B)
  BY DEF Nests, FrameGood, Asking

LEMMA NestsPush ==
    ASSUME NEW st \in Seq(LetterFrame), NEW f \in LetterFrame, NEW A,
           Nests(st, A), FrameGood(f, A), f.kind = "drain" \/ st = <<>>,
           st = <<>> \/ st[1].kind = "init" \/ Asking(st[1], A)
    PROVE  Nests(<<f>> \o st, A)
  <1> DEFINE s == <<f>> \o st
  <1>1. /\ Len(st) \in Nat /\ Len(s) = Len(st) + 1 /\ s[1] = f
        /\ \A k \in 2 .. Len(s) : s[k] = st[k - 1] /\ k - 1 \in 1 .. Len(st)
        /\ st = <<>> => Len(st) = 0
    OBVIOUS
  <1>2. st # <<>> => Len(st) > 0
    OBVIOUS
  <1> HIDE DEF s
  <1> SUFFICES ASSUME NEW k \in 1 .. Len(s)
               PROVE  /\ FrameGood(s[k], A)
                      /\ k < Len(s) => s[k].kind = "drain"
                      /\ k > 1 /\ s[k].kind = "drain" => Asking(s[k], A)
    BY DEF Nests, s
  <1>3. CASE k = 1
    BY <1>1, <1>2, <1>3
  <1>4. CASE k > 1
    <2>1. s[k] = st[k - 1] /\ k - 1 \in 1 .. Len(st) /\ k \in Nat
      BY <1>1, <1>4
    <2>2. /\ FrameGood(st[k - 1], A)
          /\ k - 1 < Len(st) => st[k - 1].kind = "drain"
          /\ k - 1 > 1 /\ st[k - 1].kind = "drain" => Asking(st[k - 1], A)
      BY <2>1 DEF Nests
    <2>3. CASE k - 1 = 1
      BY <1>1, <2>1, <2>2, <2>3
    <2>4. CASE k - 1 > 1
      BY <1>1, <2>1, <2>2, <2>4
    <2> QED
      BY <2>1, <2>3, <2>4
  <1> QED
    BY <1>3, <1>4

LEMMA NestsRest ==
    ASSUME stack \in Seq(LetterFrame), stack # <<>>, NestInv
    PROVE  /\ Nests(Tail(stack), asked)
           /\ Top.todo # <<>> => Nests(Rest, asked)
           /\ FrameGood(Top, asked)
           /\ Len(stack) > 1 /\ Tail(stack)[1].kind = "drain" => Asking(Tail(stack)[1], asked)
  <1>1. /\ Len(stack) \in Nat /\ Len(stack) > 0
        /\ Len(Tail(stack)) = Len(stack) - 1
        /\ \A k \in 1 .. Len(stack) - 1 : Tail(stack)[k] = stack[k + 1]
    OBVIOUS
  <1>2. Top = stack[1]
    BY RestGood
  <1>3. ASSUME Top.todo # <<>>
        PROVE  Nests(Rest, asked)
    <2>1. /\ Len(Rest) = Len(stack)
          /\ Rest[1].kind = Top.kind /\ Rest[1].todo = Tail(Top.todo)
          /\ \A k \in 2 .. Len(stack) : Rest[k] = stack[k]
      BY <1>3, RestGood
    <2>2. Top.todo \in Seq(Letter)
      BY RestGood DEF LetterFrame
    <2>3. /\ Len(Rest[1].todo) = Len(Top.todo) - 1 /\ Len(Top.todo) \in Nat
          /\ \A k \in 1 .. Len(Top.todo) - 1 : Rest[1].todo[k] = Top.todo[k + 1]
      BY <1>3, <2>1, <2>2
    <2>4. FrameGood(Top, asked) /\ (1 < Len(stack) => Top.kind = "drain")
      BY <1>1, <1>2 DEF NestInv, Nests
    <2>5. FrameGood(Rest[1], asked)
      BY <2>1, <2>3, <2>4 DEF FrameGood
    <2> QED
      BY <1>1, <2>1, <2>4, <2>5 DEF NestInv, Nests
  <1> QED
    BY <1>1, <1>2, <1>3 DEF NestInv, Nests

(* A call puts the loop over its output on the stack.                      *)
LEMMA CallNests ==
    ASSUME TypeInv, NEW e, NEW p \in processes, NEW out \in Outputs(p),
           NEW rest \in Seq(LetterFrame), Calls(e, p, out, rest), Nests(rest, asked),
           rest = <<>> \/ rest[1].kind = "init" \/ Asking(rest[1], asked)
    PROVE  NestInv'
  <1>1. p \in Process /\ emitted \in 0 .. MaxEmit
    BY DEF TypeInv, TypeOK
  <1> DEFINE f == [kind |-> "drain", todo |-> Stamped(out)]
  <1>2. f \in LetterFrame /\ stack' = <<f>> \o rest /\ asked \subseteq asked'
    BY <1>1, OutputsGood DEF Calls, Returns, LetterFrame
  <1>3. FrameGood(f, asked')
    <2>1. DOMAIN out = 1 .. Len(out)
      BY <1>1, OutputsGood
    <2>2. \A k \in 1 .. Len(out) : out[k].msg = "GetMetrics" => p \in asked'
      BY <2>1 DEF Calls, Returns
    <2>3. /\ Len(Stamped(out)) = Len(out)
          /\ \A k \in 1 .. Len(out) : /\ Stamped(out)[k].from = p
                                      /\ Stamped(out)[k].msg = out[k].msg
      BY <1>1, OutputsGood
    <2>4. f.kind = "drain" /\ f.todo = Stamped(out)
      OBVIOUS
    <2> HIDE DEF f
    <2> QED
      BY <2>2, <2>3, <2>4 DEF FrameGood
  <1> HIDE DEF f
  <1>4. Nests(rest, asked') /\ (rest = <<>> \/ rest[1].kind = "init" \/ Asking(rest[1], asked'))
    BY <1>2, NestsMore DEF Asking
  <1>5. f.kind = "drain"
    BY DEF f
  <1> QED
    BY <1>2, <1>3, <1>4, <1>5, NestsPush DEF NestInv

(* A loop that asks for metrics in the middle of its list.                 *)
LEMMA AskingRest ==
    ASSUME TypeInv, NestInv, stack # <<>>, Top.kind = "drain", Top.todo # <<>>,
           Head(Top.todo).msg = "GetMetrics"
    PROVE  Asking(Rest[1], asked) /\ Head(Top.todo).from \in asked
  <1>1. stack \in Seq(LetterFrame)
    BY DEF TypeInv
  <1>2. FrameGood(Top, asked)
    BY <1>1, NestsRest
  <1>3. Top.todo \in Seq(Letter) /\ Rest[1].todo = Tail(Top.todo)
    BY <1>1, RestGood DEF LetterFrame
  <1>4. /\ Head(Top.todo) = Top.todo[1] /\ Len(Top.todo) \in Nat /\ Len(Top.todo) > 0
        /\ Len(Rest[1].todo) = Len(Top.todo) - 1
        /\ \A k \in 1 .. Len(Top.todo) - 1 : Rest[1].todo[k] = Top.todo[k + 1]
    BY <1>3
  <1> HIDE DEF Top, Rest
  <1>5. 1 \in 1 .. Len(Top.todo)
        /\ \A k \in 1 .. Len(Top.todo) - 1 : k + 1 \in 1 .. Len(Top.todo)
    BY <1>4
  <1>6. Top.todo[1].from \in asked
    BY <1>2, <1>4, <1>5 DEF FrameGood
  <1>7. \A k \in 1 .. Len(Top.todo) - 1 : Top.todo[k + 1].from = Top.todo[1].from
    BY <1>2, <1>5 DEF FrameGood
  <1> QED
    BY <1>4, <1>6, <1>7 DEF Asking

(* What routing does to the stack, when the loop it returns to is the one  *)
(* of start() or there is none.                                            *)
LEMMA EffectNests ==
    ASSUME TypeInv, NEW e, NEW rest \in Seq(LetterFrame), Effect(e, rest),
           Nests(rest, asked), rest = <<>> \/ rest[1].kind = "init"
    PROVE  NestInv'
  <1>1. CASE Dies
    BY <1>1 DEF Dies, NestInv, Nests
  <1>2. CASE Settles(e, rest)
    BY <1>2 DEF Settles, NestInv
  <1> QED
    BY <1>1, <1>2, CallNests DEF Effect

LEMMA NestStep ==
    ASSUME TypeInv, NestInv, [Next]_vars
    PROVE  NestInv'
  <1> stack \in Seq(LetterFrame) /\ <<>> \in Seq(LetterFrame) /\ Nests(<<>>, asked)
    BY DEF TypeInv, Nests
  <1>1. ASSUME NEW f, NEW e \in Mails(f), RecvEnvelope(e)
        PROVE  NestInv'
    BY <1>1, RouteEffect, EffectNests DEF RecvEnvelope
  <1>2. CASE RecvOwn
    BY <1>2, RouteEffect, EffectNests DEF RecvOwn
  <1>3. CASE InitStep
    <2>1. Rest \in Seq(LetterFrame) /\ Nests(Rest, asked) /\ Rest[1].kind = "init"
      BY <1>3, RestGood, NestsRest DEF InitStep
    <2> QED
      BY <1>3, <2>1, RouteEffect, EffectNests DEF InitStep
  <1>4. CASE DrainStep
    <2> DEFINE e == Head(Top.todo)
    <2>1. Rest \in Seq(LetterFrame) /\ Nests(Rest, asked)
      BY <1>4, DrainEffect, RestGood, NestsRest
    <2>2. CASE Dies
      BY <2>2 DEF Dies, NestInv, Nests
    <2>3. CASE stack' = Rest /\ UNCHANGED asked
      BY <2>1, <2>3 DEF NestInv
    <2>4. ASSUME e.msg = "GetMetrics", e.from \in processes,
                 NEW out \in Outputs(e.from), Calls(e, e.from, out, Rest)
          PROVE  NestInv'
      BY <1>4, <2>1, <2>4, DrainEffect, AskingRest, CallNests
    <2> QED
      BY <1>4, <2>2, <2>3, <2>4, DrainEffect DEF Drains, Answers, Settles
  <1>5. ASSUME NEW p \in Process, start(p)
        PROVE  NestInv'
    <2>1. PICK out \in Outputs(p) : Returns(p, "init", out, <<>>)
      BY <1>5 DEF start
    <2> DEFINE f == [kind |-> "init", todo |-> out]
    <2>2. out \in Seq(Letter) /\ \A k \in 1 .. Len(out) : out[k].stamp = 0
      BY OutputsGood DEF TypeInv, TypeOK
    <2>3. f \in LetterFrame /\ FrameGood(f, asked') /\ stack' = <<f>> \o <<>>
      BY <2>1, <2>2 DEF LetterFrame, FrameGood, Returns
    <2> HIDE DEF f
    <2>4. Nests(<<>>, asked')
      BY DEF Nests
    <2> QED
      BY <2>3, <2>4, NestsPush DEF NestInv
  <1>6. ASSUME NEW s \in Service, get_status(s)
        PROVE  NestInv'
    BY <1>6 DEF get_status, route_to_service, Send, Panic, NestInv, Nests
  <1>7. ASSUME NEW k \in firing, Fire(k)
        PROVE  NestInv'
    <2> DEFINE e == Mail(k[1], Executor, "Timeout", k[2])
    <2>1. (Handle(e, <<>>) /\ stack = <<>>) \/ UNCHANGED <<stack, asked>>
      BY <1>7 DEF Fire
    <2> HIDE DEF e
    <2>2. Handle(e, <<>>) => Effect(e, <<>>)
      BY DEF Handle, Effect, Calls
    <2> QED
      BY <2>1, <2>2, EffectNests DEF NestInv
  <1>8. CASE Return
    BY <1>8, NestsRest DEF Return, NestInv
  <1>9. ASSUME \/ \E expired \in SUBSET timers : tick(expired)
               \/ \E p \in Process : stop(p)
               \/ \E s \in Service : RegisterService(s) \/ ServiceExits(s)
               \/ Shutdown \/ ClusterExits \/ UNCHANGED vars
        PROVE  NestInv'
    <2>1. UNCHANGED <<stack, asked>>
      BY <1>9 DEF tick, stop, RegisterService, ServiceExits, Shutdown, ClusterExits, vars
    <2> QED
      BY <2>1 DEF NestInv
  <1> QED
    BY <1>1, <1>2, <1>3, <1>4, <1>5, <1>6, <1>7, <1>8, <1>9 DEF Next

(* Without GetMetrics, one call of a process never nests in the loop over  *)
(* the output of another: at most the loop of start() is below it.         *)
THEOREM CallsNestOnlyForMetrics == Spec => []CallsDoNotNest
  <1>1. Init => NestInv
    BY DEF Init, NestInv, Nests
  <1>2. TypeInv /\ NestInv => CallsDoNotNest
    <2> SUFFICES ASSUME TypeInv, NestInv, asked = {}
                 PROVE  /\ \A k \in 2 .. Len(stack) : stack[k].kind = "init"
                        /\ Len(stack) <= 2
      BY DEF CallsDoNotNest
    <2>1. stack \in Seq(LetterFrame) /\ Len(stack) \in Nat
      BY DEF TypeInv
    <2>2. ASSUME NEW k \in 2 .. Len(stack)
          PROVE  stack[k].kind = "init" /\ ~(k < Len(stack))
      <3>1. k \in 1 .. Len(stack) /\ k > 1
        BY <2>1
      <3>2. stack[k] \in LetterFrame
        BY <2>1, <3>1
      <3>3. stack[k].kind \in {"init", "drain"}
        BY <3>2 DEF LetterFrame
      <3> QED
        BY <3>1, <3>3 DEF NestInv, Nests, Asking
    <2> QED
      BY <2>1, <2>2
  <1> QED
    BY <1>1, <1>2, InitTypes, TypeStep, NestStep, PTL DEF Spec

-----------------------------------------------------------------------------
(* Order.  What process p has returned and what has not arrived: first     *)
(* what is in the channel, in its order, then the rest of the loop at the  *)
(* top of the stack.  What has arrived at an actor, la, is earlier than    *)
(* what is on the way to it; n envelopes have been returned so far.        *)

Channeled(p, q, la, n) ==
    \A k \in 1 .. Len(q) : q[k].from = p =>
        /\ q[k].to \in Dest => la[q[k].to] <= q[k].stamp
        /\ q[k].stamp <= n
        /\ \A l \in 1 .. Len(q) : q[l].from = p /\ k < l => q[k].stamp <= q[l].stamp

Looped(p, q, todo, la, n) ==
    \A k \in 1 .. Len(todo) : todo[k].from = p =>
        /\ \A d \in Dest : la[d] <= todo[k].stamp
        /\ todo[k].stamp <= n
        /\ \A l \in 1 .. Len(q) : q[l].from = p => q[l].stamp <= todo[k].stamp
        /\ \A l \in 1 .. Len(todo) : k < l => todo[k].stamp <= todo[l].stamp

Orderly(p, q, st, la, n) ==
    /\ \A d \in Dest : la[d] <= n
    /\ Channeled(p, q, la, n)
    /\ st # <<>> /\ st[1].kind = "drain" => Looped(p, q, st[1].todo, la, n)

(* Envelopes for other nodes do not go through the channel.                *)
LocalOnly == \A k \in 1 .. Len(rx) : rx[k].to \in Dest \ Remote

OrderInv ==
    LocalOnly /\ \A p \in Process \ asked : Orderly(p, rx, stack, last[p], emitted)

Arrivals == [Dest -> 0 .. MaxEmit]

(* Envelope e arrives.                                                     *)
Row(la, e) == [la EXCEPT ![e.to] = e.stamp]

(* The order does not depend on what is below the top of the stack, and    *)
(* less on the way is as orderly.                                          *)
LEMMA OrderlyTop ==
    ASSUME NEW p, NEW q, NEW la, NEW n, NEW st, NEW u, Orderly(p, q, st, la, n),
           u = <<>> \/ u[1].kind = "init"
             \/ Looped(p, q, u[1].todo, la, n)
    PROVE  Orderly(p, q, u, la, n)
  BY DEF Orderly

LEMMA LoopedTail ==
    ASSUME NEW p, NEW q \in Seq(Letter), NEW todo \in Seq(Letter), todo # <<>>,
           NEW la \in Arrivals, NEW n \in Nat, Looped(p, q, todo, la, n)
    PROVE  Looped(p, q, Tail(todo), la, n)
  <1>1. /\ Len(todo) \in Nat /\ Len(Tail(todo)) = Len(todo) - 1
        /\ \A k \in 1 .. Len(todo) - 1 : Tail(todo)[k] = todo[k + 1] /\ k + 1 \in 1 .. Len(todo)
    OBVIOUS
  <1> QED
    BY <1>1 DEF Looped

(* The head of the channel arrives.                                        *)
LEMMA OrderlyReceive ==
    ASSUME NEW p, NEW q \in Seq(Letter), q # <<>>, NEW la \in Arrivals,
           NEW n \in 0 .. MaxEmit, Orderly(p, q, <<>>, la, n)
    PROVE  /\ Orderly(p, Tail(q), <<>>, la, n)
           /\ Head(q).from = p /\ Head(q).to \in Dest =>
                /\ la[Head(q).to] <= Head(q).stamp
                /\ Orderly(p, Tail(q), <<>>, Row(la, Head(q)), n)
  <1>1. /\ Len(q) \in Nat /\ Len(q) > 0 /\ Len(Tail(q)) = Len(q) - 1 /\ Head(q) = q[1]
        /\ \A k \in 1 .. Len(q) - 1 : Tail(q)[k] = q[k + 1] /\ k + 1 \in 1 .. Len(q)
    OBVIOUS
  <1>2. /\ \A d \in Dest : la[d] <= n
        /\ Channeled(p, q, la, n)
    BY DEF Orderly
  <1>3. Channeled(p, Tail(q), la, n)
    BY <1>1, <1>2 DEF Channeled
  <1>4. ASSUME q[1].from = p, q[1].to \in Dest
        PROVE  /\ la[q[1].to] <= q[1].stamp
               /\ Orderly(p, Tail(q), <<>>, Row(la, q[1]), n)
    <2> DEFINE lb == Row(la, q[1])
    <2>1. q[1] \in Letter
      BY <1>1
    <2>2. q[1].stamp \in 0 .. MaxEmit
      BY <2>1 DEF Letter, Envelope
    <2>3. la[q[1].to] <= q[1].stamp /\ q[1].stamp <= n
      BY <1>1, <1>2, <1>4 DEF Channeled
    <2>4. \A d \in Dest : lb[d] = IF d = q[1].to THEN q[1].stamp ELSE la[d]
      BY DEF Arrivals, Row
    <2> HIDE DEF lb
    <2>5. \A d \in Dest : lb[d] <= n
      BY <1>2, <2>3, <2>4
    <2>6. \A k \in 1 .. Len(q) - 1 : q[k + 1].from = p /\ q[k + 1].to \in Dest =>
             lb[q[k + 1].to] <= q[k + 1].stamp
      <3> SUFFICES ASSUME NEW k \in 1 .. Len(q) - 1, q[k + 1].from = p, q[k + 1].to \in Dest
                   PROVE  lb[q[k + 1].to] <= q[k + 1].stamp
        OBVIOUS
      <3>1. k + 1 \in 1 .. Len(q) /\ 1 \in 1 .. Len(q) /\ 1 < k + 1
        BY <1>1
      <3>2. la[q[k + 1].to] <= q[k + 1].stamp /\ q[1].stamp <= q[k + 1].stamp
        BY <1>2, <1>4, <3>1 DEF Channeled
      <3> QED
        BY <2>4, <3>1, <3>2
    <2>7. Channeled(p, Tail(q), lb, n)
      BY <1>1, <1>3, <2>6 DEF Channeled
    <2> QED
      BY <2>3, <2>5, <2>7 DEF Orderly, lb
  <1> QED
    BY <1>1, <1>2, <1>3, <1>4 DEF Orderly

(* The head of the loop goes into the channel ...                          *)
LEMMA LoopedAppend ==
    ASSUME NEW p, NEW q \in Seq(Letter), NEW todo \in Seq(Letter), todo # <<>>,
           NEW la \in Arrivals, NEW n \in 0 .. MaxEmit,
           Channeled(p, q, la, n), Looped(p, q, todo, la, n)
    PROVE  /\ Channeled(p, Append(q, Head(todo)), la, n)
           /\ Looped(p, Append(q, Head(todo)), Tail(todo), la, n)
  <1> DEFINE e == Head(todo)
             r == Append(q, e)
             u == Tail(todo)
  <1>1. /\ e = todo[1] /\ 1 \in 1 .. Len(todo) /\ Len(q) \in Nat /\ Len(todo) \in Nat
        /\ Len(r) = Len(q) + 1 /\ r[Len(q) + 1] = e
        /\ \A k \in 1 .. Len(q) : r[k] = q[k]
        /\ Len(u) = Len(todo) - 1
        /\ \A k \in 1 .. Len(u) : u[k] = todo[k + 1] /\ k + 1 \in 1 .. Len(todo) /\ 1 < k + 1
    OBVIOUS
  <1> HIDE DEF e, r, u
  <1>2. \A k \in 1 .. Len(r) : k \in 1 .. Len(q) \/ k = Len(q) + 1
    BY <1>1
  <1>3. e.from = p => /\ \A d \in Dest : la[d] <= e.stamp
                      /\ e.stamp <= n
                      /\ \A l \in 1 .. Len(q) : q[l].from = p => q[l].stamp <= e.stamp
                      /\ \A k \in 1 .. Len(u) : e.stamp <= u[k].stamp
    BY <1>1 DEF Looped
  <1>4. Channeled(p, r, la, n)
    <2> SUFFICES ASSUME NEW k \in 1 .. Len(r), r[k].from = p
                 PROVE  /\ r[k].to \in Dest => la[r[k].to] <= r[k].stamp
                        /\ r[k].stamp <= n
                        /\ \A l \in 1 .. Len(r) :
                              r[l].from = p /\ k < l => r[k].stamp <= r[l].stamp
      BY DEF Channeled
    <2>1. CASE k \in 1 .. Len(q)
      <3>1. /\ q[k].to \in Dest => la[q[k].to] <= q[k].stamp
            /\ q[k].stamp <= n
            /\ \A l \in 1 .. Len(q) : q[l].from = p /\ k < l => q[k].stamp <= q[l].stamp
        BY <1>1, <2>1 DEF Channeled
      <3>2. e.from = p => q[k].stamp <= e.stamp
        BY <1>1, <1>3, <2>1
      <3> QED
        BY <1>1, <1>2, <2>1, <3>1, <3>2
    <2>2. CASE k = Len(q) + 1
      <3>1. \A l \in 1 .. Len(r) : ~(k < l)
        BY <1>1, <2>2
      <3> QED
        BY <1>1, <1>3, <2>2, <3>1
    <2> QED
      BY <1>2, <2>1, <2>2
  <1>5. Looped(p, q, u, la, n)
    BY LoopedTail DEF u, Arrivals
  <1>6. Looped(p, r, u, la, n)
    BY <1>1, <1>2, <1>3, <1>5 DEF Looped
  <1> QED
    BY <1>4, <1>6 DEF e, r, u

(* ... or, by way of the cluster server, to another node.                  *)
LEMMA LoopedSend ==
    ASSUME NEW p, NEW q \in Seq(Letter), NEW todo \in Seq(Letter), todo # <<>>,
           NEW la \in Arrivals, NEW n \in 0 .. MaxEmit,
           Channeled(p, q, la, n), Looped(p, q, todo, la, n), \A d \in Dest : la[d] <= n,
           NEW e, e = Head(todo), e.from = p, e.to \in Remote,
           \A k \in 1 .. Len(q) : q[k].to \in Dest \ Remote
    PROVE  /\ \A d \in Dest : Row(la, e)[d] <= n /\ la[d] <= Row(la, e)[d]
           /\ Channeled(p, q, Row(la, e), n) /\ Looped(p, q, Tail(todo), Row(la, e), n)
  <1> DEFINE u == Tail(todo)
             lb == Row(la, e)
  <1>1. /\ e = todo[1] /\ 1 \in 1 .. Len(todo) /\ e \in Letter
        /\ Len(u) = Len(todo) - 1 /\ Len(todo) \in Nat
        /\ \A k \in 1 .. Len(u) : u[k] = todo[k + 1] /\ k + 1 \in 1 .. Len(todo) /\ 1 < k + 1
    OBVIOUS
  <1>2. \A d \in Dest : lb[d] = IF d = e.to THEN e.stamp ELSE la[d]
    BY DEF Arrivals, Row
  <1>3. /\ e.from = p /\ e.to \in Remote /\ e.stamp \in 0 .. MaxEmit
    BY <1>1 DEF Letter, Envelope
  <1>4. Looped(p, q, u, la, n)
    BY LoopedTail
  <1> HIDE DEF u, lb
  <1>5. /\ \A d \in Dest : la[d] <= e.stamp
        /\ e.stamp <= n
        /\ \A k \in 1 .. Len(u) : e.stamp <= u[k].stamp
    BY <1>1, <1>3 DEF Looped
  <1>6. \A d \in Dest : lb[d] <= n /\ la[d] <= lb[d]
    BY <1>2, <1>5 DEF Arrivals
  <1>7. Channeled(p, q, lb, n)
    BY <1>2, <1>3 DEF Channeled
  <1>8. Looped(p, q, u, lb, n)
    BY <1>2, <1>4, <1>5 DEF Looped
  <1> QED
    BY <1>6, <1>7, <1>8 DEF u, lb

(* A call returns envelopes that are later than all that is on the way.    *)
LEMMA OrderlyCall ==
    ASSUME emitted \in 0 .. MaxEmit, NEW p, NEW q \in Seq(Letter), NEW st, NEW la \in Arrivals,
           Orderly(p, q, st, la, emitted), NEW r \in Process, NEW out \in Outputs(r), NEW u,
           u # <<>> => u[1].todo = Stamped(out) \/ u[1].kind = "init"
    PROVE  Orderly(p, q, u, la, emitted + Len(out))
  <1> DEFINE s == Stamped(out)
             m == emitted + Len(out)
  <1>1. /\ Len(out) \in Nat /\ m \in 0 .. MaxEmit /\ Len(s) = Len(out) /\ emitted \in Nat
        /\ \A k \in 1 .. Len(out) : s[k].stamp = emitted + k
    BY OutputsGood
  <1>2. /\ \A d \in Dest : la[d] \in Nat
        /\ \A l \in 1 .. Len(q) : q[l].stamp \in Nat
    <2>1. \A l \in 1 .. Len(q) : q[l] \in Letter
      OBVIOUS
    <2> QED
      BY <2>1 DEF Letter, Envelope, Arrivals
  <1>3. /\ \A d \in Dest : la[d] <= emitted
        /\ Channeled(p, q, la, emitted)
    BY DEF Orderly
  <1> HIDE DEF s, m
  <1>4. emitted <= m /\ m \in Nat /\ \A k \in 1 .. Len(out) : emitted <= emitted + k /\ emitted + k <= m
    BY <1>1 DEF m
  <1>5. Channeled(p, q, la, m) /\ \A d \in Dest : la[d] <= m
    BY <1>1, <1>2, <1>3, <1>4 DEF Channeled
  <1>6. Looped(p, q, s, la, m)
    <2> SUFFICES ASSUME NEW k \in 1 .. Len(out)
                 PROVE  /\ \A d \in Dest : la[d] <= s[k].stamp
                        /\ s[k].stamp <= m
                        /\ \A l \in 1 .. Len(q) : q[l].from = p => q[l].stamp <= s[k].stamp
                        /\ \A l \in 1 .. Len(out) : k < l => s[k].stamp <= s[l].stamp
      BY <1>1 DEF Looped
    <2>1. s[k].stamp = emitted + k /\ emitted <= emitted + k /\ emitted + k <= m
      BY <1>1, <1>4
    <2>2. \A l \in 1 .. Len(q) : q[l].from = p => q[l].stamp <= emitted
      BY <1>3 DEF Channeled
    <2> QED
      BY <1>1, <1>2, <1>3, <1>4, <2>1, <2>2
  <1> QED
    BY <1>5, <1>6 DEF Orderly, s, m

LEMMA EffectLast ==
    ASSUME NEW e, NEW rest, Effect(e, rest)
    PROVE  (last' = last \/ Arrives(e)) /\ (e.stamp = 0 => last' = last)
  BY DEF Effect, Dies, Settles, Calls, Arrives

LEMMA LastRow ==
    ASSUME TypeInv, NEW p \in Process
    PROVE  /\ last[p] \in Arrivals /\ \A d \in Dest : last[p][d] \in Nat
           /\ \A e : Arrives(e) =>
                 \/ last'[p] = last[p]
                 \/ e.from = p /\ last'[p] = Row(last[p], e)
  <1>1. last \in [Process -> [Dest -> 0 .. MaxEmit]]
    BY DEF TypeInv, TypeOK
  <1>2. ASSUME NEW e, Arrives(e)
        PROVE  \/ last'[p] = last[p]
               \/ e.from = p /\ last'[p] = Row(last[p], e)
    <2>1. CASE e.from = p
      BY <1>1, <1>2, <2>1 DEF Arrives, Row
    <2>2. CASE e.from # p
      BY <1>1, <1>2, <2>2 DEF Arrives
    <2> QED
      BY <2>1, <2>2
  <1>3. last[p] \in [Dest -> 0 .. MaxEmit]
    BY <1>1
  <1> QED
    BY <1>2, <1>3 DEF Arrivals

(* Order after routing, if what has arrived by it is in order.             *)
LEMMA EffectOrderly ==
    ASSUME TypeInv, NEW p, last'[p] \in Arrivals, rx' \in Seq(Letter),
           Orderly(p, rx', <<>>, last'[p], emitted),
           NEW e, NEW rest \in Seq(LetterFrame), Effect(e, rest),
           rest = <<>> \/ rest[1].kind = "init"
    PROVE  Orderly(p, rx', stack', last'[p], emitted')
  <1>1. CASE Dies
    BY <1>1 DEF Dies
  <1>2. CASE Settles(e, rest)
    <2>1. Orderly(p, rx', rest, last'[p], emitted)
      BY OrderlyTop
    <2> QED
      BY <1>2, <2>1 DEF Settles
  <1>3. ASSUME NEW r \in processes, NEW out \in Outputs(r), Calls(e, r, out, rest)
        PROVE  Orderly(p, rx', stack', last'[p], emitted')
    <2> DEFINE f == [kind |-> "drain", todo |-> Stamped(out)]
    <2>1. r \in Process /\ emitted \in 0 .. MaxEmit
      BY DEF TypeInv, TypeOK
    <2>2. stack' = <<f>> \o rest /\ emitted' = emitted + Len(out) /\ f.todo = Stamped(out)
      BY <1>3 DEF Calls, Returns
    <2>3. f \in LetterFrame
      BY <2>1, OutputsGood DEF LetterFrame
    <2> HIDE DEF f
    <2>4. stack'[1] = f
      BY <2>2, <2>3
    <2> QED
      BY <2>1, <2>2, <2>4, OrderlyCall
  <1> QED
    BY <1>1, <1>2, <1>3 DEF Effect

(* No step is out of order for a process that has not asked for metrics.   *)
Advances(p) ==
    /\ Orderly(p, rx', stack', last'[p], emitted')
    /\ \A d \in Dest : last[p][d] <= last'[p][d]

LEMMA DrainAdvances ==
    ASSUME TypeInv, NestInv, OrderInv, DrainStep, NEW p \in Process \ asked
    PROVE  Advances(p)
  <1> DEFINE e == Head(Top.todo)
             todo == Top.todo
             la == last[p]
  <1>1. /\ stack \in Seq(LetterFrame) /\ rx \in Seq(Letter) /\ emitted \in 0 .. MaxEmit
        /\ stack # <<>> /\ Top.kind = "drain" /\ todo # <<>>
    BY DrainEffect DEF TypeInv, TypeOK
  <1>2. /\ Top \in LetterFrame /\ Top = stack[1] /\ todo \in Seq(Letter)
        /\ Rest[1].kind = "drain" /\ Rest[1].todo = Tail(todo)
    BY <1>1, RestGood DEF LetterFrame
  <1>3. la \in Arrivals /\ \A d \in Dest : la[d] <= la[d]
    BY LastRow
  <1>4. /\ \A d \in Dest : la[d] <= emitted
        /\ Channeled(p, rx, la, emitted) /\ Looped(p, rx, todo, la, emitted)
    BY <1>1, <1>2 DEF OrderInv, Orderly
  <1>5. Looped(p, rx, Tail(todo), la, emitted)
    BY <1>1, <1>2, <1>3, <1>4, LoopedTail
  <1> HIDE DEF e, todo, la
  <1>6. ASSUME Channeled(p, rx', last'[p], emitted), Looped(p, rx', Tail(todo), last'[p], emitted),
               \A d \in Dest : last'[p][d] <= emitted /\ la[d] <= last'[p][d],
               stack' = Rest, UNCHANGED emitted
        PROVE  Advances(p)
    BY <1>2, <1>6 DEF Advances, Orderly, la
  <1>7. CASE Dies /\ UNCHANGED rx
    BY <1>3, <1>4, <1>7 DEF Dies, Advances, Orderly, la
  <1>8. CASE Settles(e, Rest) /\ UNCHANGED <<rx, last>>
    <2>1. last'[p] = la
      BY <1>8 DEF la
    <2> QED
      BY <1>3, <1>4, <1>5, <1>6, <1>8, <2>1 DEF Settles
  <1>9. ASSUME e.msg = "GetMetrics", e.from \in processes, UNCHANGED <<rx, last>>,
               NEW out \in Outputs(e.from), Calls(e, e.from, out, Rest)
        PROVE  Advances(p)
    <2>1. e.from \in Process
      BY <1>9 DEF TypeInv, TypeOK
    <2> DEFINE f == [kind |-> "drain", todo |-> Stamped(out)]
    <2>2. stack' = <<f>> \o Rest /\ emitted' = emitted + Len(out) /\ f.todo = Stamped(out)
      BY <1>9 DEF Calls, Returns
    <2>3. f \in LetterFrame /\ Rest \in Seq(LetterFrame)
      BY <1>1, <2>1, OutputsGood, RestGood DEF LetterFrame, todo
    <2> HIDE DEF f
    <2>4. stack'[1] = f
      BY <2>2, <2>3
    <2>5. Orderly(p, rx, stack, la, emitted)
      BY DEF OrderInv, la
    <2>6. Orderly(p, rx, stack', la, emitted')
      BY <1>1, <1>3, <2>1, <2>2, <2>4, <2>5, OrderlyCall
    <2> QED
      BY <1>3, <1>9, <2>6 DEF Advances, la
  <1>10. CASE /\ e.to \in Remote /\ UNCHANGED <<rx, emitted>> /\ stack' = Rest /\ Arrives(e)
    <2>1. CASE last'[p] = la
      BY <1>3, <1>4, <1>5, <1>6, <1>10, <2>1
    <2>2. CASE e.from = p /\ last'[p] = Row(la, e)
      <3>1. \A k \in 1 .. Len(rx) : rx[k].to \in Dest \ Remote
        BY DEF OrderInv, LocalOnly
      <3>2. e = Head(todo)
        BY DEF e, todo
      <3>3. /\ \A d \in Dest : last'[p][d] <= emitted /\ la[d] <= last'[p][d]
            /\ Channeled(p, rx, last'[p], emitted)
            /\ Looped(p, rx, Tail(todo), last'[p], emitted)
        <4>1. e.from = p /\ e.to \in Remote
          BY <1>10, <2>2
        <4>2. /\ \A d \in Dest : Row(la, e)[d] <= emitted /\ la[d] <= Row(la, e)[d]
              /\ Channeled(p, rx, Row(la, e), emitted)
              /\ Looped(p, rx, Tail(todo), Row(la, e), emitted)
          BY <1>1, <1>2, <1>3, <1>4, <3>1, <3>2, <4>1, LoopedSend
        <4> QED
          BY <2>2, <4>2
      <3> QED
        BY <1>6, <1>10, <3>3
    <2> QED
      BY <1>10, <2>1, <2>2, LastRow DEF la
  <1>11. CASE rx' = Append(rx, e) /\ stack' = Rest /\ UNCHANGED <<emitted, last>>
    <2>1. last'[p] = la /\ e = Head(todo)
      BY <1>11 DEF la, e, todo
    <2>2. Channeled(p, rx', la, emitted) /\ Looped(p, rx', Tail(todo), la, emitted)
      BY <1>1, <1>2, <1>3, <1>4, <1>11, <2>1, LoopedAppend
    <2> QED
      BY <1>3, <1>4, <1>6, <1>11, <2>1, <2>2
  <1>12. Drains(e)
    BY DrainEffect DEF e
  <1> QED
    BY <1>7, <1>8, <1>9, <1>10, <1>11, <1>12 DEF Drains, Answers, Dies

LEMMA OrderStep ==
    ASSUME TypeInv, TypeInv', NestInv, OrderInv, [Next]_vars, NEW p \in Process \ asked'
    PROVE  Advances(p)
  <1> DEFINE la == last[p]
  <1>1. /\ stack \in Seq(LetterFrame) /\ rx \in Seq(Letter) /\ emitted \in 0 .. MaxEmit
        /\ <<>> \in Seq(LetterFrame) /\ rx' \in Seq(Letter)
    BY DEF TypeInv, TypeOK
  <1>2. la \in Arrivals /\ last'[p] \in Arrivals /\ \A d \in Dest : la[d] <= la[d]
    <2>1. last'[p] \in Arrivals
      BY DEF TypeInv, TypeOK, Arrivals
    <2> QED
      BY <2>1, LastRow
  <1>3. p \in Process \ asked => Orderly(p, rx, stack, la, emitted)
    BY DEF OrderInv
  <1>4. asked \subseteq asked' => p \in Process \ asked
    OBVIOUS
  <1> DEFINE Asks == asked \subseteq asked'
  <1>5. ASSUME Asks, Orderly(p, rx, stack, la, emitted), UNCHANGED rx, last' = last,
               NEW e, NEW rest \in Seq(LetterFrame), Effect(e, rest),
               rest = <<>> \/ rest[1].kind = "init"
        PROVE  Advances(p)
    <2>1. Orderly(p, rx', <<>>, last'[p], emitted)
      BY <1>5, OrderlyTop
    <2>2. Orderly(p, rx', stack', last'[p], emitted')
      BY <1>1, <1>2, <1>5, <2>1, EffectOrderly
    <2> QED
      BY <1>2, <1>5, <2>2 DEF Advances
  <1>6. ASSUME NEW e, NEW rest, Effect(e, rest)
        PROVE  Asks
    BY <1>6 DEF Effect, Dies, Settles, Calls, Returns
  <1> HIDE DEF la
  <1>7. ASSUME NEW f \in Service \cup Remote, NEW e \in Mails(f), RecvEnvelope(e)
        PROVE  Advances(p)
    <2>1. e.stamp = 0
      BY MailsAreLetters DEF Owner
    <2>2. Effect(e, <<>>) /\ UNCHANGED rx
      BY <1>7, RouteEffect DEF RecvEnvelope
    <2> QED
      BY <1>1, <1>3, <1>4, <1>5, <1>6, <2>1, <2>2, EffectLast
  <1>8. CASE RecvOwn
    <2> DEFINE e == Head(rx)
    <2>1. rx # <<>> /\ stack = <<>> /\ rx' = Tail(rx) /\ Effect(e, <<>>)
      BY <1>8, RouteEffect DEF RecvOwn, Idle
    <2>2. Orderly(p, rx, <<>>, la, emitted)
      BY <1>3, <1>4, <1>6, <2>1
    <2>3. e.to \in Dest
      <3>1. 1 \in 1 .. Len(rx) /\ e = rx[1]
        BY <1>1, <2>1
      <3> QED
        BY <3>1 DEF OrderInv, LocalOnly
    <2>4. /\ Orderly(p, Tail(rx), <<>>, la, emitted)
          /\ e.from = p => la[e.to] <= e.stamp /\ Orderly(p, Tail(rx), <<>>, Row(la, e), emitted)
      BY <1>1, <1>2, <2>1, <2>2, <2>3, OrderlyReceive
    <2> HIDE DEF e
    <2>5. last'[p] = la \/ (e.from = p /\ last'[p] = Row(la, e))
      BY <2>1, EffectLast, LastRow DEF la
    <2>6. /\ Orderly(p, rx', <<>>, last'[p], emitted)
          /\ \A d \in Dest : la[d] <= last'[p][d]
      <3>1. CASE last'[p] = la
        BY <1>2, <2>1, <2>4, <3>1
      <3>2. CASE e.from = p /\ last'[p] = Row(la, e)
        <4>1. \A d \in Dest : Row(la, e)[d] = IF d = e.to THEN e.stamp ELSE la[d]
          BY <1>2 DEF Arrivals, Row
        <4>2. \A d \in Dest : la[d] <= Row(la, e)[d]
          BY <1>2, <2>4, <3>2, <4>1
        <4> QED
          BY <2>1, <2>4, <3>2, <4>2
      <3> QED
        BY <2>5, <3>1, <3>2
    <2>7. Orderly(p, rx', stack', last'[p], emitted')
      BY <1>1, <1>2, <2>1, <2>6, EffectOrderly
    <2> QED
      BY <2>6, <2>7 DEF Advances, la
  <1>9. CASE InitStep
    <2> DEFINE e == Head(Top.todo)
    <2>1. /\ stack # <<>> /\ Top.kind = "init" /\ Top.todo # <<>>
          /\ Effect(e, Rest) /\ UNCHANGED rx
      BY <1>9, RouteEffect DEF InitStep
    <2>2. /\ Rest \in Seq(LetterFrame) /\ Rest[1].kind = "init"
          /\ Top.todo \in Seq(Letter) /\ FrameGood(Top, asked)
      BY <1>1, <2>1, RestGood, NestsRest DEF LetterFrame
    <2>3. e.stamp = 0
      <3>1. e = Top.todo[1] /\ 1 \in 1 .. Len(Top.todo)
        BY <2>1, <2>2
      <3> QED
        BY <2>1, <2>2, <3>1 DEF FrameGood
    <2> QED
      BY <1>3, <1>4, <1>5, <1>6, <2>1, <2>2, <2>3, EffectLast
  <1>10. CASE DrainStep
    BY <1>4, <1>6, <1>10, DrainEffect, DrainAdvances
  <1>11. ASSUME NEW r \in Process, start(r)
         PROVE  Advances(p)
    <2>1. PICK out \in Outputs(r) : Returns(r, "init", out, <<>>)
      BY <1>11 DEF start
    <2> DEFINE f == [kind |-> "init", todo |-> out]
    <2>2. /\ emitted' = emitted + Len(out) /\ stack' = <<f>> \o <<>>
          /\ UNCHANGED <<rx, last>> /\ Asks
      BY <1>11, <2>1 DEF start, Returns
    <2>3. f.kind = "init" /\ (<<f>> \o <<>>)[1] = f
      OBVIOUS
    <2> HIDE DEF f
    <2>4. Orderly(p, rx, stack', la, emitted')
      BY <1>1, <1>2, <1>3, <1>4, <2>2, <2>3, OrderlyCall
    <2> QED
      BY <1>2, <2>2, <2>4 DEF Advances, la
  <1>12. ASSUME NEW s \in Service, get_status(s)
         PROVE  Advances(p)
    <2>1. UNCHANGED <<rx, emitted, last, asked>> /\ stack' = <<>>
      BY <1>12 DEF get_status, route_to_service, Send, Panic, Arrives, Mail
    <2>2. Orderly(p, rx, <<>>, la, emitted)
      BY <1>3, <1>4, <2>1, OrderlyTop
    <2> QED
      BY <1>2, <2>1, <2>2 DEF Advances, la
  <1>13. ASSUME NEW k \in firing, Fire(k)
         PROVE  Advances(p)
    <2> DEFINE e == Mail(k[1], Executor, "Timeout", k[2])
    <2>1. /\ UNCHANGED rx
          /\ (Handle(e, <<>>) \/ UNCHANGED <<stack, emitted, last, asked>>)
      BY <1>13 DEF Fire
    <2>2. e.stamp = 0
      BY DEF Mail
    <2> HIDE DEF e
    <2>3. CASE Handle(e, <<>>)
      <3>1. Effect(e, <<>>)
        BY <2>3 DEF Handle, Effect, Calls
      <3> QED
        BY <1>1, <1>3, <1>4, <1>5, <1>6, <2>1, <2>2, <3>1, EffectLast
    <2>4. CASE UNCHANGED <<stack, emitted, last, asked>>
      BY <1>2, <1>3, <1>4, <2>1, <2>4 DEF Advances, la
    <2> QED
      BY <2>1, <2>3, <2>4
  <1>14. CASE Return
    <2>1. /\ stack # <<>> /\ stack' = Tail(stack) /\ UNCHANGED <<rx, emitted, last, asked>>
      BY <1>14 DEF Return
    <2> DEFINE u == Tail(stack)
    <2>2. u = <<>> \/ (Len(stack) > 1 /\ u[1] \in LetterFrame)
      BY <1>1, <2>1
    <2>3. u # <<>> /\ u[1].kind = "drain" => Asking(u[1], asked)
      BY <1>1, <2>1, <2>2, NestsRest
    <2>4. u = <<>> \/ u[1].kind = "init" \/ Looped(p, rx, u[1].todo, la, emitted)
      BY <1>4, <2>1, <2>2, <2>3 DEF LetterFrame, Asking, Looped
    <2> HIDE DEF u
    <2>5. Orderly(p, rx, u, la, emitted)
      BY <1>3, <1>4, <2>1, <2>4, OrderlyTop
    <2> QED
      BY <1>2, <2>1, <2>5 DEF Advances, la, u
  <1>15. ASSUME \/ \E expired \in SUBSET timers : tick(expired)
                \/ \E r \in Process : stop(r)
                \/ \E s \in Service : RegisterService(s) \/ ServiceExits(s)
                \/ Shutdown \/ ClusterExits \/ UNCHANGED vars
         PROVE  Advances(p)
    <2>1. UNCHANGED <<rx, stack, emitted, last, asked>>
      BY <1>15 DEF tick, stop, RegisterService, ServiceExits, Shutdown, ClusterExits, vars
    <2> QED
      BY <1>2, <1>3, <1>4, <2>1 DEF Advances, la
  <1> QED
    BY <1>7, <1>8, <1>9, <1>10, <1>11, <1>12, <1>13, <1>14, <1>15 DEF Next

LEMMA LocalStep ==
    ASSUME TypeInv, LocalOnly, [Next]_vars
    PROVE  LocalOnly'
  <1>1. rx \in Seq(Letter) /\ stack \in Seq(LetterFrame)
    BY DEF TypeInv
  <1>2. CASE UNCHANGED rx
    BY <1>2 DEF LocalOnly
  <1>3. CASE RecvOwn
    <2>1. rx' = Tail(rx) /\ rx # <<>>
      BY <1>3 DEF RecvOwn
    <2>2. Len(rx') = Len(rx) - 1 /\ \A k \in 1 .. Len(rx') : rx'[k] = rx[k + 1] /\ k + 1 \in 1 .. Len(rx)
      BY <1>1, <2>1
    <2> QED
      BY <2>2 DEF LocalOnly
  <1>4. ASSUME DrainStep, NEW e \in Letter, e.to \notin Remote \cup {Executor}, rx' = Append(rx, e)
        PROVE  LocalOnly'
    <2>1. e.to \in Dest \ Remote
      BY <1>4 DEF Letter, Envelope
    <2>2. /\ Len(rx') = Len(rx) + 1 /\ Len(rx) \in Nat /\ rx'[Len(rx) + 1] = e
          /\ \A k \in 1 .. Len(rx) : rx'[k] = rx[k]
      BY <1>1, <1>4
    <2>3. \A k \in 1 .. Len(rx') : k \in 1 .. Len(rx) \/ k = Len(rx) + 1
      BY <2>2
    <2> QED
      BY <2>1, <2>2, <2>3 DEF LocalOnly
  <1>5. CASE DrainStep
    <2>1. Head(Top.todo) \in Letter
      BY <1>1, <1>5, DrainEffect, RestGood
    <2> QED
      BY <1>2, <1>4, <1>5, <2>1, DrainEffect DEF Drains
  <1>6. CASE ~RecvOwn /\ ~DrainStep
    <2>1. UNCHANGED rx
      BY <1>6 DEF Next, RecvEnvelope, start, stop, RegisterService, get_status, ServiceExits,
                  tick, Fire, InitStep, Return, Shutdown, ClusterExits, vars
    <2> QED
      BY <1>2, <2>1
  <1> QED
    BY <1>3, <1>5, <1>6

(* What a process returns reaches every actor in the order in which it was *)
(* returned, whether it goes through the channel or not, as long as the    *)
(* process does not ask for metrics.                                       *)
THEOREM ProcessOutputInOrder == Spec => OutputInOrder
  <1> DEFINE Inv == TypeInv /\ NestInv /\ OrderInv
             A == \A p \in Process \ asked', d \in Dest : last[p][d] <= last'[p][d]
  <1>1. Init => Inv
    <2>1. Init => NestInv
      BY DEF Init, NestInv, Nests
    <2>2. Init => OrderInv
      <3> SUFFICES ASSUME Init PROVE OrderInv
        OBVIOUS
      <3>1. \A p \in Process, d \in Dest : last[p][d] = 0
        BY DEF Init
      <3> QED
        BY <3>1 DEF Init, OrderInv, LocalOnly, Orderly, Channeled
    <2> QED
      BY <2>1, <2>2, InitTypes
  <1>2. Inv /\ [Next]_vars => Inv' /\ A
    <2> SUFFICES ASSUME Inv, [Next]_vars
                 PROVE  Inv' /\ A
      OBVIOUS
    <2>1. TypeInv' /\ NestInv' /\ LocalOnly'
      BY TypeStep, NestStep, LocalStep DEF OrderInv
    <2>2. \A p \in Process \ asked' : Advances(p)
      BY <2>1, OrderStep
    <2> QED
      BY <2>1, <2>2 DEF Advances, OrderInv
  <1>3. Inv /\ [Next]_vars => [A]_vars
    BY <1>2
  <1> HIDE DEF Inv, A
  <1>4. Spec => []Inv
    BY <1>1, <1>2, PTL DEF Spec
  <1>5. Spec => [][A]_vars
    BY <1>3, <1>4, PTL DEF Spec
  <1> QED
    BY <1>5 DEF OutputInOrder, A
=============================================================================
