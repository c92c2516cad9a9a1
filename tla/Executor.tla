------------------------------ MODULE Executor ------------------------------
(***************************************************************************)
(* The executor thread of one node (src/executor/executor.rs): it calls    *)
(* the processes, routes the envelopes they return and keeps their timers. *)
(* Processes are arbitrary: a call of init or handle may return any short  *)
(* list of envelopes.                                                      *)
(*                                                                         *)
(* rx holds the envelopes that the executor has put on its own channel.    *)
(* What other threads put there may arrive between any two of them, so it  *)
(* is taken to arrive when it is handled.  stack is the call stack of the  *)
(* routing loops: "init" is the loop of start(), "drain" the one of        *)
(* route_to_process, each with the envelopes it has still to go through;   *)
(* firing is what is left of the loop of tick().                           *)
(*                                                                         *)
(* The timer wheel (ferris::CopyWheel, an external crate) is the set of    *)
(* the timers started; which of them expire at a tick is left open.        *)
(***************************************************************************)
EXTENDS Naturals, Sequences

CONSTANTS Process, Service, Remote,  \* Pids: local processes and services, others
          Executor, ClusterServer,   \* rabble::executor and rabble::cluster_server
          Ungrouped,    \* local Pids named cluster_server, with no group
          Cid, NoCid,   \* CorrelationIds of timers; None
          SharedCid,    \* those that not only processes use: a bound
          MaxOutput,    \* envelopes returned by one call of a process
          MaxEmit       \* envelopes returned by all processes

ASSUME ExecutorAssumption ==
    /\ {MaxOutput, MaxEmit} \subseteq Nat /\ SharedCid \subseteq Cid
    /\ Executor \notin Process \cup Service \cup Remote
    /\ Process \cap (Service \cup Remote \cup {ClusterServer} \cup Ungrouped) = {}

VARIABLES
    processes, services,    \* the Pids in the HashMaps
    gone,                   \* services whose receiver has been dropped
    cluster_up,             \* the cluster server still holds its receiver
    timers, firing,         \* the wheel, and the rest of the expired keys
    rx, stack,
    status,                 \* "running", "stopped" or "panicked"
    emitted,                \* envelopes returned by processes so far
    last,                   \* history: stamp of what last came from p to d
    asked,                  \* history: processes that have sent GetMetrics
    owed,                   \* history: expired, the owner not told
    void,                   \* history: cancelled by their process, not started since
    own                     \* history: started by processes that are there

vars == <<processes, services, gone, cluster_up, timers, firing, rx, stack,
          status, emitted, last, asked, owed, void, own>>
env == <<services, gone, cluster_up>>
timing == <<timers, void, own>>

Dest  == Process \cup Service \cup Remote \cup {ClusterServer} \cup Ungrouped
Owner == Process \cup Service \cup Remote

(* A User message stands for every message that means nothing to the       *)
(* executor.  cid is the correlation_id of the envelope, arg the one that  *)
(* CancelTimer carries.  The stamp is the number of an envelope in the     *)
(* order in which handle() calls returned them, 0 for all others.          *)
Envelope == [to : Dest \cup {Executor}, from : Owner \cup {Executor},
             msg : {"User", "StartTimer", "CancelTimer", "GetMetrics", "Metrics",
                    "Timeout", "ExecutorStatus"},
             cid : Cid \cup {NoCid}, arg : Cid \cup {NoCid}, stamp : 0 .. MaxEmit]

Mail(to, from, msg, cid) ==
    [to |-> to, from |-> from, msg |-> msg, cid |-> cid, arg |-> NoCid, stamp |-> 0]

Cids(from) == IF from \in Process THEN Cid ELSE SharedCid

(* What an actor may send: to another actor, or to the executor.           *)
Mails(from) ==
    {Mail(d, from, "User", NoCid) : d \in Dest \cup {Executor}} \cup
    {Mail(Executor, from, "StartTimer", c) : c \in Cids(from)} \cup
    {[Mail(Executor, from, "CancelTimer", NoCid) EXCEPT !.arg = c] : c \in Cids(from)} \cup
    {Mail(Executor, from, "GetMetrics", NoCid)}

(* The lists of envelopes that a call of p may return.                     *)
Outputs(p) ==
    UNION {[1 .. n -> Mails(p)] : n \in {n \in 0 .. MaxOutput : emitted + n <= MaxEmit}}

Stamped(out) == [k \in DOMAIN out |-> [out[k] EXCEPT !.stamp = emitted + k]]

(* The timers that a list of envelopes cancels.                            *)
Cancels(out) ==
    {<<out[k].from, out[k].arg>> : k \in {k \in DOMAIN out : out[k].msg = "CancelTimer"}}

Frame == [kind : {"init", "drain"}, todo : Seq(Envelope)]

TypeOK ==
    /\ processes \subseteq Process /\ services \subseteq Service
    /\ gone \subseteq Service /\ cluster_up \in BOOLEAN
    /\ timers \cup firing \cup owed \cup void \subseteq Owner \X Cid
    /\ own \subseteq Process \X Cid
    /\ rx \in Seq(Envelope) /\ stack \in Seq(Frame)
    /\ status \in {"running", "stopped", "panicked"}
    /\ emitted \in 0 .. MaxEmit
    /\ last \in [Process -> [Dest -> 0 .. MaxEmit]]
    /\ asked \subseteq Process

Init ==
    /\ processes = {} /\ services = {} /\ gone = {} /\ cluster_up = TRUE
    /\ timers = {} /\ firing = {} /\ owed = {} /\ void = {} /\ own = {}
    /\ rx = <<>> /\ stack = <<>>
    /\ status = "running"
    /\ emitted = 0 /\ asked = {}
    /\ last = [p \in Process |-> [d \in Dest |-> 0]]

Idle == status = "running" /\ stack = <<>> /\ firing = {}

-----------------------------------------------------------------------------
(* Routing.  rest is the stack to go back to.  These formulas say what     *)
(* becomes of stack, status, timing, emitted, last and asked.              *)

(* Envelope e has reached the actor it is for.                             *)
Arrives(e) ==
    last' = IF e.stamp = 0 THEN last ELSE [last EXCEPT ![e.from][e.to] = e.stamp]

(* A call of p returns out, to be gone through in a loop of this kind: for *)
(* p its timers are cancelled now.                                         *)
Returns(p, kind, out, rest) ==
    /\ stack' = <<[kind |-> kind,
                   todo |-> IF kind = "drain" THEN Stamped(out) ELSE out]>> \o rest
    /\ emitted' = emitted + Len(out)
    /\ asked' = IF \E k \in DOMAIN out : out[k].msg = "GetMetrics"
                THEN asked \cup {p} ELSE asked
    /\ void' = void \cup Cancels(out)

(* An unwrap fails: the thread dies with all it holds.                     *)
Panic ==
    /\ status' = "panicked"
    /\ stack' = <<>>
    /\ UNCHANGED <<timing, emitted, last, asked>>

Handle(e, rest) ==
    /\ e.to \in processes
    /\ Arrives(e)
    /\ \E out \in Outputs(e.to) : Returns(e.to, "drain", out, rest)
    /\ UNCHANGED <<timers, own, status>>

(* The sends on the channels of the cluster server and of a service.       *)
Send(e, up, rest) ==
    \/ up /\ Arrives(e) /\ stack' = rest /\ UNCHANGED <<timing, status, emitted, asked>>
    \/ ~up /\ Panic

ToCluster(e, rest) ==
    e.to \in Remote \cup {ClusterServer} /\ Send(e, cluster_up, rest)

(* The group of every Pid named cluster_server is unwrapped.               *)
NoGroup(e) == e.to \in Ungrouped /\ Panic

route_to_service(e, rest) ==
    \/ e.to \in services /\ Send(e, e.to \notin gone, rest)
    \/ /\ e.to \notin services              \* a warning is logged
       /\ stack' = rest
       /\ UNCHANGED <<timing, status, emitted, last, asked>>

(* route, of an envelope that is not for the executor.                     *)
Deliver(e, rest) ==
    \/ ToCluster(e, rest)
    \/ NoGroup(e)
    \/ Handle(e, rest)
    \/ e.to \in (Process \cup Service) \ processes /\ route_to_service(e, rest)

(* Timers kept under the Pid an envelope is for.                           *)
TimerKey_to(e) == <<e.to, IF e.msg = "CancelTimer" THEN e.arg ELSE e.cid>>

(* The key of a timer: its owner, and a correlation id.                    *)
TimerKey(e) == <<e.from, IF e.msg = "CancelTimer" THEN e.arg ELSE e.cid>>

StartTimer(e) ==
    /\ timers' = timers \cup {TimerKey(e)}
    /\ void' = void \ {<<e.from, e.cid>>}
    /\ own' = IF e.from \in Process THEN own \cup {<<e.from, e.cid>>} ELSE own

(* A tick that has taken the key out already will still fire it.           *)
CancelTimer(e) ==
    /\ timers' = timers \ {TimerKey(e)}
    /\ void' = IF e.from \in Process THEN void \cup {<<e.from, e.arg>>} ELSE void
    /\ UNCHANGED own

(* Anything else sent to the executor is only logged.                      *)
handle_executor_envelope(e, rest) ==
    \/ e.msg = "GetMetrics" /\ Deliver(Mail(e.from, Executor, "Metrics", e.cid), rest)
    \/ /\ e.msg # "GetMetrics"
       /\ CASE e.msg = "StartTimer"  -> StartTimer(e)
            [] e.msg = "CancelTimer" -> CancelTimer(e)
            [] OTHER -> UNCHANGED timing
       /\ stack' = rest
       /\ UNCHANGED <<status, emitted, last, asked>>

route(e, rest) ==
    \/ e.to = Executor /\ handle_executor_envelope(e, rest)
    \/ e.to # Executor /\ Deliver(e, rest)

-----------------------------------------------------------------------------
(* run(): the messages of the other threads ...                            *)

RecvEnvelope(e) ==
    /\ Idle
    /\ route(e, <<>>)
    /\ UNCHANGED <<processes, env, firing, owed, rx>>

(* init() is called before the process is in the map, its envelopes are    *)
(* gone through afterwards.                                                *)
start(p) ==
    /\ Idle
    /\ processes' = processes \cup {p}
    /\ \E out \in Outputs(p) : Returns(p, "init", out, <<>>)
    /\ own' = {k \in own : k[1] # p}
    /\ UNCHANGED <<env, timers, firing, owed, rx, status, last>>

stop(p) ==
    /\ Idle /\ p \in processes
    /\ processes' = processes \ {p}
    /\ own' = {k \in own : k[1] # p}
    /\ UNCHANGED <<env, timers, void, firing, owed, rx, stack, status, emitted, last, asked>>

RegisterService(s) ==
    /\ Idle
    /\ services' = services \cup {s} /\ gone' = gone \ {s}
    /\ UNCHANGED <<processes, cluster_up, timing, firing, owed, rx, stack, status,
                   emitted, last, asked>>

get_status(s) ==
    /\ Idle
    /\ route_to_service(Mail(s, Executor, "ExecutorStatus", NoCid), <<>>)
    /\ UNCHANGED <<processes, env, firing, owed, rx>>

tick(expired) ==
    /\ Idle /\ expired # {} /\ expired \subseteq timers
    /\ timers' = timers \ expired
    /\ firing' = expired
    /\ owed' = owed \cup expired
    /\ UNCHANGED <<processes, env, void, own, rx, stack, status, emitted, last, asked>>

Shutdown ==
    /\ Idle
    /\ status' = "stopped"
    /\ UNCHANGED <<processes, env, timing, firing, owed, rx, stack, emitted, last, asked>>

(* ... and its own.                                                        *)
RecvOwn ==
    /\ Idle /\ rx # <<>>
    /\ rx' = Tail(rx)
    /\ route(Head(rx), <<>>)
    /\ UNCHANGED <<processes, env, firing, owed>>

-----------------------------------------------------------------------------
(* The loops.                                                              *)

(* tick() that gives up at an expired timer nobody answers to.             *)
Fire_mut(k) ==
    LET e == Mail(k[1], Executor, "Timeout", k[2])
    IN /\ status = "running" /\ stack = <<>> /\ k \in firing
       /\ \/ Handle(e, <<>>) /\ firing' = firing \ {k}
          \/ /\ e.to \notin processes /\ firing' = {}
             /\ UNCHANGED <<timing, stack, status, emitted, last, asked>>
       /\ owed' = IF k[1] \in services THEN owed ELSE owed \ {k}
       /\ UNCHANGED <<processes, env, rx>>

(* One expired timer: route_to_process, whose error is ignored.            *)
Fire(k) ==
    LET e == Mail(k[1], Executor, "Timeout", k[2])
    IN /\ status = "running" /\ stack = <<>> /\ k \in firing
       /\ firing' = firing \ {k}
       /\ \/ Handle(e, <<>>)
          \/ /\ e.to \notin processes
             /\ UNCHANGED <<timing, stack, status, emitted, last, asked>>
       /\ owed' = IF k[1] \in services THEN owed ELSE owed \ {k}
       /\ UNCHANGED <<processes, env, rx>>

Top  == Head(stack)
Rest == <<[Top EXCEPT !.todo = Tail(@)]>> \o Tail(stack)

(* One envelope of start(): it is routed at once.                          *)
InitStep ==
    /\ status = "running" /\ stack # <<>> /\ Top.kind = "init" /\ Top.todo # <<>>
    /\ route(Head(Top.todo), Rest)
    /\ UNCHANGED <<processes, env, firing, owed, rx>>

(* The loop of route_to_process, routing at once as start() does.          *)
DrainStep_mut ==
    /\ status = "running" /\ stack # <<>> /\ Top.kind = "drain" /\ Top.todo # <<>>
    /\ route(Head(Top.todo), Rest)
    /\ UNCHANGED <<processes, env, firing, owed, rx>>

(* The loop of route_to_process, with those to the executor in the channel.*)
DrainStep_queues ==
    /\ status = "running" /\ stack # <<>> /\ Top.kind = "drain" /\ Top.todo # <<>>
    /\ LET e == Head(Top.todo)
       IN \/ /\ e.to \notin Remote
             /\ rx' = Append(rx, e)
             /\ stack' = Rest
             /\ UNCHANGED <<timing, status, emitted, last, asked>>
          \/ e.to \in Remote /\ Send(e, cluster_up, Rest) /\ UNCHANGED rx
    /\ UNCHANGED <<processes, env, firing, owed>>

(* One envelope of route_to_process: local ones go through the channel.    *)
DrainStep ==
    /\ status = "running" /\ stack # <<>> /\ Top.kind = "drain" /\ Top.todo # <<>>
    /\ LET e == Head(Top.todo)
       IN \/ /\ e.to = Executor
             /\ handle_executor_envelope(e, Rest)
             /\ UNCHANGED rx
          \/ /\ e.to \notin Remote \cup {Executor}
             /\ rx' = Append(rx, e)
             /\ stack' = Rest
             /\ UNCHANGED <<timing, status, emitted, last, asked>>
          \/ e.to \in Remote /\ Send(e, cluster_up, Rest) /\ UNCHANGED rx
    /\ UNCHANGED <<processes, env, firing, owed>>

Return ==
    /\ status = "running" /\ stack # <<>> /\ Top.todo = <<>>
    /\ stack' = Tail(stack)
    /\ UNCHANGED <<processes, env, timing, firing, owed, rx, status, emitted, last, asked>>

-----------------------------------------------------------------------------
(* Other threads end.                                                      *)

ServiceExits(s) ==
    /\ s \in services \ gone
    /\ gone' = gone \cup {s}
    /\ UNCHANGED <<processes, services, cluster_up, timing, firing, owed, rx, stack,
                   status, emitted, last, asked>>

ClusterExits ==
    /\ cluster_up
    /\ cluster_up' = FALSE
    /\ UNCHANGED <<processes, services, gone, timing, firing, owed, rx, stack, status,
                   emitted, last, asked>>

Next ==
    \/ \E f \in Service \cup Remote : \E e \in Mails(f) : RecvEnvelope(e)
    \/ \E p \in Process : start(p) \/ stop(p)
    \/ \E s \in Service : RegisterService(s) \/ get_status(s) \/ ServiceExits(s)
    \/ \E expired \in SUBSET timers : tick(expired)
    \/ \E k \in firing : Fire(k)
    \/ RecvOwn \/ InitStep \/ DrainStep \/ Return
    \/ Shutdown \/ ClusterExits

Spec == Init /\ [][Next]_vars

-----------------------------------------------------------------------------
(* What a process returns from its handle() calls reaches every actor -    *)
(* process, service or, by way of the cluster server, remote - in the      *)
(* order in which it was returned, though some of it goes through the      *)
(* channel, some does not, and the loops nest.  A process that asks for    *)
(* metrics is an exception: Metrics is handled in the middle of the loop   *)
(* over the earlier output, and what it is answered with overtakes that.   *)
OutputInOrder ==
    [][\A p \in Process \ asked', d \in Dest : last[p][d] <= last'[p][d]]_vars

(* Whatever processes send each other, one call of a process never nests   *)
(* in the loop over the output of another: the channel is in between.      *)
(* Only GetMetrics can nest, and does so as often as it is sent.           *)
CallsDoNotNest ==
    asked = {} => /\ \A k \in 2 .. Len(stack) : stack[k].kind = "init"
                  /\ Len(stack) <= 2

(* An expired timer of a process that is there is not lost: the process is *)
(* told, or the loop of tick() has still to come to it - also if some of   *)
(* the owners it comes to are gone.                                        *)
ProcessTimersFire == \A k \in owed : k[1] \in Process => k \in firing

(* "Rabble allow users to add timers for all requests from within a        *)
(* process or service": so is a service that is registered.                *)
ServiceTimersFire == \A k \in owed : k[1] \in Service => k \in firing

(* Once a call has returned a CancelTimer, no later tick tells its owner   *)
(* of that timer: when the executor takes the next message, which may be   *)
(* the Tick, the timer is out of the wheel, unless it was started again,   *)
(* however deep in the loops the envelope was returned and whatever stands *)
(* before it in the channel.  (A timer that its owner cancels in the very  *)
(* tick in which it expires is still told: expire() has returned all keys  *)
(* of the tick before the first of their owners is called.)                *)
CancelHolds == Idle => void \cap timers = {}

(* "Timers are tied to a given process and correlation id": a process is   *)
(* told of time-outs of timers that it has started itself.                 *)
TimeoutsAreOwn ==
    \A k \in firing : k[1] \in processes => k \in own
=============================================================================
