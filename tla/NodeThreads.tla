---------------------------- MODULE NodeThreads ----------------------------
(***************************************************************************)
(* The three threads that rabble::rouse starts for a node (src/lib.rs) and *)
(* that of a service, the channels between them and how they end: by       *)
(* Node::shutdown or Msg::Shutdown, by an error, or by the panic of an     *)
(* unwrapped send to a thread that is gone.                                *)
(*                                                                         *)
(*   poller          --PollNotifications-->            cluster server      *)
(*   cluster server  --Tick, Envelope-->               executor            *)
(*   executor        --Envelope-->                     cluster server      *)
(*   executor        --Envelope-->                     service             *)
(*   service         --RegisterService, Envelope-->    executor            *)
(*   Node (callers)  --Shutdown, Envelope, GetStatus-> either              *)
(*                                                                         *)
(* What the messages do to the state of a thread is left to ClusterNode,   *)
(* Executor and TcpServer: here a message matters for what is sent on      *)
(* because of it.                                                          *)
(* A send fails exactly when the receiving thread has dropped its end.     *)
(***************************************************************************)
EXTENDS Naturals, Sequences

CONSTANTS MaxQueue,     \* messages in the channels when a new one may come
          MaxSends,     \* messages sent by callers of Node
          Fails,        \* errors may stop the cluster server
          Service       \* there is a service

ASSUME ThreadsAssumption ==
    /\ {MaxQueue, MaxSends} \subseteq Nat
    /\ {Fails, Service} \subseteq BOOLEAN

VARIABLES thread,       \* each thread "running", "returned" or "panicked"
                        \* (a service also "none" before it is created)
          exec_rx, cluster_rx, service_rx,
          registered,   \* the executor holds a sender of the service
          shutdown,     \* "no", "executor_told", "done" or "panicked"
          sends         \* messages that callers may still send

vars == <<thread, exec_rx, cluster_rx, service_rx, registered, shutdown, sends>>

NodeThread == {"poller", "cluster", "executor"}

(* exec_rx holds "Tick", "Envelope", "Register" and "Shutdown"; service_rx *)
(* holds "Envelope" and "Shutdown"; cluster_rx "Tick" and                  *)
(* "Notify" (PollNotifications with and without the executor's timer),     *)
(* "GetStatus", "Shutdown" and "Envelope", which stands for Join and Leave *)
(* too: they end in the same ways.                                         *)
Init ==
    /\ thread = [t \in NodeThread \cup {"service"} |->
                   IF t = "service" THEN "none" ELSE "running"]
    /\ exec_rx = <<>> /\ cluster_rx = <<>> /\ service_rx = <<>>
    /\ registered = FALSE
    /\ shutdown = "no"
    /\ sends = MaxSends

Running(t) == thread[t] = "running"
Room == Len(exec_rx) + Len(cluster_rx) + Len(service_rx) < MaxQueue

serv == <<service_rx, registered>>

(* The end of a thread; what was still in its channel is dropped with it.  *)
Ends(t, how) == thread' = [thread EXCEPT ![t] = how]

-----------------------------------------------------------------------------
(* The poller that does not look at the result of its send.                *)
Poll_mut(m) ==
    /\ Running("poller") /\ Room
    /\ cluster_rx' = IF Running("cluster") THEN Append(cluster_rx, m) ELSE cluster_rx
    /\ UNCHANGED <<thread, exec_rx, serv, shutdown, sends>>

(* The poller thread: wait, at most for TIMEOUT, and pass on.              *)
Poll(m) ==
    /\ Running("poller")
    /\ \/ Running("cluster") /\ Room /\ cluster_rx' = Append(cluster_rx, m)
          /\ UNCHANGED thread
       \/ ~Running("cluster") /\ Ends("poller", "returned") /\ UNCHANGED cluster_rx
    /\ UNCHANGED <<exec_rx, serv, shutdown, sends>>

(* The cluster server that goes on when its Tick cannot be sent.           *)
tick_executor_mut == "running"

(* What becomes of the cluster server if its Tick cannot be sent: "Panic   *)
(* if the executor is down".                                               *)
tick_executor == "panicked"

(* Sends of the cluster server to the executor: of a batch, the Tick and   *)
(* the envelopes read from the sockets (at most one here), in the order of *)
(* its notifications.  If the executor is gone, the error of a forwarded   *)
(* envelope and of a metrics answer is only logged, that of a status       *)
(* answer ends the loop, and a Tick panics.                                *)
RecvCluster ==
    /\ Running("cluster") /\ cluster_rx # <<>>
    /\ LET m == Head(cluster_rx)
           ToExecutor(msgs, otherwise) ==
              IF Running("executor") THEN exec_rx' = exec_rx \o msgs /\ UNCHANGED thread
              ELSE UNCHANGED exec_rx /\ Ends("cluster", otherwise)
       IN \/ /\ m = "Tick"
             /\ \E batch \in {<<"Tick">>, <<"Tick", "Envelope">>, <<"Envelope", "Tick">>} :
                   ToExecutor(batch, tick_executor)
          \/ m \in {"Notify", "Envelope"} /\ ToExecutor(<<"Envelope">>, "running")
          \/ m = "GetStatus" /\ ToExecutor(<<"Envelope">>, "returned")
          \/ m \in {"Notify", "Envelope"} /\ UNCHANGED <<exec_rx, thread>>
          \/ m = "Envelope" /\ Fails /\ Ends("cluster", "returned") /\ UNCHANGED exec_rx
          \/ m = "Shutdown" /\ Ends("cluster", "returned") /\ UNCHANGED exec_rx
    /\ cluster_rx' = IF thread'["cluster"] = "running" THEN Tail(cluster_rx) ELSE <<>>
    /\ UNCHANGED <<serv, shutdown, sends>>

(* A tick or an envelope may make a process send to another node or to the *)
(* service, and an envelope may be for it; both sends are unwrapped.       *)
RecvExecutor ==
    /\ Running("executor") /\ exec_rx # <<>>
    /\ LET m == Head(exec_rx)
           routed == m \in {"Tick", "Envelope"}
       IN \/ routed /\ UNCHANGED <<thread, cluster_rx, serv>>
          \/ /\ routed /\ Running("cluster")
             /\ cluster_rx' = Append(cluster_rx, "Envelope")
             /\ UNCHANGED <<thread, serv>>
          \/ /\ routed /\ ~Running("cluster")
             /\ Ends("executor", "panicked")
             /\ UNCHANGED <<cluster_rx, serv>>
          \/ /\ routed /\ registered /\ Running("service")
             /\ service_rx' = Append(service_rx, "Envelope")
             /\ UNCHANGED <<thread, cluster_rx, registered>>
          \/ /\ routed /\ registered /\ ~Running("service")
             /\ Ends("executor", "panicked")
             /\ UNCHANGED <<cluster_rx, serv>>
          \/ m = "Register" /\ registered' = TRUE /\ UNCHANGED <<thread, cluster_rx, service_rx>>
          \/ m = "Shutdown" /\ Ends("executor", "returned") /\ UNCHANGED <<cluster_rx, serv>>
    /\ exec_rx' = IF thread'["executor"] = "running" THEN Tail(exec_rx) ELSE <<>>
    /\ UNCHANGED <<shutdown, sends>>

(* Service::new: it is registered before its handler's init, which may     *)
(* fail; then wait() is never called.                                      *)
ServiceNew ==
    /\ Service /\ thread["service"] = "none" /\ Running("executor")
    /\ exec_rx' = Append(exec_rx, "Register")
    /\ \/ Ends("service", "running")
       \/ Fails /\ Ends("service", "returned")
    /\ UNCHANGED <<cluster_rx, serv, shutdown, sends>>

(* wait() that logs the error for a Shutdown like any other.               *)
ServiceAfterShutdown_mut == "running"

ServiceAfterShutdown == "returned"

(* Service::wait.  An envelope may make the handler send one; a            *)
(* TcpServerHandler unwraps the result.                                    *)
RecvService ==
    /\ Running("service") /\ service_rx # <<>>
    /\ LET m == Head(service_rx)
       IN \/ m = "Envelope" /\ UNCHANGED <<thread, exec_rx>>
          \/ /\ m = "Envelope" /\ Running("executor")
             /\ exec_rx' = Append(exec_rx, "Envelope") /\ UNCHANGED thread
          \/ m = "Envelope" /\ ~Running("executor") /\ Ends("service", "panicked")
             /\ UNCHANGED exec_rx
          \/ m = "Shutdown" /\ Ends("service", ServiceAfterShutdown) /\ UNCHANGED exec_rx
    /\ service_rx' = IF thread'["service"] = "running" THEN Tail(service_rx) ELSE <<>>
    /\ UNCHANGED <<cluster_rx, registered, shutdown, sends>>

(* Msg::Shutdown, sent to the service by its own sender.                   *)
StopService ==
    /\ sends > 0 /\ Running("service") /\ Room
    /\ service_rx' = Append(service_rx, "Shutdown")
    /\ sends' = sends - 1
    /\ UNCHANGED <<thread, exec_rx, cluster_rx, registered, shutdown>>

(* Node::send, join, cluster_status and the like return their errors.      *)
NodeSend(t, m) ==
    /\ sends > 0 /\ Running(t) /\ Room
    /\ \/ /\ t = "executor" /\ m = "Envelope"
          /\ exec_rx' = Append(exec_rx, m) /\ UNCHANGED cluster_rx
       \/ /\ t = "cluster"
          /\ cluster_rx' = Append(cluster_rx, m) /\ UNCHANGED exec_rx
    /\ sends' = sends - 1
    /\ UNCHANGED <<thread, serv, shutdown>>

(* Node::shutdown: two unwrapped sends, to the executor first.             *)
ShutdownExecutor ==
    /\ shutdown = "no"
    /\ \/ /\ Running("executor") /\ shutdown' = "executor_told"
          /\ exec_rx' = Append(exec_rx, "Shutdown")
       \/ ~Running("executor") /\ shutdown' = "panicked" /\ UNCHANGED exec_rx
    /\ UNCHANGED <<thread, cluster_rx, serv, sends>>

ShutdownCluster ==
    /\ shutdown = "executor_told"
    /\ \/ /\ Running("cluster") /\ shutdown' = "done"
          /\ cluster_rx' = Append(cluster_rx, "Shutdown")
       \/ ~Running("cluster") /\ shutdown' = "panicked" /\ UNCHANGED cluster_rx
    /\ UNCHANGED <<thread, exec_rx, serv, sends>>

Next ==
    \/ \E m \in {"Tick", "Notify"} : Poll(m)
    \/ RecvCluster \/ RecvExecutor
    \/ ServiceNew \/ RecvService \/ StopService
    \/ \E t \in NodeThread, m \in {"Envelope", "GetStatus"} : NodeSend(t, m)
    \/ ShutdownExecutor \/ ShutdownCluster

(* Threads are scheduled, the executor's interval timer goes on firing,    *)
(* and a call of Node::shutdown that was begun goes on.                    *)
Fairness ==
    /\ WF_vars(RecvCluster) /\ WF_vars(RecvExecutor) /\ WF_vars(RecvService)
    /\ WF_vars(ShutdownCluster)
    /\ SF_vars(Poll("Tick"))

Spec == Init /\ [][Next]_vars /\ Fairness

-----------------------------------------------------------------------------
(* Once Node::shutdown was called, all three threads end, so that joining  *)
(* them does not hang - even if one had failed before and shutdown itself  *)
(* panics half way: the others notice by their own sends.                  *)
ShutdownEndsAll ==
    shutdown # "no" ~> \A t \in NodeThread : ~Running(t)

(* If the executor is lost, by the end of a service as well, its node does *)
(* not go on half alive, connected to its peers: it ends as a whole.       *)
ExecutorEndsNode ==
    ~Running("executor") ~> \A t \in NodeThread : ~Running(t)

(* A service that is told to stop stops, whatever state its node is in.    *)
ServiceStops ==
    (\E k \in DOMAIN service_rx : service_rx[k] = "Shutdown") ~> ~Running("service")

(* tests/join_leave.rs, "h.join().unwrap()": after a shutdown none of the  *)
(* threads has panicked.                                                   *)
NoThreadPanics == \A t \in NodeThread : thread[t] # "panicked"
=============================================================================
