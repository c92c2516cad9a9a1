---------------------------- MODULE ClusterWriter ----------------------------
(***************************************************************************)
(* The writing half of one connection of the cluster server: the frames    *)
(* kept by its FrameWriter and the interest in write events registered     *)
(* with the poller (src/cluster/server.rs, write and conn_write).          *)
(*                                                                         *)
(* The poller is level-triggered: a socket registered for Event::Both is   *)
(* reported writable whenever it has room.  The reading half may close the *)
(* connection at any time (Close), as any error does.                      *)
(***************************************************************************)
EXTENDS FrameWriter

CONSTANTS Room,         \* frames the socket holds until the peer reads them
          MaxFrames     \* frames sent on this connection

ASSUME WriterAssumption == Room \in Nat \ {0} /\ MaxFrames \in Nat

VARIABLES writer,       \* conn.writer
          registered,   \* "Read" or "Both"; "closed" once the connection is
          wire,         \* frames in the socket
          queued, got   \* number of frames sent, and read by the peer

vars == <<writer, registered, wire, queued, got>>

Init ==
    /\ writer = FrameWriterNew
    /\ registered = "Read"
    /\ wire = <<>>
    /\ queued = 0 /\ got = 0

(* conn_write that leaves the registration alone.                          *)
conn_write_mut(w, frames, interest) ==
    /\ wire' = wire \o Written(w, frames, Room - Len(wire))
    /\ writer' = FrameWrite(w, frames, Room - Len(wire))
    /\ registered' = interest

(* conn_write that does not hand a frame to a writer that would only keep  *)
(* it.                                                                     *)
conn_write_drops(w, frames, interest) ==
    /\ wire' = wire \o Written(w, IF w.is_writable THEN frames ELSE <<>>, Room - Len(wire))
    /\ writer' = FrameWrite(w, IF w.is_writable THEN frames ELSE <<>>, Room - Len(wire))
    /\ registered' = IF writer'.is_writable THEN interest ELSE "Both"

(* interest is what the connection is registered for so far.               *)
conn_write(w, frames, interest) ==
    /\ wire' = wire \o Written(w, frames, Room - Len(wire))
    /\ writer' = FrameWrite(w, frames, Room - Len(wire))
    /\ registered' = IF writer'.is_writable THEN interest ELSE "Both"

(* Members, pings, deltas and envelopes are all written like this.         *)
Send ==
    /\ registered # "closed" /\ queued < MaxFrames
    /\ conn_write(writer, <<queued + 1>>, registered)
    /\ queued' = queued + 1
    /\ UNCHANGED got

(* write() that never gives up the interest in write events.               *)
WriteEvent_mut ==
    /\ registered = "Both" /\ Len(wire) < Room
    /\ conn_write(Writable(writer), <<>>, registered)
    /\ UNCHANGED <<queued, got>>

(* write(id, None), on an Event::Write or the second half of Event::Both.  *)
WriteEvent ==
    /\ registered = "Both" /\ Len(wire) < Room
    /\ conn_write(Writable(writer), <<>>,
                  IF writer.is_writable THEN "Read" ELSE registered)
    /\ UNCHANGED <<queued, got>>

PeerReads ==
    /\ wire # <<>>
    /\ wire' = Tail(wire)
    /\ got' = got + 1
    /\ UNCHANGED <<writer, registered, queued>>

Close ==
    /\ registered # "closed"
    /\ registered' = "closed"
    /\ UNCHANGED <<writer, wire, queued, got>>

Next == Send \/ WriteEvent \/ PeerReads \/ Close

Spec == Init /\ [][Next]_vars

(* The poller reports events and the peer reads.  Nobody has to send.      *)
FairSpec == Spec /\ WF_vars(WriteEvent) /\ WF_vars(PeerReads)

-----------------------------------------------------------------------------
(* The flag of the writer, the frames it keeps and the registration are    *)
(* set in different places and stay in step: a frame is kept only while    *)
(* the writer is not writable, and then the poller has been asked to say   *)
(* when the socket is.                                                     *)
KeptFramesAwaitEvent ==
    /\ writer.pending # <<>> => ~writer.is_writable
    /\ ~writer.is_writable => registered \in {"Both", "closed"}

(* However often the socket blocked and room came and went, what is in the *)
(* socket and in the writer are the frames the peer has not read, each     *)
(* once and in the order they were sent.                                   *)
FramesInOrder ==
    registered # "closed" =>
        wire \o writer.pending = [k \in 1 .. queued - got |-> got + k]

(* Whatever the socket took at first, a frame that was sent reaches a peer *)
(* that goes on reading, unless the connection is closed.                  *)
FramesArrive ==
    \A k \in 1 .. MaxFrames :
        queued >= k ~> (got >= k \/ registered = "closed")

(* Interest in write events is given up when there is nothing to write:    *)
(* otherwise the poller would report the socket over and over.             *)
NoIdleEvents ==
    (registered = "Both" /\ writer.pending = <<>>) ~>
        (registered # "Both" \/ writer.pending # <<>>)
=============================================================================
