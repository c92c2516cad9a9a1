----------------------------- MODULE FrameWriter -----------------------------
(***************************************************************************)
(* The FrameWriter of the amy crate, as the cluster server and the         *)
(* serializers use it: frames are written as long as the socket takes      *)
(* them, the rest is kept.  Once the socket would block the writer is not  *)
(* writable, and frames are only kept until writable() is called.          *)
(*                                                                         *)
(* A writer is a value, held by the connection it belongs to.  room is     *)
(* the number of frames the socket takes before it blocks; the part of a   *)
(* frame that still fits is not counted.                                   *)
(***************************************************************************)
EXTENDS Naturals, Sequences

Writers(Frame) == [is_writable : BOOLEAN, pending : Seq(Frame)]

FrameWriterNew == [is_writable |-> TRUE, pending |-> <<>>]

(* How many of the pending frames and the new ones go out now.             *)
Fit(w, frames, room) ==
    LET n == Len(w.pending) + Len(frames)
    IN IF ~w.is_writable THEN 0 ELSE IF n <= room THEN n ELSE room

(* What a write() puts on the socket ...                                   *)
Written(w, frames, room) == SubSeq(w.pending \o frames, 1, Fit(w, frames, room))

(* ... and the writer it leaves; write() returns is_writable.              *)
FrameWrite(w, frames, room) ==
    LET all == w.pending \o frames
        k   == Fit(w, frames, room)
    IN [is_writable |-> w.is_writable /\ k = Len(all),
        pending |-> SubSeq(all, k + 1, Len(all))]

Writable(w) == [w EXCEPT !.is_writable = TRUE]
=============================================================================
