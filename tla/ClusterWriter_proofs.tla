------------------------- MODULE ClusterWriter_proofs -------------------------
(***************************************************************************)
(* For any socket size and any number of frames: frames are neither lost,  *)
(* doubled nor reordered by a connection, and frames that are kept are     *)
(* waited for.                                                             *)
(***************************************************************************)
EXTENDS ClusterWriter, SequenceTheorems, TLAPS

TypeInv ==
    /\ writer \in Writers(Nat)
    /\ registered \in {"Read", "Both", "closed"}
    /\ wire \in Seq(Nat) /\ Len(wire) <= Room
    /\ queued \in Nat /\ got \in Nat

(* The frames between got and queued are in the socket or kept, also after *)
(* the connection has been closed.                                         *)
InOrder == got <= queued
           /\ wire \o writer.pending = [k \in 1 .. queued - got |-> got + k]

IInv == TypeInv /\ KeptFramesAwaitEvent /\ InOrder

-----------------------------------------------------------------------------
LEMMA Associative ==
    \A a, b, c \in Seq(Nat) : (a \o b) \o c = a \o (b \o c)
  BY ConcatAssociative

(* A write splits what is pending and what is new in two: the socket gets  *)
(* the first part, as much as it takes, the writer keeps the second, and   *)
(* is writable only if it keeps nothing.                                   *)
LEMMA FrameWriteSplits ==
    ASSUME NEW w \in Writers(Nat), NEW frames \in Seq(Nat), NEW room \in Nat
    PROVE  /\ Written(w, frames, room) \in Seq(Nat)
           /\ Len(Written(w, frames, room)) <= room
           /\ FrameWrite(w, frames, room) \in Writers(Nat)
           /\ Written(w, frames, room) \o FrameWrite(w, frames, room).pending =
                w.pending \o frames
           /\ FrameWrite(w, frames, room).is_writable =>
                FrameWrite(w, frames, room).pending = <<>>
<1> DEFINE all == w.pending \o frames
           k == Fit(w, frames, room)
<1>1. w.pending \in Seq(Nat) /\ w.is_writable \in BOOLEAN
  BY DEF Writers
<1>2. all \in Seq(Nat) /\ Len(all) = Len(w.pending) + Len(frames)
  BY <1>1, ConcatProperties
<1>3. k \in 0 .. Len(all) /\ k <= room
  BY <1>1, <1>2 DEF Fit
<1> HIDE DEF all, k
<1>4. /\ SubSeq(all, 1, k) \in Seq(Nat) /\ Len(SubSeq(all, 1, k)) = k
      /\ SubSeq(all, k + 1, Len(all)) \in Seq(Nat)
      /\ Len(SubSeq(all, k + 1, Len(all))) = Len(all) - k
  <2>1. \A i \in 1 .. Len(all) : all[i] \in Nat
    BY <1>2, ElementOfSeq
  <2>2. SubSeq(all, 1, k) \in Seq(Nat) /\ Len(SubSeq(all, 1, k)) = k
    BY <1>2, <1>3, <2>1, SubSeqProperties
  <2>3. /\ SubSeq(all, k + 1, Len(all)) \in Seq(Nat)
        /\ Len(SubSeq(all, k + 1, Len(all))) = Len(all) - k
    BY <1>2, <1>3, <2>1, SubSeqProperties
  <2> QED
    BY <2>2, <2>3
<1>5. SubSeq(all, 1, k) \o SubSeq(all, k + 1, Len(all)) = all
  <2>1. Len(all) \in Nat /\ 1 \in 1 .. Len(all) + 1 /\ k \in 1 - 1 .. Len(all)
        /\ Len(all) \in k .. Len(all)
    BY <1>2, <1>3
  <2>2. SubSeq(all, 1, k) \o SubSeq(all, k + 1, Len(all)) = SubSeq(all, 1, Len(all))
    BY <1>2, <2>1, ConcatAdjacentSubSeq, Zenon
  <2> QED
    BY <1>2, <2>2, SubSeqFull
<1>6. k = Len(all) => SubSeq(all, k + 1, Len(all)) = <<>>
  BY <1>2, <1>3, <1>4
<1> QED
  BY <1>1, <1>3, <1>4, <1>5, <1>6 DEF Written, FrameWrite, Writers, all, k

(* One call of conn_write, with frames that come after those sent so far.  *)
LEMMA ConnWriteKeeps ==
    ASSUME IInv, registered # "closed",
           NEW w \in Writers(Nat), w.pending = writer.pending,
           NEW frames \in Seq(Nat), NEW interest \in {"Read", "Both"},
           conn_write(w, frames, interest), got' = got, queued' = queued + Len(frames),
           frames = [k \in 1 .. Len(frames) |-> queued + k]
    PROVE  IInv'
<1> DEFINE room == Room - Len(wire)
           new == Written(w, frames, room)
           kept == FrameWrite(w, frames, room)
<1>1. room \in Nat /\ Room \in Nat
  BY WriterAssumption DEF IInv, TypeInv
<1>2. /\ new \in Seq(Nat) /\ Len(new) <= room /\ kept \in Writers(Nat)
      /\ new \o kept.pending = w.pending \o frames
      /\ kept.is_writable => kept.pending = <<>>
  BY <1>1, FrameWriteSplits
<1>3. wire' = wire \o new /\ writer' = kept
      /\ registered' = IF kept.is_writable THEN interest ELSE "Both"
  BY DEF conn_write
<1> HIDE DEF room, new, kept
<1>4. wire \in Seq(Nat) /\ w.pending \in Seq(Nat) /\ kept.pending \in Seq(Nat)
      /\ queued \in Nat /\ got \in Nat /\ Len(wire) <= Room /\ got <= queued
      /\ Len(frames) \in Nat
  BY <1>2 DEF IInv, TypeInv, Writers, InOrder
<1>5. TypeInv'
  <2>1. wire' \in Seq(Nat) /\ Len(wire') <= Room
    BY <1>1, <1>2, <1>3, <1>4, ConcatProperties DEF room
  <2> QED
    BY <2>1, <1>2, <1>3, <1>4 DEF TypeInv
<1>6. KeptFramesAwaitEvent'
  BY <1>2, <1>3 DEF KeptFramesAwaitEvent
<1>7. InOrder'
  <2> DEFINE old == wire \o w.pending
  <2>1. wire' \o writer'.pending = old \o frames
    <3>1. (wire \o new) \o kept.pending = wire \o (new \o kept.pending)
      <4>1. wire \in Seq(Nat) /\ new \in Seq(Nat) /\ kept.pending \in Seq(Nat)
        BY <1>2, <1>4
      <4> QED
        BY <4>1, Associative, Zenon
    <3>2. wire \o (w.pending \o frames) = (wire \o w.pending) \o frames
      BY <1>4, Associative, Zenon
    <3> QED
      BY <3>1, <3>2, <1>2, <1>3
  <2>2. old = [k \in 1 .. queued - got |-> got + k]
    BY DEF IInv, InOrder
  <2>3. old \in Seq(Nat)
    BY <1>4, ConcatProperties
  <2>4. Len(old) = queued - got
    BY <2>2, <2>3, <1>4, LenProperties
  <2> HIDE DEF old
  <2>5. old \o frames = [k \in 1 .. queued + Len(frames) - got |-> got + k]
    <3> DEFINE whole == [k \in 1 .. queued + Len(frames) - got |-> got + k]
    <3>1. whole \in Seq(Nat) /\ Len(whole) = Len(old) + Len(frames)
      BY <2>3, <2>4, <1>4, IsASeq
    <3>2. old \o frames \in Seq(Nat) /\ Len(old \o frames) = Len(old) + Len(frames)
      BY <2>3, ConcatProperties
    <3>3. ASSUME NEW k \in 1 .. Len(old) + Len(frames)
          PROVE  (old \o frames)[k] = whole[k]
      <4>1. CASE k <= Len(old)
        <5>1. (old \o frames)[k] = old[k] /\ k \in 1 .. queued - got
          BY <4>1, <2>3, <2>4, ConcatProperties
        <5>2. old[k] = got + k
          BY <5>1, <2>2
        <5>3. k \in 1 .. queued + Len(frames) - got
          BY <2>4, <1>4
        <5> QED
          BY <5>1, <5>2, <5>3
      <4>2. CASE k > Len(old)
        <5>1. (old \o frames)[k] = frames[k - Len(old)] /\ k - Len(old) \in 1 .. Len(frames)
          BY <4>2, <2>3, ConcatProperties
        <5>2. frames[k - Len(old)] = queued + (k - Len(old))
          BY <5>1
        <5> QED
          BY <5>1, <5>2, <2>4, <1>4
      <4> QED
        BY <4>1, <4>2, <2>3
    <3> HIDE DEF whole
    <3>4. old \o frames = whole
      BY <3>1, <3>2, <3>3, SeqEqual
    <3> QED
      BY <3>4 DEF whole
  <2> QED
    BY <2>1, <2>5, <1>4 DEF InOrder
<1> QED
  BY <1>5, <1>6, <1>7 DEF IInv

LEMMA InitIInv == Init => IInv
<1> SUFFICES ASSUME Init PROVE IInv
  OBVIOUS
<1>1. TypeInv
  BY WriterAssumption DEF Init, TypeInv, Writers, FrameWriterNew
<1>2. KeptFramesAwaitEvent
  BY DEF Init, KeptFramesAwaitEvent, FrameWriterNew
<1>3. InOrder
  BY DEF Init, InOrder, FrameWriterNew
<1> QED
  BY <1>1, <1>2, <1>3 DEF IInv

LEMMA NextIInv == IInv /\ [Next]_vars => IInv'
<1> SUFFICES ASSUME IInv, [Next]_vars PROVE IInv'
  OBVIOUS
<1>1. CASE Send
  <2>1. queued \in Nat /\ writer \in Writers(Nat) /\ registered \in {"Read", "Both"}
    BY <1>1 DEF Send, IInv, TypeInv
  <2>2. <<queued + 1>> \in Seq(Nat) /\ Len(<<queued + 1>>) = 1
        /\ <<queued + 1>> = [k \in 1 .. 1 |-> queued + k]
    BY <2>1
  <2> QED
    BY <1>1, <2>1, <2>2, ConnWriteKeeps DEF Send
<1>2. CASE WriteEvent
  <2> DEFINE w == Writable(writer)
             interest == IF writer.is_writable THEN "Read" ELSE registered
  <2>1. w \in Writers(Nat) /\ w.pending = writer.pending /\ interest \in {"Read", "Both"}
    BY <1>2 DEF WriteEvent, IInv, TypeInv, Writers, Writable
  <2>2. <<>> \in Seq(Nat) /\ Len(<<>>) = 0 /\ <<>> = [k \in 1 .. Len(<<>>) |-> queued + k]
    OBVIOUS
  <2>3. conn_write(w, <<>>, interest) /\ got' = got /\ queued' = queued + Len(<<>>)
        /\ registered # "closed"
    BY <1>2, <2>2 DEF WriteEvent, IInv, TypeInv
  <2> HIDE DEF w, interest
  <2> QED
    BY <2>1, <2>2, <2>3, ConnWriteKeeps
<1>3. CASE PeerReads
  <2>1. wire' = Tail(wire) /\ got' = got + 1 /\ UNCHANGED <<writer, registered, queued>>
        /\ wire # <<>>
    BY <1>3 DEF PeerReads
  <2>2. wire \in Seq(Nat) /\ writer.pending \in Seq(Nat) /\ got \in Nat /\ queued \in Nat
        /\ Len(wire) <= Room /\ Room \in Nat
    BY WriterAssumption DEF IInv, TypeInv, Writers
  <2>3. Tail(wire) \in Seq(Nat) /\ Len(Tail(wire)) = Len(wire) - 1 /\ Len(wire) > 0
        /\ \A k \in 1 .. Len(wire) - 1 : Tail(wire)[k] = wire[k + 1]
    BY <2>1, <2>2
  <2>4. TypeInv'
    BY <2>1, <2>2, <2>3 DEF IInv, TypeInv
  <2>5. InOrder'
    <3> DEFINE old == wire \o writer.pending
               new == Tail(wire) \o writer.pending
               want == [k \in 1 .. queued - (got + 1) |-> got + 1 + k]
    <3>1. old = [k \in 1 .. queued - got |-> got + k]
      BY DEF IInv, InOrder
    <3>2. /\ old \in Seq(Nat) /\ Len(old) = Len(wire) + Len(writer.pending)
          /\ new \in Seq(Nat) /\ Len(new) = Len(old) - 1
      BY <2>2, <2>3, ConcatProperties
    <3>3. Len(old) = queued - got
      BY <3>1, <3>2, <2>2, LenProperties DEF IInv, InOrder
    <3>4. want \in Seq(Nat) /\ Len(want) = Len(old) - 1
      <4>1. queued - (got + 1) \in Nat /\ queued - (got + 1) = Len(old) - 1
        BY <3>2, <3>3, <2>2, <2>3
      <4>2. \A k \in 1 .. queued - (got + 1) : got + 1 + k \in Nat
        BY <2>2
      <4> HIDE DEF old
      <4> QED
        BY <4>1, <4>2, IsASeq
    <3>5. ASSUME NEW k \in 1 .. Len(old) - 1
          PROVE  new[k] = want[k]
      <4>1. new[k] = old[k + 1]
        <5>1. k + 1 \in 1 .. Len(wire) + Len(writer.pending)
              /\ k \in 1 .. Len(Tail(wire)) + Len(writer.pending)
          BY <3>2, <2>2, <2>3
        <5>2. old[k + 1] = IF k + 1 <= Len(wire) THEN wire[k + 1]
                                                 ELSE writer.pending[k + 1 - Len(wire)]
          BY <2>2, <5>1, ConcatProperties
        <5>3. new[k] = IF k <= Len(Tail(wire)) THEN Tail(wire)[k]
                                               ELSE writer.pending[k - Len(Tail(wire))]
          BY <2>2, <2>3, <5>1, ConcatProperties
        <5> HIDE DEF old, new
        <5>4. CASE k <= Len(wire) - 1
          BY <5>2, <5>3, <5>4, <2>2, <2>3
        <5>5. CASE ~(k <= Len(wire) - 1)
          <6>1. k + 1 - Len(wire) = k - Len(Tail(wire))
            BY <2>2, <2>3
          <6> QED
            BY <5>2, <5>3, <5>5, <6>1, <2>2, <2>3
        <5> QED
          BY <5>4, <5>5
      <4>2. old[k + 1] = got + (k + 1)
        BY <3>1, <3>2, <3>3, <2>2
      <4> QED
        <5>1. want[k] = got + 1 + k
          BY <3>3, <2>2
        <5> HIDE DEF old, new, want
        <5> QED
          BY <4>1, <4>2, <5>1, <2>2
    <3> HIDE DEF old, new, want
    <3>6. new = want
      BY <3>2, <3>4, <3>5, SeqEqual
    <3> QED
      <4>1. got' <= queued'
        BY <2>1, <2>2, <2>3, <3>2, <3>3
      <4>2. wire' \o writer'.pending = [k \in 1 .. queued' - got' |-> got' + k]
        BY <3>6, <2>1 DEF new, want
      <4> QED
        BY <4>1, <4>2 DEF InOrder
  <2> QED
    BY <2>1, <2>4, <2>5 DEF IInv, KeptFramesAwaitEvent
<1>4. CASE Close
  BY <1>4 DEF Close, IInv, TypeInv, KeptFramesAwaitEvent, InOrder
<1>5. CASE UNCHANGED vars
  BY <1>5 DEF vars, IInv, TypeInv, KeptFramesAwaitEvent, InOrder
<1> QED
  BY <1>1, <1>2, <1>3, <1>4, <1>5 DEF Next

(* Frames that a connection of the cluster server keeps are always waited  *)
(* for: the poller has been asked for write events (conn_write).           *)
THEOREM KeptFramesAreAwaited == Spec => []KeptFramesAwaitEvent
<1>1. IInv => KeptFramesAwaitEvent
  BY DEF IInv
<1> QED
  BY <1>1, InitIInv, NextIInv, PTL DEF Spec

(* A connection of the cluster server delivers frames once and in order,   *)
(* however often its socket blocks.                                        *)
THEOREM FramesKeepTheirOrder == Spec => []FramesInOrder
<1>1. IInv => FramesInOrder
  BY DEF IInv, InOrder, FramesInOrder
<1> QED
  BY <1>1, InitIInv, NextIInv, PTL DEF Spec
=============================================================================
