---------------------------- MODULE Basics_proofs ----------------------------
(***************************************************************************)
(* Lemmas that the proofs about several components cite: induction over    *)
(* the natural numbers, and what the operations of a timer wheel leave in  *)
(* its slots, for any keys and any number of slots.                        *)
(***************************************************************************)
EXTENDS TimerWheel, WellFoundedInduction, TLAPS

(* Induction over the natural numbers, for a set in place of a predicate.  *)
LEMMA NatSetInduction ==
    ASSUME NEW S, 0 \in S, \A n \in Nat : n \in S => n + 1 \in S
    PROVE  Nat \subseteq S
<1> DEFINE R == OpToRel(<, Nat)
           B == Nat \ S
<1>1. IsWellFoundedOn(R, Nat)
  BY NatLessThanWellFounded
<1>2. \A m, n \in Nat : m < n => <<m, n>> \in R
  BY DEF OpToRel
<1> SUFFICES ASSUME B # {} PROVE FALSE
  OBVIOUS
<1> HIDE DEF R
<1>3. PICK x \in B : \A y \in B : ~ (<<y, x>> \in R)
  <2>1. B \subseteq Nat
    OBVIOUS
  <2> HIDE DEF B
  <2> QED
    BY <1>1, <2>1, WFMin
<1>4. x # 0 /\ x \in Nat
  BY <1>3
<1>5. x - 1 \in Nat /\ <<x - 1, x>> \in R
  BY <1>2, <1>4
<1>6. x - 1 \in S
  BY <1>3, <1>5
<1>7. (x - 1) + 1 = x
  BY <1>4
<1> QED
  BY <1>3, <1>5, <1>6, <1>7

-----------------------------------------------------------------------------
(* Timer wheels.                                                           *)

LEMMA WheelNewType ==
    ASSUME NEW Key
    PROVE  WheelNew \in Wheels(Key)
  BY SizeAssumption DEF WheelNew, Wheels, Slot

(* insert() adds to one slot and moves nothing.                            *)
LEMMA WheelInsertFields ==
    ASSUME NEW Key, NEW w \in Wheels(Key), NEW keys, keys \subseteq Key
    PROVE  /\ WheelInsert(w, keys) \in Wheels(Key)
           /\ WheelInsert(w, keys).current_read = w.current_read
           /\ WheelInsert(w, keys).current_write = w.current_write
           /\ WheelInsert(w, keys).data[w.current_write]
                = w.data[w.current_write] \cup keys
           /\ \A i \in Slot : i # w.current_write =>
                WheelInsert(w, keys).data[i] = w.data[i]
  BY DEF WheelInsert, Wheels

(* remove() takes each key out of the one slot it names.                   *)
LEMMA WheelRemoveFields ==
    ASSUME NEW Key, NEW w \in Wheels(Key), NEW slot
    PROVE  /\ WheelRemove(w, slot) \in Wheels(Key)
           /\ WheelRemove(w, slot).current_read = w.current_read
           /\ WheelRemove(w, slot).current_write = w.current_write
           /\ \A i \in Slot : WheelRemove(w, slot).data[i] =
                w.data[i] \ {k \in DOMAIN slot : slot[k] = i}
  BY DEF WheelRemove, Wheels

(* The pointers wrap round.                                                *)
LEMMA NextSlot ==
    ASSUME NEW i \in Slot
    PROVE  /\ (i + 1) % Size \in Slot
           /\ (i + 1) % Size = IF i + 1 = Size THEN 0 ELSE i + 1
  BY SizeAssumption DEF Slot

(* expire() empties one slot and moves both pointers on.                   *)
LEMMA WheelExpireFields ==
    ASSUME NEW Key, NEW w \in Wheels(Key)
    PROVE  /\ WheelExpire(w) \in Wheels(Key)
           /\ WheelExpire(w).current_read = (w.current_read + 1) % Size
           /\ WheelExpire(w).current_write = (w.current_write + 1) % Size
           /\ \A i \in Slot : WheelExpire(w).data[i] =
                IF i = w.current_read THEN {} ELSE w.data[i]
<1> DEFINE v == [w EXCEPT !.data[w.current_read] = {}]
<1>1. /\ v \in Wheels(Key)
      /\ v.current_read = w.current_read /\ v.current_write = w.current_write
      /\ \A i \in Slot : v.data[i] = IF i = w.current_read THEN {} ELSE w.data[i]
  BY DEF Wheels
<1> HIDE DEF v
<1>2. /\ update_pointers(v) \in Wheels(Key)
      /\ update_pointers(v).data = v.data
      /\ update_pointers(v).current_read = (v.current_read + 1) % Size
      /\ update_pointers(v).current_write = (v.current_write + 1) % Size
  <2>1. v.current_read \in Slot /\ v.current_write \in Slot
    BY <1>1 DEF Wheels
  <2>2. /\ (v.current_read + 1) % Size \in Slot
        /\ (v.current_write + 1) % Size \in Slot
    BY <2>1, NextSlot
  <2> QED
    BY <1>1, <2>2 DEF Wheels, update_pointers
<1> QED
  BY <1>1, <1>2 DEF WheelExpire, v
-----------------------------------------------------------------------------
(* Time left.  In a wheel as new() makes it the write pointer is one slot  *)
(* behind the read pointer, and every operation leaves it there.           *)

Adjacent(w) == w.current_read = (w.current_write + 1) % Size

LEMMA WheelNewAdjacent == Adjacent(WheelNew)
  BY SizeAssumption DEF Adjacent, WheelNew

LEMMA WheelExpireAdjacent ==
    ASSUME NEW Key, NEW w \in Wheels(Key), Adjacent(w)
    PROVE  Adjacent(WheelExpire(w))
  BY WheelExpireFields DEF Adjacent

(* A key has from 1 to Size ticks left.                                    *)
LEMMA TicksLeftRange ==
    ASSUME NEW Key, NEW w \in Wheels(Key), NEW i \in Slot
    PROVE  TicksLeft(w, i) \in 1 .. Size
<1>1. w.current_read \in Slot
  BY DEF Wheels
<1> QED
  BY <1>1, SizeAssumption DEF TicksLeft, Slot

(* A key that is inserted has all of them.                                 *)
LEMMA TicksLeftArmed ==
    ASSUME NEW Key, NEW w \in Wheels(Key), Adjacent(w)
    PROVE  TicksLeft(w, w.current_write) = Size
<1>1. w.current_write \in Slot
  BY DEF Wheels
<1>2. w.current_read =
        IF w.current_write + 1 = Size THEN 0 ELSE w.current_write + 1
  BY <1>1, NextSlot DEF Adjacent
<1> QED
  BY <1>1, <1>2, SizeAssumption DEF TicksLeft, Slot

(* When the read pointer moves on, every slot but the one it leaves is one *)
(* tick older, and the one it leaves had a single tick left.               *)
LEMMA TicksLeftTick ==
    ASSUME NEW Key, NEW w \in Wheels(Key), NEW v,
           v.current_read = (w.current_read + 1) % Size, NEW i \in Slot
    PROVE  /\ i = w.current_read => TicksLeft(w, i) = 1
           /\ i # w.current_read => /\ TicksLeft(w, i) > 1
                                    /\ TicksLeft(v, i) = TicksLeft(w, i) - 1
<1>1. w.current_read \in Slot
  BY DEF Wheels
<1>2. v.current_read =
        IF w.current_read + 1 = Size THEN 0 ELSE w.current_read + 1
  BY <1>1, NextSlot
<1> DEFINE a == w.current_read
           b == v.current_read
<1>3. /\ TicksLeft(w, i) = IF i >= a THEN i - a + 1 ELSE i + Size - a + 1
      /\ TicksLeft(v, i) = IF i >= b THEN i - b + 1 ELSE i + Size - b + 1
  BY DEF TicksLeft
<1>4. a \in 0 .. Size - 1 /\ i \in 0 .. Size - 1 /\ b = IF a + 1 = Size THEN 0 ELSE a + 1
  BY <1>1, <1>2 DEF Slot
<1> HIDE DEF a, b
<1>5. /\ i = a => TicksLeft(w, i) = 1
      /\ i # a => /\ TicksLeft(w, i) > 1
                 /\ TicksLeft(v, i) = TicksLeft(w, i) - 1
  BY <1>3, <1>4, SizeAssumption
<1> QED
  BY <1>5 DEF a

(* It moves, unless there is a single slot.                                *)
LEMMA NextSlotDiffers ==
    ASSUME NEW i \in Slot, NEW j \in Slot, i # j
    PROVE  (i + 1) % Size # i
  BY NextSlot, SizeAssumption DEF Slot
=============================================================================
