----------------------------- MODULE TimerWheel -----------------------------
(***************************************************************************)
(* src/timer_wheel.rs: a ring of Size sets of keys.  A key is inserted at  *)
(* current_write; every tick empties the set at current_read and moves     *)
(* both pointers on by one.  A wheel is a value, so that the components    *)
(* that own one (the cluster server, the TCP handler) hold it in a         *)
(* variable of their own.                                                  *)
(***************************************************************************)
EXTENDS Naturals

CONSTANT Size       \* number of slots: REQUEST_TIMEOUT / TICK_TIME = 5 in
                    \* the cluster server, TIMER_WHEEL_SLOTS + 1 = 11 in the
                    \* TCP handler.  TimerWheel::new(0) underflows size - 1.

ASSUME SizeAssumption == Size \in Nat \ {0}

Slot == 0 .. (Size - 1)

Wheels(Key) == [data : [Slot -> SUBSET Key],
                current_read : Slot,
                current_write : Slot]

WheelNew == [data |-> [i \in Slot |-> {}],
             current_read |-> 0,
             current_write |-> Size - 1]

(* insert() of every key of a set; the slot insert() returns to the caller *)
(* is w.current_write.                                                     *)
WheelInsert(w, keys) ==
    [w EXCEPT !.data[w.current_write] = @ \cup keys]

(* remove(key, slot) for every key of DOMAIN slot, each at its own slot.    *)
WheelRemove(w, slot) ==
    [w EXCEPT !.data =
        [i \in Slot |-> w.data[i] \ {k \in DOMAIN slot : slot[k] = i}]]

(* The set that expire() returns.                                          *)
WheelExpired(w) == w.data[w.current_read]

(* The off-by-one in which the write pointer never moves.                  *)
update_pointers_mut(w) == [w EXCEPT !.current_read = (@ + 1) % Size]

(* The pointers run past the last slot instead of wrapping round.          *)
update_pointers_nowrap(w) ==
    [w EXCEPT !.current_write = @ + 1, !.current_read = @ + 1]

update_pointers(w) ==
    [w EXCEPT !.current_write = (@ + 1) % Size,
              !.current_read  = (@ + 1) % Size]

(* The wheel after expire(): a fresh set is pushed and swapped into the    *)
(* place of the one at current_read, which leaves the others where they    *)
(* were.                                                                   *)
WheelExpire(w) ==
    update_pointers([w EXCEPT !.data[w.current_read] = {}])

(* Ticks until a key in slot i expires, 1 .. Size.                         *)
TicksLeft(w, i) ==
    IF i >= w.current_read THEN i - w.current_read + 1
                           ELSE i + Size - w.current_read + 1
=============================================================================
