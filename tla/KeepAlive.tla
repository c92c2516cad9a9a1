------------------------------ MODULE KeepAlive ------------------------------
(***************************************************************************)
(* What a timer wheel promises to the component that owns it: every live   *)
(* key has a number of ticks left; it has Size of them when it is armed,   *)
(* loses one at every tick, and a key that has one left does not survive   *)
(* the tick.                                                               *)
(***************************************************************************)
EXTENDS Naturals

CONSTANTS Size, Key

VARIABLE left       \* partial function: live key -> ticks left

Init == left = [k \in {} |-> 0]

(* Between ticks, keys are armed (or armed again) and dropped at will.     *)
Touch ==
    \A k \in DOMAIN left' :
        \/ left'[k] = Size
        \/ k \in DOMAIN left /\ left'[k] = left[k]

(* At a tick, what survives is one tick older; only new keys are armed.    *)
Tick ==
    \A k \in DOMAIN left' :
        IF k \in DOMAIN left THEN left[k] > 1 /\ left'[k] = left[k] - 1
                             ELSE left'[k] = Size

Next == DOMAIN left' \subseteq Key /\ (Touch \/ Tick)

Spec == Init /\ [][Next]_left
=============================================================================
