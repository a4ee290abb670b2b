---------------------------- MODULE CircularTime ----------------------------
(***************************************************************************)
(* The time values of the Cache Kernel's scheduler: 32-bit words compared  *)
(* on a circle (CLESS, CLSE of include/architecture/I80X86/arith.h), so    *)
(* that virtual and real time may wrap around.                             *)
(***************************************************************************)
EXTENDS Integers

CONSTANT TimeWidth   (* number of distinct TIME values; 2^32 in the kernel *)

ASSUME TimeWidthAssumption ==
    /\ TimeWidth \in Nat
    /\ TimeWidth > 1

TIME == 0 .. TimeWidth - 1

(* The machine's subtraction and addition of two words. *)
Minus(x, y) == (x - y) % TimeWidth
Plus(x, y)  == (x + y) % TimeWidth

(* The sign bit of the 32-bit difference. *)
CLESS(x, y) == 2 * Minus(x, y) >= TimeWidth

CLSE(x, y) == Minus(x, y) = 0 \/ CLESS(x, y)

(* The times of T lie within half a turn of the circle: the condition under *)
(* which the circular comparison orders them.                              *)
WithinHalfTurn(T) ==
    \E base \in TIME : \A t \in T : 2 * Minus(t, base) < TimeWidth
=============================================================================
