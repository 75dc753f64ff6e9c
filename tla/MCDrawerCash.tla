----------------------------- MODULE MCDrawerCash -----------------------------
(* A Shift with two DUs, held by one or by two Attendants, and a counter.   *)
EXTENDS DrawerCash, TLC

(* Attendants differ in nothing but the DUs they hold.                      *)
Symmetric == Permutations(Attendants)
=============================================================================
