--------------------------- MODULE MCShiftLifecycle ---------------------------
(* Two Shifts over two Business Dates with two Drawers, a ledger row, a     *)
(* counter sale and a merchandise seller.                                   *)
EXTENDS ShiftLifecycle, TLC

(* Bound: at most one Shift is closed twice.                               *)
Scope == Cardinality({s \in Shifts : booked[s] = MaxCloses}) <= 1

Symmetric == Permutations(Shifts) \cup Permutations(Entries) \cup Permutations(Drawers)
=============================================================================
