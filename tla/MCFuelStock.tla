------------------------------ MODULE MCFuelStock ------------------------------
(* Small instances of FuelStock.                                            *)
EXTENDS FuelStock

(* Where the books are to be exact, what follows an approximation is not    *)
(* explored further, nor what follows the reopening of every Shift.         *)
Scope == quirks = {} /\ reopened # Shifts
=============================================================================
