---------------------------------- MODULE Sums ----------------------------------
(***************************************************************************)
(* Sums of a function's values: the totals the program folds over rows.     *)
(***************************************************************************)
EXTENDS Functions

Sum(f, S) == SumFunctionOnSet(f, S)
=================================================================================
