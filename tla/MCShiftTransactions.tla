-------------------------- MODULE MCShiftTransactions --------------------------
(* Small instances of ShiftTransactions: which requests race is the         *)
(* constant Kinds of each configuration.                                    *)
EXTENDS ShiftTransactions
=============================================================================
