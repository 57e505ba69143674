-------------------------------- MODULE Sums --------------------------------
(***************************************************************************)
(* Sums of money over a finite set: what the code does with sum() over     *)
(* rows, or with SQL's func.sum.                                           *)
(***************************************************************************)
EXTENDS Integers, FiniteSetsExt

SumOver(f, S) == FoldSet(LAMBDA x, acc : acc + f[x], 0, S)
=============================================================================
