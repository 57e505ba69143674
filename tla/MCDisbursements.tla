--------------------------- MODULE MCDisbursements ---------------------------
(* Disbursements on small instances *)
EXTENDS Disbursements, TLC

(* handlers are only compared for equality *)
Interchangeable == Permutations(Handlers)
==============================================================================
