------------------------------ MODULE Nothing ------------------------------
(***************************************************************************)
(* The value that stands for a missing row, key or reference.              *)
(***************************************************************************)
CONSTANT None
=============================================================================
