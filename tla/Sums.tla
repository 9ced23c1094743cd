-------------------------------- MODULE Sums --------------------------------
(***************************************************************************)
(* The sum of a column: what Python's sum(...) over the items of a dict or *)
(* of a list of rows comes to, whatever the order they are listed in.      *)
(***************************************************************************)
EXTENDS Integers, FiniteSetsExt

SumOver(f, S) == MapThenSumSet(LAMBDA k : f[k], S)
=============================================================================
