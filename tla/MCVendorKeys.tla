---------------------------- MODULE MCVendorKeys ----------------------------
(* Small instances of VendorKeys for TLC.                                  *)
EXTENDS VendorKeys, TLC

CONSTANTS q1, q2, q3, q4, s1

ThreeRequests == {q1, q2, q3}
FourRequests  == {q1, q2, q3, q4}
OneScan       == {s1}

Symmetric == Permutations(FourRequests)
=============================================================================
