------------------------------ MODULE MCDriver ------------------------------
(* Driver for TLC: two possible task ARNs, so that the ARN RunTask returns   *)
(* and the one a lost response started may differ.                          *)
EXTENDS Driver, TLC

CONSTANTS a1, a2

MCArns == {a1, a2}

\* the ARNs are interchangeable
MCSymmetry == Permutations(MCArns)

=============================================================================
