---------------------------- MODULE MCJobRoundTrip ----------------------------
(***************************************************************************)
(* Instances of JobRoundTrip for TLC.                                      *)
(***************************************************************************)
EXTENDS JobRoundTrip, TLC

CONSTANTS b1, b2, r1, p1, p2

BuildSymmetry == Permutations({b1, b2})

=============================================================================
