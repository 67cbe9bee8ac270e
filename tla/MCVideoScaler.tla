---------------------------- MODULE MCVideoScaler ----------------------------
(* An instance of VideoScaler for TLC.                                     *)
EXTENDS VideoScaler

\* With ints of four bits, two of these may overflow.
Options == {-1, 0, 1, 3, 7}
OutOptions == {-2, 0, 3}
=============================================================================
