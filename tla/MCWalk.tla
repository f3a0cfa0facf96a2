-------------------------------- MODULE MCWalk --------------------------------
(* An instance of Walk small enough for TLC.                                 *)
EXTENDS Walk

\* A lag of none, one the link shrugs off, one that is behind, one far behind.
FourLags  == {0, 45, 100, 450}
TwoBlocks == {0, 25}
=============================================================================
