------------------------------- MODULE MCDesks -------------------------------
(* Instances of Desks small enough for TLC.                                *)
EXTENDS Desks

TwoClients   == 1 .. 2
ThreeClients == 1 .. 3
OneOutput    == {1}
TwoOutputs   == 1 .. 2
ThreeOutputs == 1 .. 3
NotWanted    == NoOutput
=============================================================================
