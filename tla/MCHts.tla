------------------------------- MODULE MCHts -------------------------------
(* The health thermometer with two readings of a temperature device.       *)
EXTENDS Hts

Readings == {-5, 37}
=============================================================================
