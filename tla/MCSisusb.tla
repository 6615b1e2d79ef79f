------------------------------ MODULE MCSisusb ------------------------------
(* SisusbScreen started upright, with rotations of every kind asked for.   *)
EXTENDS SisusbScreen

MCStart == [turn |-> 1, reflect |-> {}]
MCRotations ==
    {[turn |-> t, reflect |-> {}] : t \in Turns} \cup {[turn |-> 4, reflect |-> {"X"}]}
=============================================================================
