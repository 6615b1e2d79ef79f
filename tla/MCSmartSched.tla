---------------------------- MODULE MCSmartSched ----------------------------
(* Instances of SmartSched for TLC: a .cfg has no negative numbers.        *)
EXTENDS SmartSched

MinusOne == -1
=============================================================================
