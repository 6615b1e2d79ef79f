--------------------------- MODULE MCClientInput ---------------------------
(***************************************************************************)
(* ClientInput for TLC: what the clients do.  Sleeping and imperviousness  *)
(* to grabs are explored apart, each with as many clients as it needs,     *)
(* and, for what goes wrong when they meet, together.                      *)
(***************************************************************************)
EXTENDS ClientInput

\* All clients may sleep, none is impervious to grabs.
Asleep == [clients |-> {1, 2}, sleepers |-> {1, 2}, testers |-> {}, limit |-> 2]
\* One client makes itself impervious, and so may wait for a second grab.
Tester == [clients |-> {1, 2, 3}, sleepers |-> {}, testers |-> {2}, limit |-> 1]
\* A client that does both.
SleepingTester == [clients |-> {1, 2}, sleepers |-> {2}, testers |-> {2}, limit |-> 1]

\* Two clients that are impervious.
TwoTesters == {[clients |-> {1, 2, 3}, sleepers |-> {}, testers |-> {2, 3}, limit |-> 1]}

SeparateRoles == {Asleep, Tester}
MixedRoles == {SleepingTester}
=============================================================================
