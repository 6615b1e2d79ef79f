---------------------------- MODULE MCSyncGrabs ----------------------------
(***************************************************************************)
(* SyncGrabs for TLC: who owns the windows, and the passive grabs that     *)
(* clients may ask for.                                                    *)
(***************************************************************************)
EXTENDS SyncGrabs

CONSTANTS pointer, keyboard, a, b

GrabOf(d, c, own, others, w) ==
    [dev |-> d, grab |-> [client |-> c, own |-> own, others |-> others, win |-> w]]

\* a grabs a button and a key on the root, b a button on the window below.
Passives == {GrabOf(pointer, a, "Sync", "Async", 1), GrabOf(pointer, b, "Sync", "Sync", 2),
             GrabOf(keyboard, a, "Async", "Sync", 1)}

\* b grabs the keyboard and freezes the pointer.
Actives == {GrabOf(keyboard, b, "Async", "Sync", 2)}

\* a selects for button presses on the root, b on the window below.
Selecting == {<<a, 1>>, <<b, 2>>}

Events == [d \in {pointer, keyboard} |-> IF d = pointer THEN 2 ELSE 2]

NobodyOwns == [w \in 1 .. Depth |-> NoClient]
AOwnsTheLast == [w \in 1 .. Depth |-> IF w = Depth THEN a ELSE NoClient]
=============================================================================
