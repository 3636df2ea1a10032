------------------------------ MODULE MCBridge ------------------------------
(***************************************************************************)
(* Small instances of Bridge for TLC: one socket, and two cards whose      *)
(* indices are not their positions (the row of card 1 never parses).       *)
(***************************************************************************)
EXTENDS Bridge

Socket == [kind |-> "cpu", index |-> 0]
CardA  == [kind |-> "gpu", index |-> 0]
CardB  == [kind |-> "gpu", index |-> 2]

AllDevices == {Socket, CardA, CardB}
OneSocket  == {Socket}

SocketScans == {{}, {Socket}}

\* The row of card A stops parsing now and then: card B moves.
ShiftingScans == {{Socket, CardA, CardB}, {Socket, CardB}}

\* A broker that may restart empty at any moment.
Everywhere == {"wait", "state", "check", "announce", "mark"}
=============================================================================
