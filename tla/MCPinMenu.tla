----------------------------- MODULE MCPinMenu -----------------------------
(* A user who types anything, and an admin who types one PIN, 0, or other   *)
(* text without PIN format.                                                 *)
EXTENDS PinMenu, TLC

CONSTANTS alice, bob, p1, p2

MCUser == {alice, bob}
MCAdmins == {bob}
MCPIN == {p1, p2}
MCTyped == (alice :> Input) @@ (bob :> {p1, "0", "other"})
=============================================================================
