----------------------------- MODULE MCProfile -----------------------------
(* Two users of one process, each with the prompts he starts from. *)
EXTENDS Profile, TLC

CONSTANTS amina, baraka, StartsOfAmina, StartsOfBaraka

MCUser == {amina, baraka}
MCStarts == (amina :> StartsOfAmina) @@ (baraka :> StartsOfBaraka)
=============================================================================
