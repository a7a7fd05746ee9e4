----------------------------- MODULE MCSeatTurn -----------------------------
(* Three hats: two fused on a cloud seat, one alone on the local one.         *)
EXTENDS SeatTurn

CONSTANTS h1, h2, h3, s1, s2

MCHats == {h1, h2, h3}
MCSeats == {s1, s2}
MCSeatOf == (h1 :> s1) @@ (h2 :> s1) @@ (h3 :> s2)
=============================================================================
