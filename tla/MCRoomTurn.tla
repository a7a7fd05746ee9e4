----------------------------- MODULE MCRoomTurn -----------------------------
(* Three agents: p the planner, b and s the workers.                         *)
EXTENDS RoomTurn

CONSTANTS p, b, s

MCAgents == {p, b, s}
MCWorkers == {b, s}
MCPlanner == {p}
MCNobody == {}

\* Every agent on a seat of its own, or the workers two hats of one seat.
MCTwo == {p, b}
MCSeats == (p :> "p") @@ (b :> "b") @@ (s :> "s")
MCTwoSeats == (p :> "p") @@ (b :> "b")
MCHats == (p :> "p") @@ (b :> "w") @@ (s :> "w")

MCOpen == {"auto", "manual"}
MCReviewed == {"semi", "supervised"}
MCAuto == {"auto"}
MCSupervised == {"supervised"}
MCSemi == {"semi"}
=============================================================================
