----------------------------- MODULE MCRoomTree -----------------------------
(* The default room and two more, so that a spawned room can spawn one.      *)
EXTENDS RoomTree

CONSTANTS r0, r1, r2, w1, w2

MCRooms == {r0, r1, r2}
OneWorker == {w1}
TwoWorkers == {w1, w2}
=============================================================================
