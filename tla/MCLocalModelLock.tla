-------------------------- MODULE MCLocalModelLock --------------------------
(* Five turns of three rooms contend for two slots.                          *)
EXTENDS LocalModelLock

CONSTANTS c1, c2, c3, c4, c5, r1, r2, r3

MCCallers == {c1, c2, c3, c4, c5}
MCOwner == (c1 :> r1) @@ (c2 :> r1) @@ (c3 :> r2) @@ (c4 :> r2) @@ (c5 :> r3)
=============================================================================
