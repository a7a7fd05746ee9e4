--------------------------------- MODULE Joins ---------------------------------
(* Sequences made of pieces.                                                   *)
EXTENDS Naturals, Sequences

\* FlattenSeq, as a function of how many of the pieces are taken.
Joined(pieces) ==
  LET upto[i \in 0..Len(pieces)] == IF i = 0 THEN <<>> ELSE upto[i - 1] \o pieces[i]
  IN upto[Len(pieces)]
===============================================================================
