---------------------- MODULE MCSessionProjection ----------------------
(* Two requests at a time on one session, both kinds of settings, failures *)
(* of every database call, lost answers and dying workers.                 *)
EXTENDS SessionProjectionProps, TLC

CONSTANTS r1, r2, plain, large

RequestSymmetry == Permutations({r1, r2})
=============================================================================
