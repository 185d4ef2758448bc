--------------------------- MODULE MCClassroom ----------------------------
(* One session, two participants, two requests at a time. *)
EXTENDS ClassroomProps, TLC

CONSTANTS p1, p2, k1, k2, d1, d2

Symmetry == Permutations({p1, p2}) \cup Permutations({k1, k2}) \cup Permutations({d1, d2})
=============================================================================
