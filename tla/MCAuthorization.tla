--------------------------- MODULE MCAuthorization ---------------------------
(* TLC instances of Authorization: of two processes one may be the child   *)
(* of the other, so processes are not interchangeable.                     *)
EXTENDS Authorization, TLC

CONSTANTS p1, p2

Child == {<<p2, p1>>}

Symmetry == Permutations(Requests) \cup Permutations(Tokens)
=============================================================================
