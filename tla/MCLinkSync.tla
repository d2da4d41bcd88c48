----------------------------- MODULE MCLinkSync -----------------------------
(* Initial places for LinkSync: each object's link has a name of its own.  *)
EXTENDS LinkSync

MCFirstName == CHOOSE f \in Injection(Objects, Names) : TRUE
=============================================================================
