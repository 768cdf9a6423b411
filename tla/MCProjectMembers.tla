--------------------------- MODULE MCProjectMembers ---------------------------
(* ProjectMembers with symmetric requests and users.                       *)
EXTENDS ProjectMembers, TLC

MCSymmetry == Permutations(Request) \cup Permutations(User)
=============================================================================
