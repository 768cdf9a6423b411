---------------------------- MODULE MCCollabHub ----------------------------
(* CollabHub with two connections of one user and one of another.          *)
EXTENDS CollabHub

CONSTANTS c1, c2, c3, u1, u2, p1

MCUserOf == [c \in Client |-> IF c = c3 THEN u2 ELSE u1]

\* Everybody works on the same project.
MCOneProject == [c \in Client |-> p1]
=============================================================================
