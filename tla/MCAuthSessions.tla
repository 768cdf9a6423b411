--------------------------- MODULE MCAuthSessions ---------------------------
(* AuthSessions with two spellings of one address.                         *)
EXTENDS AuthSessions, TLC

CONSTANTS lower, mixed

MCNormal == [a \in Address |-> lower]

MCSymmetry == Permutations(Request) \cup Permutations(User) \cup Permutations(Token)
=============================================================================
