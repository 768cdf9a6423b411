-------------------------- MODULE MCUpdateDelivery --------------------------
(* UpdateDelivery with symmetric clients and edits.                        *)
EXTENDS UpdateDelivery, TLC

MCSymmetry == Permutations(Conn) \cup Permutations(Op)
=============================================================================
