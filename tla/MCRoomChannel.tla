---------------------------- MODULE MCRoomChannel ----------------------------
(* RoomChannel where every connection has a user of its own.               *)
EXTENDS RoomChannel, TLC

MCOwnUser == [c \in Conn |-> c]

ASSUME MCOneConnectionEach == OneConnectionEach

MCSymmetry == Permutations(Conn) \cup Permutations(Cursor)
=============================================================================
