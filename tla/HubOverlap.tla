----------------------------- MODULE HubOverlap -----------------------------
(***************************************************************************)
(* CollabHub with a record of the connections that joined a room while one *)
(* of the same user was on its way out of it, with its presence still to   *)
(* remove.                                                                 *)
(***************************************************************************)
EXTENDS CollabHub

VARIABLE
  returned   \* history: those connections, until the presence is removed

overlapVars == <<vars, returned>>

\* d has left the room of c, which is of the same user, and is going to
\* remove the presence of that user.
Clears(d, c) ==
  pc[d] = "removing" /\ room[d] = room[c] /\ UserOf[d] = UserOf[c]

Joins(c) == pc[c] = "joining" /\ pc'[c] = "active"

OverlapInit == Init /\ returned = {}

OverlapNext ==
  /\ Next
  /\ returned' = {c \in Client :
                    /\ c \in returned \/ Joins(c)
                    /\ \E d \in Client : Clears(d, c)'}

OverlapSpec == OverlapInit /\ [][OverlapNext]_overlapVars

OverlapFairSpec == OverlapSpec /\ \A c \in Client : WF_vars(Progress(c))

-----------------------------------------------------------------------------
\* Whoever is a member of a room of which its user is going to be cleared
\* joined it since.
ClearedReturned ==
  \A c, d \in Client : Clears(d, c) /\ c \in members[room[c]] => c \in returned

OverlapIInv ==
  /\ IInv
  /\ ClearedReturned

\* A member of a room whose user is shown stays shown until it leaves,
\* whatever the other connections of its user do, unless it joined between
\* the two critical sections of one that leaves (room.go Leave, handler.go
\* handleAwarenessUpdate).
PresenceStays ==
  [][\A r \in Client : \A c \in (members[r] \cap members'[r]) \ returned :
       UserOf[c] \in presence[r] => UserOf[c] \in presence'[r]]_overlapVars
=============================================================================
