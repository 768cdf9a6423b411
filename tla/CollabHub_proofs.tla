-------------------------- MODULE CollabHub_proofs --------------------------
(* The safety properties of CollabHub, proved for any set of connections,  *)
(* users and projects.  IInv is inductive: one lemma per conjunct, each    *)
(* with one step per action; Invariance puts them together.                *)
EXTENDS HubOverlap, TLAPS

\* Every step of the hub keeps the variables in their types.
LEMMA TypeStep ==
  ASSUME TypeOK, RoomOfProject, [Next]_vars
  PROVE  TypeOK'
<1> USE HubAssumption DEF TypeOK, PC, Phase
<1>1. ASSUME NEW c \in Client, GetOrCreateRoom(c) PROVE TypeOK'
  BY <1>1 DEF GetOrCreateRoom, RoomFor, Goto
<1>2. ASSUME NEW c \in Client, Join(c) PROVE TypeOK'
  BY <1>2 DEF Join, Goto
<1>3. ASSUME NEW c \in Client, ReceiveAwareness(c) PROVE TypeOK'
  BY <1>3 DEF ReceiveAwareness, Goto
<1>4. ASSUME NEW c \in Client, SetPresence(c) PROVE TypeOK'
  <2>1. c \in Client /\ UserOf[c] \in User /\ room[c] \in Client
    BY <1>4 DEF SetPresence, RoomOfProject
  <2>2. presence' \in [Client -> SUBSET User]
    BY <1>4, <2>1 DEF SetPresence
  <2> QED
    BY <1>4, <2>2 DEF SetPresence, Goto
<1>5. ASSUME NEW c \in Client, WritePumpFails(c) PROVE TypeOK'
  BY <1>5 DEF WritePumpFails
<1>6. ASSUME NEW c \in Client, ReadFails(c) PROVE TypeOK'
  BY <1>6 DEF ReadFails, Goto
<1>7. ASSUME NEW c \in Client, LeaveNotMember(c) PROVE TypeOK'
  BY <1>7 DEF LeaveNotMember, Goto
<1>8. ASSUME NEW c \in Client, Leave(c) PROVE TypeOK'
  BY <1>8 DEF Leave, Goto
<1>9. ASSUME NEW c \in Client, RemovePresence(c) PROVE TypeOK'
  BY <1>9 DEF RemovePresence, Goto
<1>10. ASSUME NEW c \in Client, CheckRoom(c) PROVE TypeOK'
  BY <1>10 DEF CheckRoom, AfterRemoval, Goto
<1>11. CASE Shutdown
  BY <1>11 DEF Shutdown, CloseRooms, Registered
<1>12. CASE Exit
  BY <1>12 DEF Exit
<1>13. CASE UNCHANGED vars
  BY <1>13 DEF vars
<1> QED
  BY <1>1, <1>2, <1>3, <1>4, <1>5, <1>6, <1>7,
     <1>8, <1>9, <1>10, <1>11, <1>12, <1>13
     DEF Next, Step, Exited

\* Every step keeps a connection in a room of its own project.
LEMMA RoomOfProjectStep ==
  ASSUME TypeOK, RoomOfProject, [Next]_vars
  PROVE  RoomOfProject'
<1> USE HubAssumption DEF TypeOK, PC, Phase, RoomOfProject
<1>1. ASSUME NEW c \in Client, GetOrCreateRoom(c) PROVE RoomOfProject'
  BY <1>1 DEF GetOrCreateRoom, RoomFor, Goto
<1>2. ASSUME NEW c \in Client, Join(c) PROVE RoomOfProject'
  BY <1>2 DEF Join, Goto
<1>3. ASSUME NEW c \in Client, ReceiveAwareness(c) PROVE RoomOfProject'
  BY <1>3 DEF ReceiveAwareness, Goto
<1>4. ASSUME NEW c \in Client, SetPresence(c) PROVE RoomOfProject'
  BY <1>4 DEF SetPresence, Goto
<1>5. ASSUME NEW c \in Client, WritePumpFails(c) PROVE RoomOfProject'
  BY <1>5 DEF WritePumpFails
<1>6. ASSUME NEW c \in Client, ReadFails(c) PROVE RoomOfProject'
  BY <1>6 DEF ReadFails, Goto
<1>7. ASSUME NEW c \in Client, LeaveNotMember(c) PROVE RoomOfProject'
  BY <1>7 DEF LeaveNotMember, Goto
<1>8. ASSUME NEW c \in Client, Leave(c) PROVE RoomOfProject'
  BY <1>8 DEF Leave, Goto
<1>9. ASSUME NEW c \in Client, RemovePresence(c) PROVE RoomOfProject'
  BY <1>9 DEF RemovePresence, Goto
<1>10. ASSUME NEW c \in Client, CheckRoom(c) PROVE RoomOfProject'
  BY <1>10 DEF CheckRoom, AfterRemoval, Goto
<1>11. CASE Shutdown
  BY <1>11 DEF Shutdown, CloseRooms
<1>12. CASE Exit
  BY <1>12 DEF Exit
<1>13. CASE UNCHANGED vars
  BY <1>13 DEF vars
<1> QED
  BY <1>1, <1>2, <1>3, <1>4, <1>5, <1>6, <1>7,
     <1>8, <1>9, <1>10, <1>11, <1>12, <1>13
     DEF Next, Step, Exited

\* A room stays unknown until the connection that names it allocates it.
LEMMA UnallocatedStep ==
  ASSUME TypeOK, RoomOfProject, Unallocated, [Next]_vars
  PROVE  Unallocated'
<1> USE HubAssumption DEF TypeOK, PC, Phase, RoomOfProject, Unallocated
<1>1. ASSUME NEW c \in Client, GetOrCreateRoom(c) PROVE Unallocated'
  BY <1>1 DEF GetOrCreateRoom, RoomFor, Goto
<1>2. ASSUME NEW c \in Client, Join(c) PROVE Unallocated'
  BY <1>2 DEF Join, Goto
<1>3. ASSUME NEW c \in Client, ReceiveAwareness(c) PROVE Unallocated'
  BY <1>3 DEF ReceiveAwareness, Goto
<1>4. ASSUME NEW c \in Client, SetPresence(c) PROVE Unallocated'
  BY <1>4 DEF SetPresence, Goto
<1>5. ASSUME NEW c \in Client, WritePumpFails(c) PROVE Unallocated'
  BY <1>5 DEF WritePumpFails
<1>6. ASSUME NEW c \in Client, ReadFails(c) PROVE Unallocated'
  BY <1>6 DEF ReadFails, Goto
<1>7. ASSUME NEW c \in Client, LeaveNotMember(c) PROVE Unallocated'
  BY <1>7 DEF LeaveNotMember, Goto
<1>8. ASSUME NEW c \in Client, Leave(c) PROVE Unallocated'
  BY <1>8 DEF Leave, Goto
<1>9. ASSUME NEW c \in Client, RemovePresence(c) PROVE Unallocated'
  BY <1>9 DEF RemovePresence, Goto
<1>10. ASSUME NEW c \in Client, CheckRoom(c) PROVE Unallocated'
  BY <1>10 DEF CheckRoom, AfterRemoval, Goto
<1>11. CASE Shutdown
  BY <1>11 DEF Shutdown, CloseRooms
<1>12. CASE Exit
  BY <1>12 DEF Exit
<1>13. CASE UNCHANGED vars
  BY <1>13 DEF vars
<1> QED
  BY <1>1, <1>2, <1>3, <1>4, <1>5, <1>6, <1>7,
     <1>8, <1>9, <1>10, <1>11, <1>12, <1>13
     DEF Next, Step, Exited

\* Only a connection that joined and has not left is a member.
LEMMA MembersStep ==
  ASSUME TypeOK, RoomOfProject, MembersAreInRoom, [Next]_vars
  PROVE  MembersAreInRoom'
<1> USE HubAssumption DEF TypeOK, PC, Phase, RoomOfProject, MembersAreInRoom, InRoom
<1>1. ASSUME NEW c \in Client, GetOrCreateRoom(c) PROVE MembersAreInRoom'
  BY <1>1 DEF GetOrCreateRoom, RoomFor, Goto
<1>2. ASSUME NEW c \in Client, Join(c) PROVE MembersAreInRoom'
  BY <1>2 DEF Join, Goto
<1>3. ASSUME NEW c \in Client, ReceiveAwareness(c) PROVE MembersAreInRoom'
  BY <1>3 DEF ReceiveAwareness, Goto
<1>4. ASSUME NEW c \in Client, SetPresence(c) PROVE MembersAreInRoom'
  BY <1>4 DEF SetPresence, Goto
<1>5. ASSUME NEW c \in Client, WritePumpFails(c) PROVE MembersAreInRoom'
  BY <1>5 DEF WritePumpFails
<1>6. ASSUME NEW c \in Client, ReadFails(c) PROVE MembersAreInRoom'
  BY <1>6 DEF ReadFails, Goto
<1>7. ASSUME NEW c \in Client, LeaveNotMember(c) PROVE MembersAreInRoom'
  BY <1>7 DEF LeaveNotMember, Goto
<1>8. ASSUME NEW c \in Client, Leave(c) PROVE MembersAreInRoom'
  BY <1>8 DEF Leave, Goto
<1>9. ASSUME NEW c \in Client, RemovePresence(c) PROVE MembersAreInRoom'
  BY <1>9 DEF RemovePresence, Goto
<1>10. ASSUME NEW c \in Client, CheckRoom(c) PROVE MembersAreInRoom'
  BY <1>10 DEF CheckRoom, AfterRemoval, Goto
<1>11. CASE Shutdown
  BY <1>11 DEF Shutdown, CloseRooms
<1>12. CASE Exit
  BY <1>12 DEF Exit
<1>13. CASE UNCHANGED vars
  BY <1>13 DEF vars
<1> QED
  BY <1>1, <1>2, <1>3, <1>4, <1>5, <1>6, <1>7,
     <1>8, <1>9, <1>10, <1>11, <1>12, <1>13
     DEF Next, Step, Exited

\* Every step but Shutdown keeps an open connection in its room.
LEMMA EvictedStep ==
  ASSUME TypeOK, RoomOfProject, Unallocated, MembersAreInRoom,
         EvictedByShutdown, [Next]_vars
  PROVE  EvictedByShutdown'
<1> USE HubAssumption DEF TypeOK, PC, Phase, RoomOfProject, MembersAreInRoom, InRoom,
                          EvictedByShutdown, Registered
<1>1. ASSUME NEW c \in Client, GetOrCreateRoom(c) PROVE EvictedByShutdown'
  <2> SUFFICES ASSUME NEW d \in Client,
                      pc'[d] \in InRoom, d \notin members[room'[d]]
               PROVE  phase # "serving" /\ closed[d] /\ room'[d] \notin Registered'
    BY <1>1 DEF GetOrCreateRoom
  <2>1. /\ d # c /\ room'[d] = room[d] /\ room[d] \in Client
        /\ pc[d] \in InRoom
    BY <1>1 DEF GetOrCreateRoom, Goto
  <2>2. phase # "serving" /\ closed[d] /\ room[d] \notin Registered
    BY <2>1
  <2>3. room[d] # c
    BY <1>1, <2>1 DEF GetOrCreateRoom, Unallocated
  <2>4. \A p \in Project : rooms'[p] # room[d]
    BY <1>1, <2>1, <2>2, <2>3 DEF GetOrCreateRoom, RoomFor
  <2> QED
    BY <2>1, <2>2, <2>4
<1>2. ASSUME NEW c \in Client, Join(c) PROVE EvictedByShutdown'
  BY <1>2 DEF Join, Goto
<1>3. ASSUME NEW c \in Client, ReceiveAwareness(c) PROVE EvictedByShutdown'
  BY <1>3 DEF ReceiveAwareness, Goto
<1>4. ASSUME NEW c \in Client, SetPresence(c) PROVE EvictedByShutdown'
  BY <1>4 DEF SetPresence, Goto
<1>5. ASSUME NEW c \in Client, WritePumpFails(c) PROVE EvictedByShutdown'
  BY <1>5 DEF WritePumpFails
<1>6. ASSUME NEW c \in Client, ReadFails(c) PROVE EvictedByShutdown'
  BY <1>6 DEF ReadFails, Goto
<1>7. ASSUME NEW c \in Client, LeaveNotMember(c) PROVE EvictedByShutdown'
  BY <1>7 DEF LeaveNotMember, Goto
<1>8. ASSUME NEW c \in Client, Leave(c) PROVE EvictedByShutdown'
  BY <1>8 DEF Leave, Goto
<1>9. ASSUME NEW c \in Client, RemovePresence(c) PROVE EvictedByShutdown'
  BY <1>9 DEF RemovePresence, Goto
<1>10. ASSUME NEW c \in Client, CheckRoom(c) PROVE EvictedByShutdown'
  BY <1>10 DEF CheckRoom, AfterRemoval, Goto
<1>11. CASE Shutdown
  <2> SUFFICES ASSUME NEW d \in Client,
                      pc[d] \in InRoom, d \notin members'[room[d]]
               PROVE  phase' # "serving" /\ closed'[d] /\ room[d] \notin Registered'
    BY <1>11 DEF Shutdown, CloseRooms
  <2>1. phase' # "serving" /\ Registered' = {}
    BY <1>11 DEF Shutdown, CloseRooms
  <2>2. room[d] \in Client
    BY DEF InRoom
  <2>3. CASE room[d] \in Registered
    <3>1. d \in members[room[d]]
      BY <2>2, <2>3
    <3> QED
      BY <1>11, <2>1, <2>3, <3>1 DEF Shutdown, CloseRooms
  <2>4. CASE room[d] \notin Registered
    <3>1. d \notin members[room[d]]
      BY <1>11, <2>2, <2>4 DEF Shutdown, CloseRooms
    <3> QED
      BY <1>11, <2>1, <3>1 DEF Shutdown, CloseRooms
  <2> QED
    BY <2>3, <2>4
<1>12. CASE Exit
  BY <1>12 DEF Exit
<1>13. CASE UNCHANGED vars
  BY <1>13 DEF vars
<1> QED
  BY <1>1, <1>2, <1>3, <1>4, <1>5, <1>6, <1>7,
     <1>8, <1>9, <1>10, <1>11, <1>12, <1>13
     DEF Next, Step, Exited

\* Every step leaves somebody answering for a presence that can be seen.
LEMMA GhostStep ==
  ASSUME TypeOK, RoomOfProject, Unallocated, MembersAreInRoom,
         EvictedByShutdown, NoGhostPresence, [Next]_vars
  PROVE  NoGhostPresence'
<1> USE HubAssumption DEF TypeOK, PC, Phase, RoomOfProject, NoGhostPresence
<1>1. ASSUME NEW c \in Client, GetOrCreateRoom(c) PROVE NoGhostPresence'
  <2> SUFFICES ASSUME NEW r \in Client, phase = "serving" \/ r \in Registered',
                      NEW u \in presence[r]
               PROVE  \E d \in Client : AnswersFor(d, r, u)'
    BY <1>1 DEF GetOrCreateRoom
  <2>1. r # c
    BY <1>1 DEF GetOrCreateRoom, Unallocated
  <2>2. phase = "serving" \/ r \in Registered
    BY <1>1, <2>1 DEF GetOrCreateRoom, RoomFor, Registered
  <2>3. PICK d \in Client : AnswersFor(d, r, u)
    BY <2>2
  <2>4. d # c
    BY <1>1, <2>3 DEF GetOrCreateRoom, AnswersFor, Unallocated
  <2>5. AnswersFor(d, r, u)'
    BY <1>1, <2>3, <2>4 DEF GetOrCreateRoom, AnswersFor, Goto
  <2> QED
    BY <2>5
<1>2. ASSUME NEW c \in Client, Join(c) PROVE NoGhostPresence'
  BY <1>2 DEF Join, Goto, AnswersFor, Registered
<1>3. ASSUME NEW c \in Client, ReceiveAwareness(c) PROVE NoGhostPresence'
  BY <1>3 DEF ReceiveAwareness, Goto, AnswersFor, Registered
<1>4. ASSUME NEW c \in Client, SetPresence(c) PROVE NoGhostPresence'
  <2>0. phase' = phase /\ Registered' = Registered
    BY <1>4 DEF SetPresence, Registered
  <2> SUFFICES ASSUME NEW r \in Client, phase = "serving" \/ r \in Registered,
                      NEW u \in presence'[r]
               PROVE  \E d \in Client : AnswersFor(d, r, u)'
    BY <2>0
  <2>1. CASE u \in presence[r]
    <3>1. PICK d \in Client : AnswersFor(d, r, u)
      BY <2>1
    <3>2. AnswersFor(d, r, u)'
      BY <1>4, <3>1 DEF SetPresence, AnswersFor, Goto
    <3> QED
      BY <3>2
  <2>2. CASE u \notin presence[r]
    <3>1. room[c] = r /\ u = UserOf[c]
      BY <1>4, <2>2 DEF SetPresence
    <3>2. c \in members[r]
      BY <1>4, <3>1 DEF SetPresence, EvictedByShutdown, InRoom
    <3>3. AnswersFor(c, r, u)'
      BY <1>4, <3>1, <3>2 DEF SetPresence, AnswersFor
    <3> QED
      BY <3>3
  <2> QED
    BY <2>1, <2>2
<1>5. ASSUME NEW c \in Client, WritePumpFails(c) PROVE NoGhostPresence'
  BY <1>5 DEF WritePumpFails, AnswersFor, Registered
<1>6. ASSUME NEW c \in Client, ReadFails(c) PROVE NoGhostPresence'
  BY <1>6 DEF ReadFails, Goto, AnswersFor, Registered
<1>7. ASSUME NEW c \in Client, LeaveNotMember(c) PROVE NoGhostPresence'
  BY <1>7 DEF LeaveNotMember, Goto, AnswersFor, Registered
<1>8. ASSUME NEW c \in Client, Leave(c) PROVE NoGhostPresence'
  <2> SUFFICES ASSUME NEW r \in Client, phase = "serving" \/ r \in Registered,
                      NEW u \in presence[r]
               PROVE  \E d \in Client : AnswersFor(d, r, u)'
    BY <1>8 DEF Leave, Registered
  <2>1. PICK d \in Client : AnswersFor(d, r, u)
    OBVIOUS
  <2>2. CASE d # c
    <3>1. AnswersFor(d, r, u)'
      BY <1>8, <2>1, <2>2 DEF Leave, AnswersFor, Goto
    <3> QED
      BY <3>1
  <2>3. CASE d = c /\ HasOtherConnections(c)
    <3>1. PICK e \in members[room[c]] \ {c} : UserOf[e] = UserOf[c]
      BY <2>3 DEF HasOtherConnections
    <3>2. e \in Client /\ room[e] = r
      BY <2>1, <2>3, <3>1 DEF AnswersFor, MembersAreInRoom
    <3>3. AnswersFor(e, r, u)'
      BY <1>8, <2>1, <2>3, <3>1, <3>2 DEF Leave, AnswersFor, Goto
    <3> QED
      BY <3>2, <3>3
  <2>4. CASE d = c /\ ~HasOtherConnections(c)
    <3>1. AnswersFor(c, r, u)'
      BY <1>8, <2>1, <2>4 DEF Leave, AnswersFor, Goto
    <3> QED
      BY <3>1
  <2> QED
    BY <2>2, <2>3, <2>4
<1>9. ASSUME NEW c \in Client, RemovePresence(c) PROVE NoGhostPresence'
  BY <1>9 DEF RemovePresence, Goto, AnswersFor, Registered
<1>10. ASSUME NEW c \in Client, CheckRoom(c) PROVE NoGhostPresence'
  BY <1>10 DEF CheckRoom, AfterRemoval, Goto, AnswersFor, Registered
<1>11. CASE Shutdown
  BY <1>11 DEF Shutdown, CloseRooms, AnswersFor, Registered
<1>12. CASE Exit
  BY <1>12 DEF Exit, AnswersFor, Registered
<1>13. CASE UNCHANGED vars
  BY <1>13 DEF vars, AnswersFor, Registered
<1> QED
  BY <1>1, <1>2, <1>3, <1>4, <1>5, <1>6, <1>7,
     <1>8, <1>9, <1>10, <1>11, <1>12, <1>13
     DEF Next, Step, Exited

\* The last connection to finish takes its room out of the registry.
LEMMA RegisteredStep ==
  ASSUME TypeOK, RoomOfProject, Unallocated, MembersAreInRoom,
         RegisteredRoomHasConnection, [Next]_vars
  PROVE  RegisteredRoomHasConnection'
<1> USE HubAssumption DEF TypeOK, PC, Phase, RoomOfProject, RegisteredRoomHasConnection
<1>1. ASSUME NEW c \in Client, GetOrCreateRoom(c) PROVE RegisteredRoomHasConnection'
  <2> SUFFICES ASSUME NEW p \in Project, rooms'[p] # NoRoom
               PROVE  \E d \in Client : room'[d] = rooms'[p] /\ pc'[d] # "done"
    OBVIOUS
  <2>1. CASE rooms'[p] = room'[c]
    BY <1>1, <2>1 DEF GetOrCreateRoom, Goto
  <2>2. CASE rooms'[p] # room'[c]
    <3>1. rooms'[p] = rooms[p]
      BY <1>1, <2>2 DEF GetOrCreateRoom
    <3>2. PICK d \in Client : room[d] = rooms[p] /\ pc[d] # "done"
      BY <3>1
    <3>3. d # c
      BY <1>1, <3>1, <3>2 DEF GetOrCreateRoom, Unallocated
    <3> QED
      BY <1>1, <3>1, <3>2, <3>3 DEF GetOrCreateRoom, Goto
  <2> QED
    BY <2>1, <2>2
<1>2. ASSUME NEW c \in Client, Join(c) PROVE RegisteredRoomHasConnection'
  BY <1>2 DEF Join, Goto
<1>3. ASSUME NEW c \in Client, ReceiveAwareness(c) PROVE RegisteredRoomHasConnection'
  BY <1>3 DEF ReceiveAwareness, Goto
<1>4. ASSUME NEW c \in Client, SetPresence(c) PROVE RegisteredRoomHasConnection'
  BY <1>4 DEF SetPresence, Goto
<1>5. ASSUME NEW c \in Client, WritePumpFails(c) PROVE RegisteredRoomHasConnection'
  BY <1>5 DEF WritePumpFails
<1>6. ASSUME NEW c \in Client, ReadFails(c) PROVE RegisteredRoomHasConnection'
  BY <1>6 DEF ReadFails, Goto
<1>7. ASSUME NEW c \in Client, LeaveNotMember(c) PROVE RegisteredRoomHasConnection'
  BY <1>7 DEF LeaveNotMember, Goto
<1>8. ASSUME NEW c \in Client, Leave(c) PROVE RegisteredRoomHasConnection'
  BY <1>8 DEF Leave, Goto
<1>9. ASSUME NEW c \in Client, RemovePresence(c) PROVE RegisteredRoomHasConnection'
  BY <1>9 DEF RemovePresence, Goto
<1>10. ASSUME NEW c \in Client, CheckRoom(c) PROVE RegisteredRoomHasConnection'
  <2> SUFFICES ASSUME NEW p \in Project, rooms'[p] # NoRoom
               PROVE  \E d \in Client : room'[d] = rooms'[p] /\ pc'[d] # "done"
    OBVIOUS
  <2>1. rooms'[p] = rooms[p]
    BY <1>10 DEF CheckRoom, AfterRemoval
  <2>2. PICK d \in Client : room[d] = rooms[p] /\ pc[d] # "done"
    BY <2>1
  <2>3. CASE d # c
    BY <1>10, <2>1, <2>2, <2>3 DEF CheckRoom, Goto
  <2>4. CASE d = c
    <3>1. ProjectOf[c] = p
      BY <1>10, <2>1, <2>2, <2>4 DEF CheckRoom
    <3>2. room[c] \in Client /\ members[room[c]] # {}
      BY <1>10, <2>1, <3>1 DEF CheckRoom, AfterRemoval
    <3>3. PICK e \in members[room[c]] : TRUE
      BY <3>2
    <3>4. e \in Client /\ room[e] = room[c] /\ pc[e] \in InRoom
      BY <3>2, <3>3 DEF MembersAreInRoom
    <3> QED
      BY <1>10, <2>1, <2>2, <2>4, <3>4 DEF CheckRoom, InRoom, Goto
  <2> QED
    BY <2>3, <2>4
<1>11. CASE Shutdown
  BY <1>11 DEF Shutdown, CloseRooms
<1>12. CASE Exit
  BY <1>12 DEF Exit
<1>13. CASE UNCHANGED vars
  BY <1>13 DEF vars
<1> QED
  BY <1>1, <1>2, <1>3, <1>4, <1>5, <1>6, <1>7,
     <1>8, <1>9, <1>10, <1>11, <1>12, <1>13
     DEF Next, Step, Exited

\* IInv holds in every reachable state.
THEOREM Invariance == Spec => []IInv
<1>1. Init => IInv
  BY HubAssumption DEF Init, IInv, TypeOK, PC, Phase, RoomOfProject, Unallocated,
     MembersAreInRoom, EvictedByShutdown, InRoom, NoGhostPresence,
     RegisteredRoomHasConnection
<1>2. IInv /\ [Next]_vars => IInv'
  BY TypeStep, RoomOfProjectStep, UnallocatedStep, MembersStep, EvictedStep,
     GhostStep, RegisteredStep DEF IInv
<1> QED
  BY <1>1, <1>2, PTL DEF Spec

\* The variables keep their types, for any connections, users and projects.
THEOREM TypeCorrect == Spec => []TypeOK
<1>1. IInv => TypeOK
  BY DEF IInv
<1> QED
  BY <1>1, Invariance, PTL

\* No presence is left behind in a room that can be reached: whoever put it
\* there is still a member or about to remove it (room.go Leave).
THEOREM NoGhost == Spec => []NoGhostPresence
<1>1. IInv => NoGhostPresence
  BY DEF IInv
<1> QED
  BY <1>1, Invariance, PTL

\* The registry holds no room whose connections have all finished: RemoveClient
\* leaks none (hub.go RemoveClient).
THEOREM NoRoomLeak == Spec => []RegisteredRoomHasConnection
<1>1. IInv => RegisteredRoomHasConnection
  BY DEF IInv
<1> QED
  BY <1>1, Invariance, PTL

\* A connection that is read and has not been closed is a member of its room,
\* so no broadcast of the room passes it by (hub.go Shutdown, room.go Leave).
THEOREM OpenIsMember == Spec => []OpenConnectionIsMember
<1>1. IInv => OpenConnectionIsMember
  BY DEF IInv, EvictedByShutdown, InRoom, OpenConnectionIsMember
<1> QED
  BY <1>1, Invariance, PTL

\* No two connections part company but by a removal that overlaps another
\* connection's way in or out (hub.go RemoveClient).
LEMMA PartingStep ==
  ASSUME IInv, [Next]_vars, NEW p \in Project, phase' = "serving", Together(p),
         ~ \E c \in Client : OverlapsRemoval(c)
  PROVE  Together(p)'
<1> USE HubAssumption DEF IInv, TypeOK, PC, Phase, RoomOfProject, Together
<1>1. ASSUME NEW c \in Client, GetOrCreateRoom(c) PROVE Together(p)'
  <2> SUFFICES ASSUME NEW d \in Client, ProjectOf[d] = p, pc'[d] \notin {"idle", "done"}
               PROVE  room'[d] = rooms'[p]
    BY <1>1 DEF GetOrCreateRoom
  <2>1. CASE d = c
    BY <1>1, <2>1 DEF GetOrCreateRoom
  <2>2. CASE d # c
    <3>1. room[d] = rooms[p] /\ room[d] \in Client
      BY <1>1, <2>2 DEF GetOrCreateRoom, Goto
    <3> QED
      BY <1>1, <2>2, <3>1 DEF GetOrCreateRoom, RoomFor
  <2> QED
    BY <2>1, <2>2
<1>2. ASSUME NEW c \in Client, Join(c) PROVE Together(p)'
  BY <1>2 DEF Join, Goto
<1>3. ASSUME NEW c \in Client, ReceiveAwareness(c) PROVE Together(p)'
  BY <1>3 DEF ReceiveAwareness, Goto
<1>4. ASSUME NEW c \in Client, SetPresence(c) PROVE Together(p)'
  BY <1>4 DEF SetPresence, Goto
<1>5. ASSUME NEW c \in Client, WritePumpFails(c) PROVE Together(p)'
  BY <1>5 DEF WritePumpFails
<1>6. ASSUME NEW c \in Client, ReadFails(c) PROVE Together(p)'
  BY <1>6 DEF ReadFails, Goto
<1>7. ASSUME NEW c \in Client, LeaveNotMember(c) PROVE Together(p)'
  BY <1>7 DEF LeaveNotMember, Goto
<1>8. ASSUME NEW c \in Client, Leave(c) PROVE Together(p)'
  BY <1>8 DEF Leave, Goto
<1>9. ASSUME NEW c \in Client, RemovePresence(c) PROVE Together(p)'
  BY <1>9 DEF RemovePresence, Goto
<1>10. ASSUME NEW c \in Client, CheckRoom(c) PROVE Together(p)'
  <2> SUFFICES ASSUME NEW d \in Client, ProjectOf[d] = p, pc'[d] \notin {"idle", "done"}
               PROVE  room'[d] = rooms'[p]
    BY <1>10 DEF CheckRoom
  <2>1. /\ d # c /\ pc[d] \notin {"idle", "done"} /\ room'[d] = room[d]
        /\ room[d] = rooms[p] /\ room[d] \in Client
    BY <1>10 DEF CheckRoom, Goto
  <2>2. CASE rooms' = rooms
    BY <2>1, <2>2
  <2>3. CASE ProjectOf[c] # p
    BY <1>10, <2>1, <2>3 DEF CheckRoom, AfterRemoval
  <2>4. CASE ProjectOf[c] = p /\ members[room[c]] = {}
    <3>1. room[c] = room[d]
      BY <1>10, <2>1, <2>4 DEF CheckRoom
    <3>2. pc[d] \in InRoom
      BY <1>10, <2>1, <3>1 DEF OverlapsRemoval, InRoom
    <3>3. d \in members[room[d]]
      BY <1>10, <2>1, <3>2 DEF CheckRoom, EvictedByShutdown
    <3> QED
      BY <2>4, <3>1, <3>3
  <2> QED
    BY <1>10, <2>2, <2>3, <2>4 DEF CheckRoom, AfterRemoval
<1>11. CASE Shutdown
  BY <1>11 DEF Shutdown
<1>12. CASE Exit
  BY <1>12 DEF Exit
<1>13. CASE UNCHANGED vars
  BY <1>13 DEF vars
<1> QED
  BY <1>1, <1>2, <1>3, <1>4, <1>5, <1>6, <1>7,
     <1>8, <1>9, <1>10, <1>11, <1>12, <1>13
     DEF Next, Step, Exited

\* The connections of a project are in one room until a removal overlaps the
\* way of another connection into that room or out of it (hub.go RemoveClient).
THEOREM PartedByOverlap == Spec => PartedOnlyByOverlap
<1>1. IInv /\ [Next]_vars =>
        [\A p \in Project :
           phase' = "serving" /\ Together(p) =>
             Together(p)' \/ \E c \in Client : OverlapsRemoval(c)]_vars
  BY PartingStep
<1> QED
  BY <1>1, Invariance, PTL DEF Spec, PartedOnlyByOverlap

-----------------------------------------------------------------------------
(* HubOverlap *)

\* A connection that is in a room its user is about to be cleared from has
\* joined since the last one left, which HubOverlap records.
LEMMA ClearedStep ==
  ASSUME OverlapIInv, [OverlapNext]_overlapVars
  PROVE  ClearedReturned'
<1> USE HubAssumption DEF OverlapIInv, IInv, TypeOK, RoomOfProject, MembersAreInRoom, ClearedReturned, Clears
<1>0. CASE UNCHANGED overlapVars
  BY <1>0 DEF overlapVars, vars
<1> SUFFICES ASSUME OverlapNext, NEW c \in Client, NEW d \in Client,
                    Clears(d, c)', c \in members'[room'[c]], ~Joins(c)
             PROVE  c \in returned
  BY <1>0 DEF OverlapNext
<1>1. ASSUME NEW e \in Client, GetOrCreateRoom(e) PROVE c \in returned
  BY <1>1 DEF GetOrCreateRoom, Goto
<1>2. ASSUME NEW e \in Client, Join(e) PROVE c \in returned
  BY <1>2 DEF Join, Joins, Goto
<1>3. ASSUME NEW e \in Client, ReceiveAwareness(e) PROVE c \in returned
  BY <1>3 DEF ReceiveAwareness, Goto
<1>4. ASSUME NEW e \in Client, SetPresence(e) PROVE c \in returned
  BY <1>4 DEF SetPresence, Goto
<1>5. ASSUME NEW e \in Client, WritePumpFails(e) PROVE c \in returned
  BY <1>5 DEF WritePumpFails
<1>6. ASSUME NEW e \in Client, ReadFails(e) PROVE c \in returned
  BY <1>6 DEF ReadFails, Goto
<1>7. ASSUME NEW e \in Client, LeaveNotMember(e) PROVE c \in returned
  BY <1>7 DEF LeaveNotMember, Goto
<1>8. ASSUME NEW e \in Client, Leave(e) PROVE c \in returned
  <2>1. CASE d = e
    BY <1>8, <2>1 DEF Leave, HasOtherConnections, Goto
  <2>2. CASE d # e
    BY <1>8, <2>2 DEF Leave, Goto
  <2> QED
    BY <2>1, <2>2
<1>9. ASSUME NEW e \in Client, RemovePresence(e) PROVE c \in returned
  BY <1>9 DEF RemovePresence, Goto
<1>10. ASSUME NEW e \in Client, CheckRoom(e) PROVE c \in returned
  BY <1>10 DEF CheckRoom, Goto
<1>11. CASE Shutdown
  BY <1>11 DEF Shutdown, CloseRooms
<1>12. CASE Exit
  BY <1>12 DEF Exit
<1>13. CASE Exited
  BY <1>13 DEF Exited, vars
<1> QED
  BY <1>1, <1>2, <1>3, <1>4, <1>5, <1>6, <1>7,
     <1>8, <1>9, <1>10, <1>11, <1>12, <1>13
     DEF OverlapNext, Next, Step

\* A step takes a presence from a member of the room only if that returned.
LEMMA PresenceStep ==
  ASSUME OverlapIInv, [OverlapNext]_overlapVars, NEW r \in Client,
         NEW c \in (members[r] \cap members'[r]) \ returned,
         UserOf[c] \in presence[r]
  PROVE  UserOf[c] \in presence'[r]
<1> USE HubAssumption DEF OverlapIInv, IInv, TypeOK
<1>1. c \in Client /\ room[c] = r
  BY DEF MembersAreInRoom
<1>2. ASSUME NEW e \in Client, SetPresence(e) PROVE UserOf[c] \in presence'[r]
  BY <1>2 DEF SetPresence
<1>3. ASSUME NEW e \in Client, RemovePresence(e) PROVE UserOf[c] \in presence'[r]
  <2>1. ~(room[e] = r /\ UserOf[e] = UserOf[c])
    BY <1>1, <1>3 DEF RemovePresence, ClearedReturned, Clears
  <2> QED
    BY <1>1, <1>3, <2>1 DEF RemovePresence
<1>4. CASE UNCHANGED presence
  BY <1>4
<1> QED
  BY <1>2, <1>3, <1>4
     DEF OverlapNext, overlapVars, vars, Next, Step, Exited, GetOrCreateRoom, Join,
         ReceiveAwareness, WritePumpFails, ReadFails, LeaveNotMember, Leave,
         CheckRoom, Shutdown, CloseRooms, Exit

\* What HubOverlap adds only watches: its behaviors are behaviors of CollabHub.
THEOREM OverlapIsHub == OverlapSpec => Spec
<1>1. OverlapInit => Init
  BY DEF OverlapInit
<1>2. [OverlapNext]_overlapVars => [Next]_vars
  BY DEF OverlapNext, overlapVars
<1> QED
  BY <1>1, <1>2, PTL DEF OverlapSpec, Spec

\* A member's presence stays until it leaves, except that of one who joined
\* while another connection of the user was being taken out (room.go Leave).
THEOREM PresenceIsKept == OverlapSpec => PresenceStays
<1>1. OverlapInit => ClearedReturned
  BY HubAssumption DEF OverlapInit, Init, ClearedReturned, Clears
<1>2. OverlapIInv /\ [OverlapNext]_overlapVars => ClearedReturned'
  BY ClearedStep
<1>3. OverlapIInv /\ [OverlapNext]_overlapVars =>
        [\A r \in Client : \A c \in (members[r] \cap members'[r]) \ returned :
           UserOf[c] \in presence[r] => UserOf[c] \in presence'[r]]_overlapVars
  BY PresenceStep
<1>4. IInv /\ ClearedReturned <=> OverlapIInv
  BY DEF OverlapIInv
<1> QED
  BY <1>1, <1>2, <1>3, <1>4, OverlapIsHub, Invariance, PTL
     DEF OverlapSpec, PresenceStays
=============================================================================
