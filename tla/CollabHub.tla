----------------------------- MODULE CollabHub -----------------------------
(***************************************************************************)
(* The WebSocket hub: project rooms, their member connections and the      *)
(* presence of their users (internal/infrastructure/websocket: hub.go,     *)
(* room.go, awareness.go, and the life of a connection in handler.go).     *)
(*                                                                         *)
(* Every connection is served by one goroutine (ServeWS) and has a write   *)
(* pump of its own.  A step is one critical section of Hub.mu, Room.mu or  *)
(* AwarenessStore.mu: between two of them any other goroutine may run.     *)
(* Room.mu is taken inside Hub.mu in RemoveClient and in Shutdown; those   *)
(* sections are one step here, because GetOrCreateRoom waits for Hub.mu    *)
(* and a Join or Leave of a room commutes with what they do to the others. *)
(*                                                                         *)
(* A room is named by the connection whose GetOrCreateRoom allocated it,   *)
(* so no bound on the number of rooms is needed.  What the messages carry, *)
(* the send buffers and the broadcasts are the subject of RoomChannel.     *)
(***************************************************************************)
CONSTANTS Client,      \* WebSocket connections; each is accepted at most once
          User,
          Project,
          UserOf,      \* the user a connection authenticated as
          ProjectOf,   \* the project a connection was opened for
          NoRoom       \* the nil *Room

ASSUME HubAssumption ==
  /\ UserOf \in [Client -> User]
  /\ ProjectOf \in [Client -> Project]
  /\ NoRoom \notin Client

VARIABLES
  rooms,      \* Hub.rooms: the room registered for each project
  members,    \* Room.clients of every room ever allocated
  presence,   \* the keys of Room.awareness.presences of every room
  room,       \* Client.room
  pc,         \* where the goroutine of ServeWS is
  closed,     \* Client.Close has run: its context is cancelled
  phase       \* how far the server's shutdown has come

vars == <<rooms, members, presence, room, pc, closed, phase>>

\* "idle" before GetOrCreateRoom; "joining" between it and Join; "active"
\* blocked in ReadMessage; "handling" a presence update; "leaving" before
\* Leave; "removing" between Leave's critical section and RemovePresence;
\* "checking" before the Hub.mu section of RemoveClient.
PC == {"idle", "joining", "active", "handling", "leaving", "removing",
       "checking", "done"}

Phase == {"serving", "draining", "stopping", "exited"}

-----------------------------------------------------------------------------
Init ==
  /\ rooms = [p \in Project |-> NoRoom]
  /\ members = [r \in Client |-> {}]
  /\ presence = [r \in Client |-> {}]
  /\ room = [c \in Client |-> NoRoom]
  /\ pc = [c \in Client |-> "idle"]
  /\ closed = [c \in Client |-> FALSE]
  /\ phase = "serving"

Goto(c, l) == pc' = [pc EXCEPT ![c] = l]

\* The project's room, allocated and registered if there is none.
RoomFor(c) == IF rooms[ProjectOf[c]] = NoRoom THEN c ELSE rooms[ProjectOf[c]]

GetOrCreateRoom(c) ==
  /\ pc[c] = "idle"
  /\ rooms' = [rooms EXCEPT ![ProjectOf[c]] = RoomFor(c)]
  /\ room' = [room EXCEPT ![c] = RoomFor(c)]
  /\ Goto(c, "joining")
  /\ UNCHANGED <<members, presence, closed, phase>>

Join(c) ==
  /\ pc[c] = "joining"
  /\ members' = [members EXCEPT ![room[c]] = @ \cup {c}]
  /\ Goto(c, "active")
  /\ UNCHANGED <<rooms, presence, room, closed, phase>>

\* ReadMessage returns an awareness_update.  The other message types leave
\* the hub as it is.
ReceiveAwareness(c) ==
  /\ pc[c] = "active"
  /\ ~closed[c]
  /\ Goto(c, "handling")
  /\ UNCHANGED <<rooms, members, presence, room, closed, phase>>

\* Mutant: the store is keyed by connection instead of user.
SetPresenceByConnection(c) ==
  /\ pc[c] = "handling"
  /\ presence' = [presence EXCEPT ![room[c]] = @ \cup {c}]
  /\ Goto(c, "active")
  /\ UNCHANGED <<rooms, members, room, closed, phase>>

SetPresence(c) ==
  /\ pc[c] = "handling"
  /\ presence' = [presence EXCEPT ![room[c]] = @ \cup {UserOf[c]}]
  /\ Goto(c, "active")
  /\ UNCHANGED <<rooms, members, room, closed, phase>>

\* A write or a ping fails and the deferred Close of the write pump cancels
\* the connection's context.
WritePumpFails(c) ==
  /\ pc[c] \notin {"idle", "joining", "done"}
  /\ ~closed[c]
  /\ closed' = [closed EXCEPT ![c] = TRUE]
  /\ UNCHANGED <<rooms, members, presence, room, pc, phase>>

\* Mutant: the read is not given the connection's context.
ReadFailsOnlyOpen(c) ==
  /\ pc[c] = "active"
  /\ ~closed[c]
  /\ Goto(c, "leaving")
  /\ UNCHANGED <<rooms, members, presence, room, closed, phase>>

\* ReadMessage fails: the peer is gone, sent no valid envelope, or the
\* context is cancelled.
ReadFails(c) ==
  /\ pc[c] = "active"
  /\ Goto(c, "leaving")
  /\ UNCHANGED <<rooms, members, presence, room, closed, phase>>

\* Mutant: the connections are counted before the leaver is deleted.
HasOtherConnectionsOrSelf(c) ==
  \E d \in members[room[c]] : UserOf[d] = UserOf[c]

\* Mutant: Leave always takes the presence along.
HasOtherConnectionsIgnored(c) == FALSE

HasOtherConnections(c) ==
  \E d \in members[room[c]] \ {c} : UserOf[d] = UserOf[c]

LeaveNotMember(c) ==
  /\ pc[c] = "leaving"
  /\ c \notin members[room[c]]
  /\ Goto(c, "checking")
  /\ UNCHANGED <<rooms, members, presence, room, closed, phase>>

Leave(c) ==
  /\ pc[c] = "leaving"
  /\ c \in members[room[c]]
  /\ members' = [members EXCEPT ![room[c]] = @ \ {c}]
  /\ Goto(c, IF HasOtherConnections(c) THEN "checking" ELSE "removing")
  /\ UNCHANGED <<rooms, presence, room, closed, phase>>

RemovePresence(c) ==
  /\ pc[c] = "removing"
  /\ presence' = [presence EXCEPT ![room[c]] = @ \ {UserOf[c]}]
  /\ Goto(c, "checking")
  /\ UNCHANGED <<rooms, members, room, closed, phase>>

\* Mutant: the room is taken for empty while the leaver is still counted.
AfterRemovalOfLast(c) ==
  IF members[room[c]] = {c} THEN [rooms EXCEPT ![ProjectOf[c]] = NoRoom]
                            ELSE rooms

\* Mutant: whoever leaves takes the room along.
AfterAnyRemoval(c) == [rooms EXCEPT ![ProjectOf[c]] = NoRoom]

\* What the last section of RemoveClient leaves registered.  It deletes the
\* project's entry whichever room it names.
AfterRemoval(c) ==
  IF members[room[c]] = {} THEN [rooms EXCEPT ![ProjectOf[c]] = NoRoom]
                           ELSE rooms

CheckRoom(c) ==
  /\ pc[c] = "checking"
  /\ rooms' = AfterRemoval(c)
  /\ closed' = [closed EXCEPT ![c] = TRUE]
  /\ Goto(c, "done")
  /\ UNCHANGED <<members, presence, room, phase>>

Registered == {rooms[p] : p \in Project} \ {NoRoom}

\* Mutant: Room.Close forgets its clients without closing them.
ForgetRooms ==
  /\ members' = [r \in Client |-> IF r \in Registered THEN {} ELSE members[r]]
  /\ rooms' = [p \in Project |-> NoRoom]
  /\ UNCHANGED <<presence, room, pc, closed>>

\* Hub.Shutdown: Room.Close of every registered room, then an empty registry.
CloseRooms ==
  /\ closed' = [c \in Client |->
                  closed[c] \/ \E r \in Registered : c \in members[r]]
  /\ members' = [r \in Client |-> IF r \in Registered THEN {} ELSE members[r]]
  /\ rooms' = [p \in Project |-> NoRoom]
  /\ UNCHANGED <<presence, room, pc>>

\* The server's shutdown() closes the hub before it stops the listener, and
\* Container.Close closes it again; connections keep arriving in between.
Shutdown ==
  /\ \/ phase = "serving" /\ phase' = "draining"
     \/ phase = "draining" /\ phase' = "stopping"
  /\ CloseRooms

Exit ==
  /\ phase = "stopping"
  /\ phase' = "exited"
  /\ UNCHANGED <<rooms, members, presence, room, pc, closed>>

Exited == phase = "exited" /\ UNCHANGED vars

\* The steps a connection's goroutine takes on its own, once it may.
Step(c) ==
  \/ GetOrCreateRoom(c)
  \/ Join(c)
  \/ ReceiveAwareness(c)
  \/ SetPresence(c)
  \/ WritePumpFails(c)
  \/ ReadFails(c)
  \/ LeaveNotMember(c)
  \/ Leave(c)
  \/ RemovePresence(c)
  \/ CheckRoom(c)

Next ==
  \/ phase # "exited" /\ \E c \in Client : Step(c)
  \/ Shutdown
  \/ Exit
  \/ Exited

Spec == Init /\ [][Next]_vars

\* The Go scheduler runs every goroutine that can run.  Nothing makes a peer
\* connect, write or go away, so only a cancelled read is sure to fail.
Progress(c) ==
  /\ phase # "exited"
  /\ \/ Join(c)
     \/ SetPresence(c)
     \/ closed[c] /\ ReadFails(c)
     \/ LeaveNotMember(c)
     \/ Leave(c)
     \/ RemovePresence(c)
     \/ CheckRoom(c)

FairSpec == Spec /\ \A c \in Client : WF_vars(Progress(c))

-----------------------------------------------------------------------------
(* The inductive invariant *)

InRoom == {"active", "handling", "leaving"}

\* A connection has a room once GetOrCreateRoom returned, of its own project.
RoomOfProject ==
  /\ \A c \in Client : pc[c] # "idle" =>
        room[c] \in Client /\ ProjectOf[room[c]] = ProjectOf[c]
  /\ \A p \in Project : rooms[p] # NoRoom => ProjectOf[rooms[p]] = p

\* A room is not referred to before its creator allocates it.
Unallocated ==
  \A r \in Client : pc[r] = "idle" =>
    /\ presence[r] = {}
    /\ room[r] = NoRoom
    /\ \A c \in Client : room[c] # r
    /\ \A p \in Project : rooms[p] # r

MembersAreInRoom ==
  \A r \in Client : \A c \in members[r] : room[c] = r /\ pc[c] \in InRoom

\* Only Shutdown takes a connection out of its room.
EvictedByShutdown ==
  \A c \in Client :
    pc[c] \in InRoom /\ c \notin members[room[c]] =>
      phase # "serving" /\ closed[c] /\ room[c] \notin Registered

-----------------------------------------------------------------------------
(* Properties *)

TypeOK ==
  /\ rooms \in [Project -> Client \cup {NoRoom}]
  /\ members \in [Client -> SUBSET Client]
  /\ presence \in [Client -> SUBSET User]
  /\ room \in [Client -> Client \cup {NoRoom}]
  /\ pc \in [Client -> PC]
  /\ closed \in [Client -> BOOLEAN]
  /\ phase \in Phase

\* Leave is still going to clear, or to hand over, what c put on the board.
AnswersFor(c, r, u) ==
  /\ room[c] = r
  /\ UserOf[c] = u
  /\ c \in members[r] \/ pc[c] = "removing"

\* A presence in a room that can be reached always has a connection of its
\* user that is a member or is about to remove it: whatever the order of the
\* leaves and joins of one user's connections, no ghost stays behind
\* (room.go Leave, handler.go handleAwarenessUpdate).
NoGhostPresence ==
  \A r \in Client :
    phase = "serving" \/ r \in Registered =>
      \A u \in presence[r] : \E c \in Client : AnswersFor(c, r, u)

\* The hub keeps a room registered only as long as some connection that was
\* given it has not finished: the last RemoveClient always releases it, so
\* rooms do not leak (hub.go RemoveClient).
RegisteredRoomHasConnection ==
  \A p \in Project :
    rooms[p] # NoRoom =>
      \E c \in Client : room[c] = rooms[p] /\ pc[c] # "done"

\* A connection that still reads messages and has not been closed is a member
\* of its room, so it receives the room's broadcasts: only Shutdown takes a
\* connection out of a room that did not leave, and it closes it.
OpenConnectionIsMember ==
  \A c \in Client :
    pc[c] \in {"active", "handling"} /\ ~closed[c] => c \in members[room[c]]

IInv ==
  /\ TypeOK
  /\ RoomOfProject
  /\ Unallocated
  /\ MembersAreInRoom
  /\ EvictedByShutdown
  /\ NoGhostPresence
  /\ RegisteredRoomHasConnection

\* Whoever was given a room of p and is not done was given the registered one.
Together(p) ==
  \A c \in Client :
    ProjectOf[c] = p /\ pc[c] \notin {"idle", "done"} => room[c] = rooms[p]

\* c unregisters a room that another connection is still entering or leaving.
OverlapsRemoval(c) ==
  /\ CheckRoom(c)
  /\ \E d \in Client \ {c} :
       room[d] = room[c] /\ pc[d] \in {"joining", "removing", "checking"}

\* The people who work on a project meet in one room.  That ends before the
\* shutdown in one way only: RemoveClient releases the empty room while some
\* connection has got it and not joined yet, or has left and not released it
\* (hub.go GetOrCreateRoom, RemoveClient).
PartedOnlyByOverlap ==
  [][\A p \in Project :
       phase' = "serving" /\ Together(p) =>
         Together(p)' \/ \E c \in Client : OverlapsRemoval(c)]_vars

\* A cancelled connection always gets out of the hub (unless the process
\* exits first): ReadMessage fails, RemoveClient runs to its end.
ClosedConnectionFinishes ==
  \A c \in Client : closed[c] ~> (pc[c] = "done" \/ phase = "exited")

\* hub.go:47 says of RemoveClient that it "removes the room from Hub if it
\* becomes empty": the room it unregisters has no member.
RemovesOnlyEmptyRoom ==
  [][\A c \in Client : phase = "serving" /\ CheckRoom(c) =>
       \A p \in Project :
         rooms[p] \in Client /\ rooms'[p] = NoRoom
           => members[rooms[p]] = {}]_vars
=============================================================================
