----------------------------- MODULE RoomChannel -----------------------------
(***************************************************************************)
(* What the members of one room are told about each other's presence:      *)
(* room.go, awareness.go, the send buffer of client.go and the awareness   *)
(* handler, down to each message of a broadcast.                           *)
(*                                                                         *)
(* Join and Leave hold Room.mu exclusively, a broadcast shares it while it *)
(* sends to one member after the other; the awareness store has a mutex of *)
(* its own.  What a handler does between these sections is not protected.  *)
(* CollabHub models how a connection finds its room and is taken out of it.*)
(***************************************************************************)
EXTENDS Naturals, Sequences

CONSTANTS Conn,           \* connections; one may be used again after it left
          User,
          UserOf,         \* the user of each connection
          Cursor,         \* what a presence says: file and cursor
          None,           \* no presence
          SendBufferSize

ASSUME ChannelAssumption ==
  /\ UserOf \in [Conn -> User]
  /\ None \notin Cursor
  /\ SendBufferSize \in Nat \ {0}

VARIABLES
  clients,    \* Room.clients
  presences,  \* AwarenessStore.presences: each user's cursor
  sendChan,   \* Client.sendChan: what is queued for each connection
  pc,         \* where the goroutine of each connection is
  msg,        \* the message it is about to send
  todo,       \* the members its broadcast has still to send to
  view,       \* what each client shows: the cursors it was told of
  cut,        \* the connections whose Client.ctx is cancelled
  misled      \* history: the connections for which a message was dropped, or
              \*   queued before the snapshot

vars == <<clients, presences, sendChan, pc, msg, todo, view, cut, misled>>

Presences == [User -> Cursor \cup {None}]
Nobody == [u \in User |-> None]

\* awareness_snapshot, and awareness_update or awareness_remove.
Message ==
  [type : {"snapshot"}, presences : Presences]
    \cup [type : {"presence"}, user : User, cursor : Cursor \cup {None}]
NoMessage == [type |-> "none"]

\* "greeting" between registering and sending the snapshot; "announcing" and
\* "broadcasting" an update; "removing", "unannouncing" and "unbroadcasting"
\* the same on the way out.
PC == {"out", "greeting", "active", "announcing", "broadcasting",
       "removing", "unannouncing", "unbroadcasting"}

Init ==
  /\ clients = {}
  /\ presences = Nobody
  /\ sendChan = [c \in Conn |-> <<>>]
  /\ pc = [c \in Conn |-> "out"]
  /\ msg = [c \in Conn |-> NoMessage]
  /\ todo = [c \in Conn |-> {}]
  /\ view = [c \in Conn |-> Nobody]
  /\ cut = {}
  /\ misled = {}

Goto(c, l) == pc' = [pc EXCEPT ![c] = l]

\* Some broadcast shares Room.mu.
Sharing == \E c \in Conn : pc[c] \in {"broadcasting", "unbroadcasting"}

\* Mutant: the channel has no capacity.
SendUnbounded(d, m) == sendChan' = [sendChan EXCEPT ![d] = Append(@, m)]

Full(d) == Len(sendChan[d]) = SendBufferSize

\* Mutant: Send waits for room in the channel.
SendBlocks(d, m) ==
  /\ ~Full(d)
  /\ sendChan' = IF d \in cut THEN sendChan
                              ELSE [sendChan EXCEPT ![d] = Append(@, m)]

Refuses(d) == Full(d) \/ d \in cut

\* Client.Send never waits: a full or cancelled channel loses the message.
Send(d, m) ==
  IF Refuses(d) THEN UNCHANGED sendChan
                ELSE sendChan' = [sendChan EXCEPT ![d] = Append(@, m)]

-----------------------------------------------------------------------------
(* Joining *)

Join(c) ==
  /\ pc[c] = "out"
  /\ ~Sharing
  /\ clients' = clients \cup {c}
  /\ msg' = [msg EXCEPT ![c] = [type |-> "snapshot", presences |-> presences]]
  /\ Goto(c, "greeting")
  /\ UNCHANGED <<presences, sendChan, todo, view, cut, misled>>

SendSnapshot(c) ==
  /\ pc[c] = "greeting"
  /\ Send(c, msg[c])
  /\ misled' = IF Refuses(c) THEN misled \cup {c} ELSE misled
  /\ msg' = [msg EXCEPT ![c] = NoMessage]
  /\ Goto(c, "active")
  /\ UNCHANGED <<clients, presences, todo, view, cut>>

-----------------------------------------------------------------------------
(* Broadcasting *)

Broadcast(c) ==
  /\ pc[c] \in {"announcing", "unannouncing"}
  /\ todo' = [todo EXCEPT ![c] = clients]
  /\ Goto(c, IF pc[c] = "announcing" THEN "broadcasting" ELSE "unbroadcasting")
  /\ UNCHANGED <<clients, presences, sendChan, msg, view, cut, misled>>

BroadcastTo(c, d) ==
  /\ d \in todo[c]
  /\ Send(d, msg[c])
  /\ misled' = IF Refuses(d) \/ pc[d] = "greeting" THEN misled \cup {d} ELSE misled
  /\ todo' = [todo EXCEPT ![c] = @ \ {d}]
  /\ UNCHANGED <<clients, presences, pc, msg, view, cut>>

BroadcastEnds(c) ==
  /\ pc[c] \in {"broadcasting", "unbroadcasting"}
  /\ todo[c] = {}
  /\ msg' = [msg EXCEPT ![c] = NoMessage]
  /\ Goto(c, IF pc[c] = "broadcasting" THEN "active" ELSE "out")
  /\ UNCHANGED <<clients, presences, sendChan, todo, view, cut, misled>>

\* handleAwarenessUpdate: the store first, the broadcast after it.
Announcement(c, k) == [type |-> "presence", user |-> UserOf[c], cursor |-> k]

SetPresence(c, k) ==
  /\ pc[c] = "active"
  /\ c \notin cut
  /\ presences' = [presences EXCEPT ![UserOf[c]] = k]
  /\ msg' = [msg EXCEPT ![c] = Announcement(c, k)]
  /\ Goto(c, "announcing")
  /\ UNCHANGED <<clients, sendChan, todo, view, cut, misled>>

-----------------------------------------------------------------------------
(* Leaving *)

HasOtherConnections(c) == \E d \in clients \ {c} : UserOf[d] = UserOf[c]

\* What was queued is not written any more; the next client of this
\* connection starts with an empty buffer.
Leave(c) ==
  /\ pc[c] = "active"
  /\ ~Sharing
  /\ clients' = clients \ {c}
  /\ sendChan' = [sendChan EXCEPT ![c] = <<>>]
  /\ view' = [view EXCEPT ![c] = Nobody]
  /\ cut' = cut \ {c}
  /\ misled' = misled \ {c}
  /\ Goto(c, IF HasOtherConnections(c) THEN "out" ELSE "removing")
  /\ UNCHANGED <<presences, msg, todo>>

\* Mutant: the presence is removed and nobody is told.
RemoveSilently(c) ==
  /\ pc[c] = "removing"
  /\ presences' = [presences EXCEPT ![UserOf[c]] = None]
  /\ Goto(c, "out")
  /\ UNCHANGED <<clients, sendChan, msg, todo, view, cut, misled>>

RemovePresence(c) ==
  /\ pc[c] = "removing"
  /\ presences' = [presences EXCEPT ![UserOf[c]] = None]
  /\ msg' = [msg EXCEPT ![c] = Announcement(c, None)]
  /\ Goto(c, "unannouncing")
  /\ UNCHANGED <<clients, sendChan, todo, view, cut, misled>>

-----------------------------------------------------------------------------
(* The write pump, and the client that shows what it is told *)

Shown(v, m) ==
  IF m.type = "snapshot" THEN m.presences ELSE [v EXCEPT ![m.user] = m.cursor]

Deliver(c) ==
  /\ c \in clients \ cut
  /\ sendChan[c] # <<>>
  /\ view' = [view EXCEPT ![c] = Shown(@, Head(sendChan[c]))]
  /\ sendChan' = [sendChan EXCEPT ![c] = Tail(@)]
  /\ UNCHANGED <<clients, presences, pc, msg, todo, cut, misled>>

\* The pump could not write, which closes the client and loses what is queued:
\* nothing is read or sent any more, the handler finishes what it has begun.
WriteFails(c) ==
  /\ c \in clients \ cut
  /\ sendChan[c] # <<>>
  /\ cut' = cut \cup {c}
  /\ sendChan' = [sendChan EXCEPT ![c] = <<>>]
  /\ misled' = misled \cup {c}
  /\ UNCHANGED <<clients, presences, pc, msg, todo, view>>

-----------------------------------------------------------------------------
\* The steps a goroutine takes to the end of what it has begun.
Proceed(c) ==
  \/ SendSnapshot(c)
  \/ Broadcast(c)
  \/ \E d \in Conn : BroadcastTo(c, d)
  \/ BroadcastEnds(c)
  \/ RemovePresence(c)

Next ==
  \E c \in Conn :
    \/ Join(c)
    \/ \E k \in Cursor : SetPresence(c, k)
    \/ Leave(c)
    \/ Proceed(c)
    \/ Deliver(c)
    \/ WriteFails(c)

Spec == Init /\ [][Next]_vars

\* Handlers run; that a peer reads, so that its pump writes, is not assumed.
FairSpec == Spec /\ \A c \in Conn : WF_vars(Proceed(c))

-----------------------------------------------------------------------------
(* The inductive invariants *)

\* No user has two connections.
OneConnectionEach == \A c, d \in Conn : UserOf[c] = UserOf[d] => c = d

\* m says something of u, and what.
Says(m, u) == m.type = "snapshot" \/ m.user = u
Value(m, u) == IF m.type = "snapshot" THEN m.presences[u] ELSE m.cursor

\* A client that shows v will show k of u once it was given what is in q.
WillShow(v, q, u, k) ==
  \/ v[u] = k /\ \A i \in 1..Len(q) : ~Says(q[i], u)
  \/ \E i \in 1..Len(q) :
       /\ Says(q[i], u)
       /\ Value(q[i], u) = k
       /\ \A j \in (i + 1)..Len(q) : ~Says(q[j], u)

Announcing == {"announcing", "broadcasting", "unannouncing", "unbroadcasting"}

\* What a goroutine is about to send, and to whom.
HandlersSound ==
  \A c \in Conn :
    /\ c \in clients <=> pc[c] \in {"greeting", "active", "announcing", "broadcasting"}
    /\ todo[c] # {} => pc[c] \in {"broadcasting", "unbroadcasting"}
    /\ pc[c] = "greeting" => msg[c] \in Message /\ msg[c].type = "snapshot"
    /\ pc[c] \in Announcing =>
         \E k \in Cursor \cup {None} : msg[c] = Announcement(c, k)

\* An announcement says what the store holds.
AnnouncementsTrue ==
  \A c \in Conn :
    pc[c] \in Announcing => msg[c] = Announcement(c, presences[UserOf[c]])

\* The presence of u is on its way to c.
Coming(c, u) ==
  \E d \in Conn :
    /\ UserOf[d] = u
    /\ \/ pc[d] \in {"announcing", "unannouncing"}
       \/ pc[d] \in {"broadcasting", "unbroadcasting"} /\ c \in todo[d]

\* A member that was not misled will show what the store holds of u, or is
\* going to be sent it.
MembersForetold ==
  \A c \in clients \ misled : \A u \in User :
    \/ Coming(c, u)
    \/ /\ pc[c] = "greeting"
       /\ msg[c].presences[u] = presences[u]
    \/ /\ pc[c] # "greeting"
       /\ WillShow(view[c], sendChan[c], u, presences[u])

-----------------------------------------------------------------------------
(* Properties *)

TypeOK ==
  /\ clients \in SUBSET Conn
  /\ presences \in Presences
  /\ sendChan \in [Conn -> Seq(Message)]
  /\ \A c \in Conn : Len(sendChan[c]) <= SendBufferSize
  /\ pc \in [Conn -> PC]
  /\ msg \in [Conn -> Message \cup {NoMessage}]
  /\ todo \in [Conn -> SUBSET clients]
  /\ view \in [Conn -> Presences]
  /\ cut \in SUBSET misled
  /\ misled \in SUBSET Conn

\* Nothing is on its way any more.
Settled ==
  \A c \in Conn : pc[c] \in {"out", "active"} /\ sendChan[c] = <<>>

\* docs/openapi.yaml:516 promises a joining client the snapshot of the active
\* collaborators, and :528-529 that it is told of every update and
\* disconnection: once nothing is on its way, what a member shows is what the
\* store holds (room.go Join, Leave, handler.go handleAwarenessUpdate).  Left
\* out are those for which client.go Send dropped a message, and those that
\* got one before their snapshot, which room.go Join queues after its lock.
SettledViewsAgree ==
  Settled => \A c \in clients \ misled : view[c] = presences

IInv ==
  /\ TypeOK
  /\ HandlersSound
  /\ AnnouncementsTrue
  /\ MembersForetold

\* A handler comes to its end although the members it sends to never read:
\* no slow peer holds up a room (client.go Send, room.go Broadcast).
BroadcastsEnd ==
  \A c \in Conn : pc[c] \notin {"out", "active"} ~> pc[c] \in {"out", "active"}
=============================================================================
