-------------------------- MODULE RoomChannel_proofs --------------------------
(* Proofs about RoomChannel for any connections, users, cursors and size.  *)
EXTENDS RoomChannel, TLAPS

-----------------------------------------------------------------------------
(* Messages, and what a client will show *)

LEMMA Messages ==
  ASSUME NEW m \in Message
  PROVE  \/ m.type = "snapshot" /\ m.presences \in Presences
         \/ /\ m.type = "presence"
            /\ m.user \in User
            /\ m.cursor \in Cursor \cup {None}
BY DEF Message

LEMMA Announcements ==
  ASSUME ChannelAssumption, NEW c \in Conn, NEW k \in Cursor \cup {None}
  PROVE  /\ Announcement(c, k) \in Message
         /\ \A u \in User : Says(Announcement(c, k), u) <=> u = UserOf[c]
         /\ \A u \in User : Value(Announcement(c, k), u) = k
<1> USE DEF Announcement
<1>1. UserOf[c] \in User
  BY DEF ChannelAssumption
<1>2. Announcement(c, k) \in Message
  BY <1>1 DEF Message
<1> QED
  BY <1>1, <1>2 DEF Says, Value

\* A client that applies a message shows what it says, and else what it did.
LEMMA ShownSound ==
  ASSUME NEW v \in Presences, NEW m \in Message
  PROVE  /\ Shown(v, m) \in Presences
         /\ \A u \in User :
              Shown(v, m)[u] = IF Says(m, u) THEN Value(m, u) ELSE v[u]
<1>1. CASE m.type = "snapshot" /\ m.presences \in Presences
  BY <1>1 DEF Shown, Says, Value
<1>2. CASE /\ m.type = "presence"
           /\ m.user \in User
           /\ m.cursor \in Cursor \cup {None}
  BY <1>2 DEF Shown, Says, Value, Presences
<1> QED
  BY <1>1, <1>2, Messages

\* What is queued last is shown in the end.
LEMMA LastIsShown ==
  ASSUME NEW v, NEW q \in Seq(Message), NEW m \in Message, NEW u \in User, Says(m, u)
  PROVE  WillShow(v, Append(q, m), u, Value(m, u))
<1>1. /\ Len(q) \in Nat
      /\ Len(Append(q, m)) = Len(q) + 1
      /\ Append(q, m)[Len(q) + 1] = m
  OBVIOUS
<1>2. \A j \in (Len(q) + 1 + 1)..Len(Append(q, m)) : ~Says(Append(q, m)[j], u)
  BY <1>1
<1>3. Len(q) + 1 \in 1..Len(Append(q, m))
  BY <1>1
<1> QED
  BY <1>1, <1>2, <1>3 DEF WillShow

\* A message about somebody else changes nothing.
LEMMA OthersDoNotMatter ==
  ASSUME NEW v, NEW q \in Seq(Message), NEW m \in Message, NEW u \in User, NEW k,
         ~Says(m, u), WillShow(v, q, u, k)
  PROVE  WillShow(v, Append(q, m), u, k)
<1> DEFINE p == Append(q, m)
<1>1. /\ Len(q) \in Nat
      /\ Len(p) = Len(q) + 1
      /\ p[Len(q) + 1] = m
      /\ \A i \in 1..Len(q) : p[i] = q[i]
  OBVIOUS
<1> HIDE DEF p
<1>2. CASE v[u] = k /\ \A i \in 1..Len(q) : ~Says(q[i], u)
  <2>1. ASSUME NEW i \in 1..Len(p)
        PROVE  ~Says(p[i], u)
    <3>1. i \in 1..Len(q) \/ i = Len(q) + 1
      BY <1>1
    <3> QED
      BY <1>1, <1>2, <3>1
  <2> QED
    BY <1>2, <2>1 DEF WillShow, p
<1>3. ASSUME NEW i \in 1..Len(q), Says(q[i], u), Value(q[i], u) = k,
             \A j \in (i + 1)..Len(q) : ~Says(q[j], u)
      PROVE  WillShow(v, p, u, k)
  <2>1. i \in 1..Len(p) /\ p[i] = q[i]
    BY <1>1
  <2>2. ASSUME NEW j \in (i + 1)..Len(p)
        PROVE  ~Says(p[j], u)
    <3>1. j \in (i + 1)..Len(q) \/ j = Len(q) + 1
      BY <1>1
    <3>2. CASE j \in (i + 1)..Len(q)
      BY <1>1, <1>3, <3>2
    <3> QED
      BY <1>1, <3>1, <3>2
  <2> QED
    BY <1>3, <2>1, <2>2 DEF WillShow
<1> QED
  BY <1>2, <1>3 DEF WillShow, p

\* Applying the first message leaves the rest to do.
LEMMA FirstIsApplied ==
  ASSUME NEW v \in Presences, NEW q \in Seq(Message), NEW u \in User, NEW k,
         q # <<>>, WillShow(v, q, u, k)
  PROVE  WillShow(Shown(v, Head(q)), Tail(q), u, k)
<1> DEFINE p == Tail(q)
           w == Shown(v, Head(q))
<1>1. /\ Len(q) \in Nat \ {0}
      /\ Len(p) = Len(q) - 1
      /\ \A i \in 1..Len(p) : p[i] = q[i + 1]
      /\ Head(q) = q[1]
      /\ q[1] \in Message
  OBVIOUS
<1>2. w[u] = IF Says(q[1], u) THEN Value(q[1], u) ELSE v[u]
  BY <1>1, ShownSound
<1> HIDE DEF p, w
<1>3. CASE v[u] = k /\ \A i \in 1..Len(q) : ~Says(q[i], u)
  <2>1. w[u] = k
    BY <1>1, <1>2, <1>3
  <2>2. ASSUME NEW i \in 1..Len(p)
        PROVE  ~Says(p[i], u)
    <3>1. i + 1 \in 1..Len(q)
      BY <1>1
    <3> QED
      BY <1>1, <1>3, <3>1
  <2>3. WillShow(w, p, u, k)
    BY <2>1, <2>2 DEF WillShow
  <2> QED
    BY <2>3 DEF p, w
<1>4. ASSUME NEW i \in 1..Len(q), Says(q[i], u), Value(q[i], u) = k,
             \A j \in (i + 1)..Len(q) : ~Says(q[j], u)
      PROVE  WillShow(w, p, u, k)
  <2>1. CASE i = 1
    <3>1. w[u] = k
      BY <1>2, <1>4, <2>1
    <3>2. ASSUME NEW j \in 1..Len(p)
          PROVE  ~Says(p[j], u)
      <4>1. j + 1 \in (i + 1)..Len(q)
        BY <1>1, <2>1
      <4> QED
        BY <1>1, <1>4, <4>1
    <3> QED
      BY <3>1, <3>2 DEF WillShow
  <2>2. CASE i # 1
    <3>1. i - 1 \in 1..Len(p) /\ p[i - 1] = q[i]
      BY <1>1, <2>2
    <3>2. ASSUME NEW j \in (i - 1 + 1)..Len(p)
          PROVE  ~Says(p[j], u)
      <4>1. j + 1 \in (i + 1)..Len(q) /\ j \in 1..Len(p)
        BY <1>1
      <4> QED
        BY <1>1, <1>4, <4>1
    <3> QED
      BY <1>4, <3>1, <3>2 DEF WillShow
  <2> QED
    BY <2>1, <2>2
<1> QED
  BY <1>3, <1>4 DEF WillShow, p, w

-----------------------------------------------------------------------------
(* Types *)

\* What Send does to the buffers.
Sent(d, m) ==
  /\ sendChan' \in [Conn -> Seq(Message)]
  /\ \A e \in Conn : Len(sendChan'[e]) <= SendBufferSize
  /\ \A e \in Conn \ {d} : sendChan'[e] = sendChan[e]
  /\ ~Refuses(d) => sendChan'[d] = Append(sendChan[d], m)

LEMMA SendSound ==
  ASSUME ChannelAssumption, TypeOK, NEW d \in Conn, NEW m \in Message, Send(d, m)
  PROVE  Sent(d, m)
<1> USE DEF ChannelAssumption, TypeOK
<1>1. CASE Refuses(d)
  BY <1>1 DEF Send, Sent
<1>2. CASE ~Refuses(d)
  <2>1. sendChan' = [sendChan EXCEPT ![d] = Append(sendChan[d], m)]
    BY <1>2 DEF Send
  <2>2. sendChan[d] \in Seq(Message) /\ Len(sendChan[d]) < SendBufferSize
    BY <1>2 DEF Refuses, Full
  <2>3. /\ Append(sendChan[d], m) \in Seq(Message)
        /\ Len(Append(sendChan[d], m)) <= SendBufferSize
    BY <2>2
  <2> QED
    BY <2>1, <2>3 DEF Sent
<1> QED
  BY <1>1, <1>2

\* A broadcast goes to members, and carries a message.
LEMMA BroadcastSent ==
  ASSUME ChannelAssumption, TypeOK, HandlersSound,
         NEW c \in Conn, NEW e \in Conn, BroadcastTo(c, e)
  PROVE  /\ pc[c] \in {"broadcasting", "unbroadcasting"}
         /\ e \in clients
         /\ \E k \in Cursor \cup {None} : msg[c] = Announcement(c, k)
         /\ Sent(e, msg[c])
<1>1. /\ e \in todo[c]
      /\ pc[c] \in {"broadcasting", "unbroadcasting"}
  BY DEF BroadcastTo, HandlersSound
<1>2. e \in clients
  BY <1>1 DEF TypeOK
<1>3. PICK k \in Cursor \cup {None} : msg[c] = Announcement(c, k)
  BY <1>1 DEF HandlersSound, Announcing
<1>4. msg[c] \in Message
  BY <1>3, Announcements
<1>5. Send(e, msg[c])
  BY DEF BroadcastTo
<1> QED
  BY <1>1, <1>2, <1>3, <1>4, <1>5, SendSound

LEMMA SnapshotSent ==
  ASSUME ChannelAssumption, TypeOK, HandlersSound, NEW c \in Conn, SendSnapshot(c)
  PROVE  /\ msg[c] \in Message /\ msg[c].type = "snapshot"
         /\ Sent(c, msg[c])
<1>1. msg[c] \in Message /\ msg[c].type = "snapshot"
  BY DEF SendSnapshot, HandlersSound
<1> QED
  BY <1>1, SendSound DEF SendSnapshot

\* Every step keeps the types.
LEMMA TypeStep ==
  ASSUME ChannelAssumption, TypeOK, HandlersSound, [Next]_vars
  PROVE  TypeOK'
<1> USE DEF ChannelAssumption, TypeOK, PC
<1>1. ASSUME NEW c \in Conn, Join(c)
     PROVE  TypeOK'
  <2>1. presences \in Presences
    OBVIOUS
  <2>2. [type |-> "snapshot", presences |-> presences] \in Message
    BY <2>1 DEF Message
  <2>3. todo \in [Conn -> SUBSET clients']
    BY <1>1 DEF Join
  <2> QED
    BY <1>1, <2>2, <2>3 DEF Join, Goto
<1>2. ASSUME NEW c \in Conn, SendSnapshot(c)
     PROVE  TypeOK'
  <2>1. Sent(c, msg[c])
    BY <1>2, SnapshotSent
  <2>2. misled' \in SUBSET Conn /\ misled \subseteq misled'
    BY <1>2 DEF SendSnapshot
  <2> QED
    BY <1>2, <2>1, <2>2 DEF SendSnapshot, Goto, Sent
<1>3. ASSUME NEW c \in Conn, Broadcast(c)
     PROVE  TypeOK'
  BY <1>3 DEF Broadcast, Goto
<1>4. ASSUME NEW c \in Conn, NEW e \in Conn, BroadcastTo(c, e)
     PROVE  TypeOK'
  BY <1>4, BroadcastSent DEF BroadcastTo, Sent
<1>5. ASSUME NEW c \in Conn, BroadcastEnds(c)
     PROVE  TypeOK'
  BY <1>5 DEF BroadcastEnds, Goto
<1>6. ASSUME NEW c \in Conn, NEW k \in Cursor, SetPresence(c, k)
     PROVE  TypeOK'
  <2>1. Announcement(c, k) \in Message
    BY Announcements
  <2>2. presences' \in Presences
    BY <1>6 DEF SetPresence, Presences
  <2> QED
    BY <1>6, <2>1, <2>2 DEF SetPresence, Goto
<1>7. ASSUME NEW c \in Conn, Leave(c)
     PROVE  TypeOK'
  <2>1. todo \in [Conn -> SUBSET clients']
    BY <1>7 DEF Leave, Sharing, HandlersSound
  <2>2. Nobody \in Presences
    BY DEF Nobody, Presences
  <2> QED
    BY <1>7, <2>1, <2>2 DEF Leave, Goto
<1>8. ASSUME NEW c \in Conn, RemovePresence(c)
     PROVE  TypeOK'
  <2>1. Announcement(c, None) \in Message
    BY Announcements
  <2>2. presences' \in Presences
    BY <1>8 DEF RemovePresence, Presences
  <2> QED
    BY <1>8, <2>1, <2>2 DEF RemovePresence, Goto
<1>9. ASSUME NEW c \in Conn, Deliver(c)
     PROVE  TypeOK'
  <2>1. sendChan[c] \in Seq(Message) /\ sendChan[c] # <<>>
    BY <1>9 DEF Deliver
  <2>2. /\ Head(sendChan[c]) \in Message
        /\ Tail(sendChan[c]) \in Seq(Message)
        /\ Len(Tail(sendChan[c])) <= SendBufferSize
    BY <2>1
  <2>3. Shown(view[c], Head(sendChan[c])) \in Presences
    BY <2>2, ShownSound
  <2> QED
    BY <1>9, <2>2, <2>3 DEF Deliver
<1>10. ASSUME NEW c \in Conn, WriteFails(c)
     PROVE  TypeOK'
  BY <1>10 DEF WriteFails
<1>11. CASE UNCHANGED vars
  BY <1>11 DEF vars
<1> QED
  BY <1>1, <1>2, <1>3, <1>4, <1>5, <1>6, <1>7, <1>8, <1>9, <1>10, <1>11 DEF
     Next, Proceed

\* Every step keeps HandlersSound.
LEMMA HandlersStep ==
  ASSUME ChannelAssumption, TypeOK, HandlersSound, [Next]_vars
  PROVE  HandlersSound'
<1> USE DEF ChannelAssumption, TypeOK, PC, HandlersSound, Announcing
<1>1. ASSUME NEW c \in Conn, Join(c)
     PROVE  HandlersSound'
  <2> SUFFICES ASSUME NEW d \in Conn
               PROVE  /\ d \in clients' <=>
                           pc'[d] \in {"greeting", "active", "announcing", "broadcasting"}
                      /\ todo'[d] # {} => pc'[d] \in {"broadcasting", "unbroadcasting"}
                      /\ pc'[d] = "greeting" => msg'[d] \in Message /\ msg'[d].type = "snapshot"
                      /\ pc'[d] \in Announcing =>
                           \E j \in Cursor \cup {None} : msg'[d] = Announcement(d, j)
    BY DEF HandlersSound
  <2>1. [type |-> "snapshot", presences |-> presences] \in Message
    BY DEF Message
  <2>2. CASE d = c
    BY <1>1, <2>1, <2>2 DEF Join, Goto
  <2>3. CASE d # c
    BY <1>1, <2>3 DEF Join, Goto
  <2> QED
    BY <2>2, <2>3
<1>2. ASSUME NEW c \in Conn, SendSnapshot(c)
     PROVE  HandlersSound'
  BY <1>2 DEF SendSnapshot, Goto
<1>3. ASSUME NEW c \in Conn, Broadcast(c)
     PROVE  HandlersSound'
  BY <1>3 DEF Broadcast, Goto
<1>4. ASSUME NEW c \in Conn, NEW e \in Conn, BroadcastTo(c, e)
     PROVE  HandlersSound'
  BY <1>4 DEF BroadcastTo
<1>5. ASSUME NEW c \in Conn, BroadcastEnds(c)
     PROVE  HandlersSound'
  BY <1>5 DEF BroadcastEnds, Goto
<1>6. ASSUME NEW c \in Conn, NEW k \in Cursor, SetPresence(c, k)
     PROVE  HandlersSound'
  <2> SUFFICES ASSUME NEW d \in Conn
               PROVE  /\ d \in clients' <=>
                           pc'[d] \in {"greeting", "active", "announcing", "broadcasting"}
                      /\ todo'[d] # {} => pc'[d] \in {"broadcasting", "unbroadcasting"}
                      /\ pc'[d] = "greeting" => msg'[d] \in Message /\ msg'[d].type = "snapshot"
                      /\ pc'[d] \in Announcing =>
                           \E j \in Cursor \cup {None} : msg'[d] = Announcement(d, j)
    BY DEF HandlersSound
  <2>1. CASE d = c
    BY <1>6, <2>1 DEF SetPresence, Goto
  <2>2. CASE d # c
    BY <1>6, <2>2 DEF SetPresence, Goto
  <2> QED
    BY <2>1, <2>2
<1>7. ASSUME NEW c \in Conn, Leave(c)
     PROVE  HandlersSound'
  BY <1>7 DEF Leave, Goto, Sharing
<1>8. ASSUME NEW c \in Conn, RemovePresence(c)
     PROVE  HandlersSound'
  <2> SUFFICES ASSUME NEW d \in Conn
               PROVE  /\ d \in clients' <=>
                           pc'[d] \in {"greeting", "active", "announcing", "broadcasting"}
                      /\ todo'[d] # {} => pc'[d] \in {"broadcasting", "unbroadcasting"}
                      /\ pc'[d] = "greeting" => msg'[d] \in Message /\ msg'[d].type = "snapshot"
                      /\ pc'[d] \in Announcing =>
                           \E j \in Cursor \cup {None} : msg'[d] = Announcement(d, j)
    BY DEF HandlersSound
  <2>1. CASE d = c
    BY <1>8, <2>1 DEF RemovePresence, Goto
  <2>2. CASE d # c
    BY <1>8, <2>2 DEF RemovePresence, Goto
  <2> QED
    BY <2>1, <2>2
<1>9. ASSUME NEW c \in Conn, Deliver(c)
     PROVE  HandlersSound'
  BY <1>9 DEF Deliver
<1>10. ASSUME NEW c \in Conn, WriteFails(c)
     PROVE  HandlersSound'
  BY <1>10 DEF WriteFails
<1>11. CASE UNCHANGED vars
  BY <1>11 DEF vars
<1> QED
  BY <1>1, <1>2, <1>3, <1>4, <1>5, <1>6, <1>7, <1>8, <1>9, <1>10, <1>11 DEF
     Next, Proceed

\* While one is announced the connection's user has no other that sets the presence.
LEMMA AnnouncementsStep ==
  ASSUME ChannelAssumption, OneConnectionEach, TypeOK, HandlersSound, AnnouncementsTrue, [Next]_vars
  PROVE  AnnouncementsTrue'
<1> USE DEF ChannelAssumption, OneConnectionEach, TypeOK, Presences, AnnouncementsTrue, Announcing
<1>1. ASSUME NEW c \in Conn, Join(c)
     PROVE  AnnouncementsTrue'
  BY <1>1 DEF Join, Goto
<1>2. ASSUME NEW c \in Conn, SendSnapshot(c)
     PROVE  AnnouncementsTrue'
  BY <1>2 DEF SendSnapshot, Goto
<1>3. ASSUME NEW c \in Conn, Broadcast(c)
     PROVE  AnnouncementsTrue'
  BY <1>3 DEF Broadcast, Goto
<1>4. ASSUME NEW c \in Conn, NEW e \in Conn, BroadcastTo(c, e)
     PROVE  AnnouncementsTrue'
  BY <1>4 DEF BroadcastTo
<1>5. ASSUME NEW c \in Conn, BroadcastEnds(c)
     PROVE  AnnouncementsTrue'
  BY <1>5 DEF BroadcastEnds, Goto
<1>6. ASSUME NEW c \in Conn, NEW k \in Cursor, SetPresence(c, k)
     PROVE  AnnouncementsTrue'
  <2> SUFFICES ASSUME NEW d \in Conn, pc'[d] \in Announcing
               PROVE  msg'[d] = Announcement(d, presences'[UserOf[d]])
    BY DEF AnnouncementsTrue
  <2>1. CASE d = c
    BY <1>6, <2>1 DEF SetPresence, Goto
  <2>2. CASE d # c
    <3>1. UserOf[d] # UserOf[c] /\ UserOf[d] \in User /\ UserOf[c] \in User
      BY <2>2
    <3>2. presences'[UserOf[d]] = presences[UserOf[d]]
      BY <1>6, <3>1 DEF SetPresence
    <3>3. pc'[d] = pc[d] /\ msg'[d] = msg[d]
      BY <1>6, <2>2 DEF SetPresence, Goto
    <3> QED
      BY <3>2, <3>3
  <2> QED
    BY <2>1, <2>2
<1>7. ASSUME NEW c \in Conn, Leave(c)
     PROVE  AnnouncementsTrue'
  BY <1>7 DEF Leave, Goto
<1>8. ASSUME NEW c \in Conn, RemovePresence(c)
     PROVE  AnnouncementsTrue'
  <2> SUFFICES ASSUME NEW d \in Conn, pc'[d] \in Announcing
               PROVE  msg'[d] = Announcement(d, presences'[UserOf[d]])
    BY DEF AnnouncementsTrue
  <2>1. CASE d = c
    BY <1>8, <2>1 DEF RemovePresence, Goto
  <2>2. CASE d # c
    <3>1. UserOf[d] # UserOf[c] /\ UserOf[d] \in User /\ UserOf[c] \in User
      BY <2>2
    <3>2. presences'[UserOf[d]] = presences[UserOf[d]]
      BY <1>8, <3>1 DEF RemovePresence
    <3>3. pc'[d] = pc[d] /\ msg'[d] = msg[d]
      BY <1>8, <2>2 DEF RemovePresence, Goto
    <3> QED
      BY <3>2, <3>3
  <2> QED
    BY <2>1, <2>2
<1>9. ASSUME NEW c \in Conn, Deliver(c)
     PROVE  AnnouncementsTrue'
  BY <1>9 DEF Deliver
<1>10. ASSUME NEW c \in Conn, WriteFails(c)
     PROVE  AnnouncementsTrue'
  BY <1>10 DEF WriteFails
<1>11. CASE UNCHANGED vars
  BY <1>11 DEF vars
<1> QED
  BY <1>1, <1>2, <1>3, <1>4, <1>5, <1>6, <1>7, <1>8, <1>9, <1>10, <1>11 DEF
     Next, Proceed

\* Every step keeps MembersForetold.
LEMMA ForetoldStep ==
  ASSUME ChannelAssumption, OneConnectionEach, TypeOK, HandlersSound, AnnouncementsTrue, MembersForetold, [Next]_vars
  PROVE  MembersForetold'
<1>1. ASSUME NEW c \in Conn, Join(c)
     PROVE  MembersForetold'
  <2> SUFFICES ASSUME NEW d \in (clients \ misled)', NEW u \in User
               PROVE  \/ Coming(d, u)'
                      \/ /\ pc'[d] = "greeting"
                         /\ msg'[d].presences[u] = presences'[u]
                      \/ /\ pc'[d] # "greeting"
                         /\ WillShow(view'[d], sendChan'[d], u, presences'[u])
    BY DEF MembersForetold
  <2>1. d \in Conn
    BY <1>1 DEF Join, TypeOK
  <2>2. CASE d = c
    BY <1>1, <2>2 DEF Join, Goto, TypeOK
  <2>3. CASE d # c
    <3>1. d \in clients \ misled /\ pc'[d] = pc[d] /\ msg'[d] = msg[d]
      BY <1>1, <2>1, <2>3 DEF Join, Goto, TypeOK
    <3>2. Coming(d, u) => Coming(d, u)'
      BY <1>1 DEF Join, Goto, Coming, TypeOK
    <3> QED
      BY <1>1, <3>1, <3>2 DEF MembersForetold, Join
  <2> QED
    BY <2>2, <2>3
<1>2. ASSUME NEW c \in Conn, SendSnapshot(c)
     PROVE  MembersForetold'
  <2> SUFFICES ASSUME NEW d \in (clients \ misled)', NEW u \in User
               PROVE  \/ Coming(d, u)'
                      \/ /\ pc'[d] = "greeting"
                         /\ msg'[d].presences[u] = presences'[u]
                      \/ /\ pc'[d] # "greeting"
                         /\ WillShow(view'[d], sendChan'[d], u, presences'[u])
    BY DEF MembersForetold
  <2>1. /\ d \in Conn /\ d \in clients \ misled
        /\ Coming(d, u) => Coming(d, u)'
    BY <1>2 DEF SendSnapshot, Goto, Coming, TypeOK
  <2>2. CASE d = c
    <3>1. /\ ~Refuses(c) /\ pc[c] = "greeting" /\ pc'[c] = "active"
          /\ UNCHANGED <<view, presences>>
      BY <1>2, <2>2 DEF SendSnapshot, Goto, TypeOK
    <3>2. /\ msg[c] \in Message
          /\ Says(msg[c], u) /\ Value(msg[c], u) = msg[c].presences[u]
          /\ sendChan'[c] = Append(sendChan[c], msg[c])
      BY <1>2, <3>1, SnapshotSent DEF Sent, Says, Value
    <3>3. WillShow(view[c], sendChan'[c], u, msg[c].presences[u])
      BY <3>2, LastIsShown DEF TypeOK
    <3> QED
      BY <2>1, <2>2, <3>1, <3>3 DEF MembersForetold
  <2>3. CASE d # c
    <3>1. pc'[d] = pc[d] /\ msg'[d] = msg[d] /\ UNCHANGED <<view, presences>>
      BY <1>2, <2>1, <2>3 DEF SendSnapshot, Goto, TypeOK
    <3>2. sendChan'[d] = sendChan[d]
      BY <1>2, <2>1, <2>3, SnapshotSent DEF Sent
    <3> QED
      BY <2>1, <3>1, <3>2 DEF MembersForetold
  <2> QED
    BY <2>2, <2>3
<1>3. ASSUME NEW c \in Conn, Broadcast(c)
     PROVE  MembersForetold'
  <2> SUFFICES ASSUME NEW d \in (clients \ misled)', NEW u \in User
               PROVE  \/ Coming(d, u)'
                      \/ /\ pc'[d] = "greeting"
                         /\ msg'[d].presences[u] = presences'[u]
                      \/ /\ pc'[d] # "greeting"
                         /\ WillShow(view'[d], sendChan'[d], u, presences'[u])
    BY DEF MembersForetold
  <2>1. /\ d \in Conn /\ d \in clients \ misled
        /\ UNCHANGED <<view, presences, sendChan, msg>>
        /\ pc'[d] = "greeting" <=> pc[d] = "greeting"
    BY <1>3 DEF Broadcast, Goto, TypeOK
  <2>2. Coming(d, u) => Coming(d, u)'
    <3> SUFFICES ASSUME NEW b \in Conn, UserOf[b] = u,
                        \/ pc[b] \in {"announcing", "unannouncing"}
                        \/ pc[b] \in {"broadcasting", "unbroadcasting"} /\ d \in todo[b]
                 PROVE  \/ pc'[b] \in {"announcing", "unannouncing"}
                        \/ pc'[b] \in {"broadcasting", "unbroadcasting"} /\ d \in todo'[b]
      BY DEF Coming
    <3> QED
      BY <1>3, <2>1 DEF Broadcast, Goto, TypeOK
  <2> QED
    BY <2>1, <2>2 DEF MembersForetold
<1>4. ASSUME NEW c \in Conn, NEW e \in Conn, BroadcastTo(c, e)
     PROVE  MembersForetold'
  <2> SUFFICES ASSUME NEW d \in (clients \ misled)', NEW u \in User
               PROVE  \/ Coming(d, u)'
                      \/ /\ pc'[d] = "greeting"
                         /\ msg'[d].presences[u] = presences'[u]
                      \/ /\ pc'[d] # "greeting"
                         /\ WillShow(view'[d], sendChan'[d], u, presences'[u])
    BY DEF MembersForetold
  <2>1. /\ d \in Conn /\ d \in clients \ misled
        /\ UNCHANGED <<view, presences, pc, msg>>
    BY <1>4 DEF BroadcastTo, TypeOK
  <2>2. ASSUME Coming(d, u), d # e \/ u # UserOf[c]
        PROVE  Coming(d, u)'
    <3>1. PICK b \in Conn :
            /\ UserOf[b] = u
            /\ \/ pc[b] \in {"announcing", "unannouncing"}
               \/ pc[b] \in {"broadcasting", "unbroadcasting"} /\ d \in todo[b]
      BY <2>2 DEF Coming
    <3>2. d \in todo[b] => d \in todo'[b]
      BY <1>4, <2>2, <3>1 DEF BroadcastTo, TypeOK
    <3> QED
      BY <2>1, <3>1, <3>2 DEF Coming
  <2>3. CASE d = e
    <3>1. ~Refuses(e) /\ pc[e] # "greeting"
      BY <1>4, <2>3 DEF BroadcastTo, TypeOK
    <3>2. /\ msg[c] = Announcement(c, presences[UserOf[c]])
          /\ presences[UserOf[c]] \in Cursor \cup {None}
          /\ UserOf[c] \in User
      BY <1>4, BroadcastSent DEF AnnouncementsTrue, Announcing, TypeOK, Presences, ChannelAssumption
    <3>3. msg[c] \in Message /\ sendChan[e] \in Seq(Message)
      BY <3>2, Announcements DEF TypeOK
    <3>4. sendChan'[e] = Append(sendChan[e], msg[c])
      BY <1>4, <3>1, BroadcastSent DEF Sent
    <3>5. CASE u = UserOf[c]
      <4>1. Says(msg[c], u) /\ Value(msg[c], u) = presences[u]
        BY <3>2, <3>5, Announcements
      <4>2. WillShow(view[e], Append(sendChan[e], msg[c]), u, presences[u])
        BY <3>3, <4>1, LastIsShown
      <4> QED
        BY <2>1, <2>3, <3>1, <3>4, <4>2
    <3>6. CASE u # UserOf[c] /\ ~Coming(d, u)
      <4>1. ~Says(msg[c], u)
        BY <3>2, <3>6, Announcements
      <4>2. WillShow(view[e], sendChan[e], u, presences[u])
        BY <2>1, <2>3, <3>1, <3>6 DEF MembersForetold
      <4>3. WillShow(view[e], Append(sendChan[e], msg[c]), u, presences[u])
        BY <3>3, <4>1, <4>2, OthersDoNotMatter
      <4> QED
        BY <2>1, <2>3, <3>1, <3>4, <4>3
    <3> QED
      BY <2>2, <3>5, <3>6
  <2>4. CASE d # e
    <3>1. sendChan'[d] = sendChan[d]
      BY <1>4, <2>1, <2>4, BroadcastSent DEF Sent
    <3> QED
      BY <2>1, <2>2, <2>4, <3>1 DEF MembersForetold
  <2> QED
    BY <2>3, <2>4
<1>5. ASSUME NEW c \in Conn, BroadcastEnds(c)
     PROVE  MembersForetold'
  <2> SUFFICES ASSUME NEW d \in (clients \ misled)', NEW u \in User
               PROVE  \/ Coming(d, u)'
                      \/ /\ pc'[d] = "greeting"
                         /\ msg'[d].presences[u] = presences'[u]
                      \/ /\ pc'[d] # "greeting"
                         /\ WillShow(view'[d], sendChan'[d], u, presences'[u])
    BY DEF MembersForetold
  <2>1. /\ d \in Conn /\ d \in clients \ misled
        /\ UNCHANGED <<view, presences, sendChan>>
        /\ pc'[d] = "greeting" <=> pc[d] = "greeting"
        /\ pc[d] = "greeting" => msg'[d] = msg[d]
    BY <1>5 DEF BroadcastEnds, Goto, TypeOK
  <2>2. Coming(d, u) => Coming(d, u)'
    BY <1>5 DEF BroadcastEnds, Goto, Coming, TypeOK
  <2> QED
    BY <2>1, <2>2 DEF MembersForetold
<1>6. ASSUME NEW c \in Conn, NEW k \in Cursor, SetPresence(c, k)
     PROVE  MembersForetold'
  <2> SUFFICES ASSUME NEW d \in (clients \ misled)', NEW u \in User
               PROVE  \/ Coming(d, u)'
                      \/ /\ pc'[d] = "greeting"
                         /\ msg'[d].presences[u] = presences'[u]
                      \/ /\ pc'[d] # "greeting"
                         /\ WillShow(view'[d], sendChan'[d], u, presences'[u])
    BY DEF MembersForetold
  <2>1. /\ d \in Conn /\ d \in clients \ misled
        /\ UNCHANGED <<view, sendChan, todo>>
        /\ pc'[d] = "greeting" <=> pc[d] = "greeting"
        /\ pc[d] = "greeting" => msg'[d] = msg[d]
    BY <1>6 DEF SetPresence, Goto, TypeOK
  <2>2. CASE u = UserOf[c]
    <3>1. pc'[c] = "announcing"
      BY <1>6 DEF SetPresence, Goto, TypeOK
    <3> QED
      BY <2>2, <3>1 DEF Coming
  <2>3. CASE u # UserOf[c]
    <3>1. presences'[u] = presences[u]
      BY <1>6, <2>3 DEF SetPresence, TypeOK, Presences
    <3>2. Coming(d, u) => Coming(d, u)'
      BY <1>6, <2>1, <2>3 DEF SetPresence, Goto, Coming, TypeOK
    <3> QED
      BY <2>1, <3>1, <3>2 DEF MembersForetold
  <2> QED
    BY <2>2, <2>3
<1>7. ASSUME NEW c \in Conn, Leave(c)
     PROVE  MembersForetold'
  <2> SUFFICES ASSUME NEW d \in (clients \ misled)', NEW u \in User
               PROVE  \/ Coming(d, u)'
                      \/ /\ pc'[d] = "greeting"
                         /\ msg'[d].presences[u] = presences'[u]
                      \/ /\ pc'[d] # "greeting"
                         /\ WillShow(view'[d], sendChan'[d], u, presences'[u])
    BY DEF MembersForetold
  <2>1. /\ d \in Conn /\ d # c /\ d \in clients \ misled
        /\ UNCHANGED <<presences, msg>>
        /\ pc'[d] = pc[d] /\ view'[d] = view[d] /\ sendChan'[d] = sendChan[d]
    BY <1>7 DEF Leave, Goto, TypeOK
  <2>2. Coming(d, u) => Coming(d, u)'
    BY <1>7 DEF Leave, Goto, Coming, TypeOK
  <2> QED
    BY <2>1, <2>2 DEF MembersForetold
<1>8. ASSUME NEW c \in Conn, RemovePresence(c)
     PROVE  MembersForetold'
  <2> SUFFICES ASSUME NEW d \in (clients \ misled)', NEW u \in User
               PROVE  \/ Coming(d, u)'
                      \/ /\ pc'[d] = "greeting"
                         /\ msg'[d].presences[u] = presences'[u]
                      \/ /\ pc'[d] # "greeting"
                         /\ WillShow(view'[d], sendChan'[d], u, presences'[u])
    BY DEF MembersForetold
  <2>1. /\ d \in Conn /\ d \in clients \ misled
        /\ UNCHANGED <<view, sendChan, todo>>
        /\ pc'[d] = "greeting" <=> pc[d] = "greeting"
        /\ pc[d] = "greeting" => msg'[d] = msg[d]
    BY <1>8 DEF RemovePresence, Goto, TypeOK
  <2>2. CASE u = UserOf[c]
    <3>1. pc'[c] = "unannouncing"
      BY <1>8 DEF RemovePresence, Goto, TypeOK
    <3> QED
      BY <2>2, <3>1 DEF Coming
  <2>3. CASE u # UserOf[c]
    <3>1. presences'[u] = presences[u]
      BY <1>8, <2>3 DEF RemovePresence, TypeOK, Presences
    <3>2. Coming(d, u) => Coming(d, u)'
      BY <1>8, <2>1, <2>3 DEF RemovePresence, Goto, Coming, TypeOK
    <3> QED
      BY <2>1, <3>1, <3>2 DEF MembersForetold
  <2> QED
    BY <2>2, <2>3
<1>9. ASSUME NEW c \in Conn, Deliver(c)
     PROVE  MembersForetold'
  <2> SUFFICES ASSUME NEW d \in (clients \ misled)', NEW u \in User
               PROVE  \/ Coming(d, u)'
                      \/ /\ pc'[d] = "greeting"
                         /\ msg'[d].presences[u] = presences'[u]
                      \/ /\ pc'[d] # "greeting"
                         /\ WillShow(view'[d], sendChan'[d], u, presences'[u])
    BY DEF MembersForetold
  <2>1. /\ d \in Conn /\ d \in clients \ misled
        /\ UNCHANGED <<presences, msg, pc>>
        /\ Coming(d, u) => Coming(d, u)'
    BY <1>9 DEF Deliver, Coming, TypeOK
  <2>2. CASE d = c
    <3>1. /\ view[c] \in Presences /\ sendChan[c] \in Seq(Message) /\ sendChan[c] # <<>>
          /\ view'[c] = Shown(view[c], Head(sendChan[c]))
          /\ sendChan'[c] = Tail(sendChan[c])
      BY <1>9 DEF Deliver, TypeOK
    <3>2. WillShow(view[c], sendChan[c], u, presences[u]) =>
            WillShow(view'[c], sendChan'[c], u, presences[u])
      BY <3>1, FirstIsApplied
    <3> QED
      BY <2>1, <2>2, <3>2 DEF MembersForetold
  <2>3. CASE d # c
    <3>1. view'[d] = view[d] /\ sendChan'[d] = sendChan[d]
      BY <1>9, <2>1, <2>3 DEF Deliver, TypeOK
    <3> QED
      BY <2>1, <3>1 DEF MembersForetold
  <2> QED
    BY <2>2, <2>3
<1>10. ASSUME NEW c \in Conn, WriteFails(c)
     PROVE  MembersForetold'
  <2> SUFFICES ASSUME NEW d \in (clients \ misled)', NEW u \in User
               PROVE  \/ Coming(d, u)'
                      \/ /\ pc'[d] = "greeting"
                         /\ msg'[d].presences[u] = presences'[u]
                      \/ /\ pc'[d] # "greeting"
                         /\ WillShow(view'[d], sendChan'[d], u, presences'[u])
    BY DEF MembersForetold
  <2>1. /\ d \in Conn /\ d # c /\ d \in clients \ misled
        /\ UNCHANGED <<presences, msg, pc, view>>
        /\ sendChan'[d] = sendChan[d]
        /\ Coming(d, u) => Coming(d, u)'
    BY <1>10 DEF WriteFails, Coming, TypeOK
  <2> QED
    BY <2>1 DEF MembersForetold
<1>11. CASE UNCHANGED vars
  BY <1>11 DEF vars, MembersForetold, Coming
<1> QED
  BY <1>1, <1>2, <1>3, <1>4, <1>5, <1>6, <1>7, <1>8, <1>9, <1>10, <1>11 DEF
     Next, Proceed

-----------------------------------------------------------------------------
(* Theorems *)

\* The goroutines, buffers and views keep their types, whoever connects.
THEOREM TypeCorrect == ASSUME ChannelAssumption PROVE Spec => []TypeOK
<1>1. Init => TypeOK /\ HandlersSound
  <2> SUFFICES ASSUME Init
               PROVE  TypeOK /\ HandlersSound
    OBVIOUS
  <2>1. Nobody \in Presences
    BY DEF Nobody, Presences
  <2>2. <<>> \in Seq(Message) /\ Len(<<>>) = 0
    OBVIOUS
  <2>3. TypeOK
    BY <2>1, <2>2 DEF Init, TypeOK, PC, ChannelAssumption
  <2>4. HandlersSound
    BY DEF Init, HandlersSound, Announcing
  <2> QED
    BY <2>3, <2>4
<1>2. TypeOK /\ HandlersSound /\ [Next]_vars => (TypeOK /\ HandlersSound)'
  BY TypeStep, HandlersStep
<1> QED
  BY <1>1, <1>2, PTL DEF Spec

\* What a member will show, at every moment of broadcasts, joins and leaves.
THEOREM Invariance ==
  ASSUME ChannelAssumption, OneConnectionEach PROVE Spec => []IInv
<1>1. Init => IInv
  <2> SUFFICES ASSUME Init
               PROVE  IInv
    OBVIOUS
  <2>1. Nobody \in Presences
    BY DEF Nobody, Presences
  <2>2. <<>> \in Seq(Message) /\ Len(<<>>) = 0
    OBVIOUS
  <2>3. TypeOK
    BY <2>1, <2>2 DEF Init, TypeOK, PC, ChannelAssumption
  <2>4. HandlersSound /\ AnnouncementsTrue /\ MembersForetold
    BY DEF Init, HandlersSound, AnnouncementsTrue, MembersForetold, Announcing
  <2> QED
    BY <2>3, <2>4 DEF IInv
<1>2. IInv /\ [Next]_vars => IInv'
  BY TypeStep, HandlersStep, AnnouncementsStep, ForetoldStep DEF IInv
<1> QED
  BY <1>1, <1>2, PTL DEF Spec

\* When no user has two connections, a member that lost no message and got none
\* before its snapshot shows what the store holds once nothing is on its way
\* (room.go Join, Broadcast, Leave, handler.go handleAwarenessUpdate).
THEOREM ViewsAgree ==
  ASSUME ChannelAssumption, OneConnectionEach PROVE Spec => []SettledViewsAgree
<1>1. IInv => SettledViewsAgree
  <2> SUFFICES ASSUME IInv, Settled, NEW c \in clients \ misled
               PROVE  view[c] = presences
    BY DEF SettledViewsAgree
  <2>1. /\ c \in Conn /\ sendChan[c] = <<>> /\ pc[c] # "greeting"
        /\ view[c] \in Presences /\ presences \in Presences
    BY DEF IInv, TypeOK, Settled, HandlersSound
  <2>2. ASSUME NEW u \in User
        PROVE  view[c][u] = presences[u]
    <3>1. ~Coming(c, u)
      BY DEF Settled, Coming
    <3>2. WillShow(view[c], <<>>, u, presences[u])
      BY <2>1, <3>1 DEF IInv, MembersForetold
    <3> QED
      BY <3>2 DEF WillShow
  <2> QED
    BY <2>1, <2>2 DEF Presences
<1> QED
  BY <1>1, Invariance, PTL
=============================================================================
