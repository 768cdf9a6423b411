------------------------- MODULE UpdateDelivery_proofs -------------------------
(* Proofs about UpdateDelivery for any clients, edits and buffer size.     *)
EXTENDS UpdateDelivery, TLAPS

\* What Send does to the buffers and to the members that count as current.
Sent(set, m) ==
  /\ sendChan' \in [Conn -> Seq(Message)]
  /\ current' \subseteq current
  /\ \A d \in Conn :
       /\ Len(sendChan'[d]) <= SendBufferSize
       /\ \A i \in 1..Len(sendChan[d]) :
            i \in 1..Len(sendChan'[d]) /\ sendChan'[d][i] = sendChan[d][i]
       /\ \A i \in 1..Len(sendChan'[d]) :
            \/ sendChan'[d][i] = m
            \/ i \in 1..Len(sendChan[d]) /\ sendChan'[d][i] = sendChan[d][i]
  /\ \A d \in set \cap current' :
       \E i \in 1..Len(sendChan'[d]) : sendChan'[d][i] = m

\* Send appends the message or drops it; who it is dropped for is not current.
LEMMA SendSound ==
  ASSUME TypeOK, NEW set \in SUBSET Conn, NEW m \in Message, Send(set, m)
  PROVE  Sent(set, m)
<1> USE DeliveryAssumption DEF TypeOK
<1>1. PICK full \in SUBSET set : /\ \A d \in set : Full(d) \/ d \in cut => d \in full
                                 /\ Queue(set, m, full)
  BY DEF Send
<1>2. ASSUME NEW d \in Conn, d \in set \ full
      PROVE  /\ sendChan'[d] = Append(sendChan[d], m)
             /\ sendChan'[d] \in Seq(Message)
             /\ Len(sendChan'[d]) = Len(sendChan[d]) + 1
             /\ Len(sendChan[d]) + 1 <= SendBufferSize
             /\ Len(sendChan[d]) \in Nat
             /\ sendChan'[d][Len(sendChan[d]) + 1] = m
             /\ \A i \in 1..Len(sendChan[d]) : sendChan'[d][i] = sendChan[d][i]
  <2>1. sendChan'[d] = Append(sendChan[d], m) /\ sendChan[d] \in Seq(Message)
    BY <1>1, <1>2 DEF Queue
  <2>2. Len(sendChan[d]) # SendBufferSize /\ Len(sendChan[d]) <= SendBufferSize
    BY <1>1, <1>2 DEF Full
  <2> QED
    BY <2>1, <2>2
<1>3. ASSUME NEW d \in Conn, d \notin set \ full
      PROVE  sendChan'[d] = sendChan[d]
  BY <1>1, <1>3 DEF Queue
<1>4. sendChan' \in [Conn -> Seq(Message)]
  <2>1. \A d \in Conn : sendChan'[d] \in Seq(Message)
    BY <1>2, <1>3
  <2> QED
    BY <1>1, <2>1 DEF Queue
<1>5. current' \subseteq current /\ \A d \in set \cap current' : d \in set \ full
  BY <1>1 DEF Queue
<1>6. ASSUME NEW d \in Conn
      PROVE  /\ Len(sendChan'[d]) <= SendBufferSize
             /\ \A i \in 1..Len(sendChan[d]) :
                  i \in 1..Len(sendChan'[d]) /\ sendChan'[d][i] = sendChan[d][i]
             /\ \A i \in 1..Len(sendChan'[d]) :
                  \/ sendChan'[d][i] = m
                  \/ i \in 1..Len(sendChan[d]) /\ sendChan'[d][i] = sendChan[d][i]
  <2>1. CASE d \in set \ full
    BY <1>2, <2>1
  <2>2. CASE d \notin set \ full
    BY <1>3, <2>2
  <2> QED
    BY <2>1, <2>2
<1>7. ASSUME NEW d \in set \cap current'
      PROVE  \E i \in 1..Len(sendChan'[d]) : sendChan'[d][i] = m
  <2>1. Len(sendChan[d]) + 1 \in 1..Len(sendChan'[d])
    BY <1>2, <1>5
  <2> QED
    BY <1>2, <1>5, <2>1
<1> QED
  BY <1>4, <1>5, <1>6, <1>7 DEF Sent

\* The contents of the three kinds of message.
LEMMA Contents ==
  ASSUME NEW d
  PROVE  /\ Content(Download, d) = d
         /\ \A o : Content(Update(o), d) = {o}
         /\ \A e : Content(Changes(e), d) = e
BY DEF Content, Download, Update, Changes

\* The content of a message changes with the document only if it is a download.
LEMMA ContentsLater ==
  ASSUME NEW m \in Message, NEW d, NEW e
  PROVE  \/ Content(m, e) = Content(m, d)
         \/ /\ Content(m, d) = d
            /\ Content(m, e) = e
BY DEF Message, Content, Download, Update, Changes

\* Messages consist of edits.
LEMMA ContentsAreEdits ==
  ASSUME NEW m \in Message, NEW d \in SUBSET Op
  PROVE  Content(m, d) \in SUBSET Op
BY DEF Message, Content, Download, Update, Changes

\* What a broadcast changes.
LEMMA BroadcastSent ==
  ASSUME TypeOK, HandlersSound, NEW c \in Conn, BroadcastExcept(c)
  PROVE  /\ pc[c] = "broadcasting" /\ edit[c] \in Op
         /\ Sent(clients \ {c}, Update(edit[c]))
         /\ Finish(c)
         /\ UNCHANGED <<doc, clients, cut, copy, maker, saved, overwritten>>
<1>1. edit[c] \in Op
  BY DeliveryAssumption DEF TypeOK, HandlersSound, BroadcastExcept
<1>2. Update(edit[c]) \in Message /\ clients \ {c} \in SUBSET Conn
  BY <1>1 DEF Message, TypeOK
<1> QED
  BY <1>1, <1>2, SendSound DEF BroadcastExcept

\* What the answer to sync_init changes.
LEMMA AnswerSent ==
  ASSUME TypeOK, NEW c \in Conn, MutationsDone(c)
  PROVE  /\ pc[c] = "mutating"
         /\ Sent({c}, Answer(c))
         /\ Finish(c)
         /\ UNCHANGED <<doc, clients, cut, copy, maker, saved, overwritten>>
<1>1. Answer(c) \in Message
  BY DEF Answer, Message, TypeOK
<1>2. {c} \in SUBSET Conn
  OBVIOUS
<1> QED
  BY <1>1, <1>2, SendSound DEF MutationsDone

\* What the client of c does with the first message queued for it.
Received(c) ==
  /\ c \in clients
  /\ 1 \in 1..Len(sendChan[c])
  /\ sendChan[c][1] \in Message
  /\ copy' = [copy EXCEPT ![c] = @ \cup Content(sendChan[c][1], doc)]
  /\ sendChan' \in [Conn -> Seq(Message)]
  /\ Len(sendChan'[c]) <= SendBufferSize
  /\ \A i \in 1..Len(sendChan'[c]) :
       i + 1 \in 1..Len(sendChan[c]) /\ sendChan'[c][i] = sendChan[c][i + 1]
  /\ \A i \in 1..Len(sendChan[c]) :
       \/ i = 1
       \/ i - 1 \in 1..Len(sendChan'[c]) /\ sendChan'[c][i - 1] = sendChan[c][i]
  /\ \A d \in Conn : d # c => sendChan'[d] = sendChan[d]
  /\ UNCHANGED <<doc, clients, cut, handlers, maker, history>>

\* A message leaves its buffer in the order it entered it.
LEMMA DeliverReceives ==
  ASSUME TypeOK, NEW c \in Conn, Deliver(c)
  PROVE  Received(c)
<1> USE DeliveryAssumption DEF TypeOK
<1>1. sendChan[c] \in Seq(Message) /\ sendChan[c] # <<>>
  BY DEF Deliver
<1>2. /\ Head(sendChan[c]) = sendChan[c][1] /\ sendChan[c][1] \in Message
      /\ 1 \in 1..Len(sendChan[c])
  BY <1>1
<1>3. /\ Tail(sendChan[c]) \in Seq(Message)
      /\ Len(Tail(sendChan[c])) = Len(sendChan[c]) - 1
      /\ \A i \in 1..(Len(sendChan[c]) - 1) :
           Tail(sendChan[c])[i] = sendChan[c][i + 1]
  BY <1>1
<1>4. sendChan' = [sendChan EXCEPT ![c] = Tail(sendChan[c])]
  BY DEF Deliver
<1>5. /\ sendChan' \in [Conn -> Seq(Message)]
      /\ sendChan'[c] = Tail(sendChan[c])
      /\ \A d \in Conn : d # c => sendChan'[d] = sendChan[d]
  BY <1>3, <1>4
<1>6. Len(sendChan[c]) \in Nat /\ Len(sendChan[c]) <= SendBufferSize
  BY <1>1
<1>7. /\ Len(sendChan'[c]) <= SendBufferSize
      /\ \A i \in 1..Len(sendChan'[c]) :
           i + 1 \in 1..Len(sendChan[c]) /\ sendChan'[c][i] = sendChan[c][i + 1]
      /\ \A i \in 1..Len(sendChan[c]) :
           \/ i = 1
           \/ i - 1 \in 1..Len(sendChan'[c]) /\ sendChan'[c][i - 1] = sendChan[c][i]
  BY <1>3, <1>5, <1>6
<1> QED
  BY <1>2, <1>5, <1>7 DEF Received, Deliver

\* Every step keeps the types.
LEMMA TypeStep ==
  ASSUME TypeOK, HandlersSound, [Next]_vars
  PROVE  TypeOK'
<1> USE DeliveryAssumption DEF TypeOK, PC, HandlersSound
<1>1. ASSUME NEW c \in Conn, Join(c)
     PROVE  TypeOK'
  BY <1>1 DEF Join, handlers, channels, history
<1>2. ASSUME NEW c \in Conn, Leave(c)
     PROVE  TypeOK'
  <2>1. \A d \in Conn : Len(sendChan'[d]) <= SendBufferSize
    BY <1>2 DEF Leave
  <2>2. sendChan' \in [Conn -> Seq(Message)]
    BY <1>2 DEF Leave
  <2> QED
    BY <1>2, <2>1, <2>2 DEF Leave
<1>3. ASSUME NEW c \in Conn, NEW o \in Op, LoadFile(c, o)
     PROVE  TypeOK'
  BY <1>3 DEF LoadFile, handlers, channels, history
<1>4. ASSUME NEW c \in Conn, SaveFile(c)
     PROVE  TypeOK'
  <2>1. Merged(c) \in SUBSET Op /\ edit[c] \in Op
    BY <1>4 DEF SaveFile, channels, Merged
  <2> QED
    BY <1>4, <2>1 DEF SaveFile, channels
<1>5. ASSUME NEW c \in Conn, BroadcastExcept(c)
     PROVE  TypeOK'
  <2>1. Sent(clients \ {c}, Update(edit[c])) /\ Finish(c)
        /\ UNCHANGED <<doc, clients, cut, copy, maker, saved, overwritten>>
    BY <1>5, BroadcastSent
  <2>2. /\ pc' \in [Conn -> PC] /\ edit' \in [Conn -> Op \cup {None}]
        /\ snap' \in [Conn -> SUBSET Op] /\ vector' \in [Conn -> SUBSET Op]
        /\ listing' \in [Conn -> SUBSET Op]
    BY <2>1 DEF Finish
  <2>3. /\ sendChan' \in [Conn -> Seq(Message)] /\ current' \in SUBSET clients
        /\ \A d \in Conn : Len(sendChan'[d]) <= SendBufferSize
    BY <2>1 DEF Sent
  <2> QED
    BY <2>1, <2>2, <2>3
<1>6. ASSUME NEW c \in Conn, SyncInit(c)
     PROVE  TypeOK'
  BY <1>6 DEF SyncInit, handlers, channels, history
<1>7. ASSUME NEW c \in Conn, ListFiles(c)
     PROVE  TypeOK'
  BY <1>7 DEF ListFiles, handlers, channels, history
<1>8. ASSUME NEW c \in Conn, MutationsDone(c)
     PROVE  TypeOK'
  <2>1. Sent({c}, Answer(c)) /\ Finish(c)
        /\ UNCHANGED <<doc, clients, cut, copy, maker, saved, overwritten>>
    BY <1>8, AnswerSent
  <2>2. /\ pc' \in [Conn -> PC] /\ edit' \in [Conn -> Op \cup {None}]
        /\ snap' \in [Conn -> SUBSET Op] /\ vector' \in [Conn -> SUBSET Op]
        /\ listing' \in [Conn -> SUBSET Op]
    BY <2>1 DEF Finish
  <2>3. /\ sendChan' \in [Conn -> Seq(Message)] /\ current' \in SUBSET clients
        /\ \A d \in Conn : Len(sendChan'[d]) <= SendBufferSize
    BY <2>1 DEF Sent
  <2> QED
    BY <2>1, <2>2, <2>3
<1>9. ASSUME NEW c \in Conn, Fail(c)
     PROVE  TypeOK'
  BY <1>9 DEF Fail, Finish, channels
<1>10. ASSUME NEW c \in Conn, Deliver(c)
     PROVE  TypeOK'
  <2>1. ASSUME NEW d \in Conn
        PROVE  Len(sendChan'[d]) <= SendBufferSize
    BY <1>10, DeliverReceives DEF Received, history
  <2>2. /\ sendChan[c][1] \in Message
        /\ copy' = [copy EXCEPT ![c] = copy[c] \cup Content(sendChan[c][1], doc)]
    BY <1>10, DeliverReceives DEF Received, history
  <2>3. Content(sendChan[c][1], doc) \in SUBSET Op
    BY <2>2, ContentsAreEdits
  <2>4. copy' \in [Conn -> SUBSET Op]
    BY <2>2, <2>3
  <2> QED
    BY <1>10, <2>1, <2>4, DeliverReceives DEF Received, handlers, history
<1>11. ASSUME NEW c \in Conn, WriteFails(c)
     PROVE  TypeOK'
  BY <1>11 DEF WriteFails, handlers
<1>12. CASE UNCHANGED vars
  BY <1>12 DEF vars, channels, handlers, history
<1> QED
  BY <1>1, <1>2, <1>3, <1>4, <1>5, <1>6, <1>7, <1>8, <1>9, <1>10, <1>11,
     <1>12 DEF Next, StoreThenBroadcast

\* A handler keeps what it knows.
LEMMA HandlerStep ==
  ASSUME TypeOK, HandlersSound, [Next]_vars
  PROVE  HandlersSound'
<1> USE DeliveryAssumption DEF TypeOK, PC, HandlersSound
<1>1. ASSUME NEW c \in Conn, Join(c)
     PROVE  HandlersSound'
  BY <1>1 DEF Join, handlers, channels, history
<1>2. ASSUME NEW c \in Conn, Leave(c)
     PROVE  HandlersSound'
  BY <1>2 DEF Leave, handlers, channels, history
<1>3. ASSUME NEW c \in Conn, NEW o \in Op, LoadFile(c, o)
     PROVE  HandlersSound'
  BY <1>3 DEF LoadFile, handlers, channels, history
<1>4. ASSUME NEW c \in Conn, SaveFile(c)
     PROVE  HandlersSound'
  BY <1>4 DEF SaveFile, Merged, handlers, channels, history
<1>5. ASSUME NEW c \in Conn, BroadcastExcept(c)
     PROVE  HandlersSound'
  BY <1>5, BroadcastSent DEF Finish, Sent
<1>6. ASSUME NEW c \in Conn, SyncInit(c)
     PROVE  HandlersSound'
  BY <1>6 DEF SyncInit, handlers, channels, history
<1>7. ASSUME NEW c \in Conn, ListFiles(c)
     PROVE  HandlersSound'
  BY <1>7 DEF ListFiles, handlers, channels, history
<1>8. ASSUME NEW c \in Conn, MutationsDone(c)
     PROVE  HandlersSound'
  BY <1>8, AnswerSent DEF Finish, Sent
<1>9. ASSUME NEW c \in Conn, Fail(c)
     PROVE  HandlersSound'
  BY <1>9 DEF Fail, Finish, channels
<1>10. ASSUME NEW c \in Conn, Deliver(c)
     PROVE  HandlersSound'
  <2>1. PICK x : copy' = [copy EXCEPT ![c] = copy[c] \cup x]
    BY <1>10, DeliverReceives DEF Received, history
  <2>2. \A d \in Conn : copy[d] \subseteq copy'[d]
    BY <2>1
  <2> QED
    BY <1>10, <2>2, DeliverReceives DEF Received, handlers, history
<1>11. ASSUME NEW c \in Conn, WriteFails(c)
     PROVE  HandlersSound'
  BY <1>11 DEF WriteFails, handlers
<1>12. CASE UNCHANGED vars
  BY <1>12 DEF vars, channels, handlers, history
<1> QED
  BY <1>1, <1>2, <1>3, <1>4, <1>5, <1>6, <1>7, <1>8, <1>9, <1>10, <1>11,
     <1>12 DEF Next, StoreThenBroadcast

\* What a step that sends keeps of the queued messages.
LEMMA SendKeepsRead ==
  ASSUME TypeOK, ReadWasSaved, NEW set, NEW m \in Message,
         Content(m, doc) \subseteq saved, Sent(set, m), UNCHANGED <<doc, saved>>,
         NEW d \in Conn, NEW i \in 1..Len(sendChan'[d])
  PROVE  Content(sendChan'[d][i], doc') \subseteq saved'
<1>1. CASE sendChan'[d][i] = m
  BY <1>1
<1>2. CASE i \in 1..Len(sendChan[d]) /\ sendChan'[d][i] = sendChan[d][i]
  BY <1>2 DEF ReadWasSaved
<1> QED
  BY <1>1, <1>2 DEF Sent

\* What is read or sent had been stored.
LEMMA ReadStep ==
  ASSUME TypeOK, HandlersSound, ReadWasSaved, [Next]_vars
  PROVE  ReadWasSaved'
<1> USE DeliveryAssumption DEF TypeOK, PC, HandlersSound, ReadWasSaved
<1>1. ASSUME NEW c \in Conn, Join(c)
     PROVE  ReadWasSaved'
  BY <1>1 DEF Join, handlers, channels, history
<1>2. ASSUME NEW c \in Conn, Leave(c)
     PROVE  ReadWasSaved'
  BY <1>2 DEF Leave, handlers, channels, history
<1>3. ASSUME NEW c \in Conn, NEW o \in Op, LoadFile(c, o)
     PROVE  ReadWasSaved'
  BY <1>3 DEF LoadFile, handlers, channels, history
<1>4. ASSUME NEW c \in Conn, SaveFile(c)
     PROVE  ReadWasSaved'
  <2>1. doc' = snap[c] \cup {edit[c]} /\ saved' = saved \cup {edit[c]}
    BY <1>4 DEF SaveFile, channels, Merged
  <2>2. doc' \subseteq saved'
    BY <2>1
  <2>3. ASSUME NEW d \in Conn, NEW i \in 1..Len(sendChan[d])
        PROVE  Content(sendChan[d][i], doc') \subseteq saved'
    <3>1. sendChan[d][i] \in Message
      OBVIOUS
    <3>2. Content(sendChan[d][i], doc) \subseteq saved
      OBVIOUS
    <3> QED
      BY <2>1, <2>2, <3>1, <3>2, ContentsLater
  <2>4. \A d \in Conn : snap'[d] \subseteq saved /\ listing'[d] \subseteq saved
    BY <1>4 DEF SaveFile, channels
  <2>5. sendChan' = sendChan
    BY <1>4 DEF SaveFile, channels
  <2> QED
    BY <2>1, <2>2, <2>3, <2>4, <2>5
<1>5. ASSUME NEW c \in Conn, BroadcastExcept(c)
     PROVE  ReadWasSaved'
  <2> HIDE DEF TypeOK, HandlersSound, ReadWasSaved
  <2>1. /\ Sent(clients \ {c}, Update(edit[c])) /\ Finish(c)
        /\ UNCHANGED <<doc, clients, cut, copy, maker, saved, overwritten>>
    BY <1>5, BroadcastSent
  <2>2. Update(edit[c]) \in Message /\ Content(Update(edit[c]), doc) \subseteq saved
    <3>1. pc[c] = "broadcasting" /\ edit[c] \in Op
      BY <1>5, BroadcastSent
    <3>2. edit[c] \in saved
      BY <3>1 DEF HandlersSound
    <3> QED
      BY <3>1, <3>2, Contents DEF Message
  <2>3. \A d \in Conn : \A i \in 1..Len(sendChan'[d]) :
          Content(sendChan'[d][i], doc') \subseteq saved'
    BY <2>1, <2>2, SendKeepsRead
  <2> QED
    BY <2>1, <2>3 DEF Finish, TypeOK, ReadWasSaved
<1>6. ASSUME NEW c \in Conn, SyncInit(c)
     PROVE  ReadWasSaved'
  BY <1>6 DEF SyncInit, handlers, channels, history
<1>7. ASSUME NEW c \in Conn, ListFiles(c)
     PROVE  ReadWasSaved'
  BY <1>7 DEF ListFiles, handlers, channels, history
<1>8. ASSUME NEW c \in Conn, MutationsDone(c)
     PROVE  ReadWasSaved'
  <2> HIDE DEF TypeOK, HandlersSound, ReadWasSaved
  <2>1. /\ Sent({c}, Answer(c)) /\ Finish(c)
        /\ UNCHANGED <<doc, clients, cut, copy, maker, saved, overwritten>>
    BY <1>8, AnswerSent
  <2>2. Answer(c) \in Message /\ Content(Answer(c), doc) \subseteq saved
    <3>1. /\ listing[c] \ vector[c] \in SUBSET Op
          /\ listing[c] \subseteq saved /\ doc \subseteq saved
      BY DEF TypeOK, ReadWasSaved
    <3>2. Answer(c) = Download \/ Answer(c) = Changes(listing[c] \ vector[c])
      BY DEF Answer
    <3> QED
      BY <3>1, <3>2, Contents DEF Message
  <2>3. \A d \in Conn : \A i \in 1..Len(sendChan'[d]) :
          Content(sendChan'[d][i], doc') \subseteq saved'
    BY <2>1, <2>2, SendKeepsRead
  <2> QED
    BY <2>1, <2>3 DEF Finish, TypeOK, ReadWasSaved
<1>9. ASSUME NEW c \in Conn, Fail(c)
     PROVE  ReadWasSaved'
  BY <1>9 DEF Fail, Finish, channels
<1>10. ASSUME NEW c \in Conn, Deliver(c)
     PROVE  ReadWasSaved'
  <2>1. ASSUME NEW d \in Conn, NEW i \in 1..Len(sendChan'[d])
        PROVE  Content(sendChan'[d][i], doc') \subseteq saved'
    <3>1. CASE d = c
      BY <1>10, <2>1, <3>1, DeliverReceives DEF Received, history
    <3>2. CASE d # c
      BY <1>10, <2>1, <3>2, DeliverReceives DEF Received, history
    <3> QED
      BY <3>1, <3>2
  <2> QED
    BY <1>10, <2>1, DeliverReceives DEF Received, handlers, history
<1>11. ASSUME NEW c \in Conn, WriteFails(c)
     PROVE  ReadWasSaved'
  BY <1>11 DEF WriteFails, handlers
<1>12. CASE UNCHANGED vars
  BY <1>12 DEF vars, channels, handlers, history
<1> QED
  BY <1>1, <1>2, <1>3, <1>4, <1>5, <1>6, <1>7, <1>8, <1>9, <1>10, <1>11,
     <1>12 DEF Next, StoreThenBroadcast

\* A client adds to its copy what it made or what had been stored.
LEMMA ShownStep ==
  ASSUME TypeOK, HandlersSound, ReadWasSaved, ShownWasSaved, [Next]_vars
  PROVE  ShownWasSaved'
<1> USE DeliveryAssumption DEF TypeOK, PC, HandlersSound, ShownWasSaved
<1>1. ASSUME NEW c \in Conn, Join(c)
     PROVE  ShownWasSaved'
  BY <1>1 DEF Join, handlers, channels, history
<1>2. ASSUME NEW c \in Conn, Leave(c)
     PROVE  ShownWasSaved'
  BY <1>2 DEF Leave, handlers, channels, history
<1>3. ASSUME NEW c \in Conn, NEW o \in Op, LoadFile(c, o)
     PROVE  ShownWasSaved'
  BY <1>3 DEF LoadFile, handlers, channels, history
<1>4. ASSUME NEW c \in Conn, SaveFile(c)
     PROVE  ShownWasSaved'
  BY <1>4 DEF SaveFile, Merged, handlers, channels, history
<1>5. ASSUME NEW c \in Conn, BroadcastExcept(c)
     PROVE  ShownWasSaved'
  BY <1>5, BroadcastSent DEF Finish, Sent
<1>6. ASSUME NEW c \in Conn, SyncInit(c)
     PROVE  ShownWasSaved'
  BY <1>6 DEF SyncInit, handlers, channels, history
<1>7. ASSUME NEW c \in Conn, ListFiles(c)
     PROVE  ShownWasSaved'
  BY <1>7 DEF ListFiles, handlers, channels, history
<1>8. ASSUME NEW c \in Conn, MutationsDone(c)
     PROVE  ShownWasSaved'
  BY <1>8, AnswerSent DEF Finish, Sent
<1>9. ASSUME NEW c \in Conn, Fail(c)
     PROVE  ShownWasSaved'
  BY <1>9 DEF Fail, Finish, channels
<1>10. ASSUME NEW c \in Conn, Deliver(c)
     PROVE  ShownWasSaved'
  <2>1. /\ copy' = [copy EXCEPT ![c] = copy[c] \cup Content(sendChan[c][1], doc)]
        /\ UNCHANGED <<maker, saved>> /\ 1 \in 1..Len(sendChan[c])
    BY <1>10, DeliverReceives DEF Received, history
  <2>2. Content(sendChan[c][1], doc) \subseteq saved
    BY <2>1 DEF ReadWasSaved
  <2>3. \A d \in Conn : copy'[d] \subseteq copy[d] \cup saved
    BY <2>1, <2>2
  <2>4. copy' \in [Conn -> SUBSET Op]
    BY <1>10, TypeStep DEF Next
  <2> QED
    BY <2>1, <2>3, <2>4
<1>11. ASSUME NEW c \in Conn, WriteFails(c)
     PROVE  ShownWasSaved'
  BY <1>11 DEF WriteFails, handlers
<1>12. CASE UNCHANGED vars
  BY <1>12 DEF vars, channels, handlers, history
<1> QED
  BY <1>1, <1>2, <1>3, <1>4, <1>5, <1>6, <1>7, <1>8, <1>9, <1>10, <1>11,
     <1>12 DEF Next, StoreThenBroadcast

\* What a current member lacks stays on its way to it.
LEMMA ReachStep ==
  ASSUME TypeOK, HandlersSound, CurrentAreReached, [Next]_vars
  PROVE  CurrentAreReached'
<1> USE DeliveryAssumption DEF TypeOK, PC, HandlersSound
<1>1. ASSUME NEW c \in Conn, Join(c)
     PROVE  CurrentAreReached'
  <2> SUFFICES ASSUME NEW d \in current', NEW o \in doc' \ overwritten'
               PROVE  Reaches(d, o)'
    BY DEF CurrentAreReached
  <2>1. /\ d \in current /\ d \in Conn /\ o \in doc \ overwritten
        /\ copy[d] \subseteq copy'[d]
        /\ sendChan'[d] = sendChan[d]
        /\ UNCHANGED <<doc, listing>>
    BY <1>1 DEF Join, handlers, channels, history
  <2>2. /\ \A q \in Conn : pc[q] = "broadcasting" =>
             pc'[q] = "broadcasting" /\ edit'[q] = edit[q]
        /\ pc[d] = "mutating" => pc'[d] = "mutating"
    BY <1>1 DEF Join, handlers, channels, history
  <2>3. Reaches(d, o)
    BY <2>1 DEF CurrentAreReached
  <2>4. CASE o \in copy[d]
    BY <2>1, <2>4 DEF Reaches
  <2>5. CASE \E i \in 1..Len(sendChan[d]) : o \in Content(sendChan[d][i], doc)
    <3>1. PICK i \in 1..Len(sendChan[d]) : o \in Content(sendChan[d][i], doc)
      BY <2>5
    <3>2. i \in 1..Len(sendChan'[d]) /\ o \in Content(sendChan'[d][i], doc')
      BY <2>1, <3>1
    <3> QED
      BY <3>2 DEF Reaches
  <2>6. CASE \E q \in Conn \ {d} : pc[q] = "broadcasting" /\ edit[q] = o
    <3>1. PICK q \in Conn \ {d} : pc[q] = "broadcasting" /\ edit[q] = o
      BY <2>6
    <3>2. pc'[q] = "broadcasting" /\ edit'[q] = o
      BY <2>2, <3>1
    <3> HIDE DEF TypeOK, HandlersSound
    <3> QED
      BY <3>1, <3>2 DEF Reaches
  <2>7. CASE pc[d] = "mutating" /\ o \in listing[d]
    BY <2>1, <2>2, <2>7 DEF Reaches
  <2> QED
    BY <2>3, <2>4, <2>5, <2>6, <2>7 DEF Reaches
<1>2. ASSUME NEW c \in Conn, Leave(c)
     PROVE  CurrentAreReached'
  <2> SUFFICES ASSUME NEW d \in current', NEW o \in doc' \ overwritten'
               PROVE  Reaches(d, o)'
    BY DEF CurrentAreReached
  <2>1. /\ d \in current /\ d \in Conn /\ o \in doc \ overwritten
        /\ copy[d] \subseteq copy'[d]
        /\ sendChan'[d] = sendChan[d]
        /\ UNCHANGED <<doc, listing>>
    BY <1>2 DEF Leave, handlers, channels, history
  <2>2. /\ \A q \in Conn : pc[q] = "broadcasting" =>
             pc'[q] = "broadcasting" /\ edit'[q] = edit[q]
        /\ pc[d] = "mutating" => pc'[d] = "mutating"
    BY <1>2 DEF Leave, handlers, channels, history
  <2>3. Reaches(d, o)
    BY <2>1 DEF CurrentAreReached
  <2>4. CASE o \in copy[d]
    BY <2>1, <2>4 DEF Reaches
  <2>5. CASE \E i \in 1..Len(sendChan[d]) : o \in Content(sendChan[d][i], doc)
    <3>1. PICK i \in 1..Len(sendChan[d]) : o \in Content(sendChan[d][i], doc)
      BY <2>5
    <3>2. i \in 1..Len(sendChan'[d]) /\ o \in Content(sendChan'[d][i], doc')
      BY <2>1, <3>1
    <3> QED
      BY <3>2 DEF Reaches
  <2>6. CASE \E q \in Conn \ {d} : pc[q] = "broadcasting" /\ edit[q] = o
    <3>1. PICK q \in Conn \ {d} : pc[q] = "broadcasting" /\ edit[q] = o
      BY <2>6
    <3>2. pc'[q] = "broadcasting" /\ edit'[q] = o
      BY <2>2, <3>1
    <3> HIDE DEF TypeOK, HandlersSound
    <3> QED
      BY <3>1, <3>2 DEF Reaches
  <2>7. CASE pc[d] = "mutating" /\ o \in listing[d]
    BY <2>1, <2>2, <2>7 DEF Reaches
  <2> QED
    BY <2>3, <2>4, <2>5, <2>6, <2>7 DEF Reaches
<1>3. ASSUME NEW c \in Conn, NEW p \in Op, LoadFile(c, p)
     PROVE  CurrentAreReached'
  <2> SUFFICES ASSUME NEW d \in current', NEW o \in doc' \ overwritten'
               PROVE  Reaches(d, o)'
    BY DEF CurrentAreReached
  <2>1. /\ d \in current /\ d \in Conn /\ o \in doc \ overwritten
        /\ copy[d] \subseteq copy'[d]
        /\ sendChan'[d] = sendChan[d]
        /\ UNCHANGED <<doc, listing>>
    BY <1>3 DEF LoadFile, handlers, channels, history
  <2>2. /\ \A q \in Conn : pc[q] = "broadcasting" =>
             pc'[q] = "broadcasting" /\ edit'[q] = edit[q]
        /\ pc[d] = "mutating" => pc'[d] = "mutating"
    BY <1>3 DEF LoadFile, handlers, channels, history
  <2>3. Reaches(d, o)
    BY <2>1 DEF CurrentAreReached
  <2>4. CASE o \in copy[d]
    BY <2>1, <2>4 DEF Reaches
  <2>5. CASE \E i \in 1..Len(sendChan[d]) : o \in Content(sendChan[d][i], doc)
    <3>1. PICK i \in 1..Len(sendChan[d]) : o \in Content(sendChan[d][i], doc)
      BY <2>5
    <3>2. i \in 1..Len(sendChan'[d]) /\ o \in Content(sendChan'[d][i], doc')
      BY <2>1, <3>1
    <3> QED
      BY <3>2 DEF Reaches
  <2>6. CASE \E q \in Conn \ {d} : pc[q] = "broadcasting" /\ edit[q] = o
    <3>1. PICK q \in Conn \ {d} : pc[q] = "broadcasting" /\ edit[q] = o
      BY <2>6
    <3>2. pc'[q] = "broadcasting" /\ edit'[q] = o
      BY <2>2, <3>1
    <3> HIDE DEF TypeOK, HandlersSound
    <3> QED
      BY <3>1, <3>2 DEF Reaches
  <2>7. CASE pc[d] = "mutating" /\ o \in listing[d]
    BY <2>1, <2>2, <2>7 DEF Reaches
  <2> QED
    BY <2>3, <2>4, <2>5, <2>6, <2>7 DEF Reaches
<1>4. ASSUME NEW c \in Conn, SaveFile(c)
     PROVE  CurrentAreReached'
  <2> SUFFICES ASSUME NEW d \in current', NEW o \in doc' \ overwritten'
               PROVE  Reaches(d, o)'
    BY DEF CurrentAreReached
  <2>1. /\ d \in current /\ d \in Conn /\ edit[c] \in copy[c]
        /\ UNCHANGED <<copy, sendChan, listing>>
    BY <1>4 DEF SaveFile, channels
  <2>2. CASE o = edit[c]
    <3>1. pc'[c] = "broadcasting" /\ edit'[c] = o
      BY <1>4, <2>2 DEF SaveFile, channels
    <3> QED
      BY <2>1, <2>2, <3>1 DEF Reaches
  <2>3. CASE o # edit[c]
    <3>1. o \in doc /\ o \in doc' /\ o \notin overwritten
      BY <1>4, <2>3 DEF SaveFile, channels, Merged
    <3>2. CASE o \in copy[d]
      BY <2>1, <3>2 DEF Reaches
    <3>3. CASE \E i \in 1..Len(sendChan[d]) : o \in Content(sendChan[d][i], doc)
      <4>1. PICK i \in 1..Len(sendChan[d]) : o \in Content(sendChan[d][i], doc)
        BY <3>3
      <4>2. sendChan[d][i] \in Message
        BY <2>1, <4>1
      <4>3. o \in Content(sendChan[d][i], doc')
        BY <3>1, <4>1, <4>2, ContentsLater
      <4> QED
        BY <2>1, <4>1, <4>3 DEF Reaches
    <3>4. CASE \E q \in Conn \ {d} : pc[q] = "broadcasting" /\ edit[q] = o
      BY <1>4, <3>4 DEF SaveFile, channels, Reaches
    <3>5. CASE pc[d] = "mutating" /\ o \in listing[d]
      BY <1>4, <2>1, <3>5 DEF SaveFile, channels, Reaches
    <3> QED
      BY <2>1, <3>1, <3>2, <3>3, <3>4, <3>5 DEF CurrentAreReached, Reaches
  <2> QED
    BY <2>2, <2>3
<1>5. ASSUME NEW c \in Conn, BroadcastExcept(c)
     PROVE  CurrentAreReached'
  <2> SUFFICES ASSUME NEW d \in current', NEW o \in doc' \ overwritten'
               PROVE  Reaches(d, o)'
    BY DEF CurrentAreReached
  <2>1. /\ Sent(clients \ {c}, Update(edit[c])) /\ Finish(c)
        /\ UNCHANGED <<doc, clients, cut, copy, maker, saved, overwritten>>
    BY <1>5, BroadcastSent
  <2>2. d \in current /\ d \in Conn /\ Reaches(d, o)
    BY <2>1 DEF Sent, CurrentAreReached
  <2>3. CASE o \in copy[d]
    BY <2>1, <2>3 DEF Reaches
  <2>4. CASE \E i \in 1..Len(sendChan[d]) : o \in Content(sendChan[d][i], doc)
    BY <2>1, <2>2, <2>4 DEF Sent, Reaches
  <2>5. CASE \E q \in Conn \ {d} : pc[q] = "broadcasting" /\ edit[q] = o
    <3>1. PICK q \in Conn \ {d} : pc[q] = "broadcasting" /\ edit[q] = o
      BY <2>5
    <3>2. CASE q = c
      <4>1. PICK i \in 1..Len(sendChan'[d]) : sendChan'[d][i] = Update(edit[c])
        BY <2>1, <2>2, <3>1, <3>2 DEF Sent
      <4>2. Content(Update(edit[c]), doc') = {edit[c]}
        BY Contents
      <4>3. o \in Content(sendChan'[d][i], doc')
        BY <3>1, <3>2, <4>1, <4>2
      <4> QED
        BY <4>1, <4>3 DEF Reaches
    <3>3. CASE q # c
      BY <2>1, <3>1, <3>3 DEF Finish, Reaches
    <3> QED
      BY <3>2, <3>3
  <2>6. CASE pc[d] = "mutating" /\ o \in listing[d]
    <3>1. d # c
      BY <1>5, <2>6, BroadcastSent
    <3> QED
      BY <2>1, <2>2, <2>6, <3>1 DEF Finish, Reaches
  <2> QED
    BY <2>2, <2>3, <2>4, <2>5, <2>6 DEF Reaches
<1>6. ASSUME NEW c \in Conn, SyncInit(c)
     PROVE  CurrentAreReached'
  <2> SUFFICES ASSUME NEW d \in current', NEW o \in doc' \ overwritten'
               PROVE  Reaches(d, o)'
    BY DEF CurrentAreReached
  <2>1. /\ d \in current /\ d \in Conn /\ o \in doc \ overwritten
        /\ copy[d] \subseteq copy'[d]
        /\ sendChan'[d] = sendChan[d]
        /\ UNCHANGED <<doc, listing>>
    BY <1>6 DEF SyncInit, handlers, channels, history
  <2>2. /\ \A q \in Conn : pc[q] = "broadcasting" =>
             pc'[q] = "broadcasting" /\ edit'[q] = edit[q]
        /\ pc[d] = "mutating" => pc'[d] = "mutating"
    BY <1>6 DEF SyncInit, handlers, channels, history
  <2>3. Reaches(d, o)
    BY <2>1 DEF CurrentAreReached
  <2>4. CASE o \in copy[d]
    BY <2>1, <2>4 DEF Reaches
  <2>5. CASE \E i \in 1..Len(sendChan[d]) : o \in Content(sendChan[d][i], doc)
    <3>1. PICK i \in 1..Len(sendChan[d]) : o \in Content(sendChan[d][i], doc)
      BY <2>5
    <3>2. i \in 1..Len(sendChan'[d]) /\ o \in Content(sendChan'[d][i], doc')
      BY <2>1, <3>1
    <3> QED
      BY <3>2 DEF Reaches
  <2>6. CASE \E q \in Conn \ {d} : pc[q] = "broadcasting" /\ edit[q] = o
    <3>1. PICK q \in Conn \ {d} : pc[q] = "broadcasting" /\ edit[q] = o
      BY <2>6
    <3>2. pc'[q] = "broadcasting" /\ edit'[q] = o
      BY <2>2, <3>1
    <3> HIDE DEF TypeOK, HandlersSound
    <3> QED
      BY <3>1, <3>2 DEF Reaches
  <2>7. CASE pc[d] = "mutating" /\ o \in listing[d]
    BY <2>1, <2>2, <2>7 DEF Reaches
  <2> QED
    BY <2>3, <2>4, <2>5, <2>6, <2>7 DEF Reaches
<1>7. ASSUME NEW c \in Conn, ListFiles(c)
     PROVE  CurrentAreReached'
  <2> SUFFICES ASSUME NEW d \in current', NEW o \in doc' \ overwritten'
               PROVE  Reaches(d, o)'
    BY DEF CurrentAreReached
  <2>1. /\ d \in Conn /\ o \in doc \ overwritten
        /\ copy' = copy /\ sendChan' = sendChan /\ doc' = doc
        /\ \A q \in Conn : /\ edit'[q] = edit[q]
                           /\ q # c => pc'[q] = pc[q] /\ listing'[q] = listing[q]
        /\ pc[c] = "merging"
    BY <1>7 DEF ListFiles, handlers, channels, history
  <2>2. CASE d = c
    <3>1. pc'[c] = "mutating" /\ o \in listing'[c]
      BY <1>7, <2>1 DEF ListFiles
    <3> QED
      BY <2>2, <3>1 DEF Reaches
  <2>3. CASE d # c
    <3>1. Reaches(d, o)
      BY <1>7, <2>1, <2>3 DEF ListFiles, CurrentAreReached
    <3> HIDE DEF TypeOK, HandlersSound
    <3> QED
      BY <2>1, <2>3, <3>1 DEF Reaches
  <2> QED
    BY <2>2, <2>3
<1>8. ASSUME NEW c \in Conn, MutationsDone(c)
     PROVE  CurrentAreReached'
  <2> SUFFICES ASSUME NEW d \in current', NEW o \in doc' \ overwritten'
               PROVE  Reaches(d, o)'
    BY DEF CurrentAreReached
  <2>1. /\ Sent({c}, Answer(c)) /\ Finish(c)
        /\ UNCHANGED <<doc, clients, cut, copy, maker, saved, overwritten>>
    BY <1>8, AnswerSent
  <2>2. d \in current /\ d \in Conn /\ Reaches(d, o)
    BY <2>1 DEF Sent, CurrentAreReached
  <2>3. CASE o \in copy[d]
    BY <2>1, <2>3 DEF Reaches
  <2>4. CASE \E i \in 1..Len(sendChan[d]) : o \in Content(sendChan[d][i], doc)
    BY <2>1, <2>2, <2>4 DEF Sent, Reaches
  <2>5. CASE \E q \in Conn \ {d} : pc[q] = "broadcasting" /\ edit[q] = o
    <3>1. PICK q \in Conn \ {d} : pc[q] = "broadcasting" /\ edit[q] = o
      BY <2>5
    <3>2. q # c
      BY <1>8, <3>1, AnswerSent
    <3> QED
      BY <2>1, <3>1, <3>2 DEF Finish, Reaches
  <2>6. CASE pc[d] = "mutating" /\ o \in listing[d]
    <3>1. CASE d = c
      <4>1. PICK i \in 1..Len(sendChan'[d]) : sendChan'[d][i] = Answer(c)
        BY <2>1, <2>2, <3>1 DEF Sent
      <4>2. Content(Answer(c), doc) = IF vector[c] = {} THEN doc
                                      ELSE listing[c] \ vector[c]
        <5>1. CASE vector[c] = {}
          BY <5>1, Contents DEF Answer
        <5>2. CASE vector[c] # {}
          BY <5>2, Contents DEF Answer
        <5> QED
          BY <5>1, <5>2
      <4>3. CASE o \in vector[c]
        BY <2>1, <2>6, <3>1, <4>3 DEF HandlersSound, Reaches
      <4>4. CASE o \notin vector[c]
        <5>1. o \in Content(sendChan'[d][i], doc')
          BY <2>1, <2>6, <3>1, <4>1, <4>2, <4>4
        <5> QED
          BY <4>1, <5>1 DEF Reaches
      <4> QED
        BY <4>3, <4>4
    <3>2. CASE d # c
      BY <2>1, <2>2, <2>6, <3>2 DEF Finish, Reaches
    <3> QED
      BY <3>1, <3>2
  <2> QED
    BY <2>2, <2>3, <2>4, <2>5, <2>6 DEF Reaches
<1>9. ASSUME NEW c \in Conn, Fail(c)
     PROVE  CurrentAreReached'
  BY <1>9 DEF CurrentAreReached, Reaches, Fail, Finish, channels
<1>10. ASSUME NEW c \in Conn, Deliver(c)
     PROVE  CurrentAreReached'
  <2> SUFFICES ASSUME NEW d \in current', NEW o \in doc' \ overwritten'
               PROVE  Reaches(d, o)'
    BY DEF CurrentAreReached
  <2>1. Received(c)
    BY <1>10, DeliverReceives
  <2>2. d \in current /\ d \in Conn /\ Reaches(d, o)
    BY <2>1 DEF Received, history, CurrentAreReached
  <2>3. UNCHANGED <<doc, pc, edit, listing>>
    BY <2>1 DEF Received, handlers, history
  <2>4. PICK x : copy' = [copy EXCEPT ![c] = copy[c] \cup x]
    BY <2>1 DEF Received
  <2>5. copy[d] \subseteq copy'[d]
    BY <2>2, <2>4
  <2>6. CASE \E i \in 1..Len(sendChan[d]) : o \in Content(sendChan[d][i], doc)
    <3>1. PICK i \in 1..Len(sendChan[d]) : o \in Content(sendChan[d][i], doc)
      BY <2>6
    <3>2. CASE d # c
      BY <2>1, <2>2, <2>3, <3>1, <3>2 DEF Received, Reaches
    <3>3. CASE d = c /\ i = 1
      BY <2>1, <2>2, <3>1, <3>3 DEF Received, Reaches
    <3>4. CASE d = c /\ i # 1
      <4>1. i - 1 \in 1..Len(sendChan'[d]) /\ sendChan'[d][i - 1] = sendChan[d][i]
        BY <2>1, <3>1, <3>4 DEF Received
      <4>2. o \in Content(sendChan'[d][i - 1], doc')
        BY <2>3, <3>1, <4>1
      <4> QED
        BY <4>1, <4>2 DEF Reaches
    <3> QED
      BY <3>2, <3>3, <3>4
  <2> QED
    BY <2>2, <2>3, <2>5, <2>6 DEF Reaches
<1>11. ASSUME NEW c \in Conn, WriteFails(c)
     PROVE  CurrentAreReached'
  <2> SUFFICES ASSUME NEW d \in current', NEW o \in doc' \ overwritten'
               PROVE  Reaches(d, o)'
    BY DEF CurrentAreReached
  <2>1. /\ d \in current /\ d \in Conn /\ o \in doc \ overwritten
        /\ copy[d] \subseteq copy'[d]
        /\ sendChan'[d] = sendChan[d]
        /\ UNCHANGED <<doc, listing>>
    BY <1>11 DEF WriteFails, handlers, channels, history
  <2>2. /\ \A q \in Conn : pc[q] = "broadcasting" =>
             pc'[q] = "broadcasting" /\ edit'[q] = edit[q]
        /\ pc[d] = "mutating" => pc'[d] = "mutating"
    BY <1>11 DEF WriteFails, handlers, channels, history
  <2>3. Reaches(d, o)
    BY <2>1 DEF CurrentAreReached
  <2>4. CASE o \in copy[d]
    BY <2>1, <2>4 DEF Reaches
  <2>5. CASE \E i \in 1..Len(sendChan[d]) : o \in Content(sendChan[d][i], doc)
    <3>1. PICK i \in 1..Len(sendChan[d]) : o \in Content(sendChan[d][i], doc)
      BY <2>5
    <3>2. i \in 1..Len(sendChan'[d]) /\ o \in Content(sendChan'[d][i], doc')
      BY <2>1, <3>1
    <3> QED
      BY <3>2 DEF Reaches
  <2>6. CASE \E q \in Conn \ {d} : pc[q] = "broadcasting" /\ edit[q] = o
    <3>1. PICK q \in Conn \ {d} : pc[q] = "broadcasting" /\ edit[q] = o
      BY <2>6
    <3>2. pc'[q] = "broadcasting" /\ edit'[q] = o
      BY <2>2, <3>1
    <3> HIDE DEF TypeOK, HandlersSound
    <3> QED
      BY <3>1, <3>2 DEF Reaches
  <2>7. CASE pc[d] = "mutating" /\ o \in listing[d]
    BY <2>1, <2>2, <2>7 DEF Reaches
  <2> QED
    BY <2>3, <2>4, <2>5, <2>6, <2>7 DEF Reaches
<1>12. CASE UNCHANGED vars
  BY <1>12 DEF CurrentAreReached, Reaches, vars, channels, handlers, history
<1> QED
  BY <1>1, <1>2, <1>3, <1>4, <1>5, <1>6, <1>7, <1>8, <1>9, <1>10, <1>11,
     <1>12 DEF Next, StoreThenBroadcast

\* The conjunction of the invariants holds in every state of every behaviour.
THEOREM Invariance == Spec => []IInv
<1>1. Init => IInv
  BY DeliveryAssumption
  DEF Init, IInv, TypeOK, PC, HandlersSound, ReadWasSaved, CurrentAreReached,
      ShownWasSaved
<1>2. IInv /\ [Next]_vars => IInv'
  BY TypeStep, HandlerStep, ReadStep, ReachStep, ShownStep DEF IInv
<1> QED
  BY <1>1, <1>2, PTL DEF Spec

\* The variables keep their types, and no buffer holds more than its capacity.
THEOREM TypeCorrect == Spec => []TypeOK
  BY Invariance, PTL DEF IInv

\* A client shows its own edits and such as were stored (handler.go:225).
THEOREM NothingRefusedIsShown == Spec => []ShownWasSaved
  BY Invariance, PTL DEF IInv

\* A member that asked for what it missed, and for which nothing was dropped
\* since, has the document as soon as nothing is on its way (handler.go
\* handleCRDTUpdate and handleSyncInit).
THEOREM MembersCatchUp == Spec => []CurrentMembersHaveAll
<1>1. IInv => CurrentMembersHaveAll
  <2> SUFFICES ASSUME IInv, Settled, NEW c \in current, NEW o \in doc \ overwritten
               PROVE  o \in copy[c]
    BY DEF CurrentMembersHaveAll
  <2>1. c \in Conn /\ Reaches(c, o)
    BY DEF IInv, TypeOK, CurrentAreReached
  <2> QED
    BY <2>1 DEF Settled, Reaches
<1> QED
  BY <1>1, Invariance, PTL

-----------------------------------------------------------------------------
(* Every step is one of SyncService on the one file, or no step of it *)

LEMMA SyncConstants ==
  /\ Sync!Idle = "idle"
  /\ Sync!AnyFile = TheFile
  /\ Sync!AnyOp = AnyEdit
  /\ Sync!NoDelta = NoMetadata
BY DEF Sync!Idle, Sync!AnyFile, Sync!AnyOp, Sync!NoDelta, NoMetadata, File,
       AnyEdit

\* A row is never the value that stands for none.
LEMMA RowIsThere ==
  ASSUME NEW d \in SUBSET Op
  PROVE  RowOf(d) # NoRow /\ RowOf(d).type = "typst" /\ RowOf(d).name = TheName
BY DeliveryAssumption DEF RowOf

\* Merging an edit into a row adds it to the content.
LEMMA RowsMerge ==
  ASSUME NEW d \in SUBSET Op, NEW o \in Op
  PROVE  Sync!MergeFile(RowOf(d), o) = RowOf(d \cup {o})
<1>1. RowOf(d).ops = d
  BY DEF RowOf
<1>2. [RowOf(d) EXCEPT !.ops = d \cup {o}] = RowOf(d \cup {o})
  BY DEF RowOf
<1> QED
  BY <1>1, <1>2 DEF Sync!MergeFile

\* Nothing of what SyncService knows changes.
LEMMA NoSyncStep ==
  ASSUME UNCHANGED <<doc, saved>>,
         \A d \in Conn :
           \/ pc'[d] = pc[d] /\ UNCHANGED <<snap[d], edit[d], listing[d]>>
           \/ pc[d] \in {"out", "idle", "broadcasting"}
              /\ pc'[d] \in {"out", "idle", "broadcasting"}
  PROVE  UNCHANGED Sync!vars
<1>1. SyncPc' = SyncPc /\ SyncSnap' = SyncSnap
  BY DEF SyncPc, SyncSnap
<1>2. SyncEdit' = SyncEdit
  BY DEF SyncEdit
<1>3. SyncMeta' = SyncMeta /\ SyncListing' = SyncListing
  BY DEF SyncMeta, SyncListing
<1> QED
  BY <1>1, <1>2, <1>3 DEF Sync!vars, Sync!local, Sync!history

\* A handler that has made its statements, or failed to, is idle to it.
LEMMA FinishIsFinish ==
  ASSUME NEW c \in Conn,
         pc'[c] \in {"idle", "broadcasting"},
         \A d \in Conn \ {c} : pc'[d] = pc[d] /\ UNCHANGED <<snap[d], edit[d], listing[d]>>
  PROVE  Sync!Finish(c)
<1>1. SyncPc' = [SyncPc EXCEPT ![c] = "idle"]
  BY DEF SyncPc
<1>2. SyncSnap' = [SyncSnap EXCEPT ![c] = NoRow]
  BY DEF SyncSnap
<1>3. SyncEdit' = [SyncEdit EXCEPT ![c] = AnyEdit]
  BY DEF SyncEdit
<1>4. SyncMeta' = [SyncMeta EXCEPT ![c] = NoMetadata]
  BY DEF SyncMeta
<1>5. SyncListing' = [SyncListing EXCEPT ![c] = [f \in File |-> NoRow]]
  BY DEF SyncListing, NoRows
<1>6. /\ [d \in Conn |-> TheFile] = [[d \in Conn |-> TheFile] EXCEPT ![c] = TheFile]
      /\ [d \in Conn |-> NoMetadata] = [[d \in Conn |-> NoMetadata] EXCEPT ![c] = NoMetadata]
      /\ [d \in Conn |-> {}] = [[d \in Conn |-> {}] EXCEPT ![c] = {}]
  OBVIOUS
<1> QED
  BY <1>1, <1>2, <1>3, <1>4, <1>5, <1>6, SyncConstants DEF Sync!Finish

LEMMA LoadIsLoad ==
  ASSUME TypeOK, NEW c \in Conn, NEW o \in Op, LoadFile(c, o)
  PROVE  Sync!LoadFile(c, TheFile, o)
<1> USE DEF TypeOK
<1>1. /\ pc[c] = "idle" /\ pc' = [pc EXCEPT ![c] = "editing"]
      /\ edit' = [edit EXCEPT ![c] = o] /\ snap' = [snap EXCEPT ![c] = doc]
      /\ UNCHANGED <<doc, saved, listing>>
  BY DEF LoadFile, history
<1>2. SyncPc[c] = "idle" /\ SyncPc' = [SyncPc EXCEPT ![c] = "editing"]
  BY <1>1 DEF SyncPc
<1>3. SyncSnap' = [SyncSnap EXCEPT ![c] = RowOf(doc)]
  BY <1>1 DEF SyncSnap
<1>4. SyncEdit' = [SyncEdit EXCEPT ![c] = o]
  BY <1>1 DEF SyncEdit
<1>5. SyncMeta' = SyncMeta /\ SyncListing' = SyncListing
  BY <1>1 DEF SyncMeta, SyncListing
<1>6. [d \in Conn |-> TheFile] = [[d \in Conn |-> TheFile] EXCEPT ![c] = TheFile]
  OBVIOUS
<1>7. /\ <<c, TheFile>> \in Conn \X File
      /\ [f \in File |-> RowOf(doc)][TheFile] = RowOf(doc)
      /\ RowOf(doc) # NoRow /\ RowOf(doc).type = "typst"
  BY RowIsThere DEF File
<1> QED
  BY <1>1, <1>2, <1>3, <1>4, <1>5, <1>6, <1>7, SyncConstants
  DEF Sync!LoadFile, Sync!history

LEMMA SaveIsSave ==
  ASSUME TypeOK, HandlersSound, NEW c \in Conn, SaveFile(c)
  PROVE  Sync!SaveFile(c)
<1> USE DEF TypeOK
<1>1. /\ pc[c] = "editing" /\ pc' = [pc EXCEPT ![c] = "broadcasting"]
      /\ edit[c] \in Op
      /\ doc' = snap[c] \cup {edit[c]} /\ saved' = saved \cup {edit[c]}
      /\ snap' = [snap EXCEPT ![c] = {}]
      /\ UNCHANGED <<edit, listing>>
  BY DEF SaveFile, Merged, HandlersSound
<1>2. Sync!Finish(c)
  BY <1>1, FinishIsFinish
<1>3. SyncPc[c] = "editing" /\ SyncSnap[c] = RowOf(snap[c]) /\ SyncEdit[c] = edit[c]
  BY <1>1 DEF SyncPc, SyncSnap, SyncEdit
<1>4. Sync!MergeFile(RowOf(snap[c]), edit[c]) = RowOf(doc')
  BY <1>1, RowsMerge
<1>5. [f \in File |-> RowOf(doc')] =
        [[f \in File |-> RowOf(doc)] EXCEPT ![TheFile] = RowOf(doc')]
  BY DEF File
<1>6. [f \in File |-> saved'] =
        [[f \in File |-> saved] EXCEPT ![TheFile] =
            [f \in File |-> saved][TheFile] \cup {edit[c]}]
  BY <1>1 DEF File
<1>7. [d \in Conn |-> TheFile][c] = TheFile
  OBVIOUS
<1> QED
  BY <1>2, <1>3, <1>4, <1>5, <1>6, <1>7 DEF Sync!SaveFile

LEMMA InitIsInit ==
  ASSUME TypeOK, NEW c \in Conn, SyncInit(c)
  PROVE  Sync!SyncInit(c)
<1> USE DEF TypeOK
<1>1. /\ pc[c] = "idle" /\ pc' = [pc EXCEPT ![c] = "merging"]
      /\ UNCHANGED <<doc, edit, snap, listing, saved>>
  BY DEF SyncInit
<1>2. SyncPc[c] = "idle" /\ SyncPc' = [SyncPc EXCEPT ![c] = "merging"]
  BY <1>1 DEF SyncPc
<1>3. SyncMeta' = [SyncMeta EXCEPT ![c] = Entries]
  BY <1>1 DEF SyncMeta
<1>4. SyncSnap' = SyncSnap /\ SyncEdit' = SyncEdit /\ SyncListing' = SyncListing
  BY <1>1 DEF SyncSnap, SyncEdit, SyncListing
<1>5. Sync!SyncMetadata(NoMetadata, Sync!EntriesOf([f \in File |-> RowOf(doc)])) = Entries
  BY RowIsThere DEF Sync!SyncMetadata, Sync!EntriesOf, NoMetadata, Entries
<1>6. [d \in Conn |-> NoMetadata] = [[d \in Conn |-> NoMetadata] EXCEPT ![c] = NoMetadata]
  OBVIOUS
<1> QED
  BY <1>1, <1>2, <1>3, <1>4, <1>5, <1>6, SyncConstants
  DEF Sync!SyncInit, Sync!StartMerge, Sync!history

LEMMA ListIsList ==
  ASSUME TypeOK, NEW c \in Conn, ListFiles(c)
  PROVE  Sync!ListFiles(c)
<1> USE DEF TypeOK
<1>1. /\ pc[c] = "merging" /\ pc' = [pc EXCEPT ![c] = "mutating"]
      /\ listing' = [listing EXCEPT ![c] = doc]
      /\ UNCHANGED <<doc, edit, snap, saved>>
  BY DEF ListFiles
<1>2. SyncPc[c] = "merging" /\ SyncPc' = [SyncPc EXCEPT ![c] = "mutating"]
  BY <1>1 DEF SyncPc
<1>3. SyncListing' = [SyncListing EXCEPT ![c] = [f \in File |-> RowOf(doc)]]
  BY <1>1 DEF SyncListing
<1>4. SyncSnap' = SyncSnap /\ SyncEdit' = SyncEdit /\ SyncMeta' = SyncMeta
  BY <1>1 DEF SyncSnap, SyncEdit, SyncMeta
<1>5. SyncMeta[c] = Entries
  BY <1>1 DEF SyncMeta
<1>6. {f \in File : Sync!Mutates(f, Entries, [g \in File |-> RowOf(doc)])} = {}
  BY RowIsThere DEF Sync!Mutates, Entries
<1>7. [d \in Conn |-> {}] = [[d \in Conn |-> {}] EXCEPT ![c] = {}]
  OBVIOUS
<1> QED
  BY <1>1, <1>2, <1>3, <1>4, <1>5, <1>6, <1>7 DEF Sync!ListFiles, Sync!history

\* What the handlers do to the database is what SyncService does when one file
\* is edited and synchronized: delivery adds messages and no statement
\* (sync/service.go ApplyFileChanges, SyncInit).
LEMMA SyncStep ==
  ASSUME TypeOK, HandlersSound, [Next]_vars
  PROVE  [Sync!Next]_(Sync!vars)
<1> USE DEF TypeOK
<1>1. ASSUME NEW c \in Conn, Join(c) \/ Leave(c)
      PROVE  UNCHANGED Sync!vars
  BY <1>1, NoSyncStep DEF Join, Leave
<1>2. ASSUME NEW c \in Conn, NEW o \in Op, LoadFile(c, o)
      PROVE  Sync!Next
  <2>1. TheFile \in File /\ Sync!LoadFile(c, TheFile, o)
    BY <1>2, LoadIsLoad DEF File
  <2>2. Sync!Step(c)
    BY <2>1 DEF Sync!Step
  <2> QED
    BY <2>2 DEF Sync!Next
<1>3. ASSUME NEW c \in Conn, SaveFile(c)
      PROVE  Sync!Next
  <2>1. Sync!Step(c)
    BY <1>3, SaveIsSave DEF Sync!Step
  <2> QED
    BY <2>1 DEF Sync!Next
<1>4. ASSUME NEW c \in Conn, BroadcastExcept(c)
      PROVE  UNCHANGED Sync!vars
  BY <1>4, NoSyncStep DEF BroadcastExcept, Finish
<1>5. ASSUME NEW c \in Conn, SyncInit(c)
      PROVE  Sync!Next
  <2>1. Sync!Step(c)
    BY <1>5, InitIsInit DEF Sync!Step
  <2> QED
    BY <2>1 DEF Sync!Next
<1>6. ASSUME NEW c \in Conn, ListFiles(c)
      PROVE  Sync!Next
  <2>1. Sync!Step(c)
    BY <1>6, ListIsList DEF Sync!Step
  <2> QED
    BY <2>1 DEF Sync!Next
<1>7. ASSUME NEW c \in Conn, MutationsDone(c)
      PROVE  Sync!Next
  <2>1. pc[c] = "mutating" /\ Finish(c) /\ UNCHANGED <<doc, saved>>
    BY <1>7 DEF MutationsDone
  <2>2. Sync!Finish(c)
    BY <2>1, FinishIsFinish DEF Finish
  <2>3. SyncPc[c] = "mutating" /\ [d \in Conn |-> {}][c] = {}
    BY <2>1 DEF SyncPc
  <2>4. Sync!MutationsDone(c)
    BY <2>1, <2>2, <2>3 DEF Sync!MutationsDone, Sync!history
  <2>5. Sync!Step(c)
    BY <2>4 DEF Sync!Step
  <2> QED
    BY <2>5 DEF Sync!Next
<1>8. ASSUME NEW c \in Conn, Fail(c)
      PROVE  Sync!Next
  <2>1. /\ pc[c] \in {"editing", "merging", "mutating"}
        /\ Finish(c) /\ UNCHANGED <<doc, saved>>
    BY <1>8 DEF Fail
  <2>2. Sync!Finish(c)
    BY <2>1, FinishIsFinish DEF Finish
  <2>3. SyncPc[c] # "idle"
    BY <2>1 DEF SyncPc
  <2>4. Sync!Fail(c)
    BY <2>1, <2>2, <2>3, SyncConstants DEF Sync!Fail, Sync!history
  <2>5. Sync!Step(c)
    BY <2>4 DEF Sync!Step
  <2> QED
    BY <2>5 DEF Sync!Next
<1>9. ASSUME NEW c \in Conn, Deliver(c) \/ WriteFails(c)
      PROVE  UNCHANGED Sync!vars
  BY <1>9, NoSyncStep DEF Deliver, WriteFails, handlers, history
<1>10. CASE UNCHANGED vars
  BY <1>10, NoSyncStep DEF vars, handlers, history
<1> QED
  BY <1>1, <1>2, <1>3, <1>4, <1>5, <1>6, <1>7, <1>8, <1>9, <1>10
  DEF Next, StoreThenBroadcast

\* UpdateDelivery implements SyncService: whatever is joined, dropped or lost,
\* the row changes only as the statements of crdt_update and sync_init say.
THEOREM Implementation == Spec => ImplementsSyncService
<1>1. Init => Sync!Init
  <2> SUFFICES ASSUME Init
               PROVE  Sync!Init
    OBVIOUS
  <2>1. /\ doc = {} /\ saved = {}
        /\ \A c \in Conn : pc[c] = "out"
    BY DEF Init
  <2>2. /\ SyncPc = [c \in Conn |-> "idle"]
        /\ SyncSnap = [c \in Conn |-> NoRow]
        /\ SyncEdit = [c \in Conn |-> AnyEdit]
    BY <2>1 DEF SyncPc, SyncSnap, SyncEdit
  <2>3. /\ SyncMeta = [c \in Conn |-> NoMetadata]
        /\ SyncListing = [c \in Conn |-> [f \in File |-> NoRow]]
    BY <2>1 DEF SyncMeta, SyncListing, NoRows
  <2>4. [f \in File |-> RowOf(doc)] =
          [f \in File |-> [name |-> TheName, type |-> "typst", ops |-> {}]]
    BY <2>1 DEF RowOf
  <2>5. [f \in File |-> saved] = [f \in File |-> {}]
    BY <2>1
  <2> QED
    BY <2>2, <2>3, <2>4, <2>5, SyncConstants DEF Sync!Init
<1>2. IInv /\ [Next]_vars => [Sync!Next]_(Sync!vars)
  BY SyncStep DEF IInv
<1> QED
  BY <1>1, <1>2, Invariance, PTL DEF Spec, ImplementsSyncService, Sync!Spec
=============================================================================
