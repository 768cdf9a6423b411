--------------------------- MODULE UpdateDelivery ---------------------------
(***************************************************************************)
(* How the edits of one Typst file reach the members of its project's      *)
(* room: crdt_update and sync_init composed of the statements SyncService  *)
(* makes and the messages room.go and client.go deliver.                   *)
(*                                                                         *)
(* A connection's handler treats one message at a time.  An update is      *)
(* stored, by two statements that nothing holds together, and then sent to *)
(* the other members; a client that joins asks for what it misses.  A full *)
(* buffer drops what is sent.  Clients keep their copy of the document     *)
(* when they leave, and may come back.                                     *)
(*                                                                         *)
(* An edit is a member of Op and a document the set of its edits, as in    *)
(* SyncPlan.  A broadcast is one step here: RoomChannel has its parts, and *)
(* the order in which edits arrive does not matter to a document.          *)
(***************************************************************************)
EXTENDS Naturals, Sequences

CONSTANTS Conn,            \* the clients, and the connections they use
          Op,              \* the edits
          SendBufferSize,
          TheFile, TheName, NoRow, NoEntry, NoVector, None

ASSUME DeliveryAssumption ==
  /\ SendBufferSize \in Nat \ {0}
  /\ None \notin Conn \cup Op
  /\ NoRow \notin [name : {TheName}, type : {"typst"}, ops : SUBSET Op]

VARIABLES
  doc,          \* the content in the file's row
  clients,      \* Room.clients
  sendChan,     \* Client.sendChan: what is queued for each connection
  cut,          \* the connections whose Client.ctx is cancelled
  pc,           \* where the handler of each connection is
  edit,         \* crdt_update: the edit,
  snap,         \*   and the content it was loaded with
  vector,       \* sync_init: what the client has; {} stands for no vector
  listing,      \*   and the content that was listed
  copy,         \* each client's document
  maker,        \* the client that made each edit
  saved,        \* history: the edits that were stored at some time
  overwritten,  \* history: those that another save then removed
  current       \* history: the members that asked for what they miss since
                \*   they joined, and for which nothing was dropped since

handlers == <<pc, edit, snap, vector, listing>>
channels == <<clients, sendChan, cut>>
history == <<saved, overwritten, current>>
vars == <<doc, channels, handlers, copy, maker, history>>

PC == {"out", "idle", "editing", "broadcasting", "merging", "mutating"}

Update(o) == [type |-> "crdt_update", op |-> o]
Download == [type |-> "download"]
Changes(d) == [type |-> "apply_changes", ops |-> d]
Message ==
  {Download} \cup {Update(o) : o \in Op} \cup {Changes(d) : d \in SUBSET Op}

Init ==
  /\ doc = {}
  /\ clients = {}
  /\ sendChan = [c \in Conn |-> <<>>]
  /\ cut = {}
  /\ pc = [c \in Conn |-> "out"]
  /\ edit = [c \in Conn |-> None]
  /\ snap = [c \in Conn |-> {}]
  /\ vector = [c \in Conn |-> {}]
  /\ listing = [c \in Conn |-> {}]
  /\ copy = [c \in Conn |-> {}]
  /\ maker = [o \in Op |-> None]
  /\ saved = {}
  /\ overwritten = {}
  /\ current = {}

-----------------------------------------------------------------------------
(* Sending *)

Full(c) == Len(sendChan[c]) = SendBufferSize

\* The messages of a set of members queued, except for those with no room.
Queue(set, m, full) ==
  /\ sendChan' = [c \in Conn |-> IF c \in set \ full THEN Append(sendChan[c], m)
                                                     ELSE sendChan[c]]
  /\ current' = current \ full

\* Mutant: the channel has no capacity.
SendUnbounded(set, m) == \E full \in SUBSET set : Queue(set, m, full)

\* Client.Send to each of a set.  Presences, metadata, pongs and errors take
\* room in the buffers too, so that any may be full, and a cancelled one takes
\* nothing; who gets nothing is not current any more.
Send(set, m) ==
  \E full \in SUBSET set :
    /\ \A c \in set : Full(c) \/ c \in cut => c \in full
    /\ Queue(set, m, full)

\* The handler of c has done with its message.
Finish(c) ==
  /\ pc' = [pc EXCEPT ![c] = "idle"]
  /\ edit' = [edit EXCEPT ![c] = None]
  /\ snap' = [snap EXCEPT ![c] = {}]
  /\ vector' = [vector EXCEPT ![c] = {}]
  /\ listing' = [listing EXCEPT ![c] = {}]

-----------------------------------------------------------------------------
(* Joining and leaving *)

Join(c) ==
  /\ pc[c] = "out"
  /\ clients' = clients \cup {c}
  /\ pc' = [pc EXCEPT ![c] = "idle"]
  /\ UNCHANGED <<doc, sendChan, cut, edit, snap, vector, listing, copy, maker,
                 saved, overwritten, current>>

\* The handler has returned; what was queued is not written any more.
Leave(c) ==
  /\ pc[c] = "idle"
  /\ clients' = clients \ {c}
  /\ cut' = cut \ {c}
  /\ sendChan' = [sendChan EXCEPT ![c] = <<>>]
  /\ pc' = [pc EXCEPT ![c] = "out"]
  /\ current' = current \ {c}
  /\ UNCHANGED <<doc, edit, snap, vector, listing, copy, maker, saved, overwritten>>

-----------------------------------------------------------------------------
(* crdt_update *)

\* A client sends an edit it made, also once more: no answer tells it that an
\* update was stored.
LoadFile(c, o) ==
  /\ pc[c] = "idle"
  /\ c \notin cut
  /\ maker[o] \in {None, c}
  /\ maker' = [maker EXCEPT ![o] = c]
  /\ copy' = [copy EXCEPT ![c] = @ \cup {o}]
  /\ pc' = [pc EXCEPT ![c] = "editing"]
  /\ edit' = [edit EXCEPT ![c] = o]
  /\ snap' = [snap EXCEPT ![c] = doc]
  /\ UNCHANGED <<doc, channels, vector, listing, history>>

\* Mutant: the delta is stored instead of the merged state.
MergedDelta(c) == {edit[c]}

Merged(c) == snap[c] \cup {edit[c]}

SaveFile(c) ==
  /\ pc[c] = "editing"
  /\ doc' = Merged(c)
  /\ saved' = saved \cup {edit[c]}
  /\ overwritten' = overwritten \cup (doc \ doc')
  /\ pc' = [pc EXCEPT ![c] = "broadcasting"]
  /\ snap' = [snap EXCEPT ![c] = {}]
  /\ UNCHANGED <<channels, edit, vector, listing, copy, maker, current>>

BroadcastExcept(c) ==
  /\ pc[c] = "broadcasting"
  /\ Send(clients \ {c}, Update(edit[c]))
  /\ Finish(c)
  /\ UNCHANGED <<doc, clients, cut, copy, maker, saved, overwritten>>

\* Mutant: the members are told before the edit is stored.
BroadcastThenStore(c) ==
  \/ /\ pc[c] = "editing"
     /\ Send(clients \ {c}, Update(edit[c]))
     /\ pc' = [pc EXCEPT ![c] = "broadcasting"]
     /\ UNCHANGED <<doc, clients, cut, edit, snap, vector, listing, copy, maker,
                    saved, overwritten>>
  \/ /\ pc[c] = "broadcasting"
     /\ doc' = Merged(c)
     /\ saved' = saved \cup {edit[c]}
     /\ overwritten' = overwritten \cup (doc \ doc')
     /\ Finish(c)
     /\ UNCHANGED <<clients, cut, sendChan, copy, maker, current>>

\* handleCRDTUpdate stores the edit and then tells the others.
StoreThenBroadcast(c) == SaveFile(c) \/ BroadcastExcept(c)

-----------------------------------------------------------------------------
(* sync_init *)

SyncInit(c) ==
  /\ pc[c] = "idle"
  /\ c \notin cut
  /\ pc' = [pc EXCEPT ![c] = "merging"]
  /\ vector' = [vector EXCEPT ![c] = copy[c]]
  /\ UNCHANGED <<doc, channels, edit, snap, listing, copy, maker,
                 saved, overwritten, current>>

ListFiles(c) ==
  /\ pc[c] = "merging"
  /\ pc' = [pc EXCEPT ![c] = "mutating"]
  /\ listing' = [listing EXCEPT ![c] = doc]
  /\ current' = current \cup {c}
  /\ UNCHANGED <<doc, channels, edit, snap, vector, copy, maker,
                 saved, overwritten>>

\* A client without a vector is to download the file, the others get what they
\* miss.
Answer(c) ==
  IF vector[c] = {} THEN Download ELSE Changes(listing[c] \ vector[c])

MutationsDone(c) ==
  /\ pc[c] = "mutating"
  /\ Send({c}, Answer(c))
  /\ Finish(c)
  /\ UNCHANGED <<doc, clients, cut, copy, maker, saved, overwritten>>

-----------------------------------------------------------------------------
\* Mutant: an update that could not be stored is broadcast all the same.
FailAndBroadcast(c) ==
  /\ pc[c] \in {"editing", "merging", "mutating"}
  /\ IF pc[c] = "editing" THEN Send(clients \ {c}, Update(edit[c]))
                          ELSE UNCHANGED <<sendChan, current>>
  /\ Finish(c)
  /\ UNCHANGED <<doc, clients, cut, copy, maker, saved, overwritten>>

\* A statement fails; an error message is all the client gets.
Fail(c) ==
  /\ pc[c] \in {"editing", "merging", "mutating"}
  /\ current' = IF pc[c] = "mutating" THEN current \ {c} ELSE current
  /\ Finish(c)
  /\ UNCHANGED <<doc, channels, copy, maker, saved, overwritten>>

\* What a client has to add to its copy when it gets m and the row has d.
Content(m, d) ==
  CASE m.type = "crdt_update" -> {m.op}
    [] m.type = "apply_changes" -> m.ops
    [] m.type = "download" -> d

Deliver(c) ==
  /\ c \in clients \ cut
  /\ sendChan[c] # <<>>
  /\ copy' = [copy EXCEPT ![c] = @ \cup Content(Head(sendChan[c]), doc)]
  /\ sendChan' = [sendChan EXCEPT ![c] = Tail(@)]
  /\ UNCHANGED <<doc, clients, cut, handlers, maker, history>>

\* The pump could not write, which closes the client and loses what is queued:
\* nothing is read or sent any more, the handler finishes what it has begun.
WriteFails(c) ==
  /\ c \in clients \ cut
  /\ sendChan[c] # <<>>
  /\ cut' = cut \cup {c}
  /\ sendChan' = [sendChan EXCEPT ![c] = <<>>]
  /\ current' = current \ {c}
  /\ UNCHANGED <<doc, clients, handlers, copy, maker, saved, overwritten>>

-----------------------------------------------------------------------------
Next ==
  \E c \in Conn :
    \/ Join(c)
    \/ Leave(c)
    \/ \E o \in Op : LoadFile(c, o)
    \/ StoreThenBroadcast(c)
    \/ SyncInit(c)
    \/ ListFiles(c)
    \/ MutationsDone(c)
    \/ Fail(c)
    \/ Deliver(c)
    \/ WriteFails(c)

Spec == Init /\ [][Next]_vars

-----------------------------------------------------------------------------
(* The inductive invariants *)

\* What a handler knows, and what the client of its connection has.
HandlersSound ==
  \A c \in Conn :
    /\ c \in clients <=> pc[c] # "out"
    /\ pc[c] \in {"editing", "broadcasting"} =>
         edit[c] \in copy[c] /\ maker[edit[c]] = c
    /\ pc[c] = "broadcasting" => edit[c] \in saved
    /\ pc[c] = "editing" => snap[c] \subseteq doc \cup overwritten
    /\ pc[c] = "mutating" => vector[c] \subseteq copy[c]
    /\ pc[c] = "merging" => vector[c] \subseteq copy[c]

\* What was read or sent had been stored.
ReadWasSaved ==
  /\ doc \subseteq saved
  /\ \A c \in Conn :
       /\ snap[c] \subseteq saved
       /\ listing[c] \subseteq saved
       /\ \A i \in 1..Len(sendChan[c]) : Content(sendChan[c][i], doc) \subseteq saved

\* The client of c has edit o, or is about to be sent it.
Reaches(c, o) ==
  \/ o \in copy[c]
  \/ \E i \in 1..Len(sendChan[c]) : o \in Content(sendChan[c][i], doc)
  \/ \E q \in Conn \ {c} : pc[q] = "broadcasting" /\ edit[q] = o
  \/ pc[c] = "mutating" /\ o \in listing[c]

CurrentAreReached ==
  \A c \in current : \A o \in doc \ overwritten : Reaches(c, o)

-----------------------------------------------------------------------------
(* Properties *)

TypeOK ==
  /\ doc \in SUBSET Op
  /\ clients \in SUBSET Conn
  /\ cut \in SUBSET clients
  /\ \A c \in Conn : Len(sendChan[c]) <= SendBufferSize
  /\ sendChan \in [Conn -> Seq(Message)]
  /\ pc \in [Conn -> PC]
  /\ edit \in [Conn -> Op \cup {None}]
  /\ snap \in [Conn -> SUBSET Op]
  /\ vector \in [Conn -> SUBSET Op]
  /\ listing \in [Conn -> SUBSET Op]
  /\ copy \in [Conn -> SUBSET Op]
  /\ maker \in [Op -> Conn \cup {None}]
  /\ saved \in SUBSET Op
  /\ overwritten \in SUBSET Op
  /\ current \in SUBSET clients

\* Nothing is on its way any more.
Settled ==
  \A c \in Conn : pc[c] \in {"out", "idle"} /\ sendChan[c] = <<>>

\* A member that asked for what it missed and for which no message was dropped
\* has the whole document once nothing is on its way, however updates, joins
\* and sync_inits overlap (handler.go handleCRDTUpdate, which stores before it
\* broadcasts, and handleSyncInit).  Left out are edits that a save with a
\* stale snapshot ever removed: another one may bring them back unannounced.
CurrentMembersHaveAll ==
  Settled => \A c \in current : doc \ overwritten \subseteq copy[c]

\* A client shows only its own edits and such as were stored: nobody builds on
\* an update that the server has refused (handler.go:225, where the error ends
\* handleCRDTUpdate before the broadcast).
ShownWasSaved ==
  \A c \in Conn : \A o \in copy[c] : maker[o] = c \/ o \in saved

IInv ==
  /\ TypeOK
  /\ HandlersSound
  /\ ReadWasSaved
  /\ CurrentAreReached
  /\ ShownWasSaved

-----------------------------------------------------------------------------
(* The statements are those of SyncService on one file that is only edited *)

File == {TheFile}
RowOf(d) == [name |-> TheName, type |-> "typst", ops |-> d]
NoRows == [f \in File |-> NoRow]
NoMetadata == [f \in File |-> NoEntry]
Entries == [f \in File |-> [name |-> TheName, deleted |-> FALSE]]
AnyEdit == CHOOSE o \in Op : TRUE

\* A handler that broadcasts has made its statements.
SyncPc ==
  [c \in Conn |-> IF pc[c] \in {"out", "broadcasting"} THEN "idle" ELSE pc[c]]
SyncSnap == [c \in Conn |-> IF pc[c] = "editing" THEN RowOf(snap[c]) ELSE NoRow]
SyncEdit == [c \in Conn |-> IF pc[c] = "editing" THEN edit[c] ELSE AnyEdit]
SyncMeta ==
  [c \in Conn |-> IF pc[c] \in {"merging", "mutating"} THEN Entries ELSE NoMetadata]
SyncListing ==
  [c \in Conn |-> IF pc[c] = "mutating" THEN [f \in File |-> RowOf(listing[c])]
                                        ELSE NoRows]

Sync == INSTANCE SyncService WITH
  Name <- {TheName},
  TypstName <- {TheName},
  CanEdit <- Conn \X File,
  CanName <- {},
  CanUpload <- {},
  CanDelete <- {},
  CanSync <- Conn,
  row <- [f \in File |-> RowOf(doc)],
  pc <- SyncPc,
  file <- [c \in Conn |-> TheFile],
  snap <- SyncSnap,
  edit <- SyncEdit,
  delta <- [c \in Conn |-> NoMetadata],
  meta <- SyncMeta,
  listing <- SyncListing,
  todo <- [c \in Conn |-> {}],
  saved <- [f \in File |-> saved],
  name <- [f \in File |-> TheName],
  gone <- {}

\* What the handlers do to the database is what SyncService does when a file is
\* only edited: delivery adds messages, and no statement (sync/service.go
\* ApplyFileChanges, SyncInit).
ImplementsSyncService == Sync!Spec
=============================================================================
