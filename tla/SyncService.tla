---------------------------- MODULE SyncService ----------------------------
(***************************************************************************)
(* The synchronization service and the HTTP file endpoints over the files  *)
(* table of PostgreSQL (application/sync/service.go, application/file,     *)
(* http/file/handler.go, persistence/postgres/file_repository.go).         *)
(*                                                                         *)
(* Every connection or HTTP client runs one request at a time; a step is   *)
(* one statement of the repository.  Nothing locks a file or a project     *)
(* between two statements, no statement compares what it read, and Save    *)
(* writes the whole row.  Any statement may fail, which ends the request.  *)
(*                                                                         *)
(* CanEdit .. CanSync say which requests which client may send, so that    *)
(* the same specification is checked with and without concurrent writers.  *)
(***************************************************************************)
EXTENDS SyncPlan

CONSTANTS Conn,
          TypstName,   \* the names isTypstFile accepts
          CanEdit,     \* <<p, f>>: p sends crdt_update messages for f
          CanName,     \* <<p, f>>: p's metadata deltas may name f
          CanUpload,   \* <<p, f>>: p may POST the file f
          CanDelete,   \* <<p, f>>: p may DELETE the file f
          CanSync      \* the clients that send sync_init

ASSUME SyncAssumption ==
  /\ File # {} /\ Op # {}
  /\ NoRow \notin Row
  /\ NoEntry \notin Entry
  /\ TypstName \subseteq Name
  /\ CanEdit \cup CanName \cup CanUpload \cup CanDelete \subseteq Conn \X File
  /\ CanSync \subseteq Conn

VARIABLES
  row,      \* the files table
  pc,       \* where each client's request is
  file,     \* ApplyFileChanges: the file it edits,
  snap,     \*   the row it loaded
  edit,     \*   and the edit
  delta,    \* ApplyMetadataUpdate: the client's delta
  meta,     \* the merged metadata
  listing,  \* the rows ListFilesByProject returned
  todo,     \* the files applyFileMutations has still to mutate
  saved,    \* history: the edits of each file that were acknowledged
  name,     \* history: the name last given to each file on request
  gone      \* history: the files deleted on request, and not uploaded since

local == <<file, snap, edit, delta, meta, listing, todo>>
history == <<saved, name, gone>>
vars == <<row, pc, local, history>>

Idle == "idle"
PC == {Idle, "editing", "merging", "mutating"}

TypeOK ==
  /\ row \in Rows
  /\ pc \in [Conn -> PC]
  /\ file \in [Conn -> File]
  /\ snap \in [Conn -> Row \cup {NoRow}]
  /\ edit \in [Conn -> Op]
  /\ delta \in [Conn -> Metadata]
  /\ meta \in [Conn -> Metadata]
  /\ listing \in [Conn -> Rows]
  /\ todo \in [Conn -> SUBSET File]
  /\ saved \in [File -> SUBSET Op]
  /\ name \in [File -> Name]
  /\ gone \in SUBSET File

-----------------------------------------------------------------------------
\* The locals a request does not use keep fixed values, so that they do not
\* tell states apart.
AnyFile == CHOOSE f \in File : TRUE
AnyOp == CHOOSE o \in Op : TRUE

Init ==
  /\ \E n \in TypstName :
       /\ row = [f \in File |-> [name |-> n, type |-> "typst", ops |-> {}]]
       /\ name = [f \in File |-> n]
  /\ pc = [p \in Conn |-> Idle]
  /\ file = [p \in Conn |-> AnyFile]
  /\ snap = [p \in Conn |-> NoRow]
  /\ edit = [p \in Conn |-> AnyOp]
  /\ delta = [p \in Conn |-> NoDelta]
  /\ meta = [p \in Conn |-> NoDelta]
  /\ listing = [p \in Conn |-> [f \in File |-> NoRow]]
  /\ todo = [p \in Conn |-> {}]
  /\ saved = [f \in File |-> {}]
  /\ gone = {}

\* The request of p is over, whatever its outcome.
Finish(p) ==
  /\ pc' = [pc EXCEPT ![p] = Idle]
  /\ file' = [file EXCEPT ![p] = AnyFile]
  /\ snap' = [snap EXCEPT ![p] = NoRow]
  /\ edit' = [edit EXCEPT ![p] = AnyOp]
  /\ delta' = [delta EXCEPT ![p] = NoDelta]
  /\ meta' = [meta EXCEPT ![p] = NoDelta]
  /\ listing' = [listing EXCEPT ![p] = [f \in File |-> NoRow]]
  /\ todo' = [todo EXCEPT ![p] = {}]

\* A statement fails, or the document library rejects what the client sent.
Fail(p) ==
  /\ pc[p] # Idle
  /\ Finish(p)
  /\ UNCHANGED <<row, history>>

-----------------------------------------------------------------------------
(* crdt_update: ApplyFileChanges *)

\* GetByID finds Typst files only; without one the request ends at once.
LoadFile(p, f, o) ==
  /\ pc[p] = Idle
  /\ <<p, f>> \in CanEdit
  /\ row[f] # NoRow
  /\ row[f].type = "typst"
  /\ pc' = [pc EXCEPT ![p] = "editing"]
  /\ file' = [file EXCEPT ![p] = f]
  /\ snap' = [snap EXCEPT ![p] = row[f]]
  /\ edit' = [edit EXCEPT ![p] = o]
  /\ UNCHANGED <<row, delta, meta, listing, todo, history>>

\* Mutant: the delta is saved instead of the merged state.
KeepDeltaOnly(s, o) == [s EXCEPT !.ops = {o}]

\* MergeFile: the loaded state with the edit merged into it.
MergeFile(s, o) == [s EXCEPT !.ops = @ \cup {o}]

\* SaveTypstFile upserts the loaded file, name and all.
SaveFile(p) ==
  /\ pc[p] = "editing"
  /\ row' = [row EXCEPT ![file[p]] = MergeFile(snap[p], edit[p])]
  /\ saved' = [saved EXCEPT ![file[p]] = @ \cup {edit[p]}]
  /\ Finish(p)
  /\ UNCHANGED <<name, gone>>

-----------------------------------------------------------------------------
(* metadata_update and sync_init: ApplyMetadataUpdate, SyncInit *)

NamedBy(d) == {f \in File : d[f] # NoEntry}

StartMerge(p, d) ==
  /\ pc[p] = Idle
  /\ pc' = [pc EXCEPT ![p] = "merging"]
  /\ delta' = [delta EXCEPT ![p] = d]
  /\ meta' = [meta EXCEPT ![p] = SyncMetadata(d, EntriesOf(row))]
  /\ UNCHANGED <<row, file, snap, edit, listing, todo, history>>

\* FindEntriesByProjectID, and the delta merged over it.
MetadataUpdate(p, d) ==
  /\ NamedBy(d) # {}
  /\ \A f \in NamedBy(d) : <<p, f>> \in CanName
  /\ StartMerge(p, d)

SyncInit(p) ==
  /\ p \in CanSync
  /\ StartMerge(p, NoDelta)

\* ListFilesByProject.
ListFiles(p) ==
  /\ pc[p] = "merging"
  /\ pc' = [pc EXCEPT ![p] = "mutating"]
  /\ listing' = [listing EXCEPT ![p] = row]
  /\ todo' = [todo EXCEPT ![p] = {f \in File : Mutates(f, meta[p], row)}]
  /\ UNCHANGED <<row, file, snap, edit, delta, meta, history>>

\* What the client asked for is what its delta says; other files' entries
\* came from the database.
Asked(p, f) == delta[p][f] # NoEntry

\* Mutant: no return after DeleteFile, so the listed file is renamed and saved.
DeleteThenRename(p, f) ==
  /\ pc[p] = "mutating"
  /\ f \in todo[p]
  /\ meta[p][f].deleted
  /\ row[f] # NoRow
  /\ row' = [row EXCEPT ![f] = [listing[p][f] EXCEPT !.name = meta[p][f].name]]
  /\ todo' = [todo EXCEPT ![p] = @ \ {f}]
  /\ gone' = gone \cup {f}
  /\ saved' = [saved EXCEPT ![f] = {}]
  /\ UNCHANGED <<pc, file, snap, edit, delta, meta, listing, name>>

\* DeleteFile answers ErrFileNotFound when there is no row any more, and the
\* request ends there.
DeleteListed(p, f) ==
  /\ pc[p] = "mutating"
  /\ f \in todo[p]
  /\ meta[p][f].deleted
  /\ row[f] # NoRow
  /\ row' = [row EXCEPT ![f] = NoRow]
  /\ todo' = [todo EXCEPT ![p] = @ \ {f}]
  /\ gone' = gone \cup {f}
  /\ saved' = [saved EXCEPT ![f] = {}]
  /\ UNCHANGED <<pc, file, snap, edit, delta, meta, listing, name>>

\* Mutant: a deletion that finds no row waits for one.
DeleteWaits(p, f) ==
  /\ pc[p] = "mutating"
  /\ f \in todo[p]
  /\ meta[p][f].deleted
  /\ row[f] = NoRow
  /\ UNCHANGED vars

DeleteMissing(p, f) ==
  /\ pc[p] = "mutating"
  /\ f \in todo[p]
  /\ meta[p][f].deleted
  /\ row[f] = NoRow
  /\ Finish(p)
  /\ UNCHANGED <<row, history>>

\* Mutant: the listed file is renamed and not saved.
RenameUnsaved(p, f) ==
  /\ pc[p] = "mutating"
  /\ f \in todo[p]
  /\ ~meta[p][f].deleted
  /\ todo' = [todo EXCEPT ![p] = @ \ {f}]
  /\ name' = IF Asked(p, f) THEN [name EXCEPT ![f] = meta[p][f].name] ELSE name
  /\ UNCHANGED <<row, pc, file, snap, edit, delta, meta, listing, saved, gone>>

\* Save upserts the listed file under its new name.
RenameListed(p, f) ==
  /\ pc[p] = "mutating"
  /\ f \in todo[p]
  /\ ~meta[p][f].deleted
  /\ row' = [row EXCEPT ![f] = Mutated(f, meta[p], listing[p])]
  /\ todo' = [todo EXCEPT ![p] = @ \ {f}]
  /\ name' = IF Asked(p, f) THEN [name EXCEPT ![f] = meta[p][f].name] ELSE name
  /\ UNCHANGED <<pc, file, snap, edit, delta, meta, listing, saved, gone>>

\* The mutations are done; SyncInit computes its answer from what it read.
MutationsDone(p) ==
  /\ pc[p] = "mutating"
  /\ todo[p] = {}
  /\ Finish(p)
  /\ UNCHANGED <<row, history>>

-----------------------------------------------------------------------------
(* POST /projects/{id}/files and DELETE /projects/{id}/files/{id} *)

\* Mutant: the name is bound to the type column too.
NameForType(n) == n

TypeFor(n) == IF n \in TypstName THEN "typst" ELSE "binary"

Upload(p, f, n, s) ==
  /\ pc[p] = Idle
  /\ <<p, f>> \in CanUpload
  /\ row' = [row EXCEPT ![f] = [name |-> n, type |-> TypeFor(n), ops |-> s]]
  /\ saved' = [saved EXCEPT ![f] = s]
  /\ name' = [name EXCEPT ![f] = n]
  /\ gone' = gone \ {f}
  /\ UNCHANGED <<pc, local>>

\* The access check's FindByID changes nothing; a row that is gone by then
\* makes DeleteFile fail.
Delete(p, f) ==
  /\ pc[p] = Idle
  /\ <<p, f>> \in CanDelete
  /\ row[f] # NoRow
  /\ row' = [row EXCEPT ![f] = NoRow]
  /\ saved' = [saved EXCEPT ![f] = {}]
  /\ gone' = gone \cup {f}
  /\ UNCHANGED <<pc, local, name>>

-----------------------------------------------------------------------------
Step(p) ==
  \/ \E f \in File :
       \/ \E o \in Op : LoadFile(p, f, o)
       \/ DeleteListed(p, f)
       \/ DeleteMissing(p, f)
       \/ RenameListed(p, f)
       \/ \E n \in Name, s \in SUBSET Op : Upload(p, f, n, s)
       \/ Delete(p, f)
  \/ \E d \in Metadata : MetadataUpdate(p, d)
  \/ SyncInit(p)
  \/ SaveFile(p)
  \/ ListFiles(p)
  \/ MutationsDone(p)
  \/ Fail(p)

Next == \E p \in Conn : Step(p)

Spec == Init /\ [][Next]_vars

\* A request that was started is carried on: the goroutine runs and the
\* database answers every statement, with a result or an error.
Continue(p) ==
  \/ SaveFile(p)
  \/ ListFiles(p)
  \/ \E f \in File :
       DeleteListed(p, f) \/ DeleteMissing(p, f) \/ RenameListed(p, f)
  \/ MutationsDone(p)

FairSpec == Spec /\ \A p \in Conn : WF_vars(Continue(p))

-----------------------------------------------------------------------------
(* What a request has read, whoever else writes *)

LocalsOK ==
  \A p \in Conn :
    /\ pc[p] = "editing" => snap[p] # NoRow
    /\ pc[p] # "mutating" => todo[p] = {}
    /\ \A f \in todo[p] : Mutates(f, meta[p], listing[p])

-----------------------------------------------------------------------------
(* The files with one writer, and what is invariant about them *)

Writes == CanEdit \cup CanName \cup CanUpload \cup CanDelete

\* The clients whose requests give files names, or save the names they read.
Namers ==
  CanSync \cup {p \in Conn : \E f \in File : <<p, f>> \in CanName \cup CanUpload}

\* One client at most does all the naming.
OneNamer == \A p, q \in Namers : p = q

\* The files that one client writes, whatever is done to the others.
Owned ==
  {f \in File : \A p, q \in Conn :
                  <<p, f>> \in Writes /\ <<q, f>> \in Writes => p = q}

EditIsCurrent(p) ==
  pc[p] = "editing" /\ file[p] \in Owned =>
    <<p, file[p]>> \in CanEdit /\ snap[p] = row[file[p]]

DeltaIsOwned(p) ==
  pc[p] \in {"merging", "mutating"} =>
    /\ p \in Namers
    /\ \A f \in File : Asked(p, f) =>
         <<p, f>> \in CanName /\ meta[p][f] = delta[p][f]

\* The entries that came from the database still say what it says.
EntriesAreCurrent(p) ==
  pc[p] = "merging" =>
    \A f \in Owned :
      ~Asked(p, f) /\ meta[p][f] # NoEntry /\ row[f] # NoRow =>
        ~meta[p][f].deleted /\ meta[p][f].name = row[f].name

TodoIsCurrent(p) ==
  \A f \in todo[p] \cap Owned :
    /\ Asked(p, f)
    /\ row[f] # NoRow
    /\ listing[p][f] = row[f]

ReadsAreCurrent ==
  \A p \in Conn : /\ EditIsCurrent(p)
                  /\ DeltaIsOwned(p)
                  /\ EntriesAreCurrent(p)
                  /\ TodoIsCurrent(p)

-----------------------------------------------------------------------------
(* Properties *)

\* An edit whose crdt_update was persisted without an error, and broadcast,
\* stays in the file until the file is deleted or uploaded anew: the server
\* is a "надежное хранилище" that merges the edits of several users without
\* conflict (docs/tld_spec.md:13,15).
AcknowledgedEditsSurvive ==
  \A f \in File : row[f] # NoRow => saved[f] \subseteq row[f].ops

\* The same of the files with one writer, while other clients do what they
\* like to other files and any statement fails (sync/service.go
\* ApplyFileChanges, whose snapshot nobody else makes stale).
OwnedEditsSurvive ==
  \A f \in Owned : row[f] # NoRow => saved[f] \subseteq row[f].ops

\* A file with one writer carries the name it was last given by a client's
\* delta or upload, although sync_init and every delta save names that were
\* read before (docs/sync_spec.md:13).
NameAsAsked == \A f \in Owned : row[f] # NoRow => row[f].name = name[f]

\* A file with one writer that was deleted on request has no row until it is
\* uploaded again (sync/service.go applyFileMutations, docs/sync_spec.md:13).
DeletedStaysDeleted == \A f \in gone \cap Owned : row[f] = NoRow

IInv ==
  /\ TypeOK
  /\ LocalsOK
  /\ ReadsAreCurrent
  /\ OwnedEditsSurvive
  /\ NameAsAsked
  /\ DeletedStaysDeleted

\* Every request ends, whatever the others do to the rows it read: a mutation
\* whose row is gone ends it too (sync/service.go applyFileMutations).
RequestEnds == \A p \in Conn : pc[p] # Idle ~> pc[p] = Idle

Store == INSTANCE FileStore WITH
  File <- Owned,
  row <- [f \in Owned |-> row[f]],
  saved <- [f \in Owned |-> saved[f]],
  name <- [f \in Owned |-> name[f]],
  gone <- gone \cap Owned

\* To a file with one writer every step of a request is one operation of
\* FileStore, or nothing (sync/service.go, http/file/handler.go).
ImplementsFileStore == Store!Spec
=============================================================================
