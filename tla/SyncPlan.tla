------------------------------ MODULE SyncPlan ------------------------------
(***************************************************************************)
(* The decisions of the synchronization service, without the steps that    *)
(* carry them out (application/sync/service.go, crdt/yjs_merger.go): how a *)
(* metadata delta is merged with what the database lists, which files the  *)
(* merged metadata changes, and what a sync_init tells the client to do.   *)
(*                                                                         *)
(* A row of the files table is NoRow or a record: its name, its type and   *)
(* its content.  The content of a Typst file, a Yjs state, is the set of   *)
(* edits merged into it: merging is union, whatever order edits come in.   *)
(***************************************************************************)
CONSTANTS File,        \* file ids
          Name,
          Op,          \* edits
          NoRow,       \* the file has no row
          NoEntry,     \* the metadata map has no entry for the file
          NoVector     \* content_vectors has no, or an empty, vector

Type == {"typst", "binary"}

Row == [name : Name, type : Type, ops : SUBSET Op]

Entry == [name : Name, deleted : BOOLEAN]

Rows == [File -> Row \cup {NoRow}]

Metadata == [File -> Entry \cup {NoEntry}]

\* The edits the client's state vector says it has.
Vectors == [File -> SUBSET Op \cup {NoVector}]

NoDelta == [f \in File |-> NoEntry]

\* FindEntriesByProjectID: every row is an entry that is not deleted.
EntriesOf(rows) ==
  [f \in File |-> IF rows[f] = NoRow THEN NoEntry
                  ELSE [name |-> rows[f].name, deleted |-> FALSE]]

\* Mutant: the server's entry wins over the client's.
ServerWins(delta, server) ==
  [f \in File |-> IF server[f] # NoEntry THEN server[f] ELSE delta[f]]

\* The client's delta is applied to an empty document, and the server's
\* entries are set where it has none.
SyncMetadata(delta, server) ==
  [f \in File |-> IF delta[f] # NoEntry THEN delta[f] ELSE server[f]]

\* Mutant: a deleted entry is deleted without being looked up.
MutatesUnlisted(f, meta, listing) ==
  /\ meta[f] # NoEntry
  /\ \/ meta[f].deleted
     \/ listing[f] # NoRow /\ meta[f].name # listing[f].name

\* Mutant: the names are compared the wrong way round.
MutatesSameName(f, meta, listing) ==
  /\ meta[f] # NoEntry
  /\ listing[f] # NoRow
  /\ meta[f].deleted \/ meta[f].name = listing[f].name

\* The entry of a listed file deletes or renames it.
Mutates(f, meta, listing) ==
  /\ meta[f] # NoEntry
  /\ listing[f] # NoRow
  /\ meta[f].deleted \/ meta[f].name # listing[f].name

\* Mutant: a rename saves a new file instead of the listed one.
MutatedFresh(f, meta, listing) ==
  IF meta[f].deleted THEN NoRow
  ELSE [name |-> meta[f].name, type |-> listing[f].type, ops |-> {}]

\* The row DeleteFile or Save leaves: a rename saves the listed file.
Mutated(f, meta, listing) ==
  IF meta[f].deleted THEN NoRow
  ELSE [listing[f] EXCEPT !.name = meta[f].name]

\* What SyncInit answers for a file.  ComputeDelta's encoding is taken to be
\* empty when the client misses nothing.
UploadInstruction(f, meta, listing) ==
  listing[f] = NoRow /\ meta[f] # NoEntry /\ ~meta[f].deleted

ServerInstruction(f, meta, listing) ==
  listing[f] # NoRow /\ ~(meta[f] # NoEntry /\ meta[f].deleted)

\* Mutant: an unknown vector is taken for an up-to-date one.
InstructionNoDownload(f, meta, listing, vectors) ==
  CASE UploadInstruction(f, meta, listing) -> "upload"
    [] /\ ServerInstruction(f, meta, listing)
       /\ vectors[f] # NoVector
       /\ listing[f].type = "typst"
       /\ ~(listing[f].ops \subseteq vectors[f]) -> "apply_changes"
    [] OTHER -> "none"

Instruction(f, meta, listing, vectors) ==
  CASE UploadInstruction(f, meta, listing) -> "upload"
    [] ServerInstruction(f, meta, listing) /\ vectors[f] = NoVector -> "download"
    [] /\ ServerInstruction(f, meta, listing)
       /\ vectors[f] # NoVector
       /\ listing[f].type = "typst"
       /\ ~(listing[f].ops \subseteq vectors[f]) -> "apply_changes"
    [] OTHER -> "none"
=============================================================================
