----------------------------- MODULE MCSyncPlan -----------------------------
(***************************************************************************)
(* SyncPlan evaluated on every table, delta, set of client vectors and     *)
(* point of failure of small sets.  A behavior picks them and stays.       *)
(***************************************************************************)
EXTENDS SyncPlan, FiniteSets

VARIABLES rows,     \* the files table, unchanged while the request runs
          delta,    \* the metadata delta of a metadata_update
          vectors,  \* the content vectors of a sync_init
          before    \* the files mutated before a failure cut the request off

vars == <<rows, delta, vectors, before>>

Init ==
  /\ rows \in Rows
  /\ delta \in Metadata
  /\ vectors \in Vectors
  /\ before \in SUBSET File

Spec == Init /\ [][UNCHANGED vars]_vars

-----------------------------------------------------------------------------
Merged(t) == SyncMetadata(delta, EntriesOf(t))

\* DeleteFile of a file that has no row fails, and ends the request.
Aborts(t) ==
  \E f \in File : /\ Mutates(f, Merged(t), t)
                  /\ Merged(t)[f].deleted
                  /\ t[f] = NoRow

\* The table after the mutations of the files of fs that t calls for.
Apply(t, fs) ==
  [f \in File |-> IF f \in fs /\ ~Aborts(t) /\ Mutates(f, Merged(t), t)
                  THEN Mutated(f, Merged(t), t) ELSE t[f]]

\* What a metadata update is for, file by file: a listed file the delta
\* names takes the delta's name or goes away, nothing else changes, and no
\* content is touched (sync/service.go ApplyMetadataUpdate).
Intended(f) ==
  CASE rows[f] = NoRow \/ delta[f] = NoEntry -> rows[f]
    [] rows[f] # NoRow /\ delta[f] # NoEntry ->
         IF delta[f].deleted THEN NoRow
         ELSE [rows[f] EXCEPT !.name = delta[f].name]

\* A metadata update that runs undisturbed does what it is meant to.
UpdateDoesIntended == \A f \in File : Apply(rows, File)[f] = Intended(f)

\* applyFileMutations stops at the first error: sending the same delta again
\* after any prefix was applied completes it, though the files that the first
\* attempt deleted are no longer listed.
RetryCompletes == Apply(Apply(rows, before), File) = Apply(rows, File)

\* A sync_init carries no delta, and all the entries are the database's: run
\* undisturbed, it mutates nothing (sync/service.go SyncInit).
SyncMeta == SyncMetadata(NoDelta, EntriesOf(rows))

SyncInitMutatesNothing == \A f \in File : ~Mutates(f, SyncMeta, rows)

Answer(f) == Instruction(f, SyncMeta, rows, vectors)

\* What the client has of a server file once it followed the instruction.
ClientAfter(f) ==
  CASE Answer(f) = "download" -> rows[f].ops
    [] Answer(f) = "apply_changes" -> vectors[f] \cup (rows[f].ops \ vectors[f])
    [] OTHER -> IF vectors[f] = NoVector THEN {} ELSE vectors[f]

\* A client that follows the instructions of a sync_response has every edit
\* the server has of every Typst file (sync/service.go generateInstructions).
ClientCatchesUp ==
  \A f \in File :
    rows[f] # NoRow /\ (vectors[f] = NoVector \/ rows[f].type = "typst") =>
      /\ rows[f].ops \subseteq ClientAfter(f)
      /\ vectors[f] = NoVector => Answer(f) = "download"
=============================================================================
