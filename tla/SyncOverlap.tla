----------------------------- MODULE SyncOverlap -----------------------------
(***************************************************************************)
(* SyncService with a record of the files whose row changed under a        *)
(* request that had read it and could still write it.  Nothing else makes  *)
(* a file lose what clients were told about it, whoever may write it.      *)
(***************************************************************************)
EXTENDS SyncService

VARIABLE
  disturbed  \* history: the files whose readers were overtaken

overlapVars == <<vars, disturbed>>

\* q will write what it read of f, if it goes on: the row that it edits or
\* has listed, or the entry that its merged metadata has from the database.
MayWriteBack(q, f) ==
  \/ pc[q] = "editing" /\ file[q] = f
  \/ f \in todo[q]

MayRestoreEntry(q, f) == pc[q] = "merging" /\ ~Asked(q, f)

Overtaken(q, f) ==
  \/ MayWriteBack(q, f) /\ row'[f] # row[f]
  \/ MayRestoreEntry(q, f) /\ EntriesOf(row')[f] # EntriesOf(row)[f]

OverlapInit == Init /\ disturbed = {}

OverlapNext ==
  \E p \in Conn :
    /\ Step(p)
    /\ disturbed' =
         disturbed \cup {f \in File : \E q \in Conn \ {p} : Overtaken(q, f)}

OverlapSpec == OverlapInit /\ [][OverlapNext]_overlapVars

OverlapFairSpec == OverlapSpec /\ \A p \in Conn : WF_vars(Continue(p))

-----------------------------------------------------------------------------
(* What a request has read of a file that is not disturbed *)

EditUndisturbed(p) ==
  pc[p] = "editing" /\ file[p] \notin disturbed => snap[p] = row[file[p]]

EntriesUndisturbed(p) ==
  pc[p] \in {"merging", "mutating"} =>
    \A f \in File \ disturbed :
      IF Asked(p, f) THEN meta[p][f] = delta[p][f]
      ELSE pc[p] = "merging" => meta[p][f] = EntriesOf(row)[f]

TodoUndisturbed(p) ==
  \A f \in todo[p] \ disturbed :
    /\ Asked(p, f)
    /\ row[f] # NoRow
    /\ listing[p][f] = row[f]

ReadsUndisturbed ==
  \A p \in Conn : EditUndisturbed(p) /\ EntriesUndisturbed(p) /\ TodoUndisturbed(p)

\* An edit that was acknowledged stays in the file, the file has the name it
\* was last given and, once deleted, it is gone, whichever clients write it,
\* unless one of them wrote between a read and a write of another
\* (sync/service.go ApplyFileChanges, applyFileMutations).
LossTakesOverlap ==
  \A f \in File \ disturbed :
    IF row[f] = NoRow THEN f \in gone
    ELSE saved[f] \subseteq row[f].ops /\ row[f].name = name[f] /\ f \notin gone

OverlapIInv ==
  /\ TypeOK
  /\ disturbed \subseteq File
  /\ LocalsOK
  /\ ReadsUndisturbed
  /\ LossTakesOverlap
=============================================================================
