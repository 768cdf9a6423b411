------------------------- MODULE SyncService_proofs -------------------------
(* While one client does the naming, the synchronization service keeps the *)
(* acknowledged edits, names and deletions of every file with one writer,  *)
(* and implements FileStore for these files: proved for any clients,       *)
(* files, names, edits and permissions.                                    *)
EXTENDS SyncOverlap, TLAPS

\* The merge of a delta over the entries of a table is a metadata map.
LEMMA MergedMetadataType ==
  ASSUME NEW d \in Metadata, NEW t \in Rows
  PROVE  SyncMetadata(d, EntriesOf(t)) \in Metadata
  BY SyncAssumption DEF SyncMetadata, EntriesOf, Metadata, Entry, Rows, Row

\* A mutation of a listed file leaves a row, or none.
LEMMA MutatedType ==
  ASSUME NEW m \in Metadata, NEW t \in Rows, NEW f \in File, Mutates(f, m, t)
  PROVE  Mutated(f, m, t) \in Row \cup {NoRow}
  BY SyncAssumption DEF Mutated, Mutates, Metadata, Entry, Rows, Row

\* Merging an edit adds it to the content and keeps the rest of the row.
LEMMA MergeFileRow ==
  ASSUME NEW s \in Row, NEW o \in Op
  PROVE  /\ MergeFile(s, o) \in Row
         /\ MergeFile(s, o).name = s.name
         /\ MergeFile(s, o).ops = s.ops \cup {o}
  BY DEF MergeFile, Row

LEMMA OwnedAreFiles == Owned \subseteq File
  BY DEF Owned

LEMMA AnyInType == AnyFile \in File /\ AnyOp \in Op /\ NoDelta \in Metadata
  BY SyncAssumption DEF AnyFile, AnyOp, NoDelta, Metadata

\* A finished request leaves no locals.
LEMMA FinishType ==
  ASSUME TypeOK, NEW p \in Conn, Finish(p)
  PROVE  /\ pc' \in [Conn -> PC] /\ file' \in [Conn -> File]
         /\ snap' \in [Conn -> Row \cup {NoRow}] /\ edit' \in [Conn -> Op]
         /\ delta' \in [Conn -> Metadata] /\ meta' \in [Conn -> Metadata]
         /\ listing' \in [Conn -> Rows] /\ todo' \in [Conn -> SUBSET File]
<1>1. [f \in File |-> NoRow] \in Rows
  BY DEF Rows
<1> QED
  BY <1>1, AnyInType DEF TypeOK, Finish, PC, Idle

\* A merge under way has a metadata map of its own.
LEMMA StartMergeType ==
  ASSUME TypeOK, NEW p \in Conn, NEW d \in Metadata, StartMerge(p, d)
  PROVE  TypeOK'
<1>1. SyncMetadata(d, EntriesOf(row)) \in Metadata
  BY MergedMetadataType DEF TypeOK
<1> QED
  BY <1>1 DEF TypeOK, StartMerge, history, PC

\* Every step keeps the variables in their types.
LEMMA TypeStep ==
  ASSUME TypeOK, LocalsOK, [Next]_vars
  PROVE  TypeOK'
<1> USE SyncAssumption DEF PC, Idle
<1>1. ASSUME NEW p \in Conn, NEW f \in File, NEW o \in Op,
             LoadFile(p, f, o)
      PROVE  TypeOK'
  BY <1>1 DEF LoadFile, TypeOK, Rows, history
<1>2. ASSUME NEW p \in Conn, SaveFile(p) PROVE TypeOK'
  <2>1. snap[p] \in Row /\ edit[p] \in Op /\ file[p] \in File
    BY <1>2 DEF SaveFile, TypeOK, LocalsOK
  <2>2. MergeFile(snap[p], edit[p]) \in Row
    BY <2>1, MergeFileRow
  <2>3. row' \in Rows /\ saved' \in [File -> SUBSET Op]
    BY <1>2, <2>1, <2>2 DEF SaveFile, TypeOK, Rows
  <2> QED
    BY <1>2, <2>3, FinishType DEF SaveFile, TypeOK
<1>3. ASSUME NEW p \in Conn, NEW d \in Metadata,
             MetadataUpdate(p, d)
      PROVE  TypeOK'
  BY <1>3, StartMergeType DEF MetadataUpdate
<1>4. ASSUME NEW p \in Conn, SyncInit(p) PROVE TypeOK'
  BY <1>4, StartMergeType, AnyInType DEF SyncInit
<1>5. ASSUME NEW p \in Conn, ListFiles(p) PROVE TypeOK'
  BY <1>5 DEF ListFiles, TypeOK, history
<1>6. ASSUME NEW p \in Conn, NEW f \in File, DeleteListed(p, f) PROVE TypeOK'
  BY <1>6 DEF DeleteListed, TypeOK, Rows
<1>7. ASSUME NEW p \in Conn, NEW f \in File,
             DeleteMissing(p, f)
      PROVE  TypeOK'
  BY <1>7, FinishType DEF DeleteMissing, TypeOK, history
<1>8. ASSUME NEW p \in Conn, NEW f \in File, RenameListed(p, f) PROVE TypeOK'
  <2>1. meta[p] \in Metadata /\ listing[p] \in Rows /\ Mutates(f, meta[p], listing[p])
    BY <1>8 DEF RenameListed, TypeOK, LocalsOK
  <2>2. Mutated(f, meta[p], listing[p]) \in Row \cup {NoRow}
    BY <2>1, MutatedType
  <2>3. meta[p][f].name \in Name
    BY <2>1 DEF Mutates, Metadata, Entry
  <2>4. row' \in Rows /\ name' \in [File -> Name]
    BY <1>8, <2>2, <2>3 DEF RenameListed, TypeOK, Rows
  <2> QED
    BY <1>8, <2>4 DEF RenameListed, TypeOK
<1>9. ASSUME NEW p \in Conn, MutationsDone(p) PROVE TypeOK'
  BY <1>9, FinishType DEF MutationsDone, TypeOK, history
<1>10. ASSUME NEW p \in Conn, NEW f \in File, NEW n \in Name, NEW s \in SUBSET Op,
             Upload(p, f, n, s)
      PROVE  TypeOK'
  <2>1. [name |-> n, type |-> TypeFor(n), ops |-> s] \in Row
    BY DEF TypeFor, Row, Type
  <2>2. row' \in Rows
    BY <1>10, <2>1 DEF Upload, TypeOK, Rows
  <2> QED
    BY <1>10, <2>2 DEF Upload, TypeOK, local
<1>11. ASSUME NEW p \in Conn, NEW f \in File, Delete(p, f) PROVE TypeOK'
  BY <1>11 DEF Delete, TypeOK, Rows, local
<1>12. ASSUME NEW p \in Conn, Fail(p) PROVE TypeOK'
  BY <1>12, FinishType DEF Fail, TypeOK, history
<1>13. CASE UNCHANGED vars
  BY <1>13 DEF vars, local, history, TypeOK
<1> QED
  BY <1>1, <1>2, <1>3, <1>4, <1>5, <1>6, <1>7,
     <1>8, <1>9, <1>10, <1>11, <1>12, <1>13
     DEF Next, Step

\* What a request has read stays as it read it.
LEMMA LocalsStep ==
  ASSUME TypeOK, LocalsOK, [Next]_vars
  PROVE  LocalsOK'
<1> USE SyncAssumption DEF PC, Idle
<1>1. ASSUME NEW p \in Conn, NEW f \in File, NEW o \in Op,
             LoadFile(p, f, o)
      PROVE  LocalsOK'
  BY <1>1 DEF LoadFile, local, history, TypeOK, LocalsOK, Mutates
<1>2. ASSUME NEW p \in Conn, SaveFile(p) PROVE LocalsOK'
  BY <1>2 DEF SaveFile, Finish, local, history, TypeOK, LocalsOK, Mutates
<1>3. ASSUME NEW p \in Conn, NEW d \in Metadata,
             MetadataUpdate(p, d)
      PROVE  LocalsOK'
  BY <1>3 DEF MetadataUpdate, StartMerge, local, history, TypeOK, LocalsOK, Mutates
<1>4. ASSUME NEW p \in Conn, SyncInit(p) PROVE LocalsOK'
  BY <1>4 DEF SyncInit, StartMerge, local, history, TypeOK, LocalsOK, Mutates
<1>5. ASSUME NEW p \in Conn, ListFiles(p) PROVE LocalsOK'
  BY <1>5 DEF ListFiles, local, history, TypeOK, LocalsOK, Mutates
<1>6. ASSUME NEW p \in Conn, NEW f \in File,
             DeleteListed(p, f)
      PROVE  LocalsOK'
  BY <1>6 DEF DeleteListed, local, history, TypeOK, LocalsOK, Mutates
<1>7. ASSUME NEW p \in Conn, NEW f \in File,
             DeleteMissing(p, f)
      PROVE  LocalsOK'
  BY <1>7 DEF DeleteMissing, Finish, local, history, TypeOK, LocalsOK, Mutates
<1>8. ASSUME NEW p \in Conn, NEW f \in File,
             RenameListed(p, f)
      PROVE  LocalsOK'
  BY <1>8 DEF RenameListed, local, history, TypeOK, LocalsOK, Mutates
<1>9. ASSUME NEW p \in Conn, MutationsDone(p) PROVE LocalsOK'
  BY <1>9 DEF MutationsDone, Finish, local, history, TypeOK, LocalsOK, Mutates
<1>10. ASSUME NEW p \in Conn, NEW f \in File, NEW n \in Name, NEW s \in SUBSET Op,
             Upload(p, f, n, s)
      PROVE  LocalsOK'
  BY <1>10 DEF Upload, local, history, TypeOK, LocalsOK, Mutates
<1>11. ASSUME NEW p \in Conn, NEW f \in File, Delete(p, f) PROVE LocalsOK'
  BY <1>11 DEF Delete, local, history, TypeOK, LocalsOK, Mutates
<1>12. ASSUME NEW p \in Conn, Fail(p) PROVE LocalsOK'
  BY <1>12 DEF Fail, Finish, local, history, TypeOK, LocalsOK, Mutates
<1>13. CASE UNCHANGED vars
  BY <1>13 DEF vars, local, history, TypeOK, LocalsOK, Mutates
<1> QED
  BY <1>1, <1>2, <1>3, <1>4, <1>5, <1>6, <1>7,
     <1>8, <1>9, <1>10, <1>11, <1>12, <1>13
     DEF Next, Step

\* A step of one client leaves the locals of the others alone.
LEMMA OthersLocals ==
  ASSUME TypeOK, NEW p \in Conn, Step(p), NEW q \in Conn, q # p
  PROVE  /\ pc'[q] = pc[q] /\ file'[q] = file[q] /\ snap'[q] = snap[q]
         /\ edit'[q] = edit[q] /\ delta'[q] = delta[q] /\ meta'[q] = meta[q]
         /\ listing'[q] = listing[q] /\ todo'[q] = todo[q]
  BY DEF TypeOK, Step, LoadFile, SaveFile, MetadataUpdate, SyncInit, StartMerge,
     ListFiles, DeleteListed, DeleteMissing, RenameListed, MutationsDone, Upload,
     Delete, Fail, Finish, local

\* A file with one writer is written by nobody else, and only the naming
\* client gives it another name or brings it back.
LEMMA OthersRows ==
  ASSUME OneNamer, TypeOK, LocalsOK, ReadsAreCurrent,
         NEW p \in Conn, Step(p), NEW q \in Conn, q # p, NEW g \in Owned
  PROVE  /\ <<q, g>> \in Writes => row'[g] = row[g]
         /\ q \in Namers /\ row'[g] # NoRow =>
              row[g] # NoRow /\ row'[g].name = row[g].name
<1> USE SyncAssumption DEF TypeOK
<1>0. /\ g \in File
      /\ <<p, g>> \in Writes /\ <<q, g>> \in Writes => FALSE
      /\ ~(p \in Namers /\ q \in Namers)
  BY DEF OneNamer, Owned, Namers
<1>1. CASE row' = row
  BY <1>1
<1>2. CASE SaveFile(p)
  <2>1. CASE g = file[p]
    <3>1. /\ <<p, file[p]>> \in Writes /\ edit[p] \in Op
          /\ snap[p] \in Row /\ snap[p] = row[file[p]]
      BY <1>2, <2>1 DEF SaveFile, LocalsOK, ReadsAreCurrent, EditIsCurrent, Writes
    <3>2. MergeFile(snap[p], edit[p]).name = snap[p].name
      BY <3>1, MergeFileRow
    <3> QED
      BY <1>0, <1>2, <2>1, <3>1, <3>2 DEF SaveFile, Rows
  <2>2. CASE g # file[p]
    BY <1>0, <1>2, <2>2 DEF SaveFile, Rows
  <2> QED
    BY <2>1, <2>2
<1>3. ASSUME NEW f \in File, DeleteListed(p, f) \/ RenameListed(p, f)
      PROVE  /\ <<q, g>> \in Writes => row'[g] = row[g]
             /\ q \in Namers /\ row'[g] # NoRow =>
                  row[g] # NoRow /\ row'[g].name = row[g].name
  <2>1. f \in todo[p] /\ pc[p] = "mutating"
    BY <1>3 DEF DeleteListed, RenameListed
  <2>2. CASE g = f
    <3>1. <<p, g>> \in Writes /\ p \in Namers
      BY <2>1, <2>2 DEF ReadsAreCurrent, TodoIsCurrent, DeltaIsOwned, Writes
    <3> QED
      BY <1>0, <3>1
  <2>3. CASE g # f
    BY <1>0, <1>3, <2>3 DEF DeleteListed, RenameListed, Rows
  <2> QED
    BY <2>2, <2>3
<1>4. ASSUME NEW f \in File, NEW n \in Name, NEW s \in SUBSET Op, Upload(p, f, n, s)
      PROVE  /\ <<q, g>> \in Writes => row'[g] = row[g]
             /\ q \in Namers /\ row'[g] # NoRow =>
                  row[g] # NoRow /\ row'[g].name = row[g].name
  <2>1. <<p, f>> \in Writes /\ p \in Namers
    BY <1>4 DEF Upload, Writes, Namers
  <2>2. g # f => row'[g] = row[g]
    BY <1>0, <1>4 DEF Upload, Rows
  <2> QED
    BY <1>0, <2>1, <2>2
<1>5. ASSUME NEW f \in File, Delete(p, f)
      PROVE  /\ <<q, g>> \in Writes => row'[g] = row[g]
             /\ q \in Namers /\ row'[g] # NoRow =>
                  row[g] # NoRow /\ row'[g].name = row[g].name
  <2>1. <<p, f>> \in Writes /\ row'[f] = NoRow
    BY <1>5 DEF Delete, Writes, Rows
  <2>2. g # f => row'[g] = row[g]
    BY <1>0, <1>5 DEF Delete, Rows
  <2> QED
    BY <1>0, <2>1, <2>2
<1> QED
  BY <1>1, <1>2, <1>3, <1>4, <1>5 DEF Step, LoadFile, DeleteMissing, MetadataUpdate,
     SyncInit, StartMerge, ListFiles, MutationsDone, Fail

\* What the others have read is still current after a step of p.
LEMMA OthersReads ==
  ASSUME OneNamer, TypeOK, LocalsOK, ReadsAreCurrent,
         NEW p \in Conn, Step(p), NEW q \in Conn, q # p
  PROVE  /\ EditIsCurrent(q)' /\ DeltaIsOwned(q)'
         /\ EntriesAreCurrent(q)' /\ TodoIsCurrent(q)'
<1>1. /\ pc'[q] = pc[q] /\ file'[q] = file[q] /\ snap'[q] = snap[q]
      /\ delta'[q] = delta[q] /\ meta'[q] = meta[q]
      /\ listing'[q] = listing[q] /\ todo'[q] = todo[q]
  BY OthersLocals
<1>2. EditIsCurrent(q)'
  BY <1>1, OthersRows DEF ReadsAreCurrent, EditIsCurrent, Writes, TypeOK
<1>3. DeltaIsOwned(q)'
  BY <1>1 DEF ReadsAreCurrent, DeltaIsOwned, Asked
<1>4. EntriesAreCurrent(q)'
  <2> SUFFICES ASSUME pc[q] = "merging", NEW f \in Owned, ~Asked(q, f),
                      meta[q][f] # NoEntry, row'[f] # NoRow
               PROVE  ~meta[q][f].deleted /\ meta[q][f].name = row'[f].name
    BY <1>1 DEF EntriesAreCurrent, Asked
  <2>1. q \in Namers
    BY DEF ReadsAreCurrent, DeltaIsOwned
  <2>2. row[f] # NoRow /\ row'[f].name = row[f].name
    BY <2>1, OthersRows
  <2> QED
    BY <2>2 DEF ReadsAreCurrent, EntriesAreCurrent
<1>5. TodoIsCurrent(q)'
  <2> SUFFICES ASSUME NEW f \in todo[q] \cap Owned
               PROVE  Asked(q, f)' /\ row'[f] # NoRow /\ listing'[q][f] = row'[f]
    BY <1>1 DEF TodoIsCurrent
  <2>1. /\ f \in File /\ pc[q] = "mutating" /\ Asked(q, f)
        /\ row[f] # NoRow /\ listing[q][f] = row[f]
    BY DEF ReadsAreCurrent, TodoIsCurrent, LocalsOK, TypeOK
  <2>2. row'[f] = row[f]
    BY <2>1, OthersRows DEF ReadsAreCurrent, DeltaIsOwned, Writes
  <2> QED
    BY <1>1, <2>1, <2>2 DEF Asked
<1> QED
  BY <1>2, <1>3, <1>4, <1>5

\* What a client has read is current when it has just read it, and its own
\* writes keep it so: it mutates every file at most once.
LEMMA OwnReads ==
  ASSUME OneNamer, TypeOK, LocalsOK, ReadsAreCurrent, NEW p \in Conn, Step(p)
  PROVE  /\ EditIsCurrent(p)' /\ DeltaIsOwned(p)'
         /\ EntriesAreCurrent(p)' /\ TodoIsCurrent(p)'
<1> DEFINE Goal == /\ EditIsCurrent(p)' /\ DeltaIsOwned(p)'
                   /\ EntriesAreCurrent(p)' /\ TodoIsCurrent(p)'
<1> USE SyncAssumption DEF TypeOK
<1>1. ASSUME NEW f \in File, NEW o \in Op, LoadFile(p, f, o) PROVE Goal
  BY <1>1 DEF LoadFile, LocalsOK, Idle, ReadsAreCurrent, EditIsCurrent, DeltaIsOwned,
     EntriesAreCurrent, TodoIsCurrent, Asked
<1>2. ASSUME NEW d \in Metadata, MetadataUpdate(p, d) PROVE Goal
  <2>1. /\ pc'[p] = "merging" /\ delta'[p] = d
        /\ meta'[p] = SyncMetadata(d, EntriesOf(row)) /\ row' = row
        /\ todo'[p] = {}
    BY <1>2, AnyInType DEF MetadataUpdate, StartMerge, LocalsOK, Idle, history
  <2>2. p \in Namers /\ \A f \in File : d[f] # NoEntry => <<p, f>> \in CanName
    BY <1>2 DEF MetadataUpdate, Namers, NamedBy, NoDelta
  <2>3. \A f \in File : d[f] # NoEntry => meta'[p][f] = d[f]
    BY <2>1 DEF SyncMetadata
  <2>4. \A f \in File : d[f] = NoEntry /\ row[f] # NoRow =>
          ~meta'[p][f].deleted /\ meta'[p][f].name = row[f].name
    BY <2>1 DEF SyncMetadata, EntriesOf
  <2> QED
    BY <2>1, <2>2, <2>3, <2>4, OwnedAreFiles DEF EditIsCurrent, DeltaIsOwned, EntriesAreCurrent,
       TodoIsCurrent, Asked
<1>3. ASSUME SyncInit(p) PROVE Goal
  <2>1. /\ pc'[p] = "merging" /\ delta'[p] = NoDelta
        /\ meta'[p] = SyncMetadata(NoDelta, EntriesOf(row)) /\ row' = row
        /\ todo'[p] = {}
    BY <1>3, AnyInType DEF SyncInit, StartMerge, LocalsOK, Idle, history
  <2>2. p \in Namers /\ \A f \in File : NoDelta[f] # NoEntry => <<p, f>> \in CanName
    BY <1>3 DEF SyncInit, Namers, NamedBy, NoDelta
  <2>3. \A f \in File : NoDelta[f] # NoEntry => meta'[p][f] = NoDelta[f]
    BY <2>1 DEF SyncMetadata
  <2>4. \A f \in File : NoDelta[f] = NoEntry /\ row[f] # NoRow =>
          ~meta'[p][f].deleted /\ meta'[p][f].name = row[f].name
    BY <2>1 DEF SyncMetadata, EntriesOf
  <2> QED
    BY <2>1, <2>2, <2>3, <2>4, OwnedAreFiles DEF EditIsCurrent, DeltaIsOwned, EntriesAreCurrent,
       TodoIsCurrent, Asked
<1>4. ASSUME ListFiles(p) PROVE Goal
  <2>1. /\ pc[p] = "merging" /\ pc'[p] = "mutating" /\ listing'[p] = row
        /\ todo'[p] = {f \in File : Mutates(f, meta[p], row)}
        /\ row' = row /\ meta' = meta /\ delta' = delta
    BY <1>4 DEF ListFiles
  <2>2. \A f \in todo'[p] \cap Owned : Asked(p, f) /\ row[f] # NoRow
    BY <2>1 DEF Owned, Mutates, ReadsAreCurrent, EntriesAreCurrent
  <2> QED
    BY <2>1, <2>2 DEF ReadsAreCurrent, EditIsCurrent, DeltaIsOwned, EntriesAreCurrent,
       TodoIsCurrent, Asked
<1>5. ASSUME NEW f \in File, (DeleteListed(p, f) \/ RenameListed(p, f)) PROVE Goal
  <2>1. /\ pc' = pc /\ pc[p] = "mutating" /\ listing' = listing /\ meta' = meta
        /\ delta' = delta /\ todo'[p] = todo[p] \ {f}
        /\ \A g \in File : g # f => row'[g] = row[g]
    BY <1>5 DEF DeleteListed, RenameListed, Rows
  <2>2. \A g \in todo'[p] : g \in File /\ g \in todo[p] /\ row'[g] = row[g]
    BY <2>1
  <2> QED
    BY <2>1, <2>2 DEF ReadsAreCurrent, EditIsCurrent, DeltaIsOwned,
       EntriesAreCurrent, TodoIsCurrent, Asked
<1>6. ASSUME (SaveFile(p) \/ MutationsDone(p) \/ Fail(p)) PROVE Goal
  <2>1. pc'[p] = Idle /\ todo'[p] = {}
    BY <1>6 DEF DeleteMissing, MutationsDone, Fail, SaveFile, Finish
  <2> QED
    BY <2>1 DEF EditIsCurrent, DeltaIsOwned, EntriesAreCurrent, TodoIsCurrent, Idle
<1>7. ASSUME NEW f \in File, DeleteMissing(p, f) PROVE Goal
  <2>1. pc'[p] = Idle /\ todo'[p] = {}
    BY <1>7 DEF DeleteMissing, MutationsDone, Fail, SaveFile, Finish
  <2> QED
    BY <2>1 DEF EditIsCurrent, DeltaIsOwned, EntriesAreCurrent, TodoIsCurrent, Idle
<1>8. ASSUME NEW f \in File, NEW n \in Name, NEW s \in SUBSET Op,
             Upload(p, f, n, s) PROVE Goal
  <2>1. pc'[p] = Idle /\ todo'[p] = {}
    BY <1>8 DEF Upload, LocalsOK, local, Idle
  <2> QED
    BY <2>1 DEF EditIsCurrent, DeltaIsOwned, EntriesAreCurrent, TodoIsCurrent, Idle
<1>9. ASSUME NEW f \in File, Delete(p, f) PROVE Goal
  <2>1. pc'[p] = Idle /\ todo'[p] = {}
    BY <1>9 DEF Delete, LocalsOK, local, Idle
  <2> QED
    BY <2>1 DEF EditIsCurrent, DeltaIsOwned, EntriesAreCurrent, TodoIsCurrent, Idle
<1> QED
  BY <1>1, <1>2, <1>3, <1>4, <1>5, <1>6, <1>7, <1>8, <1>9 DEF Step

\* What was read of a file with one writer stays current until it is saved.
LEMMA ReadsStep ==
  ASSUME OneNamer, TypeOK, LocalsOK, ReadsAreCurrent, [Next]_vars
  PROVE  ReadsAreCurrent'
<1>1. CASE UNCHANGED vars
  BY <1>1 DEF vars, local, ReadsAreCurrent, EditIsCurrent, DeltaIsOwned,
     EntriesAreCurrent, TodoIsCurrent, Asked
<1>2. ASSUME NEW p \in Conn, Step(p) PROVE ReadsAreCurrent'
  <2>1. ASSUME NEW q \in Conn
        PROVE  /\ EditIsCurrent(q)' /\ DeltaIsOwned(q)'
               /\ EntriesAreCurrent(q)' /\ TodoIsCurrent(q)'
    BY <1>2, OwnReads, OthersReads
  <2> QED
    BY <2>1 DEF ReadsAreCurrent
<1> QED
  BY <1>1, <1>2 DEF Next

\* What SaveFile writes: the row as it is, with the edit added.
LEMMA SaveIsEdit ==
  ASSUME TypeOK, LocalsOK, ReadsAreCurrent, NEW p \in Conn, SaveFile(p)
  PROVE  /\ file[p] \in File /\ edit[p] \in Op
         /\ \A g \in File : g # file[p] => row'[g] = row[g]
         /\ file[p] \in Owned =>
              /\ row[file[p]] \in Row
              /\ row'[file[p]] = MergeFile(row[file[p]], edit[p])
              /\ row'[file[p]].name = row[file[p]].name
              /\ row'[file[p]].ops = row[file[p]].ops \cup {edit[p]}
<1>1. /\ file[p] \in File /\ edit[p] \in Op
      /\ \A g \in File : g # file[p] => row'[g] = row[g]
      /\ row'[file[p]] = MergeFile(snap[p], edit[p])
  BY DEF TypeOK, Rows, SaveFile
<1>2. ASSUME file[p] \in Owned
      PROVE  row[file[p]] \in Row /\ snap[p] = row[file[p]]
  BY <1>2 DEF TypeOK, LocalsOK, ReadsAreCurrent, EditIsCurrent, SaveFile
<1> QED
  BY <1>1, <1>2, MergeFileRow

\* What RenameListed writes: the row as it is, with the name asked for.
LEMMA RenameIsRename ==
  ASSUME TypeOK, LocalsOK, ReadsAreCurrent,
         NEW p \in Conn, NEW f \in File, RenameListed(p, f)
  PROVE  /\ \A g \in File : g # f => row'[g] = row[g]
         /\ f \in Owned =>
              /\ Asked(p, f) /\ meta[p][f].name \in Name /\ row[f] \in Row
              /\ row'[f] = [row[f] EXCEPT !.name = meta[p][f].name]
              /\ row'[f].name = meta[p][f].name
              /\ row'[f].ops = row[f].ops
<1>1. /\ f \in todo[p] /\ pc[p] = "mutating" /\ ~meta[p][f].deleted
      /\ row'[f] = Mutated(f, meta[p], listing[p])
      /\ \A g \in File : g # f => row'[g] = row[g]
  BY DEF RenameListed, TypeOK, Rows
<1>2. ASSUME f \in Owned
      PROVE  /\ Asked(p, f) /\ row[f] # NoRow /\ listing[p][f] = row[f]
             /\ meta[p][f] # NoEntry
  BY <1>1, <1>2 DEF ReadsAreCurrent, TodoIsCurrent, LocalsOK, Mutates
<1>3. ASSUME f \in Owned
      PROVE  meta[p][f].name \in Name /\ row[f] \in Row
  BY <1>2, <1>3 DEF TypeOK, Metadata, Entry, Rows
<1>4. ASSUME f \in Owned
      PROVE  row'[f] = [row[f] EXCEPT !.name = meta[p][f].name]
  BY <1>1, <1>2, <1>4 DEF Mutated
<1> QED
  BY <1>1, <1>2, <1>3, <1>4 DEF Row

\* No step takes an acknowledged edit away.
LEMMA EditsStep ==
  ASSUME OneNamer, TypeOK, LocalsOK, ReadsAreCurrent,
         OwnedEditsSurvive, [Next]_vars
  PROVE  OwnedEditsSurvive'
<1> USE SyncAssumption DEF TypeOK
<1>1. ASSUME NEW p \in Conn, NEW f \in File, NEW o \in Op,
             LoadFile(p, f, o)
      PROVE  OwnedEditsSurvive'
  BY <1>1 DEF LoadFile, local, history, OwnedEditsSurvive, Rows
<1>2. ASSUME NEW p \in Conn, SaveFile(p) PROVE OwnedEditsSurvive'
  <2>1. file[p] \in Owned => row[file[p]] # NoRow
    BY <1>2, SaveIsEdit, SyncAssumption
  <2>2. /\ file[p] \in File
        /\ file[p] \in Owned => row'[file[p]].ops = row[file[p]].ops \cup {edit[p]}
        /\ \A g \in File : g # file[p] => row'[g] = row[g]
    BY <1>2, SaveIsEdit
  <2>3. /\ saved'[file[p]] = saved[file[p]] \cup {edit[p]}
        /\ \A g \in File : g # file[p] => saved'[g] = saved[g]
    BY <1>2, <2>2 DEF SaveFile
  <2> QED
    BY <2>1, <2>2, <2>3, OwnedAreFiles DEF OwnedEditsSurvive
<1>3. ASSUME NEW p \in Conn, NEW d \in Metadata,
             MetadataUpdate(p, d)
      PROVE  OwnedEditsSurvive'
  BY <1>3 DEF MetadataUpdate, StartMerge, local, history, OwnedEditsSurvive, Rows
<1>4. ASSUME NEW p \in Conn, SyncInit(p) PROVE OwnedEditsSurvive'
  BY <1>4 DEF SyncInit, StartMerge, local, history, OwnedEditsSurvive, Rows
<1>5. ASSUME NEW p \in Conn, ListFiles(p) PROVE OwnedEditsSurvive'
  BY <1>5 DEF ListFiles, local, history, OwnedEditsSurvive, Rows
<1>6. ASSUME NEW p \in Conn, NEW f \in File,
             DeleteListed(p, f)
      PROVE  OwnedEditsSurvive'
  BY <1>6 DEF DeleteListed, local, history, OwnedEditsSurvive, Rows
<1>7. ASSUME NEW p \in Conn, NEW f \in File,
             DeleteMissing(p, f)
      PROVE  OwnedEditsSurvive'
  BY <1>7 DEF DeleteMissing, Finish, local, history, OwnedEditsSurvive, Rows
<1>8. ASSUME NEW p \in Conn, NEW f \in File,
             RenameListed(p, f)
      PROVE  OwnedEditsSurvive'
  <2>1. /\ f \in Owned => row[f] # NoRow /\ row'[f].ops = row[f].ops
        /\ \A g \in File : g # f => row'[g] = row[g]
        /\ saved' = saved
    BY <1>8, RenameIsRename, SyncAssumption DEF RenameListed
  <2> QED
    BY <2>1, OwnedAreFiles DEF OwnedEditsSurvive
<1>9. ASSUME NEW p \in Conn, MutationsDone(p) PROVE OwnedEditsSurvive'
  BY <1>9 DEF MutationsDone, Finish, local, history, OwnedEditsSurvive, Rows
<1>10. ASSUME NEW p \in Conn, NEW f \in File, NEW n \in Name, NEW s \in SUBSET Op,
             Upload(p, f, n, s)
      PROVE  OwnedEditsSurvive'
  BY <1>10 DEF Upload, local, history, OwnedEditsSurvive, Rows
<1>11. ASSUME NEW p \in Conn, NEW f \in File,
             Delete(p, f)
      PROVE  OwnedEditsSurvive'
  BY <1>11 DEF Delete, local, history, OwnedEditsSurvive, Rows
<1>12. ASSUME NEW p \in Conn, Fail(p) PROVE OwnedEditsSurvive'
  BY <1>12 DEF Fail, Finish, local, history, OwnedEditsSurvive, Rows
<1>13. CASE UNCHANGED vars
  BY <1>13 DEF vars, local, history, OwnedEditsSurvive, Rows
<1> QED
  BY <1>1, <1>2, <1>3, <1>4, <1>5, <1>6, <1>7,
     <1>8, <1>9, <1>10, <1>11, <1>12, <1>13
     DEF Next, Step

\* No step gives a file a name nobody asked for.
LEMMA NameStep ==
  ASSUME OneNamer, TypeOK, LocalsOK, ReadsAreCurrent,
         NameAsAsked, [Next]_vars
  PROVE  NameAsAsked'
<1> USE SyncAssumption DEF TypeOK
<1>1. ASSUME NEW p \in Conn, NEW f \in File, NEW o \in Op,
             LoadFile(p, f, o)
      PROVE  NameAsAsked'
  BY <1>1 DEF LoadFile, local, history, NameAsAsked, Rows
<1>2. ASSUME NEW p \in Conn, SaveFile(p) PROVE NameAsAsked'
  <2>1. /\ file[p] \in Owned =>
             row[file[p]] # NoRow /\ row'[file[p]].name = row[file[p]].name
        /\ \A g \in File : g # file[p] => row'[g] = row[g]
        /\ name' = name
    BY <1>2, SaveIsEdit, SyncAssumption DEF SaveFile
  <2> QED
    BY <2>1, OwnedAreFiles DEF NameAsAsked
<1>3. ASSUME NEW p \in Conn, NEW d \in Metadata,
             MetadataUpdate(p, d)
      PROVE  NameAsAsked'
  BY <1>3 DEF MetadataUpdate, StartMerge, local, history, NameAsAsked, Rows
<1>4. ASSUME NEW p \in Conn, SyncInit(p) PROVE NameAsAsked'
  BY <1>4 DEF SyncInit, StartMerge, local, history, NameAsAsked, Rows
<1>5. ASSUME NEW p \in Conn, ListFiles(p) PROVE NameAsAsked'
  BY <1>5 DEF ListFiles, local, history, NameAsAsked, Rows
<1>6. ASSUME NEW p \in Conn, NEW f \in File,
             DeleteListed(p, f)
      PROVE  NameAsAsked'
  BY <1>6 DEF DeleteListed, local, history, NameAsAsked, Rows
<1>7. ASSUME NEW p \in Conn, NEW f \in File,
             DeleteMissing(p, f)
      PROVE  NameAsAsked'
  BY <1>7 DEF DeleteMissing, Finish, local, history, NameAsAsked, Rows
<1>8. ASSUME NEW p \in Conn, NEW f \in File,
             RenameListed(p, f)
      PROVE  NameAsAsked'
  <2>1. /\ f \in Owned => /\ name'[f] = meta[p][f].name
                          /\ row'[f].name = meta[p][f].name
        /\ \A g \in File : g # f => name'[g] = name[g] /\ row'[g] = row[g]
    BY <1>8, RenameIsRename DEF RenameListed
  <2> QED
    BY <2>1, OwnedAreFiles DEF NameAsAsked
<1>9. ASSUME NEW p \in Conn, MutationsDone(p) PROVE NameAsAsked'
  BY <1>9 DEF MutationsDone, Finish, local, history, NameAsAsked, Rows
<1>10. ASSUME NEW p \in Conn, NEW f \in File, NEW n \in Name, NEW s \in SUBSET Op,
             Upload(p, f, n, s)
      PROVE  NameAsAsked'
  BY <1>10 DEF Upload, local, history, NameAsAsked, Rows
<1>11. ASSUME NEW p \in Conn, NEW f \in File, Delete(p, f) PROVE NameAsAsked'
  BY <1>11 DEF Delete, local, history, NameAsAsked, Rows
<1>12. ASSUME NEW p \in Conn, Fail(p) PROVE NameAsAsked'
  BY <1>12 DEF Fail, Finish, local, history, NameAsAsked, Rows
<1>13. CASE UNCHANGED vars
  BY <1>13 DEF vars, local, history, NameAsAsked, Rows
<1> QED
  BY <1>1, <1>2, <1>3, <1>4, <1>5, <1>6, <1>7,
     <1>8, <1>9, <1>10, <1>11, <1>12, <1>13
     DEF Next, Step

\* No step but an upload brings a deleted file back.
LEMMA GoneStep ==
  ASSUME OneNamer, TypeOK, LocalsOK, ReadsAreCurrent,
         DeletedStaysDeleted, [Next]_vars
  PROVE  DeletedStaysDeleted'
<1> USE SyncAssumption DEF TypeOK
<1>1. ASSUME NEW p \in Conn, NEW f \in File, NEW o \in Op,
             LoadFile(p, f, o)
      PROVE  DeletedStaysDeleted'
  BY <1>1 DEF LoadFile, local, history, DeletedStaysDeleted, Rows
<1>2. ASSUME NEW p \in Conn, SaveFile(p) PROVE DeletedStaysDeleted'
  <2>1. /\ file[p] \in Owned => row[file[p]] # NoRow
        /\ \A g \in File : g # file[p] => row'[g] = row[g]
        /\ gone' = gone
    BY <1>2, SaveIsEdit, SyncAssumption DEF SaveFile
  <2> QED
    BY <2>1, OwnedAreFiles DEF DeletedStaysDeleted
<1>3. ASSUME NEW p \in Conn, NEW d \in Metadata,
             MetadataUpdate(p, d)
      PROVE  DeletedStaysDeleted'
  BY <1>3 DEF MetadataUpdate, StartMerge, local, history, DeletedStaysDeleted, Rows
<1>4. ASSUME NEW p \in Conn, SyncInit(p) PROVE DeletedStaysDeleted'
  BY <1>4 DEF SyncInit, StartMerge, local, history, DeletedStaysDeleted, Rows
<1>5. ASSUME NEW p \in Conn, ListFiles(p) PROVE DeletedStaysDeleted'
  BY <1>5 DEF ListFiles, local, history, DeletedStaysDeleted, Rows
<1>6. ASSUME NEW p \in Conn, NEW f \in File,
             DeleteListed(p, f)
      PROVE  DeletedStaysDeleted'
  BY <1>6 DEF DeleteListed, local, history, DeletedStaysDeleted, Rows
<1>7. ASSUME NEW p \in Conn, NEW f \in File,
             DeleteMissing(p, f)
      PROVE  DeletedStaysDeleted'
  BY <1>7 DEF DeleteMissing, Finish, local, history, DeletedStaysDeleted, Rows
<1>8. ASSUME NEW p \in Conn, NEW f \in File,
             RenameListed(p, f)
      PROVE  DeletedStaysDeleted'
  <2>1. /\ f \in Owned => row[f] # NoRow
        /\ \A g \in File : g # f => row'[g] = row[g]
        /\ gone' = gone
    BY <1>8, RenameIsRename, SyncAssumption DEF RenameListed
  <2> QED
    BY <2>1, OwnedAreFiles DEF DeletedStaysDeleted
<1>9. ASSUME NEW p \in Conn, MutationsDone(p) PROVE DeletedStaysDeleted'
  BY <1>9 DEF MutationsDone, Finish, local, history, DeletedStaysDeleted, Rows
<1>10. ASSUME NEW p \in Conn, NEW f \in File, NEW n \in Name, NEW s \in SUBSET Op,
             Upload(p, f, n, s)
      PROVE  DeletedStaysDeleted'
  BY <1>10 DEF Upload, local, history, DeletedStaysDeleted, Rows
<1>11. ASSUME NEW p \in Conn, NEW f \in File,
             Delete(p, f)
      PROVE  DeletedStaysDeleted'
  BY <1>11 DEF Delete, local, history, DeletedStaysDeleted, Rows
<1>12. ASSUME NEW p \in Conn, Fail(p) PROVE DeletedStaysDeleted'
  BY <1>12 DEF Fail, Finish, local, history, DeletedStaysDeleted, Rows
<1>13. CASE UNCHANGED vars
  BY <1>13 DEF vars, local, history, DeletedStaysDeleted, Rows
<1> QED
  BY <1>1, <1>2, <1>3, <1>4, <1>5, <1>6, <1>7,
     <1>8, <1>9, <1>10, <1>11, <1>12, <1>13
     DEF Next, Step

\* Every step is one operation of FileStore on a file with one writer, or it
\* changes no such file.
LEMMA StoreStep ==
  ASSUME OneNamer, TypeOK, LocalsOK, ReadsAreCurrent, [Next]_vars
  PROVE  [Store!Next]_(Store!store)
<1> DEFINE R == [g \in Owned |-> row[g]]
           S == [g \in Owned |-> saved[g]]
           N == [g \in Owned |-> name[g]]
<1> USE OwnedAreFiles DEF TypeOK, Rows
\* A step that writes one file which is not among the owned ones.
<1>0. ASSUME NEW f \in File, f \notin Owned,
             \A g \in File : g # f => /\ row'[g] = row[g]
                                      /\ saved'[g] = saved[g]
                                      /\ name'[g] = name[g],
             gone' \cap Owned = gone \cap Owned
      PROVE  UNCHANGED Store!store
  <2>1. R' = R /\ S' = S /\ N' = N
    BY <1>0
  <2> QED
    BY <1>0, <2>1 DEF Store!store
<1>1. ASSUME NEW p \in Conn, SaveFile(p) PROVE [Store!Next]_(Store!store)
  <2>1. /\ file[p] \in File /\ edit[p] \in Op
        /\ \A g \in File : g # file[p] => row'[g] = row[g] /\ saved'[g] = saved[g]
        /\ saved'[file[p]] = saved[file[p]] \cup {edit[p]}
        /\ UNCHANGED <<name, gone>>
    BY <1>1, SaveIsEdit DEF SaveFile
  <2>2. CASE file[p] \in Owned
    <3>1. /\ row[file[p]] # NoRow
          /\ row'[file[p]] = [row[file[p]] EXCEPT !.ops = @ \cup {edit[p]}]
      BY <1>1, <2>2, SaveIsEdit, SyncAssumption DEF MergeFile
    <3>2. /\ S' = [S EXCEPT ![file[p]] = @ \cup {edit[p]}]
          /\ N' = N /\ R[file[p]] = row[file[p]] /\ R'[file[p]] = row'[file[p]]
          /\ R' = [R EXCEPT ![file[p]] = R'[file[p]]]
      BY <2>1, <2>2
    <3>3. R' = [R EXCEPT ![file[p]].ops = @ \cup {edit[p]}] /\ R[file[p]] # NoRow
      BY <3>1, <3>2
    <3>4. PICK f \in Owned, o \in Op : f = file[p] /\ o = edit[p]
      BY <2>1, <2>2
    <3>5. Store!Edit(f, o)
      BY <2>1, <3>2, <3>3, <3>4 DEF Store!Edit
    <3> QED
      BY <3>4, <3>5 DEF Store!Next
  <2>3. CASE file[p] \notin Owned
    BY <1>0, <2>1, <2>3
  <2> QED
    BY <2>2, <2>3
<1>2. ASSUME NEW p \in Conn, NEW f \in File, RenameListed(p, f)
      PROVE  [Store!Next]_(Store!store)
  <2>1. /\ \A g \in File : g # f => row'[g] = row[g] /\ name'[g] = name[g]
        /\ UNCHANGED <<saved, gone>>
    BY <1>2, RenameIsRename DEF RenameListed
  <2>2. CASE f \in Owned
    <3>1. PICK n \in Name : n = meta[p][f].name
      BY <1>2, <2>2, RenameIsRename
    <3>2. row[f] # NoRow /\ row'[f] = [row[f] EXCEPT !.name = n]
      BY <1>2, <2>2, <3>1, RenameIsRename, SyncAssumption
    <3>3. name'[f] = n
      BY <1>2, <2>2, <3>1, RenameIsRename DEF RenameListed
    <3>4. /\ R' = [R EXCEPT ![f].name = n] /\ N' = [N EXCEPT ![f] = n]
          /\ S' = S /\ R[f] # NoRow
      BY <2>1, <2>2, <3>2, <3>3
    <3>5. Store!Rename(f, n)
      BY <2>1, <3>4 DEF Store!Rename
    <3> QED
      BY <2>2, <3>5 DEF Store!Next
  <2>3. CASE f \notin Owned
    BY <1>0, <2>1, <2>3
  <2> QED
    BY <2>2, <2>3
<1>3. ASSUME NEW p \in Conn, NEW f \in File, DeleteListed(p, f) \/ Delete(p, f)
      PROVE  [Store!Next]_(Store!store)
  <2>1. /\ \A g \in File : g # f => row'[g] = row[g] /\ saved'[g] = saved[g]
        /\ row[f] # NoRow /\ row'[f] = NoRow /\ saved'[f] = {}
        /\ name' = name /\ gone' = gone \cup {f}
    BY <1>3 DEF DeleteListed, Delete
  <2>2. CASE f \in Owned
    <3>1. /\ R' = [R EXCEPT ![f] = NoRow] /\ S' = [S EXCEPT ![f] = {}]
          /\ N' = N /\ R[f] # NoRow
          /\ gone' \cap Owned = (gone \cap Owned) \cup {f}
      BY <2>1, <2>2
    <3>2. Store!Delete(f)
      BY <3>1 DEF Store!Delete
    <3> QED
      BY <2>2, <3>2 DEF Store!Next
  <2>3. CASE f \notin Owned
    BY <1>0, <2>1, <2>3
  <2> QED
    BY <2>2, <2>3
<1>4. ASSUME NEW p \in Conn, NEW f \in File, NEW n \in Name, NEW s \in SUBSET Op,
             Upload(p, f, n, s)
      PROVE  [Store!Next]_(Store!store)
  <2>1. /\ \A g \in File : g # f => /\ row'[g] = row[g] /\ saved'[g] = saved[g]
                                    /\ name'[g] = name[g]
        /\ row'[f] = [name |-> n, type |-> TypeFor(n), ops |-> s]
        /\ saved'[f] = s /\ name'[f] = n /\ gone' = gone \ {f}
    BY <1>4 DEF Upload
  <2>2. CASE f \in Owned
    <3>1. /\ R' = [R EXCEPT ![f] = [name |-> n, type |-> TypeFor(n), ops |-> s]]
          /\ S' = [S EXCEPT ![f] = s] /\ N' = [N EXCEPT ![f] = n]
          /\ gone' \cap Owned = (gone \cap Owned) \ {f}
      BY <2>1, <2>2
    <3>2. Store!Upload(f, n, TypeFor(n), s) /\ TypeFor(n) \in Store!Types
      BY <3>1 DEF Store!Upload, TypeFor, Store!Types
    <3> QED
      BY <2>2, <3>2 DEF Store!Next
  <2>3. CASE f \notin Owned
    BY <1>0, <2>1, <2>3
  <2> QED
    BY <2>2, <2>3
<1>5. CASE UNCHANGED <<row, history>>
  BY <1>5 DEF Store!store, history
<1> QED
  BY <1>1, <1>2, <1>3, <1>4, <1>5 DEF Next, Step, LoadFile, DeleteMissing,
     MetadataUpdate, SyncInit, StartMerge, ListFiles, MutationsDone, Fail, vars

\* The initial states of the service satisfy every part of IInv.
LEMMA InitIInv == Init => IInv
<1> SUFFICES ASSUME Init PROVE IInv
  OBVIOUS
<1>1. PICK n \in TypstName :
        /\ row = [f \in File |-> [name |-> n, type |-> "typst", ops |-> {}]]
        /\ name = [f \in File |-> n]
  BY DEF Init
<1>2. n \in Name /\ [name |-> n, type |-> "typst", ops |-> {}] \in Row
  BY <1>1, SyncAssumption DEF Row, Type
<1>3. [f \in File |-> NoRow] \in Rows /\ row \in Rows
  BY <1>1, <1>2 DEF Rows
<1>4. TypeOK
  BY <1>1, <1>2, <1>3, AnyInType DEF Init, TypeOK, PC, Idle
<1>5. LocalsOK /\ ReadsAreCurrent
  BY DEF Init, LocalsOK, ReadsAreCurrent, EditIsCurrent, DeltaIsOwned,
     EntriesAreCurrent, TodoIsCurrent, Idle
<1>6. OwnedEditsSurvive /\ NameAsAsked /\ DeletedStaysDeleted
  BY <1>1, OwnedAreFiles DEF Init, OwnedEditsSurvive, NameAsAsked, DeletedStaysDeleted
<1> QED
  BY <1>4, <1>5, <1>6 DEF IInv

\* The variables keep their types, whoever writes what.
THEOREM TypeCorrect == Spec => []TypeOK
<1>1. Init => TypeOK /\ LocalsOK
  BY InitIInv DEF IInv
<1>2. TypeOK /\ LocalsOK /\ [Next]_vars => (TypeOK /\ LocalsOK)'
  BY TypeStep, LocalsStep
<1> QED
  BY <1>1, <1>2, PTL DEF Spec

\* With one naming client the service keeps IInv.
THEOREM Invariance == OneNamer => (Spec => []IInv)
<1> SUFFICES ASSUME OneNamer PROVE Spec => []IInv
  OBVIOUS
<1>1. IInv /\ [Next]_vars => IInv'
  BY TypeStep, LocalsStep, ReadsStep, EditsStep, NameStep, GoneStep DEF IInv
<1> QED
  BY InitIInv, <1>1, PTL DEF Spec

\* No acknowledged edit of a file with one writer is lost (sync/service.go
\* ApplyFileChanges).
THEOREM EditsSurvive == OneNamer => (Spec => []OwnedEditsSurvive)
<1>1. IInv => OwnedEditsSurvive
  BY DEF IInv
<1> QED
  BY <1>1, Invariance, PTL

\* A file with one writer keeps the name it was last given (sync/service.go
\* applyFileMutations).
THEOREM NamesStay == OneNamer => (Spec => []NameAsAsked)
<1>1. IInv => NameAsAsked
  BY DEF IInv
<1> QED
  BY <1>1, Invariance, PTL

\* A file with one writer that was deleted stays deleted until it is uploaded
\* (sync/service.go mutateFileIfNeeded).
THEOREM DeletionsStay == OneNamer => (Spec => []DeletedStaysDeleted)
<1>1. IInv => DeletedStaysDeleted
  BY DEF IInv
<1> QED
  BY <1>1, Invariance, PTL

\* For the files with one writer the service implements FileStore: each
\* request acts on one at one instant, on the file as it then is.
THEOREM Implementation == OneNamer => (Spec => ImplementsFileStore)
<1> SUFFICES ASSUME OneNamer PROVE Spec => Store!Spec
  BY DEF ImplementsFileStore
<1>1. Init => Store!Init
  <2> SUFFICES ASSUME Init PROVE Store!Init
    OBVIOUS
  <2>1. TypeOK /\ NameAsAsked /\ gone = {} /\ saved = [f \in File |-> {}]
    BY InitIInv DEF IInv, Init
  <2>2. [f \in Owned |-> row[f]] \in [Owned ->
           [name : Name, type : Store!Types, ops : SUBSET Op] \cup {NoRow}]
    BY <2>1, OwnedAreFiles DEF TypeOK, Rows, Row, Type, Store!Types
  <2>3. [f \in Owned |-> saved[f]] = [f \in Owned |-> {}]
    BY <2>1, OwnedAreFiles
  <2>4. [f \in Owned |-> name[f]] \in [Owned -> Name]
    BY <2>1, OwnedAreFiles DEF TypeOK
  <2> QED
    BY <2>1, <2>2, <2>3, <2>4 DEF NameAsAsked, Store!Init
<1>2. IInv /\ [Next]_vars => [Store!Next]_(Store!store)
  BY StoreStep DEF IInv
<1> QED
  BY <1>1, <1>2, Invariance, PTL DEF Spec, Store!Spec
-----------------------------------------------------------------------------
(* Whoever writes a file, it loses nothing unless its readers are overtaken *)

\* A client's own read of an undisturbed file is current when it saves it.
LEMMA UndisturbedSave ==
  ASSUME TypeOK, LocalsOK, ReadsUndisturbed, NEW p \in Conn, SaveFile(p)
  PROVE  /\ file[p] \in File
         /\ \A g \in File : g # file[p] => row'[g] = row[g] /\ saved'[g] = saved[g]
         /\ saved'[file[p]] = saved[file[p]] \cup {edit[p]}
         /\ row'[file[p]] # NoRow
         /\ file[p] \notin disturbed =>
              /\ row[file[p]] # NoRow
              /\ row'[file[p]].name = row[file[p]].name
              /\ row'[file[p]].ops = row[file[p]].ops \cup {edit[p]}
<1>1. /\ file[p] \in File /\ edit[p] \in Op /\ snap[p] \in Row
      /\ \A g \in File : g # file[p] => row'[g] = row[g] /\ saved'[g] = saved[g]
      /\ saved'[file[p]] = saved[file[p]] \cup {edit[p]}
      /\ row'[file[p]] = MergeFile(snap[p], edit[p])
  BY DEF TypeOK, Rows, SaveFile, LocalsOK
<1>2. file[p] \notin disturbed => snap[p] = row[file[p]]
  BY DEF ReadsUndisturbed, EditUndisturbed, SaveFile
<1> QED
  BY <1>1, <1>2, MergeFileRow, SyncAssumption

\* And it renames an undisturbed file to what it was asked for, or not at all.
LEMMA UndisturbedRename ==
  ASSUME TypeOK, LocalsOK, ReadsUndisturbed,
         NEW p \in Conn, NEW f \in File, RenameListed(p, f)
  PROVE  /\ \A g \in File : g # f => row'[g] = row[g] /\ name'[g] = name[g]
         /\ f \notin disturbed =>
              /\ row[f] # NoRow /\ row'[f] # NoRow
              /\ row'[f].name = name'[f]
              /\ row'[f].ops = row[f].ops
<1>1. /\ f \in todo[p] /\ ~meta[p][f].deleted
      /\ row'[f] = Mutated(f, meta[p], listing[p])
      /\ \A g \in File : g # f => row'[g] = row[g] /\ name'[g] = name[g]
      /\ Asked(p, f) => name'[f] = meta[p][f].name
  BY DEF RenameListed, TypeOK, Rows
<1>2. ASSUME f \notin disturbed
      PROVE  Asked(p, f) /\ row[f] # NoRow /\ listing[p][f] = row[f]
  BY <1>1, <1>2 DEF ReadsUndisturbed, TodoUndisturbed
<1>3. ASSUME f \notin disturbed
      PROVE  /\ meta[p][f].name \in Name /\ row[f] \in Row
             /\ row'[f] = [row[f] EXCEPT !.name = meta[p][f].name]
  <2>1. meta[p][f] # NoEntry
    BY <1>1 DEF LocalsOK, Mutates
  <2>2. meta[p][f].name \in Name /\ row[f] \in Row
    BY <1>2, <1>3, <2>1 DEF TypeOK, Metadata, Entry, Rows
  <2>3. row'[f] = [row[f] EXCEPT !.name = meta[p][f].name]
    BY <1>1, <1>2, <1>3 DEF Mutated
  <2> QED
    BY <2>2, <2>3
<1>4. \A r \in Row, n \in Name : [r EXCEPT !.name = n] \in Row
  BY DEF Row
<1> QED
  BY <1>1, <1>2, <1>3, <1>4, SyncAssumption DEF Row

\* A step keeps what clients were told about the undisturbed files.
LEMMA LossStep ==
  ASSUME TypeOK, LocalsOK, ReadsUndisturbed, LossTakesOverlap,
         NEW p \in Conn, Step(p), disturbed \subseteq disturbed'
  PROVE  LossTakesOverlap'
<1> USE SyncAssumption DEF TypeOK, LossTakesOverlap
<1>1. CASE SaveFile(p)
  <2>1. name' = name /\ gone' = gone
    BY <1>1 DEF SaveFile
  <2> QED
    BY <1>1, <2>1, UndisturbedSave
<1>2. ASSUME NEW f \in File, RenameListed(p, f)
      PROVE  LossTakesOverlap'
  <2>1. saved' = saved /\ gone' = gone
    BY <1>2 DEF RenameListed
  <2> QED
    BY <1>2, <2>1, UndisturbedRename
<1>3. ASSUME NEW f \in File, DeleteListed(p, f) \/ Delete(p, f)
      PROVE  LossTakesOverlap'
  <2>1. /\ row' = [row EXCEPT ![f] = NoRow] /\ gone' = gone \cup {f}
        /\ saved' = [saved EXCEPT ![f] = {}] /\ name' = name
    BY <1>3 DEF DeleteListed, Delete
  <2> QED
    BY <2>1 DEF Rows
<1>4. ASSUME NEW f \in File, NEW n \in Name, NEW s \in SUBSET Op, Upload(p, f, n, s)
      PROVE  LossTakesOverlap'
  <2>1. [name |-> n, type |-> TypeFor(n), ops |-> s] \in Row
    BY DEF TypeFor, Row, Type
  <2>2. /\ row' = [row EXCEPT ![f] = [name |-> n, type |-> TypeFor(n), ops |-> s]]
        /\ saved' = [saved EXCEPT ![f] = s] /\ name' = [name EXCEPT ![f] = n]
        /\ gone' = gone \ {f}
    BY <1>4 DEF Upload
  <2>3. row'[f] # NoRow /\ row'[f].ops = s /\ row'[f].name = n
    BY <2>1, <2>2 DEF Rows
  <2> QED
    BY <2>2, <2>3 DEF Rows
<1>5. CASE UNCHANGED <<row, history>>
  BY <1>5 DEF history
<1> QED
  BY <1>1, <1>2, <1>3, <1>4, <1>5
  DEF Step, LoadFile, MetadataUpdate, SyncInit, StartMerge, ListFiles,
      DeleteMissing, MutationsDone, Fail

\* What another client has read of a file stays current, or the file is
\* disturbed.
LEMMA OthersUndisturbed ==
  ASSUME TypeOK, LocalsOK, ReadsUndisturbed, NEW p \in Conn, Step(p),
         NEW q \in Conn \ {p},
         disturbed' = disturbed \cup
           {f \in File : \E c \in Conn \ {p} : Overtaken(c, f)}
  PROVE  /\ EditUndisturbed(q)' /\ EntriesUndisturbed(q)' /\ TodoUndisturbed(q)'
<1>1. /\ pc'[q] = pc[q] /\ file'[q] = file[q] /\ snap'[q] = snap[q]
      /\ delta'[q] = delta[q] /\ meta'[q] = meta[q]
      /\ listing'[q] = listing[q] /\ todo'[q] = todo[q]
  BY OthersLocals
<1>2. \A f \in File \ disturbed' : f \notin disturbed /\ ~Overtaken(q, f)
  OBVIOUS
<1>3. EditUndisturbed(q)'
  BY <1>1, <1>2 DEF ReadsUndisturbed, EditUndisturbed, Overtaken, MayWriteBack, TypeOK
<1>4. EntriesUndisturbed(q)'
  BY <1>1, <1>2 DEF ReadsUndisturbed, EntriesUndisturbed, Overtaken,
                    MayRestoreEntry, Asked
<1>5. TodoUndisturbed(q)'
  BY <1>1, <1>2 DEF ReadsUndisturbed, TodoUndisturbed, Overtaken, MayWriteBack,
                    Asked, TypeOK
<1> QED
  BY <1>3, <1>4, <1>5

\* What a client has read is current when it has just read it, and its own
\* writes keep it so.
LEMMA OwnUndisturbed ==
  ASSUME TypeOK, LocalsOK, ReadsUndisturbed, NEW p \in Conn, Step(p),
         disturbed \subseteq disturbed'
  PROVE  /\ EditUndisturbed(p)' /\ EntriesUndisturbed(p)' /\ TodoUndisturbed(p)'
<1> DEFINE Goal == /\ EditUndisturbed(p)'
                   /\ EntriesUndisturbed(p)'
                   /\ TodoUndisturbed(p)'
<1> USE SyncAssumption DEF TypeOK
<1>1. ASSUME NEW f \in File, NEW o \in Op, LoadFile(p, f, o) PROVE Goal
  BY <1>1 DEF LoadFile, LocalsOK, Idle, EditUndisturbed, EntriesUndisturbed,
              TodoUndisturbed, Asked
<1>2. ASSUME NEW d \in Metadata, StartMerge(p, d) PROVE Goal
  <2>1. /\ pc'[p] = "merging" /\ delta'[p] = d
        /\ meta'[p] = SyncMetadata(d, EntriesOf(row)) /\ row' = row
        /\ todo'[p] = {}
    BY <1>2 DEF StartMerge, LocalsOK, Idle, history
  <2>2. \A f \in File : meta'[p][f] = IF d[f] # NoEntry THEN d[f]
                                      ELSE EntriesOf(row)[f]
    BY <2>1 DEF SyncMetadata
  <2>3. EntriesOf(row') = EntriesOf(row)
    BY <2>1
  <2> QED
    BY <2>1, <2>2, <2>3 DEF EditUndisturbed, EntriesUndisturbed,
                            TodoUndisturbed, Asked
<1>3. ASSUME ListFiles(p) PROVE Goal
  <2>1. /\ pc[p] = "merging" /\ pc'[p] = "mutating" /\ listing'[p] = row
        /\ todo'[p] = {f \in File : Mutates(f, meta[p], row)}
        /\ row' = row /\ meta' = meta /\ delta' = delta
    BY <1>3 DEF ListFiles
  <2>2. \A f \in todo'[p] \ disturbed : Asked(p, f) /\ row[f] # NoRow
    <3> SUFFICES ASSUME NEW f \in todo'[p] \ disturbed, ~Asked(p, f)
                 PROVE  FALSE
      BY <2>1 DEF Mutates
    <3>1. meta[p][f] = EntriesOf(row)[f] /\ f \in File /\ Mutates(f, meta[p], row)
      BY <2>1 DEF ReadsUndisturbed, EntriesUndisturbed
    <3> QED
      BY <3>1 DEF Mutates, EntriesOf
  <2> QED
    BY <2>1, <2>2 DEF ReadsUndisturbed, EditUndisturbed, EntriesUndisturbed,
                      TodoUndisturbed, Asked
<1>4. ASSUME NEW f \in File, DeleteListed(p, f) \/ RenameListed(p, f) PROVE Goal
  <2>1. /\ pc' = pc /\ pc[p] = "mutating" /\ listing' = listing /\ meta' = meta
        /\ delta' = delta /\ todo'[p] = todo[p] \ {f}
        /\ \A g \in File : g # f => row'[g] = row[g]
    BY <1>4 DEF DeleteListed, RenameListed, Rows
  <2> QED
    BY <2>1 DEF ReadsUndisturbed, EditUndisturbed, EntriesUndisturbed,
                TodoUndisturbed, Asked
<1>5. CASE pc'[p] = Idle /\ todo'[p] = {}
  BY <1>5 DEF EditUndisturbed, EntriesUndisturbed, TodoUndisturbed, Idle
<1>6. ASSUME NEW f \in File, DeleteMissing(p, f) \/ Delete(p, f)
             \/ \E n \in Name, s \in SUBSET Op : Upload(p, f, n, s)
      PROVE  pc'[p] = Idle /\ todo'[p] = {}
  BY <1>6 DEF DeleteMissing, Finish, Delete, Upload, LocalsOK, local, Idle
<1>7. ASSUME SaveFile(p) \/ MutationsDone(p) \/ Fail(p)
      PROVE  pc'[p] = Idle /\ todo'[p] = {}
  BY <1>7 DEF MutationsDone, Fail, SaveFile, Finish
<1>8. SyncInit(p) => StartMerge(p, NoDelta) /\ NoDelta \in Metadata
  BY AnyInType DEF SyncInit
<1>9. \A d \in Metadata : MetadataUpdate(p, d) => StartMerge(p, d)
  BY DEF MetadataUpdate
<1> QED
  BY <1>1, <1>2, <1>3, <1>4, <1>5, <1>6, <1>7, <1>8, <1>9 DEF Step

\* The parts of OverlapIInv are kept together.
LEMMA OverlapStep ==
  ASSUME OverlapIInv, [OverlapNext]_overlapVars
  PROVE  OverlapIInv'
<1> USE DEF OverlapIInv
<1>1. CASE UNCHANGED overlapVars
  BY <1>1, TypeStep, LocalsStep
  DEF overlapVars, vars, local, history, ReadsUndisturbed, EditUndisturbed,
      EntriesUndisturbed, TodoUndisturbed, Asked, LossTakesOverlap
<1>2. ASSUME NEW p \in Conn, Step(p),
             disturbed' = disturbed \cup
               {f \in File : \E q \in Conn \ {p} : Overtaken(q, f)}
      PROVE  OverlapIInv'
  <2>1. TypeOK' /\ LocalsOK'
    BY <1>2, TypeStep, LocalsStep DEF Next
  <2>2. ReadsUndisturbed'
    <3>1. ASSUME NEW q \in Conn
          PROVE  /\ EditUndisturbed(q)'
                 /\ EntriesUndisturbed(q)'
                 /\ TodoUndisturbed(q)'
      <4>1. CASE q = p
        BY <1>2, <4>1, OwnUndisturbed
      <4>2. CASE q # p
        BY <1>2, <4>2, OthersUndisturbed
      <4> QED
        BY <4>1, <4>2
    <3> QED
      BY <3>1 DEF ReadsUndisturbed
  <2>3. LossTakesOverlap'
    BY <1>2, LossStep
  <2> QED
    BY <1>2, <2>1, <2>2, <2>3
<1> QED
  BY <1>1, <1>2 DEF OverlapNext

\* For any clients and permissions, a file of which no request wrote between
\* a read and a write of another keeps every acknowledged edit, its name, and
\* its deletion (sync/service.go ApplyFileChanges, applyFileMutations).
THEOREM LossTakesAnOverlap == OverlapSpec => []LossTakesOverlap
<1>1. OverlapInit => OverlapIInv
  <2> SUFFICES ASSUME OverlapInit PROVE OverlapIInv
    OBVIOUS
  <2>1. TypeOK /\ LocalsOK /\ disturbed = {}
    BY InitIInv DEF OverlapInit, IInv
  <2>2. ReadsUndisturbed
    BY DEF OverlapInit, Init, ReadsUndisturbed, EditUndisturbed,
           EntriesUndisturbed, TodoUndisturbed, Idle
  <2>3. LossTakesOverlap
    <3>1. PICK n \in TypstName :
            /\ row = [f \in File |-> [name |-> n, type |-> "typst", ops |-> {}]]
            /\ name = [f \in File |-> n]
      BY DEF OverlapInit, Init
    <3>2. [name |-> n, type |-> "typst", ops |-> {}] # NoRow
      BY <3>1, SyncAssumption DEF Row, Type
    <3> QED
      BY <3>1, <3>2 DEF OverlapInit, Init, LossTakesOverlap
  <2> QED
    BY <2>1, <2>2, <2>3 DEF OverlapIInv
<1> QED
  BY <1>1, OverlapStep, PTL DEF OverlapSpec, OverlapIInv
=============================================================================
