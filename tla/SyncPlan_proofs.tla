--------------------------- MODULE SyncPlan_proofs ---------------------------
(* The promises of MCSyncPlan for any files, names and edits.  A behavior  *)
(* never moves, so that each of them is about the first state only.         *)
EXTENDS MCSyncPlan, TLAPS

TypeOK ==
  /\ rows \in Rows
  /\ delta \in Metadata
  /\ vectors \in Vectors
  /\ before \in SUBSET File

LEMMA TypeInvariant == Spec => []TypeOK
<1>1. Init => TypeOK
  BY DEF Init, TypeOK
<1>2. TypeOK /\ [UNCHANGED vars]_vars => TypeOK'
  BY DEF TypeOK, vars
<1> QED
  BY <1>1, <1>2, PTL DEF Spec

\* Merging adds to a delta what the rows say, which changes none of them: what
\* is mutated is listed, and named by the delta.
LEMMA OnlyDeltaMutates ==
  ASSUME TypeOK, NEW t \in Rows, NEW f \in File
  PROVE  /\ Mutates(f, Merged(t), t) <=>
              /\ t[f] # NoRow
              /\ delta[f] # NoEntry
              /\ delta[f].deleted \/ delta[f].name # t[f].name
         /\ delta[f] # NoEntry => Merged(t)[f] = delta[f]
BY DEF TypeOK, Mutates, Merged, SyncMetadata, EntriesOf, Metadata

\* Only what is listed is deleted, so that no deletion fails for want of a row.
LEMMA NeverAborts == ASSUME NEW t PROVE ~Aborts(t)
BY DEF Aborts, Mutates

\* What the mutations of fs leave of a file.
LEMMA Applied ==
  ASSUME TypeOK, NEW t \in Rows, NEW fs, NEW f \in File
  PROVE  Apply(t, fs)[f] =
           IF f \notin fs \/ t[f] = NoRow \/ delta[f] = NoEntry THEN t[f]
           ELSE IF delta[f].deleted THEN NoRow
           ELSE [t[f] EXCEPT !.name = delta[f].name]
<1>1. Apply(t, fs)[f] = IF f \in fs /\ Mutates(f, Merged(t), t)
                        THEN Mutated(f, Merged(t), t) ELSE t[f]
  BY NeverAborts DEF Apply
<1>2. CASE Mutates(f, Merged(t), t)
  BY <1>1, <1>2, OnlyDeltaMutates DEF Mutated
<1>3. CASE ~Mutates(f, Merged(t), t)
  <2>1. CASE t[f] = NoRow \/ delta[f] = NoEntry
    BY <1>1, <1>3, <2>1
  <2>2. CASE t[f] # NoRow /\ delta[f] # NoEntry
    <3>1. /\ ~delta[f].deleted
          /\ delta[f].name = t[f].name
      BY <1>3, <2>2, OnlyDeltaMutates
    <3>2. t[f] \in Row
      BY <2>2 DEF Rows
    <3>3. [t[f] EXCEPT !.name = t[f].name] = t[f]
      BY <3>2 DEF Row
    <3> QED
      BY <1>1, <1>3, <2>2, <3>1, <3>3
  <2> QED
    BY <2>1, <2>2
<1> QED
  BY <1>2, <1>3

\* Renamed rows are rows, so the mutations leave a table.
LEMMA AppliedIsTable ==
  ASSUME TypeOK, NEW fs
  PROVE  Apply(rows, fs) \in Rows
<1> SUFFICES ASSUME NEW f \in File
             PROVE  Apply(rows, fs)[f] \in Row \cup {NoRow}
  BY DEF Apply, Rows
<1>1. CASE f \notin fs \/ rows[f] = NoRow \/ delta[f] = NoEntry \/ delta[f].deleted
  <2>1. rows \in Rows /\ rows[f] \in Row \cup {NoRow}
    BY DEF TypeOK, Rows
  <2>2. Apply(rows, fs)[f] =
          IF f \notin fs \/ rows[f] = NoRow \/ delta[f] = NoEntry THEN rows[f]
          ELSE IF delta[f].deleted THEN NoRow
          ELSE [rows[f] EXCEPT !.name = delta[f].name]
    BY <2>1, Applied
  <2> QED
    BY <1>1, <2>1, <2>2
<1>2. CASE ~(f \notin fs \/ rows[f] = NoRow \/ delta[f] = NoEntry \/ delta[f].deleted)
  <2>1. rows[f] \in Row /\ delta[f] \in Entry
    BY <1>2 DEF TypeOK, Rows, Metadata
  <2>2. [rows[f] EXCEPT !.name = delta[f].name] \in Row
    BY <2>1 DEF Row, Entry
  <2>3. Apply(rows, fs)[f] = [rows[f] EXCEPT !.name = delta[f].name]
    BY <1>2, Applied DEF TypeOK
  <2> QED
    BY <2>2, <2>3
<1> QED
  BY <1>1, <1>2

-----------------------------------------------------------------------------
\* An undisturbed metadata update does to every file what its delta asks, and
\* nothing else (sync/service.go ApplyMetadataUpdate).
THEOREM UpdateIsIntended == Spec => []UpdateDoesIntended
<1>1. ASSUME TypeOK, NEW f \in File
      PROVE  Apply(rows, File)[f] = Intended(f)
  <2>1. Apply(rows, File)[f] =
          IF rows[f] = NoRow \/ delta[f] = NoEntry THEN rows[f]
          ELSE IF delta[f].deleted THEN NoRow
          ELSE [rows[f] EXCEPT !.name = delta[f].name]
    BY <1>1, Applied DEF TypeOK
  <2> QED
    BY <2>1 DEF Intended
<1>2. TypeOK => UpdateDoesIntended
  BY <1>1 DEF UpdateDoesIntended
<1> QED
  BY <1>2, TypeInvariant, PTL

\* Whichever files a failed attempt reached, the same delta sent again leaves
\* what it would have left at once (sync/service.go applyFileMutations).
THEOREM RetryIsComplete == Spec => []RetryCompletes
<1>1. ASSUME TypeOK
      PROVE  RetryCompletes
  <2> DEFINE t == Apply(rows, before)
  <2>1. t \in Rows
    BY <1>1, AppliedIsTable
  <2>2. ASSUME NEW f \in File
        PROVE  Apply(t, File)[f] = Apply(rows, File)[f]
    <3>1. rows \in Rows /\ (rows[f] = NoRow \/ rows[f] \in Row)
      BY <1>1 DEF TypeOK, Rows
    <3>2. t[f] = IF f \notin before \/ rows[f] = NoRow \/ delta[f] = NoEntry
                 THEN rows[f]
                 ELSE IF delta[f].deleted THEN NoRow
                 ELSE [rows[f] EXCEPT !.name = delta[f].name]
      BY <1>1, <3>1, Applied
    <3>3. Apply(rows, File)[f] =
            IF rows[f] = NoRow \/ delta[f] = NoEntry THEN rows[f]
            ELSE IF delta[f].deleted THEN NoRow
            ELSE [rows[f] EXCEPT !.name = delta[f].name]
      BY <1>1, <3>1, Applied
    <3>4. Apply(t, File)[f] =
            IF t[f] = NoRow \/ delta[f] = NoEntry THEN t[f]
            ELSE IF delta[f].deleted THEN NoRow
            ELSE [t[f] EXCEPT !.name = delta[f].name]
      BY <1>1, <2>1, Applied
    <3> HIDE DEF t
    <3> QED
      BY <3>1, <3>2, <3>3, <3>4 DEF Row
  <2>3. /\ Apply(t, File) = [f \in File |-> Apply(t, File)[f]]
        /\ Apply(rows, File) = [f \in File |-> Apply(rows, File)[f]]
    BY DEF Apply
  <2> QED
    BY <2>2, <2>3 DEF RetryCompletes
<1> QED
  BY <1>1, TypeInvariant, PTL

\* What sync_init lists are the rows' own entries, which mutate no row.
LEMMA SyncInitEntries ==
  ASSUME NEW f \in File
  PROVE  /\ rows[f] = NoRow => SyncMeta[f] = NoEntry
         /\ rows[f] # NoRow =>
              SyncMeta[f].name = rows[f].name /\ ~SyncMeta[f].deleted
BY DEF SyncMeta, SyncMetadata, EntriesOf, NoDelta

\* A sync_init that runs undisturbed changes no file (sync/service.go SyncInit).
THEOREM SyncInitOnlyReads == Spec => []SyncInitMutatesNothing
<1>1. SyncInitMutatesNothing
  BY SyncInitEntries DEF SyncInitMutatesNothing, Mutates
<1> QED
  BY <1>1, PTL

\* A client that does what a sync_response tells it misses no edit of a Typst
\* file, whatever it had before (sync/service.go generateInstructions).
THEOREM FollowersCatchUp == Spec => []ClientCatchesUp
<1>1. ASSUME TypeOK, NEW f \in File, rows[f] # NoRow,
             vectors[f] = NoVector \/ rows[f].type = "typst"
      PROVE  /\ rows[f].ops \subseteq ClientAfter(f)
             /\ vectors[f] = NoVector => Answer(f) = "download"
  <2>1. ~UploadInstruction(f, SyncMeta, rows) /\ ServerInstruction(f, SyncMeta, rows)
    BY <1>1, SyncInitEntries DEF UploadInstruction, ServerInstruction
  <2>2. CASE vectors[f] = NoVector
    BY <2>1, <2>2 DEF Answer, Instruction, ClientAfter
  <2>3. CASE vectors[f] # NoVector /\ rows[f].ops \subseteq vectors[f]
    BY <2>1, <2>3 DEF Answer, Instruction, ClientAfter
  <2>4. CASE vectors[f] # NoVector /\ ~(rows[f].ops \subseteq vectors[f])
    <3>1. Answer(f) = "apply_changes"
      BY <1>1, <2>1, <2>4 DEF Answer, Instruction
    <3> QED
      BY <2>4, <3>1 DEF ClientAfter
  <2> QED
    BY <2>2, <2>3, <2>4
<1>2. TypeOK => ClientCatchesUp
  BY <1>1 DEF ClientCatchesUp
<1> QED
  BY <1>2, TypeInvariant, PTL
=============================================================================
