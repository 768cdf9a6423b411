--------------------------- MODULE BlobFiles_proofs ---------------------------
(* Proofs about BlobFiles for any requests, files, names and contents.     *)
EXTENDS BlobOverlap, TLAPS

\* Every step keeps the types.
LEMMA TypeStep ==
  ASSUME TypeOK, RequestsSound, [Next]_vars
  PROVE  TypeOK'
<1> USE BlobAssumption DEF TypeOK, Key, PC, RequestsSound
<1>1. ASSUME NEW r \in Request, NEW f \in File, NEW n \in Name,
            NEW c \in Content,
            Upload(r, f, n, c)
     PROVE  TypeOK'
  BY <1>1 DEF Upload, Begin, MayBegin
<1>2. ASSUME NEW r \in Request, NEW f \in File, NEW n \in Name,
            Rename(r, f, n)
     PROVE  TypeOK'
  BY <1>2 DEF Rename, Begin, MayBegin
<1>3. ASSUME NEW r \in Request, PutBlob(r)
     PROVE  TypeOK'
  BY <1>3 DEF PutBlob, Goto, BlobKey
<1>4. ASSUME NEW r \in Request, SaveRow(r)
     PROVE  TypeOK'
  BY <1>4 DEF SaveRow, Finish, BlobKey
<1>5. ASSUME NEW r \in Request, NEW f \in File, HandleDelete(r, f)
     PROVE  TypeOK'
  BY <1>5 DEF HandleDelete, Begin, MayBegin
<1>6. ASSUME NEW r \in Request, NEW f \in File, DeleteListed(r, f)
     PROVE  TypeOK'
  BY <1>6 DEF DeleteListed, Begin, MayBegin
<1>7. ASSUME NEW r \in Request, FindBlob(r)
     PROVE  TypeOK'
  BY <1>7 DEF FindBlob, Goto
<1>8. ASSUME NEW r \in Request, SkipBlob(r)
     PROVE  TypeOK'
  BY <1>8 DEF SkipBlob, Goto
<1>9. ASSUME NEW r \in Request, RemoveBlob(r)
     PROVE  TypeOK'
  BY <1>9 DEF RemoveBlob, Goto, BlobKey
<1>10. ASSUME NEW r \in Request, RemoveBlobFails(r)
     PROVE  TypeOK'
  BY <1>10 DEF RemoveBlobFails, Goto
<1>11. ASSUME NEW r \in Request, DropRow(r)
     PROVE  TypeOK'
  BY <1>11 DEF DropRow, Finish
<1>12. ASSUME NEW r \in Request, Fail(r)
     PROVE  TypeOK'
  BY <1>12 DEF Fail, Finish
<1>13. CASE UNCHANGED vars
  BY <1>13 DEF vars, BlobKey
<1> QED
  BY <1>1, <1>2, <1>3, <1>4, <1>5, <1>6, <1>7, <1>8, <1>9, <1>10, <1>11,
     <1>12, <1>13 DEF Next, Act

\* A request keeps its file, name and content as long as it needs them.
LEMMA RequestStep ==
  ASSUME TypeOK, RequestsSound, [Next]_vars
  PROVE  RequestsSound'
<1> USE BlobAssumption DEF TypeOK, Key, PC, RequestsSound
<1>1. ASSUME NEW r \in Request, NEW f \in File, NEW n \in Name,
            NEW c \in Content,
            Upload(r, f, n, c)
     PROVE  RequestsSound'
  BY <1>1 DEF Upload, Begin, MayBegin
<1>2. ASSUME NEW r \in Request, NEW f \in File, NEW n \in Name,
            Rename(r, f, n)
     PROVE  RequestsSound'
  BY <1>2 DEF Rename, Begin, MayBegin
<1>3. ASSUME NEW r \in Request, PutBlob(r)
     PROVE  RequestsSound'
  BY <1>3 DEF PutBlob, Goto, BlobKey
<1>4. ASSUME NEW r \in Request, SaveRow(r)
     PROVE  RequestsSound'
  BY <1>4 DEF SaveRow, Finish, BlobKey
<1>5. ASSUME NEW r \in Request, NEW f \in File, HandleDelete(r, f)
     PROVE  RequestsSound'
  BY <1>5 DEF HandleDelete, Begin, MayBegin
<1>6. ASSUME NEW r \in Request, NEW f \in File, DeleteListed(r, f)
     PROVE  RequestsSound'
  BY <1>6 DEF DeleteListed, Begin, MayBegin
<1>7. ASSUME NEW r \in Request, FindBlob(r)
     PROVE  RequestsSound'
  BY <1>7 DEF FindBlob, Goto
<1>8. ASSUME NEW r \in Request, SkipBlob(r)
     PROVE  RequestsSound'
  BY <1>8 DEF SkipBlob, Goto
<1>9. ASSUME NEW r \in Request, RemoveBlob(r)
     PROVE  RequestsSound'
  BY <1>9 DEF RemoveBlob, Goto, BlobKey
<1>10. ASSUME NEW r \in Request, RemoveBlobFails(r)
     PROVE  RequestsSound'
  BY <1>10 DEF RemoveBlobFails, Goto
<1>11. ASSUME NEW r \in Request, DropRow(r)
     PROVE  RequestsSound'
  BY <1>11 DEF DropRow, Finish
<1>12. ASSUME NEW r \in Request, Fail(r)
     PROVE  RequestsSound'
  BY <1>12 DEF Fail, Finish
<1>13. CASE UNCHANGED vars
  BY <1>13 DEF vars, BlobKey
<1> QED
  BY <1>1, <1>2, <1>3, <1>4, <1>5, <1>6, <1>7, <1>8, <1>9, <1>10, <1>11,
     <1>12, <1>13 DEF Next, Act

\* Only a deletion takes a blob out of the bucket.
LEMMA UploadedStep ==
  ASSUME TypeOK, RequestsSound, UploadedBlobStays, [Next]_vars
  PROVE  UploadedBlobStays'
<1> USE BlobAssumption DEF TypeOK, Key, PC, RequestsSound, UploadedBlobStays,
                           BlobKey
<1>1. ASSUME NEW r \in Request, NEW f \in File, NEW n \in Name,
            NEW c \in Content,
            Upload(r, f, n, c)
     PROVE  UploadedBlobStays'
  BY <1>1 DEF Upload, Begin, MayBegin
<1>2. ASSUME NEW r \in Request, NEW f \in File, NEW n \in Name,
            Rename(r, f, n)
     PROVE  UploadedBlobStays'
  BY <1>2 DEF Rename, Begin, MayBegin
<1>3. ASSUME NEW r \in Request, PutBlob(r)
     PROVE  UploadedBlobStays'
  BY <1>3 DEF PutBlob, Goto, BlobKey
<1>4. ASSUME NEW r \in Request, SaveRow(r)
     PROVE  UploadedBlobStays'
  BY <1>4 DEF SaveRow, Finish, BlobKey
<1>5. ASSUME NEW r \in Request, NEW f \in File, HandleDelete(r, f)
     PROVE  UploadedBlobStays'
  BY <1>5 DEF HandleDelete, Begin, MayBegin
<1>6. ASSUME NEW r \in Request, NEW f \in File, DeleteListed(r, f)
     PROVE  UploadedBlobStays'
  BY <1>6 DEF DeleteListed, Begin, MayBegin
<1>7. ASSUME NEW r \in Request, FindBlob(r)
     PROVE  UploadedBlobStays'
  BY <1>7 DEF FindBlob, Goto
<1>8. ASSUME NEW r \in Request, SkipBlob(r)
     PROVE  UploadedBlobStays'
  BY <1>8 DEF SkipBlob, Goto
<1>9. ASSUME NEW r \in Request, RemoveBlob(r)
     PROVE  UploadedBlobStays'
  BY <1>9 DEF RemoveBlob, Goto, BlobKey
<1>10. ASSUME NEW r \in Request, RemoveBlobFails(r)
     PROVE  UploadedBlobStays'
  BY <1>10 DEF RemoveBlobFails, Goto
<1>11. ASSUME NEW r \in Request, DropRow(r)
     PROVE  UploadedBlobStays'
  BY <1>11 DEF DropRow, Finish
<1>12. ASSUME NEW r \in Request, Fail(r)
     PROVE  UploadedBlobStays'
  BY <1>12 DEF Fail, Finish
<1>13. CASE UNCHANGED vars
  BY <1>13 DEF vars, BlobKey
<1> QED
  BY <1>1, <1>2, <1>3, <1>4, <1>5, <1>6, <1>7, <1>8, <1>9, <1>10, <1>11,
     <1>12, <1>13 DEF Next, Act

\* A row names a blob that has been uploaded before.
LEMMA RowStep ==
  ASSUME TypeOK, RequestsSound, UploadedBlobStays, RowHasBlob, [Next]_vars
  PROVE  RowHasBlob'
<1> USE BlobAssumption DEF TypeOK, Key, PC, RequestsSound, UploadedBlobStays,
                           BlobKey, RowHasBlob
<1>1. ASSUME NEW r \in Request, NEW f \in File, NEW n \in Name,
            NEW c \in Content,
            Upload(r, f, n, c)
     PROVE  RowHasBlob'
  BY <1>1 DEF Upload, Begin, MayBegin
<1>2. ASSUME NEW r \in Request, NEW f \in File, NEW n \in Name,
            Rename(r, f, n)
     PROVE  RowHasBlob'
  BY <1>2 DEF Rename, Begin, MayBegin
<1>3. ASSUME NEW r \in Request, PutBlob(r)
     PROVE  RowHasBlob'
  BY <1>3 DEF PutBlob, Goto, BlobKey
<1>4. ASSUME NEW r \in Request, SaveRow(r)
     PROVE  RowHasBlob'
  BY <1>4 DEF SaveRow, Finish, BlobKey
<1>5. ASSUME NEW r \in Request, NEW f \in File, HandleDelete(r, f)
     PROVE  RowHasBlob'
  BY <1>5 DEF HandleDelete, Begin, MayBegin
<1>6. ASSUME NEW r \in Request, NEW f \in File, DeleteListed(r, f)
     PROVE  RowHasBlob'
  BY <1>6 DEF DeleteListed, Begin, MayBegin
<1>7. ASSUME NEW r \in Request, FindBlob(r)
     PROVE  RowHasBlob'
  BY <1>7 DEF FindBlob, Goto
<1>8. ASSUME NEW r \in Request, SkipBlob(r)
     PROVE  RowHasBlob'
  BY <1>8 DEF SkipBlob, Goto
<1>9. ASSUME NEW r \in Request, RemoveBlob(r)
     PROVE  RowHasBlob'
  BY <1>9 DEF RemoveBlob, Goto, BlobKey
<1>10. ASSUME NEW r \in Request, RemoveBlobFails(r)
     PROVE  RowHasBlob'
  BY <1>10 DEF RemoveBlobFails, Goto
<1>11. ASSUME NEW r \in Request, DropRow(r)
     PROVE  RowHasBlob'
  BY <1>11 DEF DropRow, Finish
<1>12. ASSUME NEW r \in Request, Fail(r)
     PROVE  RowHasBlob'
  BY <1>12 DEF Fail, Finish
<1>13. CASE UNCHANGED vars
  BY <1>13 DEF vars, BlobKey
<1> QED
  BY <1>1, <1>2, <1>3, <1>4, <1>5, <1>6, <1>7, <1>8, <1>9, <1>10, <1>11,
     <1>12, <1>13 DEF Next, Act

\* Requests about other files use other keys.
LEMMA OwnStep ==
  ASSUME TypeOK, RequestsSound, UploadedBlobIsOwn, [Next]_vars
  PROVE  UploadedBlobIsOwn'
<1> USE BlobAssumption DEF TypeOK, Key, PC, RequestsSound, UploadedBlobIsOwn,
                           BlobKey
<1>1. ASSUME NEW r \in Request, NEW f \in File, NEW n \in Name,
            NEW c \in Content,
            Upload(r, f, n, c)
     PROVE  UploadedBlobIsOwn'
  BY <1>1 DEF Upload, Begin, MayBegin
<1>2. ASSUME NEW r \in Request, NEW f \in File, NEW n \in Name,
            Rename(r, f, n)
     PROVE  UploadedBlobIsOwn'
  BY <1>2 DEF Rename, Begin, MayBegin
<1>3. ASSUME NEW r \in Request, PutBlob(r)
     PROVE  UploadedBlobIsOwn'
  BY <1>3 DEF PutBlob, Goto, BlobKey
<1>4. ASSUME NEW r \in Request, SaveRow(r)
     PROVE  UploadedBlobIsOwn'
  BY <1>4 DEF SaveRow, Finish, BlobKey
<1>5. ASSUME NEW r \in Request, NEW f \in File, HandleDelete(r, f)
     PROVE  UploadedBlobIsOwn'
  BY <1>5 DEF HandleDelete, Begin, MayBegin
<1>6. ASSUME NEW r \in Request, NEW f \in File, DeleteListed(r, f)
     PROVE  UploadedBlobIsOwn'
  BY <1>6 DEF DeleteListed, Begin, MayBegin
<1>7. ASSUME NEW r \in Request, FindBlob(r)
     PROVE  UploadedBlobIsOwn'
  BY <1>7 DEF FindBlob, Goto
<1>8. ASSUME NEW r \in Request, SkipBlob(r)
     PROVE  UploadedBlobIsOwn'
  BY <1>8 DEF SkipBlob, Goto
<1>9. ASSUME NEW r \in Request, RemoveBlob(r)
     PROVE  UploadedBlobIsOwn'
  BY <1>9 DEF RemoveBlob, Goto, BlobKey
<1>10. ASSUME NEW r \in Request, RemoveBlobFails(r)
     PROVE  UploadedBlobIsOwn'
  BY <1>10 DEF RemoveBlobFails, Goto
<1>11. ASSUME NEW r \in Request, DropRow(r)
     PROVE  UploadedBlobIsOwn'
  BY <1>11 DEF DropRow, Finish
<1>12. ASSUME NEW r \in Request, Fail(r)
     PROVE  UploadedBlobIsOwn'
  BY <1>12 DEF Fail, Finish
<1>13. CASE UNCHANGED vars
  BY <1>13 DEF vars, BlobKey
<1> QED
  BY <1>1, <1>2, <1>3, <1>4, <1>5, <1>6, <1>7, <1>8, <1>9, <1>10, <1>11,
     <1>12, <1>13 DEF Next, Act

\* Without a rename only an upload or a deletion changes a file's content.
LEMMA AckStep ==
  ASSUME TypeOK, RequestsSound, UploadedBlobIsOwn,
         UnrenamedContentStays, [Next]_vars
  PROVE  UnrenamedContentStays'
<1> USE BlobAssumption DEF TypeOK, Key, PC, RequestsSound, UploadedBlobIsOwn,
                           BlobKey, UnrenamedContentStays,
                           ContentAsAcknowledged
<1>1. ASSUME NEW r \in Request, NEW f \in File, NEW n \in Name,
            NEW c \in Content,
            Upload(r, f, n, c)
     PROVE  UnrenamedContentStays'
  BY <1>1 DEF Upload, Begin, MayBegin
<1>2. ASSUME NEW r \in Request, NEW f \in File, NEW n \in Name,
            Rename(r, f, n)
     PROVE  UnrenamedContentStays'
  BY <1>2 DEF Rename, Begin, MayBegin
<1>3. ASSUME NEW r \in Request, PutBlob(r)
     PROVE  UnrenamedContentStays'
  BY <1>3 DEF PutBlob, Goto, BlobKey
<1>4. ASSUME NEW r \in Request, SaveRow(r)
     PROVE  UnrenamedContentStays'
  BY <1>4 DEF SaveRow, Finish, BlobKey
<1>5. ASSUME NEW r \in Request, NEW f \in File, HandleDelete(r, f)
     PROVE  UnrenamedContentStays'
  BY <1>5 DEF HandleDelete, Begin, MayBegin
<1>6. ASSUME NEW r \in Request, NEW f \in File, DeleteListed(r, f)
     PROVE  UnrenamedContentStays'
  BY <1>6 DEF DeleteListed, Begin, MayBegin
<1>7. ASSUME NEW r \in Request, FindBlob(r)
     PROVE  UnrenamedContentStays'
  BY <1>7 DEF FindBlob, Goto
<1>8. ASSUME NEW r \in Request, SkipBlob(r)
     PROVE  UnrenamedContentStays'
  BY <1>8 DEF SkipBlob, Goto
<1>9. ASSUME NEW r \in Request, RemoveBlob(r)
     PROVE  UnrenamedContentStays'
  BY <1>9 DEF RemoveBlob, Goto, BlobKey
<1>10. ASSUME NEW r \in Request, RemoveBlobFails(r)
     PROVE  UnrenamedContentStays'
  BY <1>10 DEF RemoveBlobFails, Goto
<1>11. ASSUME NEW r \in Request, DropRow(r)
     PROVE  UnrenamedContentStays'
  BY <1>11 DEF DropRow, Finish
<1>12. ASSUME NEW r \in Request, Fail(r)
     PROVE  UnrenamedContentStays'
  BY <1>12 DEF Fail, Finish
<1>13. CASE UNCHANGED vars
  BY <1>13 DEF vars, BlobKey
<1> QED
  BY <1>1, <1>2, <1>3, <1>4, <1>5, <1>6, <1>7, <1>8, <1>9, <1>10, <1>11,
     <1>12, <1>13 DEF Next, Act

\* The conjunction of the invariants holds in every state of every behaviour.
THEOREM Invariance == Spec => []IInv
<1>1. Init => IInv
  BY BlobAssumption
  DEF Init, IInv, TypeOK, RequestsSound, UploadedBlobStays, UploadedBlobIsOwn,
      RowHasBlob, UnrenamedContentStays, ContentAsAcknowledged, PC, Key
<1>2. IInv /\ [Next]_vars => IInv'
  BY TypeStep, RequestStep, UploadedStep, RowStep, OwnStep, AckStep DEF IInv
<1> QED
  BY <1>1, <1>2, PTL DEF Spec

\* The variables keep their types (both stores and the requests' locals).
THEOREM TypeCorrect == Spec => []TypeOK
  BY Invariance, PTL DEF IInv

\* Uploads and renames that overlap and fail anywhere leave no listed file
\* without a blob, unless it is deleted too (composite SaveBinaryFile).
THEOREM ListedIsReadable == Spec => []RowHasBlob
  BY Invariance, PTL DEF IInv

\* If no file is renamed about which requests come one at a time, such a file
\* has the content it was acknowledged to have (composite repository).
THEOREM ContentStays ==
  ASSUME Serial \cap Renamable = {}
  PROVE  Spec => []AcknowledgedContentStays
<1>1. IInv => AcknowledgedContentStays
  BY DEF IInv, UnrenamedContentStays, AcknowledgedContentStays
<1> QED
  BY <1>1, Invariance, PTL
-----------------------------------------------------------------------------
(* BlobFiles implements ContentStore on the files it serves *)

\* A file with a request in progress is about what that request asked for.
LEMMA WantedOfRequest ==
  ASSUME UploadedBlobIsOwn, NEW r \in Request, file[r] \in Served
  PROVE  Wanted[file[r]] = {content[r]}
  BY DEF UploadedBlobIsOwn, Wanted, Served

\* A request that ends leaves nothing wanted of its file.
LEMMA FinishedWanted ==
  ASSUME TypeOK, UploadedBlobIsOwn, BlobAssumption, NEW r \in Request, Finish(r)
  PROVE  /\ file[r] \in Served =>
              Wanted' = [Wanted EXCEPT ![file[r]] = {}]
         /\ file[r] \notin Served => Wanted' = Wanted
<1>1. \A q \in Request \ {r} : file'[q] = file[q] /\ content'[q] = content[q]
  BY DEF Finish, TypeOK
<1>2. file'[r] = None /\ None \notin Served
  BY DEF Finish, TypeOK, BlobAssumption, Served
<1>3. \A f \in Served : f # file[r] => Wanted'[f] = Wanted[f]
  BY <1>1, <1>2 DEF Wanted
<1>4. file[r] \in Served => Wanted'[file[r]] = {}
  BY <1>1, <1>2 DEF Wanted, UploadedBlobIsOwn, Served
<1>5. /\ Wanted = [f \in Served |-> Wanted[f]]
      /\ Wanted' = [f \in Served |-> Wanted'[f]]
  BY DEF Wanted
<1> QED
  BY <1>3, <1>4, <1>5

\* A request that begins is about a file that nothing was wanted of.
LEMMA BegunWanted ==
  ASSUME TypeOK, RequestsSound, BlobAssumption,
         NEW r \in Request, NEW f \in File, NEW c,
         MayBegin(r, f),
         file' = [file EXCEPT ![r] = f], content' = [content EXCEPT ![r] = c]
  PROVE  /\ f \in Served => Wanted[f] = {}
         /\ f \in Served => Wanted' = [Wanted EXCEPT ![f] = {c}]
         /\ f \notin Served => Wanted' = Wanted
<1>0. file[r] \notin Served
  BY DEF MayBegin, RequestsSound, BlobAssumption, Served
<1>1. \A q \in Request \ {r} : file'[q] = file[q] /\ content'[q] = content[q]
  BY DEF TypeOK
<1>2. file'[r] = f /\ content'[r] = c
  BY DEF TypeOK
<1>3. f \in Served => \A q \in Request : file[q] # f
  BY DEF MayBegin, Served
<1>4. \A g \in Served : g # f /\ g # file[r] => Wanted'[g] = Wanted[g]
  BY <1>1, <1>2 DEF Wanted
<1>5. f \in Served => Wanted[f] = {} /\ Wanted'[f] = {c}
  BY <1>1, <1>2, <1>3 DEF Wanted
<1>6. /\ Wanted = [g \in Served |-> Wanted[g]]
      /\ Wanted' = [g \in Served |-> Wanted'[g]]
  BY DEF Wanted
<1> QED
  BY <1>0, <1>4, <1>5, <1>6

\* Every step is one of ContentStore about the file of its request, or
\* changes nothing that ContentStore knows of.
LEMMA StoreRefined ==
  ASSUME BlobAssumption, IInv, [Next]_vars
  PROVE  [Store!Next]_(Store!store)
<1> DEFINE Acked == [f \in Served |-> acked[f]]
           Step(f, c) == \/ Store!Begin(f, c)
                         \/ Store!Touch(f, c)
                         \/ Store!Complete(f, c)
           Wish == Content \cup {None}
<1> USE DEF IInv
<1>a. /\ Served \subseteq File /\ Served \subseteq Serial
      /\ None \notin Served
      /\ Readable = [f \in Served |-> Readable[f]]
      /\ Readable' = [f \in Served |-> Readable'[f]]
      /\ Wanted' = [f \in Served |-> Wanted'[f]]
  BY BlobAssumption DEF Served, Readable, Wanted
<1>b. ASSUME NEW r \in Request, pc[r] # "idle", file[r] \in Served
      PROVE  Wanted[file[r]] = {content[r]} /\ content[r] \in Wish
  <2>1. r \notin renames
    BY <1>b DEF RequestsSound, Served
  <2>2. content[r] \in Wish
    BY <1>b, <2>1 DEF RequestsSound, PC, TypeOK
  <2> QED
    BY <1>b, <2>2, WantedOfRequest
<1>1. ASSUME NEW r \in Request, NEW f \in File, NEW n, NEW c \in Wish, NEW l,
             Begin(r, l, f, n, c)
      PROVE  \/ f \in Served /\ Step(f, c)
             \/ UNCHANGED Store!store
  <2>1. /\ f \in Served => Wanted[f] = {} /\ Wanted' = [Wanted EXCEPT ![f] = {c}]
        /\ f \notin Served => Wanted' = Wanted
    BY <1>1, BegunWanted DEF Begin
  <2>2. Readable' = Readable /\ Acked' = Acked
    BY <1>1 DEF Begin, Readable
  <2> QED
    BY <2>1, <2>2 DEF Store!Begin, Store!store
<1>2. ASSUME NEW r \in Request, \/ PutBlob(r)
                                \/ RemoveBlob(r)
      PROVE  \/ \E g \in Served, c \in Wish : g = file[r] /\ Step(g, c)
             \/ UNCHANGED Store!store
  <2> DEFINE f == file[r]
  <2>1. /\ pc[r] # "idle" /\ f \in File /\ name[r] \in Name
        /\ UNCHANGED <<row, file, content>>
    BY <1>2 DEF PutBlob, RemoveBlob, Goto, RequestsSound
  <2>2. Wanted' = Wanted
    BY <2>1 DEF Wanted
  <2>3. /\ \A k \in Key : k # BlobKey(r) => blob'[k] = blob[k]
        /\ \A g \in File \ {f} : acked'[g] = acked[g]
    BY <1>2 DEF PutBlob, RemoveBlob, TypeOK
  <2>4. \A g \in Served \ {f} : Readable'[g] = Readable[g]
    <3> SUFFICES ASSUME NEW g \in Served \ {f}
                 PROVE  Readable'[g] = Readable[g]
      OBVIOUS
    <3>1. CASE row[g] = None
      BY <2>1, <3>1 DEF Readable
    <3>2. CASE row[g] # None
      BY <1>a, <2>1, <2>3, <3>2 DEF Readable, BlobKey, Key, TypeOK
    <3> QED
      BY <3>1, <3>2
  <2>5. CASE f \notin Served
    BY <1>a, <2>2, <2>3, <2>4, <2>5 DEF Store!store
  <2>6. CASE f \in Served
    <3>1. Wanted[f] = {content[r]} /\ content[r] \in Wish
      BY <1>b, <2>1, <2>6
    <3>2. r \notin renames
      BY <2>6 DEF RequestsSound, Served
    <3>3. /\ blob'[BlobKey(r)] = content[r]
          /\ acked'[f] = None
      BY <1>2, <2>1, <3>2 DEF PutBlob, RemoveBlob, BlobKey, Key, TypeOK,
                              RequestsSound
    <3>4. Readable'[f] \in {Readable[f], content[r]}
      BY <2>1, <2>3, <2>6, <3>3 DEF Readable, BlobKey, Key, TypeOK
    <3>5. Acked' = [Acked EXCEPT ![f] = None]
      BY <1>a, <2>3, <2>6, <3>3
    <3>6. Readable' = [Readable EXCEPT ![f] = Readable'[f]]
      BY <1>a, <2>4, <2>6
    <3>7. Store!Touch(f, content[r])
      BY <2>2, <3>1, <3>4, <3>5, <3>6 DEF Store!Touch
    <3> QED
      BY <2>6, <3>1, <3>7 DEF Store!Touch
  <2> QED
    BY <2>5, <2>6
<1>3. ASSUME NEW r \in Request, \/ SaveRow(r)
                                \/ DropRow(r)
      PROVE  \/ \E g \in Served, c \in Wish : g = file[r] /\ Step(g, c)
             \/ UNCHANGED Store!store
  <2> DEFINE f == file[r]
  <2>1. pc[r] # "idle" /\ f \in File /\ Finish(r) /\ blob' = blob
    BY <1>3 DEF SaveRow, DropRow, RequestsSound
  <2>2. \A g \in File \ {f} : acked'[g] = acked[g] /\ row'[g] = row[g]
    BY <1>3 DEF SaveRow, DropRow, TypeOK
  <2>3. \A g \in Served \ {f} : Readable'[g] = Readable[g]
    BY <1>a, <2>1, <2>2 DEF Readable
  <2>4. CASE f \notin Served
    BY <1>a, <2>1, <2>2, <2>3, <2>4, FinishedWanted DEF Store!store
  <2>5. CASE f \in Served
    <3>1. /\ Wanted[f] = {content[r]} /\ content[r] \in Wish
          /\ Wanted' = [Wanted EXCEPT ![f] = {}]
      BY <1>b, <2>1, <2>5, FinishedWanted
    <3>2. r \notin renames
      BY <2>5 DEF RequestsSound, Served
    <3>3. ASSUME SaveRow(r)
          PROVE  Readable'[f] = content[r] /\ acked'[f] = content[r]
      <4>1. row'[f] = name[r] /\ acked'[f] = content[r] /\ name[r] \in Name
        BY <2>1, <3>2, <3>3 DEF SaveRow, TypeOK, RequestsSound
      <4>2. blob[<<f, name[r]>>] = content[r]
        BY <2>5, <3>3 DEF SaveRow, UploadedBlobIsOwn, BlobKey, Served
      <4> QED
        BY <2>1, <2>5, <4>1, <4>2, BlobAssumption DEF Readable
    <3>4. ASSUME DropRow(r)
          PROVE  Readable'[f] = content[r] /\ acked'[f] = content[r]
      <4>1. row'[f] = None /\ acked'[f] = None /\ content[r] = None
        BY <2>1, <3>4 DEF DropRow, TypeOK, RequestsSound
      <4> QED
        BY <2>5, <4>1 DEF Readable
    <3>5. Readable'[f] = content[r] /\ acked'[f] = content[r]
      BY <1>3, <3>3, <3>4
    <3>6. /\ Acked' = [Acked EXCEPT ![f] = content[r]]
          /\ Readable' = [Readable EXCEPT ![f] = content[r]]
      BY <1>a, <2>2, <2>3, <2>5, <3>5
    <3>7. Store!Complete(f, content[r])
      BY <3>1, <3>6 DEF Store!Complete
    <3> QED
      BY <2>5, <3>1, <3>7 DEF Store!Complete
  <2> QED
    BY <2>4, <2>5
<1>4. ASSUME NEW r \in Request, Fail(r)
      PROVE  \/ file[r] \in Served /\ Store!GiveUp(file[r])
             \/ UNCHANGED Store!store
  <2>1. Finish(r) /\ Readable' = Readable /\ Acked' = Acked
    BY <1>4 DEF Fail, Readable
  <2> QED
    BY <2>1, FinishedWanted DEF Store!GiveUp, Store!store
<1>5. ASSUME \/ \E r \in Request : \/ FindBlob(r)
                                   \/ SkipBlob(r)
                                   \/ RemoveBlobFails(r)
             \/ UNCHANGED vars
      PROVE  UNCHANGED Store!store
  <2>1. UNCHANGED <<row, blob, file, content, acked>>
    BY <1>5 DEF FindBlob, SkipBlob, RemoveBlobFails, Goto, vars
  <2> QED
    BY <2>1 DEF Readable, Wanted, Store!store
<1>6. ASSUME NEW r \in Request, NEW f \in File,
             \/ \E n \in Name, c \in Content : Upload(r, f, n, c)
             \/ HandleDelete(r, f)
             \/ DeleteListed(r, f)
      PROVE  \/ f \in Served /\ \E c \in Wish : Step(f, c)
             \/ UNCHANGED Store!store
  BY <1>1, <1>6 DEF Upload, HandleDelete, DeleteListed
<1>7. ASSUME NEW r \in Request, NEW f \in File, NEW n \in Name, Rename(r, f, n)
      PROVE  UNCHANGED Store!store
  <2>1. f \notin Served /\ Begin(r, "uploading", f, n, Empty)
    BY <1>7 DEF Rename, Served
  <2>2. Wanted' = Wanted
    BY <2>1, BegunWanted DEF Begin
  <2> QED
    BY <2>1, <2>2 DEF Begin, Readable, Store!store
<1>8. ASSUME NEW f \in Served, \E c \in Wish : Step(f, c)
      PROVE  Store!Next
  BY <1>8 DEF Store!Next
<1>9. ASSUME NEW f \in Served, Store!GiveUp(f)
      PROVE  Store!Next
  BY <1>9 DEF Store!Next
<1> HIDE DEF Step, Wish, IInv
<1> DEFINE Goal == \/ \E f \in Served : \/ \E c \in Wish : Step(f, c)
                                        \/ Store!GiveUp(f)
                   \/ UNCHANGED Store!store
<1>10. Goal
  <2>1. CASE UNCHANGED vars
    BY <1>5, <2>1
  <2>2. ASSUME NEW r \in Request,
               \/ PutBlob(r) \/ SaveRow(r) \/ FindBlob(r) \/ SkipBlob(r)
               \/ RemoveBlob(r) \/ RemoveBlobFails(r) \/ DropRow(r) \/ Fail(r)
        PROVE  Goal
    <3>1. CASE PutBlob(r) \/ RemoveBlob(r)
      BY <1>2, <3>1
    <3>2. CASE SaveRow(r) \/ DropRow(r)
      BY <1>3, <3>2
    <3>3. CASE FindBlob(r) \/ SkipBlob(r) \/ RemoveBlobFails(r)
      BY <1>5, <3>3
    <3>4. CASE Fail(r)
      BY <1>4, <3>4
    <3> QED
      BY <2>2, <3>1, <3>2, <3>3, <3>4
  <2>3. ASSUME NEW r \in Request, NEW f \in File,
               \/ \E n \in Name : \/ \E c \in Content : Upload(r, f, n, c)
                                 \/ Rename(r, f, n)
               \/ HandleDelete(r, f)
               \/ DeleteListed(r, f)
        PROVE  Goal
    BY <1>6, <1>7, <2>3
  <2> QED
    BY <2>1, <2>2, <2>3 DEF Next, Act
<1> QED
  BY <1>8, <1>9, <1>10

\* Uploads and deletions of a served file are atomic but for what a failure
\* leaves undone, and that is the old content or the new one
\* (composite/file_repository.go SaveBinaryFile, DeleteFile).
THEOREM Implementation == Spec => ImplementsContentStore
<1>1. Init => Store!Init
  BY BlobAssumption DEF Init, Readable, Wanted, Served, Store!Init
<1>2. IInv /\ [Next]_vars => [Store!Next]_(Store!store)
  BY BlobAssumption, StoreRefined
<1> QED
  BY <1>1, <1>2, Invariance, PTL DEF Spec, Store!Spec, ImplementsContentStore

-----------------------------------------------------------------------------
(* BlobOverlap *)

\* A step of a request leaves the locals of the others alone.
LEMMA OthersKeep ==
  ASSUME TypeOK, NEW r \in Request, NEW q \in Request \ {r}, Act(r)
  PROVE  /\ pc'[q] = pc[q] /\ file'[q] = file[q] /\ name'[q] = name[q]
         /\ content'[q] = content[q]
  BY DEF TypeOK, Act, Upload, Rename, Begin, PutBlob, SaveRow, FindBlob, SkipBlob,
         RemoveBlob, RemoveBlobFails, DropRow, Fail, HandleDelete, DeleteListed,
         Finish, Goto

\* Only PutBlob and RemoveBlob change the bucket, under their request's key.
LEMMA BucketStep ==
  ASSUME TypeOK, RequestsSound, [Next]_vars, NEW k \in Key, blob'[k] # blob[k]
  PROVE  \E r \in Request : /\ PutBlob(r) \/ RemoveBlob(r)
                            /\ k = BlobKey(r) /\ pc[r] # "idle"
  BY DEF TypeOK, RequestsSound, BlobKey, vars, Next, Act, Upload, Rename, Begin,
         PutBlob, SaveRow, FindBlob, SkipBlob, RemoveBlob, RemoveBlobFails,
         DropRow, Fail, HandleDelete, DeleteListed

\* As long as a request is alone, no other one touches its blob.
LEMMA LonersStep ==
  ASSUME TypeOK, RequestsSound, LonersSound, [OverlapNext]_overlapVars
  PROVE  LonersSound'
<1> USE BlobAssumption DEF TypeOK, PC
<1>1. CASE UNCHANGED overlapVars
  BY <1>1 DEF overlapVars, vars, LonersSound, BlobKey
<1>2. CASE OverlapNext
  <2>1. [Next]_vars /\ RequestsSound' /\ TypeOK'
    BY <1>2, RequestStep, TypeStep DEF OverlapNext
  <2>2. /\ \A r \in Request \ overlapped' : \A s \in Request \ {r} :
             file'[r] # None => file'[s] # file'[r]
        /\ \A r \in Request : r \in overlapped' => file'[r] # None
    BY <1>2 DEF OverlapNext
  <2>3. ASSUME NEW r \in Request \ overlapped', pc'[r] = "saving"
        PROVE  blob'[BlobKey(r)'] = content'[r]
    <3>1. r \notin overlapped
      BY <1>2, <2>1, <2>3 DEF OverlapNext, RequestsSound
    <3>2. CASE pc[r] = "saving" /\ file'[r] = file[r] /\ name'[r] = name[r]
                 /\ content'[r] = content[r]
      <4>1. BlobKey(r) \in Key /\ BlobKey(r)' = BlobKey(r)
        BY <3>2 DEF RequestsSound, Key, BlobKey
      <4>2. blob[BlobKey(r)] = content[r]
        BY <3>1, <3>2 DEF LonersSound
      <4>3. ASSUME NEW q \in Request, PutBlob(q) \/ RemoveBlob(q), pc[q] # "idle"
            PROVE  BlobKey(q) # BlobKey(r)
        <5>1. q # r
          BY <3>2, <4>3 DEF PutBlob, RemoveBlob
        <5>2. file[q] # file[r]
          BY <3>1, <3>2, <5>1 DEF LonersSound, RequestsSound
        <5> QED
          BY <5>2 DEF BlobKey
      <4>4. blob'[BlobKey(r)] = blob[BlobKey(r)]
        BY <2>1, <4>1, <4>3, BucketStep
      <4> QED
        BY <3>2, <4>1, <4>2, <4>4
    <3>3. CASE PutBlob(r)
      <4>1. BlobKey(r) \in Key /\ BlobKey(r)' = BlobKey(r)
        BY <3>3 DEF PutBlob, Goto, RequestsSound, Key, BlobKey
      <4> QED
        BY <3>3, <4>1 DEF PutBlob, Goto
    <3>4. ASSUME NEW q \in Request \ {r}, Act(q)
          PROVE  blob'[BlobKey(r)'] = content'[r]
      BY <2>3, <3>2, <3>4, OthersKeep
    <3>5. CASE UNCHANGED vars
      BY <2>3, <3>2, <3>5 DEF vars
    <3>6. ASSUME Act(r), ~PutBlob(r)
          PROVE  FALSE
      BY <2>3, <3>6 DEF Act, Upload, Rename, Begin, SaveRow, FindBlob, SkipBlob,
         RemoveBlob, RemoveBlobFails, DropRow, Fail, HandleDelete, DeleteListed,
         Finish, Goto
    <3> QED
      BY <2>1, <3>3, <3>4, <3>5, <3>6 DEF Next, Act
  <2> QED
    BY <2>2, <2>3 DEF LonersSound
<1> QED
  BY <1>1, <1>2

\* An acknowledgement that can be relied on is the last lone upload's.
LEMMA TrustedStep ==
  ASSUME OverlapIInv, [OverlapNext]_overlapVars
  PROVE  TrustedUndisturbed' /\ LoneUploadStays'
<1> USE BlobAssumption DEF OverlapIInv, TypeOK, PC
<1>1. CASE UNCHANGED overlapVars
  BY <1>1 DEF overlapVars, vars, TrustedUndisturbed, LoneUploadStays, Disturbs,
              ContentAsAcknowledged
<1>2. CASE OverlapNext
  <2>1. TrustedUndisturbed'
    BY <1>2 DEF OverlapNext, TrustedUndisturbed
  <2> SUFFICES ASSUME NEW f \in trusted'
               PROVE  ContentAsAcknowledged(f)'
    BY <2>1 DEF LoneUploadStays
  <2>2. /\ f \in File /\ acked'[f] # None
        /\ f \in trusted \/ acked[f] = None
        /\ \A r \in Request : ~Disturbs(r, f)
    BY <1>2 DEF OverlapNext
  <2>3. ASSUME row'[f] = row[f], acked'[f] = acked[f],
               \A n \in Name : blob'[<<f, n>>] = blob[<<f, n>>]
        PROVE  ContentAsAcknowledged(f)'
    BY <2>2, <2>3 DEF LoneUploadStays, ContentAsAcknowledged
  <2>4. ASSUME NEW r \in Request, file[r] # f, file[r] \in File, name[r] \in Name,
               PutBlob(r) \/ RemoveBlob(r)
        PROVE  ContentAsAcknowledged(f)'
    BY <2>2, <2>3, <2>4 DEF PutBlob, RemoveBlob, BlobKey, Key
  <2>5. ASSUME NEW r \in Request, file[r] # f, SaveRow(r) \/ DropRow(r)
        PROVE  ContentAsAcknowledged(f)'
    BY <2>2, <2>3, <2>5 DEF SaveRow, DropRow
  <2>6. ASSUME NEW r \in Request, file[r] = f, SaveRow(r)
        PROVE  ContentAsAcknowledged(f)'
    <3>1. r \notin overlapped \cup renames
      BY <2>2, <2>6 DEF Disturbs
    <3>2. /\ blob[<<f, name[r]>>] = content[r] /\ name[r] \in Name
          /\ name[r] # None
      BY <2>6, <3>1 DEF SaveRow, LonersSound, RequestsSound, BlobKey
    <3>3. /\ row'[f] = name[r] /\ acked'[f] = content[r] /\ blob' = blob
      BY <2>2, <2>6, <3>1 DEF SaveRow
    <3> QED
      BY <3>2, <3>3 DEF ContentAsAcknowledged
  <2>7. ASSUME NEW r \in Request, file[r] = f,
               PutBlob(r) \/ RemoveBlob(r) \/ DropRow(r)
        PROVE  FALSE
    <3>1. r \notin renames
      BY <2>2, <2>7 DEF Disturbs
    <3> QED
      BY <2>2, <2>7, <3>1 DEF PutBlob, RemoveBlob, DropRow
  <2>8. ASSUME UNCHANGED <<row, blob, acked>>
        PROVE  ContentAsAcknowledged(f)'
    BY <2>3, <2>8
  <2>9. ASSUME NEW r \in Request, PutBlob(r) \/ RemoveBlob(r)
        PROVE  file[r] \in File /\ name[r] \in Name
    BY <2>9 DEF PutBlob, RemoveBlob, RequestsSound
  <2>10. \/ \E r \in Request : PutBlob(r) \/ RemoveBlob(r) \/ SaveRow(r) \/ DropRow(r)
         \/ UNCHANGED <<row, blob, acked>>
    BY <1>2 DEF OverlapNext, Next, Act, Upload, Rename, Begin, FindBlob, SkipBlob,
       RemoveBlobFails, Fail, HandleDelete, DeleteListed
  <2> QED
    BY <2>4, <2>5, <2>6, <2>7, <2>8, <2>9, <2>10
<1> QED
  BY <1>1, <1>2

\* A file has the content of the last upload that was alone, from its answer
\* until a rename or requests that overlap, whatever came before
\* (composite/file_repository.go SaveBinaryFile, DeleteFile).
THEOREM LoneUploadIsKept == OverlapSpec => []LoneUploadStays
<1>1. OverlapInit => OverlapIInv
  BY BlobAssumption DEF OverlapInit, Init, OverlapIInv, TypeOK, PC, Key,
     RequestsSound, LonersSound, TrustedUndisturbed, LoneUploadStays
<1>2. OverlapIInv /\ [OverlapNext]_overlapVars => OverlapIInv'
  <2>1. [OverlapNext]_overlapVars => [Next]_vars
    BY DEF OverlapNext, overlapVars
  <2> QED
    BY <2>1, TypeStep, RequestStep, LonersStep, TrustedStep DEF OverlapIInv
<1>3. OverlapIInv => LoneUploadStays
  BY DEF OverlapIInv
<1> QED
  BY <1>1, <1>2, <1>3, PTL DEF OverlapSpec
=============================================================================
