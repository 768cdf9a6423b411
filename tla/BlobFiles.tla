------------------------------ MODULE BlobFiles ------------------------------
(***************************************************************************)
(* Binary files: a row in PostgreSQL without the content, and the content  *)
(* as a blob in S3 under a key that contains the file's name               *)
(* (persistence/composite/file_repository.go, and the requests that reach  *)
(* it through application/file and http/file).                             *)
(*                                                                         *)
(* A step is one call of one store.  The stores share no transaction: any  *)
(* call may fail, or the process may stop, between two of them.            *)
(***************************************************************************)
CONSTANTS Request,    \* the requests that can be in progress at once
          File,
          Name,
          Content,    \* what clients upload
          Empty,      \* the content of no bytes
          None,
          Deletable,  \* the files that are deleted,
          Renamable,  \*   those that are renamed,
          Serial      \*   and those about which no two requests overlap

ASSUME BlobAssumption ==
  /\ Deletable \cup Renamable \cup Serial \subseteq File
  /\ Empty \notin Content
  /\ None \notin File \cup Name \cup Content \cup {Empty}

VARIABLES
  row,      \* the files table: the name of each file, or None
  blob,     \* the bucket: the content under each key, or None
  pc,       \* where each request is
  file,     \* the file it is about,
  name,     \*   the name it saves, or whose blob it removes,
  content,  \*   and what it uploads
  renames,  \* the requests that rename
  acked     \* history: the content each file was last acknowledged to have

vars == <<row, blob, pc, file, name, content, renames, acked>>

Key == File \X Name
PC == {"idle", "uploading", "saving", "finding", "removing", "dropping"}

Init ==
  /\ row = [f \in File |-> None]
  /\ blob = [k \in Key |-> None]
  /\ pc = [r \in Request |-> "idle"]
  /\ file = [r \in Request |-> None]
  /\ name = [r \in Request |-> None]
  /\ content = [r \in Request |-> None]
  /\ renames = {}
  /\ acked = [f \in File |-> None]

MayBegin(r, f) ==
  /\ pc[r] = "idle"
  /\ f \in Serial => \A s \in Request : file[s] # f

Begin(r, l, f, n, c) ==
  /\ MayBegin(r, f)
  /\ pc' = [pc EXCEPT ![r] = l]
  /\ file' = [file EXCEPT ![r] = f]
  /\ name' = [name EXCEPT ![r] = n]
  /\ content' = [content EXCEPT ![r] = c]
  /\ UNCHANGED <<row, blob, acked>>

Finish(r) ==
  /\ pc' = [pc EXCEPT ![r] = "idle"]
  /\ file' = [file EXCEPT ![r] = None]
  /\ name' = [name EXCEPT ![r] = None]
  /\ content' = [content EXCEPT ![r] = None]
  /\ renames' = renames \ {r}

Goto(r, l) ==
  /\ pc' = [pc EXCEPT ![r] = l]
  /\ UNCHANGED <<file, content, renames>>

\* A call fails, and the request with it.
Fail(r) ==
  /\ pc[r] # "idle"
  /\ Finish(r)
  /\ UNCHANGED <<row, blob, acked>>

-----------------------------------------------------------------------------
(* Saving *)

\* UploadFile: a new file, or new content or a new name for an old one.
Upload(r, f, n, c) ==
  /\ Begin(r, "uploading", f, n, c)
  /\ UNCHANGED renames

\* A metadata update finds the file under another name.  It saves the file as
\* FindByProjectID listed it: with the content of the row, which is empty.
Rename(r, f, n) ==
  /\ f \in Renamable
  /\ row[f] \notin {None, n}
  /\ Begin(r, "uploading", f, n, Empty)
  /\ renames' = renames \cup {r}

\* The key of the blob a request is about.
BlobKey(r) == <<file[r], name[r]>>

\* Mutant: the row is saved before the blob is uploaded.
PutRow(r) ==
  /\ pc[r] = "uploading"
  /\ row' = [row EXCEPT ![file[r]] = name[r]]
  /\ acked' = [acked EXCEPT ![file[r]] = IF r \in renames THEN @ ELSE None]
  /\ Goto(r, "saving")
  /\ UNCHANGED <<blob, name>>

\* Mutant: an object that exists is not overwritten.
PutBlobOnce(r) ==
  /\ pc[r] = "uploading"
  /\ blob' = [blob EXCEPT ![BlobKey(r)] = IF @ = None THEN content[r] ELSE @]
  /\ acked' = [acked EXCEPT ![file[r]] = IF r \in renames THEN @ ELSE None]
  /\ Goto(r, "saving")
  /\ UNCHANGED <<row, name>>

\* SaveBinaryFile uploads first.
PutBlob(r) ==
  /\ pc[r] = "uploading"
  /\ blob' = [blob EXCEPT ![BlobKey(r)] = content[r]]
  /\ acked' = [acked EXCEPT ![file[r]] = IF r \in renames THEN @ ELSE None]
  /\ Goto(r, "saving")
  /\ UNCHANGED <<row, name>>

\* Mutant: the upsert's arguments are swapped, the content is stored as name.
SaveRowContent(r) ==
  /\ pc[r] = "saving"
  /\ row' = [row EXCEPT ![file[r]] = content[r]]
  /\ acked' = [acked EXCEPT ![file[r]] = IF r \in renames THEN @ ELSE content[r]]
  /\ Finish(r)
  /\ UNCHANGED blob

\* Then the row is upserted, and the request is answered.
SaveRow(r) ==
  /\ pc[r] = "saving"
  /\ row' = [row EXCEPT ![file[r]] = name[r]]
  /\ acked' = [acked EXCEPT ![file[r]] = IF r \in renames THEN @ ELSE content[r]]
  /\ Finish(r)
  /\ UNCHANGED blob

-----------------------------------------------------------------------------
(* Deleting *)

\* FileAccess finds a file for the handler only with its blob.
HandleDelete(r, f) ==
  /\ f \in Deletable
  /\ row[f] # None
  /\ blob[<<f, row[f]>>] # None
  /\ Begin(r, "finding", f, None, None)
  /\ UNCHANGED renames

\* A metadata update deletes what FindByProjectID listed.
DeleteListed(r, f) ==
  /\ f \in Deletable
  /\ row[f] # None
  /\ Begin(r, "finding", f, None, None)
  /\ UNCHANGED renames

\* DeleteFile looks for the name of the blob.
FindBlob(r) ==
  /\ pc[r] = "finding"
  /\ row[file[r]] # None
  /\ name' = [name EXCEPT ![r] = row[file[r]]]
  /\ Goto(r, "removing")
  /\ UNCHANGED <<row, blob, acked>>

\* There is no row, or the query fails: the row is deleted all the same.
SkipBlob(r) ==
  /\ pc[r] = "finding"
  /\ Goto(r, "dropping")
  /\ UNCHANGED <<row, blob, name, acked>>

RemoveBlob(r) ==
  /\ pc[r] = "removing"
  /\ blob' = [blob EXCEPT ![BlobKey(r)] = None]
  /\ acked' = [acked EXCEPT ![file[r]] = None]
  /\ Goto(r, "dropping")
  /\ UNCHANGED <<row, name>>

\* The error is ignored.
RemoveBlobFails(r) ==
  /\ pc[r] = "removing"
  /\ Goto(r, "dropping")
  /\ UNCHANGED <<row, blob, name, acked>>

DropRow(r) ==
  /\ pc[r] = "dropping"
  /\ row' = [row EXCEPT ![file[r]] = None]
  /\ acked' = [acked EXCEPT ![file[r]] = None]
  /\ Finish(r)
  /\ UNCHANGED blob

-----------------------------------------------------------------------------
Act(r) ==
  \/ \E f \in File, n \in Name :
       \/ \E c \in Content : Upload(r, f, n, c)
       \/ Rename(r, f, n)
  \/ PutBlob(r)
  \/ SaveRow(r)
  \/ \E f \in File : HandleDelete(r, f) \/ DeleteListed(r, f)
  \/ FindBlob(r)
  \/ SkipBlob(r)
  \/ RemoveBlob(r)
  \/ RemoveBlobFails(r)
  \/ DropRow(r)
  \/ Fail(r)

Next == \E r \in Request : Act(r)

Spec == Init /\ [][Next]_vars

-----------------------------------------------------------------------------
(* The inductive invariants *)

\* What a request in progress knows.
RequestsSound ==
  \A r \in Request :
    /\ IF pc[r] = "idle" THEN file[r] = None ELSE file[r] \in File
    /\ pc[r] \in {"uploading", "saving"} =>
         /\ name[r] \in Name
         /\ content[r] \in IF r \in renames THEN {Empty} ELSE Content
    /\ pc[r] = "removing" => name[r] \in Name
    /\ pc[r] \in {"finding", "removing", "dropping"} =>
         file[r] \in Deletable /\ content[r] = None
    /\ r \in renames =>
         file[r] \in Renamable /\ pc[r] \in {"uploading", "saving"}

\* The blob a request has uploaded is still there when it saves the row,
\* unless its file is one that is deleted.
UploadedBlobStays ==
  \A r \in Request :
    pc[r] = "saving" /\ file[r] \notin Deletable => blob[BlobKey(r)] # None

\* One request at a time finds the blob it uploaded unchanged.
UploadedBlobIsOwn ==
  /\ \A r \in Request :
       pc[r] = "saving" /\ file[r] \in Serial => blob[BlobKey(r)] = content[r]
  /\ \A r, s \in Request : file[r] = file[s] /\ file[r] \in Serial => r = s

-----------------------------------------------------------------------------
(* Properties *)

TypeOK ==
  /\ row \in [File -> Name \cup {None}]
  /\ blob \in [Key -> Content \cup {Empty, None}]
  /\ pc \in [Request -> PC]
  /\ file \in [Request -> File \cup {None}]
  /\ name \in [Request -> Name \cup {None}]
  /\ content \in [Request -> Content \cup {Empty, None}]
  /\ renames \in SUBSET Request
  /\ acked \in [File -> Content \cup {None}]

\* A file that nobody deletes can be read once it is listed, whatever fails
\* and however saves of it overlap: the blob of the name in the row is in the
\* bucket (composite SaveBinaryFile uploads before it saves the row).
RowHasBlob ==
  \A f \in File \ Deletable : row[f] # None => blob[<<f, row[f]>>] # None

ContentAsAcknowledged(f) ==
  acked[f] # None => row[f] # None /\ blob[<<f, row[f]>>] = acked[f]

\* A file keeps the content it was last acknowledged to have until another
\* upload or a deletion of it reaches a store; docs/sync_spec.md:118 says that
\* the names of files, binary ones included, are synchronized without
\* conflict, so a rename does not count as one.
AcknowledgedContentStays == \A f \in Serial : ContentAsAcknowledged(f)

\* What the proofs carry of it.
UnrenamedContentStays == \A f \in Serial \ Renamable : ContentAsAcknowledged(f)

IInv ==
  /\ TypeOK
  /\ RequestsSound
  /\ UploadedBlobStays
  /\ UploadedBlobIsOwn
  /\ RowHasBlob
  /\ UnrenamedContentStays

-----------------------------------------------------------------------------
(* What the requests about a file come to *)

Served == Serial \ Renamable

Readable ==
  [f \in Served |-> IF row[f] = None THEN None ELSE blob[<<f, row[f]>>]]

\* What the requests about a file make of it, nothing if there is no request.
Wanted ==
  [f \in Served |-> {content[r] : r \in {q \in Request : file[q] = f}}]

Store == INSTANCE ContentStore WITH
  File <- Served,
  content <- Readable,
  wanted <- Wanted,
  acked <- [f \in Served |-> acked[f]]

\* Whatever call of the two stores fails, an upload or a deletion leaves the
\* file with its old content or with the one that was asked for, and once it
\* is answered with the latter (composite SaveBinaryFile and DeleteFile), if
\* no other request about the file overlaps it and nobody renames it.
ImplementsContentStore == Store!Spec
=============================================================================
