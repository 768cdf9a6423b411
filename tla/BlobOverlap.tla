----------------------------- MODULE BlobOverlap -----------------------------
(***************************************************************************)
(* BlobFiles with a record of the requests that overlap another one about  *)
(* the same file, and of the acknowledgements that can be relied on: those *)
(* of uploads that did not, until the file is renamed or requests about it *)
(* overlap again.                                                          *)
(***************************************************************************)
EXTENDS BlobFiles

VARIABLES
  overlapped,  \* history: the requests that were not alone all the time
  trusted      \* history: the files whose acknowledgement can be relied on

overlapVars == <<vars, overlapped, trusted>>

\* A request about f that may leave it other than it was acknowledged.
Disturbs(r, f) == file[r] = f /\ r \in overlapped \cup renames

OverlapInit == Init /\ overlapped = {} /\ trusted = {}

OverlapNext ==
  /\ Next
  /\ overlapped' = {r \in Request :
                      /\ file'[r] # None
                      /\ \/ r \in overlapped
                         \/ \E s \in Request \ {r} : file'[s] = file'[r]}
  /\ trusted' = {f \in File :
                   /\ acked'[f] # None
                   /\ f \in trusted \/ acked[f] = None
                   /\ \A r \in Request : ~Disturbs(r, f) /\ ~Disturbs(r, f)'}

OverlapSpec == OverlapInit /\ [][OverlapNext]_overlapVars

-----------------------------------------------------------------------------
\* A request that is alone finds the blob it has put unchanged.
LonersSound ==
  /\ \A r \in Request \ overlapped :
       /\ pc[r] = "saving" => blob[BlobKey(r)] = content[r]
       /\ \A s \in Request \ {r} : file[r] # None => file[s] # file[r]
  /\ \A r \in Request : r \in overlapped => file[r] # None

TrustedUndisturbed ==
  \A f \in trusted, r \in Request : ~Disturbs(r, f)

\* Whatever overlapped, failed or was renamed before, an upload that is alone
\* sets the file right: it has the acknowledged content until it is renamed,
\* or until requests about it overlap (composite SaveBinaryFile, DeleteFile).
LoneUploadStays == \A f \in trusted : ContentAsAcknowledged(f)

OverlapIInv ==
  /\ TypeOK
  /\ RequestsSound
  /\ LonersSound
  /\ TrustedUndisturbed
  /\ LoneUploadStays
=============================================================================
