---------------------------- MODULE MCBlobOverlap ----------------------------
(* MCBlobFiles with the record of the requests that overlap.               *)
EXTENDS MCBlobFiles, BlobOverlap
=============================================================================
