----------------------------- MODULE MCBlobFiles -----------------------------
(* BlobFiles with symmetric requests, names and contents.                  *)
EXTENDS BlobFiles, TLC

MCSymmetry ==
  Permutations(Request) \cup Permutations(Name) \cup Permutations(Content)
=============================================================================
