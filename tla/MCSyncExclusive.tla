-------------------------- MODULE MCSyncExclusive --------------------------
(* MCSyncService with permissions under which f1 and f2 have one writer,   *)
(* and with the record of the files whose readers are overtaken.           *)
EXTENDS MCSyncService, SyncOverlap

ASSUME WritersAreExclusive == OneNamer /\ Owned = {f1, f2}
=============================================================================
