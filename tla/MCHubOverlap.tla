---------------------------- MODULE MCHubOverlap ----------------------------
(* MCCollabHub with the record of the connections that returned too early. *)
EXTENDS MCCollabHub, HubOverlap
=============================================================================
