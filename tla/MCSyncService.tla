--------------------------- MODULE MCSyncService ---------------------------
(* SyncService with two clients: a and b.                                  *)
EXTENDS SyncService

CONSTANTS a, b, f1, f2, f3, n1, n2

All == Conn \X File
None == {}

\* f1 is a's and f2 is b's.  Both write f3, and b does all the naming: a's
\* deletions of f3 overlap b's renames and deletions of it.
Edits == {<<a, f1>>, <<b, f2>>}
Names == {<<b, f2>>, <<b, f3>>}
Uploads == {<<b, f2>>}
Deletions == {<<a, f1>>, <<a, f3>>, <<b, f2>>}
=============================================================================
