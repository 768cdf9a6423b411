----------------------------- MODULE FileStore -----------------------------
(***************************************************************************)
(* What the file storage promises its collaborators: every edit, rename,   *)
(* deletion and upload of a file takes effect at once, on the file as it   *)
(* is then.  An edit keeps the name and every other edit, a rename keeps   *)
(* the content, and a deleted file comes back only when it is uploaded.    *)
(* What clients were told changes in the same step as the table.           *)
(***************************************************************************)
CONSTANTS File, Name, Op, NoRow

VARIABLES
  row,    \* the table
  saved,  \* the edits of each file that were acknowledged,
  name,   \*   the name it was last given,
  gone    \*   and the files that were deleted

store == <<row, saved, name, gone>>

Types == {"typst", "binary"}

Init ==
  /\ row \in [File -> [name : Name, type : Types, ops : SUBSET Op] \cup {NoRow}]
  /\ saved = [f \in File |-> {}]
  /\ name \in [File -> Name]
  /\ \A f \in File : row[f] # NoRow => row[f].name = name[f]
  /\ gone = {}

Edit(f, o) ==
  /\ row[f] # NoRow
  /\ row' = [row EXCEPT ![f].ops = @ \cup {o}]
  /\ saved' = [saved EXCEPT ![f] = @ \cup {o}]
  /\ UNCHANGED <<name, gone>>

Rename(f, n) ==
  /\ row[f] # NoRow
  /\ row' = [row EXCEPT ![f].name = n]
  /\ name' = [name EXCEPT ![f] = n]
  /\ UNCHANGED <<saved, gone>>

Delete(f) ==
  /\ row[f] # NoRow
  /\ row' = [row EXCEPT ![f] = NoRow]
  /\ saved' = [saved EXCEPT ![f] = {}]
  /\ gone' = gone \cup {f}
  /\ UNCHANGED name

Upload(f, n, t, s) ==
  /\ row' = [row EXCEPT ![f] = [name |-> n, type |-> t, ops |-> s]]
  /\ saved' = [saved EXCEPT ![f] = s]
  /\ name' = [name EXCEPT ![f] = n]
  /\ gone' = gone \ {f}

Next ==
  \E f \in File :
    \/ \E o \in Op : Edit(f, o)
    \/ \E n \in Name : Rename(f, n)
    \/ Delete(f)
    \/ \E n \in Name, t \in Types, s \in SUBSET Op : Upload(f, n, t, s)

Spec == Init /\ [][Next]_store
=============================================================================
