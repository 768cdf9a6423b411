---------------------------- MODULE ContentStore ----------------------------
(***************************************************************************)
(* What the storage of binary files promises for a file whose requests     *)
(* come one after another.  A request wants the file to have some content, *)
(* or none.  Until it ends the file may have either what it had or what is *)
(* wanted, never anything else; when the request is answered the file has  *)
(* what was wanted, and keeps it until the next request reaches a store.   *)
(***************************************************************************)
CONSTANTS File, Content, None

VARIABLES
  content,  \* what can be read of each file, None if nothing can
  wanted,   \* what the request in progress wants of each file, if there is one
  acked     \* the content each file was last acknowledged to have

store == <<content, wanted, acked>>

Init ==
  /\ content = [f \in File |-> None]
  /\ wanted = [f \in File |-> {}]
  /\ acked = [f \in File |-> None]

Begin(f, c) ==
  /\ wanted[f] = {}
  /\ wanted' = [wanted EXCEPT ![f] = {c}]
  /\ UNCHANGED <<content, acked>>

\* The request has changed something, and its answer is not known yet.
Touch(f, c) ==
  /\ c \in wanted[f]
  /\ \E d \in {content[f], c} : content' = [content EXCEPT ![f] = d]
  /\ acked' = [acked EXCEPT ![f] = None]
  /\ UNCHANGED wanted

Complete(f, c) ==
  /\ c \in wanted[f]
  /\ content' = [content EXCEPT ![f] = c]
  /\ acked' = [acked EXCEPT ![f] = c]
  /\ wanted' = [wanted EXCEPT ![f] = {}]

GiveUp(f) ==
  /\ wanted' = [wanted EXCEPT ![f] = {}]
  /\ UNCHANGED <<content, acked>>

Next ==
  \E f \in File :
    \/ \E c \in Content \cup {None} : Begin(f, c) \/ Touch(f, c) \/ Complete(f, c)
    \/ GiveUp(f)

Spec == Init /\ [][Next]_store
=============================================================================
