----------------------------- MODULE LoginStore -----------------------------
(***************************************************************************)
(* What a login promises: its tokens act for the user who logged in and    *)
(* for nobody else, and once it has no session it gets none again, unless  *)
(* requests about it overlapped or a session could not be invalidated.     *)
(***************************************************************************)
CONSTANTS LoginId, User, None

VARIABLES
  owner,     \* who opened each login, None before that
  acts,      \* the users for whom the login has a session
  disturbed  \* the logins of which nothing more than the owner is promised

logins == <<owner, acts, disturbed>>

Init ==
  /\ owner = [l \in LoginId |-> None]
  /\ acts = [l \in LoginId |-> {}]
  /\ disturbed = {}

Open(l, u) ==
  /\ owner[l] = None
  /\ owner' = [owner EXCEPT ![l] = u]
  /\ acts' = [acts EXCEPT ![l] = {u}]
  /\ UNCHANGED disturbed

\* A request overlaps another one, and may end the login as well.
Disturb(l) ==
  /\ owner[l] # None
  /\ disturbed' = disturbed \cup {l}
  /\ \E a \in {acts[l], {}} : acts' = [acts EXCEPT ![l] = a]
  /\ UNCHANGED owner

Close(l) ==
  /\ acts' = [acts EXCEPT ![l] = {}]
  /\ UNCHANGED <<owner, disturbed>>

Resume(l) ==
  /\ l \in disturbed
  /\ acts' = [acts EXCEPT ![l] = {owner[l]}]
  /\ UNCHANGED <<owner, disturbed>>

Next ==
  \E l \in LoginId :
    \/ \E u \in User : Open(l, u)
    \/ Disturb(l)
    \/ Close(l)
    \/ Resume(l)

Spec == Init /\ [][Next]_logins
=============================================================================
