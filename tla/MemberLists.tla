---------------------------- MODULE MemberLists ----------------------------
(***************************************************************************)
(* What the member lists of projects promise.  A request prepares a change *)
(* of one user in a project's list, which it checks against the list, and  *)
(* commits it later.  If nothing was committed to the project in between,  *)
(* the change is still allowed then, and it is all that the commit does.   *)
(* A request that was overtaken may undo what others did, but its own user *)
(* ends up as asked, and the project with a member.                        *)
(***************************************************************************)
CONSTANTS Request, User, Project, NoChange

VARIABLES
  members,    \* the list of each project, empty before it is created
  change,     \* the change each request has prepared
  overtaken   \* the requests to whose project something was committed since

lists == <<members, change, overtaken>>

Change == [removes : BOOLEAN, user : User, project : Project]

Init ==
  /\ members = [p \in Project |-> {}]
  /\ change = [r \in Request |-> NoChange]
  /\ overtaken = {}

\* Whoever is added is new, whoever is removed is there and not the last.
Allowed(c) ==
  IF c.removes THEN c.user \in members[c.project] /\ members[c.project] # {c.user}
               ELSE c.user \notin members[c.project]

\* The list of p becomes l by a step of r.
Commit(r, p, l) ==
  /\ members' = [members EXCEPT ![p] = l]
  /\ overtaken' = (overtaken \ {r})
       \cup {s \in Request \ {r} : change[s] # NoChange /\ change[s].project = p}

Create(r, p, u) ==
  /\ change[r] = NoChange
  /\ Commit(r, p, {u})
  /\ UNCHANGED change

Prepare(r, c) ==
  /\ change[r] = NoChange
  /\ r \notin overtaken
  /\ members[c.project] # {}
  /\ Allowed(c)
  /\ change' = [change EXCEPT ![r] = c]
  /\ UNCHANGED <<members, overtaken>>

CommitChange(r, c) ==
  /\ change[r] = c
  /\ r \notin overtaken
  /\ Allowed(c)
  /\ Commit(r, c.project, IF c.removes THEN members[c.project] \ {c.user}
                                       ELSE members[c.project] \cup {c.user})
  /\ change' = [change EXCEPT ![r] = NoChange]

CommitOvertaken(r, c, l) ==
  /\ change[r] = c
  /\ r \in overtaken
  /\ l # {}
  /\ c.user \in l <=> ~c.removes
  /\ Commit(r, c.project, l)
  /\ change' = [change EXCEPT ![r] = NoChange]

GiveUp(r) ==
  /\ change' = [change EXCEPT ![r] = NoChange]
  /\ overtaken' = overtaken \ {r}
  /\ UNCHANGED members

Next ==
  \E r \in Request :
    \/ \E p \in Project, u \in User : Create(r, p, u)
    \/ \E c \in Change :
         \/ Prepare(r, c)
         \/ CommitChange(r, c)
         \/ \E l \in SUBSET User : CommitOvertaken(r, c, l)
    \/ GiveUp(r)

Spec == Init /\ [][Next]_lists
=============================================================================
