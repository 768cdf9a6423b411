---------------------------- MODULE ProjectMembers ----------------------------
(***************************************************************************)
(* Projects, their members and their invites (application/project,         *)
(* application/invite and their handlers over postgres/project_repository  *)
(* and postgres/invite_repository).                                        *)
(*                                                                         *)
(* A request is a server goroutine; a step is one statement, or, for Save  *)
(* of a project, its transaction.  Adding, removing and joining read the   *)
(* member list, change their copy and save it whole: nothing keeps another *)
(* request from saving its own copy in between.  A request that is refused *)
(* at its first statement changes nothing and is not a step.               *)
(***************************************************************************)
CONSTANTS Request,    \* the requests that can be in progress at once
          User,
          Project,
          Invite,     \* invite ids; each is issued at most once
          None

ASSUME MembersAssumption ==
  /\ None \notin User \cup Project \cup Invite
  /\ None \notin [removes : BOOLEAN, user : User, project : Project]

VARIABLES
  projects,   \* the rows of projects
  members,    \* the users that project_members relates to each project
  invites,    \* project_invites: the project of each invite, and its state
  pc,         \* where each request is
  op,         \* what it does,
  project,    \*   to which project,
  who,        \*   for which user,
  list,       \*   the changed copy of the member list it is going to save,
  invite,     \*   and the invite it is going to delete
  stale       \* history: the requests whose copy is of an older list

vars ==
  <<projects, members, invites, pc, op, project, who, list, invite, stale>>
request == <<pc, op, project, who, list, invite>>
tables == <<projects, members, invites>>

Change == {"add", "remove", "accept"}
Operation == Change \cup {"invite", "revoke"}
PC == {"idle", "loading", "saving", "inserting", "deleting"}
Unissued == [project |-> None, state |-> "unissued"]
InviteRow == [project : Project, state : {"valid", "expired", "deleted"}]

Init ==
  /\ projects = {}
  /\ members = [p \in Project |-> {}]
  /\ invites = [i \in Invite |-> Unissued]
  /\ pc = [r \in Request |-> "idle"]
  /\ op = [r \in Request |-> None]
  /\ project = [r \in Request |-> None]
  /\ who = [r \in Request |-> None]
  /\ list = [r \in Request |-> {}]
  /\ invite = [r \in Request |-> None]
  /\ stale = {}

\* r answers, and what it held is gone.
Finish(r) ==
  /\ pc' = [pc EXCEPT ![r] = "idle"]
  /\ op' = [op EXCEPT ![r] = None]
  /\ project' = [project EXCEPT ![r] = None]
  /\ who' = [who EXCEPT ![r] = None]
  /\ list' = [list EXCEPT ![r] = {}]
  /\ invite' = [invite EXCEPT ![r] = None]

\* A statement fails, or finds no invite by the id it was given.
Fail(r) ==
  /\ pc[r] # "idle"
  /\ Finish(r)
  /\ stale' = stale \ {r}
  /\ UNCHANGED tables

\* r saves p's list: the copies others have made of it are stale now.
Outdate(r, p) ==
  stale' = (stale \ {r})
             \cup {s \in Request \ {r} : pc[s] = "saving" /\ project[s] = p}

-----------------------------------------------------------------------------
(* Creating a project *)

\* Mutant: the user and the project change places.
CreateSwapped(r, u, p) ==
  /\ pc[r] = "idle"
  /\ projects' = projects \cup {p}
  /\ members' = [members EXCEPT ![p] = {p}]
  /\ Outdate(r, p)
  /\ UNCHANGED <<invites, request>>

\* The client chooses the id.  Save upserts the project, and its member list
\* becomes the creator alone.
Create(r, u, p) ==
  /\ pc[r] = "idle"
  /\ projects' = projects \cup {p}
  /\ members' = [members EXCEPT ![p] = {u}]
  /\ Outdate(r, p)
  /\ UNCHANGED <<invites, request>>

-----------------------------------------------------------------------------
(* The requests about an existing project *)

Begin(r, o, p, u) ==
  /\ pc[r] = "idle"
  /\ pc' = [pc EXCEPT ![r] = "loading"]
  /\ op' = [op EXCEPT ![r] = o]
  /\ project' = [project EXCEPT ![r] = p]
  /\ who' = [who EXCEPT ![r] = u]
  /\ UNCHANGED <<tables, list, invite, stale>>

\* FindByID finds the row, and NewProject accepts it only with a member.
Found(p) == p \in projects /\ members[p] # {}

\* ProjectAccess lets a member's request through to its handler: u adds or
\* removes v, or creates or revokes an invite itself.
ProjectAccess(r, o, p, u, v) ==
  /\ o # "accept"
  /\ o \in {"invite", "revoke"} => u = v
  /\ Found(p)
  /\ u \in members[p]
  /\ Begin(r, o, p, v)

\* FindByCode, of an invite that is not past its date.
FindInvite(r, i, u) ==
  /\ invites[i].state = "valid"
  /\ Begin(r, "accept", invites[i].project, u)

\* Mutant: the last member can be removed.
RefusedUnlessMember(o, l, u) ==
  IF o = "remove" THEN u \notin l ELSE u \in l

\* HasUser refuses an addition that is there already, RemoveUser a removal
\* that is not there or that would leave no one.
Refused(o, l, u) == IF o = "remove" THEN u \notin l \/ l = {u} ELSE u \in l

Changed(o, l, u) == IF o = "remove" THEN l \ {u} ELSE l \cup {u}

\* Mutant: the change is made to the copy without a check.
LoadUnchecked(r) ==
  /\ pc[r] = "loading"
  /\ op[r] \in Change
  /\ Found(project[r])
  /\ list' = [list EXCEPT ![r] = Changed(op[r], members[project[r]], who[r])]
  /\ pc' = [pc EXCEPT ![r] = "saving"]
  /\ UNCHANGED <<tables, op, project, who, invite, stale>>

\* FindByID, and the change made to the copy.
LoadProject(r) ==
  /\ pc[r] = "loading"
  /\ op[r] \in Change
  /\ Found(project[r])
  /\ ~Refused(op[r], members[project[r]], who[r])
  /\ list' = [list EXCEPT ![r] = Changed(op[r], members[project[r]], who[r])]
  /\ pc' = [pc EXCEPT ![r] = "saving"]
  /\ UNCHANGED <<tables, op, project, who, invite, stale>>

\* The change is refused, or AcceptInvite finds that nothing is to be done.
RefuseChange(r) ==
  /\ pc[r] = "loading"
  /\ op[r] \in Change
  /\ \/ ~Found(project[r])
     \/ Refused(op[r], members[project[r]], who[r])
  /\ Finish(r)
  /\ UNCHANGED <<tables, stale>>

\* Mutant: syncMembers inserts, and does not remove the old members.
SaveWithoutRemoving(r) ==
  /\ pc[r] = "saving"
  /\ projects' = projects \cup {project[r]}
  /\ members' = [members EXCEPT ![project[r]] = @ \cup list[r]]
  /\ Outdate(r, project[r])
  /\ Finish(r)
  /\ UNCHANGED invites

\* Save: the list in the table becomes the copy.
SaveProject(r) ==
  /\ pc[r] = "saving"
  /\ projects' = projects \cup {project[r]}
  /\ members' = [members EXCEPT ![project[r]] = list[r]]
  /\ Outdate(r, project[r])
  /\ Finish(r)
  /\ UNCHANGED invites

-----------------------------------------------------------------------------
(* Invites *)

\* CreateInvite loads the project once more and checks its creator.
LoadForInvite(r) ==
  /\ pc[r] = "loading"
  /\ op[r] = "invite"
  /\ Found(project[r])
  /\ who[r] \in members[project[r]]
  /\ pc' = [pc EXCEPT ![r] = "inserting"]
  /\ UNCHANGED <<tables, op, project, who, list, invite, stale>>

RefuseInvite(r) ==
  /\ pc[r] = "loading"
  /\ op[r] = "invite"
  /\ ~Found(project[r]) \/ who[r] \notin members[project[r]]
  /\ Finish(r)
  /\ UNCHANGED <<tables, stale>>

\* The row of a fresh invite; an expiry date in the past is accepted too.
InsertInvite(r, i) ==
  /\ pc[r] = "inserting"
  /\ invites[i] = Unissued
  /\ \E s \in {"valid", "expired"} :
       invites' = [invites EXCEPT ![i] = [project |-> project[r], state |-> s]]
  /\ Finish(r)
  /\ UNCHANGED <<projects, members, stale>>

Expire(i) ==
  /\ invites[i].state = "valid"
  /\ invites' = [invites EXCEPT ![i] =
                   [project |-> invites[i].project, state |-> "expired"]]
  /\ UNCHANGED <<projects, members, request, stale>>

\* RevokeInvite looks the invite up, by the id in the URL, and deletes it only
\* if it is of the request's project.
LookUpInvite(r, i) ==
  /\ pc[r] = "loading"
  /\ op[r] = "revoke"
  /\ invites[i].state \in {"valid", "expired"}
  /\ invites[i].project = project[r]
  /\ pc' = [pc EXCEPT ![r] = "deleting"]
  /\ invite' = [invite EXCEPT ![r] = i]
  /\ UNCHANGED <<tables, op, project, who, list, stale>>

DeleteInvite(r) ==
  /\ pc[r] = "deleting"
  /\ invites' = [invites EXCEPT ![invite[r]] =
                   [project |-> invites[invite[r]].project, state |-> "deleted"]]
  /\ Finish(r)
  /\ UNCHANGED <<projects, members, stale>>

-----------------------------------------------------------------------------
Next ==
  \/ \E r \in Request :
       \/ \E u \in User, p \in Project :
            \/ Create(r, u, p)
            \/ \E o \in Operation, v \in User : ProjectAccess(r, o, p, u, v)
       \/ \E i \in Invite, u \in User : FindInvite(r, i, u)
       \/ LoadProject(r)
       \/ RefuseChange(r)
       \/ SaveProject(r)
       \/ LoadForInvite(r)
       \/ RefuseInvite(r)
       \/ \E i \in Invite : InsertInvite(r, i) \/ LookUpInvite(r, i)
       \/ DeleteInvite(r)
       \/ Fail(r)
  \/ \E i \in Invite : Expire(i)

Spec == Init /\ [][Next]_vars

-----------------------------------------------------------------------------
(* The inductive invariants *)

\* A request knows its project from the start, the user it is about until it
\* saves the list, and the invite it deletes.
RequestsSound ==
  \A r \in Request :
    /\ pc[r] # "idle" => project[r] \in Project
    /\ pc[r] = "loading" => who[r] \in User
    /\ pc[r] = "deleting" =>
         invite[r] \in Invite /\ invites[invite[r]] # Unissued

\* A copy is made of a project that exists, and it is never empty.
ListsNotEmpty ==
  \A r \in Request : pc[r] = "saving" =>
    project[r] \in projects /\ list[r] # {}

\* What is going to be saved is still the change that was asked for, of the
\* list as it is, and one that is not refused, unless the list was saved in
\* between.
ListsFresh ==
  \A r \in Request \ stale : pc[r] = "saving" =>
    /\ ~Refused(op[r], members[project[r]], who[r])
    /\ list[r] = Changed(op[r], members[project[r]], who[r])

\* A copy, however old, says of its user what was asked for.
ListsSayIt ==
  \A r \in Request : pc[r] = "saving" =>
    /\ op[r] \in Change
    /\ who[r] \in User
    /\ who[r] \in list[r] <=> op[r] # "remove"

\* Only a request with a copy can have an old one.
StaleHaveCopies == \A r \in stale : pc[r] = "saving"

-----------------------------------------------------------------------------
(* Properties *)

TypeOK ==
  /\ projects \in SUBSET Project
  /\ members \in [Project -> SUBSET User]
  /\ invites \in [Invite -> InviteRow \cup {Unissued}]
  /\ pc \in [Request -> PC]
  /\ op \in [Request -> Operation \cup {None}]
  /\ project \in [Request -> Project \cup {None}]
  /\ who \in [Request -> User \cup {None}]
  /\ list \in [Request -> SUBSET User]
  /\ invite \in [Request -> Invite \cup {None}]
  /\ stale \in SUBSET Request

\* A project never loses its last member, however the requests that change
\* its list overlap: RemoveUser's check is made on a copy, but every copy that
\* is saved has a member (project.go RemoveUser, NewProject).
ProjectKeepsMember == \A p \in projects : members[p] # {}

IInv ==
  /\ TypeOK
  /\ RequestsSound
  /\ ListsNotEmpty
  /\ ListsFresh
  /\ ListsSayIt
  /\ StaleHaveCopies
  /\ ProjectKeepsMember

\* A save changes the list by the user the request was about and by nothing
\* else, if no other request saved the list since it was loaded (AddMember,
\* RemoveMember, AcceptInvite over syncMembers of the repository).
SaveMakesOneChange ==
  [][\A r \in Request \ stale : SaveProject(r) =>
       members'[project[r]] =
         Changed(op[r], members[project[r]], who[r])]_vars

\* docs/openapi.yaml:236 answers AddMember with "Member added successfully"
\* and :252 calls its counterpart "Remove a member from the project": no
\* request takes a member out of a project's list but a removal that names
\* them.
OnlyRemovalRemoves ==
  [][\A r \in Request : SaveProject(r) =>
       members[project[r]] \ members'[project[r]]
         \subseteq IF op[r] = "remove" THEN {who[r]} ELSE {}]_vars

-----------------------------------------------------------------------------
(* What the lists promise *)

\* The change a request is about to save.
Prepared ==
  [r \in Request |->
     IF pc[r] = "saving"
     THEN [removes |-> op[r] = "remove", user |-> who[r], project |-> project[r]]
     ELSE None]

Lists == INSTANCE MemberLists WITH
  change <- Prepared,
  overtaken <- stale,
  NoChange <- None

\* AddMember, RemoveMember and AcceptInvite are changes of one user each, that
\* are checked when the list is loaded and, if no other save of the project
\* came in between, still right when it is saved (project/service.go,
\* invite/service.go AcceptInvite, project.go AddUser, RemoveUser).
ImplementsMemberLists == Lists!Spec
=============================================================================
