------------------------- MODULE ProjectMembers_proofs -------------------------
(* Proofs about ProjectMembers for any requests, users, projects, invites. *)
EXTENDS ProjectMembers, TLAPS

\* Every step keeps the types.
LEMMA TypeStep ==
  ASSUME TypeOK, RequestsSound, [Next]_vars
  PROVE  TypeOK'
<1> USE DEF RequestsSound, TypeOK, PC, Change, Operation, Unissued, InviteRow
<1>1. ASSUME NEW r \in Request, NEW u \in User, NEW p \in Project,
            Create(r, u, p)
     PROVE  TypeOK'
  BY <1>1 DEF Create, Outdate, request
<1>2. ASSUME NEW r \in Request, NEW o \in Operation, NEW p \in Project,
            NEW u \in User, NEW v \in User,
            ProjectAccess(r, o, p, u, v)
     PROVE  TypeOK'
  BY <1>2 DEF ProjectAccess, Begin, tables
<1>3. ASSUME NEW r \in Request, NEW i \in Invite, NEW u \in User,
            FindInvite(r, i, u)
     PROVE  TypeOK'
  BY <1>3 DEF FindInvite, Begin, tables
<1>4. ASSUME NEW r \in Request, LoadProject(r)
     PROVE  TypeOK'
  BY <1>4 DEF LoadProject, tables, Changed, Refused, Found
<1>5. ASSUME NEW r \in Request, RefuseChange(r)
     PROVE  TypeOK'
  BY <1>5 DEF RefuseChange, Finish, tables
<1>6. ASSUME NEW r \in Request, SaveProject(r)
     PROVE  TypeOK'
  BY <1>6 DEF SaveProject, Outdate, Finish
<1>7. ASSUME NEW r \in Request, LoadForInvite(r)
     PROVE  TypeOK'
  BY <1>7 DEF LoadForInvite, tables
<1>8. ASSUME NEW r \in Request, RefuseInvite(r)
     PROVE  TypeOK'
  BY <1>8 DEF RefuseInvite, Finish, tables
<1>9. ASSUME NEW r \in Request, NEW i \in Invite, InsertInvite(r, i)
     PROVE  TypeOK'
  BY <1>9 DEF InsertInvite, Finish
<1>10. ASSUME NEW r \in Request, NEW i \in Invite, LookUpInvite(r, i)
     PROVE  TypeOK'
  BY <1>10 DEF LookUpInvite, tables
<1>11. ASSUME NEW r \in Request, DeleteInvite(r)
     PROVE  TypeOK'
  BY <1>11 DEF DeleteInvite, Finish
<1>12. ASSUME NEW r \in Request, Fail(r)
     PROVE  TypeOK'
  BY <1>12 DEF Fail, Finish, tables
<1>13. ASSUME NEW i \in Invite, Expire(i)
     PROVE  TypeOK'
  BY <1>13 DEF Expire, request
<1>14. CASE UNCHANGED vars
  BY <1>14 DEF vars
<1> QED
  BY <1>1, <1>2, <1>3, <1>4, <1>5, <1>6, <1>7, <1>8, <1>9, <1>10, <1>11,
     <1>12, <1>13, <1>14 DEF Next

\* A request keeps its project, user and invite as long as it needs them.
LEMMA RequestStep ==
  ASSUME TypeOK, RequestsSound, [Next]_vars
  PROVE  RequestsSound'
<1> USE DEF RequestsSound, Found, TypeOK, PC, Change, Operation, Unissued,
            InviteRow
<1>1. ASSUME NEW r \in Request, NEW u \in User, NEW p \in Project,
            Create(r, u, p)
     PROVE  RequestsSound'
  BY <1>1 DEF Create, Outdate, request
<1>2. ASSUME NEW r \in Request, NEW o \in Operation, NEW p \in Project,
            NEW u \in User, NEW v \in User,
            ProjectAccess(r, o, p, u, v)
     PROVE  RequestsSound'
  BY <1>2 DEF ProjectAccess, Begin, tables
<1>3. ASSUME NEW r \in Request, NEW i \in Invite, NEW u \in User,
            FindInvite(r, i, u)
     PROVE  RequestsSound'
  BY <1>3 DEF FindInvite, Begin, tables
<1>4. ASSUME NEW r \in Request, LoadProject(r)
     PROVE  RequestsSound'
  BY <1>4 DEF LoadProject, tables, Changed, Refused, Found
<1>5. ASSUME NEW r \in Request, RefuseChange(r)
     PROVE  RequestsSound'
  BY <1>5 DEF RefuseChange, Finish, tables
<1>6. ASSUME NEW r \in Request, SaveProject(r)
     PROVE  RequestsSound'
  BY <1>6 DEF SaveProject, Outdate, Finish
<1>7. ASSUME NEW r \in Request, LoadForInvite(r)
     PROVE  RequestsSound'
  BY <1>7 DEF LoadForInvite, tables
<1>8. ASSUME NEW r \in Request, RefuseInvite(r)
     PROVE  RequestsSound'
  BY <1>8 DEF RefuseInvite, Finish, tables
<1>9. ASSUME NEW r \in Request, NEW i \in Invite, InsertInvite(r, i)
     PROVE  RequestsSound'
  BY <1>9 DEF InsertInvite, Finish
<1>10. ASSUME NEW r \in Request, NEW i \in Invite, LookUpInvite(r, i)
     PROVE  RequestsSound'
  BY <1>10 DEF LookUpInvite, tables
<1>11. ASSUME NEW r \in Request, DeleteInvite(r)
     PROVE  RequestsSound'
  BY <1>11 DEF DeleteInvite, Finish
<1>12. ASSUME NEW r \in Request, Fail(r)
     PROVE  RequestsSound'
  BY <1>12 DEF Fail, Finish, tables
<1>13. ASSUME NEW i \in Invite, Expire(i)
     PROVE  RequestsSound'
  BY <1>13 DEF Expire, request
<1>14. CASE UNCHANGED vars
  BY <1>14 DEF vars
<1> QED
  BY <1>1, <1>2, <1>3, <1>4, <1>5, <1>6, <1>7, <1>8, <1>9, <1>10, <1>11,
     <1>12, <1>13, <1>14 DEF Next

\* A copy is made only of a project that was found, and never made empty.
LEMMA ListsStep ==
  ASSUME TypeOK, RequestsSound, ListsNotEmpty, [Next]_vars
  PROVE  ListsNotEmpty'
<1> USE DEF ListsNotEmpty, RequestsSound, TypeOK, PC, Change, Operation,
            Unissued, InviteRow
<1>1. ASSUME NEW r \in Request, NEW u \in User, NEW p \in Project,
            Create(r, u, p)
     PROVE  ListsNotEmpty'
  BY <1>1 DEF Create, Outdate, request
<1>2. ASSUME NEW r \in Request, NEW o \in Operation, NEW p \in Project,
            NEW u \in User, NEW v \in User,
            ProjectAccess(r, o, p, u, v)
     PROVE  ListsNotEmpty'
  BY <1>2 DEF ProjectAccess, Begin, tables
<1>3. ASSUME NEW r \in Request, NEW i \in Invite, NEW u \in User,
            FindInvite(r, i, u)
     PROVE  ListsNotEmpty'
  BY <1>3 DEF FindInvite, Begin, tables
<1>4. ASSUME NEW r \in Request, LoadProject(r)
     PROVE  ListsNotEmpty'
  BY <1>4 DEF LoadProject, tables, Changed, Refused, Found
<1>5. ASSUME NEW r \in Request, RefuseChange(r)
     PROVE  ListsNotEmpty'
  BY <1>5 DEF RefuseChange, Finish, tables
<1>6. ASSUME NEW r \in Request, SaveProject(r)
     PROVE  ListsNotEmpty'
  BY <1>6 DEF SaveProject, Outdate, Finish
<1>7. ASSUME NEW r \in Request, LoadForInvite(r)
     PROVE  ListsNotEmpty'
  BY <1>7 DEF LoadForInvite, tables
<1>8. ASSUME NEW r \in Request, RefuseInvite(r)
     PROVE  ListsNotEmpty'
  BY <1>8 DEF RefuseInvite, Finish, tables
<1>9. ASSUME NEW r \in Request, NEW i \in Invite, InsertInvite(r, i)
     PROVE  ListsNotEmpty'
  BY <1>9 DEF InsertInvite, Finish
<1>10. ASSUME NEW r \in Request, NEW i \in Invite, LookUpInvite(r, i)
     PROVE  ListsNotEmpty'
  BY <1>10 DEF LookUpInvite, tables
<1>11. ASSUME NEW r \in Request, DeleteInvite(r)
     PROVE  ListsNotEmpty'
  BY <1>11 DEF DeleteInvite, Finish
<1>12. ASSUME NEW r \in Request, Fail(r)
     PROVE  ListsNotEmpty'
  BY <1>12 DEF Fail, Finish, tables
<1>13. ASSUME NEW i \in Invite, Expire(i)
     PROVE  ListsNotEmpty'
  BY <1>13 DEF Expire, request
<1>14. CASE UNCHANGED vars
  BY <1>14 DEF vars
<1> QED
  BY <1>1, <1>2, <1>3, <1>4, <1>5, <1>6, <1>7, <1>8, <1>9, <1>10, <1>11,
     <1>12, <1>13, <1>14 DEF Next

\* Save stores no empty list.
LEMMA MemberStep ==
  ASSUME TypeOK, ListsNotEmpty, ProjectKeepsMember, [Next]_vars
  PROVE  ProjectKeepsMember'
<1> USE DEF ProjectKeepsMember, ListsNotEmpty, TypeOK, PC, Change, Operation,
            Unissued, InviteRow
<1>1. ASSUME NEW r \in Request, NEW u \in User, NEW p \in Project,
            Create(r, u, p)
     PROVE  ProjectKeepsMember'
  BY <1>1 DEF Create, Outdate, request
<1>2. ASSUME NEW r \in Request, NEW o \in Operation, NEW p \in Project,
            NEW u \in User, NEW v \in User,
            ProjectAccess(r, o, p, u, v)
     PROVE  ProjectKeepsMember'
  BY <1>2 DEF ProjectAccess, Begin, tables
<1>3. ASSUME NEW r \in Request, NEW i \in Invite, NEW u \in User,
            FindInvite(r, i, u)
     PROVE  ProjectKeepsMember'
  BY <1>3 DEF FindInvite, Begin, tables
<1>4. ASSUME NEW r \in Request, LoadProject(r)
     PROVE  ProjectKeepsMember'
  BY <1>4 DEF LoadProject, tables, Changed, Refused, Found
<1>5. ASSUME NEW r \in Request, RefuseChange(r)
     PROVE  ProjectKeepsMember'
  BY <1>5 DEF RefuseChange, Finish, tables
<1>6. ASSUME NEW r \in Request, SaveProject(r)
     PROVE  ProjectKeepsMember'
  BY <1>6 DEF SaveProject, Outdate, Finish
<1>7. ASSUME NEW r \in Request, LoadForInvite(r)
     PROVE  ProjectKeepsMember'
  BY <1>7 DEF LoadForInvite, tables
<1>8. ASSUME NEW r \in Request, RefuseInvite(r)
     PROVE  ProjectKeepsMember'
  BY <1>8 DEF RefuseInvite, Finish, tables
<1>9. ASSUME NEW r \in Request, NEW i \in Invite, InsertInvite(r, i)
     PROVE  ProjectKeepsMember'
  BY <1>9 DEF InsertInvite, Finish
<1>10. ASSUME NEW r \in Request, NEW i \in Invite, LookUpInvite(r, i)
     PROVE  ProjectKeepsMember'
  BY <1>10 DEF LookUpInvite, tables
<1>11. ASSUME NEW r \in Request, DeleteInvite(r)
     PROVE  ProjectKeepsMember'
  BY <1>11 DEF DeleteInvite, Finish
<1>12. ASSUME NEW r \in Request, Fail(r)
     PROVE  ProjectKeepsMember'
  BY <1>12 DEF Fail, Finish, tables
<1>13. ASSUME NEW i \in Invite, Expire(i)
     PROVE  ProjectKeepsMember'
  BY <1>13 DEF Expire, request
<1>14. CASE UNCHANGED vars
  BY <1>14 DEF vars
<1> QED
  BY <1>1, <1>2, <1>3, <1>4, <1>5, <1>6, <1>7, <1>8, <1>9, <1>10, <1>11,
     <1>12, <1>13, <1>14 DEF Next

\* A copy that no other request has outdated is of the list as it is.
LEMMA FreshStep ==
  ASSUME TypeOK, RequestsSound, ListsNotEmpty, ListsFresh, [Next]_vars
  PROVE  ListsFresh'
<1> USE DEF ListsFresh, ListsNotEmpty, RequestsSound, Changed, Refused,
            TypeOK, PC, Change, Operation, Unissued, InviteRow
<1>1. ASSUME NEW r \in Request, NEW u \in User, NEW p \in Project,
            Create(r, u, p)
     PROVE  ListsFresh'
  BY <1>1 DEF Create, Outdate, request
<1>2. ASSUME NEW r \in Request, NEW o \in Operation, NEW p \in Project,
            NEW u \in User, NEW v \in User,
            ProjectAccess(r, o, p, u, v)
     PROVE  ListsFresh'
  BY <1>2 DEF ProjectAccess, Begin, tables
<1>3. ASSUME NEW r \in Request, NEW i \in Invite, NEW u \in User,
            FindInvite(r, i, u)
     PROVE  ListsFresh'
  BY <1>3 DEF FindInvite, Begin, tables
<1>4. ASSUME NEW r \in Request, LoadProject(r)
     PROVE  ListsFresh'
  BY <1>4 DEF LoadProject, tables, Found
<1>5. ASSUME NEW r \in Request, RefuseChange(r)
     PROVE  ListsFresh'
  BY <1>5 DEF RefuseChange, Finish, tables
<1>6. ASSUME NEW r \in Request, SaveProject(r)
     PROVE  ListsFresh'
  BY <1>6 DEF SaveProject, Outdate, Finish
<1>7. ASSUME NEW r \in Request, LoadForInvite(r)
     PROVE  ListsFresh'
  BY <1>7 DEF LoadForInvite, tables
<1>8. ASSUME NEW r \in Request, RefuseInvite(r)
     PROVE  ListsFresh'
  BY <1>8 DEF RefuseInvite, Finish, tables
<1>9. ASSUME NEW r \in Request, NEW i \in Invite, InsertInvite(r, i)
     PROVE  ListsFresh'
  BY <1>9 DEF InsertInvite, Finish
<1>10. ASSUME NEW r \in Request, NEW i \in Invite, LookUpInvite(r, i)
     PROVE  ListsFresh'
  BY <1>10 DEF LookUpInvite, tables
<1>11. ASSUME NEW r \in Request, DeleteInvite(r)
     PROVE  ListsFresh'
  BY <1>11 DEF DeleteInvite, Finish
<1>12. ASSUME NEW r \in Request, Fail(r)
     PROVE  ListsFresh'
  BY <1>12 DEF Fail, Finish, tables
<1>13. ASSUME NEW i \in Invite, Expire(i)
     PROVE  ListsFresh'
  BY <1>13 DEF Expire, request
<1>14. CASE UNCHANGED vars
  BY <1>14 DEF vars
<1> QED
  BY <1>1, <1>2, <1>3, <1>4, <1>5, <1>6, <1>7, <1>8, <1>9, <1>10, <1>11,
     <1>12, <1>13, <1>14 DEF Next

\* Each copy contains its user or does not, as was asked.
LEMMA SayItStep ==
  ASSUME TypeOK, RequestsSound, ListsSayIt, [Next]_vars
  PROVE  ListsSayIt'
<1> USE DEF ListsSayIt, RequestsSound, Changed, Refused, TypeOK, PC, Change,
            Operation, Unissued, InviteRow
<1>1. ASSUME NEW r \in Request, NEW u \in User, NEW p \in Project,
            Create(r, u, p)
     PROVE  ListsSayIt'
  BY <1>1 DEF Create, Outdate, request
<1>2. ASSUME NEW r \in Request, NEW o \in Operation, NEW p \in Project,
            NEW u \in User, NEW v \in User,
            ProjectAccess(r, o, p, u, v)
     PROVE  ListsSayIt'
  BY <1>2 DEF ProjectAccess, Begin, tables
<1>3. ASSUME NEW r \in Request, NEW i \in Invite, NEW u \in User,
            FindInvite(r, i, u)
     PROVE  ListsSayIt'
  BY <1>3 DEF FindInvite, Begin, tables
<1>4. ASSUME NEW r \in Request, LoadProject(r)
     PROVE  ListsSayIt'
  BY <1>4 DEF LoadProject, tables, Found
<1>5. ASSUME NEW r \in Request, RefuseChange(r)
     PROVE  ListsSayIt'
  BY <1>5 DEF RefuseChange, Finish, tables
<1>6. ASSUME NEW r \in Request, SaveProject(r)
     PROVE  ListsSayIt'
  BY <1>6 DEF SaveProject, Outdate, Finish
<1>7. ASSUME NEW r \in Request, LoadForInvite(r)
     PROVE  ListsSayIt'
  BY <1>7 DEF LoadForInvite, tables
<1>8. ASSUME NEW r \in Request, RefuseInvite(r)
     PROVE  ListsSayIt'
  BY <1>8 DEF RefuseInvite, Finish, tables
<1>9. ASSUME NEW r \in Request, NEW i \in Invite, InsertInvite(r, i)
     PROVE  ListsSayIt'
  BY <1>9 DEF InsertInvite, Finish
<1>10. ASSUME NEW r \in Request, NEW i \in Invite, LookUpInvite(r, i)
     PROVE  ListsSayIt'
  BY <1>10 DEF LookUpInvite, tables
<1>11. ASSUME NEW r \in Request, DeleteInvite(r)
     PROVE  ListsSayIt'
  BY <1>11 DEF DeleteInvite, Finish
<1>12. ASSUME NEW r \in Request, Fail(r)
     PROVE  ListsSayIt'
  BY <1>12 DEF Fail, Finish, tables
<1>13. ASSUME NEW i \in Invite, Expire(i)
     PROVE  ListsSayIt'
  BY <1>13 DEF Expire, request
<1>14. CASE UNCHANGED vars
  BY <1>14 DEF vars
<1> QED
  BY <1>1, <1>2, <1>3, <1>4, <1>5, <1>6, <1>7, <1>8, <1>9, <1>10, <1>11,
     <1>12, <1>13, <1>14 DEF Next

\* Whoever makes a copy makes it of the list as it is.
LEMMA StaleStep ==
  ASSUME TypeOK, StaleHaveCopies, [Next]_vars
  PROVE  StaleHaveCopies'
<1> USE DEF StaleHaveCopies, TypeOK, PC, Change, Operation, Unissued, InviteRow
<1>1. ASSUME NEW r \in Request, NEW u \in User, NEW p \in Project,
            Create(r, u, p)
     PROVE  StaleHaveCopies'
  BY <1>1 DEF Create, Outdate, request
<1>2. ASSUME NEW r \in Request, NEW o \in Operation, NEW p \in Project,
            NEW u \in User, NEW v \in User,
            ProjectAccess(r, o, p, u, v)
     PROVE  StaleHaveCopies'
  BY <1>2 DEF ProjectAccess, Begin, tables
<1>3. ASSUME NEW r \in Request, NEW i \in Invite, NEW u \in User,
            FindInvite(r, i, u)
     PROVE  StaleHaveCopies'
  BY <1>3 DEF FindInvite, Begin, tables
<1>4. ASSUME NEW r \in Request, LoadProject(r)
     PROVE  StaleHaveCopies'
  BY <1>4 DEF LoadProject, tables, Found
<1>5. ASSUME NEW r \in Request, RefuseChange(r)
     PROVE  StaleHaveCopies'
  BY <1>5 DEF RefuseChange, Finish, tables
<1>6. ASSUME NEW r \in Request, SaveProject(r)
     PROVE  StaleHaveCopies'
  BY <1>6 DEF SaveProject, Outdate, Finish
<1>7. ASSUME NEW r \in Request, LoadForInvite(r)
     PROVE  StaleHaveCopies'
  BY <1>7 DEF LoadForInvite, tables
<1>8. ASSUME NEW r \in Request, RefuseInvite(r)
     PROVE  StaleHaveCopies'
  BY <1>8 DEF RefuseInvite, Finish, tables
<1>9. ASSUME NEW r \in Request, NEW i \in Invite, InsertInvite(r, i)
     PROVE  StaleHaveCopies'
  BY <1>9 DEF InsertInvite, Finish
<1>10. ASSUME NEW r \in Request, NEW i \in Invite, LookUpInvite(r, i)
     PROVE  StaleHaveCopies'
  BY <1>10 DEF LookUpInvite, tables
<1>11. ASSUME NEW r \in Request, DeleteInvite(r)
     PROVE  StaleHaveCopies'
  BY <1>11 DEF DeleteInvite, Finish
<1>12. ASSUME NEW r \in Request, Fail(r)
     PROVE  StaleHaveCopies'
  BY <1>12 DEF Fail, Finish, tables
<1>13. ASSUME NEW i \in Invite, Expire(i)
     PROVE  StaleHaveCopies'
  BY <1>13 DEF Expire, request
<1>14. CASE UNCHANGED vars
  BY <1>14 DEF vars
<1> QED
  BY <1>1, <1>2, <1>3, <1>4, <1>5, <1>6, <1>7, <1>8, <1>9, <1>10, <1>11,
     <1>12, <1>13, <1>14 DEF Next

\* The conjunction of the invariants holds in every state of every behaviour.
THEOREM Invariance == Spec => []IInv
<1>1. Init => IInv
  BY DEF Init, IInv, TypeOK, RequestsSound, ListsNotEmpty, ListsFresh,
         ListsSayIt, StaleHaveCopies, ProjectKeepsMember, PC,
         Unissued, InviteRow
<1>2. IInv /\ [Next]_vars => IInv'
  BY TypeStep, RequestStep, ListsStep, MemberStep, FreshStep,
     SayItStep, StaleStep DEF IInv
<1> QED
  BY <1>1, <1>2, PTL DEF Spec

\* The variables keep their types (the tables and the requests' locals).
THEOREM TypeCorrect == Spec => []TypeOK
  BY Invariance, PTL DEF IInv

\* No overlap of removals, additions, accepted invites and creations ever
\* leaves a project without a member (project.go RemoveUser and NewProject).
THEOREM NeverEmpty == Spec => []ProjectKeepsMember
  BY Invariance, PTL DEF IInv

\* Each save of a list that no other request saved in between makes exactly
\* the change its request asked for (AddMember, RemoveMember, AcceptInvite).
THEOREM OneChange == Spec => SaveMakesOneChange
<1>1. ASSUME IInv, [Next]_vars
      PROVE  [\A r \in Request \ stale : SaveProject(r) =>
                members'[project[r]] =
                  Changed(op[r], members[project[r]], who[r])]_vars
  <2>1. ASSUME NEW r \in Request \ stale, SaveProject(r)
        PROVE  members'[project[r]] =
                 Changed(op[r], members[project[r]], who[r])
    <3>1. /\ pc[r] = "saving"
          /\ members' = [members EXCEPT ![project[r]] = list[r]]
      BY <2>1 DEF SaveProject
    <3>2. list[r] = Changed(op[r], members[project[r]], who[r])
      BY <1>1, <3>1 DEF IInv, ListsFresh
    <3>3. project[r] \in DOMAIN members
      BY <1>1, <3>1 DEF IInv, RequestsSound, TypeOK
    <3> QED
      BY <3>1, <3>2, <3>3
  <2> QED
    BY <2>1
<1> QED
  BY <1>1, Invariance, PTL DEF Spec, SaveMakesOneChange
-----------------------------------------------------------------------------
(* ProjectMembers implements MemberLists *)

\* A prepared change is one that MemberLists knows, and there is one for the
\* requests with a copy only.
LEMMA PreparedFacts ==
  ASSUME TypeOK, RequestsSound, ListsSayIt
  PROVE  /\ \A r \in Request : pc[r] = "saving" =>
              /\ Prepared[r] \in Lists!Change
              /\ Prepared[r] # None
              /\ Prepared[r].removes <=> op[r] = "remove"
              /\ Prepared[r].user = who[r]
              /\ Prepared[r].project = project[r]
         /\ \A r \in Request : pc[r] # "saving" => Prepared[r] = None
<1>1. ASSUME NEW r \in Request, pc[r] = "saving"
      PROVE  /\ Prepared[r] \in Lists!Change
             /\ Prepared[r] # None
             /\ Prepared[r].removes <=> op[r] = "remove"
             /\ Prepared[r].user = who[r]
             /\ Prepared[r].project = project[r]
  <2>1. project[r] \in Project /\ who[r] \in User
    BY <1>1 DEF RequestsSound, ListsSayIt
  <2>2. Prepared[r] = [removes |-> op[r] = "remove", user |-> who[r],
                       project |-> project[r]]
    BY <1>1 DEF Prepared
  <2>3. Prepared[r] \in [removes : BOOLEAN, user : User, project : Project]
    <3>1. (op[r] = "remove") \in BOOLEAN
      OBVIOUS
    <3> QED
      BY <2>1, <2>2, <3>1
  <2>4. Prepared[r] # None
    BY <2>3, MembersAssumption, Zenon
  <2>5. /\ Prepared[r].user = who[r]
        /\ Prepared[r].project = project[r]
    BY <2>2
  <2>6. Prepared[r].removes = (op[r] = "remove")
    <3>1. PICK b : b = (op[r] = "remove")
      OBVIOUS
    <3>2. Prepared[r] = [removes |-> b, user |-> who[r], project |-> project[r]]
      BY <2>2, <3>1, Zenon
    <3>3. Prepared[r].removes = b
      BY <3>2
    <3> QED
      BY <3>1, <3>3, Zenon
  <2> QED
    BY <2>3, <2>4, <2>5, <2>6, Zenon DEF Lists!Change
<1> QED
  BY <1>1 DEF Prepared

\* What a save marks as old is what a commit overtakes.
LEMMA OutdateOvertakes ==
  ASSUME TypeOK, RequestsSound, ListsSayIt,
         NEW r \in Request, NEW p \in Project, Outdate(r, p)
  PROVE  stale' = (stale \ {r})
           \cup {s \in Request \ {r} : Prepared[s] # None /\ Prepared[s].project = p}
  BY PreparedFacts DEF Outdate

\* Every step is one of MemberLists, or changes nothing that it knows of.
LEMMA ListsRefined ==
  ASSUME IInv, [Next]_vars
  PROVE  [Lists!Next]_(Lists!lists)
<1> DEFINE C == Prepared
<1> USE DEF IInv
<1>a. /\ TypeOK /\ RequestsSound /\ ListsSayIt
      /\ C = [r \in Request |-> C[r]] /\ C' = [r \in Request |-> C'[r]]
  BY DEF Prepared
<1>1. ASSUME NEW r \in Request, NEW u \in User, NEW p \in Project,
             Create(r, u, p)
      PROVE  Lists!Create(r, p, u)
  <2>1. C[r] = None /\ C' = C
    BY <1>1, PreparedFacts DEF Create, request, Prepared
  <2>2. Lists!Commit(r, p, {u})
    BY <1>1, OutdateOvertakes DEF Create, Lists!Commit
  <2> QED
    BY <2>1, <2>2 DEF Lists!Create
<1>2. ASSUME NEW r \in Request, LoadProject(r)
      PROVE  \E c \in Lists!Change : Lists!Prepare(r, c)
  <2>1. /\ pc[r] = "loading" /\ pc' = [pc EXCEPT ![r] = "saving"]
        /\ op[r] \in Change /\ project[r] \in Project /\ who[r] \in User
        /\ Found(project[r])
        /\ ~Refused(op[r], members[project[r]], who[r])
        /\ UNCHANGED <<members, stale, op, project, who>>
    BY <1>2 DEF LoadProject, tables, RequestsSound
  <2> DEFINE c == [removes |-> op[r] = "remove", user |-> who[r],
                   project |-> project[r]]
  <2>2. c \in Lists!Change /\ c.user = who[r] /\ c.project = project[r]
    BY <2>1 DEF Lists!Change
  <2>3. C' = [C EXCEPT ![r] = c]
    BY <2>1 DEF Prepared, TypeOK
  <2>4. C[r] = None /\ r \notin stale
    BY <2>1 DEF Prepared, StaleHaveCopies
  <2>5. Lists!Allowed(c) /\ members[c.project] # {}
    BY <2>1, <2>2 DEF Lists!Allowed, Refused, Found
  <2>6. Lists!Prepare(r, c)
    BY <2>1, <2>3, <2>4, <2>5 DEF Lists!Prepare
  <2> QED
    BY <2>2, <2>6
<1>3. ASSUME NEW r \in Request, SaveProject(r)
      PROVE  \E c \in Lists!Change :
               \/ Lists!CommitChange(r, c)
               \/ \E l \in SUBSET User : Lists!CommitOvertaken(r, c, l)
  <2>1. /\ pc[r] = "saving" /\ project[r] \in Project
        /\ members' = [members EXCEPT ![project[r]] = list[r]]
        /\ Outdate(r, project[r])
        /\ list[r] \in SUBSET User /\ list[r] # {}
    BY <1>3 DEF SaveProject, RequestsSound, ListsNotEmpty, TypeOK
  <2> DEFINE c == C[r]
  <2>2. /\ c \in Lists!Change /\ c # None
        /\ c.removes <=> op[r] = "remove"
        /\ c.user = who[r] /\ c.project = project[r]
    BY <2>1, PreparedFacts
  <2>3. C' = [C EXCEPT ![r] = None]
    BY <1>3, <2>1 DEF SaveProject, Finish, Prepared, TypeOK
  <2>4. Lists!Commit(r, c.project, list[r])
    BY <2>1, <2>2, OutdateOvertakes DEF Lists!Commit
  <2>5. CASE r \in stale
    <3>1. c.user \in list[r] <=> ~c.removes
      BY <2>1, <2>2 DEF ListsSayIt
    <3>2. Lists!CommitOvertaken(r, c, list[r])
      BY <2>1, <2>3, <2>4, <2>5, <3>1 DEF Lists!CommitOvertaken
    <3> QED
      BY <2>1, <2>2, <3>2
  <2>6. CASE r \notin stale
    <3>1. /\ ~Refused(op[r], members[project[r]], who[r])
          /\ list[r] = Changed(op[r], members[project[r]], who[r])
      BY <2>1, <2>6 DEF ListsFresh
    <3>2. Lists!Allowed(c)
      BY <2>2, <3>1 DEF Lists!Allowed, Refused
    <3>3. list[r] = IF c.removes THEN members[c.project] \ {c.user}
                                 ELSE members[c.project] \cup {c.user}
      BY <2>2, <3>1 DEF Changed
    <3>4. Lists!CommitChange(r, c)
      BY <2>3, <2>4, <2>6, <3>2, <3>3 DEF Lists!CommitChange
    <3> QED
      BY <2>2, <3>4
  <2> QED
    BY <2>5, <2>6
<1>4. ASSUME NEW r \in Request, Fail(r)
      PROVE  Lists!GiveUp(r)
  <2>1. C' = [C EXCEPT ![r] = None]
    BY <1>4 DEF Fail, Finish, Prepared, TypeOK
  <2> QED
    BY <1>4, <2>1 DEF Fail, tables, Lists!GiveUp
<1>5. ASSUME NEW r \in Request, \/ RefuseChange(r)
                                \/ RefuseInvite(r)
                                \/ DeleteInvite(r)
                                \/ \E i \in Invite : InsertInvite(r, i)
      PROVE  UNCHANGED Lists!lists
  <2>1. /\ pc[r] # "saving" /\ Finish(r) /\ UNCHANGED <<members, stale>>
    BY <1>5 DEF RefuseChange, RefuseInvite, DeleteInvite, InsertInvite, tables
  <2>2. C' = C
    BY <2>1 DEF Finish, Prepared, TypeOK
  <2> QED
    BY <2>1, <2>2 DEF Lists!lists
<1>6. ASSUME NEW r \in Request,
             \/ \E o \in Operation, p \in Project, u, v \in User :
                  ProjectAccess(r, o, p, u, v)
             \/ \E i \in Invite, u \in User : FindInvite(r, i, u)
             \/ LoadForInvite(r)
             \/ \E i \in Invite : LookUpInvite(r, i)
      PROVE  UNCHANGED Lists!lists
  <2>1. /\ pc[r] # "saving" /\ pc'[r] # "saving"
        /\ \A q \in Request \ {r} : /\ pc'[q] = pc[q] /\ op'[q] = op[q]
                                     /\ project'[q] = project[q] /\ who'[q] = who[q]
        /\ UNCHANGED <<members, stale>>
    BY <1>6 DEF ProjectAccess, FindInvite, Begin, LoadForInvite, LookUpInvite,
                tables, TypeOK
  <2>2. C' = C
    BY <2>1 DEF Prepared
  <2> QED
    BY <2>1, <2>2 DEF Lists!lists
<1>7. ASSUME \/ UNCHANGED vars
             \/ \E i \in Invite : Expire(i)
      PROVE  UNCHANGED Lists!lists
  BY <1>7 DEF vars, Expire, request, Prepared, Lists!lists
<1> QED
  BY <1>1, <1>2, <1>3, <1>4, <1>5, <1>6, <1>7 DEF Next, Lists!Next

\* Adding, removing and joining are the optimistic changes of MemberLists:
\* checked when the list is loaded, and exact unless they are overtaken
\* (project/service.go, invite/service.go, project.go).
THEOREM Implementation == Spec => ImplementsMemberLists
<1>1. Init => Lists!Init
  BY DEF Init, Prepared, Lists!Init
<1>2. IInv /\ [Next]_vars => [Lists!Next]_(Lists!lists)
  BY ListsRefined
<1> QED
  BY <1>1, <1>2, Invariance, PTL DEF Spec, Lists!Spec, ImplementsMemberLists
=============================================================================
