# typstlab-server: specifications, checks and proofs

typstlab-server is a Go server for writing Typst documents together. It keeps
projects, their members and their files; clients edit over a WebSocket and
upload or manage files over HTTP. This directory specifies the parts of it in
which requests of several clients meet, checks them with TLC on small instances
and proves their main invariants with TLAPS for every instance.

Paths below are relative to the repository; `sync/service.go` and the like are
under `src/internal/application`, `hub.go`, `room.go`, `client.go`,
`awareness.go` and `handler.go` under `src/internal/infrastructure/websocket`.

## 1. The system

### Components

| Component | State | Operations that change it | Interacts with |
|---|---|---|---|
| Hub and rooms (`hub.go`, `room.go`, `awareness.go`, `cmd/server/main.go`) | rooms by project, members of each room, presences of each room | `GetOrCreateRoom`, `Join`, `Leave`, `RemoveClient`, `SetPresence`, `RemovePresence`, `Close`, `Shutdown` | called by the goroutine of each connection and by the shutdown goroutine; one mutex for the hub, one per room, one per awareness store |
| Message channels (`client.go`, `room.go`) | a bounded send buffer per connection | `Send` (drops when full), `WritePump`, `Broadcast`, `BroadcastExcept` | filled by every handler of the room, emptied by the connection's write pump |
| WebSocket handler (`handler.go`) | none of its own; a goroutine per connection | `sync_init`, `crdt_update`, `metadata_update`, `awareness_update`, `ping` | hub, room, sync service |
| Sync planning (`sync/service.go`, `crdt/yjs_merger.go`) | none | metadata merge, mutations, instructions | ygo library |
| Sync service (`sync/service.go`, `file/...`, `postgres/file_repository.go`, `http/file/handler.go`) | the `files` table | edit, rename, delete, upload, each of several statements | one request per client at a time, several clients at once |
| Project members and invites (`project/service.go`, `invite/service.go`, `postgres/project_repository.go`, `postgres/invite_repository.go`) | `projects`, `project_members`, `project_invites` | `Create`, `AddMember`, `RemoveMember`, `CreateInvite`, `AcceptInvite`, `RevokeInvite` | HTTP requests, and the access middleware, which reads the lists |
| Composite file repository (`persistence/composite`, `persistence/s3`) | a row in PostgreSQL and an object in S3 per binary file | `SaveBinaryFile`, `DeleteFile`, `FindBinaryFileByID` | sync service, HTTP upload and deletion |
| Sessions and users (`auth`, `session`, `user`) | `sessions`, `users` | `Register`, `Login`, `Refresh`, `Logout` | HTTP |
| Memory repositories (`persistence/memory`) | maps, of entity pointers or values | the same interfaces, in tests and when no pool can be created | all services |
| Wiring and start-up (`di`, `config`, pool, migrations) | created once | none afterwards | |

### What is hard about it

* Almost every operation is a read, a computation and a write without a
  transaction or a lock around them: edits, renames, member lists, refreshes.
* The hub, the room and the awareness store have a mutex each, and the handlers
  go from one to the other holding none: a room can be unregistered between the
  two steps of a connection that is joining it.
* Sending never blocks, so a message can be lost; delivery is in order for one
  connection, but the order in which two broadcasts enter two buffers differs.
* Two stores hold one binary file.
* A request may stop after any of its statements: the database fails, the
  request is cancelled, the process exits; an answer may not reach the client.
* No answer tells a client that its update was stored, so clients send updates
  again; a client comes back with what it has and asks for the rest.

### What makes each component correct

* Hub: no presence of a user who is gone, no room that leaks, every open
  connection a member of its room; a cancelled connection gets out.
* Channels: members end up showing what the awareness store holds; nobody waits
  for a slow peer. Members that asked for what they missed and lost nothing end
  with the whole document, and nobody shows an update that was refused.
* Planning: a metadata update does what its delta asks and no more, a retry
  completes one that failed, a client that follows the instructions is up to date.
* Sync service: acknowledged edits, names and deletions are not undone; each
  request acts on a file at one instant.
* Members: a project always has a member; a request changes the list by the
  user it is about.
* Binary files: a listed file can be read, and has the content last acknowledged.
* Sessions: a login goes on until it is logged out or expires, and has one
  session, so that a logout ends it. Users: one per address.

The full list of hazards, each with the line where it bites and the properties
that watch it, is in `PROJECT.json` under `hazards`.

## 2. The modules

| Module | Models | Checked by | Proved in |
|---|---|---|---|
| `CollabHub` | hub, rooms, presences, life of a connection, shutdown | `MCCollabHub` | `CollabHub_proofs` |
| `HubOverlap` | `CollabHub` with a record of who came back while its user was being taken out; EXTENDS it | `MCHubOverlap` | `CollabHub_proofs` |
| `RoomChannel` | send buffers, broadcasts, snapshot and awareness messages of one room | `MCRoomChannel` | `RoomChannel_proofs` |
| `SyncPlan` | pure operators of synchronization | `MCSyncPlan` | `SyncPlan_proofs` |
| `FileStore` | abstract: a table of files that edits, renames, deletions and uploads change atomically | as a property of `SyncService` | `SyncService_proofs` |
| `SyncService` | the requests that write files, statement by statement; EXTENDS `SyncPlan`, INSTANCEs `FileStore` | `MCSyncService` | `SyncService_proofs` |
| `SyncOverlap` | `SyncService` with a record of the files whose readers were overtaken; EXTENDS it | `MCSyncExclusive` | `SyncService_proofs` |
| `UpdateDelivery` | `crdt_update` and `sync_init` from the statement to the client's copy; INSTANCEs `SyncService` | `MCUpdateDelivery` | `UpdateDelivery_proofs` |
| `MemberLists` | abstract: lists that requests change by one user, checked when prepared and when committed | as a property of `ProjectMembers` | `ProjectMembers_proofs` |
| `ProjectMembers` | projects, member lists, invites; INSTANCEs `MemberLists` | `MCProjectMembers` | `ProjectMembers_proofs` |
| `ContentStore` | abstract: one store of contents, changed by one request per file at a time | as a property of `BlobFiles` | `BlobFiles_proofs` |
| `BlobFiles` | binary files over PostgreSQL and S3; INSTANCEs `ContentStore` | `MCBlobFiles` | `BlobFiles_proofs` |
| `BlobOverlap` | `BlobFiles` with a record of the requests that overlap and of the answers that can be relied on; EXTENDS it | `MCBlobOverlap` | `BlobFiles_proofs` |
| `LoginStore` | abstract: logins that are opened, closed and not resumed | as a property of `AuthSessions` | `AuthSessions_proofs` |
| `AuthSessions` | registration, login, refresh, logout, expiry; INSTANCEs `LoginStore` | `MCAuthSessions` | `AuthSessions_proofs` |

Refinements tie them together: `UpdateDelivery` implements `SyncService` (what
delivery adds is a stutter of it), and `SyncService` implements `FileStore` on
the files that have one writer; `ProjectMembers`, `BlobFiles` and
`AuthSessions` implement `MemberLists`, `ContentStore` and `LoginStore`. An
abstract specification says what a component promises without the statements
it is made of, and is worth as much as it forbids: none of them lets a request
do what the code may only do when another one overlaps it, unless it says so.

`HubOverlap`, `SyncOverlap` and `BlobOverlap` add history variables to a module
and nothing else. They are about the races that the code has: that this is the only way in
which the promise fails.

`PROJECT.json` maps each definition to the lines it models. Definitions
introduced by a comment "Mutant:" are plausible bugs of the definition that
follows; replacing it by one must break a property, which shows that the
property depends on the code.

### CollabHub

One action per critical section. A connection goes through `pc`: `idle`, then
`GetOrCreateRoom` (hub lock), `Join` (room lock), reading (`active`), handling
an `awareness_update` (`SetPresence`, awareness lock), and after a failed read
`Leave` (room lock), `RemovePresence` (awareness lock) and `CheckRoom` (hub
lock, `RemoveClient` from hub.go:59). Rooms are identified by the connection
that allocated them, so a project may have had several. `Shutdown` is
`Hub.Shutdown`, which main.go calls when the signal comes and
`Container.Close` once more at the end; HTTP's own shutdown does not wait for
hijacked connections, so handlers go on until the process exits (`Exit`).
A presence is its user: the cursor is in `RoomChannel`.

The hub does break what one would expect of it, see the disagreements below;
two action properties say how far. `PartedOnlyByOverlap`: as long as nothing
overlaps, whoever works on a project is in the registered room
(`Together`); the first step after which it is not so is a removal of an empty
room which another connection has got and not joined, or left and not yet
looked at. `PresenceStays`: a member keeps its presence, except one in
`returned`, the history variable of `HubOverlap`: it joined after another
connection of its user had left the room as the last one, and before that one
removed the presence.

### RoomChannel

One room, down to the messages. A broadcast shares `Room.mu` while it sends to
one member after another (`todo`), so no `Join` or `Leave` runs during it
(`Sharing`), but other broadcasts do. `Send` appends to a buffer or, when that
is full, drops the message. The client is part of the model only as `view`:
what it shows after the messages it was given. `WriteFails` is a write pump that
cannot write: the message it had taken and those behind it are lost and the
context is cancelled (`cut`), so the connection reads and sends nothing more,
but stays a member until its handler is done. The history variable `misled`
holds the connections that lost a message or were sent one before their
snapshot, until they leave.

### SyncPlan, FileStore and SyncService

A document is the set of the edits it contains, which is what a CRDT is for:
merging is union, the missing part is the difference, and the ygo library's
encoding is left out. The metadata document is a map from files to a name and
a deleted flag; of two concurrent settings of a key the client's wins, as
`SyncMetadata` applies the client's delta to an empty document and fills in the
server's entries where it has none.

`SyncService` has a request per client with the locals of its Go functions.
`LoadFile`/`SaveFile` are the two statements of `ApplyFileChanges`;
`MetadataUpdate` or `SyncInit` read the entries, `ListFiles` reads the rows and
`DeleteListed`, `DeleteMissing`, `RenameListed` mutate one file each, in any
order, the Go code iterating over entries that come out of a map; `Upload` and
`Delete` are the HTTP handlers. `Fail` ends a request after any statement. The
constants `CanEdit`, `CanName`, `CanUpload`, `CanDelete` and `CanSync` say who
sends what: the same module describes clients that keep out of each other's way and
clients that do not.

`Owned` is the set of files that only one client writes, and `OneNamer` says
that one client at most gives names; the properties are about owned files, while
others are written by everybody.

`FileStore` is the abstract specification: the table together with what the
clients were told (`saved`, `name`, `gone`, the history variables of
`SyncService`), both changed by one step per operation. Because a step has to
match what was acknowledged as well as the row, a rename that drops the content
cannot pass for an upload.

`SyncOverlap` drops the distinction of owned files. Its history variable
`disturbed` holds the files whose row (or entry, for a request that merges
metadata) changed under a request that had read it and could still write it
back. `LossTakesOverlap` says of every other file, whoever writes it, what the
three invariants say of owned ones.

### UpdateDelivery

One Typst file and the members of its room. A handler takes one message at a
time: `LoadFile`, `SaveFile`, `BroadcastExcept` for a `crdt_update`, `SyncInit`,
`ListFiles`, `MutationsDone` for a `sync_init`. Each client has a `copy`, which it
keeps when it leaves, and sends its own edits, also again. A broadcast is one
step, because the order of edits does not matter to a document; which of the
members have no room for it is open, since presences, metadata, pongs and errors
take room too. A `download` brings what the row has when the client follows it.
`Fail` is a statement that fails, `WriteFails` a connection that is lost.
The history variables are `saved`, the edits that were stored; `overwritten`,
those that a save from a stale snapshot then removed; and `current`, the members
that asked for what they miss and for which nothing was dropped since. The
`Sync...` operators are the refinement mapping: a handler that broadcasts has
made its statements and is idle to `SyncService`.

### ProjectMembers

`projects`, `members` and `invites` are the tables; the locals of each request
are its operation, project, user and the changed copy of the list that it is
going to save. `SaveProject` is one step because `Save` of
postgres/project_repository.go is one transaction; the history variable `stale`
holds the requests whose copy is of a list that another one has saved since.
The access check of the middleware is its own step (`ProjectAccess`), before the
load.

To `MemberLists` a request with a copy has `Prepared` a change of one user and
is `overtaken` when it is `stale`. Loading is `Prepare`, which checks the
change against the list, and saving is `CommitChange`, which is allowed only if
the check would succeed on the list as it is then; saving an old copy is
`CommitOvertaken`, which may lose what others did but neither its own user's
change nor the last member. Invites, projects and the access check are stutters.

### BlobFiles

`row` is the table, `blob` the bucket, keyed by file and name. Uploads and
renames put the object and then the row. The constants `Deletable`,
`Renamable` and `Serial` say which files are deleted, renamed, or the subject
of one request at a time. A deletion looks the row and the
object up, removes the object, then the row, and goes on when the first two
fail. Files are deleted by HTTP, which first has to download them, or by a
metadata update, which does not.

To `ContentStore` there is one store: `Readable` is the object that a file's row
leads to, `Wanted` what the request in progress will make of it. The call
after which a reader gets the new content, of whichever store it is, is a
`Touch`, and so are the failures that leave the file one way or the other; the
answer is `Complete`. The mapping is for the files `Served` one request at a
time and never renamed, since a rename empties a file (`blobs_rename`).

`BlobOverlap` makes no such distinction. Its history variable `overlapped` holds
the requests that were not alone with their file all the time, `trusted` the
files whose last answered upload was, and which were not renamed nor had
requests that overlap since. `LoneUploadStays` is about those, so it says more
than that nothing goes wrong unless requests overlap: whatever they left in the
two stores, the next upload that is alone sets the file right.

### AuthSessions

`email` is the `users` table and `session` the `sessions` table, or the maps in
memory: `repos` is chosen in `Init` as container.go chooses it. The repositories
differ in three ways: PostgreSQL's calls may fail, its index on the address
refuses a second user, and its `FindByToken` cannot build an expired session.
A request is at most four calls:
`Refresh` looks the session up, `FindHolder` its user, `CreateSession` makes the
new one, `InvalidateOld` removes the old one or, as the error is ignored,
`InvalidateOldFails` does not; `Answer` sets the cookies. `Fail` ends a request
between any two, which includes an answer that is lost. Tokens are never
used twice. The history variable `login` gives each token the login it continues,
`owner` each login the user who opened it; `ended`, `lost` and
`disturbed` are the logins that were logged out or expired, of which an answer
was lost, and whose requests overlapped or left an old token behind.

`LoginStore` is about users, which the invariants are not: `Acts` is for whom
the sessions of a login are. It is `Open`ed for one user and acts for nobody
else after any number of refreshes; `Close`d, by a logout or by expiry, it
stays so unless it is disturbed.

## 3. The runs

All of them finish; the largest take up to three minutes on two workers.

| Run | Instance | What it shows |
|---|---|---|
| `hub_safety` | 3 connections, 2 of one user, 1 project, fair | types, no ghost presence, no leaked room, open connections are members; what must overlap for a project to be parted or a presence to be lost; a closed connection gets through `RemoveClient` |
| `channel` | 2 connections, 1 cursor, buffers of 2, fair | settled members that were not misled show what the store holds; a handler ends although nobody reads |
| `delivery` | 2 clients, 2 edits, buffers of 2 | a member that asked and lost nothing ends with the document; nobody shows a refused edit; `SyncService` is implemented |
| `sync_plan` | every table, delta, vector and point of failure, 2 files, 2 names, 1 edit | updates, retries and instructions do what they are for |
| `sync_exclusive` | 2 clients, 3 files, 2 names, 2 edits, fair; `f1` and `f2` have one writer, `f3` has two, one client does all naming | edits, names and deletions of owned files survive, and those of `f3` unless a request was overtaken; `FileStore` is implemented; every request ends |
| `members` | 3 requests, 3 users, 1 project, 1 invite | a project keeps a member, whatever overlaps or fails; a save that was not overtaken changes one member; `MemberLists` is implemented |
| `blobs` | 3 requests on 2 files: `f1` overlapping and renamed, `f2` one at a time and deleted | a listed file that nobody deletes has its blob; `f2` keeps its acknowledged content, `f1` that of a lone upload; `ContentStore` is implemented |
| `auth` | 3 requests, 2 users, 2 spellings of one address, 3 tokens, either store | one user per address; an undisturbed login has one session; a login ends by logout, expiry or a lost answer only; `LoginStore` is implemented |

Four more runs expect a violation. Each checks one sentence of a comment or a
document against what the code does, and the trace TLC finds is the story:

| Run | Claim | What happens |
|---|---|---|
| `hub_empty` | `RemoveClient` removes a room "if it becomes empty" (hub.go:47) | a connection that joined a room already unregistered leaves; the project's new room, which has members, is unregistered |
| `sync_edits` | edits merge without conflict in a reliable store (tld_spec.md:13,15) | of two overlapping edits one is overwritten |
| `members_removal` | members are removed by removal (openapi.yaml:236,252) | two overlapping additions lose one user |
| `blobs_rename` | binary files are renamed without conflict (sync_spec.md:118) | the content under the new name is empty |

### Further disagreements met while modelling

They are behaviours of the modules as they stand, found by the same means, and
are not runs of their own:

* room.go:54 says `Leave` cleans up "if user is gone"; in `CollabHub` the user
  may join again and set a presence between `Leave` and `RemovePresence`, and
  loses it (and nobody else does: `PresenceStays`).
* hub.go:73 says `Shutdown` closes all client connections; a connection in a
  room that another connection's `RemoveClient` unregistered is not closed.
* room.go:39 and openapi.yaml:516 promise the snapshot "immediately"; an update
  broadcast between `Join` and `SendSnapshot` arrives before the older snapshot
  (`SettledViewsAgree` without `misled` fails). Two connections of one user
  break it too, whose `SetPresence` and broadcasts happen in different orders.
* sync_spec.md:13 says names and deletions synchronize without conflict; with
  two writers of a file, and without the restriction to `Owned`, `NameAsAsked`
  fails because a `sync_init` that read the entries before a rename and the
  files after it renames back (sync/service.go:120), and `DeletedStaysDeleted`
  because an edit that overlaps a deletion upserts the row again
  (sync/service.go:191).
* sync_spec.md:125 says `upload` is issued for a file created offline; `SyncInit`
  merges no client delta, so its entries are the database's rows and the branch
  in sync/service.go:337 is never taken (`UploadInstruction` in `SyncPlan`).
* openapi.yaml:124 calls `POST /projects` "Create a new project"; repeated with
  the same id it succeeds and resets the members to the creator.
* composite/file_repository.go:131 says `DeleteFile` deletes the payload; after
  an ignored error (`SkipBlob`, `RemoveBlobFails`) the record goes and it stays.
* openapi.yaml:528 says `awareness_update` goes "to other participants";
  handler.go:313 sends it to the sender as well.
* openapi.yaml:522 says the server "persists the delta and broadcasts
  `crdt_update`" to all other participants; in `UpdateDelivery` two saves that
  overlap take an edit out of the row, and a later save whose snapshot still had
  it brings it back: a member that asked in between, as sync_spec.md:14 has it
  ask, is not told (`CurrentMembersHaveAll` leaves `overwritten` edits out for
  that reason). Nor is a member whose buffer is full, which is not `current`.
* openapi.yaml:57 answers 401 for an invalid e-mail or password; a user who
  registered as `Alice@x` is stored as `alice@x` (domain/user/factory.go:25) and
  cannot log in as `Alice@x`, the lookup comparing what was spelled.
* openapi.yaml:30 says a second registration is refused; the repositories in
  memory keep both (`Accepts`), and a server whose pool cannot be created uses
  those without saying so (container.go:209).
* service.go:115 of `auth` invalidates an expired session; with PostgreSQL
  `FindByToken` has failed before (`Readable`), and the row stays.
* openapi.yaml:90 says `/logout` clears the refresh session; a refresh that
  overlaps it, or whose invalidation failed, leaves another one (`disturbed`).

### Bounds, and why they are enough

* Connections and requests: the races of this code are between two, one that
  has read and one that writes in between; the third in `hub_safety`,
  `members`, `blobs` and `auth` is there because a race may leave a state
  that only a third can meet (the room of the one who joins next, the removal
  of the last member, the refresh of a token that two requests have replaced).
  `RoomChannel` and `UpdateDelivery` have two connections, a sender and a
  receiver each way, which may leave and return.
* Two edits in `UpdateDelivery` let one be overwritten by the other; three
  tokens in `AuthSessions` are a login and two refreshes of it, or two logins.
  Two spellings of one address are enough to miss a user by its spelling.
* Two names, contents or edits tell an old value from a new one; in
  `RoomChannel` a cursor and no cursor do. (The safety part was also run with
  two cursors, 8.7 million states.)
* `SendBufferSize` is 64 in the code; 2 reaches the full buffer, which is all
  that the size decides, and leaves room for a snapshot and an update.
* Nothing is cut off by a state constraint: the state spaces are finite because
  histories are sets, tokens and user ids are used once, and connections of
  `CollabHub` are accepted once.
* Symmetry is used only over constants that the specification treats alike,
  and never in a run with a liveness property.

### Fairness

`CollabHub!FairSpec` is weak fairness of the steps a goroutine takes by itself;
nothing makes a peer connect, write or leave, and reading is sure to fail only
once the context is cancelled. `SyncService!FairSpec` is weak fairness of a
request that has begun: the database answers each statement, possibly with an
error. `RoomChannel!FairSpec` lets handlers run, but does not assume that a
peer reads, so write pumps may stop for ever. The Go scheduler and mutexes
give no less: each of these steps, once enabled, stays enabled or is a critical
section without waiting inside. (`Join` and `Leave` may wait for broadcasts;
no property relies on them in `RoomChannel`.)

## 4. The proofs

For any finite or infinite sets, as the constants' assumptions allow:

| Theorem | States |
|---|---|
| `CollabHub_proofs!TypeCorrect`, `NoGhost`, `NoRoomLeak`, `OpenIsMember` | the invariants of `hub_safety` |
| `CollabHub_proofs!PartedByOverlap` | until the shutdown, connections of a project are parted by an overlapping removal only |
| `CollabHub_proofs!PresenceIsKept` | a member loses its presence only if it returned while its user was leaving |
| `RoomChannel_proofs!TypeCorrect`, `ViewsAgree` | types and buffer bounds; when no user has two connections, settled members that were not misled show the store |
| `UpdateDelivery_proofs!TypeCorrect`, `MembersCatchUp`, `NothingRefusedIsShown` | the invariants of `delivery` |
| `UpdateDelivery_proofs!Implementation` | `UpdateDelivery` implements `SyncService` |
| `SyncPlan_proofs!UpdateIsIntended`, `RetryIsComplete`, `SyncInitOnlyReads`, `FollowersCatchUp` | the invariants of `sync_plan` |
| `SyncService_proofs!TypeCorrect` | types, whoever writes what |
| `SyncService_proofs!EditsSurvive`, `NamesStay`, `DeletionsStay` | when one client names, no acknowledged edit, name or deletion of an owned file is undone |
| `SyncService_proofs!Implementation` | then `SyncService` implements `FileStore` on the owned files |
| `SyncService_proofs!LossTakesAnOverlap` | whoever writes and names, edits, names and deletions are undone only where a request was overtaken |
| `ProjectMembers_proofs!TypeCorrect`, `NeverEmpty`, `OneChange` | a project keeps a member, always; one change per save that was not overtaken |
| `ProjectMembers_proofs!Implementation` | `ProjectMembers` implements `MemberLists` |
| `BlobFiles_proofs!TypeCorrect`, `ListedIsReadable`, `ContentStays` | a listed file that is not deleted has its blob; one request at a time, and without renames, a file keeps its content |
| `BlobFiles_proofs!Implementation` | on such files `BlobFiles` implements `ContentStore` |
| `BlobFiles_proofs!LoneUploadIsKept` | whatever overlaps, fails or is renamed, a lone upload sets its file right until a rename or an overlap |
| `AuthSessions_proofs!TypeCorrect`, `AddressesUnique`, `LoginHasOneSession`, `LoginIsKept` | the invariants of `auth` |
| `AuthSessions_proofs!Implementation` | `AuthSessions` implements `LoginStore` |

Each module ends its definitions with `IInv`, the inductive invariant; a proof
module has one lemma per conjunct, one step per action in it, then `Invariance`
and the corollaries. A refinement has a lemma for the step, in which each action
is one abstract action or a stutter under the mapping. Why the strengthenings are needed:

* `CollabHub`: that a connection without presence duty is not a member of a
  room it was not given (`MembersAreInRoom`), that a room nobody allocated is
  not referred to (`Unallocated`), and that only `Shutdown` evicts
  (`EvictedByShutdown`). `AnswersFor` is the heart: a presence is owned by a
  member or by a connection that is still going to remove it, and `Leave` hands
  the duty on to another connection or keeps it. `PartedOnlyByOverlap` needs
  `EvictedByShutdown` once more: a room that is found empty has nobody in it who
  still reads, so whoever has it is entering or leaving. For `PresenceStays`,
  whoever is in a room its user is about to be cleared from has returned
  (`ClearedReturned`).
* `RoomChannel`: `WillShow` says what a client will show of a user once its
  buffer is empty, by the last message in it about that user. A member that was not
  misled will show what the store holds or has the announcement coming
  (`MembersForetold`), and an announcement under way says what the store holds
  (`AnnouncementsTrue`), for which a user must have one connection:
  `OneConnectionEach`, which `MCRoomChannel` states as an ASSUME.
* `UpdateDelivery`: an edit of the row has reached a current member, is queued for
  it, is about to be broadcast, or is in the listing that is about to be
  answered (`CurrentAreReached`): exactly what storing before broadcasting and
  registering before asking give. What is read or queued was stored (`ReadWasSaved`).
* `SyncService`: what a request has read of an owned file is still what
  the table says (`ReadsAreCurrent`), which makes each save an operation on the
  present row. `OneNamer` is an assumption about the clients, not something
  the server enforces; `sync_edits` shows a file with two writers. `MCSyncExclusive`
  states it as an ASSUME, so TLC checks that the instance satisfies it.
  `LossTakesAnOverlap` needs no such assumption; there the reads are current for
  the files that are not disturbed (`ReadsUndisturbed`), and the step that would
  make one stale is the one that is recorded. An entry the client's own delta
  sets is not read, and what it says cannot be stale.
* `ProjectMembers`: a copy that is going to be saved is never empty
  (`ListsNotEmpty`), which is why the last member stays although the check is
  made on a copy; the copy is fresh until another save (`ListsFresh`), and the
  change it makes would still be accepted, which `CommitChange` asks for. However
  old, it says of its user what was asked (`ListsSayIt`).
* `BlobFiles`: the object a request has put is still there when it writes the
  row (`UploadedBlobStays`), and is its own (`UploadedBlobIsOwn`). For the
  refinement, a request is about a file until it ends and a deletion wants no
  content (`RequestsSound`). For `LoneUploadIsKept` it is the request that is
  alone, not the file, whose object is its own (`LonersSound`).
* `AuthSessions`: while an undisturbed login is refreshed no other request does
  so, and its sessions are the old and the new one (`RefreshesSound`); a session
  just created belongs to the request that made it (`CreatedSound`). What a
  refresh creates is for the owner of the login, since it finds the user by the
  session it read (`OwnersSound`), and a login that has no session and is not
  disturbed is not being refreshed (`RefreshedLives`).
* `SyncPlan`: none, its behaviors do not move; the lemma `Applied` says what the
  mutations leave of a file, and the promises follow.

Only model-checked: liveness under fairness (the prover has no ENABLED), that is
`ClosedConnectionFinishes`, `BroadcastsEnd` and `RequestEnds`.

## 5. What is not modelled

* ygo's internals and encodings, and the random client ids of the documents
  `SyncMetadata` makes: a document is its set of edits.
* JWT and bcrypt, configuration, wiring beyond the choice of the repositories,
  migrations, the header check of the WebSocket middleware, logging, request
  parsing: no state, or state that is set once.
* S3 and PostgreSQL beyond: a statement is atomic, it may fail without effect,
  and a transaction commits or does not. An error after an effect is not
  modelled for single statements.
* What `metadata_update`, `pong` and `error` messages say to the clients. In
  `UpdateDelivery` they are the reason why a buffer may be full.
* Several files and rooms in `UpdateDelivery`: a handler works on one file, and a
  buffer that other files' messages fill is one that may be full. That a
  connection is in the registered room is `CollabHub`'s business.
* The repositories of projects, invites and files in memory. They hand out the pointers
  they store, so two requests change one Go slice or struct without a lock; that
  is a data race, and which of its outcomes a build has is not in the source.
* `DeleteByUserID` of the sessions, which nothing calls.
* A start with S3 after one without, which would look for blobs that are rows.
* Reading operations, except where a later write depends on them.

## 6. Plan

Done, in order: `CollabHub`, `SyncPlan`, `FileStore`, `SyncService`,
`RoomChannel`, `ProjectMembers`, `BlobFiles`, `AuthSessions`, `UpdateDelivery`,
the proofs listed above, and then the abstract specifications `MemberLists`,
`ContentStore`, `LoginStore` and the overlaps (`HubOverlap`, `SyncOverlap`, `BlobOverlap`).

What would come next: a `metadata_update` in `UpdateDelivery`, whose deltas do
not commute as edits do, so that the order in which two broadcasts enter two
buffers matters; `ContentStore` for files whose requests overlap, by way of
`BlobOverlap` instead of the constant `Serial`; the safety half of the
liveness properties, that a request under way only goes onward; and the
repository of projects in memory, once its pointers are guarded by a lock.
