---------------------------- MODULE AuthSessions ----------------------------
(***************************************************************************)
(* Accounts and refresh sessions: registration, login, refresh and logout  *)
(* (application/user, application/auth, application/session, http/auth,    *)
(* http/user) over the repositories of users and sessions, those of        *)
(* PostgreSQL or those in memory.                                          *)
(*                                                                         *)
(* A step is one call of a repository, or the answer to the client.  No    *)
(* transaction spans two calls; a call may fail, and an answer may be      *)
(* lost.  Access tokens are stateless and left out.                        *)
(***************************************************************************)
CONSTANTS Request,   \* the requests that can be in progress at once
          User,      \* what uuid.New can return
          Address,   \* e-mail addresses as clients spell them
          Normal,    \* each spelling trimmed and in lower case
          Token,     \* what generateRandomHex can return
          None

ASSUME AuthAssumption ==
  /\ Normal \in [Address -> Address]
  /\ None \notin User \cup Address \cup Token

VARIABLES
  repos,      \* which repositories the container built
  email,      \* the address of each user, or None
  session,    \* the user of each refresh token's session, or None
  expired,    \* the tokens whose time is over
  pc,         \* where each request is
  address,    \* Register: the address
  holder,     \* Login, Refresh: the user
  token,      \* Refresh: the cookie's token
  fresh,      \* the token of the session it has created
  known,      \* the tokens that answers brought to clients
  login,      \* history: the first token of the login each token continues
  owner,      \* history: who logged in with each such first token
  ended,      \* history: the logins that a logout or their expiry ended,
  lost,       \*   those of which a refresh was not answered,
  disturbed   \*   and those whose requests overlapped, or with a token that
              \*     could not be invalidated

accounts == <<repos, email>>
locals == <<address, holder, token, fresh>>
history == <<login, owner, ended, lost, disturbed>>
vars == <<accounts, session, expired, pc, locals, known, history>>

PC == {"idle", "registering", "checking", "creating", "invalidating", "answering"}

Init ==
  /\ repos \in {"postgres", "memory"}
  /\ email = [u \in User |-> None]
  /\ session = [t \in Token |-> None]
  /\ expired = {}
  /\ pc = [r \in Request |-> "idle"]
  /\ address = [r \in Request |-> None]
  /\ holder = [r \in Request |-> None]
  /\ token = [r \in Request |-> None]
  /\ fresh = [r \in Request |-> None]
  /\ known = {}
  /\ login = [t \in Token |-> None]
  /\ owner = [t \in Token |-> None]
  /\ ended = {}
  /\ lost = {}
  /\ disturbed = {}

Goto(r, l) == pc' = [pc EXCEPT ![r] = l]

Finish(r) ==
  /\ Goto(r, "idle")
  /\ address' = [address EXCEPT ![r] = None]
  /\ holder' = [holder EXCEPT ![r] = None]
  /\ token' = [token EXCEPT ![r] = None]
  /\ fresh' = [fresh EXCEPT ![r] = None]

\* The history marks the login of t if the condition holds.
Mark(set, t, condition) == IF condition THEN set \cup {login[t]} ELSE set

-----------------------------------------------------------------------------
(* Register *)

\* FindByEmail compares the address as it was spelled with the stored one.
FoundBy(a) == {u \in User : email[u] = a}

\* The methods of the memory repositories return no error but "not found".
CallsMayFail == repos = "postgres"

\* Nobody is found, or the lookup failed: its error is not looked at.
Register(r, a) ==
  /\ pc[r] = "idle"
  /\ FoundBy(a) = {} \/ CallsMayFail
  /\ address' = [address EXCEPT ![r] = a]
  /\ Goto(r, "registering")
  /\ UNCHANGED <<accounts, session, expired, holder, token, fresh, known, history>>

\* NewUser trims the address and makes it lower case.
NewUser(a) == Normal[a]

\* The table refuses an address that is taken, the map in memory does not.
Accepts(a) == repos = "postgres" => FoundBy(a) = {}

\* Mutant: the table has no UNIQUE constraint.
SaveAnyUser(r, u) ==
  /\ pc[r] = "registering"
  /\ email[u] = None
  /\ email' = [email EXCEPT ![u] = NewUser(address[r])]
  /\ Finish(r)
  /\ UNCHANGED <<repos, session, expired, known, history>>

SaveUser(r, u) ==
  /\ pc[r] = "registering"
  /\ email[u] = None
  /\ Accepts(NewUser(address[r]))
  /\ email' = [email EXCEPT ![u] = NewUser(address[r])]
  /\ Finish(r)
  /\ UNCHANGED <<repos, session, expired, known, history>>

-----------------------------------------------------------------------------
(* Login and Refresh *)

\* Mutant: the answer does not wait for the session.
AnswerLogin(r, a) ==
  /\ pc[r] = "idle"
  /\ \E u \in FoundBy(a) : holder' = [holder EXCEPT ![r] = u]
  /\ Goto(r, "answering")
  /\ UNCHANGED <<accounts, session, expired, address, token, fresh, known, history>>

\* FindByEmail, and the password that is compared.
Login(r, a) ==
  /\ pc[r] = "idle"
  /\ \E u \in FoundBy(a) : holder' = [holder EXCEPT ![r] = u]
  /\ Goto(r, "creating")
  /\ UNCHANGED <<accounts, session, expired, address, token, fresh, known, history>>

\* Some request is refreshing the session of t.
Refreshing(t) == \E r \in Request : token[r] = t

\* NewSession refuses to build an expired session, which makes FindByToken fail
\* in PostgreSQL; the map in memory holds the session as it was saved.
Readable(t) == repos = "postgres" => t \notin expired

FindByToken(t) == session[t] # None /\ Readable(t)

Refresh(r, t) ==
  /\ pc[r] = "idle"
  /\ t \in known
  /\ FindByToken(t)
  /\ token' = [token EXCEPT ![r] = t]
  /\ holder' = [holder EXCEPT ![r] = session[t]]
  /\ Goto(r, "checking")
  /\ disturbed' = Mark(disturbed, t, Refreshing(t))
  /\ UNCHANGED <<accounts, session, expired, address, fresh, known, login, owner, ended, lost>>

\* IsExpired: the session is invalidated and the refresh refused.
RefuseExpired(r) ==
  /\ pc[r] = "checking"
  /\ token[r] \in expired
  /\ session' = [session EXCEPT ![token[r]] = None]
  /\ ended' = ended \cup {login[token[r]]}
  /\ Finish(r)
  /\ UNCHANGED <<accounts, expired, known, login, owner, lost, disturbed>>

\* Mutant: the old session is invalidated before there is a new one.
InvalidateFirst(r) ==
  /\ pc[r] = "checking"
  /\ token[r] \notin expired
  /\ session' = [session EXCEPT ![token[r]] = None]
  /\ Goto(r, "creating")
  /\ UNCHANGED <<accounts, expired, locals, known, history>>

\* GetByID: nothing deletes a user.
FindHolder(r) ==
  /\ pc[r] = "checking"
  /\ token[r] \notin expired
  /\ Goto(r, "creating")
  /\ UNCHANGED <<accounts, session, expired, locals, known, history>>

\* Create saves a session under a token never used before.
CreateSession(r, t) ==
  /\ pc[r] = "creating"
  /\ login[t] = None
  /\ session' = [session EXCEPT ![t] = holder[r]]
  /\ fresh' = [fresh EXCEPT ![r] = t]
  /\ login' = [login EXCEPT ![t] = IF token[r] = None THEN t ELSE login[token[r]]]
  /\ owner' = [owner EXCEPT ![t] = IF token[r] = None THEN holder[r] ELSE @]
  /\ Goto(r, IF token[r] = None THEN "answering" ELSE "invalidating")
  /\ UNCHANGED <<accounts, expired, address, holder, token, known, ended, lost, disturbed>>

\* Mutant: the old session stays.
InvalidateNothing(r) ==
  /\ pc[r] = "invalidating"
  /\ Goto(r, "answering")
  /\ UNCHANGED <<accounts, session, expired, locals, known, history>>

InvalidateOld(r) ==
  /\ pc[r] = "invalidating"
  /\ session' = [session EXCEPT ![token[r]] = None]
  /\ Goto(r, "answering")
  /\ UNCHANGED <<accounts, expired, locals, known, history>>

\* The error is ignored, and the refresh answered.
InvalidateOldFails(r) ==
  /\ pc[r] = "invalidating"
  /\ CallsMayFail
  /\ Goto(r, "answering")
  /\ disturbed' = disturbed \cup {login[token[r]]}
  /\ UNCHANGED <<accounts, session, expired, locals, known, login, owner, ended, lost>>

\* The cookies are set.
Answer(r) ==
  /\ pc[r] = "answering"
  /\ known' = known \cup {fresh[r]}
  /\ Finish(r)
  /\ UNCHANGED <<accounts, session, expired, history>>

-----------------------------------------------------------------------------
(* Logout, failures and time *)

\* One call; when it fails the cookies are cleared all the same.
Logout(r, t) ==
  /\ pc[r] = "idle"
  /\ t \in known
  /\ session' = [session EXCEPT ![t] = None]
  /\ ended' = ended \cup {login[t]}
  /\ disturbed' = Mark(disturbed, t, Refreshing(t))
  /\ UNCHANGED <<accounts, expired, pc, locals, known, login, owner, lost>>

\* A call fails and the request with it, the client is gone before the answer,
\* or the process stops; what is in memory would be gone with that.
Fail(r) ==
  /\ pc[r] # "idle"
  /\ pc[r] = "invalidating" => CallsMayFail
  /\ Finish(r)
  /\ lost' = Mark(lost, token[r], pc[r] = "answering" /\ token[r] # None)
  /\ disturbed' = Mark(disturbed, token[r], pc[r] = "invalidating")
  /\ UNCHANGED <<accounts, session, expired, known, login, owner, ended>>

Expire(t) ==
  /\ session[t] # None
  /\ expired' = expired \cup {t}
  /\ UNCHANGED <<accounts, session, pc, locals, known, history>>

-----------------------------------------------------------------------------
Next ==
  \/ \E r \in Request :
       \/ \E a \in Address : Register(r, a) \/ Login(r, a)
       \/ \E u \in User : SaveUser(r, u)
       \/ \E t \in Token : Refresh(r, t) \/ CreateSession(r, t) \/ Logout(r, t)
       \/ RefuseExpired(r)
       \/ FindHolder(r)
       \/ InvalidateOld(r)
       \/ InvalidateOldFails(r)
       \/ Answer(r)
       \/ Fail(r)
  \/ \E t \in Token : Expire(t)

Spec == Init /\ [][Next]_vars

-----------------------------------------------------------------------------
(* The inductive invariants *)

\* The sessions that continue login l.
Sessions(l) == {t \in Token : login[t] = l /\ session[t] # None}

\* What a request in progress knows.
RequestsSound ==
  \A r \in Request :
    /\ pc[r] = "registering" => address[r] # None
    /\ pc[r] \in {"checking", "creating"} => holder[r] # None
    /\ pc[r] \in {"checking", "invalidating"} => token[r] # None
    /\ pc[r] \in {"idle", "registering"} => token[r] = None
    /\ token[r] # None => token[r] \in known

\* A session it has created is there, and belongs to it alone.
CreatedSound ==
  \A r \in Request :
    /\ pc[r] \in {"invalidating", "answering"} <=> fresh[r] # None
    /\ fresh[r] # None =>
         /\ fresh[r] \notin known
         /\ session[fresh[r]] # None
         /\ login[fresh[r]] =
              IF token[r] = None THEN fresh[r] ELSE login[token[r]]
         /\ \A s \in Request : fresh[s] = fresh[r] => s = r

\* Only used tokens have sessions or are known, and a login is its own first
\* token's.
TokensSound ==
  \A t \in Token :
    /\ session[t] # None \/ t \in known => login[t] # None
    /\ login[t] # None => login[login[t]] = login[t]

\* While a request refreshes an undisturbed login no other one does, and the
\* sessions there are those the request knows of.
RefreshesSound ==
  \A r \in Request :
    token[r] # None /\ login[token[r]] \notin disturbed =>
      /\ \A t \in Sessions(login[token[r]]) :
           t = fresh[r] \/ (t = token[r] /\ pc[r] # "answering")
      /\ \A s \in Request :
           token[s] # None /\ login[token[s]] = login[token[r]] => s = r

\* A login has an owner from the start, and what continues it is for them.
OwnersSound ==
  /\ \A t \in Token :
       /\ owner[t] # None => login[t] = t
       /\ login[t] # None => owner[login[t]] # None
       /\ session[t] # None => session[t] = owner[login[t]]
  /\ \A r \in Request :
       pc[r] \in {"checking", "creating"} /\ token[r] # None =>
         holder[r] = owner[login[token[r]]]

\* The session that is refreshed is there until it is replaced, if nothing
\* disturbs the login.
RefreshedLives ==
  \A r \in Request :
    token[r] # None /\ pc[r] # "answering" /\ login[token[r]] \notin disturbed =>
      session[token[r]] # None

-----------------------------------------------------------------------------
(* Properties *)

TypeOK ==
  /\ repos \in {"postgres", "memory"}
  /\ email \in [User -> Address \cup {None}]
  /\ session \in [Token -> User \cup {None}]
  /\ expired \in SUBSET Token
  /\ pc \in [Request -> PC]
  /\ address \in [Request -> Address \cup {None}]
  /\ holder \in [Request -> User \cup {None}]
  /\ token \in [Request -> Token \cup {None}]
  /\ fresh \in [Request -> Token \cup {None}]
  /\ known \in SUBSET Token
  /\ login \in [Token -> Token \cup {None}]
  /\ owner \in [Token -> User \cup {None}]
  /\ ended \in SUBSET Token
  /\ lost \in SUBSET Token
  /\ disturbed \in SUBSET Token

\* Two registrations of one address that overlap, or a lookup that fails or
\* misses another spelling, leave one user with it: docs/openapi.yaml:30
\* answers the others "user already exists".  In memory nothing sees to that
\* (user/service.go Register, user_repository.go Save).
OneUserPerAddress ==
  repos = "postgres" =>
    \A u, v \in User : email[u] # None /\ email[u] = email[v] => u = v

\* A request that has created the successor of session t and not invalidated
\* t yet.
BeingReplaced(t) == \E r \in Request : pc[r] = "invalidating" /\ token[r] = t

\* However often a login is refreshed, it has one session, so that a logout
\* ends it (auth/service.go Refresh, Logout): a second one takes requests that
\* overlap or an Invalidate that fails.
OneSessionPerLogin ==
  \A l \in Token \ disturbed :
    \A t, s \in Sessions(l) : t = s \/ BeingReplaced(t) \/ BeingReplaced(s)

\* What ends a login is a logout, or time: at every moment it has a session
\* whose token the client has or is being sent, unless the answer to a refresh
\* of it was lost (auth/service.go Refresh, which creates before it
\* invalidates).
LoginLasts ==
  \A l \in known \ (ended \cup lost) :
    login[l] = l =>
      \E t \in Sessions(l) :
        t \in known \/ \E r \in Request : pc[r] = "answering" /\ fresh[r] = t

IInv ==
  /\ TypeOK
  /\ RequestsSound
  /\ CreatedSound
  /\ TokensSound
  /\ RefreshesSound
  /\ OwnersSound
  /\ RefreshedLives
  /\ OneUserPerAddress
  /\ OneSessionPerLogin
  /\ LoginLasts

-----------------------------------------------------------------------------
(* What a login promises *)

\* The users for whom each login has a session.
Acts == [l \in Token |-> {session[t] : t \in Sessions(l)}]

Logins == INSTANCE LoginStore WITH LoginId <- Token, acts <- Acts

\* However often it is refreshed, a login acts for the user who logged in,
\* and one that a logout or its expiry left without a session is over, unless
\* a refresh of it overlapped or an Invalidate failed (auth/service.go
\* Refresh, Logout).
ImplementsLoginStore == Logins!Spec
=============================================================================
