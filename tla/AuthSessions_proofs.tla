-------------------------- MODULE AuthSessions_proofs --------------------------
(* Proofs about AuthSessions for any requests, users, addresses and tokens. *)
EXTENDS AuthSessions, TLAPS

\* Every step keeps the types.
LEMMA TypeStep ==
  ASSUME TypeOK, RequestsSound, CreatedSound, TokensSound, [Next]_vars
  PROVE  TypeOK'
<1> USE AuthAssumption DEF TypeOK, PC, RequestsSound, CreatedSound, TokensSound
<1>1. ASSUME NEW r \in Request, NEW a \in Address, Register(r, a)
     PROVE  TypeOK'
  BY <1>1 DEF Register, CallsMayFail, Goto, accounts, history
<1>2. ASSUME NEW r \in Request, NEW a \in Address, Login(r, a)
     PROVE  TypeOK'
  BY <1>2 DEF Login, FoundBy, Goto, accounts, history
<1>3. ASSUME NEW r \in Request, NEW u \in User, SaveUser(r, u)
     PROVE  TypeOK'
  BY <1>3 DEF SaveUser, Accepts, NewUser, FoundBy, Finish, Goto, history
<1>4. ASSUME NEW r \in Request, NEW t \in Token, Refresh(r, t)
     PROVE  TypeOK'
  BY <1>4 DEF Refresh, FindByToken, Readable, Refreshing, Mark, Goto, accounts
<1>5. ASSUME NEW r \in Request, NEW t \in Token, CreateSession(r, t)
     PROVE  TypeOK'
  BY <1>5 DEF CreateSession, Goto, accounts
<1>6. ASSUME NEW r \in Request, NEW t \in Token, Logout(r, t)
     PROVE  TypeOK'
  BY <1>6 DEF Logout, Refreshing, Mark, accounts, locals
<1>7. ASSUME NEW r \in Request, RefuseExpired(r)
     PROVE  TypeOK'
  BY <1>7 DEF RefuseExpired, Finish, Goto, accounts
<1>8. ASSUME NEW r \in Request, FindHolder(r)
     PROVE  TypeOK'
  BY <1>8 DEF FindHolder, Goto, accounts, locals, history
<1>9. ASSUME NEW r \in Request, InvalidateOld(r)
     PROVE  TypeOK'
  BY <1>9 DEF InvalidateOld, Goto, accounts, locals, history
<1>10. ASSUME NEW r \in Request, InvalidateOldFails(r)
     PROVE  TypeOK'
  BY <1>10 DEF InvalidateOldFails, CallsMayFail, Goto, accounts, locals
<1>11. ASSUME NEW r \in Request, Answer(r)
     PROVE  TypeOK'
  BY <1>11 DEF Answer, Finish, Goto, accounts, history
<1>12. ASSUME NEW r \in Request, Fail(r)
     PROVE  TypeOK'
  BY <1>12 DEF Fail, CallsMayFail, Finish, Goto, Mark, accounts
<1>13. ASSUME NEW t \in Token, Expire(t)
     PROVE  TypeOK'
  BY <1>13 DEF Expire, accounts, locals, history
<1>14. CASE UNCHANGED vars
  BY <1>14 DEF vars, accounts, locals, history
<1> QED
  BY <1>1, <1>2, <1>3, <1>4, <1>5, <1>6, <1>7, <1>8, <1>9, <1>10, <1>11,
     <1>12, <1>13, <1>14 DEF Next

\* A request keeps what it knows as long as it needs it.
LEMMA RequestStep ==
  ASSUME TypeOK, RequestsSound, TokensSound, [Next]_vars
  PROVE  RequestsSound'
<1> USE AuthAssumption DEF TypeOK, PC, RequestsSound
<1>1. ASSUME NEW r \in Request, NEW a \in Address, Register(r, a)
     PROVE  RequestsSound'
  BY <1>1 DEF Register, CallsMayFail, Goto, accounts, history
<1>2. ASSUME NEW r \in Request, NEW a \in Address, Login(r, a)
     PROVE  RequestsSound'
  BY <1>2 DEF Login, FoundBy, Goto, accounts, history
<1>3. ASSUME NEW r \in Request, NEW u \in User, SaveUser(r, u)
     PROVE  RequestsSound'
  BY <1>3 DEF SaveUser, Accepts, NewUser, FoundBy, Finish, Goto, history
<1>4. ASSUME NEW r \in Request, NEW t \in Token, Refresh(r, t)
     PROVE  RequestsSound'
  BY <1>4 DEF Refresh, FindByToken, Readable, Refreshing, Mark, Goto, accounts
<1>5. ASSUME NEW r \in Request, NEW t \in Token, CreateSession(r, t)
     PROVE  RequestsSound'
  BY <1>5 DEF CreateSession, Goto, accounts
<1>6. ASSUME NEW r \in Request, NEW t \in Token, Logout(r, t)
     PROVE  RequestsSound'
  BY <1>6 DEF Logout, Refreshing, Mark, accounts, locals
<1>7. ASSUME NEW r \in Request, RefuseExpired(r)
     PROVE  RequestsSound'
  BY <1>7 DEF RefuseExpired, Finish, Goto, accounts
<1>8. ASSUME NEW r \in Request, FindHolder(r)
     PROVE  RequestsSound'
  BY <1>8 DEF FindHolder, Goto, accounts, locals, history
<1>9. ASSUME NEW r \in Request, InvalidateOld(r)
     PROVE  RequestsSound'
  BY <1>9 DEF InvalidateOld, Goto, accounts, locals, history
<1>10. ASSUME NEW r \in Request, InvalidateOldFails(r)
     PROVE  RequestsSound'
  BY <1>10 DEF InvalidateOldFails, CallsMayFail, Goto, accounts, locals
<1>11. ASSUME NEW r \in Request, Answer(r)
     PROVE  RequestsSound'
  BY <1>11 DEF Answer, Finish, Goto, accounts, history
<1>12. ASSUME NEW r \in Request, Fail(r)
     PROVE  RequestsSound'
  BY <1>12 DEF Fail, CallsMayFail, Finish, Goto, Mark, accounts
<1>13. ASSUME NEW t \in Token, Expire(t)
     PROVE  RequestsSound'
  BY <1>13 DEF Expire, accounts, locals, history
<1>14. CASE UNCHANGED vars
  BY <1>14 DEF vars, accounts, locals, history
<1> QED
  BY <1>1, <1>2, <1>3, <1>4, <1>5, <1>6, <1>7, <1>8, <1>9, <1>10, <1>11,
     <1>12, <1>13, <1>14 DEF Next

\* A token that is used stays with its login.
LEMMA TokenStep ==
  ASSUME TypeOK, RequestsSound, CreatedSound, TokensSound, [Next]_vars
  PROVE  TokensSound'
<1> USE AuthAssumption DEF TypeOK, PC, RequestsSound, CreatedSound, TokensSound
<1>1. ASSUME NEW r \in Request, NEW a \in Address, Register(r, a)
     PROVE  TokensSound'
  BY <1>1 DEF Register, CallsMayFail, Goto, accounts, history
<1>2. ASSUME NEW r \in Request, NEW a \in Address, Login(r, a)
     PROVE  TokensSound'
  BY <1>2 DEF Login, FoundBy, Goto, accounts, history
<1>3. ASSUME NEW r \in Request, NEW u \in User, SaveUser(r, u)
     PROVE  TokensSound'
  BY <1>3 DEF SaveUser, Accepts, NewUser, FoundBy, Finish, Goto, history
<1>4. ASSUME NEW r \in Request, NEW t \in Token, Refresh(r, t)
     PROVE  TokensSound'
  BY <1>4 DEF Refresh, FindByToken, Readable, Refreshing, Mark, Goto, accounts
<1>5. ASSUME NEW r \in Request, NEW t \in Token, CreateSession(r, t)
     PROVE  TokensSound'
  BY <1>5 DEF CreateSession, Goto, accounts
<1>6. ASSUME NEW r \in Request, NEW t \in Token, Logout(r, t)
     PROVE  TokensSound'
  BY <1>6 DEF Logout, Refreshing, Mark, accounts, locals
<1>7. ASSUME NEW r \in Request, RefuseExpired(r)
     PROVE  TokensSound'
  BY <1>7 DEF RefuseExpired, Finish, Goto, accounts
<1>8. ASSUME NEW r \in Request, FindHolder(r)
     PROVE  TokensSound'
  BY <1>8 DEF FindHolder, Goto, accounts, locals, history
<1>9. ASSUME NEW r \in Request, InvalidateOld(r)
     PROVE  TokensSound'
  BY <1>9 DEF InvalidateOld, Goto, accounts, locals, history
<1>10. ASSUME NEW r \in Request, InvalidateOldFails(r)
     PROVE  TokensSound'
  BY <1>10 DEF InvalidateOldFails, CallsMayFail, Goto, accounts, locals
<1>11. ASSUME NEW r \in Request, Answer(r)
     PROVE  TokensSound'
  BY <1>11 DEF Answer, Finish, Goto, accounts, history
<1>12. ASSUME NEW r \in Request, Fail(r)
     PROVE  TokensSound'
  BY <1>12 DEF Fail, CallsMayFail, Finish, Goto, Mark, accounts
<1>13. ASSUME NEW t \in Token, Expire(t)
     PROVE  TokensSound'
  BY <1>13 DEF Expire, accounts, locals, history
<1>14. CASE UNCHANGED vars
  BY <1>14 DEF vars, accounts, locals, history
<1> QED
  BY <1>1, <1>2, <1>3, <1>4, <1>5, <1>6, <1>7, <1>8, <1>9, <1>10, <1>11,
     <1>12, <1>13, <1>14 DEF Next

\* A session that was created is not touched before its token is known.
LEMMA CreatedStep ==
  ASSUME TypeOK, RequestsSound, CreatedSound, TokensSound, [Next]_vars
  PROVE  CreatedSound'
<1> USE AuthAssumption DEF TypeOK, PC, RequestsSound, CreatedSound, TokensSound
<1>1. ASSUME NEW r \in Request, NEW a \in Address, Register(r, a)
     PROVE  CreatedSound'
  BY <1>1 DEF Register, CallsMayFail, Goto, accounts, history
<1>2. ASSUME NEW r \in Request, NEW a \in Address, Login(r, a)
     PROVE  CreatedSound'
  BY <1>2 DEF Login, FoundBy, Goto, accounts, history
<1>3. ASSUME NEW r \in Request, NEW u \in User, SaveUser(r, u)
     PROVE  CreatedSound'
  BY <1>3 DEF SaveUser, Accepts, NewUser, FoundBy, Finish, Goto, history
<1>4. ASSUME NEW r \in Request, NEW t \in Token, Refresh(r, t)
     PROVE  CreatedSound'
  BY <1>4 DEF Refresh, FindByToken, Readable, Refreshing, Mark, Goto, accounts
<1>5. ASSUME NEW r \in Request, NEW t \in Token, CreateSession(r, t)
     PROVE  CreatedSound'
  BY <1>5 DEF CreateSession, Goto, accounts
<1>6. ASSUME NEW r \in Request, NEW t \in Token, Logout(r, t)
     PROVE  CreatedSound'
  BY <1>6 DEF Logout, Refreshing, Mark, accounts, locals
<1>7. ASSUME NEW r \in Request, RefuseExpired(r)
     PROVE  CreatedSound'
  BY <1>7 DEF RefuseExpired, Finish, Goto, accounts
<1>8. ASSUME NEW r \in Request, FindHolder(r)
     PROVE  CreatedSound'
  BY <1>8 DEF FindHolder, Goto, accounts, locals, history
<1>9. ASSUME NEW r \in Request, InvalidateOld(r)
     PROVE  CreatedSound'
  BY <1>9 DEF InvalidateOld, Goto, accounts, locals, history
<1>10. ASSUME NEW r \in Request, InvalidateOldFails(r)
     PROVE  CreatedSound'
  BY <1>10 DEF InvalidateOldFails, CallsMayFail, Goto, accounts, locals
<1>11. ASSUME NEW r \in Request, Answer(r)
     PROVE  CreatedSound'
  BY <1>11 DEF Answer, Finish, Goto, accounts, history
<1>12. ASSUME NEW r \in Request, Fail(r)
     PROVE  CreatedSound'
  BY <1>12 DEF Fail, CallsMayFail, Finish, Goto, Mark, accounts
<1>13. ASSUME NEW t \in Token, Expire(t)
     PROVE  CreatedSound'
  BY <1>13 DEF Expire, accounts, locals, history
<1>14. CASE UNCHANGED vars
  BY <1>14 DEF vars, accounts, locals, history
<1> QED
  BY <1>1, <1>2, <1>3, <1>4, <1>5, <1>6, <1>7, <1>8, <1>9, <1>10, <1>11,
     <1>12, <1>13, <1>14 DEF Next

\* One refresh at a time knows all sessions of an undisturbed login.
LEMMA RefreshStep ==
  ASSUME TypeOK, RequestsSound, CreatedSound, TokensSound, RefreshesSound,
         OneSessionPerLogin, [Next]_vars
  PROVE  RefreshesSound'
<1> USE AuthAssumption DEF TypeOK, PC, RequestsSound, CreatedSound, TokensSound,
       RefreshesSound, Sessions
<1>1. ASSUME NEW r \in Request, NEW a \in Address, Register(r, a)
     PROVE  RefreshesSound'
  BY <1>1 DEF Register, CallsMayFail, Goto, accounts, history
<1>2. ASSUME NEW r \in Request, NEW a \in Address, Login(r, a)
     PROVE  RefreshesSound'
  BY <1>2 DEF Login, FoundBy, Goto, accounts, history
<1>3. ASSUME NEW r \in Request, NEW u \in User, SaveUser(r, u)
     PROVE  RefreshesSound'
  BY <1>3 DEF SaveUser, Accepts, NewUser, FoundBy, Finish, Goto, history
<1>4. ASSUME NEW r \in Request, NEW t \in Token, Refresh(r, t)
     PROVE  RefreshesSound'
  <2> USE <1>4 DEF Refresh, FindByToken, Readable, Goto, accounts
  <2>1. login[t] \notin disturbed' => ~Refreshing(t) /\ disturbed' = disturbed
    BY DEF Mark
  <2>2. t \in Sessions(login[t])
    OBVIOUS
  <2>3. ASSUME NEW s \in Request, s # r, token[s] # None,
               login[token[s]] = login[t], login[t] \notin disturbed'
        PROVE  FALSE
    <3>1. t = fresh[s] \/ t = token[s]
      BY <2>1, <2>2, <2>3
    <3> QED
      BY <2>1, <2>3, <3>1 DEF Refreshing
  <2>4. ASSUME login[t] \notin disturbed', NEW x \in Sessions(login[t])
        PROVE  x = t
    <3>1. x = t \/ BeingReplaced(x) \/ BeingReplaced(t)
      BY <2>1, <2>2, <2>4 DEF OneSessionPerLogin
    <3>2. CASE BeingReplaced(x)
      <4>1. PICK s \in Request : pc[s] = "invalidating" /\ token[s] = x
        BY <3>2 DEF BeingReplaced
      <4> QED
        BY <2>3, <2>4, <4>1
    <3>3. CASE BeingReplaced(t)
      BY <2>1, <2>4, <3>3 DEF BeingReplaced, Refreshing
    <3> QED
      BY <3>1, <3>2, <3>3
  <2>5. ASSUME NEW q \in Request, q # r, token[q] # None,
               login[token[q]] \notin disturbed'
        PROVE  /\ login[token[q]] \notin disturbed
               /\ login[token[q]] # login[t]
    BY <2>3, <2>5 DEF Mark
  <2> QED
    BY <2>3, <2>4, <2>5
<1>5. ASSUME NEW r \in Request, NEW t \in Token, CreateSession(r, t)
     PROVE  RefreshesSound'
  BY <1>5 DEF CreateSession, Goto, accounts
<1>6. ASSUME NEW r \in Request, NEW t \in Token, Logout(r, t)
     PROVE  RefreshesSound'
  BY <1>6 DEF Logout, Refreshing, Mark, accounts, locals
<1>7. ASSUME NEW r \in Request, RefuseExpired(r)
     PROVE  RefreshesSound'
  BY <1>7 DEF RefuseExpired, Finish, Goto, accounts
<1>8. ASSUME NEW r \in Request, FindHolder(r)
     PROVE  RefreshesSound'
  BY <1>8 DEF FindHolder, Goto, accounts, locals, history
<1>9. ASSUME NEW r \in Request, InvalidateOld(r)
     PROVE  RefreshesSound'
  BY <1>9 DEF InvalidateOld, Goto, accounts, locals, history
<1>10. ASSUME NEW r \in Request, InvalidateOldFails(r)
     PROVE  RefreshesSound'
  BY <1>10 DEF InvalidateOldFails, CallsMayFail, Goto, accounts, locals
<1>11. ASSUME NEW r \in Request, Answer(r)
     PROVE  RefreshesSound'
  BY <1>11 DEF Answer, Finish, Goto, accounts, history
<1>12. ASSUME NEW r \in Request, Fail(r)
     PROVE  RefreshesSound'
  BY <1>12 DEF Fail, CallsMayFail, Finish, Goto, Mark, accounts
<1>13. ASSUME NEW t \in Token, Expire(t)
     PROVE  RefreshesSound'
  BY <1>13 DEF Expire, accounts, locals, history
<1>14. CASE UNCHANGED vars
  BY <1>14 DEF vars, accounts, locals, history
<1> QED
  BY <1>1, <1>2, <1>3, <1>4, <1>5, <1>6, <1>7, <1>8, <1>9, <1>10, <1>11,
     <1>12, <1>13, <1>14 DEF Next

\* A session is replaced by one.
LEMMA SessionStep ==
  ASSUME TypeOK, RequestsSound, CreatedSound, TokensSound, RefreshesSound,
         OneSessionPerLogin, [Next]_vars
  PROVE  OneSessionPerLogin'
<1> USE AuthAssumption DEF TypeOK, PC, RequestsSound, CreatedSound, TokensSound,
       RefreshesSound, OneSessionPerLogin, BeingReplaced, Sessions
<1>1. ASSUME NEW r \in Request, NEW a \in Address, Register(r, a)
     PROVE  OneSessionPerLogin'
  BY <1>1 DEF Register, CallsMayFail, Goto, accounts, history
<1>2. ASSUME NEW r \in Request, NEW a \in Address, Login(r, a)
     PROVE  OneSessionPerLogin'
  BY <1>2 DEF Login, FoundBy, Goto, accounts, history
<1>3. ASSUME NEW r \in Request, NEW u \in User, SaveUser(r, u)
     PROVE  OneSessionPerLogin'
  BY <1>3 DEF SaveUser, Accepts, NewUser, FoundBy, Finish, Goto, history
<1>4. ASSUME NEW r \in Request, NEW t \in Token, Refresh(r, t)
     PROVE  OneSessionPerLogin'
  BY <1>4 DEF Refresh, FindByToken, Readable, Refreshing, Mark, Goto, accounts
<1>5. ASSUME NEW r \in Request, NEW t \in Token, CreateSession(r, t)
     PROVE  OneSessionPerLogin'
  BY <1>5 DEF CreateSession, Goto, accounts
<1>6. ASSUME NEW r \in Request, NEW t \in Token, Logout(r, t)
     PROVE  OneSessionPerLogin'
  BY <1>6 DEF Logout, Refreshing, Mark, accounts, locals
<1>7. ASSUME NEW r \in Request, RefuseExpired(r)
     PROVE  OneSessionPerLogin'
  BY <1>7 DEF RefuseExpired, Finish, Goto, accounts
<1>8. ASSUME NEW r \in Request, FindHolder(r)
     PROVE  OneSessionPerLogin'
  BY <1>8 DEF FindHolder, Goto, accounts, locals, history
<1>9. ASSUME NEW r \in Request, InvalidateOld(r)
     PROVE  OneSessionPerLogin'
  BY <1>9 DEF InvalidateOld, Goto, accounts, locals, history
<1>10. ASSUME NEW r \in Request, InvalidateOldFails(r)
     PROVE  OneSessionPerLogin'
  BY <1>10 DEF InvalidateOldFails, CallsMayFail, Goto, accounts, locals
<1>11. ASSUME NEW r \in Request, Answer(r)
     PROVE  OneSessionPerLogin'
  BY <1>11 DEF Answer, Finish, Goto, accounts, history
<1>12. ASSUME NEW r \in Request, Fail(r)
     PROVE  OneSessionPerLogin'
  BY <1>12 DEF Fail, CallsMayFail, Finish, Goto, Mark, accounts
<1>13. ASSUME NEW t \in Token, Expire(t)
     PROVE  OneSessionPerLogin'
  BY <1>13 DEF Expire, accounts, locals, history
<1>14. CASE UNCHANGED vars
  BY <1>14 DEF vars, accounts, locals, history
<1> QED
  BY <1>1, <1>2, <1>3, <1>4, <1>5, <1>6, <1>7, <1>8, <1>9, <1>10, <1>11,
     <1>12, <1>13, <1>14 DEF Next

\* The table takes an address once.
LEMMA AddressStep ==
  ASSUME TypeOK, OneUserPerAddress, [Next]_vars
  PROVE  OneUserPerAddress'
<1> USE AuthAssumption DEF TypeOK, OneUserPerAddress
<1>1. ASSUME NEW r \in Request, NEW a \in Address, Register(r, a)
     PROVE  OneUserPerAddress'
  BY <1>1 DEF Register, CallsMayFail, Goto, accounts, history
<1>2. ASSUME NEW r \in Request, NEW a \in Address, Login(r, a)
     PROVE  OneUserPerAddress'
  BY <1>2 DEF Login, FoundBy, Goto, accounts, history
<1>3. ASSUME NEW r \in Request, NEW u \in User, SaveUser(r, u)
     PROVE  OneUserPerAddress'
  BY <1>3 DEF SaveUser, Accepts, NewUser, FoundBy, Finish, Goto, history
<1>4. ASSUME NEW r \in Request, NEW t \in Token, Refresh(r, t)
     PROVE  OneUserPerAddress'
  BY <1>4 DEF Refresh, FindByToken, Readable, Refreshing, Mark, Goto, accounts
<1>5. ASSUME NEW r \in Request, NEW t \in Token, CreateSession(r, t)
     PROVE  OneUserPerAddress'
  BY <1>5 DEF CreateSession, Goto, accounts
<1>6. ASSUME NEW r \in Request, NEW t \in Token, Logout(r, t)
     PROVE  OneUserPerAddress'
  BY <1>6 DEF Logout, Refreshing, Mark, accounts, locals
<1>7. ASSUME NEW r \in Request, RefuseExpired(r)
     PROVE  OneUserPerAddress'
  BY <1>7 DEF RefuseExpired, Finish, Goto, accounts
<1>8. ASSUME NEW r \in Request, FindHolder(r)
     PROVE  OneUserPerAddress'
  BY <1>8 DEF FindHolder, Goto, accounts, locals, history
<1>9. ASSUME NEW r \in Request, InvalidateOld(r)
     PROVE  OneUserPerAddress'
  BY <1>9 DEF InvalidateOld, Goto, accounts, locals, history
<1>10. ASSUME NEW r \in Request, InvalidateOldFails(r)
     PROVE  OneUserPerAddress'
  BY <1>10 DEF InvalidateOldFails, CallsMayFail, Goto, accounts, locals
<1>11. ASSUME NEW r \in Request, Answer(r)
     PROVE  OneUserPerAddress'
  BY <1>11 DEF Answer, Finish, Goto, accounts, history
<1>12. ASSUME NEW r \in Request, Fail(r)
     PROVE  OneUserPerAddress'
  BY <1>12 DEF Fail, CallsMayFail, Finish, Goto, Mark, accounts
<1>13. ASSUME NEW t \in Token, Expire(t)
     PROVE  OneUserPerAddress'
  BY <1>13 DEF Expire, accounts, locals, history
<1>14. CASE UNCHANGED vars
  BY <1>14 DEF vars, accounts, locals, history
<1> QED
  BY <1>1, <1>2, <1>3, <1>4, <1>5, <1>6, <1>7, <1>8, <1>9, <1>10, <1>11,
     <1>12, <1>13, <1>14 DEF Next

\* A login keeps a session its client has or gets the token of.
LEMMA LastsStep ==
  ASSUME TypeOK, RequestsSound, CreatedSound, TokensSound, LoginLasts, [Next]_vars
  PROVE  LoginLasts'
<1> USE AuthAssumption DEF TypeOK, PC, RequestsSound, CreatedSound, TokensSound,
       LoginLasts, Sessions
<1>1. ASSUME NEW r \in Request, NEW a \in Address, Register(r, a)
     PROVE  LoginLasts'
  BY <1>1 DEF Register, CallsMayFail, Goto, accounts, history
<1>2. ASSUME NEW r \in Request, NEW a \in Address, Login(r, a)
     PROVE  LoginLasts'
  BY <1>2 DEF Login, FoundBy, Goto, accounts, history
<1>3. ASSUME NEW r \in Request, NEW u \in User, SaveUser(r, u)
     PROVE  LoginLasts'
  BY <1>3 DEF SaveUser, Accepts, NewUser, FoundBy, Finish, Goto, history
<1>4. ASSUME NEW r \in Request, NEW t \in Token, Refresh(r, t)
     PROVE  LoginLasts'
  BY <1>4 DEF Refresh, FindByToken, Readable, Refreshing, Mark, Goto, accounts
<1>5. ASSUME NEW r \in Request, NEW t \in Token, CreateSession(r, t)
     PROVE  LoginLasts'
  BY <1>5 DEF CreateSession, Goto, accounts
<1>6. ASSUME NEW r \in Request, NEW t \in Token, Logout(r, t)
     PROVE  LoginLasts'
  BY <1>6 DEF Logout, Refreshing, Mark, accounts, locals
<1>7. ASSUME NEW r \in Request, RefuseExpired(r)
     PROVE  LoginLasts'
  BY <1>7 DEF RefuseExpired, Finish, Goto, accounts
<1>8. ASSUME NEW r \in Request, FindHolder(r)
     PROVE  LoginLasts'
  BY <1>8 DEF FindHolder, Goto, accounts, locals, history
<1>9. ASSUME NEW r \in Request, InvalidateOld(r)
     PROVE  LoginLasts'
  BY <1>9 DEF InvalidateOld, Goto, accounts, locals, history
<1>10. ASSUME NEW r \in Request, InvalidateOldFails(r)
     PROVE  LoginLasts'
  BY <1>10 DEF InvalidateOldFails, CallsMayFail, Goto, accounts, locals
<1>11. ASSUME NEW r \in Request, Answer(r)
     PROVE  LoginLasts'
  BY <1>11 DEF Answer, Finish, Goto, accounts, history
<1>12. ASSUME NEW r \in Request, Fail(r)
     PROVE  LoginLasts'
  BY <1>12 DEF Fail, CallsMayFail, Finish, Goto, Mark, accounts
<1>13. ASSUME NEW t \in Token, Expire(t)
     PROVE  LoginLasts'
  BY <1>13 DEF Expire, accounts, locals, history
<1>14. CASE UNCHANGED vars
  BY <1>14 DEF vars, accounts, locals, history
<1> QED
  BY <1>1, <1>2, <1>3, <1>4, <1>5, <1>6, <1>7, <1>8, <1>9, <1>10, <1>11,
     <1>12, <1>13, <1>14 DEF Next

\* What continues a login is for its owner.
LEMMA OwnerStep ==
  ASSUME TypeOK, RequestsSound, CreatedSound, TokensSound, OwnersSound, [Next]_vars
  PROVE  OwnersSound'
<1> USE AuthAssumption DEF TypeOK, PC, RequestsSound, CreatedSound, TokensSound,
       OwnersSound
<1>1. ASSUME NEW r \in Request, NEW a \in Address, Register(r, a)
     PROVE  OwnersSound'
  BY <1>1 DEF Register, CallsMayFail, Goto, accounts, history
<1>2. ASSUME NEW r \in Request, NEW a \in Address, Login(r, a)
     PROVE  OwnersSound'
  BY <1>2 DEF Login, FoundBy, Goto, accounts, history
<1>3. ASSUME NEW r \in Request, NEW u \in User, SaveUser(r, u)
     PROVE  OwnersSound'
  BY <1>3 DEF SaveUser, Accepts, NewUser, FoundBy, Finish, Goto, history
<1>4. ASSUME NEW r \in Request, NEW t \in Token, Refresh(r, t)
     PROVE  OwnersSound'
  BY <1>4 DEF Refresh, FindByToken, Readable, Refreshing, Mark, Goto, accounts
<1>5. ASSUME NEW r \in Request, NEW t \in Token, CreateSession(r, t)
     PROVE  OwnersSound'
  BY <1>5 DEF CreateSession, Goto, accounts
<1>6. ASSUME NEW r \in Request, NEW t \in Token, Logout(r, t)
     PROVE  OwnersSound'
  BY <1>6 DEF Logout, Refreshing, Mark, accounts, locals
<1>7. ASSUME NEW r \in Request, RefuseExpired(r)
     PROVE  OwnersSound'
  BY <1>7 DEF RefuseExpired, Finish, Goto, accounts
<1>8. ASSUME NEW r \in Request, FindHolder(r)
     PROVE  OwnersSound'
  BY <1>8 DEF FindHolder, Goto, accounts, locals, history
<1>9. ASSUME NEW r \in Request, InvalidateOld(r)
     PROVE  OwnersSound'
  BY <1>9 DEF InvalidateOld, Goto, accounts, locals, history
<1>10. ASSUME NEW r \in Request, InvalidateOldFails(r)
     PROVE  OwnersSound'
  BY <1>10 DEF InvalidateOldFails, CallsMayFail, Goto, accounts, locals
<1>11. ASSUME NEW r \in Request, Answer(r)
     PROVE  OwnersSound'
  BY <1>11 DEF Answer, Finish, Goto, accounts, history
<1>12. ASSUME NEW r \in Request, Fail(r)
     PROVE  OwnersSound'
  BY <1>12 DEF Fail, CallsMayFail, Finish, Goto, Mark, accounts
<1>13. ASSUME NEW t \in Token, Expire(t)
     PROVE  OwnersSound'
  BY <1>13 DEF Expire, accounts, locals, history
<1>14. CASE UNCHANGED vars
  BY <1>14 DEF vars, accounts, locals, history
<1> QED
  BY <1>1, <1>2, <1>3, <1>4, <1>5, <1>6, <1>7, <1>8, <1>9, <1>10, <1>11,
     <1>12, <1>13, <1>14 DEF Next

\* Only a request that disturbs the login ends a session that is being
\* refreshed.
LEMMA LivesStep ==
  ASSUME TypeOK, RequestsSound, CreatedSound, TokensSound, RefreshesSound,
         RefreshedLives, [Next]_vars
  PROVE  RefreshedLives'
<1> USE AuthAssumption DEF TypeOK, PC, RequestsSound, CreatedSound, TokensSound,
       RefreshesSound, RefreshedLives
<1>1. ASSUME NEW r \in Request, NEW a \in Address, Register(r, a)
     PROVE  RefreshedLives'
  BY <1>1 DEF Register, CallsMayFail, Goto, accounts, history
<1>2. ASSUME NEW r \in Request, NEW a \in Address, Login(r, a)
     PROVE  RefreshedLives'
  BY <1>2 DEF Login, FoundBy, Goto, accounts, history
<1>3. ASSUME NEW r \in Request, NEW u \in User, SaveUser(r, u)
     PROVE  RefreshedLives'
  BY <1>3 DEF SaveUser, Accepts, NewUser, FoundBy, Finish, Goto, history
<1>4. ASSUME NEW r \in Request, NEW t \in Token, Refresh(r, t)
     PROVE  RefreshedLives'
  BY <1>4 DEF Refresh, FindByToken, Readable, Refreshing, Mark, Goto, accounts
<1>5. ASSUME NEW r \in Request, NEW t \in Token, CreateSession(r, t)
     PROVE  RefreshedLives'
  BY <1>5 DEF CreateSession, Goto, accounts
<1>6. ASSUME NEW r \in Request, NEW t \in Token, Logout(r, t)
     PROVE  RefreshedLives'
  BY <1>6 DEF Logout, Refreshing, Mark, accounts, locals
<1>7. ASSUME NEW r \in Request, RefuseExpired(r)
     PROVE  RefreshedLives'
  BY <1>7 DEF RefuseExpired, Finish, Goto, accounts
<1>8. ASSUME NEW r \in Request, FindHolder(r)
     PROVE  RefreshedLives'
  BY <1>8 DEF FindHolder, Goto, accounts, locals, history
<1>9. ASSUME NEW r \in Request, InvalidateOld(r)
     PROVE  RefreshedLives'
  BY <1>9 DEF InvalidateOld, Goto, accounts, locals, history
<1>10. ASSUME NEW r \in Request, InvalidateOldFails(r)
     PROVE  RefreshedLives'
  BY <1>10 DEF InvalidateOldFails, CallsMayFail, Goto, accounts, locals
<1>11. ASSUME NEW r \in Request, Answer(r)
     PROVE  RefreshedLives'
  BY <1>11 DEF Answer, Finish, Goto, accounts, history
<1>12. ASSUME NEW r \in Request, Fail(r)
     PROVE  RefreshedLives'
  BY <1>12 DEF Fail, CallsMayFail, Finish, Goto, Mark, accounts
<1>13. ASSUME NEW t \in Token, Expire(t)
     PROVE  RefreshedLives'
  BY <1>13 DEF Expire, accounts, locals, history
<1>14. CASE UNCHANGED vars
  BY <1>14 DEF vars, accounts, locals, history
<1> QED
  BY <1>1, <1>2, <1>3, <1>4, <1>5, <1>6, <1>7, <1>8, <1>9, <1>10, <1>11,
     <1>12, <1>13, <1>14 DEF Next

\* The conjunction of the invariants holds in every state of every behaviour.
THEOREM Invariance == Spec => []IInv
<1>1. Init => IInv
  BY AuthAssumption
  DEF Init, IInv, TypeOK, RequestsSound, CreatedSound, TokensSound,
      RefreshesSound, OwnersSound, RefreshedLives, OneUserPerAddress,
      OneSessionPerLogin, LoginLasts,
      Sessions, PC
<1>2. IInv /\ [Next]_vars => IInv'
  BY TypeStep, RequestStep, TokenStep, CreatedStep, RefreshStep, SessionStep,
     OwnerStep, LivesStep, AddressStep, LastsStep DEF IInv
<1> QED
  BY <1>1, <1>2, PTL DEF Spec

\* The variables keep their types (both repositories and the requests).
THEOREM TypeCorrect == Spec => []TypeOK
  BY Invariance, PTL DEF IInv

\* Registrations that overlap, or whose lookup fails or misses the address for
\* its spelling, leave one user with it in PostgreSQL (user/service.go).
THEOREM AddressesUnique == Spec => []OneUserPerAddress
  BY Invariance, PTL DEF IInv

\* A login none of whose requests overlapped or failed to invalidate has one
\* session, whatever other logins do (auth/service.go Refresh).
THEOREM LoginHasOneSession == Spec => []OneSessionPerLogin
  BY Invariance, PTL DEF IInv

\* A login lasts until it is logged out, expires or an answer is lost, also
\* when refreshes of it overlap and fail (auth/service.go Refresh).
THEOREM LoginIsKept == Spec => []LoginLasts
  BY Invariance, PTL DEF IInv
-----------------------------------------------------------------------------
(* AuthSessions implements LoginStore *)

\* A login acts for its owner as long as it has a session.
ForOwner ==
  Acts = [l \in Token |-> IF Sessions(l) = {} THEN {} ELSE {owner[l]}]

LEMMA ActsForOwner == OwnersSound => ForOwner
<1> SUFFICES ASSUME OwnersSound, NEW l \in Token
             PROVE  {session[t] : t \in Sessions(l)} =
                      IF Sessions(l) = {} THEN {} ELSE {owner[l]}
  BY Zenon DEF Acts, ForOwner
<1>1. \A t \in Sessions(l) : session[t] = owner[l]
  BY DEF OwnersSound, Sessions
<1> QED
  BY <1>1

\* Every step is one of LoginStore, or changes nothing that it knows of.
LEMMA LoginsRefined ==
  ASSUME AuthAssumption, IInv, IInv', [Next]_vars
  PROVE  [Logins!Next]_(Logins!logins)
<1> USE DEF IInv
<1>a. /\ Acts = [l \in Token |-> IF Sessions(l) = {} THEN {} ELSE {owner[l]}]
      /\ Acts' = [l \in Token |-> IF Sessions(l)' = {} THEN {} ELSE {owner'[l]}]
  <2>1. OwnersSound /\ OwnersSound'
    OBVIOUS
  <2>2. ForOwner /\ ForOwner'
    BY <2>1, ActsForOwner, PTL
  <2> QED
    BY <2>2 DEF ForOwner
<1>b. ASSUME session' = session, login' = login
      PROVE  Acts' = Acts
  BY <1>b DEF Acts, Sessions
<1>c. ASSUME NEW r \in Request, token[r] # None
      PROVE  /\ token[r] \in Token /\ token[r] \in known
             /\ login[token[r]] \in Token
             /\ owner[login[token[r]]] # None
  BY <1>c, AuthAssumption DEF TypeOK, RequestsSound, TokensSound, OwnersSound
<1>1. ASSUME NEW r \in Request,
             \/ \E a \in Address : Register(r, a) \/ Login(r, a)
             \/ \E u \in User : SaveUser(r, u)
             \/ FindHolder(r)
             \/ Answer(r)
      PROVE  UNCHANGED Logins!logins
  <2>1. UNCHANGED <<session, login, owner, disturbed>>
    BY <1>1 DEF Register, Login, SaveUser, FindHolder, Answer, history
  <2> QED
    BY <1>b, <2>1 DEF Logins!logins
<1>2. ASSUME \/ UNCHANGED vars
             \/ \E t \in Token : Expire(t)
      PROVE  UNCHANGED Logins!logins
  <2>1. UNCHANGED <<session, login, owner, disturbed>>
    BY <1>2 DEF Expire, vars, history
  <2> QED
    BY <1>b, <2>1 DEF Logins!logins
<1>3. ASSUME NEW l \in Token, owner[l] # None,
             UNCHANGED <<session, login, owner>>,
             disturbed' = disturbed \cup {l}
      PROVE  Logins!Disturb(l)
  <2>1. Acts' = [Acts EXCEPT ![l] = Acts[l]]
    BY <1>b, <1>3 DEF Acts
  <2> QED
    BY <1>3, <2>1 DEF Logins!Disturb
<1>4. ASSUME NEW r \in Request, NEW t \in Token, Refresh(r, t)
      PROVE  \/ UNCHANGED Logins!logins
             \/ Logins!Disturb(login[t])
  <2>1. login[t] \in Token /\ owner[login[t]] # None
    BY <1>4, AuthAssumption DEF Refresh, TypeOK, TokensSound, OwnersSound
  <2> QED
    BY <1>b, <1>3, <1>4, <2>1 DEF Refresh, Mark, Logins!logins
<1>5. ASSUME NEW r \in Request, Fail(r) \/ InvalidateOldFails(r)
      PROVE  \/ UNCHANGED Logins!logins
             \/ token[r] # None /\ Logins!Disturb(login[token[r]])
  <2>1. pc[r] = "invalidating" => token[r] # None
    BY DEF RequestsSound
  <2> QED
    BY <1>b, <1>c, <1>3, <1>5, <2>1
    DEF Fail, InvalidateOldFails, Mark, Logins!logins
<1>6. ASSUME NEW r \in Request, InvalidateOld(r)
      PROVE  UNCHANGED Logins!logins
  <2>1. /\ pc[r] = "invalidating" /\ token[r] # None /\ token[r] \in known
        /\ UNCHANGED <<login, owner, disturbed>>
        /\ session' = [session EXCEPT ![token[r]] = None]
    BY <1>6 DEF InvalidateOld, RequestsSound, history
  <2>2. /\ fresh[r] \in Token /\ fresh[r] # token[r] /\ session[fresh[r]] # None
        /\ login[fresh[r]] = login[token[r]]
    BY <2>1 DEF CreatedSound, TypeOK
  <2>3. \A l \in Token : Sessions(l)' = Sessions(l) \ {token[r]}
    BY <1>c, <2>1 DEF Sessions, TypeOK
  <2>4. ASSUME NEW l \in Token
        PROVE  Sessions(l)' = {} <=> Sessions(l) = {}
    <3>1. token[r] \in Sessions(l) => fresh[r] \in Sessions(l)
      BY <2>2 DEF Sessions
    <3> QED
      BY <2>2, <2>3, <3>1
  <2> QED
    BY <1>a, <2>1, <2>4 DEF Logins!logins
<1>7. ASSUME NEW r \in Request, NEW t \in Token, NEW l \in Token, owner[l] # None,
             session' = [session EXCEPT ![t] = None],
             login[t] = l, UNCHANGED <<login, owner>>
      PROVE  Acts' = Acts \/ Acts' = [Acts EXCEPT ![l] = {}]
  <2>1. \A k \in Token : Sessions(k)' = Sessions(k) \ {t}
    BY <1>7 DEF Sessions, TypeOK
  <2>2. \A k \in Token \ {l} : Sessions(k)' = Sessions(k)
    BY <1>7, <2>1 DEF Sessions
  <2>3. CASE Sessions(l)' = {}
    BY <1>a, <1>7, <2>2, <2>3
  <2>4. CASE Sessions(l)' # {}
    <3>1. Sessions(l) # {}
      BY <2>1, <2>4
    <3> QED
      BY <1>a, <1>7, <2>2, <2>4, <3>1
  <2> QED
    BY <2>3, <2>4
<1>8. ASSUME NEW r \in Request, RefuseExpired(r)
      PROVE  \/ UNCHANGED Logins!logins
             \/ token[r] # None /\ Logins!Close(login[token[r]])
  <2>1. /\ token[r] # None
        /\ session' = [session EXCEPT ![token[r]] = None]
        /\ UNCHANGED <<login, owner, disturbed>>
    BY <1>8 DEF RefuseExpired, RequestsSound
  <2>2. Acts' = Acts \/ Acts' = [Acts EXCEPT ![login[token[r]]] = {}]
    BY <1>c, <1>7, <2>1
  <2> QED
    BY <2>1, <2>2 DEF Logins!Close, Logins!logins
<1>9. ASSUME NEW r \in Request, NEW t \in Token, Logout(r, t)
      PROVE  \/ UNCHANGED Logins!logins
             \/ Logins!Close(login[t])
             \/ Logins!Disturb(login[t])
  <2>1. login[t] \in Token /\ owner[login[t]] # None
    BY <1>9, AuthAssumption DEF Logout, TypeOK, TokensSound, OwnersSound
  <2>2. Acts' = Acts \/ Acts' = [Acts EXCEPT ![login[t]] = {}]
    BY <1>7, <1>9, <2>1 DEF Logout
  <2>3. /\ UNCHANGED owner
        /\ disturbed' \in {disturbed, disturbed \cup {login[t]}}
    BY <1>9 DEF Logout, Mark
  <2>4. Acts = [Acts EXCEPT ![login[t]] = Acts[login[t]]]
    BY <1>a
  <2> QED
    BY <2>1, <2>2, <2>3, <2>4 DEF Logins!Disturb, Logins!Close, Logins!logins
<1>10. ASSUME NEW r \in Request, NEW t \in Token, CreateSession(r, t)
       PROVE  \/ UNCHANGED Logins!logins
              \/ \E u \in User : Logins!Open(t, u)
              \/ token[r] # None /\ Logins!Resume(login[token[r]])
  <2>1. /\ pc[r] = "creating" /\ login[t] = None /\ owner[t] = None
        /\ holder[r] \in User /\ disturbed' = disturbed
        /\ session' = [session EXCEPT ![t] = holder[r]]
        /\ session[t] = None
    BY <1>10, AuthAssumption
    DEF CreateSession, RequestsSound, TokensSound, OwnersSound, TypeOK
  <2>2. CASE token[r] = None
    <3>1. /\ login' = [login EXCEPT ![t] = t]
          /\ owner' = [owner EXCEPT ![t] = holder[r]]
      BY <1>10, <2>2 DEF CreateSession
    <3>2. \A k \in Token \ {t} : Sessions(k)' = Sessions(k)
      BY <2>1, <3>1, AuthAssumption DEF Sessions, TypeOK
    <3>3. t \in Sessions(t)'
      BY <2>1, <3>1, AuthAssumption DEF Sessions, TypeOK
    <3>4. owner'[t] = holder[r] /\ \A k \in Token \ {t} : owner'[k] = owner[k]
      BY <3>1 DEF TypeOK
    <3>5. Acts' = [Acts EXCEPT ![t] = {holder[r]}]
      <4>1. \A k \in Token \ {t} : Acts'[k] = Acts[k]
        BY <1>a, <3>2, <3>4
      <4>2. Acts'[t] = {holder[r]}
        BY <1>a, <3>3, <3>4
      <4> QED
        BY <1>a, <4>1, <4>2
    <3>6. Logins!Open(t, holder[r])
      BY <2>1, <3>1, <3>5 DEF Logins!Open
    <3> QED
      BY <2>1, <3>6 DEF Logins!Open
  <2>3. CASE token[r] # None
    <3>1. PICK l \in Token : l = login[token[r]]
      BY <1>c, <2>3
    <3>2. login' = [login EXCEPT ![t] = l] /\ owner' = owner /\ l # t
      BY <1>10, <1>c, <2>1, <2>3, <3>1 DEF CreateSession, TypeOK
    <3>3. \A k \in Token \ {l} : Sessions(k)' = Sessions(k)
      BY <2>1, <3>1, <3>2, AuthAssumption DEF Sessions, TypeOK
    <3>4. t \in Sessions(l)'
      BY <2>1, <3>2, AuthAssumption DEF Sessions, TypeOK
    <3>5. Acts' = [Acts EXCEPT ![l] = {owner[l]}]
      <4>1. \A k \in Token \ {l} : Acts'[k] = Acts[k]
        BY <1>a, <3>2, <3>3
      <4>2. Acts'[l] = {owner[l]}
        BY <1>a, <3>2, <3>4
      <4> QED
        BY <1>a, <4>1, <4>2
    <3>6. CASE l \in disturbed
      BY <2>1, <2>3, <3>1, <3>2, <3>5, <3>6 DEF Logins!Resume
    <3>7. CASE l \notin disturbed
      <4>1. token[r] \in Sessions(l)
        BY <1>c, <2>1, <2>3, <3>1, <3>7 DEF RefreshedLives, Sessions
      <4>2. Acts' = Acts
        BY <1>a, <3>2, <3>3, <3>4, <4>1
      <4> QED
        BY <2>1, <3>2, <4>2 DEF Logins!logins
    <3> QED
      BY <3>6, <3>7
  <2> QED
    BY <2>2, <2>3
<1> DEFINE Step(l) == \/ \E u \in User : Logins!Open(l, u)
                      \/ Logins!Disturb(l)
                      \/ Logins!Close(l)
                      \/ Logins!Resume(l)
           Goal == (\E l \in Token : Step(l)) \/ UNCHANGED Logins!logins
<1>11. ASSUME NEW r \in Request, RefuseExpired(r) \/ Fail(r) \/ InvalidateOldFails(r)
       PROVE  Goal
  <2>1. PICK l : l = login[token[r]]
    OBVIOUS
  <2>2. \/ UNCHANGED Logins!logins
        \/ token[r] # None /\ Step(l)
    BY <1>5, <1>8, <1>11, <2>1
    DEF Logins!Open, Logins!Disturb, Logins!Close, Logins!Resume
  <2> QED
    BY <1>c, <2>1, <2>2
<1>12. ASSUME NEW r \in Request, NEW t \in Token, Refresh(r, t) \/ Logout(r, t)
       PROVE  Goal
  <2>1. PICK l \in Token : l = login[t]
    BY <1>12, AuthAssumption DEF Refresh, Logout, TypeOK, TokensSound
  <2>2. UNCHANGED Logins!logins \/ Step(l)
    BY <1>4, <1>9, <1>12, <2>1 DEF Logins!Disturb, Logins!Close
  <2> QED
    BY <2>2
<1>13. ASSUME NEW r \in Request, NEW t \in Token, CreateSession(r, t)
       PROVE  Goal
  <2>1. PICK l : l = login[token[r]]
    OBVIOUS
  <2>2. \/ UNCHANGED Logins!logins
        \/ Step(t)
        \/ token[r] # None /\ Step(l)
    BY <1>10, <1>13, <2>1 DEF Logins!Resume
  <2> QED
    BY <1>c, <2>1, <2>2
<1>14. Goal
  <2>1. CASE UNCHANGED vars \/ \E t \in Token : Expire(t)
    BY <1>2, <2>1
  <2>2. ASSUME NEW r \in Request,
               \/ \E a \in Address : Register(r, a) \/ Login(r, a)
               \/ \E u \in User : SaveUser(r, u)
               \/ FindHolder(r)
               \/ Answer(r)
               \/ InvalidateOld(r)
        PROVE  Goal
    BY <1>1, <1>6, <2>2
  <2> HIDE DEF Goal
  <2> QED
    BY <1>11, <1>12, <1>13, <2>1, <2>2 DEF Next
<1> QED
  BY <1>14 DEF Logins!Next

\* The tokens of a login act for the user who logged in, however they are
\* refreshed, and a login that has ended stays so unless it was disturbed
\* (auth/service.go Refresh, Logout).
THEOREM Implementation == Spec => ImplementsLoginStore
<1>1. Init => Logins!Init
  BY DEF Init, Acts, Sessions, Logins!Init
<1>2. IInv /\ IInv' /\ [Next]_vars => [Logins!Next]_(Logins!logins)
  BY AuthAssumption, LoginsRefined
<1> QED
  BY <1>1, <1>2, Invariance, PTL DEF Spec, Logins!Spec, ImplementsLoginStore
=============================================================================
