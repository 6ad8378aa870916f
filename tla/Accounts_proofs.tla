--------------------------- MODULE Accounts_proofs ---------------------------
(***************************************************************************)
(* For any number of users, passwords, sessions and requests at a time:    *)
(* every usable session can be revoked, a revocation leaves only sessions  *)
(* that raced with one, and a password stays as it was set, each up to the *)
(* one race that its statement names.                                      *)
(*                                                                         *)
(* The three are about what a request read and what others did since, so   *)
(* the invariant says of each request what its read is still worth.        *)
(***************************************************************************)
EXTENDS Accounts, RateLimiter, FiniteSetTheorems, WellFoundedInduction,
        SequenceTheorems, TLAPS

(* A request under way is about a row; only one that creates the row may   *)
(* find that there is none.                                                *)
RequestsHaveRows ==
    \A r \in AcctRequests :
        /\ request[r].op # "idle" => request[r].user \in Users
        /\ request[r].op \in {"login", "profile", "edit", "password"} =>
              account[request[r].user].status # "none"

(* A session that can be used belongs to somebody.                         *)
SessionsHaveOwners == \A s \in alive : owner[s] \in Users

(* A user's set names only the user's sessions.                            *)
ListedAreOwned == \A u \in Users : \A s \in listed[u] : owner[s] = u

(* Between its two steps a revocation knows all usable sessions in the set *)
(* but those it raced with.                                                *)
RevocationsKnow ==
    \A r \in AcctRequests : request[r].op = "delete" =>
        listed[request[r].user] \cap alive \subseteq request[r].ids \cup raced

(* An update that is not stale would write back the password last set.     *)
FreshReadsAreRight ==
    \A r \in AcctRequests :
        LET u == request[r].user IN
        request[r].op \in {"profile", "edit"} =>
            request[r].row = lastSet[u] \/ request[r].stale \/ clobbered[u]

AccountsInv ==
    /\ AccountsTypeOK
    /\ RequestsHaveRows
    /\ SessionsHaveOwners
    /\ ListedAreOwned
    /\ UsableSessionsAreListed
    /\ RevocationsKnow
    /\ PasswordIsTheLastOneSet
    /\ FreshReadsAreRight

-----------------------------------------------------------------------------

(* What a request goes on with after a read is a request.                  *)
LEMMA WorkingIsTyped ==
  ASSUME NEW u \in Users \cup {NoUser}, NEW row \in Passwords \cup {NoPw},
         NEW ids \in SUBSET Logins,
         NEW op \in {"idle", "login", "logout", "profile", "edit", "create",
                     "password", "list", "delete"}
  PROVE  Working(op, u, row, ids) \in AcctWork
  BY DEF Working, AcctWork

(* Setting a password only marks other requests' reads (Outdate): what     *)
(* they do, for whom and with what stays.                                  *)
LEMMA OutdateMarks ==
  ASSUME NEW req \in [AcctRequests -> AcctWork], NEW r \in AcctRequests, NEW u,
         NEW q \in AcctRequests
  PROVE  /\ Outdate(req, r, u) \in [AcctRequests -> AcctWork]
         /\ Outdate(req, r, u)[q].op = req[q].op
         /\ Outdate(req, r, u)[q].user = req[q].user
         /\ Outdate(req, r, u)[q].row = req[q].row
         /\ Outdate(req, r, u)[q].ids = req[q].ids
         /\ q # r /\ req[q].user = u => Outdate(req, r, u)[q].stale
         /\ q = r \/ req[q].user # u => Outdate(req, r, u)[q] = req[q]
<1>1. ASSUME NEW x \in AcctWork
      PROVE  /\ [x EXCEPT !.stale = TRUE] \in AcctWork
             /\ [x EXCEPT !.stale = TRUE].op = x.op
             /\ [x EXCEPT !.stale = TRUE].user = x.user
             /\ [x EXCEPT !.stale = TRUE].row = x.row
             /\ [x EXCEPT !.stale = TRUE].ids = x.ids
             /\ [x EXCEPT !.stale = TRUE].stale
  BY DEF AcctWork
<1>2. \A p \in AcctRequests : req[p] \in AcctWork
  OBVIOUS
<1>3. Outdate(req, r, u)[q] =
          IF q # r /\ req[q].user = u THEN [req[q] EXCEPT !.stale = TRUE] ELSE req[q]
  BY DEF Outdate
<1>4. Outdate(req, r, u) \in [AcctRequests -> AcctWork]
  BY <1>1, <1>2 DEF Outdate
<1> QED
  BY <1>1, <1>2, <1>3, <1>4

(* A password write (WriteRow) keeps the types of the rows.                *)
LEMMA WriteRowIsTyped ==
  ASSUME AccountsTypeOK, NEW r \in AcctRequests, NEW u \in Users,
         NEW password \in Passwords \cup {NoPw}, NEW asked \in Passwords \cup {NoPw},
         WriteRow(r, u, password, asked)
  PROVE  /\ account' \in [Users -> [status : {"none", "active", "deleted"},
                                     password : Passwords \cup {NoPw}]]
         /\ lastSet' \in [Users -> Passwords \cup {NoPw}]
         /\ clobbered' \in [Users -> BOOLEAN]
<1> USE DEF AccountsTypeOK, WriteRow
<1>1. account' \in [Users -> [status : {"none", "active", "deleted"},
                              password : Passwords \cup {NoPw}]]
  OBVIOUS
<1>2. lastSet' \in [Users -> Passwords \cup {NoPw}]
  OBVIOUS
<1>3. clobbered' \in [Users -> BOOLEAN]
  <2>1. (asked = NoPw /\ (clobbered[u] \/ request[r].stale)) \in BOOLEAN
    OBVIOUS
  <2> QED BY <2>1
<1> QED BY <1>1, <1>2, <1>3

(* Each step keeps the types: a request is about a row and holds what it   *)
(* read of it (application/user, application/account, session_store.go).   *)
LEMMA AccountsTypeStep ==
  ASSUME AccountsTypeOK, RequestsHaveRows, SessionsHaveOwners,
         [AccountsNext]_accountVars
  PROVE  AccountsTypeOK'
<1> USE DEF AccountsTypeOK, acctRows, acctStore, Finish
<1>0. /\ Idle \in AcctWork
      /\ \A q \in AcctRequests : request[q] \in AcctWork
  BY WorkingIsTyped DEF Idle
<1> USE <1>0
<1>1. ASSUME NEW r \in AcctRequests, RequestFails(r) PROVE AccountsTypeOK'
  BY <1>1 DEF RequestFails
<1>2. ASSUME NEW r \in AcctRequests, CreateSession(r) PROVE AccountsTypeOK'
  BY <1>2 DEF CreateSession, RequestsHaveRows
<1>3. ASSUME NEW r \in AcctRequests, DeleteSession(r) PROVE AccountsTypeOK'
  BY <1>3 DEF DeleteSession
<1>4. ASSUME NEW r \in AcctRequests, ListSessions(r) PROVE AccountsTypeOK'
  <2>1. request[r].user \in Users
    BY <1>4 DEF ListSessions, RequestsHaveRows
  <2>2. /\ Working("delete", request[r].user, NoPw, listed[request[r].user]) \in AcctWork
        /\ UNCHANGED <<acctRows, acctStore>>
    BY <1>4, <2>1, WorkingIsTyped DEF ListSessions
  <2>3. request' \in [AcctRequests -> AcctWork]
    BY <1>4, <2>2 DEF ListSessions
  <2> QED
    BY <2>2, <2>3
<1>5. ASSUME NEW r \in AcctRequests, DeleteListed(r) PROVE AccountsTypeOK'
  BY <1>5 DEF DeleteListed
<1>6. ASSUME NEW r \in AcctRequests, NEW s \in Logins, LogoutReads(r, s)
      PROVE  AccountsTypeOK'
  BY <1>6, WorkingIsTyped DEF LogoutReads
<1>7. ASSUME NEW r \in AcctRequests, NEW u \in Users, Kick(r, u) \/ CreateReads(r, u)
      PROVE  AccountsTypeOK'
  <2>1. /\ Working("list", u, NoPw, {}) \in AcctWork
        /\ Working("create", u, NoPw, {}) \in AcctWork
    BY WorkingIsTyped
  <2> QED
    BY <1>7, <2>1 DEF Kick, CreateReads
<1>8. ASSUME NEW r \in AcctRequests, NEW u \in Users,
             NEW op \in {"profile", "edit", "login", "password"}, Enter(r, op, u)
      PROVE  AccountsTypeOK'
  BY <1>8, WorkingIsTyped DEF Enter, Holding
<1>9. ASSUME NEW r \in AcctRequests, NEW p \in Passwords, InsertUser(r, p)
      PROVE  AccountsTypeOK'
  BY <1>9, WriteRowIsTyped DEF InsertUser, RequestsHaveRows
<1>10. ASSUME NEW r \in AcctRequests, NEW p \in Passwords, ChangePassword(r, p)
       PROVE  AccountsTypeOK'
  <2>1. request[r].user \in Users
    BY <1>10 DEF ChangePassword, RequestsHaveRows
  <2>2. [request EXCEPT ![r] = Working("list", request[r].user, NoPw, {})]
            \in [AcctRequests -> AcctWork]
    BY <2>1, WorkingIsTyped
  <2> QED
    BY <1>10, <2>1, <2>2, OutdateMarks, WriteRowIsTyped DEF ChangePassword
<1>11. ASSUME NEW r \in AcctRequests, NEW p \in Passwords \cup {NoPw}, UpdateRow(r, p)
       PROVE  AccountsTypeOK'
  <2>1. request[r].user \in Users /\ request[r].row \in Passwords \cup {NoPw}
    BY <1>11 DEF UpdateRow, RequestsHaveRows, AcctWork
  <2>2. [request EXCEPT ![r] = Idle] \in [AcctRequests -> AcctWork]
    OBVIOUS
  <2> QED
    BY <1>11, <2>1, <2>2, OutdateMarks, WriteRowIsTyped DEF UpdateRow
<1>12. ASSUME NEW s \in Logins, ExpireSession(s) PROVE AccountsTypeOK'
  BY <1>12 DEF ExpireSession
<1>13. ASSUME NEW u \in Users, DeleteUser(u) PROVE AccountsTypeOK'
  BY <1>13 DEF DeleteUser
<1>14. CASE UNCHANGED accountVars
  BY <1>14 DEF accountVars
<1> QED
  BY <1>1, <1>2, <1>3, <1>4, <1>5, <1>6, <1>7, <1>8, <1>9, <1>10, <1>11, <1>12,
     <1>13, <1>14
  DEF AccountsNext, RequestStep, ProfileReads, EditReads, LoginReads, PasswordReads

(* A request's step leaves what the others read alone, except that setting *)
(* a password makes it stale (requests are goroutines of the HTTP server). *)
LEMMA OthersKeep ==
  ASSUME AccountsTypeOK, RequestsHaveRows, NEW r \in AcctRequests, RequestStep(r),
         NEW q \in AcctRequests, q # r
  PROVE  /\ request'[q].op = request[q].op /\ request'[q].user = request[q].user
         /\ request'[q].row = request[q].row /\ request'[q].ids = request[q].ids
         /\ request[q].stale => request'[q].stale
<1> USE DEF AccountsTypeOK, Finish
<1>1. CASE \E x : request' = [request EXCEPT ![r] = x]
  BY <1>1
<1>2. CASE \E x \in AcctWork : request' = Outdate([request EXCEPT ![r] = x], r, request[r].user)
  <2>1. PICK x \in AcctWork :
              request' = Outdate([request EXCEPT ![r] = x], r, request[r].user)
    BY <1>2
  <2> DEFINE req == [request EXCEPT ![r] = x]
  <2>2. req \in [AcctRequests -> AcctWork] /\ req[q] = request[q]
    OBVIOUS
  <2>3. request' = Outdate(req, r, request[r].user)
    BY <2>1
  <2> HIDE DEF req
  <2>4. /\ request'[q].op = req[q].op /\ request'[q].user = req[q].user
        /\ request'[q].row = req[q].row /\ request'[q].ids = req[q].ids
        /\ req[q].stale => request'[q].stale
    BY <2>2, <2>3, OutdateMarks
  <2> QED BY <2>2, <2>4
<1>3. request[r].op # "idle" => request[r].user \in Users
  BY DEF RequestsHaveRows
<1>4. Idle \in AcctWork
  BY WorkingIsTyped DEF Idle
<1>5. ASSUME NEW p \in Passwords, ChangePassword(r, p)
      PROVE  \E x \in AcctWork : request' = Outdate([request EXCEPT ![r] = x], r, request[r].user)
  <2>1. Working("list", request[r].user, NoPw, {}) \in AcctWork
    BY <1>3, <1>5, WorkingIsTyped DEF ChangePassword
  <2> QED BY <2>1, <1>5 DEF ChangePassword
<1>6. ASSUME NEW p \in Passwords \cup {NoPw}, UpdateRow(r, p)
      PROVE  \/ \E x : request' = [request EXCEPT ![r] = x]
             \/ \E x \in AcctWork :
                   request' = Outdate([request EXCEPT ![r] = x], r, request[r].user)
  BY <1>4, <1>6 DEF UpdateRow
<1>7. CASE ListSessions(r)
  BY <1>1, <1>7 DEF ListSessions
<1>8. CASE RequestFails(r) \/ CreateSession(r) \/ DeleteSession(r) \/ DeleteListed(r)
           \/ \E p \in Passwords : InsertUser(r, p)
  BY <1>1, <1>8 DEF RequestFails, CreateSession, DeleteSession, DeleteListed, InsertUser
<1>9. CASE \/ \E s \in Logins : LogoutReads(r, s)
           \/ \E u \in Users : Kick(r, u) \/ CreateReads(r, u) \/ ProfileReads(r, u)
                                \/ EditReads(r, u)
           \/ \E u \in Users, p \in Passwords : LoginReads(r, u, p) \/ PasswordReads(r, u, p)
  BY <1>1, <1>9 DEF LogoutReads, Kick, CreateReads, ProfileReads, EditReads, LoginReads,
                    PasswordReads, Enter
<1> QED
  BY <1>1, <1>2, <1>5, <1>6, <1>7, <1>8, <1>9 DEF RequestStep

(* A request that becomes one about a row has found the row, or is about   *)
(* to create it, and rows do not disappear (users are soft-deleted).       *)
LEMMA RequestsStep ==
  ASSUME AccountsTypeOK, RequestsHaveRows, SessionsHaveOwners, [AccountsNext]_accountVars
  PROVE  RequestsHaveRows'
<1> USE DEF AccountsTypeOK, acctRows
<1>1. ASSUME NEW u \in Users, account[u].status # "none"
      PROVE  account'[u].status # "none"
  <2>1. ASSUME NEW v, NEW pw, account' = [account EXCEPT ![v] = [status |-> "active", password |-> pw]]
        PROVE  account'[u].status # "none"
    BY <1>1, <2>1
  <2>2. ASSUME NEW v \in Users, DeleteUser(v) PROVE account'[u].status # "none"
    BY <1>1, <2>2 DEF DeleteUser
  <2>3. CASE UNCHANGED account
    BY <1>1, <2>3
  <2> QED
    BY <2>1, <2>2, <2>3, ZenonT(60) DEF AccountsNext, RequestStep, RequestFails, CreateSession,
       DeleteSession, ListSessions, DeleteListed, LogoutReads, Kick, CreateReads,
       ProfileReads, EditReads, LoginReads, PasswordReads, Enter, InsertUser, ChangePassword,
       UpdateRow, WriteRow, ExpireSession, accountVars
<1> DEFINE Fits(r) == /\ request'[r].op # "idle" => request'[r].user \in Users
                      /\ request'[r].op \in {"login", "profile", "edit", "password"} =>
                            account[request'[r].user].status # "none"
<1>2. ASSUME NEW r \in AcctRequests, RequestStep(r) PROVE Fits(r)
  <2> USE DEF Finish, Working, Idle
  <2>1. request[r].op # "idle" => request[r].user \in Users
    BY DEF RequestsHaveRows
  <2>2. ASSUME request'[r] = Idle PROVE Fits(r)
    BY <2>2
  <2>3. ASSUME NEW s \in Logins, LogoutReads(r, s)
        PROVE  Fits(r)
    BY <2>3 DEF LogoutReads, SessionsHaveOwners
  <2>4. ASSUME NEW u \in Users, Kick(r, u) \/ CreateReads(r, u)
        PROVE  Fits(r)
    BY <2>4 DEF Kick, CreateReads
  <2>5. ASSUME NEW u \in Users, NEW op, Enter(r, op, u)
        PROVE  Fits(r)
    BY <2>5 DEF Enter, Holding, Active
  <2>6. CASE ListSessions(r)
    <3>1. request'[r] = Idle \/ request'[r] = Working("delete", request[r].user, NoPw, listed[request[r].user])
      BY <2>6 DEF ListSessions
    <3> QED BY <2>1, <2>6, <3>1 DEF ListSessions
  <2>7. CASE RequestFails(r) \/ CreateSession(r) \/ DeleteSession(r) \/ DeleteListed(r)
             \/ \E p \in Passwords : InsertUser(r, p)
    BY <2>7 DEF RequestFails, CreateSession, DeleteSession, DeleteListed, InsertUser
  <2>8. ASSUME NEW p \in Passwords, ChangePassword(r, p)
        PROVE  Fits(r)
    <3>1. Outdate([request EXCEPT ![r] = Working("list", request[r].user, NoPw, {})],
                  r, request[r].user)[r] = Working("list", request[r].user, NoPw, {})
      BY DEF Outdate
    <3> QED BY <2>1, <2>8, <3>1 DEF ChangePassword
  <2>9. ASSUME NEW p \in Passwords \cup {NoPw}, UpdateRow(r, p)
        PROVE  Fits(r)
    <3>1. Outdate([request EXCEPT ![r] = Idle], r, request[r].user)[r] = Idle
      BY DEF Outdate
    <3> QED BY <2>9, <3>1 DEF UpdateRow
  <2> HIDE DEF Fits, AccountsTypeOK, acctRows, Finish, Working, Idle
  <2> QED
    BY <1>2, <2>3, <2>4, <2>5, <2>6, <2>7, <2>8, <2>9
    DEF RequestStep, ProfileReads, EditReads, LoginReads, PasswordReads
<1>3. CASE \E r \in AcctRequests : RequestStep(r)
  <2>1. PICK r \in AcctRequests : RequestStep(r)
    BY <1>3
  <2> SUFFICES ASSUME NEW q \in AcctRequests
               PROVE  /\ request'[q].op # "idle" => request'[q].user \in Users
                      /\ request'[q].op \in {"login", "profile", "edit", "password"} =>
                            account'[request'[q].user].status # "none"
    BY DEF RequestsHaveRows
  <2>2. CASE q = r
    BY <1>1, <1>2, <2>1, <2>2
  <2>3. CASE q # r
    BY <1>1, <2>1, <2>3, OthersKeep DEF RequestsHaveRows
  <2> QED BY <2>2, <2>3
<1>4. CASE UNCHANGED request
  BY <1>1, <1>4 DEF RequestsHaveRows
<1> QED
  BY <1>3, <1>4 DEF AccountsNext, ExpireSession, DeleteUser, accountVars

(* Only a login, a logout, a revocation and a TTL write to Redis.          *)
LEMMA StoreMoves ==
  ASSUME [AccountsNext]_accountVars
  PROVE  \/ UNCHANGED acctStore
         \/ \E r \in AcctRequests : CreateSession(r) \/ DeleteSession(r) \/ DeleteListed(r)
         \/ \E s \in Logins : ExpireSession(s)
<1>1. CASE UNCHANGED accountVars
  BY <1>1 DEF accountVars, acctStore
<1>2. CASE \E u \in Users : DeleteUser(u)
  BY <1>2 DEF DeleteUser
<1>3. ASSUME NEW r \in AcctRequests, RequestStep(r),
             ~(CreateSession(r) \/ DeleteSession(r) \/ DeleteListed(r))
      PROVE  UNCHANGED acctStore
  BY <1>3 DEF RequestStep, RequestFails, ListSessions, LogoutReads, Kick, CreateReads,
     ProfileReads, EditReads, LoginReads, PasswordReads, Enter, InsertUser, ChangePassword,
     UpdateRow
<1> QED
  BY <1>1, <1>2, <1>3 DEF AccountsNext

(* The session store's writes keep a usable session in its user's set, but *)
(* for one that is created inside a revocation (session_store.go:35-122).  *)
LEMMA SessionsStep ==
  ASSUME AccountsTypeOK, RequestsHaveRows, SessionsHaveOwners, ListedAreOwned,
         UsableSessionsAreListed, RevocationsKnow, [AccountsNext]_accountVars
  PROVE  SessionsHaveOwners' /\ ListedAreOwned' /\ UsableSessionsAreListed'
<1> USE AccountsAssumption
    DEF AccountsTypeOK, SessionsHaveOwners, ListedAreOwned, UsableSessionsAreListed
<1>1. CASE UNCHANGED acctStore
  BY <1>1 DEF acctStore
<1>2. ASSUME NEW r \in AcctRequests, CreateSession(r)
      PROVE  SessionsHaveOwners' /\ ListedAreOwned' /\ UsableSessionsAreListed'
  <2> DEFINE u == request[r].user
  <2>1. u \in Users
    BY <1>2 DEF CreateSession, RequestsHaveRows
  <2>2. PICK s \in Logins :
            /\ owner[s] = NoUser
            /\ owner' = [owner EXCEPT ![s] = u]
            /\ alive' = alive \cup {s}
            /\ listed' = [listed EXCEPT ![u] = @ \cup {s}]
            /\ raced' = raced \/ raced' = raced \cup {s}
    BY <1>2 DEF CreateSession
  <2> HIDE DEF u
  <2>3. s \notin alive /\ \A v \in Users : s \notin listed[v]
    BY <2>2
  <2> QED
    BY <2>1, <2>2, <2>3
<1>3. ASSUME NEW r \in AcctRequests, DeleteSession(r)
      PROVE  SessionsHaveOwners' /\ ListedAreOwned' /\ UsableSessionsAreListed'
  BY <1>3 DEF DeleteSession, RequestsHaveRows
<1>4. ASSUME NEW r \in AcctRequests, DeleteListed(r)
      PROVE  SessionsHaveOwners' /\ ListedAreOwned' /\ UsableSessionsAreListed'
  BY <1>4 DEF DeleteListed, RequestsHaveRows, RevocationsKnow
<1>5. ASSUME NEW s \in Logins, ExpireSession(s)
      PROVE  SessionsHaveOwners' /\ ListedAreOwned' /\ UsableSessionsAreListed'
  BY <1>5 DEF ExpireSession
<1> QED
  BY <1>1, <1>2, <1>3, <1>4, <1>5, StoreMoves

(* While a revocation stands between SMEMBERS and its delete, the sessions *)
(* added to the set are marked, and all the others it has read.            *)
LEMMA RevocationsStep ==
  ASSUME AccountsTypeOK, RequestsHaveRows, SessionsHaveOwners, ListedAreOwned,
         RevocationsKnow, [AccountsNext]_accountVars
  PROVE  RevocationsKnow'
<1> USE DEF AccountsTypeOK
<1> SUFFICES ASSUME NEW q \in AcctRequests, request'[q].op = "delete"
             PROVE  (listed[request[q].user] \cap alive)' \subseteq (request[q].ids \cup raced)'
  BY DEF RevocationsKnow
<1>1. CASE request[q].op = "delete" /\ request'[q].user = request[q].user
           /\ request'[q].ids = request[q].ids
  <2>0. request[q].user \in Users
    BY <1>1 DEF RequestsHaveRows
  <2>1. listed[request[q].user] \cap alive \subseteq request[q].ids \cup raced
    BY <1>1 DEF RevocationsKnow
  <2>2. CASE UNCHANGED acctStore
    BY <1>1, <2>1, <2>2 DEF acctStore
  <2>3. ASSUME NEW r \in AcctRequests, CreateSession(r)
        PROVE  (listed[request[q].user] \cap alive)' \subseteq (request[q].ids \cup raced)'
    <3>1. PICK s \in Logins :
            /\ owner[s] = NoUser
            /\ alive' = alive \cup {s}
            /\ listed' = [listed EXCEPT ![request[r].user] = @ \cup {s}]
            /\ raced' = IF \E p \in AcctRequests : request[p].op = "delete"
                                                  /\ request[p].user = request[r].user
                        THEN raced \cup {s} ELSE raced
      BY <2>3 DEF CreateSession
    <3>2. \A v \in Users : s \notin listed[v]
      BY <3>1, AccountsAssumption DEF ListedAreOwned
    <3>3. CASE request[r].user = request[q].user
      BY <1>1, <2>0, <2>1, <3>1, <3>3
    <3>4. CASE request[r].user # request[q].user
      BY <1>1, <2>0, <2>1, <3>1, <3>2, <3>4
    <3> QED BY <3>3, <3>4
  <2>4. ASSUME NEW r \in AcctRequests, DeleteSession(r)
        PROVE  (listed[request[q].user] \cap alive)' \subseteq (request[q].ids \cup raced)'
    BY <1>1, <2>0, <2>1, <2>4 DEF DeleteSession
  <2>5. ASSUME NEW r \in AcctRequests, DeleteListed(r)
        PROVE  (listed[request[q].user] \cap alive)' \subseteq (request[q].ids \cup raced)'
    BY <1>1, <2>0, <2>1, <2>5 DEF DeleteListed
  <2>6. ASSUME NEW s \in Logins, ExpireSession(s)
        PROVE  (listed[request[q].user] \cap alive)' \subseteq (request[q].ids \cup raced)'
    BY <1>1, <2>0, <2>1, <2>6 DEF ExpireSession
  <2> QED
    BY <2>2, <2>3, <2>4, <2>5, <2>6, StoreMoves
<1>2. CASE ListSessions(q)
  <2>0. request' = [request EXCEPT ![q] = Idle] => request'[q].op = "idle"
    BY DEF Idle, Working
  <2>1. request'[q] = Working("delete", request[q].user, NoPw, listed[request[q].user])
    BY <1>2, <2>0 DEF ListSessions, Finish
  <2> QED
    BY <1>2, <2>1 DEF ListSessions, Working, acctStore
<1>3. ASSUME RequestStep(q) PROVE ListSessions(q)
  <2> USE DEF Finish, Working, Idle
  <2>1. request'[q].op = "delete"
    OBVIOUS
  <2>2. ASSUME NEW p \in Passwords, ChangePassword(q, p) PROVE FALSE
    BY <2>1, <2>2 DEF ChangePassword, Outdate
  <2>3. ASSUME NEW p \in Passwords \cup {NoPw}, UpdateRow(q, p) PROVE FALSE
    BY <2>1, <2>3 DEF UpdateRow, Outdate
  <2>4. ~(RequestFails(q) \/ CreateSession(q) \/ DeleteSession(q) \/ DeleteListed(q)
          \/ \E p \in Passwords : InsertUser(q, p))
    BY <2>1 DEF RequestFails, CreateSession, DeleteSession, DeleteListed, InsertUser
  <2>5. ASSUME NEW s \in Logins, LogoutReads(q, s) PROVE FALSE
    BY <2>1, <2>5 DEF LogoutReads
  <2>6. ASSUME NEW u \in Users, Kick(q, u) \/ CreateReads(q, u) PROVE FALSE
    BY <2>1, <2>6 DEF Kick, CreateReads
  <2>7. ASSUME NEW u \in Users, NEW op \in {"profile", "edit", "login", "password"},
               Enter(q, op, u)
        PROVE  FALSE
    BY <2>1, <2>7 DEF Enter, Holding
  <2> HIDE DEF Finish, Working, Idle, AccountsTypeOK
  <2> QED
    BY <1>3, <2>2, <2>3, <2>4, <2>5, <2>6, <2>7
    DEF RequestStep, ProfileReads, EditReads, LoginReads, PasswordReads
<1>4. ASSUME NEW r \in AcctRequests, RequestStep(r), r # q
      PROVE  /\ request[q].op = "delete" /\ request'[q].user = request[q].user
             /\ request'[q].ids = request[q].ids
  BY <1>4, OthersKeep
<1>5. CASE UNCHANGED request
  BY <1>1, <1>5
<1> QED
  BY <1>1, <1>2, <1>3, <1>4, <1>5 DEF AccountsNext, ExpireSession, DeleteUser, accountVars

(* What the write of a row leaves in it (user_repo.go, Update and Create). *)
LEMMA WriteRowWrites ==
  ASSUME AccountsTypeOK, NEW r \in AcctRequests, NEW u \in Users, NEW v \in Users,
         NEW password, NEW asked, WriteRow(r, u, password, asked)
  PROVE  /\ v # u => /\ account'[v] = account[v]
                     /\ lastSet'[v] = lastSet[v]
                     /\ clobbered'[v] = clobbered[v]
         /\ v = u => /\ account'[v].password = password
                     /\ asked # NoPw => lastSet'[v] = asked
                     /\ asked = NoPw => lastSet'[v] = lastSet[v]
                     /\ asked = NoPw /\ (clobbered[v] \/ request[r].stale) => clobbered'[v]
<1> USE DEF AccountsTypeOK, WriteRow
<1>1. v # u => /\ account'[v] = account[v]
               /\ lastSet'[v] = lastSet[v]
               /\ clobbered'[v] = clobbered[v]
  OBVIOUS
<1>2. v = u => /\ account'[v].password = password
               /\ asked # NoPw => lastSet'[v] = asked
               /\ asked = NoPw => lastSet'[v] = lastSet[v]
  OBVIOUS
<1>3. clobbered'[u] = (asked = NoPw /\ (clobbered[u] \/ request[r].stale))
  BY Zenon
<1> QED
  BY <1>1, <1>2, <1>3

(* Of the requests, only an insert, the two updates and a password change  *)
(* write to the users table (user_repo.go; a deletion is no such request). *)
LEMMA RowsMove ==
  ASSUME NEW r, RequestStep(r)
  PROVE  \/ UNCHANGED acctRows
         \/ \E p \in Passwords : InsertUser(r, p) \/ ChangePassword(r, p)
         \/ \E p \in Passwords \cup {NoPw} : UpdateRow(r, p)
  BY DEF RequestStep, RequestFails, CreateSession, DeleteSession, DeleteListed,
     ListSessions, LogoutReads, Kick, CreateReads, ProfileReads, EditReads, LoginReads,
     PasswordReads, Enter

(* The row of a user holds the password last set, but for a stale write.   *)
LEMMA PasswordStep ==
  ASSUME AccountsTypeOK, RequestsHaveRows, PasswordIsTheLastOneSet, FreshReadsAreRight,
         [AccountsNext]_accountVars
  PROVE  PasswordIsTheLastOneSet'
<1> SUFFICES ASSUME NEW v \in Users
             PROVE  account'[v].password = lastSet'[v] \/ clobbered'[v]
  BY DEF PasswordIsTheLastOneSet
<1>0. account[v].password = lastSet[v] \/ clobbered[v]
  BY DEF PasswordIsTheLastOneSet
<1>1. CASE UNCHANGED acctRows
  BY <1>0, <1>1 DEF acctRows
<1>2. ASSUME NEW r \in AcctRequests, NEW p \in Passwords,
             InsertUser(r, p) \/ ChangePassword(r, p), ~UNCHANGED acctRows
      PROVE  account'[v].password = lastSet'[v] \/ clobbered'[v]
  <2>1. request[r].user \in Users /\ WriteRow(r, request[r].user, p, p)
    BY <1>2 DEF InsertUser, ChangePassword, RequestsHaveRows
  <2>2. p # NoPw
    BY AccountsAssumption
  <2> QED BY <1>0, <2>1, <2>2, WriteRowWrites
<1>3. ASSUME NEW r \in AcctRequests, NEW p \in Passwords \cup {NoPw}, UpdateRow(r, p)
      PROVE  account'[v].password = lastSet'[v] \/ clobbered'[v]
  <2>1. /\ request[r].user \in Users
        /\ WriteRow(r, request[r].user, IF p = NoPw THEN request[r].row ELSE p, p)
    BY <1>3 DEF UpdateRow, RequestsHaveRows
  <2>2. \/ request[r].row = lastSet[request[r].user] \/ request[r].stale
        \/ clobbered[request[r].user]
    BY <1>3 DEF UpdateRow, FreshReadsAreRight
  <2>3. CASE p = NoPw
    BY <1>0, <2>1, <2>2, <2>3, WriteRowWrites
  <2>4. CASE p # NoPw
    BY <1>0, <2>1, <2>4, WriteRowWrites
  <2> QED BY <2>3, <2>4
<1>4. ASSUME NEW u \in Users, DeleteUser(u)
      PROVE  account'[v].password = lastSet'[v] \/ clobbered'[v]
  <2>1. account'[v].password = account[v].password
    BY <1>4 DEF DeleteUser, AccountsTypeOK
  <2>2. lastSet' = lastSet /\ clobbered' = clobbered
    BY <1>4 DEF DeleteUser
  <2> QED BY <1>0, <2>1, <2>2
<1> QED
  BY <1>1, <1>2, <1>3, <1>4, RowsMove DEF AccountsNext, ExpireSession, accountVars, acctRows

(* An update that was read is right or marked: a password set in between   *)
(* marks it (account/service.go:20-34, user/service.go:75-112).            *)
LEMMA FreshReadsStep ==
  ASSUME AccountsTypeOK, RequestsHaveRows, PasswordIsTheLastOneSet, FreshReadsAreRight,
         [AccountsNext]_accountVars
  PROVE  FreshReadsAreRight'
<1> DEFINE Right(q) == \/ request[q].row = lastSet[request[q].user]
                       \/ request[q].stale \/ clobbered[request[q].user]
<1> SUFFICES ASSUME NEW q \in AcctRequests, request'[q].op \in {"profile", "edit"}
             PROVE  Right(q)'
  BY DEF FreshReadsAreRight
<1>1. ASSUME request[q].op \in {"profile", "edit"} PROVE Right(q) /\ request[q].user \in Users
  BY <1>1 DEF FreshReadsAreRight, RequestsHaveRows
<1>2. CASE UNCHANGED <<acctRows, request>>
  BY <1>1, <1>2 DEF acctRows
<1>3. CASE RequestStep(q)
  <2> USE DEF Finish, Working, Idle, AccountsTypeOK
  <2>1. ~(RequestFails(q) \/ CreateSession(q) \/ DeleteSession(q) \/ DeleteListed(q)
          \/ \E p \in Passwords : InsertUser(q, p))
    BY DEF RequestFails, CreateSession, DeleteSession, DeleteListed, InsertUser
  <2>2. ASSUME NEW s \in Logins, LogoutReads(q, s) PROVE FALSE
    BY <2>2 DEF LogoutReads
  <2>3. ASSUME NEW u \in Users, Kick(q, u) \/ CreateReads(q, u) PROVE FALSE
    BY <2>3 DEF Kick, CreateReads
  <2>4. ASSUME ListSessions(q) PROVE FALSE
    <3>1. \E x : request' = [request EXCEPT ![q] = x] /\ x.op \in {"idle", "delete"}
      BY <2>4 DEF ListSessions
    <3> QED BY <3>1
  <2>5. ASSUME NEW p \in Passwords, ChangePassword(q, p) PROVE FALSE
    BY <2>5 DEF ChangePassword, Outdate
  <2>6. ASSUME NEW p \in Passwords \cup {NoPw}, UpdateRow(q, p) PROVE FALSE
    BY <2>6 DEF UpdateRow, Outdate
  <2>7. ASSUME NEW u \in Users, NEW op \in {"profile", "edit", "login", "password"},
               Enter(q, op, u)
        PROVE  Right(q)'
    <3>1. /\ request'[q].user = u /\ request'[q].row = account[u].password
          /\ lastSet' = lastSet /\ clobbered' = clobbered
      BY <2>7 DEF Enter, Holding, acctRows
    <3>2. account[u].password = lastSet[u] \/ clobbered[u]
      BY DEF PasswordIsTheLastOneSet
    <3> QED BY <3>1, <3>2
  <2> HIDE DEF Right, Finish, Working, Idle, AccountsTypeOK
  <2> QED
    BY <1>3, <2>1, <2>2, <2>3, <2>4, <2>5, <2>6, <2>7
    DEF RequestStep, ProfileReads, EditReads, LoginReads, PasswordReads
<1>4. ASSUME NEW r \in AcctRequests, RequestStep(r), r # q
      PROVE  Right(q)'
  <2>0. /\ request'[q].user = request[q].user /\ request'[q].row = request[q].row
        /\ request[q].stale => request'[q].stale
        /\ Right(q) /\ request[q].user \in Users
        /\ account[request[q].user].status # "none"
    BY <1>1, <1>4, OthersKeep DEF RequestsHaveRows
  <2>1. CASE UNCHANGED acctRows
    BY <2>0, <2>1 DEF acctRows
  <2>2. ASSUME NEW p \in Passwords, InsertUser(r, p), ~UNCHANGED acctRows
        PROVE  Right(q)'
    <3>1. /\ request[r].user \in Users /\ request[r].user # request[q].user
          /\ WriteRow(r, request[r].user, p, p)
      BY <2>0, <2>2 DEF InsertUser, RequestsHaveRows
    <3> QED BY <2>0, <3>1, WriteRowWrites
  <2>3. ASSUME NEW p \in Passwords, NEW pw, NEW x \in AcctWork,
               request[r].user \in Users, WriteRow(r, request[r].user, pw, p),
               request' = Outdate([request EXCEPT ![r] = x], r, request[r].user)
        PROVE  Right(q)'
    <3> DEFINE req == [request EXCEPT ![r] = x]
    <3>1. req \in [AcctRequests -> AcctWork] /\ req[q] = request[q]
      BY <1>4 DEF AccountsTypeOK
    <3>2. request' = Outdate(req, r, request[r].user)
      BY <2>3
    <3> HIDE DEF req
    <3>3. CASE request[q].user = request[r].user
      <4>1. request'[q].stale
        BY <1>4, <3>1, <3>2, <3>3, OutdateMarks
      <4> QED BY <4>1
    <3>4. CASE request[q].user # request[r].user
      BY <2>0, <2>3, <3>4, WriteRowWrites
    <3> QED BY <3>3, <3>4
  <2>4. ASSUME NEW p \in Passwords, ChangePassword(r, p)
        PROVE  Right(q)'
    <3>1. request[r].user \in Users
      BY <2>4 DEF ChangePassword, RequestsHaveRows
    <3>2. Working("list", request[r].user, NoPw, {}) \in AcctWork
      BY <3>1, WorkingIsTyped
    <3> QED BY <2>3, <2>4, <3>1, <3>2 DEF ChangePassword
  <2>5. ASSUME NEW p \in Passwords \cup {NoPw}, UpdateRow(r, p)
        PROVE  Right(q)'
    <3>1. request[r].user \in Users /\ Idle \in AcctWork
      BY <2>5, WorkingIsTyped DEF UpdateRow, RequestsHaveRows, Idle
    <3>2. CASE p # NoPw
      <4>1. p \in Passwords
        BY <3>2
      <4> HIDE DEF Right
      <4> QED BY <2>3, <2>5, <3>1, <3>2, <4>1 DEF UpdateRow
    <3>3. CASE p = NoPw
      <4>1. WriteRow(r, request[r].user, request[r].row, NoPw)
        BY <2>5, <3>3 DEF UpdateRow
      <4> QED BY <2>0, <3>1, <4>1, WriteRowWrites
    <3> QED BY <3>2, <3>3
  <2> QED
    BY <1>4, <2>1, <2>2, <2>4, <2>5, RowsMove
<1>5. CASE \E u \in Users : DeleteUser(u)
  BY <1>1, <1>5 DEF DeleteUser
<1> QED
  BY <1>2, <1>3, <1>4, <1>5 DEF AccountsNext, ExpireSession, accountVars, acctRows

-----------------------------------------------------------------------------

(* Nobody works on the accounts yet.                                       *)
LEMMA AccountsStart == AccountsInit => AccountsInv
<1> SUFFICES ASSUME AccountsInit PROVE AccountsInv
  OBVIOUS
<1> USE DEF AccountsInit
<1>0. Idle \in AcctWork /\ Idle.op = "idle"
  BY WorkingIsTyped DEF Idle, Working
<1>1. AccountsTypeOK
  BY <1>0 DEF AccountsTypeOK
<1>2. RequestsHaveRows /\ RevocationsKnow /\ FreshReadsAreRight
  BY <1>0 DEF RequestsHaveRows, RevocationsKnow, FreshReadsAreRight
<1>3. SessionsHaveOwners /\ ListedAreOwned /\ UsableSessionsAreListed /\ PasswordIsTheLastOneSet
  BY DEF SessionsHaveOwners, ListedAreOwned, UsableSessionsAreListed, PasswordIsTheLastOneSet
<1> QED
  BY <1>1, <1>2, <1>3 DEF AccountsInv

(* Every step of a request keeps all of it.                                *)
LEMMA AccountsKeep == AccountsInv /\ [AccountsNext]_accountVars => AccountsInv'
  BY AccountsTypeStep, RequestsStep, SessionsStep, RevocationsStep, PasswordStep,
     FreshReadsStep
  DEF AccountsInv

(* What the proofs use of every state of the accounts: its parts are read  *)
(* off application/user, application/account, application/auth and the     *)
(* session store.                                                          *)
THEOREM AccountsAreInvariant == AccountsSpec => []AccountsInv
  BY AccountsStart, AccountsKeep, PTL DEF AccountsSpec

(* However requests interleave, a usable session stands in its user's set, *)
(* where the next revocation finds it, or was created inside a revocation  *)
(* (session_store.go:80).                                                  *)
THEOREM SessionsCanBeRevoked == AccountsSpec => []UsableSessionsAreListed
<1>1. AccountsInv => UsableSessionsAreListed
  BY DEF AccountsInv
<1> QED
  BY <1>1, AccountsAreInvariant, PTL

(* However requests interleave, a row has the password last set by its user*)
(* or an admin, unless a stale whole-row update has written since.         *)
THEOREM PasswordsStaySet == AccountsSpec => []PasswordIsTheLastOneSet
<1>1. AccountsInv => PasswordIsTheLastOneSet
  BY DEF AccountsInv
<1> QED
  BY <1>1, AccountsAreInvariant, PTL

(* When a revocation of a user's sessions ends, no session of that user is *)
(* left that was not created inside a revocation (auth/service.go:106).    *)
THEOREM RevocationIsComplete == AccountsSpec => KickLeavesOnlyRacers
<1> DEFINE Kicked ==
      \A r \in AcctRequests :
          /\ request[r].op = "delete" /\ request'[r] = Idle
          /\ listed'[request[r].user] # listed[request[r].user]
          => \A s \in alive' : owner[s] = request[r].user => s \in raced
<1>1. AccountsInv /\ [AccountsNext]_accountVars => [Kicked]_accountVars
  <2> SUFFICES ASSUME AccountsInv, AccountsNext,
                      NEW q \in AcctRequests, request[q].op = "delete", request'[q] = Idle,
                      listed'[request[q].user] # listed[request[q].user],
                      NEW s \in alive', owner[s] = request[q].user
               PROVE  s \in raced
    OBVIOUS
  <2> USE DEF AccountsInv
  <2>1. Idle.op = "idle"
    BY DEF Idle, Working
  <2>2. ASSUME NEW r \in AcctRequests, RequestStep(r) PROVE r = q
    BY <2>1, <2>2, OthersKeep
  <2>3. ASSUME NEW r \in AcctRequests, CreateSession(r) \/ DeleteSession(r) PROVE FALSE
    BY <2>2, <2>3 DEF RequestStep, CreateSession, DeleteSession
  <2>4. ASSUME DeleteListed(q) PROVE s \in raced
    BY <2>4 DEF DeleteListed, UsableSessionsAreListed, RevocationsKnow
  <2>5. ASSUME NEW r \in AcctRequests, DeleteListed(r) PROVE r = q
    BY <2>2, <2>5 DEF RequestStep
  <2> QED
    BY <2>3, <2>4, <2>5, StoreMoves DEF acctStore, ExpireSession
<1> QED
  BY <1>1, AccountsAreInvariant, PTL DEF AccountsSpec, KickLeavesOnlyRacers

-----------------------------------------------------------------------------
(* The rate limiter.                                                       *)

(* Requests were let through as time passed ...                            *)
AdmissionsInOrder ==
    /\ \A i, j \in DOMAIN admitted : i <= j => admitted[i] <= admitted[j]
    /\ \A i \in DOMAIN admitted : admitted[i] <= clock

(* ... and no Limit + 1 of them within a window: what bounds every window. *)
AdmissionsSpread ==
    \A i \in DOMAIN admitted :
        i + Limit \in DOMAIN admitted => admitted[i] + Window <= admitted[i + Limit]

(* The hits are the admissions but for the first ones, which are out of    *)
(* every window to come: forgetting them loses nothing (ratelimit.go:39).  *)
HitsAreTheLastOnes ==
    \E m \in 0..Len(admitted) :
        /\ Len(hits) = Len(admitted) - m
        /\ \A k \in 1..Len(hits) : hits[k] = admitted[m + k]
        /\ \A i \in 1..m : admitted[i] + Window <= clock

InWindow == {k \in DOMAIN admitted : admitted[k] + Window > clock}

LimiterInv ==
    /\ LimiterTypeOK
    /\ AdmissionsInOrder
    /\ AdmissionsSpread
    /\ HitsAreTheLastOnes
    /\ answer = "refused" => Cardinality(InWindow) = Limit

(* A set of indices that holds all below each of its own is a prefix.      *)
LEMMA PrefixIsInterval ==
  ASSUME NEW n \in Nat, NEW S \in SUBSET (1..n),
         \A i \in S : \A j \in 1..i : j \in S
  PROVE  \E m \in 0..n : S = 1..m
<1> DEFINE out == (1..(n + 1)) \ S
<1>1. out \in SUBSET Nat /\ n + 1 \in out
  OBVIOUS
<1>2. \E f \in out : \A k \in out : <<k, f>> \notin OpToRel(<, Nat)
  <2> HIDE DEF out
  <2>1. out # {} /\ out \in SUBSET Nat
    BY <1>1
  <2> QED
    BY <2>1, NatLessThanWellFounded, WFMin
<1>3. PICK f \in out : \A k \in out : ~(k < f)
  <2> HIDE DEF out
  <2> QED
    BY <1>1, <1>2 DEF OpToRel
<1>4. f \in 1..(n + 1) /\ f \notin S /\ \A k \in 1..(f - 1) : k \in S
  BY <1>3
<1> HIDE DEF out
<1>5. \A k \in S : k \in 1..n /\ k < f
  <2> SUFFICES ASSUME NEW k \in S, ~(k < f) PROVE FALSE
    OBVIOUS
  <2>1. f \in 1..k
    BY <1>4
  <2> QED
    BY <1>4, <2>1
<1>6. S = 1..(f - 1)
  <2>1. \A k \in 1..n : k < f <=> k \in 1..(f - 1)
    BY <1>4
  <2>2. \A k \in 1..(f - 1) : k \in 1..n
    BY <1>4
  <2> QED
    BY <1>4, <1>5, <2>1, <2>2
<1>7. f - 1 \in 0..n
  BY <1>4
<1> QED
  BY <1>6, <1>7

(* What is kept when the first d hits are dropped.                         *)
LEMMA HitsAtTail ==
  ASSUME NEW S, hits \in Seq(S), NEW d \in 0..Len(hits)
  PROVE  LET kept == HitsAt((d + 1)..Len(hits)) IN
         /\ kept \in Seq(S) /\ Len(kept) = Len(hits) - d
         /\ \A k \in 1..(Len(hits) - d) : kept[k] = hits[d + k]
<1> DEFINE h == Len(hits)
           I == (d + 1)..h
<1>1. h \in Nat /\ DOMAIN hits = 1..h /\ d \in Nat /\ d <= h /\ h - d \in Nat
  OBVIOUS
<1>2. \A k \in 1..h : hits[k] \in S
  OBVIOUS
<1> HIDE DEF h
<1>3. Cardinality(I) = h - d
  <2>1. d + 1 \in Int /\ h \in Int /\ h - (d + 1) + 1 = h - d /\ (d + 1 > h => h - d = 0)
    BY <1>1
  <2> QED
    BY <2>1, FS_Interval
<1>4. ASSUME NEW i \in I PROVE Cardinality({j \in I : j <= i}) = i - d
  <2>1. {j \in I : j <= i} = (d + 1)..i
    BY <1>1
  <2>2. Cardinality((d + 1)..i) = i - d
    BY <1>1, FS_Interval
  <2> QED
    BY <2>1, <2>2
<1>5. ASSUME NEW k \in 1..(h - d)
      PROVE  (CHOOSE i \in I : Cardinality({j \in I : j <= i}) = k) = d + k
  <2>1. d + k \in I /\ (d + k) - d = k
    BY <1>1
  <2>2. \A i \in I : Cardinality({j \in I : j <= i}) = k <=> i = d + k
    BY <1>1, <1>4
  <2> HIDE DEF I
  <2> QED
    BY <2>1, <2>2
<1>6. HitsAt(I) = [k \in 1..(h - d) |-> hits[d + k]]
  <2>1. \A k \in 1..(h - d) :
           hits[CHOOSE i \in I : Cardinality({j \in I : j <= i}) = k] = hits[d + k]
    BY <1>5
  <2> HIDE DEF I
  <2> QED
    BY <1>3, <2>1 DEF HitsAt
<1>7. \A k \in 1..(h - d) : hits[d + k] \in S
  BY <1>1, <1>2
<1> HIDE DEF I
<1>8. HitsAt(I) \in Seq(S) /\ Len(HitsAt(I)) = h - d
  BY <1>1, <1>6, <1>7
<1> QED
  BY <1>6, <1>8 DEF I, h

(* What Allow keeps are the admissions of the window that ends now.        *)
LEMMA KeptIsTheWindow ==
  ASSUME LimiterInv
  PROVE  \E m \in 0..Len(admitted) :
            /\ Kept \in Seq(0..LastTick) /\ Len(Kept) = Len(admitted) - m
            /\ \A k \in 1..Len(Kept) : Kept[k] = admitted[m + k]
            /\ \A i \in 1..m : admitted[i] + Window <= clock
            /\ InWindow = (m + 1)..Len(admitted)
<1> DEFINE n == Len(admitted)
           stale == {i \in 1..n : admitted[i] + Window <= clock}
<1>1. /\ n \in Nat /\ DOMAIN admitted = 1..n /\ hits \in Seq(0..LastTick)
      /\ clock \in Nat /\ Window \in Nat
      /\ \A i \in 1..n : admitted[i] \in Nat
  BY LimiterAssumption DEF LimiterInv, LimiterTypeOK
<1> HIDE DEF n
<1>2. \A i, j \in 1..n : i <= j => admitted[i] <= admitted[j]
  BY <1>1 DEF LimiterInv, AdmissionsInOrder
<1>3. PICK m \in 0..n : stale = 1..m
  <2>1. ASSUME NEW i \in stale, NEW j \in 1..i PROVE j \in stale
    <3>1. i \in 1..n /\ j \in 1..n /\ j <= i
      BY <1>1
    <3> QED
      BY <1>1, <1>2, <3>1
  <2> QED
    BY <1>1, <2>1, PrefixIsInterval
<1>4. \A i \in 1..n : admitted[i] + Window <= clock <=> i <= m
  BY <1>1, <1>3
<1>5. PICK o \in 0..n : /\ Len(hits) = n - o
                        /\ \A k \in 1..Len(hits) : hits[k] = admitted[o + k]
                        /\ \A i \in 1..o : admitted[i] + Window <= clock
  BY DEF LimiterInv, HitsAreTheLastOnes, n
<1>6. o <= m
  <2>1. CASE o = 0
    BY <2>1
  <2>2. CASE o # 0
    <3>1. o \in 1..o /\ o \in 1..n
      BY <1>1, <2>2
    <3> QED
      BY <1>4, <1>5, <3>1
  <2> QED
    BY <2>1, <2>2
<1>7. PICK d \in 0..Len(hits) : m = o + d
  BY <1>1, <1>5, <1>6
<1>8. {i \in DOMAIN hits : hits[i] + Window > clock} = (d + 1)..Len(hits)
  <2>1. DOMAIN hits = 1..Len(hits) /\ Len(hits) \in Nat
    BY <1>1
  <2>2. ASSUME NEW i \in 1..Len(hits) PROVE hits[i] + Window > clock <=> d < i
    <3>1. o + i \in 1..n /\ hits[i] = admitted[o + i]
      BY <1>1, <1>5, <2>1
    <3>2. ~(admitted[o + i] + Window <= clock) <=> ~(o + i <= m)
      BY <1>4, <3>1
    <3> QED
      BY <1>1, <1>7, <2>1, <3>1, <3>2
  <2> QED
    BY <2>1, <2>2
<1>9. /\ Kept \in Seq(0..LastTick) /\ Len(Kept) = n - m
      /\ \A k \in 1..(n - m) : Kept[k] = admitted[m + k]
  <2>1. Kept = HitsAt((d + 1)..Len(hits))
    BY <1>8 DEF Kept
  <2>2. /\ Kept \in Seq(0..LastTick) /\ Len(Kept) = Len(hits) - d
        /\ \A k \in 1..(Len(hits) - d) : Kept[k] = hits[d + k]
    BY <1>1, <2>1, HitsAtTail
  <2>3. Len(hits) - d = n - m
    BY <1>1, <1>5, <1>7
  <2>4. \A k \in 1..(n - m) : d + k \in 1..Len(hits) /\ o + (d + k) = m + k
    BY <1>1, <1>5, <1>7
  <2> QED
    BY <1>5, <2>2, <2>3, <2>4
<1>10. InWindow = (m + 1)..n
  <2>1. InWindow = {i \in 1..n : ~(admitted[i] + Window <= clock)}
    BY <1>1 DEF InWindow
  <2>2. InWindow = {i \in 1..n : ~(i <= m)}
    BY <1>4, <2>1
  <2> QED
    BY <1>1, <2>2
<1>11. \A i \in 1..m : admitted[i] + Window <= clock
  BY <1>3
<1> QED
  BY <1>9, <1>10, <1>11 DEF n

(* The limiter starts with no hit.                                         *)
LEMMA LimiterStarts == LimiterInit => LimiterInv
<1> SUFFICES ASSUME LimiterInit PROVE LimiterInv
  OBVIOUS
<1>1. DOMAIN admitted = {} /\ Len(admitted) = 0 /\ Len(hits) = 0
  BY DEF LimiterInit
<1>2. LimiterTypeOK
  BY LimiterAssumption DEF LimiterInit, LimiterTypeOK
<1>3. AdmissionsInOrder /\ AdmissionsSpread
  BY <1>1 DEF AdmissionsInOrder, AdmissionsSpread
<1>4. HitsAreTheLastOnes
  <2>1. 0 \in 0..0 /\ 0 = 0 - 0 /\ 1..0 = {}
    OBVIOUS
  <2> QED
    BY <1>1, <2>1 DEF HitsAreTheLastOnes
<1> QED
  BY <1>2, <1>3, <1>4 DEF LimiterInv, LimiterInit

(* A tick of the clock moves the window on.                                *)
LEMMA TickKeeps == LimiterInv /\ TickClock => LimiterInv'
<1> SUFFICES ASSUME LimiterInv, TickClock PROVE LimiterInv'
  OBVIOUS
<1>1. /\ clock \in Nat /\ clock' = clock + 1 /\ clock' \in 0..LastTick /\ answer' = "none"
      /\ hits' = hits /\ admitted' = admitted /\ Window \in Nat
      /\ \A i \in DOMAIN admitted : admitted[i] \in Nat
  BY LimiterAssumption DEF LimiterInv, LimiterTypeOK, TickClock
<1>2. LimiterTypeOK'
  BY <1>1 DEF LimiterInv, LimiterTypeOK
<1>3. AdmissionsInOrder'
  BY <1>1 DEF LimiterInv, AdmissionsInOrder
<1>4. AdmissionsSpread'
  BY <1>1 DEF LimiterInv, AdmissionsSpread
<1>5. HitsAreTheLastOnes'
  <2>1. PICK m \in 0..Len(admitted) : /\ Len(hits) = Len(admitted) - m
                                      /\ \A k \in 1..Len(hits) : hits[k] = admitted[m + k]
                                      /\ \A i \in 1..m : admitted[i] + Window <= clock
    BY DEF LimiterInv, HitsAreTheLastOnes
  <2>2. \A i \in 1..m : i \in DOMAIN admitted
    BY DEF LimiterInv, LimiterTypeOK
  <2>3. \A i \in 1..m : admitted[i] + Window <= clock + 1
    BY <1>1, <2>1, <2>2
  <2> QED
    BY <1>1, <2>1, <2>3 DEF HitsAreTheLastOnes
<1> QED
  BY <1>1, <1>2, <1>3, <1>4, <1>5 DEF LimiterInv

(* A request that is refused finds the window full and leaves no hit; one  *)
(* that is let through is a window after the one Limit places before it.   *)
LEMMA AllowKeeps == LimiterInv /\ Allow => LimiterInv'
<1> SUFFICES ASSUME LimiterInv, Allow PROVE LimiterInv'
  OBVIOUS
<1> DEFINE n == Len(admitted)
<1>0. n \in Nat /\ DOMAIN admitted = 1..n /\ \A i \in 1..n : admitted[i] \in 0..LastTick
  <2>1. admitted \in Seq(0..LastTick)
    BY DEF LimiterInv, LimiterTypeOK
  <2> QED
    BY <2>1, LenProperties, ElementOfSeq
<1> HIDE DEF n
<1>1. /\ n \in Nat /\ DOMAIN admitted = 1..n /\ admitted \in Seq(0..LastTick)
      /\ clock \in 0..LastTick /\ clock \in Nat /\ clock' = clock
      /\ Window \in Nat \ {0} /\ Limit \in Nat \ {0} /\ LastTick \in Nat
      /\ \A i \in 1..n : admitted[i] \in Nat /\ admitted[i] <= clock
      /\ \A i, j \in 1..n : i <= j => admitted[i] <= admitted[j]
      /\ \A i \in 1..n : i + Limit \in 1..n => admitted[i] + Window <= admitted[i + Limit]
  <2>1. /\ \A i \in 1..n : admitted[i] <= clock
        /\ \A i, j \in 1..n : i <= j => admitted[i] <= admitted[j]
    BY <1>0 DEF LimiterInv, AdmissionsInOrder
  <2>2. \A i \in 1..n : i + Limit \in 1..n => admitted[i] + Window <= admitted[i + Limit]
    BY <1>0 DEF LimiterInv, AdmissionsSpread
  <2>3. LastTick \in Nat /\ \A t \in 0..LastTick : t \in Nat
    BY LimiterAssumption
  <2>4. admitted \in Seq(0..LastTick) /\ clock \in 0..LastTick /\ clock' = clock
    BY DEF LimiterInv, LimiterTypeOK, Allow
  <2> QED
    BY <1>0, <2>1, <2>2, <2>3, <2>4, LimiterAssumption
<1>2. PICK m \in 0..n :
        /\ Kept \in Seq(0..LastTick) /\ Len(Kept) = n - m
        /\ \A k \in 1..Len(Kept) : Kept[k] = admitted[m + k]
        /\ \A i \in 1..m : admitted[i] + Window <= clock
        /\ InWindow = (m + 1)..n
  BY KeptIsTheWindow DEF n
<1>3. CASE Full(Kept)
  <2>1. hits' = Kept /\ answer' = "refused" /\ admitted' = admitted
    BY <1>3 DEF Allow
  <2>2. n - m >= Limit
    BY <1>2, <1>3 DEF Full
  <2>3. n - m <= Limit
    <3> SUFFICES ASSUME n - m > Limit PROVE FALSE
      BY <1>1
    <3>1. m + 1 \in 1..n /\ (m + 1) + Limit \in 1..n
      BY <1>1
    <3>2. admitted[m + 1] + Window <= clock
      BY <1>1, <3>1
    <3>3. m + 1 \in InWindow
      BY <1>1, <1>2, <3>1
    <3> QED
      BY <1>1, <3>1, <3>2, <3>3 DEF InWindow
  <2>4. Cardinality(InWindow) = Limit
    <3>1. m + 1 \in Int /\ n \in Int /\ ~(m + 1 > n) /\ n - (m + 1) + 1 = Limit
      BY <1>1, <2>2, <2>3
    <3> QED
      BY <1>2, <3>1, FS_Interval
  <2>5. InWindow' = InWindow
    BY <1>1, <2>1 DEF InWindow
  <2>6. HitsAreTheLastOnes'
    <3>1. Len(admitted') = n
      BY <2>1 DEF n
    <3> QED
      BY <1>1, <1>2, <2>1, <3>1 DEF HitsAreTheLastOnes
  <2>7. LimiterTypeOK' /\ AdmissionsInOrder' /\ AdmissionsSpread'
    BY <1>1, <1>2, <2>1 DEF LimiterInv, LimiterTypeOK, AdmissionsInOrder, AdmissionsSpread
  <2> QED
    BY <2>4, <2>5, <2>6, <2>7 DEF LimiterInv
<1>4. CASE ~Full(Kept)
  <2>1. hits' = Append(Kept, clock) /\ answer' = "allowed" /\ admitted' = Append(admitted, clock)
    BY <1>4 DEF Allow
  <2>2. /\ admitted' \in Seq(0..LastTick) /\ DOMAIN admitted' = 1..(n + 1) /\ Len(admitted') = n + 1
        /\ admitted'[n + 1] = clock /\ \A i \in 1..n : admitted'[i] = admitted[i]
    BY <1>1, <2>1 DEF n
  <2>3. /\ hits' \in Seq(0..LastTick) /\ Len(hits') = (n - m) + 1
        /\ hits'[(n - m) + 1] = clock /\ \A k \in 1..(n - m) : hits'[k] = admitted[m + k]
    BY <1>1, <1>2, <2>1
  <2>4. n - m < Limit
    BY <1>1, <1>2, <1>4 DEF Full
  <2>5. LimiterTypeOK'
    BY <1>1, <2>1, <2>2, <2>3 DEF LimiterTypeOK
  <2>6. AdmissionsInOrder'
    <3>1. \A i \in 1..(n + 1) : i = n + 1 \/ i \in 1..n
      BY <1>1
    <3>2. \A i \in 1..(n + 1) : admitted'[i] \in Nat /\ admitted'[i] <= clock
      BY <1>1, <2>2, <3>1
    <3>3. ASSUME NEW i \in 1..(n + 1), NEW j \in 1..(n + 1), i <= j
          PROVE  admitted'[i] <= admitted'[j]
      <4>1. CASE j = n + 1
        BY <2>2, <3>2, <4>1
      <4>2. CASE j \in 1..n
        <5>1. i \in 1..n
          BY <1>1, <3>3, <4>2
        <5> QED
          BY <1>1, <2>2, <3>3, <4>2, <5>1
      <4> QED
        BY <3>1, <4>1, <4>2
    <3> QED
      BY <1>1, <2>2, <3>2, <3>3 DEF AdmissionsInOrder
  <2>7. AdmissionsSpread'
    <3>1. ASSUME NEW i \in 1..(n + 1), i + Limit \in 1..(n + 1)
          PROVE  admitted'[i] + Window <= admitted'[i + Limit]
      <4>1. i \in 1..n
        BY <1>1, <3>1
      <4>2. CASE i + Limit = n + 1
        <5>1. i \in 1..m
          BY <1>1, <2>4, <4>1, <4>2
        <5> QED
          BY <1>2, <2>2, <4>1, <4>2, <5>1
      <4>3. CASE i + Limit \in 1..n
        BY <1>1, <2>2, <4>1, <4>3
      <4> QED
        BY <1>1, <3>1, <4>2, <4>3
    <3> QED
      BY <2>2, <3>1 DEF AdmissionsSpread
  <2>8. HitsAreTheLastOnes'
    <3>1. m \in 0..(n + 1) /\ Len(hits') = (n + 1) - m
      BY <1>1, <2>3
    <3>2. ASSUME NEW k \in 1..Len(hits') PROVE hits'[k] = admitted'[m + k]
      <4>1. CASE k = (n - m) + 1
        <5>1. m + k = n + 1
          BY <1>1, <4>1
        <5> QED
          BY <2>2, <2>3, <4>1, <5>1
      <4>2. CASE k \in 1..(n - m)
        <5>1. m + k \in 1..n
          BY <1>1, <4>2
        <5> QED
          BY <2>2, <2>3, <4>2, <5>1
      <4> QED
        BY <1>1, <3>1, <4>1, <4>2
    <3>3. \A i \in 1..m : admitted'[i] + Window <= clock'
      <4>1. \A i \in 1..m : i \in 1..n
        BY <1>1
      <4> QED
        BY <1>1, <1>2, <2>2, <4>1
    <3> QED
      BY <2>2, <3>1, <3>2, <3>3 DEF HitsAreTheLastOnes
  <2> QED
    BY <2>1, <2>5, <2>6, <2>7, <2>8 DEF LimiterInv
<1> QED
  BY <1>3, <1>4

(* No window holds more admissions than Limit, because the one Limit       *)
(* places after the first of a window is a window later.                   *)
LEMMA WindowsAreBounded ==
  ASSUME LimiterInv, NEW from \in 0..LastTick
  PROVE  Cardinality({k \in DOMAIN admitted :
                        from <= admitted[k] /\ admitted[k] < from + Window}) <= Limit
<1> DEFINE n == Len(admitted)
           in == {k \in DOMAIN admitted : from <= admitted[k] /\ admitted[k] < from + Window}
           before == {k \in 1..n : admitted[k] < from}
<1>0. n \in Nat /\ DOMAIN admitted = 1..n /\ \A i \in 1..n : admitted[i] \in 0..LastTick
  <2>1. admitted \in Seq(0..LastTick)
    BY DEF LimiterInv, LimiterTypeOK
  <2> QED
    BY <2>1, LenProperties, ElementOfSeq
<1> HIDE DEF n
<1>1. /\ n \in Nat /\ DOMAIN admitted = 1..n
      /\ Window \in Nat /\ Limit \in Nat \ {0} /\ from \in Nat
      /\ \A i \in 1..n : admitted[i] \in Nat
      /\ \A i, j \in 1..n : i <= j => admitted[i] <= admitted[j]
      /\ \A i \in 1..n : i + Limit \in 1..n => admitted[i] + Window <= admitted[i + Limit]
  <2>1. /\ \A i \in 1..n : admitted[i] <= clock
        /\ \A i, j \in 1..n : i <= j => admitted[i] <= admitted[j]
    BY <1>0 DEF LimiterInv, AdmissionsInOrder
  <2>2. \A i \in 1..n : i + Limit \in 1..n => admitted[i] + Window <= admitted[i + Limit]
    BY <1>0 DEF LimiterInv, AdmissionsSpread
  <2>3. LastTick \in Nat /\ \A t \in 0..LastTick : t \in Nat
    BY LimiterAssumption
  <2> QED
    BY <1>0, <2>1, <2>2, <2>3, LimiterAssumption
<1>2. PICK m \in 0..n : before = 1..m
  <2>1. ASSUME NEW i \in before, NEW j \in 1..i PROVE j \in before
    <3>1. i \in 1..n /\ j \in 1..n /\ j <= i
      BY <1>1
    <3> QED
      BY <1>1, <3>1
  <2> QED
    BY <1>1, <2>1, PrefixIsInterval
<1>3. \A i \in 1..n : admitted[i] < from <=> i <= m
  BY <1>1, <1>2
<1>4. ASSUME NEW k \in in PROVE k \in (m + 1)..(m + Limit)
  <2>1. k \in 1..n /\ from <= admitted[k] /\ admitted[k] < from + Window
    BY <1>1
  <2>2. m < k
    BY <1>1, <1>3, <2>1
  <2>3. k <= m + Limit
    <3> SUFFICES ASSUME m + Limit < k PROVE FALSE
      BY <1>1, <2>1
    <3>1. m + 1 \in 1..n /\ (m + 1) + Limit \in 1..n /\ (m + 1) + Limit <= k
      BY <1>1, <2>1
    <3>2. admitted[m + 1] + Window <= admitted[k]
      BY <1>1, <2>1, <3>1
    <3>3. ~(admitted[m + 1] < from)
      BY <1>1, <1>3, <3>1
    <3> QED
      BY <1>1, <2>1, <3>1, <3>2, <3>3
  <2> QED
    BY <1>1, <2>1, <2>2, <2>3
<1>5. IsFiniteSet((m + 1)..(m + Limit)) /\ Cardinality((m + 1)..(m + Limit)) = Limit
  <2>1. m + 1 \in Int /\ m + Limit \in Int /\ ~(m + 1 > m + Limit) /\ (m + Limit) - (m + 1) + 1 = Limit
    BY <1>1
  <2> QED
    BY <2>1, FS_Interval
<1>6. in \in SUBSET ((m + 1)..(m + Limit))
  BY <1>4
<1> HIDE DEF in
<1>7. Cardinality(in) <= Limit
  BY <1>5, <1>6, FS_Subset
<1> QED
  BY <1>7 DEF in

(* Every step of the clock and of a request keeps it.                      *)
LEMMA LimiterKeeps == LimiterInv /\ [LimiterNext]_limiterVars => LimiterInv'
<1>1. LimiterInv /\ UNCHANGED limiterVars => LimiterInv'
  BY DEF LimiterInv, limiterVars, LimiterTypeOK, AdmissionsInOrder, AdmissionsSpread,
     HitsAreTheLastOnes, InWindow
<1> QED
  BY <1>1, TickKeeps, AllowKeeps DEF LimiterNext

(* For every limit, window and time: no window holds more requests than    *)
(* the limit, wherever it starts, and a request is refused only when the   *)
(* window that ends with it is full (ratelimit.go:13, 30-54).              *)
THEOREM RateStaysExact == LimiterSpec => []RateIsExact
<1>1. LimiterInv => RateIsExact
  <2> SUFFICES ASSUME LimiterInv PROVE RateIsExact
    OBVIOUS
  <2>1. answer = "refused" => Cardinality(InWindow) = Limit
    BY DEF LimiterInv
  <2> QED
    BY <2>1, WindowsAreBounded DEF RateIsExact, InWindow
<1> QED
  BY LimiterStarts, LimiterKeeps, <1>1, PTL DEF LimiterSpec
=============================================================================
