------------------------------ MODULE Accounts ------------------------------
(***************************************************************************)
(* User rows in PostgreSQL and login sessions in Redis.  A session is a    *)
(* key of its own plus a member of its user's set; the token a browser     *)
(* holds is honoured while the key exists, and "revoke everything" reads   *)
(* the set and deletes what it names.  Every request is a goroutine that   *)
(* reads first and writes later, so requests of one user interleave.       *)
(* A user's e-mail address and name are abstracted: the address picks the  *)
(* row, and a request that is refused for them changes nothing.            *)
(***************************************************************************)
EXTENDS Naturals, FiniteSets

CONSTANTS Users,      \* rows that may come to exist
          Passwords,
          Logins,     \* session ids (uuid: each is used once)
          AcctRequests    \* requests being served at the same time

VARIABLES
    account,  \* account[u]: the row [status, password]
    alive,    \* the session keys in Redis
    owner,    \* owner[s]: the user a session was created for, NoUser before
    listed,   \* listed[u]: Redis set user_sessions:<u>
    request,  \* request[r]: what the goroutine is doing
    lastSet,  \* history: the password the last password-setting write asked for
    clobbered,\* history: an update that read the row before that write has
              \* written since
    raced     \* history: sessions created between the read and the delete of
              \* a revocation of the same user

accountVars == <<account, alive, owner, listed, request, lastSet, clobbered, raced>>

NoUser == "no user"
NoPw   == "no password"

ASSUME AccountsAssumption == NoUser \notin Users /\ NoPw \notin Passwords

(* What a request about row u goes on with.                                *)
Working(op, u, row, ids) ==
    [op |-> op, user |-> u, row |-> row, ids |-> ids, stale |-> FALSE]
Idle == Working("idle", NoUser, NoPw, {})

(* The requests under way: "list" and "delete" are the two steps of        *)
(* revoking a user's sessions.                                             *)
AcctWork ==
    [op : {"idle", "login", "logout", "profile", "edit", "create", "password",
           "list", "delete"},
     user : Users \cup {NoUser}, row : Passwords \cup {NoPw},
     ids : SUBSET Logins, stale : BOOLEAN]

AccountsTypeOK ==
    /\ account \in [Users -> [status : {"none", "active", "deleted"},
                              password : Passwords \cup {NoPw}]]
    /\ alive \subseteq Logins /\ raced \subseteq Logins
    /\ owner \in [Logins -> Users \cup {NoUser}]
    /\ listed \in [Users -> SUBSET Logins]
    /\ request \in [AcctRequests -> AcctWork]
    /\ lastSet \in [Users -> Passwords \cup {NoPw}]
    /\ clobbered \in [Users -> BOOLEAN]

AccountsInit ==
    /\ account = [u \in Users |-> [status |-> "none", password |-> NoPw]]
    /\ alive = {} /\ raced = {}
    /\ owner = [s \in Logins |-> NoUser]
    /\ listed = [u \in Users |-> {}]
    /\ request = [r \in AcctRequests |-> Idle]
    /\ lastSet = [u \in Users |-> NoPw]
    /\ clobbered = [u \in Users |-> FALSE]

Active(u) == account[u].status = "active"
acctRows      == <<account, lastSet, clobbered>>
acctStore     == <<alive, owner, listed, raced>>

(* A request that ends, refused, failed or done.                           *)
Finish(r) == request' = [request EXCEPT ![r] = Idle]

(* Its read of row u: what it will write back later.                       *)
Holding(op, u) == Working(op, u, account[u].password, {})

Enter(r, op, u) ==
    /\ request[r] = Idle
    /\ Active(u)
    /\ request' = [request EXCEPT ![r] = Holding(op, u)]
    /\ UNCHANGED <<acctRows, acctStore>>

(* middleware JWT: the token's session must exist when the request arrives.*)
Authenticated(u) == \E s \in alive : owner[s] = u

(* The database or Redis refuses the next call: the error is answered.     *)
RequestFails(r) ==
    /\ request[r] # Idle
    /\ Finish(r)
    /\ UNCHANGED <<acctRows, acctStore>>

-----------------------------------------------------------------------------
(* Sessions.                                                               *)

(* Login: GetByEmail and the comparison with the row that was read ...     *)
LoginReads(r, u, given) ==
    /\ given = account[u].password
    /\ Enter(r, "login", u)

(* Mutant: the session is not added to its user's set.                     *)
CreateUnlisted(r) ==
    /\ request[r].op = "login"
    /\ \E s \in Logins :
          /\ owner[s] = NoUser
          /\ owner' = [owner EXCEPT ![s] = request[r].user]
          /\ alive' = alive \cup {s}
    /\ Finish(r)
    /\ UNCHANGED <<acctRows, listed, raced>>

(* ... then SessionStore.Create, the key and the set in one MULTI.         *)
CreateSession(r) ==
    /\ request[r].op = "login"
    /\ \E s \in Logins :
          LET u == request[r].user IN
          /\ owner[s] = NoUser
          /\ owner' = [owner EXCEPT ![s] = u]
          /\ alive' = alive \cup {s}
          /\ listed' = [listed EXCEPT ![u] = @ \cup {s}]
          /\ raced' = IF \E q \in AcctRequests : request[q].op = "delete" /\ request[q].user = u
                      THEN raced \cup {s} ELSE raced
    /\ Finish(r)
    /\ UNCHANGED acctRows

(* A session's TTL ends; its id stays in the user's set.                   *)
ExpireSession(s) ==
    /\ s \in alive
    /\ alive' = alive \ {s}
    /\ UNCHANGED <<acctRows, owner, listed, request, raced>>

(* Logout of session s: Delete first gets it, to learn whose it is ...     *)
LogoutReads(r, s) ==
    /\ request[r] = Idle
    /\ s \in alive
    /\ request' = [request EXCEPT ![r] = Working("logout", owner[s], NoPw, {s})]
    /\ UNCHANGED <<acctRows, acctStore>>

(* ... and then drops the key and the set's entry together.                *)
DeleteSession(r) ==
    /\ request[r].op = "logout"
    /\ alive' = alive \ request[r].ids
    /\ listed' = [listed EXCEPT ![request[r].user] = @ \ request[r].ids]
    /\ Finish(r)
    /\ UNCHANGED <<acctRows, owner, raced>>

(* An admin's kick goes straight to DeleteAllForUser.                      *)
Kick(r, u) ==
    /\ request[r] = Idle
    /\ request' = [request EXCEPT ![r] = Working("list", u, NoPw, {})]
    /\ UNCHANGED <<acctRows, acctStore>>

(* DeleteAllForUser: SMEMBERS; with no member there is nothing to do ...   *)
ListSessions(r) ==
    LET u == request[r].user IN
    /\ request[r].op = "list"
    /\ IF listed[u] = {} THEN Finish(r)
       ELSE request' = [request EXCEPT ![r] = Working("delete", u, NoPw, listed[u])]
    /\ UNCHANGED <<acctRows, acctStore>>

(* Mutant: the keys are left to expire, only the set goes.                 *)
DeleteSetOnly(r) ==
    /\ request[r].op = "delete"
    /\ listed' = [listed EXCEPT ![request[r].user] = {}]
    /\ Finish(r)
    /\ UNCHANGED <<acctRows, alive, owner, raced>>

(* ... and the keys that were read and the whole set go in one MULTI.      *)
DeleteListed(r) ==
    /\ request[r].op = "delete"
    /\ alive' = alive \ request[r].ids
    /\ listed' = [listed EXCEPT ![request[r].user] = {}]
    /\ Finish(r)
    /\ UNCHANGED <<acctRows, owner, raced>>

-----------------------------------------------------------------------------
(* User rows.                                                              *)

(* The write of a whole row.  asked is NoPw when the request did not set a *)
(* password and writes back the one it read.                               *)
WriteRow(r, u, password, asked) ==
    /\ account' = [account EXCEPT ![u] = [status |-> "active", password |-> password]]
    /\ lastSet' = [lastSet EXCEPT ![u] = IF asked = NoPw THEN @ ELSE asked]
    /\ clobbered' = [clobbered EXCEPT ![u] = asked = NoPw /\ (@ \/ request[r].stale)]

(* Others that hold an older read of u when its password is set.           *)
Outdate(req, r, u) ==
    [q \in AcctRequests |-> IF q # r /\ req[q].user = u THEN [req[q] EXCEPT !.stale = TRUE]
                        ELSE req[q]]

(* Create: the address is looked up, then the row is inserted; a row that  *)
(* exists by then, deleted or not, fails the insert (users.email UNIQUE).  *)
CreateReads(r, u) ==
    /\ request[r] = Idle
    /\ ~Active(u)
    /\ request' = [request EXCEPT ![r] = Working("create", u, NoPw, {})]
    /\ UNCHANGED <<acctRows, acctStore>>

InsertUser(r, password) ==
    LET u == request[r].user IN
    /\ request[r].op = "create"
    /\ IF account[u].status = "none"
       THEN WriteRow(r, u, password, password)
       ELSE UNCHANGED acctRows
    /\ Finish(r)
    /\ UNCHANGED acctStore

(* UpdateProfile of a signed-in user and an admin's Update both read the   *)
(* row first.                                                              *)
ProfileReads(r, u) == Authenticated(u) /\ Enter(r, "profile", u)
EditReads(r, u)    == Enter(r, "edit", u)

(* Mutant: an empty password in the form is saved as it is.                *)
UpdateSavesForm(r, asked) ==
    LET u == request[r].user IN
    /\ request[r].op \in {"profile", "edit"}
    /\ request[r].op = "profile" => asked = NoPw
    /\ Active(u)
    /\ WriteRow(r, u, asked, asked)
    /\ request' = IF asked = NoPw THEN [request EXCEPT ![r] = Idle]
                  ELSE Outdate([request EXCEPT ![r] = Idle], r, u)
    /\ UNCHANGED acctStore

(* Then every column is written, the password that was read included       *)
(* unless an admin sets one.  A row deleted since refuses the write.       *)
UpdateRow(r, asked) ==
    LET u == request[r].user IN
    /\ request[r].op \in {"profile", "edit"}
    /\ request[r].op = "profile" => asked = NoPw
    /\ Active(u)
    /\ WriteRow(r, u, IF asked = NoPw THEN request[r].row ELSE asked, asked)
    /\ request' = IF asked = NoPw THEN [request EXCEPT ![r] = Idle]
                  ELSE Outdate([request EXCEPT ![r] = Idle], r, u)
    /\ UNCHANGED acctStore

(* ChangePassword: the row is read and the current password compared ...   *)
PasswordReads(r, u, given) ==
    /\ Authenticated(u)
    /\ given = account[u].password
    /\ Enter(r, "password", u)

(* ... the row is written, and only then are the sessions revoked.         *)
ChangePassword(r, asked) ==
    LET u == request[r].user IN
    /\ request[r].op = "password"
    /\ Active(u)
    /\ WriteRow(r, u, asked, asked)
    /\ request' = Outdate([request EXCEPT ![r] = Working("list", u, NoPw, {})], r, u)
    /\ UNCHANGED acctStore

(* Delete marks the row; sessions are left alone.                          *)
DeleteUser(u) ==
    /\ Active(u)
    /\ account' = [account EXCEPT ![u].status = "deleted"]
    /\ UNCHANGED <<lastSet, clobbered, acctStore, request>>

RequestStep(r) ==
    \/ RequestFails(r) \/ CreateSession(r) \/ DeleteSession(r)
    \/ ListSessions(r) \/ DeleteListed(r)
    \/ \E s \in Logins : LogoutReads(r, s)
    \/ \E u \in Users : Kick(r, u) \/ CreateReads(r, u) \/ ProfileReads(r, u) \/ EditReads(r, u)
    \/ \E u \in Users, p \in Passwords : LoginReads(r, u, p) \/ PasswordReads(r, u, p)
    \/ \E p \in Passwords : InsertUser(r, p) \/ ChangePassword(r, p)
    \/ \E p \in Passwords \cup {NoPw} : UpdateRow(r, p)

AccountsNext ==
    \/ \E r \in AcctRequests : RequestStep(r)
    \/ \E s \in Logins : ExpireSession(s)
    \/ \E u \in Users : DeleteUser(u)

AccountsSpec == AccountsInit /\ [][AccountsNext]_accountVars

-----------------------------------------------------------------------------
(* A session that can be used is in its user's set, so that the next       *)
(* revocation reaches it, unless it was created while a revocation stood   *)
(* between its read and its delete: such a session outlives every later    *)
(* password change and kick (session_store.go:80).                         *)
UsableSessionsAreListed ==
    \A s \in alive : s \in listed[owner[s]] \/ s \in raced

(* The step that ends a revocation leaves alive, of the user's sessions,   *)
(* only ones that raced with one: "kills every session for a user"         *)
(* (auth/service.go:106) up to that race.                                  *)
KickLeavesOnlyRacers ==
    [][\A r \in AcctRequests :
          /\ request[r].op = "delete" /\ request'[r] = Idle
          /\ listed'[request[r].user] # listed[request[r].user]
          => \A s \in alive' : owner[s] = request[r].user => s \in raced]_accountVars

(* The password of a row is the one last set, by its user or an admin,     *)
(* unless an update that had read the row before has written since         *)
(* (account/service.go:20-34, user/service.go:75-112 write every column).  *)
PasswordIsTheLastOneSet ==
    \A u \in Users : account[u].password = lastSet[u] \/ clobbered[u]
=============================================================================
