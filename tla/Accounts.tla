------------------------------ MODULE Accounts ------------------------------
(***************************************************************************)
(* Administrator accounts of the central server: passwords, roles, server  *)
(* assignments (server/accounts.go, server/permissions.go), login sessions *)
(* (server/api.go) and the optional second factor with its ceremonies      *)
(* (server/passkeys.go).                                                   *)
(*                                                                         *)
(* A request is authenticated first and its transaction runs later, with   *)
(* other transactions in between: what the transaction does not check      *)
(* again may be stale.  Ceremonies are the exception: their transactions   *)
(* check session and account themselves, so they are one step here.        *)
(*                                                                         *)
(* A stored password is one of Hash, a new one each time because of its    *)
(* salt.  Deadlines are steps that may happen at any time.  The limit of   *)
(* password failures per client address is left out.                       *)
(***************************************************************************)
EXTENDS Naturals, Sequences, FiniteSets, SequencesExt

CONSTANTS
    User,           \* account names
    Root,           \* the account the first start creates
    Server,         \* servers that may be registered
    Key,            \* passkeys
    Cap,            \* ceremonies kept per account (10 in the code)
    Limit,          \* failures per account until it has to wait (10 in the code)
    \* Bounds on what is unbounded in the program.
    Hash,           \* password hashes in use at a time
    Token,          \* login sessions in use at a time
    MaxRequests,    \* requests between authentication and transaction
    MaxVersion,     \* credential changes of all accounts together
    Failing         \* accounts whose owners may fail to authenticate

ASSUME AccountsAssumption ==
    /\ Root \in User
    /\ Failing \subseteq User
    /\ IsFiniteSet(User) /\ IsFiniteSet(Key)
    /\ Hash \subseteq Nat \ {0} /\ Hash # {} /\ Token \subseteq Nat \ {0}
    /\ Cap \in Nat \ {0} /\ Limit \in Nat
    /\ MaxRequests \in Nat /\ MaxVersion \in Nat

VARIABLES
    pwd,            \* admins.password_hash, 0 for no account
    role,           \* admin_roles, "admin" when it has no row
    assigned,       \* admin_servers
    servers,        \* registered servers
    sessions,       \* auth_sessions; hash and mfa are ghosts: how it began
    keys,           \* passkeys
    version,        \* account_auth.version + 1, 0 for no row
    pending,        \* auth_pending of each account, oldest first
    fails,          \* auth_limits
    requests        \* authenticated, not yet in their transaction

vars == <<pwd, role, assigned, servers, sessions, keys, version, pending, fails,
          requests>>

-----------------------------------------------------------------------------
(* Types *)

None    == 0
Role    == {"super_admin", "admin"}
Session == [token : Token, user : User, hash : Hash, mfa : BOOLEAN]
Pending == [purpose : {"login", "register", "add", "delete", "disable"},
            target : Key \cup {None}, token : Token \cup {None},
            version : Nat, hash : Hash]
Request == [kind : {"delete", "create"}, token : Token, user : User, target : User]
             \cup [kind : {"access"}, token : Token, user : User, target : User,
                   role : Role, servers : SUBSET Server]
             \cup [kind : {"server"}, token : Token, user : User, role : Role,
                   server : Server]
             \cup [kind : {"password"}, token : Token, user : User, hash : Hash]
             \cup [kind : {"login"}, user : User, hash : Hash]

TypeOK ==
    /\ pwd \in [User -> Hash \cup {None}]
    /\ role \in [User -> Role]
    /\ assigned \in [User -> SUBSET Server]
    /\ servers \subseteq Server
    /\ sessions \subseteq Session
    /\ keys \in [User -> SUBSET Key]
    /\ version \in [User -> Nat]
    /\ pending \in [User -> Seq(Pending)]
    /\ fails \in [User -> [{"login", "manage"} -> Nat]]
    /\ requests \subseteq Request

Exists(u) == pwd[u] # None
Super(u)  == role[u] = "super_admin"
Live(t)   == \E s \in sessions : s.token = t
Owner(t)  == (CHOOSE s \in sessions : s.token = t).user

\* model.ID and bcrypt's salt: a value nothing refers to.
Fresh(S) == CHOOSE x \in S : TRUE
UsedHashes ==
    {pwd[u] : u \in User} \cup {s.hash : s \in sessions}
      \cup {r.hash : r \in {q \in requests : q.kind \in {"login", "password"}}}
      \cup UNION {{pending[u][i].hash : i \in DOMAIN pending[u]} : u \in User}
UsedTokens ==
    {s.token : s \in sessions}
      \cup {r.token : r \in {q \in requests : q.kind # "login"}}
      \cup UNION {{pending[u][i].token : i \in DOMAIN pending[u]} : u \in User}

Init ==
    /\ pwd = [u \in User |-> IF u = Root THEN Fresh(Hash) ELSE None]
    /\ role = [u \in User |-> IF u = Root THEN "super_admin" ELSE "admin"]
    /\ assigned = [u \in User |-> {}]
    /\ servers = {}
    /\ sessions = {}
    /\ keys = [u \in User |-> {}]
    /\ version = [u \in User |-> 0]
    /\ pending = [u \in User |-> <<>>]
    /\ fails = [u \in User |-> [k \in {"login", "manage"} |-> 0]]
    /\ requests = {}

-----------------------------------------------------------------------------
(* Authentication of a request: the auth, super and first reads of a       *)
(* handler, before its transaction.                                        *)

Accept(r) ==
    /\ Cardinality(requests \cup {r}) <= MaxRequests
    /\ requests' = requests \cup {r}
    /\ UNCHANGED <<pwd, role, assigned, servers, sessions, keys, version, pending,
                   fails>>

Submit ==
    \E s \in sessions :
      \/ \E kind \in {"delete", "create"}, u \in User :
           /\ Super(s.user)
           /\ Accept([kind |-> kind, token |-> s.token, user |-> s.user, target |-> u])
      \/ \E u \in User, x \in Role, S \in SUBSET Server :
           /\ Super(s.user)
           /\ Accept([kind |-> "access", token |-> s.token, user |-> s.user,
                      target |-> u, role |-> x, servers |-> S])
      \/ \E x \in Server :
           Accept([kind |-> "server", token |-> s.token, user |-> s.user,
                   role |-> role[s.user], server |-> x])
      \/ Accept([kind |-> "password", token |-> s.token, user |-> s.user,
                 hash |-> pwd[s.user]])

\* login compares the password with the stored hash outside its transaction.
CheckPassword ==
    \E u \in User :
      /\ Exists(u)
      /\ Accept([kind |-> "login", user |-> u, hash |-> pwd[u]])

\* Refused by its transaction, rolled back, or abandoned by the client.
Refuse(r) ==
    /\ requests' = requests \ {r}
    /\ UNCHANGED <<pwd, role, assigned, servers, sessions, keys, version, pending,
                   fails>>

-----------------------------------------------------------------------------
(* Transactions of account requests *)

\* What DELETE FROM auth_sessions leaves.
Others(u) == {s \in sessions : s.user # u}

\* The rows that refer to the account go with it.
Forget(u) ==
    /\ keys' = [keys EXCEPT ![u] = {}]
    /\ version' = [version EXCEPT ![u] = 0]
    /\ pending' = [pending EXCEPT ![u] = <<>>]

\* Mutant of MayDelete: trusts what was checked before the transaction.
MayDeleteUnchecked(r) == Exists(r.target)

\* deleteAdmin checks session, caller and target again.
MayDelete(r) ==
    /\ Live(r.token) /\ Super(Owner(r.token))
    /\ Exists(r.target) /\ ~Super(r.target)

DeleteAdmin(r) ==
    /\ r.kind = "delete"
    /\ MayDelete(r)
    /\ pwd' = [pwd EXCEPT ![r.target] = None]
    /\ role' = [role EXCEPT ![r.target] = "admin"]
    /\ assigned' = [assigned EXCEPT ![r.target] = {}]
    /\ sessions' = Others(r.target)
    /\ Forget(r.target)
    /\ requests' = requests \ {r}
    /\ UNCHANGED <<servers, fails>>

\* createAdmin checks the session again, not the role.
CreateAdmin(r) ==
    /\ r.kind = "create"
    /\ Live(r.token)
    /\ ~Exists(r.target)
    /\ Hash \ UsedHashes # {}
    /\ pwd' = [pwd EXCEPT ![r.target] = Fresh(Hash \ UsedHashes)]
    /\ requests' = requests \ {r}
    /\ UNCHANGED <<role, assigned, servers, sessions, keys, version, pending, fails>>

\* Mutant of UpdateAdminAccess: does not count the remaining super admins.
UpdateAdminAccessFreely(r) ==
    /\ r.kind = "access"
    /\ Exists(r.target)
    /\ r.servers \subseteq servers
    /\ role' = [role EXCEPT ![r.target] = r.role]
    /\ assigned' = [assigned EXCEPT ![r.target] = r.servers]
    /\ requests' = requests \ {r}
    /\ UNCHANGED <<pwd, servers, sessions, keys, version, pending, fails>>

\* updateAdminAccess keeps another super admin and replaces the assignments.
UpdateAdminAccess(r) ==
    /\ r.kind = "access"
    /\ Exists(r.target)
    /\ r.role # "super_admin" => \E u \in User \ {r.target} : Super(u)
    /\ r.servers \subseteq servers
    /\ role' = [role EXCEPT ![r.target] = r.role]
    /\ assigned' = [assigned EXCEPT ![r.target] = r.servers]
    /\ requests' = requests \ {r}
    /\ UNCHANGED <<pwd, servers, sessions, keys, version, pending, fails>>

\* createServer assigns the server a plain admin registers to all plain admins.
CreateServer(r) ==
    /\ r.kind = "server"
    /\ r.server \notin servers
    /\ servers' = servers \cup {r.server}
    /\ assigned' = [u \in User |->
                      IF r.role # "super_admin" /\ Exists(u) /\ ~Super(u)
                      THEN assigned[u] \cup {r.server} ELSE assigned[u]]
    /\ requests' = requests \ {r}
    /\ UNCHANGED <<pwd, role, sessions, keys, version, pending, fails>>

VersionBound(u) ==
    version[u] = 0 \/ MapThenSumSet(LAMBDA v : version[v], User) < MaxVersion

\* invalidatePending: the version row, if there is one, and every ceremony.
InvalidatePending(u) ==
    /\ VersionBound(u)
    /\ version' = [version EXCEPT ![u] = IF @ = 0 THEN 0 ELSE @ + 1]
    /\ pending' = [pending EXCEPT ![u] = <<>>]

\* Mutant of SamePassword: the account is looked up by its name alone.
AnyPassword(u, h) == Exists(u)

\* The hash that was compared is still the stored one.
SamePassword(u, h) == pwd[u] = h

\* changePassword updates only the hash it compared, in a session still alive.
ChangePassword(r) ==
    /\ r.kind = "password"
    /\ Live(r.token)
    /\ SamePassword(r.user, r.hash)
    /\ Hash \ UsedHashes # {}
    /\ pwd' = [pwd EXCEPT ![r.user] = Fresh(Hash \ UsedHashes)]
    /\ InvalidatePending(r.user)
    /\ sessions' = Others(r.user)
    /\ requests' = requests \ {r}
    /\ UNCHANGED <<role, assigned, servers, keys, fails>>

-----------------------------------------------------------------------------
(* Login sessions and ceremonies *)

CreateLoginSession(u, h, mfa) ==
    /\ Token \ UsedTokens # {}
    /\ sessions' = sessions \cup {[token |-> Fresh(Token \ UsedTokens), user |-> u,
                                   hash |-> h, mfa |-> mfa]}

\* loadPasskeyUser makes sure of the version row.
RowVersion(u) == IF version[u] = 0 THEN 1 ELSE version[u]

\* savePending keeps the newest Cap - 1 ceremonies next to the new one.
SavePending(u, others, purpose, target, token) ==
    LET n == Len(others)
        kept == IF n < Cap THEN others ELSE SubSeq(others, n - Cap + 2, n)
    IN /\ version' = [version EXCEPT ![u] = RowVersion(u)]
       /\ pending' = [pending EXCEPT ![u] =
                        Append(kept, [purpose |-> purpose, target |-> target,
                                      token |-> token, version |-> RowVersion(u),
                                      hash |-> pwd[u]])]

\* login's transaction: the compared hash is still the stored one, and an
\* account with passkeys gets a ceremony instead of a session.
Login(r) ==
    /\ r.kind = "login"
    /\ SamePassword(r.user, r.hash)
    /\ \/ /\ keys[r.user] = {}
          /\ CreateLoginSession(r.user, r.hash, FALSE)
          /\ UNCHANGED <<version, pending>>
       \/ /\ keys[r.user] # {}
          /\ fails[r.user]["login"] < Limit
          /\ SavePending(r.user, pending[r.user], "login", None, None)
          /\ UNCHANGED sessions
    /\ requests' = requests \ {r}
    /\ UNCHANGED <<pwd, role, assigned, servers, keys, fails>>

\* Logout, or the session's twelve hours are over.
EndSession ==
    /\ \E s \in sessions : sessions' = sessions \ {s}
    /\ UNCHANGED <<pwd, role, assigned, servers, keys, version, pending, fails,
                   requests>>

Fail(u, kind) == u \in Failing /\ fails' = [fails EXCEPT ![u][kind] = @ + 1]
Clear(u, kind) == fails' = [fails EXCEPT ![u][kind] = 0]

\* passkeyBegin with the right password.  The first key is registered at once,
\* everything later starts with an authentication.
Begin(s) ==
    LET u == s.user
        Start(purpose, target) == SavePending(u, pending[u], purpose, target, s.token)
    IN /\ fails[u]["manage"] < Limit
       /\ \/ keys[u] = {} /\ Start("register", None)
          \/ keys[u] # {} /\ Start("add", None)
          \/ keys[u] # {} /\ Start("disable", None)
          \/ \E k \in keys[u] : Start("delete", k)
       /\ UNCHANGED <<pwd, role, assigned, servers, sessions, keys, fails, requests>>

BeginFails(s) ==
    /\ fails[s.user]["manage"] < Limit
    /\ Fail(s.user, "manage")
    /\ version' = [version EXCEPT ![s.user] = RowVersion(s.user)]
    /\ UNCHANGED <<pwd, role, assigned, servers, sessions, keys, pending, requests>>

Limits(p) == IF p.purpose = "login" THEN "login" ELSE "manage"

\* Mutant of MayFinish: the limit is checked only when a ceremony begins.
MayFinishUnlimited(u, p) ==
    /\ p.purpose # "login" => \E s \in sessions : s.token = p.token /\ s.user = u
    /\ p.version = version[u]
    /\ SamePassword(u, p.hash)
    /\ p.purpose # "register" => keys[u] # {}

\* What finishCeremony checks before it verifies the credential.
MayFinish(u, p) ==
    /\ p.purpose # "login" => \E s \in sessions : s.token = p.token /\ s.user = u
    /\ p.version = version[u]
    /\ SamePassword(u, p.hash)
    /\ fails[u][Limits(p)] < Limit
    /\ p.purpose # "register" => keys[u] # {}

\* Mutant of RevokeAfterChange: always spares the session of the change.
RevokeAllButOne(u, token, all) ==
    /\ InvalidatePending(u)
    /\ sessions' = {s \in sessions : s.user # u \/ s.token = token}

\* Mutant of RevokeAfterChange: ends no session.
RevokeNone(u, token, all) == InvalidatePending(u) /\ UNCHANGED sessions

\* revokeAfterPasskeyChange
RevokeAfterChange(u, token, all) ==
    /\ InvalidatePending(u)
    /\ sessions' = {s \in sessions : s.user # u \/ (~all /\ s.token = token)}

FinishLogin(u, i) ==
    LET p == pending[u][i]
    IN /\ p.purpose = "login" /\ MayFinish(u, p)
       /\ CreateLoginSession(u, p.hash, TRUE)
       /\ pending' = [pending EXCEPT ![u] = RemoveAt(@, i)]
       /\ Clear(u, "login")
       /\ UNCHANGED <<pwd, role, assigned, servers, keys, version, requests>>

\* The first key ends every session, a further one all but the current.
FinishRegister(u, i) ==
    LET p == pending[u][i]
    IN /\ p.purpose = "register" /\ MayFinish(u, p)
       /\ \E k \in Key : /\ \A v \in User : k \notin keys[v]
                         /\ keys' = [keys EXCEPT ![u] = @ \cup {k}]
       /\ RevokeAfterChange(u, p.token, keys[u] = {})
       /\ Clear(u, "manage")
       /\ UNCHANGED <<pwd, role, assigned, servers, requests>>

\* An authenticated addition turns into a registration of the same session.
FinishAdd(u, i) ==
    LET p == pending[u][i]
    IN /\ p.purpose = "add" /\ MayFinish(u, p)
       /\ SavePending(u, RemoveAt(pending[u], i), "register", p.target, p.token)
       /\ UNCHANGED <<pwd, role, assigned, servers, sessions, keys, fails, requests>>

FinishRemove(u, i) ==
    LET p == pending[u][i]
        left == IF p.purpose = "disable" THEN {} ELSE keys[u] \ {p.target}
    IN /\ p.purpose \in {"delete", "disable"} /\ MayFinish(u, p)
       /\ keys' = [keys EXCEPT ![u] = left]
       /\ RevokeAfterChange(u, p.token, p.purpose = "disable" \/ Cardinality(keys[u]) = 1)
       /\ Clear(u, "manage")
       /\ UNCHANGED <<pwd, role, assigned, servers, requests>>

\* The credential does not verify: the ceremony is used up, the failure counts.
FinishFails(u, i) ==
    LET p == pending[u][i]
    IN /\ MayFinish(u, p)
       /\ pending' = [pending EXCEPT ![u] = RemoveAt(@, i)]
       /\ Fail(u, Limits(p))
       /\ UNCHANGED <<pwd, role, assigned, servers, sessions, keys, version, requests>>

\* Its five minutes are over, its session is gone, its account is limited, or
\* the key is registered already: the ceremony is used up.
DropPending(u, i) ==
    /\ pending' = [pending EXCEPT ![u] = RemoveAt(@, i)]
    /\ UNCHANGED <<pwd, role, assigned, servers, sessions, keys, version, fails,
                   requests>>

\* The operator's -reset-2fa, from a process of its own.
ResetTwoFactor(u) ==
    /\ Exists(u)
    /\ keys' = [keys EXCEPT ![u] = {}]
    /\ fails' = [fails EXCEPT ![u] = [k \in {"login", "manage"} |-> 0]]
    /\ RevokeAfterChange(u, None, TRUE)
    /\ UNCHANGED <<pwd, role, assigned, servers, requests>>

\* Fifteen minutes pass.
ResetLimit(u, kind) ==
    /\ fails[u][kind] > 0
    /\ Clear(u, kind)
    /\ UNCHANGED <<pwd, role, assigned, servers, sessions, keys, version, pending,
                   requests>>

AccountStep ==
    \/ Submit \/ CheckPassword
    \/ \E r \in requests :
         \/ Refuse(r) \/ DeleteAdmin(r) \/ CreateAdmin(r) \/ UpdateAdminAccess(r)
         \/ CreateServer(r) \/ ChangePassword(r) \/ Login(r)
    \/ EndSession

CeremonyStep ==
    \/ \E s \in sessions : Begin(s) \/ BeginFails(s)
    \/ \E u \in User : \E i \in DOMAIN pending[u] :
         \/ FinishLogin(u, i) \/ FinishRegister(u, i) \/ FinishAdd(u, i)
         \/ FinishRemove(u, i) \/ FinishFails(u, i) \/ DropPending(u, i)
    \/ \E u \in User : ResetTwoFactor(u) \/ \E k \in {"login", "manage"} : ResetLimit(u, k)

Next == AccountStep \/ CeremonyStep

Spec == Init /\ [][Next]_vars

-----------------------------------------------------------------------------
(* Properties *)

\* Demotions, deletions and role changes that overlap never leave the console
\* without a super admin.
AtLeastOneSuper == \E u \in User : Exists(u) /\ Super(u)

\* An account with passkeys has only sessions that began with one, whatever
\* logins were under way when the first was registered.
MfaEnforced == \A s \in sessions : keys[s.user] # {} => s.mfa

\* What outlives a change of an account's credentials, or the account.
PasswordIsCurrent == \A s \in sessions : s.hash = pwd[s.user]

PendingIsCurrent ==
    \A u \in User :
      /\ Len(pending[u]) <= Cap
      /\ \A i \in DOMAIN pending[u] :
           pending[u][i].version = version[u] /\ pending[u][i].hash = pwd[u]

NoOrphans ==
    \A u \in User : ~Exists(u) =>
      /\ role[u] = "admin" /\ assigned[u] = {} /\ keys[u] = {} /\ pending[u] = <<>>
      /\ \A s \in sessions : s.user # u

\* No session and no ceremony outlives the password or the keys it began with,
\* whatever logins and requests were under way at the change, and a deleted
\* account leaves no role, assignment, passkey, ceremony or session that a later
\* account of its name would inherit.
CredentialsAreCurrent == PasswordIsCurrent /\ PendingIsCurrent /\ NoOrphans

\* An account disappears only while a super admin's session asks for it and it
\* is a plain admin ("a concurrent role change or logout must not bypass either
\* restriction").
DeletedBySuper ==
    [][\A u \in User : Exists(u) /\ pwd'[u] = None =>
         /\ ~Super(u)
         /\ \E r \in requests : /\ r.kind = "delete" /\ r.target = u
                                /\ Live(r.token) /\ Super(Owner(r.token))]_vars

\* A change of an account's keys leaves it at most the session it was made in.
KeyChangeRevokes ==
    [][\A u \in User : keys'[u] # keys[u] =>
         Cardinality({s \in sessions' : s.user = u}) <= 1]_vars

\* Failures never exceed the limit: the check and the count are one transaction.
FailuresWithinLimit ==
    \A u \in User, k \in {"login", "manage"} : fails[u][k] <= Limit
=============================================================================
