-------------------------- MODULE Accounts_proofs --------------------------
(***************************************************************************)
(* Theorems about Accounts, for every set of accounts, servers, passkeys,  *)
(* hashes and tokens and for every limit.  One inductive invariant carries *)
(* them: it adds to the properties that a token belongs to one session and *)
(* that an account without a version row has no ceremony, so that the row  *)
(* loadPasskeyUser makes cannot outdate one.                               *)
(***************************************************************************)
EXTENDS Accounts, TLAPS, FiniteSetTheorems, SequenceTheorems

\* auth_sessions has one row for a token.
TokensUnique ==
    \A s, t \in sessions : s.token = t.token => s = t

\* savePending makes the version row before it stores a ceremony.
CeremonyHasRow ==
    \A u \in User : version[u] = 0 => pending[u] = <<>>

IInv ==
    /\ TypeOK
    /\ TokensUnique
    /\ CeremonyHasRow
    /\ PasswordIsCurrent
    /\ PendingIsCurrent
    /\ NoOrphans
    /\ AtLeastOneSuper
    /\ MfaEnforced
    /\ FailuresWithinLimit

-----------------------------------------------------------------------------
(* Lemmas about the operators. *)

\* A fresh value is one of the set it is taken from.
LEMMA FreshIn ==
    ASSUME NEW S, S # {}
    PROVE  Fresh(S) \in S
BY DEF Fresh

\* Removing an entry keeps the others, in their order and nothing else.
LEMMA RemoveAtProperties ==
    ASSUME NEW S, NEW q \in Seq(S), NEW i \in DOMAIN q
    PROVE  /\ RemoveAt(q, i) \in Seq(S)
           /\ Len(RemoveAt(q, i)) = Len(q) - 1
           /\ \A j \in DOMAIN RemoveAt(q, i) :
                \E k \in DOMAIN q : RemoveAt(q, i)[j] = q[k]
<1> DEFINE a == SubSeq(q, 1, i - 1)
           b == SubSeq(q, i + 1, Len(q))
<1>1. /\ Len(q) \in Nat /\ DOMAIN q = 1..Len(q) /\ i \in 1..Len(q)
      /\ \A k \in 1..Len(q) : q[k] \in S
  BY LenProperties, ElementOfSeq
<1>2. /\ a \in Seq(S)
      /\ Len(a) = i - 1
      /\ \A j \in 1..(i - 1) : a[j] = q[j]
  BY <1>1, SubSeqProperties, i - 1 \in Int
<1>3. /\ b \in Seq(S)
      /\ Len(b) = Len(q) - i
      /\ \A j \in 1..(Len(q) - i) : b[j] = q[i + j]
  BY <1>1, SubSeqProperties, i + 1 \in Int
<1> HIDE DEF a, b
<1>4. /\ a \o b \in Seq(S)
      /\ Len(a \o b) = Len(q) - 1
      /\ \A j \in 1..(Len(q) - 1) :
           (a \o b)[j] = IF j <= i - 1 THEN a[j] ELSE b[j - (i - 1)]
  <2>1. /\ a \o b \in Seq(S)
        /\ Len(a \o b) = Len(a) + Len(b)
        /\ \A j \in 1..(Len(a) + Len(b)) :
             (a \o b)[j] = IF j <= Len(a) THEN a[j] ELSE b[j - Len(a)]
    BY <1>2, <1>3, ConcatProperties
  <2>2. Len(a) + Len(b) = Len(q) - 1
    BY <1>1, <1>2, <1>3
  <2> QED
    BY <1>2, <2>1, <2>2
<1>5. ASSUME NEW j \in 1..(Len(q) - 1)
      PROVE  \E k \in 1..Len(q) : (a \o b)[j] = q[k]
  <2>1. CASE j <= i - 1
    BY <1>1, <1>2, <1>4, <2>1
  <2>2. CASE ~(j <= i - 1)
    <3>1. j - (i - 1) \in 1..(Len(q) - i) /\ i + (j - (i - 1)) = j + 1
      BY <1>1, <2>2
    <3>2. (a \o b)[j] = q[j + 1]
      BY <1>3, <1>4, <2>2, <3>1
    <3> QED
      BY <1>1, <3>2
  <2> QED
    BY <2>1, <2>2
<1>6. DOMAIN (a \o b) = 1..(Len(q) - 1)
  BY <1>4, LenProperties
<1> QED
  BY <1>1, <1>4, <1>5, <1>6 DEF RemoveAt, a, b

\* The ceremonies of an account with version n and password hash h.
Ceremonies(q, n, h) ==
    /\ q \in Seq(Pending)
    /\ Len(q) <= Cap
    /\ \A i \in DOMAIN q : q[i].version = n /\ q[i].hash = h

\* A ceremony that is used up leaves the others as they were.
LEMMA CeremonyDropped ==
    ASSUME NEW q, NEW n, NEW h, Ceremonies(q, n, h), NEW i \in DOMAIN q
    PROVE  Ceremonies(RemoveAt(q, i), n, h)
<1>1. /\ RemoveAt(q, i) \in Seq(Pending)
      /\ Len(RemoveAt(q, i)) = Len(q) - 1
      /\ \A j \in DOMAIN RemoveAt(q, i) :
           \E k \in DOMAIN q : RemoveAt(q, i)[j] = q[k]
  BY RemoveAtProperties DEF Ceremonies
<1>2. Len(q) \in Nat
  BY LenProperties DEF Ceremonies
<1> QED
  BY <1>1, <1>2, AccountsAssumption DEF Ceremonies

\* savePending keeps at most Cap ceremonies, all of the version row it made.
LEMMA CeremonySaved ==
    ASSUME TypeOK, NEW u \in User, Exists(u),
           NEW others, Ceremonies(others, RowVersion(u), pwd[u]),
           NEW purpose \in {"login", "register", "add", "delete", "disable"},
           NEW target \in Key \cup {None}, NEW token \in Token \cup {None},
           SavePending(u, others, purpose, target, token)
    PROVE  \E q : /\ pending' = [pending EXCEPT ![u] = q]
                  /\ version' = [version EXCEPT ![u] = RowVersion(u)]
                  /\ RowVersion(u) \in Nat \ {0}
                  /\ Ceremonies(q, RowVersion(u), pwd[u])
<1> DEFINE n == Len(others)
           p == [purpose |-> purpose, target |-> target, token |-> token,
                 version |-> RowVersion(u), hash |-> pwd[u]]
           kept == IF n < Cap THEN others ELSE SubSeq(others, n - Cap + 2, n)
<1>1. RowVersion(u) \in Nat \ {0} /\ pwd[u] \in Hash
  BY DEF RowVersion, TypeOK, Exists, None
<1>2. p \in Pending
  BY <1>1 DEF Pending
<1>3. /\ n \in Nat /\ n <= Cap /\ Cap \in Nat \ {0} /\ DOMAIN others = 1..n
      /\ \A i \in 1..n : others[i] \in Pending
  BY LenProperties, ElementOfSeq, AccountsAssumption DEF Ceremonies
<1> HIDE DEF n
<1>4. /\ kept \in Seq(Pending)
      /\ Len(kept) \in Nat /\ Len(kept) < Cap
      /\ \A i \in 1..Len(kept) : \E k \in DOMAIN others : kept[i] = others[k]
  <2>1. CASE n < Cap
    BY <1>3, <2>1 DEF Ceremonies
  <2>2. CASE ~(n < Cap)
    <3>1. n = Cap
      BY <1>3, <2>2
    <3>2. \A i \in 2..n : others[i] \in Pending
      BY <1>3
    <3>3. /\ SubSeq(others, 2, n) \in Seq(Pending)
          /\ Len(SubSeq(others, 2, n)) = IF 2 <= n THEN n - 1 ELSE 0
          /\ \A i \in 1..(n - 1) : SubSeq(others, 2, n)[i] = others[i + 1]
      <4>1. /\ SubSeq(others, 2, n) \in Seq(Pending)
            /\ Len(SubSeq(others, 2, n)) = IF 2 <= n THEN n - 2 + 1 ELSE 0
            /\ \A i \in 1..(n - 2 + 1) : SubSeq(others, 2, n)[i] = others[2 + i - 1]
        BY <1>3, <3>2, SubSeqProperties, 2 \in Int, n \in Int
      <4>2. n - 2 + 1 = n - 1 /\ \A i \in 1..(n - 1) : 2 + i - 1 = i + 1
        BY <1>3
      <4> QED
        BY <4>1, <4>2
    <3>4. kept = SubSeq(others, 2, n)
      BY <1>3, <2>2, <3>1
    <3> HIDE DEF kept
    <3>5. Len(kept) = n - 1
      BY <1>3, <3>1, <3>3, <3>4
    <3> QED
      BY <1>3, <3>1, <3>3, <3>4, <3>5
  <2> QED
    BY <2>1, <2>2
<1>5. pending' = [pending EXCEPT ![u] = Append(kept, p)]
      /\ version' = [version EXCEPT ![u] = RowVersion(u)]
  BY DEF SavePending, n
<1> HIDE DEF p, kept
<1>6. /\ Append(kept, p) \in Seq(Pending)
      /\ Len(Append(kept, p)) = Len(kept) + 1
      /\ \A i \in 1..Len(kept) : Append(kept, p)[i] = kept[i]
      /\ Append(kept, p)[Len(kept) + 1] = p
      /\ DOMAIN Append(kept, p) = 1..(Len(kept) + 1)
  BY <1>2, <1>4, AppendProperties, LenProperties
<1>7. ASSUME NEW i \in 1..(Len(kept) + 1)
      PROVE  /\ Append(kept, p)[i].version = RowVersion(u)
             /\ Append(kept, p)[i].hash = pwd[u]
  <2>1. CASE i = Len(kept) + 1
    BY <1>6, <2>1 DEF p
  <2>2. CASE i # Len(kept) + 1
    BY <1>4, <1>6, <2>2 DEF Ceremonies
  <2> QED
    BY <2>1, <2>2
<1>8. Len(kept) + 1 <= Cap
  BY <1>3, <1>4
<1>9. Ceremonies(Append(kept, p), RowVersion(u), pwd[u])
  BY <1>6, <1>7, <1>8 DEF Ceremonies
<1> QED
  BY <1>1, <1>5, <1>9

-----------------------------------------------------------------------------
(* Types *)

LEMMA InitIInv == Init => IInv
<1> SUFFICES ASSUME Init PROVE IInv
  OBVIOUS
<1>1. Fresh(Hash) \in Hash /\ Fresh(Hash) # None
  BY FreshIn, AccountsAssumption DEF None
<1>2. TypeOK
  <2>1. <<>> \in Seq(Pending)
    BY EmptySeq
  <2> QED
    BY <1>1, <2>1 DEF Init, TypeOK, Role
<1>3. Len(<<>>) = 0 /\ DOMAIN <<>> = {}
  OBVIOUS
<1>4. PendingIsCurrent
  BY <1>3, AccountsAssumption DEF Init, PendingIsCurrent
<1>5. FailuresWithinLimit
  BY AccountsAssumption DEF Init, FailuresWithinLimit
<1>6. AtLeastOneSuper
  BY <1>1, AccountsAssumption DEF Init, AtLeastOneSuper, Exists, Super
<1>7. NoOrphans
  BY <1>1 DEF Init, NoOrphans, Exists
<1> QED
  BY <1>2, <1>4, <1>5, <1>6, <1>7
  DEF Init, IInv, TokensUnique, CeremonyHasRow, PasswordIsCurrent, MfaEnforced

\* A request is typed by its kind.
LEMMA RequestTypes ==
    ASSUME TypeOK, NEW r \in requests
    PROVE  /\ r.kind = "delete" => r.target \in User
           /\ r.kind = "create" => r.target \in User
           /\ r.kind = "access" =>
                r.target \in User /\ r.role \in Role /\ r.servers \in SUBSET Server
           /\ r.kind = "server" => r.role \in Role /\ r.server \in Server
           /\ r.kind = "password" => r.user \in User
           /\ r.kind = "login" => r.user \in User /\ r.hash \in Hash
BY DEF TypeOK, Request

\* A new session has the type of one.
LEMMA SessionTypes ==
    ASSUME TypeOK, NEW u \in User, NEW h \in Hash, NEW m \in BOOLEAN,
           CreateLoginSession(u, h, m)
    PROVE  sessions' \subseteq Session
<1>1. Fresh(Token \ UsedTokens) \in Token
  BY FreshIn DEF CreateLoginSession
<1> QED
  BY <1>1 DEF TypeOK, CreateLoginSession, Session

\* What invalidatePending does to the two columns it writes.
LEMMA InvalidateTypes ==
    ASSUME TypeOK, NEW u \in User, InvalidatePending(u)
    PROVE  /\ version' \in [User -> Nat]
           /\ version' = [version EXCEPT ![u] = version'[u]]
           /\ pending' = [pending EXCEPT ![u] = <<>>]
           /\ pending' \in [User -> Seq(Pending)]
<1>1. <<>> \in Seq(Pending)
  BY EmptySeq
<1> QED
  BY <1>1 DEF TypeOK, InvalidatePending

\* An entry of the ceremonies of an account.
LEMMA PendingTypes ==
    ASSUME TypeOK, NEW u \in User, NEW i \in DOMAIN pending[u]
    PROVE  pending[u][i] \in Pending
<1>1. pending[u] \in Seq(Pending)
  BY DEF TypeOK
<1> QED
  BY <1>1, LenProperties, ElementOfSeq

\* Every account's ceremonies are its own, of its row and its password.
LEMMA CeremoniesCurrent ==
    ASSUME TypeOK, PendingIsCurrent, CeremonyHasRow, NEW u \in User
    PROVE  /\ Ceremonies(pending[u], version[u], pwd[u])
           /\ Ceremonies(pending[u], RowVersion(u), pwd[u])
<1>1. Ceremonies(pending[u], version[u], pwd[u])
  BY DEF TypeOK, PendingIsCurrent, Ceremonies
<1>2. CASE version[u] = 0
  <2>1. pending[u] = <<>> /\ DOMAIN <<>> = {}
    BY <1>2 DEF CeremonyHasRow
  <2> QED
    BY <1>1, <2>1 DEF Ceremonies
<1>3. CASE version[u] # 0
  BY <1>1, <1>3 DEF RowVersion
<1> QED
  BY <1>1, <1>2, <1>3

-----------------------------------------------------------------------------
(* Ceremonies *)

\* Every account's ceremonies are current, and only an account with a version
\* row has any.
CeremonyPart ==
    /\ pending \in [User -> Seq(Pending)]
    /\ version \in [User -> Nat]
    /\ \A u \in User : /\ Ceremonies(pending[u], version[u], pwd[u])
                       /\ version[u] = 0 => pending[u] = <<>>

LEMMA CeremonyPartIs ==
    ASSUME TypeOK
    PROVE  CeremonyPart <=> PendingIsCurrent /\ CeremonyHasRow
BY DEF TypeOK, CeremonyPart, PendingIsCurrent, CeremonyHasRow, Ceremonies

LEMMA NoCeremonies ==
    ASSUME NEW n, NEW h
    PROVE  Ceremonies(<<>>, n, h)
<1>1. <<>> \in Seq(Pending) /\ Len(<<>>) = 0 /\ DOMAIN <<>> = {}
  BY EmptySeq
<1> QED
  BY <1>1, AccountsAssumption DEF Ceremonies

\* A step that touches the ceremonies of one account.
LEMMA OneAccount ==
    ASSUME TypeOK, CeremonyPart, NEW u \in User, NEW q, NEW n \in Nat,
           pending' = [pending EXCEPT ![u] = q],
           version' = [version EXCEPT ![u] = n],
           \A v \in User \ {u} : pwd'[v] = pwd[v],
           Ceremonies(q, n, pwd'[u]),
           n = 0 => q = <<>>
    PROVE  CeremonyPart'
<1>1. q \in Seq(Pending)
  BY DEF Ceremonies
<1>2. /\ pending' \in [User -> Seq(Pending)]
      /\ version' \in [User -> Nat]
  BY <1>1 DEF TypeOK
<1>3. ASSUME NEW v \in User
      PROVE  /\ Ceremonies(pending'[v], version'[v], pwd'[v])
             /\ version'[v] = 0 => pending'[v] = <<>>
  <2>1. CASE v = u
    BY <2>1 DEF TypeOK
  <2>2. CASE v # u
    <3>1. pending'[v] = pending[v] /\ version'[v] = version[v] /\ pwd'[v] = pwd[v]
      BY <2>2 DEF TypeOK
    <3> QED
      BY <3>1 DEF CeremonyPart
  <2> QED
    BY <2>1, <2>2
<1> QED
  BY <1>2, <1>3 DEF CeremonyPart

\* A step that leaves passwords, versions and ceremonies alone.
LEMMA NoAccount ==
    ASSUME CeremonyPart, UNCHANGED <<pwd, version, pending>>
    PROVE  CeremonyPart'
BY DEF CeremonyPart, Ceremonies

\* invalidatePending, with the password the account has afterwards.
LEMMA Invalidated ==
    ASSUME TypeOK, CeremonyPart, NEW u \in User, InvalidatePending(u),
           \A v \in User \ {u} : pwd'[v] = pwd[v]
    PROVE  CeremonyPart'
<1>1. /\ version' = [version EXCEPT ![u] = version'[u]]
      /\ pending' = [pending EXCEPT ![u] = <<>>]
      /\ version'[u] \in Nat
  BY InvalidateTypes
<1> QED
  BY <1>1, OneAccount, NoCeremonies

\* savePending after a ceremony of the same account was or was not used up.
LEMMA Saved ==
    ASSUME TypeOK, CeremonyPart, NEW u \in User, Exists(u), UNCHANGED pwd,
           NEW others, Ceremonies(others, RowVersion(u), pwd[u]),
           NEW purpose \in {"login", "register", "add", "delete", "disable"},
           NEW target \in Key \cup {None}, NEW token \in Token \cup {None},
           SavePending(u, others, purpose, target, token)
    PROVE  CeremonyPart'
<1>1. PICK q : /\ pending' = [pending EXCEPT ![u] = q]
               /\ version' = [version EXCEPT ![u] = RowVersion(u)]
               /\ RowVersion(u) \in Nat \ {0}
               /\ Ceremonies(q, RowVersion(u), pwd[u])
  BY CeremonySaved
<1> QED
  BY <1>1, OneAccount

\* A ceremony is used up.
LEMMA UsedUp ==
    ASSUME TypeOK, CeremonyPart, NEW u \in User, NEW i \in DOMAIN pending[u],
           pending' = [pending EXCEPT ![u] = RemoveAt(@, i)],
           UNCHANGED <<pwd, version>>
    PROVE  CeremonyPart'
<1>1. Ceremonies(pending[u], version[u], pwd[u])
  BY DEF CeremonyPart
<1>2. Ceremonies(RemoveAt(pending[u], i), version[u], pwd[u])
  BY <1>1, CeremonyDropped
<1>3. version[u] # 0
  BY DEF CeremonyPart
<1>4. pending' = [pending EXCEPT ![u] = RemoveAt(pending[u], i)]
      /\ version' = [version EXCEPT ![u] = version[u]]
      /\ version[u] \in Nat
  BY DEF TypeOK
<1> QED
  BY <1>2, <1>3, <1>4, OneAccount

\* A session belongs to an account that exists.
LEMMA SessionFacts ==
    ASSUME IInv, NEW s \in sessions
    PROVE  /\ s.token \in Token /\ s.user \in User /\ s.hash \in Hash
           /\ Exists(s.user)
BY AccountsAssumption DEF IInv, TypeOK, Session, PasswordIsCurrent, Exists, None

\* So does a ceremony.
LEMMA PendingFacts ==
    ASSUME IInv, NEW u \in User, NEW i \in DOMAIN pending[u]
    PROVE  /\ pending[u][i] \in Pending
           /\ Exists(u)
           /\ pending[u][i].hash = pwd[u]
           /\ pending[u][i].version = version[u]
<1>1. pending[u][i] \in Pending
  BY PendingTypes DEF IInv
<1> QED
  BY <1>1, AccountsAssumption DEF IInv, PendingIsCurrent, Pending, Exists, None

LEMMA NextCeremonies ==
    ASSUME IInv, [Next]_vars
    PROVE  CeremonyPart'
<1>0. TypeOK /\ CeremonyPart
  BY CeremonyPartIs DEF IInv
<1>1. CASE Submit
  BY <1>0, <1>1, NoAccount DEF Submit, Accept
<1>2. CASE CheckPassword
  BY <1>0, <1>2, NoAccount DEF CheckPassword, Accept
<1>3. ASSUME NEW r \in requests, Refuse(r) PROVE CeremonyPart'
  BY <1>0, <1>3, NoAccount DEF Refuse
<1>4. ASSUME NEW r \in requests, DeleteAdmin(r) PROVE CeremonyPart'
  <2>1. /\ r.target \in User
        /\ pending' = [pending EXCEPT ![r.target] = <<>>]
        /\ version' = [version EXCEPT ![r.target] = 0]
        /\ pwd' = [pwd EXCEPT ![r.target] = None]
    BY <1>0, <1>4, RequestTypes DEF DeleteAdmin, Forget
  <2>2. \A v \in User \ {r.target} : pwd'[v] = pwd[v]
    BY <1>0, <2>1 DEF TypeOK
  <2> QED
    BY <1>0, <2>1, <2>2, OneAccount, NoCeremonies
<1>5. ASSUME NEW r \in requests, CreateAdmin(r) PROVE CeremonyPart'
  <2>1. /\ r.target \in User /\ ~Exists(r.target)
        /\ UNCHANGED <<pending, version>>
        /\ pwd' = [pwd EXCEPT ![r.target] = Fresh(Hash \ UsedHashes)]
    BY <1>0, <1>5, RequestTypes DEF CreateAdmin
  <2>2. \A v \in User \ {r.target} : pwd'[v] = pwd[v]
    BY <1>0, <2>1 DEF TypeOK
  <2>3. pending[r.target] = <<>>
    BY <2>1 DEF IInv, NoOrphans
  <2>4. /\ pending' = [pending EXCEPT ![r.target] = <<>>]
        /\ version' = [version EXCEPT ![r.target] = version[r.target]]
        /\ version[r.target] \in Nat
    BY <1>0, <2>1, <2>3 DEF TypeOK
  <2> QED
    BY <1>0, <2>1, <2>2, <2>4, OneAccount, NoCeremonies
<1>6. ASSUME NEW r \in requests, UpdateAdminAccess(r) PROVE CeremonyPart'
  BY <1>0, <1>6, NoAccount DEF UpdateAdminAccess
<1>7. ASSUME NEW r \in requests, CreateServer(r) PROVE CeremonyPart'
  BY <1>0, <1>7, NoAccount DEF CreateServer
<1>8. ASSUME NEW r \in requests, ChangePassword(r) PROVE CeremonyPart'
  <2>1. /\ r.user \in User
        /\ InvalidatePending(r.user)
        /\ pwd' = [pwd EXCEPT ![r.user] = Fresh(Hash \ UsedHashes)]
    BY <1>0, <1>8, RequestTypes DEF ChangePassword
  <2>2. \A v \in User \ {r.user} : pwd'[v] = pwd[v]
    BY <1>0, <2>1 DEF TypeOK
  <2> QED
    BY <1>0, <2>1, <2>2, Invalidated
<1>9. ASSUME NEW r \in requests, Login(r) PROVE CeremonyPart'
  <2>1. r.user \in User /\ r.hash \in Hash /\ pwd[r.user] = r.hash
    BY <1>0, <1>9, RequestTypes DEF Login, SamePassword
  <2>2. Exists(r.user)
    BY <2>1, AccountsAssumption DEF Exists, None
  <2>3. CASE UNCHANGED <<version, pending>>
    BY <1>0, <1>9, <2>3, NoAccount DEF Login
  <2>4. CASE SavePending(r.user, pending[r.user], "login", None, None)
    <3>1. Ceremonies(pending[r.user], RowVersion(r.user), pwd[r.user])
      BY <2>1, CeremoniesCurrent DEF IInv
    <3>2. UNCHANGED pwd
      BY <1>9 DEF Login
    <3> QED
      BY <1>0, <2>1, <2>2, <2>4, <3>1, <3>2, Saved
  <2> QED
    BY <1>9, <2>3, <2>4 DEF Login
<1>10. CASE EndSession
  BY <1>0, <1>10, NoAccount DEF EndSession
<1>11. ASSUME NEW s \in sessions, Begin(s) PROVE CeremonyPart'
  <2>1. s.user \in User /\ s.token \in Token /\ Exists(s.user)
    BY SessionFacts
  <2>2. Ceremonies(pending[s.user], RowVersion(s.user), pwd[s.user])
    BY <2>1, CeremoniesCurrent DEF IInv
  <2>3. UNCHANGED pwd
    BY <1>11 DEF Begin
  <2>4. \E purpose \in {"register", "add", "disable", "delete"},
           target \in Key \cup {None} :
          SavePending(s.user, pending[s.user], purpose, target, s.token)
    BY <1>0, <1>11, <2>1 DEF Begin, TypeOK
  <2> QED
    BY <1>0, <2>1, <2>2, <2>3, <2>4, Saved
<1>12. ASSUME NEW s \in sessions, BeginFails(s) PROVE CeremonyPart'
  <2>1. s.user \in User
    BY SessionFacts
  <2>2. Ceremonies(pending[s.user], RowVersion(s.user), pwd[s.user])
    BY <2>1, CeremoniesCurrent DEF IInv
  <2>3. /\ UNCHANGED <<pwd, pending>>
        /\ version' = [version EXCEPT ![s.user] = RowVersion(s.user)]
        /\ pending' = [pending EXCEPT ![s.user] = pending[s.user]]
        /\ RowVersion(s.user) \in Nat \ {0}
    BY <1>0, <1>12, <2>1 DEF BeginFails, RowVersion, TypeOK
  <2> QED
    BY <1>0, <2>1, <2>2, <2>3, OneAccount
<1>13. ASSUME NEW u \in User, NEW i \in DOMAIN pending[u], FinishLogin(u, i)
       PROVE  CeremonyPart'
  BY <1>0, <1>13, UsedUp DEF FinishLogin
<1>14. ASSUME NEW u \in User, NEW i \in DOMAIN pending[u], FinishRegister(u, i)
       PROVE  CeremonyPart'
  BY <1>0, <1>14, Invalidated DEF FinishRegister, RevokeAfterChange
<1>15. ASSUME NEW u \in User, NEW i \in DOMAIN pending[u], FinishAdd(u, i)
       PROVE  CeremonyPart'
  <2> DEFINE p == pending[u][i]
             rest == RemoveAt(pending[u], i)
  <2>1. p \in Pending /\ Exists(u)
    BY PendingFacts
  <2>2. Ceremonies(pending[u], RowVersion(u), pwd[u])
    BY CeremoniesCurrent DEF IInv
  <2>3. Ceremonies(rest, RowVersion(u), pwd[u])
    BY <2>2, CeremonyDropped
  <2>4. p.target \in Key \cup {None} /\ p.token \in Token \cup {None}
    BY <2>1 DEF Pending
  <2>5. UNCHANGED pwd /\ SavePending(u, rest, "register", p.target, p.token)
    BY <1>15 DEF FinishAdd
  <2> HIDE DEF p, rest
  <2> QED
    BY <1>0, <2>1, <2>3, <2>4, <2>5, Saved
<1>16. ASSUME NEW u \in User, NEW i \in DOMAIN pending[u], FinishRemove(u, i)
       PROVE  CeremonyPart'
  BY <1>0, <1>16, Invalidated DEF FinishRemove, RevokeAfterChange
<1>17. ASSUME NEW u \in User, NEW i \in DOMAIN pending[u], FinishFails(u, i)
       PROVE  CeremonyPart'
  BY <1>0, <1>17, UsedUp DEF FinishFails
<1>18. ASSUME NEW u \in User, NEW i \in DOMAIN pending[u], DropPending(u, i)
       PROVE  CeremonyPart'
  BY <1>0, <1>18, UsedUp DEF DropPending
<1>19. ASSUME NEW u \in User, ResetTwoFactor(u) PROVE CeremonyPart'
  BY <1>0, <1>19, Invalidated DEF ResetTwoFactor, RevokeAfterChange
<1>20. ASSUME NEW u \in User, NEW k \in {"login", "manage"}, ResetLimit(u, k)
       PROVE  CeremonyPart'
  BY <1>0, <1>20, NoAccount DEF ResetLimit
<1>21. CASE UNCHANGED vars
  BY <1>0, <1>21, NoAccount DEF vars
<1> QED
  BY <1>1, <1>2, <1>3, <1>4, <1>5, <1>6, <1>7, <1>8, <1>9, <1>10, <1>11, <1>12,
     <1>13, <1>14, <1>15, <1>16, <1>17, <1>18, <1>19, <1>20, <1>21
  DEF Next, AccountStep, CeremonyStep

-----------------------------------------------------------------------------
(* Types of the other variables *)

LEMMA NextType ==
    ASSUME IInv, [Next]_vars
    PROVE  TypeOK'
<1>0. TypeOK /\ CeremonyPart' /\ AccountsAssumption
  BY NextCeremonies, AccountsAssumption DEF IInv
<1>00. pending' \in [User -> Seq(Pending)] /\ version' \in [User -> Nat]
  BY <1>0 DEF CeremonyPart
<1> USE DEF TypeOK
<1>1. CASE Submit
  <2>1. PICK s \in sessions :
          \/ \E kind \in {"delete", "create"}, u \in User :
               Accept([kind |-> kind, token |-> s.token, user |-> s.user, target |-> u])
          \/ \E u \in User, x \in Role, S \in SUBSET Server :
               Accept([kind |-> "access", token |-> s.token, user |-> s.user,
                       target |-> u, role |-> x, servers |-> S])
          \/ \E x \in Server :
               Accept([kind |-> "server", token |-> s.token, user |-> s.user,
                       role |-> role[s.user], server |-> x])
          \/ Accept([kind |-> "password", token |-> s.token, user |-> s.user,
                     hash |-> pwd[s.user]])
    BY <1>1 DEF Submit
  <2>2. /\ s.token \in Token /\ s.user \in User
        /\ role[s.user] \in Role /\ pwd[s.user] \in Hash
    BY <1>0, SessionFacts DEF Exists
  <2>3. ASSUME NEW r \in Request, Accept(r)
        PROVE  TypeOK'
    BY <1>0, <1>00, <2>3 DEF Accept
  <2>4. ASSUME NEW kind \in {"delete", "create"}, NEW u \in User
        PROVE  [kind |-> kind, token |-> s.token, user |-> s.user, target |-> u]
                 \in Request
    BY <2>2 DEF Request
  <2>5. ASSUME NEW u \in User, NEW x \in Role, NEW S \in SUBSET Server
        PROVE  [kind |-> "access", token |-> s.token, user |-> s.user,
                target |-> u, role |-> x, servers |-> S] \in Request
    BY <2>2 DEF Request
  <2>6. ASSUME NEW x \in Server
        PROVE  [kind |-> "server", token |-> s.token, user |-> s.user,
                role |-> role[s.user], server |-> x] \in Request
    BY <2>2 DEF Request
  <2>7. [kind |-> "password", token |-> s.token, user |-> s.user,
         hash |-> pwd[s.user]] \in Request
    BY <2>2 DEF Request
  <2> HIDE DEF TypeOK
  <2> QED
    BY <2>1, <2>3, <2>4, <2>5, <2>6, <2>7
<1>2. CASE CheckPassword
  <2>1. requests' \subseteq Request
    BY <1>0, <1>2 DEF CheckPassword, Accept, Request, Exists
  <2> QED
    BY <1>0, <1>00, <1>2, <2>1 DEF CheckPassword, Accept
<1>3. ASSUME NEW r \in requests, Refuse(r) PROVE TypeOK'
  BY <1>0, <1>00, <1>3 DEF Refuse
<1>4. ASSUME NEW r \in requests, DeleteAdmin(r) PROVE TypeOK'
  BY <1>0, <1>00, <1>4, RequestTypes DEF DeleteAdmin, Forget, Others, Role
<1>5. ASSUME NEW r \in requests, CreateAdmin(r) PROVE TypeOK'
  <2>1. Fresh(Hash \ UsedHashes) \in Hash
    BY <1>5, FreshIn DEF CreateAdmin
  <2> QED
    BY <1>0, <1>00, <1>5, <2>1, RequestTypes DEF CreateAdmin
<1>6. ASSUME NEW r \in requests, UpdateAdminAccess(r) PROVE TypeOK'
  BY <1>0, <1>00, <1>6, RequestTypes DEF UpdateAdminAccess
<1>7. ASSUME NEW r \in requests, CreateServer(r) PROVE TypeOK'
  BY <1>0, <1>00, <1>7, RequestTypes DEF CreateServer
<1>8. ASSUME NEW r \in requests, ChangePassword(r) PROVE TypeOK'
  <2>1. Fresh(Hash \ UsedHashes) \in Hash
    BY <1>8, FreshIn DEF ChangePassword
  <2> QED
    BY <1>0, <1>00, <1>8, <2>1, RequestTypes DEF ChangePassword, Others
<1>9. ASSUME NEW r \in requests, Login(r) PROVE TypeOK'
  <2>1. r.user \in User /\ r.hash \in Hash
    BY <1>0, <1>9, RequestTypes DEF Login
  <2>2. sessions' \subseteq Session
    BY <1>0, <1>9, <2>1, SessionTypes DEF Login
  <2> QED
    BY <1>0, <1>00, <1>9, <2>2 DEF Login
<1>10. CASE EndSession
  BY <1>0, <1>00, <1>10 DEF EndSession
<1>11. ASSUME NEW s \in sessions, Begin(s) PROVE TypeOK'
  BY <1>0, <1>00, <1>11 DEF Begin
<1>12. ASSUME NEW s \in sessions, BeginFails(s) PROVE TypeOK'
  <2>1. s.user \in User
    BY SessionFacts
  <2> QED
    BY <1>0, <1>00, <1>12, <2>1 DEF BeginFails, Fail
<1>13. ASSUME NEW u \in User, NEW i \in DOMAIN pending[u], FinishLogin(u, i)
       PROVE  TypeOK'
  <2>1. pending[u][i] \in Pending
    BY PendingFacts
  <2>2. sessions' \subseteq Session
    BY <1>0, <1>13, <2>1, SessionTypes DEF FinishLogin, Pending
  <2>3. fails' \in [User -> [{"login", "manage"} -> Nat]]
    BY <1>0, <1>13 DEF FinishLogin, Clear
  <2> QED
    BY <1>0, <1>00, <1>13, <2>2, <2>3 DEF FinishLogin
<1>14. ASSUME NEW u \in User, NEW i \in DOMAIN pending[u], FinishRegister(u, i)
       PROVE  TypeOK'
  <2>1. sessions' \subseteq Session /\ keys' \in [User -> SUBSET Key]
    BY <1>0, <1>14 DEF FinishRegister, RevokeAfterChange
  <2>2. fails' \in [User -> [{"login", "manage"} -> Nat]]
    BY <1>0, <1>14 DEF FinishRegister, Clear
  <2> QED
    BY <1>0, <1>00, <1>14, <2>1, <2>2 DEF FinishRegister
<1>15. ASSUME NEW u \in User, NEW i \in DOMAIN pending[u], FinishAdd(u, i)
       PROVE  TypeOK'
  BY <1>0, <1>00, <1>15 DEF FinishAdd
<1>16. ASSUME NEW u \in User, NEW i \in DOMAIN pending[u], FinishRemove(u, i)
       PROVE  TypeOK'
  <2>1. sessions' \subseteq Session
    BY <1>0, <1>16 DEF FinishRemove, RevokeAfterChange
  <2>2. keys' \in [User -> SUBSET Key]
    BY <1>0, <1>16 DEF FinishRemove
  <2>3. fails' \in [User -> [{"login", "manage"} -> Nat]]
    BY <1>0, <1>16 DEF FinishRemove, Clear
  <2> QED
    BY <1>0, <1>00, <1>16, <2>1, <2>2, <2>3 DEF FinishRemove
<1>17. ASSUME NEW u \in User, NEW i \in DOMAIN pending[u], FinishFails(u, i)
       PROVE  TypeOK'
  <2>1. fails' \in [User -> [{"login", "manage"} -> Nat]]
    BY <1>0, <1>17 DEF FinishFails, Fail, Limits
  <2> QED
    BY <1>0, <1>00, <1>17, <2>1 DEF FinishFails
<1>18. ASSUME NEW u \in User, NEW i \in DOMAIN pending[u], DropPending(u, i)
       PROVE  TypeOK'
  BY <1>0, <1>00, <1>18 DEF DropPending
<1>19. ASSUME NEW u \in User, ResetTwoFactor(u) PROVE TypeOK'
  BY <1>0, <1>00, <1>19 DEF ResetTwoFactor, RevokeAfterChange
<1>20. ASSUME NEW u \in User, NEW k \in {"login", "manage"}, ResetLimit(u, k)
       PROVE  TypeOK'
  BY <1>0, <1>00, <1>20 DEF ResetLimit, Clear
<1>21. CASE UNCHANGED vars
  BY <1>0, <1>21 DEF vars
<1> QED
  BY <1>1, <1>2, <1>3, <1>4, <1>5, <1>6, <1>7, <1>8, <1>9, <1>10, <1>11, <1>12,
     <1>13, <1>14, <1>15, <1>16, <1>17, <1>18, <1>19, <1>20, <1>21
  DEF Next, AccountStep, CeremonyStep

-----------------------------------------------------------------------------
(* Sessions *)

SessionPart == TokensUnique /\ PasswordIsCurrent /\ MfaEnforced

\* A step that starts no session and changes the password of no account that
\* keeps one.
LEMMA KeptSessions ==
    ASSUME SessionPart, sessions' \subseteq sessions,
           \A s \in sessions' : /\ pwd'[s.user] = pwd[s.user]
                                /\ keys'[s.user] # {} => s.mfa
    PROVE  SessionPart'
BY DEF SessionPart, TokensUnique, PasswordIsCurrent, MfaEnforced

\* createLoginSession, with a token nothing refers to.
LEMMA NewSession ==
    ASSUME SessionPart, NEW u \in User, NEW h, NEW m,
           CreateLoginSession(u, h, m), UNCHANGED <<pwd, keys>>,
           h = pwd[u], keys[u] # {} => m
    PROVE  SessionPart'
<1>1. PICK t : /\ t \notin UsedTokens
               /\ sessions' = sessions \cup {[token |-> t, user |-> u,
                                              hash |-> h, mfa |-> m]}
  BY FreshIn DEF CreateLoginSession
<1>2. \A s \in sessions : s.token # t
  BY <1>1 DEF UsedTokens
<1>3. TokensUnique'
  BY <1>1, <1>2 DEF SessionPart, TokensUnique
<1>4. PasswordIsCurrent' /\ MfaEnforced'
  BY <1>1 DEF SessionPart, PasswordIsCurrent, MfaEnforced
<1> QED
  BY <1>3, <1>4 DEF SessionPart

LEMMA NextSessions ==
    ASSUME IInv, [Next]_vars
    PROVE  SessionPart'
<1>0. TypeOK /\ SessionPart
  BY DEF IInv, SessionPart
<1>00. \A s \in sessions : s.user \in User /\ (keys[s.user] # {} => s.mfa)
  BY DEF IInv, TypeOK, Session, MfaEnforced
<1>1. CASE Submit
  BY <1>0, <1>00, <1>1, KeptSessions DEF Submit, Accept
<1>2. CASE CheckPassword
  BY <1>0, <1>00, <1>2, KeptSessions DEF CheckPassword, Accept
<1>3. ASSUME NEW r \in requests, Refuse(r) PROVE SessionPart'
  BY <1>0, <1>00, <1>3, KeptSessions DEF Refuse
<1>4. ASSUME NEW r \in requests, DeleteAdmin(r) PROVE SessionPart'
  <2>1. /\ r.target \in User
        /\ sessions' = Others(r.target)
        /\ pwd' = [pwd EXCEPT ![r.target] = None]
        /\ keys' = [keys EXCEPT ![r.target] = {}]
    BY <1>0, <1>4, RequestTypes DEF DeleteAdmin, Forget
  <2> QED
    BY <1>0, <1>00, <2>1, KeptSessions DEF Others, TypeOK
<1>5. ASSUME NEW r \in requests, CreateAdmin(r) PROVE SessionPart'
  <2>1. /\ r.target \in User /\ ~Exists(r.target)
        /\ UNCHANGED <<sessions, keys>>
        /\ pwd' = [pwd EXCEPT ![r.target] = Fresh(Hash \ UsedHashes)]
    BY <1>0, <1>5, RequestTypes DEF CreateAdmin
  <2>2. \A s \in sessions : s.user # r.target
    BY <2>1, SessionFacts
  <2> QED
    BY <1>0, <1>00, <2>1, <2>2, KeptSessions DEF TypeOK
<1>6. ASSUME NEW r \in requests, UpdateAdminAccess(r) PROVE SessionPart'
  BY <1>0, <1>00, <1>6, KeptSessions DEF UpdateAdminAccess
<1>7. ASSUME NEW r \in requests, CreateServer(r) PROVE SessionPart'
  BY <1>0, <1>00, <1>7, KeptSessions DEF CreateServer
<1>8. ASSUME NEW r \in requests, ChangePassword(r) PROVE SessionPart'
  <2>1. /\ r.user \in User
        /\ sessions' = Others(r.user) /\ UNCHANGED keys
        /\ pwd' = [pwd EXCEPT ![r.user] = Fresh(Hash \ UsedHashes)]
    BY <1>0, <1>8, RequestTypes DEF ChangePassword
  <2> QED
    BY <1>0, <1>00, <2>1, KeptSessions DEF Others, TypeOK
<1>9. ASSUME NEW r \in requests, Login(r) PROVE SessionPart'
  <2>1. /\ r.user \in User /\ pwd[r.user] = r.hash
        /\ UNCHANGED <<pwd, keys>>
    BY <1>0, <1>9, RequestTypes DEF Login, SamePassword
  <2>2. CASE keys[r.user] = {} /\ CreateLoginSession(r.user, r.hash, FALSE)
    BY <1>0, <2>1, <2>2, NewSession
  <2>3. CASE UNCHANGED sessions
    BY <1>0, <1>00, <2>1, <2>3, KeptSessions
  <2> QED
    BY <1>9, <2>2, <2>3 DEF Login
<1>10. CASE EndSession
  BY <1>0, <1>00, <1>10, KeptSessions DEF EndSession
<1>11. ASSUME NEW s \in sessions, Begin(s) PROVE SessionPart'
  BY <1>0, <1>00, <1>11, KeptSessions DEF Begin
<1>12. ASSUME NEW s \in sessions, BeginFails(s) PROVE SessionPart'
  BY <1>0, <1>00, <1>12, KeptSessions DEF BeginFails
<1>13. ASSUME NEW u \in User, NEW i \in DOMAIN pending[u], FinishLogin(u, i)
       PROVE  SessionPart'
  <2>1. /\ CreateLoginSession(u, pending[u][i].hash, TRUE)
        /\ UNCHANGED <<pwd, keys>>
    BY <1>13 DEF FinishLogin
  <2> QED
    BY <1>0, <2>1, PendingFacts, NewSession
<1>14. ASSUME NEW u \in User, NEW i \in DOMAIN pending[u], FinishRegister(u, i)
       PROVE  SessionPart'
  <2>1. /\ UNCHANGED pwd
        /\ \E k \in Key : keys' = [keys EXCEPT ![u] = @ \cup {k}]
        /\ sessions' = {s \in sessions :
             s.user # u \/ (keys[u] # {} /\ s.token = pending[u][i].token)}
    BY <1>14 DEF FinishRegister, RevokeAfterChange
  <2> QED
    BY <1>0, <1>00, <2>1, KeptSessions DEF TypeOK
<1>15. ASSUME NEW u \in User, NEW i \in DOMAIN pending[u], FinishAdd(u, i)
       PROVE  SessionPart'
  BY <1>0, <1>00, <1>15, KeptSessions DEF FinishAdd
<1>16. ASSUME NEW u \in User, NEW i \in DOMAIN pending[u], FinishRemove(u, i)
       PROVE  SessionPart'
  <2>1. /\ UNCHANGED pwd
        /\ \E S \in SUBSET keys[u] : keys' = [keys EXCEPT ![u] = S]
        /\ sessions' \subseteq sessions
    BY <1>16 DEF FinishRemove, RevokeAfterChange
  <2> QED
    BY <1>0, <1>00, <2>1, KeptSessions DEF TypeOK
<1>17. ASSUME NEW u \in User, NEW i \in DOMAIN pending[u], FinishFails(u, i)
       PROVE  SessionPart'
  BY <1>0, <1>00, <1>17, KeptSessions DEF FinishFails
<1>18. ASSUME NEW u \in User, NEW i \in DOMAIN pending[u], DropPending(u, i)
       PROVE  SessionPart'
  BY <1>0, <1>00, <1>18, KeptSessions DEF DropPending
<1>19. ASSUME NEW u \in User, ResetTwoFactor(u) PROVE SessionPart'
  <2>1. /\ UNCHANGED pwd
        /\ keys' = [keys EXCEPT ![u] = {}]
        /\ sessions' \subseteq sessions
    BY <1>19 DEF ResetTwoFactor, RevokeAfterChange
  <2> QED
    BY <1>0, <1>00, <2>1, KeptSessions DEF TypeOK
<1>20. ASSUME NEW u \in User, NEW k \in {"login", "manage"}, ResetLimit(u, k)
       PROVE  SessionPart'
  BY <1>0, <1>00, <1>20, KeptSessions DEF ResetLimit
<1>21. CASE UNCHANGED vars
  BY <1>0, <1>00, <1>21, KeptSessions DEF vars
<1> QED
  BY <1>1, <1>2, <1>3, <1>4, <1>5, <1>6, <1>7, <1>8, <1>9, <1>10, <1>11, <1>12,
     <1>13, <1>14, <1>15, <1>16, <1>17, <1>18, <1>19, <1>20, <1>21
  DEF Next, AccountStep, CeremonyStep

-----------------------------------------------------------------------------
(* Accounts *)

\* A step that changes the rows of one account, which exists afterwards.
LEMMA OneOwner ==
    ASSUME NoOrphans, NEW u \in User, pwd'[u] # None,
           \A v \in User \ {u} :
             /\ pwd'[v] = pwd[v] /\ role'[v] = role[v] /\ assigned'[v] = assigned[v]
             /\ keys'[v] = keys[v] /\ pending'[v] = pending[v],
           \A s \in sessions' : s \in sessions \/ s.user = u
    PROVE  NoOrphans'
BY DEF NoOrphans, Exists

\* A step that changes no row of an account and starts no session.
LEMMA NoOwner ==
    ASSUME NoOrphans, UNCHANGED <<pwd, role, assigned, keys, pending>>,
           sessions' \subseteq sessions
    PROVE  NoOrphans'
BY DEF NoOrphans, Exists

LEMMA NextOrphans ==
    ASSUME IInv, [Next]_vars
    PROVE  NoOrphans'
<1>0. TypeOK /\ NoOrphans
  BY DEF IInv
<1>00. \A s \in sessions : s.user \in User /\ pwd[s.user] # None
  BY SessionFacts DEF Exists
<1>000. None \notin Hash
  BY AccountsAssumption DEF None
<1>1. CASE Submit
  BY <1>0, <1>1, NoOwner DEF Submit, Accept
<1>2. CASE CheckPassword
  BY <1>0, <1>2, NoOwner DEF CheckPassword, Accept
<1>3. ASSUME NEW r \in requests, Refuse(r) PROVE NoOrphans'
  BY <1>0, <1>3, NoOwner DEF Refuse
<1>4. ASSUME NEW r \in requests, DeleteAdmin(r) PROVE NoOrphans'
  <2>1. r.target \in User
    BY <1>0, <1>4, RequestTypes DEF DeleteAdmin
  <2>2. ASSUME NEW v \in User, ~Exists(v)'
        PROVE  /\ role'[v] = "admin" /\ assigned'[v] = {} /\ keys'[v] = {}
               /\ pending'[v] = <<>>
               /\ \A s \in sessions' : s.user # v
    <3>1. CASE v = r.target
      BY <1>0, <1>4, <2>1, <3>1 DEF DeleteAdmin, Forget, Others, TypeOK
    <3>2. CASE v # r.target
      <4>1. ~Exists(v)
        BY <1>0, <1>4, <2>1, <2>2, <3>2 DEF DeleteAdmin, Exists, TypeOK
      <4> QED
        BY <1>0, <1>4, <2>1, <3>2, <4>1
        DEF DeleteAdmin, Forget, Others, NoOrphans, TypeOK
    <3> QED
      BY <3>1, <3>2
  <2> QED
    BY <2>2 DEF NoOrphans
<1>5. ASSUME NEW r \in requests, CreateAdmin(r) PROVE NoOrphans'
  <2>1. r.target \in User /\ Fresh(Hash \ UsedHashes) # None
    BY <1>0, <1>000, <1>5, RequestTypes, FreshIn DEF CreateAdmin
  <2> QED
    BY <1>0, <1>5, <2>1, OneOwner DEF CreateAdmin, TypeOK
<1>6. ASSUME NEW r \in requests, UpdateAdminAccess(r) PROVE NoOrphans'
  <2>1. r.target \in User
    BY <1>0, <1>6, RequestTypes DEF UpdateAdminAccess
  <2> QED
    BY <1>0, <1>6, <2>1, OneOwner DEF UpdateAdminAccess, Exists, TypeOK
<1>7. ASSUME NEW r \in requests, CreateServer(r) PROVE NoOrphans'
  BY <1>0, <1>7 DEF CreateServer, NoOrphans, Exists, TypeOK
<1>8. ASSUME NEW r \in requests, ChangePassword(r) PROVE NoOrphans'
  <2>1. r.user \in User /\ Fresh(Hash \ UsedHashes) # None
    BY <1>0, <1>000, <1>8, RequestTypes, FreshIn DEF ChangePassword
  <2> QED
    BY <1>0, <1>8, <2>1, OneOwner
    DEF ChangePassword, InvalidatePending, Others, TypeOK
<1>9. ASSUME NEW r \in requests, Login(r) PROVE NoOrphans'
  <2>1. r.user \in User /\ pwd[r.user] # None
    BY <1>0, <1>000, <1>9, RequestTypes DEF Login, SamePassword
  <2>2. \A v \in User \ {r.user} : pending'[v] = pending[v]
    BY <1>0, <1>9 DEF Login, SavePending, TypeOK
  <2>3. \A s \in sessions' : s \in sessions \/ s.user = r.user
    BY <1>9 DEF Login, CreateLoginSession
  <2> QED
    BY <1>0, <1>9, <2>1, <2>2, <2>3, OneOwner DEF Login
<1>10. CASE EndSession
  BY <1>0, <1>10, NoOwner DEF EndSession
<1>11. ASSUME NEW s \in sessions, Begin(s) PROVE NoOrphans'
  <2>1. \A v \in User \ {s.user} : pending'[v] = pending[v]
    BY <1>0, <1>11 DEF Begin, SavePending, TypeOK
  <2> QED
    BY <1>0, <1>00, <1>11, <2>1, OneOwner DEF Begin
<1>12. ASSUME NEW s \in sessions, BeginFails(s) PROVE NoOrphans'
  BY <1>0, <1>12, NoOwner DEF BeginFails
<1>13. ASSUME NEW u \in User, NEW i \in DOMAIN pending[u], FinishLogin(u, i)
       PROVE  NoOrphans'
  <2>1. pwd[u] # None
    BY PendingFacts DEF Exists
  <2> QED
    BY <1>0, <1>13, <2>1, OneOwner DEF FinishLogin, CreateLoginSession, TypeOK
<1>14. ASSUME NEW u \in User, NEW i \in DOMAIN pending[u], FinishRegister(u, i)
       PROVE  NoOrphans'
  <2>1. pwd[u] # None
    BY PendingFacts DEF Exists
  <2> QED
    BY <1>0, <1>14, <2>1, OneOwner DEF FinishRegister, RevokeAfterChange, InvalidatePending, TypeOK
<1>15. ASSUME NEW u \in User, NEW i \in DOMAIN pending[u], FinishAdd(u, i)
       PROVE  NoOrphans'
  <2>1. pwd[u] # None
    BY PendingFacts DEF Exists
  <2>2. \A v \in User \ {u} : pending'[v] = pending[v]
    BY <1>0, <1>15 DEF FinishAdd, SavePending, TypeOK
  <2> QED
    BY <1>0, <1>15, <2>1, <2>2, OneOwner DEF FinishAdd
<1>16. ASSUME NEW u \in User, NEW i \in DOMAIN pending[u], FinishRemove(u, i)
       PROVE  NoOrphans'
  <2>1. pwd[u] # None
    BY PendingFacts DEF Exists
  <2> QED
    BY <1>0, <1>16, <2>1, OneOwner DEF FinishRemove, RevokeAfterChange, InvalidatePending, TypeOK
<1>17. ASSUME NEW u \in User, NEW i \in DOMAIN pending[u], FinishFails(u, i)
       PROVE  NoOrphans'
  <2>1. pwd[u] # None
    BY PendingFacts DEF Exists
  <2> QED
    BY <1>0, <1>17, <2>1, OneOwner DEF FinishFails, TypeOK
<1>18. ASSUME NEW u \in User, NEW i \in DOMAIN pending[u], DropPending(u, i)
       PROVE  NoOrphans'
  <2>1. pwd[u] # None
    BY PendingFacts DEF Exists
  <2> QED
    BY <1>0, <1>18, <2>1, OneOwner DEF DropPending, TypeOK
<1>19. ASSUME NEW u \in User, ResetTwoFactor(u) PROVE NoOrphans'
  BY <1>0, <1>19, OneOwner
  DEF ResetTwoFactor, RevokeAfterChange, InvalidatePending, Exists, TypeOK
<1>20. ASSUME NEW u \in User, NEW k \in {"login", "manage"}, ResetLimit(u, k)
       PROVE  NoOrphans'
  BY <1>0, <1>20, NoOwner DEF ResetLimit
<1>21. CASE UNCHANGED vars
  BY <1>0, <1>21, NoOwner DEF vars
<1> QED
  BY <1>1, <1>2, <1>3, <1>4, <1>5, <1>6, <1>7, <1>8, <1>9, <1>10, <1>11, <1>12,
     <1>13, <1>14, <1>15, <1>16, <1>17, <1>18, <1>19, <1>20, <1>21
  DEF Next, AccountStep, CeremonyStep

\* Only these transactions change who has an account or a role.
LEMMA AccountChanges ==
    ASSUME [Next]_vars
    PROVE  \/ UNCHANGED <<pwd, role>>
           \/ \E r \in requests : \/ DeleteAdmin(r) \/ CreateAdmin(r)
                                  \/ UpdateAdminAccess(r) \/ ChangePassword(r)
<1>1. CASE Submit \/ CheckPassword \/ EndSession
  BY <1>1 DEF Submit, CheckPassword, Accept, EndSession
<1>2. ASSUME NEW r \in requests, Refuse(r) \/ CreateServer(r) \/ Login(r)
      PROVE  UNCHANGED <<pwd, role>>
  BY <1>2 DEF Refuse, CreateServer, Login
<1>3. ASSUME NEW s \in sessions, Begin(s) \/ BeginFails(s)
      PROVE  UNCHANGED <<pwd, role>>
  BY <1>3 DEF Begin, BeginFails
<1>4. ASSUME NEW u \in User, NEW i \in DOMAIN pending[u],
             \/ FinishLogin(u, i) \/ FinishRegister(u, i) \/ FinishAdd(u, i)
             \/ FinishRemove(u, i) \/ FinishFails(u, i) \/ DropPending(u, i)
      PROVE  UNCHANGED <<pwd, role>>
  BY <1>4 DEF FinishLogin, FinishRegister, FinishAdd, FinishRemove, FinishFails,
              DropPending
<1>5. ASSUME NEW u \in User,
             ResetTwoFactor(u) \/ \E k \in {"login", "manage"} : ResetLimit(u, k)
      PROVE  UNCHANGED <<pwd, role>>
  BY <1>5 DEF ResetTwoFactor, ResetLimit
<1> QED
  BY <1>1, <1>2, <1>3, <1>4, <1>5 DEF Next, AccountStep, CeremonyStep, vars

\* The new password of an account is one.
LEMMA NewPassword ==
    ASSUME Hash \ UsedHashes # {}
    PROVE  Fresh(Hash \ UsedHashes) \in Hash /\ Fresh(Hash \ UsedHashes) # None
BY FreshIn, AccountsAssumption DEF None

LEMMA NextSuper ==
    ASSUME IInv, [Next]_vars
    PROVE  AtLeastOneSuper'
<1>0. TypeOK /\ NoOrphans
  BY DEF IInv
<1>1. PICK w \in User : pwd[w] # None /\ role[w] = "super_admin"
  BY DEF IInv, AtLeastOneSuper, Exists, Super
<1> SUFFICES \E u \in User : pwd'[u] # None /\ role'[u] = "super_admin"
  BY DEF AtLeastOneSuper, Exists, Super
<1>2. CASE UNCHANGED <<pwd, role>>
  BY <1>1, <1>2
<1>3. ASSUME NEW r \in requests, DeleteAdmin(r)
      PROVE  pwd'[w] # None /\ role'[w] = "super_admin"
  <2>1. r.target \in User /\ role[r.target] # "super_admin"
    BY <1>0, <1>3, RequestTypes DEF DeleteAdmin, MayDelete, Super
  <2> QED
    BY <1>0, <1>1, <1>3, <2>1 DEF DeleteAdmin, TypeOK
<1>4. ASSUME NEW r \in requests, CreateAdmin(r)
      PROVE  pwd'[w] # None /\ role'[w] = "super_admin"
  BY <1>0, <1>1, <1>4, NewPassword DEF CreateAdmin, TypeOK
<1>5. ASSUME NEW r \in requests, UpdateAdminAccess(r)
      PROVE  \E u \in User : pwd'[u] # None /\ role'[u] = "super_admin"
  <2>1. r.target \in User /\ pwd[r.target] # None
    BY <1>0, <1>5, RequestTypes DEF UpdateAdminAccess, Exists
  <2>2. CASE r.role = "super_admin"
    BY <1>0, <1>5, <2>1, <2>2 DEF UpdateAdminAccess, TypeOK
  <2>3. CASE r.role # "super_admin"
    <3>1. PICK v \in User \ {r.target} : role[v] = "super_admin"
      BY <1>5, <2>3 DEF UpdateAdminAccess, Super
    <3>2. pwd[v] # None
      BY <1>0, <3>1 DEF NoOrphans, Exists
    <3> QED
      BY <1>0, <1>5, <3>1, <3>2 DEF UpdateAdminAccess, TypeOK
  <2> QED
    BY <2>2, <2>3
<1>6. ASSUME NEW r \in requests, ChangePassword(r)
      PROVE  pwd'[w] # None /\ role'[w] = "super_admin"
  BY <1>0, <1>1, <1>6, NewPassword DEF ChangePassword, TypeOK
<1> QED
  BY <1>1, <1>2, <1>3, <1>4, <1>5, <1>6, AccountChanges

\* A count that is over the limit after a step was so before, or a failure was
\* counted that the limit did not allow.
LEMMA NextFailures ==
    ASSUME IInv, [Next]_vars
    PROVE  FailuresWithinLimit'
<1>0. /\ TypeOK /\ FailuresWithinLimit
      /\ Limit \in Nat
  BY AccountsAssumption DEF IInv
<1> DEFINE Kind == {"login", "manage"}
<1>1. ASSUME NEW u \in User, NEW k \in Kind, fails[u][k] < Limit, Fail(u, k)
      PROVE  FailuresWithinLimit'
  BY <1>0, <1>1 DEF Fail, FailuresWithinLimit, TypeOK
<1>2. ASSUME NEW u \in User, NEW k \in Kind, Clear(u, k)
      PROVE  FailuresWithinLimit'
  BY <1>0, <1>2 DEF Clear, FailuresWithinLimit, TypeOK
<1>3. ASSUME NEW u \in User, ResetTwoFactor(u)
      PROVE  FailuresWithinLimit'
  BY <1>0, <1>3 DEF ResetTwoFactor, FailuresWithinLimit, TypeOK
<1>4. CASE UNCHANGED fails
  BY <1>0, <1>4 DEF FailuresWithinLimit
<1>5. \/ UNCHANGED fails
      \/ \E u \in User, k \in Kind : fails[u][k] < Limit /\ Fail(u, k)
      \/ \E u \in User, k \in Kind : Clear(u, k)
      \/ \E u \in User : ResetTwoFactor(u)
  <2>1. ASSUME NEW s \in sessions, BeginFails(s)
        PROVE  \E u \in User, k \in Kind : fails[u][k] < Limit /\ Fail(u, k)
    BY <2>1, SessionFacts DEF BeginFails
  <2>2. ASSUME NEW u \in User, NEW i \in DOMAIN pending[u], FinishFails(u, i)
        PROVE  \E v \in User, k \in Kind : fails[v][k] < Limit /\ Fail(v, k)
    BY <2>2 DEF FinishFails, MayFinish, Limits
  <2> QED
    BY <2>1, <2>2
    DEF Next, AccountStep, CeremonyStep, Submit, CheckPassword, Accept, Refuse,
        DeleteAdmin, CreateAdmin, UpdateAdminAccess, CreateServer, ChangePassword,
        Login, EndSession, Begin, FinishLogin, FinishRegister, FinishAdd,
        FinishRemove, DropPending, ResetLimit, vars
<1> QED
  BY <1>1, <1>2, <1>3, <1>4, <1>5

-----------------------------------------------------------------------------
(* Theorems *)

LEMMA NextIInv == IInv /\ [Next]_vars => IInv'
<1> SUFFICES ASSUME IInv, [Next]_vars PROVE IInv'
  OBVIOUS
<1>1. TypeOK'
  BY NextType
<1>2. TokensUnique' /\ PasswordIsCurrent' /\ MfaEnforced'
  BY NextSessions DEF SessionPart
<1>3. PendingIsCurrent' /\ CeremonyHasRow'
  BY <1>1, NextCeremonies
  DEF TypeOK, CeremonyPart, PendingIsCurrent, CeremonyHasRow, Ceremonies
<1> QED
  BY <1>1, <1>2, <1>3, NextOrphans, NextSuper, NextFailures DEF IInv

LEMMA Inductive == Spec => []IInv
<1> QED
  BY InitIInv, NextIInv, PTL DEF Spec

\* Every table keeps its columns' types, whatever requests, ceremonies and
\* resets overlap.
THEOREM TypeCorrect == Spec => []TypeOK
<1>1. IInv => TypeOK
  BY DEF IInv
<1> QED
  BY <1>1, Inductive, PTL

\* Demotions, deletions and role changes of any number of overlapping requests
\* leave a super admin: updateAdminAccess counts the others in its transaction,
\* deleteAdmin refuses super admins in its own.
THEOREM SuperRemains == Spec => []AtLeastOneSuper
<1>1. IInv => AtLeastOneSuper
  BY DEF IInv
<1> QED
  BY <1>1, Inductive, PTL

\* No session and no ceremony survives the password or the keys it began with,
\* and a deleted account leaves nothing for a later one of its name.
THEOREM CredentialsCurrent == Spec => []CredentialsAreCurrent
<1>1. IInv => CredentialsAreCurrent
  BY DEF IInv, CredentialsAreCurrent
<1> QED
  BY <1>1, Inductive, PTL

\* An account with passkeys has no session that began without one, though a
\* login compares the password before its transaction.
THEOREM SecondFactor == Spec => []MfaEnforced
<1>1. IInv => MfaEnforced
  BY DEF IInv
<1> QED
  BY <1>1, Inductive, PTL

\* No account is charged more failures than the limit.
THEOREM FailuresBounded == Spec => []FailuresWithinLimit
<1>1. IInv => FailuresWithinLimit
  BY DEF IInv
<1> QED
  BY <1>1, Inductive, PTL

\* An account disappears only in deleteAdmin's transaction, which finds the
\* caller's session alive, the caller still a super admin and the target none.
THEOREM DeletionIsAuthorised == Spec => DeletedBySuper
<1>1. ASSUME IInv, [Next]_vars, NEW u \in User, Exists(u), pwd'[u] = None
      PROVE  /\ ~Super(u)
             /\ \E r \in requests : /\ r.kind = "delete" /\ r.target = u
                                    /\ Live(r.token) /\ Super(Owner(r.token))
  <2>0. TypeOK
    BY <1>1 DEF IInv
  <2>1. ASSUME NEW r \in requests, DeleteAdmin(r)
        PROVE  u = r.target
    BY <1>1, <2>0, <2>1 DEF DeleteAdmin, Exists, TypeOK
  <2>2. ASSUME NEW r \in requests, CreateAdmin(r) \/ ChangePassword(r)
        PROVE  FALSE
    BY <1>1, <2>0, <2>2, NewPassword DEF CreateAdmin, ChangePassword, Exists, TypeOK
  <2>3. \A r \in requests : ~UpdateAdminAccess(r)
    BY <1>1 DEF UpdateAdminAccess, Exists
  <2>4. PICK r \in requests : DeleteAdmin(r)
    BY <1>1, <2>2, <2>3, AccountChanges DEF Exists
  <2> QED
    BY <2>1, <2>4 DEF DeleteAdmin, MayDelete
<1>2. IInv /\ [Next]_vars =>
        [\A u \in User : Exists(u) /\ pwd'[u] = None =>
           /\ ~Super(u)
           /\ \E r \in requests : /\ r.kind = "delete" /\ r.target = u
                                  /\ Live(r.token) /\ Super(Owner(r.token))]_vars
  BY <1>1
<1> QED
  BY <1>2, Inductive, PTL DEF Spec, DeletedBySuper

\* A set whose members are all the same has at most one.
LEMMA AtMostOne ==
    ASSUME NEW S, \A x, y \in S : x = y
    PROVE  Cardinality(S) <= 1
<1>1. CASE S = {}
  BY <1>1, FS_EmptySet
<1>2. ASSUME NEW x \in S
      PROVE  Cardinality(S) <= 1
  <2>1. S = {x}
    BY <1>2
  <2> QED
    BY <2>1, FS_Singleton
<1> QED
  BY <1>1, <1>2

\* A change of an account's keys leaves it at most the session it was made in:
\* revokeAfterPasskeyChange spares one token, which is one session's, and the
\* deletion of the account and -reset-2fa spare none.
THEOREM KeyChangeEndsSessions == Spec => KeyChangeRevokes
<1>1. ASSUME IInv, [Next]_vars, NEW u \in User, keys'[u] # keys[u]
      PROVE  Cardinality({s \in sessions' : s.user = u}) <= 1
  <2>0. TypeOK /\ TokensUnique
    BY <1>1 DEF IInv
  <2>1. ASSUME NEW r \in requests, DeleteAdmin(r)
        PROVE  \A s \in sessions' : s.user # u
    <3>1. r.target = u
      BY <1>1, <2>0, <2>1, RequestTypes DEF DeleteAdmin, Forget, TypeOK
    <3> QED
      BY <2>1, <3>1 DEF DeleteAdmin, Others
  <2>2. ASSUME NEW v \in User, NEW token, NEW all, RevokeAfterChange(v, token, all),
               \E S : keys' = [keys EXCEPT ![v] = S]
        PROVE  \E t : \A s \in sessions' : s.user = u => s \in sessions /\ s.token = t
    <3>1. u = v
      BY <1>1, <2>0, <2>2 DEF TypeOK
    <3> QED
      BY <2>2, <3>1 DEF RevokeAfterChange
  <2>3. \/ \E r \in requests : DeleteAdmin(r)
        \/ \E v \in User : \E token, all : /\ RevokeAfterChange(v, token, all)
                                           /\ \E S : keys' = [keys EXCEPT ![v] = S]
    <3>1. ASSUME NEW v \in User, NEW i \in DOMAIN pending[v],
                 FinishRegister(v, i) \/ FinishRemove(v, i)
          PROVE  \E token, all : /\ RevokeAfterChange(v, token, all)
                                 /\ \E S : keys' = [keys EXCEPT ![v] = S]
      BY <3>1 DEF FinishRegister, FinishRemove
    <3>2. ASSUME NEW v \in User, ResetTwoFactor(v)
          PROVE  \E token, all : /\ RevokeAfterChange(v, token, all)
                                 /\ \E S : keys' = [keys EXCEPT ![v] = S]
      BY <3>2 DEF ResetTwoFactor
    <3> QED
      BY <1>1, <3>1, <3>2
      DEF Next, AccountStep, CeremonyStep, Submit, CheckPassword, Accept, Refuse,
          CreateAdmin, UpdateAdminAccess, CreateServer, ChangePassword, Login,
          EndSession, Begin, BeginFails, FinishLogin, FinishAdd, FinishFails,
          DropPending, ResetLimit, vars
  <2>4. \E t : \A s \in sessions' : s.user = u => s \in sessions /\ s.token = t
    BY <2>1, <2>2, <2>3
  <2>5. \A x, y \in {s \in sessions' : s.user = u} : x = y
    BY <2>0, <2>4 DEF TokensUnique
  <2> QED
    BY <2>5, AtMostOne
<1>2. IInv /\ [Next]_vars =>
        [\A u \in User : keys'[u] # keys[u] =>
           Cardinality({s \in sessions' : s.user = u}) <= 1]_vars
  BY <1>1
<1> QED
  BY <1>2, Inductive, PTL DEF Spec, KeyChangeRevokes
=============================================================================
