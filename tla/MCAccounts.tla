----------------------------- MODULE MCAccounts -----------------------------
(***************************************************************************)
(* Two accounts in two scenes.  roles: no passkeys, one server, and two    *)
(* requests that overlap.  keys: two passkeys between the accounts, of     *)
(* which one may be deleted in the middle of a ceremony, and one request   *)
(* at a time, which changes neither roles nor assignments.                 *)
(***************************************************************************)
EXTENDS Accounts, TLC

CONSTANTS root, ann, srv, k1, k2

VARIABLE scene

Pair == {root, ann}
JustAnn == {ann}
OneServer == {srv}
TwoKeys == {k1, k2}

\* Passkeys are told apart only by equality.
KeySymmetry == Permutations(TwoKeys)

sceneVars == <<vars, scene>>

Roles == scene = "roles" /\ UNCHANGED scene
Keys  == scene = "keys" /\ UNCHANGED scene

\* A request of the scene keys.
OneRequest ==
    /\ Cardinality(requests') <= 1
    /\ \A r \in requests' : r.kind \notin {"server", "access"}
    /\ \A u \in User : pwd'[u] <= 2
Either == Roles \/ (Keys /\ OneRequest)

SceneInit == Init /\ scene \in {"roles", "keys"}

\* One disjunct per action of Next.  The scene roles has no ceremonies.
SceneNext ==
    \/ Submit /\ Either
    \/ CheckPassword /\ Either
    \/ (\E r \in requests : Refuse(r)) /\ Either
    \/ (\E r \in requests : DeleteAdmin(r)) /\ Either
    \/ (\E r \in requests : CreateAdmin(r)) /\ Either
    \/ (\E r \in requests : UpdateAdminAccess(r)) /\ Roles
    \/ (\E r \in requests : CreateServer(r)) /\ Roles
    \/ (\E r \in requests : ChangePassword(r)) /\ Either
    \/ (\E r \in requests : Login(r)) /\ Either
    \/ EndSession /\ Either
    \/ (\E s \in sessions : Begin(s)) /\ Keys
    \/ (\E s \in sessions : BeginFails(s)) /\ Keys
    \/ (\E u \in User : \E i \in DOMAIN pending[u] : FinishLogin(u, i)) /\ Keys
    \/ (\E u \in User : \E i \in DOMAIN pending[u] : FinishRegister(u, i)) /\ Keys
    \/ (\E u \in User : \E i \in DOMAIN pending[u] : FinishAdd(u, i)) /\ Keys
    \/ (\E u \in User : \E i \in DOMAIN pending[u] : FinishRemove(u, i)) /\ Keys
    \/ (\E u \in User : \E i \in DOMAIN pending[u] : FinishFails(u, i)) /\ Keys
    \/ (\E u \in User : \E i \in DOMAIN pending[u] : DropPending(u, i)) /\ Keys
    \/ (\E u \in User : ResetTwoFactor(u)) /\ Keys
    \/ (\E u \in User, k \in {"login", "manage"} : ResetLimit(u, k)) /\ Keys

SceneSpec == SceneInit /\ [][SceneNext]_sceneVars
=============================================================================
