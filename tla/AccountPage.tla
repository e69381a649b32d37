----------------------------- MODULE AccountPage -----------------------------
(* The administrator list of the console (web/src/AccountSettings.tsx),      *)
(* as one super administrator uses it.  The list is loaded once and then     *)
(* patched with the outcome of each change; nothing refreshes it.  Dialogs   *)
(* are modal: while one is open nothing behind it can be clicked, so modal   *)
(* and deleting of the code are one variable here.                           *)
(*                                                                           *)
(* The operator's own account and a change of the operator's own role are    *)
(* left out, passwords are only right or wrong, and a form that fails its    *)
(* own validation sends nothing and is no step.                              *)
EXTENDS Console

CONSTANT User    \* the other accounts

VARIABLES
    stored,     \* server: the accounts, None for none
    alive,      \* server: servers that are registered and not revoked
    rows,       \* admins: what is listed under each name, several rows perhaps
    load,       \* the live run of the loading effect; loading is load # None
    loadError,
    modal,      \* the open dialog with its own state
    put,        \* the request under way; busy of its dialog is saving here
    mine        \* history: what the operator last did to an account since the list
                \* was asked for, and whether it was loaded then

accountVars == <<stored, alive, rows, load, loadError, modal, put, mine>>

Admin == [role : {"admin", "super_admin"}, ids : SUBSET Server]
Entry == Admin \cup {None}
Dialog ==
    [kind : {"password", "create"}]
        \cup [kind : {"delete"}, user : User]
        \cup [kind : {"access"}, user : User, draft : Admin, review : BOOLEAN]
Load == [phase : {"asked", "answered", "failed"}, got : [User -> Entry]]
Put == [phase : {"sent", "done", "failed"}, kind : {"password", "create", "delete", "access"},
        user : User \cup {None}, draft : Entry]
Deed == [kind : {"create", "delete", "access"}, draft : Entry, loaded : BOOLEAN]

AccountTypeOK ==
    /\ stored \in [User -> Entry] /\ alive \subseteq Server
    /\ rows \in [User -> SUBSET Admin] /\ load \in Load \cup {None} /\ loadError \in BOOLEAN
    /\ modal \in Dialog \cup {None} /\ put \in Put \cup {None}
    /\ mine \in [User -> Deed \cup {None}]

loading == load # None
saving == put # None
NewAdmin == [role |-> "admin", ids |-> {}]
Nobody == [u \in User |-> None]
Unlisted == [u \in User |-> {}]

-----------------------------------------------------------------------------
(* The server: each change is one transaction that checks what it needs.    *)

Created(u) == stored[u] = None /\ stored' = [stored EXCEPT ![u] = NewAdmin]

Deleted(u) ==
    /\ stored[u] # None /\ stored[u].role # "super_admin"
    /\ stored' = [stored EXCEPT ![u] = None]

\* Every server named must be alive, also those of a super administrator.
AccessSet(u, access) ==
    /\ stored[u] # None /\ access.ids \subseteq alive
    /\ stored' = [stored EXCEPT ![u] = access]

\* Other administrators, requests this page gave up on, and createServer, which
\* assigns a new server to every plain administrator.
OtherAdmin ==
    /\ \/ \E u \in User : Created(u) \/ Deleted(u)
       \/ \E u \in User, access \in Admin : AccessSet(u, access) /\ stored' # stored
    /\ UNCHANGED <<alive, rows, load, loadError, modal, put, mine>>

ServerRegistered(s) ==
    /\ s \notin alive /\ alive' = alive \cup {s}
    /\ \/ stored' = stored
       \/ stored' = [u \in User |-> IF stored[u] # None /\ stored[u].role = "admin"
                                    THEN [stored[u] EXCEPT !.ids = @ \cup {s}] ELSE stored[u]]
    /\ UNCHANGED <<rows, load, loadError, modal, put, mine>>

\* A revoked server stays in the assignments.
ServerRevoked(s) ==
    /\ s \in alive /\ alive' = alive \ {s}
    /\ UNCHANGED <<stored, rows, load, loadError, modal, put, mine>>

AnswerLoad ==
    /\ loading /\ load.phase = "asked"
    /\ load' = [phase |-> "answered", got |-> stored]
    /\ UNCHANGED <<stored, alive, rows, loadError, modal, put, mine>>

FailLoad ==
    /\ loading /\ load.phase = "asked"
    /\ load' = [load EXCEPT !.phase = "failed"]
    /\ UNCHANGED <<stored, alive, rows, loadError, modal, put, mine>>

AnswerPut ==
    /\ saving /\ put.phase = "sent"
    /\ \/ /\ CASE put.kind = "create" -> Created(put.user)
               [] put.kind = "delete" -> Deleted(put.user)
               [] put.kind = "access" -> AccessSet(put.user, put.draft)
               [] put.kind = "password" -> UNCHANGED stored
          /\ put' = [put EXCEPT !.phase = "done"]
       \/ /\ put' = [put EXCEPT !.phase = "failed"]    \* refused, or never arrived
          /\ UNCHANGED stored
    /\ UNCHANGED <<alive, rows, load, loadError, modal, mine>>

\* The answer is lost on its way.
LosePut ==
    /\ saving /\ put.phase = "done"
    /\ put' = [put EXCEPT !.phase = "failed"]
    /\ UNCHANGED <<stored, alive, rows, load, loadError, modal, mine>>

-----------------------------------------------------------------------------
(* The list.                                                                *)

AskAccounts == [phase |-> "asked", got |-> Nobody]

ApplyLoad ==
    /\ loading /\ load.phase # "asked"
    /\ \/ /\ load.phase = "answered"
          /\ rows' = [u \in User |-> {load.got[u]} \ {None}]
          /\ loadError' = FALSE
       \/ /\ load.phase = "failed"
          /\ loadError' = TRUE
          /\ UNCHANGED rows
    /\ load' = None
    /\ UNCHANGED <<stored, alive, modal, put, mine>>

\* The effect runs again: an answer to its older run is ignored.
RetryList ==
    /\ loadError /\ modal = None
    /\ load' = AskAccounts
    /\ mine' = Nobody
    /\ UNCHANGED <<stored, alive, rows, loadError, modal, put>>

-----------------------------------------------------------------------------
(* The dialogs.                                                             *)

open(d) ==
    /\ modal = None
    /\ modal' = d
    /\ UNCHANGED <<stored, alive, rows, load, loadError, put, mine>>

OpenForm == \E kind \in {"password", "create"} : open([kind |-> kind])

\* The rows and their buttons are there only when the list has been loaded.
OpenDelete(u) ==
    /\ ~loading
    /\ \E row \in rows[u] : row.role # "super_admin"
    /\ open([kind |-> "delete", user |-> u])

\* Mutant of OpenAccess: the rows stay usable while the list is loaded again.
OpenAccessAnyTime(u) ==
    \E row \in rows[u] :
      open([kind |-> "access", user |-> u, draft |-> row, review |-> FALSE])

OpenAccess(u) ==
    /\ ~loading
    /\ \E row \in rows[u] :
         open([kind |-> "access", user |-> u, draft |-> row, review |-> FALSE])

Editor == modal # None /\ modal.kind = "access" /\ ~saving

\* Role and checkboxes; there is a checkbox only for a server that is listed.
EditAccess ==
    /\ Editor /\ ~modal.review
    /\ \/ \E r \in {"admin", "super_admin"} :
             r # modal.draft.role /\ modal' = [modal EXCEPT !.draft.role = r]
       \/ \E s \in alive :
             /\ modal.draft.role = "admin"
             /\ modal' = [modal EXCEPT !.draft.ids =
                             IF s \in @ THEN @ \ {s} ELSE @ \cup {s}]
    /\ UNCHANGED <<stored, alive, rows, load, loadError, put, mine>>

Review ==
    /\ Editor /\ ~modal.review
    /\ modal' = [modal EXCEPT !.review = TRUE]
    /\ UNCHANGED <<stored, alive, rows, load, loadError, put, mine>>

Back ==
    /\ Editor /\ modal.review
    /\ modal' = [modal EXCEPT !.review = FALSE]
    /\ UNCHANGED <<stored, alive, rows, load, loadError, put, mine>>

Close ==
    /\ modal # None /\ ~saving
    /\ modal' = None
    /\ UNCHANGED <<stored, alive, rows, load, loadError, put, mine>>

Send(kind, u, draft) ==
    /\ modal # None /\ modal.kind = kind /\ ~saving
    /\ put' = [phase |-> "sent", kind |-> kind, user |-> u, draft |-> draft]
    /\ UNCHANGED <<stored, alive, rows, load, loadError, modal, mine>>

SubmitForm == Send("password", None, None) \/ \E u \in User : Send("create", u, None)
ConfirmDelete == Send("delete", modal.user, None)
SubmitAccess == Editor /\ modal.review /\ Send("access", modal.user, modal.draft)

PutFailed ==
    /\ saving /\ put.phase = "failed"
    /\ put' = None
    /\ UNCHANGED <<stored, alive, rows, load, loadError, modal, mine>>

\* The list is patched under the name of the account, and the dialog closes.
Patch(patched) ==
    /\ rows' = [rows EXCEPT ![put.user] = patched]
    /\ mine' = [mine EXCEPT ![put.user] =
                   [kind |-> put.kind, draft |-> put.draft, loaded |-> ~loading]]
    /\ put' = None /\ modal' = None
    /\ UNCHANGED <<stored, alive, load, loadError>>

\* A row is appended, beside one of that name that another administrator has
\* deleted since; a list asked for earlier may still be under way.
onCreated ==
    /\ saving /\ put.phase = "done" /\ put.kind = "create"
    /\ Patch(rows[put.user] \cup {NewAdmin})

onDeleted ==
    /\ saving /\ put.phase = "done" /\ put.kind = "delete"
    /\ Patch({})

\* Every row of the name is replaced.
onSaved ==
    /\ saving /\ put.phase = "done" /\ put.kind = "access"
    /\ Patch({put.draft : row \in rows[put.user]})

\* The page is unmounted: another view, or the end of the login at any time, for
\* instance by the change of the own password.  Mounted again it starts anew; a
\* request under way may still reach the server (OtherAdmin).
LeaveList ==
    /\ rows' = Unlisted /\ load' = AskAccounts /\ loadError' = FALSE
    /\ modal' = None /\ put' = None /\ mine' = Nobody
    /\ UNCHANGED <<stored, alive>>

-----------------------------------------------------------------------------
AccountInit ==
    /\ stored = Nobody /\ alive = Server
    /\ rows = Unlisted /\ load = AskAccounts /\ loadError = FALSE
    /\ modal = None /\ put = None /\ mine = Nobody

AccountNext ==
    \/ OtherAdmin \/ \E s \in Server : ServerRegistered(s) \/ ServerRevoked(s)
    \/ AnswerLoad \/ FailLoad \/ AnswerPut \/ LosePut
    \/ ApplyLoad \/ RetryList
    \/ OpenForm \/ \E u \in User : OpenDelete(u) \/ OpenAccess(u)
    \/ EditAccess \/ Review \/ Back \/ Close
    \/ SubmitForm \/ ConfirmDelete \/ SubmitAccess
    \/ PutFailed \/ onCreated \/ onDeleted \/ onSaved \/ LeaveList

AccountSpec == AccountInit /\ [][AccountNext]_accountVars

-----------------------------------------------------------------------------
(* Properties.                                                              *)

\* Until the operator loads the list again it shows what the operator did: no
\* answer that is still under way brings a deleted account or an older access
\* back, because both dialogs open only on a loaded list, and no stale row keeps
\* it; a new account is listed if the list was loaded when it was made.
OwnChangesShown ==
    \A u \in User :
      mine[u] # None =>
        /\ mine[u].kind = "delete" => rows[u] = {}
        /\ mine[u].kind = "access" => rows[u] = {mine[u].draft}
        /\ mine[u].kind = "create" /\ mine[u].loaded => NewAdmin \in rows[u]

\* A new account is listed once the console has said that it was made
\* (tests/browser/dashboard.spec.ts:127-128).  The code does not keep this: the
\* form may be sent while the list is being loaded, and an answer from before
\* the creation takes the row away (README.md, section 5).  No run asks it.
CreatedIsListed ==
    \A u \in User :
      mine[u] # None /\ mine[u].kind = "create" /\ ~loading => NewAdmin \in rows[u]

=============================================================================
