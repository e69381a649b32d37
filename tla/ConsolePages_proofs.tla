------------------------ MODULE ConsolePages_proofs ------------------------
(***************************************************************************)
(* Theorems about the pages of the console, for every set of accounts,     *)
(* servers, passkeys and sessions: first each page by itself, then the     *)
(* pages side by side, where the theorems of every page hold because a     *)
(* step of one is a step of it or leaves it alone.                         *)
(***************************************************************************)
EXTENDS ConsolePages, FirewallPage_proofs, FiniteSetTheorems, TLAPS

-----------------------------------------------------------------------------
(* The list of administrators. It shows what the operator did, for every   *)
(* set of accounts and servers. The argument: only a loaded list can be    *)
(* changed by a dialog about an account, a list that is being loaded has   *)
(* nothing of the operator in it but new accounts, and the request under   *)
(* way is about the open dialog.                                           *)

\* While the list is loading the operator can only have made accounts.
LoadInv ==
    loading => \A u \in User : mine[u] # None => mine[u].kind = "create" /\ ~mine[u].loaded

\* The dialogs about an account stay open on the list they were opened on.
ModalInv ==
    modal # None =>
        /\ modal.kind \in {"delete", "access"} => ~loading
        /\ modal.kind = "access" => rows[modal.user] # {}

\* The request under way is that of the open dialog.
PutInv ==
    saving =>
        /\ modal # None /\ modal.kind = put.kind
        /\ put.kind # "password" => put.user \in User
        /\ put.kind \in {"delete", "access"} => put.user = modal.user
        /\ put.kind = "access" => put.draft \in Admin

AccountInv == AccountTypeOK /\ LoadInv /\ ModalInv /\ PutInv /\ OwnChangesShown

-----------------------------------------------------------------------------
(* What the definitions of the dialogs and of the server give.             *)

LEMMA ModalFields ==
    ASSUME modal \in Dialog
    PROVE  /\ modal.kind \in {"password", "create", "delete", "access"}
           /\ modal.kind \in {"delete", "access"} => modal.user \in User
           /\ modal.kind = "access" =>
                  /\ modal = [kind |-> "access", user |-> modal.user,
                              draft |-> modal.draft, review |-> modal.review]
                  /\ modal.draft \in Admin /\ modal.review \in BOOLEAN
BY DEF Dialog

\* A change of the accounts keeps them accounts.
LEMMA StoredType ==
    ASSUME stored \in [User -> Entry], NEW u \in User, NEW access \in Entry,
           Created(u) \/ Deleted(u) \/ AccessSet(u, access)
    PROVE  stored' \in [User -> Entry]
<1>1. NewAdmin \in Entry /\ None \in Entry
  BY DEF NewAdmin, Entry, Admin
<1> QED
  BY <1>1 DEF Created, Deleted, AccessSet

-----------------------------------------------------------------------------
(* The server and the network change neither the list nor a dialog.        *)

LEMMA OtherAdminKeepsInv == AccountInv /\ OtherAdmin => AccountInv'
<1> SUFFICES ASSUME AccountInv, OtherAdmin PROVE AccountInv'
  OBVIOUS
<1>1. stored' \in [User -> Entry]
  <2>1. ASSUME NEW u \in User, Created(u) \/ Deleted(u) PROVE stored' \in [User -> Entry]
    BY <2>1, StoredType, None \in Entry DEF AccountInv, AccountTypeOK, Entry
  <2>2. ASSUME NEW u \in User, NEW access \in Admin, AccessSet(u, access)
        PROVE  stored' \in [User -> Entry]
    BY <2>2, StoredType, access \in Entry DEF AccountInv, AccountTypeOK, Entry
  <2> QED
    BY <2>1, <2>2 DEF OtherAdmin
<1> QED
  BY <1>1 DEF OtherAdmin, AccountInv, AccountTypeOK, LoadInv, ModalInv, PutInv, OwnChangesShown, loading, saving

LEMMA ServerKeepsInv ==
    ASSUME AccountInv, NEW s \in Server, ServerRegistered(s) \/ ServerRevoked(s)
    PROVE  AccountInv'
<1>1. alive' \subseteq Server
  BY DEF ServerRegistered, ServerRevoked, AccountInv, AccountTypeOK
<1>2. stored' \in [User -> Entry]
  <2>1. ASSUME NEW u \in User, stored[u] # None
        PROVE  [stored[u] EXCEPT !.ids = @ \cup {s}] \in Entry
    <3>1. stored[u] \in Admin
      BY <2>1 DEF AccountInv, AccountTypeOK, Entry
    <3> QED
      BY <3>1 DEF Admin, Entry
  <2> QED
    BY <2>1 DEF ServerRegistered, ServerRevoked, AccountInv, AccountTypeOK
<1> QED
  BY <1>1, <1>2 DEF ServerRegistered, ServerRevoked, AccountInv, AccountTypeOK, LoadInv, ModalInv, PutInv,
                    OwnChangesShown, loading, saving

LEMMA LoadAnswerKeepsInv == AccountInv /\ (AnswerLoad \/ FailLoad) => AccountInv'
<1> SUFFICES ASSUME AccountInv, AnswerLoad \/ FailLoad PROVE AccountInv'
  OBVIOUS
<1>1. load' \in Load
  <2>1. load \in Load
    BY DEF AccountInv, AccountTypeOK, AnswerLoad, FailLoad, loading
  <2> QED
    BY <2>1 DEF AccountInv, AccountTypeOK, AnswerLoad, FailLoad, Load
<1> QED
  BY <1>1 DEF AnswerLoad, FailLoad, AccountInv, AccountTypeOK, LoadInv, ModalInv, PutInv, OwnChangesShown,
              loading, saving

LEMMA PutAnswerKeepsInv == AccountInv /\ (AnswerPut \/ LosePut) => AccountInv'
<1> SUFFICES ASSUME AccountInv, AnswerPut \/ LosePut PROVE AccountInv'
  OBVIOUS
<1>1. put \in Put
  BY DEF AccountInv, AccountTypeOK, AnswerPut, LosePut, saving
<1>2. /\ put' \in Put
      /\ put'.kind = put.kind /\ put'.user = put.user /\ put'.draft = put.draft
  BY <1>1 DEF AnswerPut, LosePut, Put
<1>3. stored' \in [User -> Entry]
  <2>1. CASE stored' = stored
    BY <2>1 DEF AccountInv, AccountTypeOK
  <2>2. CASE stored' # stored
    <3>1. put.kind # "password" /\ put.user \in User
      BY <1>1, <2>2 DEF AnswerPut, LosePut, AccountInv, PutInv, Put
    <3>2. put.draft \in Entry
      BY <1>1 DEF Put
    <3>3. Created(put.user) \/ Deleted(put.user) \/ AccessSet(put.user, put.draft)
      BY <1>1, <2>2, <3>1 DEF AnswerPut, LosePut, Put
    <3> QED
      BY <3>1, <3>2, <3>3, StoredType DEF AccountInv, AccountTypeOK
  <2> QED
    BY <2>1, <2>2
<1>4. PutInv'
  BY <1>2 DEF AnswerPut, LosePut, AccountInv, PutInv, saving
<1> QED
  BY <1>2, <1>3, <1>4 DEF AnswerPut, LosePut, AccountInv, AccountTypeOK, LoadInv, ModalInv, OwnChangesShown,
                          loading

-----------------------------------------------------------------------------
(* The list.                                                               *)

LEMMA AskedIsLoad == AskAccounts \in Load
BY DEF AskAccounts, Load, Nobody, Entry

LEMMA ListKeepsInv == AccountInv /\ (ApplyLoad \/ RetryList \/ LeaveList) => AccountInv'
<1> SUFFICES ASSUME AccountInv, ApplyLoad \/ RetryList \/ LeaveList PROVE AccountInv'
  OBVIOUS
<1>1. CASE ApplyLoad
  <2>1. rows' \in [User -> SUBSET Admin]
    <3>1. load.got \in [User -> Entry]
      BY <1>1 DEF ApplyLoad, AccountInv, AccountTypeOK, loading, Load
    <3>2. \A u \in User : {load.got[u]} \ {None} \subseteq Admin
      BY <3>1 DEF Entry
    <3> QED
      BY <1>1, <3>2 DEF ApplyLoad, AccountInv, AccountTypeOK
  <2>2. \A u \in User : mine[u] # None => mine[u].kind = "create" /\ ~mine[u].loaded
    BY <1>1 DEF ApplyLoad, AccountInv, LoadInv
  <2>3. AccountTypeOK'
    BY <1>1, <2>1 DEF ApplyLoad, AccountInv, AccountTypeOK
  <2>4. modal # None => modal.kind \notin {"delete", "access"}
    BY <1>1 DEF ApplyLoad, AccountInv, ModalInv
  <2> QED
    BY <1>1, <2>2, <2>3, <2>4 DEF ApplyLoad, AccountInv, LoadInv, ModalInv, PutInv, OwnChangesShown,
                                  loading, saving
<1>2. CASE RetryList
  BY <1>2, AskedIsLoad
  DEF RetryList, AccountInv, AccountTypeOK, LoadInv, ModalInv, PutInv, OwnChangesShown, Nobody, loading, saving
<1>3. CASE LeaveList
  BY <1>3, AskedIsLoad
  DEF LeaveList, AccountInv, AccountTypeOK, LoadInv, ModalInv, PutInv, OwnChangesShown, Nobody, Unlisted,
      loading, saving
<1> QED
  BY <1>1, <1>2, <1>3

-----------------------------------------------------------------------------
(* The dialogs.                                                            *)

\* A dialog is opened when none is open, so no request is under way.
LEMMA OpenKeepsInv ==
    ASSUME AccountInv, NEW d \in Dialog, open(d),
           d.kind \in {"delete", "access"} => ~loading,
           d.kind = "access" => rows[d.user] # {}
    PROVE  AccountInv'
BY DEF open, AccountInv, AccountTypeOK, LoadInv, ModalInv, PutInv, OwnChangesShown, loading, saving

\* Editing changes what is in the dialog, not whose it is.
LEMMA EditKeepsInv == AccountInv /\ (EditAccess \/ Review \/ Back) => AccountInv'
<1> SUFFICES ASSUME AccountInv, EditAccess \/ Review \/ Back PROVE AccountInv'
  OBVIOUS
<1>1. modal # None /\ modal.kind = "access" /\ ~saving /\ modal \in Dialog
  BY DEF EditAccess, Review, Back, Editor, AccountInv, AccountTypeOK
<1>2. modal.user \in User /\ modal.draft \in Admin /\ modal.review \in BOOLEAN
  BY <1>1, ModalFields
<1>3. \E d \in Admin, review \in BOOLEAN :
          modal' = [kind |-> "access", user |-> modal.user, draft |-> d, review |-> review]
  <2> DEFINE m == [kind |-> "access", user |-> modal.user, draft |-> modal.draft,
                   review |-> modal.review]
  <2>1. modal = m
    BY <1>1, ModalFields
  <2>2. CASE EditAccess
    <3>1. ASSUME NEW r \in {"admin", "super_admin"}, modal' = [modal EXCEPT !.draft.role = r]
          PROVE  /\ [modal.draft EXCEPT !.role = r] \in Admin
                 /\ modal' = [m EXCEPT !.draft = [modal.draft EXCEPT !.role = r]]
      BY <1>2, <2>1, <3>1 DEF Admin
    <3>2. ASSUME NEW s \in alive,
                 modal' = [modal EXCEPT !.draft.ids = IF s \in @ THEN @ \ {s} ELSE @ \cup {s}]
          PROVE  \E ids \in SUBSET Server :
                    /\ [modal.draft EXCEPT !.ids = ids] \in Admin
                    /\ modal' = [m EXCEPT !.draft = [modal.draft EXCEPT !.ids = ids]]
      <4> DEFINE ids == IF s \in modal.draft.ids THEN modal.draft.ids \ {s}
                                                 ELSE modal.draft.ids \cup {s}
      <4>1. ids \in SUBSET Server /\ [modal.draft EXCEPT !.ids = ids] \in Admin
        BY <1>2 DEF Admin, AccountInv, AccountTypeOK
      <4>2. modal' = [m EXCEPT !.draft = [modal.draft EXCEPT !.ids = ids]]
        BY <1>2, <2>1, <3>2 DEF Admin
      <4> QED
        BY <4>1, <4>2
    <3> QED
      BY <1>2, <2>2, <3>1, <3>2 DEF EditAccess
  <2>3. CASE Review \/ Back
    <3>1. PICK review \in BOOLEAN : modal' = [m EXCEPT !.review = review]
      BY <2>1, <2>3 DEF Review, Back
    <3> QED
      BY <1>2, <3>1
  <2> QED
    BY <2>2, <2>3
<1>4. modal' \in Dialog /\ modal'.kind = "access" /\ modal'.user = modal.user
  BY <1>2, <1>3 DEF Dialog
<1> QED
  BY <1>1, <1>4 DEF EditAccess, Review, Back, AccountInv, AccountTypeOK, LoadInv, ModalInv, PutInv,
                    OwnChangesShown, loading, saving

LEMMA CloseKeepsInv == AccountInv /\ Close => AccountInv'
BY DEF Close, AccountInv, AccountTypeOK, LoadInv, ModalInv, PutInv, OwnChangesShown, loading, saving

\* A request is sent for the open dialog.
LEMMA PutKeepsInv ==
    ASSUME AccountInv, NEW kind \in {"password", "create", "delete", "access"},
           NEW u \in User \cup {None}, NEW entry \in Entry, Send(kind, u, entry),
           kind # "password" => u \in User,
           kind \in {"delete", "access"} => u = modal.user,
           kind = "access" => entry \in Admin
    PROVE  AccountInv'
<1>1. put' \in Put /\ put'.kind = kind /\ put'.user = u /\ put'.draft = entry
  BY DEF Send, Put
<1> QED
  BY <1>1 DEF Send, AccountInv, AccountTypeOK, LoadInv, ModalInv, PutInv, OwnChangesShown, loading, saving

LEMMA PutFailedKeepsInv == AccountInv /\ PutFailed => AccountInv'
BY DEF PutFailed, AccountInv, AccountTypeOK, LoadInv, ModalInv, PutInv, OwnChangesShown, loading, saving

-----------------------------------------------------------------------------
(* The outcome of a change is patched into the list.                       *)

LEMMA PatchKeepsInv == AccountInv /\ (onCreated \/ onDeleted \/ onSaved) => AccountInv'
<1> SUFFICES ASSUME AccountInv, onCreated \/ onDeleted \/ onSaved PROVE AccountInv'
  OBVIOUS
<1>1. put \in Put /\ put.user \in User
  BY DEF onCreated, onDeleted, onSaved, saving, AccountInv, AccountTypeOK, PutInv
<1>2. PICK patched \in SUBSET Admin :
          /\ Patch(patched)
          /\ \/ put.kind = "create" /\ NewAdmin \in patched
             \/ put.kind = "delete" /\ patched = {}
             \/ put.kind = "access" /\ patched = {put.draft}
  <2>1. CASE onCreated
    <3>1. rows[put.user] \cup {NewAdmin} \in SUBSET Admin
      BY <1>1 DEF NewAdmin, Admin, AccountInv, AccountTypeOK
    <3> QED
      BY <2>1, <3>1 DEF onCreated
  <2>2. CASE onDeleted
    BY <2>2 DEF onDeleted
  <2>3. CASE onSaved
    <3>1. rows[put.user] # {} /\ put.draft \in Admin
      BY <2>3 DEF onSaved, AccountInv, PutInv, ModalInv
    <3>2. {put.draft : row \in rows[put.user]} = {put.draft}
      BY <3>1
    <3> QED
      BY <2>3, <3>1, <3>2 DEF onSaved
  <2> QED
    BY <2>1, <2>2, <2>3
<1>3. put.kind \in {"delete", "access"} => ~loading
  BY DEF onCreated, onDeleted, onSaved, AccountInv, PutInv, ModalInv
<1> DEFINE deed == [kind |-> put.kind, draft |-> put.draft, loaded |-> ~loading]
<1>4. deed \in Deed
  BY <1>1, <1>2 DEF Put, Deed, loading
<1>5. /\ rows' = [rows EXCEPT ![put.user] = patched] /\ rows' \in [User -> SUBSET Admin]
      /\ mine' = [mine EXCEPT ![put.user] = deed] /\ mine' \in [User -> Deed \cup {None}]
  BY <1>1, <1>2, <1>4 DEF Patch, AccountInv, AccountTypeOK
<1>6. OwnChangesShown' /\ LoadInv'
  <2>1. ASSUME NEW u \in User, u # put.user PROVE rows'[u] = rows[u] /\ mine'[u] = mine[u]
    BY <1>5, <2>1 DEF AccountInv, AccountTypeOK
  <2>2. rows'[put.user] = patched /\ mine'[put.user] = deed
    BY <1>1, <1>5 DEF AccountInv, AccountTypeOK
  <2>3. loading' = loading
    BY <1>2 DEF Patch, loading
  <2> HIDE DEF deed
  <2>4. OwnChangesShown'
    <3>1. deed.kind = put.kind /\ deed.draft = put.draft
      BY DEF deed
    <3>2. ASSUME NEW u \in User, mine'[u] # None, u # put.user
          PROVE  /\ mine'[u].kind = "delete" => rows'[u] = {}
                 /\ mine'[u].kind = "access" => rows'[u] = {mine'[u].draft}
                 /\ mine'[u].kind = "create" /\ mine'[u].loaded => NewAdmin \in rows'[u]
      BY <2>1, <3>2 DEF AccountInv, OwnChangesShown
    <3>3. /\ mine'[put.user].kind = "delete" => rows'[put.user] = {}
          /\ mine'[put.user].kind = "access" => rows'[put.user] = {mine'[put.user].draft}
          /\ mine'[put.user].kind = "create" => NewAdmin \in rows'[put.user]
      BY <1>2, <2>2, <3>1
    <3> QED
      BY <3>2, <3>3 DEF OwnChangesShown, NewAdmin
  <2>5. LoadInv'
    <3>1. deed.kind = put.kind /\ deed.loaded = ~loading
      BY DEF deed
    <3> QED
      BY <1>2, <1>3, <2>1, <2>2, <2>3, <3>1 DEF AccountInv, LoadInv
  <2> QED
    BY <2>4, <2>5
<1>7. AccountTypeOK'
  BY <1>2, <1>5 DEF Patch, AccountInv, AccountTypeOK
<1>8. ModalInv' /\ PutInv'
  BY <1>2 DEF Patch, ModalInv, PutInv, saving
<1> QED
  BY <1>6, <1>7, <1>8 DEF AccountInv

-----------------------------------------------------------------------------
LEMMA AccountInitInv == AccountInit => AccountInv
<1> SUFFICES ASSUME AccountInit PROVE AccountInv
  OBVIOUS
<1>1. AccountTypeOK
  BY AskedIsLoad DEF AccountInit, AccountTypeOK, Nobody, Unlisted, Entry
<1> QED
  BY <1>1 DEF AccountInit, AccountInv, LoadInv, ModalInv, PutInv, OwnChangesShown, Nobody, saving

LEMMA AccountNextInv == AccountInv /\ [AccountNext]_accountVars => AccountInv'
<1> SUFFICES ASSUME AccountInv, [AccountNext]_accountVars PROVE AccountInv'
  OBVIOUS
<1>1. CASE OpenForm
  <2>1. PICK kind \in {"password", "create"} : open([kind |-> kind])
    BY <1>1 DEF OpenForm
  <2>2. [kind |-> kind] \in Dialog
    BY DEF Dialog
  <2> QED
    BY <2>1, <2>2, OpenKeepsInv
<1>2. ASSUME NEW u \in User, OpenDelete(u) PROVE AccountInv'
  <2>1. [kind |-> "delete", user |-> u] \in Dialog
    BY DEF Dialog
  <2> QED
    BY <1>2, <2>1, OpenKeepsInv DEF OpenDelete
<1>3. ASSUME NEW u \in User, OpenAccess(u) PROVE AccountInv'
  <2>1. PICK row \in rows[u] :
            open([kind |-> "access", user |-> u, draft |-> row, review |-> FALSE])
    BY <1>3 DEF OpenAccess
  <2>2. [kind |-> "access", user |-> u, draft |-> row, review |-> FALSE] \in Dialog
    BY DEF Dialog, AccountInv, AccountTypeOK
  <2>3. ~loading /\ rows[u] # {}
    BY <1>3 DEF OpenAccess
  <2> QED
    BY <2>1, <2>2, <2>3, OpenKeepsInv
<1>4. CASE SubmitForm
  <2>1. None \in Entry
    BY DEF Entry
  <2>2. CASE Send("password", None, None)
    BY <2>1, <2>2, PutKeepsInv
  <2>3. ASSUME NEW u \in User, Send("create", u, None) PROVE AccountInv'
    BY <2>1, <2>3, PutKeepsInv
  <2> QED
    BY <1>4, <2>2, <2>3 DEF SubmitForm
<1>5. CASE ConfirmDelete \/ SubmitAccess
  <2>1. modal \in Dialog /\ modal.kind \in {"delete", "access"}
    BY <1>5 DEF ConfirmDelete, SubmitAccess, Send, AccountInv, AccountTypeOK
  <2>2. modal.user \in User /\ None \in Entry /\ (modal.kind = "access" => modal.draft \in Entry)
    BY <2>1, ModalFields DEF Entry
  <2>3. CASE ConfirmDelete
    BY <2>2, <2>3, PutKeepsInv DEF ConfirmDelete
  <2>4. CASE SubmitAccess
    <3>1. /\ modal.draft \in Admin /\ modal.draft \in Entry
          /\ Send("access", modal.user, modal.draft)
      BY <2>1, <2>2, <2>4, ModalFields DEF SubmitAccess, Editor
    <3> QED
      BY <2>2, <3>1, PutKeepsInv
  <2> QED
    BY <1>5, <2>3, <2>4
<1>6. CASE UNCHANGED accountVars
  BY <1>6 DEF accountVars, AccountInv, AccountTypeOK, LoadInv, ModalInv, PutInv, OwnChangesShown, loading, saving
<1> QED
  BY <1>1, <1>2, <1>3, <1>4, <1>5, <1>6, OtherAdminKeepsInv, ServerKeepsInv, LoadAnswerKeepsInv,
     PutAnswerKeepsInv, ListKeepsInv, EditKeepsInv, CloseKeepsInv, PutFailedKeepsInv,
     PatchKeepsInv
  DEF AccountNext

\* Until the operator loads the list again it shows what the operator did, for
\* any number of accounts and servers and whatever other administrators do.
THEOREM OwnChangesStay == AccountSpec => []OwnChangesShown
<1>1. AccountInv => OwnChangesShown
  BY DEF AccountInv
<1> QED
  BY AccountInitInv, AccountNextInv, <1>1, PTL DEF AccountSpec

-----------------------------------------------------------------------------
(* The passkey panel. The dialog announces the logout exactly when the     *)
(* change brings it, for every finite set of keys. The argument: a panel   *)
(* that could know the keys knows them, unless its own change is waiting   *)
(* to be read; and a dialog is never open while the list is loading, so    *)
(* that what it announced stands until the change is done.                 *)

\* A dialog belongs to a loaded list.
ActionInv ==
    act # None => ~asking /\ (act.action = "delete" => act.target \in keys)

\* A change under way belongs to a dialog; only an addition registers a key.
StepInv ==
    working =>
        /\ act # None
        /\ step.at = "register" => act.action = "add"
        /\ step.phase = "passed" /\ step.next = "register" => act.action = "add"

Unread == working /\ step.phase = "done"

\* What the panel could know is what is registered.
KnownInv == known /\ session /\ ~asking /\ ~Unread => keys = held

\* So is an answer on its way that no other tab has outdated.
ListInv ==
    asking /\ session /\ listed.phase = "answered" /\ ~listed.outdated => listed.got = held

PasskeyInv == PasskeyTypeOK /\ ActionInv /\ StepInv /\ KnownInv /\ ListInv /\ AnnouncedLogout

-----------------------------------------------------------------------------
LEMMA SentIsStep ==
    ASSUME NEW at \in {"begin", "finish", "register"} PROVE Sent(at) \in Step
BY DEF Sent, Step

LEMMA AskIsListing == AskKeys \in Listing /\ AskKeys.phase = "asked"
BY DEF AskKeys, Listing

LEMMA ActionFields ==
    ASSUME NEW a \in Action
    PROVE  /\ a.action \in {"add", "disable", "delete"}
           /\ a.action = "delete" => a.target \in PassKey
BY DEF Action

\* Taking a key away leaves none exactly when it was the only one.
LEMMA LastKey ==
    ASSUME IsFiniteSet(PassKey), NEW S \in SUBSET PassKey, NEW k \in S
    PROVE  (S \ {k} = {}) <=> Cardinality(S) = 1
<1>1. IsFiniteSet(S)
  BY FS_Subset
<1>2. Cardinality(S) = 1 <=> \E x : S = {x}
  BY <1>1, FS_Singleton
<1> QED
  BY <1>2

-----------------------------------------------------------------------------
(* The server.                                                              *)

LEMMA OthersKeepInv ==
    ASSUME PasskeyInv, NEW new \in SUBSET PassKey, OtherBrowser(new) \/ OtherTab(new)
    PROVE  PasskeyInv'
<1>1. CASE OtherBrowser(new)
  BY <1>1 DEF OtherBrowser, panelVars, PasskeyInv, PasskeyTypeOK, ActionInv, StepInv, KnownInv, ListInv,
              AnnouncedLogout, Announced, disabling, Unread, asking, working
<1>2. CASE OtherTab(new)
  <2>1. /\ listed' \in Listing \cup {None} /\ (asking' <=> asking)
        /\ asking' => listed'.outdated
    <3>1. CASE asking
      <4>1. listed \in Listing
        BY <3>1 DEF asking, PasskeyInv, PasskeyTypeOK
      <4>2. listed' = [listed EXCEPT !.outdated = TRUE]
        BY <1>2, <3>1 DEF OtherTab
      <4>3. listed' \in Listing /\ listed'.outdated
        BY <4>1, <4>2 DEF Listing
      <4> QED
        BY <3>1, <4>3, PasskeyAssumption DEF asking
    <3>2. CASE ~asking
      BY <1>2, <3>2 DEF OtherTab, asking
    <3> QED
      BY <3>1, <3>2
  <2>2. step' \in Step \cup {None} /\ (working' => working)
    BY <1>2 DEF OtherTab, PasskeyInv, PasskeyTypeOK, working, Step
  <2>3. working' => \/ step' = step
                    \/ step'.phase = "failed" /\ step'.at = step.at
    <3>1. working => step \in Step
      BY DEF working, PasskeyInv, PasskeyTypeOK
    <3> QED
      BY <1>2, <2>2, <3>1 DEF OtherTab, Step
  <2>4. ~known' /\ UNCHANGED <<keys, available, listError, act>>
    BY <1>2 DEF OtherTab
  <2>5. PasskeyTypeOK'
    BY <1>2, <2>1, <2>2, <2>4 DEF OtherTab, EndsAll, PasskeyInv, PasskeyTypeOK
  <2>6. ActionInv' /\ ListInv'
    BY <2>1, <2>4 DEF PasskeyInv, ActionInv, ListInv
  <2>7. StepInv'
    BY <2>2, <2>3, <2>4 DEF PasskeyInv, StepInv
  <2> QED
    BY <2>4, <2>5, <2>6, <2>7 DEF PasskeyInv, KnownInv, AnnouncedLogout
<1> QED
  BY <1>1, <1>2

LEMMA ListAnswerKeepsInv == PasskeyInv /\ (AnswerList \/ FailList) => PasskeyInv'
<1> SUFFICES ASSUME PasskeyInv, AnswerList \/ FailList PROVE PasskeyInv'
  OBVIOUS
<1>1. listed \in Listing
  BY DEF AnswerList, FailList, asking, PasskeyInv, PasskeyTypeOK
<1>2. /\ listed' \in Listing /\ asking' /\ asking
      /\ listed'.phase = "answered" => listed'.got = held
  <2>1. listed' \in Listing /\ (listed'.phase = "answered" => listed'.got = held)
    BY <1>1 DEF AnswerList, FailList, PasskeyInv, PasskeyTypeOK, Listing
  <2> QED
    BY <2>1, PasskeyAssumption DEF AnswerList, FailList, asking
<1> QED
  BY <1>2 DEF AnswerList, FailList, keyVars, PasskeyInv, PasskeyTypeOK, ActionInv, StepInv, KnownInv,
              ListInv, AnnouncedLogout, Announced, disabling, Unread, working

\* A request that changes no key.
LEMMA PassKeepsInv == PasskeyInv /\ (Begin \/ (Finish /\ act.action = "add")) => PasskeyInv'
<1> SUFFICES ASSUME PasskeyInv, Begin \/ (Finish /\ act.action = "add") PROVE PasskeyInv'
  OBVIOUS
<1>1. step \in Step /\ working /\ step.at # "register" /\ step.phase # "done"
  BY DEF Begin, Finish, working, PasskeyInv, PasskeyTypeOK
<1>2. PICK next \in {"authenticate", "register"} :
          /\ step' = [step EXCEPT !.phase = "passed", !.next = next]
          /\ next = "register" => act.action = "add"
  BY DEF Begin, Finish, Pass
<1>3. /\ step' \in Step /\ step'.at = step.at /\ step'.phase = "passed"
      /\ step'.next = next
  BY <1>1, <1>2 DEF Step
<1>4. UNCHANGED <<keyVars, panelVars>>
  BY DEF Begin, Finish
<1> QED
  BY <1>1, <1>2, <1>3, <1>4
  DEF keyVars, panelVars, PasskeyInv, PasskeyTypeOK, ActionInv, StepInv, KnownInv, ListInv,
      AnnouncedLogout, Unread, asking, working

\* A change of the keys: the step that the dialog announced.
LEMMA ChangeKeepsInv ==
    ASSUME PasskeyInv, working, step.phase = "sent", session,
           NEW new \in SUBSET PassKey, KeysChanged(new), UNCHANGED panelVars,
           known => (EndsAll(new) <=> Announced)
    PROVE  PasskeyInv'
<1>1. step \in Step
  BY DEF working, PasskeyInv, PasskeyTypeOK
<1>2. EndsAll(new) \in BOOLEAN
  BY DEF EndsAll
<1>3. /\ step' \in Step /\ step'.at = step.at /\ step'.phase = "done"
      /\ step'.logout = EndsAll(new)
  BY <1>1, <1>2 DEF KeysChanged, Step
<1>4. step' # None
  BY <1>3, PasskeyAssumption
<1>5. PasskeyTypeOK'
  BY <1>2, <1>3 DEF KeysChanged, panelVars, PasskeyInv, PasskeyTypeOK
<1>6. ActionInv' /\ StepInv' /\ KnownInv' /\ ListInv'
  BY <1>3, <1>4 DEF KeysChanged, panelVars, PasskeyInv, ActionInv, StepInv, KnownInv, ListInv, Unread,
                    asking, working
<1>7. (Announced <=> Announced') /\ Announced \in BOOLEAN /\ Announced' \in BOOLEAN
  BY DEF Announced, disabling, panelVars
<1>8. AnnouncedLogout'
  BY <1>2, <1>3, <1>7 DEF panelVars, AnnouncedLogout
<1> QED
  BY <1>5, <1>6, <1>8 DEF PasskeyInv

LEMMA FinishKeepsInv == PasskeyInv /\ Finish => PasskeyInv'
<1> SUFFICES ASSUME PasskeyInv, Finish PROVE PasskeyInv'
  OBVIOUS
<1>1. /\ act \in Action /\ act # None /\ ~asking
      /\ act.action = "delete" => act.target \in keys
  BY DEF Finish, PasskeyInv, PasskeyTypeOK, StepInv, ActionInv
<1>2. known => keys = held
  BY <1>1 DEF Finish, PasskeyInv, KnownInv, Unread
<1>3. CASE act.action = "add"
  BY <1>3, PassKeepsInv
<1>4. CASE act.action = "disable"
  <2>1. KeysChanged({}) /\ UNCHANGED panelVars
    BY <1>4 DEF Finish
  <2>2. EndsAll({}) /\ Announced
    BY <1>1, <1>4 DEF EndsAll, Announced, disabling
  <2> QED
    BY <2>1, <2>2, ChangeKeepsInv DEF Finish
<1>5. CASE act.action = "delete"
  <2> DEFINE new == held \ {act.target}
  <2>1. KeysChanged(new) /\ UNCHANGED panelVars /\ new \in SUBSET PassKey
    BY <1>5 DEF Finish, PasskeyInv, PasskeyTypeOK
  <2>2. ASSUME known PROVE EndsAll(new) <=> Announced
    <3>1. keys = held /\ act.target \in held /\ held \in SUBSET PassKey
      BY <1>1, <1>2, <1>5, <2>2 DEF PasskeyInv, PasskeyTypeOK
    <3>2. EndsAll(new) <=> new = {}
      BY <3>1 DEF EndsAll
    <3>3. Announced <=> Cardinality(held) = 1
      BY <1>1, <1>5, <3>1 DEF Announced, disabling
    <3> QED
      BY <3>1, <3>2, <3>3, LastKey, PasskeyAssumption
  <2> QED
    BY <2>1, <2>2, ChangeKeepsInv DEF Finish
<1> QED
  BY <1>1, <1>3, <1>4, <1>5, ActionFields

LEMMA RegistrationKeepsInv == PasskeyInv /\ FinishRegistration => PasskeyInv'
<1> SUFFICES ASSUME PasskeyInv, FinishRegistration PROVE PasskeyInv'
  OBVIOUS
<1>1. PICK k \in PassKey \ held : KeysChanged(held \cup {k})
  BY DEF FinishRegistration
<1> DEFINE new == held \cup {k}
<1>2. new \in SUBSET PassKey
  BY DEF PasskeyInv, PasskeyTypeOK
<1>3. act # None /\ act.action = "add" /\ ~asking
  BY DEF FinishRegistration, PasskeyInv, StepInv, ActionInv
<1>4. known => keys = held
  BY <1>3 DEF FinishRegistration, PasskeyInv, KnownInv, Unread
<1>5. known => (EndsAll(new) <=> Announced)
  BY <1>3, <1>4 DEF EndsAll, Announced, disabling
<1> QED
  BY <1>1, <1>2, <1>5, ChangeKeepsInv DEF FinishRegistration

LEMMA FailKeepsInv == PasskeyInv /\ FailStep => PasskeyInv'
<1> SUFFICES ASSUME PasskeyInv, FailStep PROVE PasskeyInv'
  OBVIOUS
<1>1. step \in Step /\ working
  BY DEF FailStep, working, PasskeyInv, PasskeyTypeOK
<1>2. step' \in Step /\ step'.at = step.at /\ step'.phase = "failed"
  BY <1>1 DEF FailStep, Step
<1>3. known' \in BOOLEAN /\ (known' => known /\ step.phase # "done")
  BY DEF FailStep, PasskeyInv, PasskeyTypeOK
<1> QED
  BY <1>1, <1>2, <1>3
  DEF FailStep, keyVars, PasskeyInv, PasskeyTypeOK, ActionInv, StepInv, KnownInv, ListInv,
      AnnouncedLogout, Unread, asking, working

-----------------------------------------------------------------------------
(* The panel.                                                               *)

\* No dialog is open while the list loads, and no change is under way.
LEMMA ApplyListKeepsInv == PasskeyInv /\ ApplyList => PasskeyInv'
<1> SUFFICES ASSUME PasskeyInv, ApplyList PROVE PasskeyInv'
  OBVIOUS
<1>1. asking /\ act = None /\ ~working /\ listed \in Listing
  BY DEF ApplyList, asking, PasskeyInv, PasskeyTypeOK, ActionInv, StepInv
<1>2. /\ listed' = None /\ UNCHANGED <<keyVars, act, step>>
      /\ keys' \subseteq PassKey /\ available' \in BOOLEAN /\ listError' \in BOOLEAN
      /\ known' \in BOOLEAN
      /\ known' => keys' = listed.got /\ listed.phase = "answered" /\ ~listed.outdated
  BY <1>1 DEF ApplyList, PasskeyInv, PasskeyTypeOK, Listing
<1> QED
  BY <1>1, <1>2 DEF keyVars, PasskeyInv, PasskeyTypeOK, ActionInv, StepInv, KnownInv, ListInv,
                    AnnouncedLogout, Unread, asking, working

\* The list is asked for anew, by a panel without a dialog.
LEMMA AskKeepsInv == PasskeyInv /\ (ReloadKeys \/ Finished \/ LeavePanel) => PasskeyInv'
<1> SUFFICES ASSUME PasskeyInv, ReloadKeys \/ Finished \/ LeavePanel PROVE PasskeyInv'
  OBVIOUS
<1>1. listed' \in Listing /\ asking' /\ listed'.phase = "asked"
  <2>1. listed' = AskKeys
    BY DEF ReloadKeys, Finished, LeavePanel
  <2>2. listed' # None
    BY <2>1, AskIsListing, PasskeyAssumption
  <2> QED
    BY <2>1, <2>2, AskIsListing DEF asking
<1>2. act' = None /\ step' = None
  <2>1. CASE ReloadKeys
    <3>1. act = None /\ UNCHANGED <<act, step>>
      BY <2>1 DEF ReloadKeys
    <3> QED
      BY <3>1 DEF PasskeyInv, StepInv, working
  <2>2. CASE Finished \/ LeavePanel
    BY <2>2 DEF Finished, LeavePanel
  <2> QED
    BY <2>1, <2>2
<1>3. PasskeyTypeOK'
  BY <1>1, <1>2 DEF ReloadKeys, Finished, LeavePanel, keyVars, PasskeyInv, PasskeyTypeOK
<1> QED
  BY <1>1, <1>2, <1>3
  DEF PasskeyInv, ActionInv, StepInv, KnownInv, ListInv, AnnouncedLogout, Unread, working

LEMMA ActionKeepsInv ==
    ASSUME PasskeyInv, (\E a \in Action : OpenAction(a)) \/ CloseAction
    PROVE  PasskeyInv'
<1>1. ~working
  BY DEF OpenAction, CloseAction, PasskeyInv, StepInv
<1>2. UNCHANGED <<keyVars, keys, available, listed, step, known>>
  BY DEF OpenAction, CloseAction
<1>3. act' \in Action \cup {None} /\ listError' \in BOOLEAN
  BY DEF OpenAction, CloseAction, PasskeyInv, PasskeyTypeOK
<1>4. act' # None => ~asking /\ (act'.action = "delete" => act'.target \in keys)
  BY DEF OpenAction, CloseAction, Offered
<1> QED
  BY <1>1, <1>2, <1>3, <1>4
  DEF keyVars, PasskeyInv, PasskeyTypeOK, ActionInv, StepInv, KnownInv, ListInv, AnnouncedLogout,
      Unread, asking, working

LEMMA StepKeepsInv == PasskeyInv /\ (Submit \/ Ceremony) => PasskeyInv'
<1> SUFFICES ASSUME PasskeyInv, Submit \/ Ceremony PROVE PasskeyInv'
  OBVIOUS
<1>1. PICK at \in {"begin", "finish", "register"} :
          step' = Sent(at) /\ (at = "register" => act.action = "add")
  BY DEF Submit, Ceremony, PasskeyInv, StepInv
<1>2. step' \in Step /\ step'.at = at /\ step'.phase = "sent"
  BY <1>1, SentIsStep DEF Sent
<1>3. act # None /\ ~Unread /\ UNCHANGED <<keyVars, panelVars>>
  BY DEF Submit, Ceremony, PasskeyInv, StepInv, Unread
<1> QED
  BY <1>1, <1>2, <1>3
  DEF keyVars, panelVars, PasskeyInv, PasskeyTypeOK, ActionInv, StepInv, KnownInv, ListInv,
      AnnouncedLogout, Unread, asking, working

LEMMA StepFailedKeepsInv == PasskeyInv /\ StepFailed => PasskeyInv'
BY DEF StepFailed, keyVars, panelVars, PasskeyInv, PasskeyTypeOK, ActionInv, StepInv, KnownInv,
       ListInv, AnnouncedLogout, Unread, asking, working

-----------------------------------------------------------------------------
LEMMA PasskeyInitInv == PasskeyInit => PasskeyInv
<1> SUFFICES ASSUME PasskeyInit PROVE PasskeyInv
  OBVIOUS
<1>1. PasskeyTypeOK
  BY AskIsListing DEF PasskeyInit, PasskeyTypeOK
<1> QED
  BY <1>1 DEF PasskeyInit, PasskeyInv, ActionInv, StepInv, KnownInv, ListInv, AnnouncedLogout, AskKeys,
              working

LEMMA PasskeyNextInv == PasskeyInv /\ [PasskeyNext]_passkeyVars => PasskeyInv'
<1> SUFFICES ASSUME PasskeyInv, [PasskeyNext]_passkeyVars PROVE PasskeyInv'
  OBVIOUS
<1>1. CASE UNCHANGED passkeyVars
  BY <1>1 DEF passkeyVars, PasskeyInv, PasskeyTypeOK, ActionInv, StepInv, KnownInv, ListInv, AnnouncedLogout,
              Announced, disabling, Unread, asking, working
<1>2. CASE Begin
  BY <1>2, PassKeepsInv
<1>3. CASE CloseAction \/ \E a \in Action : OpenAction(a)
  BY <1>3, ActionKeepsInv
<1> QED
  BY <1>1, <1>2, <1>3, OthersKeepInv, ListAnswerKeepsInv, FinishKeepsInv, RegistrationKeepsInv,
     FailKeepsInv, ApplyListKeepsInv, AskKeepsInv, StepKeepsInv, StepFailedKeepsInv
  DEF PasskeyNext

\* The operator is logged out by a change exactly when its dialog said so, for
\* every finite set of keys and however the requests of this panel, of another
\* tab and of another browser meet.
THEOREM LogoutIsAnnounced ==
    PasskeySpec => []AnnouncedLogout
<1>1. PasskeyInit => PasskeyInv
  BY PasskeyInitInv
<1>2. PasskeyInv /\ [PasskeyNext]_passkeyVars => PasskeyInv'
  BY PasskeyNextInv
<1>3. PasskeyInv => AnnouncedLogout
  BY DEF PasskeyInv
<1> QED
  BY <1>1, <1>2, <1>3, PTL DEF PasskeySpec

-----------------------------------------------------------------------------
(* The session dialog. The session dialog shows what is selected, for      *)
(* every set of sessions and any number of pages and requests. The         *)
(* argument: among the runs of the effect only the last one is alive, and  *)
(* it asked for what is selected, unless the selection was taken away and  *)
(* the effect has not run again yet.                                       *)

Selection == [session |-> selected, page |-> detailPage, mode |-> detailMode]

\* The live run asked for the selection.
LiveIsSelected ==
    \A q \in asked : q.alive /\ ~stale => selected # None /\ q.about = Selection

\* A selection that was taken away leaves nothing selected.
StaleIsGone == stale => selected = None

DetailInv == DetailTypeOK /\ LiveIsSelected /\ StaleIsGone /\ DetailIsOfSelected

-----------------------------------------------------------------------------
\* A run of the effect drops the answers of the older runs.
LEMMA DroppedIsDead ==
    ASSUME DetailTypeOK
    PROVE  Dropped \subseteq Asked /\ \A q \in Dropped : ~q.alive
BY DEF DetailTypeOK, Dropped, Asked

\* A click keeps the invariant: it runs the effect for what it selects.
LEMMA ChooseKeepsInv ==
    ASSUME DetailInv,
           NEW s \in Session \cup {None}, NEW p \in 0..LastPage, NEW mode \in DetailMode,
           Choose(s, p, mode)
    PROVE  DetailInv'
<1>1. DetailTypeOK'
  <2>1. selected' \in Session \cup {None} /\ detailPage' \in 0..LastPage /\ detailMode' \in DetailMode
    BY DEF Choose
  <2>2. detail' \in Question \cup {None} /\ detailError' \in BOOLEAN /\ detailLoading' \in BOOLEAN
    BY DEF DetailInv, DetailTypeOK, Choose, Rerun, shown
  <2>3. asked' \subseteq Asked
    <3>1. CASE s = None
      BY <3>1, DroppedIsDead DEF DetailInv, Choose, Rerun
    <3>2. CASE s # None
      <4> DEFINE run == [about |-> [session |-> s, page |-> p, mode |-> mode],
                         alive |-> TRUE, phase |-> "asked"]
      <4>1. run \in Asked
        BY <3>2 DEF Asked, Question
      <4>2. asked' = Dropped \cup {run}
        BY <3>2 DEF Choose, Rerun
      <4> QED
        BY <4>1, <4>2, DroppedIsDead DEF DetailInv
    <3> QED
      BY <3>1, <3>2
  <2> QED
    BY <2>1, <2>2, <2>3 DEF DetailTypeOK, Choose
<1>2. LiveIsSelected' /\ StaleIsGone'
  <2>1. \A q \in asked' : q.alive =>
            s # None /\ q.about = [session |-> s, page |-> p, mode |-> mode]
    BY DroppedIsDead DEF DetailInv, Choose, Rerun
  <2> QED
    BY <2>1 DEF Choose, LiveIsSelected, StaleIsGone, Selection
<1>3. DetailIsOfSelected'
  BY DEF DetailInv, Choose, Rerun, DetailIsOfSelected, shown
<1> QED
  BY <1>1, <1>2, <1>3 DEF DetailInv

\* An answer changes no question and revives no run.
LEMMA AnswerKeepsInv ==
    ASSUME DetailInv, NEW q \in asked, AnswerDetail(q)
    PROVE  DetailInv'
<1>1. PICK phase \in {"answered", "failed"} :
          asked' = (asked \ {q}) \cup {[q EXCEPT !.phase = phase]}
  BY DEF AnswerDetail
<1>2. q \in Asked
  BY DEF DetailInv, DetailTypeOK
<1>3. /\ [q EXCEPT !.phase = phase] \in Asked
      /\ [q EXCEPT !.phase = phase].alive = q.alive
      /\ [q EXCEPT !.phase = phase].about = q.about
  BY <1>2 DEF Asked
<1>4. DetailTypeOK'
  BY <1>1, <1>3 DEF DetailInv, DetailTypeOK, AnswerDetail, chosen, shown
<1>5. LiveIsSelected'
  BY <1>1, <1>3 DEF DetailInv, LiveIsSelected, AnswerDetail, chosen, Selection
<1>6. StaleIsGone' /\ DetailIsOfSelected'
  BY DEF DetailInv, StaleIsGone, DetailIsOfSelected, AnswerDetail, chosen, shown
<1> QED
  BY <1>4, <1>5, <1>6 DEF DetailInv

\* The handlers fill the table from the live run only.
LEMMA HandleKeepsInv ==
    ASSUME DetailInv, NEW q \in asked, HandleDetail(q)
    PROVE  DetailInv'
<1>1. q \in Asked /\ q.about \in Question /\ q.about # None
  BY DetailAssumption DEF DetailInv, DetailTypeOK, Asked
<1>2. DetailTypeOK'
  BY <1>1 DEF DetailInv, DetailTypeOK, HandleDetail, chosen, shown
<1>3. LiveIsSelected' /\ StaleIsGone'
  BY DEF DetailInv, LiveIsSelected, StaleIsGone, HandleDetail, chosen, Selection
<1>4. DetailIsOfSelected'
  <2>1. CASE Alive(q)
    <3> SUFFICES ASSUME selected' # None
                 PROVE  /\ detail' \in {None, Selection}
                        /\ ~detailLoading' => detail' # None \/ detailError'
      BY DEF DetailIsOfSelected, HandleDetail, chosen, Selection
    <3>1. q.about = Selection
      BY <2>1 DEF DetailInv, LiveIsSelected, StaleIsGone, HandleDetail, chosen, Alive
    <3> QED
      BY <1>1, <2>1, <3>1 DEF DetailInv, DetailIsOfSelected, HandleDetail, chosen, Selection
  <2>2. CASE ~Alive(q)
    BY <2>2 DEF DetailInv, DetailIsOfSelected, HandleDetail, chosen, shown
  <2> QED
    BY <2>1, <2>2
<1> QED
  BY <1>2, <1>3, <1>4 DEF DetailInv

-----------------------------------------------------------------------------
LEMMA DetailInitInv ==
    ASSUME DetailInit
    PROVE  DetailInv
<1>1. DetailTypeOK
  <2>1. detailPage \in 0..LastPage
    BY DetailAssumption DEF DetailInit
  <2>2. asked \subseteq Asked
    BY DEF DetailInit
  <2> QED
    BY <2>1, <2>2 DEF DetailInit, DetailTypeOK, DetailMode
<1>2. LiveIsSelected /\ StaleIsGone /\ DetailIsOfSelected
  BY DEF DetailInit, LiveIsSelected, StaleIsGone, DetailIsOfSelected
<1> QED
  BY <1>1, <1>2 DEF DetailInv

LEMMA DetailNextInv ==
    ASSUME DetailInv, [DetailNext]_detailVars
    PROVE  DetailInv'
<1> USE DEF DetailInv
<1>1. ASSUME NEW s \in Session, OpenDetail(s) PROVE DetailInv'
  BY <1>1, ChooseKeepsInv, DetailAssumption DEF OpenDetail, DetailMode
<1>2. CASE CloseDetail
  BY <1>2, ChooseKeepsInv DEF CloseDetail, DetailTypeOK
<1>3. CASE ChangePage
  <2>1. PICK p \in 0..LastPage : Choose(selected, p, detailMode)
    BY <1>3, DetailAssumption DEF ChangePage, DetailTypeOK
  <2> QED
    BY <2>1, ChooseKeepsInv DEF DetailTypeOK
<1>4. ASSUME NEW mode \in DetailMode, ChangeMode(mode) PROVE DetailInv'
  BY <1>4, ChooseKeepsInv, DetailAssumption DEF ChangeMode, DetailTypeOK
<1>5. CASE Deselect
  BY <1>5 DEF Deselect, DetailTypeOK, LiveIsSelected, StaleIsGone, DetailIsOfSelected
<1>6. CASE EffectReRun
  <2>1. selected = None
    BY <1>6 DEF EffectReRun, StaleIsGone
  <2>2. asked' = Dropped /\ UNCHANGED shown /\ UNCHANGED chosen /\ stale' = FALSE
    BY <1>6, <2>1 DEF EffectReRun, Rerun
  <2> QED
    BY <2>1, <2>2, DroppedIsDead
    DEF shown, chosen, DetailTypeOK, LiveIsSelected, StaleIsGone, DetailIsOfSelected
<1>7. ASSUME NEW q \in asked, AnswerDetail(q) PROVE DetailInv'
  BY <1>7, AnswerKeepsInv
<1>8. ASSUME NEW q \in asked, HandleDetail(q) PROVE DetailInv'
  BY <1>8, HandleKeepsInv
<1>9. CASE UNCHANGED detailVars
  BY <1>9 DEF detailVars, DetailTypeOK, LiveIsSelected, StaleIsGone, DetailIsOfSelected, Selection
<1> QED
  BY <1>1, <1>2, <1>3, <1>4, <1>5, <1>6, <1>7, <1>8, <1>9 DEF DetailNext

\* The open dialog shows the events of its own session, page and mode, and
\* once nothing is loading it shows them or the error, however late the answers
\* to older questions arrive.
THEOREM DialogShowsSelected ==
    ASSUME LastPage \in Nat
    PROVE  DetailSpec => []DetailIsOfSelected
<1>1. DetailInit => DetailInv
  BY DetailInitInv
<1>2. DetailInv /\ [DetailNext]_detailVars => DetailInv'
  BY DetailNextInv
<1>3. DetailInv => DetailIsOfSelected
  BY DEF DetailInv
<1> QED
  BY <1>1, <1>2, <1>3, PTL DEF DetailSpec

-----------------------------------------------------------------------------
(* The pages side by side *)

LEMMA StepsArePageSteps ==
    ASSUME [ConsoleNext]_consoleVars
    PROVE  /\ [Next]_vars
           /\ [AccountNext]_accountVars
           /\ [PasskeyNext]_passkeyVars
           /\ [DetailNext]_detailVars
<1>1. CASE FirewallView
  BY <1>1 DEF FirewallView
<1>2. CASE AccountsView
  BY <1>2 DEF AccountsView
<1>3. CASE PasskeysView
  BY <1>3 DEF PasskeysView
<1>4. CASE SessionView
  BY <1>4 DEF SessionView
<1>5. CASE UNCHANGED consoleVars
  BY <1>5 DEF consoleVars
<1> QED
  BY <1>1, <1>2, <1>3, <1>4, <1>5 DEF ConsoleNext

\* In the console every page behaves as its own specification says, because the
\* composition leaves the state of the other pages alone: what is proved of a page
\* by itself holds of it in the console.
LEMMA PagesAreIndependent ==
    ConsoleSpec => Spec /\ AccountSpec /\ PasskeySpec /\ DetailSpec
<1>1. ConsoleInit => Init /\ AccountInit /\ PasskeyInit /\ DetailInit
  BY DEF ConsoleInit
<1>2. [ConsoleNext]_consoleVars =>
        /\ [Next]_vars
        /\ [AccountNext]_accountVars
        /\ [PasskeyNext]_passkeyVars
        /\ [DetailNext]_detailVars
  BY StepsArePageSteps
<1> QED
  BY <1>1, <1>2, PTL DEF ConsoleSpec, Spec, AccountSpec, PasskeySpec, DetailSpec

\* What the operator is shown, announced and asked to confirm in the console:
\* no policy older than an acknowledged one, only what the dialog says is sent,
\* no typing lost, no own change missing, no unannounced logout, no events of
\* another session.
THEOREM ConsoleIsHonest ==
    ASSUME LastPage \in Nat
    PROVE  ConsoleSpec => [](/\ AckedIsShown /\ DialogIsSent /\ DraftIsKept
                             /\ OwnChangesShown /\ AnnouncedLogout
                             /\ DetailIsOfSelected)
<1>1. Spec => [](AckedIsShown /\ DialogIsSent /\ DraftIsKept)
  BY NoOlderPolicyShown, ConfirmedIsSent, TypingIsSafe, PTL
<1>2. AccountSpec => []OwnChangesShown
  BY OwnChangesStay
<1>3. PasskeySpec => []AnnouncedLogout
  BY LogoutIsAnnounced
<1>4. DetailSpec => []DetailIsOfSelected
  BY DialogShowsSelected
<1> QED
  BY <1>1, <1>2, <1>3, <1>4, PagesAreIndependent, PTL
=============================================================================
