---------------------------- MODULE PasskeyPanel ----------------------------
(* The passkey panel of the console (web/src/Passkeys.tsx) for one           *)
(* operator.  A change takes up to three requests with a ceremony of the     *)
(* authenticator between them, and the server logs the operator out when it  *)
(* turns the second factor on or off; the dialog says so beforehand, going   *)
(* by the keys the panel has loaded.                                         *)
(*                                                                           *)
(* Passwords and names are left out, with the requests refused for them: a   *)
(* request may always be refused.  The browser supports passkeys.            *)
EXTENDS Console, FiniteSets

CONSTANT PassKey

VARIABLES
    held,       \* server: the registered keys
    session,    \* server: this login is still alive
    keys, available,
    listed,     \* the live run of the loading effect; loading is listed # None
    listError,  \* error, while no dialog is open
    act,        \* action: the open dialog
    step,       \* submit() under way, at the request it awaits; busy is step # None
    known       \* history: the panel could know the keys since its last load

passkeyVars == <<held, session, keys, available, listed, listError, act, step, known>>

Action == [action : {"add", "disable"}] \cup [action : {"delete"}, target : PassKey]
Listing == [phase : {"asked", "answered", "failed"}, got : SUBSET PassKey, outdated : BOOLEAN]
Step == [at : {"begin", "finish", "register"}, phase : {"sent", "failed", "passed", "done"},
         next : {"authenticate", "register", "changed"}, logout : BOOLEAN]

ASSUME PasskeyAssumption == IsFiniteSet(PassKey) /\ None \notin Listing /\ None \notin Step

PasskeyTypeOK ==
    /\ held \subseteq PassKey /\ session \in BOOLEAN
    /\ keys \subseteq PassKey /\ available \in BOOLEAN /\ listed \in Listing \cup {None}
    /\ listError \in BOOLEAN /\ act \in Action \cup {None} /\ step \in Step \cup {None}
    /\ known \in BOOLEAN

panelVars == <<keys, available, listed, listError, act, known>>
keyVars == <<held, session>>
Sent(at) == [at |-> at, phase |-> "sent", next |-> "authenticate", logout |-> FALSE]
asking == listed # None
working == step # None

-----------------------------------------------------------------------------
(* The server.                                                              *)

\* revokeAfterPasskeyChange: every login ends when the second factor is turned
\* on or off, otherwise every other one.
EndsAll(new) == held = {} \/ new = {}

\* A key change of another login ends this one.
OtherBrowser(new) ==
    /\ new # held
    /\ held' = new /\ session' = FALSE
    /\ UNCHANGED <<panelVars, step>>

\* Another tab works in the same login; its change voids the ceremony under way.
OtherTab(new) ==
    /\ session /\ new # held
    /\ held' = new /\ session' = ~EndsAll(new)
    /\ known' = FALSE
    /\ listed' = IF asking THEN [listed EXCEPT !.outdated = TRUE] ELSE None
    /\ step' = IF working /\ step # Sent("begin") /\ step.phase # "done"
               THEN [step EXCEPT !.phase = "failed"] ELSE step
    /\ UNCHANGED <<keys, available, listError, act>>

AnswerList ==
    /\ asking /\ listed.phase = "asked"
    /\ listed' = IF session THEN [listed EXCEPT !.phase = "answered", !.got = held]
                            ELSE [listed EXCEPT !.phase = "failed"]
    /\ UNCHANGED <<keyVars, keys, available, listError, act, step, known>>

FailList ==
    /\ asking /\ listed.phase = "asked"
    /\ listed' = [listed EXCEPT !.phase = "failed"]
    /\ UNCHANGED <<keyVars, keys, available, listError, act, step, known>>

Pass(next) == step' = [step EXCEPT !.phase = "passed", !.next = next]

\* passkeyBegin
Begin ==
    /\ working /\ step.at = "begin" /\ step.phase = "sent" /\ session
    /\ act.action # "add" => held # {}
    /\ act.action = "delete" => act.target \in held
    /\ Pass(IF held = {} THEN "register" ELSE "authenticate")
    /\ UNCHANGED <<keyVars, panelVars>>

KeysChanged(new) ==
    /\ held' = new /\ session' = ~EndsAll(new)
    /\ step' = [step EXCEPT !.phase = "done", !.next = "changed", !.logout = EndsAll(new)]

\* finishCeremony after an assertion
Finish ==
    /\ working /\ step.at = "finish" /\ step.phase = "sent" /\ session
    /\ IF act.action = "add"
       THEN Pass("register") /\ UNCHANGED keyVars
       ELSE KeysChanged(IF act.action = "disable" THEN {} ELSE held \ {act.target})
    /\ UNCHANGED panelVars

\* finishCeremony after a registration
FinishRegistration ==
    /\ working /\ step.at = "register" /\ step.phase = "sent" /\ session
    /\ \E k \in PassKey \ held : KeysChanged(held \cup {k})
    /\ UNCHANGED panelVars

\* Refused, lost on its way, or the operator gives up the ceremony.  After a
\* change whose answer is lost the list is not loaded again.
FailStep ==
    /\ working /\ step.phase # "failed"
    /\ step' = [step EXCEPT !.phase = "failed"]
    /\ known' = (known /\ step.phase # "done")
    /\ UNCHANGED <<keyVars, keys, available, listed, listError, act>>

-----------------------------------------------------------------------------
(* The panel.                                                               *)

AskKeys == [phase |-> "asked", got |-> {}, outdated |-> FALSE]

ApplyList ==
    /\ asking /\ listed.phase # "asked"
    /\ IF listed.phase = "answered"
       THEN /\ keys' = listed.got /\ available' = TRUE /\ listError' = FALSE
            /\ known' = ~listed.outdated
       ELSE /\ listError' = TRUE /\ known' = FALSE
            /\ UNCHANGED <<keys, available>>
    /\ listed' = None
    /\ UNCHANGED <<keyVars, act, step>>

ReloadKeys ==
    /\ listError /\ act = None
    /\ listed' = AskKeys
    /\ UNCHANGED <<keyVars, keys, available, listError, act, step, known>>

\* The buttons of the panel, by what the list shows.
Offered(a) ==
    /\ ~asking /\ available
    /\ a.action = "delete" => a.target \in keys
    /\ a.action = "disable" => keys # {}

OpenAction(a) ==
    /\ act = None /\ Offered(a)
    /\ act' = a /\ listError' = FALSE
    /\ UNCHANGED <<keyVars, keys, available, listed, step, known>>

CloseAction ==
    /\ act # None /\ ~working
    /\ act' = None
    /\ UNCHANGED <<keyVars, keys, available, listed, listError, step, known>>

\* submit(), as far as its first await
Submit ==
    /\ act # None /\ ~working
    /\ step' = Sent("begin")
    /\ UNCHANGED <<keyVars, panelVars>>

\* The authenticator is done and the next request goes out.
Ceremony ==
    /\ working /\ step.phase = "passed"
    /\ step' = Sent(IF step.next = "register" THEN "register" ELSE "finish")
    /\ UNCHANGED <<keyVars, panelVars>>

\* After the last answer: the list is loaded again in the same render, unless
\* onLogout unmounts the panel.
Finished ==
    /\ working /\ step.phase = "done" /\ ~step.logout
    /\ act' = None /\ step' = None /\ listed' = AskKeys
    /\ UNCHANGED <<keyVars, keys, available, listError, known>>

\* The dialog stays open and shows the error.
StepFailed ==
    /\ working /\ step.phase = "failed"
    /\ step' = None
    /\ UNCHANGED <<keyVars, panelVars>>

\* Another view, or the end of the login and then the next one.  A request
\* left behind by the end of its login is refused.
LeavePanel ==
    /\ act = None \/ (working /\ step.phase = "done" /\ step.logout) \/ ~session
    /\ keys' = {} /\ available' = FALSE /\ listed' = AskKeys /\ listError' = FALSE
    /\ act' = None /\ step' = None /\ known' = FALSE
    /\ session' = TRUE /\ UNCHANGED held

-----------------------------------------------------------------------------
PasskeyInit ==
    /\ held \in SUBSET PassKey /\ session = TRUE
    /\ keys = {} /\ available = FALSE /\ listed = AskKeys /\ listError = FALSE
    /\ act = None /\ step = None /\ known = FALSE

PasskeyNext ==
    \/ \E new \in SUBSET PassKey : OtherBrowser(new) \/ OtherTab(new)
    \/ AnswerList \/ FailList \/ Begin \/ Finish \/ FinishRegistration \/ FailStep
    \/ ApplyList \/ ReloadKeys \/ \E a \in Action : OpenAction(a)
    \/ CloseAction \/ Submit \/ Ceremony \/ Finished \/ StepFailed \/ LeavePanel

PasskeySpec == PasskeyInit /\ [][PasskeyNext]_passkeyVars

-----------------------------------------------------------------------------
\* Mutant of disabling: forgets that the last key may be deleted.
disablingAll == act # None /\ act.action = "disable"

\* disabling: the dialog announces that it turns the second factor off.
disabling ==
    act # None /\ \/ act.action = "disable"
                  \/ act.action = "delete" /\ Cardinality(keys) = 1

\* The dialog of a first key announces the logout as well.
Announced == disabling \/ (act # None /\ act.action = "add" /\ keys = {})

\* The operator is logged out by a change exactly when its dialog said so,
\* before the first request went out, however long the ceremonies took and
\* whatever happened before, as long as the panel could know the keys: its last
\* load succeeded, no answer to a change was lost since, and no other tab of
\* this login changed them behind its back (Passkeys.tsx:79).
AnnouncedLogout ==
    working /\ step.phase = "done" /\ known => step.logout = Announced

=============================================================================
