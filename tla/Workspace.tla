------------------------------ MODULE Workspace ------------------------------
(* The workspace of the console (web/src/main.tsx): login and logout, the     *)
(* menu and the filters, the polling effect that fills every view, and the    *)
(* server view with its one-time tokens.  Requests are asked, answered and    *)
(* handled in separate steps, so that answers of an effect, of an action and  *)
(* of a login that is over may meet; a failure, which carries nothing, is     *)
(* answered and handled at once.                                              *)
(*                                                                            *)
(* overview stands for the views with a table, filter for all that a table    *)
(* is asked with (filters, page, kind of activity).  The reads of a poll are  *)
(* answered at one moment.  What a table holds is kept as the question it     *)
(* answers.  Statistics, notices, the session dialog (SessionDetail), forced  *)
(* termination, the dialog that renames a server and the retention form are   *)
(* left out.                                                                  *)
EXTENDS Naturals, FiniteSets

CONSTANTS Server, None,
          First,      \* the servers registered when the console is opened
          MaxLogin    \* bound: logins of this browser

View == {"overview", "servers", "settings"}
Role == {"admin", "super_admin"}
Filter == Server \cup {None}

VARIABLES
    fresh, registry,   \* server: identifiers not used yet, and the servers it lists
    role,              \* server: the role of the account that is logged in
    login, live,       \* the login of the cookie, and whether the server still knows it
    auth, myrole, view, filter, servers, rows, credential, busy, loading, mfa,
    failed,            \* the last poll failed
    poll, rerun,       \* the live run of the polling effect; its dependencies changed
    act,               \* the action under way
    leaving,           \* the logout under way
    entry              \* the login under way

serverVars == <<fresh, registry, role, login, live>>
pageVars == <<auth, myrole, view, filter, servers, rows, credential>>
pollVars == <<loading, failed, poll, rerun>>
vars == <<serverVars, pageVars, busy, mfa, pollVars, act, leaving, entry>>

Question == [view : View, filter : Filter, login : 0..MaxLogin]
Poll == [phase : {"asked", "answered", "timer"}, of : Question, list : SUBSET Server, role : Role]
Act == [kind : {"register", "rotate", "revoke"}, srv : Server, unfilter : BOOLEAN,
        login : 0..MaxLogin, list : SUBSET Server, phase : {"sent", "done", "listing", "listed"}]
Entry == [phase : {"sent", "mfa", "me", "entered"}, role : Role]

ASSUME ParameterAssumption == First \subseteq Server /\ None \notin Server /\ MaxLogin \in Nat \ {0}

TypeOK ==
    /\ fresh \subseteq Server /\ registry \subseteq Server /\ role \in Role
    /\ login \in 0..MaxLogin /\ live \in BOOLEAN /\ auth \in {"checking", "in", "out"}
    /\ myrole \in Role /\ view \in View /\ filter \in Filter /\ servers \subseteq Server
    /\ rows \in Question \cup {None} /\ credential \in Filter
    /\ {busy, loading, mfa, failed, rerun} \subseteq BOOLEAN
    /\ poll \in Poll \cup {None} /\ act \in Act \cup {None}
    /\ leaving \in {"sent", "done", None} /\ entry \in Entry \cup {None}

-----------------------------------------------------------------------------
\* auth() of the server lets a request of login n through.
Known(n) == live /\ n = login

clearWorkspace ==
    /\ servers' = {} /\ rows' = None /\ credential' = None
    /\ filter' = None /\ myrole' = "admin"

\* The end of a login, noticed by a logout or by the auth-expired event of api().
End ==
    /\ auth' = "out" /\ clearWorkspace /\ UNCHANGED view
    /\ rerun' = (rerun \/ auth # "out" \/ filter # None)

\* What api() does of a failure: the 401 of a login that is over ends it, any
\* other answer, or none, changes nothing.
Error(n) == UNCHANGED <<pageVars, rerun>> \/ (~Known(n) /\ End)

-----------------------------------------------------------------------------
(* The server, and what others do there.                                    *)

OthersRegister ==
    /\ \E s \in fresh : fresh' = fresh \ {s} /\ registry' = registry \cup {s}
    /\ UNCHANGED <<role, login, live, pageVars, busy, mfa, pollVars, act, leaving, entry>>

OthersRevoke ==
    /\ \E s \in registry : registry' = registry \ {s}
    /\ UNCHANGED <<fresh, role, login, live, pageVars, busy, mfa, pollVars, act, leaving, entry>>

OthersChangeRole ==
    /\ role' \in Role \ {role}
    /\ UNCHANGED <<fresh, registry, login, live, pageVars, busy, mfa, pollVars, act, leaving, entry>>

\* The login expires, or a change of the account ends it.
LoginEnds ==
    /\ live /\ live' = FALSE
    /\ UNCHANGED <<fresh, registry, role, login, pageVars, busy, mfa, pollVars, act, leaving, entry>>

\* The 401 of a request that a run of an earlier login left behind.
LateAnswer ==
    /\ login > 1 /\ auth # "out" /\ End
    /\ UNCHANGED <<serverVars, busy, mfa, loading, failed, poll, act, leaving, entry>>

-----------------------------------------------------------------------------
(* The polling effect.                                                      *)

Ask(v, f) == [phase |-> "asked", of |-> [view |-> v, filter |-> f, login |-> login],
              list |-> {}, role |-> "admin"]

\* Mutant of Restart: the table of the old question stays while the new one is asked.
RestartQuietly(a, v, f) ==
    IF a = "in" THEN poll' = Ask(v, f) /\ UNCHANGED loading
                ELSE poll' = None /\ UNCHANGED loading

\* Cleanup of the old run, whose answer is ignored from now on, and a new one.
Restart(a, v, f) ==
    IF a = "in" THEN poll' = Ask(v, f) /\ loading' = TRUE
                ELSE poll' = None /\ UNCHANGED loading

ReRun ==
    /\ rerun
    /\ Restart(auth, view, filter)
    /\ rerun' = FALSE
    /\ UNCHANGED <<serverVars, pageVars, busy, mfa, failed, act, leaving, entry>>

PollStep(next) ==
    /\ poll' = next
    /\ UNCHANGED <<serverVars, pageVars, busy, mfa, loading, failed, rerun, act, leaving, entry>>

AnswerPoll ==
    /\ poll # None /\ poll.phase = "asked" /\ Known(poll.of.login)
    /\ PollStep([poll EXCEPT !.phase = "answered", !.list = registry, !.role = role])

Tick ==
    /\ poll # None /\ poll.phase = "timer"
    /\ PollStep(Ask(poll.of.view, poll.of.filter))

Kept(s, list) == IF s \in list THEN s ELSE None

\* Mutant of Demoted: the view stays as it is.
DemotedNever(v, r) == v

Demoted(v, r) == IF r # "super_admin" /\ v = "settings" THEN "overview" ELSE v

\* Mutant of AtRest: no timer is set.
AtRestForever == None

AtRest == [poll EXCEPT !.phase = "timer", !.list = {}, !.role = "admin"]

ApplyPoll ==
    /\ poll # None /\ poll.phase = "answered"
    /\ servers' = poll.list /\ rows' = poll.of /\ myrole' = poll.role
    /\ credential' = Kept(credential, poll.list)
    /\ view' = IF Demoted(poll.of.view, poll.role) = poll.of.view THEN view ELSE "overview"
    /\ failed' = FALSE /\ loading' = FALSE
    /\ poll' = AtRest
    /\ rerun' = (rerun \/ view' # view)
    /\ UNCHANGED <<serverVars, auth, filter, busy, mfa, act, leaving, entry>>

PollFails ==
    /\ poll # None /\ poll.phase = "asked"
    /\ Error(poll.of.login)
    /\ failed' = TRUE /\ loading' = FALSE
    /\ poll' = AtRest
    /\ UNCHANGED <<serverVars, busy, mfa, act, leaving, entry>>

-----------------------------------------------------------------------------
(* Login and logout.  React runs the effects that are due before it handles  *)
(* an event of the operator.                                                 *)

Present == auth = "in" /\ ~rerun

\* The mount effect asks /me.
Mounted ==
    /\ auth = "checking"
    /\ \/ live /\ auth' = "in" /\ myrole' = role
       \/ auth' = "out" /\ UNCHANGED myrole
    /\ rerun' = TRUE
    /\ UNCHANGED <<serverVars, view, filter, servers, rows, credential, busy, mfa,
                   loading, failed, poll, act, leaving, entry>>

\* onSubmit of the form; with mfa the passkey ceremony of the second step.
Submit ==
    /\ auth = "out" /\ ~rerun /\ ~busy /\ entry = None
    /\ entry' = [phase |-> "sent", role |-> "admin"] /\ busy' = TRUE
    /\ UNCHANGED <<serverVars, pageVars, mfa, pollVars, act, leaving>>

\* onReset
Reset ==
    /\ auth = "out" /\ ~rerun /\ mfa /\ ~busy
    /\ mfa' = FALSE
    /\ UNCHANGED <<serverVars, pageVars, busy, pollVars, act, leaving, entry>>

\* The account has a passkey, or is logged in, whichever account it is.
AnswerLogin ==
    /\ entry # None /\ entry.phase = "sent"
    /\ mfa' = FALSE
    /\ \/ /\ login < MaxLogin /\ login' = login + 1 /\ live' = TRUE
          /\ role' \in Role
          /\ entry' = [entry EXCEPT !.phase = "me"]
       \/ /\ ~mfa /\ entry' = [entry EXCEPT !.phase = "mfa"]
          /\ UNCHANGED <<role, login, live>>
    /\ UNCHANGED <<fresh, registry, pageVars, busy, pollVars, act, leaving>>

AskPasskey ==
    /\ entry # None /\ entry.phase = "mfa"
    /\ mfa' = TRUE /\ entry' = None /\ busy' = FALSE
    /\ UNCHANGED <<serverVars, pageVars, pollVars, act, leaving>>

AnswerEntry ==
    /\ entry # None /\ entry.phase = "me" /\ live
    /\ entry' = [phase |-> "entered", role |-> role]
    /\ UNCHANGED <<serverVars, pageVars, busy, mfa, pollVars, act, leaving>>

Enter ==
    /\ entry # None /\ entry.phase = "entered"
    /\ auth' = "in" /\ myrole' = entry.role /\ view' = Demoted(view, entry.role)
    /\ entry' = None /\ busy' = FALSE
    /\ rerun' = (rerun \/ auth # "in" \/ view' # view)
    /\ UNCHANGED <<serverVars, filter, servers, rows, credential, mfa, loading, failed, poll,
                   act, leaving>>

\* A refused login is no end of a login; the passkey step stays if the browser
\* gave no passkey, and is over once one was sent.
LoginFails ==
    /\ entry # None
    /\ \/ entry.phase = "sent" /\ UNCHANGED <<pageVars, rerun>>
       \/ entry.phase = "me" /\ Error(login)
    /\ entry' = None /\ busy' = FALSE /\ mfa' \in {mfa, FALSE}
    /\ UNCHANGED <<serverVars, loading, failed, poll, act, leaving>>

\* The logout button is not disabled while another action is under way.
Logout ==
    /\ Present /\ leaving = None
    /\ leaving' = "sent" /\ busy' = TRUE
    /\ UNCHANGED <<serverVars, pageVars, mfa, pollVars, act, entry>>

AnswerLogout ==
    /\ leaving = "sent" /\ live
    /\ live' = FALSE /\ leaving' = "done"
    /\ UNCHANGED <<fresh, registry, role, login, pageVars, busy, mfa, pollVars, act, entry>>

LoggedOut ==
    /\ leaving = "done" /\ End
    /\ leaving' = None /\ busy' = FALSE
    /\ UNCHANGED <<serverVars, mfa, loading, failed, poll, act, entry>>

LogoutFails ==
    /\ leaving = "sent" /\ Error(login)
    /\ leaving' = None /\ busy' = FALSE
    /\ UNCHANGED <<serverVars, mfa, loading, failed, poll, act, entry>>

-----------------------------------------------------------------------------
(* The operator.  A click runs the effect it causes at once.                *)

Clicked == UNCHANGED <<serverVars, auth, myrole, servers, rows, credential, busy, mfa,
                       failed, rerun, act, leaving, entry>>

navigate(v) ==
    /\ Present
    /\ v # view /\ (v = "settings" => myrole = "super_admin")
    /\ view' = v /\ UNCHANGED filter
    /\ Restart(auth, v, filter)
    /\ Clicked

SetFilter(f) ==
    /\ Present
    /\ view = "overview" /\ f # filter /\ f \in servers \cup {None}
    /\ filter' = f /\ UNCHANGED view
    /\ Restart(auth, view, f)
    /\ Clicked

CloseToken ==
    /\ Present /\ view = "servers" /\ credential # None
    /\ credential' = None
    /\ UNCHANGED <<serverVars, auth, myrole, view, filter, servers, rows, busy, mfa,
                   pollVars, act, leaving, entry>>

\* action(), as far as its first await.
Begin(kind, s) ==
    /\ Present /\ view = "servers" /\ ~busy /\ act = None
    /\ IF kind = "register" THEN s \in fresh ELSE s \in servers
    /\ act' = [kind |-> kind, srv |-> s, unfilter |-> kind = "revoke" /\ filter = s, login |-> login,
               list |-> {}, phase |-> "sent"]
    /\ busy' = TRUE
    /\ UNCHANGED <<serverVars, pageVars, mfa, pollVars, leaving, entry>>

AnswerAct ==
    /\ act # None /\ act.phase = "sent" /\ Known(act.login)
    /\ IF act.kind = "register" THEN act.srv \in fresh ELSE act.srv \in registry
    /\ registry' = CASE act.kind = "register" -> registry \cup {act.srv}
                     [] act.kind = "revoke"   -> registry \ {act.srv}
                     [] OTHER                 -> registry
    /\ fresh' = fresh \ {act.srv}
    /\ act' = [act EXCEPT !.phase = "done"]
    /\ UNCHANGED <<role, login, live, pageVars, busy, mfa, pollVars, leaving, entry>>

\* The page after the first answer, which asks for the list next.
ActDone ==
    /\ act # None /\ act.phase = "done"
    /\ credential' = CASE act.kind \in {"register", "rotate"} -> act.srv
                       [] act.kind = "revoke" /\ credential = act.srv -> None
                       [] OTHER -> credential
    /\ filter' = IF act.unfilter THEN None ELSE filter
    /\ rerun' = (rerun \/ filter' # filter)
    /\ act' = [act EXCEPT !.phase = "listing", !.login = login, !.unfilter = FALSE]
    /\ UNCHANGED <<serverVars, auth, myrole, view, servers, rows, busy, mfa, loading, failed, poll,
                   leaving, entry>>

AnswerList ==
    /\ act # None /\ act.phase = "listing" /\ Known(act.login)
    /\ act' = [act EXCEPT !.phase = "listed", !.list = registry]
    /\ UNCHANGED <<serverVars, pageVars, busy, mfa, pollVars, leaving, entry>>

ActEnded ==
    /\ act # None /\ act.phase = "listed"
    /\ servers' = act.list
    /\ act' = None /\ busy' = FALSE
    /\ UNCHANGED <<serverVars, auth, myrole, view, filter, rows, credential, mfa, pollVars,
                   leaving, entry>>

ActFails ==
    /\ act # None /\ act.phase \in {"sent", "listing"}
    /\ Error(act.login)
    /\ act' = None /\ busy' = FALSE
    /\ UNCHANGED <<serverVars, mfa, loading, failed, poll, leaving, entry>>

-----------------------------------------------------------------------------
Init ==
    /\ fresh = Server \ First /\ registry = First
    /\ role \in Role /\ login \in {0, 1} /\ live = (login = 1)
    /\ auth = "checking" /\ myrole = "admin" /\ view = "overview" /\ filter = None
    /\ servers = {} /\ rows = None /\ credential = None
    /\ busy = FALSE /\ loading = TRUE /\ mfa = FALSE /\ failed = FALSE
    /\ poll = None /\ rerun = FALSE
    /\ act = None /\ leaving = None /\ entry = None

Others == OthersRegister \/ OthersRevoke \/ OthersChangeRole \/ LoginEnds \/ LateAnswer

Operator ==
    \/ \E v \in View : navigate(v)
    \/ \E f \in Filter : SetFilter(f)
    \/ \E kind \in {"register", "rotate", "revoke"}, s \in Server : Begin(kind, s)
    \/ CloseToken \/ Submit \/ Reset \/ Logout

Network ==
    \/ AnswerPoll \/ PollFails
    \/ AnswerLogin \/ AnswerEntry \/ LoginFails \/ AnswerLogout \/ LogoutFails
    \/ AnswerAct \/ AnswerList \/ ActFails

Page ==
    \/ ReRun \/ Tick \/ ApplyPoll \/ Mounted \/ AskPasskey \/ Enter \/ LoggedOut
    \/ ActDone \/ ActEnded

Next == Others \/ Operator \/ Network \/ Page

Spec == Init /\ [][Next]_vars

\* The answer of the server to a poll, which may be that the login is over.
PollAnswered == AnswerPoll \/ (PollFails /\ auth' = "out")

\* The browser runs what it has scheduled; every request is answered or fails,
\* and polls are answered again and again, although not each of them.
Fairness ==
    /\ WF_vars(ReRun) /\ WF_vars(Tick) /\ WF_vars(ApplyPoll) /\ WF_vars(Mounted)
    /\ WF_vars(AskPasskey) /\ WF_vars(Enter) /\ WF_vars(LoggedOut) /\ WF_vars(ActDone) /\ WF_vars(ActEnded)
    /\ SF_vars(PollAnswered) /\ WF_vars(AnswerPoll \/ PollFails)
    /\ WF_vars(AnswerLogin \/ AnswerEntry \/ LoginFails) /\ WF_vars(AnswerLogout \/ LogoutFails)
    /\ WF_vars(AnswerAct \/ AnswerList \/ ActFails)

FairSpec == Spec /\ Fairness

-----------------------------------------------------------------------------
(* Properties.                                                              *)

\* A table that is neither being loaded nor left over from a failed poll shows
\* what it is asked for now, and for this login: no answer to an older
\* question or of an older login stays (main.tsx:188).
TableIsOfQuestion ==
    auth = "in" /\ view = "overview" /\ ~loading /\ ~rerun /\ ~failed =>
        rows = [view |-> view, filter |-> filter, login |-> login]

\* The settings view is never open for a plain administrator, whatever the
\* order in which a demotion, polls, the end of a login and the next login, of
\* another account perhaps, reach the page (main.tsx:211, 317).
SettingsForSuper == auth = "in" /\ view = "settings" => myrole = "super_admin"

\* Once nothing changes any more the console comes to show the servers and the
\* role as they are, or the login form when the login is over.
Shown ==
    IF live THEN auth = "in" => servers = registry /\ ~loading /\ myrole = role
            ELSE auth = "out"
Settled == <>[][FALSE]_<<serverVars, view, filter>> /\ <>[][~(Operator \/ LateAnswer)]_vars
WorkspaceConverges == Settled => []<>Shown

\* What a test says of a token just issued: a refresh does not take it away
\* ("A normal refresh must retain the operator's issued token"); it goes when
\* the operator closes it, with its server or with the login.
TokenKept ==
    [][ credential # None /\ credential' = None =>
          credential \notin registry \/ auth' # "in" \/ CloseToken ]_vars

=============================================================================
