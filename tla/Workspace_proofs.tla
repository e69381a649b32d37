------------------------- MODULE Workspace_proofs -------------------------
(***************************************************************************)
(* The workspace shows the table it is asked for, and the settings to a    *)
(* super administrator only, for any number of servers and logins.  The    *)
(* argument: unless the polling effect is due to run again, its live run   *)
(* asks for what is selected in this login, and a table that is neither    *)
(* loading nor failed holds the answer to that run; a run that may demote  *)
(* the operator was asked by the settings view whenever that view is open. *)
(***************************************************************************)
EXTENDS Workspace, TLAPS

Current == [view |-> view, filter |-> filter, login |-> login]

\* The live run asks for what is selected, and the table holds its answer.
PollInv ==
    auth = "in" /\ ~rerun =>
        /\ poll.of = Current
        /\ ~loading /\ ~failed => rows = Current

\* The settings view is open only on polls of its own.
SettingsInv ==
    /\ auth = "checking" => view # "settings"
    /\ poll # None /\ view = "settings" => poll.of.view = "settings"

\* The operator logs in from the login form.
EntryInv == entry # None => auth = "out"

IInv == TypeOK /\ PollInv /\ SettingsInv /\ EntryInv /\ SettingsForSuper

-----------------------------------------------------------------------------
(* Types.                                                                  *)

LEMMA RoleView ==
    /\ "admin" \in Role /\ "super_admin" \in Role
    /\ "overview" \in View /\ "servers" \in View /\ "settings" \in View
BY DEF Role, View

LEMMA NoneIsFilter == None \in Filter /\ Server \subseteq Filter
BY DEF Filter

LEMMA AskType ==
    ASSUME TypeOK, NEW v \in View, NEW f \in Filter
    PROVE  /\ Ask(v, f) \in Poll
           /\ Ask(v, f).of = [view |-> v, filter |-> f, login |-> login]
<1>1. [view |-> v, filter |-> f, login |-> login] \in Question
  BY DEF TypeOK, Question
<1> QED
  BY <1>1, RoleView DEF Ask, Poll

LEMMA AtRestType ==
    ASSUME NEW p \in Poll, poll = p
    PROVE  AtRest \in Poll /\ AtRest.of = poll.of
BY RoleView DEF AtRest, Poll

LEMMA DemotedType ==
    ASSUME NEW v \in View, NEW r \in Role
    PROVE  Demoted(v, r) \in View /\ (Demoted(v, r) = "settings" => r = "super_admin")
BY RoleView DEF Demoted, Role

\* The end of a login empties the page.
LEMMA EndType ==
    ASSUME TypeOK, End
    PROVE  /\ auth' = "out" /\ myrole' \in Role /\ view' = view /\ filter' \in Filter
           /\ servers' \subseteq Server /\ rows' \in Question \cup {None}
           /\ credential' \in Filter /\ rerun' \in BOOLEAN
BY RoleView, NoneIsFilter DEF TypeOK, End, clearWorkspace

\* An error leaves the page as it is or ends the login.
LEMMA ErrorCases ==
    ASSUME NEW n, Error(n) PROVE UNCHANGED <<pageVars, rerun>> \/ End
BY DEF Error

\* The end of a login keeps the invariant, whatever else the step does.
LEMMA EndKeepsInv ==
    ASSUME IInv, End, TypeOK', poll' = poll \/ poll'.of = poll.of,
           poll' # None => poll # None
    PROVE  IInv'
BY EndType DEF IInv, PollInv, SettingsInv, EntryInv, SettingsForSuper

\* A step that touches neither the page nor the poll keeps it as well.
LEMMA ElsewhereKeepsInv ==
    ASSUME IInv, TypeOK', UNCHANGED <<pageVars, pollVars>>,
           login' = login \/ auth # "in",
           entry' # None => auth = "out"
    PROVE  IInv'
BY DEF pageVars, pollVars, IInv, PollInv, SettingsInv, EntryInv, SettingsForSuper, Current

-----------------------------------------------------------------------------
(* The server and what others do there.                                    *)

LEMMA OthersKeepInv == IInv /\ Others => IInv'
<1> SUFFICES ASSUME IInv, Others PROVE IInv'
  OBVIOUS
<1>1. CASE OthersRegister \/ OthersRevoke \/ OthersChangeRole \/ LoginEnds
  <2>1. /\ fresh' \subseteq Server /\ registry' \subseteq Server /\ role' \in Role
        /\ live' \in BOOLEAN /\ login' = login
    BY <1>1 DEF OthersRegister, OthersRevoke, OthersChangeRole, LoginEnds, IInv, TypeOK
  <2>2. UNCHANGED <<pageVars, busy, mfa, pollVars, act, leaving, entry>>
    BY <1>1 DEF OthersRegister, OthersRevoke, OthersChangeRole, LoginEnds
  <2>3. TypeOK'
    BY <2>1, <2>2 DEF pageVars, pollVars, IInv, TypeOK
  <2> QED
    BY <2>1, <2>2, <2>3, ElsewhereKeepsInv DEF IInv, EntryInv
<1>2. CASE LateAnswer
  <2>1. End /\ UNCHANGED <<serverVars, busy, mfa, loading, failed, poll, act, leaving, entry>>
    BY <1>2 DEF LateAnswer
  <2>2. TypeOK'
    BY <2>1, EndType DEF serverVars, IInv, TypeOK
  <2> QED
    BY <2>1, <2>2, EndKeepsInv
<1> QED
  BY <1>1, <1>2 DEF Others

-----------------------------------------------------------------------------
(* The polling effect.                                                     *)

\* A run of the effect for the selection of the next state.
LEMMA RestartKeepsInv ==
    ASSUME IInv, TypeOK', NEW v \in View, NEW f \in Filter, Restart(auth, v, f),
           view' = v, filter' = f,
           UNCHANGED <<serverVars, auth, myrole, rows, failed, entry>>,
           auth = "checking" \/ v = "settings" => v = view \/ (auth = "in" /\ myrole = "super_admin")
    PROVE  IInv'
<1>1. CASE auth = "in"
  <2>1. poll' = Ask(v, f) /\ loading' = TRUE
    BY <1>1 DEF Restart
  <2>2. poll'.of = [view |-> v, filter |-> f, login |-> login]
    BY <2>1, AskType DEF IInv
  <2> QED
    BY <1>1, <2>1, <2>2
    DEF serverVars, IInv, PollInv, SettingsInv, EntryInv, SettingsForSuper, Current
<1>2. CASE auth # "in"
  BY <1>2 DEF Restart, serverVars, IInv, PollInv, SettingsInv, EntryInv, SettingsForSuper
<1> QED
  BY <1>1, <1>2

LEMMA RestartType ==
    ASSUME TypeOK, NEW v \in View, NEW f \in Filter, Restart(auth, v, f)
    PROVE  poll' \in Poll \cup {None} /\ loading' \in BOOLEAN
BY AskType DEF Restart, TypeOK

LEMMA ReRunKeepsInv == IInv /\ ReRun => IInv'
<1> SUFFICES ASSUME IInv, ReRun PROVE IInv'
  OBVIOUS
<1>1. /\ Restart(auth, view, filter) /\ view \in View /\ filter \in Filter /\ rerun' = FALSE
      /\ UNCHANGED <<serverVars, pageVars, busy, mfa, failed, act, leaving, entry>>
  BY DEF ReRun, IInv, TypeOK
<1>2. TypeOK'
  BY <1>1, RestartType DEF serverVars, pageVars, IInv, TypeOK
<1> QED
  BY <1>1, <1>2, RestartKeepsInv DEF pageVars

LEMMA PollStepKeepsInv == IInv /\ (AnswerPoll \/ Tick) => IInv'
<1> SUFFICES ASSUME IInv, AnswerPoll \/ Tick PROVE IInv'
  OBVIOUS
<1>1. /\ poll \in Poll /\ poll # None /\ UNCHANGED <<serverVars, pageVars, busy, mfa, act, leaving>>
      /\ UNCHANGED <<loading, failed, rerun, entry>>
  BY DEF AnswerPoll, Tick, PollStep, IInv, TypeOK
<1>2. poll.of \in Question /\ poll.of.view \in View /\ poll.of.filter \in Filter
  BY <1>1 DEF Poll, Question
<1>3. /\ poll' \in Poll /\ poll'.of.view = poll.of.view
      /\ poll.of = Current => poll'.of = Current
  <2>1. CASE AnswerPoll
    <3>1. poll' \in Poll /\ poll'.of = poll.of
      BY <1>1, <2>1 DEF AnswerPoll, PollStep, Poll, IInv, TypeOK
    <3> QED
      BY <3>1
  <2>2. CASE Tick
    <3>1. poll' = Ask(poll.of.view, poll.of.filter)
      BY <2>2 DEF Tick, PollStep
    <3>2. /\ poll' \in Poll
          /\ poll'.of = [view |-> poll.of.view, filter |-> poll.of.filter, login |-> login]
      BY <1>2, <3>1, AskType DEF IInv
    <3> QED
      BY <1>1, <3>2 DEF Current, serverVars, pageVars
  <2> QED
    BY <2>1, <2>2
<1>4. TypeOK'
  BY <1>1, <1>3 DEF serverVars, pageVars, IInv, TypeOK
<1> QED
  BY <1>1, <1>3, <1>4 DEF serverVars, pageVars, IInv, PollInv, SettingsInv, EntryInv,
                          SettingsForSuper, Current

LEMMA ApplyPollKeepsInv == IInv /\ ApplyPoll => IInv'
<1> SUFFICES ASSUME IInv, ApplyPoll PROVE IInv'
  OBVIOUS
<1>1. poll \in Poll /\ poll # None
  BY DEF ApplyPoll, IInv, TypeOK
<1>2. /\ poll.of \in Question /\ poll.of.view \in View /\ poll.list \subseteq Server
      /\ poll.role \in Role
  BY <1>1 DEF Poll, Question
<1>3. poll' \in Poll /\ poll'.of = poll.of
  BY <1>1, AtRestType DEF ApplyPoll
<1>4. /\ view' \in {view, "overview"}
      /\ view' = "settings" => poll.of.view = "settings" /\ poll.role = "super_admin"
  <2>1. view' = "settings" => view = "settings" /\ Demoted(poll.of.view, poll.role) = poll.of.view
    BY DEF ApplyPoll
  <2>2. view = "settings" => poll.of.view = "settings"
    BY <1>1 DEF IInv, SettingsInv
  <2> QED
    BY <1>2, <2>1, <2>2, DemotedType DEF ApplyPoll
<1>5. TypeOK'
  <2>1. credential' \in Filter
    BY NoneIsFilter DEF ApplyPoll, Kept, IInv, TypeOK
  <2> QED
    BY <1>2, <1>3, <1>4, <2>1, RoleView DEF ApplyPoll, serverVars, IInv, TypeOK
<1>6. SettingsInv' /\ SettingsForSuper' /\ EntryInv'
  BY <1>3, <1>4 DEF ApplyPoll, IInv, SettingsInv, SettingsForSuper, EntryInv
<1>7. PollInv'
  <2> SUFFICES ASSUME auth' = "in", ~rerun' PROVE poll'.of = Current' /\ rows' = Current'
    BY DEF PollInv
  <2>1. view' = view /\ auth = "in" /\ ~rerun /\ filter' = filter /\ login' = login
    BY DEF ApplyPoll, serverVars
  <2>2. poll.of = Current /\ Current' = Current
    BY <2>1 DEF IInv, PollInv, Current
  <2> QED
    BY <1>3, <2>2 DEF ApplyPoll
<1> QED
  BY <1>5, <1>6, <1>7 DEF IInv

LEMMA PollFailsKeepsInv == IInv /\ PollFails => IInv'
<1> SUFFICES ASSUME IInv, PollFails PROVE IInv'
  OBVIOUS
<1>1. poll \in Poll /\ poll # None
  BY DEF PollFails, IInv, TypeOK
<1>2. poll' \in Poll /\ poll'.of = poll.of
  BY <1>1, AtRestType DEF PollFails
<1>3. failed' = TRUE /\ loading' = FALSE /\ UNCHANGED <<serverVars, busy, mfa, act, leaving, entry>>
  BY DEF PollFails
<1>4. CASE End
  <2>1. TypeOK'
    BY <1>2, <1>3, <1>4, EndType DEF serverVars, IInv, TypeOK
  <2> QED
    BY <1>1, <1>2, <1>4, <2>1, EndKeepsInv
<1>5. CASE UNCHANGED <<pageVars, rerun>>
  BY <1>1, <1>2, <1>3, <1>5
  DEF serverVars, pageVars, IInv, TypeOK, PollInv, SettingsInv, EntryInv, SettingsForSuper, Current
<1> QED
  BY <1>4, <1>5, ErrorCases DEF PollFails

-----------------------------------------------------------------------------
(* Login and logout.                                                       *)

LEMMA MountedKeepsInv == IInv /\ Mounted => IInv'
<1> SUFFICES ASSUME IInv, Mounted PROVE IInv'
  OBVIOUS
<1>1. /\ rerun' = TRUE /\ auth = "checking" /\ auth' \in {"in", "out"} /\ myrole' \in Role
      /\ UNCHANGED <<serverVars, view, filter, servers, rows, credential, busy, mfa,
                     loading, failed, poll, act, leaving, entry>>
  BY DEF Mounted, IInv, TypeOK
<1>2. TypeOK'
  BY <1>1 DEF serverVars, IInv, TypeOK
<1> QED
  BY <1>1, <1>2 DEF IInv, PollInv, SettingsInv, EntryInv, SettingsForSuper

LEMMA EnterKeepsInv == IInv /\ Enter => IInv'
<1> SUFFICES ASSUME IInv, Enter PROVE IInv'
  OBVIOUS
<1>1. entry \in Entry /\ auth = "out"
  BY DEF Enter, IInv, TypeOK, EntryInv
<1>2. entry.role \in Role
  BY <1>1 DEF Entry
<1>3. /\ view' \in View /\ (view' = "settings" => view = "settings" /\ entry.role = "super_admin")
  BY <1>2, RoleView DEF Enter, IInv, TypeOK, Demoted, Role
<1>4. rerun' = TRUE
  BY <1>1 DEF Enter
<1>5. TypeOK'
  BY <1>2, <1>3, <1>4 DEF Enter, serverVars, IInv, TypeOK
<1> QED
  BY <1>3, <1>4, <1>5 DEF Enter, IInv, PollInv, SettingsInv, EntryInv, SettingsForSuper

LEMMA EntryKeepsInv ==
    IInv /\ (Submit \/ Reset \/ AnswerLogin \/ AskPasskey \/ AnswerEntry) => IInv'
<1> SUFFICES ASSUME IInv, Submit \/ Reset \/ AnswerLogin \/ AskPasskey \/ AnswerEntry
             PROVE  IInv'
  OBVIOUS
<1>1. auth = "out" /\ UNCHANGED <<fresh, registry, pageVars, pollVars, act, leaving>>
  BY DEF Submit, Reset, AnswerLogin, AskPasskey, AnswerEntry, serverVars, IInv, EntryInv
<1>2. entry' \in Entry \cup {None}
  <2>1. CASE Submit \/ Reset \/ AskPasskey
    BY <2>1, RoleView DEF Submit, Reset, AskPasskey, Entry, IInv, TypeOK
  <2>2. CASE AnswerEntry
    BY <2>2 DEF AnswerEntry, Entry, IInv, TypeOK
  <2>3. CASE AnswerLogin
    <3>1. entry \in Entry
      BY <2>3 DEF AnswerLogin, IInv, TypeOK
    <3> QED
      BY <2>3, <3>1 DEF AnswerLogin, Entry
  <2> QED
    BY <2>1, <2>2, <2>3
<1>3. role' \in Role /\ login' \in 0..MaxLogin /\ live' \in BOOLEAN
  <2>1. CASE AnswerLogin
    <3>1. ASSUME login < MaxLogin, login' = login + 1 PROVE login' \in 0..MaxLogin
      BY <3>1, ParameterAssumption DEF IInv, TypeOK
    <3>2. login' = login \/ (login < MaxLogin /\ login' = login + 1)
      BY <2>1 DEF AnswerLogin
    <3>3. role' \in Role /\ live' \in BOOLEAN
      BY <2>1 DEF AnswerLogin, IInv, TypeOK
    <3>4. login' \in 0..MaxLogin
      BY <3>1, <3>2 DEF IInv, TypeOK
    <3> QED
      BY <3>3, <3>4
  <2>2. CASE ~AnswerLogin
    BY <2>2 DEF Submit, Reset, AskPasskey, AnswerEntry, serverVars, IInv, TypeOK
  <2> QED
    BY <2>1, <2>2
<1>4. busy' \in BOOLEAN /\ mfa' \in BOOLEAN
  BY DEF Submit, Reset, AnswerLogin, AskPasskey, AnswerEntry, IInv, TypeOK
<1>5. TypeOK'
  BY <1>1, <1>2, <1>3, <1>4 DEF pageVars, pollVars, IInv, TypeOK
<1> QED
  BY <1>1, <1>5, ElsewhereKeepsInv

LEMMA LoginFailsKeepsInv == IInv /\ LoginFails => IInv'
<1> SUFFICES ASSUME IInv, LoginFails PROVE IInv'
  OBVIOUS
<1>1. /\ entry' = None /\ busy' = FALSE /\ mfa' \in BOOLEAN
      /\ UNCHANGED <<serverVars, loading, failed, poll, act, leaving>>
  BY DEF LoginFails, IInv, TypeOK
<1>2. CASE End
  <2>1. TypeOK'
    BY <1>1, <1>2, EndType DEF serverVars, IInv, TypeOK
  <2> QED
    BY <1>1, <1>2, <2>1, EndKeepsInv
<1>3. CASE UNCHANGED <<pageVars, rerun>>
  <2>1. TypeOK'
    BY <1>1, <1>3 DEF serverVars, pageVars, IInv, TypeOK
  <2> QED
    BY <1>1, <1>3, <2>1, ElsewhereKeepsInv DEF serverVars, pollVars
<1> QED
  BY <1>2, <1>3, ErrorCases DEF LoginFails

LEMMA LogoutKeepsInv ==
    IInv /\ (Logout \/ AnswerLogout \/ LoggedOut \/ LogoutFails) => IInv'
<1> SUFFICES ASSUME IInv, Logout \/ AnswerLogout \/ LoggedOut \/ LogoutFails PROVE IInv'
  OBVIOUS
<1>1. /\ leaving' \in {"sent", "done", None} /\ busy' \in BOOLEAN /\ live' \in BOOLEAN
      /\ UNCHANGED <<fresh, registry, role, login, mfa, loading, failed, poll, act, entry>>
  BY DEF Logout, AnswerLogout, LoggedOut, LogoutFails, serverVars, pollVars, IInv, TypeOK
<1>2. CASE End
  <2>1. TypeOK'
    BY <1>1, <1>2, EndType DEF IInv, TypeOK
  <2> QED
    BY <1>1, <1>2, <2>1, EndKeepsInv
<1>3. CASE UNCHANGED <<pageVars, rerun>>
  <2>1. TypeOK'
    BY <1>1, <1>3 DEF pageVars, IInv, TypeOK
  <2> QED
    BY <1>1, <1>3, <2>1, ElsewhereKeepsInv DEF pollVars, IInv, EntryInv
<1> QED
  BY <1>2, <1>3, ErrorCases DEF Logout, AnswerLogout, LoggedOut, LogoutFails, pollVars

-----------------------------------------------------------------------------
(* The operator.                                                           *)

LEMMA ClickKeepsInv ==
    ASSUME IInv, NEW v \in View, NEW f \in Filter, navigate(v) \/ SetFilter(f)
    PROVE  IInv'
<1>1. PICK w \in View, g \in Filter :
          /\ Restart(auth, w, g) /\ view' = w /\ filter' = g
          /\ auth = "in" /\ (w = "settings" => w = view \/ myrole = "super_admin")
  BY DEF navigate, SetFilter, Present, IInv, TypeOK
<1>2. UNCHANGED <<serverVars, auth, myrole, servers, rows, credential, busy, mfa,
                  failed, rerun, act, leaving, entry>>
  BY DEF navigate, SetFilter, Clicked
<1>3. TypeOK'
  BY <1>1, <1>2, RestartType DEF serverVars, IInv, TypeOK
<1> QED
  BY <1>1, <1>2, <1>3, RestartKeepsInv

LEMMA CloseTokenKeepsInv == IInv /\ CloseToken => IInv'
<1> SUFFICES ASSUME IInv, CloseToken PROVE IInv'
  OBVIOUS
<1>1. TypeOK'
  BY NoneIsFilter DEF CloseToken, serverVars, pollVars, IInv, TypeOK
<1> QED
  BY <1>1 DEF CloseToken, serverVars, pollVars, IInv, PollInv, SettingsInv, EntryInv,
              SettingsForSuper, Current

LEMMA BeginKeepsInv ==
    ASSUME IInv, NEW kind \in {"register", "rotate", "revoke"}, NEW s \in Server, Begin(kind, s)
    PROVE  IInv'
<1>1. act' \in Act
  <2>1. (kind = "revoke" /\ filter = s) \in BOOLEAN
    OBVIOUS
  <2> QED
    BY <2>1 DEF Begin, Act, IInv, TypeOK
<1>2. TypeOK'
  BY <1>1 DEF Begin, serverVars, pageVars, pollVars, IInv, TypeOK
<1> QED
  BY <1>2, ElsewhereKeepsInv DEF Begin, serverVars, IInv, EntryInv

LEMMA AnswerActKeepsInv == IInv /\ (AnswerAct \/ AnswerList) => IInv'
<1> SUFFICES ASSUME IInv, AnswerAct \/ AnswerList PROVE IInv'
  OBVIOUS
<1>1. act \in Act
  BY DEF AnswerAct, AnswerList, IInv, TypeOK
<1>2. act.srv \in Server /\ act.kind \in {"register", "rotate", "revoke"}
  BY <1>1 DEF Act
<1>3. act' \in Act
  BY <1>1 DEF AnswerAct, AnswerList, Act, IInv, TypeOK
<1>4. fresh' \subseteq Server /\ registry' \subseteq Server
  BY <1>2 DEF AnswerAct, AnswerList, serverVars, IInv, TypeOK
<1>5. UNCHANGED <<role, login, live, pageVars, busy, mfa, pollVars, leaving, entry>>
  BY DEF AnswerAct, AnswerList, serverVars
<1>6. TypeOK'
  BY <1>3, <1>4, <1>5 DEF pageVars, pollVars, IInv, TypeOK
<1> QED
  BY <1>5, <1>6, ElsewhereKeepsInv DEF IInv, EntryInv

\* When an action changes the filter the effect is due to run again.
LEMMA ActDoneKeepsInv == IInv /\ ActDone => IInv'
<1> SUFFICES ASSUME IInv, ActDone PROVE IInv'
  OBVIOUS
<1>1. act \in Act
  BY DEF ActDone, IInv, TypeOK
<1>2. act.srv \in Server /\ act.kind \in {"register", "rotate", "revoke"}
  BY <1>1 DEF Act
<1>3. act' \in Act
  BY <1>1 DEF ActDone, Act, IInv, TypeOK
<1>4. filter' \in Filter /\ credential' \in Filter /\ rerun' \in BOOLEAN
  BY <1>2, NoneIsFilter DEF ActDone, IInv, TypeOK
<1>5. /\ ~rerun' => ~rerun /\ filter' = filter
      /\ UNCHANGED <<serverVars, auth, myrole, view, servers, rows, busy, mfa, loading, failed,
                     poll, leaving, entry>>
  BY DEF ActDone
<1>6. TypeOK'
  BY <1>3, <1>4, <1>5 DEF serverVars, IInv, TypeOK
<1> QED
  BY <1>5, <1>6 DEF serverVars, IInv, PollInv, SettingsInv, EntryInv, SettingsForSuper, Current

LEMMA ActEndedKeepsInv == IInv /\ ActEnded => IInv'
<1> SUFFICES ASSUME IInv, ActEnded PROVE IInv'
  OBVIOUS
<1>1. act \in Act
  BY DEF ActEnded, IInv, TypeOK
<1>2. servers' \subseteq Server /\ act' = None /\ busy' = FALSE
  BY <1>1 DEF ActEnded, Act
<1>3. UNCHANGED <<serverVars, auth, myrole, view, filter, rows, credential, mfa, pollVars,
                  leaving, entry>>
  BY DEF ActEnded
<1>4. TypeOK'
  BY <1>2, <1>3 DEF serverVars, pollVars, IInv, TypeOK
<1> QED
  BY <1>3, <1>4 DEF serverVars, pollVars, IInv, PollInv, SettingsInv, EntryInv, SettingsForSuper,
                    Current

LEMMA ActFailsKeepsInv == IInv /\ ActFails => IInv'
<1> SUFFICES ASSUME IInv, ActFails PROVE IInv'
  OBVIOUS
<1>1. /\ act' = None /\ busy' = FALSE
      /\ UNCHANGED <<serverVars, mfa, loading, failed, poll, leaving, entry>>
  BY DEF ActFails
<1>2. CASE End
  <2>1. TypeOK'
    BY <1>1, <1>2, EndType DEF serverVars, IInv, TypeOK
  <2> QED
    BY <1>1, <1>2, <2>1, EndKeepsInv
<1>3. CASE UNCHANGED <<pageVars, rerun>>
  <2>1. TypeOK'
    BY <1>1, <1>3 DEF serverVars, pageVars, IInv, TypeOK
  <2> QED
    BY <1>1, <1>3, <2>1, ElsewhereKeepsInv DEF serverVars, pollVars, IInv, EntryInv
<1> QED
  BY <1>2, <1>3, ErrorCases DEF ActFails

-----------------------------------------------------------------------------
LEMMA InitInv == Init => IInv
<1> SUFFICES ASSUME Init PROVE IInv
  OBVIOUS
<1>1. login \in 0..MaxLogin
  BY ParameterAssumption DEF Init
<1>2. TypeOK
  BY <1>1, ParameterAssumption, RoleView, NoneIsFilter DEF Init, TypeOK
<1> QED
  BY <1>2 DEF Init, IInv, PollInv, SettingsInv, EntryInv, SettingsForSuper

LEMMA NextInv == IInv /\ [Next]_vars => IInv'
<1> SUFFICES ASSUME IInv, [Next]_vars PROVE IInv'
  OBVIOUS
<1>1. CASE Operator
  <2>1. ASSUME NEW v \in View, navigate(v) PROVE IInv'
    BY <2>1, NoneIsFilter, ClickKeepsInv
  <2>2. ASSUME NEW f \in Filter, SetFilter(f) PROVE IInv'
    BY <2>2, RoleView, ClickKeepsInv
  <2> QED
    BY <1>1, <2>1, <2>2, BeginKeepsInv, CloseTokenKeepsInv, EntryKeepsInv, LogoutKeepsInv
    DEF Operator
<1>2. CASE Network
  BY <1>2, PollStepKeepsInv, PollFailsKeepsInv, EntryKeepsInv, LoginFailsKeepsInv, LogoutKeepsInv,
     AnswerActKeepsInv, ActFailsKeepsInv
  DEF Network
<1>3. CASE Page
  BY <1>3, ReRunKeepsInv, PollStepKeepsInv, ApplyPollKeepsInv, MountedKeepsInv, EntryKeepsInv,
     EnterKeepsInv, LogoutKeepsInv, ActDoneKeepsInv, ActEndedKeepsInv
  DEF Page
<1>4. CASE UNCHANGED vars
  <2>1. TypeOK'
    BY <1>4 DEF vars, serverVars, pageVars, pollVars, IInv, TypeOK
  <2> QED
    BY <1>4, <2>1, ElsewhereKeepsInv DEF vars, serverVars, IInv, EntryInv
<1> QED
  BY <1>1, <1>2, <1>3, <1>4, OthersKeepInv DEF Next

-----------------------------------------------------------------------------
\* The variables of the workspace keep their types.
THEOREM WorkspaceTypeCorrect == Spec => []TypeOK
<1>1. IInv => TypeOK
  BY DEF IInv
<1> QED
  BY InitInv, NextInv, <1>1, PTL DEF Spec

\* A table that is neither loading nor left over from a failed poll shows what
\* it is asked for in this login, for any number of servers and logins.
THEOREM NoOlderTableShown == Spec => []TableIsOfQuestion
<1>1. IInv => TableIsOfQuestion
  BY DEF IInv, PollInv, TableIsOfQuestion, Current
<1> QED
  BY InitInv, NextInv, <1>1, PTL DEF Spec

\* The settings view is open for super administrators only, in whatever order
\* demotions, polls and logins reach the page.
THEOREM SettingsStaySuper == Spec => []SettingsForSuper
<1>1. IInv => SettingsForSuper
  BY DEF IInv
<1> QED
  BY InitInv, NextInv, <1>1, PTL DEF Spec
=============================================================================
