---------------------------- MODULE FirewallPage ----------------------------
(* The SSH access page of the console (web/src/Firewall.tsx): one            *)
(* operator selects a server, edits its policy and confirms changes, while   *)
(* an effect polls the policy every five seconds.  A poll is asked, answered *)
(* and applied in three steps, and React runs the cleanup and the restart of *)
(* the effect some time after an asynchronous handler has set the state      *)
(* (ReRun); a click flushes both at once.                                    *)
(*                                                                           *)
(* Addresses are kept, names are not (a rename is a revision that changes    *)
(* nothing else).  Tabs and input fields of the add form carry no state that *)
(* survives a submit and are left out, as is the age of the last report,     *)
(* which only makes the status more cautious.                                *)
EXTENDS Console, Naturals

CONSTANTS IP, Port,
          DefaultPort,  \* the port of a policy nobody has set, and of an empty form
          SuperAdmin,   \* the role of the operator
          Capable,      \* what an agent may report: 1 bans, 2 the allowlist
          PageSize,     \* history rows per page (50 in the code)
          Start,        \* the policy of each server when the console is opened
          MaxRev,       \* bound: last revision of each server
          MaxPage,      \* bound: last page of the history the operator opens
          Unsteady      \* bound: the servers that may leave the list and come back

Mode == {"off", "allowlist", "legacy"}
Settings == [mode : Mode, port : Port]
Policy == [rev : Nat, allowed : SUBSET IP, mode : Mode, port : Port]

ASSUME ParameterAssumption ==
    /\ DefaultPort \in Port /\ None \notin Server \cup IP
    /\ SuperAdmin \in BOOLEAN /\ Capable \subseteq {1, 2}
    /\ PageSize \in Nat \ {0} /\ MaxRev \in [Server -> Nat] /\ MaxPage \in Nat
    /\ Start \in [Server -> Policy] /\ Unsteady \subseteq Server

VARIABLES
    policy,      \* server: the current policy, its revision counts its history rows
    agent,       \* server: firewall_policies' capable and applied_revision
    hosts,       \* prop servers: the servers listed by the workspace
    server, page, data, form, dirty, pending, editing, awaiting, fetchError,
    poll,        \* the live instance of the polling effect
    rerun,       \* the effect's dependencies changed, it has not run again yet
    req,         \* the change under way; busy is req # None
    acked,       \* history: newest revision acknowledged to this operator
    draft        \* history: the settings last typed

serverVars == <<policy, agent>>
formVars == <<form, dirty, draft>>
dialogVars == <<pending, editing>>
vars == <<policy, agent, hosts, server, page, data, form, dirty, pending,
          editing, awaiting, fetchError, poll, rerun, req, acked, draft>>

\* capable is 0 until the agent has reported.
Agent == [capable : {0} \cup Capable, applied : Nat]
AddressChange == [kind : {"add", "rename", "remove"}, ip : IP]
SettingsChange == [kind : {"settings"}, set : Settings]
Change == AddressChange \cup SettingsChange
Answer == [srv : Server, page : 0..MaxPage, policy : Policy, agent : Agent]
Poll == [phase : {"asked", "answered", "failed", "timer"}, srv : Server,
         page : 0..MaxPage, outdated : BOOLEAN, got : Answer \cup {None}]
Request == [phase : {"sent", "done", "failed"}, srv : Server, what : Change, rev : Nat]

TypeOK ==
    /\ policy \in [Server -> Policy] /\ agent \in [Server -> Agent]
    /\ hosts \subseteq Server /\ server \in Server \cup {None} /\ page \in 0..MaxPage /\ data \in Answer \cup {None}
    /\ form \in Settings /\ dirty \in BOOLEAN /\ draft \in Settings
    /\ pending \in [srv : Server, what : Change] \cup {None} /\ editing \in IP \cup {None}
    /\ awaiting \in BOOLEAN /\ fetchError \in BOOLEAN /\ rerun \in BOOLEAN
    /\ poll \in Poll \cup {None} /\ req \in Request \cup {None}
    /\ acked \in [Server -> Nat]

-----------------------------------------------------------------------------
(* The server.                                                              *)

\* The policy a change makes of p: a new revision, whatever the change.
Changed(p, c) ==
    LET q == [p EXCEPT !.rev = @ + 1] IN
    CASE c.kind = "add"      -> [q EXCEPT !.allowed = @ \cup {c.ip}]
      [] c.kind = "remove"   -> [q EXCEPT !.allowed = @ \ {c.ip}]
      [] c.kind = "settings" -> [q EXCEPT !.port = c.set.port,
                                          !.mode = IF c.set.mode = "legacy" THEN @ ELSE c.set.mode]
      [] OTHER               -> q

Accepted(s, c) ==
    /\ c.kind = "rename" => c.ip \in policy[s].allowed
    /\ LET q == Changed(policy[s], c)
       IN  q.mode = "allowlist" => q.allowed # {} /\ agent[s].capable = 2

ChangePolicy(s, c) ==
    /\ policy[s].rev < MaxRev[s] /\ Accepted(s, c)
    /\ policy' = [policy EXCEPT ![s] = Changed(@, c)]

\* Another administrator, or a change of this one that arrives after the page
\* has given up on it.
OtherChange(s, c) ==
    /\ ChangePolicy(s, c)
    /\ UNCHANGED <<agent, hosts, server, page, data, dialogVars, formVars, awaiting,
                   fetchError, poll, rerun, req, acked>>

\* The agent reports the current revision as applied.  A report of a failure
\* leaves applied_revision as it was and only makes the status more cautious.
Report(s, capable) ==
    /\ agent' = [agent EXCEPT ![s] = [capable |-> capable, applied |-> policy[s].rev]]
    /\ agent' # agent
    /\ UNCHANGED <<policy, hosts, server, page, data, dialogVars, formVars, awaiting,
                   fetchError, poll, rerun, req, acked>>

\* One read transaction answers with policy, state and a page of the history.
Snapshot(s, p) == [srv |-> s, page |-> p, policy |-> policy[s], agent |-> agent[s]]

AnswerPoll ==
    /\ poll # None /\ poll.phase = "asked"
    /\ poll' = [poll EXCEPT !.phase = "answered", !.got = Snapshot(poll.srv, poll.page)]
    /\ UNCHANGED <<serverVars, hosts, server, page, data, dialogVars, formVars, awaiting,
                   fetchError, rerun, req, acked>>

FailPoll ==
    /\ poll # None /\ poll.phase = "asked"
    /\ poll' = [poll EXCEPT !.phase = "failed"]
    /\ UNCHANGED <<serverVars, hosts, server, page, data, dialogVars, formVars, awaiting,
                   fetchError, rerun, req, acked>>

AnswerChange ==
    /\ req # None /\ req.phase = "sent"
    /\ \/ /\ ChangePolicy(req.srv, req.what)
          /\ req' = [req EXCEPT !.phase = "done", !.rev = policy'[req.srv].rev]
       \/ /\ ~Accepted(req.srv, req.what) \/ policy[req.srv].rev >= MaxRev[req.srv]
          /\ req' = [req EXCEPT !.phase = "failed"]
          /\ UNCHANGED policy
    /\ UNCHANGED <<agent, hosts, server, page, data, dialogVars, formVars, awaiting,
                   fetchError, poll, rerun, acked>>

\* The connection breaks: before the server has the change, or with its answer.
LoseChange ==
    /\ req # None /\ req.phase # "failed"
    /\ req' = [req EXCEPT !.phase = "failed"]
    /\ UNCHANGED <<serverVars, hosts, server, page, data, dialogVars, formVars,
                   awaiting, fetchError, poll, rerun, acked>>

-----------------------------------------------------------------------------
(* What the page derives from its state at each render.                     *)

busy == req # None
host == server \in hosts
allowed == data.policy.allowed
enabled == data.policy.mode = "allowlist"
ready == data.agent.capable = 2 /\ allowed # {}
controlsDisabled == busy \/ awaiting \/ fetchError
\* A modal dialog is open: nothing behind it can be clicked.
dialog == host /\ (pending # None \/ editing # None)
body == host /\ data # None /\ ~dialog
more == data.policy.rev > (data.page + 1) * PageSize

applied ==
    /\ data # None /\ ~awaiting
    /\ data.agent.capable > 0 /\ (enabled => data.agent.capable = 2)
    /\ data.agent.applied = data.policy.rev

-----------------------------------------------------------------------------
(* The polling effect.                                                      *)

Ask(s, p) == [phase |-> "asked", srv |-> s, page |-> p, outdated |-> FALSE, got |-> None]
StartPoll(s, p) == IF s \in hosts THEN Ask(s, p) ELSE None

\* Cleanup of the old instance (alive = false: its answer does nothing any
\* more) and a new run, with the dependencies of the committed render.
ReRun ==
    /\ rerun
    /\ rerun' = FALSE
    /\ poll' = StartPoll(server, page)
    /\ UNCHANGED <<serverVars, hosts, server, page, data, dialogVars, formVars, awaiting,
                   fetchError, req, acked>>

\* Mutant of Current: an answer counts although the policy has been changed since.
CurrentAlways == TRUE

Current == ~poll.outdated   \* version = mutationVersion.current

SettingsOf(p) == [mode |-> p.mode, port |-> p.port]

\* Mutant of FormOf: the settings received replace what is being typed.
FormOfServer(p) == SettingsOf(p)

FormOf(p) == IF dirty THEN form ELSE SettingsOf(p)

\* Mutant of Scheduled: the timer is set only after an answer.
ScheduledAfterAnswer ==
    IF poll.phase = "failed" THEN None ELSE [poll EXCEPT !.phase = "timer", !.got = None]

\* However a poll ends, the next one is due in five seconds.
Scheduled == [poll EXCEPT !.phase = "timer", !.got = None]

ApplyAnswer ==
    /\ poll # None /\ poll.phase = "answered"
    /\ poll' = Scheduled
    /\ IF Current
       THEN /\ awaiting' = FALSE /\ data' = poll.got /\ fetchError' = FALSE
            /\ form' = FormOf(poll.got.policy)
       ELSE UNCHANGED <<awaiting, data, fetchError, form>>
    /\ UNCHANGED <<serverVars, hosts, server, page, dialogVars, dirty, draft, rerun, req, acked>>

ApplyFailure ==
    /\ poll # None /\ poll.phase = "failed"
    /\ poll' = Scheduled
    /\ fetchError' = TRUE
    /\ UNCHANGED <<serverVars, hosts, server, page, data, dialogVars, formVars, awaiting,
                   rerun, req, acked>>

\* The five second timer: tick reads mutationVersion anew.
Tick ==
    /\ poll # None /\ poll.phase = "timer"
    /\ poll' = Ask(poll.srv, poll.page)
    /\ UNCHANGED <<serverVars, hosts, server, page, data, dialogVars, formVars, awaiting,
                   fetchError, rerun, req, acked>>

-----------------------------------------------------------------------------
(* The operator.  A click flushes the render and the effect it causes.      *)

Blank == [mode |-> "off", port |-> DefaultPort]

\* selectServer, from the list at the top of the page.
Select(s) ==
    /\ ~busy /\ ~dialog /\ s \in hosts \cup {None} /\ s # server
    /\ server' = s /\ page' = 0 /\ data' = None
    /\ fetchError' = FALSE /\ awaiting' = FALSE
    /\ pending' = None /\ editing' = None
    /\ form' = Blank /\ draft' = Blank /\ dirty' = FALSE
    /\ poll' = StartPoll(s, 0)
    /\ UNCHANGED <<serverVars, hosts, rerun, req, acked>>

Retry ==
    /\ fetchError /\ ~dialog
    /\ poll' = StartPoll(server, page)
    /\ UNCHANGED <<serverVars, hosts, server, page, data, dialogVars, formVars, awaiting,
                   fetchError, rerun, req, acked>>

TurnPage ==
    /\ body
    /\ \/ page > 0 /\ page' = page - 1
       \/ more /\ page < MaxPage /\ page' = page + 1
    /\ poll' = StartPoll(server, page')
    /\ UNCHANGED <<serverVars, hosts, server, data, dialogVars, formVars, awaiting,
                   fetchError, rerun, req, acked>>

\* The allowlist can be chosen only where it can be saved; the legacy policy
\* only while it is in force.
Type(set) ==
    /\ SuperAdmin /\ body /\ ~controlsDisabled
    /\ set.mode = "allowlist" => form.mode = "allowlist" \/ ready
    /\ set.mode = "legacy" => form.mode = "legacy" \/ data.policy.mode = "legacy"
    /\ form' = set /\ draft' = set /\ dirty' = TRUE
    /\ UNCHANGED <<serverVars, hosts, server, page, data, dialogVars, awaiting,
                   fetchError, poll, rerun, req, acked>>

\* confirmAction: nothing is sent before the dialog is confirmed.
confirmAction(c) ==
    /\ pending' = [srv |-> server, what |-> c]
    /\ UNCHANGED <<serverVars, hosts, server, page, data, editing, formVars, awaiting,
                   fetchError, poll, rerun, req, acked>>

SubmitAdd(ip) ==
    /\ body /\ ~controlsDisabled
    /\ confirmAction([kind |-> "add", ip |-> ip])

SubmitDelete(ip) ==
    /\ body /\ ~controlsDisabled /\ ip \in allowed
    /\ ~(enabled /\ allowed = {ip})
    /\ confirmAction([kind |-> "remove", ip |-> ip])

SubmitSettings ==
    /\ SuperAdmin /\ body /\ ~controlsDisabled
    /\ form.mode = "allowlist" => ready
    /\ confirmAction([kind |-> "settings", set |-> form])

Edit(ip) ==
    /\ body /\ ~controlsDisabled /\ ip \in allowed
    /\ editing' = ip
    /\ UNCHANGED <<serverVars, hosts, server, page, data, pending, formVars, awaiting,
                   fetchError, poll, rerun, req, acked>>

SubmitRename ==
    /\ host /\ editing # None /\ pending = None /\ ~controlsDisabled
    /\ confirmAction([kind |-> "rename", ip |-> editing])

CloseEdit ==
    /\ host /\ editing # None /\ pending = None /\ ~busy
    /\ editing' = None
    /\ UNCHANGED <<serverVars, hosts, server, page, data, pending, formVars, awaiting,
                   fetchError, poll, rerun, req, acked>>

\* Mutant of Cancel: the dialog can be closed while its request is under way.
CancelAnyTime ==
    /\ host /\ pending # None
    /\ pending' = None
    /\ UNCHANGED <<serverVars, hosts, server, page, data, editing, formVars, awaiting,
                   fetchError, poll, rerun, req, acked>>

Cancel ==
    /\ host /\ pending # None /\ ~busy
    /\ pending' = None
    /\ UNCHANGED <<serverVars, hosts, server, page, data, editing, formVars, awaiting,
                   fetchError, poll, rerun, req, acked>>

\* change(), as far as its await.
Confirm ==
    /\ host /\ pending # None /\ ~busy
    /\ req' = [phase |-> "sent", srv |-> server, what |-> pending.what, rev |-> 0]
    /\ UNCHANGED <<serverVars, hosts, server, page, data, dialogVars, formVars, awaiting,
                   fetchError, poll, rerun, acked>>

\* change() after a successful answer.
ChangeDone ==
    /\ busy /\ req.phase = "done"
    /\ req' = None
    /\ poll' = IF poll = None THEN None ELSE [poll EXCEPT !.outdated = TRUE]
    /\ awaiting' = TRUE
    /\ dirty' = (dirty /\ req.what.kind # "settings")
    /\ draft' = IF dirty' THEN draft ELSE Blank
    /\ pending' = None /\ editing' = None
    /\ rerun' = TRUE
    /\ acked' = [acked EXCEPT ![req.srv] = req.rev]
    /\ UNCHANGED <<serverVars, hosts, server, page, data, form, fetchError>>

\* change() after an error: the dialog stays open.
ChangeFailed ==
    /\ busy /\ req.phase = "failed"
    /\ req' = None
    /\ UNCHANGED <<serverVars, hosts, server, page, data, dialogVars, formVars, awaiting,
                   fetchError, poll, rerun, acked>>

-----------------------------------------------------------------------------
(* The workspace around the page.                                           *)

\* A poll of the workspace lists a server or drops it.
Relist(s) ==
    /\ hosts' = IF s \in hosts THEN hosts \ {s} ELSE hosts \cup {s}
    /\ rerun' = (rerun \/ s = server)
    /\ UNCHANGED <<serverVars, server, page, data, dialogVars, formVars, awaiting,
                   fetchError, poll, req, acked>>

\* Another view, or the end of the login: the page is unmounted and its
\* state goes with it, but not a change under way (OtherChange).  Later it is
\* mounted again, from the menu or from a session with its server and address.
Leave(s) ==
    /\ s \in hosts \cup {None}
    /\ UNCHANGED <<serverVars, hosts, acked>>
    /\ server' = s /\ page' = 0 /\ data' = None
    /\ form' = Blank /\ draft' = Blank /\ dirty' = FALSE
    /\ pending' = None /\ editing' = None
    /\ awaiting' = FALSE /\ fetchError' = FALSE
    /\ poll' = StartPoll(s, 0) /\ rerun' = FALSE /\ req' = None

-----------------------------------------------------------------------------
Init ==
    /\ policy = Start
    /\ agent = [s \in Server |-> [capable |-> 0, applied |-> 0]]
    /\ hosts = Server
    /\ server \in Server \cup {None} /\ page = 0 /\ data = None
    /\ form = Blank /\ draft = Blank /\ dirty = FALSE
    /\ pending = None /\ editing = None
    /\ awaiting = FALSE /\ fetchError = FALSE
    /\ poll = StartPoll(server, 0) /\ rerun = FALSE /\ req = None
    /\ acked = [s \in Server |-> 0]

Operator ==
    \/ \E s \in Server \cup {None} : Select(s)
    \/ \E set \in Settings : Type(set)
    \/ \E ip \in IP : SubmitAdd(ip) \/ SubmitDelete(ip) \/ Edit(ip)
    \/ SubmitSettings \/ SubmitRename \/ CloseEdit \/ Cancel \/ Confirm
    \/ Retry \/ TurnPage

Page == ReRun \/ ApplyAnswer \/ ApplyFailure \/ Tick \/ ChangeDone \/ ChangeFailed

Network == AnswerPoll \/ FailPoll \/ AnswerChange \/ LoseChange

Others ==
    \/ \E s \in Server, c \in Change : OtherChange(s, c)
    \/ \E s \in Server, k \in Capable : Report(s, k)
    \/ \E s \in Unsteady : Relist(s)
    \/ \E s \in Server \cup {None} : Leave(s)

Next == Operator \/ Page \/ Network \/ Others

Spec == Init /\ [][Next]_vars

\* The browser runs what it has scheduled; the server answers polls and
\* changes again and again, although not each of them.
Fairness ==
    /\ WF_vars(ReRun) /\ WF_vars(ApplyAnswer) /\ WF_vars(ApplyFailure) /\ WF_vars(Tick)
    /\ WF_vars(ChangeDone) /\ WF_vars(ChangeFailed)
    /\ SF_vars(AnswerPoll) /\ WF_vars(AnswerChange)

FairSpec == Spec /\ Fairness

-----------------------------------------------------------------------------
(* Properties.                                                              *)

\* While the page offers its controls, or calls a policy applied, it shows
\* the selected server as it was after the last change of this operator that
\* was acknowledged: no poll asked before the change brings the older policy
\* back (Firewall.tsx:60).
AckedIsShown ==
    applied \/ (body /\ ~controlsDisabled) =>
        data.srv = server /\ data.policy.rev >= acked[server]

\* A dialog is about the selected server, and while its request is under way
\* it stays as it was sent: the answer closes the dialog it belongs to, even
\* if the server left the list and came back meanwhile.
DialogIsSent ==
    /\ pending # None => pending.srv = server
    /\ busy => pending = [srv |-> req.srv, what |-> req.what]

\* The settings form holds what the operator typed and has not saved, through
\* polls, other changes and failures; or else the policy shown.
DraftIsKept ==
    IF dirty THEN form = draft
             ELSE data # None /\ ~awaiting => form = SettingsOf(data.policy)

\* Once nobody changes anything any more, the page comes to show the server
\* and to offer its controls, again and again: a failed poll, a superseded
\* answer or a change that was lost does not leave it disabled.
Converged ==
    host => data = Snapshot(server, page) /\ ~controlsDisabled
Settled ==
    /\ <>[][FALSE]_<<policy, agent, hosts, server, page>>
    /\ <>[][~(Confirm \/ Retry \/ \E s \in Server \cup {None} : Leave(s))]_vars
PageConverges == Settled => []<>Converged

=============================================================================
