------------------------- MODULE FirewallPage_proofs -------------------------
(***************************************************************************)
(* Theorems about the SSH access page, for every set of servers, addresses *)
(* and ports.  The argument for AckedIsShown: an answer to a poll that is  *)
(* still current was given after the last change that was acknowledged,    *)
(* because that acknowledgement outdates every poll before it.             *)
(***************************************************************************)
EXTENDS FirewallPage, TLAPS

\* A poll asks about the selected server, and its answer is about it too.
PollIsOfSelected ==
    poll # None =>
        /\ poll.srv = server
        /\ poll.phase = "answered" => poll.got \in Answer /\ poll.got.srv = server

\* What the page holds is about the selected server.
DataIsOfSelected == data # None => data.srv = server

\* Acknowledged revisions exist.
AckedExists ==
    /\ \A s \in Server : acked[s] <= policy[s].rev
    /\ req # None /\ req.phase = "done" => req.rev <= policy[req.srv].rev

\* A current answer, and the data shown while nothing is awaited, are at least
\* as new as the last change acknowledged.
AnswerIsNew ==
    poll # None /\ poll.phase = "answered" /\ ~poll.outdated =>
        poll.got.policy.rev >= acked[poll.got.srv]
DataIsNew == data # None /\ ~awaiting => data.policy.rev >= acked[data.srv]

\* The request under way is about the selected server.
RequestIsOfSelected == req # None => req.srv = server

ShownInv ==
    PollIsOfSelected /\ DataIsOfSelected /\ AckedExists /\ AnswerIsNew /\ DataIsNew
DialogInv == DialogIsSent /\ RequestIsOfSelected

IInv == TypeOK /\ ShownInv /\ DialogInv /\ DraftIsKept

-----------------------------------------------------------------------------
(* Types.                                                                   *)

\* A change makes a policy of the next revision.
LEMMA ChangedType ==
    ASSUME NEW p \in Policy, NEW c \in Change
    PROVE  Changed(p, c) \in Policy /\ Changed(p, c).rev = p.rev + 1
<1> DEFINE q == [p EXCEPT !.rev = @ + 1]
<1>1. q \in Policy /\ q.rev = p.rev + 1
  BY DEF Policy
<1>2. CASE c.kind \in {"add", "remove"}
  <2>1. c.ip \in IP
    BY <1>2 DEF Change, AddressChange, SettingsChange
  <2> QED
    BY <1>1, <1>2, <2>1 DEF Changed, Policy
<1>3. CASE c.kind = "settings"
  <2>1. c.set \in Settings
    BY <1>3 DEF Change, AddressChange, SettingsChange
  <2> QED
    BY <1>1, <1>3, <2>1 DEF Changed, Policy, Settings
<1>4. CASE c.kind \notin {"add", "remove", "settings"}
  BY <1>1, <1>4 DEF Changed
<1> QED
  BY <1>2, <1>3, <1>4

LEMMA PolicyChangeType ==
    ASSUME TypeOK, NEW s \in Server, NEW c \in Change, ChangePolicy(s, c)
    PROVE  /\ policy' \in [Server -> Policy]
           /\ policy'[s].rev = policy[s].rev + 1
           /\ \A t \in Server \ {s} : policy'[t] = policy[t]
BY ChangedType DEF TypeOK, ChangePolicy

LEMMA SnapshotType ==
    ASSUME TypeOK, NEW s \in Server, NEW p \in 0..MaxPage
    PROVE  Snapshot(s, p) \in Answer
BY DEF TypeOK, Snapshot, Answer

LEMMA PollTypes ==
    ASSUME TypeOK
    PROVE  /\ \A s \in Server, p \in 0..MaxPage : Ask(s, p) \in Poll
           /\ \A s \in Server \cup {None}, p \in 0..MaxPage :
                 StartPoll(s, p) \in Poll \cup {None}
           /\ poll # None => Scheduled \in Poll
<1>1. \A s \in Server, p \in 0..MaxPage : Ask(s, p) \in Poll
  BY DEF Ask, Poll
<1>2. \A s \in Server \cup {None}, p \in 0..MaxPage : StartPoll(s, p) \in Poll \cup {None}
  BY <1>1 DEF StartPoll, TypeOK
<1>3. poll # None => Scheduled \in Poll
  BY DEF Scheduled, Poll, TypeOK
<1> QED
  BY <1>1, <1>2, <1>3

LEMMA InitType == Init => TypeOK
<1> SUFFICES ASSUME Init PROVE TypeOK
  OBVIOUS
<1>1. policy \in [Server -> Policy] /\ agent \in [Server -> Agent] /\ acked \in [Server -> Nat]
  BY ParameterAssumption DEF Init, Agent
<1>2. form \in Settings /\ draft \in Settings
  BY ParameterAssumption DEF Init, Blank, Settings, Mode
<1>3. page = 0 /\ 0 \in 0..MaxPage
  BY ParameterAssumption DEF Init
<1>4. poll \in Poll \cup {None}
  BY <1>3 DEF Init, StartPoll, Ask, Poll
<1> QED
  BY <1>1, <1>2, <1>3, <1>4 DEF Init, TypeOK

\* Steps of the server and of the network.
LEMMA NetworkType ==
    ASSUME TypeOK, Network
    PROVE  TypeOK'
<1> USE DEF serverVars, formVars, dialogVars
<1>1. CASE AnswerPoll
  <2>1. poll \in Poll /\ poll.srv \in Server /\ poll.page \in 0..MaxPage
    BY <1>1 DEF AnswerPoll, TypeOK, Poll
  <2>2. poll' \in Poll
    BY <1>1, <2>1, SnapshotType DEF AnswerPoll, Poll
  <2> QED
    BY <1>1, <2>2 DEF AnswerPoll, TypeOK
<1>2. CASE FailPoll
  <2>1. poll' \in Poll
    BY <1>2 DEF FailPoll, TypeOK, Poll
  <2> QED
    BY <1>2, <2>1 DEF FailPoll, TypeOK
<1>3. CASE AnswerChange
  <2>1. req \in Request /\ req.srv \in Server /\ req.what \in Change
    BY <1>3 DEF AnswerChange, TypeOK, Request
  <2>2. policy' \in [Server -> Policy]
    BY <1>3, <2>1, PolicyChangeType DEF AnswerChange, TypeOK
  <2>3. policy'[req.srv].rev \in Nat
    BY <2>1, <2>2 DEF Policy
  <2>4. req' \in Request
    BY <1>3, <2>1, <2>3 DEF AnswerChange, Request
  <2> QED
    BY <1>3, <2>2, <2>4 DEF AnswerChange, TypeOK
<1>4. CASE LoseChange
  <2>1. req' \in Request
    BY <1>4 DEF LoseChange, TypeOK, Request
  <2> QED
    BY <1>4, <2>1 DEF LoseChange, TypeOK
<1> QED
  BY <1>1, <1>2, <1>3, <1>4 DEF Network

LEMMA OthersType ==
    ASSUME TypeOK, Others
    PROVE  TypeOK'
<1> USE DEF serverVars, formVars, dialogVars
<1>1. ASSUME NEW s \in Server, NEW c \in Change, OtherChange(s, c) PROVE TypeOK'
  BY <1>1, PolicyChangeType DEF OtherChange, TypeOK
<1>2. ASSUME NEW s \in Server, NEW k \in Capable, Report(s, k) PROVE TypeOK'
  <2>1. agent' \in [Server -> Agent]
    BY <1>2 DEF Report, TypeOK, Agent, Policy
  <2> QED
    BY <1>2, <2>1 DEF Report, TypeOK
<1>3. ASSUME NEW s \in Unsteady, Relist(s) PROVE TypeOK'
  BY <1>3, ParameterAssumption DEF Relist, TypeOK
<1>4. ASSUME NEW s \in Server \cup {None}, Leave(s) PROVE TypeOK'
  <2>1. Blank \in Settings /\ 0 \in 0..MaxPage
    BY ParameterAssumption DEF Blank, Settings, Mode
  <2> QED
    BY <1>4, <2>1, PollTypes DEF Leave, TypeOK
<1> QED
  BY <1>1, <1>2, <1>3, <1>4 DEF Others

\* Steps the browser runs by itself.
LEMMA PageType ==
    ASSUME TypeOK, PollIsOfSelected, Page
    PROVE  TypeOK'
<1> USE DEF serverVars, formVars, dialogVars
<1>1. CASE ReRun
  BY <1>1, PollTypes DEF ReRun, TypeOK
<1>2. CASE ApplyAnswer
  <2>1. poll' \in Poll
    BY <1>2, PollTypes DEF ApplyAnswer
  <2>2. poll.got \in Answer
    BY <1>2 DEF ApplyAnswer, PollIsOfSelected
  <2>3. data' \in Answer \cup {None} /\ awaiting' \in BOOLEAN /\ fetchError' \in BOOLEAN
    BY <1>2, <2>2 DEF ApplyAnswer, TypeOK
  <2>4. form' \in Settings
    BY <1>2, <2>2 DEF ApplyAnswer, TypeOK, FormOf, SettingsOf, Settings, Answer, Policy
  <2> QED
    BY <1>2, <2>1, <2>3, <2>4 DEF ApplyAnswer, TypeOK
<1>3. CASE ApplyFailure
  BY <1>3, PollTypes DEF ApplyFailure, TypeOK
<1>4. CASE Tick
  <2>1. poll.srv \in Server /\ poll.page \in 0..MaxPage
    BY <1>4 DEF Tick, TypeOK, Poll
  <2> QED
    BY <1>4, <2>1, PollTypes DEF Tick, TypeOK
<1>5. CASE ChangeDone
  <2>1. req.srv \in Server /\ req.rev \in Nat
    BY <1>5 DEF ChangeDone, busy, TypeOK, Request
  <2>2. acked' \in [Server -> Nat]
    BY <1>5, <2>1 DEF ChangeDone, TypeOK
  <2>3. poll' \in Poll \cup {None}
    BY <1>5 DEF ChangeDone, TypeOK, Poll
  <2>4. dirty' \in BOOLEAN /\ draft' \in Settings
    BY <1>5, ParameterAssumption DEF ChangeDone, TypeOK, Blank, Settings, Mode
  <2> QED
    BY <1>5, <2>2, <2>3, <2>4 DEF ChangeDone, TypeOK
<1>6. CASE ChangeFailed
  BY <1>6 DEF ChangeFailed, TypeOK
<1> QED
  BY <1>1, <1>2, <1>3, <1>4, <1>5, <1>6 DEF Page

LEMMA OperatorType ==
    ASSUME TypeOK, Operator
    PROVE  TypeOK'
<1> USE DEF serverVars, formVars, dialogVars
<1>1. ASSUME NEW s \in Server \cup {None}, Select(s) PROVE TypeOK'
  <2>1. Blank \in Settings /\ 0 \in 0..MaxPage
    BY ParameterAssumption DEF Blank, Settings, Mode
  <2> QED
    BY <1>1, <2>1, PollTypes DEF Select, TypeOK
<1>2. ASSUME NEW set \in Settings, Type(set) PROVE TypeOK'
  BY <1>2 DEF Type, TypeOK
<1>3. ASSUME NEW c \in Change, host, confirmAction(c) PROVE TypeOK'
  <2>1. server \in Server
    BY <1>3 DEF host, TypeOK
  <2> QED
    BY <1>3, <2>1 DEF confirmAction, TypeOK
<1>4. ASSUME NEW ip \in IP, SubmitAdd(ip) \/ SubmitDelete(ip) PROVE TypeOK'
  BY <1>3, <1>4 DEF SubmitAdd, SubmitDelete, body, Change, AddressChange
<1>5. ASSUME NEW ip \in IP, Edit(ip) PROVE TypeOK'
  BY <1>5 DEF Edit, TypeOK
<1>6. CASE SubmitSettings
  BY <1>3, <1>6 DEF SubmitSettings, body, Change, SettingsChange, TypeOK
<1>7. CASE SubmitRename
  BY <1>3, <1>7 DEF SubmitRename, Change, AddressChange, TypeOK
<1>8. CASE CloseEdit \/ Cancel
  BY <1>8 DEF CloseEdit, Cancel, TypeOK
<1>9. CASE Confirm
  <2>1. req' \in Request
    BY <1>9 DEF Confirm, host, TypeOK, Request
  <2> QED
    BY <1>9, <2>1 DEF Confirm, TypeOK
<1>10. CASE Retry
  BY <1>10, PollTypes DEF Retry, TypeOK
<1>11. CASE TurnPage
  <2>1. page' \in 0..MaxPage
    BY <1>11, ParameterAssumption DEF TurnPage, TypeOK
  <2> QED
    BY <1>11, <2>1, PollTypes DEF TurnPage, TypeOK
<1> QED
  BY <1>1, <1>2, <1>4, <1>5, <1>6, <1>7, <1>8, <1>9, <1>10, <1>11 DEF Operator

LEMMA NextType == TypeOK /\ PollIsOfSelected /\ [Next]_vars => TypeOK'
BY NetworkType, OthersType, PageType, OperatorType
DEF Next, vars, TypeOK

-----------------------------------------------------------------------------
(* What the page shows after a change of its own.                           *)

\* A poll that has just been asked has no answer yet.
LEMMA FreshPoll ==
    /\ \A s \in Server \cup {None}, p \in 0..MaxPage :
          StartPoll(s, p) # None =>
              StartPoll(s, p).srv = s /\ StartPoll(s, p).phase = "asked"
    /\ \A s \in Server, p \in 0..MaxPage : Ask(s, p).srv = s /\ Ask(s, p).phase = "asked"
BY DEF StartPoll, Ask

\* Starting to poll for what is selected keeps the invariant, if nothing else
\* that it speaks of changes.
LEMMA RestartKeepsShown ==
    ASSUME TypeOK, ShownInv, poll' = StartPoll(server', page'),
           server' \in Server \cup {None}, page' \in 0..MaxPage,
           (UNCHANGED <<data, awaiting, server>>) \/ data' = None,
           UNCHANGED policy, UNCHANGED acked, UNCHANGED req \/ req' = None
    PROVE  ShownInv'
<1>1. PollIsOfSelected' /\ AnswerIsNew'
  BY FreshPoll DEF PollIsOfSelected, AnswerIsNew
<1>2. DataIsOfSelected' /\ DataIsNew' /\ AckedExists'
  BY DEF ShownInv, DataIsOfSelected, DataIsNew, AckedExists
<1> QED
  BY <1>1, <1>2 DEF ShownInv

\* So does a step that leaves alone what it speaks of.
LEMMA ShownStutters ==
    ASSUME ShownInv, UNCHANGED <<policy, server, data, awaiting, poll, acked>>,
           req' = req \/ req' = None \/ req'.phase # "done"
    PROVE  ShownInv'
BY DEF ShownInv, PollIsOfSelected, DataIsOfSelected, AckedExists, AnswerIsNew, DataIsNew

LEMMA ShownInit == Init /\ TypeOK => ShownInv
<1> SUFFICES ASSUME Init, TypeOK PROVE ShownInv
  OBVIOUS
<1>1. PollIsOfSelected /\ AnswerIsNew
  BY FreshPoll DEF Init, TypeOK, PollIsOfSelected, AnswerIsNew
<1>2. DataIsOfSelected /\ DataIsNew /\ AckedExists
  BY DEF Init, TypeOK, DataIsOfSelected, DataIsNew, AckedExists, Policy
<1> QED
  BY <1>1, <1>2 DEF ShownInv

LEMMA ChangeKeepsShown ==
    ASSUME TypeOK, ShownInv, NEW s \in Server, NEW c \in Change, ChangePolicy(s, c),
           UNCHANGED <<server, data, awaiting, poll, acked>>,
           \/ req' = req
           \/ /\ req # None /\ req.srv = s
              /\ req' = [req EXCEPT !.phase = "done", !.rev = policy'[s].rev]
    PROVE  ShownInv'
<1>1. \A t \in Server : policy[t].rev \in Nat /\ policy'[t].rev \in Nat /\ acked[t] \in Nat
                         /\ policy[t].rev <= policy'[t].rev
  BY PolicyChangeType DEF TypeOK, Policy
<1>2. AckedExists'
  <2>1. \A t \in Server : acked'[t] <= policy'[t].rev
    BY <1>1 DEF ShownInv, AckedExists
  <2>2. req' # None /\ req'.phase = "done" => req'.rev <= policy'[req'.srv].rev
    <3>1. CASE req' = req
      <4> SUFFICES ASSUME req # None, req.phase = "done" PROVE req.rev <= policy'[req.srv].rev
        BY <3>1
      <4>1. req.srv \in Server /\ req.rev \in Nat
        BY DEF TypeOK, Request
      <4> QED
        BY <1>1, <4>1 DEF ShownInv, AckedExists
    <3>2. CASE req' # req
      <4>1. req \in Request /\ req.srv = s
        BY <3>2 DEF TypeOK
      <4>2. req'.rev = policy'[s].rev /\ req'.srv = s
        BY <3>2, <4>1 DEF Request
      <4> QED
        BY <1>1, <4>2
    <3> QED
      BY <3>1, <3>2
  <2> QED
    BY <2>1, <2>2 DEF AckedExists
<1> QED
  BY <1>2 DEF ShownInv, PollIsOfSelected, DataIsOfSelected, AnswerIsNew, DataIsNew

LEMMA NetworkKeepsShown ==
    ASSUME TypeOK, ShownInv, Network
    PROVE  ShownInv'
<1> USE DEF serverVars, formVars, dialogVars
<1>1. CASE AnswerPoll
  <2>1. poll \in Poll /\ poll.srv \in Server /\ poll.srv = server /\ poll.page \in 0..MaxPage
    BY <1>1 DEF AnswerPoll, TypeOK, Poll, ShownInv, PollIsOfSelected
  <2>2. /\ poll'.srv = server /\ poll'.phase = "answered"
        /\ poll'.got = Snapshot(poll.srv, poll.page)
    BY <1>1, <2>1 DEF AnswerPoll, Poll
  <2>3. poll'.got \in Answer /\ poll'.got.srv = server /\ poll'.got.policy = policy[server]
    BY <2>1, <2>2, SnapshotType DEF Snapshot
  <2>4. policy[server].rev >= acked[server]
    BY <2>1 DEF ShownInv, AckedExists, TypeOK, Policy
  <2> QED
    BY <1>1, <2>2, <2>3, <2>4
    DEF AnswerPoll, ShownInv, PollIsOfSelected, DataIsOfSelected, AckedExists, AnswerIsNew, DataIsNew
<1>2. CASE FailPoll
  <2>1. poll'.srv = poll.srv /\ poll'.phase = "failed"
    BY <1>2 DEF FailPoll, TypeOK, Poll
  <2> QED
    BY <1>2, <2>1
    DEF FailPoll, ShownInv, PollIsOfSelected, DataIsOfSelected, AckedExists, AnswerIsNew, DataIsNew
<1>3. CASE AnswerChange
  <2>1. req \in Request /\ req.srv \in Server /\ req.what \in Change
    BY <1>3 DEF AnswerChange, TypeOK, Request
  <2>2. CASE ChangePolicy(req.srv, req.what)
             /\ req' = [req EXCEPT !.phase = "done", !.rev = policy'[req.srv].rev]
    BY <1>3, <2>1, <2>2, ChangeKeepsShown DEF AnswerChange
  <2>3. CASE req' = [req EXCEPT !.phase = "failed"] /\ UNCHANGED policy
    <3>1. req'.phase = "failed"
      BY <2>1, <2>3 DEF Request
    <3> QED
      BY <1>3, <2>3, <3>1, ShownStutters DEF AnswerChange
  <2> QED
    BY <1>3, <2>2, <2>3 DEF AnswerChange
<1>4. CASE LoseChange
  <2>1. req'.phase = "failed"
    BY <1>4 DEF LoseChange, TypeOK, Request
  <2> QED
    BY <1>4, <2>1, ShownStutters DEF LoseChange
<1> QED
  BY <1>1, <1>2, <1>3, <1>4 DEF Network

LEMMA OthersKeepShown ==
    ASSUME TypeOK, ShownInv, Others
    PROVE  ShownInv'
<1> USE DEF serverVars, formVars, dialogVars
<1>1. ASSUME NEW s \in Server, NEW c \in Change, OtherChange(s, c) PROVE ShownInv'
  BY <1>1, ChangeKeepsShown DEF OtherChange
<1>2. ASSUME NEW s \in Server, NEW k \in Capable, Report(s, k) PROVE ShownInv'
  BY <1>2, ShownStutters DEF Report
<1>3. ASSUME NEW s \in Unsteady, Relist(s) PROVE ShownInv'
  BY <1>3, ShownStutters DEF Relist
<1>4. ASSUME NEW s \in Server \cup {None}, Leave(s) PROVE ShownInv'
  BY <1>4, RestartKeepsShown, ParameterAssumption DEF Leave
<1> QED
  BY <1>1, <1>2, <1>3, <1>4 DEF Others

LEMMA PageKeepsShown ==
    ASSUME TypeOK, ShownInv, DialogInv, Page
    PROVE  ShownInv'
<1> USE DEF serverVars, formVars, dialogVars
<1>1. CASE ReRun
  BY <1>1, RestartKeepsShown DEF ReRun, TypeOK
<1>2. CASE ApplyAnswer
  <2>1. /\ poll # None /\ poll.srv = server /\ poll.got \in Answer /\ poll.got.srv = server
        /\ ~poll.outdated => poll.got.policy.rev >= acked[poll.got.srv]
    BY <1>2 DEF ApplyAnswer, ShownInv, PollIsOfSelected, AnswerIsNew
  <2>2. poll'.srv = poll.srv /\ poll'.phase = "timer"
    BY <1>2 DEF ApplyAnswer, Scheduled, TypeOK, Poll
  <2>3. PollIsOfSelected' /\ AnswerIsNew'
    BY <1>2, <2>1, <2>2 DEF ApplyAnswer, PollIsOfSelected, AnswerIsNew
  <2>4. DataIsOfSelected' /\ DataIsNew'
    BY <1>2, <2>1 DEF ApplyAnswer, Current, ShownInv, DataIsOfSelected, DataIsNew
  <2> QED
    BY <1>2, <2>3, <2>4 DEF ApplyAnswer, ShownInv, AckedExists
<1>3. CASE ApplyFailure
  <2>1. poll'.srv = poll.srv /\ poll'.phase = "timer"
    BY <1>3 DEF ApplyFailure, Scheduled, TypeOK, Poll
  <2> QED
    BY <1>3, <2>1
    DEF ApplyFailure, ShownInv, PollIsOfSelected, DataIsOfSelected, AckedExists, AnswerIsNew, DataIsNew
<1>4. CASE Tick
  <2>1. poll.srv \in Server /\ poll.page \in 0..MaxPage
    BY <1>4 DEF Tick, TypeOK, Poll
  <2> QED
    BY <1>4, <2>1, FreshPoll
    DEF Tick, ShownInv, PollIsOfSelected, DataIsOfSelected, AckedExists, AnswerIsNew, DataIsNew
<1>5. CASE ChangeDone
  <2>1. req \in Request /\ req.srv = server /\ server \in Server /\ req.rev <= policy[server].rev
    BY <1>5 DEF ChangeDone, busy, TypeOK, Request, DialogInv, RequestIsOfSelected, ShownInv, AckedExists
  <2>2. AckedExists'
    BY <1>5, <2>1 DEF ChangeDone, TypeOK, ShownInv, AckedExists
  <2>3. poll' # None => poll # None /\ poll'.outdated /\ poll'.srv = poll.srv
                          /\ poll'.phase = poll.phase /\ poll'.got = poll.got
    BY <1>5 DEF ChangeDone, TypeOK, Poll
  <2>4. PollIsOfSelected' /\ AnswerIsNew'
    BY <1>5, <2>3 DEF ChangeDone, ShownInv, PollIsOfSelected, AnswerIsNew
  <2>5. DataIsOfSelected' /\ DataIsNew'
    BY <1>5 DEF ChangeDone, ShownInv, DataIsOfSelected, DataIsNew
  <2> QED
    BY <2>2, <2>4, <2>5 DEF ShownInv
<1>6. CASE ChangeFailed
  BY <1>6, ShownStutters DEF ChangeFailed
<1> QED
  BY <1>1, <1>2, <1>3, <1>4, <1>5, <1>6 DEF Page

LEMMA OperatorKeepsShown ==
    ASSUME TypeOK, ShownInv, Operator
    PROVE  ShownInv'
<1> USE DEF serverVars, formVars, dialogVars
<1>1. ASSUME NEW s \in Server \cup {None}, Select(s) PROVE ShownInv'
  BY <1>1, RestartKeepsShown, ParameterAssumption DEF Select
<1>2. ASSUME NEW set \in Settings, Type(set) PROVE ShownInv'
  BY <1>2, ShownStutters DEF Type
<1>3. ASSUME NEW ip \in IP, SubmitAdd(ip) \/ SubmitDelete(ip) \/ Edit(ip) PROVE ShownInv'
  BY <1>3, ShownStutters DEF SubmitAdd, SubmitDelete, Edit, confirmAction
<1>4. CASE SubmitSettings \/ SubmitRename \/ CloseEdit \/ Cancel
  BY <1>4, ShownStutters DEF SubmitSettings, SubmitRename, CloseEdit, Cancel, confirmAction
<1>5. CASE Confirm
  <2>1. req'.phase = "sent"
    BY <1>5 DEF Confirm
  <2> QED
    BY <1>5, <2>1, ShownStutters DEF Confirm
<1>6. CASE Retry
  BY <1>6, RestartKeepsShown DEF Retry, TypeOK
<1>7. CASE TurnPage
  <2>1. page' \in 0..MaxPage
    BY <1>7, ParameterAssumption DEF TurnPage, TypeOK
  <2> QED
    BY <1>7, <2>1, RestartKeepsShown DEF TurnPage, TypeOK
<1> QED
  BY <1>1, <1>2, <1>3, <1>4, <1>5, <1>6, <1>7 DEF Operator

LEMMA NextShown == TypeOK /\ ShownInv /\ DialogInv /\ [Next]_vars => ShownInv'
BY NetworkKeepsShown, OthersKeepShown, PageKeepsShown, OperatorKeepsShown, ShownStutters
DEF Next, vars

-----------------------------------------------------------------------------
(* The dialog and the request it sent.                                      *)

LEMMA DialogStutters ==
    ASSUME DialogInv, UNCHANGED <<server, pending>>, req' = req \/ req' = None
    PROVE  DialogInv'
BY DEF DialogInv, DialogIsSent, RequestIsOfSelected, busy

\* Nothing is under way where a dialog may be opened or closed.
LEMMA IdleKeepsDialog ==
    ASSUME DialogInv, ~busy, UNCHANGED <<server, req>>,
           pending' # None => pending'.srv = server
    PROVE  DialogInv'
BY DEF DialogInv, DialogIsSent, RequestIsOfSelected, busy

LEMMA NextDialog ==
    ASSUME TypeOK, DialogInv, [Next]_vars
    PROVE  DialogInv'
<1> USE DEF serverVars, formVars, dialogVars
<1>1. CASE Page
  BY <1>1, DialogStutters, IdleKeepsDialog
  DEF Page, ReRun, ApplyAnswer, ApplyFailure, Tick, ChangeDone, ChangeFailed,
      DialogInv, DialogIsSent, RequestIsOfSelected, busy
<1>2. CASE AnswerPoll \/ FailPoll
  BY <1>2, DialogStutters DEF AnswerPoll, FailPoll
<1>3. CASE AnswerChange \/ LoseChange
  <2>1. req # None /\ req \in Request /\ UNCHANGED <<server, pending>>
    BY <1>3 DEF AnswerChange, LoseChange, TypeOK
  <2>2. req'.srv = req.srv /\ req'.what = req.what
    BY <1>3, <2>1 DEF AnswerChange, LoseChange, Request
  <2> QED
    BY <2>1, <2>2 DEF DialogInv, DialogIsSent, RequestIsOfSelected, busy
<1>4. CASE Others
  <2>1. ASSUME NEW s \in Server \cup {None}, Leave(s) PROVE DialogInv'
    BY <2>1 DEF Leave, DialogInv, DialogIsSent, RequestIsOfSelected, busy
  <2> QED
    BY <1>4, <2>1, DialogStutters DEF Others, OtherChange, Report, Relist
<1>5. CASE Operator
  <2>1. ASSUME NEW s \in Server \cup {None}, Select(s) PROVE DialogInv'
    BY <2>1 DEF Select, DialogInv, DialogIsSent, RequestIsOfSelected, busy
  <2>2. ASSUME NEW set \in Settings, Type(set) PROVE DialogInv'
    BY <2>2, DialogStutters DEF Type
  <2>3. ASSUME NEW c, ~busy, confirmAction(c) PROVE DialogInv'
    BY <2>3, IdleKeepsDialog DEF confirmAction
  <2>4. ASSUME NEW ip \in IP, SubmitAdd(ip) \/ SubmitDelete(ip) PROVE DialogInv'
    BY <2>3, <2>4 DEF SubmitAdd, SubmitDelete, controlsDisabled
  <2>5. CASE SubmitSettings \/ SubmitRename
    BY <2>3, <2>5 DEF SubmitSettings, SubmitRename, controlsDisabled
  <2>6. CASE Cancel
    BY <2>6, IdleKeepsDialog DEF Cancel
  <2>7. CASE Confirm
    <3>1. pending \in [srv : Server, what : Change] /\ pending.srv = server
      BY <2>7 DEF Confirm, TypeOK, DialogInv, DialogIsSent
    <3>2. pending' = pending /\ server' = server /\ req'.srv = server /\ req'.what = pending.what
      BY <2>7 DEF Confirm
    <3>3. pending = [srv |-> pending.srv, what |-> pending.what]
      BY <3>1
    <3> QED
      BY <3>1, <3>2, <3>3 DEF DialogInv, DialogIsSent, RequestIsOfSelected, busy
  <2>8. ASSUME NEW ip \in IP, Edit(ip) PROVE DialogInv'
    BY <2>8, DialogStutters DEF Edit
  <2>9. CASE CloseEdit \/ Retry \/ TurnPage
    BY <2>9, DialogStutters DEF CloseEdit, Retry, TurnPage
  <2> QED
    BY <1>5, <2>1, <2>2, <2>4, <2>5, <2>6, <2>7, <2>8, <2>9 DEF Operator
<1>6. CASE UNCHANGED vars
  BY <1>6, DialogStutters DEF vars
<1> QED
  BY <1>1, <1>2, <1>3, <1>4, <1>5, <1>6 DEF Next, Network

-----------------------------------------------------------------------------
(* The settings form.                                                       *)

LEMMA DraftStutters ==
    ASSUME DraftIsKept, UNCHANGED <<form, dirty, draft, data, awaiting>>
    PROVE  DraftIsKept'
BY DEF DraftIsKept, SettingsOf

LEMMA NextDraft ==
    ASSUME DraftIsKept, [Next]_vars
    PROVE  DraftIsKept'
<1> USE DEF serverVars, formVars, dialogVars
<1>1. CASE ApplyAnswer
  BY <1>1 DEF ApplyAnswer, FormOf, SettingsOf, DraftIsKept
<1>2. CASE ChangeDone
  BY <1>2 DEF ChangeDone, DraftIsKept
<1>3. CASE ReRun \/ ApplyFailure \/ Tick \/ ChangeFailed
  BY <1>3, DraftStutters DEF ReRun, ApplyFailure, Tick, ChangeFailed
<1>4. CASE Network
  BY <1>4, DraftStutters DEF Network, AnswerPoll, FailPoll, AnswerChange, LoseChange
<1>5. CASE Others
  <2>1. ASSUME NEW s \in Server \cup {None}, Leave(s) PROVE DraftIsKept'
    BY <2>1 DEF Leave, DraftIsKept
  <2> QED
    BY <1>5, <2>1, DraftStutters DEF Others, OtherChange, Report, Relist
<1>6. CASE Operator
  <2>1. ASSUME NEW s \in Server \cup {None}, Select(s) PROVE DraftIsKept'
    BY <2>1 DEF Select, DraftIsKept
  <2>2. ASSUME NEW set \in Settings, Type(set) PROVE DraftIsKept'
    BY <2>2 DEF Type, DraftIsKept
  <2>3. ASSUME NEW ip \in IP, SubmitAdd(ip) \/ SubmitDelete(ip) \/ Edit(ip) PROVE DraftIsKept'
    BY <2>3, DraftStutters DEF SubmitAdd, SubmitDelete, Edit, confirmAction
  <2> QED
    BY <1>6, <2>1, <2>2, <2>3, DraftStutters
    DEF Operator, SubmitSettings, SubmitRename, CloseEdit, Cancel, Confirm, Retry, TurnPage, confirmAction
<1>7. CASE UNCHANGED vars
  BY <1>7, DraftStutters DEF vars
<1> QED
  BY <1>1, <1>2, <1>3, <1>4, <1>5, <1>6, <1>7 DEF Next, Page

-----------------------------------------------------------------------------
LEMMA Inductive == Spec => []IInv
<1>1. Init => IInv
  <2> SUFFICES ASSUME Init PROVE IInv
    OBVIOUS
  <2>1. TypeOK /\ ShownInv
    BY InitType, ShownInit
  <2>2. DialogInv /\ DraftIsKept
    BY DEF Init, DialogInv, DialogIsSent, RequestIsOfSelected, busy, DraftIsKept
  <2> QED
    BY <2>1, <2>2 DEF IInv
<1>2. IInv /\ [Next]_vars => IInv'
  BY NextType, NextShown, NextDialog, NextDraft DEF IInv, ShownInv
<1> QED
  BY <1>1, <1>2, PTL DEF Spec

\* The variables of the page keep their types.
THEOREM PageTypeCorrect == Spec => []TypeOK
<1>1. IInv => TypeOK
  BY DEF IInv
<1> QED
  BY <1>1, Inductive, PTL

\* While the page offers its controls, or calls a policy applied, it shows the
\* selected server as it was after the operator's last acknowledged change.
THEOREM NoOlderPolicyShown == Spec => []AckedIsShown
<1>1. IInv => AckedIsShown
  <2> SUFFICES ASSUME IInv, data # None, ~awaiting
               PROVE  data.srv = server /\ data.policy.rev >= acked[server]
    BY DEF AckedIsShown, applied, body, controlsDisabled
  <2> QED
    BY DEF IInv, ShownInv, DataIsOfSelected, DataIsNew
<1> QED
  BY <1>1, Inductive, PTL

\* The dialog on the screen is the one whose request is under way, and it is
\* about the selected server.
THEOREM ConfirmedIsSent == Spec => []DialogIsSent
<1>1. IInv => DialogIsSent
  BY DEF IInv, DialogInv
<1> QED
  BY <1>1, Inductive, PTL

\* No poll, change of others or failure replaces what is typed into the
\* settings form; what is not typed is the policy shown.
THEOREM TypingIsSafe == Spec => []DraftIsKept
<1>1. IInv => DraftIsKept
  BY DEF IInv
<1> QED
  BY <1>1, Inductive, PTL
=============================================================================
