---------------------------- MODULE MCWorkspace ----------------------------
(* One server, which nobody has registered yet, in two scenes.  tables: two   *)
(* logins, of accounts with either role, without actions of the server view.  *)
(* tokens: one login, of a super administrator, with those actions.           *)
EXTENDS Workspace

CONSTANT web
VARIABLE scene

Servers == {web}
Nothing == {}

sceneVars == <<vars, scene>>

Tables == scene = "tables" /\ act' = None
Tokens == scene = "tokens" /\ role' = "super_admin" /\ login' <= 1
InScene   == (Tables \/ Tokens) /\ UNCHANGED scene

SceneInit ==
    /\ Init /\ scene \in {"tables", "tokens"}
    /\ scene = "tokens" => role = "super_admin"

\* One disjunct per action of Next.
SceneNext ==
    \/ OthersRegister /\ InScene
    \/ OthersRevoke /\ InScene
    \/ OthersChangeRole /\ InScene
    \/ LoginEnds /\ InScene
    \/ LateAnswer /\ InScene
    \/ (\E v \in View : navigate(v)) /\ InScene
    \/ (\E f \in Filter : SetFilter(f)) /\ InScene
    \/ (\E kind \in {"register", "rotate", "revoke"}, s \in Server : Begin(kind, s)) /\ InScene
    \/ CloseToken /\ InScene
    \/ Submit /\ InScene
    \/ Reset /\ InScene
    \/ Logout /\ InScene
    \/ AnswerPoll /\ InScene
    \/ PollFails /\ InScene
    \/ AnswerLogin /\ InScene
    \/ AnswerEntry /\ InScene
    \/ LoginFails /\ InScene
    \/ AnswerLogout /\ InScene
    \/ LogoutFails /\ InScene
    \/ AnswerAct /\ InScene
    \/ AnswerList /\ InScene
    \/ ActFails /\ InScene
    \/ ReRun /\ InScene
    \/ Tick /\ InScene
    \/ ApplyPoll /\ InScene
    \/ Mounted /\ InScene
    \/ AskPasskey /\ InScene
    \/ Enter /\ InScene
    \/ LoggedOut /\ InScene
    \/ ActDone /\ InScene
    \/ ActEnded /\ InScene

SceneSpec == SceneInit /\ [][SceneNext]_sceneVars /\ Fairness
=============================================================================
