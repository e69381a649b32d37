---------------------------- MODULE ConsolePages ----------------------------
(* The pages of the console that keep state of their own, side by side.      *)
(* main.tsx mounts the page of one view at a time and a page forgets its     *)
(* state when it is left (Leave, LeaveList, LeavePanel), so the operator of  *)
(* a behaviour stays with one page here; the passkey panel and the           *)
(* administrator list share a view, the login and nothing else.              *)
EXTENDS FirewallPage, AccountPage, PasskeyPanel, SessionDetail

VARIABLE view

consoleVars == <<view, vars, accountVars, passkeyVars, detailVars>>

ConsoleInit ==
    /\ view \in {"firewall", "accounts", "passkeys", "session"}
    /\ Init /\ AccountInit /\ PasskeyInit /\ DetailInit
    /\ view # "firewall" => server = None    \* nothing happens in a page nobody visits
    /\ view # "passkeys" => held = {}

FirewallView ==
    view = "firewall" /\ Next /\ UNCHANGED <<view, accountVars, passkeyVars, detailVars>>
AccountsView ==
    view = "accounts" /\ AccountNext /\ UNCHANGED <<view, vars, passkeyVars, detailVars>>
PasskeysView ==
    view = "passkeys" /\ PasskeyNext /\ UNCHANGED <<view, vars, accountVars, detailVars>>
SessionView ==
    view = "session" /\ DetailNext /\ UNCHANGED <<view, vars, accountVars, passkeyVars>>

ConsoleNext == FirewallView \/ AccountsView \/ PasskeysView \/ SessionView

\* The fairness of the SSH access page; in another view it has nothing to do.
ConsoleSpec == ConsoleInit /\ [][ConsoleNext]_consoleVars /\ Fairness

-----------------------------------------------------------------------------
\* The SSH access page comes back to the truth and to its controls (FirewallPage).
AccessPageConverges == view = "firewall" => PageConverges

=============================================================================
