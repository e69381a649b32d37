------------------------------ MODULE Firewall ------------------------------
(***************************************************************************)
(* The SSH access policy of one server: its revisions and its history in   *)
(* the central database (server/firewall.go), the guard that keeps a       *)
(* server with rules from being revoked (server/api.go), and the agent     *)
(* that saves each policy, replaces its nftables table and reports         *)
(* (agent/firewall.go, agent/main.go).                                     *)
(*                                                                         *)
(* A policy is its mode and its two address lists.  Ports, names,          *)
(* protected addresses and the disconnect option only add reasons to       *)
(* refuse a change, and a change that is refused changes nothing.          *)
(***************************************************************************)
EXTENDS Naturals, FiniteSets

CONSTANTS
    IP,             \* canonical addresses
    Mode,           \* modes the settings request asks for
    Version,        \* agents that may be installed: "current", "legacy"
    \* Bounds on what is unbounded in the program.
    MaxRev,         \* revisions ever made
    MaxLate,        \* abandoned requests still on the network
    MaxReboot       \* reboots of the host

ASSUME FirewallAssumption ==
    /\ IsFiniteSet(IP)
    /\ Mode \subseteq {"allowlist", "off"}
    /\ Version \subseteq {"current", "legacy"}
    /\ MaxRev \in Nat /\ MaxLate \in Nat /\ MaxReboot \in Nat

VARIABLES
    \* the central database
    policy,         \* firewall_policies.policy
    next,           \* number of the next revision
    applied,        \* applied_revision
    capable,        \* 0: no nft, 1: denylist only, 2: allowlist
    history,        \* firewall_history status of each revision
    revoked,
    \* the agent
    version, nft,   \* the installed binary; root and nft available
    pc,
    cached,         \* the policy in memory, as it was given
    disk,           \* firewall_cache
    result,         \* the result to report
    wire, late,     \* the network, as in Delivery
    \* the host's kernel
    rules,          \* the ssh_logger table
    enforced,       \* ghost: revisions the table has held
    forgotten,      \* ghost: allowlists an older agent has read from its disk
    reboots

server  == <<policy, next, applied, capable, history, revoked>>
agent   == <<version, nft, pc, cached, disk, result>>
network == <<wire, late>>
kernel  == <<rules, enforced, forgotten, reboots>>
vars    == <<server, agent, network, kernel>>

-----------------------------------------------------------------------------
(* Types *)

Rev      == 1..MaxRev
\* "deny" is the empty mode, the denylist of earlier versions.
Policy   == [rev : Rev, mode : {"deny", "allowlist", "off"},
             allowed : SUBSET IP, bans : SUBSET IP]
NoPolicy == [rev |-> 0]
Result   == [rev : Rev, ok : BOOLEAN]
NoResult == [rev |-> 0]
Request  == [canFirewall : BOOLEAN, canAllowlist : BOOLEAN,
             result : Result \cup {NoResult}]
NoWire   == [state |-> "none"]
Wire     == {NoWire, [state |-> "error"]}
              \cup [state : {"sent"}, request : Request]
              \cup [state : {"ok"}, policy : Policy \cup {NoPolicy}]
Rules    == [rev : Rev, kind : {"denylist", "allowlist"}, ips : SUBSET IP]
NoRules  == [rev |-> 0]

TypeOK ==
    /\ policy \in Policy \cup {NoPolicy}
    /\ next \in 1..(MaxRev + 1)
    /\ applied \in 0..MaxRev
    /\ capable \in 0..2
    /\ history \in [Rev -> {"none", "pending", "succeeded", "failed", "superseded"}]
    /\ revoked \in BOOLEAN
    /\ version \in Version
    /\ nft \in BOOLEAN
    /\ pc \in {"idle", "wait", "save", "apply", "down"}
    /\ cached \in Policy \cup {NoPolicy}
    /\ disk \in Policy \cup {NoPolicy}
    /\ result \in Result \cup {NoResult}
    /\ wire \in Wire
    /\ late \subseteq Request
    /\ rules \in Rules \cup {NoRules}
    /\ enforced \subseteq Rev
    /\ forgotten \subseteq Rev
    /\ reboots \in 0..MaxReboot

Init ==
    /\ policy = NoPolicy
    /\ next = 1
    /\ applied = 0
    /\ capable = 0
    /\ history = [v \in Rev |-> "none"]
    /\ revoked = FALSE
    /\ version \in Version
    /\ nft \in BOOLEAN
    /\ pc = "idle"
    /\ cached = NoPolicy
    /\ disk = NoPolicy
    /\ result = NoResult
    /\ wire = NoWire
    /\ late = {}
    /\ rules = NoRules
    /\ enforced = {}
    /\ forgotten = {}
    /\ reboots = 0

-----------------------------------------------------------------------------
(* The server: changes of the policy *)

\* readPolicy: a server without a row has an empty denylist.
Current ==
    IF policy = NoPolicy
    THEN [rev |-> next, mode |-> "deny", allowed |-> {}, bans |-> {}]
    ELSE policy

Validate(p) ==
    /\ p.mode # "deny" => p.bans = {}
    /\ p.mode = "allowlist" => p.allowed # {}

\* changeFirewall stores a new revision and supersedes what is pending.  The
\* assignment check that refuses a revoked server runs before the transaction,
\* so a change may also commit after a revocation.
ChangeFirewall(mode, allowed, bans) ==
    LET p == [rev |-> next, mode |-> mode, allowed |-> allowed, bans |-> bans]
    IN /\ next <= MaxRev
       /\ Validate(p)
       /\ mode = "allowlist" => capable = 2
       /\ policy' = p
       /\ next' = next + 1
       /\ history' = [v \in Rev |-> IF v = next THEN "pending"
                                    ELSE IF history[v] = "pending" THEN "superseded"
                                    ELSE history[v]]
       /\ UNCHANGED <<applied, capable, revoked, agent, network, kernel>>

AllowIP(ip)   == ChangeFirewall(Current.mode, Current.allowed \cup {ip}, Current.bans)
RemoveIP(ip)  == ChangeFirewall(Current.mode, Current.allowed \ {ip}, Current.bans)
BanIP(ip)     == /\ Current.mode = "deny"
                 /\ ChangeFirewall("deny", Current.allowed, Current.bans \cup {ip})
UnbanIP(ip)   == ChangeFirewall(Current.mode, Current.allowed, Current.bans \ {ip})
SetMode(mode) == ChangeFirewall(mode, Current.allowed, {})

\* changeToken with revoke: refused while rules are wanted or an earlier change
\* has not been reported applied.
MayRevoke ==
    /\ Current.bans = {}
    /\ Current.mode # "allowlist"
    /\ (\E v \in Rev : history[v] # "none") => Current.rev = applied

Revoke ==
    /\ ~revoked
    /\ MayRevoke
    /\ revoked' = TRUE
    /\ UNCHANGED <<policy, next, applied, capable, history, agent, network, kernel>>

-----------------------------------------------------------------------------
(* The server: ingestFirewall *)

\* Mutant of Compatible: takes any agent with nft for one with allowlists.
CompatibleWithBans(r) == r.canFirewall

Compatible(r) ==
    r.canFirewall /\ (Current.mode = "allowlist" => r.canAllowlist)

\* Mutant of Report: takes any result for one of the current revision.
ReportAnyRevision(r) ==
    IF r.result = NoResult
    THEN UNCHANGED <<applied, history>>
    ELSE LET ok == r.result.ok /\ Compatible(r)
         IN /\ applied' = IF ok THEN Current.rev ELSE 0
            /\ history' = [history EXCEPT ![Current.rev] =
                             IF @ = "none" THEN @
                             ELSE IF ok THEN "succeeded" ELSE "failed"]

\* Mutant of Report: enters a late result for a replaced revision as well.
ReportOldHistory(r) ==
    IF r.result = NoResult
    THEN UNCHANGED <<applied, history>>
    ELSE LET ok == r.result.ok /\ Compatible(r)
         IN /\ applied' = IF r.result.rev # Current.rev THEN applied
                          ELSE IF ok THEN Current.rev ELSE 0
            /\ history' = [history EXCEPT ![r.result.rev] =
                             IF @ = "none" THEN @
                             ELSE IF ok THEN "succeeded" ELSE "failed"]

\* A result counts for the current revision only, and as a success only from
\* an agent that understands the policy.
Report(r) ==
    IF r.result = NoResult \/ r.result.rev # Current.rev
    THEN UNCHANGED <<applied, history>>
    ELSE LET ok == r.result.ok /\ Compatible(r)
         IN /\ applied' = IF ok THEN Current.rev ELSE 0
            /\ history' = [history EXCEPT ![Current.rev] =
                             IF @ = "none" THEN @
                             ELSE IF ok THEN "succeeded" ELSE "failed"]

Ingest(r) ==
    /\ ~revoked
    /\ Current.rev <= MaxRev
    /\ policy' = Current
    /\ next' = IF policy = NoPolicy THEN next + 1 ELSE next
    /\ capable' = IF ~r.canFirewall THEN 0 ELSE IF ~r.canAllowlist THEN 1 ELSE 2
    /\ Report(r)
    /\ UNCHANGED revoked

IngestCurrent ==
    /\ wire.state = "sent"
    /\ Ingest(wire.request)
    /\ wire' = [state |-> "ok",
                policy |-> IF Compatible(wire.request) THEN Current ELSE NoPolicy]
    /\ UNCHANGED <<late, agent, kernel>>

RejectCurrent ==
    /\ wire.state = "sent"
    /\ wire' = [state |-> "error"]
    /\ UNCHANGED <<late, server, agent, kernel>>

IngestLate ==
    \E r \in late :
      /\ Ingest(r)
      /\ late' = late \ {r}
      /\ UNCHANGED <<wire, agent, kernel>>

RejectLate ==
    \E r \in late :
      /\ late' = late \ {r}
      /\ UNCHANGED <<wire, server, agent, kernel>>

-----------------------------------------------------------------------------
(* The agent *)

Abandon ==
    /\ wire' = NoWire
    /\ \/ late' = late
       \/ /\ wire.state = "sent"
          /\ Cardinality(late \cup {wire.request}) <= MaxLate
          /\ late' = late \cup {wire.request}

Send ==
    /\ pc = "idle"
    /\ wire' = [state |-> "sent", request |->
                 [canFirewall |-> nft, canAllowlist |-> nft /\ version = "current",
                  result |-> result]]
    /\ pc' = "wait"
    /\ UNCHANGED <<server, version, nft, cached, disk, result, late, kernel>>

\* reconcileFirewall starts with a save, if there is a policy at all.
Reconcile(p) == pc' = IF p = NoPolicy THEN "idle" ELSE "save"

\* A failed exchange re-applies the policy in memory.
SendFails ==
    /\ pc = "wait"
    /\ Abandon
    /\ Reconcile(cached)
    /\ UNCHANGED <<server, version, nft, cached, disk, result, kernel>>

\* Mutant of Receive: a revision seen before is not applied again.
ReceiveOnce ==
    /\ pc = "wait"
    /\ wire.state = "ok"
    /\ cached' = IF wire.policy = NoPolicy THEN cached ELSE wire.policy
    /\ Reconcile(IF wire.policy.rev = cached.rev THEN NoPolicy ELSE wire.policy)
    /\ wire' = NoWire
    /\ UNCHANGED <<server, version, nft, disk, result, late, kernel>>

Receive ==
    /\ pc = "wait"
    /\ wire.state = "ok"
    /\ cached' = IF wire.policy = NoPolicy THEN cached ELSE wire.policy
    /\ Reconcile(wire.policy)
    /\ wire' = NoWire
    /\ UNCHANGED <<server, version, nft, disk, result, late, kernel>>

\* A policy without its allowlist.
Plain(p) == [p EXCEPT !.mode = "deny", !.allowed = {}]

\* An agent from before allowlists ignores the fields it does not know: they
\* are neither in its table nor in the cache it writes.
Known(p) == IF version = "current" THEN p ELSE Plain(p)

\* The desired policy is on disk before the kernel sees it.
Save ==
    /\ pc = "save"
    /\ disk' = Known(cached)
    /\ pc' = "apply"
    /\ UNCHANGED <<server, version, nft, cached, result, network, kernel>>

\* Mutant of SaveFails: a failed save is only logged.
SaveFailsLogged ==
    /\ pc = "save"
    /\ pc' = "apply"
    /\ UNCHANGED <<server, version, nft, cached, disk, result, network, kernel>>

SaveFails ==
    /\ pc = "save"
    /\ result' = [rev |-> cached.rev, ok |-> FALSE]
    /\ pc' = "idle"
    /\ UNCHANGED <<server, version, nft, cached, disk, network, kernel>>

\* The table that is exactly a policy, which one nft transaction installs.
Full(p) ==
    IF p.mode = "allowlist"
    THEN [rev |-> p.rev, kind |-> "allowlist", ips |-> p.allowed]
    ELSE [rev |-> p.rev, kind |-> "denylist", ips |-> p.bans]

Install ==
    /\ nft
    /\ rules' = Full(Known(cached))
    /\ enforced' = enforced \cup {cached.rev}
    /\ UNCHANGED <<forgotten, reboots>>

Apply ==
    /\ pc = "apply"
    /\ Install
    /\ result' = [rev |-> cached.rev, ok |-> TRUE]
    /\ pc' = "idle"
    /\ UNCHANGED <<server, version, nft, cached, disk, network>>

\* nft failed and left the table alone, or was killed at its time limit when
\* the kernel had already taken the transaction.
ApplyFails ==
    /\ pc = "apply"
    /\ Install \/ UNCHANGED kernel
    /\ result' = [rev |-> cached.rev, ok |-> FALSE]
    /\ pc' = "idle"
    /\ UNCHANGED <<server, version, nft, cached, disk, network>>

Stop ==
    /\ pc' = "down"
    /\ cached' = NoPolicy
    /\ result' = NoResult
    /\ Abandon
    /\ UNCHANGED <<server, version, nft, disk>>

Crash ==
    /\ pc # "down"
    /\ Stop
    /\ UNCHANGED kernel

\* The kernel's tables do not survive a reboot.
Reboot ==
    /\ reboots < MaxReboot
    /\ reboots' = reboots + 1
    /\ rules' = NoRules
    /\ Stop
    /\ UNCHANGED <<enforced, forgotten>>

\* The cached policy is applied before the first exchange.
Restart ==
    /\ pc = "down"
    /\ cached' = disk
    /\ forgotten' = IF version = "legacy" /\ disk # NoPolicy /\ disk.mode = "allowlist"
                    THEN forgotten \cup {disk.rev} ELSE forgotten
    /\ Reconcile(disk)
    /\ UNCHANGED <<server, version, nft, disk, result, network, rules, enforced, reboots>>

\* Another binary in the agent's place, newer or older, keeps the spool; an
\* agent set up anew starts without one.
Reinstall ==
    /\ pc = "down"
    /\ version' \in Version
    /\ disk' \in {disk, NoPolicy}
    /\ UNCHANGED <<server, nft, pc, cached, result, network, kernel>>

InstallNft ==
    /\ ~nft
    /\ nft' = TRUE
    /\ UNCHANGED <<server, version, pc, cached, disk, result, network, kernel>>

AgentStep ==
    \/ Send \/ SendFails \/ Receive \/ Save \/ SaveFails \/ Apply \/ ApplyFails
    \/ Crash \/ Reboot \/ Restart \/ Reinstall \/ InstallNft

ServerStep ==
    \/ \E ip \in IP : AllowIP(ip) \/ RemoveIP(ip) \/ BanIP(ip) \/ UnbanIP(ip)
    \/ \E mode \in Mode : SetMode(mode)
    \/ Revoke
    \/ IngestCurrent \/ RejectCurrent \/ IngestLate \/ RejectLate

Next == AgentStep \/ ServerStep

Spec == Init /\ [][Next]_vars

\* The agent is restarted and its loop goes on; the network, the disk and nft
\* work again and again, also for a policy they have not taken yet: the agent
\* does not die between every answer and its save or its nft transaction.
Fairness ==
    /\ WF_vars(Restart)
    /\ SF_vars(Send)
    /\ SF_vars(IngestCurrent)
    /\ SF_vars(Receive)
    /\ SF_vars(Save)
    /\ SF_vars(Save /\ disk # Known(cached))
    /\ SF_vars(Apply \/ ApplyFails)
    /\ SF_vars(Apply /\ rules # Full(Known(cached)))
    /\ WF_vars(SendFails)

FairSpec == Spec /\ Fairness

-----------------------------------------------------------------------------
(* Properties *)

\* The console calls the current policy applied.
Confirmed == policy # NoPolicy /\ applied = policy.rev

\* The current policy is an allowlist that an older agent has read and lost.
Opened ==
    /\ policy.rev \in forgotten
    /\ rules.kind = "denylist"
    /\ rules.ips = {}

AppliedIsEnforced ==
    Confirmed => rules = NoRules \/ rules = Full(policy) \/ Opened

SucceededWasEnforced ==
    \A v \in Rev : history[v] = "succeeded" => v \in enforced

\* The console calls the current policy applied only while the host's table is
\* exactly that policy, or a reboot has emptied it and the agent has yet to
\* restore it, or an older agent was put in place over the cache of an allowlist
\* and has opened the host; and its history calls a change succeeded only if the
\* table has held it: no stale, foreign or partial result counts.
ReportedIsEnforced == AppliedIsEnforced /\ SucceededWasEnforced

\* No crash, reboot, failed save or delayed answer brings an older table back
\* ("a crash cannot resurrect an old ban").
NoOldRules ==
    [][rules' # rules /\ rules' # NoRules => \A v \in enforced : v <= rules'.rev]_vars

\* An allowlist in the kernel gives way only to a policy that no longer asks for
\* one, unless an older agent finds it in the cache: the server never gives such
\* an agent an allowlist, so none is opened by the policy it is sent.
AllowlistNotOpened ==
    [][rules # NoRules /\ rules' # NoRules /\ rules.kind = "allowlist"
         /\ rules'.kind = "denylist"
         => cached.mode # "allowlist" \/ cached.rev \in forgotten]_vars

\* Reverting to an older agent is safe once the console has called the policy
\* off, or any other without an allowlist, applied: no allowlist is then left in
\* the cache for the older agent to lose ("save the access policy as off and
\* check that it was applied before you go back to an old version").
RevertIsSafe ==
    [][forgotten' # forgotten => ~(Confirmed /\ policy.mode # "allowlist")]_vars

\* A revoked server can no longer be reached with a policy, so nothing of one
\* is left on its host.
RevokedIsOpen ==
    revoked => rules = NoRules \/ (rules.kind = "denylist" /\ rules.ips = {})

\* What the history says of a change that a later one replaced stays as it is,
\* whatever results arrive late.
OldHistoryIsFinal ==
    [][\A v \in Rev : v < policy.rev => history'[v] = history[v]]_vars

\* The table of a capable host comes to be exactly the policy, however often
\* exchanges, saves and nft fail on the way and whatever agents were there
\* before, unless another policy replaces it.
PolicyConverges ==
    \A v \in Rev :
      policy.rev = v ~> \/ policy.rev # v \/ rules = Full(policy) \/ revoked
                        \/ ~nft \/ version = "legacy"

\* What the server's tables, the agent and the kernel do together is what
\* AccessPolicy says of a wanted table and the kernel's: the agent's memory,
\* its disk, the exchanges and the history are details of it.
Access == INSTANCE AccessPolicy WITH
            wanted <- IF policy = NoPolicy THEN NoRules ELSE Full(policy),
            table <- rules, held <- enforced, lost <- forgotten, told <- Confirmed,
            closed <- revoked
ImplementsAccessPolicy == Access!Spec
=============================================================================
