--------------------------- MODULE Firewall_proofs ---------------------------
(***************************************************************************)
(* Theorems about Firewall, for every set of addresses and every bound.    *)
(* The argument: a revision is one policy, given out by the server in      *)
(* order.  What the agent may still install is therefore the policy itself *)
(* or older than it, and never older than what its table has held; and a   *)
(* result counts only for the policy's own revision, so a counted success  *)
(* is of the newest table there can be, which is exactly the policy.  What *)
(* an agent too old for allowlists finds on its disk is the one exception, *)
(* and the ghost "forgotten" says of which revisions.                      *)
(***************************************************************************)
EXTENDS Firewall, TLAPS

\* What the agent may still install: the policies in its memory, on its disk
\* and in an answer on its way.
Held ==
    ({cached, disk} \cup (IF wire.state = "ok" THEN {wire.policy} ELSE {}))
      \ {NoPolicy}

\* What the server may still be told: the results of the agent, of its request
\* and of the abandoned ones.
Reported ==
    ({result} \cup (IF wire.state = "sent" THEN {wire.request.result} ELSE {})
       \cup {r.result : r \in late}) \ {NoResult}

\* What the agent goes by: the policies in its memory and in an answer.
Loaded ==
    ({cached} \cup (IF wire.state = "ok" THEN {wire.policy} ELSE {})) \ {NoPolicy}

Open(p) == p.mode # "allowlist" /\ p.bans = {}

\* A policy of the current revision: it asks for the same table, or it is what
\* an older agent has left of the allowlist.
Matches(p) ==
    Full(p) = Full(policy) \/ (policy.rev \in forgotten /\ Open(p))

\* The agent's loop: an exchange only while it waits for it, and with the binary
\* that asked; a policy to save or to apply only when it has one; nothing in
\* memory while it is down.
LoopOK ==
    /\ pc \in {"save", "apply"} => cached # NoPolicy
    /\ pc = "apply" => disk = Known(cached)
    /\ pc = "down" => cached = NoPolicy
    /\ wire # NoWire => pc = "wait"
    /\ wire.state = "sent" /\ wire.request.canAllowlist => version = "current"

\* An agent from before allowlists goes by one only if it was on its disk.
MemoryIsSound ==
    version = "legacy" =>
      \A p \in Loaded : p.mode = "allowlist" => p.rev \in forgotten

\* The policy is the latest revision, nothing else is pending, an allowlist has
\* no bans, and before the first change the policy blocks nobody.
PolicyIsLatest ==
    /\ next = policy.rev + 1
    /\ policy # NoPolicy /\ policy.mode = "allowlist" => policy.bans = {}
    /\ \A v \in Rev : history[v] = "pending" => v = policy.rev
    /\ (\A v \in Rev : history[v] = "none") =>
         policy = NoPolicy \/ (policy.rev = 1 /\ Open(policy))

\* What the agent may still install is no older than what the table has held, no
\* newer than the policy, and asks for the same table when it has its revision;
\* a revoked server has nothing that blocks anybody.
HeldIsSound ==
    \A p \in Held :
      /\ p.rev <= policy.rev
      /\ p.rev = policy.rev => Matches(p)
      /\ p.mode = "allowlist" => p.bans = {}
      /\ \A v \in enforced : v <= p.rev
      /\ revoked => Open(p)

\* The table is the newest it has ever been, and exactly the policy when it has
\* its revision, unless that was opened.
TableIsSound ==
    /\ \A v \in enforced : v <= policy.rev
    /\ rules # NoRules =>
         /\ rules.rev <= policy.rev
         /\ rules.rev = policy.rev => rules = Full(policy) \/ Opened
         /\ \A v \in enforced : v <= rules.rev

\* A success that may still be reported, or was, is of a revision the table has
\* held.
ReportsAreSound ==
    /\ \A x \in Reported : x.rev <= policy.rev /\ (x.ok => x.rev \in enforced)
    /\ applied # 0 => applied \in enforced
    /\ SucceededWasEnforced

Sound ==
    PolicyIsLatest /\ HeldIsSound /\ TableIsSound /\ ReportsAreSound /\ RevokedIsOpen

IInv == TypeOK /\ LoopOK /\ MemoryIsSound /\ Sound

-----------------------------------------------------------------------------
(* Types *)

LEMMA PolicyFacts ==
    /\ NoPolicy.rev = 0
    /\ \A p \in Policy : /\ p.rev \in Rev /\ p.rev \in Nat \ {0} /\ p.rev <= MaxRev
                         /\ p # NoPolicy
                         /\ p.mode \in {"deny", "allowlist", "off"}
                         /\ p.allowed \in SUBSET IP /\ p.bans \in SUBSET IP
BY FirewallAssumption DEF Policy, NoPolicy, Rev

\* What an agent keeps of a policy: all of it, or the policy without its
\* allowlist, which blocks nobody if the policy had one.
LEMMA KnownFacts ==
    \A p \in Policy :
      /\ Known(p) \in Policy /\ Known(p).rev = p.rev /\ Known(p) # NoPolicy
      /\ Known(p) = p \/ (version # "current" /\ Known(p).mode = "deny")
      /\ Known(p).bans = p.bans
<1>1. ASSUME NEW p \in Policy
      PROVE  /\ Plain(p) \in Policy /\ Plain(p).rev = p.rev
             /\ Plain(p).bans = p.bans /\ Plain(p).mode = "deny"
  BY DEF Plain, Policy
<1> QED
  BY <1>1, PolicyFacts DEF Known

LEMMA WireFacts ==
    ASSUME TypeOK
    PROVE  /\ wire.state = "sent" => wire.request \in Request
           /\ wire.state = "ok" => wire.policy \in Policy \cup {NoPolicy}
BY DEF TypeOK, Wire, NoWire

\* readPolicy's default is a policy that blocks nobody.
LEMMA CurrentFacts ==
    ASSUME TypeOK, PolicyIsLatest
    PROVE  /\ Current.mode \in {"deny", "allowlist", "off"}
           /\ Current.allowed \in SUBSET IP /\ Current.bans \in SUBSET IP
           /\ Current.rev <= MaxRev => Current \in Policy
           /\ policy # NoPolicy => Current = policy /\ policy \in Policy
           /\ policy = NoPolicy =>
                Current.rev = 1 /\ Open(Current) /\ next = 1 /\ policy.rev = 0
<1>1. CASE policy = NoPolicy
  <2>1. Current = [rev |-> next, mode |-> "deny", allowed |-> {}, bans |-> {}]
    BY <1>1 DEF Current
  <2>2. next = 1 /\ policy.rev = 0
    BY <1>1, PolicyFacts DEF PolicyIsLatest
  <2> QED
    BY <1>1, <2>1, <2>2, FirewallAssumption DEF Open, Policy, Rev
<1>2. CASE policy # NoPolicy
  BY <1>2, PolicyFacts DEF Current, TypeOK
<1> QED
  BY <1>1, <1>2

\* Every change of the policy is one by changeFirewall, of typed lists.
LEMMA Changes ==
    ASSUME TypeOK, PolicyIsLatest,
           \/ \E ip \in IP : AllowIP(ip) \/ RemoveIP(ip) \/ BanIP(ip) \/ UnbanIP(ip)
           \/ \E mode \in Mode : SetMode(mode)
    PROVE  \E mode \in {"deny", "allowlist", "off"}, allowed \in SUBSET IP,
              bans \in SUBSET IP : ChangeFirewall(mode, allowed, bans)
<1>1. /\ Current.mode \in {"deny", "allowlist", "off"}
      /\ Current.allowed \in SUBSET IP /\ Current.bans \in SUBSET IP
  BY CurrentFacts
<1>2. ASSUME NEW ip \in IP
      PROVE  /\ Current.allowed \cup {ip} \in SUBSET IP
             /\ Current.allowed \ {ip} \in SUBSET IP
             /\ Current.bans \cup {ip} \in SUBSET IP
             /\ Current.bans \ {ip} \in SUBSET IP
  BY <1>1
<1>3. ASSUME NEW ip \in IP, AllowIP(ip) \/ RemoveIP(ip) \/ BanIP(ip) \/ UnbanIP(ip)
      PROVE  \E mode \in {"deny", "allowlist", "off"}, allowed \in SUBSET IP,
                bans \in SUBSET IP : ChangeFirewall(mode, allowed, bans)
  BY <1>1, <1>2, <1>3 DEF AllowIP, RemoveIP, BanIP, UnbanIP
<1>4. ASSUME NEW mode \in Mode, SetMode(mode)
      PROVE  ChangeFirewall(mode, Current.allowed, {})
             /\ mode \in {"deny", "allowlist", "off"}
  BY <1>4, FirewallAssumption DEF SetMode
<1> QED
  BY <1>1, <1>3, <1>4

\* What ingestFirewall leaves in the database.
LEMMA Ingested ==
    ASSUME TypeOK, PolicyIsLatest, NEW r \in Request, Ingest(r)
    PROVE  /\ policy' = Current /\ Current \in Policy
           /\ next' = Current.rev + 1 /\ next' \in 1..(MaxRev + 1)
           /\ capable' \in 0..2
           /\ UNCHANGED revoked /\ ~revoked
           /\ policy.rev <= Current.rev
           /\ policy # NoPolicy => Current = policy
           /\ \/ UNCHANGED <<applied, history>>
              \/ /\ r.result # NoResult /\ r.result \in Result
                 /\ r.result.rev = Current.rev
                 /\ applied' \in {0, Current.rev}
                 /\ \E x \in {"succeeded", "failed"} :
                      /\ history' = [history EXCEPT ![Current.rev] =
                                       IF @ = "none" THEN @ ELSE x]
                      /\ x = "succeeded" \/ applied' # 0 => r.result.ok
<1>1. /\ Current \in Policy
      /\ policy # NoPolicy => Current = policy
      /\ policy = NoPolicy => Current.rev = 1 /\ next = 1 /\ policy.rev = 0
  BY CurrentFacts DEF Ingest
<1>2. Current.rev \in Nat \ {0} /\ Current.rev <= MaxRev /\ MaxRev \in Nat
  BY <1>1, PolicyFacts, FirewallAssumption
<1>3. policy' = Current /\ UNCHANGED revoked /\ ~revoked /\ capable' \in 0..2
  BY DEF Ingest
<1>4. next' = Current.rev + 1 /\ policy.rev <= Current.rev
  BY <1>1, <1>2 DEF Ingest, PolicyIsLatest
<1>5. next' \in 1..(MaxRev + 1)
  BY <1>2, <1>4
<1>6. ASSUME ~(r.result = NoResult \/ r.result.rev # Current.rev)
      PROVE  /\ r.result \in Result
             /\ applied' \in {0, Current.rev}
             /\ \E x \in {"succeeded", "failed"} :
                  /\ history' = [history EXCEPT ![Current.rev] =
                                   IF @ = "none" THEN @ ELSE x]
                  /\ x = "succeeded" \/ applied' # 0 => r.result.ok
  <2> DEFINE ok == r.result.ok /\ Compatible(r)
  <2>1. /\ applied' = IF ok THEN Current.rev ELSE 0
        /\ history' = [history EXCEPT ![Current.rev] =
                         IF @ = "none" THEN @
                         ELSE IF ok THEN "succeeded" ELSE "failed"]
    BY <1>6 DEF Ingest, Report
  <2>2. r.result \in Result
    BY <1>6 DEF Request
  <2>3. CASE ok
    BY <2>1, <2>2, <2>3
  <2>4. CASE ~ok
    BY <2>1, <2>2, <2>4
  <2> QED
    BY <2>3, <2>4
<1>7. r.result = NoResult \/ r.result.rev # Current.rev =>
        UNCHANGED <<applied, history>>
  BY DEF Ingest, Report
<1> QED
  BY <1>1, <1>3, <1>4, <1>5, <1>6, <1>7

\* A policy of changeFirewall.
LEMMA ChangedType ==
    ASSUME TypeOK, NEW mode \in {"deny", "allowlist", "off"},
           NEW allowed \in SUBSET IP, NEW bans \in SUBSET IP,
           ChangeFirewall(mode, allowed, bans)
    PROVE  /\ policy' = [rev |-> next, mode |-> mode, allowed |-> allowed,
                         bans |-> bans]
           /\ policy' \in Policy /\ next \in Rev /\ policy'.rev = next
           /\ next' = next + 1 /\ next' \in 1..(MaxRev + 1)
<1>1. next \in Rev /\ next + 1 \in 1..(MaxRev + 1)
  BY FirewallAssumption DEF ChangeFirewall, TypeOK, Rev
<1> QED
  BY <1>1 DEF ChangeFirewall, Policy

\* What giving up an exchange leaves on the network.
LEMMA AbandonType ==
    ASSUME TypeOK, Abandon
    PROVE  wire' \in Wire /\ late' \subseteq Request
BY WireFacts DEF Abandon, TypeOK, Wire

LEMMA NextType ==
    ASSUME IInv, [Next]_vars
    PROVE  TypeOK'
<1>0. TypeOK /\ LoopOK /\ PolicyIsLatest
  BY DEF IInv, Sound
<1> USE DEF server, agent, network, kernel
<1>1. CASE Send
  <2>1. [canFirewall |-> nft, canAllowlist |-> nft /\ version = "current",
         result |-> result] \in Request
    BY <1>0 DEF TypeOK, Request
  <2>2. wire' \in Wire
    BY <1>1, <2>1 DEF Send, Wire
  <2> QED
    BY <1>0, <1>1, <2>2 DEF Send, TypeOK
<1>2. CASE SendFails
  BY <1>0, <1>2, AbandonType DEF SendFails, Reconcile, TypeOK
<1>3. CASE Receive
  <2>1. cached' \in Policy \cup {NoPolicy}
    BY <1>0, <1>3, WireFacts DEF Receive, TypeOK
  <2> QED
    BY <1>0, <1>3, <2>1 DEF Receive, Reconcile, TypeOK, Wire
<1>4. CASE Save
  <2>1. Known(cached) \in Policy
    BY <1>0, <1>4, KnownFacts DEF Save, LoopOK, TypeOK
  <2> QED
    BY <1>0, <1>4, <2>1 DEF Save, TypeOK
<1>5. CASE SaveFails
  <2>1. cached.rev \in Rev
    BY <1>0, <1>5, PolicyFacts DEF SaveFails, LoopOK, TypeOK
  <2>2. result' \in Result
    BY <1>5, <2>1 DEF SaveFails, Result
  <2> QED
    BY <1>0, <1>5, <2>2 DEF SaveFails, TypeOK
<1>6. CASE Apply
  <2>1. cached \in Policy /\ cached.rev \in Rev
    BY <1>0, <1>6, PolicyFacts DEF Apply, LoopOK, TypeOK
  <2>2. result' \in Result
    BY <1>6, <2>1 DEF Apply, Result
  <2>3. Full(Known(cached)) \in Rules
    BY <2>1, KnownFacts, PolicyFacts DEF Full, Rules
  <2> QED
    BY <1>0, <1>6, <2>1, <2>2, <2>3 DEF Apply, Install, TypeOK
<1>7. CASE ApplyFails
  <2>1. cached \in Policy /\ cached.rev \in Rev
    BY <1>0, <1>7, PolicyFacts DEF ApplyFails, LoopOK, TypeOK
  <2>2. result' \in Result
    BY <1>7, <2>1 DEF ApplyFails, Result
  <2>3. Full(Known(cached)) \in Rules
    BY <2>1, KnownFacts, PolicyFacts DEF Full, Rules
  <2> QED
    BY <1>0, <1>7, <2>1, <2>2, <2>3 DEF ApplyFails, Install, TypeOK
<1>8. CASE Crash
  BY <1>0, <1>8, AbandonType DEF Crash, Stop, TypeOK
<1>9. CASE Reboot
  BY <1>0, <1>9, AbandonType, FirewallAssumption DEF Reboot, Stop, TypeOK
<1>10. CASE Restart
  <2>1. disk # NoPolicy => disk.rev \in Rev
    BY <1>0, PolicyFacts DEF TypeOK
  <2>2. forgotten' \subseteq Rev
    BY <1>0, <1>10, <2>1 DEF Restart, TypeOK
  <2> QED
    BY <1>0, <1>10, <2>2 DEF Restart, Reconcile, TypeOK
<1>11. CASE Reinstall
  BY <1>0, <1>11 DEF Reinstall, TypeOK
<1>12. CASE InstallNft
  BY <1>0, <1>12 DEF InstallNft, TypeOK
<1>13. ASSUME NEW mode \in {"deny", "allowlist", "off"}, NEW allowed \in SUBSET IP,
            NEW bans \in SUBSET IP, ChangeFirewall(mode, allowed, bans)
      PROVE  TypeOK'
  <2>1. history' \in [Rev -> {"none", "pending", "succeeded", "failed", "superseded"}]
    BY <1>0, <1>13 DEF ChangeFirewall, TypeOK
  <2> QED
    BY <1>0, <1>13, <2>1, ChangedType DEF ChangeFirewall, TypeOK
<1>14. CASE Revoke
  BY <1>0, <1>14 DEF Revoke, TypeOK
<1>15. CASE IngestCurrent
  <2>1. PICK r \in Request : Ingest(r)
    BY <1>0, <1>15, WireFacts DEF IngestCurrent, TypeOK
  <2>2. /\ policy' \in Policy /\ next' \in 1..(MaxRev + 1) /\ capable' \in 0..2
        /\ UNCHANGED revoked
    BY <1>0, <2>1, Ingested
  <2>3. Current \in Policy /\ Current.rev \in Rev
    BY <1>0, <2>1, Ingested, PolicyFacts
  <2>4. /\ applied' \in 0..MaxRev
        /\ history' \in [Rev -> {"none", "pending", "succeeded", "failed",
                                 "superseded"}]
    <3>1. CASE UNCHANGED <<applied, history>>
      BY <1>0, <3>1 DEF TypeOK
    <3>2. CASE /\ applied' \in {0, Current.rev}
               /\ \E x \in {"succeeded", "failed"} :
                    history' = [history EXCEPT ![Current.rev] =
                                  IF @ = "none" THEN @ ELSE x]
      BY <1>0, <2>3, <3>2, FirewallAssumption DEF TypeOK, Rev
    <3> QED
      BY <1>0, <2>1, <3>1, <3>2, Ingested
  <2>5. wire' \in Wire
    BY <1>15, <2>3 DEF IngestCurrent, Wire
  <2> QED
    BY <1>0, <1>15, <2>2, <2>4, <2>5 DEF IngestCurrent, TypeOK
<1>16. CASE RejectCurrent
  BY <1>0, <1>16 DEF RejectCurrent, TypeOK, Wire
<1>17. CASE IngestLate
  <2>1. PICK r \in Request : Ingest(r)
    BY <1>0, <1>17, WireFacts DEF IngestLate, TypeOK
  <2>2. /\ policy' \in Policy /\ next' \in 1..(MaxRev + 1) /\ capable' \in 0..2
        /\ UNCHANGED revoked
    BY <1>0, <2>1, Ingested
  <2>3. Current \in Policy /\ Current.rev \in Rev
    BY <1>0, <2>1, Ingested, PolicyFacts
  <2>4. /\ applied' \in 0..MaxRev
        /\ history' \in [Rev -> {"none", "pending", "succeeded", "failed",
                                 "superseded"}]
    <3>1. CASE UNCHANGED <<applied, history>>
      BY <1>0, <3>1 DEF TypeOK
    <3>2. CASE /\ applied' \in {0, Current.rev}
               /\ \E x \in {"succeeded", "failed"} :
                    history' = [history EXCEPT ![Current.rev] =
                                  IF @ = "none" THEN @ ELSE x]
      BY <1>0, <2>3, <3>2, FirewallAssumption DEF TypeOK, Rev
    <3> QED
      BY <1>0, <2>1, <3>1, <3>2, Ingested
  <2> QED
    BY <1>0, <1>17, <2>2, <2>4 DEF IngestLate, TypeOK
<1>18. CASE RejectLate
  BY <1>0, <1>18 DEF RejectLate, TypeOK
<1>19. CASE UNCHANGED vars
  BY <1>0, <1>19 DEF vars, TypeOK
<1> QED
  BY <1>0, <1>1, <1>2, <1>3, <1>4, <1>5, <1>6, <1>7, <1>8, <1>9, <1>10, <1>11, <1>12,
     <1>13, <1>14, <1>15, <1>16, <1>17, <1>18, <1>19, Changes
  DEF Next, AgentStep, ServerStep

LEMMA NextLoop ==
    ASSUME IInv, [Next]_vars
    PROVE  LoopOK'
<1>0. TypeOK /\ LoopOK /\ PolicyIsLatest
  BY DEF IInv, Sound
<1>00. NoWire.state = "none"
  BY DEF NoWire
<1> USE DEF server, agent, network, kernel
<1>1. CASE Send
  BY <1>0, <1>00, <1>1 DEF Send, LoopOK, Known
<1>2. CASE SendFails
  BY <1>0, <1>00, <1>2 DEF SendFails, Abandon, Reconcile, LoopOK, Known
<1>3. CASE Receive
  BY <1>0, <1>00, <1>3, PolicyFacts DEF Receive, Reconcile, LoopOK
<1>4. CASE Save
  BY <1>0, <1>00, <1>4 DEF Save, LoopOK, Known
<1>5. CASE SaveFails
  BY <1>0, <1>00, <1>5 DEF SaveFails, LoopOK, Known
<1>6. CASE Apply
  BY <1>0, <1>00, <1>6 DEF Apply, LoopOK, Known
<1>7. CASE ApplyFails
  BY <1>0, <1>00, <1>7 DEF ApplyFails, LoopOK, Known
<1>8. CASE Crash
  BY <1>0, <1>00, <1>8 DEF Crash, Stop, Abandon, LoopOK, Known
<1>9. CASE Reboot
  BY <1>0, <1>00, <1>9 DEF Reboot, Stop, Abandon, LoopOK, Known
<1>10. CASE Restart
  BY <1>0, <1>00, <1>10 DEF Restart, Reconcile, LoopOK, Known
<1>11. CASE Reinstall
  BY <1>0, <1>00, <1>11 DEF Reinstall, LoopOK, Known
<1>12. CASE InstallNft
  BY <1>0, <1>00, <1>12 DEF InstallNft, LoopOK, Known
<1>13. ASSUME NEW mode \in {"deny", "allowlist", "off"}, NEW allowed \in SUBSET IP,
            NEW bans \in SUBSET IP, ChangeFirewall(mode, allowed, bans)
      PROVE  LoopOK'
  BY <1>0, <1>13 DEF ChangeFirewall, LoopOK, Known
<1>14. CASE Revoke
  BY <1>0, <1>00, <1>14 DEF Revoke, LoopOK, Known
<1>15. CASE IngestCurrent
  BY <1>0, <1>00, <1>15 DEF IngestCurrent, LoopOK, Known
<1>16. CASE RejectCurrent
  BY <1>0, <1>00, <1>16 DEF RejectCurrent, LoopOK, Known
<1>17. CASE IngestLate
  BY <1>0, <1>00, <1>17 DEF IngestLate, LoopOK, Known
<1>18. CASE RejectLate
  BY <1>0, <1>00, <1>18 DEF RejectLate, LoopOK, Known
<1>19. CASE UNCHANGED vars
  BY <1>0, <1>19 DEF vars, LoopOK, Known
<1> QED
  BY <1>0, <1>1, <1>2, <1>3, <1>4, <1>5, <1>6, <1>7, <1>8, <1>9, <1>10, <1>11, <1>12,
     <1>13, <1>14, <1>15, <1>16, <1>17, <1>18, <1>19, Changes
  DEF Next, AgentStep, ServerStep

\* The answer to an older agent never holds an allowlist, and what it reads from
\* its disk is entered in the ghost.
LEMMA NextMemory ==
    ASSUME IInv, [Next]_vars
    PROVE  MemoryIsSound'
<1>0. TypeOK /\ LoopOK /\ MemoryIsSound
  BY DEF IInv
<1>00. NoWire.state = "none"
  BY DEF NoWire
<1> USE DEF server, agent, network, kernel
<1>1. CASE Reinstall
  <2>1. Loaded' = {}
    BY <1>0, <1>00, <1>1 DEF Reinstall, LoopOK, Loaded
  <2> QED
    BY <2>1 DEF MemoryIsSound
<1>2. CASE Restart
  <2>1. wire.state = "none" /\ cached' = disk /\ UNCHANGED <<version, wire>>
    BY <1>0, <1>00, <1>2 DEF Restart, LoopOK
  <2>2. \A p \in Loaded' : p = disk /\ p # NoPolicy
    BY <2>1 DEF Loaded
  <2> QED
    BY <1>2, <2>1, <2>2 DEF Restart, MemoryIsSound
<1>3. CASE IngestCurrent
  <2>1. version = "legacy" => wire'.policy = NoPolicy \/ wire'.policy.mode # "allowlist"
    BY <1>0, <1>3 DEF IngestCurrent, Compatible, LoopOK
  <2>2. wire'.state = "ok" /\ cached' = cached /\ UNCHANGED <<version, forgotten>>
    BY <1>3 DEF IngestCurrent
  <2>3. \A p \in Loaded' : p = cached \/ p = wire'.policy
    BY <2>2 DEF Loaded
  <2>4. \A p \in Loaded' : p # NoPolicy
    BY DEF Loaded
  <2>5. cached # NoPolicy => cached \in Loaded
    BY DEF Loaded
  <2> QED
    BY <1>0, <2>1, <2>2, <2>3, <2>4, <2>5 DEF MemoryIsSound
<1>4. ASSUME Loaded' \subseteq Loaded, UNCHANGED <<version, forgotten>>
      PROVE  MemoryIsSound'
  BY <1>0, <1>4 DEF MemoryIsSound
<1>5. CASE \/ Send \/ SendFails \/ Receive \/ Save \/ SaveFails \/ Apply \/ ApplyFails
           \/ Crash \/ Reboot \/ InstallNft \/ Revoke \/ RejectCurrent \/ IngestLate
           \/ RejectLate \/ UNCHANGED vars
  <2>1. UNCHANGED <<version, forgotten>>
    BY <1>5 DEF Send, SendFails, Receive, Save, SaveFails, Apply, ApplyFails, Install,
                Crash, Reboot, Stop, InstallNft, Revoke, RejectCurrent, IngestLate,
                RejectLate, vars
  <2>2. Loaded' \subseteq Loaded
    <3>1. CASE Send \/ RejectCurrent
      BY <1>00, <3>1 DEF Send, RejectCurrent, Loaded
    <3>2. CASE SendFails \/ Crash \/ Reboot
      BY <1>00, <3>2 DEF SendFails, Crash, Reboot, Stop, Abandon, Loaded
    <3>3. CASE Receive
      BY <1>00, <3>3 DEF Receive, Loaded
    <3>4. CASE \/ Save \/ SaveFails \/ Apply \/ ApplyFails \/ InstallNft \/ Revoke
               \/ IngestLate \/ RejectLate \/ UNCHANGED vars
      BY <3>4 DEF Save, SaveFails, Apply, ApplyFails, InstallNft, Revoke, IngestLate,
                  RejectLate, vars, Loaded
    <3> QED
      BY <1>5, <3>1, <3>2, <3>3, <3>4
  <2> QED
    BY <1>4, <2>1, <2>2
<1>6. ASSUME NEW mode \in {"deny", "allowlist", "off"}, NEW allowed \in SUBSET IP,
            NEW bans \in SUBSET IP, ChangeFirewall(mode, allowed, bans)
      PROVE  MemoryIsSound'
  BY <1>0, <1>6 DEF ChangeFirewall, MemoryIsSound, Loaded
<1>7. PolicyIsLatest
  BY DEF IInv, Sound
<1> QED
  BY <1>0, <1>1, <1>2, <1>3, <1>5, <1>6, <1>7, Changes DEF Next, AgentStep, ServerStep

-----------------------------------------------------------------------------
(* The inductive step *)

\* What an agent writes into its cache is as good as what it goes by.
LEMMA KnownIsSound ==
    ASSUME TypeOK, MemoryIsSound, HeldIsSound, cached # NoPolicy,
           Known(cached).rev = policy.rev
    PROVE  Matches(Known(cached))
<1>1. cached \in Policy /\ cached \in Held /\ cached \in Loaded
  BY DEF TypeOK, Held, Loaded
<1>2. cached.rev = policy.rev /\ Matches(cached)
  BY <1>1, KnownFacts DEF HeldIsSound
<1>3. CASE Known(cached) = cached
  BY <1>2, <1>3
<1>4. CASE Known(cached) # cached
  <2>1. /\ version = "legacy" /\ Known(cached).mode = "deny"
        /\ Known(cached).bans = cached.bans /\ Known(cached).rev = cached.rev
    BY <1>1, <1>4, KnownFacts, FirewallAssumption DEF TypeOK
  <2>2. CASE cached.mode = "allowlist"
    <3>1. policy.rev \in forgotten
      BY <1>1, <1>2, <2>1, <2>2 DEF MemoryIsSound
    <3>2. Open(Known(cached))
      BY <1>1, <2>1, <2>2 DEF Open, HeldIsSound
    <3> QED
      BY <3>1, <3>2 DEF Matches
  <2>3. CASE cached.mode # "allowlist"
    <3>1. Full(Known(cached)) = Full(cached) /\ (Open(cached) => Open(Known(cached)))
      BY <2>1, <2>3 DEF Full, Open
    <3> QED
      BY <1>2, <3>1 DEF Matches
  <2> QED
    BY <2>2, <2>3
<1> QED
  BY <1>3, <1>4

\* A step of the agent or of the network that makes no policy, reports no
\* success and installs no table.
LEMMA NothingNew ==
    ASSUME Sound,
           UNCHANGED <<policy, next, applied, history, revoked, enforced>>,
           forgotten \subseteq forgotten',
           Held' \subseteq Held,
           \A x \in Reported' : x \in Reported \/ (~x.ok /\ x.rev <= policy.rev),
           rules' = rules \/ rules' = NoRules
    PROVE  Sound'
<1>1. PolicyIsLatest'
  BY DEF Sound, PolicyIsLatest, Open
<1>2. \A p : Matches(p) => Matches(p)'
  BY DEF Matches, Full, Open
<1>3. HeldIsSound'
  BY <1>2 DEF Sound, HeldIsSound, Open
<1>4. TableIsSound'
  BY DEF Sound, TableIsSound, Full, Opened
<1>5. ReportsAreSound'
  BY DEF Sound, ReportsAreSound, SucceededWasEnforced
<1>6. RevokedIsOpen'
  BY DEF Sound, RevokedIsOpen
<1> QED
  BY <1>1, <1>3, <1>4, <1>5, <1>6 DEF Sound

\* The policies and the results, once for all steps.
LEMMA HeldFacts ==
    ASSUME TypeOK
    PROVE  /\ Held \subseteq Policy
           /\ cached # NoPolicy => cached \in Held
           /\ disk # NoPolicy => disk \in Held
           /\ wire.state = "ok" /\ wire.policy # NoPolicy => wire.policy \in Held
BY WireFacts DEF Held, TypeOK

LEMMA ReportedFacts ==
    ASSUME TypeOK
    PROVE  Reported \subseteq Result /\ \A x \in Reported : x.rev \in Nat \ {0}
<1>1. \A r \in Request : r.result # NoResult => r.result \in Result
  BY DEF Request
<1>2. late \subseteq Request /\ result \in Result \cup {NoResult}
  BY DEF TypeOK
<1>3. Reported \subseteq Result
  BY <1>1, <1>2, WireFacts DEF Reported
<1>4. \A x \in Result : x.rev \in Nat \ {0}
  BY FirewallAssumption DEF Result, Rev
<1> QED
  BY <1>3, <1>4

\* Giving up an exchange adds no policy and no result.
LEMMA Abandoned ==
    ASSUME TypeOK, Abandon,
           cached' \in {cached, disk, NoPolicy}, disk' = disk,
           result' \in {result, NoResult}
    PROVE  Held' \subseteq Held /\ Reported' \subseteq Reported
<1>1. NoWire.state = "none"
  BY DEF NoWire
<1>2. Held' \subseteq Held
  BY <1>1 DEF Abandon, Held
<1>3. wire'.state = "none" /\
      (late' = late \/ (wire.state = "sent" /\ late' = late \cup {wire.request}))
  BY <1>1 DEF Abandon
<1>4. Reported' \subseteq Reported
  BY <1>3 DEF Reported
<1> QED
  BY <1>2, <1>4

\* The table an agent installs is exactly the policy it has saved.
LEMMA TableIsSaved ==
    ASSUME TypeOK, LoopOK, pc = "apply"
    PROVE  /\ cached \in Held /\ cached \in Policy
           /\ disk \in Held /\ disk \in Policy
           /\ disk = Known(cached) /\ disk.rev = cached.rev
           /\ cached.rev \in Nat \ {0}
<1>1. cached \in Policy /\ disk = Known(cached)
  BY DEF LoopOK, TypeOK
<1> QED
  BY <1>1, HeldFacts, KnownFacts, PolicyFacts DEF LoopOK

\* A table is installed, and a success or a failure is to be reported.
LEMMA Installed ==
    ASSUME TypeOK, LoopOK, Sound, pc = "apply", Install,
           UNCHANGED <<policy, next, applied, history, revoked, version, cached, disk,
                       wire, late>>,
           result' \in [rev : {cached.rev}, ok : BOOLEAN]
    PROVE  Sound'
<1>1. /\ rules' = Full(disk) /\ enforced' = enforced \cup {cached.rev}
      /\ UNCHANGED forgotten
  BY TableIsSaved DEF Install
<1>2. wire.state = "none"
  BY DEF LoopOK, NoWire
<1>3. Held' = Held /\ \A p \in Held : p = cached \/ p = disk
  BY <1>2 DEF Held
<1>4. /\ cached.rev <= policy.rev
      /\ cached.rev = policy.rev => Matches(disk)
      /\ \A v \in enforced : v <= cached.rev
      /\ revoked => Open(disk)
  BY TableIsSaved DEF Sound, HeldIsSound
<1>5. PolicyIsLatest'
  BY DEF Sound, PolicyIsLatest, Open
<1>6. HeldIsSound'
  <2>1. \A p \in Held : p.rev = cached.rev
    BY <1>3, TableIsSaved
  <2>2. \A p \in Held : Matches(p) => Matches(p)'
    BY <1>1 DEF Matches, Full, Open
  <2> QED
    BY <1>1, <1>3, <2>1, <2>2, TableIsSaved DEF Sound, HeldIsSound, Open
<1>7. rules'.rev = cached.rev /\ rules' # NoRules
  BY <1>1, TableIsSaved DEF Full, NoRules
<1>8. rules'.rev = policy.rev => rules' = Full(policy) \/ Opened'
  BY <1>1, <1>4, <1>7 DEF Matches, Opened, Full, Open
<1>9. TableIsSound'
  <2>1. \A v \in enforced' : v <= cached.rev /\ v <= policy.rev
    BY <1>1, <1>4, TableIsSaved DEF Sound, TableIsSound
  <2> QED
    BY <1>4, <1>7, <1>8, <2>1 DEF TableIsSound, Full
<1>10. ReportsAreSound'
  <2>1. \A x \in Reported' : x \in Reported \/ x.rev = cached.rev
    BY DEF Reported
  <2> QED
    BY <1>1, <1>4, <2>1 DEF Sound, ReportsAreSound, SucceededWasEnforced
<1>11. RevokedIsOpen'
  BY <1>1, <1>4 DEF RevokedIsOpen, Full, Open
<1> QED
  BY <1>5, <1>6, <1>9, <1>10, <1>11 DEF Sound

\* changeFirewall's revision is newer than all that was given out.
LEMMA Changed ==
    ASSUME TypeOK, Sound, NEW mode \in {"deny", "allowlist", "off"},
           NEW allowed \in SUBSET IP, NEW bans \in SUBSET IP,
           ChangeFirewall(mode, allowed, bans)
    PROVE  Sound'
<1>1. /\ policy' \in Policy /\ policy'.rev = next /\ next' = next + 1
      /\ next \in Rev /\ next = policy.rev + 1
  BY ChangedType DEF Sound, PolicyIsLatest
<1>2. policy.rev \in Nat /\ Rev \subseteq Nat
  BY PolicyFacts, FirewallAssumption DEF TypeOK, Rev
<1>3. /\ UNCHANGED <<applied, revoked, version, cached, disk, result, wire, late,
                     rules, enforced, forgotten>>
      /\ history' = [v \in Rev |-> IF v = next THEN "pending"
                                   ELSE IF history[v] = "pending" THEN "superseded"
                                   ELSE history[v]]
  BY DEF ChangeFirewall, agent, network, kernel
<1>4. Held' = Held /\ Reported' = Reported
  BY <1>3 DEF Held, Reported
<1>5. PolicyIsLatest'
  <2>1. policy'.mode = "allowlist" => policy'.bans = {}
    BY DEF ChangeFirewall, Validate
  <2> QED
    BY <1>1, <1>2, <1>3, <2>1 DEF PolicyIsLatest
<1>6. \A p \in Held : p.rev \in Nat
  BY HeldFacts, PolicyFacts
<1>7. HeldIsSound'
  BY <1>1, <1>2, <1>3, <1>4, <1>6 DEF Sound, HeldIsSound, Open
<1>8. TableIsSound'
  <2>1. \A v \in enforced : v \in Nat
    BY <1>2 DEF TypeOK
  <2>2. rules # NoRules => rules.rev \in Nat
    BY <1>2 DEF TypeOK, Rules
  <2> QED
    BY <1>1, <1>2, <1>3, <2>1, <2>2 DEF Sound, TableIsSound
<1>9. ReportsAreSound'
  <2>1. \A x \in Reported : x.rev \in Nat
    BY ReportedFacts
  <2>2. SucceededWasEnforced'
    BY <1>1, <1>3 DEF Sound, ReportsAreSound, SucceededWasEnforced
  <2> QED
    BY <1>1, <1>2, <1>3, <1>4, <2>1, <2>2 DEF Sound, ReportsAreSound
<1>10. RevokedIsOpen'
  BY <1>3 DEF Sound, RevokedIsOpen
<1> QED
  BY <1>5, <1>7, <1>8, <1>9, <1>10 DEF Sound

\* A server that may be revoked has given out nothing that blocks anybody and
\* may still reach the kernel: either its policy was reported applied, so the
\* table has held it and nothing older can come, or no change was ever made.
LEMMA RevokedSafely ==
    ASSUME TypeOK, Sound, MayRevoke
    PROVE  /\ \A p \in Held : Open(p)
           /\ rules # NoRules => rules.kind = "denylist" /\ rules.ips = {}
<1>1. PolicyIsLatest /\ HeldIsSound /\ TableIsSound /\ ReportsAreSound
  BY DEF Sound
<1>2. Held \subseteq Policy
  BY HeldFacts
<1>3. policy # NoPolicy => policy \in Policy /\ Open(policy)
  BY <1>1, CurrentFacts DEF MayRevoke, Open
<1>30. ASSUME policy # NoPolicy
       PROVE  /\ \A p \in Held : Matches(p) => Open(p)
              /\ rules = Full(policy) \/ Opened => rules.kind = "denylist" /\ rules.ips = {}
  <2>1. Full(policy).kind = "denylist" /\ Full(policy).ips = {}
    BY <1>3, <1>30 DEF Open, Full
  <2>2. \A p \in Held : Full(p) = Full(policy) => Open(p)
    BY <2>1 DEF Open, Full
  <2> QED
    BY <2>1, <2>2 DEF Matches, Opened
<1>4. rules # NoRules => rules.rev \in Nat \ {0}
  BY FirewallAssumption DEF TypeOK, Rules, Rev
<1>5. policy.rev \in Nat /\ \A p \in Held : p.rev \in Nat \ {0}
  BY <1>2, PolicyFacts DEF TypeOK
<1>6. CASE policy = NoPolicy
  <2>1. policy.rev = 0
    BY <1>6, PolicyFacts
  <2> QED
    BY <1>1, <1>4, <1>5, <2>1 DEF HeldIsSound, TableIsSound
<1>7. CASE policy # NoPolicy /\ \E v \in Rev : history[v] # "none"
  <2>1. applied = policy.rev /\ policy.rev # 0
    BY <1>1, <1>3, <1>7, CurrentFacts, PolicyFacts DEF MayRevoke
  <2>2. policy.rev \in enforced
    BY <1>1, <2>1 DEF ReportsAreSound
  <2>3. \A p \in Held : Matches(p)
    BY <1>1, <1>5, <2>2 DEF HeldIsSound
  <2>4. rules # NoRules => rules = Full(policy) \/ Opened
    BY <1>1, <1>4, <1>5, <2>2 DEF TableIsSound
  <2> QED
    BY <1>7, <1>30, <2>3, <2>4
<1>8. CASE policy # NoPolicy /\ \A v \in Rev : history[v] = "none"
  <2>1. policy.rev = 1
    BY <1>1, <1>8 DEF PolicyIsLatest
  <2>2. \A p \in Held : Matches(p)
    BY <1>1, <1>5, <2>1 DEF HeldIsSound
  <2>3. rules # NoRules => rules = Full(policy) \/ Opened
    BY <1>1, <1>4, <1>5, <2>1 DEF TableIsSound
  <2> QED
    BY <1>8, <1>30, <2>2, <2>3
<1> QED
  BY <1>6, <1>7, <1>8

\* ingestFirewall with a result that may still be reported.
LEMMA IngestedSound ==
    ASSUME TypeOK, Sound, NEW r \in Request, Ingest(r),
           r.result # NoResult => r.result \in Reported,
           UNCHANGED <<rules, enforced, forgotten>>,
           Held' \subseteq Held \cup {Current},
           Reported' \subseteq Reported
    PROVE  Sound'
<1>1. /\ policy' = Current /\ Current \in Policy
      /\ next' = Current.rev + 1
      /\ UNCHANGED revoked /\ ~revoked
      /\ policy.rev <= Current.rev
      /\ policy # NoPolicy => Current = policy
      /\ policy = NoPolicy => Current.rev = 1 /\ Open(Current) /\ policy.rev = 0
  BY Ingested, CurrentFacts DEF Sound
<1>2. /\ Current.rev \in Nat \ {0} /\ policy.rev \in Nat /\ Rev \subseteq Nat \ {0}
      /\ \A p \in Held : p.rev \in Nat \ {0}
      /\ \A v \in enforced : v \in Nat \ {0}
      /\ rules # NoRules => rules.rev \in Nat \ {0}
      /\ \A x \in Reported : x.rev \in Nat \ {0}
  <2>1. Rev \subseteq Nat \ {0}
    BY FirewallAssumption DEF Rev
  <2>2. \A p \in Held : p.rev \in Nat \ {0}
    BY HeldFacts, PolicyFacts
  <2>3. Current.rev \in Nat \ {0} /\ policy.rev \in Nat
    BY <1>1, PolicyFacts DEF TypeOK
  <2>4. /\ \A v \in enforced : v \in Nat \ {0}
        /\ rules # NoRules => rules.rev \in Nat \ {0}
    BY <2>1 DEF TypeOK, Rules
  <2> QED
    BY <2>1, <2>2, <2>3, <2>4, ReportedFacts
<1>20. Current.mode = "allowlist" => Current.bans = {}
  BY <1>1 DEF Sound, PolicyIsLatest, Open
<1>3. HeldIsSound'
  <2>1. ASSUME NEW p \in Held PROVE p.rev = Current.rev => Matches(p)'
    <3>1. CASE policy = NoPolicy
      BY <1>1, <1>2, <3>1 DEF Sound, HeldIsSound
    <3>2. CASE policy # NoPolicy
      BY <1>1, <3>2 DEF Sound, HeldIsSound, Matches, Full, Open
    <3> QED
      BY <3>1, <3>2
  <2>2. ASSUME NEW p \in Held', p = Current PROVE Matches(p)'
    BY <1>1, <2>2 DEF Matches, Full
  <2>3. \A v \in enforced : v <= Current.rev
    BY <1>1, <1>2 DEF Sound, TableIsSound
  <2>4. \A p \in Held : p.rev <= Current.rev
    BY <1>1, <1>2 DEF Sound, HeldIsSound
  <2>5. ASSUME NEW p \in Held'
        PROVE  /\ p.rev <= policy'.rev
               /\ p.rev = policy'.rev => Matches(p)'
               /\ p.mode = "allowlist" => p.bans = {}
               /\ \A v \in enforced' : v <= p.rev
    <3>1. CASE p \in Held
      BY <1>1, <2>1, <2>4, <3>1 DEF Sound, HeldIsSound
    <3>2. CASE p = Current
      BY <1>1, <1>2, <1>20, <2>2, <2>3, <3>2
    <3> QED
      BY <3>1, <3>2
  <2> QED
    BY <1>1, <2>5 DEF HeldIsSound
<1>4. TableIsSound'
  <2>1. CASE policy = NoPolicy
    BY <1>1, <1>2, <2>1 DEF Sound, TableIsSound
  <2>2. CASE policy # NoPolicy
    BY <1>1, <2>2 DEF Sound, TableIsSound, Full, Opened
  <2> QED
    BY <2>1, <2>2
<1>5. RevokedIsOpen'
  BY <1>1 DEF RevokedIsOpen
<1>6. CASE UNCHANGED <<applied, history>>
  <2>1. PolicyIsLatest'
    <3>1. CASE policy = NoPolicy
      <4>1. \A v \in Rev : history[v] # "pending"
        BY <1>1, <1>2, <3>1 DEF Sound, PolicyIsLatest
      <4> QED
        BY <1>1, <1>6, <3>1, <4>1 DEF PolicyIsLatest, Open
    <3>2. CASE policy # NoPolicy
      BY <1>1, <1>6, <3>2 DEF Sound, PolicyIsLatest, Open
    <3> QED
      BY <3>1, <3>2
  <2>2. SucceededWasEnforced' /\ (applied' # 0 => applied' \in enforced')
    BY <1>6 DEF Sound, ReportsAreSound, SucceededWasEnforced
  <2>3. \A x \in Reported' : x.rev <= policy'.rev /\ (x.ok => x.rev \in enforced')
    BY <1>1, <1>2 DEF Sound, ReportsAreSound
  <2>4. ReportsAreSound'
    BY <2>2, <2>3 DEF ReportsAreSound
  <2> QED
    BY <1>3, <1>4, <1>5, <2>1, <2>4 DEF Sound
<1>7. ASSUME r.result # NoResult, r.result.rev = Current.rev,
             applied' \in {0, Current.rev},
             NEW x \in {"succeeded", "failed"},
             history' = [history EXCEPT ![Current.rev] = IF @ = "none" THEN @ ELSE x],
             x = "succeeded" \/ applied' # 0 => r.result.ok
      PROVE  Sound'
  <2>1. policy # NoPolicy /\ Current = policy
    BY <1>1, <1>2, <1>7 DEF Sound, ReportsAreSound
  <2>2. policy.rev \in Rev
    BY <1>1, <2>1, PolicyFacts
  <2>3. r.result.ok => policy.rev \in enforced
    BY <1>7, <2>1 DEF Sound, ReportsAreSound
  <2>4. /\ \A v \in Rev \ {policy.rev} : history'[v] = history[v]
        /\ history'[policy.rev] = "none" <=> history[policy.rev] = "none"
        /\ history'[policy.rev] = "succeeded" => r.result.ok
        /\ history'[policy.rev] \in {"none", x}
    BY <1>7, <2>1, <2>2 DEF TypeOK
  <2>5. PolicyIsLatest'
    BY <1>1, <2>1, <2>2, <2>4 DEF Sound, PolicyIsLatest, Open
  <2>6. ReportsAreSound'
    BY <1>1, <1>7, <2>1, <2>2, <2>3, <2>4
    DEF Sound, ReportsAreSound, SucceededWasEnforced
  <2> QED
    BY <1>3, <1>4, <1>5, <2>5, <2>6 DEF Sound
<1> QED
  BY <1>6, <1>7, Ingested DEF Sound

LEMMA NextSound ==
    ASSUME IInv, [Next]_vars
    PROVE  Sound'
<1>0. TypeOK /\ LoopOK /\ MemoryIsSound /\ Sound /\ PolicyIsLatest
  BY DEF IInv, Sound
<1>00. NoWire.state = "none"
  BY DEF NoWire
<1> USE DEF server, agent, network, kernel
<1>1. CASE Send
  <2>1. wire'.state = "sent" /\ wire'.request.result = result
    BY <1>1 DEF Send
  <2> QED
    BY <1>0, <1>1, <2>1, NothingNew DEF Send, Held, Reported
<1>2. CASE SendFails
  BY <1>0, <1>2, NothingNew, Abandoned DEF SendFails
<1>3. CASE Receive
  BY <1>0, <1>00, <1>3, NothingNew DEF Receive, Held, Reported
<1>4. CASE Save
  <2>1. Held' \subseteq Held \cup {Known(cached)} /\ Reported' = Reported
    BY <1>4 DEF Save, Held, Reported
  <2>2. cached \in Held /\ cached \in Policy
    BY <1>0, <1>4, HeldFacts DEF Save, LoopOK
  <2>3. UNCHANGED <<policy, next, applied, history, revoked, enforced, forgotten, rules>>
    BY <1>4 DEF Save
  <2>4. \A p : Matches(p) => Matches(p)'
    BY <2>3 DEF Matches, Full, Open
  <2>5. HeldIsSound /\ Known(cached).rev = cached.rev /\ Known(cached).bans = cached.bans
    BY <1>0, <2>2, KnownFacts DEF Sound
  <2>6. /\ Known(cached).rev = policy.rev => Matches(Known(cached))
        /\ Known(cached).mode = "allowlist" => Known(cached) = cached
        /\ revoked => Open(Known(cached))
    <3>1. Known(cached) = cached \/ Known(cached).mode = "deny"
      BY <2>2, KnownFacts
    <3> QED
      BY <1>0, <2>2, <2>5, <3>1, KnownIsSound, HeldFacts, PolicyFacts DEF HeldIsSound, Open
  <2>7. HeldIsSound'
    BY <2>1, <2>2, <2>3, <2>4, <2>5, <2>6 DEF HeldIsSound, Open
  <2>8. PolicyIsLatest' /\ TableIsSound' /\ ReportsAreSound' /\ RevokedIsOpen'
    BY <1>0, <2>1, <2>3
    DEF Sound, PolicyIsLatest, TableIsSound, Opened, ReportsAreSound,
        SucceededWasEnforced, RevokedIsOpen, Full, Open
  <2> QED
    BY <2>7, <2>8 DEF Sound
<1>5. CASE SaveFails
  <2>1. cached \in Held
    BY <1>0, <1>5, HeldFacts DEF SaveFails, LoopOK
  <2>2. cached.rev <= policy.rev
    BY <1>0, <2>1 DEF Sound, HeldIsSound
  <2>3. Held' = Held
    BY <1>5 DEF SaveFails, Held
  <2>4. \A x \in Reported' : x \in Reported \/ (~x.ok /\ x.rev <= policy.rev)
    BY <1>5, <2>2 DEF SaveFails, Reported
  <2> QED
    BY <1>0, <1>5, <2>3, <2>4, NothingNew DEF SaveFails
<1>6. CASE Apply
  BY <1>0, <1>6, Installed DEF Apply
<1>7. CASE ApplyFails
  <2>1. CASE Install
    BY <1>0, <1>7, <2>1, Installed DEF ApplyFails
  <2>2. CASE UNCHANGED kernel
    <3>1. cached.rev <= policy.rev
      BY <1>0, <1>7, TableIsSaved DEF ApplyFails, Sound, HeldIsSound
    <3>2. Held' = Held
      BY <1>7 DEF ApplyFails, Held
    <3>3. \A x \in Reported' : x \in Reported \/ (~x.ok /\ x.rev <= policy.rev)
      BY <1>7, <3>1 DEF ApplyFails, Reported
    <3> QED
      BY <1>0, <1>7, <2>2, <3>2, <3>3, NothingNew DEF ApplyFails
  <2> QED
    BY <1>7, <2>1, <2>2 DEF ApplyFails
<1>8. CASE Crash
  BY <1>0, <1>8, NothingNew, Abandoned DEF Crash, Stop
<1>9. CASE Reboot
  BY <1>0, <1>9, NothingNew, Abandoned DEF Reboot, Stop
<1>10. CASE Restart
  BY <1>0, <1>00, <1>10, NothingNew DEF Restart, Held, Reported
<1>11. CASE Reinstall
  <2>1. cached = NoPolicy /\ wire.state = "none"
    BY <1>0, <1>00, <1>11 DEF Reinstall, LoopOK
  <2>2. Held' \subseteq Held /\ Reported' = Reported
    BY <1>11, <2>1 DEF Reinstall, Held, Reported
  <2> QED
    BY <1>0, <1>11, <2>2, NothingNew DEF Reinstall
<1>12. CASE InstallNft
  BY <1>0, <1>00, <1>12, NothingNew DEF InstallNft, Held, Reported
<1>13. ASSUME NEW mode \in {"deny", "allowlist", "off"}, NEW allowed \in SUBSET IP,
            NEW bans \in SUBSET IP, ChangeFirewall(mode, allowed, bans)
      PROVE  Sound'
  BY <1>0, <1>13, Changed
<1>14. CASE Revoke
  <2>1. Held' = Held /\ Reported' = Reported
    BY <1>14 DEF Revoke, Held, Reported
  <2>2. /\ \A p \in Held : Open(p)
        /\ rules # NoRules => rules.kind = "denylist" /\ rules.ips = {}
    BY <1>0, <1>14, RevokedSafely DEF Revoke
  <2>3. PolicyIsLatest' /\ TableIsSound' /\ ReportsAreSound'
    BY <1>0, <1>14, <2>1
    DEF Revoke, Sound, PolicyIsLatest, TableIsSound, ReportsAreSound,
        SucceededWasEnforced, Full, Open, Opened
  <2>4. HeldIsSound'
    BY <1>0, <1>14, <2>1, <2>2 DEF Revoke, Sound, HeldIsSound, Matches, Full, Open
  <2>5. RevokedIsOpen'
    BY <1>14, <2>2 DEF Revoke, RevokedIsOpen
  <2> QED
    BY <2>3, <2>4, <2>5 DEF Sound
<1>15. CASE IngestCurrent
  <2>1. wire.request \in Request /\ Ingest(wire.request)
    BY <1>0, <1>15, WireFacts DEF IngestCurrent
  <2>2. wire'.state = "ok" /\
        wire'.policy = IF Compatible(wire.request) THEN Current ELSE NoPolicy
    BY <1>15 DEF IngestCurrent
  <2>3. Held' \subseteq Held \cup {Current}
    BY <1>15, <2>2 DEF IngestCurrent, Held
  <2>4. Reported' \subseteq Reported
    BY <1>15, <2>2 DEF IngestCurrent, Reported
  <2>5. wire.request.result # NoResult => wire.request.result \in Reported
    BY <1>15 DEF IngestCurrent, Reported
  <2> QED
    BY <1>0, <1>15, <2>1, <2>3, <2>4, <2>5, IngestedSound DEF IngestCurrent
<1>16. CASE RejectCurrent
  <2>1. wire'.state = "error"
    BY <1>16 DEF RejectCurrent
  <2> QED
    BY <1>0, <1>16, <2>1, NothingNew DEF RejectCurrent, Held, Reported
<1>17. CASE IngestLate
  <2>1. PICK r \in late : Ingest(r) /\ late' = late \ {r}
    BY <1>17 DEF IngestLate
  <2>2. r \in Request /\ (r.result # NoResult => r.result \in Reported)
    BY <1>0 DEF TypeOK, Reported
  <2>3. Held' = Held /\ Reported' \subseteq Reported
    BY <1>17, <2>1 DEF IngestLate, Held, Reported
  <2> QED
    BY <1>0, <1>17, <2>1, <2>2, <2>3, IngestedSound DEF IngestLate
<1>18. CASE RejectLate
  BY <1>0, <1>00, <1>18, NothingNew DEF RejectLate, Held, Reported
<1>19. CASE UNCHANGED vars
  BY <1>0, <1>19, NothingNew DEF vars, Held, Reported
<1> QED
  BY <1>0, <1>1, <1>2, <1>3, <1>4, <1>5, <1>6, <1>7, <1>8, <1>9, <1>10, <1>11, <1>12,
     <1>13, <1>14, <1>15, <1>16, <1>17, <1>18, <1>19, Changes
  DEF Next, AgentStep, ServerStep

-----------------------------------------------------------------------------
(* Theorems *)

LEMMA InitIInv == Init => IInv
<1> SUFFICES ASSUME Init PROVE IInv
  OBVIOUS
<1>1. TypeOK
  <2>1. /\ 1 \in 1..(MaxRev + 1) /\ 0 \in 0..MaxRev /\ 0 \in 0..2
        /\ 0 \in 0..MaxReboot
    BY FirewallAssumption
  <2>2. wire \in Wire
    BY DEF Init, Wire
  <2>3. /\ history \in [Rev -> {"none", "pending", "succeeded", "failed", "superseded"}]
        /\ late \subseteq Request /\ enforced \subseteq Rev /\ forgotten \subseteq Rev
    BY DEF Init
  <2> QED
    BY <2>1, <2>2, <2>3 DEF Init, TypeOK
<1>2. NoPolicy.rev = 0 /\ wire.state = "none"
  BY PolicyFacts DEF Init, NoWire
<1>3. Held = {} /\ Reported = {}
  BY <1>2 DEF Init, Held, Reported
<1>4. LoopOK
  BY <1>2 DEF Init, LoopOK
<1>5. PolicyIsLatest
  BY <1>2 DEF Init, PolicyIsLatest
<1>6. HeldIsSound /\ ReportsAreSound
  BY <1>3 DEF Init, HeldIsSound, ReportsAreSound, SucceededWasEnforced
<1>7. TableIsSound /\ RevokedIsOpen
  BY DEF Init, TableIsSound, RevokedIsOpen
<1>8. MemoryIsSound
  BY <1>2 DEF Init, MemoryIsSound, Loaded
<1> QED
  BY <1>1, <1>4, <1>5, <1>6, <1>7, <1>8 DEF IInv, Sound

LEMMA NextIInv == IInv /\ [Next]_vars => IInv'
<1> SUFFICES ASSUME IInv, [Next]_vars PROVE IInv'
  OBVIOUS
<1> QED
  BY NextType, NextLoop, NextMemory, NextSound DEF IInv

LEMMA Inductive == Spec => []IInv
<1> QED
  BY InitIInv, NextIInv, PTL DEF Spec

\* The tables of the server, the state of the agent and what is on the network
\* keep their types.
THEOREM TypeCorrect == Spec => []TypeOK
<1>1. IInv => TypeOK
  BY DEF IInv
<1> QED
  BY <1>1, Inductive, PTL

\* ingestFirewall counts a result for the current revision only: the console
\* calls the policy applied only while the host's table is exactly that policy,
\* a reboot has emptied it, or an older agent has lost the allowlist it found in
\* the cache; and a change succeeded only if the table has held it.
THEOREM ReportsAreTrue == Spec => []ReportedIsEnforced
<1>1. ASSUME IInv, policy # NoPolicy, applied = policy.rev
      PROVE  rules = NoRules \/ rules = Full(policy) \/ Opened
  <2>1. TypeOK /\ TableIsSound /\ ReportsAreSound
    BY <1>1 DEF IInv, Sound
  <2>2. policy.rev \in Nat \ {0}
    BY <1>1, <2>1, PolicyFacts DEF TypeOK
  <2>3. policy.rev \in enforced
    BY <1>1, <2>1, <2>2 DEF ReportsAreSound
  <2>4. rules # NoRules => rules.rev \in Nat
    BY <2>1, FirewallAssumption DEF TypeOK, Rules, Rev
  <2>5. rules # NoRules => rules.rev = policy.rev
    BY <2>1, <2>2, <2>3, <2>4 DEF TableIsSound
  <2> QED
    BY <2>1, <2>5 DEF TableIsSound
<1>2. IInv => AppliedIsEnforced
  BY <1>1 DEF AppliedIsEnforced, Confirmed
<1>3. IInv => ReportedIsEnforced
  BY <1>2 DEF IInv, Sound, ReportsAreSound, ReportedIsEnforced
<1> QED
  BY <1>3, Inductive, PTL

\* changeToken lets a server go only when nothing of a policy is left on its
\* host, and nothing that blocks anybody can reach it afterwards: not from an
\* answer under way, the agent's memory or its disk.
THEOREM RevokedStaysOpen == Spec => []RevokedIsOpen
<1>1. IInv => RevokedIsOpen
  BY DEF IInv, Sound
<1> QED
  BY <1>1, Inductive, PTL

\* A step that changes the table installs what the agent has in memory.
LEMMA TableChanges ==
    ASSUME [Next]_vars, rules' # rules, rules' # NoRules
    PROVE  pc = "apply" /\ Install
<1> USE DEF server, agent, network, kernel
<1>1. CASE Apply \/ ApplyFails
  BY <1>1 DEF Apply, ApplyFails
<1>2. ASSUME \/ Send \/ SendFails \/ Receive \/ Save \/ SaveFails
             \/ Crash \/ Reboot \/ Restart \/ Reinstall \/ InstallNft
      PROVE  rules' \in {rules, NoRules}
  BY <1>2 DEF Send, SendFails, Receive, Save, SaveFails, Crash, Reboot, Restart,
              Reinstall, InstallNft
<1>3. ServerStep => UNCHANGED rules
  BY DEF ServerStep, AllowIP, RemoveIP, BanIP, UnbanIP, SetMode, ChangeFirewall, Revoke,
         IngestCurrent, RejectCurrent, IngestLate, RejectLate
<1> QED
  BY <1>1, <1>2, <1>3 DEF Next, AgentStep, vars

\* No crash, reboot, failed save or delayed answer brings an older table back:
\* the agent saves a policy before it applies it, and what it may still install
\* is never older than its table.
THEOREM NoOldTable == Spec => NoOldRules
<1>1. ASSUME IInv, [Next]_vars, rules' # rules, rules' # NoRules
      PROVE  \A v \in enforced : v <= rules'.rev
  <2>1. TypeOK /\ LoopOK /\ HeldIsSound
    BY <1>1 DEF IInv, Sound
  <2>2. pc = "apply" /\ rules' = Full(Known(cached))
    BY <1>1, TableChanges DEF Install
  <2>3. disk \in Held /\ rules'.rev = disk.rev
    BY <2>1, <2>2, TableIsSaved DEF Full
  <2> QED
    BY <2>1, <2>3 DEF HeldIsSound
<1>2. IInv /\ [Next]_vars =>
        [rules' # rules /\ rules' # NoRules => \A v \in enforced : v <= rules'.rev]_vars
  BY <1>1
<1> QED
  BY <1>2, Inductive, PTL DEF Spec, NoOldRules

\* An agent from before allowlists opens one only if it found it in the cache:
\* ingestFirewall gives it no such policy, whatever agents replace each other
\* while requests are under way.
THEOREM AllowlistStays == Spec => AllowlistNotOpened
<1>1. ASSUME IInv, [Next]_vars, rules # NoRules, rules' # NoRules,
             rules.kind = "allowlist", rules'.kind = "denylist"
      PROVE  cached.mode # "allowlist" \/ cached.rev \in forgotten
  <2>1. TypeOK /\ LoopOK /\ MemoryIsSound
    BY <1>1 DEF IInv
  <2>2. pc = "apply" /\ rules' = Full(Known(cached))
    BY <1>1, TableChanges DEF Install
  <2>3. cached # NoPolicy /\ cached \in Loaded
    BY <2>1, <2>2 DEF LoopOK, Loaded
  <2>4. CASE version = "current"
    BY <1>1, <2>2, <2>4 DEF Known, Full
  <2>5. CASE version = "legacy"
    BY <2>1, <2>3, <2>5 DEF MemoryIsSound
  <2> QED
    BY <2>1, <2>4, <2>5, FirewallAssumption DEF TypeOK
<1>2. IInv /\ [Next]_vars =>
        [rules # NoRules /\ rules' # NoRules /\ rules.kind = "allowlist"
           /\ rules'.kind = "denylist"
           => cached.mode # "allowlist" \/ cached.rev \in forgotten]_vars
  BY <1>1
<1> QED
  BY <1>2, Inductive, PTL DEF Spec, AllowlistNotOpened

\* An allowlist is lost only when an older agent is started on its cache.
LEMMA LostAtRestart ==
    ASSUME [Next]_vars, forgotten' # forgotten
    PROVE  /\ Restart /\ disk # NoPolicy /\ disk.mode = "allowlist"
           /\ forgotten' = forgotten \cup {disk.rev}
<1> USE DEF server, agent, network, kernel
<1>1. Restart
  BY DEF Next, AgentStep, ServerStep, vars, Send, SendFails, Receive, Save, SaveFails,
         Apply, ApplyFails, Install, Crash, Reboot, Reinstall, InstallNft, AllowIP,
         RemoveIP, BanIP, UnbanIP, SetMode, ChangeFirewall, Revoke, IngestCurrent,
         RejectCurrent, IngestLate, RejectLate
<1> QED
  BY <1>1 DEF Restart

\* What is on the disk when the console calls a policy without an allowlist
\* applied has none either: the table has held that revision, and what the agent
\* keeps is never older than its table.
LEMMA NoneToLose ==
    ASSUME IInv, Confirmed, policy.mode # "allowlist", disk # NoPolicy
    PROVE  disk.mode # "allowlist"
<1>1. TypeOK /\ HeldIsSound /\ TableIsSound /\ ReportsAreSound
  BY DEF IInv, Sound
<1>2. policy.rev \in enforced
  BY <1>1, PolicyFacts DEF Confirmed, ReportsAreSound, TypeOK
<1>3. disk \in Held /\ disk.rev \in Nat /\ policy.rev \in Nat
  BY <1>1, HeldFacts, PolicyFacts DEF TypeOK
<1>4. disk.rev = policy.rev
  BY <1>1, <1>2, <1>3 DEF HeldIsSound
<1>5. Matches(disk)
  BY <1>1, <1>3, <1>4 DEF HeldIsSound
<1> QED
  BY <1>5 DEF Matches, Full, Open

\* To save the policy as off and to see it applied suffices before a return to an
\* older agent, as the README asks: no allowlist is then left to lose, whatever
\* was delayed, failed or restarted before.
THEOREM RevertAfterConfirmation == Spec => RevertIsSafe
<1>1. ASSUME IInv, [Next]_vars, forgotten' # forgotten
      PROVE  ~(Confirmed /\ policy.mode # "allowlist")
  BY <1>1, LostAtRestart, NoneToLose
<1>2. IInv /\ [Next]_vars =>
        [forgotten' # forgotten => ~(Confirmed /\ policy.mode # "allowlist")]_vars
  BY <1>1
<1> QED
  BY <1>2, Inductive, PTL DEF Spec, RevertIsSafe

\* The history of a change that a later one replaced is final: only the latest
\* is pending, and ingestFirewall writes no other.
THEOREM OldHistoryStays == Spec => OldHistoryIsFinal
<1>1. ASSUME IInv, [Next]_vars, NEW v \in Rev, v < policy.rev
      PROVE  history'[v] = history[v]
  <2>0. TypeOK /\ PolicyIsLatest
    BY <1>1 DEF IInv, Sound
  <2>1. v \in Nat /\ policy.rev \in Nat /\ policy # NoPolicy
    BY <1>1, <2>0, PolicyFacts, FirewallAssumption DEF TypeOK, Rev
  <2>2. ASSUME NEW mode \in {"deny", "allowlist", "off"}, NEW allowed \in SUBSET IP,
               NEW bans \in SUBSET IP, ChangeFirewall(mode, allowed, bans)
        PROVE  history'[v] = history[v]
    BY <1>1, <2>0, <2>1, <2>2 DEF ChangeFirewall, PolicyIsLatest, TypeOK
  <2>3. ASSUME NEW r \in Request, Ingest(r)
        PROVE  history'[v] = history[v]
    <3>1. Current = policy
      BY <2>1 DEF Current
    <3> QED
      BY <1>1, <2>0, <2>1, <2>3, <3>1, Ingested DEF TypeOK
  <2>4. ASSUME AgentStep
        PROVE  UNCHANGED history
    BY <2>4 DEF AgentStep, Send, SendFails, Receive, Save, SaveFails, Apply,
                ApplyFails, Crash, Reboot, Restart, Reinstall, InstallNft, Stop, server
  <2>5. ASSUME Revoke \/ RejectCurrent \/ RejectLate \/ UNCHANGED vars
        PROVE  UNCHANGED history
    BY <2>5 DEF Revoke, RejectCurrent, RejectLate, vars, server
  <2>6. ASSUME IngestCurrent \/ IngestLate
        PROVE  \E r \in Request : Ingest(r)
    BY <2>0, <2>6, WireFacts DEF IngestCurrent, IngestLate, TypeOK
  <2> QED
    BY <1>1, <2>0, <2>2, <2>3, <2>4, <2>5, <2>6, Changes DEF Next, ServerStep
<1>2. IInv /\ [Next]_vars =>
        [\A v \in Rev : v < policy.rev => history'[v] = history[v]]_vars
  BY <1>1
<1> QED
  BY <1>2, Inductive, PTL DEF Spec, OldHistoryIsFinal

-----------------------------------------------------------------------------
(* Refinement: Firewall implements AccessPolicy. *)

\* The table the current policy asks for.
Wanted == IF policy = NoPolicy THEN NoRules ELSE Full(policy)

LEMMA WantedFacts ==
    ASSUME TypeOK
    PROVE  /\ Wanted.rev = policy.rev /\ policy.rev \in Nat
           /\ policy # NoPolicy => Wanted = Full(policy) /\ Wanted \in Access!Table
           /\ policy = NoPolicy => Wanted = NoRules
<1>1. \A p \in Policy : Full(p) \in Access!Table /\ Full(p).rev = p.rev
  BY PolicyFacts DEF Full, Access!Table
<1> QED
  BY <1>1, PolicyFacts DEF Wanted, NoRules, TypeOK

\* What the console calls applied, the kernel has held.
LEMMA ConfirmedWasHeld ==
    ASSUME TypeOK, ReportsAreSound, Confirmed
    PROVE  policy.rev \in enforced
BY PolicyFacts DEF Confirmed, ReportsAreSound, TypeOK

\* A step of the agent or of the network that changes neither the policy nor
\* the table and reports nothing.
LEMMA AccessStutter ==
    ASSUME UNCHANGED <<policy, applied, rules, enforced, forgotten, revoked>>
    PROVE  UNCHANGED Access!access
BY DEF Access!access, Confirmed, Full

\* changeFirewall is Change.
LEMMA ChangeIsChange ==
    ASSUME TypeOK, Sound, NEW mode \in {"deny", "allowlist", "off"},
           NEW allowed \in SUBSET IP, NEW bans \in SUBSET IP,
           ChangeFirewall(mode, allowed, bans)
    PROVE  Access!Change
<1>1. policy' \in Policy /\ policy'.rev = next /\ next = policy.rev + 1
  BY ChangedType DEF Sound, PolicyIsLatest
<1>2. Wanted' \in Access!Table /\ Wanted'.rev = policy'.rev
  BY <1>1, PolicyFacts DEF Wanted, Full, Access!Table
<1>3. Wanted'.rev = Wanted.rev + 1
  BY <1>1, <1>2, WantedFacts
<1>4. UNCHANGED <<applied, revoked, rules, enforced, forgotten>>
  BY DEF ChangeFirewall, kernel
<1>5. applied # next
  <2>1. \A v \in enforced : v <= policy.rev
    BY DEF Sound, TableIsSound
  <2>2. applied <= policy.rev
    BY <2>1, WantedFacts DEF Sound, ReportsAreSound, TypeOK
  <2> QED
    BY <1>1, <2>2, WantedFacts, FirewallAssumption DEF TypeOK
<1>6. ~Confirmed'
  BY <1>1, <1>4, <1>5 DEF Confirmed
<1> QED
  BY <1>2, <1>3, <1>4, <1>6 DEF Access!Change, Wanted

\* The first ingest gives a server its empty denylist, which is a change; any
\* other is a report at most.
LEMMA IngestIsTell ==
    ASSUME TypeOK, Sound, NEW r \in Request, Ingest(r),
           r.result # NoResult => r.result \in Reported,
           UNCHANGED kernel
    PROVE  Access!Change \/ Access!Tell
<1>1. /\ policy' = Current /\ Current \in Policy /\ UNCHANGED revoked /\ ~revoked
      /\ policy # NoPolicy => Current = policy
  BY Ingested DEF Sound
<1>2. UNCHANGED <<rules, enforced, forgotten>>
  BY DEF kernel
<1>3. CASE policy = NoPolicy
  <2>1. Current.rev = 1 /\ policy.rev = 0
    BY <1>3, CurrentFacts DEF Sound
  <2>2. \A x \in Reported : FALSE
    BY <2>1, ReportedFacts DEF Sound, ReportsAreSound
  <2>3. UNCHANGED applied
    BY <2>2 DEF Ingest, Report
  <2>4. applied = 0
    BY <2>1, FirewallAssumption DEF Sound, ReportsAreSound, TableIsSound, TypeOK, Rev
  <2>5. Wanted' \in Access!Table /\ Wanted'.rev = 1 /\ Wanted.rev = 0
    BY <1>1, <2>1, WantedFacts, PolicyFacts DEF Wanted, Full, Access!Table
  <2>6. ~Confirmed'
    BY <1>1, <2>1, <2>3, <2>4 DEF Confirmed
  <2> QED
    BY <1>1, <1>2, <2>5, <2>6 DEF Access!Change, Wanted
<1>4. CASE policy # NoPolicy
  <2>1. policy' = policy /\ policy.rev \in Nat \ {0}
    BY <1>1, <1>4, PolicyFacts
  <2>2. Confirmed' => policy.rev \in enforced
    <3>1. ASSUME applied' = policy.rev PROVE policy.rev \in enforced
      <4>1. CASE UNCHANGED applied
        BY <2>1, <3>1, <4>1 DEF Sound, ReportsAreSound
      <4>2. CASE ~UNCHANGED applied
        <5>1. r.result # NoResult /\ r.result.rev = policy.rev /\ r.result.ok
          BY <1>1, <1>4, <2>1, <3>1, <4>2, Ingested DEF Sound
        <5> QED
          BY <5>1 DEF Sound, ReportsAreSound
      <4> QED
        BY <4>1, <4>2
    <3> QED
      BY <2>1, <3>1 DEF Confirmed
  <2>3. UNCHANGED Wanted /\ Wanted.rev = policy.rev
    BY <2>1, WantedFacts DEF Wanted, Full
  <2>4. Confirmed' \in BOOLEAN
    BY DEF Confirmed
  <2> QED
    BY <1>1, <1>2, <2>2, <2>3, <2>4 DEF Access!Tell, Wanted
<1> QED
  BY <1>3, <1>4

\* An nft transaction is Install.
LEMMA InstallIsInstall ==
    ASSUME TypeOK, LoopOK, Sound, pc = "apply", Install,
           UNCHANGED <<policy, applied, revoked>>
    PROVE  Access!Install
<1>1. /\ disk \in Held /\ disk \in Policy /\ disk.rev = cached.rev
      /\ rules' = Full(disk) /\ enforced' = enforced \cup {cached.rev}
      /\ UNCHANGED forgotten
  BY TableIsSaved DEF Install
<1>2. rules' \in Access!Table /\ rules'.rev = cached.rev
  BY <1>1, PolicyFacts DEF Full, Access!Table
<1>3. /\ disk.rev <= policy.rev
      /\ disk.rev = policy.rev => Matches(disk)
      /\ \A v \in enforced : v <= disk.rev
      /\ revoked => Open(disk)
  BY <1>1 DEF Sound, HeldIsSound
<1>4. Open(disk) => Access!Open(rules')
  BY <1>1 DEF Full, Open, Access!Open
<1>5. rules'.rev = Wanted.rev =>
        rules' = Wanted \/ (Wanted.rev \in forgotten /\ Access!Open(rules'))
  BY <1>1, <1>2, <1>3, <1>4, WantedFacts, PolicyFacts DEF Matches
<1>6. UNCHANGED <<Wanted, Confirmed, revoked>>
  BY DEF Wanted, Full, Confirmed
<1> QED
  BY <1>1, <1>2, <1>3, <1>4, <1>5, <1>6, WantedFacts DEF Access!Install, Wanted

\* The start of an older agent on the cache of an allowlist is Forget.
LEMMA RestartIsForget ==
    ASSUME IInv, [Next]_vars, forgotten' # forgotten
    PROVE  Access!Forget
<1>0. TypeOK /\ HeldIsSound
  BY DEF IInv, Sound
<1>1. /\ Restart /\ disk # NoPolicy /\ disk.mode = "allowlist"
      /\ forgotten' = forgotten \cup {disk.rev}
  BY LostAtRestart
<1>2. disk \in Held /\ disk.rev \in Nat \ {0} /\ disk.rev <= policy.rev
  BY <1>0, <1>1, HeldFacts, PolicyFacts DEF HeldIsSound
<1>3. disk.rev \in 1..Wanted.rev
  BY <1>0, <1>2, WantedFacts
<1>4. ~(Confirmed /\ Wanted.kind = "denylist")
  <2>1. ASSUME Confirmed, Wanted.kind = "denylist" PROVE FALSE
    <3>1. policy # NoPolicy /\ policy.mode # "allowlist"
      BY <2>1 DEF Confirmed, Wanted, Full
    <3> QED
      BY <1>1, <2>1, <3>1, NoneToLose
  <2> QED
    BY <2>1
<1>5. UNCHANGED <<Wanted, Confirmed, rules, enforced, revoked>>
  BY <1>1 DEF Restart, server, Wanted, Full, Confirmed
<1> QED
  BY <1>1, <1>3, <1>4, <1>5 DEF Access!Forget, Wanted

\* changeToken lets a server go only when it is open.
LEMMA RevokeIsClose ==
    ASSUME TypeOK, Sound, Revoke
    PROVE  Access!Close
<1>1. UNCHANGED <<policy, applied, rules, enforced, forgotten>> /\ revoked'
  BY DEF Revoke, kernel
<1>2. Access!Open(rules)
  BY RevokedSafely DEF Revoke, Access!Open, Access!NoTable, NoRules
<1>3. policy # NoPolicy => policy.mode # "allowlist" /\ policy.bans = {}
  BY CurrentFacts DEF Sound, Revoke, MayRevoke
<1>4. Access!Open(Wanted)
  BY <1>3 DEF Wanted, Full, Access!Open, Access!NoTable, NoRules
<1> QED
  BY <1>1, <1>2, <1>4 DEF Access!Close, Wanted, Full, Confirmed

\* Every behaviour of the server, its agent and its kernel is a behaviour of the
\* access policy: changeFirewall changes what is wanted, an nft transaction
\* installs, a reboot loses, an older agent on the cache of a newer one forgets,
\* ingestFirewall tells and changeToken closes.
THEOREM FirewallImplementsAccessPolicy == Spec => ImplementsAccessPolicy
<1>1. Init => Access!Init
  BY DEF Init, Access!Init, Access!NoTable, NoRules, Confirmed
<1>2. IInv /\ [Next]_vars => [Access!Next]_(Access!access)
  <2> SUFFICES ASSUME IInv, [Next]_vars
               PROVE  Access!Next \/ UNCHANGED Access!access
    OBVIOUS
  <2>0. TypeOK /\ LoopOK /\ Sound
    BY DEF IInv
  <2>1. ASSUME NEW mode \in {"deny", "allowlist", "off"}, NEW allowed \in SUBSET IP,
               NEW bans \in SUBSET IP, ChangeFirewall(mode, allowed, bans)
        PROVE  Access!Next
    BY <2>0, <2>1, ChangeIsChange DEF Access!Next
  <2>2. CASE IngestCurrent
    <3>1. wire.request.result # NoResult => wire.request.result \in Reported
      BY <2>2 DEF IngestCurrent, Reported
    <3> QED
      BY <2>0, <2>2, <3>1, WireFacts, IngestIsTell DEF IngestCurrent, Access!Next
  <2>3. CASE IngestLate
    <3>1. PICK r \in late : Ingest(r) /\ UNCHANGED kernel
      BY <2>3 DEF IngestLate
    <3>2. r \in Request /\ (r.result # NoResult => r.result \in Reported)
      BY <2>0 DEF TypeOK, Reported
    <3> QED
      BY <2>0, <3>1, <3>2, IngestIsTell DEF Access!Next
  <2>4. CASE Revoke
    BY <2>0, <2>4, RevokeIsClose DEF Access!Next
  <2>5. CASE (Apply \/ ApplyFails) /\ Install
    BY <2>0, <2>5, InstallIsInstall DEF Apply, ApplyFails, server, Access!Next
  <2>6. CASE Reboot
    <3>1. UNCHANGED <<Wanted, Confirmed, enforced, forgotten, revoked>>
          /\ rules' = NoRules
      BY <2>6 DEF Reboot, Stop, server, Wanted, Full, Confirmed
    <3> QED
      BY <3>1 DEF Access!Lose, Access!NoTable, NoRules, Wanted, Access!Next
  <2>7. CASE \/ Send \/ SendFails \/ Receive \/ Save \/ SaveFails \/ Crash
             \/ Reinstall \/ InstallNft \/ RejectCurrent \/ RejectLate
             \/ UNCHANGED vars \/ (ApplyFails /\ UNCHANGED kernel)
    BY <2>7, AccessStutter
    DEF Send, SendFails, Receive, Save, SaveFails, Crash, Reinstall, InstallNft,
        RejectCurrent, RejectLate, ApplyFails, Stop, server, kernel, vars
  <2>8. CASE Restart
    <3>1. CASE forgotten' # forgotten
      BY <3>1, RestartIsForget DEF Access!Next
    <3>2. CASE forgotten' = forgotten
      BY <2>8, <3>2, AccessStutter DEF Restart, server
    <3> QED
      BY <3>1, <3>2
  <2> QED
    BY <2>0, <2>1, <2>2, <2>3, <2>4, <2>5, <2>6, <2>7, <2>8, Changes
    DEF Next, AgentStep, ServerStep, Apply, ApplyFails, Sound
<1> QED
  BY <1>1, <1>2, Inductive, PTL DEF Spec, ImplementsAccessPolicy, Access!Spec
=============================================================================
