-------------------------- MODULE MCFirewallScenes --------------------------
(***************************************************************************)
(* Firewall in scenes, chosen at the start and kept.  late: a current      *)
(* agent with nft, which keeps its cache, a reboot, and a request that may *)
(* arrive late.  versions: agents of both versions, which take over the    *)
(* same host with its cache or without, and nft, which may be installed    *)
(* later; no late request and no reboot.  repair, for liveness: the same   *)
(* with nft and a reboot, but without bans and revocation.                 *)
(***************************************************************************)
EXTENDS MCFirewall

VARIABLE scene

sceneVars == <<vars, scene>>

InScene ==
    /\ scene = "late" => version' = "current" /\ (pc = "down" => disk' = disk)
    /\ scene = "versions" => late' = {} /\ reboots' = 0
    /\ scene = "repair" =>
         late' = {} /\ ~revoked' /\ (policy' # NoPolicy => policy'.bans = {})
    /\ UNCHANGED scene

SceneInit ==
    /\ Init
    /\ scene \in {"late", "versions"}
    /\ scene = "late" => version = "current" /\ nft

\* One disjunct per action of Next.
SceneNext ==
    \/ Send /\ InScene
    \/ SendFails /\ InScene
    \/ Receive /\ InScene
    \/ Save /\ InScene
    \/ SaveFails /\ InScene
    \/ Apply /\ InScene
    \/ ApplyFails /\ InScene
    \/ Crash /\ InScene
    \/ Reboot /\ InScene
    \/ Restart /\ InScene
    \/ Reinstall /\ InScene
    \/ InstallNft /\ InScene
    \/ (\E ip \in IP : AllowIP(ip)) /\ InScene
    \/ (\E ip \in IP : RemoveIP(ip)) /\ InScene
    \/ (\E ip \in IP : BanIP(ip)) /\ InScene
    \/ (\E ip \in IP : UnbanIP(ip)) /\ InScene
    \/ (\E mode \in Mode : SetMode(mode)) /\ InScene
    \/ Revoke /\ InScene
    \/ IngestCurrent /\ InScene
    \/ RejectCurrent /\ InScene
    \/ IngestLate /\ InScene
    \/ RejectLate /\ InScene

SceneSpec == SceneInit /\ [][SceneNext]_sceneVars

RepairInit == Init /\ scene = "repair" /\ nft

RepairSpec ==
    /\ RepairInit
    /\ [][SceneNext]_sceneVars
    /\ Fairness
=============================================================================
