-------------------------- MODULE MCDeliveryScenes --------------------------
(***************************************************************************)
(* What Delivery does in the end, in two scenes.  clock: two events, no    *)
(* gap or failed scan reported and no request abandoned on the network,    *)
(* but a token, a clock and a retention period that change.  gap: one      *)
(* event that is always dropped, a gap the collector reports, and a late   *)
(* request.  A scene is chosen at the start and kept; it excludes no fair  *)
(* step that its own steps enable.                                         *)
(***************************************************************************)
EXTENDS MCDelivery

\* e2 is stamped ahead of the server's clock: until now + Skew reaches it the
\* batch that holds it is refused as a whole.  e3 exceeds a field limit: commit
\* drops and counts it whenever it is read.
SceneTime == e1 :> 0 @@ e2 :> 3 @@ e3 :> 1
SceneSize == e1 :> 1 @@ e2 :> 2 @@ e3 :> 1
SceneOver == {e3}

VARIABLE scene

sceneVars == <<vars, scene>>

Clock == scene = "clock"
Gap   == scene = "gap"
Kept  == UNCHANGED scene

SceneInit ==
    /\ Init
    /\ scene \in {"clock", "gap"}
    /\ Gap => retention = 1

\* What the audit log yields in the scene.
ClockChunk == Clock /\ e3 \notin tx'.todo /\ tx'.dropped = dropped
GapChunk   == Gap /\ tx'.todo \subseteq {e3}

\* One disjunct per action of Next.
SceneNext ==
    \/ Collect /\ (ClockChunk \/ GapChunk) /\ Kept
    \/ CommitEvent /\ Kept
    \/ CommitDone /\ Kept
    \/ CollectFails /\ Kept
    \/ Backoff /\ Kept
    \/ Send /\ (Clock => wire'.request.report.health = health) /\ Kept
    \/ SendFails /\ (Clock => late' = {}) /\ Kept
    \/ SendSucceeds /\ Kept
    \/ Ack /\ Kept
    \/ AckFails /\ Kept
    \/ Crash /\ (Clock => late' = {}) /\ Kept
    \/ Restart /\ Kept
    \/ IngestCurrent /\ Kept
    \/ RejectCurrent /\ Kept
    \/ IngestLate /\ Kept
    \/ RejectLate /\ Kept
    \/ Clock /\ RotateToken /\ Kept
    \/ Revoke /\ Kept
    \/ InstallToken /\ Kept
    \/ Clock /\ SetRetention /\ Kept
    \/ Clock /\ Cleanup /\ Kept
    \/ Tick /\ Kept

SceneSpec == SceneInit /\ [][SceneNext]_sceneVars /\ Fairness
=============================================================================
