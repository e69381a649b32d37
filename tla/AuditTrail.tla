----------------------------- MODULE AuditTrail -----------------------------
(***************************************************************************)
(* What delivery promises for an audit event, whatever crashes, retries    *)
(* and lost answers happen below: once the collector has passed an event   *)
(* it is held until it is recorded centrally, or it is lost at that very   *)
(* moment and the gap counter grows by at least the events lost.  A held   *)
(* event is never lost, and a recorded one stays recorded.                 *)
(***************************************************************************)
EXTENDS Naturals, FiniteSets

CONSTANT Event

VARIABLES status, gaps

trail == <<status, gaps>>

With(s) == {e \in Event : status[e] = s}

Init ==
    /\ status = [e \in Event |-> "unseen"]
    /\ gaps = 0

\* The collector passes some events: each is held, or lost and counted.
Observe ==
    \E seen \in SUBSET (With("unseen") \cup With("lost")) :
      \E lost \in SUBSET seen :
        /\ status' = [e \in Event |-> IF e \in lost THEN "lost"
                                      ELSE IF e \in seen THEN "held"
                                      ELSE status[e]]
        /\ gaps' \in Nat
        /\ gaps' >= gaps + Cardinality(lost \ With("lost"))

\* Held events reach the central store.
Record ==
    \E es \in SUBSET With("held") :
      /\ status' = [e \in Event |-> IF e \in es THEN "recorded"
                                    ELSE status[e]]
      /\ UNCHANGED gaps

Next == Observe \/ Record

Spec == Init /\ [][Next]_trail
=============================================================================
