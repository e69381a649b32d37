----------------------------- MODULE MCDelivery -----------------------------
(***************************************************************************)
(* Three events for the spool and the network, on one token and at one     *)
(* moment of the clock.                                                    *)
(***************************************************************************)
EXTENDS Delivery, TLC

CONSTANTS e1, e2, e3

\* e2 fills a batch of two bytes, which may also hold both of the others; a queue
\* of three bytes holds e2 and one of them.
SpoolEvent == {e1, e2, e3}
SpoolTime  == e1 :> 1 @@ e2 :> 1 @@ e3 :> 1
SpoolSize  == e1 :> 1 @@ e2 :> 2 @@ e3 :> 1

\* The steps of Next this instance enables: with its bounds no token is
\* rotated, no time passes and nothing expires.
SpoolNext ==
    \/ AgentStep
    \/ IngestCurrent \/ RejectCurrent \/ IngestLate \/ RejectLate
    \/ Revoke

SpoolSpec == Init /\ [][SpoolNext]_vars
=============================================================================
