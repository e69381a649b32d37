---------------------------- MODULE MCCollector ----------------------------
(***************************************************************************)
(* Instances of Collector: two audit groups for the run in which            *)
(* everything must hold, three for the runs that reach a counterexample.   *)
(***************************************************************************)
EXTENDS Collector, TLC
CONSTANTS g1, g2, g3
MCGroup == {g1, g2, g3}
\* g1 is an exec group closed by EOE, g2 one without EOE, g3 a single record.
MCParts == g1 :> 3 @@ g2 :> 2 @@ g3 :> 1
LiveGroup == {g1, g2}
LiveParts == g1 :> 3 @@ g2 :> 2
=============================================================================
