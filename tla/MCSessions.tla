----------------------------- MODULE MCSessions -----------------------------
(***************************************************************************)
(* Instances of Sessions: one session for the races of one row, and two    *)
(* sessions of successive boots that share an audit number.                *)
(***************************************************************************)
EXTENDS Sessions, TLC

CONSTANTS s1, s2

OneSession == {s1}
TwoSessions == {s1, s2}
OneNumber == s1 :> 7
SameNumber == s1 :> 7 @@ s2 :> 7
=============================================================================
