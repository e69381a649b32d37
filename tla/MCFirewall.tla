----------------------------- MODULE MCFirewall -----------------------------
(***************************************************************************)
(* Instances of Firewall: one address, which is banned, unbanned, allowed  *)
(* and removed from the allowed list.                                      *)
(***************************************************************************)
EXTENDS Firewall

CONSTANT a

OneIP == {a}
=============================================================================
