------------------------------ MODULE Console ------------------------------
(* What the pages of the console have in common.                             *)

CONSTANTS Server,    \* the servers that may ever be registered
          None       \* null

=============================================================================
