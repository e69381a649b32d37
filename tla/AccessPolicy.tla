---------------------------- MODULE AccessPolicy ----------------------------
(***************************************************************************)
(* What the access policy of a server promises, whatever is lost, repeated *)
(* or restarted between the console and the host's kernel: every change    *)
(* asks for a new table; the kernel takes tables in the order they were    *)
(* asked for, and of the latest change exactly the table asked for, unless *)
(* an agent too old for allowlists lost it and opened the host; none is    *)
(* lost after the console called a change without one applied; it calls a  *)
(* change applied only if the kernel has held it; and a server is closed   *)
(* to changes only when neither the wanted table nor the kernel's blocks   *)
(* anybody, and none that does comes afterwards.                           *)
(***************************************************************************)
EXTENDS Naturals

CONSTANT IP

VARIABLES
    wanted,         \* the table the latest change asks for
    table,          \* the kernel's
    held,           \* revisions the kernel has held
    lost,           \* allowlists an agent too old for them has lost
    told,           \* the console calls the latest change applied
    closed          \* the server is revoked

access == <<wanted, table, held, lost, told, closed>>

NoTable == [rev |-> 0]
Table   == [rev : Nat \ {0}, kind : {"denylist", "allowlist"}, ips : SUBSET IP]

Open(t) == t = NoTable \/ (t.kind = "denylist" /\ t.ips = {})

Init ==
    /\ wanted = NoTable
    /\ table = NoTable
    /\ held = {}
    /\ lost = {}
    /\ told = FALSE
    /\ closed = FALSE

Change ==
    /\ wanted' \in Table
    /\ wanted'.rev = wanted.rev + 1
    /\ told' = FALSE
    /\ UNCHANGED <<table, held, lost, closed>>

\* Between two changes of which the later has come first, the earlier one is
\* skipped; a table may be installed again.
Install ==
    /\ table' \in Table
    /\ table'.rev <= wanted.rev
    /\ table'.rev = wanted.rev =>
         table' = wanted \/ (wanted.rev \in lost /\ Open(table'))
    /\ \A v \in held : v <= table'.rev
    /\ closed => Open(table')
    /\ held' = held \cup {table'.rev}
    /\ UNCHANGED <<wanted, lost, told, closed>>

\* A reboot.
Lose ==
    /\ table' = NoTable
    /\ UNCHANGED <<wanted, held, lost, told, closed>>

\* An agent too old for allowlists takes the place of one that has saved one.
Forget ==
    /\ ~(told /\ wanted.kind = "denylist")
    /\ \E v \in 1..wanted.rev : lost' = lost \cup {v}
    /\ UNCHANGED <<wanted, table, held, told, closed>>

Tell ==
    /\ ~closed
    /\ told' \in BOOLEAN
    /\ told' => wanted.rev \in held
    /\ UNCHANGED <<wanted, table, held, lost, closed>>

Close ==
    /\ Open(wanted) /\ Open(table)
    /\ closed' = TRUE
    /\ UNCHANGED <<wanted, table, held, lost, told>>

Next == Change \/ Install \/ Lose \/ Forget \/ Tell \/ Close

Spec == Init /\ [][Next]_access
=============================================================================
