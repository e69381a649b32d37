--------------------------- MODULE MCConsolePages ---------------------------
(* Two servers: web is in its allowlist mode and may be changed once, db has  *)
(* no policy and stays so.  One address, one port, two history rows a page.   *)
EXTENDS ConsolePages

CONSTANTS web, db, a, ann, k1, k2, k3, s1, s2

Servers == {web, db}
IPs == {a}
Ports == {22}
Newest == {2}
First == [s \in Servers |->
            IF s = web THEN [rev |-> 2, allowed |-> {a}, mode |-> "allowlist", port |-> 22]
                       ELSE [rev |-> 0, allowed |-> {}, mode |-> "off", port |-> 22]]
Revisions == [s \in Servers |-> IF s = web THEN 3 ELSE 0]
Changing == {web}
Users == {ann}
PassKeys == {k1, k2, k3}
LogSessions == {s1, s2}

=============================================================================
