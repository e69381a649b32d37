-------------------------- MODULE SessionRegister --------------------------
(***************************************************************************)
(* What the register of sessions promises, in whatever order, however late *)
(* and however often the reports of the host arrive: it shows only what    *)
(* has happened and never goes back, except that it may forget; a session  *)
(* is killed only because its very own end was asked for; and a request is *)
(* answered once, with a success only if its session is gone, whose row it *)
(* ends in the same moment.                                                *)
(***************************************************************************)

CONSTANTS Session, Request

VARIABLES
    life,           \* of each session on its host
    shown,          \* of each session in the register
    asks            \* the requests to end a session, and their answers

register == <<life, shown, asks>>

NoAsk == [status |-> "none"]
Asks  == [session : Session, status : {"pending", "succeeded", "failed", "deleted"}]

Init ==
    /\ life = [s \in Session |-> "none"]
    /\ shown = [s \in Session |-> "none"]
    /\ asks = [c \in Request |-> NoAsk]

\* sshd begins a session, logs its end, and exits.
Live ==
    /\ UNCHANGED <<shown, asks>>
    /\ \E s \in Session, step \in {<<"none", "running">>, <<"running", "closing">>,
                                   <<"closing", "gone">>} :
         /\ life[s] = step[1]
         /\ life' = [life EXCEPT ![s] = step[2]]

\* No session survives the host.
HostDown ==
    /\ UNCHANGED <<shown, asks>>
    /\ life' = [s \in Session |-> IF life[s] = "none" THEN "none" ELSE "gone"]

Ask ==
    /\ UNCHANGED <<life, shown>>
    /\ \E s \in Session, c \in Request :
         /\ shown[s] = "open"
         /\ asks[c] = NoAsk
         /\ asks' = [asks EXCEPT ![c] = [session |-> s, status |-> "pending"]]

Kill ==
    /\ UNCHANGED <<shown, asks>>
    /\ \E c \in Request :
         /\ asks[c] # NoAsk
         /\ life[asks[c].session] # "none"
         /\ life' = [life EXCEPT ![asks[c].session] = "gone"]

Showing(s) ==
    \/ shown'[s] = shown[s]
    \/ shown[s] = "none" /\ shown'[s] = "open" /\ life[s] # "none"
    \/ shown'[s] = "ended" /\ life[s] \in {"closing", "gone"}

Answering(c) ==
    \/ asks'[c] = asks[c]
    \/ /\ asks[c].status = "pending"
       /\ \/ asks'[c] = [asks[c] EXCEPT !.status = "failed"]
          \/ /\ asks'[c] = [asks[c] EXCEPT !.status = "succeeded"]
             /\ life[asks[c].session] = "gone"
             /\ shown[asks[c].session] = "open" => shown'[asks[c].session] = "ended"

\* A report of the host is entered.
Record ==
    /\ UNCHANGED life
    /\ \A s \in Session : Showing(s)
    /\ \A c \in Request : Answering(c)
    /\ shown' \in [Session -> {"none", "open", "ended"}]
    /\ asks' \in [Request -> Asks \cup {NoAsk}]

\* Retention.
Forget ==
    /\ UNCHANGED life
    /\ \E ss \in SUBSET Session :
         shown' = [s \in Session |-> IF s \in ss THEN "none" ELSE shown[s]]
    /\ \E cs \in SUBSET {c \in Request : asks[c] # NoAsk} :
         asks' = [c \in Request |-> IF c \in cs THEN [asks[c] EXCEPT !.status = "deleted"]
                                    ELSE asks[c]]

Next == Record \/ Forget \/ Live \/ HostDown \/ Ask \/ Kill

Spec == Init /\ [][Next]_register
=============================================================================
