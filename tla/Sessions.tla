------------------------------ MODULE Sessions ------------------------------
(***************************************************************************)
(* The central registry of SSH sessions and the forced termination of a    *)
(* session: the part of ingest that keeps the sessions table               *)
(* (server/api.go), the termination requests (server/termination.go), the  *)
(* agent's execution of them (agent/main.go, agent/termination.go) and the *)
(* retention of all three tables (server/store.go).                        *)
(*                                                                         *)
(* One agent and its server row.  A session has one start and one end      *)
(* event; clocks are abstracted to the facts the code derives from them:   *)
(* whether the last report is fresh (60 s), whether a request has expired  *)
(* (30 s), whether a row is past the retention cutoff.                     *)
(***************************************************************************)
EXTENDS Naturals, FiniteSets, Sequences, Functions

CONSTANTS
    Session,        \* audit sessions of the host
    number,         \* their audit numbers, which start over in each boot
    BatchMax,       \* events of one batch
    Can,            \* what a start of the agent may find out about pidfds
    Ages,           \* which kinds of times may pass the retention cutoff
    \* Bounds on what is unbounded in the program.
    MaxCmd,         \* termination requests ever made
    MaxLate,        \* abandoned requests still on the network
    MaxBoot         \* boots of the host

ASSUME SessionsAssumption ==
    /\ IsFiniteSet(Session)
    /\ number \in [Session -> Nat]
    /\ Can \subseteq BOOLEAN
    /\ Ages \subseteq {"start", "end", "result", "cmd"}
    /\ BatchMax \in Nat /\ MaxCmd \in Nat /\ MaxLate \in Nat /\ MaxBoot \in Nat

VARIABLES
    \* the host
    os,             \* the life of each session's processes
    bootOf,         \* boot in which the session began
    boot,
    \* the agent
    outbox,         \* session events to deliver, oldest first
    pc,
    canTerminate,   \* this process may use pidfds
    sent,           \* how many of the oldest events are being delivered
    results,        \* termination results not yet acknowledged
    todo,           \* requests of the last answer still to execute
    wire, late,     \* the network, as in Delivery
    \* the central database
    rows,           \* sessions table
    seen,           \* session events in the events table
    old,            \* events, result times and requests past the cutoff
    cmds,           \* session_terminations table
    enabled,        \* server_control.enabled
    fresh,          \* last_seen is less than 60 seconds ago
    healthy,        \* servers.health = 'ok'
    revoked

host    == <<os, bootOf, boot>>
agent   == <<outbox, pc, canTerminate, sent, results, todo>>
network == <<wire, late>>
server  == <<rows, seen, old, cmds, enabled, fresh, healthy, revoked>>
vars    == <<host, agent, network, server>>

-----------------------------------------------------------------------------
(* Types *)

Cmd     == 1..MaxCmd
Event   == {"start", "end"} \X Session
Result  == [id : Cmd, ok : BOOLEAN]
Request == [events : SUBSET Event, active : SUBSET Session,
            healthy : BOOLEAN, can : BOOLEAN, results : SUBSET Result]
\* started and ended name the event, or the termination result, whose time
\* the column holds.
Row     == [started : {"start", "end"}, ended : {"none", "end", "result"},
            live : BOOLEAN]
NoRow   == [started |-> "none", ended |-> "none", live |-> FALSE]
Command == [session : Session, expired : BOOLEAN,
            status : {"pending", "succeeded", "failed", "deleted"}]
NoCmd   == [status |-> "none"]
NoWire  == [state |-> "none"]
Wire    == {NoWire, [state |-> "error"]}
             \cup [state : {"sent"}, request : Request]
             \cup [state : {"ok"}, commands : SUBSET Cmd]

TypeOK ==
    /\ os \in [Session -> {"none", "running", "closing", "gone"}]
    /\ bootOf \in [Session -> Nat]
    /\ boot \in Nat
    /\ outbox \in Seq(Event)
    /\ pc \in {"idle", "wait", "execute", "down"}
    /\ canTerminate \in BOOLEAN
    /\ sent \in Nat
    /\ results \subseteq Result
    /\ todo \subseteq Cmd
    /\ wire \in Wire
    /\ late \subseteq Request
    /\ rows \in [Session -> Row \cup {NoRow}]
    /\ seen \subseteq Event
    /\ old \subseteq Event \cup ({"result"} \X Session) \cup ({"cmd"} \X Cmd)
    /\ cmds \in [Cmd -> Command \cup {NoCmd}]
    /\ enabled \in BOOLEAN
    /\ fresh \in BOOLEAN
    /\ healthy \in BOOLEAN
    /\ revoked \in BOOLEAN

Init ==
    /\ os = [s \in Session |-> "none"]
    /\ bootOf = [s \in Session |-> 0]
    /\ boot = 1
    /\ outbox = <<>>
    /\ pc = "idle"
    /\ canTerminate \in Can
    /\ sent = 0
    /\ results = {}
    /\ todo = {}
    /\ wire = NoWire
    /\ late = {}
    /\ rows = [s \in Session |-> NoRow]
    /\ seen = {}
    /\ old = {}
    /\ cmds = [c \in Cmd |-> NoCmd]
    /\ enabled = FALSE
    /\ fresh = FALSE
    /\ healthy = FALSE
    /\ revoked = FALSE

-----------------------------------------------------------------------------
(* The host.  An event may fail to reach the outbox: a full queue, a gap.  *)

Alive == {"running", "closing"}

MayPost(e) == outbox' \in {outbox, Append(outbox, e)}

\* The kernel does not hand out an audit number twice in a boot.
Login(s) ==
    /\ os[s] = "none"
    /\ \A t \in Session : number[t] = number[s] => bootOf[t] # boot
    /\ os' = [os EXCEPT ![s] = "running"]
    /\ bootOf' = [bootOf EXCEPT ![s] = boot]
    /\ MayPost(<<"start", s>>)
    /\ UNCHANGED <<boot, pc, canTerminate, sent, results, todo, network, server>>

\* sshd logs the end of the session before its process exits.
Logout(s) ==
    /\ os[s] = "running"
    /\ os' = [os EXCEPT ![s] = "closing"]
    /\ MayPost(<<"end", s>>)
    /\ UNCHANGED <<bootOf, boot, pc, canTerminate, sent, results, todo, network,
                   server>>

Exit(s) ==
    /\ os[s] = "closing"
    /\ os' = [os EXCEPT ![s] = "gone"]
    /\ UNCHANGED <<bootOf, boot, agent, network, server>>

\* The exchange the agent waits for ends; an unprocessed request may still
\* arrive, or be lost.
Abandon ==
    /\ wire' = NoWire
    /\ \/ late' = late
       \/ /\ wire.state = "sent"
          /\ Cardinality(late \cup {wire.request}) <= MaxLate
          /\ late' = late \cup {wire.request}

\* A new boot id: no session survives and no end record is written.
Reboot ==
    /\ boot < MaxBoot
    /\ boot' = boot + 1
    /\ os' = [s \in Session |-> IF os[s] \in Alive THEN "gone" ELSE os[s]]
    /\ pc' = "down"
    /\ sent' = 0
    /\ results' = {}
    /\ todo' = {}
    /\ Abandon
    /\ UNCHANGED <<bootOf, outbox, canTerminate, server>>

-----------------------------------------------------------------------------
(* The agent *)

\* A batch: the oldest events, the sessions a /proc scan finds, and the
\* results of the last answer.  A failed scan reports no session.
Send ==
    /\ pc = "idle"
    /\ LET n == IF Len(outbox) < BatchMax THEN Len(outbox) ELSE BatchMax
       IN \E ok, collected \in BOOLEAN :
            /\ sent' = n
            /\ wire' = [state |-> "sent", request |->
                         [events |-> Range(SubSeq(outbox, 1, n)),
                          active |-> IF ok THEN {s \in Session : os[s] \in Alive}
                                     ELSE {},
                          healthy |-> ok /\ collected,
                          can |-> canTerminate, results |-> results]]
    /\ pc' = "wait"
    /\ UNCHANGED <<host, outbox, canTerminate, results, todo, late, server>>

\* No usable answer: the batch and the results are kept for the next try.
SendFails ==
    /\ pc = "wait"
    /\ Abandon
    /\ sent' = 0
    /\ pc' = "idle"
    /\ UNCHANGED <<host, outbox, canTerminate, results, todo, server>>

\* The answer clears the reported results and brings requests to execute.
Receive ==
    /\ pc = "wait"
    /\ wire.state = "ok"
    /\ todo' = wire.commands
    /\ results' = {}
    /\ wire' = NoWire
    /\ pc' = "execute"
    /\ UNCHANGED <<host, outbox, canTerminate, sent, late, server>>

Answer(c, ok) ==
    /\ todo' = todo \ {c}
    /\ results' = results \cup {[id |-> c, ok |-> ok]}

\* Mutant of OfThisBoot: only the audit number of the request counts.
OfAnyBoot(c) == TRUE

\* The audit session a request names must be of this boot (terminationSession).
OfThisBoot(c) == bootOf[cmds[c].session] = boot

\* Refused: no pidfds, expired, or a session of another boot.
Refuse(c) ==
    /\ pc = "execute"
    /\ c \in todo
    /\ ~canTerminate \/ cmds[c].expired \/ ~OfThisBoot(c)
    /\ Answer(c, FALSE)
    /\ UNCHANGED <<host, outbox, pc, canTerminate, sent, network, server>>

MayKill(c) ==
    /\ pc = "execute"
    /\ c \in todo
    /\ canTerminate /\ ~cmds[c].expired /\ OfThisBoot(c)

\* The processes with the session's audit number die.  A killed sshd may or may
\* not have logged the end.
Die(c) ==
    LET hit == {s \in Session : /\ number[s] = number[cmds[c].session]
                                /\ bootOf[s] = boot
                                /\ os[s] \in Alive}
    IN /\ os' = [s \in Session |-> IF s \in hit THEN "gone" ELSE os[s]]
       /\ \/ outbox' = outbox
          \/ \E s \in hit : os[s] = "running" /\ outbox' = Append(outbox, <<"end", s>>)

\* Three passes signal every process, and a last scan finds none alive.
Kill(c) ==
    /\ MayKill(c)
    /\ Die(c)
    /\ Answer(c, TRUE)
    /\ UNCHANGED <<bootOf, boot, pc, canTerminate, sent, network, server>>

\* Mutant of KillFails: processes that survive three passes are not reported.
KillFailsQuietly(c) ==
    /\ MayKill(c)
    /\ UNCHANGED <<os, outbox>>
    /\ Answer(c, TRUE)
    /\ UNCHANGED <<bootOf, boot, pc, canTerminate, sent, network, server>>

\* A signal or a scan failed, the session is the agent's own, or some process
\* is still alive after three passes; those signalled so far may be all.
KillFails(c) ==
    /\ MayKill(c)
    /\ Die(c) \/ UNCHANGED <<os, outbox>>
    /\ Answer(c, FALSE)
    /\ UNCHANGED <<bootOf, boot, pc, canTerminate, sent, network, server>>

\* After the commands: ack deletes the delivered events, or fails.
Ack ==
    /\ pc = "execute"
    /\ todo = {}
    /\ outbox' \in {outbox, SubSeq(outbox, sent + 1, Len(outbox))}
    /\ sent' = 0
    /\ pc' = "idle"
    /\ UNCHANGED <<host, canTerminate, results, todo, network, server>>

\* Unreported results and unexecuted requests die with the process.
Crash ==
    /\ pc # "down"
    /\ pc' = "down"
    /\ sent' = 0
    /\ results' = {}
    /\ todo' = {}
    /\ Abandon
    /\ UNCHANGED <<host, outbox, canTerminate, server>>

Restart ==
    /\ pc = "down"
    /\ pc' = "idle"
    /\ canTerminate' \in Can
    /\ UNCHANGED <<host, outbox, sent, results, todo, network, server>>

-----------------------------------------------------------------------------
(* The server *)

Pending(c) == cmds[c].status = "pending" /\ ~cmds[c].expired

\* Mutant of Applied: a request answered before is answered again.
AppliedAgain(r) ==
    {x \in r.results : cmds[x.id].status \in {"pending", "succeeded", "failed"}}

\* The results a request brings that still have a pending request.
Applied(r) == {x \in r.results : cmds[x.id].status = "pending"}

\* Mutant of AfterResults: a failed execution ends the row as well.
AfterAnyResult(r) ==
    [s \in Session |->
       IF rows[s] # NoRow /\ \E x \in Applied(r) : cmds[x.id].session = s
       THEN [started |-> rows[s].started, live |-> FALSE,
             ended |-> IF rows[s].ended = "none" THEN "result" ELSE rows[s].ended]
       ELSE rows[s]]

\* A success ends the row, unless an end is known already.
AfterResults(r) ==
    [s \in Session |->
       IF rows[s] # NoRow /\ \E x \in Applied(r) : x.ok /\ cmds[x.id].session = s
       THEN [started |-> rows[s].started, live |-> FALSE,
             ended |-> IF rows[s].ended = "none" THEN "result" ELSE rows[s].ended]
       ELSE rows[s]]

\* Mutant of AfterEvents: a start writes the whole row, its end included.
AfterEventsUpsert(row, started, ended) ==
    [started |-> IF started \/ row.started = "start" THEN "start"
                 ELSE IF ended THEN "end" ELSE row.started,
     ended   |-> IF ended THEN "end" ELSE IF started THEN "none" ELSE row.ended,
     live    |-> row.live]

\* One row after the new events of its session.  started is the earlier of
\* the two times; an end event replaces a known end.
AfterEvents(row, started, ended) ==
    [started |-> IF started \/ row.started = "start" THEN "start"
                 ELSE IF ended THEN "end" ELSE row.started,
     ended   |-> IF ended THEN "end" ELSE row.ended,
     live    |-> row.live]

\* Mutant of AfterActive: a row stays active until its end is known.
AfterActiveSticky(row, listed) ==
    [row EXCEPT !.live = row # NoRow /\ (listed \/ row.live) /\ row.ended = "none"]

\* Mutant of AfterActive: a listed row is active whatever is known of its end.
AfterActiveReopens(row, listed) ==
    IF row # NoRow /\ listed THEN [row EXCEPT !.live = TRUE, !.ended = "none"]
    ELSE [row EXCEPT !.live = FALSE]

\* Then every row of the server turns inactive and the listed ones, if they
\* have no end, active again.
AfterActive(row, listed) ==
    [row EXCEPT !.live = row # NoRow /\ listed /\ row.ended = "none"]

\* The ingest transaction.
Ingest(r) ==
    /\ ~revoked
    /\ enabled' = r.can
    /\ rows' = [s \in Session |->
                  AfterActive(AfterEvents(AfterResults(r)[s],
                                          <<"start", s>> \in r.events \ seen,
                                          <<"end", s>> \in r.events \ seen),
                              s \in r.active)]
    /\ cmds' = [c \in Cmd |->
                  IF \E x \in Applied(r) : x.id = c
                  THEN [cmds[c] EXCEPT !.status =
                          IF [id |-> c, ok |-> TRUE] \in r.results THEN "succeeded"
                          ELSE "failed"]
                  ELSE cmds[c]]
    /\ seen' = seen \cup r.events
    /\ fresh' = TRUE
    /\ healthy' = r.healthy
    /\ UNCHANGED <<old, revoked>>

\* The answer carries every request still pending, if the agent can serve it.
Commands(r) ==
    IF r.can THEN {c \in Cmd : Pending(c) /\ \A x \in r.results : x.id # c} ELSE {}

IngestCurrent ==
    /\ wire.state = "sent"
    /\ Ingest(wire.request)
    /\ wire' = [state |-> "ok", commands |-> Commands(wire.request)]
    /\ UNCHANGED <<host, agent, late>>

RejectCurrent ==
    /\ wire.state = "sent"
    /\ wire' = [state |-> "error"]
    /\ UNCHANGED <<host, agent, late, server>>

IngestLate ==
    \E r \in late :
      /\ Ingest(r)
      /\ late' = late \ {r}
      /\ UNCHANGED <<host, agent, wire>>

RejectLate ==
    \E r \in late :
      /\ late' = late \ {r}
      /\ UNCHANGED <<host, agent, wire, server>>

\* What the sessions view shows as active.
ShownActive(s) ==
    rows[s].live /\ rows[s].ended = "none" /\ fresh /\ healthy /\ ~revoked

\* An administrator asks for the end of an active session; while a request is
\* pending, asking again returns that one.
Terminate(s) ==
    /\ ShownActive(s)
    /\ enabled
    /\ \A c \in Cmd : Pending(c) => cmds[c].session # s
    /\ \E c \in Cmd :
         /\ cmds[c] = NoCmd
         /\ \A d \in Cmd : d < c => cmds[d] # NoCmd
         /\ cmds' = [cmds EXCEPT ![c] =
                       [session |-> s, expired |-> FALSE, status |-> "pending"]]
    /\ UNCHANGED <<host, agent, network, rows, seen, old, enabled, fresh, healthy,
                   revoked>>

\* Thirty seconds pass.
Expire(c) ==
    /\ Pending(c)
    /\ cmds' = [cmds EXCEPT ![c].expired = TRUE]
    /\ UNCHANGED <<host, agent, network, rows, seen, old, enabled, fresh, healthy,
                   revoked>>

\* Sixty seconds pass without a report.
Lapse ==
    /\ fresh
    /\ fresh' = FALSE
    /\ UNCHANGED <<host, agent, network, rows, seen, old, cmds, enabled, healthy,
                   revoked>>

\* changeToken with revoke: every later request is refused.
Revoke ==
    /\ ~revoked
    /\ revoked' = TRUE
    /\ UNCHANGED <<host, agent, network, rows, seen, old, cmds, enabled, fresh,
                   healthy>>

\* A time passes the retention cutoff, at least a day back: no exchange and no
\* execution from before that time is still under way.  A time is later than
\* those of what had to happen first.
Quiet(s) ==
    s \notin (IF wire.state = "sent" THEN wire.request.active ELSE {})
              \cup UNION {r.active : r \in late}

Requests(s) == {c \in Cmd : cmds[c] # NoCmd /\ cmds[c].session = s}
InAnswer == IF wire.state = "ok" THEN wire.commands ELSE {}

GrowSession(kind, s) ==
    \/ kind = "start" /\ os[s] # "none"
    \/ kind = "end" /\ os[s] = "gone" /\ <<"start", s>> \in old /\ Quiet(s)
    \/ /\ kind = "result" /\ rows[s].ended = "result" /\ Quiet(s)
       /\ \A c \in Requests(s) : <<"cmd", c>> \in old

GrowRequest(c) ==
    /\ cmds[c] # NoCmd
    /\ cmds[c].status = "pending" => cmds[c].expired
    /\ c \notin todo \cup InAnswer

Times == {"start", "end", "result"} \X Session \cup {"cmd"} \X Cmd

Grow(x) ==
    /\ x[1] \in Ages
    /\ x \notin old
    /\ IF x[1] = "cmd" THEN GrowRequest(x[2]) ELSE GrowSession(x[1], x[2])
    /\ old' = old \cup {x}
    /\ UNCHANGED <<host, agent, network, rows, seen, cmds, enabled, fresh, healthy,
                   revoked>>

\* The session row is deleted by its last time, if it is not kept active.
RowExpired(s) ==
    /\ rows[s] # NoRow
    /\ (IF rows[s].ended = "none" THEN <<rows[s].started, s>> ELSE <<rows[s].ended, s>>)
         \in old
    /\ ~rows[s].live \/ ~fresh \/ revoked

Cleanup ==
    /\ old # {}
    /\ cmds' = [c \in Cmd |-> IF <<"cmd", c>> \in old
                              THEN [cmds[c] EXCEPT !.status = "deleted"] ELSE cmds[c]]
    /\ seen' = seen \ old
    /\ rows' = [s \in Session |-> IF RowExpired(s) THEN NoRow ELSE rows[s]]
    /\ UNCHANGED <<host, agent, network, old, enabled, fresh, healthy, revoked>>

HostStep ==
    \/ \E s \in Session : Login(s) \/ Logout(s) \/ Exit(s)
    \/ Reboot

AgentStep ==
    \/ Send \/ SendFails \/ Receive \/ Ack \/ Crash \/ Restart
    \/ \E c \in Cmd : Refuse(c) \/ Kill(c) \/ KillFails(c)

ServerStep ==
    \/ IngestCurrent \/ RejectCurrent \/ IngestLate \/ RejectLate
    \/ \E s \in Session : Terminate(s)
    \/ \E c \in Cmd : Expire(c)
    \/ Lapse \/ Revoke \/ Cleanup
    \/ \E x \in Times : Grow(x)

Next == HostStep \/ AgentStep \/ ServerStep

Spec == Init /\ [][Next]_vars

\* The agent's loop goes on, the network works again and again, and the 60
\* seconds without a report pass.
Fairness ==
    /\ WF_vars(Send)
    /\ SF_vars(IngestCurrent)
    /\ WF_vars(SendFails \/ Receive)
    /\ WF_vars(\E c \in Cmd : Refuse(c) \/ Kill(c) \/ KillFails(c))
    /\ WF_vars(Ack)
    /\ WF_vars(Lapse)

FairSpec == Spec /\ Fairness

-----------------------------------------------------------------------------
(* Properties *)

Recent(s) == {<<"start", s>>, <<"end", s>>, <<"result", s>>} \cap old = {}

EndedMeansGone ==
    \A s \in Session : rows[s].ended # "none" => os[s] \in {"closing", "gone"}

SuccessIsTrue ==
    \A c \in Cmd : cmds[c].status = "succeeded" => os[cmds[c].session] = "gone"

\* What the tables show has happened: a row with an end belongs to a session
\* whose end was logged or whose processes are gone, and a request that
\* succeeded found the processes of its session gone.  No result of another
\* boot, no late report and no event of another session ends a running one.
TablesAreTrue == EndedMeansGone /\ SuccessIsTrue

\* After a success the session's row stays, and stays ended, whatever stale lists
\* of active sessions and redelivered events arrive later, until a time of the
\* session is past the cutoff of retention.
SucceededIsEnded ==
    \A c \in Cmd :
      cmds[c].status = "succeeded" /\ Recent(cmds[c].session) =>
        rows[cmds[c].session].ended # "none"

\* No stale list of active sessions and no redelivered start reopens an ended
\* row; it can only be deleted.
NeverReopened ==
    [][\A s \in Session : rows[s].ended # "none" =>
         rows'[s].ended # "none" \/ rows'[s] = NoRow]_vars

\* Within a boot a session loses its processes before its end is logged only
\* because a request that named this very session was alive.
KillsOnlyAsked ==
    [][\A s \in Session :
         os[s] = "running" /\ os'[s] = "gone" /\ boot' = boot =>
           \E c \in Cmd : cmds[c] # NoCmd /\ cmds[c].session = s /\ ~cmds[c].expired]_vars

\* The first result of a request stands: a lost result, a second execution
\* and results that arrive late never turn one answer into another.
AnswerIsFinal ==
    [][\A c \in Cmd : cmds[c].status \in {"succeeded", "failed"} =>
         cmds'[c].status \in {cmds[c].status, "deleted"}]_vars

\* A session that is gone ends up never shown as active: by its end event, by a
\* report that no longer lists it, or by the silence of its agent.
GoneIsNotShownActive ==
    \A s \in Session : os[s] = "gone" ~> []~ShownActive(s)

\* What the register shows of a session, and what is known of a request.
Shown(s) ==
    IF rows[s] = NoRow THEN "none" ELSE IF rows[s].ended = "none" THEN "open" ELSE "ended"
Asked(c) ==
    IF cmds[c] = NoCmd THEN NoCmd
    ELSE [session |-> cmds[c].session, status |-> cmds[c].status]

\* Host, agent and server together do what SessionRegister says of lives, rows and
\* requests: the outbox, the exchanges and the clocks are details of it.
Register == INSTANCE SessionRegister WITH
              Request <- Cmd, life <- os, shown <- [s \in Session |-> Shown(s)],
              asks <- [c \in Cmd |-> Asked(c)]
ImplementsSessionRegister == Register!Spec
=============================================================================
