------------------------------ MODULE Delivery ------------------------------
(***************************************************************************)
(* The path of an audit event from an agent's disk spool to the central    *)
(* store: the spool transaction (agent/spool.go), the agent's delivery     *)
(* loop (agent/main.go), an unreliable HTTP exchange, and the server's     *)
(* ingest, token and retention transactions (server/api.go,                *)
(* server/store.go).                                                       *)
(*                                                                         *)
(* One agent and its server row are modelled: every statement the server   *)
(* runs for a batch is keyed by the server id the token resolves to.  An   *)
(* event stands for its id; only its time, its encoded size and whether it *)
(* exceeds a field limit are told apart.  Session rows, termination        *)
(* commands and firewall policies, which the same ingest transaction       *)
(* carries, are the subject of Sessions and Firewall.               *)
(***************************************************************************)
EXTENDS Naturals, FiniteSets, Functions

CONSTANTS
    Event,          \* event ids the audit log can yield
    time,           \* [Event -> Nat], the audit time stamped on the event
    size,           \* [Event -> Nat \ {0}], bytes of its JSON encoding
    Oversized,      \* events over a per-event limit (bytes, args, names)
    Limit,          \* bytes the queue may hold (--buffer-mib)
    BatchMax,       \* rows a batch may hold (100)
    BatchBytes,     \* bytes after which a batch stops growing (1 MiB)
    Skew,           \* how far in the future the server accepts (5 minutes)
    Retentions,     \* the retention periods the settings page may store
    CleanupMax,     \* rows one cleanup deletes (1000)
    \* Bounds on what is unbounded in the program.
    MaxChunk,       \* events one collect hands to commit
    MaxGap,         \* the collector reports a gap only below this count
    MaxToken,       \* token rotations
    MaxLate,        \* abandoned requests still on the network
    MaxNow          \* clock

ASSUME DeliveryAssumption ==
    /\ IsFiniteSet(Event)
    /\ time \in [Event -> Nat]
    /\ size \in [Event -> Nat \ {0}]
    /\ Oversized \subseteq Event
    /\ Retentions \subseteq Nat /\ Retentions # {}
    /\ Limit \in Nat /\ BatchMax \in Nat \ {0} /\ BatchBytes \in Nat /\ Skew \in Nat
    /\ CleanupMax \in Nat /\ MaxChunk \in Nat /\ MaxGap \in Nat
    /\ MaxToken \in Nat /\ MaxLate \in Nat /\ MaxNow \in Nat

VARIABLES
    \* spool.db, on the agent's disk
    rowid,          \* queue table: the rowid of each queued event, 0 if none
    dropped,        \* checkpoint.Dropped
    collected,      \* events the saved checkpoint has moved past (history)
    \* the agent process
    pc,             \* where the single-threaded loop stands
    tx,             \* the open commit transaction of the spool
    health,         \* collection health; each tick starts from "ok"
    sent,           \* events of the batch being delivered
    tokenFile,      \* the token the host's token file holds
    \* the network
    wire,           \* the exchange the agent is waiting for
    late,           \* requests the agent gave up on, not yet arrived
    \* the central database
    token,          \* the server row's current token
    revoked,
    report,         \* health and dropped columns of the server row
    stored,         \* events table
    everStored,     \* events that were ever committed centrally (history)
    retention,      \* settings.retention_days
    now             \* the server's clock

spool   == <<rowid, dropped, collected>>
agent   == <<pc, tx, health, sent, tokenFile>>
network == <<wire, late>>
server  == <<token, revoked, report, stored, everStored, retention, now>>
vars    == <<spool, agent, network, server>>

-----------------------------------------------------------------------------
(* Types *)

Health   == {"ok", "collection_gap", "audit_read_error", "session_scan_error"}
Report   == [health : Health \cup {"waiting"}, dropped : Nat]
Request  == [token : Nat, events : SUBSET Event, report : Report]
Tx       == [rowid : [Event -> Nat], dropped : Nat,
             todo : SUBSET Event, done : SUBSET Event]
Wire     == [state : {"none", "ok", "error"}]
              \cup [state : {"sent"}, request : Request]
NoTx     == [rowid |-> [e \in Event |-> 0], dropped |-> 0,
             todo |-> {}, done |-> {}]
NoWire   == [state |-> "none"]

TypeOK ==
    /\ rowid \in [Event -> Nat]
    /\ dropped \in Nat
    /\ collected \subseteq Event
    /\ pc \in {"idle", "commit", "send", "wait", "ack", "down"}
    /\ tx \in Tx
    /\ health \in Health
    /\ sent \subseteq Event
    /\ tokenFile \in Nat
    /\ wire \in Wire
    /\ late \subseteq Request
    /\ token \in Nat
    /\ revoked \in BOOLEAN
    /\ report \in Report
    /\ stored \subseteq Event
    /\ everStored \subseteq Event
    /\ retention \in Retentions
    /\ now \in Nat

Init ==
    /\ rowid = [e \in Event |-> 0]
    /\ dropped = 0
    /\ collected = {}
    /\ pc = "idle"
    /\ tx = NoTx
    /\ health = "ok"
    /\ sent = {}
    /\ tokenFile = 0
    /\ wire = NoWire
    /\ late = {}
    /\ token = 0
    /\ revoked = FALSE
    /\ report = [health |-> "waiting", dropped |-> 0]
    /\ stored = {}
    /\ everStored = {}
    /\ retention \in Retentions
    /\ now = 1

-----------------------------------------------------------------------------
(* The spool: collect hands the events of a chunk to commit, which inserts *)
(* them and saves the checkpoint in one SQLite transaction.                *)

QueuedIn(r) == {e \in Event : r[e] # 0}
Queued      == QueuedIn(rowid)

Bytes(es) == SumFunctionOnSet(size, es)

\* SQLite numbers a new row one past the largest rowid of the table.
NextRow(r) == {n \in {1} \cup {r[e] + 1 : e \in Event} :
                  \A e \in Event : r[e] < n}

\* collect decided on a chunk.  A re-read chunk (the file was cut below the
\* saved offset, so reading restarts at 0) comes with a gap counted.
Collect ==
    /\ pc = "idle"
    /\ \E chunk \in SUBSET Event, gap \in {0, 1} :
         /\ Cardinality(chunk) <= MaxChunk
         /\ chunk \cap collected # {} => gap = 1
         /\ gap = 1 => dropped < MaxGap
         /\ tx' = [rowid |-> rowid, dropped |-> dropped + gap,
                   todo |-> chunk, done |-> {}]
    /\ pc' = "commit"
    /\ UNCHANGED <<spool, health, sent, tokenFile, network, server>>

\* Mutant of TooLarge: compares the queue without the row to insert.
TooLargeAlready(e) == e \in Oversized \/ Bytes(QueuedIn(tx.rowid)) > Limit

TooLarge(e) == e \in Oversized \/ Bytes(QueuedIn(tx.rowid)) + size[e] > Limit

\* Mutant of Passed: forgets the counter.
PassedUncounted(e, r, d) ==
    [rowid |-> r, dropped |-> tx.dropped,
     todo |-> tx.todo \ {e}, done |-> tx.done \cup {e}]

\* The transaction after event e, with its table and its counter.
Passed(e, r, d) == [rowid |-> r, dropped |-> d,
                    todo |-> tx.todo \ {e}, done |-> tx.done \cup {e}]

\* One turn of commit's loop: skip a queued id, drop and count what does not
\* fit, insert the rest.
CommitEvent ==
    /\ pc = "commit"
    /\ \E e \in tx.todo :
         \/ /\ tx.rowid[e] # 0
            /\ tx' = Passed(e, tx.rowid, tx.dropped)
         \/ /\ tx.rowid[e] = 0
            /\ TooLarge(e)
            /\ tx' = Passed(e, tx.rowid, tx.dropped + 1)
         \/ /\ tx.rowid[e] = 0
            /\ ~TooLarge(e)
            /\ \E n \in NextRow(tx.rowid) :
                 tx' = Passed(e, [tx.rowid EXCEPT ![e] = n], tx.dropped)
    /\ UNCHANGED <<spool, pc, health, sent, tokenFile, network, server>>

\* Mutant of CommitDone: the tick reports "ok" whatever was dropped.
CommitDoneQuiet ==
    /\ pc = "commit"
    /\ tx.todo = {}
    /\ rowid' = tx.rowid
    /\ dropped' = tx.dropped
    /\ collected' = collected \cup tx.done
    /\ tx' = NoTx
    /\ health' = "ok"
    /\ pc' = "send"
    /\ UNCHANGED <<sent, tokenFile, network, server>>

\* tx.Commit, s.cp = cp, and the tick's health.
CommitDone ==
    /\ pc = "commit"
    /\ tx.todo = {}
    /\ rowid' = tx.rowid
    /\ dropped' = tx.dropped
    /\ collected' = collected \cup tx.done
    /\ tx' = NoTx
    /\ health' = IF tx.dropped > 0 THEN "collection_gap" ELSE "ok"
    /\ pc' = "send"
    /\ UNCHANGED <<sent, tokenFile, network, server>>

\* Reading the log or the transaction failed: rolled back, nothing moves.
CollectFails ==
    /\ pc \in {"idle", "commit"}
    /\ tx' = NoTx
    /\ health' = "audit_read_error"
    /\ pc' = "send"
    /\ UNCHANGED <<spool, sent, tokenFile, network, server>>

-----------------------------------------------------------------------------
(* The delivery loop.  The agent is one thread: between reading a batch    *)
(* and acknowledging it nothing else touches the spool.                    *)

\* The tick falls before `next`, or the spool cannot be read: no delivery.
Backoff ==
    /\ pc = "send"
    /\ pc' = "idle"
    /\ health' = "ok"
    /\ UNCHANGED <<spool, tx, sent, tokenFile, network, server>>

\* One row always fits; the rows of the program are smaller than a batch anyway
\* (256 KiB, spool.go:89).
Fits(es) == Bytes(es) <= BatchBytes \/ Cardinality(es) = 1

\* batch: the rows with the lowest rowids, at most BatchMax, stopping before
\* the row that would exceed BatchBytes unless it is the first.
IsBatch(es) ==
    LET rest == Queued \ es IN
    /\ es \subseteq Queued
    /\ \A e \in es, f \in rest : rowid[e] < rowid[f]
    /\ Cardinality(es) <= BatchMax
    /\ Fits(es)
    /\ \/ rest = {}
       \/ Cardinality(es) = BatchMax
       \/ /\ es # {}
          /\ \E f \in rest : /\ \A g \in rest : rowid[f] <= rowid[g]
                             /\ Bytes(es) + size[f] > BatchBytes

\* Mutant of Send: uses the token read when the agent was installed.
SendFirstToken ==
    /\ pc = "send"
    /\ \E es \in SUBSET Event, h \in {health, "session_scan_error"} :
         /\ IsBatch(es)
         /\ sent' = es
         /\ wire' = [state |-> "sent",
                     request |-> [token |-> 0, events |-> es,
                                  report |-> [health |-> h,
                                              dropped |-> dropped]]]
    /\ pc' = "wait"
    /\ health' = "ok"
    /\ UNCHANGED <<spool, tx, tokenFile, late, server>>

\* sendBatch reads the token file for every request.
Send ==
    /\ pc = "send"
    /\ \E es \in SUBSET Event, h \in {health, "session_scan_error"} :
         /\ IsBatch(es)
         /\ sent' = es
         /\ wire' = [state |-> "sent",
                     request |-> [token |-> tokenFile, events |-> es,
                                  report |-> [health |-> h,
                                              dropped |-> dropped]]]
    /\ pc' = "wait"
    /\ health' = "ok"
    /\ UNCHANGED <<spool, tx, tokenFile, late, server>>

\* The exchange the agent waits for ends.  A request that has not reached
\* the server yet may still arrive, or be lost.
Abandon ==
    /\ wire' = NoWire
    /\ \/ late' = late
       \/ /\ wire.state = "sent"
          /\ Cardinality(late \cup {wire.request}) <= MaxLate
          /\ late' = late \cup {wire.request}

\* Mutant of SendFails: the error branch falls through to ack.
SendFailsAcked ==
    /\ pc = "wait"
    /\ Abandon
    /\ pc' = "ack"
    /\ UNCHANGED <<spool, tx, health, sent, tokenFile, server>>

\* A non-200 answer, an undecodable answer, a refused connection or the
\* client's timeout: the records are retained.
SendFails ==
    /\ pc = "wait"
    /\ Abandon
    /\ sent' = {}
    /\ pc' = "idle"
    /\ UNCHANGED <<spool, tx, health, tokenFile, server>>

\* HTTP 200 arrived.
SendSucceeds ==
    /\ pc = "wait"
    /\ wire.state = "ok"
    /\ wire' = NoWire
    /\ pc' = "ack"
    /\ UNCHANGED <<spool, tx, health, sent, tokenFile, late, server>>

\* ack deletes the delivered rows by id, in one transaction ...
Ack ==
    /\ pc = "ack"
    /\ rowid' = [e \in Event |-> IF e \in sent THEN 0 ELSE rowid[e]]
    /\ sent' = {}
    /\ pc' = "idle"
    /\ UNCHANGED <<dropped, collected, tx, health, tokenFile, network, server>>

\* ... whose failure is only logged.
AckFails ==
    /\ pc = "ack"
    /\ sent' = {}
    /\ pc' = "idle"
    /\ UNCHANGED <<spool, tx, health, tokenFile, network, server>>

\* The process or the host stops; the spool keeps what was committed.
Crash ==
    /\ pc # "down"
    /\ pc' = "down"
    /\ tx' = NoTx
    /\ health' = "ok"
    /\ sent' = {}
    /\ Abandon
    /\ UNCHANGED <<spool, tokenFile, server>>

\* Mutant of Restart: starts from the state of a server never heard of.
RestartWaiting ==
    /\ pc = "down"
    /\ pc' = "idle"
    /\ health' = "waiting"
    /\ UNCHANGED <<spool, tx, sent, tokenFile, network, server>>

\* main opens the spool again and reads the checkpoint back.
Restart ==
    /\ pc = "down"
    /\ pc' = "idle"
    /\ UNCHANGED <<spool, tx, health, sent, tokenFile, network, server>>

-----------------------------------------------------------------------------
(* The server *)

Authorized(r) == ~revoked /\ r.token = token

\* Every event of a batch must pass; one that does not fails the batch.
Valid(r) == \A e \in r.events : time[e] <= now + Skew

\* The ingest transaction: INSERT OR IGNORE of every event and the report
\* columns, together or not at all.
Ingest(r) ==
    /\ Authorized(r)
    /\ Valid(r)
    /\ stored' = stored \cup r.events
    /\ everStored' = everStored \cup r.events
    /\ report' = r.report
    /\ UNCHANGED <<token, revoked, retention, now>>

IngestCurrent ==
    /\ wire.state = "sent"
    /\ Ingest(wire.request)
    /\ wire' = [state |-> "ok"]
    /\ UNCHANGED <<spool, agent, late>>

\* 400, 401, or 503 from a transaction that rolled back.
RejectCurrent ==
    /\ wire.state = "sent"
    /\ wire' = [state |-> "error"]
    /\ UNCHANGED <<spool, agent, late, server>>

\* A request the agent gave up on reaches the server; nobody reads the answer.
IngestLate ==
    \E r \in late :
      /\ Ingest(r)
      /\ late' = late \ {r}
      /\ UNCHANGED <<spool, agent, wire>>

RejectLate ==
    \E r \in late :
      /\ late' = late \ {r}
      /\ UNCHANGED <<spool, agent, wire, server>>

\* changeToken: a new token, or a revocation that also replaces the token.
RotateToken ==
    /\ ~revoked
    /\ token < MaxToken
    /\ token' = token + 1
    /\ UNCHANGED <<spool, agent, network, revoked, report, stored, everStored,
                   retention, now>>

Revoke ==
    /\ ~revoked
    /\ revoked' = TRUE
    /\ token' = token + 1
    /\ UNCHANGED <<spool, agent, network, report, stored, everStored,
                   retention, now>>

\* The operator copies the token the console showed once to the host.
InstallToken ==
    /\ ~revoked
    /\ tokenFile # token
    /\ tokenFile' = token
    /\ UNCHANGED <<spool, pc, tx, health, sent, network, server>>

SetRetention ==
    /\ \E d \in Retentions : d # retention /\ retention' = d
    /\ UNCHANGED <<spool, agent, network, token, revoked, report, stored,
                   everStored, now>>

Expired(e) == time[e] + retention < now

\* Mutant of Cleanup: takes the cutoff one skew too early.
CleanupShort ==
    /\ \E old \in SUBSET stored :
         /\ old # {}
         /\ \A e \in old : time[e] + retention + Skew < now
         /\ Cardinality(old) <= CleanupMax
         /\ stored' = stored \ old
    /\ UNCHANGED <<spool, agent, network, token, revoked, report, everStored,
                   retention, now>>

\* cleanup deletes at most CleanupMax events older than the cutoff.
Cleanup ==
    /\ \E old \in SUBSET stored :
         /\ old # {}
         /\ \A e \in old : Expired(e)
         /\ Cardinality(old) <= CleanupMax
         /\ \/ \A e \in stored \ old : ~Expired(e)
            \/ Cardinality(old) = CleanupMax
         /\ stored' = stored \ old
    /\ UNCHANGED <<spool, agent, network, token, revoked, report, everStored,
                   retention, now>>

Tick ==
    /\ now < MaxNow
    /\ now' = now + 1
    /\ UNCHANGED <<spool, agent, network, token, revoked, report, stored,
                   everStored, retention>>

AgentStep ==
    \/ Collect \/ CommitEvent \/ CommitDone \/ CollectFails
    \/ Backoff \/ Send \/ SendFails \/ SendSucceeds \/ Ack \/ AckFails
    \/ Crash \/ Restart

ServerStep ==
    \/ IngestCurrent \/ RejectCurrent \/ IngestLate \/ RejectLate
    \/ RotateToken \/ Revoke \/ InstallToken
    \/ SetRetention \/ Cleanup \/ Tick

Next == AgentStep \/ ServerStep

Spec == Init /\ [][Next]_vars

-----------------------------------------------------------------------------
(* Fairness.  The loop ticks every second and its backoff is at most a     *)
(* minute, so it sends again and again; the network, the disk and the      *)
(* server's transactions fail now and then but not for ever; a stopped     *)
(* agent is restarted by systemd and does not die in every tick; the       *)
(* operator installs a rotated token; the server's clock advances;         *)
(* cleanup runs on a ticker.                                               *)

Fairness ==
    /\ SF_vars(Collect \/ CollectFails)
    /\ SF_vars(CommitEvent)
    /\ SF_vars(CommitDone)
    /\ SF_vars(Send)
    /\ SF_vars(IngestCurrent)
    /\ SF_vars(SendSucceeds)
    /\ WF_vars(SendFails)
    /\ SF_vars(Ack)
    /\ WF_vars(Restart)
    /\ WF_vars(InstallToken)
    /\ WF_vars(Cleanup)
    /\ WF_vars(Tick)

FairSpec == Spec /\ Fairness

-----------------------------------------------------------------------------
(* Properties *)

\* The spool never holds more bytes of events than --buffer-mib allows
\* (commit compares `used` with the limit for each event it inserts).
QueueWithinLimit == Bytes(Queued) <= Limit

\* Whenever the agent may deliver there is a next batch, there is only one, and
\* the oldest row is in it.
Oldest == {e \in Queued : \A f \in Queued : rowid[e] <= rowid[f]}
NeverBlocked ==
    pc = "send" => \E es \in SUBSET Event :
                     /\ IsBatch(es) /\ Oldest \subseteq es
                     /\ \A fs \in SUBSET Event : IsBatch(fs) => fs = es

\* No loss goes uncounted: the events the checkpoint has moved past that are
\* neither queued nor were ever committed centrally number at most
\* checkpoint.Dropped, across crashes, rolled-back commits, failed acks,
\* lost answers and re-reads.
Missing == {e \in collected : e \notin Queued /\ e \notin everStored}
LossIsCounted == Cardinality(Missing) <= dropped

\* A row leaves the queue only when the central commit of that event has
\* happened ("removed from the local queue only after HTTP 200").
AckOnlyCommitted ==
    [][\A e \in Event : e \in Queued /\ e \notin Queued' => e \in everStored]_vars

\* Whatever a request on the network carries is still queued or already
\* recorded, so losing the request loses nothing.
InFlight == (IF wire.state = "sent" THEN wire.request.events ELSE {})
              \cup UNION {r.events : r \in late}
RequestsAreBackedUp == InFlight \subseteq Queued \cup everStored

\* Delivery implements the abstract audit trail.
Status ==
    [e \in Event |-> IF e \in everStored THEN "recorded"
                     ELSE IF e \in Queued THEN "held"
                     ELSE IF e \in collected THEN "lost"
                     ELSE "unseen"]
Trail == INSTANCE AuditTrail WITH status <- Status, gaps <- dropped
ImplementsAuditTrail == Trail!Spec

\* Every held event is eventually recorded centrally unless the server row is
\* revoked: retries, a rotated token, a batch refused because one of its
\* events is still in the server's future, crashes and failed acks only
\* delay it.
HeldIsRecorded ==
    \A e \in Event \ Oversized : e \in Queued ~> (e \in everStored \/ revoked)

\* A collector that has a gap ends up showing a warning for good: requests
\* from before the gap that arrive late may overwrite the report only
\* finitely often.
GapWarningSticks ==
    dropped > 0 ~> [](report.health # "ok" \/ revoked)

\* An event past the retention period does not stay in the store.
RetentionIsEnforced ==
    \A e \in Event \ Oversized : (e \in stored /\ Expired(e)) ~> (e \notin stored \/ ~Expired(e))
=============================================================================
