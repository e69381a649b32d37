-------------------------- MODULE Sessions_proofs --------------------------
(***************************************************************************)
(* Theorems about Sessions, for every set of sessions and audit numbers    *)
(* and for every bound.  The inductive invariant says of whatever is still *)
(* on its way, an event in the outbox or in a late request, a result not   *)
(* yet acknowledged, that it has happened: that is why no order of         *)
(* arrival makes the tables say something false.                           *)
(***************************************************************************)
EXTENDS Sessions, TLAPS, SequenceTheorems

Ended == {"closing", "gone"}

\* Events not yet recorded: queued, in the agent's request or in an abandoned one.
Posted ==
    Range(outbox) \cup (IF wire.state = "sent" THEN wire.request.events ELSE {})
      \cup UNION {r.events : r \in late}

\* Results the server may still be told.
Told ==
    results \cup (IF wire.state = "sent" THEN wire.request.results ELSE {})
      \cup UNION {r.results : r \in late}

\* An event that may still be recorded has happened.
EventsAreReal ==
    \A s \in Session :
      /\ <<"start", s>> \in Posted => os[s] # "none"
      /\ <<"end", s>> \in Posted => os[s] \in Ended

\* A row and a request belong to a session that has begun.
RowsAreReal == \A s \in Session : rows[s] # NoRow => os[s] # "none"
CommandsAreReal == \A c \in Cmd : cmds[c] # NoCmd => os[cmds[c].session] # "none"

\* What is executed, reported or aged is a request that was made.
CommandsAreKnown ==
    /\ \A c \in todo \cup InAnswer : cmds[c] # NoCmd
    /\ \A x \in Told : cmds[x.id] # NoCmd
    /\ \A c \in Cmd : <<"cmd", c>> \in old => cmds[c] # NoCmd

\* A success that may still be reported found the session's processes gone.
ResultsAreTrue == \A x \in Told : x.ok => os[cmds[x.id].session] = "gone"

\* The kernel does not hand out an audit number twice in a boot.
NumbersUnique ==
    /\ boot # 0
    /\ \A s, t \in Session :
         number[s] = number[t] /\ bootOf[s] = bootOf[t] /\ bootOf[s] # 0 => s = t

History ==
    /\ EventsAreReal /\ RowsAreReal /\ CommandsAreReal /\ CommandsAreKnown
    /\ ResultsAreTrue /\ NumbersUnique /\ TablesAreTrue

IInv == TypeOK /\ History

\* While nothing of a session is past the cutoff, the row a request was made for
\* stays, ended once the request has succeeded.
RowsStay ==
    \A c \in Cmd : cmds[c] # NoCmd /\ Recent(cmds[c].session) =>
      /\ rows[cmds[c].session] # NoRow
      /\ cmds[c].status = "succeeded" => rows[cmds[c].session].ended # "none"

-----------------------------------------------------------------------------
(* Lemmas about the types. *)

\* Only the status tells a request that was made from one that was not.
LEMMA CommandMade ==
    ASSUME NEW k \in Command \cup {NoCmd}
    PROVE  k # NoCmd <=> k.status # "none"
BY DEF Command, NoCmd

\* A request is on the wire, and an answer's commands are, as typed.
LEMMA WireCases ==
    ASSUME NEW w \in Wire
    PROVE  /\ w.state = "sent" => w.request \in Request
           /\ w.state = "ok" => w.commands \subseteq Cmd
BY DEF Wire, NoWire

\* A row is absent exactly when no time began it, and then it has no end.
LEMMA RowMade ==
    ASSUME NEW w \in Row \cup {NoRow}
    PROVE  /\ w # NoRow <=> w.started # "none"
           /\ w.started \in {"none", "start", "end"}
           /\ w.ended \in {"none", "end", "result"}
           /\ w.live \in BOOLEAN
           /\ w.started = "none" => w.ended = "none" /\ w.live = FALSE
<1>1. CASE w = NoRow
  BY <1>1 DEF NoRow
<1>2. CASE w \in Row
  BY <1>2 DEF Row, NoRow
<1> QED
  BY <1>1, <1>2

\* A piece of a sequence holds elements of the sequence only.
LEMMA PieceInRange ==
    ASSUME NEW S, NEW q \in Seq(S), NEW m \in Nat \ {0}, NEW n \in Nat, n <= Len(q)
    PROVE  /\ SubSeq(q, m, n) \in Seq(S)
           /\ Range(SubSeq(q, m, n)) \subseteq Range(q)
<1>1. Len(q) \in Nat /\ DOMAIN q = 1..Len(q) /\ \A i \in 1..Len(q) : q[i] \in S
  BY LenProperties, ElementOfSeq
<1> DEFINE p == SubSeq(q, m, n)
<1>2. /\ p \in Seq(S)
      /\ Len(p) = IF m <= n THEN n - m + 1 ELSE 0
      /\ \A i \in 1..(n - m + 1) : p[i] = q[m + i - 1]
  BY <1>1, SubSeqProperties, m \in Int, n \in Int
<1> HIDE DEF p
<1>3. DOMAIN p = 1..Len(p)
  BY <1>2, LenProperties
<1>4. ASSUME NEW i \in DOMAIN p
      PROVE  p[i] \in Range(q)
  <2>1. i \in 1..(n - m + 1) /\ m + i - 1 \in 1..Len(q)
    BY <1>1, <1>2, <1>3
  <2> QED
    BY <1>1, <1>2, <2>1 DEF Range
<1> QED
  BY <1>2, <1>4 DEF Range, p

\* Appending adds one element to the range.
LEMMA AppendRange ==
    ASSUME NEW S, NEW q \in Seq(S), NEW e \in S
    PROVE  /\ Append(q, e) \in Seq(S)
           /\ Range(Append(q, e)) = Range(q) \cup {e}
<1>1. /\ Append(q, e) \in Seq(S)
      /\ Len(Append(q, e)) = Len(q) + 1
      /\ \A i \in 1..Len(q) : Append(q, e)[i] = q[i]
      /\ Append(q, e)[Len(q) + 1] = e
  BY AppendProperties
<1>2. Len(q) \in Nat /\ DOMAIN q = 1..Len(q) /\ DOMAIN Append(q, e) = 1..(Len(q) + 1)
  BY <1>1, LenProperties
<1> QED
  BY <1>1, <1>2 DEF Range

\* A queue of events holds events.
LEMMA RangeTyped ==
    ASSUME NEW S, NEW q \in Seq(S)
    PROVE  Range(q) \subseteq S
BY LenProperties, ElementOfSeq DEF Range

-----------------------------------------------------------------------------
(* Lemmas about ingest. *)

\* New events make a row or complete it; they never take a time away.
LEMMA EventsKeep ==
    ASSUME NEW w \in Row \cup {NoRow}, NEW p \in BOOLEAN, NEW q \in BOOLEAN
    PROVE  /\ AfterEvents(w, p, q) \in Row \cup {NoRow}
           /\ w # NoRow => AfterEvents(w, p, q) # NoRow
           /\ AfterEvents(w, p, q) # NoRow => w # NoRow \/ p \/ q
           /\ AfterEvents(w, p, q).ended = IF q THEN "end" ELSE w.ended
<1> DEFINE v == AfterEvents(w, p, q)
<1>1. /\ v.started = IF p \/ w.started = "start" THEN "start"
                     ELSE IF q THEN "end" ELSE w.started
      /\ v.ended = IF q THEN "end" ELSE w.ended
      /\ v.live = w.live
      /\ v = [started |-> v.started, ended |-> v.ended, live |-> v.live]
  BY DEF AfterEvents
<1> HIDE DEF v
<1>2. CASE v.started = "none"
  <2>1. w = NoRow /\ ~p /\ ~q
    BY <1>1, <1>2, RowMade
  <2>2. v = NoRow
    BY <1>1, <2>1 DEF NoRow
  <2> QED
    BY <1>1, <2>1, <2>2 DEF v
<1>3. CASE v.started # "none"
  <2>1. v.started \in {"start", "end"} /\ v.ended \in {"none", "end", "result"}
        /\ v.live \in BOOLEAN
    BY <1>1, <1>3, RowMade
  <2>2. v \in Row
    BY <1>1, <2>1 DEF Row
  <2>3. v # NoRow
    BY <1>3 DEF NoRow
  <2>4. w # NoRow \/ p \/ q
    BY <1>1, <1>3 DEF NoRow
  <2> QED
    BY <1>1, <2>2, <2>3, <2>4 DEF v
<1> QED
  BY <1>2, <1>3

\* The list of active sessions decides liveness and nothing else.
LEMMA ActiveKeeps ==
    ASSUME NEW w \in Row \cup {NoRow}, NEW l \in BOOLEAN
    PROVE  /\ AfterActive(w, l) \in Row \cup {NoRow}
           /\ w = NoRow <=> AfterActive(w, l) = NoRow
           /\ AfterActive(w, l).ended = w.ended
<1> DEFINE m == w # NoRow /\ l /\ w.ended = "none"
<1>1. m \in BOOLEAN /\ (w = NoRow => m = FALSE)
  OBVIOUS
<1>2. AfterActive(w, l) = [w EXCEPT !.live = m]
  BY DEF AfterActive
<1> HIDE DEF m
<1>3. CASE w = NoRow
  BY <1>1, <1>2, <1>3 DEF NoRow
<1>4. CASE w \in Row
  BY <1>1, <1>2, <1>4 DEF Row, NoRow
<1> QED
  BY <1>3, <1>4

\* A success the server applies to row s.
Success(r, s) == \E x \in Applied(r) : x.ok /\ cmds[x.id].session = s

\* A success gives an existing row an end and makes no row.
LEMMA ResultsKeep ==
    ASSUME TypeOK, NEW r \in Request, NEW s \in Session
    PROVE  /\ AfterResults(r)[s] \in Row \cup {NoRow}
           /\ rows[s] = NoRow <=> AfterResults(r)[s] = NoRow
           /\ rows[s].ended # "none" => AfterResults(r)[s].ended # "none"
           /\ AfterResults(r)[s].ended # "none" => rows[s].ended # "none" \/ Success(r, s)
           /\ rows[s] # NoRow /\ Success(r, s) => AfterResults(r)[s].ended # "none"
<1>1. rows[s] \in Row \cup {NoRow}
  BY DEF TypeOK
<1>2. CASE rows[s] # NoRow /\ Success(r, s)
  <2> DEFINE v == [started |-> rows[s].started, live |-> FALSE,
                   ended |-> IF rows[s].ended = "none" THEN "result" ELSE rows[s].ended]
  <2>1. AfterResults(r)[s] = v
    BY <1>2 DEF AfterResults, Success
  <2>2. rows[s] \in Row
    BY <1>1, <1>2
  <2>3. v \in Row /\ v.ended # "none" /\ v # NoRow
    BY <2>2 DEF Row, NoRow
  <2> HIDE DEF v
  <2> QED
    BY <1>2, <2>1, <2>3
<1>3. CASE ~(rows[s] # NoRow /\ Success(r, s))
  <2>1. AfterResults(r)[s] = rows[s]
    BY <1>3 DEF AfterResults, Success
  <2> QED
    BY <1>1, <1>3, <2>1
<1> QED
  BY <1>2, <1>3

\* What one ingest does to the rows.
LEMMA IngestRows ==
    ASSUME TypeOK, NEW r \in Request, Ingest(r)
    PROVE  /\ rows' \in [Session -> Row \cup {NoRow}]
           /\ \A s \in Session :
                /\ rows[s] # NoRow => rows'[s] # NoRow
                /\ rows'[s] # NoRow => rows[s] # NoRow \/ <<"start", s>> \in r.events
                                       \/ <<"end", s>> \in r.events
                /\ rows[s].ended # "none" => rows'[s].ended # "none"
                /\ rows'[s].ended # "none" =>
                     rows[s].ended # "none" \/ <<"end", s>> \in r.events \/ Success(r, s)
                /\ rows[s] # NoRow /\ Success(r, s) => rows'[s].ended # "none"
<1> DEFINE p(s) == <<"start", s>> \in r.events \ seen
           q(s) == <<"end", s>> \in r.events \ seen
           a(s) == AfterResults(r)[s]
           b(s) == AfterEvents(a(s), p(s), q(s))
           c(s) == AfterActive(b(s), s \in r.active)
<1>1. rows' = [s \in Session |-> c(s)]
  BY DEF Ingest
<1>2. ASSUME NEW s \in Session
      PROVE  /\ c(s) \in Row \cup {NoRow}
             /\ rows[s] # NoRow => c(s) # NoRow
             /\ c(s) # NoRow => rows[s] # NoRow \/ p(s) \/ q(s)
             /\ rows[s].ended # "none" => c(s).ended # "none"
             /\ c(s).ended # "none" => rows[s].ended # "none" \/ q(s) \/ Success(r, s)
             /\ rows[s] # NoRow /\ Success(r, s) => c(s).ended # "none"
  <2>1. /\ a(s) \in Row \cup {NoRow}
        /\ rows[s] = NoRow <=> a(s) = NoRow
        /\ rows[s].ended # "none" => a(s).ended # "none"
        /\ a(s).ended # "none" => rows[s].ended # "none" \/ Success(r, s)
        /\ rows[s] # NoRow /\ Success(r, s) => a(s).ended # "none"
    BY ResultsKeep
  <2>2. p(s) \in BOOLEAN /\ q(s) \in BOOLEAN /\ (s \in r.active) \in BOOLEAN
    OBVIOUS
  <2> HIDE DEF a, p, q
  <2>3. /\ b(s) \in Row \cup {NoRow}
        /\ a(s) # NoRow => b(s) # NoRow
        /\ b(s) # NoRow => a(s) # NoRow \/ p(s) \/ q(s)
        /\ b(s).ended = IF q(s) THEN "end" ELSE a(s).ended
    BY <2>1, <2>2, EventsKeep
  <2> HIDE DEF b
  <2>4. /\ c(s) \in Row \cup {NoRow}
        /\ b(s) = NoRow <=> c(s) = NoRow
        /\ c(s).ended = b(s).ended
    BY <2>2, <2>3, ActiveKeeps
  <2> HIDE DEF c
  <2> QED
    BY <2>1, <2>3, <2>4
<1>3. \A s \in Session : rows'[s] = c(s)
  BY <1>1
<1>4. rows' \in [Session -> Row \cup {NoRow}]
  BY <1>1, <1>2
<1>5. \A s \in Session : /\ p(s) => <<"start", s>> \in r.events
                         /\ q(s) => <<"end", s>> \in r.events
  OBVIOUS
<1> HIDE DEF p, q, c
<1> QED
  BY <1>2, <1>3, <1>4, <1>5

\* What one ingest does to the requests: only those pending are answered.
LEMMA IngestCmds ==
    ASSUME TypeOK, NEW r \in Request, Ingest(r)
    PROVE  /\ cmds' \in [Cmd -> Command \cup {NoCmd}]
           /\ \A c \in Cmd :
                /\ cmds'[c] = NoCmd <=> cmds[c] = NoCmd
                /\ cmds[c] # NoCmd => cmds'[c].session = cmds[c].session
                /\ cmds[c].status # "pending" => cmds'[c].status = cmds[c].status
                /\ cmds'[c].status \in {cmds[c].status, "succeeded", "failed"}
                /\ cmds'[c].status = "succeeded" =>
                     \/ cmds[c].status = "succeeded"
                     \/ \E x \in r.results : x.id = c /\ x.ok /\ cmds[c].status = "pending"
<1> DEFINE answer(c) == IF [id |-> c, ok |-> TRUE] \in r.results THEN "succeeded" ELSE "failed"
<1>1. cmds \in [Cmd -> Command \cup {NoCmd}] /\ r.results \subseteq Result
  BY DEF TypeOK, Request
<1>2. cmds' = [c \in Cmd |-> IF \E x \in Applied(r) : x.id = c
                             THEN [cmds[c] EXCEPT !.status = answer(c)] ELSE cmds[c]]
  BY DEF Ingest
<1>3. ASSUME NEW c \in Cmd
      PROVE  /\ cmds'[c] \in Command \cup {NoCmd}
             /\ cmds'[c] = NoCmd <=> cmds[c] = NoCmd
             /\ cmds[c] # NoCmd => cmds'[c].session = cmds[c].session
             /\ cmds[c].status # "pending" => cmds'[c].status = cmds[c].status
             /\ cmds'[c].status \in {cmds[c].status, "succeeded", "failed"}
             /\ cmds'[c].status = "succeeded" =>
                  \/ cmds[c].status = "succeeded"
                  \/ \E x \in r.results : x.id = c /\ x.ok /\ cmds[c].status = "pending"
  <2>1. cmds[c] \in Command \cup {NoCmd}
    BY <1>1
  <2>2. CASE \E x \in Applied(r) : x.id = c
    <3>1. cmds[c].status = "pending"
      BY <2>2 DEF Applied
    <3>2. cmds[c] \in Command
      BY <2>1, <3>1 DEF NoCmd
    <3>3. cmds'[c] = [cmds[c] EXCEPT !.status = answer(c)]
      BY <1>2, <2>2
    <3>4. answer(c) \in {"succeeded", "failed"}
      OBVIOUS
    <3>5. answer(c) = "succeeded" => \E x \in r.results : x.id = c /\ x.ok
      <4>1. [id |-> c, ok |-> TRUE].id = c /\ [id |-> c, ok |-> TRUE].ok
        OBVIOUS
      <4> QED
        BY <4>1
    <3> HIDE DEF answer
    <3>6. cmds'[c] \in Command /\ cmds'[c].status = answer(c)
          /\ cmds'[c].session = cmds[c].session
      BY <3>2, <3>3, <3>4 DEF Command
    <3>7. cmds[c] # NoCmd /\ cmds'[c] # NoCmd
      BY <3>1, <3>4, <3>6 DEF NoCmd
    <3> QED
      BY <3>1, <3>4, <3>5, <3>6, <3>7
  <2>3. CASE ~(\E x \in Applied(r) : x.id = c)
    <3>1. cmds'[c] = cmds[c]
      BY <1>2, <2>3
    <3> QED
      BY <2>1, <3>1
  <2> QED
    BY <2>2, <2>3
<1>4. cmds' \in [Cmd -> Command \cup {NoCmd}]
  <2>1. cmds' = [c \in Cmd |-> cmds'[c]]
    BY <1>2
  <2> QED
    BY <1>3, <2>1
<1> QED
  BY <1>3, <1>4

\* An ingest keeps the types.
LEMMA IngestType ==
    ASSUME TypeOK, NEW r \in Request, Ingest(r)
    PROVE  /\ rows' \in [Session -> Row \cup {NoRow}]
           /\ cmds' \in [Cmd -> Command \cup {NoCmd}]
           /\ seen' \subseteq Event
           /\ enabled' \in BOOLEAN /\ fresh' \in BOOLEAN /\ healthy' \in BOOLEAN
           /\ UNCHANGED <<old, revoked>>
<1>1. rows' \in [Session -> Row \cup {NoRow}] /\ cmds' \in [Cmd -> Command \cup {NoCmd}]
  BY IngestRows, IngestCmds
<1>2. r.events \subseteq Event /\ r.can \in BOOLEAN /\ r.healthy \in BOOLEAN
  BY DEF Request
<1> QED
  BY <1>1, <1>2 DEF Ingest, TypeOK

-----------------------------------------------------------------------------
(* Type correctness. *)

LEMMA InitType == Init => TypeOK
<1> SUFFICES ASSUME Init PROVE TypeOK
  OBVIOUS
<1>1. outbox \in Seq(Event)
  BY EmptySeq DEF Init
<1>2. wire \in Wire
  BY DEF Init, Wire
<1>3. rows \in [Session -> Row \cup {NoRow}] /\ cmds \in [Cmd -> Command \cup {NoCmd}]
  BY DEF Init
<1> QED
  BY <1>1, <1>2, <1>3, SessionsAssumption DEF Init, TypeOK

\* The outbox of the host and of the agent holds events.
LEMMA OutboxType ==
    ASSUME TypeOK, Next
    PROVE  outbox' \in Seq(Event)
<1> USE DEF server, agent, network, host
<1>0. outbox \in Seq(Event) /\ sent \in Nat /\ Len(outbox) \in Nat
  BY LenProperties DEF TypeOK
<1>a. ASSUME NEW s \in Session PROVE Append(outbox, <<"start", s>>) \in Seq(Event)
                                    /\ Append(outbox, <<"end", s>>) \in Seq(Event)
  BY <1>0, AppendProperties DEF Event
<1>b. SubSeq(outbox, sent + 1, Len(outbox)) \in Seq(Event)
  BY <1>0, PieceInRange
<1>1. ASSUME NEW s \in Session, Login(s) PROVE outbox' \in Seq(Event)
  BY <1>1, <1>0, <1>a DEF Login, MayPost
<1>2. ASSUME NEW s \in Session, Logout(s) PROVE outbox' \in Seq(Event)
  BY <1>2, <1>0, <1>a DEF Logout, MayPost
<1>3. ASSUME NEW s \in Session, Exit(s) PROVE outbox' \in Seq(Event)
  BY <1>3, <1>0 DEF Exit
<1>4. CASE Reboot
  BY <1>4, <1>0 DEF Reboot
<1>5. CASE Send
  BY <1>5, <1>0 DEF Send
<1>6. CASE SendFails
  BY <1>6, <1>0 DEF SendFails
<1>7. CASE Receive
  BY <1>7, <1>0 DEF Receive
<1>8. CASE Ack
  BY <1>8, <1>0, <1>b DEF Ack
<1>9. CASE Crash
  BY <1>9, <1>0 DEF Crash
<1>10. CASE Restart
  BY <1>10, <1>0 DEF Restart
<1>11. ASSUME NEW c \in Cmd, Refuse(c) PROVE outbox' \in Seq(Event)
  BY <1>11, <1>0 DEF Refuse
<1>12. ASSUME NEW c \in Cmd, Kill(c) PROVE outbox' \in Seq(Event)
  BY <1>12, <1>0, <1>a DEF Kill, Die
<1>13. ASSUME NEW c \in Cmd, KillFails(c) PROVE outbox' \in Seq(Event)
  BY <1>13, <1>0, <1>a DEF KillFails, Die
<1>14. CASE IngestCurrent
  BY <1>14, <1>0 DEF IngestCurrent, Ingest
<1>15. CASE RejectCurrent
  BY <1>15, <1>0 DEF RejectCurrent
<1>16. CASE IngestLate
  BY <1>16, <1>0 DEF IngestLate, Ingest
<1>17. CASE RejectLate
  BY <1>17, <1>0 DEF RejectLate
<1>18. ASSUME NEW s \in Session, Terminate(s) PROVE outbox' \in Seq(Event)
  BY <1>18, <1>0 DEF Terminate
<1>19. ASSUME NEW c \in Cmd, Expire(c) PROVE outbox' \in Seq(Event)
  BY <1>19, <1>0 DEF Expire
<1>20. CASE Lapse
  BY <1>20, <1>0 DEF Lapse
<1>21. CASE Revoke
  BY <1>21, <1>0 DEF Revoke
<1>22. CASE Cleanup
  BY <1>22, <1>0 DEF Cleanup
<1>23. ASSUME NEW x \in Times, Grow(x) PROVE outbox' \in Seq(Event)
  BY <1>23, <1>0 DEF Grow
<1> QED
  BY <1>1, <1>2, <1>3, <1>4, <1>5, <1>6, <1>7, <1>8, <1>9, <1>10, <1>11, <1>12,
     <1>13, <1>14, <1>15, <1>16, <1>17, <1>18, <1>19, <1>20, <1>21, <1>22, <1>23
  DEF Next, HostStep, AgentStep, ServerStep

\* The batch an agent sends holds events of its outbox.
LEMMA SentType ==
    ASSUME TypeOK, Send
    PROVE  /\ sent' \in Nat
           /\ wire'.state = "sent" /\ wire'.request \in Request /\ wire' \in Wire
           /\ wire'.request.events \subseteq Range(outbox)
           /\ wire'.request.results = results
<1> DEFINE n == IF Len(outbox) < BatchMax THEN Len(outbox) ELSE BatchMax
           q == SubSeq(outbox, 1, n)
<1>1. /\ outbox \in Seq(Event) /\ Len(outbox) \in Nat /\ n \in Nat /\ n <= Len(outbox)
      /\ results \subseteq Result /\ canTerminate \in BOOLEAN
  BY LenProperties, SessionsAssumption DEF TypeOK
<1>2. Range(q) \subseteq Range(outbox) /\ Range(outbox) \subseteq Event
  BY <1>1, PieceInRange, RangeTyped, 1 \in Nat \ {0}
<1>3. PICK ok \in BOOLEAN, collected \in BOOLEAN :
        /\ sent' = n
        /\ wire' = [state |-> "sent", request |->
                     [events |-> Range(q),
                      active |-> IF ok THEN {s \in Session : os[s] \in Alive} ELSE {},
                      healthy |-> ok /\ collected,
                      can |-> canTerminate, results |-> results]]
  BY DEF Send
<1> HIDE DEF n, q
<1> DEFINE a == IF ok THEN {s \in Session : os[s] \in Alive} ELSE {}
           h == ok /\ collected
<1>4. a \subseteq Session /\ h \in BOOLEAN /\ Range(q) \subseteq Event
  BY <1>2
<1>5. wire' = [state |-> "sent", request |->
                [events |-> Range(q), active |-> a, healthy |-> h,
                 can |-> canTerminate, results |-> results]]
  BY <1>3
<1> HIDE DEF a, h
<1>6. wire'.state = "sent" /\ wire'.request \in Request
      /\ wire'.request.events = Range(q) /\ wire'.request.results = results
      /\ wire' = [state |-> "sent", request |-> wire'.request]
  BY <1>1, <1>4, <1>5 DEF Request
<1>7. wire' \in Wire
  BY <1>6 DEF Wire
<1> QED
  BY <1>1, <1>2, <1>3, <1>6, <1>7

\* What travels keeps its types.
LEMMA WireType ==
    ASSUME TypeOK, Next
    PROVE  wire' \in Wire /\ late' \subseteq Request
<1> USE DEF server, agent, network, host
<1>0. /\ wire \in Wire /\ late \subseteq Request
      /\ wire.state = "sent" => wire.request \in Request
      /\ NoWire \in Wire /\ [state |-> "error"] \in Wire
  BY WireCases DEF TypeOK, Wire
<1>1. ASSUME NEW s \in Session, Login(s) PROVE wire' \in Wire /\ late' \subseteq Request
  BY <1>1, <1>0 DEF Login
<1>2. ASSUME NEW s \in Session, Logout(s) PROVE wire' \in Wire /\ late' \subseteq Request
  BY <1>2, <1>0 DEF Logout
<1>3. ASSUME NEW s \in Session, Exit(s) PROVE wire' \in Wire /\ late' \subseteq Request
  BY <1>3, <1>0 DEF Exit
<1>4. CASE Reboot
  BY <1>4, <1>0 DEF Reboot, Abandon
<1>5. CASE Send
  BY <1>5, <1>0, SentType DEF Send
<1>6. CASE SendFails
  BY <1>6, <1>0 DEF SendFails, Abandon
<1>7. CASE Receive
  BY <1>7, <1>0 DEF Receive
<1>8. CASE Ack
  BY <1>8, <1>0 DEF Ack
<1>9. CASE Crash
  BY <1>9, <1>0 DEF Crash, Abandon
<1>10. CASE Restart
  BY <1>10, <1>0 DEF Restart
<1>11. ASSUME NEW c \in Cmd, Refuse(c) PROVE wire' \in Wire /\ late' \subseteq Request
  BY <1>11, <1>0 DEF Refuse
<1>12. ASSUME NEW c \in Cmd, Kill(c) PROVE wire' \in Wire /\ late' \subseteq Request
  BY <1>12, <1>0 DEF Kill
<1>13. ASSUME NEW c \in Cmd, KillFails(c) PROVE wire' \in Wire /\ late' \subseteq Request
  BY <1>13, <1>0 DEF KillFails
<1>14. CASE IngestCurrent
  <2>1. Commands(wire.request) \subseteq Cmd
    BY DEF Commands
  <2>2. wire' = [state |-> "ok", commands |-> Commands(wire.request)] /\ UNCHANGED late
    BY <1>14 DEF IngestCurrent
  <2> QED
    BY <1>0, <2>1, <2>2 DEF Wire
<1>15. CASE RejectCurrent
  BY <1>15, <1>0 DEF RejectCurrent
<1>16. CASE IngestLate
  BY <1>16, <1>0 DEF IngestLate
<1>17. CASE RejectLate
  BY <1>17, <1>0 DEF RejectLate
<1>18. ASSUME NEW s \in Session, Terminate(s) PROVE wire' \in Wire /\ late' \subseteq Request
  BY <1>18, <1>0 DEF Terminate
<1>19. ASSUME NEW c \in Cmd, Expire(c) PROVE wire' \in Wire /\ late' \subseteq Request
  BY <1>19, <1>0 DEF Expire
<1>20. CASE Lapse
  BY <1>20, <1>0 DEF Lapse
<1>21. CASE Revoke
  BY <1>21, <1>0 DEF Revoke
<1>22. CASE Cleanup
  BY <1>22, <1>0 DEF Cleanup
<1>23. ASSUME NEW x \in Times, Grow(x) PROVE wire' \in Wire /\ late' \subseteq Request
  BY <1>23, <1>0 DEF Grow
<1> QED
  BY <1>1, <1>2, <1>3, <1>4, <1>5, <1>6, <1>7, <1>8, <1>9, <1>10, <1>11, <1>12,
     <1>13, <1>14, <1>15, <1>16, <1>17, <1>18, <1>19, <1>20, <1>21, <1>22, <1>23
  DEF Next, HostStep, AgentStep, ServerStep

\* The host's part keeps its types.
LEMMA HostType ==
    ASSUME TypeOK, Next
    PROVE  /\ os' \in [Session -> {"none", "running", "closing", "gone"}]
           /\ bootOf' \in [Session -> Nat] /\ boot' \in Nat
<1> DEFINE Step ==
        /\ os' \in [Session -> {"none", "running", "closing", "gone"}]
        /\ bootOf' \in [Session -> Nat] /\ boot' \in Nat
<1> USE DEF server, agent, network, host
<1>0. /\ os \in [Session -> {"none", "running", "closing", "gone"}]
      /\ bootOf \in [Session -> Nat] /\ boot \in Nat
  BY DEF TypeOK
<1>1. ASSUME NEW s \in Session, Login(s) PROVE Step
  BY <1>1, <1>0 DEF Login
<1>2. ASSUME NEW s \in Session, Logout(s) PROVE Step
  BY <1>2, <1>0 DEF Logout
<1>3. ASSUME NEW s \in Session, Exit(s) PROVE Step
  BY <1>3, <1>0 DEF Exit
<1>4. CASE Reboot
  BY <1>4, <1>0 DEF Reboot
<1>5. CASE Send
  BY <1>5, <1>0 DEF Send
<1>6. CASE SendFails
  BY <1>6, <1>0 DEF SendFails
<1>7. CASE Receive
  BY <1>7, <1>0 DEF Receive
<1>8. CASE Ack
  BY <1>8, <1>0 DEF Ack
<1>9. CASE Crash
  BY <1>9, <1>0 DEF Crash
<1>10. CASE Restart
  BY <1>10, <1>0 DEF Restart
<1>11. ASSUME NEW c \in Cmd, Refuse(c) PROVE Step
  BY <1>11, <1>0 DEF Refuse
<1>12. ASSUME NEW c \in Cmd, Kill(c) PROVE Step
  BY <1>12, <1>0 DEF Kill, Die
<1>13. ASSUME NEW c \in Cmd, KillFails(c) PROVE Step
  BY <1>13, <1>0 DEF KillFails, Die
<1>14. CASE IngestCurrent
  BY <1>14, <1>0 DEF IngestCurrent
<1>15. CASE RejectCurrent
  BY <1>15, <1>0 DEF RejectCurrent
<1>16. CASE IngestLate
  BY <1>16, <1>0 DEF IngestLate
<1>17. CASE RejectLate
  BY <1>17, <1>0 DEF RejectLate
<1>18. ASSUME NEW s \in Session, Terminate(s) PROVE Step
  BY <1>18, <1>0 DEF Terminate
<1>19. ASSUME NEW c \in Cmd, Expire(c) PROVE Step
  BY <1>19, <1>0 DEF Expire
<1>20. CASE Lapse
  BY <1>20, <1>0 DEF Lapse
<1>21. CASE Revoke
  BY <1>21, <1>0 DEF Revoke
<1>22. CASE Cleanup
  BY <1>22, <1>0 DEF Cleanup
<1>23. ASSUME NEW x \in Times, Grow(x) PROVE Step
  BY <1>23, <1>0 DEF Grow
<1> QED
  BY <1>1, <1>2, <1>3, <1>4, <1>5, <1>6, <1>7, <1>8, <1>9, <1>10, <1>11, <1>12,
     <1>13, <1>14, <1>15, <1>16, <1>17, <1>18, <1>19, <1>20, <1>21, <1>22, <1>23
  DEF Next, HostStep, AgentStep, ServerStep

\* So does the agent's, the queue and the network apart.
LEMMA AgentType ==
    ASSUME TypeOK, Next
    PROVE  /\ pc' \in {"idle", "wait", "execute", "down"} /\ canTerminate' \in BOOLEAN
           /\ sent' \in Nat /\ results' \subseteq Result /\ todo' \subseteq Cmd
<1> DEFINE Step ==
        /\ pc' \in {"idle", "wait", "execute", "down"} /\ canTerminate' \in BOOLEAN
        /\ sent' \in Nat /\ results' \subseteq Result /\ todo' \subseteq Cmd
<1> USE DEF server, agent, network, host
<1>0. /\ pc \in {"idle", "wait", "execute", "down"} /\ canTerminate \in BOOLEAN
      /\ sent \in Nat /\ results \subseteq Result /\ todo \subseteq Cmd
      /\ wire.state = "ok" => wire.commands \subseteq Cmd
      /\ Can \subseteq BOOLEAN
  BY WireCases, SessionsAssumption DEF TypeOK
<1>a. ASSUME NEW c \in Cmd, NEW ok \in BOOLEAN PROVE [id |-> c, ok |-> ok] \in Result
  BY DEF Result
<1>1. ASSUME NEW s \in Session, Login(s) PROVE Step
  BY <1>1, <1>0 DEF Login
<1>2. ASSUME NEW s \in Session, Logout(s) PROVE Step
  BY <1>2, <1>0 DEF Logout
<1>3. ASSUME NEW s \in Session, Exit(s) PROVE Step
  BY <1>3, <1>0 DEF Exit
<1>4. CASE Reboot
  BY <1>4, <1>0 DEF Reboot
<1>5. CASE Send
  BY <1>5, <1>0, SentType DEF Send
<1>6. CASE SendFails
  BY <1>6, <1>0 DEF SendFails
<1>7. CASE Receive
  BY <1>7, <1>0 DEF Receive
<1>8. CASE Ack
  BY <1>8, <1>0 DEF Ack
<1>9. CASE Crash
  BY <1>9, <1>0 DEF Crash
<1>10. CASE Restart
  BY <1>10, <1>0 DEF Restart
<1>11. ASSUME NEW c \in Cmd, Refuse(c) PROVE Step
  BY <1>11, <1>0, <1>a DEF Refuse, Answer
<1>12. ASSUME NEW c \in Cmd, Kill(c) PROVE Step
  BY <1>12, <1>0, <1>a DEF Kill, Answer
<1>13. ASSUME NEW c \in Cmd, KillFails(c) PROVE Step
  BY <1>13, <1>0, <1>a DEF KillFails, Answer
<1>14. CASE IngestCurrent
  BY <1>14, <1>0 DEF IngestCurrent
<1>15. CASE RejectCurrent
  BY <1>15, <1>0 DEF RejectCurrent
<1>16. CASE IngestLate
  BY <1>16, <1>0 DEF IngestLate
<1>17. CASE RejectLate
  BY <1>17, <1>0 DEF RejectLate
<1>18. ASSUME NEW s \in Session, Terminate(s) PROVE Step
  BY <1>18, <1>0 DEF Terminate
<1>19. ASSUME NEW c \in Cmd, Expire(c) PROVE Step
  BY <1>19, <1>0 DEF Expire
<1>20. CASE Lapse
  BY <1>20, <1>0 DEF Lapse
<1>21. CASE Revoke
  BY <1>21, <1>0 DEF Revoke
<1>22. CASE Cleanup
  BY <1>22, <1>0 DEF Cleanup
<1>23. ASSUME NEW x \in Times, Grow(x) PROVE Step
  BY <1>23, <1>0 DEF Grow
<1> QED
  BY <1>1, <1>2, <1>3, <1>4, <1>5, <1>6, <1>7, <1>8, <1>9, <1>10, <1>11, <1>12,
     <1>13, <1>14, <1>15, <1>16, <1>17, <1>18, <1>19, <1>20, <1>21, <1>22, <1>23
  DEF Next, HostStep, AgentStep, ServerStep

\* The cleanup marks only requests that were made, and drops whole rows.
LEMMA CleanupType ==
    ASSUME TypeOK, CommandsAreKnown, Cleanup
    PROVE  /\ rows' \in [Session -> Row \cup {NoRow}] /\ seen' \subseteq Event
           /\ cmds' \in [Cmd -> Command \cup {NoCmd}]
           /\ \A c \in Cmd : /\ cmds'[c] = NoCmd <=> cmds[c] = NoCmd
                             /\ cmds'[c].status \in {cmds[c].status, "deleted"}
                             /\ cmds[c] # NoCmd => cmds'[c].session = cmds[c].session
           /\ \A s \in Session : rows'[s] \in {rows[s], NoRow}
<1>1. /\ rows \in [Session -> Row \cup {NoRow}] /\ seen \subseteq Event
      /\ cmds \in [Cmd -> Command \cup {NoCmd}]
  BY DEF TypeOK
<1>2. rows' = [s \in Session |-> IF RowExpired(s) THEN NoRow ELSE rows[s]]
      /\ seen' = seen \ old
      /\ cmds' = [c \in Cmd |-> IF <<"cmd", c>> \in old
                                THEN [cmds[c] EXCEPT !.status = "deleted"] ELSE cmds[c]]
  BY DEF Cleanup
<1>3. ASSUME NEW c \in Cmd
      PROVE  /\ cmds'[c] \in Command \cup {NoCmd}
             /\ cmds'[c] = NoCmd <=> cmds[c] = NoCmd
             /\ cmds'[c].status \in {cmds[c].status, "deleted"}
             /\ cmds[c] # NoCmd => cmds'[c].session = cmds[c].session
  <2>1. CASE <<"cmd", c>> \in old
    <3>1. cmds[c] \in Command
      BY <1>1, <2>1 DEF CommandsAreKnown
    <3>2. cmds'[c] = [cmds[c] EXCEPT !.status = "deleted"]
      BY <1>2, <2>1
    <3>3. cmds'[c] \in Command /\ cmds'[c].status = "deleted"
          /\ cmds'[c].session = cmds[c].session
      BY <3>1, <3>2 DEF Command
    <3>4. cmds'[c] # NoCmd /\ cmds[c] # NoCmd
      BY <3>1, <3>3 DEF Command, NoCmd
    <3> QED
      BY <3>3, <3>4
  <2>2. CASE <<"cmd", c>> \notin old
    BY <1>1, <1>2, <2>2
  <2> QED
    BY <2>1, <2>2
<1>4. cmds' \in [Cmd -> Command \cup {NoCmd}]
  <2>1. cmds' = [c \in Cmd |-> cmds'[c]]
    BY <1>2
  <2> QED
    BY <1>3, <2>1
<1> QED
  BY <1>1, <1>2, <1>3, <1>4

\* The tables keep their types.
LEMMA TablesType ==
    ASSUME TypeOK, CommandsAreKnown, Next
    PROVE  /\ rows' \in [Session -> Row \cup {NoRow}] /\ seen' \subseteq Event
           /\ cmds' \in [Cmd -> Command \cup {NoCmd}]
<1> DEFINE Step ==
        /\ rows' \in [Session -> Row \cup {NoRow}] /\ seen' \subseteq Event
        /\ cmds' \in [Cmd -> Command \cup {NoCmd}]
<1> USE DEF server, agent, network, host
<1>0. /\ rows \in [Session -> Row \cup {NoRow}] /\ seen \subseteq Event
      /\ cmds \in [Cmd -> Command \cup {NoCmd}] /\ late \subseteq Request
      /\ wire.state = "sent" => wire.request \in Request
  BY WireCases DEF TypeOK
<1>1. ASSUME NEW s \in Session, Login(s) PROVE Step
  BY <1>1, <1>0 DEF Login
<1>2. ASSUME NEW s \in Session, Logout(s) PROVE Step
  BY <1>2, <1>0 DEF Logout
<1>3. ASSUME NEW s \in Session, Exit(s) PROVE Step
  BY <1>3, <1>0 DEF Exit
<1>4. CASE Reboot
  BY <1>4, <1>0 DEF Reboot
<1>5. CASE Send
  BY <1>5, <1>0 DEF Send
<1>6. CASE SendFails
  BY <1>6, <1>0 DEF SendFails
<1>7. CASE Receive
  BY <1>7, <1>0 DEF Receive
<1>8. CASE Ack
  BY <1>8, <1>0 DEF Ack
<1>9. CASE Crash
  BY <1>9, <1>0 DEF Crash
<1>10. CASE Restart
  BY <1>10, <1>0 DEF Restart
<1>11. ASSUME NEW c \in Cmd, Refuse(c) PROVE Step
  BY <1>11, <1>0 DEF Refuse
<1>12. ASSUME NEW c \in Cmd, Kill(c) PROVE Step
  BY <1>12, <1>0 DEF Kill
<1>13. ASSUME NEW c \in Cmd, KillFails(c) PROVE Step
  BY <1>13, <1>0 DEF KillFails
<1>14. CASE IngestCurrent
  BY <1>14, <1>0, IngestType DEF IngestCurrent
<1>15. CASE RejectCurrent
  BY <1>15, <1>0 DEF RejectCurrent
<1>16. CASE IngestLate
  BY <1>16, <1>0, IngestType DEF IngestLate
<1>17. CASE RejectLate
  BY <1>17, <1>0 DEF RejectLate
<1>18. ASSUME NEW s \in Session, Terminate(s) PROVE Step
  <2>1. PICK c \in Cmd : cmds' = [cmds EXCEPT ![c] =
                       [session |-> s, expired |-> FALSE, status |-> "pending"]]
    BY <1>18 DEF Terminate
  <2>2. [session |-> s, expired |-> FALSE, status |-> "pending"] \in Command
    BY DEF Command
  <2> QED
    BY <1>18, <1>0, <2>1, <2>2 DEF Terminate
<1>19. ASSUME NEW c \in Cmd, Expire(c) PROVE Step
  <2>1. cmds[c] \in Command
    BY <1>19, <1>0 DEF Expire, Pending, NoCmd
  <2>2. [cmds[c] EXCEPT !.expired = TRUE] \in Command
    BY <2>1 DEF Command
  <2>3. cmds' = [cmds EXCEPT ![c] = [cmds[c] EXCEPT !.expired = TRUE]]
    BY <1>19, <1>0 DEF Expire
  <2> QED
    BY <1>19, <1>0, <2>2, <2>3 DEF Expire
<1>20. CASE Lapse
  BY <1>20, <1>0 DEF Lapse
<1>21. CASE Revoke
  BY <1>21, <1>0 DEF Revoke
<1>22. CASE Cleanup
  BY <1>22, CleanupType
<1>23. ASSUME NEW x \in Times, Grow(x) PROVE Step
  BY <1>23, <1>0 DEF Grow
<1> QED
  BY <1>1, <1>2, <1>3, <1>4, <1>5, <1>6, <1>7, <1>8, <1>9, <1>10, <1>11, <1>12,
     <1>13, <1>14, <1>15, <1>16, <1>17, <1>18, <1>19, <1>20, <1>21, <1>22, <1>23
  DEF Next, HostStep, AgentStep, ServerStep

\* So does what the server keeps besides.
LEMMA ServerType ==
    ASSUME TypeOK, Next
    PROVE  /\ old' \subseteq Event \cup ({"result"} \X Session) \cup ({"cmd"} \X Cmd)
           /\ enabled' \in BOOLEAN /\ fresh' \in BOOLEAN
           /\ healthy' \in BOOLEAN /\ revoked' \in BOOLEAN
<1> DEFINE Step ==
        /\ old' \subseteq Event \cup ({"result"} \X Session) \cup ({"cmd"} \X Cmd)
        /\ enabled' \in BOOLEAN /\ fresh' \in BOOLEAN
        /\ healthy' \in BOOLEAN /\ revoked' \in BOOLEAN
<1> USE DEF server, agent, network, host
<1>0. /\ old \subseteq Event \cup ({"result"} \X Session) \cup ({"cmd"} \X Cmd)
      /\ enabled \in BOOLEAN /\ fresh \in BOOLEAN /\ healthy \in BOOLEAN
      /\ revoked \in BOOLEAN /\ late \subseteq Request
      /\ wire.state = "sent" => wire.request \in Request
  BY WireCases DEF TypeOK
<1>1. ASSUME NEW s \in Session, Login(s) PROVE Step
  BY <1>1, <1>0 DEF Login
<1>2. ASSUME NEW s \in Session, Logout(s) PROVE Step
  BY <1>2, <1>0 DEF Logout
<1>3. ASSUME NEW s \in Session, Exit(s) PROVE Step
  BY <1>3, <1>0 DEF Exit
<1>4. CASE Reboot
  BY <1>4, <1>0 DEF Reboot
<1>5. CASE Send
  BY <1>5, <1>0 DEF Send
<1>6. CASE SendFails
  BY <1>6, <1>0 DEF SendFails
<1>7. CASE Receive
  BY <1>7, <1>0 DEF Receive
<1>8. CASE Ack
  BY <1>8, <1>0 DEF Ack
<1>9. CASE Crash
  BY <1>9, <1>0 DEF Crash
<1>10. CASE Restart
  BY <1>10, <1>0 DEF Restart
<1>11. ASSUME NEW c \in Cmd, Refuse(c) PROVE Step
  BY <1>11, <1>0 DEF Refuse
<1>12. ASSUME NEW c \in Cmd, Kill(c) PROVE Step
  BY <1>12, <1>0 DEF Kill
<1>13. ASSUME NEW c \in Cmd, KillFails(c) PROVE Step
  BY <1>13, <1>0 DEF KillFails
<1>14. CASE IngestCurrent
  BY <1>14, <1>0, IngestType DEF IngestCurrent
<1>15. CASE RejectCurrent
  BY <1>15, <1>0 DEF RejectCurrent
<1>16. CASE IngestLate
  BY <1>16, <1>0, IngestType DEF IngestLate
<1>17. CASE RejectLate
  BY <1>17, <1>0 DEF RejectLate
<1>18. ASSUME NEW s \in Session, Terminate(s) PROVE Step
  BY <1>18, <1>0 DEF Terminate
<1>19. ASSUME NEW c \in Cmd, Expire(c) PROVE Step
  BY <1>19, <1>0 DEF Expire
<1>20. CASE Lapse
  BY <1>20, <1>0 DEF Lapse
<1>21. CASE Revoke
  BY <1>21, <1>0 DEF Revoke
<1>22. CASE Cleanup
  BY <1>22, <1>0 DEF Cleanup
<1>23. ASSUME NEW x \in Times, Grow(x) PROVE Step
  <2>1. x \in Event \cup ({"result"} \X Session) \cup ({"cmd"} \X Cmd)
    BY DEF Times, Event
  <2> QED
    BY <1>23, <1>0, <2>1 DEF Grow
<1> QED
  BY <1>1, <1>2, <1>3, <1>4, <1>5, <1>6, <1>7, <1>8, <1>9, <1>10, <1>11, <1>12,
     <1>13, <1>14, <1>15, <1>16, <1>17, <1>18, <1>19, <1>20, <1>21, <1>22, <1>23
  DEF Next, HostStep, AgentStep, ServerStep

LEMMA NextType ==
    ASSUME TypeOK, CommandsAreKnown, [Next]_vars
    PROVE  TypeOK'
<1>1. CASE Next
  <2>1. outbox' \in Seq(Event) /\ wire' \in Wire /\ late' \subseteq Request
    BY <1>1, OutboxType, WireType
  <2>2. /\ os' \in [Session -> {"none", "running", "closing", "gone"}]
        /\ bootOf' \in [Session -> Nat] /\ boot' \in Nat
    BY <1>1, HostType
  <2>3. /\ pc' \in {"idle", "wait", "execute", "down"} /\ canTerminate' \in BOOLEAN
        /\ sent' \in Nat /\ results' \subseteq Result /\ todo' \subseteq Cmd
    BY <1>1, AgentType
  <2>4. /\ rows' \in [Session -> Row \cup {NoRow}] /\ seen' \subseteq Event
        /\ cmds' \in [Cmd -> Command \cup {NoCmd}]
    BY <1>1, TablesType
  <2>5. /\ old' \subseteq Event \cup ({"result"} \X Session) \cup ({"cmd"} \X Cmd)
        /\ enabled' \in BOOLEAN /\ fresh' \in BOOLEAN
        /\ healthy' \in BOOLEAN /\ revoked' \in BOOLEAN
    BY <1>1, ServerType
  <2> QED
    BY <2>1, <2>2, <2>3, <2>4, <2>5 DEF TypeOK
<1>2. CASE UNCHANGED vars
  BY <1>2 DEF TypeOK, vars, host, agent, network, server
<1> QED
  BY <1>1, <1>2

-----------------------------------------------------------------------------
(* What a step does to each part of the history. *)

\* Processes that have ended do not come back.
LEMMA HostForward ==
    ASSUME TypeOK, Next
    PROVE  \A s \in Session : /\ os[s] # "none" => os'[s] # "none"
                              /\ os[s] \in Ended => os'[s] \in Ended
                              /\ os[s] = "gone" => os'[s] = "gone"
<1> DEFINE Step ==
        \A s \in Session : /\ os[s] # "none" => os'[s] # "none"
                           /\ os[s] \in Ended => os'[s] \in Ended
                           /\ os[s] = "gone" => os'[s] = "gone"
<1> USE DEF server, agent, network, host
<1>0. os \in [Session -> {"none", "running", "closing", "gone"}]
  BY DEF TypeOK
<1>1. ASSUME NEW s \in Session, Login(s) PROVE Step
  BY <1>1, <1>0 DEF Login, Ended
<1>2. ASSUME NEW s \in Session, Logout(s) PROVE Step
  BY <1>2, <1>0 DEF Logout, Ended
<1>3. ASSUME NEW s \in Session, Exit(s) PROVE Step
  BY <1>3, <1>0 DEF Exit, Ended
<1>4. CASE Reboot
  BY <1>4, <1>0 DEF Reboot, Ended
<1>5. CASE Send
  BY <1>5, <1>0 DEF Send, Ended
<1>6. CASE SendFails
  BY <1>6, <1>0 DEF SendFails, Ended
<1>7. CASE Receive
  BY <1>7, <1>0 DEF Receive, Ended
<1>8. CASE Ack
  BY <1>8, <1>0 DEF Ack, Ended
<1>9. CASE Crash
  BY <1>9, <1>0 DEF Crash, Ended
<1>10. CASE Restart
  BY <1>10, <1>0 DEF Restart, Ended
<1>11. ASSUME NEW c \in Cmd, Refuse(c) PROVE Step
  BY <1>11, <1>0 DEF Refuse, Ended
<1>12. ASSUME NEW c \in Cmd, Kill(c) PROVE Step
  BY <1>12, <1>0 DEF Kill, Die, Ended
<1>13. ASSUME NEW c \in Cmd, KillFails(c) PROVE Step
  BY <1>13, <1>0 DEF KillFails, Die, Ended
<1>14. CASE IngestCurrent
  BY <1>14, <1>0 DEF IngestCurrent, Ended
<1>15. CASE RejectCurrent
  BY <1>15, <1>0 DEF RejectCurrent, Ended
<1>16. CASE IngestLate
  BY <1>16, <1>0 DEF IngestLate, Ended
<1>17. CASE RejectLate
  BY <1>17, <1>0 DEF RejectLate, Ended
<1>18. ASSUME NEW s \in Session, Terminate(s) PROVE Step
  BY <1>18, <1>0 DEF Terminate, Ended
<1>19. ASSUME NEW c \in Cmd, Expire(c) PROVE Step
  BY <1>19, <1>0 DEF Expire, Ended
<1>20. CASE Lapse
  BY <1>20, <1>0 DEF Lapse, Ended
<1>21. CASE Revoke
  BY <1>21, <1>0 DEF Revoke, Ended
<1>22. CASE Cleanup
  BY <1>22, <1>0 DEF Cleanup, Ended
<1>23. ASSUME NEW x \in Times, Grow(x) PROVE Step
  BY <1>23, <1>0 DEF Grow, Ended
<1> QED
  BY <1>1, <1>2, <1>3, <1>4, <1>5, <1>6, <1>7, <1>8, <1>9, <1>10, <1>11, <1>12,
     <1>13, <1>14, <1>15, <1>16, <1>17, <1>18, <1>19, <1>20, <1>21, <1>22, <1>23
  DEF Next, HostStep, AgentStep, ServerStep

\* An event enters the outbox only when it has happened.
LEMMA OutboxReal ==
    ASSUME TypeOK, Next
    PROVE  \A e \in Range(outbox') :
             \/ e \in Range(outbox)
             \/ \E s \in Session : \/ e = <<"start", s>> /\ os'[s] # "none"
                                   \/ e = <<"end", s>> /\ os'[s] \in Ended
<1> DEFINE Step ==
        \A e \in Range(outbox') :
          \/ e \in Range(outbox)
          \/ \E s \in Session : \/ e = <<"start", s>> /\ os'[s] # "none"
                                \/ e = <<"end", s>> /\ os'[s] \in Ended
<1> USE DEF server, agent, network, host
<1>0. /\ os \in [Session -> {"none", "running", "closing", "gone"}]
      /\ outbox \in Seq(Event) /\ sent \in Nat /\ Len(outbox) \in Nat
  BY LenProperties DEF TypeOK
<1>a. ASSUME NEW s \in Session
      PROVE  /\ Range(Append(outbox, <<"start", s>>)) = Range(outbox) \cup {<<"start", s>>}
             /\ Range(Append(outbox, <<"end", s>>)) = Range(outbox) \cup {<<"end", s>>}
  <2>1. <<"start", s>> \in Event /\ <<"end", s>> \in Event
    BY DEF Event
  <2> QED
    BY <1>0, <2>1, AppendRange
<1>b. Range(SubSeq(outbox, sent + 1, Len(outbox))) \subseteq Range(outbox)
  <2>1. sent + 1 \in Nat \ {0} /\ Len(outbox) <= Len(outbox)
    BY <1>0
  <2> QED
    BY <1>0, <2>1, PieceInRange
<1>c. ASSUME outbox' = outbox PROVE Step
  BY <1>c DEF Range
<1>1. ASSUME NEW s \in Session, Login(s) PROVE Step
  <2>1. CASE outbox' = Append(outbox, <<"start", s>>)
    BY <1>1, <1>0, <1>a, <2>1 DEF Login
  <2> QED
    BY <1>1, <1>c, <2>1 DEF Login, MayPost
<1>2. ASSUME NEW s \in Session, Logout(s) PROVE Step
  <2>1. CASE outbox' = Append(outbox, <<"end", s>>)
    BY <1>2, <1>0, <1>a, <2>1 DEF Logout, Ended
  <2> QED
    BY <1>2, <1>c, <2>1 DEF Logout, MayPost
<1>3. ASSUME NEW s \in Session, Exit(s) PROVE Step
  BY <1>3, <1>c DEF Exit
<1>4. CASE Reboot
  BY <1>4, <1>c DEF Reboot
<1>5. CASE Send
  BY <1>5, <1>c DEF Send
<1>6. CASE SendFails
  BY <1>6, <1>c DEF SendFails
<1>7. CASE Receive
  BY <1>7, <1>c DEF Receive
<1>8. CASE Ack
  <2>1. Range(outbox') \subseteq Range(outbox)
    BY <1>8, <1>b DEF Ack
  <2> QED
    BY <2>1
<1>9. CASE Crash
  BY <1>9, <1>c DEF Crash
<1>10. CASE Restart
  BY <1>10, <1>c DEF Restart
<1>11. ASSUME NEW c \in Cmd, Refuse(c) PROVE Step
  BY <1>11, <1>c DEF Refuse
<1>12. ASSUME NEW c \in Cmd, Kill(c) PROVE Step
  <2>1. ASSUME NEW s \in Session, os'[s] = "gone", outbox' = Append(outbox, <<"end", s>>) PROVE Step
    BY <1>a, <2>1 DEF Ended
  <2> QED
    BY <1>12, <1>0, <1>c, <2>1 DEF Kill, Die
<1>13. ASSUME NEW c \in Cmd, KillFails(c) PROVE Step
  <2>1. ASSUME NEW s \in Session, os'[s] = "gone", outbox' = Append(outbox, <<"end", s>>) PROVE Step
    BY <1>a, <2>1 DEF Ended
  <2> QED
    BY <1>13, <1>0, <1>c, <2>1 DEF KillFails, Die
<1>14. CASE IngestCurrent
  BY <1>14, <1>c DEF IngestCurrent, Ingest
<1>15. CASE RejectCurrent
  BY <1>15, <1>c DEF RejectCurrent
<1>16. CASE IngestLate
  BY <1>16, <1>c DEF IngestLate, Ingest
<1>17. CASE RejectLate
  BY <1>17, <1>c DEF RejectLate
<1>18. ASSUME NEW s \in Session, Terminate(s) PROVE Step
  BY <1>18, <1>c DEF Terminate
<1>19. ASSUME NEW c \in Cmd, Expire(c) PROVE Step
  BY <1>19, <1>c DEF Expire
<1>20. CASE Lapse
  BY <1>20, <1>c DEF Lapse
<1>21. CASE Revoke
  BY <1>21, <1>c DEF Revoke
<1>22. CASE Cleanup
  BY <1>22, <1>c DEF Cleanup
<1>23. ASSUME NEW x \in Times, Grow(x) PROVE Step
  BY <1>23, <1>c DEF Grow
<1> QED
  BY <1>1, <1>2, <1>3, <1>4, <1>5, <1>6, <1>7, <1>8, <1>9, <1>10, <1>11, <1>12,
     <1>13, <1>14, <1>15, <1>16, <1>17, <1>18, <1>19, <1>20, <1>21, <1>22, <1>23
  DEF Next, HostStep, AgentStep, ServerStep

\* A request carries what the outbox and the results hold; an abandoned one is
\* the one that was on the wire; an answer brings requests that are pending.
LEMMA TravelsReal ==
    ASSUME TypeOK, Next
    PROVE  /\ wire'.state = "sent" =>
                \/ wire' = wire
                \/ /\ wire'.request.events \subseteq Range(outbox)
                   /\ wire'.request.results = results
           /\ wire'.state = "ok" =>
                \/ wire' = wire
                \/ \A c \in wire'.commands : c \in Cmd /\ cmds[c].status = "pending"
           /\ \A r \in late' : r \in late \/ (wire.state = "sent" /\ r = wire.request)
<1> DEFINE Step ==
        /\ wire'.state = "sent" =>
             \/ wire' = wire
             \/ /\ wire'.request.events \subseteq Range(outbox)
                /\ wire'.request.results = results
        /\ wire'.state = "ok" =>
             \/ wire' = wire
             \/ \A c \in wire'.commands : c \in Cmd /\ cmds[c].status = "pending"
        /\ \A r \in late' : r \in late \/ (wire.state = "sent" /\ r = wire.request)
<1> USE DEF server, agent, network, host
<1>1. ASSUME NEW s \in Session, Login(s) PROVE Step
  BY <1>1 DEF Login
<1>2. ASSUME NEW s \in Session, Logout(s) PROVE Step
  BY <1>2 DEF Logout
<1>3. ASSUME NEW s \in Session, Exit(s) PROVE Step
  BY <1>3 DEF Exit
<1>4. CASE Reboot
  BY <1>4 DEF Reboot, Abandon, NoWire
<1>5. CASE Send
  BY <1>5, SentType DEF Send
<1>6. CASE SendFails
  BY <1>6 DEF SendFails, Abandon, NoWire
<1>7. CASE Receive
  BY <1>7 DEF Receive, NoWire
<1>8. CASE Ack
  BY <1>8 DEF Ack
<1>9. CASE Crash
  BY <1>9 DEF Crash, Abandon, NoWire
<1>10. CASE Restart
  BY <1>10 DEF Restart
<1>11. ASSUME NEW c \in Cmd, Refuse(c) PROVE Step
  BY <1>11 DEF Refuse
<1>12. ASSUME NEW c \in Cmd, Kill(c) PROVE Step
  BY <1>12 DEF Kill
<1>13. ASSUME NEW c \in Cmd, KillFails(c) PROVE Step
  BY <1>13 DEF KillFails
<1>14. CASE IngestCurrent
  <2>1. wire' = [state |-> "ok", commands |-> Commands(wire.request)] /\ late' = late
    BY <1>14 DEF IngestCurrent
  <2>2. \A c \in Commands(wire.request) : c \in Cmd /\ cmds[c].status = "pending"
    BY DEF Commands, Pending
  <2> QED
    BY <2>1, <2>2
<1>15. CASE RejectCurrent
  BY <1>15 DEF RejectCurrent
<1>16. CASE IngestLate
  BY <1>16 DEF IngestLate, Ingest
<1>17. CASE RejectLate
  BY <1>17 DEF RejectLate
<1>18. ASSUME NEW s \in Session, Terminate(s) PROVE Step
  BY <1>18 DEF Terminate
<1>19. ASSUME NEW c \in Cmd, Expire(c) PROVE Step
  BY <1>19 DEF Expire
<1>20. CASE Lapse
  BY <1>20 DEF Lapse
<1>21. CASE Revoke
  BY <1>21 DEF Revoke
<1>22. CASE Cleanup
  BY <1>22 DEF Cleanup
<1>23. ASSUME NEW x \in Times, Grow(x) PROVE Step
  BY <1>23 DEF Grow
<1> QED
  BY <1>1, <1>2, <1>3, <1>4, <1>5, <1>6, <1>7, <1>8, <1>9, <1>10, <1>11, <1>12,
     <1>13, <1>14, <1>15, <1>16, <1>17, <1>18, <1>19, <1>20, <1>21, <1>22, <1>23
  DEF Next, HostStep, AgentStep, ServerStep

\* The agent executes what an answer brought and reports what it executed.
LEMMA ResultsReal ==
    ASSUME TypeOK, Next
    PROVE  /\ todo' \subseteq todo \cup InAnswer
           /\ \A x \in results' :
                \/ x \in results
                \/ x.id \in todo /\ (x.ok => Kill(x.id))
<1> DEFINE Step ==
        /\ todo' \subseteq todo \cup InAnswer
        /\ \A x \in results' :
             \/ x \in results
             \/ x.id \in todo /\ (x.ok => Kill(x.id))
<1> USE DEF server, agent, network, host
<1>1. ASSUME NEW s \in Session, Login(s) PROVE Step
  BY <1>1 DEF Login
<1>2. ASSUME NEW s \in Session, Logout(s) PROVE Step
  BY <1>2 DEF Logout
<1>3. ASSUME NEW s \in Session, Exit(s) PROVE Step
  BY <1>3 DEF Exit
<1>4. CASE Reboot
  BY <1>4 DEF Reboot
<1>5. CASE Send
  BY <1>5 DEF Send
<1>6. CASE SendFails
  BY <1>6 DEF SendFails
<1>7. CASE Receive
  BY <1>7 DEF Receive, InAnswer
<1>8. CASE Ack
  BY <1>8 DEF Ack
<1>9. CASE Crash
  BY <1>9 DEF Crash
<1>10. CASE Restart
  BY <1>10 DEF Restart
<1>11. ASSUME NEW c \in Cmd, Refuse(c) PROVE Step
  BY <1>11 DEF Refuse, Answer
<1>12. ASSUME NEW c \in Cmd, Kill(c) PROVE Step
  BY <1>12 DEF Kill, Answer, MayKill
<1>13. ASSUME NEW c \in Cmd, KillFails(c) PROVE Step
  BY <1>13 DEF KillFails, Answer, MayKill
<1>14. CASE IngestCurrent
  BY <1>14 DEF IngestCurrent
<1>15. CASE RejectCurrent
  BY <1>15 DEF RejectCurrent
<1>16. CASE IngestLate
  BY <1>16 DEF IngestLate
<1>17. CASE RejectLate
  BY <1>17 DEF RejectLate
<1>18. ASSUME NEW s \in Session, Terminate(s) PROVE Step
  BY <1>18 DEF Terminate
<1>19. ASSUME NEW c \in Cmd, Expire(c) PROVE Step
  BY <1>19 DEF Expire
<1>20. CASE Lapse
  BY <1>20 DEF Lapse
<1>21. CASE Revoke
  BY <1>21 DEF Revoke
<1>22. CASE Cleanup
  BY <1>22 DEF Cleanup
<1>23. ASSUME NEW x \in Times, Grow(x) PROVE Step
  BY <1>23 DEF Grow
<1> QED
  BY <1>1, <1>2, <1>3, <1>4, <1>5, <1>6, <1>7, <1>8, <1>9, <1>10, <1>11, <1>12,
     <1>13, <1>14, <1>15, <1>16, <1>17, <1>18, <1>19, <1>20, <1>21, <1>22, <1>23
  DEF Next, HostStep, AgentStep, ServerStep

\* A request under way tells only of what is posted and told.
LEMMA RequestIsTold ==
    ASSUME TypeOK
    PROVE  /\ wire.state = "sent" =>
                /\ wire.request \in Request
                /\ wire.request.events \subseteq Posted /\ wire.request.results \subseteq Told
           /\ \A r \in late : /\ r \in Request
                              /\ r.events \subseteq Posted /\ r.results \subseteq Told
BY WireCases DEF TypeOK, Posted, Told

\* Requests are made for sessions shown active, answered once, and answered
\* with a success only when one is reported.
LEMMA CommandsReal ==
    ASSUME TypeOK, CommandsAreKnown, Next
    PROVE  \A c \in Cmd :
             /\ cmds[c] # NoCmd => cmds'[c] # NoCmd /\ cmds'[c].session = cmds[c].session
             /\ cmds[c] = NoCmd /\ cmds'[c] # NoCmd =>
                  /\ cmds'[c].status = "pending" /\ cmds'[c].session \in Session
                  /\ rows[cmds'[c].session].live /\ rows' = rows /\ os' = os
             /\ cmds[c].status \in {"succeeded", "failed"} =>
                  cmds'[c].status \in {cmds[c].status, "deleted"}
             /\ cmds'[c].status = "succeeded" =>
                  \/ cmds[c].status = "succeeded"
                  \/ \E x \in Told : x.id = c /\ x.ok /\ cmds[c].status = "pending"
             /\ <<"cmd", c>> \in old' => <<"cmd", c>> \in old \/ cmds[c] # NoCmd
<1> DEFINE Step ==
        \A c \in Cmd :
          /\ cmds[c] # NoCmd => cmds'[c] # NoCmd /\ cmds'[c].session = cmds[c].session
          /\ cmds[c] = NoCmd /\ cmds'[c] # NoCmd =>
               /\ cmds'[c].status = "pending" /\ cmds'[c].session \in Session
               /\ rows[cmds'[c].session].live /\ rows' = rows /\ os' = os
          /\ cmds[c].status \in {"succeeded", "failed"} =>
               cmds'[c].status \in {cmds[c].status, "deleted"}
          /\ cmds'[c].status = "succeeded" =>
               \/ cmds[c].status = "succeeded"
               \/ \E x \in Told : x.id = c /\ x.ok /\ cmds[c].status = "pending"
          /\ <<"cmd", c>> \in old' => <<"cmd", c>> \in old \/ cmds[c] # NoCmd
<1> USE DEF server, agent, network, host
<1>0. cmds \in [Cmd -> Command \cup {NoCmd}]
  BY DEF TypeOK
<1>1. ASSUME NEW s \in Session, Login(s) PROVE Step
  BY <1>1, <1>0 DEF Login
<1>2. ASSUME NEW s \in Session, Logout(s) PROVE Step
  BY <1>2, <1>0 DEF Logout
<1>3. ASSUME NEW s \in Session, Exit(s) PROVE Step
  BY <1>3, <1>0 DEF Exit
<1>4. CASE Reboot
  BY <1>4, <1>0 DEF Reboot
<1>5. CASE Send
  BY <1>5, <1>0 DEF Send
<1>6. CASE SendFails
  BY <1>6, <1>0 DEF SendFails
<1>7. CASE Receive
  BY <1>7, <1>0 DEF Receive
<1>8. CASE Ack
  BY <1>8, <1>0 DEF Ack
<1>9. CASE Crash
  BY <1>9, <1>0 DEF Crash
<1>10. CASE Restart
  BY <1>10, <1>0 DEF Restart
<1>11. ASSUME NEW c \in Cmd, Refuse(c) PROVE Step
  BY <1>11, <1>0 DEF Refuse
<1>12. ASSUME NEW c \in Cmd, Kill(c) PROVE Step
  BY <1>12, <1>0 DEF Kill
<1>13. ASSUME NEW c \in Cmd, KillFails(c) PROVE Step
  BY <1>13, <1>0 DEF KillFails
<1>14. CASE IngestCurrent
  <2>1. PICK r \in Request : r.events \subseteq Posted /\ r.results \subseteq Told /\ Ingest(r)
    BY <1>14, RequestIsTold DEF IngestCurrent
  <2> QED
    BY <2>1, IngestCmds DEF Ingest
<1>15. CASE RejectCurrent
  BY <1>15, <1>0 DEF RejectCurrent
<1>16. CASE IngestLate
  <2>1. PICK r \in Request : r.events \subseteq Posted /\ r.results \subseteq Told /\ Ingest(r)
    BY <1>16, RequestIsTold DEF IngestLate
  <2> QED
    BY <2>1, IngestCmds DEF Ingest
<1>17. CASE RejectLate
  BY <1>17, <1>0 DEF RejectLate
<1>18. ASSUME NEW s \in Session, Terminate(s) PROVE Step
  <2> DEFINE k == [session |-> s, expired |-> FALSE, status |-> "pending"]
  <2>1. PICK c \in Cmd : cmds[c] = NoCmd /\ cmds' = [cmds EXCEPT ![c] = k]
    BY <1>18 DEF Terminate
  <2>2. k # NoCmd /\ k.session = s /\ k.status = "pending"
    BY DEF NoCmd
  <2>3. rows[s].live /\ rows' = rows /\ os' = os /\ old' = old
    BY <1>18 DEF Terminate, ShownActive
  <2> HIDE DEF k
  <2>4. cmds[c].status = "none"
    BY <2>1 DEF NoCmd
  <2>5. cmds'[c] = k /\ \A d \in Cmd : d # c => cmds'[d] = cmds[d]
    BY <1>0, <2>1
  <2> QED
    BY <2>1, <2>2, <2>3, <2>4, <2>5
<1>19. ASSUME NEW c \in Cmd, Expire(c) PROVE Step
  <2>1. cmds[c] \in Command
    BY <1>19, <1>0 DEF Expire, Pending, NoCmd
  <2> DEFINE k == [cmds[c] EXCEPT !.expired = TRUE]
  <2>2. k.status = cmds[c].status /\ k.session = cmds[c].session /\ k # NoCmd
    BY <2>1 DEF Command, NoCmd
  <2>3. cmds' = [cmds EXCEPT ![c] = k] /\ old' = old /\ cmds[c] # NoCmd
    BY <1>19, <1>0, <2>1 DEF Expire, Command, NoCmd
  <2> HIDE DEF k
  <2>4. cmds'[c] = k /\ \A d \in Cmd : d # c => cmds'[d] = cmds[d]
    BY <1>0, <2>3
  <2> QED
    BY <2>2, <2>3, <2>4
<1>20. CASE Lapse
  BY <1>20, <1>0 DEF Lapse
<1>21. CASE Revoke
  BY <1>21, <1>0 DEF Revoke
<1>22. CASE Cleanup
  <2>1. old' = old
    BY <1>22 DEF Cleanup
  <2>2. \A c \in Cmd : /\ cmds'[c] = NoCmd <=> cmds[c] = NoCmd
                       /\ cmds'[c].status \in {cmds[c].status, "deleted"}
                       /\ cmds[c] # NoCmd => cmds'[c].session = cmds[c].session
    BY <1>22, CleanupType
  <2> QED
    BY <2>1, <2>2
<1>23. ASSUME NEW x \in Times, Grow(x) PROVE Step
  <2>1. cmds' = cmds /\ (x[1] = "cmd" => cmds[x[2]] # NoCmd) /\ old' = old \cup {x}
    BY <1>23 DEF Grow, GrowRequest
  <2>2. ASSUME NEW c \in Cmd, <<"cmd", c>> \in old' PROVE <<"cmd", c>> \in old \/ cmds[c] # NoCmd
    BY <2>1, <2>2
  <2> QED
    BY <2>1, <2>2
<1> QED
  BY <1>1, <1>2, <1>3, <1>4, <1>5, <1>6, <1>7, <1>8, <1>9, <1>10, <1>11, <1>12,
     <1>13, <1>14, <1>15, <1>16, <1>17, <1>18, <1>19, <1>20, <1>21, <1>22, <1>23
  DEF Next, HostStep, AgentStep, ServerStep

\* A row is made by an event, ended by an event or a success, and never open
\* again.
LEMMA RowsReal ==
    ASSUME TypeOK, CommandsAreKnown, Next
    PROVE  \A s \in Session :
             /\ rows'[s] # NoRow =>
                  rows[s] # NoRow \/ <<"start", s>> \in Posted \/ <<"end", s>> \in Posted
             /\ rows[s].ended # "none" => rows'[s].ended # "none" \/ rows'[s] = NoRow
             /\ rows'[s].ended # "none" =>
                  \/ rows[s].ended # "none" \/ <<"end", s>> \in Posted
                  \/ \E x \in Told : x.ok /\ x.id \in Cmd /\ cmds[x.id].session = s
<1> DEFINE Step ==
        \A s \in Session :
          /\ rows'[s] # NoRow =>
               rows[s] # NoRow \/ <<"start", s>> \in Posted \/ <<"end", s>> \in Posted
          /\ rows[s].ended # "none" => rows'[s].ended # "none" \/ rows'[s] = NoRow
          /\ rows'[s].ended # "none" =>
               \/ rows[s].ended # "none" \/ <<"end", s>> \in Posted
               \/ \E x \in Told : x.ok /\ x.id \in Cmd /\ cmds[x.id].session = s
<1> USE DEF server, agent, network, host
<1>a. ASSUME NEW r \in Request, r.events \subseteq Posted, r.results \subseteq Told, Ingest(r)
      PROVE  Step
  <2>1. \A x \in r.results : x.id \in Cmd
    BY DEF Request, Result
  <2>2. ASSUME NEW s \in Session, Success(r, s)
        PROVE  \E x \in Told : x.ok /\ x.id \in Cmd /\ cmds[x.id].session = s
    BY <1>a, <2>1, <2>2 DEF Success, Applied
  <2> QED
    BY <1>a, <2>2, IngestRows
<1>1. ASSUME NEW s \in Session, Login(s) PROVE Step
  BY <1>1 DEF Login
<1>2. ASSUME NEW s \in Session, Logout(s) PROVE Step
  BY <1>2 DEF Logout
<1>3. ASSUME NEW s \in Session, Exit(s) PROVE Step
  BY <1>3 DEF Exit
<1>4. CASE Reboot
  BY <1>4 DEF Reboot
<1>5. CASE Send
  BY <1>5 DEF Send
<1>6. CASE SendFails
  BY <1>6 DEF SendFails
<1>7. CASE Receive
  BY <1>7 DEF Receive
<1>8. CASE Ack
  BY <1>8 DEF Ack
<1>9. CASE Crash
  BY <1>9 DEF Crash
<1>10. CASE Restart
  BY <1>10 DEF Restart
<1>11. ASSUME NEW c \in Cmd, Refuse(c) PROVE Step
  BY <1>11 DEF Refuse
<1>12. ASSUME NEW c \in Cmd, Kill(c) PROVE Step
  BY <1>12 DEF Kill
<1>13. ASSUME NEW c \in Cmd, KillFails(c) PROVE Step
  BY <1>13 DEF KillFails
<1>14. CASE IngestCurrent
  BY <1>14, <1>a, RequestIsTold DEF IngestCurrent
<1>15. CASE RejectCurrent
  BY <1>15 DEF RejectCurrent
<1>16. CASE IngestLate
  BY <1>16, <1>a, RequestIsTold DEF IngestLate
<1>17. CASE RejectLate
  BY <1>17 DEF RejectLate
<1>18. ASSUME NEW s \in Session, Terminate(s) PROVE Step
  BY <1>18 DEF Terminate
<1>19. ASSUME NEW c \in Cmd, Expire(c) PROVE Step
  BY <1>19 DEF Expire
<1>20. CASE Lapse
  BY <1>20 DEF Lapse
<1>21. CASE Revoke
  BY <1>21 DEF Revoke
<1>22. CASE Cleanup
  <2>1. \A s \in Session : rows'[s] \in {rows[s], NoRow}
    BY <1>22, CleanupType
  <2>2. NoRow.ended = "none"
    BY DEF NoRow
  <2> QED
    BY <2>1, <2>2
<1>23. ASSUME NEW x \in Times, Grow(x) PROVE Step
  BY <1>23 DEF Grow
<1> QED
  BY <1>1, <1>2, <1>3, <1>4, <1>5, <1>6, <1>7, <1>8, <1>9, <1>10, <1>11, <1>12,
     <1>13, <1>14, <1>15, <1>16, <1>17, <1>18, <1>19, <1>20, <1>21, <1>22, <1>23
  DEF Next, HostStep, AgentStep, ServerStep

-----------------------------------------------------------------------------
(* The history is inductive. *)

LEMMA InitHistory == Init => IInv
<1> SUFFICES ASSUME Init PROVE IInv
  OBVIOUS
<1>1. TypeOK
  BY InitType
<1>2. Posted = {} /\ Told = {}
  <2>1. wire.state # "sent" /\ late = {} /\ results = {} /\ Range(outbox) = {}
    BY DEF Init, NoWire, Range
  <2> QED
    BY <2>1 DEF Posted, Told
<1>3. EventsAreReal /\ ResultsAreTrue
  BY <1>2 DEF EventsAreReal, ResultsAreTrue
<1>4. RowsAreReal /\ CommandsAreReal
  BY DEF Init, RowsAreReal, CommandsAreReal
<1>5. CommandsAreKnown
  <2>1. todo = {} /\ InAnswer = {} /\ old = {}
    BY DEF Init, InAnswer, NoWire
  <2> QED
    BY <1>2, <2>1 DEF CommandsAreKnown
<1>6. NumbersUnique
  BY DEF Init, NumbersUnique
<1>7. TablesAreTrue
  BY DEF Init, TablesAreTrue, EndedMeansGone, SuccessIsTrue, NoRow, NoCmd
<1> QED
  BY <1>1, <1>3, <1>4, <1>5, <1>6, <1>7 DEF IInv, History

\* An event newly posted has happened.
LEMMA PostedForward ==
    ASSUME TypeOK, Next
    PROVE  \A e \in Posted' :
             \/ e \in Posted
             \/ \E s \in Session : \/ e = <<"start", s>> /\ os'[s] # "none"
                                   \/ e = <<"end", s>> /\ os'[s] \in Ended
<1>1. \A e \in Range(outbox') :
        \/ e \in Range(outbox)
        \/ \E s \in Session : \/ e = <<"start", s>> /\ os'[s] # "none"
                              \/ e = <<"end", s>> /\ os'[s] \in Ended
  BY OutboxReal
<1>2. wire'.state = "sent" =>
        wire' = wire \/ wire'.request.events \subseteq Range(outbox)
  BY TravelsReal
<1>3. \A r \in late' : r \in late \/ (wire.state = "sent" /\ r = wire.request)
  BY TravelsReal
<1>4. /\ Range(outbox) \subseteq Posted
      /\ wire.state = "sent" => wire.request.events \subseteq Posted
      /\ \A r \in late : r.events \subseteq Posted
  BY DEF Posted
<1>5. ASSUME NEW e \in Posted'
      PROVE  \/ e \in Range(outbox')
             \/ wire'.state = "sent" /\ e \in wire'.request.events
             \/ \E r \in late' : e \in r.events
  BY <1>5 DEF Posted, Range
<1> QED
  BY <1>1, <1>2, <1>3, <1>4, <1>5

\* A result newly told is that of a request the agent just executed.
LEMMA ToldForward ==
    ASSUME TypeOK, Next
    PROVE  \A x \in Told' : x \in Told \/ (x.id \in todo /\ (x.ok => Kill(x.id)))
<1>1. \A x \in results' : x \in results \/ (x.id \in todo /\ (x.ok => Kill(x.id)))
  BY ResultsReal
<1>2. wire'.state = "sent" => wire' = wire \/ wire'.request.results = results
  BY TravelsReal
<1>3. \A r \in late' : r \in late \/ (wire.state = "sent" /\ r = wire.request)
  BY TravelsReal
<1>4. /\ results \subseteq Told
      /\ wire.state = "sent" => wire.request.results \subseteq Told
      /\ \A r \in late : r.results \subseteq Told
  BY DEF Told
<1>5. ASSUME NEW x \in Told'
      PROVE  \/ x \in results'
             \/ wire'.state = "sent" /\ x \in wire'.request.results
             \/ \E r \in late' : x \in r.results
  BY <1>5 DEF Told
<1> QED
  BY <1>1, <1>2, <1>3, <1>4, <1>5

LEMMA ToldType ==
    ASSUME TypeOK
    PROVE  \A x \in Told : x.id \in Cmd
<1>1. results \subseteq Result /\ \A r \in Request : r.results \subseteq Result
  BY DEF TypeOK, Request
<1>2. Told \subseteq Result
  BY <1>1, RequestIsTold DEF Told, TypeOK
<1> QED
  BY <1>2 DEF Result

\* A success found the processes of the very session the request names gone.
LEMMA KillIsTrue ==
    ASSUME TypeOK, CommandsAreReal, CommandsAreKnown, NEW c \in Cmd, Kill(c)
    PROVE  cmds' = cmds /\ os'[cmds[c].session] = "gone"
<1>1. cmds[c] # NoCmd /\ c \in todo
  BY DEF Kill, MayKill, CommandsAreKnown
<1>2. cmds[c].session \in Session /\ os[cmds[c].session] # "none"
  <2>1. cmds[c] \in Command
    BY <1>1 DEF TypeOK
  <2> QED
    BY <1>1, <2>1 DEF Command, CommandsAreReal
<1>3. os \in [Session -> {"none", "running", "closing", "gone"}]
  BY DEF TypeOK
<1>4. bootOf[cmds[c].session] = boot
  BY DEF Kill, MayKill, OfThisBoot
<1>5. cmds' = cmds
  BY DEF Kill, server
<1>6. os'[cmds[c].session] = "gone"
  BY <1>2, <1>3, <1>4 DEF Kill, Die, Alive
<1> QED
  BY <1>5, <1>6

\* Only a login gives a session its boot, and the boots go forward.
LEMMA NumbersStayUnique ==
    ASSUME TypeOK, NumbersUnique, Next
    PROVE  NumbersUnique'
<1> USE DEF server, agent, network, host
<1>0. boot \in Nat /\ boot # 0 /\ bootOf \in [Session -> Nat]
  BY DEF TypeOK, NumbersUnique
<1>a. ASSUME UNCHANGED <<boot, bootOf>> PROVE NumbersUnique'
  BY <1>a DEF NumbersUnique
<1>1. ASSUME NEW s \in Session, Login(s) PROVE NumbersUnique'
  BY <1>1, <1>0 DEF Login, NumbersUnique
<1>2. ASSUME NEW s \in Session, Logout(s) PROVE NumbersUnique'
  BY <1>2, <1>a DEF Logout
<1>3. ASSUME NEW s \in Session, Exit(s) PROVE NumbersUnique'
  BY <1>3, <1>a DEF Exit
<1>4. CASE Reboot
  BY <1>4, <1>0 DEF Reboot, NumbersUnique
<1>5. CASE Send
  BY <1>5, <1>a DEF Send
<1>6. CASE SendFails
  BY <1>6, <1>a DEF SendFails
<1>7. CASE Receive
  BY <1>7, <1>a DEF Receive
<1>8. CASE Ack
  BY <1>8, <1>a DEF Ack
<1>9. CASE Crash
  BY <1>9, <1>a DEF Crash
<1>10. CASE Restart
  BY <1>10, <1>a DEF Restart
<1>11. ASSUME NEW c \in Cmd, Refuse(c) PROVE NumbersUnique'
  BY <1>11, <1>a DEF Refuse
<1>12. ASSUME NEW c \in Cmd, Kill(c) PROVE NumbersUnique'
  BY <1>12, <1>a DEF Kill
<1>13. ASSUME NEW c \in Cmd, KillFails(c) PROVE NumbersUnique'
  BY <1>13, <1>a DEF KillFails
<1>14. CASE IngestCurrent
  BY <1>14, <1>a DEF IngestCurrent, Ingest
<1>15. CASE RejectCurrent
  BY <1>15, <1>a DEF RejectCurrent
<1>16. CASE IngestLate
  BY <1>16, <1>a DEF IngestLate, Ingest
<1>17. CASE RejectLate
  BY <1>17, <1>a DEF RejectLate
<1>18. ASSUME NEW s \in Session, Terminate(s) PROVE NumbersUnique'
  BY <1>18, <1>a DEF Terminate
<1>19. ASSUME NEW c \in Cmd, Expire(c) PROVE NumbersUnique'
  BY <1>19, <1>a DEF Expire
<1>20. CASE Lapse
  BY <1>20, <1>a DEF Lapse
<1>21. CASE Revoke
  BY <1>21, <1>a DEF Revoke
<1>22. CASE Cleanup
  BY <1>22, <1>a DEF Cleanup
<1>23. ASSUME NEW x \in Times, Grow(x) PROVE NumbersUnique'
  BY <1>23, <1>a DEF Grow
<1> QED
  BY <1>1, <1>2, <1>3, <1>4, <1>5, <1>6, <1>7, <1>8, <1>9, <1>10, <1>11, <1>12,
     <1>13, <1>14, <1>15, <1>16, <1>17, <1>18, <1>19, <1>20, <1>21, <1>22, <1>23
  DEF Next, HostStep, AgentStep, ServerStep

LEMMA NextHistory ==
    ASSUME IInv, [Next]_vars
    PROVE  IInv'
<1> USE DEF IInv, History
<1>1. TypeOK'
  BY NextType
<1>2. CASE UNCHANGED vars
  <2> USE <1>2 DEF vars, host, agent, network, server
  <2>1. Posted' = Posted /\ Told' = Told
    BY DEF Posted, Told, Range
  <2>2. InAnswer' = InAnswer
    BY DEF InAnswer
  <2>3. EventsAreReal' /\ ResultsAreTrue'
    BY <2>1 DEF EventsAreReal, ResultsAreTrue
  <2>4. RowsAreReal' /\ CommandsAreReal' /\ NumbersUnique'
    BY DEF RowsAreReal, CommandsAreReal, NumbersUnique
  <2>5. CommandsAreKnown'
    BY <2>1, <2>2 DEF CommandsAreKnown
  <2>6. TablesAreTrue'
    BY DEF TablesAreTrue, EndedMeansGone, SuccessIsTrue
  <2> QED
    BY <1>1, <2>3, <2>4, <2>5, <2>6
<1>3. CASE Next
  <2>1. \A s \in Session : /\ os[s] # "none" => os'[s] # "none"
                           /\ os[s] \in Ended => os'[s] \in Ended
                           /\ os[s] = "gone" => os'[s] = "gone"
    BY <1>3, HostForward
  <2>2. \A c \in Cmd : /\ cmds[c] # NoCmd => cmds[c].session \in Session
                       /\ cmds'[c] # NoCmd => cmds'[c].session \in Session
                       /\ cmds[c] # NoCmd <=> cmds[c].status # "none"
                       /\ cmds'[c] # NoCmd <=> cmds'[c].status # "none"
    <3>1. /\ cmds \in [Cmd -> Command \cup {NoCmd}]
          /\ cmds' \in [Cmd -> Command \cup {NoCmd}]
      BY <1>1 DEF TypeOK
    <3>2. \A k \in Command : k.session \in Session
      BY DEF Command
    <3> QED
      BY <3>1, <3>2, CommandMade
  <2>3. \A c \in Cmd :
          /\ cmds[c] # NoCmd => cmds'[c] # NoCmd /\ cmds'[c].session = cmds[c].session
          /\ cmds[c] = NoCmd /\ cmds'[c] # NoCmd =>
               /\ cmds'[c].status = "pending"
               /\ rows[cmds'[c].session].live /\ os' = os
          /\ cmds'[c].status = "succeeded" =>
               \/ cmds[c].status = "succeeded"
               \/ \E x \in Told : x.id = c /\ x.ok
          /\ <<"cmd", c>> \in old' => <<"cmd", c>> \in old \/ cmds[c] # NoCmd
    BY <1>3, CommandsReal
  <2>4. \A x \in Told' : x \in Told \/ (x.id \in todo /\ (x.ok => Kill(x.id)))
    BY <1>3, ToldForward
  <2>5. (\A x \in Told : x.id \in Cmd) /\ todo \subseteq Cmd
    BY ToldType DEF TypeOK
  <2>6. EventsAreReal'
    BY <1>3, <2>1, PostedForward DEF EventsAreReal
  <2>7. ResultsAreTrue'
    <3>1. ASSUME NEW x \in Told', x.ok PROVE os'[cmds'[x.id].session] = "gone"
      <4>1. CASE x \in Told
        <5>1. x.id \in Cmd /\ cmds[x.id] # NoCmd /\ os[cmds[x.id].session] = "gone"
          BY <2>5, <3>1, <4>1 DEF ResultsAreTrue, CommandsAreKnown
        <5> QED
          BY <2>1, <2>2, <2>3, <5>1
      <4>2. CASE x.id \in todo /\ Kill(x.id)
        BY <2>5, <4>2, KillIsTrue
      <4> QED
        BY <2>4, <3>1, <4>1, <4>2
    <3> QED
      BY <3>1 DEF ResultsAreTrue
  <2>8. RowsAreReal'
    <3>1. ASSUME NEW s \in Session, rows'[s] # NoRow PROVE os[s] # "none"
      <4>1. rows[s] # NoRow \/ <<"start", s>> \in Posted \/ <<"end", s>> \in Posted
        BY <1>3, <3>1, RowsReal
      <4> QED
        BY <4>1 DEF RowsAreReal, EventsAreReal, Ended
    <3> QED
      BY <2>1, <3>1 DEF RowsAreReal
  <2>9. CommandsAreReal'
    <3>1. ASSUME NEW c \in Cmd, cmds'[c] # NoCmd PROVE os'[cmds'[c].session] # "none"
      <4>1. CASE cmds[c] # NoCmd
        <5>1. cmds[c].session \in Session /\ os[cmds[c].session] # "none"
          BY <2>2, <4>1 DEF CommandsAreReal
        <5>2. cmds'[c].session = cmds[c].session
          BY <2>3, <4>1
        <5> QED
          BY <2>1, <5>1, <5>2
      <4>2. CASE cmds[c] = NoCmd
        <5>1. rows[cmds'[c].session].live /\ os' = os /\ cmds'[c].session \in Session
          BY <2>2, <2>3, <3>1, <4>2
        <5>2. rows[cmds'[c].session] # NoRow
          BY <5>1 DEF NoRow
        <5> QED
          BY <5>1, <5>2 DEF RowsAreReal
      <4> QED
        BY <4>1, <4>2
    <3> QED
      BY <3>1 DEF CommandsAreReal
  <2>10. CommandsAreKnown'
    <3>1. todo' \subseteq todo \cup InAnswer
      BY <1>3, ResultsReal
    <3>2. ASSUME NEW c \in InAnswer' PROVE c \in Cmd /\ cmds[c] # NoCmd
      <4>1. wire'.state = "ok" /\ c \in wire'.commands
        BY <3>2 DEF InAnswer
      <4>2. CASE wire' = wire
        <5>1. wire.state = "ok" /\ wire.commands \subseteq Cmd
          BY <4>1, <4>2, WireCases DEF TypeOK
        <5> QED
          BY <4>1, <4>2, <5>1 DEF InAnswer, CommandsAreKnown
      <4>3. CASE \A d \in wire'.commands : d \in Cmd /\ cmds[d].status = "pending"
        BY <2>2, <4>1, <4>3
      <4> QED
        BY <1>3, <4>1, <4>2, <4>3, TravelsReal
    <3>3. InAnswer \subseteq Cmd
      BY WireCases DEF TypeOK, InAnswer
    <3>4. \A c \in todo' \cup InAnswer' : c \in Cmd /\ cmds[c] # NoCmd
      BY <2>5, <3>1, <3>2, <3>3 DEF CommandsAreKnown
    <3>5. \A x \in Told' : x.id \in Cmd /\ cmds[x.id] # NoCmd
      BY <2>4, <2>5 DEF CommandsAreKnown
    <3>6. \A c \in Cmd : <<"cmd", c>> \in old' => cmds[c] # NoCmd
      BY <2>3 DEF CommandsAreKnown
    <3> QED
      BY <2>3, <3>4, <3>5, <3>6 DEF CommandsAreKnown
  <2>11. NumbersUnique'
    BY <1>3, NumbersStayUnique
  <2>12. EndedMeansGone'
    <3>1. ASSUME NEW s \in Session, rows'[s].ended # "none" PROVE os'[s] \in Ended
      <4>1. \/ rows[s].ended # "none" \/ <<"end", s>> \in Posted
            \/ \E x \in Told : x.ok /\ x.id \in Cmd /\ cmds[x.id].session = s
        BY <1>3, <3>1, RowsReal
      <4>2. os[s] \in Ended
        BY <4>1 DEF TablesAreTrue, EndedMeansGone, EventsAreReal, ResultsAreTrue, Ended
      <4> QED
        BY <2>1, <4>2
    <3> QED
      BY <3>1 DEF EndedMeansGone, Ended
  <2>13. SuccessIsTrue'
    <3>1. ASSUME NEW c \in Cmd, cmds'[c].status = "succeeded"
          PROVE  os'[cmds'[c].session] = "gone"
      <4>1. cmds[c] # NoCmd /\ os[cmds[c].session] = "gone"
        <5>1. CASE cmds[c].status = "succeeded"
          BY <2>2, <5>1 DEF TablesAreTrue, SuccessIsTrue
        <5>2. CASE \E x \in Told : x.id = c /\ x.ok
          BY <5>2 DEF ResultsAreTrue, CommandsAreKnown
        <5> QED
          BY <2>3, <3>1, <5>1, <5>2
      <4> QED
        BY <2>1, <2>2, <2>3, <4>1
    <3> QED
      BY <3>1 DEF SuccessIsTrue
  <2> QED
    BY <1>1, <2>6, <2>7, <2>8, <2>9, <2>10, <2>11, <2>12, <2>13 DEF TablesAreTrue
<1> QED
  BY <1>2, <1>3

LEMMA Inductive == Spec => []IInv
<1>1. Init => IInv
  BY InitHistory
<1>2. IInv /\ [Next]_vars => IInv'
  BY NextHistory
<1> QED
  BY <1>1, <1>2, PTL DEF Spec

-----------------------------------------------------------------------------
(* Theorems. *)

\* Every variable keeps its type: the rows, requests and answers the code
\* stores and sends are of the shapes it reads them with.
THEOREM TypeCorrect == Spec => []TypeOK
<1>1. IInv => TypeOK
  BY DEF IInv
<1> QED
  BY <1>1, Inductive, PTL

\* No result of another boot, no late report and no event of another session
\* makes the tables say of a session that it ended, or of a request that it
\* succeeded, when it did not (upsertSession, finishTerminations).
THEOREM TablesTrue == Spec => []TablesAreTrue
<1>1. IInv => TablesAreTrue
  BY DEF IInv, History
<1> QED
  BY <1>1, Inductive, PTL

\* An ended row is never open again, whatever order reports and events arrive
\* in (upsertSession, updateActiveSessions); only retention removes it.
THEOREM EndsStay == Spec => NeverReopened
<1> DEFINE Step ==
        \A s \in Session : rows[s].ended # "none" =>
          rows'[s].ended # "none" \/ rows'[s] = NoRow
<1>1. IInv /\ [Next]_vars => [Step]_vars
  BY RowsReal DEF IInv, History
<1> QED
  BY <1>1, Inductive, PTL DEF Spec, NeverReopened

\* The first result of a request stands, however often it is executed and its
\* results are sent again (finishTerminations).
THEOREM AnswersStand == Spec => AnswerIsFinal
<1> DEFINE Step ==
        \A c \in Cmd : cmds[c].status \in {"succeeded", "failed"} =>
          cmds'[c].status \in {cmds[c].status, "deleted"}
<1>1. IInv /\ [Next]_vars => [Step]_vars
  BY CommandsReal DEF IInv, History
<1> QED
  BY <1>1, Inductive, PTL DEF Spec, AnswerIsFinal

\* A running session loses its processes only to a request that named it: the
\* boot in the session's id tells it from one with the same audit number
\* (terminationSession, terminateSession).
THEOREM OnlyAskedDie == Spec => KillsOnlyAsked
<1> DEFINE Named(s) ==
        \E c \in Cmd : cmds[c] # NoCmd /\ cmds[c].session = s /\ ~cmds[c].expired
<1> DEFINE Step ==
        \A s \in Session :
          os[s] = "running" /\ os'[s] = "gone" /\ boot' = boot => Named(s)
<1>1. ASSUME IInv, Next PROVE Step
  <2> USE DEF server, agent, network, host
  <2>0. os \in [Session -> {"none", "running", "closing", "gone"}] /\ boot \in Nat
    BY <1>1 DEF IInv, TypeOK
  <2>1. ASSUME NEW c \in Cmd, MayKill(c), Die(c)
        PROVE  Step
    <3>1. cmds[c] # NoCmd /\ bootOf[cmds[c].session] = boot /\ ~cmds[c].expired
      BY <1>1, <2>1 DEF IInv, History, MayKill, OfThisBoot, CommandsAreKnown
    <3>2. cmds[c].session \in Session
      <4>1. cmds[c] \in Command
        BY <1>1, <3>1 DEF IInv, TypeOK
      <4> QED
        BY <4>1 DEF Command
    <3>3. ASSUME NEW s \in Session, os[s] = "running", os'[s] = "gone"
          PROVE  s = cmds[c].session
      <4>1. number[s] = number[cmds[c].session] /\ bootOf[s] = boot
        BY <2>0, <2>1, <3>3 DEF Die
      <4> QED
        BY <1>1, <3>1, <3>2, <4>1 DEF IInv, History, NumbersUnique
    <3> QED
      BY <3>1, <3>3
  <2>2. ASSUME os' = os PROVE Step
    BY <2>2
  <2>3. CASE \E s \in Session : Login(s) \/ Logout(s) \/ Exit(s)
    BY <2>0, <2>3 DEF Login, Logout, Exit
  <2>4. CASE Reboot
    BY <2>0, <2>4 DEF Reboot
  <2>5. CASE \E c \in Cmd : Refuse(c) \/ Kill(c) \/ KillFails(c)
    BY <2>1, <2>2, <2>5 DEF Refuse, Kill, KillFails
  <2>6. CASE Send \/ SendFails \/ Receive \/ Ack \/ Crash \/ Restart
    BY <2>2, <2>6 DEF Send, SendFails, Receive, Ack, Crash, Restart
  <2>7. CASE ServerStep
    BY <2>2, <2>7 DEF ServerStep, IngestCurrent, RejectCurrent, IngestLate, RejectLate,
                      Terminate, Expire, Lapse, Revoke, Cleanup, Grow
  <2> QED
    BY <1>1, <2>3, <2>4, <2>5, <2>6, <2>7 DEF Next, HostStep, AgentStep
<1> HIDE DEF Step
<1>2. IInv /\ [Next]_vars => [Step]_vars
  BY <1>1
<1> QED
  BY <1>2, Inductive, PTL DEF Spec, KillsOnlyAsked, Step

-----------------------------------------------------------------------------
(* Before anything is past the retention cutoff. *)

\* An ingest keeps the rows that requests were made for, and ends one with
\* the success of its request.
LEMMA IngestKeepsRows ==
    ASSUME TypeOK, RowsStay, NEW r \in Request, Ingest(r)
    PROVE  RowsStay'
<1>1. ASSUME NEW c \in Cmd, cmds'[c] # NoCmd, Recent(cmds[c].session)'
      PROVE  /\ rows'[cmds'[c].session] # NoRow
             /\ cmds'[c].status = "succeeded" => rows'[cmds'[c].session].ended # "none"
  <2>1. /\ cmds[c] # NoCmd /\ cmds'[c].session = cmds[c].session
        /\ cmds'[c].status = "succeeded" =>
             \/ cmds[c].status = "succeeded"
             \/ \E x \in r.results : x.id = c /\ x.ok /\ cmds[c].status = "pending"
    BY <1>1, IngestCmds
  <2>2. cmds[c].session \in Session
    <3>1. cmds[c] \in Command
      BY <2>1 DEF TypeOK
    <3> QED
      BY <3>1 DEF Command
  <2> DEFINE s == cmds[c].session
  <2>3. rows[s] # NoRow /\ (cmds[c].status = "succeeded" => rows[s].ended # "none")
    BY <1>1, <2>1 DEF RowsStay, Recent, Ingest
  <2>4. cmds'[c].status = "succeeded" => rows[s].ended # "none" \/ Success(r, s)
    BY <2>1, <2>3 DEF Success, Applied
  <2> HIDE DEF s
  <2>5. s \in Session
    BY <2>2 DEF s
  <2>6. /\ rows'[s] # NoRow
        /\ rows[s].ended # "none" => rows'[s].ended # "none"
        /\ Success(r, s) => rows'[s].ended # "none"
    BY <2>3, <2>5, IngestRows
  <2>7. cmds'[c].session = s
    BY <2>1 DEF s
  <2> QED
    BY <2>4, <2>6, <2>7
<1> QED
  BY <1>1 DEF RowsStay, Recent

LEMMA NextRowsStay ==
    ASSUME IInv, RowsStay, [Next]_vars
    PROVE  RowsStay'
<1> USE DEF server, agent, network, host
<1>0. TypeOK /\ CommandsAreKnown /\ cmds \in [Cmd -> Command \cup {NoCmd}]
  BY DEF IInv, History, TypeOK
<1>a. ASSUME UNCHANGED <<rows, cmds, old>> PROVE RowsStay'
  BY <1>a DEF RowsStay, Recent
<1>1. ASSUME NEW s \in Session, Login(s) PROVE RowsStay'
  BY <1>1, <1>a DEF Login
<1>2. ASSUME NEW s \in Session, Logout(s) PROVE RowsStay'
  BY <1>2, <1>a DEF Logout
<1>3. ASSUME NEW s \in Session, Exit(s) PROVE RowsStay'
  BY <1>3, <1>a DEF Exit
<1>4. CASE Reboot
  BY <1>4, <1>a DEF Reboot
<1>5. CASE Send
  BY <1>5, <1>a DEF Send
<1>6. CASE SendFails
  BY <1>6, <1>a DEF SendFails
<1>7. CASE Receive
  BY <1>7, <1>a DEF Receive
<1>8. CASE Ack
  BY <1>8, <1>a DEF Ack
<1>9. CASE Crash
  BY <1>9, <1>a DEF Crash
<1>10. CASE Restart
  BY <1>10, <1>a DEF Restart
<1>11. ASSUME NEW c \in Cmd, Refuse(c) PROVE RowsStay'
  BY <1>11, <1>a DEF Refuse
<1>12. ASSUME NEW c \in Cmd, Kill(c) PROVE RowsStay'
  BY <1>12, <1>a DEF Kill
<1>13. ASSUME NEW c \in Cmd, KillFails(c) PROVE RowsStay'
  BY <1>13, <1>a DEF KillFails
<1>14. CASE IngestCurrent
  BY <1>14, <1>0, IngestKeepsRows, RequestIsTold DEF IngestCurrent
<1>15. CASE RejectCurrent
  BY <1>15, <1>a DEF RejectCurrent
<1>16. CASE IngestLate
  BY <1>16, <1>0, IngestKeepsRows, RequestIsTold DEF IngestLate
<1>17. CASE RejectLate
  BY <1>17, <1>a DEF RejectLate
<1>18. ASSUME NEW s \in Session, Terminate(s) PROVE RowsStay'
  <2> DEFINE k == [session |-> s, expired |-> FALSE, status |-> "pending"]
  <2>1. PICK c \in Cmd : cmds' = [cmds EXCEPT ![c] = k]
    BY <1>18 DEF Terminate
  <2>2. k.session = s /\ k.status = "pending"
    OBVIOUS
  <2>3. rows[s] # NoRow /\ rows' = rows /\ old' = old
    BY <1>18 DEF Terminate, ShownActive, NoRow
  <2> HIDE DEF k
  <2>4. cmds'[c] = k /\ \A d \in Cmd : d # c => cmds'[d] = cmds[d]
    BY <1>0, <2>1
  <2> QED
    BY <2>2, <2>3, <2>4 DEF RowsStay, Recent
<1>19. ASSUME NEW c \in Cmd, Expire(c) PROVE RowsStay'
  <2>1. cmds[c] \in Command
    BY <1>19, <1>0 DEF Expire, Pending, NoCmd
  <2> DEFINE k == [cmds[c] EXCEPT !.expired = TRUE]
  <2>2. k.status = cmds[c].status /\ k.session = cmds[c].session
    BY <2>1 DEF Command
  <2>3. cmds' = [cmds EXCEPT ![c] = k] /\ rows' = rows /\ old' = old /\ cmds[c] # NoCmd
    BY <1>19, <1>0, <2>1 DEF Expire, Command, NoCmd
  <2> HIDE DEF k
  <2>4. cmds'[c] = k /\ \A d \in Cmd : d # c => cmds'[d] = cmds[d]
    BY <1>0, <2>3
  <2> QED
    BY <2>2, <2>3, <2>4 DEF RowsStay, Recent
<1>20. CASE Lapse
  BY <1>20, <1>a DEF Lapse
<1>21. CASE Revoke
  BY <1>21, <1>a DEF Revoke
<1>22. CASE Cleanup
  <2> SUFFICES ASSUME NEW c \in Cmd, cmds'[c] # NoCmd, Recent(cmds[c].session)'
               PROVE  /\ rows'[cmds'[c].session] # NoRow
                      /\ cmds'[c].status = "succeeded" =>
                           rows'[cmds'[c].session].ended # "none"
    BY DEF RowsStay, Recent
  <2>1. /\ cmds[c] # NoCmd /\ cmds'[c].session = cmds[c].session
        /\ cmds'[c].status \in {cmds[c].status, "deleted"}
    BY <1>22, <1>0, CleanupType
  <2> DEFINE s == cmds[c].session
  <2>2. Recent(s) /\ rows[s] # NoRow /\ (cmds[c].status = "succeeded" => rows[s].ended # "none")
    BY <1>22, <2>1 DEF Cleanup, RowsStay, Recent
  <2>3. s \in Session /\ rows[s] \in Row
    BY <1>0, <2>1, <2>2 DEF Command, TypeOK, RowsStay
  <2>4. ~RowExpired(s)
    BY <2>2, <2>3 DEF RowExpired, Recent, Row
  <2>5. rows'[s] = rows[s]
    BY <1>22, <2>3, <2>4 DEF Cleanup
  <2> QED
    BY <2>1, <2>2, <2>5
<1>23. ASSUME NEW x \in Times, Grow(x) PROVE RowsStay'
  <2>1. rows' = rows /\ cmds' = cmds /\ old \subseteq old'
    BY <1>23 DEF Grow
  <2> QED
    BY <2>1 DEF RowsStay, Recent
<1>24. CASE UNCHANGED vars
  BY <1>24, <1>a DEF vars
<1> QED
  BY <1>1, <1>2, <1>3, <1>4, <1>5, <1>6, <1>7, <1>8, <1>9, <1>10, <1>11, <1>12,
     <1>13, <1>14, <1>15, <1>16, <1>17, <1>18, <1>19, <1>20, <1>21, <1>22, <1>23, <1>24
  DEF Next, HostStep, AgentStep, ServerStep

\* Until retention touches it, the row of a session a request has ended stays
\* ended, whatever stale reports and redelivered events arrive
\* (finishTerminations, upsertSession, updateActiveSessions).
THEOREM SuccessesEnd == Spec => []SucceededIsEnded
<1>1. Init => RowsStay
  BY DEF Init, RowsStay
<1>2. IInv /\ RowsStay /\ [Next]_vars => RowsStay'
  BY NextRowsStay
<1>3. IInv /\ RowsStay => SucceededIsEnded
  BY DEF RowsStay, SucceededIsEnded, NoCmd
<1> QED
  BY <1>1, <1>2, <1>3, Inductive, PTL DEF Spec

-----------------------------------------------------------------------------
(* Refinement: Sessions implements SessionRegister. *)

\* A row and a request as the register has them.
LEMMA ShownFacts ==
    ASSUME TypeOK, NEW s \in Session
    PROVE  /\ Shown(s) \in {"none", "open", "ended"}
           /\ Shown(s) = "none" <=> rows[s] = NoRow
           /\ Shown(s) = "ended" <=> rows[s].ended # "none"
BY DEF TypeOK, Shown, NoRow

LEMMA AskedFacts ==
    ASSUME TypeOK, NEW c \in Cmd
    PROVE  /\ Asked(c) \in Register!Asks \cup {Register!NoAsk}
           /\ Asked(c) = Register!NoAsk <=> cmds[c] = NoCmd
           /\ Asked(c).status = cmds[c].status
           /\ cmds[c] # NoCmd =>
                /\ Asked(c).session = cmds[c].session
                /\ cmds[c].session \in Session
                /\ Asked(c) = [session |-> cmds[c].session, status |-> cmds[c].status]
<1>1. CASE cmds[c] = NoCmd
  BY <1>1 DEF Asked, NoCmd, Register!NoAsk
<1>2. CASE cmds[c] # NoCmd
  <2>1. cmds[c] \in Command
    BY <1>2 DEF TypeOK
  <2>2. /\ cmds[c].session \in Session
        /\ cmds[c].status \in {"pending", "succeeded", "failed", "deleted"}
    BY <2>1 DEF Command
  <2> QED
    BY <1>2, <2>2 DEF Asked, Register!NoAsk, Register!Asks
<1> QED
  BY <1>1, <1>2

\* A step that only moves messages, clocks and times.
LEMMA RegisterStutter ==
    ASSUME UNCHANGED <<os, rows>>, \A c \in Cmd : Asked(c)' = Asked(c)
    PROVE  UNCHANGED Register!register
<1>1. \A s \in Session : Shown(s)' = Shown(s)
  BY DEF Shown
<1> QED
  BY <1>1 DEF Register!register

\* A login, a logout and an exit are Live.
LEMMA HostIsLive ==
    ASSUME TypeOK, NEW s \in Session, Login(s) \/ Logout(s) \/ Exit(s)
    PROVE  Register!Live
<1>1. UNCHANGED <<rows, cmds>>
  BY DEF Login, Logout, Exit, server
<1>2. UNCHANGED <<[t \in Session |-> Shown(t)], [c \in Cmd |-> Asked(c)]>>
  BY <1>1 DEF Shown, Asked
<1>3. \E step \in {<<"none", "running">>, <<"running", "closing">>, <<"closing", "gone">>} :
        os[s] = step[1] /\ os' = [os EXCEPT ![s] = step[2]]
  BY DEF Login, Logout, Exit
<1> QED
  BY <1>2, <1>3 DEF Register!Live

LEMMA RebootIsHostDown ==
    ASSUME TypeOK, Reboot
    PROVE  Register!HostDown
<1>1. UNCHANGED <<rows, cmds>>
  BY DEF Reboot, server
<1>2. UNCHANGED <<[t \in Session |-> Shown(t)], [c \in Cmd |-> Asked(c)]>>
  BY <1>1 DEF Shown, Asked
<1>3. os' = [s \in Session |-> IF os[s] = "none" THEN "none" ELSE "gone"]
  BY DEF Reboot, TypeOK, Alive
<1> QED
  BY <1>2, <1>3 DEF Register!HostDown

\* What an execution kills is the session its request names, or nothing.
LEMMA DieIsKill ==
    ASSUME IInv, NEW c \in Cmd, MayKill(c), Die(c), UNCHANGED <<rows, cmds>>
    PROVE  Register!Kill \/ UNCHANGED Register!register
<1>1. /\ cmds[c] # NoCmd /\ bootOf[cmds[c].session] = boot
      /\ cmds[c].session \in Session
  BY AskedFacts DEF IInv, History, MayKill, OfThisBoot, CommandsAreKnown
<1> DEFINE k == cmds[c].session
<1>2. os[k] # "none"
  BY <1>1 DEF IInv, History, CommandsAreReal
<1>3. \A s \in Session : number[s] = number[k] /\ bootOf[s] = boot => s = k
  BY <1>1 DEF IInv, History, NumbersUnique
<1>4. os' = IF os[k] \in Alive THEN [os EXCEPT ![k] = "gone"] ELSE os
  BY <1>1, <1>3 DEF Die, IInv, TypeOK
<1>5. UNCHANGED <<[t \in Session |-> Shown(t)], [d \in Cmd |-> Asked(d)]>>
  BY DEF Shown, Asked
<1>6. Asked(c) # Register!NoAsk /\ Asked(c).session = k
  BY <1>1, AskedFacts DEF IInv
<1>7. CASE os[k] \in Alive
  <2>1. os' = [os EXCEPT ![[d \in Cmd |-> Asked(d)][c].session] = "gone"]
    BY <1>4, <1>6, <1>7
  <2> QED
    BY <1>2, <1>5, <1>6, <2>1 DEF Register!Kill
<1>8. CASE os[k] \notin Alive
  BY <1>4, <1>5, <1>8 DEF Register!register
<1> QED
  BY <1>7, <1>8

\* requestTermination is Ask.
LEMMA TerminateIsAsk ==
    ASSUME TypeOK, NEW s \in Session, Terminate(s)
    PROVE  Register!Ask
<1> DEFINE k == [session |-> s, expired |-> FALSE, status |-> "pending"]
           asks == [d \in Cmd |-> Asked(d)]
<1>1. PICK c \in Cmd : cmds[c] = NoCmd /\ cmds' = [cmds EXCEPT ![c] = k]
  BY DEF Terminate
<1>2. UNCHANGED <<os, rows>> /\ rows[s] # NoRow /\ rows[s].ended = "none"
  BY DEF Terminate, ShownActive, host, NoRow
<1>3. cmds'[c] = k /\ \A d \in Cmd \ {c} : cmds'[d] = cmds[d]
  BY <1>1 DEF TypeOK
<1>4. k # NoCmd /\ k.session = s /\ k.status = "pending"
  BY DEF NoCmd
<1> HIDE DEF k
<1>5. /\ Asked(c) = Register!NoAsk
      /\ Asked(c)' = [session |-> s, status |-> "pending"]
      /\ \A d \in Cmd \ {c} : Asked(d)' = Asked(d)
  BY <1>1, <1>3, <1>4 DEF Asked, NoCmd, Register!NoAsk
<1>6. asks' = [asks EXCEPT ![c] = [session |-> s, status |-> "pending"]]
  BY <1>5
<1>7. Shown(s) = "open" /\ UNCHANGED [t \in Session |-> Shown(t)]
  BY <1>2 DEF Shown
<1> QED
  BY <1>2, <1>5, <1>6, <1>7 DEF Register!Ask

\* An ingest is Record: what it shows has happened, and what it answers was
\* asked and not yet answered.
LEMMA IngestIsRecord ==
    ASSUME IInv, TypeOK', NEW r \in Request, Ingest(r), UNCHANGED host,
           r.events \subseteq Posted, r.results \subseteq Told
    PROVE  Register!Record
<1>0. TypeOK /\ UNCHANGED os
  BY DEF IInv, host
<1>1. ASSUME NEW s \in Session
      PROVE  /\ Shown(s)' \in {"none", "open", "ended"}
             /\ \/ Shown(s)' = Shown(s)
                \/ Shown(s) = "none" /\ Shown(s)' = "open" /\ os[s] # "none"
                \/ Shown(s)' = "ended" /\ os[s] \in {"closing", "gone"}
  <2>1. /\ Shown(s)' \in {"none", "open", "ended"}
        /\ Shown(s)' = "none" <=> rows'[s] = NoRow
        /\ Shown(s)' = "ended" <=> rows'[s].ended # "none"
    BY <1>0, IngestRows DEF Shown, NoRow
  <2>2. /\ rows[s] # NoRow => rows'[s] # NoRow
        /\ rows'[s] # NoRow => rows[s] # NoRow \/ <<"start", s>> \in r.events
                               \/ <<"end", s>> \in r.events
        /\ rows[s].ended # "none" => rows'[s].ended # "none"
        /\ rows'[s].ended # "none" =>
             rows[s].ended # "none" \/ <<"end", s>> \in r.events \/ Success(r, s)
    BY <1>0, IngestRows
  <2>3. /\ <<"start", s>> \in r.events => os[s] # "none"
        /\ <<"end", s>> \in r.events => os[s] \in {"closing", "gone"}
    BY DEF IInv, History, EventsAreReal, Ended
  <2>4. Success(r, s) => os[s] = "gone"
    BY DEF Success, Applied, IInv, History, ResultsAreTrue
  <2> QED
    BY <1>0, <2>1, <2>2, <2>3, <2>4, ShownFacts
<1>2. ASSUME NEW c \in Cmd
      PROVE  /\ Asked(c)' \in Register!Asks \cup {Register!NoAsk}
             /\ \/ Asked(c)' = Asked(c)
                \/ /\ Asked(c).status = "pending"
                   /\ \/ Asked(c)' = [Asked(c) EXCEPT !.status = "failed"]
                      \/ /\ Asked(c)' = [Asked(c) EXCEPT !.status = "succeeded"]
                         /\ \E k \in Session :
                              /\ Asked(c).session = k /\ os[k] = "gone"
                              /\ Shown(k) = "open" => Shown(k)' = "ended"
  <2>1. /\ cmds'[c] = NoCmd <=> cmds[c] = NoCmd
        /\ cmds[c] # NoCmd => cmds'[c].session = cmds[c].session
        /\ cmds[c].status # "pending" => cmds'[c].status = cmds[c].status
        /\ cmds'[c].status \in {cmds[c].status, "succeeded", "failed"}
        /\ cmds'[c].status = "succeeded" =>
             \/ cmds[c].status = "succeeded"
             \/ \E x \in r.results : x.id = c /\ x.ok /\ cmds[c].status = "pending"
    BY <1>0, IngestCmds
  <2>2. CASE cmds[c] = NoCmd
    <3>1. Asked(c)' = Asked(c)
      BY <2>1, <2>2 DEF Asked
    <3> QED
      BY <1>0, <3>1, AskedFacts
  <2>3. CASE cmds[c] # NoCmd
    <3>k. PICK k \in Session : cmds[c].session = k
      BY <1>0, <2>3, AskedFacts
    <3>1. /\ Asked(c) = [session |-> k, status |-> cmds[c].status]
          /\ Asked(c)' = [session |-> k, status |-> cmds'[c].status]
          /\ Asked(c)' \in Register!Asks \cup {Register!NoAsk}
      <4>1. /\ Asked(c) = [session |-> k, status |-> cmds[c].status]
            /\ Asked(c)' = [session |-> k, status |-> cmds'[c].status]
        BY <1>0, <2>1, <2>3, <3>k, AskedFacts DEF Asked
      <4>2. cmds'[c] \in Command
        BY <2>1, <2>3 DEF TypeOK
      <4> QED
        BY <4>1, <4>2 DEF Command, Register!Asks
    <3>0. \A x : [Asked(c) EXCEPT !.status = x] = [session |-> k, status |-> x]
      BY <3>1
    <3>2. CASE cmds'[c].status = cmds[c].status
      BY <3>1, <3>2
    <3>3. CASE cmds[c].status = "pending" /\ cmds'[c].status = "failed"
      BY <3>0, <3>1, <3>3
    <3>4. CASE cmds[c].status = "pending" /\ cmds'[c].status = "succeeded"
      <4>1. PICK x \in r.results : x.id = c /\ x.ok /\ cmds[c].status = "pending"
        BY <2>1, <3>4
      <4>2. os[k] = "gone"
        BY <3>k, <4>1 DEF IInv, History, ResultsAreTrue
      <4>3. Success(r, k)
        BY <3>k, <4>1 DEF Success, Applied
      <4>4. rows[k] # NoRow => rows'[k].ended # "none"
        BY <1>0, <4>3, IngestRows
      <4>5. Shown(k) = "open" => Shown(k)' = "ended"
        BY <4>4 DEF Shown, NoRow
      <4> QED
        BY <3>0, <3>1, <3>4, <4>2, <4>5
    <3> QED
      BY <2>1, <3>2, <3>3, <3>4
  <2> QED
    BY <2>2, <2>3
<1>3. \A s \in Session : Register!Showing(s)
  BY <1>1 DEF Register!Showing
<1>4. ASSUME NEW c \in Cmd PROVE Register!Answering(c)
  <2>1. Asked(c)' = Asked(c) => Register!Answering(c)
    BY DEF Register!Answering
  <2>2. Asked(c).status = "pending" /\ Asked(c)' = [Asked(c) EXCEPT !.status = "failed"] =>
          Register!Answering(c)
    BY DEF Register!Answering
  <2>3. /\ Asked(c).status = "pending"
        /\ Asked(c)' = [Asked(c) EXCEPT !.status = "succeeded"]
        /\ \E k \in Session :
             /\ Asked(c).session = k /\ os[k] = "gone"
             /\ Shown(k) = "open" => Shown(k)' = "ended"
        => Register!Answering(c)
    BY DEF Register!Answering
  <2> QED
    BY <1>2, <2>1, <2>2, <2>3
<1> QED
  BY <1>0, <1>1, <1>2, <1>3, <1>4 DEF Register!Record

\* Retention is Forget.
LEMMA CleanupIsForget ==
    ASSUME IInv, Cleanup
    PROVE  Register!Forget
<1> DEFINE ss == {s \in Session : RowExpired(s)}
           cs == {c \in Cmd : <<"cmd", c>> \in old}
<1>1. TypeOK /\ UNCHANGED os /\ \A c \in cs : cmds[c] # NoCmd
  BY DEF IInv, History, CommandsAreKnown, Cleanup, host
<1>2. ASSUME NEW s \in Session
      PROVE  Shown(s)' = IF s \in ss THEN "none" ELSE Shown(s)
  <2>1. rows'[s] = IF s \in ss THEN NoRow ELSE rows[s]
    BY DEF Cleanup
  <2> QED
    BY <2>1 DEF Shown
<1>3. ASSUME NEW c \in Cmd
      PROVE  Asked(c)' = IF c \in cs THEN [Asked(c) EXCEPT !.status = "deleted"]
                         ELSE Asked(c)
  <2>1. CASE c \in cs
    <3>1. cmds[c] \in Command /\ cmds'[c] = [cmds[c] EXCEPT !.status = "deleted"]
      BY <1>1, <2>1 DEF Cleanup, TypeOK
    <3>2. cmds'[c] # NoCmd /\ cmds'[c].session = cmds[c].session
          /\ cmds'[c].status = "deleted"
      BY <3>1 DEF Command, NoCmd
    <3> QED
      BY <1>1, <2>1, <3>2 DEF Asked
  <2>2. CASE c \notin cs
    BY <2>2 DEF Cleanup, Asked
  <2> QED
    BY <2>1, <2>2
<1>4. cs \in SUBSET {c \in Cmd : Asked(c) # Register!NoAsk}
  BY <1>1, AskedFacts
<1> HIDE DEF ss, cs
<1>5. ss \in SUBSET Session
  BY DEF ss
<1> QED
  BY <1>1, <1>2, <1>3, <1>4, <1>5 DEF Register!Forget

\* Every behaviour of host, agent and server is a behaviour of the register, for
\* every set of sessions, with and without retention: what it shows has happened,
\* only sessions named by a request are killed, and each request is answered once
\* and truly.
THEOREM SessionsImplementRegister == Spec => ImplementsSessionRegister
<1>1. Init => Register!Init
  BY DEF Init, Register!Init, Register!NoAsk, Shown, Asked, NoCmd
<1>2. IInv /\ [Next]_vars => [Register!Next]_(Register!register)
  <2> SUFFICES ASSUME IInv, [Next]_vars
               PROVE  Register!Next \/ UNCHANGED Register!register
    OBVIOUS
  <2>0. TypeOK /\ TypeOK'
    BY NextHistory DEF IInv
  <2>1. CASE \E s \in Session : Login(s) \/ Logout(s) \/ Exit(s)
    BY <2>0, <2>1, HostIsLive DEF Register!Next
  <2>2. CASE Reboot
    BY <2>0, <2>2, RebootIsHostDown DEF Register!Next
  <2>3. CASE \E c \in Cmd : (Kill(c) \/ KillFails(c)) /\ Die(c)
    BY <2>3, DieIsKill DEF Kill, KillFails, server, Register!Next
  <2>4. CASE \E s \in Session : Terminate(s)
    BY <2>0, <2>4, TerminateIsAsk DEF Register!Next
  <2>5. CASE IngestCurrent
    <3>1. /\ wire.request \in Request /\ wire.request.events \subseteq Posted
          /\ wire.request.results \subseteq Told
      BY <2>0, <2>5, WireCases DEF IngestCurrent, Posted, Told, TypeOK
    <3> QED
      BY <2>0, <2>5, <3>1, IngestIsRecord DEF IngestCurrent, Register!Next
  <2>6. CASE IngestLate
    <3>1. PICK r \in late : Ingest(r) /\ UNCHANGED host
      BY <2>6 DEF IngestLate
    <3>2. r \in Request /\ r.events \subseteq Posted /\ r.results \subseteq Told
      BY <2>0 DEF Posted, Told, TypeOK
    <3> QED
      BY <2>0, <3>1, <3>2, IngestIsRecord DEF Register!Next
  <2>7. CASE Cleanup
    BY <2>7, CleanupIsForget DEF Register!Next
  <2>8. CASE \E c \in Cmd : Expire(c)
    <3>1. PICK c \in Cmd : Expire(c)
      BY <2>8
    <3>2. cmds[c] \in Command /\ cmds[c] # NoCmd
      BY <2>0, <3>1 DEF Expire, Pending, NoCmd, TypeOK
    <3>3. /\ cmds'[c] = [cmds[c] EXCEPT !.expired = TRUE]
          /\ \A d \in Cmd \ {c} : cmds'[d] = cmds[d]
          /\ UNCHANGED <<os, rows>>
      BY <2>0, <3>1 DEF Expire, TypeOK, host
    <3>4. /\ cmds'[c] # NoCmd /\ cmds'[c].session = cmds[c].session
          /\ cmds'[c].status = cmds[c].status
      BY <3>2, <3>3 DEF Command, NoCmd
    <3>5. \A d \in Cmd : Asked(d)' = Asked(d)
      BY <3>2, <3>3, <3>4 DEF Asked
    <3> QED
      BY <3>3, <3>5, RegisterStutter
  <2>9. CASE UNCHANGED <<os, rows, cmds>>
    <3>1. \A d \in Cmd : Asked(d)' = Asked(d)
      BY <2>9 DEF Asked
    <3> QED
      BY <2>9, <3>1, RegisterStutter
  <2>10. CASE \/ Send \/ SendFails \/ Receive \/ Ack \/ Crash \/ Restart
              \/ \E c \in Cmd : Refuse(c) \/ (KillFails(c) /\ UNCHANGED <<os, outbox>>)
              \/ RejectCurrent \/ RejectLate \/ Lapse \/ Revoke
              \/ (\E x \in Times : Grow(x)) \/ UNCHANGED vars
    <3>1. UNCHANGED <<os, rows, cmds>>
      BY <2>10
      DEF Send, SendFails, Receive, Ack, Crash, Restart, Refuse, KillFails,
          RejectCurrent, RejectLate, Lapse, Revoke, Grow, host, server, vars
    <3> QED
      BY <2>9, <3>1
  <2>11. \A c \in Cmd : /\ Kill(c) => Die(c)
                        /\ KillFails(c) => Die(c) \/ UNCHANGED <<os, outbox>>
    BY DEF Kill, KillFails
  <2> QED
    BY <2>1, <2>2, <2>3, <2>4, <2>5, <2>6, <2>7, <2>8, <2>10, <2>11
    DEF Next, HostStep, AgentStep, ServerStep
<1> QED
  BY <1>1, <1>2, Inductive, PTL DEF Spec, ImplementsSessionRegister, Register!Spec
=============================================================================
