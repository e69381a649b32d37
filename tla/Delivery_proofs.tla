--------------------------- MODULE Delivery_proofs ---------------------------
(***************************************************************************)
(* Theorems about Delivery, for every set of events, every size, limit and *)
(* bound.  The argument is one inductive invariant: an open spool          *)
(* transaction only adds rows and has counted what it dropped, and what    *)
(* the agent waits for or is about to acknowledge is backed up.  A second  *)
(* one is about the queue table: its rowids, its bytes, its next batch.    *)
(***************************************************************************)
EXTENDS Delivery, TLAPS, FiniteSetTheorems

\* The open transaction keeps every row of the table it started from.
TxKeepsRows ==
    pc = "commit" => \A e \in Event : rowid[e] # 0 => tx.rowid[e] # 0

\* What the open transaction has passed and not kept.
TxLost == {e \in tx.done : /\ tx.rowid[e] = 0
                           /\ e \notin everStored
                           /\ e \notin collected}

\* Its counter has grown by at least that much.
TxCountsLost ==
    pc = "commit" => tx.dropped >= dropped + Cardinality(TxLost)

\* The request on the wire is the batch the agent remembers, and a positive
\* answer means that batch is committed centrally.
WireMatchesSent ==
    /\ wire.state # "none" => pc = "wait"
    /\ wire.state = "sent" => wire.request.events = sent
    /\ wire.state = "ok" => sent \subseteq everStored
    /\ pc = "ack" => sent \subseteq everStored

\* RequestsAreBackedUp, request by request.
BackedUp(es) == \A e \in es : rowid[e] # 0 \/ e \in everStored

RequestsBackedUp ==
    /\ wire.state = "sent" => BackedUp(wire.request.events)
    /\ \A r \in late : BackedUp(r.events)

IInv ==
    /\ TypeOK
    /\ TxKeepsRows
    /\ TxCountsLost
    /\ WireMatchesSent
    /\ RequestsBackedUp
    /\ LossIsCounted

-----------------------------------------------------------------------------
\* A subset of a finite set of events has at most its cardinality.
LEMMA SubsetCard ==
    ASSUME NEW S \in SUBSET Event, NEW T \in SUBSET S
    PROVE  /\ Cardinality(S) \in Nat
           /\ Cardinality(T) \in Nat
           /\ Cardinality(T) <= Cardinality(S)
<1>1. IsFiniteSet(Event)
  BY DeliveryAssumption
<1>2. IsFiniteSet(S)
  BY <1>1, FS_Subset
<1>3. IsFiniteSet(T) /\ Cardinality(T) <= Cardinality(S)
  BY <1>2, FS_Subset
<1> QED
  BY <1>2, <1>3, FS_CardinalityType

\* One more event adds at most one.
LEMMA AddCard ==
    ASSUME NEW S \in SUBSET Event, NEW e \in Event
    PROVE  Cardinality(S \cup {e}) <= Cardinality(S) + 1
<1>1. IsFiniteSet(S)
  BY DeliveryAssumption, FS_Subset
<1>2. Cardinality(S) \in Nat
  BY <1>1, FS_CardinalityType
<1> QED
  BY <1>1, <1>2, FS_AddElement

\* Two sets together have at most the sum.
LEMMA UnionCard ==
    ASSUME NEW S \in SUBSET Event, NEW T \in SUBSET Event
    PROVE  Cardinality(S \cup T) <= Cardinality(S) + Cardinality(T)
<1>1. IsFiniteSet(S) /\ IsFiniteSet(T) /\ IsFiniteSet(S \cap T)
  BY DeliveryAssumption, FS_Subset
<1>2. /\ Cardinality(S) \in Nat
      /\ Cardinality(T) \in Nat
      /\ Cardinality(S \cap T) \in Nat
  BY <1>1, FS_CardinalityType
<1>3. Cardinality(S \cup T)
        = Cardinality(S) + Cardinality(T) - Cardinality(S \cap T)
  BY <1>1, FS_Union
<1> QED
  BY <1>2, <1>3

\* A request on the wire has the type of a request.
LEMMA WireType ==
    ASSUME TypeOK, wire.state = "sent"
    PROVE  wire.request \in Request
BY DEF TypeOK, Wire

-----------------------------------------------------------------------------
LEMMA InitIInv == Init => IInv
<1> SUFFICES ASSUME Init PROVE IInv
  OBVIOUS
<1>1. TypeOK
  BY DeliveryAssumption
  DEF Init, TypeOK, NoTx, NoWire, Tx, Wire, Health, Report
<1>2. Missing = {} /\ Cardinality(Missing) = 0
  BY FS_EmptySet DEF Init, Missing
<1> QED
  BY <1>1, <1>2
  DEF Init, IInv, TxKeepsRows, TxCountsLost, WireMatchesSent,
      RequestsBackedUp, LossIsCounted, NoWire

\* Type correctness is preserved by every action.
LEMMA NextType == TypeOK /\ [Next]_vars => TypeOK'
<1> SUFFICES ASSUME TypeOK, [Next]_vars PROVE TypeOK'
  OBVIOUS
<1> USE DeliveryAssumption DEF TypeOK
<1>1. CASE Collect
  BY <1>1 DEF Collect, spool, network, server, Tx
<1>2. CASE CommitEvent
  <2>1. NextRow(tx.rowid) \subseteq Nat
    BY DEF NextRow, Tx
  <2>2. tx' \in Tx
    BY <1>2, <2>1 DEF CommitEvent, Passed, Tx
  <2> QED
    BY <1>2, <2>2 DEF CommitEvent, spool, network, server
<1>3. CASE CommitDone
  BY <1>3 DEF CommitDone, network, server, Tx, NoTx, Health
<1>4. CASE CollectFails
  BY <1>4 DEF CollectFails, spool, network, server, Tx, NoTx, Health
<1>5. CASE Backoff
  BY <1>5 DEF Backoff, spool, network, server, Health
<1>6. CASE Send
  BY <1>6 DEF Send, spool, server, Health, Wire, Request, Report
<1>7. ASSUME Abandon PROVE wire' \in Wire /\ late' \subseteq Request
  BY <1>7, WireType DEF Abandon, NoWire, Wire
<1>8. CASE SendFails
  BY <1>7, <1>8 DEF SendFails, spool, server
<1>9. CASE SendSucceeds
  BY <1>9 DEF SendSucceeds, spool, server, NoWire, Wire
<1>10. CASE Ack
  BY <1>10 DEF Ack, network, server
<1>11. CASE AckFails
  BY <1>11 DEF AckFails, spool, network, server
<1>12. CASE Crash
  BY <1>7, <1>12 DEF Crash, spool, server, NoTx, Tx, Health
<1>13. CASE Restart
  BY <1>13 DEF Restart, spool, network, server
<1>14. CASE IngestCurrent
  BY <1>14, WireType DEF IngestCurrent, Ingest, spool, agent, Wire, Request
<1>15. CASE RejectCurrent
  BY <1>15 DEF RejectCurrent, spool, agent, server, Wire
<1>16. CASE IngestLate
  BY <1>16 DEF IngestLate, Ingest, spool, agent, Request
<1>17. CASE RejectLate
  BY <1>17 DEF RejectLate, spool, agent, server
<1>18. CASE RotateToken
  BY <1>18 DEF RotateToken, spool, agent, network
<1>19. CASE Revoke
  BY <1>19 DEF Revoke, spool, agent, network
<1>20. CASE InstallToken
  BY <1>20 DEF InstallToken, spool, network, server
<1>21. CASE SetRetention
  BY <1>21 DEF SetRetention, spool, agent, network
<1>22. CASE Cleanup
  BY <1>22 DEF Cleanup, spool, agent, network
<1>23. CASE Tick
  BY <1>23 DEF Tick, spool, agent, network
<1>24. CASE UNCHANGED vars
  BY <1>24 DEF vars, spool, agent, network, server
<1> QED
  BY <1>1, <1>2, <1>3, <1>4, <1>5, <1>6, <1>8, <1>9, <1>10, <1>11, <1>12,
     <1>13, <1>14, <1>15, <1>16, <1>17, <1>18, <1>19, <1>20, <1>21, <1>22,
     <1>23, <1>24
  DEF Next, AgentStep, ServerStep

-----------------------------------------------------------------------------
\* LossIsCounted is kept by a step that passes no new event, does not shrink
\* the counter and loses no row that is not recorded.
LEMMA MissingShrinks ==
    ASSUME TypeOK, TypeOK', LossIsCounted,
           collected' = collected, dropped' = dropped,
           everStored \subseteq everStored',
           \A e \in Event : rowid[e] # 0 => rowid'[e] # 0 \/ e \in everStored'
    PROVE  LossIsCounted'
<1>1. Missing \in SUBSET Event /\ Missing' \in SUBSET Missing
  BY DEF Missing, Queued, QueuedIn, TypeOK
<1>2. /\ Cardinality(Missing) \in Nat
      /\ Cardinality(Missing') \in Nat
      /\ Cardinality(Missing') <= Cardinality(Missing)
  BY <1>1, SubsetCard
<1> QED
  BY <1>2 DEF LossIsCounted, TypeOK

\* TxCountsLost is kept by a step outside the spool.
LEMMA TxLostShrinks ==
    ASSUME TypeOK, TypeOK', TxCountsLost,
           UNCHANGED <<tx, dropped, collected, pc>>,
           everStored \subseteq everStored'
    PROVE  TxCountsLost'
<1>1. TxLost \in SUBSET Event /\ TxLost' \in SUBSET TxLost
  BY DEF TxLost, TypeOK, Tx
<1>2. /\ Cardinality(TxLost) \in Nat
      /\ Cardinality(TxLost') \in Nat
      /\ Cardinality(TxLost') <= Cardinality(TxLost)
  BY <1>1, SubsetCard
<1> QED
  BY <1>2 DEF TxCountsLost, TypeOK, Tx

\* A step that touches neither the spool nor what is on the network, and
\* leaves the agent in a state that is neither committing nor acknowledging.
LEMMA QuietStep ==
    ASSUME IInv, TypeOK',
           UNCHANGED <<rowid, dropped, collected, everStored>>,
           pc' \notin {"commit", "ack"},
           late' \subseteq late \cup (IF wire.state = "sent" THEN {wire.request} ELSE {}),
           (wire' = wire /\ pc # "wait") \/ wire'.state = "none"
    PROVE  IInv'
<1>1. LossIsCounted'
  BY MissingShrinks DEF IInv, TypeOK
<1>2. TxKeepsRows' /\ TxCountsLost'
  BY DEF TxKeepsRows, TxCountsLost
<1>3. WireMatchesSent'
  BY DEF IInv, WireMatchesSent
<1>4. RequestsBackedUp'
  BY DEF IInv, RequestsBackedUp, BackedUp
<1> QED
  BY <1>1, <1>2, <1>3, <1>4 DEF IInv

\* A step of the server or the operator that records no event.
LEMMA ServerQuietStep ==
    ASSUME IInv, TypeOK', UNCHANGED <<rowid, dropped, collected, everStored>>,
           UNCHANGED <<pc, tx, sent>>, late' \subseteq late,
           (wire'.state = "error" /\ wire.state = "sent") \/ wire' = wire
    PROVE  IInv'
<1>1. LossIsCounted'
  BY MissingShrinks DEF IInv, TypeOK
<1>2. TxKeepsRows'
  BY DEF IInv, TxKeepsRows
<1>3. TxCountsLost'
  BY TxLostShrinks DEF IInv
<1>4. WireMatchesSent'
  BY DEF IInv, WireMatchesSent
<1>5. RequestsBackedUp'
  BY DEF IInv, RequestsBackedUp, BackedUp
<1> QED
  BY <1>1, <1>2, <1>3, <1>4, <1>5 DEF IInv

\* A committed ingest.
LEMMA IngestStep ==
    ASSUME IInv, TypeOK', NEW r \in Request, Ingest(r),
           UNCHANGED <<spool, agent>>, late' \subseteq late,
           \/ wire' = wire
           \/ wire.state = "sent" /\ r = wire.request /\ wire' = [state |-> "ok"]
    PROVE  IInv'
<1>0. everStored \subseteq everStored' /\ r.events \subseteq everStored'
  BY DEF Ingest
<1>1. LossIsCounted'
  BY <1>0, MissingShrinks DEF IInv, spool
<1>2. TxKeepsRows'
  BY DEF IInv, TxKeepsRows, spool, agent
<1>3. TxCountsLost'
  BY <1>0, TxLostShrinks DEF IInv, spool, agent
<1>4. WireMatchesSent'
  BY <1>0 DEF IInv, WireMatchesSent, agent
<1>5. RequestsBackedUp'
  BY <1>0 DEF IInv, RequestsBackedUp, BackedUp, spool
<1> QED
  BY <1>1, <1>2, <1>3, <1>4, <1>5 DEF IInv

LEMMA CollectStep == ASSUME IInv, TypeOK', Collect PROVE IInv'
<1>1. LossIsCounted'
  BY MissingShrinks DEF IInv, Collect, spool, server
<1>2. TxKeepsRows'
  BY DEF IInv, TxKeepsRows, Collect, spool
<1>3. TxCountsLost'
  <2>1. PICK gap \in {0, 1} : tx'.dropped = dropped + gap
    BY DEF Collect
  <2>2. TxLost' = {}
    BY DEF Collect, TxLost
  <2> QED
    BY <2>1, <2>2, FS_EmptySet DEF TxCountsLost, IInv, TypeOK, Collect, spool
<1>4. WireMatchesSent'
  BY DEF IInv, WireMatchesSent, Collect, network, server
<1>5. RequestsBackedUp'
  BY DEF IInv, RequestsBackedUp, BackedUp, Collect, spool, network, server
<1> QED
  BY <1>1, <1>2, <1>3, <1>4, <1>5 DEF IInv

LEMMA CommitEventStep == ASSUME IInv, TypeOK', CommitEvent PROVE IInv'
<1> USE DEF IInv
<1>1. LossIsCounted'
  BY MissingShrinks DEF CommitEvent, spool, server
<1>2. PICK e \in tx.todo :
        /\ tx'.done = tx.done \cup {e}
        /\ \/ /\ tx.rowid[e] # 0
              /\ tx'.rowid = tx.rowid /\ tx'.dropped = tx.dropped
           \/ tx'.rowid = tx.rowid /\ tx'.dropped = tx.dropped + 1
           \/ /\ \E n \in NextRow(tx.rowid) :
                   tx'.rowid = [tx.rowid EXCEPT ![e] = n]
              /\ tx'.dropped = tx.dropped
  BY DEF CommitEvent, Passed
<1>3. e \in Event /\ tx.rowid \in [Event -> Nat] /\ tx.dropped \in Nat
  BY DEF TypeOK, Tx
<1>4. \A n \in NextRow(tx.rowid) : n # 0
  BY <1>3 DEF NextRow
<1>5. TxKeepsRows'
  BY <1>2, <1>3, <1>4 DEF TxKeepsRows, CommitEvent, spool
<1>6. TxCountsLost'
  <2>1. TxLost \in SUBSET Event /\ TxLost' \in SUBSET Event
    BY DEF TxLost, TypeOK, Tx
  <2>2. /\ Cardinality(TxLost) \in Nat /\ Cardinality(TxLost') \in Nat
        /\ Cardinality(TxLost \cup {e}) \in Nat
    BY <1>3, <2>1, SubsetCard
  <2>3. tx.dropped >= dropped + Cardinality(TxLost)
    BY DEF TxCountsLost, CommitEvent
  <2>4. CASE tx'.rowid = tx.rowid /\ tx'.dropped = tx.dropped + 1
    <3>1. TxLost' \in SUBSET (TxLost \cup {e})
      BY <1>2, <2>4 DEF TxLost, CommitEvent, spool, server
    <3>2. Cardinality(TxLost') <= Cardinality(TxLost) + 1
      BY <1>3, <2>1, <2>2, <3>1, SubsetCard, AddCard
    <3> QED
      BY <1>3, <2>2, <2>3, <2>4, <3>2
      DEF TxCountsLost, CommitEvent, spool, TypeOK
  <2>5. CASE tx'.rowid[e] # 0 /\ tx'.dropped = tx.dropped
    <3>0. \A f \in Event : f # e => tx'.rowid[f] = tx.rowid[f]
      BY <1>2, <1>3
    <3>1. TxLost' \in SUBSET TxLost
      BY <1>2, <1>3, <2>1, <2>5, <3>0
      DEF TxLost, CommitEvent, spool, server
    <3>2. Cardinality(TxLost') <= Cardinality(TxLost)
      BY <2>1, <3>1, SubsetCard
    <3> QED
      BY <1>3, <2>2, <2>3, <2>5, <3>2
      DEF TxCountsLost, CommitEvent, spool, TypeOK
  <2> QED
    BY <1>2, <1>3, <1>4, <2>4, <2>5
<1>7. WireMatchesSent'
  BY DEF WireMatchesSent, CommitEvent, network, server
<1>8. RequestsBackedUp'
  BY DEF RequestsBackedUp, BackedUp, CommitEvent, spool, network, server
<1> QED
  BY <1>1, <1>5, <1>6, <1>7, <1>8

LEMMA CommitDoneStep == ASSUME IInv, TypeOK', CommitDone PROVE IInv'
<1> USE DEF IInv
<1>1. LossIsCounted'
  <2>1. Missing \in SUBSET Event /\ TxLost \in SUBSET Event
    BY DEF Missing, TxLost, TypeOK, Tx
  <2>2. Missing' \in SUBSET (Missing \cup TxLost)
    BY DEF Missing, TxLost, CommitDone, Queued, QueuedIn, TxKeepsRows, server,
           TypeOK
  <2>3. /\ Cardinality(Missing) \in Nat /\ Cardinality(TxLost) \in Nat
        /\ Cardinality(Missing') \in Nat
        /\ Cardinality(Missing \cup TxLost) \in Nat
        /\ Cardinality(Missing') <= Cardinality(Missing \cup TxLost)
    BY <2>1, <2>2, SubsetCard
  <2>4. Cardinality(Missing \cup TxLost)
          <= Cardinality(Missing) + Cardinality(TxLost)
    BY <2>1, UnionCard
  <2>5. dropped' >= dropped + Cardinality(TxLost)
    BY DEF CommitDone, TxCountsLost
  <2> QED
    BY <2>3, <2>4, <2>5 DEF LossIsCounted, TypeOK
<1>2. TxKeepsRows' /\ TxCountsLost'
  BY DEF TxKeepsRows, TxCountsLost, CommitDone
<1>3. WireMatchesSent'
  BY DEF WireMatchesSent, CommitDone, network, server
<1>4. \A es \in SUBSET Event : BackedUp(es) => BackedUp(es)'
  BY DEF BackedUp, CommitDone, TxKeepsRows, server
<1>5. RequestsBackedUp'
  BY <1>4, WireType
  DEF RequestsBackedUp, CommitDone, network, server, TypeOK, Request
<1> QED
  BY <1>1, <1>2, <1>3, <1>5

LEMMA AckStep == ASSUME IInv, TypeOK', Ack PROVE IInv'
<1> USE DEF IInv
<1>1. \A e \in Event : rowid[e] # 0 => rowid'[e] # 0 \/ e \in everStored'
  BY DEF Ack, WireMatchesSent, server
<1>2. LossIsCounted'
  BY <1>1, MissingShrinks DEF Ack, server
<1>3. TxKeepsRows' /\ TxCountsLost'
  BY DEF TxKeepsRows, TxCountsLost, Ack
<1>4. WireMatchesSent'
  BY DEF WireMatchesSent, Ack, network, server
<1>5. \A es \in SUBSET Event : BackedUp(es) => BackedUp(es)'
  BY <1>1 DEF BackedUp, Ack, server
<1>6. RequestsBackedUp'
  BY <1>5, WireType DEF RequestsBackedUp, Ack, network, TypeOK, Request
<1> QED
  BY <1>2, <1>3, <1>4, <1>6

\* Each action keeps the inductive invariant.
LEMMA NextIInv == IInv /\ [Next]_vars => IInv'
<1> SUFFICES ASSUME IInv, [Next]_vars PROVE IInv'
  OBVIOUS
<1>0. TypeOK'
  BY NextType DEF IInv
<1>1. CASE Collect
  BY <1>0, <1>1, CollectStep
<1>2. CASE CommitEvent
  BY <1>0, <1>2, CommitEventStep
<1>3. CASE CommitDone
  BY <1>0, <1>3, CommitDoneStep
<1>4. CASE CollectFails
  <2>1. pc # "wait"
    BY <1>4 DEF CollectFails
  <2> QED
    BY <1>0, <1>4, <2>1, QuietStep
    DEF CollectFails, spool, network, server
<1>5. CASE Backoff
  BY <1>0, <1>5, QuietStep DEF Backoff, spool, network, server
<1>6. CASE Send
  <2>1. PICK es \in SUBSET Event :
          IsBatch(es) /\ sent' = es /\ wire'.state = "sent"
          /\ wire'.request.events = es
    BY <1>6 DEF Send
  <2>2. BackedUp(es)
    BY <2>1 DEF IsBatch, BackedUp, Queued, QueuedIn
  <2>3. LossIsCounted'
    BY <1>0, <1>6, MissingShrinks DEF IInv, Send, spool, server, TypeOK
  <2>4. TxKeepsRows' /\ TxCountsLost' /\ WireMatchesSent'
    BY <1>6, <2>1 DEF Send, TxKeepsRows, TxCountsLost, WireMatchesSent
  <2>5. RequestsBackedUp'
    BY <1>6, <2>1, <2>2
    DEF IInv, Send, RequestsBackedUp, BackedUp, spool, server
  <2> QED
    BY <1>0, <2>3, <2>4, <2>5 DEF IInv
<1>7. ASSUME Abandon
      PROVE  late' \subseteq late \cup
                 (IF wire.state = "sent" THEN {wire.request} ELSE {})
             /\ wire'.state = "none"
  BY <1>7 DEF Abandon, NoWire
<1>8. CASE SendFails
  BY <1>0, <1>7, <1>8, QuietStep DEF SendFails, spool, server
<1>9. CASE SendSucceeds
  <2>1. LossIsCounted'
    BY <1>0, <1>9, MissingShrinks DEF IInv, SendSucceeds, spool, server, TypeOK
  <2>2. TxKeepsRows' /\ TxCountsLost' /\ WireMatchesSent'
    BY <1>9
    DEF IInv, SendSucceeds, TxKeepsRows, TxCountsLost, WireMatchesSent,
        NoWire, server
  <2>3. RequestsBackedUp'
    BY <1>9
    DEF IInv, SendSucceeds, RequestsBackedUp, BackedUp, NoWire, spool, server
  <2> QED
    BY <1>0, <2>1, <2>2, <2>3 DEF IInv
<1>10. CASE Ack
  BY <1>0, <1>10, AckStep
<1>11. CASE AckFails
  BY <1>0, <1>11, QuietStep DEF AckFails, spool, network, server
<1>12. CASE Crash
  BY <1>0, <1>7, <1>12, QuietStep DEF Crash, spool, server
<1>13. CASE Restart
  BY <1>0, <1>13, QuietStep DEF Restart, spool, network, server
<1>14. CASE IngestCurrent
  BY <1>0, <1>14, IngestStep, WireType DEF IngestCurrent, IInv
<1>15. CASE RejectCurrent
  BY <1>0, <1>15, ServerQuietStep DEF RejectCurrent, spool, agent, server
<1>16. CASE IngestLate
  <2>1. PICK r \in late : Ingest(r) /\ late' = late \ {r}
                          /\ UNCHANGED <<spool, agent, wire>>
    BY <1>16 DEF IngestLate
  <2>2. r \in Request
    BY <2>1 DEF IInv, TypeOK
  <2> QED
    BY <1>0, <2>1, <2>2, IngestStep
<1>17. CASE RejectLate
  BY <1>0, <1>17, ServerQuietStep DEF RejectLate, spool, agent, server
<1>18. CASE RotateToken
  BY <1>0, <1>18, ServerQuietStep DEF RotateToken, spool, agent, network
<1>19. CASE Revoke
  BY <1>0, <1>19, ServerQuietStep DEF Revoke, spool, agent, network
<1>20. CASE InstallToken
  BY <1>0, <1>20, ServerQuietStep DEF InstallToken, spool, network, server
<1>21. CASE SetRetention
  BY <1>0, <1>21, ServerQuietStep DEF SetRetention, spool, agent, network
<1>22. CASE Cleanup
  BY <1>0, <1>22, ServerQuietStep DEF Cleanup, spool, agent, network
<1>23. CASE Tick
  BY <1>0, <1>23, ServerQuietStep DEF Tick, spool, agent, network
<1>24. CASE UNCHANGED vars
  BY <1>0, <1>24, ServerQuietStep DEF vars, spool, agent, network, server
<1> QED
  BY <1>1, <1>2, <1>3, <1>4, <1>5, <1>6, <1>8, <1>9, <1>10, <1>11, <1>12,
     <1>13, <1>14, <1>15, <1>16, <1>17, <1>18, <1>19, <1>20, <1>21, <1>22,
     <1>23, <1>24
  DEF Next, AgentStep, ServerStep

\* The inductive invariant holds in every reachable state.
LEMMA Invariance == Spec => []IInv
BY InitIInv, NextIInv, PTL DEF Spec

-----------------------------------------------------------------------------
\* Every reachable state is well typed, for every set of events and bound.
THEOREM TypeCorrect == Spec => []TypeOK
<1>1. IInv => TypeOK
  BY DEF IInv
<1> QED
  BY <1>1, Invariance, PTL

\* The events that the saved checkpoint has passed and that are neither
\* queued nor ever committed centrally are never more than the counter says.
THEOREM NoUncountedLoss == Spec => []LossIsCounted
<1>1. IInv => LossIsCounted
  BY DEF IInv
<1> QED
  BY <1>1, Invariance, PTL

\* Losing any request that is on its way loses no event.
THEOREM RequestsBacked == Spec => []RequestsAreBackedUp
<1>1. IInv => RequestsAreBackedUp
  <2> SUFFICES ASSUME IInv, NEW e \in InFlight
               PROVE  e \in Queued \cup everStored
    BY DEF RequestsAreBackedUp
  <2>1. PICK r \in Request : e \in r.events /\ BackedUp(r.events)
    BY WireType DEF InFlight, IInv, RequestsBackedUp, TypeOK
  <2> QED
    BY <2>1 DEF BackedUp, Queued, QueuedIn, Request
<1> QED
  BY <1>1, Invariance, PTL

\* A queued event leaves the spool only after its central commit.
THEOREM AckAfterCommit == Spec => AckOnlyCommitted
<1>1. IInv /\ [Next]_vars =>
        [\A e \in Event : e \in Queued /\ e \notin Queued' => e \in everStored]_vars
  <2> SUFFICES ASSUME IInv, [Next]_vars, NEW e \in Event,
                      rowid[e] # 0, rowid'[e] = 0
               PROVE  e \in everStored
    BY DEF Queued, QueuedIn
  <2>1. CASE Ack
    BY <2>1 DEF Ack, IInv, WireMatchesSent
  <2>2. CASE CommitDone
    BY <2>2 DEF CommitDone, IInv, TxKeepsRows
  <2>3. CASE rowid' = rowid
    BY <2>3
  <2> QED
    BY <2>1, <2>2, <2>3
    DEF Next, AgentStep, ServerStep, Collect, CommitEvent, CollectFails,
        Backoff, Send, SendFails, SendSucceeds, AckFails, Crash, Restart,
        IngestCurrent, RejectCurrent, IngestLate, RejectLate, RotateToken,
        Revoke, InstallToken, SetRetention, Cleanup, Tick, spool, vars
<1> QED
  BY <1>1, Invariance, PTL DEF Spec, AckOnlyCommitted

-----------------------------------------------------------------------------
(* Bytes is a sum over a set, a fold of the community modules.  Its laws   *)
(* are proved by induction over the sets of events: if a law fails for a   *)
(* set, then it fails for a smallest one.                                  *)

\* The element a fold takes out of a set first.
First(s) == CHOOSE x \in s : TRUE

\* g is the function on the subsets of S by which the sum over S is defined.
IsSum(g, S) ==
    g = [s \in SUBSET S |-> IF s = {} THEN 0 ELSE size[First(s)] + g[s \ {First(s)}]]

\* Induction over the sets of events: what fails, fails for a smallest set.
LEMMA SmallestSet ==
    ASSUME NEW Bad, Bad \subseteq SUBSET Event, Bad # {}
    PROVE  \E S \in Bad : \A T \in SUBSET S : T \in Bad => T = S
<1>1. IsFiniteSet(Event)
  BY DeliveryAssumption
<1>2. Bad \subseteq FiniteSubsetsOf(Event)
  BY <1>1, FS_Subset DEF FiniteSubsetsOf
<1>3. IsWellFoundedOn(StrictSubsetOrdering(Event), FiniteSubsetsOf(Event))
  BY FS_StrictSubsetOrderingWellFounded
<1>4. PICK S \in Bad : \A T \in Bad : ~(<<T, S>> \in StrictSubsetOrdering(Event))
  BY <1>2, <1>3, WFMin
<1> QED
  BY <1>4 DEF StrictSubsetOrdering

\* The sum over S is the value of that function, if there is one.
LEMMA BytesDef ==
    ASSUME NEW S
    PROVE  Bytes(S) = (CHOOSE g : IsSum(g, S))[S]
BY DEF Bytes, SumFunctionOnSet, FoldFunctionOnSet, MapThenFoldSet, IsSum, First

\* It is one of them.
LEMMA FirstIn == ASSUME NEW s, s # {} PROVE First(s) \in s
BY DEF First

\* There is at most one such function: two agree on {}, hence on every set.
LEMMA SumUnique ==
    ASSUME NEW S, S \subseteq Event, NEW g, NEW h, IsSum(g, S), IsSum(h, S)
    PROVE  g = h
<1> DEFINE Bad == {s \in SUBSET S : g[s] # h[s]}
<1>1. CASE Bad = {}
  BY <1>1 DEF IsSum
<1>2. CASE Bad # {}
  <2>1. PICK s \in Bad : \A t \in SUBSET s : t \in Bad => t = s
    <3> HIDE DEF Bad
    <3>1. Bad \subseteq SUBSET Event
      BY DEF Bad
    <3> QED
      BY <3>1, <1>2, SmallestSet
  <2>2. s # {}
    BY DEF IsSum
  <2>3. First(s) \in s
    BY <2>2, FirstIn
  <2>4. g[s \ {First(s)}] = h[s \ {First(s)}]
    BY <2>1, <2>3
  <2>5. /\ g[s] = size[First(s)] + g[s \ {First(s)}]
        /\ h[s] = size[First(s)] + h[s \ {First(s)}]
    BY <2>2 DEF IsSum
  <2> QED
    BY <2>4, <2>5
<1> QED
  BY <1>1, <1>2

\* What it is over S, it is over a part of S.
LEMMA SumRestricts ==
    ASSUME NEW S, NEW T \in SUBSET S, NEW g, IsSum(g, S)
    PROVE  IsSum([s \in SUBSET T |-> g[s]], T)
<1> DEFINE h == [s \in SUBSET T |-> g[s]]
<1>1. ASSUME NEW s \in SUBSET T
      PROVE  h[s] = IF s = {} THEN 0 ELSE size[First(s)] + h[s \ {First(s)}]
  <2>1. s \in SUBSET S /\ s \ {First(s)} \in SUBSET T
    OBVIOUS
  <2> QED
    BY <2>1 DEF IsSum
<1>2. h = [s \in SUBSET T |-> IF s = {} THEN 0 ELSE size[First(s)] + h[s \ {First(s)}]]
  BY <1>1
<1> QED
  BY <1>2 DEF IsSum

\* Where the function exists, it gives the sum over every subset.
LEMMA SumIsBytes ==
    ASSUME NEW S, S \subseteq Event, NEW g, IsSum(g, S), NEW T \in SUBSET S
    PROVE  g[T] = Bytes(T)
<1> DEFINE h == [s \in SUBSET T |-> g[s]]
<1>1. IsSum(h, T)
  BY SumRestricts
<1>2. h[T] = g[T]
  OBVIOUS
<1> HIDE DEF h
<1>3. IsSum(CHOOSE k : IsSum(k, T), T)
  BY <1>1
<1>4. (CHOOSE k : IsSum(k, T)) = h
  BY <1>1, <1>3, SumUnique
<1> QED
  BY <1>2, <1>4, BytesDef

\* No events, no bytes.
LEMMA BytesEmpty == Bytes({}) = 0
<1> DEFINE g == [s \in SUBSET {} |-> 0]
<1>1. IsSum(g, {})
  BY DEF IsSum
<1> QED
  BY <1>1, SumIsBytes

\* There is such a function: if not over a set, then not over a smaller one.
LEMMA SumExists ==
    ASSUME NEW S, S \subseteq Event
    PROVE  \E g : IsSum(g, S)
<1> DEFINE Bad == {s \in SUBSET Event : ~\E g : IsSum(g, s)}
<1> SUFFICES ASSUME Bad # {} PROVE FALSE
  OBVIOUS
<1>1. PICK s \in Bad : \A t \in SUBSET s : t \in Bad => t = s
  <2> HIDE DEF Bad
  <2>1. Bad \subseteq SUBSET Event
    BY DEF Bad
  <2> QED
    BY <2>1, SmallestSet
<1> DEFINE g == [t \in SUBSET s |-> IF t = s THEN IF s = {} THEN 0 ELSE size[First(s)] + Bytes(s \ {First(s)})
                                             ELSE Bytes(t)]
<1>2. ASSUME NEW t \in SUBSET s
      PROVE  g[t] = IF t = {} THEN 0 ELSE size[First(t)] + g[t \ {First(t)}]
  <2>1. t # {} => First(t) \in t
    BY FirstIn
  <2>2. CASE t = {}
    BY <2>2, BytesEmpty
  <2>3. CASE t # {}
    <3> DEFINE u == t \ {First(t)}
    <3>1. u \in SUBSET t /\ u \in SUBSET s /\ u # t /\ u # s
      BY <2>1, <2>3
    <3>2. g[u] = Bytes(u)
      BY <3>1
    <3>3. CASE t = s
      BY <2>3, <3>2, <3>3
    <3>4. CASE t # s
      <4>1. PICK h : IsSum(h, t)
        BY <1>1, <3>4
      <4>2. h[t] = Bytes(t) /\ h[u] = Bytes(u)
        BY <3>1, <4>1, SumIsBytes
      <4>3. h[t] = size[First(t)] + h[u]
        BY <2>3, <4>1 DEF IsSum
      <4>4. g[t] = Bytes(t)
        BY <3>4
      <4> QED
        BY <2>3, <3>2, <4>2, <4>3, <4>4
    <3> QED
      BY <3>3, <3>4
  <2> QED
    BY <2>2, <2>3
<1>3. g = [t \in SUBSET s |-> IF t = {} THEN 0 ELSE size[First(t)] + g[t \ {First(t)}]]
  BY <1>2
<1>4. IsSum(g, s)
  BY <1>3 DEF IsSum
<1> QED
  BY <1>1, <1>4

\* The sum, element by element, in the order the fold takes them.
LEMMA BytesIs ==
    ASSUME NEW S, S \subseteq Event, S # {}
    PROVE  /\ First(S) \in S
           /\ Bytes(S) = size[First(S)] + Bytes(S \ {First(S)})
<1>1. PICK g : IsSum(g, S)
  BY SumExists
<1>2. First(S) \in S
  BY FirstIn
<1>3. g[S] = size[First(S)] + g[S \ {First(S)}]
  BY <1>1 DEF IsSum
<1>4. g[S] = Bytes(S) /\ g[S \ {First(S)}] = Bytes(S \ {First(S)})
  BY <1>1, SumIsBytes
<1> QED
  BY <1>2, <1>3, <1>4

\* A sum of sizes is a number ...
LEMMA BytesNat ==
    ASSUME NEW S, S \subseteq Event
    PROVE  Bytes(S) \in Nat
<1> DEFINE Bad == {s \in SUBSET Event : Bytes(s) \notin Nat}
<1> SUFFICES ASSUME Bad # {} PROVE FALSE
  OBVIOUS
<1>1. PICK s \in Bad : \A t \in SUBSET s : t \in Bad => t = s
  <2> HIDE DEF Bad
  <2>1. Bad \subseteq SUBSET Event
    BY DEF Bad
  <2> QED
    BY <2>1, SmallestSet
<1>2. s # {}
  BY BytesEmpty
<1>3. First(s) \in s /\ Bytes(s) = size[First(s)] + Bytes(s \ {First(s)})
  BY <1>2, BytesIs
<1>4. s \ {First(s)} \in SUBSET Event /\ s \ {First(s)} \notin Bad
  BY <1>1, <1>3
<1>5. size[First(s)] \in Nat /\ Bytes(s \ {First(s)}) \in Nat
  BY <1>3, <1>4, DeliveryAssumption
<1> QED
  BY <1>3, <1>5

\* ... which does not depend on the order.
LEMMA BytesRemove ==
    ASSUME NEW S, S \subseteq Event, NEW e \in S
    PROVE  Bytes(S) = size[e] + Bytes(S \ {e})
<1> DEFINE Bad == {s \in SUBSET Event : \E x \in s : Bytes(s) # size[x] + Bytes(s \ {x})}
<1> SUFFICES ASSUME Bad # {} PROVE FALSE
  OBVIOUS
<1>1. PICK s \in Bad : \A t \in SUBSET s : t \in Bad => t = s
  <2> HIDE DEF Bad
  <2>1. Bad \subseteq SUBSET Event
    BY DEF Bad
  <2> QED
    BY <2>1, SmallestSet
<1>2. PICK x \in s : Bytes(s) # size[x] + Bytes(s \ {x})
  OBVIOUS
<1> DEFINE y == First(s)
<1>3. y \in s /\ Bytes(s) = size[y] + Bytes(s \ {y})
  BY BytesIs
<1>4. x # y
  BY <1>2, <1>3
<1> HIDE DEF y
<1>5. Bytes(s \ {y}) = size[x] + Bytes((s \ {y}) \ {x})
  <2>1. s \ {y} \in SUBSET s /\ s \ {y} # s /\ s \ {y} \in SUBSET Event /\ x \in s \ {y}
    BY <1>3, <1>4
  <2> QED
    BY <1>1, <2>1
<1>6. Bytes(s \ {x}) = size[y] + Bytes((s \ {x}) \ {y})
  <2>1. s \ {x} \in SUBSET s /\ s \ {x} # s /\ s \ {x} \in SUBSET Event /\ y \in s \ {x}
    BY <1>3, <1>4
  <2> QED
    BY <1>1, <2>1
<1> DEFINE rest == Bytes(s \ {x, y})
<1>7. (s \ {y}) \ {x} = s \ {x, y} /\ (s \ {x}) \ {y} = s \ {x, y}
  OBVIOUS
<1>8. Bytes(s \ {y}) = size[x] + rest /\ Bytes(s \ {x}) = size[y] + rest
  BY <1>5, <1>6, <1>7
<1>9. size[x] \in Nat /\ size[y] \in Nat /\ rest \in Nat
  BY <1>3, BytesNat, DeliveryAssumption
<1> HIDE DEF rest
<1> QED
  BY <1>2, <1>3, <1>8, <1>9

\* The laws of Bytes the proofs use: one more event adds its size, and a part
\* of the queue has no more bytes than the queue.
LEMMA BytesAdd ==
    ASSUME NEW S, S \subseteq Event, NEW e \in Event \ S
    PROVE  Bytes(S \cup {e}) = Bytes(S) + size[e]
<1>1. (S \cup {e}) \ {e} = S
  OBVIOUS
<1>2. Bytes(S \cup {e}) = size[e] + Bytes(S)
  BY <1>1, BytesRemove
<1>3. size[e] \in Nat /\ Bytes(S) \in Nat
  BY BytesNat, DeliveryAssumption
<1> QED
  BY <1>2, <1>3

LEMMA BytesMonotone ==
    ASSUME NEW S, S \subseteq Event, NEW T \in SUBSET S
    PROVE  Bytes(T) <= Bytes(S)
<1> DEFINE Bad == {s \in SUBSET Event : T \subseteq s /\ ~(Bytes(T) <= Bytes(s))}
<1> SUFFICES ASSUME Bad # {} PROVE FALSE
  OBVIOUS
<1>1. PICK s \in Bad : \A t \in SUBSET s : t \in Bad => t = s
  <2> HIDE DEF Bad
  <2>1. Bad \subseteq SUBSET Event
    BY DEF Bad
  <2> QED
    BY <2>1, SmallestSet
<1>2. Bytes(T) \in Nat
  BY BytesNat
<1>3. PICK e \in s : e \notin T
  BY <1>2
<1>4. s \ {e} \in SUBSET Event /\ T \subseteq s \ {e} /\ Bytes(T) <= Bytes(s \ {e})
  BY <1>1, <1>3
<1>5. Bytes(s) = size[e] + Bytes(s \ {e})
  BY BytesRemove
<1>6. Bytes(s \ {e}) \in Nat /\ size[e] \in Nat
  BY <1>4, BytesNat, DeliveryAssumption
<1> QED
  BY <1>2, <1>4, <1>5, <1>6
-----------------------------------------------------------------------------
(* The queue and its limit *)

\* Two rows never share a rowid.
Distinct(r) == \A e, f \in Event : r[e] # 0 /\ r[e] = r[f] => e = f

\* A queue table as the spool may hold it.
Sound(r) == Distinct(r) /\ Bytes(QueuedIn(r)) <= Limit

\* The committed table and that of the open transaction.
QueueInv == TypeOK /\ Sound(rowid) /\ Sound(tx.rowid)

\* The empty table is sound.
LEMMA EmptySound == Sound([e \in Event |-> 0])
<1>1. QueuedIn([e \in Event |-> 0]) = {}
  BY DEF QueuedIn
<1> QED
  BY <1>1, BytesEmpty, DeliveryAssumption DEF Sound, Distinct

\* Deleting rows keeps a table sound.
LEMMA DeleteSound ==
    ASSUME NEW r \in [Event -> Nat], Sound(r), NEW es,
           NEW q, q = [e \in Event |-> IF e \in es THEN 0 ELSE r[e]]
    PROVE  Sound(q)
<1>1. QueuedIn(q) \in SUBSET QueuedIn(r) /\ QueuedIn(r) \subseteq Event
  BY DEF QueuedIn
<1>2. /\ Bytes(QueuedIn(q)) <= Bytes(QueuedIn(r))
      /\ Bytes(QueuedIn(q)) \in Nat /\ Bytes(QueuedIn(r)) \in Nat
  BY <1>1, BytesMonotone, BytesNat
<1> QED
  BY <1>2, DeliveryAssumption DEF Sound, Distinct

\* So does inserting one that fits, under the next rowid.
LEMMA InsertSound ==
    ASSUME NEW r \in [Event -> Nat], Sound(r), NEW e \in Event, r[e] = 0,
           Bytes(QueuedIn(r)) + size[e] <= Limit, NEW n \in NextRow(r)
    PROVE  Sound([r EXCEPT ![e] = n])
<1> DEFINE q == [r EXCEPT ![e] = n]
<1>1. n \in Nat \ {0} /\ \A f \in Event : r[f] < n
  BY DEF NextRow
<1>2. QueuedIn(q) = QueuedIn(r) \cup {e} /\ e \in Event \ QueuedIn(r) /\ QueuedIn(r) \subseteq Event
  BY <1>1 DEF QueuedIn
<1>3. Bytes(QueuedIn(q)) = Bytes(QueuedIn(r)) + size[e]
  BY <1>2, BytesAdd
<1>4. Distinct(q)
  BY <1>1 DEF Sound, Distinct
<1> QED
  BY <1>3, <1>4 DEF Sound

\* Every table of the spool is sound.
LEMMA QueueInvariance == Spec => []QueueInv
<1>1. Init => QueueInv
  BY InitIInv, EmptySound DEF Init, QueueInv, IInv, NoTx
<1>2. QueueInv /\ [Next]_vars => QueueInv'
  <2> SUFFICES ASSUME QueueInv, [Next]_vars PROVE QueueInv'
    OBVIOUS
  <2>0. TypeOK /\ TypeOK' /\ Sound(rowid) /\ Sound(tx.rowid)
    BY NextType DEF QueueInv
  <2>1. Sound(rowid')
    <3>1. CASE Ack
      BY <2>0, <3>1, DeleteSound DEF Ack, TypeOK
    <3>2. CASE rowid' = rowid \/ rowid' = tx.rowid
      BY <2>0, <3>2
    <3> QED
      BY <3>1, <3>2
      DEF Next, AgentStep, ServerStep, Collect, CommitEvent, CommitDone, CollectFails,
          Backoff, Send, SendFails, SendSucceeds, AckFails, Crash, Restart,
          IngestCurrent, RejectCurrent, IngestLate, RejectLate, RotateToken,
          Revoke, InstallToken, SetRetention, Cleanup, Tick, spool, agent, vars
  <2>2. Sound(tx'.rowid)
    <3>1. CASE CommitEvent
      <4>1. PICK e \in tx.todo :
              \/ tx'.rowid = tx.rowid
              \/ /\ tx.rowid[e] = 0
                 /\ ~TooLarge(e)
                 /\ \E n \in NextRow(tx.rowid) : tx'.rowid = [tx.rowid EXCEPT ![e] = n]
        BY <3>1 DEF CommitEvent, Passed
      <4>2. e \in Event /\ tx.rowid \in [Event -> Nat]
        BY <2>0 DEF TypeOK, Tx
      <4>3. CASE ~TooLarge(e)
        <5>1. Bytes(QueuedIn(tx.rowid)) + size[e] <= Limit
          <6>1. QueuedIn(tx.rowid) \subseteq Event
            BY DEF QueuedIn
          <6> QED
            BY <4>2, <4>3, <6>1, BytesNat, DeliveryAssumption DEF TooLarge
        <5> QED
          BY <2>0, <4>1, <4>2, <5>1, InsertSound
      <4> QED
        BY <2>0, <4>1, <4>3
    <3>2. CASE tx' = NoTx
      BY <3>2, EmptySound DEF NoTx
    <3>3. CASE tx'.rowid = rowid \/ tx' = tx
      BY <2>0, <3>3
    <3> QED
      BY <3>1, <3>2, <3>3
      DEF Next, AgentStep, ServerStep, Collect, CommitDone, CollectFails,
          Backoff, Send, SendFails, SendSucceeds, Ack, AckFails, Crash, Restart,
          IngestCurrent, RejectCurrent, IngestLate, RejectLate, RotateToken,
          Revoke, InstallToken, SetRetention, Cleanup, Tick, spool, agent, vars
  <2> QED
    BY <2>0, <2>1, <2>2 DEF QueueInv, Sound, Distinct, QueuedIn, Bytes
<1> QED
  BY <1>1, <1>2, PTL DEF Spec

\* The spool never holds more bytes than the limit, whatever is dropped,
\* rolled back, acknowledged or read again.
THEOREM QueueBounded == Spec => []QueueWithinLimit
<1>1. QueueInv => QueueWithinLimit
  BY DEF QueueInv, Sound, QueueWithinLimit, Queued
<1> QED
  BY <1>1, QueueInvariance, PTL

-----------------------------------------------------------------------------
(* The next batch *)

\* A set of rows that could be a batch cut short: the oldest ones, within the
\* limits of a batch.
Prefix(es) ==
    /\ es \subseteq Queued
    /\ \A e \in es, f \in Queued \ es : rowid[e] < rowid[f]
    /\ Cardinality(es) <= BatchMax
    /\ Fits(es)

\* A row younger than no other is the only one.
LEMMA OldestOne ==
    ASSUME QueueInv, NEW S, S \subseteq Queued, S # {}
    PROVE  \E e \in S : \A f \in S : f # e => rowid[e] < rowid[f]
<1> DEFINE numbers == {rowid[e] : e \in S}
<1>1. numbers \subseteq Nat /\ numbers # {} /\ S \subseteq Event
  BY DEF QueueInv, TypeOK, Queued, QueuedIn
<1>2. PICK n \in numbers : \A m \in numbers : ~(<<m, n>> \in OpToRel(<, Nat))
  <2> HIDE DEF numbers
  <2> QED
    BY <1>1, NatLessThanWellFounded, WFMin
<1>3. PICK e \in S : rowid[e] = n
  BY <1>2
<1>4. ASSUME NEW f \in S, f # e PROVE rowid[e] < rowid[f]
  <2>1. rowid[f] \in Nat /\ rowid[e] \in Nat /\ ~(rowid[f] < rowid[e])
    BY <1>1, <1>2, <1>3 DEF OpToRel
  <2>2. rowid[f] # rowid[e]
    BY <1>1, <1>4 DEF QueueInv, Sound, Distinct, Queued, QueuedIn
  <2> QED
    BY <2>1, <2>2
<1> QED
  BY <1>4

\* The sizes of a set of rows and of the set with one more.
LEMMA OneMore ==
    ASSUME NEW S, S \subseteq Event, NEW e \in Event \ S
    PROVE  /\ IsFiniteSet(S) /\ IsFiniteSet(S \cup {e})
           /\ Cardinality(S) \in Nat /\ Bytes(S) \in Nat
           /\ Cardinality(S \cup {e}) = Cardinality(S) + 1
           /\ Bytes(S \cup {e}) = Bytes(S) + size[e]
           /\ Bytes(S \cup {e}) \in Nat
<1>1. IsFiniteSet(S) /\ IsFiniteSet(S \cup {e})
  BY DeliveryAssumption, FS_Subset, S \cup {e} \in SUBSET Event
<1> QED
  BY <1>1, FS_AddElement, FS_CardinalityType, BytesAdd, BytesNat

\* There is a batch: a largest prefix is one.
LEMMA SomeBatch == QueueInv => \E es \in SUBSET Event : IsBatch(es)
<1> SUFFICES ASSUME QueueInv PROVE \E es \in SUBSET Event : IsBatch(es)
  OBVIOUS
<1> DEFINE Rests == {Queued \ es : es \in {p \in SUBSET Event : Prefix(p)}}
<1>1. Queued \subseteq Event
  BY DEF Queued, QueuedIn
<1>2. Prefix({})
  BY FS_EmptySet, BytesEmpty, DeliveryAssumption DEF Prefix, Fits
<1>3. PICK rest \in Rests : \A r \in SUBSET rest : r \in Rests => r = rest
  <2>1. Rests \subseteq SUBSET Event /\ Rests # {}
    BY <1>1, <1>2
  <2> HIDE DEF Rests
  <2> QED
    BY <2>1, SmallestSet
<1>4. PICK es \in SUBSET Event : Prefix(es) /\ rest = Queued \ es
  OBVIOUS
<1>5. CASE rest = {} \/ Cardinality(es) = BatchMax
  BY <1>4, <1>5 DEF IsBatch, Prefix
<1>6. CASE rest # {} /\ Cardinality(es) # BatchMax
  <2>1. PICK f \in rest : \A g \in rest : g # f => rowid[f] < rowid[g]
    BY <1>4, <1>6, OldestOne
  <2>2. f \in Event \ es /\ f \in Queued
    BY <1>1, <1>4
  <2> DEFINE longer == es \cup {f}
  <2>3. /\ Cardinality(es) \in Nat /\ Cardinality(longer) = Cardinality(es) + 1
        /\ Bytes(es) \in Nat /\ Bytes(longer) = Bytes(es) + size[f] /\ Bytes(longer) \in Nat
        /\ IsFiniteSet(es)
    BY <2>2, OneMore
  <2>4. Cardinality(longer) <= BatchMax
    BY <1>4, <1>6, <2>3, DeliveryAssumption DEF Prefix
  <2>5. ~Prefix(longer)
    <3>1. Queued \ longer \in SUBSET rest /\ Queued \ longer # rest /\ longer \in SUBSET Event
      BY <1>4, <2>1, <2>2
    <3> HIDE DEF longer
    <3>2. Prefix(longer) => Queued \ longer \in Rests
      BY <3>1
    <3> HIDE DEF Rests
    <3> QED
      BY <1>3, <3>1, <3>2
  <2>6. \A e \in longer, g \in Queued \ longer : rowid[e] < rowid[g]
    BY <1>4, <2>1 DEF Prefix
  <2>7. longer \subseteq Queued
    BY <1>4, <2>2 DEF Prefix
  <2> HIDE DEF longer
  <2>8. ~Fits(longer)
    BY <2>4, <2>5, <2>6, <2>7 DEF Prefix
  <2>9. Bytes(es) + size[f] > BatchBytes /\ Cardinality(es) # 0
    BY <2>3, <2>8, DeliveryAssumption DEF Fits
  <2>10. es # {}
    BY <2>9, FS_EmptySet
  <2>11. \A g \in rest : rowid[f] <= rowid[g]
    BY <1>1, <1>4, <2>1 DEF QueueInv, TypeOK
  <2> QED
    BY <1>4, <2>1, <2>9, <2>10, <2>11 DEF IsBatch, Prefix
<1> QED
  BY <1>5, <1>6

\* Of two batches, one that is part of the other is all of it.
LEMMA NoShorterBatch ==
    ASSUME QueueInv, NEW es, NEW fs, IsBatch(es), IsBatch(fs), es \subseteq fs
    PROVE  es = fs
<1> SUFFICES ASSUME es # fs PROVE FALSE
  OBVIOUS
<1>1. Queued \subseteq Event /\ es \subseteq Event /\ fs \subseteq Event /\ fs \subseteq Queued
  BY DEF Queued, QueuedIn, IsBatch
<1>2. IsFiniteSet(fs)
  BY <1>1, DeliveryAssumption, FS_Subset
<1>3. /\ Cardinality(es) \in Nat /\ Cardinality(fs) \in Nat
      /\ Cardinality(es) < Cardinality(fs)
  BY <1>2, FS_Subset, FS_CardinalityType
<1>4. Cardinality(es) # BatchMax
  BY <1>3, DeliveryAssumption DEF IsBatch
<1>5. PICK f \in Queued \ es : /\ es # {} /\ \A g \in Queued \ es : rowid[f] <= rowid[g]
                               /\ Bytes(es) + size[f] > BatchBytes
  BY <1>1, <1>4 DEF IsBatch
<1>6. f \in fs
  <2>1. PICK g \in fs : g \notin es
    OBVIOUS
  <2>2. rowid[f] <= rowid[g] /\ rowid[f] \in Nat /\ rowid[g] \in Nat
    BY <1>1, <1>5, <2>1 DEF QueueInv, TypeOK
  <2> QED
    BY <1>1, <1>5, <2>1, <2>2 DEF IsBatch
<1>7. /\ Bytes(es \cup {f}) = Bytes(es) + size[f]
      /\ Bytes(es \cup {f}) \in Nat
  BY <1>1, <1>5, OneMore
<1>8. Bytes(es \cup {f}) <= Bytes(fs) /\ Bytes(fs) \in Nat
  BY <1>1, <1>6, BytesMonotone, BytesNat
<1>9. Cardinality(fs) = 1
  BY <1>5, <1>7, <1>8, DeliveryAssumption DEF IsBatch, Fits
<1>10. Cardinality(es) # 0
  BY <1>1, <1>5, FS_EmptySet, FS_Subset, DeliveryAssumption
<1> QED
  BY <1>3, <1>9, <1>10

\* At any moment the queue has exactly one next batch, and the oldest row is
\* in it, whatever the sizes of the rows and the limits of a batch.
THEOREM QueueMovesOn == Spec => []NeverBlocked
<1>1. QueueInv => NeverBlocked
  <2> SUFFICES ASSUME QueueInv
               PROVE  \E es \in SUBSET Event :
                        /\ IsBatch(es) /\ Oldest \subseteq es
                        /\ \A fs \in SUBSET Event : IsBatch(fs) => fs = es
    BY DEF NeverBlocked
  <2>1. PICK es \in SUBSET Event : IsBatch(es)
    BY SomeBatch
  <2>2. Queued \subseteq Event /\ \A e \in Queued : rowid[e] \in Nat
    BY DEF Queued, QueuedIn, QueueInv, TypeOK
  <2>3. ASSUME NEW e \in Oldest PROVE e \in es
    <3>1. es # {}
      <4>1. Cardinality({}) = 0 /\ BatchMax # 0
        BY FS_EmptySet, DeliveryAssumption
      <4> QED
        BY <2>1, <2>3, <4>1 DEF IsBatch, Oldest
    <3>2. PICK f \in es : TRUE
      BY <3>1
    <3>3. rowid[e] <= rowid[f] /\ e \in Queued /\ f \in Queued
      BY <2>1, <2>3 DEF IsBatch, Oldest
    <3> QED
      BY <2>1, <2>2, <3>3 DEF IsBatch
  <2>4. ASSUME NEW fs \in SUBSET Event, IsBatch(fs) PROVE fs = es
    <3>1. es \subseteq fs \/ fs \subseteq es
      <4> SUFFICES ASSUME NEW e \in es, e \notin fs, NEW f \in fs, f \notin es PROVE FALSE
        OBVIOUS
      <4>1. e \in Queued /\ f \in Queued
        BY <2>1, <2>4 DEF IsBatch
      <4>2. rowid[e] < rowid[f] /\ rowid[f] < rowid[e]
        BY <2>1, <2>4, <4>1 DEF IsBatch
      <4> QED
        BY <2>2, <4>1, <4>2
    <3> QED
      BY <2>1, <2>4, <3>1, NoShorterBatch
  <2> QED
    BY <2>1, <2>3, <2>4
<1> QED
  BY <1>1, QueueInvariance, PTL

-----------------------------------------------------------------------------
(* Refinement: Delivery implements AuditTrail. *)

LEMMA StatusType == Status \in [Event -> {"unseen", "held", "lost", "recorded"}]
BY DEF Status

\* A step that moves neither the spool's committed part nor what is recorded
\* is a stutter of the trail.
LEMMA TrailStutter ==
    ASSUME UNCHANGED <<rowid, collected, everStored, dropped>>
    PROVE  UNCHANGED <<Status, dropped>>
BY DEF Status, Queued, QueuedIn

\* Committing a chunk is Observe.
LEMMA CommitObserves ==
    ASSUME IInv, TypeOK', CommitDone
    PROVE  Trail!Observe
<1> DEFINE seen == {e \in Event : /\ Status[e] \in {"unseen", "lost"}
                                  /\ Status'[e] \in {"held", "lost"}}
           lost == {e \in seen : Status'[e] = "lost"}
           new  == lost \ Trail!With("lost")
<1>1. seen \in SUBSET (Trail!With("unseen") \cup Trail!With("lost"))
      /\ lost \in SUBSET seen
  BY DEF Trail!With
<1>2. \A e \in Event : rowid[e] # 0 => rowid'[e] # 0
  BY DEF CommitDone, IInv, TxKeepsRows
<1>3. \A e \in Event : /\ Status[e] = "recorded" => Status'[e] = "recorded"
                       /\ Status[e] = "held" => Status'[e] \in {"held", "recorded"}
                       /\ Status'[e] = "recorded" => Status[e] = "recorded"
                       /\ Status[e] = "lost" => Status'[e] \in {"held", "lost"}
  BY <1>2 DEF CommitDone, server, Status, Queued, QueuedIn
<1>4. Status' = [e \in Event |-> IF e \in lost THEN "lost"
                                 ELSE IF e \in seen THEN "held"
                                 ELSE Status[e]]
  <2>1. ASSUME NEW e \in Event
        PROVE  Status'[e] = IF e \in lost THEN "lost"
                            ELSE IF e \in seen THEN "held"
                            ELSE Status[e]
    BY <1>3, StatusType DEF Status
  <2> QED
    BY <2>1 DEF Status
<1>5. new \in SUBSET TxLost /\ TxLost \in SUBSET Event
  BY DEF CommitDone, Status, Queued, QueuedIn, TxLost, Trail!With, IInv,
         TypeOK, Tx, server
<1>6. /\ Cardinality(TxLost) \in Nat /\ Cardinality(new) \in Nat
      /\ Cardinality(new) <= Cardinality(TxLost)
  BY <1>5, SubsetCard
<1>7. dropped' \in Nat /\ dropped' >= dropped + Cardinality(new)
  BY <1>6 DEF CommitDone, IInv, TxCountsLost, TypeOK
<1>8. Trail!Cardinality(new) = Cardinality(new)
  BY DEF Trail!Cardinality, Cardinality
<1> QED
  BY <1>1, <1>4, <1>7, <1>8 DEF Trail!Observe

\* Committing a batch centrally is Record.
LEMMA IngestRecords ==
    ASSUME IInv, NEW r \in Request, Ingest(r), BackedUp(r.events),
           UNCHANGED spool
    PROVE  Trail!Record
<1> DEFINE es == r.events \ everStored
<1>1. es \in SUBSET Trail!With("held")
  BY DEF BackedUp, Trail!With, Status, Queued, QueuedIn, Request
<1>2. Status' = [e \in Event |-> IF e \in es THEN "recorded" ELSE Status[e]]
  BY DEF Ingest, spool, Status, Queued, QueuedIn
<1>3. UNCHANGED dropped
  BY DEF spool
<1> QED
  BY <1>1, <1>2, <1>3 DEF Trail!Record

\* Acknowledging recorded rows is invisible.
LEMMA AckStutters ==
    ASSUME IInv, Ack
    PROVE  UNCHANGED <<Status, dropped>>
<1>1. \A e \in Event : e \in everStored \/ rowid'[e] = rowid[e]
  BY DEF Ack, IInv, WireMatchesSent
<1> QED
  BY <1>1 DEF Ack, server, Status, Queued, QueuedIn

\* Every behaviour of the delivery path is a behaviour of the audit trail:
\* an event the collector passed is held until recorded, or was lost at that
\* moment and counted; a held event is never lost.
THEOREM DeliveryImplementsAuditTrail == Spec => ImplementsAuditTrail
<1>1. Init => Trail!Init
  BY DEF Init, Trail!Init, Status, Queued, QueuedIn
<1>2. IInv /\ [Next]_vars => [Trail!Next]_(Trail!trail)
  <2> SUFFICES ASSUME IInv, [Next]_vars
               PROVE  Trail!Next \/ UNCHANGED <<Status, dropped>>
    BY DEF Trail!trail
  <2>1. CASE CommitDone
    BY <2>1, NextType, CommitObserves DEF IInv, Trail!Next
  <2>2. CASE IngestCurrent
    BY <2>2, WireType, IngestRecords
    DEF IngestCurrent, IInv, RequestsBackedUp, Trail!Next
  <2>3. CASE IngestLate
    <3>1. PICK r \in late : Ingest(r) /\ UNCHANGED spool
      BY <2>3 DEF IngestLate
    <3>2. r \in Request /\ BackedUp(r.events)
      BY <3>1 DEF IInv, TypeOK, RequestsBackedUp
    <3> QED
      BY <3>1, <3>2, IngestRecords DEF Trail!Next
  <2>4. CASE Ack
    BY <2>4, AckStutters
  <2>5. CASE UNCHANGED <<rowid, collected, everStored, dropped>>
    BY <2>5, TrailStutter
  <2> QED
    BY <2>1, <2>2, <2>3, <2>4, <2>5
    DEF Next, AgentStep, ServerStep, Collect, CommitEvent, CollectFails,
        Backoff, Send, SendFails, SendSucceeds, AckFails, Crash, Restart,
        RejectCurrent, RejectLate, RotateToken, Revoke, InstallToken,
        SetRetention, Cleanup, Tick, spool, server, vars
<1> QED
  BY <1>1, <1>2, Invariance, PTL DEF Spec, ImplementsAuditTrail, Trail!Spec
=============================================================================
