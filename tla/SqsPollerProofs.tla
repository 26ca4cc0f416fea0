-------------------------- MODULE SqsPollerProofs --------------------------
(***************************************************************************)
(* Proofs about SqsPoller, for any set of queues, messages, objects and    *)
(* sweeps and any bounds: type correctness, what the poll lock is worth    *)
(* while it can expire under its holder, what a verdict is worth (it is    *)
(* true and it is final), and who can leave a row without one.             *)
(***************************************************************************)
EXTENDS SqsPoller, SequenceTheorems, TLAPS

\* A sweep at work on an event has one, and its rows.
LEMMA EventTypes ==
  ASSUME TypeOK, NEW s \in Sweeps, pc[s] \in EventLabels
  PROVE  /\ msg[s] \in Messages /\ at[s] \in Queues
         /\ Key(s) \in Keys
         /\ Event(s) \in Events
         /\ rows[Event(s)] \in Seq(Status)
         /\ Tail(left[s]) \in Seq(Keys)
<1>1. Placed(s) /\ left[s] \in Seq(Keys)
  BY DEF TypeOK, SweepsTypeOK
<1>2. left[s] # <<>> /\ msg[s] \in Messages /\ at[s] \in Queues
  BY <1>1 DEF Placed, MessageLabels, QueueLabels
<1>3. Key(s) \in Keys /\ Tail(left[s]) \in Seq(Keys)
  BY <1>1, <1>2, HeadTailProperties DEF Key
<1>4. QED
  BY <1>2, <1>3 DEF Event, Events, TypeOK, TablesTypeOK

\* Deleting rows keeps their places.
LEMMA RemovedRows ==
  ASSUME NEW r \in Seq(Status)
  PROVE  /\ [i \in DOMAIN r |-> "removed"] \in Seq(Status)
         /\ DOMAIN [i \in DOMAIN r |-> "removed"] = DOMAIN r
<1>1. DOMAIN r = 1..Len(r) /\ Len(r) \in Nat
  BY LenProperties
<1>2. [i \in 1..Len(r) |-> "removed"] \in [1..Len(r) -> Status]
  BY DEF Status
<1>3. QED
  BY <1>1, <1>2

\* Rows keep their type and are never taken out of their sequence.
RowsGrow ==
  /\ rows' \in [Events -> Seq(Status)]
  /\ \A e \in Events : DOMAIN rows[e] \subseteq DOMAIN rows'[e]

LEMMA ForgetGrows ==
  ASSUME TypeOK, NEW E, Forget(E)
  PROVE  RowsGrow
<1>1. \A e \in Events : rows[e] \in Seq(Status)
  BY DEF TypeOK, TablesTypeOK
<1>2. QED
  BY <1>1, RemovedRows DEF Forget, RowsGrow

LEMMA AppendGrows ==
  ASSUME TypeOK, NEW s \in Sweeps, pc[s] \in EventLabels, NEW st \in Status,
         rows' = [rows EXCEPT ![Event(s)] = Append(@, st)]
  PROVE  /\ RowsGrow
         /\ Len(rows[Event(s)]) + 1 \in DOMAIN rows'[Event(s)]
<1>1. Event(s) \in Events /\ rows[Event(s)] \in Seq(Status)
  BY EventTypes
<1>2. rows \in [Events -> Seq(Status)]
  BY DEF TypeOK, TablesTypeOK
<1>3. /\ Append(rows[Event(s)], st) \in Seq(Status)
      /\ Len(Append(rows[Event(s)], st)) = Len(rows[Event(s)]) + 1
  BY <1>1, AppendProperties
<1>4. /\ DOMAIN Append(rows[Event(s)], st) = 1..(Len(rows[Event(s)]) + 1)
      /\ DOMAIN rows[Event(s)] = 1..Len(rows[Event(s)])
      /\ Len(rows[Event(s)]) \in Nat
  BY <1>1, <1>3, LenProperties
<1>5. rows'[Event(s)] = Append(rows[Event(s)], st)
  BY <1>1, <1>2
<1>6. QED
  BY <1>1, <1>2, <1>3, <1>4, <1>5 DEF RowsGrow

LEMMA UpdateGrows ==
  ASSUME TypeOK, NEW s \in Sweeps, pc[s] \in RowLabels, NEW st \in Status, Update(s, st)
  PROVE  RowsGrow
<1>1. Event(s) \in Events /\ rows[Event(s)] \in Seq(Status)
  BY EventTypes DEF EventLabels
<1>2. rows \in [Events -> Seq(Status)]
  BY DEF TypeOK, TablesTypeOK
<1>3. row[s] \in 1..Len(rows[Event(s)])
  BY <1>1, LenProperties DEF TypeOK, Placed
<1> DEFINE v == IF rows[Event(s)][row[s]] = "removed" THEN "removed" ELSE st
           r == [rows[Event(s)] EXCEPT ![row[s]] = v]
<1>4. v \in Status
  BY DEF Status
<1>5. r \in Seq(Status) /\ DOMAIN r = DOMAIN rows[Event(s)]
  BY <1>1, <1>3, <1>4, ExceptSeq
<1>6. rows' = [rows EXCEPT ![Event(s)] = r]
  BY <1>1, <1>2 DEF Update
<1> HIDE DEF r
<1>7. QED
  BY <1>1, <1>2, <1>5, <1>6 DEF RowsGrow

LEMMA RowsStep ==
  ASSUME TypeOK, [Next]_vars
  PROVE  RowsGrow
<1>1. ASSUME UNCHANGED rows PROVE RowsGrow
  BY <1>1 DEF RowsGrow, TypeOK, TablesTypeOK
<1>2. CASE UNCHANGED vars
  BY <1>1, <1>2 DEF vars
<1>3. CASE Environment
  BY <1>1, <1>3, ForgetGrows DEF Environment, Send, Redeliver, Pause, Resume, DeleteQueue,
     ClearEvents, LockExpires, tableVars
<1>4. ASSUME NEW s \in Sweeps, Acquire(s) \/ Interruption(s) PROVE RowsGrow
  BY <1>1, <1>4 DEF Acquire, Interruption, Cancelled, Crash, End, tableVars
<1>5. ASSUME NEW s \in Sweeps, SweepStep(s) PROVE RowsGrow
  <2>1. CASE RecordFailure(s) \/ Insert(s)
    BY <1>1, <2>1, AppendGrows DEF RecordFailure, Insert, EventLabels, Status, Settled
  <2>2. CASE Begin(s)
    BY <2>2, UpdateGrows DEF Begin, RowLabels, Status
  <2>3. CASE Settle(s)
    BY <2>3, UpdateGrows DEF Settle, RowLabels, Status, TypeOK, SweepsTypeOK
  <2>4. CASE \/ ListActive(s) \/ NextQueue(s) \/ Release(s) \/ Receive(s) \/ TakeMessage(s)
             \/ DeleteMessage(s) \/ Probe(s) \/ Lookup(s) \/ Import(s)
    BY <1>1, <2>4 DEF ListActive, NextQueue, Release, End, Receive, TakeMessage,
       DeleteMessage, Probe, Lookup, Import, tableVars
  <2>5. QED
    BY <1>5, <2>1, <2>2, <2>3, <2>4 DEF SweepStep
<1>6. QED
  BY <1>2, <1>3, <1>4, <1>5 DEF Next

\* The other tables, the messages and the lock.
LEMMA TablesStep ==
  ASSUME TypeOK, [Next]_vars
  PROVE  TablesTypeOK'
<1> USE DEF TypeOK, TablesTypeOK, tableVars, awsVars
<1>1. rows' \in [Events -> Seq(Status)]
  BY RowsStep DEF RowsGrow
<1>2. CASE UNCHANGED vars
  BY <1>1, <1>2 DEF vars
<1>3. CASE Environment
  BY <1>1, <1>3 DEF Environment, Send, Redeliver, Pause, Resume, DeleteQueue,
     ClearEvents, LockExpires
<1>4. ASSUME NEW s \in Sweeps, Acquire(s) \/ Interruption(s) PROVE TablesTypeOK'
  BY <1>1, <1>4 DEF Acquire, Interruption, Cancelled, Crash, End, Unlock
<1>5. ASSUME NEW s \in Sweeps, SweepStep(s) PROVE TablesTypeOK'
  <2>1. CASE Receive(s)
    <3>1. CASE LeaveQueue(s) /\ UNCHANGED awsVars
      BY <1>1, <2>1, <3>1 DEF Receive
    <3>2. CASE ~(LeaveQueue(s) /\ UNCHANGED awsVars)
      <4>1. PICK M \in SUBSET Messages :
              /\ \A m \in M : receives[m] < MaxReceives
              /\ sqs' = [m \in Messages |-> IF m \in M THEN "inflight" ELSE sqs[m]]
              /\ receives' = [m \in Messages |->
                                IF m \in M THEN receives[m] + 1 ELSE receives[m]]
        BY <2>1, <3>2 DEF Receive
      <4>2. \A m \in Messages : (m \in M => receives[m] + 1 \in 0..MaxReceives)
        BY <4>1, PollerAssumption
      <4>3. QED
        BY <1>1, <2>1, <4>1, <4>2 DEF Receive
    <3>3. QED
      BY <3>1, <3>2
  <2>2. CASE DeleteMessage(s)
    BY <1>1, <2>2 DEF DeleteMessage
  <2>3. CASE Import(s)
    <3>1. Key(s) \in Keys
      BY <2>3, EventTypes DEF Import, RowLabels, EventLabels
    <3>2. QED
      BY <1>1, <2>3, <3>1 DEF Import, Answer
  <2>4. CASE Release(s)
    BY <1>1, <2>4 DEF Release, End, Unlock
  <2>5. CASE \/ ListActive(s) \/ NextQueue(s) \/ TakeMessage(s) \/ RecordFailure(s)
             \/ Probe(s) \/ Insert(s) \/ Lookup(s) \/ Begin(s) \/ Settle(s)
    BY <1>1, <2>5 DEF ListActive, NextQueue, TakeMessage, RecordFailure, Probe, Insert,
       Lookup, Begin, Settle
  <2>6. QED
    BY <1>5, <2>1, <2>2, <2>3, <2>4, <2>5 DEF SweepStep
<1>6. QED
  BY <1>2, <1>3, <1>4, <1>5 DEF Next

\* The steps of a turn that end it, or an event of it.
LEMMA SharedEndings ==
  ASSUME TypeOK, NEW s \in Sweeps
  PROVE  /\ LeaveQueue(s) /\ UNCHANGED todo => SweepsTypeOK'
         /\ pc[s] \in EventLabels /\ NextEvent(s) /\ UNCHANGED <<todo, at, batch, msg>>
              => SweepsTypeOK'
<1> USE DEF TypeOK, SweepsTypeOK
<1>1. ASSUME LeaveQueue(s), UNCHANGED todo PROVE SweepsTypeOK'
  BY <1>1 DEF LeaveQueue, Goto, Labels, Settled
<1>2. ASSUME pc[s] \in EventLabels, NextEvent(s), UNCHANGED <<todo, at, batch, msg>>
      PROVE  SweepsTypeOK'
  <2>1. Tail(left[s]) \in Seq(Keys)
    BY <1>2, EventTypes
  <2>2. pc' \in [Sweeps -> Labels]
    BY <1>2 DEF NextEvent, GoOnWith, Goto, Labels, QueueLabels, MessageLabels, EventLabels
  <2>3. QED
    BY <1>2, <2>1, <2>2 DEF NextEvent, GoOnWith, Settled
<1>3. QED
  BY <1>1, <1>2

LEMMA SweepsStep ==
  ASSUME TypeOK, [Next]_vars
  PROVE  SweepsTypeOK'
<1> USE DEF TypeOK, SweepsTypeOK, sweepVars, turnVars
<1>1. CASE UNCHANGED vars \/ Environment
  BY <1>1 DEF vars, Environment, Send, Redeliver, Pause, Resume, DeleteQueue,
     ClearEvents, LockExpires
<1>2. ASSUME NEW s \in Sweeps, Acquire(s) PROVE SweepsTypeOK'
  BY <1>2 DEF Acquire, Goto, Labels
<1>3. ASSUME NEW s \in Sweeps, End(s) PROVE SweepsTypeOK'
  BY <1>3 DEF End, Goto, Labels, Settled
<1>4. ASSUME NEW s \in Sweeps, Interruption(s) \/ Release(s) PROVE SweepsTypeOK'
  BY <1>3, <1>4 DEF Interruption, Cancelled, Crash, Release
<1>5. ASSUME NEW s \in Sweeps, SweepStep(s) PROVE SweepsTypeOK'
  <2> USE DEF Labels, QueueLabels, MessageLabels, EventLabels, RowLabels, Goto
  <2>1. CASE ListActive(s) \/ Lookup(s) \/ Begin(s)
    BY <2>1 DEF ListActive, Lookup, Begin
  <2>2. CASE NextQueue(s)
    <3>1. UNCHANGED <<batch, msg, left, row, outcome>>
      BY <2>2 DEF NextQueue
    <3>2. pc' \in [Sweeps -> Labels] /\ at' \in [Sweeps -> Queues \cup {None}]
      <4>1. \/ UNCHANGED pc \/ pc' = [pc EXCEPT ![s] = "release"]
            \/ pc' = [pc EXCEPT ![s] = "receive"]
        BY <2>2 DEF NextQueue
      <4>2. UNCHANGED at \/ \E q \in Queues : at' = [at EXCEPT ![s] = q]
        BY <2>2 DEF NextQueue
      <4>3. pc' \in [Sweeps -> Labels]
        BY <4>1
      <4>4. QED
        BY <4>2, <4>3
    <3>3. todo' \in [Sweeps -> SUBSET Queues]
      <4>1. \A q \in Queues : todo[s] \ {q} \in SUBSET Queues
        OBVIOUS
      <4>2. UNCHANGED todo \/ \E q \in Queues : todo' = [todo EXCEPT ![s] = todo[s] \ {q}]
        BY <2>2 DEF NextQueue
      <4>3. QED
        BY <4>1, <4>2
    <3>4. QED
      BY <3>1, <3>2, <3>3
  <2>3. CASE Receive(s)
    <3>1. CASE LeaveQueue(s)
      BY <2>3, <3>1, SharedEndings DEF Receive
    <3>2. CASE ~LeaveQueue(s)
      <4>1. PICK M \in SUBSET Messages : batch' = [batch EXCEPT ![s] = M]
        BY <2>3, <3>2 DEF Receive
      <4>2. pc' \in [Sweeps -> Labels]
        BY <2>3, <3>2 DEF Receive
      <4>3. UNCHANGED <<todo, at, msg, left, row, outcome>>
        BY <2>3, <3>2 DEF Receive
      <4>4. QED
        BY <4>1, <4>2, <4>3
    <3>3. QED
      BY <3>1, <3>2
  <2>4. CASE TakeMessage(s)
    <3>1. CASE LeaveQueue(s)
      BY <2>4, <3>1, SharedEndings DEF TakeMessage
    <3>2. CASE ~LeaveQueue(s)
      <4>1. PICK m \in Messages :
              /\ batch' = [batch EXCEPT ![s] = batch[s] \ {m}]
              /\ msg' = [msg EXCEPT ![s] = m]
              /\ GoOnWith(s, Records[m])
        BY <2>4, <3>2 DEF TakeMessage
      <4>2. Records[m] \in Seq(Keys)
        BY PollerAssumption
      <4>3. UNCHANGED <<todo, at, row, outcome>>
        BY <2>4, <3>2 DEF TakeMessage
      <4>4. pc' \in [Sweeps -> Labels] /\ left' \in [Sweeps -> Seq(Keys)]
        BY <4>1, <4>2 DEF GoOnWith
      <4>5. batch[s] \ {m} \in SUBSET Messages
        OBVIOUS
      <4>6. QED
        BY <4>1, <4>3, <4>4, <4>5
    <3>3. QED
      BY <3>1, <3>2
  <2>5. CASE RecordFailure(s)
    BY <2>5, SharedEndings DEF RecordFailure
  <2>6. CASE DeleteMessage(s)
    BY <2>6, SharedEndings DEF DeleteMessage
  <2>7. CASE Probe(s)
    BY <2>7, SharedEndings DEF Probe
  <2>8. CASE Insert(s)
    <3>1. Len(rows[Event(s)]) \in Nat
      BY <2>8, EventTypes, LenProperties DEF Insert
    <3>2. row' \in [Sweeps -> Nat]
      <4>1. UNCHANGED row \/ row' = [row EXCEPT ![s] = Len(rows[Event(s)]) + 1]
        BY <2>8 DEF Insert
      <4>2. Len(rows[Event(s)]) + 1 \in Nat
        BY <3>1
      <4>3. QED
        BY <4>1, <4>2
    <3>3. pc' \in [Sweeps -> Labels]
      BY <2>8 DEF Insert
    <3>4. UNCHANGED <<todo, at, batch, msg, left, outcome>>
      BY <2>8 DEF Insert
    <3>5. QED
      BY <3>2, <3>3, <3>4
  <2>9. CASE Import(s)
    BY <2>9 DEF Import, Settled
  <2>10. CASE Settle(s)
    BY <2>10, SharedEndings DEF Settle
  <2>11. QED
    BY <1>4, <1>5, <2>1, <2>2, <2>3, <2>4, <2>5, <2>6, <2>7, <2>8, <2>9, <2>10 DEF SweepStep
<1>6. QED
  BY <1>1, <1>2, <1>4, <1>5 DEF Next

LEMMA HistoryStep ==
  ASSUME TypeOK, [Next]_vars
  PROVE  HistoryTypeOK'
<1> USE DEF TypeOK, HistoryTypeOK, historyVars
<1>1. CASE UNCHANGED vars
  BY <1>1 DEF vars
<1>2. CASE Environment
  <2>1. ASSUME NEW E, Forget(E)
        PROVE  attempts' \in [Events -> Nat] /\ cutShort' \subseteq Events
    BY <2>1 DEF Forget
  <2>2. CASE LockExpires
    BY <2>2 DEF LockExpires
  <2>3. CASE ClearEvents \/ \E q \in Queues : DeleteQueue(q)
    BY <2>1, <2>3 DEF ClearEvents, DeleteQueue
  <2>4. CASE \/ \E m \in Messages : Send(m) \/ Redeliver(m)
             \/ \E q \in Queues : Pause(q) \/ Resume(q)
    BY <2>4 DEF Send, Redeliver, Pause, Resume
  <2>5. QED
    BY <1>2, <2>2, <2>3, <2>4 DEF Environment
<1>3. ASSUME NEW s \in Sweeps, Acquire(s) \/ Interruption(s) PROVE HistoryTypeOK'
  BY <1>3 DEF Acquire, Interruption, Cancelled, Crash, End
<1>4. ASSUME NEW s \in Sweeps, SweepStep(s) PROVE HistoryTypeOK'
  BY <1>4 DEF SweepStep, ListActive, NextQueue, Release, End, Receive, TakeMessage,
     RecordFailure, DeleteMessage, Probe, Insert, Lookup, Begin, Import, Settle
<1>5. QED
  BY <1>1, <1>2, <1>3, <1>4 DEF Next

\* A sweep that does not move keeps what its label works on.
LEMMA OthersStayPlaced ==
  ASSUME TypeOK, RowsGrow, NEW t \in Sweeps,
         pc'[t] = pc[t], at'[t] = at[t], msg'[t] = msg[t], left'[t] = left[t], row'[t] = row[t]
  PROVE  Placed(t)'
<1>1. Placed(t)
  BY DEF TypeOK
<1>2. Event(t)' = Event(t)
  BY DEF Event, Key
<1>3. pc[t] \in RowLabels => row[t] \in DOMAIN rows'[Event(t)]
  BY <1>1, EventTypes DEF Placed, RowsGrow, EventLabels
<1>4. QED
  BY <1>1, <1>2, <1>3 DEF Placed

\* Labels that need nothing, or no more than a queue, a message or an event.
LEMMA PlacedAt ==
  ASSUME NEW s \in Sweeps
  PROVE  /\ pc'[s] \in {"idle", "list", "next", "release"} => Placed(s)'
         /\ pc'[s] \in {"receive", "message"} /\ at'[s] \in Queues => Placed(s)'
         /\ pc'[s] = "delete" /\ at'[s] \in Queues /\ msg'[s] \in Messages => Placed(s)'
         /\ pc'[s] \in {"probe", "insert", "record"} /\ at'[s] \in Queues
              /\ msg'[s] \in Messages /\ left'[s] # <<>> => Placed(s)'
<1>1. pc'[s] \in {"idle", "list", "next", "release"} => Placed(s)'
  BY DEF Placed, QueueLabels, MessageLabels, EventLabels, RowLabels
<1>2. pc'[s] \in {"receive", "message"} /\ at'[s] \in Queues => Placed(s)'
  BY DEF Placed, QueueLabels, MessageLabels, EventLabels, RowLabels
<1>3. pc'[s] = "delete" /\ at'[s] \in Queues /\ msg'[s] \in Messages => Placed(s)'
  BY DEF Placed, QueueLabels, MessageLabels, EventLabels, RowLabels
<1>4. pc'[s] \in {"probe", "insert", "record"} /\ at'[s] \in Queues
        /\ msg'[s] \in Messages /\ left'[s] # <<>> => Placed(s)'
  BY DEF Placed, QueueLabels, MessageLabels, EventLabels, RowLabels
<1>5. QED
  BY <1>1, <1>2, <1>3, <1>4, Zenon

LEMMA PlacedEnvironment ==
  ASSUME TypeOK, UNCHANGED vars \/ Environment, NEW t \in Sweeps
  PROVE  Placed(t)'
<1>1. RowsGrow
  BY RowsStep DEF Next
<1>2. UNCHANGED <<pc, at, msg, left, row>>
  BY DEF vars, Environment, Send, Redeliver, Pause, Resume, DeleteQueue, ClearEvents,
     LockExpires, sweepVars, turnVars
<1>3. QED
  BY <1>1, <1>2, OthersStayPlaced

\* The sweep that moves.
LEMMA PlacedMover ==
  ASSUME TypeOK, NEW s \in Sweeps, Acquire(s) \/ SweepStep(s) \/ Interruption(s)
  PROVE  Placed(s)'
<1> USE DEF Goto, turnVars
<1>1. RowsGrow
  BY RowsStep DEF Next
<1>2. Placed(s) /\ SweepsTypeOK
  BY DEF TypeOK
<1>3. ASSUME LeaveQueue(s) \/ End(s) PROVE Placed(s)'
  BY <1>2, <1>3, PlacedAt DEF LeaveQueue, End, SweepsTypeOK
<1>4. ASSUME pc[s] \in QueueLabels, UNCHANGED at, msg'[s] \in Messages, NEW events,
             GoOnWith(s, events)
      PROVE  Placed(s)'
  <2>1. left'[s] = events /\ pc'[s] = IF events = <<>> THEN "delete" ELSE "probe"
    BY <1>2, <1>4 DEF GoOnWith, SweepsTypeOK
  <2>2. at'[s] \in Queues
    BY <1>2, <1>4 DEF Placed
  <2>3. QED
    BY <1>4, <2>1, <2>2, PlacedAt
<1>5. ASSUME pc[s] \in EventLabels, NextEvent(s), UNCHANGED <<at, msg>>
      PROVE  Placed(s)'
  <2>1. msg'[s] \in Messages
    BY <1>5, EventTypes
  <2>2. QED
    BY <1>4, <1>5, <2>1 DEF NextEvent, QueueLabels, MessageLabels
<1>6. CASE Acquire(s) \/ ListActive(s)
  BY <1>2, <1>6, PlacedAt DEF Acquire, ListActive, SweepsTypeOK
<1>7. CASE Interruption(s) \/ Release(s)
  BY <1>3, <1>7 DEF Interruption, Cancelled, Crash, Release
<1>8. CASE NextQueue(s)
  <2>1. \/ pc'[s] \in {"next", "release"}
        \/ pc'[s] = "receive" /\ at'[s] \in Queues
    BY <1>2, <1>8 DEF NextQueue, SweepsTypeOK
  <2>2. QED
    BY <2>1, PlacedAt
<1>9. CASE Receive(s)
  <2>1. CASE ~LeaveQueue(s)
    <3>1. pc'[s] = "message" /\ at'[s] \in Queues
      BY <1>2, <1>9, <2>1 DEF Receive, SweepsTypeOK, Placed, QueueLabels
    <3>2. QED
      BY <3>1, PlacedAt
  <2>2. QED
    BY <1>3, <2>1
<1>10. CASE TakeMessage(s)
  <2>1. CASE ~LeaveQueue(s)
    <3>1. PICK m \in Messages : msg' = [msg EXCEPT ![s] = m] /\ GoOnWith(s, Records[m])
      BY <1>2, <1>10, <2>1 DEF TakeMessage, SweepsTypeOK
    <3>2. msg'[s] \in Messages
      BY <1>2, <3>1 DEF SweepsTypeOK
    <3>3. UNCHANGED at /\ pc[s] \in QueueLabels
      BY <1>10, <2>1 DEF TakeMessage, QueueLabels
    <3>4. QED
      BY <1>4, <3>1, <3>2, <3>3
  <2>2. QED
    BY <1>3, <2>1
<1>11. CASE DeleteMessage(s)
  <2>1. CASE ~LeaveQueue(s)
    <3>1. pc'[s] = "message" /\ at'[s] \in Queues
      BY <1>2, <1>11, <2>1 DEF DeleteMessage, SweepsTypeOK, Placed, QueueLabels, MessageLabels
    <3>2. QED
      BY <3>1, PlacedAt
  <2>2. QED
    BY <1>3, <2>1
<1>12. CASE RecordFailure(s)
  BY <1>3, <1>5, <1>12 DEF RecordFailure, EventLabels
<1>13. CASE Settle(s)
  BY <1>5, <1>13 DEF Settle, EventLabels, RowLabels
<1>14. CASE Probe(s)
  <2>1. CASE Present(Event(s))
    BY <1>5, <1>14, <2>1 DEF Probe, EventLabels
  <2>2. CASE ~Present(Event(s))
    <3>1. /\ pc'[s] = "insert" /\ at'[s] \in Queues /\ msg'[s] \in Messages
          /\ left'[s] # <<>>
      BY <1>2, <1>14, <2>2 DEF Probe, SweepsTypeOK, Placed, QueueLabels, MessageLabels, EventLabels
    <3>2. QED
      BY <3>1, PlacedAt
  <2>3. QED
    BY <2>1, <2>2
<1>15. ASSUME pc[s] \in EventLabels, UNCHANGED <<at, msg, left>>
       PROVE  /\ at'[s] \in Queues /\ msg'[s] \in Messages /\ left'[s] # <<>>
              /\ Event(s)' = Event(s)
  BY <1>2, <1>15, EventTypes DEF Event, Key, Placed
<1>16. CASE Insert(s)
  <2>1. pc[s] \in EventLabels /\ UNCHANGED <<at, msg, left>>
    BY <1>16 DEF Insert, EventLabels
  <2>2. CASE queues[at[s]] # "deleted"
    <3>1. Len(rows[Event(s)]) + 1 \in DOMAIN rows'[Event(s)]
      BY <1>16, <2>1, <2>2, AppendGrows DEF Insert, Status
    <3>2. row'[s] = Len(rows[Event(s)]) + 1 /\ pc'[s] = "lookup"
      BY <1>2, <1>16, <2>2 DEF Insert, SweepsTypeOK
    <3>3. QED
      BY <1>15, <2>1, <3>1, <3>2 DEF Placed, QueueLabels, MessageLabels, EventLabels
  <2>3. CASE queues[at[s]] = "deleted"
    <3>1. pc'[s] = "record"
      BY <1>2, <1>16, <2>3 DEF Insert, SweepsTypeOK
    <3>2. QED
      BY <1>15, <2>1, <3>1, PlacedAt
  <2>4. QED
    BY <2>2, <2>3
<1>17. CASE Lookup(s) \/ Begin(s) \/ Import(s)
  <2>1. pc[s] \in RowLabels /\ UNCHANGED <<at, msg, left, row>>
    BY <1>17 DEF Lookup, Begin, Import, RowLabels
  <2>2. row'[s] \in DOMAIN rows'[Event(s)]
    BY <1>1, <1>2, <2>1, EventTypes DEF RowsGrow, Placed, EventLabels
  <2>3. pc'[s] \in RowLabels \/ pc'[s] = "record"
    BY <1>2, <1>17 DEF Lookup, Begin, Import, RowLabels, SweepsTypeOK
  <2>4. QED
    BY <1>15, <2>1, <2>2, <2>3, PlacedAt DEF Placed, EventLabels
<1>18. QED
  BY <1>6, <1>7, <1>8, <1>9, <1>10, <1>11, <1>12, <1>13, <1>14, <1>16, <1>17 DEF SweepStep

\* A step of one sweep leaves the locals of the others alone.
LEMMA OthersUntouched ==
  ASSUME TypeOK, NEW s \in Sweeps, Acquire(s) \/ SweepStep(s) \/ Interruption(s),
         NEW t \in Sweeps, t # s
  PROVE  /\ pc'[t] = pc[t] /\ at'[t] = at[t] /\ msg'[t] = msg[t]
         /\ left'[t] = left[t] /\ row'[t] = row[t]
<1> USE DEF Goto, turnVars, TypeOK, SweepsTypeOK
<1>1. CASE Acquire(s) \/ Interruption(s) \/ Release(s)
  BY <1>1 DEF Acquire, Interruption, Cancelled, Crash, Release, End
<1>2. CASE ListActive(s) \/ NextQueue(s) \/ Lookup(s) \/ Begin(s) \/ Import(s) \/ Insert(s)
  BY <1>2 DEF ListActive, NextQueue, Lookup, Begin, Import, Insert
<1>3. CASE Receive(s) \/ DeleteMessage(s)
  BY <1>3 DEF Receive, DeleteMessage, LeaveQueue
<1>4. CASE TakeMessage(s)
  BY <1>4 DEF TakeMessage, LeaveQueue, GoOnWith
<1>5. CASE Probe(s) \/ Settle(s)
  BY <1>5 DEF Probe, Settle, NextEvent, GoOnWith
<1>6. CASE RecordFailure(s)
  BY <1>6 DEF RecordFailure, NextEvent, GoOnWith, LeaveQueue
<1>7. QED
  BY <1>1, <1>2, <1>3, <1>4, <1>5, <1>6 DEF SweepStep

LEMMA TypeStep ==
  ASSUME TypeOK, [Next]_vars
  PROVE  TypeOK'
<1>1. \A t \in Sweeps : Placed(t)'
  <2> TAKE t \in Sweeps
  <2>1. CASE UNCHANGED vars \/ Environment
    BY <2>1, PlacedEnvironment
  <2>2. ASSUME NEW s \in Sweeps, Acquire(s) \/ SweepStep(s) \/ Interruption(s)
        PROVE  Placed(t)'
    <3>1. CASE t = s
      BY <2>2, <3>1, PlacedMover
    <3>2. CASE t # s
      BY <2>2, <3>2, OthersUntouched, OthersStayPlaced, RowsStep
    <3>3. QED
      BY <3>1, <3>2
  <2>3. QED
    BY <2>1, <2>2 DEF Next
<1>2. QED
  BY <1>1, TablesStep, SweepsStep, HistoryStep DEF TypeOK

LEMMA InitTypes == Init => TypeOK
<1> SUFFICES ASSUME Init PROVE TypeOK
  OBVIOUS
<1> USE PollerAssumption DEF Init
<1>1. TablesTypeOK
  BY DEF TablesTypeOK
<1>2. SweepsTypeOK
  BY DEF SweepsTypeOK, Labels, Settled
<1>3. HistoryTypeOK
  BY DEF HistoryTypeOK
<1>4. \A s \in Sweeps : Placed(s)
  BY DEF Placed, QueueLabels, MessageLabels, EventLabels, RowLabels
<1>5. QED
  BY <1>1, <1>2, <1>3, <1>4 DEF TypeOK

\* Every reachable state is well typed and every sweep at work has what its step
\* works on: no step of process_s3_event runs without its message, event and row.
THEOREM TypeCorrect == Spec => []TypeOK
BY InitTypes, TypeStep, PTL DEF Spec

-----------------------------------------------------------------------------
(* The lock *)

\* No sweep is late before one outlives its lock.
HolderInv == TypeOK /\ OnlyHolderPolls /\ (~overrun => late = {})

LEMMA HolderStep ==
  ASSUME HolderInv, [Next]_vars
  PROVE  HolderInv'
<1> USE DEF HolderInv, OnlyHolderPolls
<1>1. TypeOK'
  BY TypeStep
<1>2. lock \in Sweeps \cup {Free, Dead} /\ pc \in [Sweeps -> Labels] /\ late \subseteq Sweeps
  BY DEF TypeOK, TablesTypeOK, SweepsTypeOK, HistoryTypeOK
<1>3. CASE UNCHANGED <<lock, pc, late, overrun>>
  BY <1>1, <1>3
<1>4. CASE LockExpires
  <2>1. UNCHANGED pc
    BY <1>4 DEF LockExpires, sweepVars
  <2>2. QED
    BY <1>1, <1>2, <1>4, <2>1 DEF LockExpires
<1>5. ASSUME NEW s \in Sweeps, Acquire(s) PROVE HolderInv'
  BY <1>1, <1>2, <1>5, PollerAssumption DEF Acquire, Goto, historyVars
<1>6. ASSUME NEW s \in Sweeps, End(s), NEW k,
             lock' = (IF lock = s THEN k ELSE lock)
      PROVE  HolderInv'
  <2>1. /\ pc' = [pc EXCEPT ![s] = "idle"] /\ late' = late \ {s} /\ UNCHANGED overrun
    BY <1>6 DEF End, Goto
  <2>2. QED
    BY <1>1, <1>2, <1>6, <2>1
<1>7. ASSUME NEW s \in Sweeps, Interruption(s) \/ Release(s) PROVE HolderInv'
  BY <1>6, <1>7 DEF Interruption, Cancelled, Crash, Release, Unlock
<1>8. ASSUME NEW s \in Sweeps, SweepStep(s), ~Release(s) PROVE HolderInv'
  <2>1. UNCHANGED <<lock, late, overrun>> /\ pc[s] # "idle"
    BY <1>8 DEF SweepStep, ListActive, NextQueue, Receive, TakeMessage, RecordFailure,
       DeleteMessage, Probe, Insert, Lookup, Begin, Import, Settle, historyVars
  <2>2. \A t \in Sweeps : t # s => pc'[t] = pc[t]
    BY <1>8, OthersUntouched
  <2>3. QED
    BY <1>1, <2>1, <2>2
<1>9. CASE UNCHANGED vars \/ (Environment /\ ~LockExpires)
  BY <1>3, <1>9 DEF vars, Environment, Send, Redeliver, Pause, Resume, DeleteQueue,
     ClearEvents, sweepVars, historyVars
<1>10. QED
  BY <1>4, <1>5, <1>7, <1>8, <1>9 DEF Next

LEMMA InitHolder == Init => HolderInv
BY InitTypes DEF Init, HolderInv, OnlyHolderPolls

\* A sweep at work holds the lock or has lost it to the TTL: no sweep takes or frees
\* another's lock, however many sweeps there are and however often the TTL expires.
THEOREM HolderPolls == Spec => []OnlyHolderPolls
<1>1. HolderInv => OnlyHolderPolls
  BY DEF HolderInv
<1>2. QED
  BY <1>1, InitHolder, HolderStep, PTL DEF Spec

\* Until a sweep outlives its lock, two sweeps are never at work at once: all that
\* the docstring's "only one worker polls at a time" can rest on.
Exclusive == ~overrun => \A s, t \in Sweeps : pc[s] # "idle" /\ pc[t] # "idle" => s = t

LEMMA HolderExcludes == HolderInv => Exclusive
BY DEF HolderInv, OnlyHolderPolls, Exclusive

THEOREM SweepsAreExclusive == Spec => []Exclusive
BY InitHolder, HolderStep, HolderExcludes, PTL DEF Spec

-----------------------------------------------------------------------------
(* Recorded before deleted *)

\* An object created in m is recorded, or still ahead of sweep s.
Accounted(s, key) ==
  \/ rows[<<msg[s], key>>] # <<>>
  \/ \E j \in DOMAIN left[s] : left[s][j] = key

SweepAccounts(s) ==
  /\ pc[s] \in MessageLabels =>
       \A i \in DOMAIN Records[msg[s]] : Accounted(s, Records[msg[s]][i])
  /\ pc[s] = "delete" => left[s] = <<>>

RecordInv == TypeOK /\ RecordedBeforeDeleted /\ \A s \in Sweeps : SweepAccounts(s)

LEMMA RecordsAreKeys ==
  ASSUME NEW m \in Messages, NEW i \in DOMAIN Records[m]
  PROVE  Records[m][i] \in Keys /\ <<m, Records[m][i]>> \in Events
<1>1. Records[m] \in Seq(Keys)
  BY PollerAssumption
<1>2. Records[m][i] \in Keys
  BY <1>1, LenProperties
<1>3. QED
  BY <1>2 DEF Events

LEMMA NonemptyStays ==
  ASSUME TypeOK, RowsGrow, NEW e \in Events, rows[e] # <<>>
  PROVE  rows'[e] # <<>>
<1>1. rows[e] \in Seq(Status) /\ rows'[e] \in Seq(Status)
  BY DEF TypeOK, TablesTypeOK, RowsGrow
<1>2. DOMAIN rows[e] \subseteq DOMAIN rows'[e]
  BY DEF RowsGrow
<1>3. 1 \in DOMAIN rows[e]
  BY <1>1, LenProperties, EmptySeq
<1>4. QED
  BY <1>1, <1>2, <1>3, LenProperties, EmptySeq

\* A sweep that does not move, or moves within an event, still accounts for it.
LEMMA AccountsStay ==
  ASSUME TypeOK, RowsGrow, NEW s \in Sweeps, SweepAccounts(s),
         pc'[s] \in MessageLabels => pc[s] \in MessageLabels,
         pc'[s] = "delete" => pc[s] = "delete",
         msg'[s] = msg[s], left'[s] = left[s]
  PROVE  SweepAccounts(s)'
<1>1. ASSUME pc[s] \in MessageLabels, NEW i \in DOMAIN Records[msg[s]]
      PROVE  Accounted(s, Records[msg[s]][i])'
  <2>1. Accounted(s, Records[msg[s]][i])
    BY <1>1 DEF SweepAccounts
  <2>2. msg[s] \in Messages
    BY <1>1 DEF TypeOK, Placed
  <2>3. <<msg[s], Records[msg[s]][i]>> \in Events
    BY <1>1, <2>2, RecordsAreKeys
  <2>4. QED
    BY <2>1, <2>3, NonemptyStays DEF Accounted
<1>2. QED
  BY <1>1 DEF SweepAccounts

\* The event at the head is recorded, so the tail is what is ahead.
LEMMA AccountsNext ==
  ASSUME TypeOK, RowsGrow, NEW s \in Sweeps, SweepAccounts(s), pc[s] \in EventLabels,
         rows'[Event(s)] # <<>>, NextEvent(s), UNCHANGED msg
  PROVE  SweepAccounts(s)'
<1>1. left'[s] = Tail(left[s]) /\ pc'[s] = (IF Tail(left[s]) = <<>> THEN "delete" ELSE "probe")
  BY DEF NextEvent, GoOnWith, Goto, TypeOK, SweepsTypeOK
<1>2. msg[s] \in Messages /\ left[s] \in Seq(Keys) /\ left[s] # <<>>
  BY DEF TypeOK, SweepsTypeOK, Placed, MessageLabels
<1>3. ASSUME NEW i \in DOMAIN Records[msg[s]]
      PROVE  Accounted(s, Records[msg[s]][i])'
  <2> DEFINE key == Records[msg[s]][i]
  <2>1. <<msg[s], key>> \in Events
    BY <1>2, <1>3, RecordsAreKeys
  <2>2. CASE rows[<<msg[s], key>>] # <<>>
    BY <2>1, <2>2, NonemptyStays DEF Accounted
  <2>3. ASSUME NEW j \in DOMAIN left[s], left[s][j] = key
        PROVE  Accounted(s, key)'
    <3>1. j \in 1..Len(left[s]) /\ Len(left[s]) \in Nat
      BY <1>2, <2>3, LenProperties
    <3>2. CASE j = 1
      <4>1. Key(s) = key
        BY <1>2, <2>3, <3>2 DEF Key
      <4>2. QED
        BY <4>1 DEF Accounted, Event
    <3>3. CASE j # 1
      <4>1. /\ Len(Tail(left[s])) = Len(left[s]) - 1
            /\ \A k \in 1..Len(Tail(left[s])) : Tail(left[s])[k] = left[s][k + 1]
            /\ DOMAIN Tail(left[s]) = 1..Len(Tail(left[s]))
        BY <1>2, HeadTailProperties, LenProperties
      <4>2. j - 1 \in DOMAIN Tail(left[s]) /\ Tail(left[s])[j - 1] = key
        BY <2>3, <3>1, <3>3, <4>1
      <4>3. QED
        BY <1>1, <4>2 DEF Accounted
    <3>4. QED
      BY <3>2, <3>3
  <2>4. QED
    BY <1>3, <2>2, <2>3 DEF SweepAccounts, Accounted, MessageLabels
<1>4. QED
  BY <1>1, <1>3 DEF SweepAccounts

\* The sweep that moves.
LEMMA MoverAccounts ==
  ASSUME RecordInv, NEW s \in Sweeps, Acquire(s) \/ SweepStep(s) \/ Interruption(s)
  PROVE  SweepAccounts(s)'
<1> USE DEF Goto, turnVars
<1>1. TypeOK /\ RowsGrow /\ SweepsTypeOK /\ SweepAccounts(s)
  BY RowsStep DEF RecordInv, TypeOK, Next
<1>2. ASSUME pc'[s] \notin MessageLabels PROVE SweepAccounts(s)'
  BY <1>2 DEF SweepAccounts, MessageLabels
<1>3. ASSUME LeaveQueue(s) \/ End(s) PROVE SweepAccounts(s)'
  <2>1. pc'[s] \in {"next", "idle"}
    BY <1>1, <1>3 DEF LeaveQueue, End, SweepsTypeOK
  <2>2. QED
    BY <1>2, <2>1 DEF MessageLabels, EventLabels, RowLabels
<1>4. CASE Acquire(s) \/ ListActive(s) \/ NextQueue(s)
  <2>1. pc'[s] \in {"list", "next", "release", "receive"}
    BY <1>1, <1>4 DEF Acquire, ListActive, NextQueue, SweepsTypeOK
  <2>2. QED
    BY <1>2, <2>1 DEF MessageLabels, EventLabels, RowLabels
<1>5. CASE Interruption(s) \/ Release(s)
  BY <1>3, <1>5 DEF Interruption, Cancelled, Crash, Release
<1>6. CASE Receive(s) \/ DeleteMessage(s)
  <2>1. CASE ~LeaveQueue(s)
    <3>1. pc'[s] = "message"
      BY <1>1, <1>6, <2>1 DEF Receive, DeleteMessage, SweepsTypeOK
    <3>2. QED
      BY <1>2, <3>1 DEF MessageLabels, EventLabels, RowLabels
  <2>2. QED
    BY <1>3, <2>1
<1>7. CASE TakeMessage(s)
  <2>1. CASE ~LeaveQueue(s)
    <3>1. PICK m \in Messages : msg' = [msg EXCEPT ![s] = m] /\ GoOnWith(s, Records[m])
      BY <1>1, <1>7, <2>1 DEF TakeMessage, SweepsTypeOK
    <3>2. /\ msg'[s] = m /\ left'[s] = Records[m]
          /\ pc'[s] = (IF Records[m] = <<>> THEN "delete" ELSE "probe")
      BY <1>1, <3>1 DEF GoOnWith, SweepsTypeOK
    <3>3. QED
      BY <3>2 DEF SweepAccounts, Accounted
  <2>2. QED
    BY <1>3, <2>1
<1>8. CASE RecordFailure(s)
  <2>1. CASE queues[at[s]] # "deleted"
    <3>1. rows'[Event(s)] # <<>> /\ pc[s] \in EventLabels
      BY <1>1, <1>8, <2>1, EventTypes, AppendProperties
      DEF RecordFailure, EventLabels, Status, Settled, TypeOK, TablesTypeOK
    <3>2. NextEvent(s) /\ UNCHANGED msg
      BY <1>8, <2>1 DEF RecordFailure
    <3>3. QED
      BY <1>1, <3>1, <3>2, AccountsNext
  <2>2. QED
    BY <1>3, <1>8, <2>1 DEF RecordFailure
<1>9. CASE Probe(s)
  <2>1. CASE Present(Event(s))
    <3>1. pc[s] \in EventLabels /\ NextEvent(s) /\ UNCHANGED <<rows, msg>>
      BY <1>9, <2>1 DEF Probe, EventLabels, tableVars
    <3>2. rows[Event(s)] # <<>>
      BY <2>1 DEF Present
    <3>3. QED
      BY <1>1, <3>1, <3>2, AccountsNext
  <2>2. CASE ~Present(Event(s))
    BY <1>1, <1>9, <2>2, AccountsStay
    DEF Probe, MessageLabels, EventLabels, SweepsTypeOK
  <2>3. QED
    BY <2>1, <2>2
<1>10. CASE Insert(s) \/ Lookup(s) \/ Begin(s) \/ Import(s)
  <2>1. pc[s] \in MessageLabels /\ pc'[s] # "delete" /\ UNCHANGED <<msg, left>>
    BY <1>1, <1>10
    DEF Insert, Lookup, Begin, Import, MessageLabels, EventLabels, RowLabels, SweepsTypeOK
  <2>2. QED
    BY <1>1, <2>1, AccountsStay
<1>11. CASE Settle(s)
  <2>1. pc[s] \in EventLabels /\ pc[s] \in RowLabels /\ NextEvent(s) /\ UNCHANGED msg
    BY <1>11 DEF Settle, EventLabels, RowLabels
  <2>2. row[s] \in DOMAIN rows[Event(s)] /\ Event(s) \in Events
    BY <1>1, <2>1, EventTypes DEF TypeOK, Placed
  <2>3. rows[Event(s)] # <<>>
    BY <2>2
  <2>4. rows'[Event(s)] # <<>>
    BY <1>1, <2>2, <2>3, NonemptyStays
  <2>5. QED
    BY <1>1, <2>1, <2>4, AccountsNext
<1>12. QED
  BY <1>4, <1>5, <1>6, <1>7, <1>8, <1>9, <1>10, <1>11 DEF SweepStep

\* Only delete_message makes a message deleted.
LEMMA DeletedStep ==
  ASSUME RecordInv, [Next]_vars
  PROVE  RecordedBeforeDeleted'
<1>1. TypeOK /\ RowsGrow
  BY RowsStep DEF RecordInv
<1>2. ASSUME NEW m \in Messages, NEW i \in DOMAIN Records[m], rows[<<m, Records[m][i]>>] # <<>>
      PROVE  rows'[<<m, Records[m][i]>>] # <<>>
  BY <1>1, <1>2, RecordsAreKeys, NonemptyStays
<1>3. ASSUME \A m \in Messages : sqs'[m] = "deleted" => sqs[m] = "deleted"
      PROVE  RecordedBeforeDeleted'
  BY <1>2, <1>3 DEF RecordInv, RecordedBeforeDeleted
<1>4. ASSUME NEW s \in Sweeps, DeleteMessage(s) PROVE RecordedBeforeDeleted'
  <2>1. \A i \in DOMAIN Records[msg[s]] : rows[<<msg[s], Records[msg[s]][i]>>] # <<>>
    <3>1. left[s] = <<>> /\ \A i \in DOMAIN Records[msg[s]] : Accounted(s, Records[msg[s]][i])
      BY <1>4 DEF DeleteMessage, RecordInv, SweepAccounts, MessageLabels
    <3>2. DOMAIN left[s] = {}
      BY <3>1
    <3>3. QED
      BY <3>1, <3>2 DEF Accounted
  <2>2. \A m \in Messages : sqs'[m] = "deleted" => sqs[m] = "deleted" \/ m = msg[s]
    BY <1>1, <1>4 DEF DeleteMessage, TypeOK, TablesTypeOK
  <2>3. QED
    BY <1>2, <2>1, <2>2 DEF RecordInv, RecordedBeforeDeleted
<1>5. ASSUME NEW s \in Sweeps, Receive(s) PROVE RecordedBeforeDeleted'
  BY <1>3, <1>5 DEF Receive, awsVars
<1>6. CASE UNCHANGED sqs
  BY <1>3, <1>6
<1>7. CASE UNCHANGED vars \/ Environment
  <2>1. \A m \in Messages : sqs'[m] = "deleted" => sqs[m] = "deleted"
    BY <1>1, <1>7 DEF vars, Environment, Send, Redeliver, Pause, Resume, DeleteQueue,
       ClearEvents, LockExpires, awsVars, TypeOK, TablesTypeOK
  <2>2. QED
    BY <1>3, <2>1
<1>8. ASSUME NEW s \in Sweeps, Acquire(s) \/ SweepStep(s) \/ Interruption(s)
      PROVE  RecordedBeforeDeleted'
  <2>1. DeleteMessage(s) \/ Receive(s) \/ UNCHANGED sqs
    BY <1>8 DEF Acquire, Interruption, Cancelled, Crash, End, SweepStep, ListActive,
       NextQueue, Release, TakeMessage, RecordFailure, Probe, Insert, Lookup, Begin,
       Import, Settle, awsVars
  <2>2. QED
    BY <1>4, <1>5, <1>6, <2>1
<1>9. QED
  BY <1>7, <1>8 DEF Next

LEMMA RecordStep ==
  ASSUME RecordInv, [Next]_vars
  PROVE  RecordInv'
<1>1. TypeOK /\ TypeOK' /\ RowsGrow /\ RecordedBeforeDeleted'
  BY TypeStep, RowsStep, DeletedStep DEF RecordInv
<1>2. ASSUME NEW t \in Sweeps, pc'[t] = pc[t], msg'[t] = msg[t], left'[t] = left[t]
      PROVE  SweepAccounts(t)'
  BY <1>1, <1>2, AccountsStay DEF RecordInv
<1>3. ASSUME NEW t \in Sweeps PROVE SweepAccounts(t)'
  <2>1. CASE UNCHANGED vars \/ Environment
    BY <1>2, <2>1 DEF vars, Environment, Send, Redeliver, Pause, Resume, DeleteQueue,
       ClearEvents, LockExpires, sweepVars, turnVars
  <2>2. ASSUME NEW s \in Sweeps, Acquire(s) \/ SweepStep(s) \/ Interruption(s)
        PROVE  SweepAccounts(t)'
    BY <1>1, <1>2, <2>2, MoverAccounts, OthersUntouched
  <2>3. QED
    BY <2>1, <2>2 DEF Next
<1>4. QED
  BY <1>1, <1>3 DEF RecordInv

\* No message is deleted before every object created in it has a row, whatever fails,
\* dies, expires or is deleted in between and for messages of any number of objects.
THEOREM RecordedFirst == Spec => []RecordedBeforeDeleted
<1>1. Init => RecordInv
  BY InitTypes DEF Init, RecordInv, RecordedBeforeDeleted, SweepAccounts, MessageLabels,
     EventLabels, RowLabels
<1>2. RecordInv => RecordedBeforeDeleted
  BY DEF RecordInv
<1>3. QED
  BY <1>1, <1>2, RecordStep, PTL DEF Spec

-----------------------------------------------------------------------------
(* One import per event *)

\* An import that counts was made for a row that is there.
ImportCounted(e) == attempts[e] <= 1 /\ (attempts[e] # 0 => Present(e))

\* The sweep that is about to insert an event, or to import it for its row, is the
\* first to.
First(s) ==
  /\ pc[s] = "insert" => ~Present(Event(s))
  /\ pc[s] \in {"lookup", "begin", "import"} /\ rows[Event(s)][row[s]] # "removed" =>
       attempts[Event(s)] = 0

ImportInv ==
  /\ HolderInv
  /\ ~overrun => (\A e \in Events : ImportCounted(e)) /\ (\A s \in Sweeps : First(s))

LEMMA AppendPresent ==
  ASSUME NEW r \in Seq(Status), NEW st \in Status
  PROVE  /\ Append(r, st)[Len(r) + 1] = st
         /\ Len(r) + 1 \in DOMAIN Append(r, st)
         /\ \A i \in DOMAIN r : i \in DOMAIN Append(r, st) /\ Append(r, st)[i] = r[i]
<1>1. Append(r, st) \in Seq(Status)
  BY AppendProperties
<1>2. DOMAIN r = 1..Len(r) /\ DOMAIN Append(r, st) = 1..Len(Append(r, st)) /\ Len(r) \in Nat
  BY <1>1, LenProperties
<1>3. QED
  BY <1>2, AppendProperties

\* Neither a new row nor a new status takes the last row of an event away.
LEMMA PresentStays ==
  ASSUME TypeOK, NEW s \in Sweeps, pc[s] \in EventLabels,
         NEW st \in Status \ {"removed"},
         \/ UNCHANGED rows
         \/ rows' = [rows EXCEPT ![Event(s)] = Append(@, st)]
         \/ pc[s] \in RowLabels /\ Update(s, st)
  PROVE  \A e \in Events : Present(e) => Present(e)'
<1>1. rows \in [Events -> Seq(Status)] /\ Event(s) \in Events
  BY EventTypes DEF TypeOK, TablesTypeOK
<1> SUFFICES ASSUME NEW e \in Events, NEW i \in DOMAIN rows[e], rows[e][i] # "removed"
             PROVE  i \in DOMAIN rows'[e] /\ rows'[e][i] # "removed"
  BY DEF Present
<1>2. CASE UNCHANGED rows
  BY <1>2
<1>3. CASE rows' = [rows EXCEPT ![Event(s)] = Append(@, st)]
  <2>1. rows[Event(s)] \in Seq(Status)
    BY <1>1
  <2>2. CASE e = Event(s)
    BY <1>1, <1>3, <2>1, <2>2, AppendPresent
  <2>3. CASE e # Event(s)
    BY <1>1, <1>3, <2>3
  <2>4. QED
    BY <2>2, <2>3
<1>4. CASE pc[s] \in RowLabels /\ Update(s, st)
  <2>1. row[s] \in DOMAIN rows[Event(s)]
    BY <1>4 DEF TypeOK, Placed
  <2>2. CASE e = Event(s)
    BY <1>1, <1>4, <2>1, <2>2 DEF Update
  <2>3. CASE e # Event(s)
    BY <1>1, <1>4, <2>3 DEF Update
  <2>4. QED
    BY <2>2, <2>3
<1>5. QED
  BY <1>2, <1>3, <1>4

LEMMA EnvironmentCounts ==
  ASSUME ImportInv, UNCHANGED vars \/ Environment, ~overrun'
  PROVE  (\A e \in Events : ImportCounted(e)') /\ (\A s \in Sweeps : First(s)')
<1>1. ~overrun
  BY DEF vars, Environment, Send, Redeliver, Pause, Resume, DeleteQueue, ClearEvents,
     LockExpires, historyVars
<1>2. /\ TypeOK
      /\ \A e \in Events : ImportCounted(e)
      /\ \A s \in Sweeps : First(s)
  BY <1>1 DEF ImportInv, HolderInv
<1>3. UNCHANGED <<pc, msg, left, row>>
  BY DEF vars, Environment, Send, Redeliver, Pause, Resume, DeleteQueue, ClearEvents,
     LockExpires, sweepVars, turnVars
<1>4. CASE UNCHANGED <<rows, attempts>>
  BY <1>2, <1>3, <1>4 DEF ImportCounted, First, Present, Event, Key
<1>5. ASSUME NEW E, Forget(E)
      PROVE  (\A e \in Events : ImportCounted(e)') /\ (\A s \in Sweeps : First(s)')
  <2>1. \A e \in Events : /\ e \in E => attempts'[e] = 0 /\ ~Present(e)'
                          /\ e \notin E => attempts'[e] = attempts[e] /\ rows'[e] = rows[e]
    BY <1>5 DEF Forget, Present
  <2>2. \A e \in Events : ImportCounted(e)'
    BY <1>2, <2>1 DEF ImportCounted, Present
  <2>3. ASSUME NEW s \in Sweeps PROVE First(s)'
    <3>1. CASE pc[s] \in EventLabels
      <4>1. Event(s) \in Events /\ Event(s)' = Event(s)
        BY <1>2, <1>3, <3>1, EventTypes DEF Event, Key
      <4>2. CASE Event(s) \in E
        BY <1>3, <2>1, <4>1, <4>2 DEF First
      <4>3. CASE Event(s) \notin E
        BY <1>2, <1>3, <2>1, <4>1, <4>3 DEF First, Present
      <4>4. QED
        BY <4>2, <4>3
    <3>2. CASE pc[s] \notin EventLabels
      BY <1>3, <3>2 DEF First, EventLabels, RowLabels
    <3>3. QED
      BY <3>1, <3>2
  <2>4. QED
    BY <2>2, <2>3
<1>6. QED
  BY <1>4, <1>5 DEF vars, Environment, Send, Redeliver, Pause, Resume, DeleteQueue,
     ClearEvents, LockExpires, tableVars, historyVars

\* What the sweep that moves does to the counts and to its own event.
LEMMA MoverCounts ==
  ASSUME TypeOK, NEW s \in Sweeps, Acquire(s) \/ SweepStep(s) \/ Interruption(s),
         \A e \in Events : ImportCounted(e), First(s)
  PROVE  (\A e \in Events : ImportCounted(e)') /\ First(s)'
<1> USE DEF Goto, turnVars, historyVars
<1>1. SweepsTypeOK /\ HistoryTypeOK
  BY DEF TypeOK
<1>2. ASSUME UNCHANGED attempts, \A e \in Events : Present(e) => Present(e)'
      PROVE  \A e \in Events : ImportCounted(e)'
  BY <1>2 DEF ImportCounted
<1>3. ASSUME pc'[s] \notin {"insert", "lookup", "begin", "import"} PROVE First(s)'
  BY <1>3 DEF First
<1>4. ASSUME LeaveQueue(s) \/ End(s) PROVE First(s)'
  <2>1. pc'[s] \in {"next", "idle"}
    BY <1>1, <1>4 DEF LeaveQueue, End, SweepsTypeOK
  <2>2. QED
    BY <1>3, <2>1
<1>5. ASSUME NEW events, GoOnWith(s, events) PROVE First(s)'
  <2>1. pc'[s] \in {"delete", "probe"}
    BY <1>1, <1>5 DEF GoOnWith, SweepsTypeOK
  <2>2. QED
    BY <1>3, <2>1
<1>6. ASSUME NextEvent(s) PROVE First(s)'
  BY <1>5, <1>6 DEF NextEvent
<1>7. CASE Acquire(s) \/ ListActive(s) \/ NextQueue(s)
  <2>1. pc'[s] \in {"list", "next", "release", "receive"}
    BY <1>1, <1>7 DEF Acquire, ListActive, NextQueue, SweepsTypeOK
  <2>2. UNCHANGED <<rows, attempts>>
    BY <1>7 DEF Acquire, ListActive, NextQueue, tableVars
  <2>3. QED
    BY <1>2, <1>3, <2>1, <2>2 DEF Present
<1>8. CASE Interruption(s) \/ Release(s)
  <2>1. End(s)
    BY <1>8 DEF Interruption, Cancelled, Crash, Release
  <2>2. QED
    BY <1>2, <1>4, <2>1 DEF End, tableVars, Present
<1>9. CASE Receive(s) \/ TakeMessage(s) \/ DeleteMessage(s)
  <2>1. UNCHANGED <<rows, attempts>>
    BY <1>9 DEF Receive, TakeMessage, DeleteMessage, tableVars
  <2>2. LeaveQueue(s) \/ pc'[s] = "message" \/ \E events : GoOnWith(s, events)
    BY <1>1, <1>9 DEF Receive, TakeMessage, DeleteMessage, SweepsTypeOK
  <2>3. First(s)'
    BY <1>3, <1>4, <1>5, <2>2
  <2>4. QED
    BY <1>2, <2>1, <2>3 DEF Present
<1>10. CASE RecordFailure(s)
  <2>1. UNCHANGED attempts /\ pc[s] \in EventLabels /\ "failed" \in Status \ {"removed"}
    BY <1>10 DEF RecordFailure, EventLabels, Status, Settled
  <2>2. UNCHANGED rows \/ rows' = [rows EXCEPT ![Event(s)] = Append(@, "failed")]
    BY <1>10 DEF RecordFailure
  <2>3. \A e \in Events : Present(e) => Present(e)'
    BY <2>1, <2>2, PresentStays
  <2>4. QED
    BY <1>2, <1>4, <1>6, <1>10, <2>1, <2>3 DEF RecordFailure
<1>11. CASE Settle(s)
  <2>1. UNCHANGED attempts /\ pc[s] \in EventLabels /\ pc[s] \in RowLabels
        /\ outcome[s] \in Status \ {"removed"}
    BY <1>1, <1>11 DEF Settle, EventLabels, RowLabels, Status, Settled, SweepsTypeOK
  <2>2. \A e \in Events : Present(e) => Present(e)'
    BY <1>11, <2>1, PresentStays DEF Settle
  <2>3. QED
    BY <1>2, <1>6, <1>11, <2>1, <2>2 DEF Settle
<1>12. CASE Probe(s)
  <2>1. UNCHANGED <<rows, attempts, msg>>
    BY <1>12 DEF Probe, tableVars
  <2>2. CASE Present(Event(s))
    BY <1>2, <1>6, <1>12, <2>1, <2>2 DEF Probe, Present
  <2>3. CASE ~Present(Event(s))
    <3>1. pc'[s] = "insert" /\ UNCHANGED left
      BY <1>1, <1>12, <2>3 DEF Probe, SweepsTypeOK
    <3>2. ~Present(Event(s))'
      BY <2>1, <2>3, <3>1 DEF Present, Event, Key
    <3>3. First(s)'
      BY <3>1, <3>2 DEF First
    <3>4. QED
      BY <1>2, <2>1, <3>3 DEF Present
  <2>4. QED
    BY <2>2, <2>3
<1>13. CASE Insert(s)
  <2>1. UNCHANGED <<attempts, msg, left>> /\ pc[s] \in EventLabels /\ pc[s] = "insert"
        /\ "pending" \in Status \ {"removed"}
    BY <1>13 DEF Insert, EventLabels, Status, Settled
  <2>2. \A e \in Events : Present(e) => Present(e)'
    BY <1>13, <2>1, PresentStays DEF Insert
  <2>3. attempts'[Event(s)'] = 0
    <3>1. Event(s) \in Events /\ Event(s)' = Event(s)
      BY <2>1, EventTypes DEF Event, Key
    <3>2. ~Present(Event(s))
      BY <2>1 DEF First
    <3>3. QED
      BY <2>1, <3>1, <3>2 DEF ImportCounted
  <2>4. pc'[s] \in {"lookup", "record"}
    BY <1>1, <1>13 DEF Insert, SweepsTypeOK
  <2>5. First(s)'
    BY <2>3, <2>4 DEF First
  <2>6. QED
    BY <1>2, <2>1, <2>2, <2>5
<1>14. CASE Lookup(s)
  <2>1. UNCHANGED <<rows, attempts, msg, left, row>> /\ pc[s] = "lookup"
    BY <1>14 DEF Lookup, tableVars
  <2>2. pc'[s] \in {"begin", "settle", "record"}
    BY <1>1, <1>14 DEF Lookup, SweepsTypeOK
  <2>3. First(s)'
    BY <2>1, <2>2 DEF First, Event, Key
  <2>4. QED
    BY <1>2, <2>1, <2>3 DEF Present
<1>15. CASE Begin(s)
  <2>1. UNCHANGED <<attempts, msg, left, row>> /\ pc[s] = "begin" /\ pc[s] \in EventLabels
        /\ pc[s] \in RowLabels /\ "processing" \in Status \ {"removed"}
        /\ Update(s, "processing")
    BY <1>15 DEF Begin, EventLabels, RowLabels, Status, Settled
  <2>2. \A e \in Events : Present(e) => Present(e)'
    BY <2>1, PresentStays
  <2>3. Event(s)' = Event(s) /\ Event(s) \in Events /\ row[s] \in DOMAIN rows[Event(s)]
    BY <2>1, EventTypes DEF Event, Key, TypeOK, Placed
  <2>4. rows[Event(s)][row[s]] = "removed" => rows'[Event(s)][row[s]] = "removed"
    BY <2>1, <2>3 DEF Update, TypeOK, TablesTypeOK
  <2>5. pc'[s] = "import"
    BY <1>1, <1>15 DEF Begin, SweepsTypeOK
  <2>6. First(s)'
    BY <2>1, <2>3, <2>4, <2>5 DEF First
  <2>7. QED
    BY <1>2, <2>1, <2>2, <2>6
<1>16. CASE Import(s)
  <2>1. UNCHANGED rows /\ pc[s] = "import" /\ pc'[s] = "settle"
    BY <1>1, <1>16 DEF Import, tableVars, SweepsTypeOK
  <2>2. Event(s) \in Events /\ row[s] \in DOMAIN rows[Event(s)]
    BY <2>1, EventTypes DEF EventLabels, RowLabels, TypeOK, Placed
  <2>3. attempts' = [attempts EXCEPT ![Event(s)] =
                       IF rows[Event(s)][row[s]] = "removed" THEN @ ELSE @ + 1]
    BY <1>16 DEF Import
  <2>4. CASE rows[Event(s)][row[s]] = "removed"
    <3>1. attempts' = attempts
      BY <1>1, <2>2, <2>3, <2>4 DEF HistoryTypeOK
    <3>2. QED
      BY <1>2, <1>3, <2>1, <3>1 DEF Present
  <2>5. CASE rows[Event(s)][row[s]] # "removed"
    <3>1. attempts[Event(s)] = 0 /\ Present(Event(s))
      BY <2>1, <2>2, <2>5 DEF First, Present
    <3>2. \A e \in Events : attempts'[e] = IF e = Event(s) THEN 1 ELSE attempts[e]
      BY <1>1, <2>2, <2>3, <2>5, <3>1 DEF HistoryTypeOK
    <3>3. \A e \in Events : Present(e)' <=> Present(e)
      BY <2>1 DEF Present
    <3>4. \A e \in Events : ImportCounted(e)'
      BY <3>1, <3>2, <3>3 DEF ImportCounted
    <3>5. QED
      BY <1>3, <2>1, <3>4
  <2>6. QED
    BY <2>4, <2>5
<1>17. QED
  BY <1>7, <1>8, <1>9, <1>10, <1>11, <1>12, <1>13, <1>14, <1>15, <1>16 DEF SweepStep

LEMMA ImportStep ==
  ASSUME ImportInv, [Next]_vars
  PROVE  ImportInv'
<1>1. HolderInv' /\ TypeOK /\ Exclusive
  BY HolderStep, HolderExcludes DEF ImportInv, HolderInv
<1>2. ASSUME ~overrun'
      PROVE  (\A e \in Events : ImportCounted(e)') /\ (\A t \in Sweeps : First(t)')
  <2>1. CASE UNCHANGED vars \/ Environment
    BY <1>2, <2>1, EnvironmentCounts
  <2>2. ASSUME NEW s \in Sweeps, Acquire(s) \/ SweepStep(s) \/ Interruption(s)
        PROVE  (\A e \in Events : ImportCounted(e)') /\ (\A t \in Sweeps : First(t)')
    <3>1. ~overrun
      BY <1>2, <2>2 DEF Acquire, Interruption, Cancelled, Crash, End, SweepStep, ListActive,
         NextQueue, Release, Receive, TakeMessage, RecordFailure, DeleteMessage, Probe,
         Insert, Lookup, Begin, Import, Settle, historyVars
    <3>2. (\A e \in Events : ImportCounted(e)) /\ (\A t \in Sweeps : First(t))
      BY <3>1 DEF ImportInv
    <3>3. (\A e \in Events : ImportCounted(e)') /\ First(s)'
      BY <1>1, <2>2, <3>2, MoverCounts
    <3>4. ASSUME NEW t \in Sweeps, t # s PROVE First(t)'
      <4>1. pc'[t] = pc[t] /\ msg'[t] = msg[t] /\ left'[t] = left[t] /\ row'[t] = row[t]
        BY <1>1, <2>2, <3>4, OthersUntouched
      <4>2. CASE Acquire(s)
        BY <3>2, <4>1, <4>2
        DEF Acquire, First, Present, Event, Key, tableVars, historyVars
      <4>3. CASE ~Acquire(s)
        <5>1. pc[s] # "idle"
          BY <2>2, <4>3 DEF Interruption, Cancelled, Crash, SweepStep, ListActive,
             NextQueue, Release, Receive, TakeMessage, RecordFailure, DeleteMessage, Probe,
             Insert, Lookup, Begin, Import, Settle
        <5>2. pc[t] = "idle"
          BY <1>1, <3>1, <3>4, <5>1 DEF Exclusive
        <5>3. QED
          BY <4>1, <5>2 DEF First
      <4>4. QED
        BY <4>2, <4>3
    <3>5. QED
      BY <3>3, <3>4
  <2>3. QED
    BY <2>1, <2>2 DEF Next
<1>3. QED
  BY <1>1, <1>2 DEF ImportInv

\* Until a sweep outlives its lock, no event is imported twice for the rows the table
\* holds, whatever crashes and is redelivered: the probe and the insert need no
\* unique constraint, only the lock.
THEOREM ImportsOnce == Spec => []OneImportPerEvent
<1>1. Init => ImportInv
  BY InitHolder DEF Init, ImportInv, ImportCounted, First
<1>2. ImportInv => OneImportPerEvent
  BY DEF ImportInv, ImportCounted, OneImportPerEvent
<1>3. QED
  BY <1>1, <1>2, ImportStep, PTL DEF Spec

-----------------------------------------------------------------------------
(* Verdicts: what a row says of its event *)

\* The environment removes rows and writes none.
LEMMA EnvironmentRows ==
  ASSUME TypeOK, Environment \/ UNCHANGED vars, NEW e \in Events
  PROVE  /\ DOMAIN rows'[e] = DOMAIN rows[e]
         /\ \A i \in DOMAIN rows[e] : rows'[e][i] \in {rows[e][i], "removed"}
<1>1. CASE UNCHANGED rows
  BY <1>1
<1>2. ASSUME NEW E, Forget(E)
      PROVE  /\ DOMAIN rows'[e] = DOMAIN rows[e]
             /\ \A i \in DOMAIN rows[e] : rows'[e][i] \in {rows[e][i], "removed"}
  <2>1. rows'[e] = IF e \in E THEN [i \in DOMAIN rows[e] |-> "removed"] ELSE rows[e]
    BY <1>2 DEF Forget
  <2>2. QED
    BY <2>1
<1>3. QED
  BY <1>1, <1>2 DEF Environment, Send, Redeliver, Pause, Resume, DeleteQueue, ClearEvents,
     LockExpires, vars, tableVars

\* What Update does to the rows of the event in hand.
LEMMA UpdateRows ==
  ASSUME TypeOK, NEW s \in Sweeps, pc[s] \in RowLabels, NEW st \in Status, Update(s, st)
  PROVE  /\ Event(s) \in Events /\ row[s] \in DOMAIN rows[Event(s)]
         /\ rows' = [rows EXCEPT ![Event(s)] =
                       [rows[Event(s)] EXCEPT ![row[s]] = IF @ = "removed" THEN @ ELSE st]]
<1>1. Event(s) \in Events
  BY EventTypes DEF EventLabels
<1>2. row[s] \in DOMAIN rows[Event(s)]
  BY DEF TypeOK, Placed
<1>3. QED
  BY <1>1, <1>2 DEF Update, TypeOK, TablesTypeOK

\* A sweep at a step: it adds a row, which is no success, or rewrites the row it works
\* on, or leaves the rows alone.
LEMMA SweepRows ==
  ASSUME TypeOK, NEW s \in Sweeps, Acquire(s) \/ SweepStep(s) \/ Interruption(s),
         NEW e \in Events
  PROVE  /\ \A i \in DOMAIN rows[e] :
              \/ rows'[e][i] = rows[e][i]
              \/ /\ pc[s] = "begin" /\ Event(s) = e /\ row[s] = i
                 /\ rows'[e][i] = "processing"
              \/ /\ pc[s] = "settle" /\ Event(s) = e /\ row[s] = i
                 /\ rows'[e][i] = outcome[s]
         /\ \A i \in DOMAIN rows'[e] \ DOMAIN rows[e] : rows'[e][i] \in {"pending", "failed"}
<1>1. rows \in [Events -> Seq(Status)] /\ outcome[s] \in Status
  BY DEF TypeOK, TablesTypeOK, SweepsTypeOK, Status
<1>2. ASSUME UNCHANGED rows PROVE rows'[e] = rows[e]
  BY <1>2
<1>3. CASE Insert(s) \/ RecordFailure(s)
  <2>1. pc[s] \in EventLabels
    BY <1>3 DEF Insert, RecordFailure, EventLabels
  <2>2. PICK st \in {"pending", "failed"} :
          UNCHANGED rows \/ rows' = [rows EXCEPT ![Event(s)] = Append(@, st)]
    BY <1>3 DEF Insert, RecordFailure
  <2>3. CASE UNCHANGED rows
    BY <2>3
  <2>4. CASE rows' = [rows EXCEPT ![Event(s)] = Append(@, st)]
    <3>1. CASE e = Event(s)
      <4>1. rows'[e] = Append(rows[e], st) /\ rows[e] \in Seq(Status) /\ st \in Status
        BY <1>1, <2>4, <3>1 DEF Status, Settled
      <4>2. /\ DOMAIN rows[e] = 1..Len(rows[e]) /\ Len(rows[e]) \in Nat
            /\ DOMAIN rows'[e] = 1..(Len(rows[e]) + 1)
            /\ rows'[e][Len(rows[e]) + 1] = st
            /\ \A i \in 1..Len(rows[e]) : rows'[e][i] = rows[e][i]
        BY <4>1, AppendProperties, LenProperties
      <4>3. QED
        BY <4>2
    <3>2. CASE e # Event(s)
      BY <1>1, <2>4, <3>2
    <3>3. QED
      BY <3>1, <3>2
  <2>5. QED
    BY <2>2, <2>3, <2>4
<1>4. CASE Begin(s) \/ Settle(s)
  <2>1. PICK st \in Status : /\ Update(s, st) /\ pc[s] \in RowLabels
                            /\ \/ pc[s] = "begin" /\ st = "processing"
                               \/ pc[s] = "settle" /\ st = outcome[s]
    BY <1>1, <1>4 DEF Begin, Settle, Status, RowLabels
  <2>2. /\ Event(s) \in Events /\ row[s] \in DOMAIN rows[Event(s)]
        /\ rows' = [rows EXCEPT ![Event(s)] =
                      [rows[Event(s)] EXCEPT ![row[s]] = IF @ = "removed" THEN @ ELSE st]]
    BY <2>1, UpdateRows
  <2>3. rows'[e] = IF e = Event(s)
                   THEN [rows[e] EXCEPT ![row[s]] = IF @ = "removed" THEN @ ELSE st]
                   ELSE rows[e]
    BY <1>1, <2>2
  <2>4. DOMAIN rows'[e] = DOMAIN rows[e]
    BY <2>3
  <2>5. QED
    BY <2>1, <2>2, <2>3, <2>4
<1>5. CASE ~(Insert(s) \/ RecordFailure(s) \/ Begin(s) \/ Settle(s))
  <2>1. UNCHANGED rows
    BY <1>5 DEF Acquire, Interruption, Cancelled, Crash, End, SweepStep, ListActive, NextQueue,
       Release, Receive, TakeMessage, DeleteMessage, Probe, Lookup, Import, tableVars
  <2>2. QED
    BY <2>1
<1>6. QED
  BY <1>3, <1>4, <1>5

\* A success is what import_file just said of an object that is there.
Truthful(s) ==
  outcome[s] \in {"completed", "skipped"} => pc[s] = "settle" /\ Key(s) \in imported

TruthInv == TypeOK /\ SettledRowsTellTheTruth /\ \A s \in Sweeps : Truthful(s)

\* Nobody unlinks an object, and a step touches the outcome of its own sweep only.
LEMMA ImportedGrows ==
  ASSUME TypeOK, [Next]_vars
  PROVE  imported \subseteq imported'
BY DEF Next, vars, Environment, Send, Redeliver, Pause, Resume, DeleteQueue, ClearEvents,
   LockExpires, Acquire, Interruption, Cancelled, Crash, End, SweepStep, ListActive, NextQueue,
   Release, Receive, TakeMessage, RecordFailure, DeleteMessage, Probe, Insert, Lookup, Begin,
   Import, Answer, Settle

LEMMA OwnOutcome ==
  ASSUME TypeOK, NEW s \in Sweeps, Acquire(s) \/ SweepStep(s) \/ Interruption(s),
         NEW t \in Sweeps, t # s
  PROVE  outcome'[t] = outcome[t]
BY DEF TypeOK, SweepsTypeOK, turnVars, Acquire, Interruption, Cancelled, Crash, End, SweepStep,
   ListActive, NextQueue, Release, Receive, TakeMessage, RecordFailure, DeleteMessage, Probe,
   Insert, Lookup, Begin, Import, Settle, LeaveQueue, NextEvent

LEMMA MoverTruthful ==
  ASSUME TruthInv, NEW s \in Sweeps, Acquire(s) \/ SweepStep(s) \/ Interruption(s)
  PROVE  Truthful(s)'
<1> USE DEF turnVars
<1>1. SweepsTypeOK /\ Truthful(s)
  BY DEF TruthInv, TypeOK
<1>2. ASSUME LeaveQueue(s) \/ NextEvent(s) \/ End(s) PROVE Truthful(s)'
  <2>1. outcome'[s] = "failed"
    BY <1>1, <1>2 DEF LeaveQueue, NextEvent, End, SweepsTypeOK
  <2>2. QED
    BY <2>1 DEF Truthful
<1>3. ASSUME UNCHANGED outcome, pc[s] # "settle" PROVE Truthful(s)'
  <2>1. outcome'[s] \notin {"completed", "skipped"}
    BY <1>1, <1>3 DEF Truthful
  <2>2. QED
    BY <2>1 DEF Truthful
<1>4. CASE Import(s)
  <2>1. PICK result \in Settled : Answer(s, result) /\ outcome' = [outcome EXCEPT ![s] = result]
    BY <1>4 DEF Import
  <2>2. outcome'[s] = result /\ pc'[s] = "settle" /\ left' = left
    BY <1>1, <1>4, <2>1 DEF Import, Goto, SweepsTypeOK
  <2>3. result \in {"completed", "skipped"} => Key(s) \in imported'
    BY <2>1 DEF Answer
  <2>4. QED
    BY <2>2, <2>3 DEF Truthful, Key
<1>5. CASE Settle(s)
  BY <1>2, <1>5 DEF Settle
<1>6. CASE Interruption(s) \/ Release(s)
  BY <1>2, <1>6 DEF Interruption, Cancelled, Crash, Release
<1>7. CASE Receive(s) \/ TakeMessage(s) \/ DeleteMessage(s)
  BY <1>2, <1>3, <1>7 DEF Receive, TakeMessage, DeleteMessage
<1>8. CASE RecordFailure(s) \/ Probe(s) \/ Insert(s)
  BY <1>2, <1>3, <1>8 DEF RecordFailure, Probe, Insert
<1>9. CASE Acquire(s) \/ ListActive(s) \/ NextQueue(s) \/ Lookup(s) \/ Begin(s)
  BY <1>3, <1>9 DEF Acquire, ListActive, NextQueue, Lookup, Begin
<1>10. QED
  BY <1>4, <1>5, <1>6, <1>7, <1>8, <1>9 DEF SweepStep

LEMMA TruthStep ==
  ASSUME TruthInv, [Next]_vars
  PROVE  TruthInv'
<1>1. TypeOK /\ TypeOK' /\ imported \subseteq imported'
  BY TypeStep, ImportedGrows DEF TruthInv
<1>2. ASSUME NEW t \in Sweeps PROVE Truthful(t)'
  <2>1. CASE Environment \/ UNCHANGED vars
    <3>1. UNCHANGED <<pc, left, outcome>>
      BY <2>1 DEF Environment, Send, Redeliver, Pause, Resume, DeleteQueue, ClearEvents,
         LockExpires, vars, sweepVars, turnVars
    <3>2. QED
      BY <1>1, <3>1 DEF TruthInv, Truthful, Key
  <2>2. ASSUME NEW s \in Sweeps, Acquire(s) \/ SweepStep(s) \/ Interruption(s), s # t
        PROVE  Truthful(t)'
    BY <1>1, <2>2, OthersUntouched, OwnOutcome DEF TruthInv, Truthful, Key
  <2>3. QED
    BY <2>1, <2>2, MoverTruthful DEF Next
<1>3. ASSUME NEW e \in Events, NEW i \in DOMAIN rows'[e], rows'[e][i] \in {"completed", "skipped"}
      PROVE  e[2] \in imported'
  <2>1. CASE i \in DOMAIN rows[e] /\ rows'[e][i] = rows[e][i]
    BY <1>1, <1>3, <2>1 DEF TruthInv, SettledRowsTellTheTruth
  <2>2. CASE Environment \/ UNCHANGED vars
    BY <1>1, <1>3, <2>1, <2>2, EnvironmentRows
  <2>3. ASSUME NEW s \in Sweeps, Acquire(s) \/ SweepStep(s) \/ Interruption(s)
        PROVE  e[2] \in imported'
    <3>1. \/ i \in DOMAIN rows[e] /\ rows'[e][i] = rows[e][i]
          \/ pc[s] = "settle" /\ Event(s) = e /\ rows'[e][i] = outcome[s]
      BY <1>1, <1>3, <2>3, SweepRows
    <3>2. CASE pc[s] = "settle" /\ Event(s) = e /\ rows'[e][i] = outcome[s]
      <4>1. Key(s) \in imported /\ e[2] = Key(s)
        BY <1>3, <3>2 DEF TruthInv, Truthful, Event
      <4>2. QED
        BY <1>1, <4>1
    <3>3. QED
      BY <2>1, <3>1, <3>2
  <2>4. QED
    BY <2>2, <2>3 DEF Next
<1>4. QED
  BY <1>1, <1>2, <1>3 DEF TruthInv, SettledRowsTellTheTruth

\* A row that says completed or skipped has its object in the filespace, however many
\* sweeps race on it and whatever LucidLink answers.
THEOREM VerdictsAreTrue == Spec => []SettledRowsTellTheTruth
<1>1. Init => TruthInv
  BY InitTypes DEF Init, TruthInv, SettledRowsTellTheTruth, Truthful
<1>2. TruthInv => SettledRowsTellTheTruth
  BY DEF TruthInv
<1>3. QED
  BY <1>1, <1>2, TruthStep, PTL DEF Spec

-----------------------------------------------------------------------------
(* Verdicts are final *)

\* The row a sweep works on has no verdict yet, and no other sweep works on it.
Undecided(s) == pc[s] \in RowLabels => rows[Event(s)][row[s]] \notin Settled

Apart(s, t) ==
  pc[s] \in RowLabels /\ pc[t] \in RowLabels /\ Event(s) = Event(t) => row[s] # row[t]

OwnInv ==
  /\ TypeOK
  /\ \A s \in Sweeps : Undecided(s)
  /\ \A s, t \in Sweeps : s # t => Apart(s, t)

\* A sweep with a row in hand had it before the step, or has just appended it.
LEMMA RowInHand ==
  ASSUME TypeOK, NEW s \in Sweeps, Acquire(s) \/ SweepStep(s) \/ Interruption(s),
         pc'[s] \in RowLabels
  PROVE  /\ pc[s] \in EventLabels /\ Event(s)' = Event(s)
         /\ \/ pc[s] \in RowLabels \ {"settle"} /\ row'[s] = row[s]
            \/ /\ pc[s] = "insert" /\ row'[s] = Len(rows[Event(s)]) + 1
               /\ rows'[Event(s)] = Append(rows[Event(s)], "pending")
<1> USE DEF turnVars
<1>1. SweepsTypeOK /\ rows \in [Events -> Seq(Status)]
  BY DEF TypeOK, TablesTypeOK
<1>2. ~LeaveQueue(s) /\ ~End(s) /\ \A events : ~GoOnWith(s, events)
  BY <1>1 DEF LeaveQueue, End, GoOnWith, Goto, RowLabels, SweepsTypeOK
<1>3. CASE Insert(s)
  <2>1. pc[s] = "insert" /\ pc[s] \in EventLabels /\ Event(s)' = Event(s)
    BY <1>3 DEF Insert, EventLabels, Event, Key
  <2>2. queues[at[s]] # "deleted"
    BY <1>1, <1>3 DEF Insert, Goto, RowLabels, SweepsTypeOK
  <2>3. /\ rows' = [rows EXCEPT ![Event(s)] = Append(@, "pending")]
        /\ row' = [row EXCEPT ![s] = Len(rows[Event(s)]) + 1]
    BY <1>3, <2>2 DEF Insert
  <2>4. QED
    BY <1>1, <2>1, <2>3, EventTypes DEF SweepsTypeOK
<1>4. CASE Lookup(s) \/ Begin(s) \/ Import(s)
  BY <1>4 DEF Lookup, Begin, Import, RowLabels, EventLabels, Event, Key
<1>5. CASE Acquire(s) \/ ListActive(s) \/ NextQueue(s) \/ Receive(s) \/ DeleteMessage(s)
  BY <1>1, <1>2, <1>5 DEF Acquire, ListActive, NextQueue, Receive, DeleteMessage, Goto,
     RowLabels, SweepsTypeOK
<1>6. CASE Interruption(s) \/ Release(s) \/ TakeMessage(s) \/ RecordFailure(s) \/ Settle(s)
  BY <1>2, <1>6 DEF Interruption, Cancelled, Crash, Release, TakeMessage, RecordFailure,
     Settle, NextEvent
<1>7. CASE Probe(s)
  BY <1>1, <1>2, <1>7 DEF Probe, NextEvent, Goto, RowLabels, SweepsTypeOK
<1>8. QED
  BY <1>3, <1>4, <1>5, <1>6, <1>7 DEF SweepStep

\* A step never writes the row another sweep has in hand, nor appends in its place.
LEMMA OthersRow ==
  ASSUME OwnInv, NEW s \in Sweeps, Acquire(s) \/ SweepStep(s) \/ Interruption(s),
         NEW t \in Sweeps, t # s, pc'[t] \in RowLabels
  PROVE  /\ pc[t] \in RowLabels /\ Event(t)' = Event(t) /\ row'[t] = row[t]
         /\ row[t] \in DOMAIN rows[Event(t)] /\ Event(t) \in Events
         /\ rows'[Event(t)][row[t]] \notin Settled
<1>1. TypeOK /\ Undecided(t) /\ Apart(s, t)
  BY DEF OwnInv
<1>2. pc[t] \in RowLabels /\ Event(t)' = Event(t) /\ row'[t] = row[t]
  BY <1>1, OthersUntouched DEF Event, Key
<1>3. row[t] \in DOMAIN rows[Event(t)] /\ Event(t) \in Events
  BY <1>1, <1>2, EventTypes DEF TypeOK, Placed, EventLabels
<1>4. ~(pc[s] = "settle" /\ Event(s) = Event(t) /\ row[s] = row[t])
  BY <1>1, <1>2 DEF Apart, RowLabels
<1>5. \/ rows'[Event(t)][row[t]] \in {rows[Event(t)][row[t]], "removed"}
      \/ rows'[Event(t)][row[t]] = "processing"
  BY <1>1, <1>3, <1>4, SweepRows
<1>6. QED
  BY <1>1, <1>2, <1>3, <1>5 DEF Undecided, Settled

LEMMA OwnMover ==
  ASSUME OwnInv, NEW s \in Sweeps, Acquire(s) \/ SweepStep(s) \/ Interruption(s)
  PROVE  /\ Undecided(s)'
         /\ \A t \in Sweeps : t # s => Apart(s, t)' /\ Apart(t, s)'
<1>1. CASE pc'[s] \notin RowLabels
  BY <1>1 DEF Undecided, Apart
<1>2. CASE pc'[s] \in RowLabels
  <2>1. TypeOK /\ Undecided(s) /\ Placed(s)
    BY DEF OwnInv, TypeOK
  <2>2. pc[s] \in EventLabels /\ Event(s)' = Event(s) /\ Event(s) \in Events
        /\ rows[Event(s)] \in Seq(Status)
    BY <1>2, <2>1, RowInHand, EventTypes
  <2>3. CASE pc[s] \in RowLabels \ {"settle"} /\ row'[s] = row[s]
    <3>1. row[s] \in DOMAIN rows[Event(s)]
      BY <2>1, <2>3 DEF Placed
    <3>2. \/ rows'[Event(s)][row[s]] \in {rows[Event(s)][row[s]], "removed"}
          \/ rows'[Event(s)][row[s]] = "processing"
      BY <2>1, <2>2, <2>3, <3>1, SweepRows
    <3>3. Undecided(s)'
      BY <2>1, <2>2, <2>3, <3>2 DEF Undecided, Settled
    <3>4. ASSUME NEW t \in Sweeps, t # s, pc'[t] \in RowLabels, Event(s)' = Event(t)'
          PROVE  row'[s] # row'[t]
      <4>1. pc[t] \in RowLabels /\ Event(t)' = Event(t) /\ row'[t] = row[t]
        BY <3>4, OthersRow
      <4>2. QED
        BY <2>2, <2>3, <3>4, <4>1 DEF OwnInv, Apart
    <3>5. QED
      BY <3>3, <3>4 DEF Apart
  <2>4. CASE /\ pc[s] = "insert" /\ row'[s] = Len(rows[Event(s)]) + 1
             /\ rows'[Event(s)] = Append(rows[Event(s)], "pending")
    <3>1. /\ rows'[Event(s)][row'[s]] = "pending"
          /\ DOMAIN rows[Event(s)] = 1..Len(rows[Event(s)]) /\ Len(rows[Event(s)]) \in Nat
      BY <2>2, <2>4, AppendProperties, LenProperties DEF Status
    <3>2. Undecided(s)'
      BY <2>2, <3>1 DEF Undecided, Settled
    <3>3. ASSUME NEW t \in Sweeps, t # s, pc'[t] \in RowLabels, Event(s)' = Event(t)'
          PROVE  row'[s] # row'[t]
      <4>1. Event(t)' = Event(t) /\ row'[t] = row[t] /\ row[t] \in DOMAIN rows[Event(t)]
        BY <3>3, OthersRow
      <4>2. row[t] \in 1..Len(rows[Event(s)])
        BY <2>2, <3>1, <3>3, <4>1
      <4>3. QED
        BY <2>4, <3>1, <4>1, <4>2
    <3>4. QED
      BY <3>2, <3>3 DEF Apart
  <2>5. QED
    BY <1>2, <2>1, <2>3, <2>4, RowInHand
<1>3. QED
  BY <1>1, <1>2

LEMMA OwnStep ==
  ASSUME OwnInv, [Next]_vars
  PROVE  OwnInv'
<1>1. TypeOK /\ TypeOK'
  BY TypeStep DEF OwnInv
<1>2. CASE Environment \/ UNCHANGED vars
  <2>1. UNCHANGED <<pc, msg, left, row>>
    BY <1>2 DEF Environment, Send, Redeliver, Pause, Resume, DeleteQueue, ClearEvents,
       LockExpires, vars, sweepVars, turnVars
  <2>2. ASSUME NEW s \in Sweeps, pc[s] \in RowLabels
        PROVE  rows'[Event(s)][row[s]] \notin Settled
    <3>1. Event(s) \in Events /\ row[s] \in DOMAIN rows[Event(s)]
      BY <1>1, <2>2, EventTypes DEF TypeOK, Placed, EventLabels
    <3>2. rows'[Event(s)][row[s]] \in {rows[Event(s)][row[s]], "removed"}
      BY <1>1, <1>2, <3>1, EnvironmentRows
    <3>3. QED
      BY <2>2, <3>2 DEF OwnInv, Undecided, Settled
  <2>3. QED
    BY <1>1, <2>1, <2>2 DEF OwnInv, Undecided, Apart, Event, Key
<1>3. ASSUME NEW s \in Sweeps, Acquire(s) \/ SweepStep(s) \/ Interruption(s)
      PROVE  OwnInv'
  <2>1. ASSUME NEW t \in Sweeps PROVE Undecided(t)'
    <3>1. CASE t = s
      BY <1>3, <3>1, OwnMover
    <3>2. CASE t # s
      BY <1>3, <3>2, OthersRow DEF Undecided
    <3>3. QED
      BY <3>1, <3>2
  <2>2. ASSUME NEW t \in Sweeps, NEW u \in Sweeps, t # u PROVE Apart(t, u)'
    <3>1. CASE t = s \/ u = s
      BY <1>3, <2>2, <3>1, OwnMover
    <3>2. CASE t # s /\ u # s
      <4>1. Apart(t, u)
        BY <2>2 DEF OwnInv
      <4>2. QED
        BY <1>3, <3>2, <4>1, OthersRow DEF Apart
    <3>3. QED
      BY <3>1, <3>2
  <2>3. QED
    BY <1>1, <2>1, <2>2 DEF OwnInv
<1>4. QED
  BY <1>2, <1>3 DEF Next

\* The verdict on an event is final: only a deletion of the row takes it back, not a
\* redelivery, nor a sweep that outlived its lock, nor a failure recorded later.
THEOREM VerdictsAreFinal == Spec => SettledRowsNeverChange
<1>1. Init => OwnInv
  BY InitTypes DEF Init, OwnInv, Undecided, Apart, RowLabels
<1>2. ASSUME OwnInv, [Next]_vars
      PROVE  [\A e \in Events : \A i \in DOMAIN rows[e] :
                rows[e][i] \in Settled => rows'[e][i] \in {rows[e][i], "removed"}]_rows
  <2>1. ASSUME NEW e \in Events, NEW i \in DOMAIN rows[e], rows[e][i] \in Settled
        PROVE  rows'[e][i] \in {rows[e][i], "removed"}
    <3>1. CASE Environment \/ UNCHANGED vars
      BY <1>2, <2>1, <3>1, EnvironmentRows DEF OwnInv
    <3>2. ASSUME NEW s \in Sweeps, Acquire(s) \/ SweepStep(s) \/ Interruption(s)
          PROVE  rows'[e][i] \in {rows[e][i], "removed"}
      <4>1. TypeOK /\ ~(pc[s] \in {"begin", "settle"} /\ Event(s) = e /\ row[s] = i)
        BY <1>2, <2>1 DEF OwnInv, Undecided, RowLabels
      <4>2. QED
        BY <2>1, <3>2, <4>1, SweepRows
    <3>3. QED
      BY <1>2, <3>1, <3>2 DEF Next
  <2>2. QED
    BY <2>1
<1>3. QED
  BY <1>1, <1>2, OwnStep, PTL DEF Spec, SettledRowsNeverChange

-----------------------------------------------------------------------------
(* Rows without a verdict *)

\* The messages of a turn are those of its queue.
AtHome(s) ==
  /\ pc[s] \notin QueueLabels => batch[s] = {}
  /\ \A m \in batch[s] : Home[m] = at[s]
  /\ pc[s] \in MessageLabels => Home[msg[s]] = at[s]

\* A queue takes its events with it, and gets none afterwards.
NoOrphans == \A e \in Events : queues[Home[e[1]]] = "deleted" => Unsettled(e) = {}

OwnerInv ==
  /\ OwnInv
  /\ UnsettledHasOwner
  /\ NoOrphans
  /\ \A s \in Sweeps : AtHome(s)

LEMMA OthersBatch ==
  ASSUME TypeOK, NEW s \in Sweeps, Acquire(s) \/ SweepStep(s) \/ Interruption(s),
         NEW t \in Sweeps, t # s
  PROVE  batch'[t] = batch[t]
BY DEF TypeOK, SweepsTypeOK, turnVars, Acquire, Interruption, Cancelled, Crash, End, SweepStep,
   ListActive, NextQueue, Release, Receive, TakeMessage, RecordFailure, DeleteMessage, Probe,
   Insert, Lookup, Begin, Import, Settle, LeaveQueue, NextEvent

LEMMA MoverAtHome ==
  ASSUME TypeOK, NEW s \in Sweeps, AtHome(s), Acquire(s) \/ SweepStep(s) \/ Interruption(s)
  PROVE  AtHome(s)'
<1> USE DEF Goto, turnVars
<1>1. SweepsTypeOK
  BY DEF TypeOK
<1>2. ASSUME LeaveQueue(s) \/ End(s) PROVE AtHome(s)'
  <2>1. batch'[s] = {} /\ pc'[s] \in {"next", "idle"}
    BY <1>1, <1>2 DEF LeaveQueue, End, SweepsTypeOK
  <2>2. QED
    BY <2>1 DEF AtHome, QueueLabels, MessageLabels, EventLabels, RowLabels
<1>3. ASSUME UNCHANGED <<batch, at, msg>>, pc[s] \in MessageLabels, pc'[s] \in QueueLabels
      PROVE  AtHome(s)'
  BY <1>3 DEF AtHome
<1>4. CASE Acquire(s) \/ ListActive(s)
  <2>1. UNCHANGED <<batch, at>> /\ pc[s] \in {"idle", "list"} /\ pc'[s] \in {"list", "next"}
    BY <1>1, <1>4 DEF Acquire, ListActive, SweepsTypeOK
  <2>2. QED
    BY <2>1 DEF AtHome, QueueLabels, MessageLabels, EventLabels, RowLabels
<1>5. CASE NextQueue(s)
  <2>1. UNCHANGED batch /\ pc[s] = "next" /\ pc'[s] \in {"next", "release", "receive"}
    BY <1>1, <1>5 DEF NextQueue, SweepsTypeOK
  <2>2. QED
    BY <2>1 DEF AtHome, QueueLabels, MessageLabels, EventLabels, RowLabels
<1>6. CASE Interruption(s) \/ Release(s)
  BY <1>2, <1>6 DEF Interruption, Cancelled, Crash, Release
<1>7. CASE Receive(s)
  <2>1. CASE ~LeaveQueue(s)
    <3>1. /\ pc'[s] = "message" /\ UNCHANGED at
          /\ \A m \in batch'[s] : Home[m] = at[s]
      BY <1>1, <1>7, <2>1 DEF Receive, SweepsTypeOK
    <3>2. QED
      BY <3>1 DEF AtHome, QueueLabels, MessageLabels, EventLabels, RowLabels
  <2>2. QED
    BY <1>2, <2>1
<1>8. CASE TakeMessage(s)
  <2>1. CASE ~LeaveQueue(s)
    <3>1. PICK m \in batch[s] : /\ batch' = [batch EXCEPT ![s] = @ \ {m}]
                                /\ msg' = [msg EXCEPT ![s] = m]
                                /\ GoOnWith(s, Records[m]) /\ UNCHANGED at
      BY <1>8, <2>1 DEF TakeMessage
    <3>2. batch'[s] = batch[s] \ {m} /\ msg'[s] = m /\ pc'[s] \in QueueLabels
      BY <1>1, <3>1 DEF SweepsTypeOK, GoOnWith, QueueLabels, MessageLabels, EventLabels
    <3>3. QED
      BY <3>1, <3>2 DEF AtHome
  <2>2. QED
    BY <1>2, <2>1
<1>9. CASE DeleteMessage(s)
  <2>1. CASE ~LeaveQueue(s)
    <3>1. UNCHANGED <<batch, at>> /\ pc[s] = "delete" /\ pc'[s] = "message"
      BY <1>1, <1>9, <2>1 DEF DeleteMessage, SweepsTypeOK
    <3>2. QED
      BY <3>1 DEF AtHome, QueueLabels, MessageLabels, EventLabels, RowLabels
  <2>2. QED
    BY <1>2, <2>1
<1>10. CASE RecordFailure(s) \/ Probe(s) \/ Settle(s)
  <2>1. CASE LeaveQueue(s)
    BY <1>2, <2>1
  <2>2. CASE ~LeaveQueue(s)
    <3>1. UNCHANGED <<batch, at, msg>> /\ pc[s] \in MessageLabels
      BY <1>10, <2>2
      DEF RecordFailure, Probe, Settle, MessageLabels, EventLabels, RowLabels
    <3>2. pc'[s] \in {"probe", "delete", "insert"}
      BY <1>1, <1>10, <2>2
      DEF RecordFailure, Probe, Settle, NextEvent, GoOnWith, SweepsTypeOK
    <3>3. QED
      BY <1>3, <3>1, <3>2 DEF QueueLabels, MessageLabels, EventLabels
  <2>3. QED
    BY <2>1, <2>2
<1>11. CASE Insert(s) \/ Lookup(s) \/ Begin(s) \/ Import(s)
  <2>1. UNCHANGED <<batch, at, msg>> /\ pc[s] \in MessageLabels
    BY <1>11 DEF Insert, Lookup, Begin, Import, MessageLabels, EventLabels, RowLabels
  <2>2. pc'[s] \in {"lookup", "record", "begin", "settle", "import"}
    BY <1>1, <1>11 DEF Insert, Lookup, Begin, Import, SweepsTypeOK
  <2>3. QED
    BY <1>3, <2>1, <2>2 DEF QueueLabels, MessageLabels, EventLabels, RowLabels
<1>12. QED
  BY <1>4, <1>5, <1>6, <1>7, <1>8, <1>9, <1>10, <1>11 DEF SweepStep

LEMMA AtHomeStep ==
  ASSUME OwnerInv, [Next]_vars
  PROVE  \A t \in Sweeps : AtHome(t)'
<1> TAKE t \in Sweeps
<1>1. TypeOK /\ AtHome(t)
  BY DEF OwnerInv, OwnInv
<1>2. CASE Environment \/ UNCHANGED vars
  <2>1. UNCHANGED <<pc, at, batch, msg>>
    BY <1>2 DEF Environment, Send, Redeliver, Pause, Resume, DeleteQueue, ClearEvents,
       LockExpires, vars, sweepVars, turnVars
  <2>2. QED
    BY <1>1, <2>1 DEF AtHome
<1>3. ASSUME NEW s \in Sweeps, Acquire(s) \/ SweepStep(s) \/ Interruption(s)
      PROVE  AtHome(t)'
  <2>1. CASE t = s
    BY <1>1, <1>3, <2>1, MoverAtHome
  <2>2. CASE t # s
    BY <1>1, <1>3, <2>2, OthersUntouched, OthersBatch DEF AtHome
  <2>3. QED
    BY <2>1, <2>2
<1>4. QED
  BY <1>2, <1>3 DEF Next

\* A row appended to the event in hand.
LEMMA AppendedRow ==
  ASSUME TypeOK, NEW s \in Sweeps, pc[s] \in EventLabels, NEW st \in Status,
         rows' = [rows EXCEPT ![Event(s)] = Append(@, st)], NEW e \in Events
  PROVE  /\ \A i \in DOMAIN rows[e] :
              /\ i \in Nat /\ i < Len(rows[e]) + 1
              /\ i \in DOMAIN rows'[e] /\ rows'[e][i] = rows[e][i]
         /\ \A i \in DOMAIN rows'[e] \ DOMAIN rows[e] :
              e = Event(s) /\ i = Len(rows[e]) + 1
         /\ e = Event(s) => /\ Len(rows[e]) + 1 \in DOMAIN rows'[e]
                            /\ Len(rows[e]) + 1 \in Nat
                            /\ rows'[e][Len(rows[e]) + 1] = st
<1>1. rows \in [Events -> Seq(Status)] /\ rows[e] \in Seq(Status)
  BY DEF TypeOK, TablesTypeOK
<1>2. DOMAIN rows[e] = 1..Len(rows[e]) /\ Len(rows[e]) \in Nat
  BY <1>1, LenProperties
<1>3. CASE e = Event(s)
  <2>1. rows'[e] = Append(rows[e], st)
    BY <1>1, <1>3
  <2>2. /\ DOMAIN rows'[e] = 1..(Len(rows[e]) + 1)
        /\ rows'[e][Len(rows[e]) + 1] = st
        /\ \A i \in 1..Len(rows[e]) : rows'[e][i] = rows[e][i]
    BY <1>1, <1>2, <2>1, AppendProperties, LenProperties
  <2>3. QED
    BY <1>2, <1>3, <2>2
<1>4. CASE e # Event(s)
  BY <1>1, <1>2, <1>4
<1>5. QED
  BY <1>3, <1>4

\* The row in hand is rewritten, and nothing else.
LEMMA RewrittenRow ==
  ASSUME OwnInv, NEW s \in Sweeps, pc[s] \in RowLabels, NEW st \in Status, Update(s, st),
         NEW e \in Events
  PROVE  /\ DOMAIN rows'[e] = DOMAIN rows[e]
         /\ \A i \in DOMAIN rows[e] :
              ~(Event(s) = e /\ row[s] = i) => rows'[e][i] = rows[e][i]
         /\ Event(s) = e => /\ row[s] \in DOMAIN rows[e]
                            /\ rows[e][row[s]] \in {"pending", "processing", "removed"}
                            /\ rows'[e][row[s]] = IF rows[e][row[s]] = "removed"
                                                  THEN "removed" ELSE st
<1>1. TypeOK /\ Undecided(s) /\ rows \in [Events -> Seq(Status)]
  BY DEF OwnInv, TypeOK, TablesTypeOK
<1>2. /\ Event(s) \in Events /\ row[s] \in DOMAIN rows[Event(s)]
      /\ rows' = [rows EXCEPT ![Event(s)] =
                    [rows[Event(s)] EXCEPT ![row[s]] = IF @ = "removed" THEN @ ELSE st]]
  BY <1>1, UpdateRows
<1>3. rows[Event(s)] \in Seq(Status) /\ rows[Event(s)][row[s]] \in Status
  BY <1>1, <1>2
<1>4. rows[Event(s)][row[s]] \in {"pending", "processing", "removed"}
  BY <1>1, <1>3 DEF Undecided, Status
<1>5. QED
  BY <1>1, <1>2, <1>4

\* A row that has no verdict after a step of a sweep had none before it, and that step was
\* not its verdict, or the sweep has just inserted it for a queue that is there.
LEMMA StillUnsettled ==
  ASSUME OwnInv, NEW s \in Sweeps, Acquire(s) \/ SweepStep(s) \/ Interruption(s),
         NEW e \in Events, NEW i \in Unsettled(e)'
  PROVE  \/ i \in Unsettled(e) /\ ~(Settle(s) /\ Handles(s, e, i))
         \/ Insert(s) /\ Event(s) = e /\ queues[at[s]] # "deleted" /\ Handles(s, e, i)'
<1>1. /\ TypeOK /\ SweepsTypeOK
      /\ i \in DOMAIN rows'[e] /\ rows'[e][i] \in {"pending", "processing"}
  BY DEF OwnInv, Unsettled, TypeOK
<1>2. CASE Insert(s)
  <2>1. pc[s] \in EventLabels /\ "pending" \in Status /\ ~Settle(s)
    BY <1>2 DEF Insert, Settle, EventLabels, Status
  <2>2. CASE queues[at[s]] = "deleted"
    <3>1. UNCHANGED rows
      BY <1>2, <2>2 DEF Insert
    <3>2. QED
      BY <2>1, <3>1 DEF Unsettled
  <2>3. CASE queues[at[s]] # "deleted"
    <3>1. /\ rows' = [rows EXCEPT ![Event(s)] = Append(@, "pending")]
          /\ row'[s] = Len(rows[Event(s)]) + 1 /\ pc'[s] = "lookup"
          /\ UNCHANGED <<msg, left>>
      BY <1>1, <1>2, <2>3 DEF Insert, Goto, SweepsTypeOK
    <3>2. CASE i \in DOMAIN rows[e]
      BY <1>1, <2>1, <3>1, <3>2, AppendedRow DEF Unsettled
    <3>3. CASE i \notin DOMAIN rows[e]
      <4>1. e = Event(s) /\ i = Len(rows[e]) + 1
        BY <1>1, <2>1, <3>1, <3>3, AppendedRow
      <4>2. QED
        BY <1>2, <2>3, <3>1, <4>1 DEF Handles, Event, Key, RowLabels
    <3>4. QED
      BY <3>2, <3>3
  <2>4. QED
    BY <2>2, <2>3
<1>3. CASE RecordFailure(s)
  <2>1. pc[s] \in EventLabels /\ "failed" \in Status /\ ~Settle(s)
    BY <1>3 DEF RecordFailure, Settle, EventLabels, Status, Settled
  <2>2. CASE UNCHANGED rows
    BY <2>1, <2>2 DEF Unsettled
  <2>3. CASE rows' = [rows EXCEPT ![Event(s)] = Append(@, "failed")]
    BY <1>1, <2>1, <2>3, AppendedRow DEF Unsettled
  <2>4. QED
    BY <1>3, <2>2, <2>3 DEF RecordFailure
<1>4. CASE Begin(s)
  <2>1. pc[s] \in RowLabels /\ "processing" \in Status /\ Update(s, "processing") /\ ~Settle(s)
    BY <1>4 DEF Begin, Settle, RowLabels, Status
  <2>2. QED
    BY <1>1, <2>1, RewrittenRow DEF Unsettled
<1>5. CASE Settle(s)
  <2>1. pc[s] \in RowLabels /\ outcome[s] \in Status /\ outcome[s] \in Settled
        /\ Update(s, outcome[s])
    BY <1>1, <1>5 DEF Settle, RowLabels, Status, SweepsTypeOK
  <2>2. ~(Event(s) = e /\ row[s] = i)
    BY <1>1, <2>1, RewrittenRow DEF Settled
  <2>3. QED
    BY <1>1, <2>1, <2>2, RewrittenRow DEF Unsettled, Handles
<1>6. CASE ~(Insert(s) \/ RecordFailure(s) \/ Begin(s) \/ Settle(s))
  <2>1. UNCHANGED rows
    BY <1>6 DEF Acquire, Interruption, Cancelled, Crash, End, SweepStep, ListActive, NextQueue,
       Release, Receive, TakeMessage, DeleteMessage, Probe, Lookup, Import, tableVars
  <2>2. QED
    BY <1>6, <2>1 DEF Unsettled
<1>7. QED
  BY <1>2, <1>3, <1>4, <1>5, <1>6

\* A failure that is recorded stays recorded while sweeps step.
LEMMA FailureStays ==
  ASSUME OwnInv, NEW s \in Sweeps, Acquire(s) \/ SweepStep(s) \/ Interruption(s),
         NEW e \in Events, NEW j \in DOMAIN rows[e], rows[e][j] = "failed"
  PROVE  j \in DOMAIN rows'[e] /\ rows'[e][j] = "failed"
<1>1. TypeOK /\ Undecided(s)
  BY DEF OwnInv
<1>2. ~(pc[s] \in {"begin", "settle"} /\ Event(s) = e /\ row[s] = j)
  BY <1>1 DEF Undecided, RowLabels, Settled
<1>3. rows'[e][j] = rows[e][j]
  BY <1>1, <1>2, SweepRows
<1>4. DOMAIN rows[e] \subseteq DOMAIN rows'[e]
  BY <1>1, RowsStep DEF Next, RowsGrow
<1>5. QED
  BY <1>3, <1>4

LEMMA CutShortGrows ==
  ASSUME NEW s \in Sweeps, Acquire(s) \/ SweepStep(s) \/ Interruption(s)
  PROVE  cutShort \subseteq cutShort'
BY DEF Acquire, Interruption, Cancelled, Crash, End, SweepStep, ListActive, NextQueue, Release,
   Receive, TakeMessage, RecordFailure, DeleteMessage, Probe, Insert, Lookup, Begin, Import,
   Settle, historyVars

\* What becomes of a row the sweep has in hand: it keeps it, or it is killed and the event
\* is cut short, or the except branch records the failure after it.
LEMMA HandledOn ==
  ASSUME OwnerInv, NEW s \in Sweeps, Acquire(s) \/ SweepStep(s) \/ Interruption(s),
         NEW e \in Events, NEW i \in Unsettled(e), Handles(s, e, i), ~Settle(s)
  PROVE  \/ Handles(s, e, i)'
         \/ \E j \in DOMAIN rows'[e] : j > i /\ rows'[e][j] = "failed"
         \/ e \in cutShort'
<1>1. /\ TypeOK /\ SweepsTypeOK /\ AtHome(s) /\ NoOrphans
      /\ pc[s] \in RowLabels \cup {"record"} /\ Event(s) = e /\ row[s] = i
  BY DEF OwnerInv, OwnInv, TypeOK, Handles
<1>2. CASE Interruption(s)
  BY <1>2 DEF Interruption, Cancelled, Crash, End
<1>3. CASE Lookup(s) \/ Begin(s) \/ Import(s)
  <2>1. UNCHANGED <<msg, left, row>> /\ pc'[s] \in RowLabels \cup {"record"}
    BY <1>1, <1>3 DEF Lookup, Begin, Import, Goto, turnVars, SweepsTypeOK, RowLabels
  <2>2. QED
    BY <1>1, <2>1 DEF Handles, Event, Key
<1>4. CASE RecordFailure(s)
  <2>1. queues[at[s]] # "deleted"
    <3>1. Home[e[1]] = at[s]
      BY <1>1, <1>4 DEF RecordFailure, AtHome, MessageLabels, EventLabels, Event
    <3>2. QED
      BY <1>1, <3>1 DEF NoOrphans
  <2>2. /\ rows' = [rows EXCEPT ![Event(s)] = Append(@, "failed")]
        /\ pc[s] \in EventLabels /\ "failed" \in Status
    BY <1>4, <2>1 DEF RecordFailure, EventLabels, Status, Settled
  <2>3. i \in DOMAIN rows[e]
    BY DEF Unsettled
  <2>4. /\ i < Len(rows[e]) + 1 /\ Len(rows[e]) + 1 \in DOMAIN rows'[e]
        /\ rows'[e][Len(rows[e]) + 1] = "failed"
    <3>1. rows' = [rows EXCEPT ![Event(s)] = Append(@, "failed")]
      BY <2>2
    <3>2. /\ \A k \in DOMAIN rows[e] :
                /\ k \in Nat /\ k < Len(rows[e]) + 1
                /\ k \in DOMAIN rows'[e] /\ rows'[e][k] = rows[e][k]
          /\ e = Event(s) => /\ Len(rows[e]) + 1 \in DOMAIN rows'[e]
                             /\ rows'[e][Len(rows[e]) + 1] = "failed"
      BY <1>1, <2>2, <3>1, AppendedRow, Zenon
    <3>3. QED
      BY <1>1, <2>3, <3>2
  <2>5. QED
    BY <2>4
<1>5. QED
  BY <1>1, <1>2, <1>3, <1>4 DEF Acquire, SweepStep, ListActive, NextQueue, Release, Receive,
     TakeMessage, DeleteMessage, Probe, Insert, RowLabels

LEMMA OwnerMover ==
  ASSUME OwnerInv, NEW s \in Sweeps, Acquire(s) \/ SweepStep(s) \/ Interruption(s)
  PROVE  UnsettledHasOwner' /\ NoOrphans'
<1>1. OwnInv /\ TypeOK /\ AtHome(s) /\ UNCHANGED queues
  BY DEF OwnerInv, OwnInv, Acquire, Interruption, Cancelled, Crash, End, SweepStep, ListActive,
     NextQueue, Release, Receive, TakeMessage, RecordFailure, DeleteMessage, Probe, Insert,
     Lookup, Begin, Import, Settle, tableVars
<1>2. ASSUME NEW e \in Events, NEW i \in Unsettled(e)'
      PROVE  \/ \E t \in Sweeps : Handles(t, e, i)'
             \/ \E j \in DOMAIN rows'[e] : j > i /\ rows'[e][j] = "failed"
             \/ e \in cutShort'
  <2>1. CASE Handles(s, e, i)'
    BY <2>1
  <2>2. CASE i \in Unsettled(e) /\ ~(Settle(s) /\ Handles(s, e, i))
    <3>1. CASE \E t \in Sweeps : Handles(t, e, i)
      <4>1. PICK t \in Sweeps : Handles(t, e, i)
        BY <3>1
      <4>2. CASE t = s
        BY <2>2, <4>1, <4>2, HandledOn
      <4>3. CASE t # s
        BY <1>1, <4>1, <4>3, OthersUntouched DEF Handles, Event, Key
      <4>4. QED
        BY <4>2, <4>3
    <3>2. CASE \E j \in DOMAIN rows[e] : j > i /\ rows[e][j] = "failed"
      BY <1>1, <3>2, FailureStays
    <3>3. CASE e \in cutShort
      BY <3>3, CutShortGrows
    <3>4. QED
      BY <2>2, <3>1, <3>2, <3>3 DEF OwnerInv, UnsettledHasOwner
  <2>3. QED
    BY <1>1, <1>2, <2>1, <2>2, StillUnsettled
<1>3. ASSUME NEW e \in Events, queues'[Home[e[1]]] = "deleted", NEW i \in Unsettled(e)'
      PROVE  FALSE
  <2>1. queues[Home[e[1]]] = "deleted" /\ Unsettled(e) = {}
    BY <1>1, <1>3 DEF OwnerInv, NoOrphans
  <2>2. Insert(s) /\ Event(s) = e /\ queues[at[s]] # "deleted"
    BY <1>1, <1>3, <2>1, StillUnsettled
  <2>3. Home[e[1]] = at[s]
    BY <1>1, <2>2 DEF Insert, AtHome, MessageLabels, EventLabels, Event
  <2>4. QED
    BY <2>1, <2>2, <2>3
<1>4. QED
  BY <1>2, <1>3 DEF UnsettledHasOwner, NoOrphans

\* Users and the clean-up take rows away, and make none.
LEMMA OwnerEnvironment ==
  ASSUME OwnerInv, Environment \/ UNCHANGED vars
  PROVE  UnsettledHasOwner' /\ NoOrphans'
<1>1. UNCHANGED <<pc, msg, left, row>>
  BY DEF Environment, Send, Redeliver, Pause, Resume, DeleteQueue, ClearEvents, LockExpires,
     vars, sweepVars, turnVars
<1>2. \A t \in Sweeps : \A e, i :
        Handles(t, e, i) => Handles(t, e, i)'
  BY <1>1 DEF Handles, Event, Key
<1>3. UnsettledHasOwner /\ NoOrphans /\ queues \in [Queues -> {"active", "paused", "deleted"}]
  BY DEF OwnerInv, OwnInv, TypeOK, TablesTypeOK
<1>4. ASSUME NEW E, Forget(E)
      PROVE  /\ UnsettledHasOwner'
             /\ \A e \in Events : /\ Unsettled(e)' \subseteq Unsettled(e)
                                  /\ e \in E => Unsettled(e)' = {}
  <2>1. ASSUME NEW e \in Events
        PROVE  rows'[e] = IF e \in E THEN [i \in DOMAIN rows[e] |-> "removed"] ELSE rows[e]
    BY <1>4 DEF Forget
  <2>2. \A e \in Events : e \in E => Unsettled(e)' = {}
    BY <2>1 DEF Unsettled
  <2>3. \A e \in Events : e \notin E => rows'[e] = rows[e] /\ Unsettled(e)' = Unsettled(e)
    BY <2>1 DEF Unsettled
  <2>4. cutShort' = cutShort \ E
    BY <1>4 DEF Forget
  <2>5. UnsettledHasOwner'
    BY <1>2, <1>3, <2>2, <2>3, <2>4 DEF UnsettledHasOwner
  <2>6. QED
    BY <2>2, <2>3, <2>5
<1>5. CASE /\ UNCHANGED <<rows, cutShort>>
          /\ \A q \in Queues : queues'[q] = "deleted" => queues[q] = "deleted"
  <2>1. \A e \in Events : Unsettled(e)' = Unsettled(e)
    BY <1>5 DEF Unsettled
  <2>2. UnsettledHasOwner'
    BY <1>2, <1>3, <1>5, <2>1 DEF UnsettledHasOwner
  <2>3. \A e \in Events : Home[e[1]] \in Queues
    BY PollerAssumption DEF Events
  <2>4. QED
    BY <1>3, <1>5, <2>1, <2>2, <2>3 DEF NoOrphans
<1>6. CASE ClearEvents
  <2>1. PICK E : Forget(E) /\ UNCHANGED queues
    BY <1>6 DEF ClearEvents
  <2>2. QED
    BY <1>3, <1>4, <2>1 DEF NoOrphans
<1>7. ASSUME NEW q \in Queues, DeleteQueue(q) PROVE UnsettledHasOwner' /\ NoOrphans'
  <2> DEFINE E == {e \in Events : Home[e[1]] = q}
  <2>1. Forget(E) /\ queues' = [queues EXCEPT ![q] = "deleted"]
    BY <1>7 DEF DeleteQueue
  <2>2. ASSUME NEW e \in Events, queues'[Home[e[1]]] = "deleted" PROVE Unsettled(e)' = {}
    <3>1. Home[e[1]] = q \/ queues[Home[e[1]]] = "deleted"
      BY <1>3, <2>1, <2>2
    <3>2. QED
      BY <1>3, <1>4, <2>1, <3>1 DEF NoOrphans
  <2>3. QED
    BY <1>4, <2>1, <2>2 DEF NoOrphans
<1>8. CASE \/ \E q \in Queues : Pause(q) \/ Resume(q)
           \/ \E m \in Messages : Send(m) \/ Redeliver(m)
           \/ LockExpires \/ UNCHANGED vars
  <2>1. /\ UNCHANGED <<rows, cutShort>>
        /\ \A q \in Queues : queues'[q] = "deleted" => queues[q] = "deleted"
    BY <1>3, <1>8 DEF Pause, Resume, Send, Redeliver, LockExpires, vars, tableVars, historyVars
  <2>2. QED
    BY <1>5, <2>1
<1>9. QED
  BY <1>6, <1>7, <1>8 DEF Environment

LEMMA OwnerStep ==
  ASSUME OwnerInv, [Next]_vars
  PROVE  OwnerInv'
<1>1. OwnInv' /\ \A t \in Sweeps : AtHome(t)'
  BY OwnStep, AtHomeStep DEF OwnerInv
<1>2. UnsettledHasOwner' /\ NoOrphans'
  BY OwnerMover, OwnerEnvironment DEF Next
<1>3. QED
  BY <1>1, <1>2 DEF OwnerInv

\* A row without a verdict has a sweep at work on it, or lost it when it was killed, or has
\* the failure recorded after it: nothing else, redeliveries and expired locks included,
\* leaves an import half way.
THEOREM UnsettledOwned == Spec => []UnsettledHasOwner
<1>1. Init => OwnerInv
  BY InitTypes DEF Init, OwnerInv, OwnInv, Undecided, Apart, RowLabels, UnsettledHasOwner,
     NoOrphans, Unsettled, AtHome, QueueLabels, MessageLabels, EventLabels
<1>2. OwnerInv => UnsettledHasOwner
  BY DEF OwnerInv
<1>3. QED
  BY <1>1, <1>2, OwnerStep, PTL DEF Spec

\* What is left of "they're recorded" (sqs_poller.py:217-218): once nobody works on a
\* deleted message, each of its events that has rows has a settled or a removed one, or was
\* cut short.
DeletedEventsAreSettledOrCut ==
  \A m \in Messages, k \in Keys :
    sqs[m] = "deleted" /\ (\A s \in Sweeps : msg[s] # m) /\ rows[<<m, k>>] # <<>> =>
      \/ \E i \in DOMAIN rows[<<m, k>>] : rows[<<m, k>>][i] \in Settled \cup {"removed"}
      \/ <<m, k>> \in cutShort

THEOREM DeletedSettledUnlessCut == Spec => []DeletedEventsAreSettledOrCut
<1>1. ASSUME TypeOK, UnsettledHasOwner PROVE DeletedEventsAreSettledOrCut
  <2> SUFFICES ASSUME NEW m \in Messages, NEW k \in Keys, \A s \in Sweeps : msg[s] # m,
                      rows[<<m, k>>] # <<>>, <<m, k>> \notin cutShort
               PROVE  \E i \in DOMAIN rows[<<m, k>>] :
                        rows[<<m, k>>][i] \in Settled \cup {"removed"}
    BY DEF DeletedEventsAreSettledOrCut
  <2> DEFINE e == <<m, k>>
  <2>1. e \in Events /\ rows[e] \in Seq(Status)
    BY <1>1 DEF Events, TypeOK, TablesTypeOK
  <2>2. 1 \in DOMAIN rows[e] /\ \A i \in DOMAIN rows[e] : rows[e][i] \in Status
    BY <2>1, EmptySeq, LenProperties
  <2>3. CASE 1 \in Unsettled(e)
    <3>1. \A s \in Sweeps : ~Handles(s, e, 1)
      BY DEF Handles, Event
    <3>2. QED
      BY <1>1, <2>1, <2>3, <3>1 DEF UnsettledHasOwner, Settled
  <2>4. CASE 1 \notin Unsettled(e)
    BY <2>2, <2>4 DEF Unsettled, Status
  <2>5. QED
    BY <2>3, <2>4
<1>2. QED
  BY <1>1, TypeCorrect, UnsettledOwned, PTL DEF Spec

-----------------------------------------------------------------------------
(* The ledger *)

\* What the row in hand says at each label; a success is only reached through Begin.
Stage(s) ==
  LET status == rows[Event(s)][row[s]] IN
  /\ pc[s] \in {"lookup", "begin"} => status \in {"pending", "removed"}
  /\ pc[s] = "import" => status \in {"processing", "removed"}
  /\ pc[s] = "settle" => \/ status \in {"processing", "removed"}
                         \/ status = "pending" /\ outcome[s] = "failed"

LedgerInv ==
  /\ OwnInv
  /\ TruthInv
  /\ RecordInv
  /\ \A s \in Sweeps : Stage(s)

\* The sweep that moves: the row it has in hand is at the stage its new label asks for.
LEMMA MoverStage ==
  ASSUME LedgerInv, NEW s \in Sweeps, Acquire(s) \/ SweepStep(s) \/ Interruption(s)
  PROVE  Stage(s)'
<1>1. CASE pc'[s] \notin RowLabels
  BY <1>1 DEF Stage, RowLabels
<1>2. CASE pc'[s] \in RowLabels
  <2>1. TypeOK /\ SweepsTypeOK /\ Placed(s) /\ Stage(s) /\ Truthful(s)
    BY DEF LedgerInv, TruthInv, TypeOK
  <2>2. /\ pc[s] \in EventLabels /\ Event(s)' = Event(s) /\ Event(s) \in Events
        /\ rows[Event(s)] \in Seq(Status)
        /\ \/ pc[s] \in RowLabels \ {"settle"} /\ row'[s] = row[s]
           \/ /\ pc[s] = "insert" /\ row'[s] = Len(rows[Event(s)]) + 1
              /\ rows'[Event(s)] = Append(rows[Event(s)], "pending")
    BY <1>2, <2>1, RowInHand, EventTypes
  <2>3. CASE pc[s] = "insert"
    <3>1. rows'[Event(s)][row'[s]] = "pending"
      BY <2>2, <2>3, AppendProperties, LenProperties DEF Status, RowLabels
    <3>2. pc'[s] = "lookup"
      BY <1>2, <2>1, <2>3 DEF SweepsTypeOK, RowLabels, Acquire, Interruption, Cancelled,
         Crash, End, SweepStep, ListActive, NextQueue, Release, Receive, TakeMessage,
         DeleteMessage, RecordFailure, Probe, Lookup, Begin, Import, Settle, Insert, Goto
    <3>3. QED
      BY <2>2, <3>1, <3>2 DEF Stage
  <2>4. CASE pc[s] \in RowLabels \ {"settle"} /\ row'[s] = row[s]
    <3> DEFINE e == Event(s)
               i == row[s]
    <3>1. i \in DOMAIN rows[e]
      BY <2>1, <2>4 DEF Placed
    <3>2. CASE Lookup(s)
      <4>1. pc[s] = "lookup" /\ UNCHANGED <<rows, outcome>> /\ pc'[s] # "import"
        BY <2>1, <3>2 DEF Lookup, Goto, tableVars, turnVars, SweepsTypeOK
      <4>2. outcome[s] = "failed"
        BY <2>1, <4>1 DEF Truthful, SweepsTypeOK, Settled
      <4>3. QED
        BY <2>1, <2>2, <2>4, <4>1, <4>2 DEF Stage
    <3>3. CASE Begin(s)
      <4>1. pc[s] = "begin" /\ pc'[s] = "import" /\ "processing" \in Status
        BY <2>1, <3>3 DEF Begin, Goto, SweepsTypeOK, Status
      <4>2. rows' = [rows EXCEPT ![e] =
                       [rows[e] EXCEPT ![i] = IF @ = "removed" THEN @ ELSE "processing"]]
        BY <2>1, <2>4, <3>3, <4>1, UpdateRows DEF Begin
      <4>3. rows'[e][i] \in {"processing", "removed"}
        BY <2>1, <2>2, <3>1, <4>2 DEF TypeOK, TablesTypeOK
      <4>4. QED
        BY <2>2, <2>4, <4>1, <4>3 DEF Stage
    <3>4. CASE Import(s)
      <4>1. pc[s] = "import" /\ pc'[s] = "settle" /\ UNCHANGED rows
        BY <2>1, <3>4 DEF Import, Goto, tableVars, SweepsTypeOK
      <4>2. QED
        BY <2>1, <2>2, <2>4, <4>1 DEF Stage
    <3>5. Lookup(s) \/ Begin(s) \/ Import(s) \/ Interruption(s)
      BY <2>4 DEF RowLabels, Acquire, SweepStep, ListActive, NextQueue, Release, Receive,
         TakeMessage, DeleteMessage, RecordFailure, Probe, Insert, Settle
    <3>6. CASE Interruption(s)
      BY <1>2, <2>1, <3>6 DEF Interruption, Cancelled, Crash, End, Goto, SweepsTypeOK, RowLabels
    <3>7. QED
      BY <3>2, <3>3, <3>4, <3>5, <3>6
  <2>5. QED
    BY <2>2, <2>3, <2>4
<1>3. QED
  BY <1>1, <1>2

\* The others: a step of another sweep leaves the row in hand alone.
LEMMA OthersStage ==
  ASSUME LedgerInv, NEW s \in Sweeps, Acquire(s) \/ SweepStep(s) \/ Interruption(s),
         NEW t \in Sweeps, t # s
  PROVE  Stage(t)'
<1>1. CASE pc'[t] \notin RowLabels
  BY <1>1 DEF Stage, RowLabels
<1>2. CASE pc'[t] \in RowLabels
  <2>1. OwnInv /\ TypeOK /\ Stage(t) /\ Apart(s, t)
    BY DEF LedgerInv, OwnInv
  <2>2. /\ pc[t] \in RowLabels /\ Event(t)' = Event(t) /\ row'[t] = row[t]
        /\ row[t] \in DOMAIN rows[Event(t)] /\ Event(t) \in Events
    BY <1>2, <2>1, OthersRow
  <2>3. pc'[t] = pc[t] /\ outcome'[t] = outcome[t]
    BY <2>1, OthersUntouched, OwnOutcome
  <2>4. ~(pc[s] \in {"begin", "settle"} /\ Event(s) = Event(t) /\ row[s] = row[t])
    BY <2>1, <2>2 DEF Apart, RowLabels
  <2>5. rows'[Event(t)][row[t]] \in {rows[Event(t)][row[t]], "removed"}
    BY <2>1, <2>2, <2>4, SweepRows
  <2>6. QED
    BY <2>1, <2>2, <2>3, <2>5 DEF Stage
<1>3. QED
  BY <1>1, <1>2

LEMMA LedgerInvStep ==
  ASSUME LedgerInv, [Next]_vars
  PROVE  LedgerInv'
<1>1. OwnInv' /\ TruthInv' /\ RecordInv'
  BY OwnStep, TruthStep, RecordStep DEF LedgerInv
<1>2. ASSUME NEW t \in Sweeps PROVE Stage(t)'
  <2>1. CASE Environment \/ UNCHANGED vars
    <3>1. UNCHANGED <<pc, msg, left, row, outcome>>
      BY <2>1 DEF Environment, Send, Redeliver, Pause, Resume, DeleteQueue, ClearEvents,
         LockExpires, vars, sweepVars, turnVars
    <3>2. TypeOK /\ Stage(t) /\ Event(t)' = Event(t)
      BY <3>1 DEF LedgerInv, OwnInv, Event, Key
    <3>3. CASE pc[t] \in RowLabels
      <4>1. Event(t) \in Events /\ row[t] \in DOMAIN rows[Event(t)]
        BY <3>2, <3>3, EventTypes DEF TypeOK, Placed, EventLabels
      <4>2. rows'[Event(t)][row[t]] \in {rows[Event(t)][row[t]], "removed"}
        BY <2>1, <3>2, <4>1, EnvironmentRows
      <4>3. QED
        BY <3>1, <3>2, <4>2 DEF Stage
    <3>4. CASE pc[t] \notin RowLabels
      BY <3>1, <3>4 DEF Stage, RowLabels
    <3>5. QED
      BY <3>3, <3>4
  <2>2. QED
    BY <2>1, MoverStage, OthersStage DEF Next
<1>3. QED
  BY <1>1, <1>2 DEF LedgerInv

\* The messages the ledger says are gone.
Gone == {m \in Messages : sqs[m] = "deleted"}

LEMMA LedgerStands ==
  ASSUME UNCHANGED <<rows, imported>>, Gone' = Gone
  PROVE  UNCHANGED Book!ledgerVars
BY DEF Book!ledgerVars, Gone

LEMMA RemovalRefines ==
  ASSUME NEW E \in SUBSET Events, Forget(E), UNCHANGED <<sqs, imported>>
  PROVE  Book!LedgerNext
<1>1. Book!Remove(E)
  BY DEF Forget, Book!Remove, Events
<1>2. QED
  BY <1>1 DEF Book!LedgerNext, Events

LEMMA AppendRefines ==
  ASSUME TypeOK, NEW s \in Sweeps, pc[s] \in EventLabels, NEW st \in {"pending", "failed"},
         rows' = [rows EXCEPT ![Event(s)] = Append(@, st)], UNCHANGED <<sqs, imported>>
  PROVE  Book!LedgerNext
<1>1. Event(s) \in Events /\ rows \in [Events -> Seq(Status)]
  BY EventTypes DEF TypeOK, TablesTypeOK
<1>2. Book!Record(Event(s), st)
  BY <1>1 DEF Book!Record
<1>3. QED
  BY <1>1, <1>2 DEF Book!LedgerNext, Events

\* Begin and Settle: a stage further, or nothing if the row is removed.
LEMMA BeginRefines ==
  ASSUME LedgerInv, NEW s \in Sweeps, Begin(s)
  PROVE  [Book!LedgerNext]_(Book!ledgerVars)
<1> DEFINE e == Event(s)
           i == row[s]
<1>1. TypeOK /\ Stage(s) /\ pc[s] = "begin" /\ UNCHANGED <<imported, sqs>>
  BY DEF LedgerInv, OwnInv, Begin, awsVars
<1>2. /\ e \in Events /\ i \in DOMAIN rows[e]
      /\ rows' = [rows EXCEPT ![e] =
                    [rows[e] EXCEPT ![i] = IF @ = "removed" THEN @ ELSE "processing"]]
  BY <1>1, UpdateRows DEF Begin, RowLabels, Status
<1>3. rows \in [Events -> Seq(Status)]
  BY <1>1 DEF TypeOK, TablesTypeOK
<1>4. CASE rows[e][i] = "removed"
  <2>1. UNCHANGED rows
    BY <1>2, <1>3, <1>4
  <2>2. QED
    BY <1>1, <2>1, LedgerStands DEF Gone
<1>5. CASE rows[e][i] = "pending"
  <2>1. Book!Mark(e, i, "processing")
    BY <1>2, <1>3, <1>5 DEF Book!Mark
  <2>2. Book!Start(e, i)
    BY <1>1, <1>5, <2>1 DEF Book!Start
  <2>3. QED
    BY <1>2, <2>2 DEF Book!LedgerNext, Book!OnRow, Events
<1>6. QED
  BY <1>1, <1>4, <1>5 DEF Stage

LEMMA SettleRefines ==
  ASSUME LedgerInv, NEW s \in Sweeps, Settle(s)
  PROVE  [Book!LedgerNext]_(Book!ledgerVars)
<1> DEFINE e == Event(s)
           i == row[s]
<1>1. /\ TypeOK /\ Stage(s) /\ Truthful(s) /\ pc[s] = "settle"
      /\ UNCHANGED <<imported, sqs>> /\ outcome[s] \in Settled
  BY DEF LedgerInv, OwnInv, TruthInv, TypeOK, SweepsTypeOK, Settle, awsVars
<1>2. /\ e \in Events /\ i \in DOMAIN rows[e]
      /\ rows' = [rows EXCEPT ![e] =
                    [rows[e] EXCEPT ![i] = IF @ = "removed" THEN @ ELSE outcome[s]]]
  BY <1>1, UpdateRows DEF Settle, RowLabels, Status
<1>3. rows \in [Events -> Seq(Status)]
  BY <1>1 DEF TypeOK, TablesTypeOK
<1>4. CASE rows[e][i] = "removed"
  <2>1. UNCHANGED rows
    BY <1>2, <1>3, <1>4
  <2>2. QED
    BY <1>1, <2>1, LedgerStands DEF Gone
<1>5. CASE rows[e][i] \in {"pending", "processing"} /\ outcome[s] = "failed"
  <2>1. Book!Mark(e, i, "failed")
    BY <1>2, <1>3, <1>5 DEF Book!Mark
  <2>2. Book!GiveUp(e, i)
    BY <1>1, <1>5, <2>1 DEF Book!GiveUp
  <2>3. QED
    BY <1>2, <2>2 DEF Book!LedgerNext, Book!OnRow, Events
<1>6. CASE rows[e][i] = "processing" /\ outcome[s] \in {"completed", "skipped"}
  <2>1. Book!Mark(e, i, outcome[s])
    BY <1>2, <1>3, <1>6 DEF Book!Mark
  <2>2. e[2] \in imported
    BY <1>1, <1>6 DEF Truthful, Event
  <2>3. Book!Succeed(e, i, outcome[s])
    BY <1>1, <1>6, <2>1, <2>2 DEF Book!Succeed
  <2>4. QED
    BY <1>2, <1>6, <2>3 DEF Book!LedgerNext, Book!OnRow, Events
<1>7. QED
  BY <1>1, <1>4, <1>5, <1>6 DEF Stage, Settled

LEMMA ImportRefines ==
  ASSUME LedgerInv, NEW s \in Sweeps, Import(s)
  PROVE  [Book!LedgerNext]_(Book!ledgerVars)
<1>1. TypeOK /\ Stage(s) /\ pc[s] = "import" /\ UNCHANGED <<rows, sqs>>
  BY DEF LedgerInv, OwnInv, Import, awsVars, tableVars
<1>2. Event(s) \in Events /\ row[s] \in DOMAIN rows[Event(s)] /\ Event(s)[2] = Key(s)
  BY <1>1, EventTypes DEF TypeOK, Placed, RowLabels, EventLabels, Event
<1>3. UNCHANGED imported \/ imported' = imported \cup {Key(s)}
  BY DEF Import, Answer
<1>4. CASE UNCHANGED imported
  BY <1>1, <1>4, LedgerStands DEF Gone
<1>5. CASE imported' = imported \cup {Key(s)}
  <2>1. Book!Link(Event(s), row[s])
    BY <1>1, <1>2, <1>5 DEF Book!Link, Stage
  <2>2. QED
    BY <1>2, <2>1 DEF Book!LedgerNext, Book!OnRow, Events
<1>6. QED
  BY <1>3, <1>4, <1>5

\* A message goes with its events recorded, or stays.
LEMMA DeletionRefines ==
  ASSUME LedgerInv, NEW s \in Sweeps, DeleteMessage(s)
  PROVE  [Book!LedgerNext]_(Book!ledgerVars)
<1>1. TypeOK /\ TypeOK' /\ RecordedBeforeDeleted'
  BY TypeStep, DeletedStep DEF LedgerInv, OwnInv, Next, SweepStep
<1>2. UNCHANGED <<rows, imported>> /\ msg[s] \in Messages
  BY <1>1 DEF DeleteMessage, tableVars, TypeOK, Placed, MessageLabels, QueueLabels
<1>3. CASE UNCHANGED sqs
  BY <1>2, <1>3, LedgerStands DEF Gone
<1>4. CASE sqs' = [sqs EXCEPT ![msg[s]] = "deleted"]
  <2>1. \A m \in Messages : sqs'[m] = IF m = msg[s] THEN "deleted" ELSE sqs[m]
    BY <1>1, <1>4 DEF TypeOK, TablesTypeOK
  <2>2. \A i \in DOMAIN Records[msg[s]] : rows[<<msg[s], Records[msg[s]][i]>>] # <<>>
    BY <1>1, <1>2, <2>1 DEF RecordedBeforeDeleted
  <2>3. {m \in Messages : sqs'[m] = "deleted"}
          = {m \in Messages : sqs[m] = "deleted"} \cup {msg[s]}
    BY <1>2, <2>1
  <2>4. PICK m \in Messages : m = msg[s]
    BY <1>2
  <2>5. Book!DropMessage(m)
    BY <1>2, <2>2, <2>3, <2>4 DEF Book!DropMessage
  <2>6. QED
    BY <2>5 DEF Book!LedgerNext
<1>5. QED
  BY <1>3, <1>4 DEF DeleteMessage

\* AWS hands messages out again and takes none back.
LEMMA GoneStays ==
  ASSUME TypeOK,
         \/ UNCHANGED sqs
         \/ \E m \in Messages : Send(m) \/ Redeliver(m)
         \/ \E s \in Sweeps : Receive(s)
  PROVE  Gone' = Gone
<1>1. sqs \in [Messages -> {"unsent", "visible", "inflight", "deleted"}]
  BY DEF TypeOK, TablesTypeOK
<1>2. CASE UNCHANGED sqs
  BY <1>2 DEF Gone
<1>3. ASSUME NEW m \in Messages, Send(m) \/ Redeliver(m) PROVE Gone' = Gone
  <2>1. sqs[m] # "deleted" /\ sqs' = [sqs EXCEPT ![m] = "visible"]
    BY <1>3 DEF Send, Redeliver
  <2>2. QED
    BY <1>1, <2>1 DEF Gone
<1>4. ASSUME NEW s \in Sweeps, Receive(s), ~UNCHANGED sqs PROVE Gone' = Gone
  <2>1. PICK M \in SUBSET {m \in Messages : /\ Home[m] = at[s]
                                            /\ sqs[m] = "visible"
                                            /\ receives[m] < MaxReceives} :
          sqs' = [m \in Messages |-> IF m \in M THEN "inflight" ELSE sqs[m]]
    BY <1>4 DEF Receive, awsVars
  <2>2. QED
    BY <2>1 DEF Gone
<1>5. QED
  BY <1>2, <1>3, <1>4

LEMMA LedgerStep ==
  ASSUME LedgerInv, [Next]_vars
  PROVE  [Book!LedgerNext]_(Book!ledgerVars)
<1>1. TypeOK
  BY DEF LedgerInv, OwnInv
<1>2. CASE UNCHANGED vars
  BY <1>2, LedgerStands DEF vars, Gone
<1>3. CASE Environment
  <2>1. CASE \/ \E m \in Messages : Send(m) \/ Redeliver(m)
             \/ \E q \in Queues : Pause(q) \/ Resume(q)
             \/ LockExpires
    <3>1. UNCHANGED <<rows, imported>>
      BY <2>1 DEF Send, Redeliver, Pause, Resume, LockExpires, tableVars
    <3>2. Gone' = Gone
      BY <1>1, <2>1, GoneStays DEF Pause, Resume, LockExpires, awsVars
    <3>3. QED
      BY <3>1, <3>2, LedgerStands
  <2>2. ASSUME NEW q \in Queues, DeleteQueue(q) PROVE Book!LedgerNext
    BY <2>2, RemovalRefines DEF DeleteQueue, awsVars
  <2>3. CASE ClearEvents
    <3>1. PICK M \in SUBSET Messages : Forget(M \X Keys)
      BY <2>3 DEF ClearEvents
    <3>2. M \X Keys \in SUBSET Events
      BY DEF Events
    <3>3. QED
      BY <2>3, <3>1, <3>2, RemovalRefines DEF ClearEvents, awsVars
  <2>4. QED
    BY <1>3, <2>1, <2>2, <2>3 DEF Environment
<1>4. ASSUME NEW s \in Sweeps, Acquire(s) \/ SweepStep(s) \/ Interruption(s)
      PROVE  [Book!LedgerNext]_(Book!ledgerVars)
  <2>1. CASE Insert(s) \/ RecordFailure(s)
    <3>1. pc[s] \in EventLabels /\ UNCHANGED <<sqs, imported>>
      BY <2>1 DEF Insert, RecordFailure, EventLabels, awsVars
    <3>2. \/ UNCHANGED rows
          \/ \E st \in {"pending", "failed"} : rows' = [rows EXCEPT ![Event(s)] = Append(@, st)]
      BY <2>1 DEF Insert, RecordFailure
    <3>3. QED
      BY <1>1, <3>1, <3>2, AppendRefines, LedgerStands DEF Gone
  <2>2. CASE Begin(s)
    BY <2>2, BeginRefines
  <2>3. CASE Import(s)
    BY <2>3, ImportRefines
  <2>4. CASE Settle(s)
    BY <2>4, SettleRefines
  <2>5. CASE DeleteMessage(s)
    BY <2>5, DeletionRefines
  <2>6. CASE \/ Acquire(s) \/ Interruption(s) \/ ListActive(s) \/ NextQueue(s) \/ Release(s)
             \/ Receive(s) \/ TakeMessage(s) \/ Probe(s) \/ Lookup(s)
    <3>1. UNCHANGED <<rows, imported>>
      BY <2>6 DEF Acquire, Interruption, Cancelled, Crash, End, ListActive, NextQueue, Release,
         Receive, TakeMessage, Probe, Lookup, tableVars
    <3>2. UNCHANGED sqs \/ Receive(s)
      BY <2>6 DEF Acquire, Interruption, Cancelled, Crash, End, ListActive, NextQueue, Release,
         TakeMessage, Probe, Lookup, awsVars
    <3>3. QED
      BY <1>1, <3>1, <3>2, GoneStays, LedgerStands
  <2>7. QED
    BY <1>4, <2>1, <2>2, <2>3, <2>4, <2>5, <2>6 DEF SweepStep
<1>5. QED
  BY <1>2, <1>3, <1>4 DEF Next

\* The poller keeps the ledger, for any number of sweeps that overlap, die or are
\* cancelled at any step: every row goes through its stages once and in order, its
\* object is linked in between, and a message goes when its events are recorded.
THEOREM ImplementsEventLedger == Spec => KeepsTheLedger
<1>1. Init => LedgerInv
  BY InitTypes DEF Init, LedgerInv, OwnInv, TruthInv, RecordInv, Undecided, Apart, Truthful,
     SettledRowsTellTheTruth, RecordedBeforeDeleted, SweepAccounts, Stage, RowLabels,
     MessageLabels, EventLabels
<1>2. Init => Book!LedgerInit
  BY DEF Init, Book!LedgerInit, Events
<1>3. QED
  BY <1>1, <1>2, LedgerInvStep, LedgerStep, PTL DEF Spec, KeepsTheLedger, Book!LedgerSpec
=============================================================================
