-------------------------- MODULE ImportJobsProofs --------------------------
(***************************************************************************)
(* Proofs about ImportJobs, for any set of jobs and slots and any bounds:  *)
(* type correctness, the exclusion the processed_jobs key gives, the       *)
(* accounting of a run, and that ImportJobs implements IngestOnce.         *)
(***************************************************************************)
EXTENDS ImportJobs, TLAPS

\* A caller of update_status asks for a row.
LEMMA WantedIsRow ==
  ASSUME NEW label \in SaveLabels, NEW loaded \in Row, NEW r \in Counts
  PROVE  Wanted(label, loaded, r) \in Row
<1> USE ImportAssumption DEF Row, Status, Live, Counts
<1>1. CASE label = "start"
  BY <1>1 DEF Wanted
<1>2. CASE label = "listed"
  <2>1. r.total \in Nat
    OBVIOUS
  <2>2. Wanted(label, loaded, r) = [loaded EXCEPT !.status = "running", !.total = r.total]
    BY <1>2 DEF Wanted
  <2>3. QED
    BY <2>1, <2>2
<1>3. CASE label = "empty"
  BY <1>3 DEF Wanted
<1>4. CASE label = "progress"
  BY <1>4 DEF Wanted
<1>5. CASE label = "finish"
  BY <1>5 DEF Wanted
<1>6. CASE label = "error"
  BY <1>6 DEF Wanted
<1>7. QED
  BY <1>1, <1>2, <1>3, <1>4, <1>5, <1>6 DEF SaveLabels

\* What the flush leaves of a row and a request is a row.
LEMMA WrittenIsRow ==
  ASSUME NEW now \in Row, NEW loaded \in Row, NEW want \in Row
  PROVE  Written(now, loaded, want) \in Row
BY DEF Written, Column, Row

\* Every label a save leads to is one of a slot at work.
LEMMA SaveSuccessors ==
  ASSUME NEW label \in SaveLabels
  PROVE  /\ After[label] \in Labels \ {"idle", "claim"}
         /\ OnError[label] \in Labels \ {"idle", "claim"}
BY DEF SaveLabels, After, OnError, Labels, BodyLabels

LEMMA InitTypes == Init => TypeOK
<1> SUFFICES ASSUME Init PROVE TypeOK
  OBVIOUS
<1> USE ImportAssumption DEF Init
<1>1. TableTypeOK
  BY DEF TableTypeOK, Row, Vacant, Status, Live
<1>2. BrokerTypeOK
  BY DEF BrokerTypeOK
<1>3. SlotTypeOK
  BY DEF SlotTypeOK, Counts, NoCounts, Labels
<1>4. HistoryTypeOK
  BY DEF HistoryTypeOK
<1>5. QED
  BY <1>1, <1>2, <1>3, <1>4 DEF TypeOK

\* The steps of the web process, the crons and ARQ's own bookkeeping.
LEMMA OutsideTypes ==
  ASSUME TypeOK, UserStep \/ TimeoutStale
                 \/ \E j \in JobIds : Enqueue(j) \/ NoDispatch(j) \/ GiveUp(j) \/ LeaseExpires(j)
  PROVE  TypeOK'
<1> USE DEF TypeOK, tableVars, brokerVars, slotVars, historyVars
<1>1. SlotTypeOK' /\ HistoryTypeOK'
  <2>1. UNCHANGED <<pc, job, run, seen, sent, listed, reported, lost, noticed>>
    BY DEF UserStep, AddJob, Cancel, Delete, ClearHistory, TimeoutStale, Enqueue,
           NoDispatch, GiveUp, LeaseExpires
  <2>2. QED
    BY <2>1 DEF SlotTypeOK, HistoryTypeOK
<1>2. BrokerTypeOK'
  BY DEF BrokerTypeOK, UserStep, AddJob, Cancel, Delete, ClearHistory, TimeoutStale,
         Enqueue, NoDispatch, GiveUp, LeaseExpires, Dropped
<1>3. TableTypeOK'
  <2>1. ASSUME NEW s \in Status, NEW j \in JobIds, rows' = [rows EXCEPT ![j].status = s]
        PROVE  rows' \in [JobIds -> Row]
    BY <2>1 DEF TableTypeOK, Row
  <2>2. CASE \E j \in JobIds : AddJob(j)
    BY <2>1, <2>2 DEF AddJob, TableTypeOK, Status, Live
  <2>3. CASE \E j \in JobIds : Cancel(j) \/ Delete(j)
    BY <2>1, <2>3 DEF Cancel, Delete, TableTypeOK, Status, Live
  <2>4. CASE ClearHistory \/ TimeoutStale
    BY <2>4 DEF ClearHistory, TimeoutStale, TableTypeOK, Row, Status, Live
  <2>5. CASE \E j \in JobIds : Enqueue(j) \/ NoDispatch(j) \/ GiveUp(j) \/ LeaseExpires(j)
    BY <2>5 DEF Enqueue, NoDispatch, GiveUp, LeaseExpires, TableTypeOK
  <2>6. QED
    BY <2>2, <2>3, <2>4, <2>5 DEF UserStep
<1>4. QED
  BY <1>1, <1>2, <1>3

\* Delivery, acknowledgement and the ways a slot is stopped.
LEMMA DeliveryTypes ==
  ASSUME TypeOK, NEW w \in Workers,
         Ack(w) \/ Interruption(w) \/ \E j \in JobIds : Deliver(w, j)
  PROVE  TypeOK'
<1> USE ImportAssumption DEF TypeOK, tableVars, brokerVars, slotVars, historyVars
<1>1. CASE Ack(w)
  <2> USE <1>1 DEF Ack
  <2>1. TableTypeOK' /\ HistoryTypeOK'
    BY DEF TableTypeOK, HistoryTypeOK
  <2>2. BrokerTypeOK'
    BY DEF BrokerTypeOK
  <2>3. SlotTypeOK'
    BY DEF SlotTypeOK, Labels
  <2>4. QED
    BY <2>1, <2>2, <2>3
<1>2. CASE \E j \in JobIds : Deliver(w, j)
  <2> PICK j \in JobIds : Deliver(w, j)
    BY <1>2
  <2> USE DEF Deliver
  <2>1. TableTypeOK' /\ HistoryTypeOK'
    BY DEF TableTypeOK, HistoryTypeOK
  <2>2. BrokerTypeOK'
    BY DEF BrokerTypeOK
  <2>3. SlotTypeOK'
    BY DEF SlotTypeOK, Labels, Counts, NoCounts
  <2>4. QED
    BY <2>1, <2>2, <2>3
<1>3. CASE Interruption(w)
  <2>1. PICK k \in 0..BatchSize : Stop(w, k)
    BY <1>3 DEF Interruption, Crash, Terminate, TimeOut
  <2>2. pc[w] # "idle"
    BY <1>3 DEF Interruption, Crash, Terminate, TimeOut
  <2>3. TableTypeOK'
    BY <2>1 DEF Stop, TableTypeOK
  <2>4. BrokerTypeOK'
    <3>1. tries' = tries
      BY <2>1 DEF Stop
    <3>2. job[w] \in JobIds
      BY <2>2 DEF SlotTypeOK
    <3>3. undelivered' \subseteq JobIds
      BY <1>3, <3>2 DEF Interruption, Crash, Terminate, TimeOut, Dropped, BrokerTypeOK
    <3>4. QED
      BY <1>3, <3>1, <3>3 DEF Interruption, Crash, Terminate, TimeOut, BrokerTypeOK
  <2>5. SlotTypeOK'
    BY <2>1 DEF Stop, SlotTypeOK, Labels
  <2>6. HistoryTypeOK'
    <3>1. job[w] \in JobIds
      BY <2>2 DEF SlotTypeOK
    <3>2. QED
      BY <2>1, <3>1 DEF Stop, HistoryTypeOK
  <2>7. QED
    BY <2>3, <2>4, <2>5, <2>6
<1>4. QED
  BY <1>1, <1>2, <1>3

\* A slot at work that only moves to another label keeps its types.
LEMMA MoveTypes ==
  ASSUME SlotTypeOK, NEW w \in Workers, NEW label \in Labels \ {"idle"},
         pc[w] # "idle", Goto(w, label), UNCHANGED <<job, run, seen>>
  PROVE  SlotTypeOK'
BY DEF SlotTypeOK, Goto

\* The steps of @idempotent and import_job.
LEMMA WorkerTypes ==
  ASSUME TypeOK, NEW w \in Workers, WorkerStep(w)
  PROVE  TypeOK'
<1> USE ImportAssumption DEF TypeOK, tableVars, brokerVars, slotVars, historyVars
<1>1. CASE SaveLoad(w)
  <2> USE <1>1 DEF SaveLoad
  <2>1. TableTypeOK' /\ BrokerTypeOK'
    BY DEF TableTypeOK, BrokerTypeOK
  <2>2. SlotTypeOK'
    <3>1. After[pc[w]] \in Labels \ {"idle"} /\ job[w] \in JobIds
      BY SaveSuccessors DEF SlotTypeOK, SaveLabels
    <3>2. QED
      BY <3>1 DEF SlotTypeOK, TableTypeOK
  <2>3. HistoryTypeOK'
    BY DEF Report, HistoryTypeOK
  <2>4. QED
    BY <2>1, <2>2, <2>3
<1>2. CASE SaveFlush(w)
  <2> USE <1>2 DEF SaveFlush
  <2>1. job[w] \in JobIds /\ seen[w] \in Row /\ run[w] \in Counts
    BY DEF SlotTypeOK, SaveLabels
  <2>2. TableTypeOK'
    <3>1. Written(rows[job[w]], seen[w], Wanted(pc[w], seen[w], run[w])) \in Row
      BY <2>1, WantedIsRow, WrittenIsRow DEF TableTypeOK
    <3>2. QED
      BY <3>1 DEF TableTypeOK
  <2>3. BrokerTypeOK'
    BY DEF BrokerTypeOK
  <2>4. SlotTypeOK'
    <3>1. /\ After[pc[w]] \in Labels \ {"idle"}
          /\ OnError[pc[w]] \in Labels \ {"idle"}
      BY SaveSuccessors
    <3>2. QED
      BY <2>1, <3>1 DEF SlotTypeOK
  <2>5. HistoryTypeOK'
    <3>1. reported' \in [JobIds -> {"none", "completed", "failed", "cancelled"}]
      BY DEF Report, HistoryTypeOK
    <3>2. noticed' \subseteq JobIds
      BY DEF HistoryTypeOK
    <3>3. QED
      BY <3>1, <3>2 DEF HistoryTypeOK
  <2>6. QED
    BY <2>2, <2>3, <2>4, <2>5
<1>3. CASE \/ Claim(w) \/ GetJob(w) \/ LoadCredentials(w) \/ MakeDirectories(w)
           \/ CheckBeforeLoop(w) \/ CheckInLoop(w) \/ CheckAfterLoop(w) \/ Announce(w)
           \/ Close(w) \/ HandleException(w) \/ MarkFailed(w)
  <2>1. SlotTypeOK'
    <3>1. CASE Claim(w)
      BY <3>1, MoveTypes DEF Claim, Labels, BodyLabels, SaveLabels
    <3>2. CASE GetJob(w)
      BY <3>2, MoveTypes DEF GetJob, Labels, BodyLabels, SaveLabels
    <3>3. CASE LoadCredentials(w)
      BY <3>3, MoveTypes DEF LoadCredentials, Labels, BodyLabels, SaveLabels
    <3>4. CASE MakeDirectories(w)
      BY <3>4, MoveTypes DEF MakeDirectories, Labels, BodyLabels, SaveLabels
    <3>5. CASE CheckBeforeLoop(w)
      BY <3>5, MoveTypes DEF CheckBeforeLoop, Labels, BodyLabels, SaveLabels
    <3>6. CASE CheckInLoop(w)
      BY <3>6, MoveTypes DEF CheckInLoop, Labels, BodyLabels, SaveLabels
    <3>7. CASE CheckAfterLoop(w)
      BY <3>7, MoveTypes DEF CheckAfterLoop, Labels, BodyLabels, SaveLabels
    <3>8. CASE Announce(w)
      BY <3>8, MoveTypes DEF Announce, Labels, BodyLabels, SaveLabels
    <3>9. CASE Close(w)
      BY <3>9, MoveTypes DEF Close, Labels, BodyLabels, SaveLabels
    <3>10. CASE HandleException(w)
      BY <3>10, MoveTypes DEF HandleException, Labels, BodyLabels, SaveLabels
    <3>11. CASE MarkFailed(w)
      BY <3>11, MoveTypes DEF MarkFailed, Labels, BodyLabels, SaveLabels
    <3>12. QED
      BY <1>3, <3>1, <3>2, <3>3, <3>4, <3>5, <3>6, <3>7, <3>8, <3>9, <3>10, <3>11
  <2>2. TableTypeOK'
    <3>1. processed' \in [JobIds -> {"absent", "claimed", "failed"}]
      BY <1>3 DEF Claim, GetJob, LoadCredentials, MakeDirectories, CheckBeforeLoop,
                  CheckInLoop, CheckAfterLoop, Announce, Close,
                  HandleException, MarkFailed, TableTypeOK
    <3>2. QED
      BY <1>3, <3>1 DEF Claim, GetJob, LoadCredentials, MakeDirectories, CheckBeforeLoop,
                        CheckInLoop, CheckAfterLoop, Announce, Close,
                        HandleException, MarkFailed, TableTypeOK
  <2>3. BrokerTypeOK'
    BY <1>3 DEF Claim, GetJob, LoadCredentials, MakeDirectories, CheckBeforeLoop,
                CheckInLoop, CheckAfterLoop, Announce, Close,
                HandleException, MarkFailed, BrokerTypeOK
  <2>4. HistoryTypeOK'
    <3>1. noticed' \subseteq JobIds
      <4>1. job[w] \in JobIds
        BY <1>3 DEF Claim, GetJob, LoadCredentials, MakeDirectories, CheckBeforeLoop,
                    CheckInLoop, CheckAfterLoop, Announce, Close,
                    HandleException, MarkFailed, SlotTypeOK
      <4>2. CASE Reread(w)
        BY <4>1, <4>2 DEF Reread, HistoryTypeOK
      <4>3. CASE ~Reread(w)
        BY <1>3, <4>3 DEF Claim, GetJob, LoadCredentials, MakeDirectories, CheckBeforeLoop,
                          CheckInLoop, CheckAfterLoop, Announce, Close,
                          HandleException, MarkFailed, HistoryTypeOK
      <4>4. QED
        BY <4>2, <4>3
    <3>2. CASE CheckAfterLoop(w) \/ Close(w)
      BY <3>1, <3>2 DEF CheckAfterLoop, Close, HistoryTypeOK
    <3>3. CASE ~(CheckAfterLoop(w) \/ Close(w))
      BY <1>3, <3>1, <3>3 DEF Claim, GetJob, LoadCredentials, MakeDirectories,
                              CheckBeforeLoop, CheckInLoop, Announce, HandleException,
                              MarkFailed, HistoryTypeOK
    <3>4. QED
      BY <3>2, <3>3
  <2>5. QED
    BY <2>1, <2>2, <2>3, <2>4
<1>4. CASE ListObjects(w)
  <2> USE <1>4 DEF ListObjects, Goto
  <2>1. TableTypeOK' /\ BrokerTypeOK'
    BY DEF TableTypeOK, BrokerTypeOK
  <2>2. SlotTypeOK'
    <3>1. run' \in [Workers -> Counts]
      BY DEF SlotTypeOK, Counts
    <3>2. QED
      BY <3>1 DEF SlotTypeOK, Labels, BodyLabels, SaveLabels
  <2>3. HistoryTypeOK'
    BY DEF HistoryTypeOK
  <2>4. QED
    BY <2>1, <2>2, <2>3
<1>5. CASE ImportBatch(w)
  <2> USE <1>5 DEF ImportBatch, Goto
  <2>1. TableTypeOK' /\ BrokerTypeOK'
    BY DEF TableTypeOK, BrokerTypeOK
  <2>2. PICK f \in 0..NextBatch(w) :
          run' = [run EXCEPT ![w] = [total     |-> @.total,
                                     completed |-> @.completed + (NextBatch(w) - f),
                                     failed    |-> @.failed + f]]
    OBVIOUS
  <2>3. NextBatch(w) \in Nat /\ f \in Nat /\ NextBatch(w) - f \in Nat
    <3>1. run[w] \in Counts
      BY DEF SlotTypeOK
    <3>2. NextBatch(w) \in Int
      BY <3>1 DEF NextBatch, Progress, Smaller, Counts
    <3>3. QED
      BY <2>2, <3>2
  <2>4. SlotTypeOK'
    <3>1. run' \in [Workers -> Counts]
      BY <2>2, <2>3 DEF SlotTypeOK, Counts
    <3>2. QED
      BY <3>1 DEF SlotTypeOK, Labels, BodyLabels, SaveLabels
  <2>5. HistoryTypeOK'
    <3>1. job[w] \in JobIds
      BY DEF SlotTypeOK
    <3>2. sent' \in [JobIds -> Nat]
      BY <2>3, <3>1 DEF HistoryTypeOK
    <3>3. QED
      BY <3>2 DEF HistoryTypeOK
  <2>6. QED
    BY <2>1, <2>4, <2>5
<1>6. CASE Ack(w)
  BY <1>6, DeliveryTypes
<1>7. QED
  BY <1>1, <1>2, <1>3, <1>4, <1>5, <1>6 DEF WorkerStep

\* The types are right in every reachable state: no step of a handler, of a
\* worker or of ARQ leaves a value the others do not expect.
THEOREM TypeCorrect == Spec => []TypeOK
<1>1. TypeOK /\ [Next]_vars => TypeOK'
  <2> SUFFICES ASSUME TypeOK, [Next]_vars PROVE TypeOK'
    OBVIOUS
  <2>1. CASE UNCHANGED vars
    BY <2>1 DEF vars, TypeOK, TableTypeOK, BrokerTypeOK, SlotTypeOK, HistoryTypeOK
  <2>2. CASE Next
    BY <2>2, OutsideTypes, DeliveryTypes, WorkerTypes DEF Next
  <2>3. QED
    BY <2>1, <2>2
<1>2. QED
  BY <1>1, InitTypes, PTL DEF Spec

-----------------------------------------------------------------------------
(* The exclusion and the accounting are proved together: what a run has sent *)
(* is its own only because no other slot is in the body of the same job.     *)

RunInv == TypeOK /\ SingleRun /\ RunAccounts

\* Labels of a slot whose run has not enumerated anything.
EarlyLabels == {"claim", "get", "start", "announce", "creds", "list"}

\* A slot moves inside the body, or out of it, and touches nothing that counts.
LEMMA MoveKeepsRunInv ==
  ASSUME RunInv, TypeOK', NEW w \in Workers, InBody(w),
         pc'[w] # "claim", pc'[w] \in EarlyLabels => pc[w] \in EarlyLabels,
         \A v \in Workers \ {w} : pc'[v] = pc[v],
         \A j \in JobIds : processed'[j] = "absent" <=> processed[j] = "absent",
         UNCHANGED <<job, run, sent, listed>>
  PROVE  RunInv'
<1> USE DEF RunInv, InBody
<1>1. SingleRun'
  BY DEF SingleRun, TypeOK, SlotTypeOK, BodyLabels, SaveLabels
<1>2. RunAccounts'
  BY DEF RunAccounts, Progress, EarlyLabels, BodyLabels, SaveLabels
<1>3. QED
  BY <1>1, <1>2

\* No step from outside the body of a slot changes what the invariant is about.
LEMMA OutsideKeepsRunInv ==
  ASSUME RunInv, TypeOK', UNCHANGED <<pc, job, run, processed, sent, listed>>
  PROVE  RunInv'
BY DEF RunInv, SingleRun, RunAccounts, InBody, Progress

LEMMA RunInvStep == RunInv /\ TypeOK' /\ [Next]_vars => RunInv'
<1> SUFFICES ASSUME RunInv, TypeOK', [Next]_vars PROVE RunInv'
  OBVIOUS
<1> USE DEF tableVars, brokerVars, slotVars, historyVars
<1>1. CASE UNCHANGED vars
  BY <1>1, OutsideKeepsRunInv DEF vars
<1>2. CASE UserStep \/ TimeoutStale
           \/ \E j \in JobIds : Enqueue(j) \/ NoDispatch(j) \/ GiveUp(j) \/ LeaseExpires(j)
  <2>1. UNCHANGED <<pc, job, run, processed, sent, listed>>
    BY <1>2 DEF UserStep, AddJob, Cancel, Delete, ClearHistory, TimeoutStale, Enqueue,
                NoDispatch, GiveUp, LeaseExpires
  <2>2. QED
    BY <2>1, OutsideKeepsRunInv
<1>3. ASSUME NEW w \in Workers, NEW j \in JobIds, Deliver(w, j) PROVE RunInv'
  <2>1. SingleRun'
    BY <1>3 DEF Deliver, RunInv, SingleRun, InBody, BodyLabels, SaveLabels, TypeOK, SlotTypeOK
  <2>2. RunAccounts'
    BY <1>3 DEF Deliver, RunInv, RunAccounts, InBody, BodyLabels, SaveLabels, Progress,
                TypeOK, SlotTypeOK
  <2>3. QED
    BY <2>1, <2>2 DEF RunInv
<1>4. ASSUME NEW w \in Workers, Ack(w) PROVE RunInv'
  <2>1. SingleRun'
    BY <1>4 DEF Ack, RunInv, SingleRun, InBody, BodyLabels, SaveLabels, TypeOK, SlotTypeOK
  <2>2. RunAccounts'
    BY <1>4 DEF Ack, RunInv, RunAccounts, InBody, BodyLabels, SaveLabels, Progress,
                TypeOK, SlotTypeOK
  <2>3. QED
    BY <2>1, <2>2 DEF RunInv
<1>5. ASSUME NEW w \in Workers, Claim(w) PROVE RunInv'
  <2>1. job[w] \in JobIds
    BY <1>5 DEF Claim, RunInv, TypeOK, SlotTypeOK
  <2>2. CASE processed[job[w]] = "absent"
    <3>1. /\ processed' = [processed EXCEPT ![job[w]] = "claimed"]
          /\ pc' = [pc EXCEPT ![w] = "get"]
          /\ pc[w] = "claim"
          /\ UNCHANGED <<job, run, sent, listed>>
      BY <1>5, <2>2 DEF Claim, Goto
    <3>2. SingleRun'
      BY <2>1, <2>2, <3>1 DEF RunInv, SingleRun, InBody, TypeOK, SlotTypeOK, TableTypeOK
    <3>3. RunAccounts'
      BY <2>1, <2>2, <3>1 DEF RunInv, RunAccounts, InBody, Progress, TypeOK, SlotTypeOK,
                              TableTypeOK, NoCounts
    <3>4. QED
      BY <3>2, <3>3 DEF RunInv
  <2>3. CASE processed[job[w]] # "absent"
    <3>1. /\ pc' = [pc EXCEPT ![w] = "ack"]
          /\ UNCHANGED <<processed, job, run, sent, listed>>
      BY <1>5, <2>3 DEF Claim, Goto
    <3>2. SingleRun'
      BY <3>1 DEF RunInv, SingleRun, InBody, BodyLabels, SaveLabels, TypeOK, SlotTypeOK
    <3>3. RunAccounts'
      BY <3>1 DEF RunInv, RunAccounts, InBody, BodyLabels, SaveLabels, Progress, TypeOK,
                  SlotTypeOK
    <3>4. QED
      BY <3>2, <3>3 DEF RunInv
  <2>4. QED
    BY <2>2, <2>3
<1>6. ASSUME NEW w \in Workers, SaveLoad(w) \/ SaveFlush(w) PROVE RunInv'
  <2>1. /\ pc[w] \in SaveLabels
        /\ UNCHANGED <<job, run, sent, listed, processed>>
    BY <1>6 DEF SaveLoad, SaveFlush
  <2>2. pc' = pc \/ pc' = [pc EXCEPT ![w] = After[pc[w]]] \/ pc' = [pc EXCEPT ![w] = OnError[pc[w]]]
    BY <1>6 DEF SaveLoad, SaveFlush
  <2>3. /\ After[pc[w]] # "claim"
        /\ After[pc[w]] \in EarlyLabels => pc[w] \in EarlyLabels
        /\ OnError[pc[w]] # "claim" /\ OnError[pc[w]] \notin EarlyLabels
    BY <2>1 DEF SaveLabels, After, OnError, EarlyLabels
  <2>4. /\ pc'[w] # "claim"
        /\ pc'[w] \in EarlyLabels => pc[w] \in EarlyLabels
        /\ \A v \in Workers \ {w} : pc'[v] = pc[v]
    BY <2>1, <2>2, <2>3 DEF RunInv, TypeOK, SlotTypeOK, SaveLabels
  <2>5. QED
    BY <2>1, <2>4, MoveKeepsRunInv DEF InBody, BodyLabels
<1>7. ASSUME NEW w \in Workers,
             GetJob(w) \/ LoadCredentials(w) \/ MakeDirectories(w) \/ CheckBeforeLoop(w)
             \/ CheckInLoop(w) \/ CheckAfterLoop(w) \/ Announce(w)
             \/ Close(w) \/ HandleException(w) \/ MarkFailed(w)
      PROVE  RunInv'
  <2>1. /\ InBody(w)
        /\ UNCHANGED <<job, run, sent, listed>>
    BY <1>7 DEF GetJob, LoadCredentials, MakeDirectories, CheckBeforeLoop, CheckInLoop,
                CheckAfterLoop, Announce, Close, HandleException, MarkFailed, InBody, BodyLabels
  <2>2. \A j \in JobIds : processed'[j] = "absent" <=> processed[j] = "absent"
    <3>1. CASE MarkFailed(w)
      <4>1. job[w] \in JobIds /\ processed[job[w]] # "absent"
        BY <3>1 DEF MarkFailed, RunInv, SingleRun, InBody, BodyLabels, TypeOK, SlotTypeOK
      <4>2. QED
        BY <3>1, <4>1 DEF MarkFailed, RunInv, TypeOK, TableTypeOK
    <3>2. CASE ~MarkFailed(w)
      BY <1>7, <3>2 DEF GetJob, LoadCredentials, MakeDirectories, CheckBeforeLoop,
                        CheckInLoop, CheckAfterLoop, Announce, Close, HandleException
    <3>3. QED
      BY <3>1, <3>2
  <2>3. \E label \in Labels : Goto(w, label) /\ label # "claim"
                             /\ (label \in EarlyLabels => pc[w] \in EarlyLabels)
    <3> USE DEF EarlyLabels, Labels, BodyLabels, SaveLabels
    <3>1. CASE GetJob(w)
      BY <3>1 DEF GetJob
    <3>2. CASE LoadCredentials(w)
      BY <3>2 DEF LoadCredentials
    <3>3. CASE MakeDirectories(w)
      BY <3>3 DEF MakeDirectories
    <3>4. CASE CheckBeforeLoop(w)
      BY <3>4 DEF CheckBeforeLoop
    <3>5. CASE CheckInLoop(w)
      BY <3>5 DEF CheckInLoop
    <3>6. CASE CheckAfterLoop(w)
      BY <3>6 DEF CheckAfterLoop
    <3>7. CASE Announce(w)
      BY <3>7 DEF Announce
    <3>8. CASE Close(w)
      BY <3>8 DEF Close
    <3>9. CASE HandleException(w)
      BY <3>9 DEF HandleException
    <3>10. CASE MarkFailed(w)
      BY <3>10 DEF MarkFailed
    <3>11. QED
      BY <1>7, <3>1, <3>2, <3>3, <3>4, <3>5, <3>6, <3>7, <3>8, <3>9, <3>10
  <2>4. /\ pc'[w] # "claim"
        /\ pc'[w] \in EarlyLabels => pc[w] \in EarlyLabels
        /\ \A v \in Workers \ {w} : pc'[v] = pc[v]
    BY <2>3 DEF Goto, RunInv, TypeOK, SlotTypeOK
  <2>5. QED
    BY <2>1, <2>2, <2>4, MoveKeepsRunInv
<1>8. ASSUME NEW w \in Workers, ListObjects(w) PROVE RunInv'
  <2>1. InBody(w) /\ job[w] \in JobIds /\ pc[w] = "list"
    BY <1>8 DEF ListObjects, InBody, BodyLabels, RunInv, TypeOK, SlotTypeOK
  <2>2. SingleRun'
    <3>1. /\ pc'[w] \in BodyLabels
          /\ \A v \in Workers \ {w} : pc'[v] = pc[v]
      BY <1>8 DEF ListObjects, Goto, BodyLabels, SaveLabels, RunInv, TypeOK, SlotTypeOK
    <3>2. UNCHANGED <<job, processed>>
      BY <1>8 DEF ListObjects
    <3>3. QED
      BY <2>1, <3>1, <3>2 DEF RunInv, SingleRun, InBody
  <2>3. RunAccounts'
    <3>1. CASE Goto(w, "except") /\ UNCHANGED <<run, listed>>
      BY <1>8, <2>1, <3>1 DEF ListObjects, Goto, RunInv, RunAccounts, InBody, BodyLabels,
                              SaveLabels, Progress, TypeOK, SlotTypeOK
    <3>2. ASSUME NEW n \in 0..MaxFiles,
                 run' = [run EXCEPT ![w].total = n], listed' = [listed EXCEPT ![job[w]] = n],
                 Goto(w, IF n = 0 THEN "empty" ELSE "listed")
          PROVE  RunAccounts'
      <4>1. run[w] = NoCounts /\ sent[job[w]] = 0
        BY <2>1 DEF RunInv, RunAccounts, NoCounts, Progress
      <4>2. run'[w] = [total |-> n, completed |-> 0, failed |-> 0] /\ listed'[job[w]] = n
        BY <2>1, <3>2, <4>1 DEF NoCounts, RunInv, TypeOK, SlotTypeOK, HistoryTypeOK
      <4>3. \A v \in Workers \ {w} : pc'[v] = pc[v] /\ run'[v] = run[v]
        BY <3>2 DEF Goto, RunInv, TypeOK, SlotTypeOK
      <4>4. \A v \in Workers \ {w} : InBody(v) => job[v] # job[w]
        BY <2>1 DEF RunInv, SingleRun
      <4>5. \A j \in JobIds \ {job[w]} : listed'[j] = listed[j]
        BY <3>2 DEF RunInv, TypeOK, HistoryTypeOK
      <4>6. processed[job[w]] # "absent" /\ UNCHANGED <<processed, job, sent>>
        BY <1>8, <2>1 DEF ListObjects, RunInv, SingleRun
      <4>7. pc'[w] \in {"empty", "listed"}
        BY <3>2 DEF Goto, RunInv, TypeOK, SlotTypeOK
      <4>8. ASSUME NEW j \in JobIds, processed'[j] = "absent" PROVE sent'[j] = 0 /\ listed'[j] = 0
        BY <4>5, <4>6, <4>8 DEF RunInv, RunAccounts
      <4>9. ASSUME NEW v \in Workers, pc'[v] \in EarlyLabels PROVE run'[v] = NoCounts
        BY <4>3, <4>7, <4>9 DEF RunInv, RunAccounts, EarlyLabels
      <4>10. ASSUME NEW v \in Workers, InBody(v)'
             PROVE  /\ sent'[job'[v]] = Progress(v)'
                    /\ listed'[job'[v]] = run'[v].total
                    /\ Progress(v)' <= run'[v].total
        <5>1. CASE v = w
          BY <4>1, <4>2, <4>6, <5>1 DEF Progress
        <5>2. CASE v # w
          <6>1. InBody(v) /\ job[v] \in JobIds \ {job[w]}
            BY <4>3, <4>4, <4>10, <5>2 DEF InBody, BodyLabels, SaveLabels, RunInv, TypeOK,
                                           SlotTypeOK
          <6>2. QED
            BY <4>3, <4>5, <4>6, <5>2, <6>1 DEF RunInv, RunAccounts, Progress
        <5>3. QED
          BY <5>1, <5>2
      <4>11. QED
        BY <4>8, <4>9, <4>10 DEF RunAccounts, EarlyLabels
    <3>3. QED
      BY <1>8, <3>1, <3>2 DEF ListObjects
  <2>4. QED
    BY <2>2, <2>3 DEF RunInv
<1>9. ASSUME NEW w \in Workers, ImportBatch(w) PROVE RunInv'
  <2> DEFINE n == NextBatch(w)
  <2>1. InBody(w) /\ job[w] \in JobIds /\ pc[w] = "batch" /\ run[w] \in Counts
    BY <1>9 DEF ImportBatch, InBody, BodyLabels, RunInv, TypeOK, SlotTypeOK
  <2>2. PICK f \in 0..n :
          run' = [run EXCEPT ![w] = [total     |-> @.total,
                                     completed |-> @.completed + (n - f),
                                     failed    |-> @.failed + f]]
    BY <1>9 DEF ImportBatch
  <2>3. n \in Nat /\ n <= run[w].total - Progress(w)
    <3>1. n \in Int
      BY <2>1, ImportAssumption DEF NextBatch, Progress, Smaller, Counts
    <3>2. n <= run[w].total - Progress(w)
      BY <2>1, ImportAssumption DEF NextBatch, Progress, Smaller, Counts
    <3>3. QED
      BY <2>2, <3>1, <3>2
  <2>4. run'[w].total = run[w].total /\ Progress(w)' = Progress(w) + n
    BY <2>1, <2>2, <2>3 DEF Progress, RunInv, TypeOK, SlotTypeOK, Counts
  <2>5. /\ pc'[w] \in {"progress", "except"}
        /\ \A v \in Workers \ {w} : pc'[v] = pc[v] /\ run'[v] = run[v]
    BY <1>9, <2>2 DEF ImportBatch, Goto, RunInv, TypeOK, SlotTypeOK
  <2>6. /\ sent'[job[w]] = sent[job[w]] + n
        /\ \A j \in JobIds \ {job[w]} : sent'[j] = sent[j]
    BY <1>9, <2>1 DEF ImportBatch, RunInv, TypeOK, HistoryTypeOK
  <2>7. UNCHANGED <<job, processed, listed>> /\ processed[job[w]] # "absent"
    BY <1>9, <2>1 DEF ImportBatch, RunInv, SingleRun
  <2>8. SingleRun'
    BY <2>1, <2>5, <2>7 DEF RunInv, SingleRun, InBody, BodyLabels, SaveLabels
  <2>9. RunAccounts'
    <3>1. ASSUME NEW j \in JobIds, processed'[j] = "absent" PROVE sent'[j] = 0 /\ listed'[j] = 0
      BY <2>6, <2>7, <3>1 DEF RunInv, RunAccounts
    <3>2. ASSUME NEW v \in Workers, pc'[v] \in EarlyLabels PROVE run'[v] = NoCounts
      BY <2>5, <3>2 DEF RunInv, RunAccounts, EarlyLabels
    <3>3. ASSUME NEW v \in Workers, InBody(v)'
          PROVE  /\ sent'[job'[v]] = Progress(v)'
                 /\ listed'[job'[v]] = run'[v].total
                 /\ Progress(v)' <= run'[v].total
      <4>1. CASE v = w
        <5>1. /\ sent[job[w]] = Progress(w)
              /\ listed[job[w]] = run[w].total
              /\ Progress(w) \in Nat /\ run[w].total \in Nat
          BY <2>1, ImportAssumption DEF RunInv, RunAccounts, Progress, Counts
        <5>2. QED
          BY <2>3, <2>4, <2>6, <2>7, <4>1, <5>1
      <4>2. CASE v # w
        <5>1. InBody(v) /\ job[v] \in JobIds \ {job[w]}
          BY <2>1, <2>5, <3>3, <4>2 DEF RunInv, SingleRun, InBody, BodyLabels, SaveLabels,
                                        TypeOK, SlotTypeOK
        <5>2. QED
          BY <2>5, <2>6, <2>7, <4>2, <5>1 DEF RunInv, RunAccounts, Progress
      <4>3. QED
        BY <4>1, <4>2
    <3>4. QED
      BY <3>1, <3>2, <3>3 DEF RunAccounts, EarlyLabels
  <2>10. QED
    BY <2>8, <2>9 DEF RunInv
<1>10. ASSUME NEW w \in Workers, Interruption(w) PROVE RunInv'
  <2>1. PICK k \in 0..BatchSize : Stop(w, k)
    BY <1>10 DEF Interruption, Crash, Terminate, TimeOut
  <2>2. job[w] \in JobIds
    BY <1>10 DEF Interruption, Crash, Terminate, TimeOut, RunInv, TypeOK, SlotTypeOK
  <2>3. /\ pc'[w] = "idle"
        /\ \A v \in Workers \ {w} : pc'[v] = pc[v] /\ job'[v] = job[v]
        /\ UNCHANGED <<run, processed, listed>>
    BY <2>1 DEF Stop, RunInv, TypeOK, SlotTypeOK
  <2>4. /\ \A j \in JobIds \ {job[w]} : sent'[j] = sent[j]
        /\ ~InBody(w) => sent' = sent
    <3>1. ~InBody(w) => k = 0
      BY <2>1 DEF Stop, InBody, BodyLabels
    <3>2. sent' = [sent EXCEPT ![job[w]] = sent[job[w]] + k]
      BY <2>1 DEF Stop
    <3>3. k = 0 => sent' = sent
      BY <2>2, <3>2 DEF RunInv, TypeOK, HistoryTypeOK
    <3>4. QED
      BY <2>2, <3>1, <3>2, <3>3 DEF RunInv, TypeOK, HistoryTypeOK
  <2>5. SingleRun'
    BY <2>3 DEF RunInv, SingleRun, InBody, BodyLabels, SaveLabels
  <2>6. RunAccounts'
    <3>1. ASSUME NEW j \in JobIds, processed'[j] = "absent" PROVE sent'[j] = 0 /\ listed'[j] = 0
      <4>1. sent'[j] = sent[j]
        BY <2>2, <2>3, <2>4, <3>1 DEF RunInv, SingleRun
      <4>2. QED
        BY <2>3, <3>1, <4>1 DEF RunInv, RunAccounts
    <3>2. ASSUME NEW v \in Workers, pc'[v] \in EarlyLabels PROVE run'[v] = NoCounts
      BY <2>3, <3>2 DEF RunInv, RunAccounts, EarlyLabels
    <3>3. ASSUME NEW v \in Workers, InBody(v)'
          PROVE  /\ sent'[job'[v]] = Progress(v)'
                 /\ listed'[job'[v]] = run'[v].total
                 /\ Progress(v)' <= run'[v].total
      <4>1. v # w /\ InBody(v) /\ job'[v] = job[v] /\ job[v] \in JobIds
        BY <2>3, <3>3 DEF InBody, BodyLabels, SaveLabels, RunInv, TypeOK, SlotTypeOK
      <4>2. sent'[job[v]] = sent[job[v]]
        BY <2>4, <4>1 DEF RunInv, SingleRun
      <4>3. QED
        BY <2>3, <4>1, <4>2 DEF RunInv, RunAccounts, Progress
    <3>4. QED
      BY <3>1, <3>2, <3>3 DEF RunAccounts, EarlyLabels
  <2>7. QED
    BY <2>5, <2>6 DEF RunInv
<1>11. QED
  BY <1>1, <1>2, <1>3, <1>4, <1>5, <1>6, <1>7, <1>8, <1>9, <1>10 DEF Next, WorkerStep

LEMMA RunInvariant == Spec => []RunInv
<1>1. Init => RunInv
  <2> SUFFICES ASSUME Init PROVE RunInv
    OBVIOUS
  <2>1. SingleRun /\ RunAccounts
    BY DEF Init, SingleRun, RunAccounts, InBody, BodyLabels, SaveLabels
  <2>2. QED
    BY <2>1, InitTypes DEF RunInv
<1>2. QED
  BY <1>1, RunInvStep, TypeCorrect, PTL DEF Spec

\* Two deliveries of one job never run its body at the same time, and a body only
\* runs once its claim is committed.
THEOREM RunsAreExclusive == Spec => []SingleRun
BY RunInvariant, PTL DEF RunInv

\* A run accounts for everything LucidLink was sent for its job.
THEOREM RunsAccount == Spec => []RunAccounts
BY RunInvariant, PTL DEF RunInv

-----------------------------------------------------------------------------
(* ImportJobs implements IngestOnce *)

\* Nobody enters or leaves a body: the phases stay.
LEMMA PhaseKept ==
  ASSUME \A j \in JobIds : processed'[j] = "absent" <=> processed[j] = "absent",
         \A v \in Workers : InBody(v)' = InBody(v),
         \A v \in Workers : InBody(v) => job'[v] = job[v]
  PROVE  Phase' = Phase
<1>1. ASSUME NEW j \in JobIds PROVE RunOver(j)' = RunOver(j)
  BY DEF RunOver
<1>2. QED
  BY <1>1 DEF Phase

\* A slot leaves the body: its job's only run is over.
LEMMA PhaseEnds ==
  ASSUME RunInv, NEW w \in Workers, InBody(w), ~InBody(w)',
         \A j \in JobIds : processed'[j] = "absent" <=> processed[j] = "absent",
         \A v \in Workers \ {w} : InBody(v)' = InBody(v) /\ job'[v] = job[v]
  PROVE  /\ job[w] \in JobIds
         /\ Phase[job[w]] = "active"
         /\ Phase' = [Phase EXCEPT ![job[w]] = "over"]
<1>1. PICK j \in JobIds : j = job[w]
  BY DEF RunInv, TypeOK, SlotTypeOK, InBody, BodyLabels, SaveLabels
<1>2. processed[j] # "absent" /\ ~RunOver(j)
  BY <1>1 DEF RunInv, SingleRun, RunOver
<1>3. \A v \in Workers \ {w} : InBody(v) => job[v] # j
  BY <1>1 DEF RunInv, SingleRun
<1>4. RunOver(j)'
  BY <1>2, <1>3 DEF RunOver
<1>5. ASSUME NEW i \in JobIds \ {j} PROVE RunOver(i)' = RunOver(i)
  BY <1>1 DEF RunOver
<1>6. Phase[j] = "active" /\ Phase'[j] = "over"
  BY <1>2, <1>4 DEF Phase
<1>7. ASSUME NEW i \in JobIds \ {j} PROVE Phase'[i] = Phase[i]
  BY <1>5 DEF Phase
<1>8. Phase' = [Phase EXCEPT ![j] = "over"]
  BY <1>6, <1>7 DEF Phase
<1>9. QED
  BY <1>1, <1>6, <1>8

\* Inside the body the phase is active.
LEMMA PhaseActive ==
  ASSUME RunInv, NEW w \in Workers, InBody(w)
  PROVE  job[w] \in JobIds /\ Phase[job[w]] = "active"
BY DEF RunInv, TypeOK, SlotTypeOK, SingleRun, InBody, BodyLabels, SaveLabels, RunOver, Phase

\* A move of one slot that sends and lists nothing is a stutter or an End.
LEMMA MoveRefines ==
  ASSUME RunInv, NEW w \in Workers, InBody(w),
         \A v \in Workers \ {w} : pc'[v] = pc[v],
         \A j \in JobIds : processed'[j] = "absent" <=> processed[j] = "absent",
         UNCHANGED <<job, sent, listed>>
  PROVE  [Once!ANext]_Once!abstractVars
<1>1. CASE InBody(w)'
  <2>1. \A v \in Workers : InBody(v)' = InBody(v)
    BY <1>1 DEF InBody
  <2>2. QED
    BY <2>1, PhaseKept DEF Once!abstractVars
<1>2. CASE ~InBody(w)'
  <2>1. \A v \in Workers \ {w} : InBody(v)' = InBody(v) /\ job'[v] = job[v]
    BY DEF InBody
  <2>2. /\ job[w] \in JobIds
        /\ Phase[job[w]] = "active"
        /\ Phase' = [Phase EXCEPT ![job[w]] = "over"]
    BY <1>2, <2>1, PhaseEnds
  <2>3. /\ sent[job[w]] \in Nat
        /\ sent[job[w]] <= listed[job[w]]
        /\ sent' = [sent EXCEPT ![job[w]] = sent[job[w]] + 0]
    <3>1. sent[job[w]] = Progress(w) /\ listed[job[w]] = run[w].total /\ Progress(w) <= run[w].total
      BY DEF RunInv, RunAccounts
    <3>2. QED
      BY <2>2, <3>1 DEF RunInv, TypeOK, HistoryTypeOK
  <2>4. sent[job[w]] + 0 <= listed[job[w]]
    BY <2>3
  <2>5. Once!End(job[w], 0)
    BY <2>2, <2>3, <2>4 DEF Once!End
  <2>6. QED
    BY <2>2, <2>5, ImportAssumption DEF Once!ANext
<1>3. QED
  BY <1>1, <1>2

LEMMA StepRefines == RunInv /\ [Next]_vars => [Once!ANext]_Once!abstractVars
<1> SUFFICES ASSUME RunInv, [Next]_vars PROVE [Once!ANext]_Once!abstractVars
  OBVIOUS
<1> USE DEF tableVars, brokerVars, slotVars, historyVars
<1>1. CASE UNCHANGED <<pc, job, processed, sent, listed>>
  <2>1. Phase' = Phase
    BY <1>1, PhaseKept DEF InBody
  <2>2. QED
    BY <1>1, <2>1 DEF Once!abstractVars
<1>2. CASE UNCHANGED vars
  BY <1>1, <1>2 DEF vars
<1>3. CASE UserStep \/ TimeoutStale
           \/ \E j \in JobIds : Enqueue(j) \/ NoDispatch(j) \/ GiveUp(j) \/ LeaseExpires(j)
  <2>1. UNCHANGED <<pc, job, processed, sent, listed>>
    BY <1>3 DEF UserStep, AddJob, Cancel, Delete, ClearHistory, TimeoutStale, Enqueue,
                NoDispatch, GiveUp, LeaseExpires
  <2>2. QED
    BY <1>1, <2>1
<1>4. ASSUME NEW w \in Workers, Ack(w) \/ \E j \in JobIds : Deliver(w, j)
      PROVE  [Once!ANext]_Once!abstractVars
  <2>1. /\ ~InBody(w) /\ ~InBody(w)'
        /\ \A v \in Workers \ {w} : pc'[v] = pc[v] /\ job'[v] = job[v]
        /\ UNCHANGED <<processed, sent, listed>>
    BY <1>4 DEF Ack, Deliver, InBody, BodyLabels, SaveLabels, RunInv, TypeOK, SlotTypeOK
  <2>2. Phase' = Phase
    BY <2>1, PhaseKept DEF InBody
  <2>3. QED
    BY <2>1, <2>2 DEF Once!abstractVars
<1>5. ASSUME NEW w \in Workers, Claim(w) PROVE [Once!ANext]_Once!abstractVars
  <2> DEFINE j == job[w]
  <2>1. /\ pc[w] = "claim" /\ ~InBody(w) /\ j \in JobIds
        /\ \A v \in Workers \ {w} : pc'[v] = pc[v]
        /\ UNCHANGED <<job, sent, listed>>
    BY <1>5 DEF Claim, Goto, InBody, BodyLabels, SaveLabels, RunInv, TypeOK, SlotTypeOK
  <2>2. CASE processed[j] = "absent"
    <3>1. processed' = [processed EXCEPT ![j] = "claimed"] /\ pc'[w] = "get"
      BY <1>5, <2>2 DEF Claim, Goto, RunInv, TypeOK, SlotTypeOK
    <3>2. /\ processed'[j] # "absent"
          /\ \A i \in JobIds \ {j} : processed'[i] = processed[i]
      BY <2>1, <3>1 DEF RunInv, TypeOK, TableTypeOK
    <3>3. InBody(w)' /\ ~RunOver(j)'
      BY <2>1, <3>1 DEF InBody, BodyLabels, RunOver
    <3>4. ASSUME NEW i \in JobIds \ {j} PROVE RunOver(i)' = RunOver(i)
      BY <2>1, <3>2 DEF RunOver, InBody
    <3>5. Phase[j] = "idle" /\ Phase'[j] = "active"
      BY <2>1, <2>2, <3>2, <3>3 DEF Phase
    <3>6. ASSUME NEW i \in JobIds \ {j} PROVE Phase'[i] = Phase[i]
      BY <3>2, <3>4 DEF Phase
    <3>7. Phase' = [Phase EXCEPT ![j] = "active"]
      BY <2>1, <3>5, <3>6 DEF Phase
    <3>8. Once!Begin(j)
      BY <2>1, <3>5, <3>7 DEF Once!Begin
    <3>9. QED
      BY <2>1, <3>8 DEF Once!ANext
  <2>3. CASE processed[j] # "absent"
    <3>1. pc'[w] = "ack" /\ UNCHANGED processed
      BY <1>5, <2>3 DEF Claim, Goto, RunInv, TypeOK, SlotTypeOK
    <3>2. \A v \in Workers : InBody(v)' = InBody(v)
      BY <2>1, <3>1 DEF InBody, BodyLabels, SaveLabels
    <3>3. Phase' = Phase
      BY <2>1, <3>1, <3>2, PhaseKept
    <3>4. QED
      BY <2>1, <3>3 DEF Once!abstractVars
  <2>4. QED
    BY <2>2, <2>3
<1>6. ASSUME NEW w \in Workers, SaveLoad(w) \/ SaveFlush(w)
      PROVE  [Once!ANext]_Once!abstractVars
  <2>1. InBody(w) /\ UNCHANGED <<job, sent, listed, processed>>
    BY <1>6 DEF SaveLoad, SaveFlush, InBody, BodyLabels
  <2>2. \A v \in Workers \ {w} : pc'[v] = pc[v]
    BY <1>6 DEF SaveLoad, SaveFlush, RunInv, TypeOK, SlotTypeOK
  <2>3. QED
    BY <2>1, <2>2, MoveRefines
<1>7. ASSUME NEW w \in Workers,
             GetJob(w) \/ LoadCredentials(w) \/ MakeDirectories(w) \/ CheckBeforeLoop(w)
             \/ CheckInLoop(w) \/ CheckAfterLoop(w) \/ Announce(w)
             \/ Close(w) \/ HandleException(w) \/ MarkFailed(w)
      PROVE  [Once!ANext]_Once!abstractVars
  <2>1. InBody(w) /\ UNCHANGED <<job, sent, listed>>
    BY <1>7 DEF GetJob, LoadCredentials, MakeDirectories, CheckBeforeLoop, CheckInLoop,
                CheckAfterLoop, Announce, Close, HandleException, MarkFailed, InBody, BodyLabels
  <2>2. \A v \in Workers \ {w} : pc'[v] = pc[v]
    BY <1>7 DEF GetJob, LoadCredentials, MakeDirectories, CheckBeforeLoop, CheckInLoop,
                CheckAfterLoop, Announce, Close,
                HandleException, MarkFailed, Goto, RunInv, TypeOK, SlotTypeOK
  <2>3. \A j \in JobIds : processed'[j] = "absent" <=> processed[j] = "absent"
    <3>1. CASE MarkFailed(w)
      <4>1. job[w] \in JobIds /\ processed[job[w]] # "absent"
        BY <2>1 DEF RunInv, SingleRun, InBody, BodyLabels, SaveLabels, TypeOK, SlotTypeOK
      <4>2. QED
        BY <3>1, <4>1 DEF MarkFailed, RunInv, TypeOK, TableTypeOK
    <3>2. CASE ~MarkFailed(w)
      BY <1>7, <3>2 DEF GetJob, LoadCredentials, MakeDirectories, CheckBeforeLoop,
                        CheckInLoop, CheckAfterLoop, Announce, Close, HandleException
    <3>3. QED
      BY <3>1, <3>2
  <2>4. QED
    BY <2>1, <2>2, <2>3, MoveRefines
<1>8. ASSUME NEW w \in Workers, ListObjects(w) PROVE [Once!ANext]_Once!abstractVars
  <2>1. /\ InBody(w) /\ pc[w] = "list"
        /\ UNCHANGED <<job, sent, processed>>
        /\ \A v \in Workers \ {w} : pc'[v] = pc[v]
    BY <1>8 DEF ListObjects, Goto, InBody, BodyLabels, RunInv, TypeOK, SlotTypeOK
  <2>2. CASE UNCHANGED listed
    BY <2>1, <2>2, MoveRefines
  <2>3. CASE \E n \in 0..MaxFiles : /\ listed' = [listed EXCEPT ![job[w]] = n]
                                   /\ Goto(w, IF n = 0 THEN "empty" ELSE "listed")
    <3>1. PICK n \in 0..MaxFiles : /\ listed' = [listed EXCEPT ![job[w]] = n]
                                   /\ Goto(w, IF n = 0 THEN "empty" ELSE "listed")
      BY <2>3
    <3>2. InBody(w)'
      BY <3>1 DEF Goto, InBody, BodyLabels, SaveLabels, RunInv, TypeOK, SlotTypeOK
    <3>3. Phase' = Phase
      BY <2>1, <3>2, PhaseKept DEF InBody
    <3>4. job[w] \in JobIds /\ Phase[job[w]] = "active"
      BY <2>1, PhaseActive
    <3>5. listed[job[w]] = 0
      BY <2>1 DEF RunInv, RunAccounts, NoCounts
    <3>6. CASE n = 0
      BY <2>1, <3>1, <3>3, <3>4, <3>5, <3>6 DEF Once!abstractVars, RunInv, TypeOK, HistoryTypeOK
    <3>7. CASE n # 0
      <4>1. Once!Enumerate(job[w], n)
        BY <2>1, <3>1, <3>3, <3>4, <3>5 DEF Once!Enumerate
      <4>2. n \in 1..MaxFiles
        BY <3>7, ImportAssumption
      <4>3. QED
        BY <3>4, <4>1, <4>2 DEF Once!ANext
    <3>8. QED
      BY <3>6, <3>7
  <2>4. QED
    BY <1>8, <2>2, <2>3 DEF ListObjects
<1>9. ASSUME NEW w \in Workers, ImportBatch(w) PROVE [Once!ANext]_Once!abstractVars
  <2> DEFINE n == NextBatch(w)
  <2>1. /\ InBody(w) /\ pc[w] = "batch" /\ run[w] \in Counts
        /\ UNCHANGED <<job, listed, processed>>
        /\ \A v \in Workers \ {w} : pc'[v] = pc[v]
        /\ pc'[w] \in {"progress", "except"}
    BY <1>9 DEF ImportBatch, Goto, InBody, BodyLabels, RunInv, TypeOK, SlotTypeOK
  <2>2. Phase' = Phase
    BY <2>1, PhaseKept DEF InBody, BodyLabels, SaveLabels
  <2>3. job[w] \in JobIds /\ Phase[job[w]] = "active"
    BY <2>1, PhaseActive
  <2>4. n \in Nat /\ n <= BatchSize /\ n <= run[w].total - Progress(w)
    <3>1. n \in Int /\ n <= BatchSize /\ n <= run[w].total - Progress(w)
      BY <2>1, ImportAssumption DEF NextBatch, Progress, Smaller, Counts
    <3>2. \E f \in 0..n : TRUE
      BY <1>9 DEF ImportBatch
    <3>3. QED
      BY <3>1, <3>2
  <2>5. sent' = [sent EXCEPT ![job[w]] = sent[job[w]] + n]
    BY <1>9 DEF ImportBatch
  <2>6. sent[job[w]] = Progress(w) /\ listed[job[w]] = run[w].total
    BY <2>1 DEF RunInv, RunAccounts
  <2>7. sent[job[w]] + n <= listed[job[w]]
    BY <2>1, <2>4, <2>6, ImportAssumption DEF Progress, Counts
  <2>8. Once!Ingest(job[w], n)
    BY <2>1, <2>2, <2>3, <2>5, <2>7 DEF Once!Ingest
  <2>9. CASE n = 0
    BY <2>1, <2>2, <2>3, <2>5, <2>9 DEF Once!abstractVars, RunInv, TypeOK, HistoryTypeOK
  <2>10. CASE n # 0
    <3>1. n \in 1..BatchSize
      BY <2>4, <2>10, ImportAssumption
    <3>2. QED
      BY <2>3, <2>8, <3>1 DEF Once!ANext
  <2>11. QED
    BY <2>9, <2>10
<1>10. ASSUME NEW w \in Workers, Interruption(w) PROVE [Once!ANext]_Once!abstractVars
  <2>1. PICK k \in 0..BatchSize : Stop(w, k)
    BY <1>10 DEF Interruption, Crash, Terminate, TimeOut
  <2>2. /\ job[w] \in JobIds
        /\ ~InBody(w)'
        /\ \A v \in Workers \ {w} : pc'[v] = pc[v] /\ job'[v] = job[v]
        /\ UNCHANGED <<processed, listed>>
        /\ sent' = [sent EXCEPT ![job[w]] = sent[job[w]] + k]
    BY <1>10, <2>1 DEF Interruption, Crash, Terminate, TimeOut, Stop, InBody, BodyLabels,
                       SaveLabels, RunInv, TypeOK, SlotTypeOK
  <2>3. k = 0 => sent' = sent
    BY <2>2 DEF RunInv, TypeOK, HistoryTypeOK
  <2>4. CASE ~InBody(w)
    <3>1. k = 0
      BY <2>1, <2>4 DEF Stop, InBody, BodyLabels
    <3>2. Phase' = Phase
      BY <2>2, <2>4, PhaseKept DEF InBody
    <3>3. QED
      BY <2>2, <2>3, <3>1, <3>2 DEF Once!abstractVars
  <2>5. CASE InBody(w)
    <3>1. /\ Phase[job[w]] = "active"
          /\ Phase' = [Phase EXCEPT ![job[w]] = "over"]
      BY <2>2, <2>5, PhaseEnds DEF InBody
    <3>2. /\ sent[job[w]] = Progress(w) /\ Progress(w) \in Nat
          /\ listed[job[w]] = run[w].total /\ run[w].total \in Nat
          /\ Progress(w) <= run[w].total
      <4>1. run[w] \in Counts
        BY DEF RunInv, TypeOK, SlotTypeOK
      <4>2. QED
        BY <2>5, <4>1, ImportAssumption DEF RunInv, RunAccounts, Progress, Counts
    <3>3. sent[job[w]] + k <= listed[job[w]]
      <4>1. CASE pc[w] = "batch"
        <5>1. k <= NextBatch(w)
          BY <2>1, <4>1, <3>2, ImportAssumption DEF Stop, NextBatch, Smaller
        <5>2. NextBatch(w) <= run[w].total - Progress(w) /\ NextBatch(w) \in Int
          BY <3>2, ImportAssumption DEF NextBatch, Smaller
        <5>3. QED
          BY <3>2, <5>1, <5>2
      <4>2. CASE pc[w] # "batch"
        <5>1. k = 0
          BY <2>1, <4>2 DEF Stop
        <5>2. QED
          BY <3>2, <5>1
      <4>3. QED
        BY <4>1, <4>2
    <3>4. Once!End(job[w], k)
      BY <2>2, <3>1, <3>3 DEF Once!End
    <3>5. QED
      BY <2>2, <3>4 DEF Once!ANext
  <2>6. QED
    BY <2>4, <2>5
<1>11. QED
  BY <1>2, <1>3, <1>4, <1>5, <1>6, <1>7, <1>8, <1>9, <1>10 DEF Next, WorkerStep

\* Whatever ARQ redelivers, whoever dies, the objects of a job are enumerated once
\* and handed to LucidLink at most once, by one run that never starts again.
THEOREM ImplementsIngestOnce == Spec => IngestsOnce
<1>1. Init => Once!AInit
  BY DEF Init, Once!AInit, Phase
<1>2. QED
  BY <1>1, StepRefines, RunInvariant, PTL DEF Spec, IngestsOnce, Once!ASpec
=============================================================================
