------------------------ MODULE ImportJobsRowProofs ------------------------
(***************************************************************************)
(* Proofs about the rows of ImportJobs, for any set of jobs and slots and  *)
(* any bounds: what a row marked completed, a row marked running, the      *)
(* activity log and a cancellation a run has noticed are worth, and that   *)
(* removed and settled rows are left alone.                                *)
(***************************************************************************)
EXTENDS ImportJobsProofs

-----------------------------------------------------------------------------
(* The inductive invariant.  A run is the only one to write the counts of    *)
(* its row, so at each label they are what it last saved, and a row it has   *)
(* loaded can only have been cancelled or removed since.                     *)

\* No run has claimed the job yet.
Untouched(j) ==
  /\ rows[j].status \in {"absent", "pending", "cancelled", "deleted"}
  /\ rows[j].total = 0 /\ rows[j].completed = 0 /\ rows[j].failed = 0
  /\ reported[j] = "none"
  /\ j \notin lost /\ j \notin noticed

Unknown(j) ==
  /\ j \notin adding
  /\ queue[j] = "absent"
  /\ processed[j] = "absent"
  /\ \A w \in Workers : job[w] # j

Complete(j) ==
  /\ rows[j].completed + rows[j].failed = rows[j].total
  /\ sent[j] = rows[j].total

Owned(j) ==
  \/ \E w \in Workers : job[w] = j /\ InBody(w)
  \/ j \in lost
  \/ processed[j] = "failed"

ReportedTruly(j) ==
  /\ reported[j] = "completed" => rows[j].status \in {"completed", "cancelled", "deleted"}
  /\ reported[j] = "failed"    => rows[j].status \in {"failed", "cancelled", "deleted"}
  /\ reported[j] = "cancelled" => rows[j].status \in {"cancelled", "deleted"}

JobOK(j) ==
  /\ rows[j].startedAt = "null"
  /\ rows[j].status = "absent" => Unknown(j)
  /\ processed[j] = "absent" => Untouched(j)
  /\ rows[j].status = "completed" => Complete(j)
  /\ rows[j].status = "running" => Owned(j)
  /\ ReportedTruly(j)
  /\ j \in noticed => rows[j].status \in {"cancelled", "failed", "deleted"}

\* Labels before the total is saved, and those at which the row has the run's counts.
BlankLabels == {"get", "start", "announce", "creds", "list", "empty", "listed"}
SavedLabels == {"dirs", "precheck", "check", "batch", "final", "finish"}
EndLabels   == {"closing", "except", "error", "mark"}

Numbers(w, row) ==
  /\ pc[w] \in BlankLabels => row.total = 0 /\ row.completed = 0 /\ row.failed = 0
  /\ pc[w] \in SavedLabels => /\ row.total = run[w].total
                              /\ row.completed = run[w].completed
                              /\ row.failed = run[w].failed
  /\ pc[w] = "progress" => row.total = run[w].total

Standing(w, row) ==
  /\ row.status \in {"pending", "running", "cancelled", "completed", "deleted"}
  /\ row.status = "completed" => pc[w] \in EndLabels
  /\ pc[w] = "closing" => row.status \in {"completed", "cancelled", "deleted"}
  /\ pc[w] = "empty" => run[w].total = 0
  /\ pc[w] \in {"empty", "listed"} => run[w].completed = 0 /\ run[w].failed = 0
  /\ pc[w] = "final" => Progress(w) = run[w].total \/ row.status \in {"cancelled", "deleted"}
  /\ pc[w] = "finish" => Progress(w) = run[w].total \/ row.status = "deleted"

Loaded(w, row) ==
  seen[w] # NotLoaded =>
    /\ pc[w] \in SaveLabels
    /\ seen[w].startedAt = "null"
    /\ row.status # "deleted" =>
         /\ row.status \in {seen[w].status, "cancelled"}
         /\ row.total = seen[w].total
         /\ row.completed = seen[w].completed
         /\ row.failed = seen[w].failed

Stopping(w, row) ==
  job[w] \in noticed =>
    /\ pc[w] \in EndLabels \cup {"final", "finish"}
    /\ pc[w] = "final" => row.status \in {"cancelled", "deleted"}
    /\ pc[w] \in {"finish", "closing"} => row.status = "deleted"

SlotOK(w) ==
  LET j == job[w] IN
  /\ ~InBody(w) => seen[w] = NotLoaded
  /\ InBody(w) =>
       /\ rows[j].status # "deleted" => Numbers(w, rows[j])
       /\ Standing(w, rows[j])
       /\ Loaded(w, rows[j])
       /\ Stopping(w, rows[j])
       /\ reported[j] = "none" /\ j \notin lost

RowInv == (\A j \in JobIds : JobOK(j)) /\ (\A w \in Workers : SlotOK(w))

-----------------------------------------------------------------------------
(* Steps that are not a run's *)

\* What a user or the cron may do to a row.
Restated(j) ==
  /\ rows'[j].total = rows[j].total
  /\ rows'[j].completed = rows[j].completed
  /\ rows'[j].failed = rows[j].failed
  /\ rows'[j].startedAt = rows[j].startedAt
  /\ \/ rows'[j].status = rows[j].status
     \/ rows[j].status \in Live /\ rows'[j].status \in {"cancelled", "deleted"}
     \/ rows[j].status = "absent" /\ rows'[j].status = "pending"

LEMMA RestatedKeepsRows ==
  ASSUME RunInv, RowInv, \A j \in JobIds : Restated(j),
         \A j \in adding' : j \in adding \/ rows'[j].status = "pending",
         UNCHANGED <<queue, processed, slotVars, historyVars>>
  PROVE  RowInv'
<1> USE DEF slotVars, historyVars
<1>1. ASSUME NEW j \in JobIds PROVE JobOK(j)'
  <2>1. JobOK(j) /\ Restated(j)
    BY DEF RowInv
  <2>2. /\ rows'[j].startedAt = "null"
        /\ rows'[j].status = "absent" => Unknown(j)'
    BY <2>1 DEF JobOK, Restated, Live, Unknown
  <2>3. processed'[j] = "absent" => Untouched(j)'
    BY <2>1 DEF JobOK, Restated, Live, Untouched
  <2>4. rows'[j].status = "completed" => Complete(j)'
    BY <2>1 DEF JobOK, Restated, Live, Complete
  <2>5. rows'[j].status = "running" => Owned(j)'
    BY <2>1 DEF JobOK, Restated, Live, Owned, InBody
  <2>6. ReportedTruly(j)'
    <3>1. rows[j].status = "absent" => reported[j] = "none"
      BY <2>1 DEF JobOK, Unknown, Untouched
    <3>2. QED
      BY <2>1, <3>1 DEF JobOK, Restated, Live, ReportedTruly
  <2>7. j \in noticed' => rows'[j].status \in {"cancelled", "failed", "deleted"}
    BY <2>1 DEF JobOK, Restated, Live
  <2>8. QED
    BY <2>2, <2>3, <2>4, <2>5, <2>6, <2>7 DEF JobOK
<1>2. ASSUME NEW w \in Workers PROVE SlotOK(w)'
  <2> DEFINE j == job[w]
  <2>1. CASE ~InBody(w)
    BY <2>1 DEF RowInv, SlotOK, InBody
  <2>2. CASE InBody(w)
    <3>1. j \in JobIds
      BY <2>2 DEF RunInv, TypeOK, SlotTypeOK, InBody, BodyLabels, SaveLabels
    <3>2. Restated(j) /\ SlotOK(w)
      BY <3>1 DEF RowInv
    <3>3. rows'[j].status # "deleted" => Numbers(w, rows[j])'
      BY <2>2, <3>2 DEF SlotOK, Restated, Numbers, Live
    <3>4. Standing(w, rows[j])'
      BY <2>2, <3>2 DEF SlotOK, Restated, Standing, Live, Progress
    <3>5. Loaded(w, rows[j])'
      BY <2>2, <3>2 DEF SlotOK, Restated, Loaded, Live, Standing
    <3>6. Stopping(w, rows[j])'
      BY <2>2, <3>2 DEF SlotOK, Restated, Stopping, Live, Standing
    <3>7. QED
      BY <2>2, <3>2, <3>3, <3>4, <3>5, <3>6 DEF SlotOK, InBody
  <2>3. QED
    BY <2>1, <2>2
<1>3. QED
  BY <1>1, <1>2 DEF RowInv

\* The web handlers and the stale-job cron.
LEMMA WebKeepsRows ==
  ASSUME RunInv, RowInv, UserStep \/ TimeoutStale
  PROVE  RowInv'
<1> USE DEF slotVars, historyVars, brokerVars
<1>1. rows \in [JobIds -> Row]
  BY DEF RunInv, TypeOK, TableTypeOK
<1>2. ASSUME NEW i \in JobIds, NEW s \in Status, rows' = [rows EXCEPT ![i].status = s],
             \/ rows[i].status \in Live /\ s \in {"cancelled", "deleted"}
             \/ rows[i].status = "absent" /\ s = "pending"
      PROVE  \A j \in JobIds : Restated(j)
  BY <1>1, <1>2 DEF Row, Restated
<1>3. CASE \E i \in JobIds : AddJob(i)
  <2> PICK i \in JobIds : AddJob(i)
    BY <1>3
  <2>1. rows'[i].status = "pending"
    BY <1>1 DEF AddJob, Row
  <2>2. \A j \in JobIds : Restated(j)
    BY <1>2 DEF AddJob, Status, Live
  <2>3. QED
    BY <2>1, <2>2, RestatedKeepsRows DEF AddJob
<1>4. CASE \E i \in JobIds : Cancel(i) \/ Delete(i)
  <2> PICK i \in JobIds : Cancel(i) \/ Delete(i)
    BY <1>4
  <2>1. \A j \in JobIds : Restated(j)
    BY <1>2 DEF Cancel, Delete, Exists, Status, Live
  <2>2. QED
    BY <2>1, RestatedKeepsRows DEF Cancel, Delete
<1>5. CASE ClearHistory
  <2>1. \A j \in JobIds : Restated(j)
    BY <1>1, <1>5 DEF ClearHistory, Row, Restated, Live, Terminal
  <2>2. QED
    BY <1>5, <2>1, RestatedKeepsRows DEF ClearHistory
<1>6. CASE TimeoutStale
  <2>1. \A j \in JobIds : rows[j].startedAt = "null"
    BY DEF RowInv, JobOK
  <2>2. \A j \in JobIds : Restated(j)
    BY <1>1, <1>6, <2>1 DEF TimeoutStale, Restated
  <2>3. QED
    BY <1>6, <2>2, RestatedKeepsRows DEF TimeoutStale
<1>7. QED
  BY <1>3, <1>4, <1>5, <1>6 DEF UserStep

\* The enqueue and ARQ's bookkeeping, which look at no row.
LEMMA QueueKeepsRows ==
  ASSUME RunInv, RowInv, NEW i \in JobIds,
         Enqueue(i) \/ NoDispatch(i) \/ GiveUp(i) \/ LeaseExpires(i)
  PROVE  RowInv'
<1> USE DEF slotVars, historyVars, brokerVars
<1>1. /\ UNCHANGED <<rows, processed, pc, job, run, seen, sent, reported, lost, noticed>>
      /\ adding' \subseteq adding
      /\ \A j \in JobIds : queue'[j] = queue[j] \/ queue[j] # "absent" \/ j \in adding
  BY DEF Enqueue, NoDispatch, GiveUp, LeaseExpires, tableVars, RunInv, TypeOK, BrokerTypeOK
<1>2. ASSUME NEW j \in JobIds PROVE JobOK(j)'
  BY <1>1 DEF RowInv, JobOK, Unknown, Untouched, Complete, Owned, ReportedTruly, InBody
<1>3. ASSUME NEW w \in Workers PROVE SlotOK(w)'
  BY <1>1 DEF RowInv, SlotOK, Numbers, Standing, Loaded, Stopping, InBody, Progress
<1>4. QED
  BY <1>2, <1>3 DEF RowInv

\* Delivery, acknowledgement, and a claim that finds the job claimed: the slot stays
\* outside the body.
LEMMA IdleKeepsRows ==
  ASSUME RunInv, RowInv, NEW w \in Workers,
         ~InBody(w), pc'[w] \notin BodyLabels,
         job'[w] = Nobody \/ queue[job'[w]] # "absent" \/ job'[w] = job[w],
         \A v \in Workers \ {w} : pc'[v] = pc[v] /\ job'[v] = job[v] /\ run'[v] = run[v],
         \A j \in JobIds : queue[j] = "absent" /\ queue'[j] # "absent" => job[w] = j,
         UNCHANGED <<rows, adding, processed, seen, sent, reported, noticed, lost>>
  PROVE  RowInv'
<1>1. ASSUME NEW j \in JobIds PROVE JobOK(j)'
  <2>1. JobOK(j)
    BY DEF RowInv
  <2>2. rows'[j].status = "absent" => Unknown(j)'
    BY <2>1, ImportAssumption DEF JobOK, Unknown
  <2>3. rows'[j].status = "running" => Owned(j)'
    BY <2>1 DEF JobOK, Owned, InBody
  <2>4. QED
    BY <2>1, <2>2, <2>3 DEF JobOK, Untouched, Complete, ReportedTruly
<1>2. ASSUME NEW v \in Workers PROVE SlotOK(v)'
  <2>1. CASE v = w
    BY <2>1 DEF RowInv, SlotOK, InBody
  <2>2. CASE v # w
    BY <2>2 DEF RowInv, SlotOK, Numbers, Standing, Loaded, Stopping, InBody, Progress
  <2>3. QED
    BY <2>1, <2>2
<1>3. QED
  BY <1>1, <1>2 DEF RowInv

-----------------------------------------------------------------------------
(* The steps of a run *)

\* A run touches its own slot and its own job: what is left is to look at these.
LEMMA OwnStep ==
  ASSUME RunInv, RowInv, NEW w \in Workers, NEW k \in JobIds, job[w] = k,
         \A v \in Workers \ {w} : /\ pc'[v] = pc[v] /\ job'[v] = job[v]
                                  /\ run'[v] = run[v] /\ seen'[v] = seen[v]
                                  /\ InBody(v) => job[v] # k,
         \A i \in JobIds \ {k} :
           /\ rows'[i] = rows[i] /\ queue'[i] = queue[i] /\ processed'[i] = processed[i]
           /\ sent'[i] = sent[i] /\ reported'[i] = reported[i]
           /\ i \in lost' <=> i \in lost
           /\ i \in noticed' <=> i \in noticed,
         adding' = adding, job'[w] \in {k, Nobody}, JobOK(k)', SlotOK(w)'
  PROVE  RowInv'
<1>1. ASSUME NEW i \in JobIds PROVE JobOK(i)'
  <2>1. CASE i # k
    <3>1. JobOK(i)
      BY DEF RowInv
    <3>2. rows'[i].status = "absent" => Unknown(i)'
      BY <2>1, <3>1, ImportAssumption DEF JobOK, Unknown
    <3>3. rows'[i].status = "running" => Owned(i)'
      BY <2>1, <3>1 DEF JobOK, Owned, InBody
    <3>4. QED
      BY <2>1, <3>1, <3>2, <3>3 DEF JobOK, Untouched, Complete, ReportedTruly
  <2>2. CASE i = k
    BY <2>2
  <2>3. QED
    BY <2>1, <2>2
<1>2. ASSUME NEW v \in Workers PROVE SlotOK(v)'
  <2>1. CASE v # w /\ ~InBody(v)
    BY <2>1 DEF RowInv, SlotOK, InBody
  <2>2. CASE v # w /\ InBody(v)
    <3>1. job[v] \in JobIds \ {k}
      BY <2>2 DEF RunInv, TypeOK, SlotTypeOK, InBody, BodyLabels, SaveLabels
    <3>2. QED
      BY <2>2, <3>1 DEF RowInv, SlotOK, Numbers, Standing, Loaded, Stopping, InBody, Progress
  <2>3. QED
    BY <2>1, <2>2
<1>3. QED
  BY <1>1, <1>2 DEF RowInv

\* A slot in the body has a job, whose row is there or removed, and no rival.
LEMMA InTheBody ==
  ASSUME RunInv, RowInv, NEW w \in Workers, InBody(w)
  PROVE  /\ job[w] \in JobIds
         /\ processed[job[w]] # "absent"
         /\ rows[job[w]].status # "absent"
         /\ \A v \in Workers \ {w} : InBody(v) => job[v] # job[w]
         /\ JobOK(job[w]) /\ SlotOK(w)
<1>1. job[w] \in JobIds
  BY DEF RunInv, TypeOK, SlotTypeOK, InBody, BodyLabels, SaveLabels
<1>2. processed[job[w]] # "absent" /\ \A v \in Workers \ {w} : InBody(v) => job[v] # job[w]
  BY DEF RunInv, SingleRun
<1>3. JobOK(job[w]) /\ SlotOK(w)
  BY <1>1 DEF RowInv
<1>4. QED
  BY <1>1, <1>2, <1>3 DEF JobOK, Unknown

\* A slot of the body goes to another label and writes no row.
LEMMA MoveKeepsRows ==
  ASSUME RunInv, RowInv, NEW w \in Workers, NEW k \in JobIds, job[w] = k,
         InBody(w), pc[w] \notin SaveLabels,
         NEW label \in Labels, Goto(w, label),
         \A i \in JobIds \ {k} : processed'[i] = processed[i] /\ reported'[i] = reported[i],
         processed'[k] \in {processed[k], "failed"},
         noticed' \in {noticed, noticed \cup {k}},
         UNCHANGED <<rows, adding, queue, job, run, seen, sent, lost>>,
         ReportedTruly(k)',
         k \in noticed' => rows[k].status \in {"cancelled", "failed", "deleted"},
         label \in BodyLabels =>
           /\ rows[k].status # "deleted" => Numbers(w, rows[k])'
           /\ Standing(w, rows[k])'
           /\ Stopping(w, rows[k])'
           /\ reported'[k] = "none",
         label \notin BodyLabels => rows[k].status # "running" \/ processed'[k] = "failed"
  PROVE  RowInv'
<1>1. /\ processed[k] # "absent"
      /\ rows[k].status # "absent"
      /\ \A v \in Workers \ {w} : InBody(v) => job[v] # k
      /\ JobOK(k) /\ SlotOK(w)
  BY InTheBody
<1>2. pc'[w] = label /\ \A v \in Workers \ {w} : pc'[v] = pc[v]
  BY DEF Goto, RunInv, TypeOK, SlotTypeOK
<1>3. seen[w] = NotLoaded /\ k \notin lost
  BY <1>1 DEF SlotOK, Loaded
<1>4. SlotOK(w)'
  BY <1>2, <1>3 DEF SlotOK, Loaded, InBody
<1>5. JobOK(k)'
  <2>1. rows'[k].status = "running" => Owned(k)'
    BY <1>2 DEF Owned, InBody
  <2>2. QED
    BY <1>1, <2>1 DEF JobOK, Complete, Untouched
<1>6. QED
  BY <1>1, <1>2, <1>4, <1>5, OwnStep

LEMMA ClaimKeepsRows ==
  ASSUME RunInv, RowInv, NEW w \in Workers, Claim(w)
  PROVE  RowInv'
<1> USE DEF tableVars, brokerVars, historyVars
<1>1. /\ pc[w] = "claim" /\ job[w] \in JobIds /\ ~InBody(w)
      /\ processed \in [JobIds -> {"absent", "claimed", "failed"}]
      /\ pc \in [Workers -> Labels]
  BY DEF Claim, RunInv, TypeOK, SlotTypeOK, TableTypeOK, InBody, BodyLabels, SaveLabels
<1>2. CASE processed[job[w]] # "absent"
  <2>1. Goto(w, "ack") /\ UNCHANGED processed
    BY <1>2 DEF Claim
  <2>2. pc'[w] \notin BodyLabels /\ \A v \in Workers \ {w} : pc'[v] = pc[v]
    BY <1>1, <2>1 DEF Goto, BodyLabels, SaveLabels
  <2>3. QED
    BY <1>1, <2>1, <2>2, IdleKeepsRows DEF Claim
<1>3. CASE processed[job[w]] = "absent"
  <2> DEFINE k == job[w]
  <2>1. processed' = [processed EXCEPT ![k] = "claimed"] /\ Goto(w, "get")
    BY <1>3 DEF Claim
  <2>2. /\ pc'[w] = "get"
        /\ \A v \in Workers \ {w} : pc'[v] = pc[v] /\ (InBody(v) => job[v] # k)
    BY <1>1, <1>3, <2>1 DEF Goto, RunInv, SingleRun
  <2>3. processed'[k] = "claimed" /\ \A i \in JobIds \ {k} : processed'[i] = processed[i]
    BY <1>1, <2>1
  <2>4. JobOK(k) /\ SlotOK(w)
    BY <1>1 DEF RowInv
  <2>5. UNCHANGED <<rows, adding, queue, tries, job, run, seen, sent, listed, reported, lost, noticed>>
    BY DEF Claim
  <2>6. Untouched(k) /\ rows[k].status # "absent" /\ seen[w] = NotLoaded
    BY <1>1, <1>3, <2>4 DEF JobOK, Unknown, SlotOK
  <2>7. JobOK(k)'
    BY <2>3, <2>4, <2>5, <2>6 DEF JobOK, Untouched, Complete, Owned, ReportedTruly
  <2>8. SlotOK(w)'
    BY <2>2, <2>5, <2>6 DEF SlotOK, Numbers, Standing, Loaded, Stopping, Untouched,
       BlankLabels, SavedLabels, EndLabels
  <2>9. QED
    BY <1>1, <2>2, <2>3, <2>5, <2>7, <2>8, OwnStep
<1>4. QED
  BY <1>2, <1>3

\* The checks, announcements and branches of import_job that write no row.
LEMMA MovesKeepRows ==
  ASSUME RunInv, RowInv, NEW w \in Workers,
         GetJob(w) \/ Announce(w) \/ LoadCredentials(w) \/ MakeDirectories(w)
         \/ CheckBeforeLoop(w) \/ CheckInLoop(w) \/ CheckAfterLoop(w) \/ Close(w)
         \/ HandleException(w) \/ MarkFailed(w)
  PROVE  RowInv'
<1> DEFINE k == job[w]
<1> USE DEF tableVars, brokerVars, historyVars
<1>1. /\ InBody(w) /\ pc[w] \notin SaveLabels
      /\ UNCHANGED <<rows, adding, queue, job, run, seen, sent, lost>>
  BY DEF GetJob, Announce, LoadCredentials, MakeDirectories, CheckBeforeLoop, CheckInLoop,
     CheckAfterLoop, Close, HandleException, MarkFailed, InBody, BodyLabels, SaveLabels
<1>2. /\ k \in JobIds /\ processed[k] # "absent" /\ rows[k].status # "absent"
      /\ JobOK(k) /\ SlotOK(w)
  BY <1>1, InTheBody
<1>3. /\ rows[k].status # "deleted" => Numbers(w, rows[k])
      /\ Standing(w, rows[k]) /\ Stopping(w, rows[k])
      /\ reported[k] = "none"
      /\ ReportedTruly(k)
      /\ k \in noticed => rows[k].status \in {"cancelled", "failed", "deleted"}
  BY <1>1, <1>2 DEF SlotOK, JobOK
<1>4. /\ pc \in [Workers -> Labels]
      /\ processed \in [JobIds -> {"absent", "claimed", "failed"}]
      /\ reported \in [JobIds -> {"none", "completed", "failed", "cancelled"}]
  BY DEF RunInv, TypeOK, SlotTypeOK, TableTypeOK, HistoryTypeOK
<1>5. Exists(k) <=> rows[k].status # "deleted"
  BY <1>3 DEF Exists, Live, Standing
<1> USE DEF Labels, BodyLabels, SaveLabels
\* What is left to say of a step that changes the label alone.
<1>6. ASSUME NEW label \in Labels, Goto(w, label), UNCHANGED <<processed, reported, noticed>>,
             label \in BodyLabels =>
               /\ rows[k].status # "deleted" => Numbers(w, rows[k])'
               /\ Standing(w, rows[k])'
               /\ Stopping(w, rows[k])',
             label \notin BodyLabels => rows[k].status # "running"
      PROVE  RowInv'
  <2>1. ReportedTruly(k)'
    BY <1>1, <1>3, <1>6 DEF ReportedTruly
  <2>2. QED
    BY <1>1, <1>2, <1>3, <1>6, <2>1, MoveKeepsRows
<1>7. CASE GetJob(w)
  <2>1. PICK label \in {"start", "ack", "mark"} :
          /\ Goto(w, label)
          /\ label = "start" <=> Exists(k)
    BY <1>7 DEF GetJob
  <2>2. pc'[w] = label /\ pc[w] = "get" /\ UNCHANGED <<processed, reported, noticed>>
    BY <1>4, <1>7, <2>1 DEF GetJob, Goto
  <2>3. /\ rows[k].status # "deleted" => Numbers(w, rows[k])'
        /\ Standing(w, rows[k])'
        /\ Stopping(w, rows[k])'
    BY <1>1, <1>3, <1>5, <2>1, <2>2 DEF Numbers, Standing, Stopping, BlankLabels, SavedLabels, EndLabels
  <2>4. QED
    BY <1>5, <1>6, <2>1, <2>2, <2>3
<1>8. CASE Announce(w) \/ LoadCredentials(w) \/ MakeDirectories(w) \/ HandleException(w)
  <2>1. PICK label \in {"creds", "mark", "list", "except", "precheck", "error"} :
          /\ Goto(w, label)
          /\ \/ pc[w] \in {"announce", "creds"} /\ label \in {"creds", "list"}
             \/ pc[w] = "dirs" /\ label = "precheck"
             \/ label \in EndLabels
    BY <1>8 DEF Announce, LoadCredentials, MakeDirectories, HandleException, EndLabels
  <2>2. /\ pc'[w] = label /\ UNCHANGED <<processed, reported, noticed>>
        /\ label # "closing"
    BY <1>4, <1>8, <2>1 DEF Announce, LoadCredentials, MakeDirectories, HandleException, Goto
  <2>3. /\ rows[k].status # "deleted" => Numbers(w, rows[k])'
        /\ Standing(w, rows[k])'
        /\ Stopping(w, rows[k])'
    BY <1>1, <1>3, <2>1, <2>2 DEF Numbers, Standing, Stopping, BlankLabels, SavedLabels, EndLabels
  <2>4. QED
    BY <1>6, <2>1, <2>2, <2>3
<1>9. CASE CheckBeforeLoop(w) \/ CheckInLoop(w) \/ CheckAfterLoop(w)
  <2>1. /\ pc[w] \in {"precheck", "check", "final"}
        /\ UNCHANGED processed
        /\ noticed' = IF rows[k].status = "cancelled" THEN noticed \cup {k} ELSE noticed
    BY <1>9 DEF CheckBeforeLoop, CheckInLoop, CheckAfterLoop, Reread
  <2>2. PICK label \in {"ack", "except", "check", "final", "batch", "finish"} :
          /\ Goto(w, label)
          /\ label = "ack" => pc[w] # "check" /\ rows[k].status = "cancelled"
          /\ label = "check" => pc[w] = "precheck" /\ rows[k].status # "cancelled"
          /\ label = "final" => pc[w] = "check" /\ (Progress(w) >= run[w].total
                                                     \/ rows[k].status = "cancelled")
          /\ label = "batch" => pc[w] = "check" /\ rows[k].status # "cancelled"
          /\ label = "finish" => pc[w] = "final" /\ rows[k].status # "cancelled"
          /\ label # "ack" => UNCHANGED reported
          /\ \/ UNCHANGED reported
             \/ reported' = [reported EXCEPT ![k] = "cancelled"]
    <3>1. CASE CheckBeforeLoop(w)
      BY <3>1 DEF CheckBeforeLoop
    <3>2. CASE CheckInLoop(w)
      BY <3>2 DEF CheckInLoop
    <3>3. CASE CheckAfterLoop(w)
      BY <3>3 DEF CheckAfterLoop
    <3>4. QED
      BY <1>9, <3>1, <3>2, <3>3
  <2>3. pc'[w] = label
    BY <1>4, <2>2 DEF Goto
  <2>4. label = "final" /\ rows[k].status # "cancelled" => Progress(w) = run[w].total
    <3>1. Progress(w) <= run[w].total /\ Progress(w) \in Nat /\ run[w].total \in Nat
      BY <1>1, ImportAssumption DEF RunInv, RunAccounts, Progress, TypeOK, SlotTypeOK, Counts
    <3>2. QED
      BY <2>2, <3>1
  <2>5. Progress(w)' = Progress(w)
    BY <1>1 DEF Progress
  <2>6. label \in BodyLabels =>
          /\ rows[k].status # "deleted" => Numbers(w, rows[k])'
          /\ Standing(w, rows[k])'
          /\ Stopping(w, rows[k])'
    <3>1. rows[k].status # "deleted" => Numbers(w, rows[k])'
      BY <1>1, <1>3, <2>1, <2>2, <2>3 DEF Numbers, BlankLabels, SavedLabels
    <3>2. Standing(w, rows[k])'
      BY <1>1, <1>3, <2>1, <2>2, <2>3, <2>4, <2>5 DEF Standing, EndLabels
    <3>3. label \in BodyLabels => Stopping(w, rows[k])'
      BY <1>1, <1>3, <2>1, <2>2, <2>3 DEF Stopping, EndLabels
    <3>4. QED
      BY <3>1, <3>2, <3>3
  <2>7. /\ ReportedTruly(k)'
        /\ label \in BodyLabels => reported'[k] = "none"
        /\ \A i \in JobIds \ {k} : reported'[i] = reported[i]
    BY <1>1, <1>2, <1>3, <1>4, <2>2 DEF ReportedTruly
  <2>8. k \in noticed' => rows[k].status \in {"cancelled", "failed", "deleted"}
    BY <1>3, <2>1
  <2>9. QED
    BY <1>1, <1>2, <2>1, <2>2, <2>6, <2>7, <2>8, MoveKeepsRows
<1>10. CASE Close(w)
  <2>1. pc[w] = "closing" /\ UNCHANGED <<processed, noticed>>
    BY <1>10 DEF Close
  <2>2. rows[k].status \in {"completed", "cancelled", "deleted"}
    BY <1>3, <2>1 DEF Standing
  <2>3. CASE Goto(w, "except") /\ UNCHANGED reported
    <3>1. pc'[w] = "except"
      BY <1>4, <2>3 DEF Goto
    <3>2. /\ rows[k].status # "deleted" => Numbers(w, rows[k])'
          /\ Standing(w, rows[k])'
          /\ Stopping(w, rows[k])'
      BY <1>1, <1>3, <2>1, <3>1 DEF Numbers, Standing, Stopping, BlankLabels, SavedLabels, EndLabels
    <3>3. QED
      BY <1>6, <2>1, <2>3, <3>2
  <2>4. CASE Goto(w, "ack") /\ reported' = [reported EXCEPT ![k] = "completed"]
    <3>1. /\ ReportedTruly(k)'
          /\ \A i \in JobIds \ {k} : reported'[i] = reported[i]
      BY <1>1, <1>2, <1>4, <2>2, <2>4 DEF ReportedTruly
    <3>2. QED
      BY <1>1, <1>2, <1>3, <2>1, <2>2, <2>4, <3>1, MoveKeepsRows
  <2>5. QED
    BY <1>10, <2>3, <2>4 DEF Close
<1>11. CASE MarkFailed(w)
  <2>1. /\ Goto(w, "ack") /\ UNCHANGED <<reported, noticed>>
        /\ processed' = [processed EXCEPT ![k] = "failed"]
    BY <1>11 DEF MarkFailed
  <2>2. ReportedTruly(k)'
    BY <1>1, <1>3, <2>1 DEF ReportedTruly
  <2>3. processed'[k] = "failed" /\ \A i \in JobIds \ {k} : processed'[i] = processed[i]
    BY <1>2, <1>4, <2>1
  <2>4. QED
    BY <1>1, <1>2, <1>3, <2>1, <2>2, <2>3, MoveKeepsRows
<1>12. QED
  BY <1>7, <1>8, <1>9, <1>10, <1>11

LEMMA ListingKeepsRows ==
  ASSUME RunInv, RowInv, NEW w \in Workers, ListObjects(w)
  PROVE  RowInv'
<1> DEFINE k == job[w]
<1> USE DEF tableVars, brokerVars
<1>1. /\ pc[w] = "list" /\ InBody(w)
      /\ UNCHANGED <<rows, adding, queue, processed, job, seen, sent, reported, lost, noticed>>
  BY DEF ListObjects, InBody, BodyLabels
<1>2. /\ k \in JobIds /\ processed[k] # "absent"
      /\ \A v \in Workers \ {w} : InBody(v) => job[v] # k
      /\ JobOK(k) /\ SlotOK(w)
  BY <1>1, InTheBody
<1>3. pc \in [Workers -> Labels] /\ run \in [Workers -> Counts]
  BY DEF RunInv, TypeOK, SlotTypeOK
<1>4. PICK label \in {"empty", "listed", "except"} :
        /\ Goto(w, label)
        /\ \A v \in Workers \ {w} : run'[v] = run[v]
        /\ label = "empty" => run'[w].total = 0
        /\ label # "except" => run'[w].completed = 0 /\ run'[w].failed = 0
  <2>0. run[w] = NoCounts
    BY <1>1 DEF RunInv, RunAccounts
  <2>1. CASE Goto(w, "except") /\ UNCHANGED run
    BY <2>1
  <2>2. CASE \E n \in 0..MaxFiles : /\ run' = [run EXCEPT ![w].total = n]
                                   /\ Goto(w, IF n = 0 THEN "empty" ELSE "listed")
    BY <1>3, <2>0, <2>2 DEF Counts, NoCounts
  <2>3. QED
    BY <2>1, <2>2 DEF ListObjects
<1>5. pc'[w] = label /\ \A v \in Workers \ {w} : pc'[v] = pc[v]
  BY <1>3, <1>4 DEF Goto
<1>6. SlotOK(w)'
  BY <1>1, <1>2, <1>4, <1>5 DEF SlotOK, Numbers, Standing, Loaded, Stopping, BlankLabels, SavedLabels,
     EndLabels, SaveLabels
<1>7. JobOK(k)'
  <2>1. Owned(k)'
    BY <1>1, <1>5 DEF Owned, InBody, BodyLabels, SaveLabels
  <2>2. QED
    BY <1>1, <1>2, <2>1 DEF JobOK, Complete, ReportedTruly, Unknown
<1>8. QED
  BY <1>1, <1>2, <1>4, <1>5, <1>6, <1>7, OwnStep

LEMMA BatchKeepsRows ==
  ASSUME RunInv, RowInv, NEW w \in Workers, ImportBatch(w)
  PROVE  RowInv'
<1> DEFINE k == job[w]
<1> USE DEF tableVars, brokerVars
<1>1. /\ pc[w] = "batch" /\ InBody(w)
      /\ UNCHANGED <<rows, adding, queue, processed, job, seen, reported, lost, noticed>>
  BY DEF ImportBatch, InBody, BodyLabels
<1>2. /\ k \in JobIds /\ processed[k] # "absent"
      /\ \A v \in Workers \ {w} : InBody(v) => job[v] # k
      /\ JobOK(k) /\ SlotOK(w)
  BY <1>1, InTheBody
<1>3. /\ pc \in [Workers -> Labels] /\ run \in [Workers -> Counts]
      /\ sent \in [JobIds -> Nat]
  BY DEF RunInv, TypeOK, SlotTypeOK, HistoryTypeOK
<1>4. /\ \A v \in Workers \ {w} : run'[v] = run[v]
      /\ run'[w].total = run[w].total
      /\ \A i \in JobIds \ {k} : sent'[i] = sent[i]
  BY <1>2, <1>3 DEF ImportBatch
<1>5. PICK label \in {"progress", "except"} : Goto(w, label)
  BY DEF ImportBatch
<1>6. pc'[w] = label /\ \A v \in Workers \ {w} : pc'[v] = pc[v]
  BY <1>3, <1>5 DEF Goto
<1>7. SlotOK(w)'
  BY <1>1, <1>2, <1>4, <1>6 DEF SlotOK, Numbers, Standing, Loaded, Stopping, BlankLabels, SavedLabels,
     EndLabels, SaveLabels
<1>8. JobOK(k)'
  <2>1. Owned(k)'
    BY <1>1, <1>6 DEF Owned, InBody, BodyLabels, SaveLabels
  <2>2. rows[k].status # "completed"
    BY <1>1, <1>2 DEF SlotOK, Standing, EndLabels
  <2>3. QED
    BY <1>1, <1>2, <2>1, <2>2 DEF JobOK, ReportedTruly, Unknown
<1>9. QED
  BY <1>1, <1>2, <1>4, <1>6, <1>7, <1>8, OwnStep

\* A killed slot may have sent part of its batch, which only a row that is not
\* completed can be waiting for.
LEMMA StopKeepsRows ==
  ASSUME RunInv, RowInv, NEW w \in Workers, Interruption(w)
  PROVE  RowInv'
<1>0. pc[w] # "idle" /\ job[w] \in JobIds
  BY DEF Interruption, Crash, Terminate, TimeOut, RunInv, TypeOK, SlotTypeOK
<1>1. PICK k \in JobIds : job[w] = k
  BY <1>0
<1>2. PICK n \in 0..BatchSize : Stop(w, n)
  BY DEF Interruption, Crash, Terminate, TimeOut
<1>3. /\ pc \in [Workers -> Labels] /\ job \in [Workers -> JobIds \cup {Nobody}]
      /\ sent \in [JobIds -> Nat] /\ seen \in [Workers -> Row \cup {NotLoaded}]
      /\ queue \in [JobIds -> {"absent", "queued", "held", "done"}]
  BY DEF RunInv, TypeOK, SlotTypeOK, HistoryTypeOK, BrokerTypeOK
<1>4. /\ pc'[w] = "idle" /\ job'[w] = Nobody /\ seen'[w] = NotLoaded
      /\ \A v \in Workers \ {w} : pc'[v] = pc[v] /\ job'[v] = job[v] /\ seen'[v] = seen[v]
      /\ UNCHANGED <<rows, adding, processed, run, reported, noticed>>
      /\ lost' = IF InBody(w) THEN lost \cup {k} ELSE lost
      /\ \A i \in JobIds \ {k} : sent'[i] = sent[i]
  BY <1>1, <1>2, <1>3 DEF Stop, tableVars
<1>5. pc[w] # "batch" => sent' = sent
  <2>1. pc[w] # "batch" => n = 0
    BY <1>2 DEF Stop
  <2>2. sent' = [sent EXCEPT ![k] = sent[k] + n]
    BY <1>1, <1>2 DEF Stop
  <2>3. QED
    BY <1>1, <1>3, <2>1, <2>2
<1>6. /\ \A i \in JobIds \ {k} : queue'[i] = queue[i]
      /\ queue'[k] = "absent" => queue[k] = "absent"
  BY <1>1, <1>3 DEF Interruption, Crash, Terminate, TimeOut
<1>7. SlotOK(w)'
  BY <1>4 DEF SlotOK, InBody, BodyLabels, SaveLabels
<1>8. JobOK(k) /\ SlotOK(w)
  BY <1>1 DEF RowInv
<1>9. JobOK(k)'
  <2>1. rows[k].status # "absent"
    BY <1>1, <1>8 DEF JobOK, Unknown
  <2>2. CASE InBody(w)
    <3>1. k \in lost' /\ processed[k] # "absent"
      BY <1>1, <1>4, <2>2, InTheBody
    <3>2. rows[k].status = "completed" => pc[w] # "batch"
      BY <1>1, <1>8, <2>2 DEF SlotOK, Standing, EndLabels
    <3>3. QED
      BY <1>4, <1>5, <1>8, <2>1, <3>1, <3>2 DEF JobOK, Complete, Owned, ReportedTruly
  <2>3. CASE ~InBody(w)
    <3>1. sent' = sent /\ lost' = lost
      BY <1>4, <1>5, <2>3 DEF InBody, BodyLabels
    <3>2. Owned(k) => Owned(k)'
      BY <1>1, <1>4, <2>3, <3>1 DEF Owned, InBody
    <3>3. QED
      BY <1>4, <1>8, <2>1, <3>1, <3>2 DEF JobOK, Complete, Untouched, ReportedTruly
  <2>4. QED
    BY <2>2, <2>3
<1>10. CASE InBody(w)
  <2>1. \A v \in Workers \ {w} : InBody(v) => job[v] # k
    BY <1>1, <1>10, InTheBody
  <2>2. QED
    BY <1>1, <1>4, <1>6, <1>7, <1>9, <2>1, OwnStep
<1>11. CASE ~InBody(w)
  <2>1. seen' = seen
    BY <1>2, <1>3, <1>8, <1>11 DEF Stop, SlotOK
  <2>2. sent' = sent /\ lost' = lost
    BY <1>4, <1>5, <1>11 DEF InBody, BodyLabels
  <2>3. pc'[w] \notin BodyLabels
    BY <1>4 DEF BodyLabels, SaveLabels
  <2>4. QED
    BY <1>1, <1>4, <1>6, <1>11, <2>1, <2>2, <2>3, IdleKeepsRows
<1>12. QED
  BY <1>10, <1>11

LEMMA DeliveryKeepsRows ==
  ASSUME RunInv, RowInv, NEW w \in Workers, Ack(w) \/ \E j \in JobIds : Deliver(w, j)
  PROVE  RowInv'
<1> USE DEF tableVars, historyVars
<1>1. /\ pc \in [Workers -> Labels] /\ job \in [Workers -> JobIds \cup {Nobody}]
      /\ queue \in [JobIds -> {"absent", "queued", "held", "done"}]
      /\ run \in [Workers -> Counts]
      /\ pc[w] = "ack" => job[w] \in JobIds
  BY DEF RunInv, TypeOK, SlotTypeOK, BrokerTypeOK
<1>2. CASE Ack(w)
  <2>1. /\ ~InBody(w) /\ pc'[w] \notin BodyLabels /\ job'[w] = Nobody
        /\ \A v \in Workers \ {w} : pc'[v] = pc[v] /\ job'[v] = job[v] /\ run'[v] = run[v]
        /\ \A j \in JobIds : queue[j] = "absent" /\ queue'[j] # "absent" => job[w] = j
    BY <1>1, <1>2 DEF Ack, InBody, BodyLabels, SaveLabels
  <2>2. QED
    BY <1>2, <2>1, IdleKeepsRows DEF Ack
<1>3. CASE \E j \in JobIds : Deliver(w, j)
  <2> PICK i \in JobIds : Deliver(w, i)
    BY <1>3
  <2>1. /\ ~InBody(w) /\ pc'[w] \notin BodyLabels /\ job'[w] = i /\ queue[i] = "queued"
        /\ \A v \in Workers \ {w} : pc'[v] = pc[v] /\ job'[v] = job[v] /\ run'[v] = run[v]
        /\ \A j \in JobIds : ~(queue[j] = "absent" /\ queue'[j] # "absent")
    BY <1>1 DEF Deliver, InBody, BodyLabels, SaveLabels
  <2>2. QED
    BY <2>1, IdleKeepsRows DEF Deliver
<1>4. QED
  BY <1>2, <1>3

-----------------------------------------------------------------------------
(* update_status *)

\* The columns a caller of update_status asks for.
LEMMA WantedColumns ==
  ASSUME NEW label \in SaveLabels, NEW row \in Row, NEW r \in Counts
  PROVE  LET want == Wanted(label, row, r) IN
         /\ want.status = IF label \in {"start", "listed", "progress"} THEN "running"
                          ELSE IF label = "error" THEN "failed" ELSE "completed"
         /\ want.total = IF label = "listed" THEN r.total
                         ELSE IF label = "empty" THEN 0 ELSE row.total
         /\ want.completed = IF label = "progress" THEN r.completed ELSE row.completed
         /\ want.failed = IF label = "progress" THEN r.failed ELSE row.failed
         /\ want.startedAt = row.startedAt
<1> USE DEF Row, Counts
<1>1. CASE label = "start"
  BY <1>1 DEF Wanted
<1>2. CASE label = "listed"
  BY <1>2 DEF Wanted
<1>3. CASE label = "empty"
  BY <1>3 DEF Wanted
<1>4. CASE label = "progress"
  BY <1>4 DEF Wanted
<1>5. CASE label = "finish"
  BY <1>5 DEF Wanted
<1>6. CASE label = "error"
  BY <1>6 DEF Wanted
<1>7. QED
  BY <1>1, <1>2, <1>3, <1>4, <1>5, <1>6 DEF SaveLabels

LEMMA LoadKeepsRows ==
  ASSUME RunInv, RowInv, NEW w \in Workers, SaveLoad(w)
  PROVE  RowInv'
<1> DEFINE k == job[w]
<1> USE DEF tableVars, brokerVars
<1>1. /\ pc[w] \in SaveLabels /\ InBody(w) /\ seen[w] = NotLoaded
      /\ UNCHANGED <<rows, adding, queue, processed, job, run, sent, lost, noticed>>
  BY DEF SaveLoad, InBody, BodyLabels
<1>2. /\ k \in JobIds /\ processed[k] # "absent" /\ rows[k].status # "absent"
      /\ \A v \in Workers \ {w} : InBody(v) => job[v] # k
      /\ JobOK(k) /\ SlotOK(w)
  BY <1>1, InTheBody
<1>3. /\ pc \in [Workers -> Labels] /\ seen \in [Workers -> Row \cup {NotLoaded}]
      /\ reported \in [JobIds -> {"none", "completed", "failed", "cancelled"}]
  BY DEF RunInv, TypeOK, SlotTypeOK, HistoryTypeOK
<1>4. CASE Exists(k)
  <2>1. /\ seen'[w] = rows[k] /\ UNCHANGED <<pc, reported>>
        /\ \A v \in Workers \ {w} : seen'[v] = seen[v]
    BY <1>3, <1>4 DEF SaveLoad
  <2>2. SlotOK(w)'
    BY <1>1, <1>2, <2>1 DEF SlotOK, Numbers, Standing, Loaded, Stopping, JobOK, InBody, Progress
  <2>3. JobOK(k)'
    BY <1>1, <1>2, <2>1 DEF JobOK, Complete, Owned, ReportedTruly, InBody
  <2>4. QED
    BY <1>1, <1>2, <2>1, <2>2, <2>3, OwnStep
<1>5. CASE ~Exists(k)
  <2>1. /\ pc' = [pc EXCEPT ![w] = After[pc[w]]] /\ Report(w) /\ UNCHANGED seen
    BY <1>5 DEF SaveLoad
  <2>2. rows[k].status = "deleted"
    BY <1>1, <1>2, <1>5 DEF SlotOK, Standing, Exists, Live
  <2>3. /\ pc'[w] = After[pc[w]] /\ \A v \in Workers \ {w} : pc'[v] = pc[v]
    BY <1>3, <2>1
  <2>4. /\ pc[w] = "start" => pc'[w] = "announce"
        /\ pc[w] = "listed" => pc'[w] = "dirs"
        /\ pc[w] = "empty" => pc'[w] = "ack"
        /\ pc[w] = "progress" => pc'[w] = "check"
        /\ pc[w] = "finish" => pc'[w] = "closing"
        /\ pc[w] = "error" => pc'[w] = "ack"
    BY <2>3 DEF After
  <2>5. /\ reported' = IF pc[w] = "error" THEN [reported EXCEPT ![k] = "failed"] ELSE reported
        /\ \A i \in JobIds \ {k} : reported'[i] = reported[i]
        /\ reported'[k] \in {reported[k], "failed"}
        /\ pc[w] # "error" => reported' = reported
    BY <1>2, <1>3, <2>1 DEF Report
  <2>6. SlotOK(w)'
    BY <1>1, <1>2, <2>1, <2>2, <2>4, <2>5 DEF SlotOK, Standing, Loaded, Stopping,
       EndLabels, SaveLabels, InBody, BodyLabels
  <2>7. JobOK(k)'
    BY <1>1, <1>2, <2>2, <2>5 DEF JobOK, ReportedTruly, SlotOK
  <2>8. QED
    BY <1>1, <1>2, <2>1, <2>3, <2>5, <2>6, <2>7, OwnStep
<1>6. QED
  BY <1>4, <1>5

LEMMA FlushKeepsRows ==
  ASSUME RunInv, RowInv, NEW w \in Workers, SaveFlush(w)
  PROVE  RowInv'
<1> DEFINE k == job[w]
<1> USE DEF tableVars, brokerVars
<1>1. /\ pc[w] \in SaveLabels /\ InBody(w) /\ seen[w] # NotLoaded
      /\ UNCHANGED <<adding, queue, processed, job, run, sent, lost, noticed>>
  BY DEF SaveFlush, InBody, BodyLabels
<1>2. /\ k \in JobIds /\ processed[k] # "absent" /\ rows[k].status # "absent"
      /\ \A v \in Workers \ {w} : InBody(v) => job[v] # k
      /\ JobOK(k) /\ SlotOK(w)
  BY <1>1, InTheBody
<1>3. /\ pc \in [Workers -> Labels] /\ seen \in [Workers -> Row \cup {NotLoaded}]
      /\ run \in [Workers -> Counts] /\ rows \in [JobIds -> Row]
      /\ reported \in [JobIds -> {"none", "completed", "failed", "cancelled"}]
  BY DEF RunInv, TypeOK, SlotTypeOK, HistoryTypeOK, TableTypeOK
<1>4. seen'[w] = NotLoaded /\ \A v \in Workers \ {w} : seen'[v] = seen[v]
  BY <1>3 DEF SaveFlush
<1>5. CASE ~Exists(k)
  <2>1. /\ pc' = [pc EXCEPT ![w] = OnError[pc[w]]] /\ UNCHANGED <<rows, reported>>
    BY <1>5 DEF SaveFlush
  <2>2. rows[k].status = "deleted"
    BY <1>1, <1>2, <1>5 DEF SlotOK, Standing, Exists, Live
  <2>3. /\ pc'[w] \in {"mark", "except"} /\ \A v \in Workers \ {w} : pc'[v] = pc[v]
    BY <1>1, <1>3, <2>1 DEF OnError, SaveLabels
  <2>4. SlotOK(w)'
    BY <1>1, <1>2, <1>4, <2>1, <2>2, <2>3 DEF SlotOK, Standing, Loaded, Stopping,
       EndLabels, SaveLabels, InBody, BodyLabels
  <2>5. JobOK(k)'
    BY <1>1, <1>2, <2>1, <2>2 DEF JobOK, ReportedTruly
  <2>6. QED
    BY <1>1, <1>2, <1>4, <2>1, <2>3, <2>4, <2>5, OwnStep
<1>6. CASE Exists(k)
  <2> DEFINE now  == rows[k]
             row  == seen[w]
             want == Wanted(pc[w], row, run[w])
             new  == Written(now, row, want)
  <2>1. /\ rows' = [rows EXCEPT ![k] = new]
        /\ pc' = [pc EXCEPT ![w] = After[pc[w]]]
        /\ Report(w)
    BY <1>6 DEF SaveFlush
  <2>2. now \in Row /\ row \in Row /\ run[w] \in Counts /\ want \in Row
    BY <1>1, <1>2, <1>3, WantedIsRow
  <2>3. /\ now.status # "deleted" /\ now.status \in {row.status, "cancelled"}
        /\ now.total = row.total /\ now.completed = row.completed
        /\ now.failed = row.failed /\ now.startedAt = row.startedAt
        /\ now.startedAt = "null"
    BY <1>1, <1>2, <1>6 DEF SlotOK, Loaded, JobOK, Exists, Live
  <2>4. /\ rows'[k] = new
        /\ \A i \in JobIds \ {k} : rows'[i] = rows[i]
    BY <1>2, <1>3, <2>1
  <2>5. /\ pc'[w] = After[pc[w]] /\ \A v \in Workers \ {w} : pc'[v] = pc[v]
    BY <1>3, <2>1
  <2>6. /\ pc[w] = "start" => pc'[w] = "announce"
        /\ pc[w] = "listed" => pc'[w] = "dirs"
        /\ pc[w] = "empty" => pc'[w] = "ack"
        /\ pc[w] = "progress" => pc'[w] = "check"
        /\ pc[w] = "finish" => pc'[w] = "closing"
        /\ pc[w] = "error" => pc'[w] = "ack"
    BY <2>5 DEF After
  <2>7. /\ \A i \in JobIds \ {k} : reported'[i] = reported[i]
        /\ pc[w] # "error" => reported'[k] = reported[k]
        /\ pc[w] = "error" => reported'[k] = "failed"
    BY <1>2, <1>3, <2>1 DEF Report
  <2>8. /\ want.status = IF pc[w] \in {"start", "listed", "progress"} THEN "running"
                         ELSE IF pc[w] = "error" THEN "failed" ELSE "completed"
        /\ want.total = IF pc[w] = "listed" THEN run[w].total
                        ELSE IF pc[w] = "empty" THEN 0 ELSE row.total
        /\ want.completed = IF pc[w] = "progress" THEN run[w].completed ELSE row.completed
        /\ want.failed = IF pc[w] = "progress" THEN run[w].failed ELSE row.failed
        /\ want.startedAt = row.startedAt
    BY <1>1, <2>2, WantedColumns
  <2>9. /\ rows'[k].total = want.total /\ rows'[k].completed = want.completed
        /\ rows'[k].failed = want.failed /\ rows'[k].startedAt = "null"
        /\ rows'[k].status = IF want.status = row.status THEN now.status ELSE want.status
    \* The row was only cancelled since it was loaded: it gets the counts asked for, and
    \* the status too unless that was the one loaded.
    <3>0. new = Written(now, row, want)
      OBVIOUS
    <3> HIDE DEF now, row, want, new
    <3>1. /\ new.total = want.total /\ new.completed = want.completed
          /\ new.failed = want.failed /\ new.startedAt = want.startedAt
          /\ new.status = IF want.status = row.status THEN now.status ELSE want.status
      BY <2>3, <3>0 DEF Written, Column
    <3>2. QED
      BY <2>3, <2>4, <2>8, <3>1
  <2> HIDE DEF now, row, want, new
  <2>10. /\ now.status \in {"pending", "running", "cancelled", "completed"}
         /\ now.status = "completed" => pc[w] = "error"
         /\ Numbers(w, now) /\ Stopping(w, now) /\ Standing(w, now)
         /\ reported[k] = "none" /\ k \notin lost
         /\ k \in noticed => now.status \in {"cancelled", "failed", "deleted"} /\ pc[w] \in {"finish", "error"}
         /\ ~(k \in noticed /\ pc[w] = "finish")
    BY <1>1, <1>2, <2>3 DEF SlotOK, Standing, EndLabels, SaveLabels, Stopping, JobOK, now
  <2>11. rows'[k].status \in
           IF pc[w] \in {"start", "listed", "progress"} THEN {"running", "cancelled"}
           ELSE IF pc[w] = "error" THEN {"failed", "cancelled"} ELSE {"completed", "cancelled"}
    BY <2>3, <2>8, <2>9
  <2>12. SlotOK(w)'
    <3>1. Numbers(w, rows[k])'
      BY <1>1, <2>3, <2>6, <2>8, <2>9, <2>10 DEF Numbers, Standing, BlankLabels, SavedLabels, SaveLabels
    <3>2. InBody(w)' => Standing(w, rows[k])'
      BY <1>1, <2>6, <2>11 DEF Standing, EndLabels, SaveLabels, InBody, BodyLabels
    <3>3. InBody(w)' => Stopping(w, rows[k])'
      BY <1>1, <2>6, <2>10 DEF Stopping, EndLabels, SaveLabels, InBody, BodyLabels
    <3>4. InBody(w)' => reported'[k] = "none"
      BY <2>6, <2>7, <2>10 DEF InBody, BodyLabels, SaveLabels
    <3>5. QED
      BY <1>1, <1>4, <2>10, <3>1, <3>2, <3>3, <3>4 DEF SlotOK, Loaded
  <2>13. JobOK(k)'
    <3>1. rows'[k].status = "completed" => Complete(k)'
      <4> SUFFICES ASSUME rows'[k].status = "completed" PROVE Complete(k)'
        OBVIOUS
      <4>1. pc[w] \in {"empty", "finish"}
        BY <1>1, <2>11 DEF SaveLabels
      <4>2. sent[k] = Progress(w) /\ Progress(w) <= run[w].total
        BY <1>1 DEF RunInv, RunAccounts
      <4>3. CASE pc[w] = "finish"
        <5>1. Progress(w) = run[w].total
          BY <2>10, <4>3, <2>3 DEF Standing
        <5>2. QED
          BY <1>1, <2>3, <2>8, <2>9, <2>10, <4>2, <4>3, <5>1 DEF Complete, Numbers, SavedLabels, Progress
      <4>4. CASE pc[w] = "empty"
        <5>1. run[w].total = 0 /\ Progress(w) \in Nat
          BY <2>2, <2>10, <4>4 DEF Standing, Progress, Counts
        <5>2. sent[k] = 0
          BY <4>2, <5>1
        <5>3. QED
          BY <1>1, <2>3, <2>8, <2>9, <2>10, <4>4, <5>2 DEF Complete, Numbers, BlankLabels
      <4>5. QED
        BY <4>1, <4>3, <4>4
    <3>2. rows'[k].status = "running" => Owned(k)'
      BY <1>1, <2>6, <2>11 DEF Owned, InBody, BodyLabels, SaveLabels
    <3>3. ReportedTruly(k)'
      BY <1>1, <2>7, <2>10, <2>11 DEF ReportedTruly
    <3>4. k \in noticed' => rows'[k].status \in {"cancelled", "failed", "deleted"}
      BY <1>1, <2>10, <2>11
    <3>5. rows'[k].status # "absent"
      BY <2>11
    <3>6. QED
      BY <1>1, <1>2, <2>9, <3>1, <3>2, <3>3, <3>4, <3>5 DEF JobOK
  <2>14. QED
    BY <1>1, <1>2, <1>4, <2>4, <2>5, <2>7, <2>12, <2>13, OwnStep
<1>7. QED
  BY <1>5, <1>6

-----------------------------------------------------------------------------
(* The invariant and what it implies *)

LEMMA RowInvStep == RunInv /\ RowInv /\ [Next]_vars => RowInv'
<1> SUFFICES ASSUME RunInv, RowInv, [Next]_vars PROVE RowInv'
  OBVIOUS
<1>1. CASE UNCHANGED vars
  BY <1>1, RestatedKeepsRows DEF vars, slotVars, historyVars, Restated
<1>2. ASSUME NEW w \in Workers, WorkerStep(w) PROVE RowInv'
  BY <1>2, MovesKeepRows, ClaimKeepsRows, ListingKeepsRows, BatchKeepsRows, LoadKeepsRows,
     FlushKeepsRows, DeliveryKeepsRows DEF WorkerStep
<1>3. QED
  BY <1>1, <1>2, WebKeepsRows, QueueKeepsRows, StopKeepsRows, DeliveryKeepsRows DEF Next

LEMMA RowInvariant == Spec => [](RunInv /\ RowInv)
<1>1. Init => RowInv
  BY ImportAssumption DEF Init, RowInv, JobOK, SlotOK, Vacant, Unknown, Untouched, ReportedTruly, InBody,
     BodyLabels, SaveLabels
<1>2. QED
  BY <1>1, RowInvStep, RunInvariant, PTL DEF Spec

\* A row that says completed accounts for every file that was listed, all of them
\* handed to LucidLink, whatever the user and the redeliveries do in between.
THEOREM CompletedAccounts == Spec => []CompletedAccountsForAll
<1>1. RowInv => CompletedAccountsForAll
  BY DEF RowInv, JobOK, Complete, CompletedAccountsForAll
<1>2. QED
  BY <1>1, RowInvariant, PTL

\* The activity log's last word on a job agrees with its row.
THEOREM ReportsAgree == Spec => []ReportAgrees
<1>1. RowInv => ReportAgrees
  BY DEF RowInv, JobOK, ReportedTruly, ReportAgrees
<1>2. QED
  BY <1>1, RowInvariant, PTL

\* No path through import_job forgets a running row, except a kill and an exception
\* that processed_jobs records.
THEOREM RunningOwned == Spec => []RunningHasOwner
<1>1. RowInv => RunningHasOwner
  BY DEF RowInv, JobOK, Owned, RunningHasOwner
<1>2. QED
  BY <1>1, RowInvariant, PTL

-----------------------------------------------------------------------------
(* What a step may never do *)

\* Who writes a row: its user, or the one slot in the body of its job.
LEMMA RowWriters ==
  ASSUME RunInv, RowInv, [Next]_vars, NEW j \in JobIds
  PROVE  \/ rows'[j] = rows[j]
         \/ /\ rows[j].status \in Live
            /\ \/ rows'[j] = [rows[j] EXCEPT !.status = "cancelled"]
               \/ rows'[j] = [rows[j] EXCEPT !.status = "deleted"]
         \/ rows[j].status = "absent"
         \/ /\ rows[j].status \in Live
            /\ \E w \in Workers : job[w] = j /\ InBody(w)
<1> USE DEF tableVars, brokerVars, historyVars
<1>1. rows \in [JobIds -> Row] /\ rows[j].startedAt = "null"
  BY DEF RunInv, TypeOK, TableTypeOK, RowInv, JobOK
<1>2. CASE UNCHANGED vars
  BY <1>2 DEF vars
<1>3. CASE UserStep
  BY <1>1, <1>3 DEF UserStep, AddJob, Cancel, Delete, ClearHistory, Exists, Live, Terminal
<1>4. CASE TimeoutStale
  BY <1>1, <1>4 DEF TimeoutStale
<1>5. CASE \E i \in JobIds : Enqueue(i) \/ NoDispatch(i) \/ GiveUp(i) \/ LeaseExpires(i)
  BY <1>5 DEF Enqueue, NoDispatch, GiveUp, LeaseExpires
<1>6. ASSUME NEW w \in Workers, SaveFlush(w)
      PROVE  rows'[j] = rows[j] \/ (rows[j].status \in Live /\ job[w] = j /\ InBody(w))
  BY <1>1, <1>6 DEF SaveFlush, InBody, BodyLabels, Exists
<1>7. ASSUME NEW w \in Workers, WorkerStep(w) \/ Interruption(w), ~SaveFlush(w)
      PROVE  rows' = rows
  BY <1>7 DEF WorkerStep, SaveLoad, Claim, GetJob, Announce, LoadCredentials, ListObjects,
     MakeDirectories, CheckBeforeLoop, CheckInLoop, ImportBatch, CheckAfterLoop, Close,
     HandleException, MarkFailed, Ack, Interruption, Crash, Terminate, TimeOut, Stop
<1>8. CASE \E w \in Workers, i \in JobIds : Deliver(w, i)
  BY <1>8 DEF Deliver
<1>9. QED
  BY <1>2, <1>3, <1>4, <1>5, <1>6, <1>7, <1>8 DEF Next

\* Who sends files: the one slot in the body of the job, at its batch.
LEMMA Senders ==
  ASSUME RunInv, [Next]_vars, NEW j \in JobIds,
         \A w \in Workers : job[w] = j => pc[w] # "batch"
  PROVE  sent'[j] = sent[j]
<1> USE DEF tableVars, brokerVars, slotVars, historyVars
<1>1. sent \in [JobIds -> Nat]
  BY DEF RunInv, TypeOK, HistoryTypeOK
<1>2. ASSUME NEW w \in Workers, ImportBatch(w) PROVE sent'[j] = sent[j]
  BY <1>1, <1>2 DEF ImportBatch
<1>3. ASSUME NEW w \in Workers, Interruption(w) PROVE sent'[j] = sent[j]
  <2>1. PICK k \in 0..BatchSize : Stop(w, k)
    BY <1>3 DEF Interruption, Crash, Terminate, TimeOut
  <2>2. sent' = [sent EXCEPT ![job[w]] = @ + k] /\ (pc[w] # "batch" => k = 0)
    BY <2>1 DEF Stop
  <2>3. QED
    BY <1>1, <2>2
<1>4. ASSUME ~\E w \in Workers : ImportBatch(w) \/ Interruption(w)
      PROVE  sent' = sent
  BY <1>4 DEF Next, vars, UserStep, AddJob, Cancel, Delete, ClearHistory, TimeoutStale, Enqueue,
     NoDispatch, GiveUp, LeaseExpires, Deliver, WorkerStep, SaveLoad, SaveFlush, Claim, GetJob,
     Announce, LoadCredentials, ListObjects, MakeDirectories, CheckBeforeLoop, CheckInLoop,
     CheckAfterLoop, Close, HandleException, MarkFailed, Ack
<1>5. QED
  BY <1>2, <1>3, <1>4

\* Only a re-read of the row adds to what was noticed.
LEMMA NoticedGrows == [Next]_vars => noticed \subseteq noticed'
BY DEF Next, vars, UserStep, AddJob, Cancel, Delete, ClearHistory, TimeoutStale, Enqueue,
   NoDispatch, GiveUp, LeaseExpires, Deliver, WorkerStep, SaveLoad, SaveFlush, Claim, GetJob,
   Announce, LoadCredentials, ListObjects, MakeDirectories, CheckBeforeLoop, CheckInLoop,
   ImportBatch, CheckAfterLoop, Close, HandleException, MarkFailed, Ack, Interruption, Crash,
   Terminate, TimeOut, Stop, Reread, tableVars, brokerVars, slotVars, historyVars

\* A removed row never comes back, not even under a worker that had loaded it.
THEOREM RemovedRemains == Spec => RemovedStaysRemoved
<1>1. RunInv /\ RowInv /\ [Next]_vars
      => [\A j \in JobIds : rows[j].status = "deleted" => rows'[j] = rows[j]]_vars
  <2> SUFFICES ASSUME RunInv, RowInv, [Next]_vars, NEW j \in JobIds, rows[j].status = "deleted"
               PROVE  rows'[j] = rows[j]
    OBVIOUS
  <2>1. QED
    BY RowWriters DEF Live
<1>2. QED
  BY <1>1, RowInvariant, PTL DEF Spec, RemovedStaysRemoved

\* A row whose run was killed or has reported is its user's alone: no redelivery
\* resumes it.
THEOREM SettledIsAlone == Spec => SettledRowIsLeftAlone
<1> DEFINE Left(j) ==
             \/ rows'[j] = rows[j]
             \/ rows'[j] = [rows[j] EXCEPT !.status = "cancelled"]
             \/ rows'[j] = [rows[j] EXCEPT !.status = "deleted"]
             \/ /\ rows[j].status = "running"
                /\ rows'[j] = [rows[j] EXCEPT !.status = "failed"]
<1>1. RunInv /\ RowInv /\ [Next]_vars
      => [\A j \in JobIds : (j \in lost \/ reported[j] # "none") => Left(j)]_vars
  <2> SUFFICES ASSUME RunInv, RowInv, [Next]_vars, NEW j \in JobIds,
                      j \in lost \/ reported[j] # "none"
               PROVE  Left(j)
    OBVIOUS
  <2>1. \A w \in Workers : job[w] = j => ~InBody(w)
    BY DEF RowInv, SlotOK
  <2>2. rows[j].status # "absent"
    BY DEF RowInv, JobOK, Unknown, Untouched
  <2>3. QED
    BY <2>1, <2>2, RowWriters
<1>2. QED
  BY <1>1, RowInvariant, PTL DEF Spec, SettledRowIsLeftAlone

\* Once a re-read has found the cancellation no file is sent, and no save shows the
\* job running or completed again.
THEOREM NoticedCancelStops == Spec => NoticedCancelStopsTheRun
<1>1. RunInv /\ RowInv /\ RowInv' /\ [Next]_vars
      => [\A j \in noticed :
            /\ sent'[j] = sent[j]
            /\ rows'[j].status \in {"cancelled", "failed", "deleted"}]_vars
  <2> SUFFICES ASSUME RunInv, RowInv, RowInv', [Next]_vars, NEW j \in noticed
               PROVE  /\ sent'[j] = sent[j]
                      /\ rows'[j].status \in {"cancelled", "failed", "deleted"}
    OBVIOUS
  <2>1. j \in JobIds /\ j \in noticed'
    BY NoticedGrows DEF RunInv, TypeOK, HistoryTypeOK
  <2>2. rows'[j].status \in {"cancelled", "failed", "deleted"}
    BY <2>1 DEF RowInv, JobOK
  <2>3. \A w \in Workers : job[w] = j => pc[w] # "batch"
    BY DEF RowInv, SlotOK, Stopping, EndLabels, InBody, BodyLabels
  <2>4. QED
    BY <2>1, <2>2, <2>3, Senders
<1>2. QED
  BY <1>1, RowInvariant, PTL DEF Spec, NoticedCancelStopsTheRun

-----------------------------------------------------------------------------
(* Rows that wait.  A row only says pending before the start of its run is   *)
(* saved; until then add_job, ARQ or the slot that claimed the job has it.   *)

Awaited(j) ==
  \/ j \in adding
  \/ processed[j] = "absent" /\ queue[j] \in {"queued", "held"}
  \/ \E w \in Workers : job[w] = j /\ pc[w] \in {"get", "start"}
  \/ j \in lost
  \/ j \in undelivered

\* ARQ does not know a job that add_job has not enqueued yet.
NotYetSent(j) ==
  j \in adding => /\ queue[j] = "absent" /\ processed[j] = "absent"
                  /\ \A w \in Workers : job[w] # j

\* A slot that returns has seen the claim, its own or another's; one past the start of
\* its run finds no pending row.
Past(w) ==
  /\ pc[w] = "ack" => processed[job[w]] # "absent"
  /\ InBody(w) /\ pc[w] \notin {"get", "start"} => rows[job[w]].status # "pending"

WaitInv ==
  /\ \A j \in JobIds : rows[j].status = "pending" => Awaited(j)
  /\ \A j \in JobIds : NotYetSent(j)
  /\ \A w \in Workers : Past(w)

\* A save never leaves a row pending.
LEMMA SavesStart ==
  ASSUME RunInv, RowInv, WaitInv, NEW w \in Workers, SaveFlush(w)
  PROVE  rows'[job[w]].status # "pending"
<1> DEFINE k == job[w]
<1>1. /\ pc[w] \in SaveLabels /\ InBody(w) /\ seen[w] # NotLoaded
  BY DEF SaveFlush, InBody, BodyLabels
<1>2. /\ k \in JobIds /\ SlotOK(w) /\ Past(w)
  BY <1>1, InTheBody DEF WaitInv
<1>3. /\ seen \in [Workers -> Row \cup {NotLoaded}] /\ run \in [Workers -> Counts]
      /\ rows \in [JobIds -> Row]
  BY DEF RunInv, TypeOK, SlotTypeOK, TableTypeOK
<1>4. CASE ~Exists(k)
  BY <1>4 DEF SaveFlush, Exists, Live
<1>5. CASE Exists(k)
  <2> DEFINE want == Wanted(pc[w], seen[w], run[w])
  <2>1. rows'[k].status = Column(rows[k].status, seen[w].status, want.status)
    BY <1>2, <1>3, <1>5 DEF SaveFlush, Written
  <2>2. want.status \in {"running", "failed", "completed"}
        /\ (pc[w] = "start" => want.status = "running")
    BY <1>1, <1>3, WantedColumns
  <2>3. rows[k].status \in {seen[w].status, "cancelled"}
    BY <1>1, <1>2, <1>5 DEF SlotOK, Loaded, Exists, Live
  <2>4. QED
    BY <1>1, <1>2, <2>1, <2>2, <2>3 DEF Column, Past
<1>6. QED
  BY <1>4, <1>5

\* Only add_job makes a row pending.
LEMMA PendingRows ==
  ASSUME RunInv, RowInv, WaitInv, [Next]_vars, NEW j \in JobIds, rows'[j].status = "pending"
  PROVE  rows[j].status = "pending" \/ (AddJob(j) /\ j \in adding')
<1> USE DEF tableVars
<1>1. rows \in [JobIds -> Row]
  BY DEF RunInv, TypeOK, TableTypeOK
<1>2. CASE UNCHANGED rows
  BY <1>2
<1>3. ASSUME NEW i \in JobIds, AddJob(i)
      PROVE  rows[j].status = "pending" \/ (AddJob(j) /\ j \in adding')
  BY <1>1, <1>3 DEF AddJob
<1>4. CASE TimeoutStale \/ ClearHistory \/ \E i \in JobIds : Cancel(i) \/ Delete(i)
  BY <1>1, <1>4 DEF TimeoutStale, ClearHistory, Cancel, Delete, Row
<1>5. ASSUME NEW w \in Workers, SaveFlush(w) PROVE rows[j].status = "pending"
  <2>1. job[w] # j
    BY <1>5, SavesStart
  <2>2. QED
    BY <1>1, <1>5, <2>1 DEF SaveFlush
<1>6. CASE ~(TimeoutStale \/ UserStep \/ \E w \in Workers : SaveFlush(w))
  <2>1. UNCHANGED rows
    BY <1>6 DEF Next, vars, Enqueue, NoDispatch, GiveUp, LeaseExpires, Deliver, WorkerStep,
       SaveLoad, Claim, GetJob, Announce, LoadCredentials, ListObjects, MakeDirectories,
       CheckBeforeLoop, CheckInLoop, ImportBatch, CheckAfterLoop, Close, HandleException,
       MarkFailed, Ack, Interruption, Crash, Terminate, TimeOut, Stop
  <2>2. QED
    BY <1>2, <2>1
<1>7. QED
  BY <1>3, <1>4, <1>5, <1>6 DEF UserStep

\* A step of one slot leaves the others where they are.
LEMMA OtherSlots ==
  ASSUME TypeOK, NEW w \in Workers, WorkerStep(w) \/ Interruption(w) \/ \E j \in JobIds : Deliver(w, j),
         NEW v \in Workers, v # w
  PROVE  pc'[v] = pc[v] /\ job'[v] = job[v]
BY DEF TypeOK, SlotTypeOK, Deliver, WorkerStep, SaveLoad, SaveFlush, Claim, GetJob, Announce,
   LoadCredentials, ListObjects, MakeDirectories, CheckBeforeLoop, CheckInLoop, ImportBatch,
   CheckAfterLoop, Close, HandleException, MarkFailed, Ack, Interruption, Crash, Terminate,
   TimeOut, Stop, Goto

\* A claim is never taken back, a death never forgotten.
LEMMA ClaimsStay ==
  ASSUME TypeOK, [Next]_vars
  PROVE  /\ \A j \in JobIds : processed[j] # "absent" => processed'[j] # "absent"
         /\ lost \subseteq lost' /\ undelivered \subseteq undelivered'
         /\ \A j \in JobIds : processed[j] = "absent" /\ processed'[j] # "absent" =>
              \E w \in Workers : job[w] = j /\ (Claim(w) \/ MarkFailed(w))
BY DEF TypeOK, TableTypeOK, Next, vars, UserStep, AddJob, Cancel, Delete, ClearHistory,
   TimeoutStale, Enqueue,
   NoDispatch, GiveUp, LeaseExpires, Deliver, WorkerStep, SaveLoad, SaveFlush, Claim, GetJob,
   Announce, LoadCredentials, ListObjects, MakeDirectories, CheckBeforeLoop, CheckInLoop,
   ImportBatch, CheckAfterLoop, Close, HandleException, MarkFailed, Ack, Interruption, Crash,
   Terminate, TimeOut, Stop, Dropped, tableVars, brokerVars, slotVars, historyVars

LEMMA NotYetSentStep ==
  ASSUME RunInv, RowInv, WaitInv, [Next]_vars, NEW j \in JobIds
  PROVE  NotYetSent(j)'
<1> USE DEF tableVars, brokerVars, slotVars
<1>1. /\ queue \in [JobIds -> {"absent", "queued", "held", "done"}]
      /\ job \in [Workers -> JobIds \cup {Nobody}] /\ Nobody # j
  BY ImportAssumption DEF RunInv, TypeOK, BrokerTypeOK, SlotTypeOK
<1>2. ASSUME NEW i \in JobIds, AddJob(i) PROVE NotYetSent(j)'
  <2>1. rows[i].status = "absent" => Unknown(i)
    BY DEF RowInv, JobOK
  <2>2. QED
    BY <1>2, <2>1 DEF AddJob, Unknown, NotYetSent, WaitInv
<1>3. ASSUME j \in adding, j \in adding' PROVE NotYetSent(j)'
  <2>1. queue[j] = "absent" /\ processed[j] = "absent" /\ \A w \in Workers : job[w] # j
    BY <1>3 DEF WaitInv, NotYetSent
  <2>2. processed'[j] = "absent"
    BY <2>1, ClaimsStay DEF RunInv, TypeOK, TableTypeOK
  <2>3. queue'[j] = "absent" /\ \A w \in Workers : job'[w] # j
    BY <1>1, <1>3, <2>1 DEF Next, vars, UserStep, AddJob, Cancel, Delete, ClearHistory,
       TimeoutStale, Enqueue, NoDispatch, GiveUp, LeaseExpires, Deliver, WorkerStep, SaveLoad,
       SaveFlush, Claim, GetJob, Announce, LoadCredentials, ListObjects, MakeDirectories,
       CheckBeforeLoop, CheckInLoop, ImportBatch, CheckAfterLoop, Close, HandleException,
       MarkFailed, Ack, Interruption, Crash, Terminate, TimeOut, Stop
  <2>4. QED
    BY <2>2, <2>3 DEF NotYetSent
<1>4. ASSUME ~\E i \in JobIds : AddJob(i) PROVE adding' \subseteq adding
  BY <1>4 DEF Next, vars, UserStep, Cancel, Delete, ClearHistory, TimeoutStale, Enqueue,
     NoDispatch, GiveUp, LeaseExpires, Deliver, WorkerStep, SaveLoad, SaveFlush, Claim, GetJob,
     Announce, LoadCredentials, ListObjects, MakeDirectories, CheckBeforeLoop, CheckInLoop,
     ImportBatch, CheckAfterLoop, Close, HandleException, MarkFailed, Ack, Interruption, Crash,
     Terminate, TimeOut, Stop
<1>5. QED
  BY <1>2, <1>3, <1>4 DEF NotYetSent

\* Steps outside the slots leave them where they are.
LEMMA SlotsStand ==
  ASSUME UserStep \/ TimeoutStale \/ UNCHANGED vars
         \/ \E j \in JobIds : Enqueue(j) \/ NoDispatch(j) \/ GiveUp(j) \/ LeaseExpires(j)
  PROVE  UNCHANGED <<pc, job, run, seen, processed>>
BY DEF UserStep, AddJob, Cancel, Delete, ClearHistory, TimeoutStale, vars, Enqueue, NoDispatch,
   GiveUp, LeaseExpires, slotVars

LEMMA PastStep ==
  ASSUME RunInv, RowInv, WaitInv, [Next]_vars, NEW w \in Workers
  PROVE  Past(w)'
<1> USE DEF tableVars, brokerVars
<1>1. TypeOK /\ Past(w) /\ pc \in [Workers -> Labels] /\ (pc[w] # "idle" => job[w] \in JobIds)
  BY DEF RunInv, TypeOK, SlotTypeOK, WaitInv
\* A job that is in the body of a slot has been added, so no pending row of it is new.
<1>2. ASSUME InBody(w), rows'[job[w]].status = "pending" PROVE rows[job[w]].status = "pending"
  BY <1>2, InTheBody, PendingRows DEF AddJob
<1>3. CASE pc'[w] = pc[w] /\ job'[w] = job[w]
  <2>1. pc[w] = "ack" => processed'[job[w]] # "absent"
    BY <1>1, <1>3, ClaimsStay DEF Past
  <2>2. InBody(w) /\ pc[w] \notin {"get", "start"} => rows'[job[w]].status # "pending"
    BY <1>1, <1>2 DEF Past
  <2>3. QED
    BY <1>3, <2>1, <2>2 DEF Past, InBody
<1>4. CASE Claim(w)
  <2>1. /\ pc'[w] \in {"get", "ack"} /\ job' = job
        /\ pc'[w] = "ack" => processed'[job[w]] # "absent"
    BY <1>1, <1>4 DEF Claim, Goto
  <2>2. QED
    BY <2>1 DEF Past, InBody, BodyLabels, SaveLabels
<1>5. ASSUME WorkerStep(w), ~Claim(w), ~Ack(w) PROVE Past(w)'
  <2>1. InBody(w) /\ job' = job
    BY <1>5 DEF WorkerStep, SaveLoad, SaveFlush, GetJob, Announce, LoadCredentials, ListObjects,
       MakeDirectories, CheckBeforeLoop, CheckInLoop, ImportBatch, CheckAfterLoop, Close,
       HandleException, MarkFailed, InBody, BodyLabels
  <2>2. processed'[job[w]] # "absent"
    BY <1>1, <2>1, InTheBody, ClaimsStay
  <2>3. ASSUME rows'[job[w]].status = "pending"
        PROVE  pc'[w] \notin BodyLabels \/ pc'[w] \in {"get", "start"}
    <3>1. rows[job[w]].status = "pending" /\ Exists(job[w])
      BY <1>2, <2>1, <2>3 DEF Exists, Live
    <3>2. pc[w] \in {"get", "start"}
      BY <1>1, <2>1, <3>1 DEF Past
    <3>3. ~SaveFlush(w)
      BY <2>3, SavesStart
    <3>4. GetJob(w) \/ SaveLoad(w)
      BY <1>5, <3>2, <3>3 DEF WorkerStep, Announce, LoadCredentials, ListObjects,
         MakeDirectories, CheckBeforeLoop, CheckInLoop, ImportBatch, CheckAfterLoop, Close,
         HandleException, MarkFailed
    <3>5. QED
      BY <1>1, <3>1, <3>2, <3>4 DEF GetJob, SaveLoad, Goto
  <2>4. QED
    BY <2>1, <2>2, <2>3 DEF Past, InBody
<1>6. CASE Ack(w) \/ Interruption(w) \/ \E j \in JobIds : Deliver(w, j)
  <2>1. pc'[w] \in {"idle", "claim"}
    BY <1>1, <1>6 DEF Ack, Interruption, Crash, Terminate, TimeOut, Stop, Deliver
  <2>2. QED
    BY <2>1 DEF Past, InBody, BodyLabels, SaveLabels
<1>7. QED
  BY <1>1, <1>3, <1>4, <1>5, <1>6, OtherSlots, SlotsStand DEF Next

LEMMA AwaitedStep ==
  ASSUME RunInv, RowInv, WaitInv, [Next]_vars, NEW j \in JobIds, rows'[j].status = "pending"
  PROVE  Awaited(j)'
<1> USE DEF tableVars, brokerVars, slotVars, historyVars
<1>1. /\ TypeOK /\ lost \subseteq lost' /\ undelivered \subseteq undelivered'
      /\ queue \in [JobIds -> {"absent", "queued", "held", "done"}]
      /\ processed \in [JobIds -> {"absent", "claimed", "failed"}]
      /\ pc \in [Workers -> Labels]
  BY ClaimsStay DEF RunInv, TypeOK, BrokerTypeOK, TableTypeOK, SlotTypeOK
<1>2. CASE AddJob(j) /\ j \in adding'
  BY <1>2 DEF Awaited
<1>3. CASE rows[j].status = "pending"
  <2>1. Awaited(j)
    BY <1>3 DEF WaitInv
  <2>2. CASE j \in lost \/ j \in undelivered
    BY <1>1, <2>2 DEF Awaited
  <2>3. CASE j \in adding
    <3>1. CASE j \in adding'
      BY <3>1 DEF Awaited
    <3>2. CASE j \notin adding'
      <4>1. Enqueue(j) \/ NoDispatch(j)
        BY <2>3, <3>2 DEF Next, vars, UserStep, AddJob, Cancel, Delete, ClearHistory,
           TimeoutStale, Enqueue, NoDispatch, GiveUp, LeaseExpires, Deliver, WorkerStep,
           SaveLoad, SaveFlush, Claim, GetJob, Announce, LoadCredentials, ListObjects,
           MakeDirectories, CheckBeforeLoop, CheckInLoop, ImportBatch, CheckAfterLoop, Close,
           HandleException, MarkFailed, Ack, Interruption, Crash, Terminate, TimeOut, Stop
      <4>2. processed[j] = "absent"
        BY <2>3 DEF WaitInv, NotYetSent
      <4>3. QED
        BY <1>1, <4>1, <4>2 DEF Enqueue, NoDispatch, Awaited
    <3>3. QED
      BY <3>1, <3>2
  <2>4. CASE \E w \in Workers : job[w] = j /\ pc[w] \in {"get", "start"}
    <3> PICK w \in Workers : job[w] = j /\ pc[w] \in {"get", "start"}
      BY <2>4
    <3>1. InBody(w) /\ Exists(j)
      BY <1>3 DEF InBody, BodyLabels, SaveLabels, Exists, Live
    <3>2. CASE pc'[w] = pc[w] /\ job'[w] = job[w]
      BY <3>2 DEF Awaited
    <3>3. CASE WorkerStep(w)
      <4>1. ~SaveFlush(w)
        BY SavesStart
      <4>2. GetJob(w) \/ SaveLoad(w)
        BY <3>3, <4>1 DEF WorkerStep, Claim, Ack, Announce, LoadCredentials, ListObjects,
           MakeDirectories, CheckBeforeLoop, CheckInLoop, ImportBatch, CheckAfterLoop, Close,
           HandleException, MarkFailed
      <4>3. pc'[w] \in {"get", "start"} /\ job'[w] = j
        BY <1>1, <3>1, <4>2 DEF GetJob, SaveLoad, Goto
      <4>4. QED
        BY <4>3 DEF Awaited
    <3>4. CASE Interruption(w)
      <4>1. j \in lost'
        BY <3>1, <3>4 DEF Interruption, Crash, Terminate, TimeOut, Stop
      <4>2. QED
        BY <4>1 DEF Awaited
    <3>5. ~\E i \in JobIds : Deliver(w, i)
      BY DEF Deliver
    <3>6. QED
      BY <1>1, <3>2, <3>3, <3>4, <3>5, OtherSlots, SlotsStand DEF Next
  <2>5. CASE processed[j] = "absent" /\ queue[j] \in {"queued", "held"}
    <3>1. CASE processed'[j] # "absent"
      <4>1. PICK w \in Workers : job[w] = j /\ (Claim(w) \/ MarkFailed(w))
        BY <1>1, <2>5, <3>1, ClaimsStay
      <4>2. ~MarkFailed(w)
        BY <2>5, <4>1, InTheBody DEF MarkFailed, InBody, BodyLabels
      <4>3. job'[w] = j /\ pc'[w] = "get"
        BY <1>1, <2>5, <4>1, <4>2 DEF Claim, Goto
      <4>4. QED
        BY <4>3 DEF Awaited
    <3>2. CASE processed'[j] = "absent" /\ queue'[j] \in {"queued", "held"}
      BY <3>2 DEF Awaited
    <3>3. CASE queue'[j] \notin {"queued", "held"}
      <4>1. \A w \in Workers : job[w] = j => ~Ack(w)
        BY <2>5 DEF WaitInv, Past, Ack
      <4>2. GiveUp(j) \/ \E w \in Workers : job[w] = j /\ TimeOut(w)
        BY <1>1, <2>5, <3>3, <4>1 DEF Next, vars, UserStep, AddJob, Cancel, Delete, ClearHistory,
           TimeoutStale, Enqueue, NoDispatch, GiveUp, LeaseExpires, Deliver, WorkerStep,
           SaveLoad, SaveFlush, Claim, GetJob, Announce, LoadCredentials, ListObjects,
           MakeDirectories, CheckBeforeLoop, CheckInLoop, ImportBatch, CheckAfterLoop, Close,
           HandleException, MarkFailed, Ack, Interruption, Crash, Terminate, TimeOut, Stop
      <4>3. j \in undelivered'
        BY <2>5, <4>2 DEF GiveUp, TimeOut, Dropped
      <4>4. QED
        BY <4>3 DEF Awaited
    <3>4. QED
      BY <3>1, <3>2, <3>3
  <2>6. QED
    BY <2>1, <2>2, <2>3, <2>4, <2>5 DEF Awaited
<1>4. QED
  BY <1>2, <1>3, PendingRows

\* No path through add_job, ARQ and the claim forgets a pending row, but the ones the
\* property names: no dispatch, dropped unclaimed, killed after the claim.
THEOREM PendingOwned == Spec => []PendingHasOwner
<1>1. Init => WaitInv
  BY DEF Init, WaitInv, NotYetSent, Past, Vacant, InBody, BodyLabels, SaveLabels
<1>2. RunInv /\ RowInv /\ WaitInv /\ [Next]_vars => WaitInv'
  BY NotYetSentStep, PastStep, AwaitedStep DEF WaitInv
<1>3. WaitInv => PendingHasOwner
  BY DEF WaitInv, Awaited, PendingHasOwner
<1>4. QED
  BY <1>1, <1>2, <1>3, RowInvariant, PTL DEF Spec
=============================================================================
