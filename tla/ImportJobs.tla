----------------------------- MODULE ImportJobs -----------------------------
(***************************************************************************)
(* Bulk import jobs: the import_jobs table, the web handlers that add,     *)
(* cancel, delete and clear rows, the ARQ queue that delivers a job to a   *)
(* worker at least once, the processed_jobs claim of the @idempotent       *)
(* wrapper, and the worker's import_job, one step per database             *)
(* transaction or external call.                                           *)
(*                                                                         *)
(* A repository update is two steps, as it is in the code: the row is      *)
(* loaded (SaveLoad), and later the columns whose value differs from the   *)
(* loaded one are written and committed (SaveFlush).  Between the two      *)
(* another transaction may commit.                                         *)
(***************************************************************************)
EXTENDS Integers

CONSTANTS
  JobIds,     \* import_jobs primary keys (a serial column: never reused)
  Workers,    \* task slots of the worker processes
  MaxFiles,   \* bound: most objects S3 lists under one prefix
  BatchSize,  \* files per asyncio.gather
  MaxTries,   \* bound: ARQ's max_tries
  Nobody,     \* the job of an idle slot
  NotLoaded   \* no row is held in the session's identity map

ASSUME ImportAssumption ==
  /\ MaxFiles \in Nat
  /\ BatchSize \in Nat \ {0}
  /\ MaxTries \in Nat \ {0}
  /\ Nobody \notin JobIds

Live     == {"pending", "running", "completed", "failed", "cancelled"}
Terminal == {"completed", "failed", "cancelled"}
\* "absent": not inserted yet; "deleted": removed.
Status   == Live \cup {"absent", "deleted"}

Row == [status    : Status,
        total     : Nat,
        completed : Nat,
        failed    : Nat,
        startedAt : {"null", "set"}]

Vacant == [status |-> "absent", total |-> 0, completed |-> 0, failed |-> 0,
           startedAt |-> "null"]

\* Where a slot is in import_job.  Those of SaveLabels are update_status calls.
SaveLabels == {"start", "listed", "empty", "progress", "finish", "error"}
BodyLabels == SaveLabels \cup
  {"get", "announce", "creds", "list", "dirs", "precheck", "check", "batch", "final",
   "closing", "except", "mark"}
Labels     == BodyLabels \cup {"idle", "claim", "ack"}

VARIABLES
  rows,       \* the import_jobs table
  adding,     \* add_job calls between their commit and their enqueue
  queue,      \* ARQ's view of the job: absent, queued, held (in progress), done
  tries,      \* deliveries ARQ has made
  processed,  \* processed_jobs: absent, claimed, failed (result_status)
  pc,         \* label of each slot
  job,        \* the job each slot was given
  run,        \* locals of import_job: total, completed, failed
  seen,       \* the row a slot's open session has loaded
  \* History variables: they record, and no action reads them.
  sent,       \* import_file calls made for the job
  listed,     \* objects enumerated for the job
  reported,   \* last outcome the activity log was given
  lost,       \* jobs whose body was killed before it returned
  noticed,    \* jobs whose row said cancelled when their run read it again
  undelivered \* jobs never dispatched, or dropped by ARQ before any claim

tableVars   == <<rows, adding>>
brokerVars  == <<queue, tries, undelivered>>
slotVars    == <<pc, job, run, seen>>
historyVars == <<sent, listed, reported, lost, noticed>>
vars == <<rows, adding, queue, tries, processed, pc, job, run, seen,
          sent, listed, reported, lost, noticed, undelivered>>

NoCounts == [total |-> 0, completed |-> 0, failed |-> 0]

Init ==
  /\ rows      = [j \in JobIds |-> Vacant]
  /\ adding    = {}
  /\ queue     = [j \in JobIds |-> "absent"]
  /\ tries     = [j \in JobIds |-> 0]
  /\ processed = [j \in JobIds |-> "absent"]
  /\ pc        = [w \in Workers |-> "idle"]
  /\ job       = [w \in Workers |-> Nobody]
  /\ run       = [w \in Workers |-> NoCounts]
  /\ seen      = [w \in Workers |-> NotLoaded]
  /\ sent      = [j \in JobIds |-> 0]
  /\ listed    = [j \in JobIds |-> 0]
  /\ reported  = [j \in JobIds |-> "none"]
  /\ lost      = {}
  /\ noticed   = {}
  /\ undelivered = {}

\* Mutant of Exists: a removed row still answers.
ExistsRemoved(j) == rows[j].status # "absent"

Exists(j)  == rows[j].status \in Live
InBody(w)  == pc[w] \in BodyLabels
Smaller(m, n) == IF m < n THEN m ELSE n

-----------------------------------------------------------------------------
(* The web process *)

\* Mutant of AddJob: a status no reader of the table knows.
AddJobUnknownStatus(j) ==
  /\ rows[j].status = "absent"
  /\ rows' = [rows EXCEPT ![j].status = "queued"]
  /\ adding' = adding \cup {j}
  /\ UNCHANGED <<brokerVars, processed, slotVars, historyVars>>

\* add_job: create_job and its commit.
AddJob(j) ==
  /\ rows[j].status = "absent"
  /\ rows' = [rows EXCEPT ![j].status = "pending"]
  /\ adding' = adding \cup {j}
  /\ UNCHANGED <<brokerVars, processed, slotVars, historyVars>>

\* add_job: the enqueue that follows it, in another store.
Enqueue(j) ==
  /\ j \in adding
  /\ adding' = adding \ {j}
  /\ queue' = [queue EXCEPT ![j] = "queued"]
  /\ UNCHANGED <<rows, tries, undelivered, processed, slotVars, historyVars>>

\* No Valkey pool (fallback mode), the enqueue raised, or the process died.
NoDispatch(j) ==
  /\ j \in adding
  /\ adding' = adding \ {j}
  /\ undelivered' = undelivered \cup {j}
  /\ UNCHANGED <<rows, queue, tries, processed, slotVars, historyVars>>

\* cancel_job: one UPDATE that does not look at the status.
Cancel(j) ==
  /\ Exists(j)
  /\ rows' = [rows EXCEPT ![j].status = "cancelled"]
  /\ UNCHANGED <<adding, brokerVars, processed, slotVars, historyVars>>

\* delete_job: one DELETE that does not look at the status.
Delete(j) ==
  /\ Exists(j)
  /\ rows' = [rows EXCEPT ![j].status = "deleted"]
  /\ UNCHANGED <<adding, brokerVars, processed, slotVars, historyVars>>

\* clear_jobs: every row in a terminal state goes.
ClearHistory ==
  /\ rows' = [j \in JobIds |->
                IF rows[j].status \in Terminal
                THEN [rows[j] EXCEPT !.status = "deleted"] ELSE rows[j]]
  /\ UNCHANGED <<adding, brokerVars, processed, slotVars, historyVars>>

\* timeout_stale_jobs: SQL compares started_at with the cutoff, so a null never
\* matches; any other value is old enough some day.
TimeoutStale ==
  /\ rows' = [j \in JobIds |->
                IF rows[j].status = "running" /\ rows[j].startedAt # "null"
                THEN [rows[j] EXCEPT !.status = "failed"] ELSE rows[j]]
  /\ UNCHANGED <<adding, brokerVars, processed, slotVars, historyVars>>

-----------------------------------------------------------------------------
(* ARQ: at-least-once delivery *)

Deliver(w, j) ==
  /\ pc[w] = "idle"
  /\ queue[j] = "queued"
  /\ tries[j] < MaxTries
  /\ queue' = [queue EXCEPT ![j] = "held"]
  /\ tries' = [tries EXCEPT ![j] = tries[j] + 1]
  /\ pc' = [pc EXCEPT ![w] = "claim"]
  /\ job' = [job EXCEPT ![w] = j]
  /\ run' = [run EXCEPT ![w] = NoCounts]
  /\ UNCHANGED <<tableVars, undelivered, processed, seen, historyVars>>

\* ARQ is done with a job: nobody will claim it now.
Dropped(j) ==
  undelivered' = IF processed[j] = "absent" THEN undelivered \cup {j} ELSE undelivered

\* max_tries reached: ARQ drops the job.
GiveUp(j) ==
  /\ queue[j] = "queued"
  /\ tries[j] = MaxTries
  /\ queue' = [queue EXCEPT ![j] = "done"]
  /\ Dropped(j)
  /\ UNCHANGED <<tableVars, tries, processed, slotVars, historyVars>>

\* The in-progress key outlives its TTL: its holder died, or is stalled.
LeaseExpires(j) ==
  /\ queue[j] = "held"
  /\ queue' = [queue EXCEPT ![j] = "queued"]
  /\ UNCHANGED <<tableVars, tries, undelivered, processed, slotVars, historyVars>>

\* finish_job: whoever returns first takes the job off the queue.
Ack(w) ==
  /\ pc[w] = "ack"
  /\ queue' = [queue EXCEPT ![job[w]] = "done"]
  /\ pc' = [pc EXCEPT ![w] = "idle"]
  /\ job' = [job EXCEPT ![w] = Nobody]
  /\ UNCHANGED <<tableVars, tries, undelivered, processed, run, seen, historyVars>>

-----------------------------------------------------------------------------
(* JobRepository.update_status, as every caller in the worker uses it *)

\* The row as the caller wants it.
Wanted(label, row, r) ==
  CASE label = "start"    -> [row EXCEPT !.status = "running"]
    [] label = "listed"   -> [row EXCEPT !.status = "running", !.total = r.total]
    [] label = "empty"    -> [row EXCEPT !.status = "completed", !.total = 0]
    [] label = "progress" -> [row EXCEPT !.status = "running",
                                         !.completed = r.completed,
                                         !.failed = r.failed]
    [] label = "finish"   -> [row EXCEPT !.status = "completed"]
    [] OTHER              -> [row EXCEPT !.status = "failed"]

\* The flush writes a column only if its value differs from the loaded one.
Column(now, loaded, wanted) == IF wanted = loaded THEN now ELSE wanted

Written(now, loaded, wanted) ==
  [status    |-> Column(now.status, loaded.status, wanted.status),
   total     |-> Column(now.total, loaded.total, wanted.total),
   completed |-> Column(now.completed, loaded.completed, wanted.completed),
   failed    |-> Column(now.failed, loaded.failed, wanted.failed),
   startedAt |-> Column(now.startedAt, loaded.startedAt, wanted.startedAt)]

\* Where a save leads: "except" is import_job's except branch, "mark" the
\* wrapper's, which is all that catches what "start" and "error" raise.
After   == [start |-> "announce", listed |-> "dirs", empty |-> "ack",
            progress |-> "check", finish |-> "closing", error |-> "ack"]
OnError == [start |-> "mark", listed |-> "except", empty |-> "except",
            progress |-> "except", finish |-> "except", error |-> "mark"]

\* The activity log entry that follows the save of the except branch.
Report(w) ==
  reported' = IF pc[w] = "error" THEN [reported EXCEPT ![job[w]] = "failed"]
              ELSE reported

\* session.get: a row is loaded, or there is none and update returns None, which
\* no caller looks at.
SaveLoad(w) ==
  LET j == job[w] IN
  /\ pc[w] \in SaveLabels
  /\ seen[w] = NotLoaded
  /\ IF Exists(j)
     THEN /\ seen' = [seen EXCEPT ![w] = rows[j]]
          /\ UNCHANGED <<pc, reported>>
     ELSE /\ pc' = [pc EXCEPT ![w] = After[pc[w]]]
          /\ Report(w)
          /\ UNCHANGED seen
  /\ UNCHANGED <<tableVars, brokerVars, processed, job, run, sent, listed, lost, noticed>>

\* flush, refresh and commit.  Both statements raise if the row is gone.
SaveFlush(w) ==
  LET j   == job[w]
      new == Written(rows[j], seen[w], Wanted(pc[w], seen[w], run[w]))
  IN
  /\ pc[w] \in SaveLabels
  /\ seen[w] # NotLoaded
  /\ seen' = [seen EXCEPT ![w] = NotLoaded]
  /\ IF Exists(j)
     THEN /\ rows' = [rows EXCEPT ![j] = new]
          /\ pc' = [pc EXCEPT ![w] = After[pc[w]]]
          /\ Report(w)
     ELSE /\ pc' = [pc EXCEPT ![w] = OnError[pc[w]]]
          /\ UNCHANGED <<rows, reported>>
  /\ UNCHANGED <<adding, brokerVars, processed, job, run, sent, listed, lost, noticed>>

-----------------------------------------------------------------------------
(* The worker: @idempotent, then import_job and _import_job_body.            *)
(* publish_log raises when Valkey does not answer: a step that publishes has *)
(* that outcome too, "except" inside import_job's try and "mark" outside it. *)

Goto(w, label) == pc' = [pc EXCEPT ![w] = label]

\* Mutant of Claim: the result of the insert is ignored.
ClaimIgnoringConflict(w) ==
  /\ pc[w] = "claim"
  /\ processed' = [processed EXCEPT ![job[w]] = "claimed"]
  /\ Goto(w, "get")
  /\ UNCHANGED <<tableVars, brokerVars, job, run, seen, historyVars>>

\* Mutant of Claim: the test of the result is the wrong way round.
ClaimInverted(w) ==
  LET j == job[w] IN
  /\ pc[w] = "claim"
  /\ IF processed[j] = "absent"
     THEN processed' = [processed EXCEPT ![j] = "claimed"] /\ Goto(w, "ack")
     ELSE Goto(w, "get") /\ UNCHANGED processed
  /\ UNCHANGED <<tableVars, brokerVars, job, run, seen, historyVars>>

\* mark_processed: INSERT .. ON CONFLICT DO NOTHING, committed before the body.
Claim(w) ==
  LET j == job[w] IN
  /\ pc[w] = "claim"
  /\ IF processed[j] = "absent"
     THEN processed' = [processed EXCEPT ![j] = "claimed"] /\ Goto(w, "get")
     ELSE Goto(w, "ack") /\ UNCHANGED processed
  /\ UNCHANGED <<tableVars, brokerVars, job, run, seen, historyVars>>

\* _get_job_dict; "not found" is published.
GetJob(w) ==
  /\ pc[w] = "get"
  /\ IF Exists(job[w]) THEN Goto(w, "start") ELSE Goto(w, "ack") \/ Goto(w, "mark")
  /\ UNCHANGED <<tableVars, brokerVars, processed, job, run, seen, historyVars>>

\* "started" is published between the commit of the running status and the try.
Announce(w) ==
  /\ pc[w] = "announce"
  /\ Goto(w, "creds") \/ Goto(w, "mark")
  /\ UNCHANGED <<tableVars, brokerVars, processed, job, run, seen, historyVars>>

\* Mutant of LoadCredentials: a missing token returns before the row is failed.
LoadCredentialsReturning(w) ==
  /\ pc[w] = "creds"
  /\ Goto(w, "list") \/ Goto(w, "ack")
  /\ UNCHANGED <<tableVars, brokerVars, processed, job, run, seen, historyVars>>

\* The LucidLink token and the datastore credentials, or ValueError.
LoadCredentials(w) ==
  /\ pc[w] = "creds"
  /\ Goto(w, "list") \/ Goto(w, "except")
  /\ UNCHANGED <<tableVars, brokerVars, processed, job, run, seen, historyVars>>

\* list_all_objects; S3 may also raise.
ListObjects(w) ==
  /\ pc[w] = "list"
  /\ \/ \E n \in 0..MaxFiles :
          /\ run' = [run EXCEPT ![w].total = n]
          /\ listed' = [listed EXCEPT ![job[w]] = n]
          /\ Goto(w, IF n = 0 THEN "empty" ELSE "listed")
     \/ Goto(w, "except") /\ UNCHANGED <<run, listed>>
  /\ UNCHANGED <<tableVars, brokerVars, processed, job, seen, sent, reported, lost, noticed>>

\* ensure_structure for every directory: what it returns is only logged.
MakeDirectories(w) ==
  /\ pc[w] = "dirs"
  /\ Goto(w, "precheck") \/ Goto(w, "except")
  /\ UNCHANGED <<tableVars, brokerVars, processed, job, run, seen, historyVars>>

\* What a re-read of the row found is recorded.
Reread(w) ==
  noticed' = IF rows[job[w]].status = "cancelled" THEN noticed \cup {job[w]} ELSE noticed

\* The re-read before the loop: cancelled returns from here.
CheckBeforeLoop(w) ==
  /\ pc[w] = "precheck"
  /\ IF rows[job[w]].status = "cancelled" THEN Goto(w, "ack") \/ Goto(w, "except")
     ELSE Goto(w, "check")
  /\ Reread(w)
  /\ UNCHANGED <<tableVars, brokerVars, processed, job, run, seen,
                 sent, listed, reported, lost>>

Progress(w) == run[w].completed + run[w].failed

\* Mutant of CheckInLoop: the row is not read again.
CheckInLoopBlind(w) ==
  /\ pc[w] = "check"
  /\ Goto(w, IF Progress(w) >= run[w].total THEN "final" ELSE "batch")
  /\ Reread(w)
  /\ UNCHANGED <<tableVars, brokerVars, processed, job, run, seen,
                 sent, listed, reported, lost>>

\* Mutant of CheckInLoop: > for >=, so a batch of no file follows the last one.
CheckInLoopOneMore(w) ==
  /\ pc[w] = "check"
  /\ Goto(w, IF Progress(w) > run[w].total \/ rows[job[w]].status = "cancelled"
             THEN "final" ELSE "batch")
  /\ Reread(w)
  /\ UNCHANGED <<tableVars, brokerVars, processed, job, run, seen,
                 sent, listed, reported, lost>>

\* The head of the batch loop: no file is left, or the row is re-read.
CheckInLoop(w) ==
  /\ pc[w] = "check"
  /\ Goto(w, IF Progress(w) >= run[w].total \/ rows[job[w]].status = "cancelled"
             THEN "final" ELSE "batch")
  /\ Reread(w)
  /\ UNCHANGED <<tableVars, brokerVars, processed, job, run, seen,
                 sent, listed, reported, lost>>

\* Mutant of NextBatch: the last slice is not cut at the end of the list.
NextBatchUncut(w) == BatchSize

NextBatch(w) == Smaller(BatchSize, run[w].total - Progress(w))

\* asyncio.gather over one batch: f of its files fail, the others are imported or
\* were there already.  The progress line is published before it is saved.
ImportBatch(w) ==
  LET j == job[w]
      n == NextBatch(w)
  IN
  /\ pc[w] = "batch"
  /\ \E f \in 0..n :
       run' = [run EXCEPT ![w] = [total     |-> @.total,
                                  completed |-> @.completed + (n - f),
                                  failed    |-> @.failed + f]]
  /\ sent' = [sent EXCEPT ![j] = @ + n]
  /\ Goto(w, "progress") \/ Goto(w, "except")
  /\ UNCHANGED <<tableVars, brokerVars, processed, job, seen, listed, reported, lost,
                 noticed>>

\* Mutant of CheckAfterLoop: the cancelled branch logs and does not return.
CheckAfterLoopFallThrough(w) ==
  /\ pc[w] = "final"
  /\ Goto(w, "finish")
  /\ reported' = IF rows[job[w]].status = "cancelled"
                 THEN [reported EXCEPT ![job[w]] = "cancelled"] ELSE reported
  /\ Reread(w)
  /\ UNCHANGED <<tableVars, brokerVars, processed, job, run, seen, sent, listed, lost>>

\* The re-read after the loop: a cancelled run says so and returns.
CheckAfterLoop(w) ==
  LET cancelled == rows[job[w]].status = "cancelled" IN
  /\ pc[w] = "final"
  /\ \/ ~cancelled /\ Goto(w, "finish") /\ UNCHANGED reported
     \/ /\ cancelled
        /\ Goto(w, "ack")
        /\ reported' = [reported EXCEPT ![job[w]] = "cancelled"]
     \/ cancelled /\ Goto(w, "except") /\ UNCHANGED reported
  /\ Reread(w)
  /\ UNCHANGED <<tableVars, brokerVars, processed, job, run, seen, sent, listed, lost>>

\* "complete" is published, then logged, after the completed status is committed:
\* a publish that raises takes the except branch, which fails the row.
Close(w) ==
  /\ pc[w] = "closing"
  /\ \/ /\ Goto(w, "ack")
        /\ reported' = [reported EXCEPT ![job[w]] = "completed"]
     \/ Goto(w, "except") /\ UNCHANGED reported
  /\ UNCHANGED <<tableVars, brokerVars, processed, job, run, seen,
                 sent, listed, lost, noticed>>

\* import_job's except: the failure is published before it is saved.
HandleException(w) ==
  /\ pc[w] = "except"
  /\ Goto(w, "error") \/ Goto(w, "mark")
  /\ UNCHANGED <<tableVars, brokerVars, processed, job, run, seen, historyVars>>

\* The wrapper's except: result_status = 'failed', and the exception goes on.
MarkFailed(w) ==
  /\ pc[w] = "mark"
  /\ processed' = [processed EXCEPT ![job[w]] = "failed"]
  /\ Goto(w, "ack")
  /\ UNCHANGED <<tableVars, brokerVars, job, run, seen, historyVars>>

-----------------------------------------------------------------------------
(* What stops a slot between two of its steps.  None of it runs the except   *)
(* branches (CancelledError is not an Exception), so the row stays as it is. *)

\* The slot is gone after k more files of the batch it was sending.
Stop(w, k) ==
  LET j == job[w] IN
  /\ k \in 0..(IF pc[w] = "batch" THEN NextBatch(w) ELSE 0)
  /\ sent' = [sent EXCEPT ![j] = @ + k]
  /\ lost' = IF InBody(w) THEN lost \cup {j} ELSE lost
  /\ pc' = [pc EXCEPT ![w] = "idle"]
  /\ job' = [job EXCEPT ![w] = Nobody]
  /\ seen' = [seen EXCEPT ![w] = NotLoaded]
  /\ UNCHANGED <<tableVars, tries, processed, run, listed, reported, noticed>>

\* The process dies (SIGKILL, out of memory): the in-progress key stays behind.
Crash(w) ==
  /\ pc[w] # "idle"
  /\ \E k \in 0..BatchSize : Stop(w, k)
  /\ UNCHANGED <<queue, undelivered>>

\* SIGTERM and job_completion_wait is over: ARQ cancels the task and requeues it.
Terminate(w) ==
  /\ pc[w] \notin {"idle", "ack"}
  /\ \E k \in 0..BatchSize : Stop(w, k)
  /\ queue' = [queue EXCEPT ![job[w]] = "queued"]
  /\ UNCHANGED undelivered

\* job_timeout: ARQ cancels the task and finishes the job as failed.
TimeOut(w) ==
  /\ pc[w] \notin {"idle", "ack"}
  /\ \E k \in 0..BatchSize : Stop(w, k)
  /\ queue' = [queue EXCEPT ![job[w]] = "done"]
  /\ Dropped(job[w])

-----------------------------------------------------------------------------
WorkerStep(w) ==
  \/ SaveLoad(w)
  \/ SaveFlush(w)
  \/ Claim(w)
  \/ GetJob(w)
  \/ Announce(w)
  \/ LoadCredentials(w)
  \/ ListObjects(w)
  \/ MakeDirectories(w)
  \/ CheckBeforeLoop(w)
  \/ CheckInLoop(w)
  \/ ImportBatch(w)
  \/ CheckAfterLoop(w)
  \/ Close(w)
  \/ HandleException(w)
  \/ MarkFailed(w)
  \/ Ack(w)

Interruption(w) == Crash(w) \/ Terminate(w) \/ TimeOut(w)

UserStep ==
  \/ \E j \in JobIds : AddJob(j) \/ Cancel(j) \/ Delete(j)
  \/ ClearHistory

Next ==
  \/ UserStep
  \/ \E j \in JobIds : Enqueue(j) \/ NoDispatch(j) \/ GiveUp(j) \/ LeaseExpires(j)
  \/ TimeoutStale
  \/ \E w \in Workers : WorkerStep(w) \/ Interruption(w)
  \/ \E w \in Workers, j \in JobIds : Deliver(w, j)

Spec == Init /\ [][Next]_vars

\* A worker's event loop keeps stepping its coroutines, ARQ keeps polling the
\* queue, a dead holder's in-progress key expires, and the cron fires.  Users,
\* crashes and the web's second store promise nothing.
Unheld(j) == \A w \in Workers : job[w] # j

Fairness ==
  /\ \A w \in Workers : WF_vars(WorkerStep(w))
  /\ \A j \in JobIds :
       /\ WF_vars(\E w \in Workers : Deliver(w, j))
       /\ WF_vars(GiveUp(j))
       /\ WF_vars(Unheld(j) /\ LeaseExpires(j))
  /\ WF_vars(TimeoutStale)

FairSpec == Spec /\ Fairness

-----------------------------------------------------------------------------
(* Properties *)

\* The type invariant, by store: the tables, the broker, the slots, the history.
TableTypeOK ==
  /\ rows \in [JobIds -> Row]
  /\ adding \subseteq JobIds
  /\ processed \in [JobIds -> {"absent", "claimed", "failed"}]

BrokerTypeOK ==
  /\ queue \in [JobIds -> {"absent", "queued", "held", "done"}]
  /\ tries \in [JobIds -> 0..MaxTries]
  /\ undelivered \subseteq JobIds

Counts == [total : 0..MaxFiles, completed : Nat, failed : Nat]

SlotTypeOK ==
  /\ pc \in [Workers -> Labels]
  /\ job \in [Workers -> JobIds \cup {Nobody}]
  /\ \A w \in Workers : pc[w] # "idle" => job[w] \in JobIds
  /\ run \in [Workers -> Counts]
  /\ seen \in [Workers -> Row \cup {NotLoaded}]

HistoryTypeOK ==
  /\ sent \in [JobIds -> Nat]
  /\ listed \in [JobIds -> 0..MaxFiles]
  /\ reported \in [JobIds -> {"none", "completed", "failed", "cancelled"}]
  /\ lost \subseteq JobIds
  /\ noticed \subseteq JobIds

TypeOK == TableTypeOK /\ BrokerTypeOK /\ SlotTypeOK /\ HistoryTypeOK

\* The processed_jobs key lets one slot at most into the body of a job, even
\* while ARQ has delivered it twice.
SingleRun ==
  /\ \A w \in Workers : InBody(w) => processed[job[w]] # "absent"
  /\ \A v, w \in Workers :
       (InBody(v) /\ InBody(w) /\ job[v] = job[w]) => v = w

\* A row marked completed accounts for every file that was listed, and every
\* one of them was handed to LucidLink: no cancelled, interrupted or lost run
\* ends up shown as a complete import.
CompletedAccountsForAll ==
  \A j \in JobIds :
    rows[j].status = "completed" =>
      /\ rows[j].completed + rows[j].failed = rows[j].total
      /\ sent[j] = rows[j].total

\* The locals of a run are exactly what LucidLink and S3 have seen of its job, so
\* no other run has touched either, and the run stays within its list.
RunAccounts ==
  /\ \A j \in JobIds : processed[j] = "absent" => sent[j] = 0 /\ listed[j] = 0
  /\ \A w \in Workers :
       /\ pc[w] \in {"claim", "get", "start", "announce", "creds", "list"} => run[w] = NoCounts
       /\ InBody(w) => /\ sent[job[w]] = Progress(w)
                       /\ listed[job[w]] = run[w].total
                       /\ Progress(w) <= run[w].total

\* What the activity log says of the outcome is what the row says, unless the
\* user changed or removed the row afterwards.
ReportAgrees ==
  \A j \in JobIds :
    /\ reported[j] = "completed" => rows[j].status \in {"completed", "cancelled", "deleted"}
    /\ reported[j] = "failed"    => rows[j].status \in {"failed", "cancelled", "deleted"}
    /\ reported[j] = "cancelled" => rows[j].status \in {"cancelled", "deleted"}

\* A row that says running has a slot in the body of import_job behind it, or that
\* body was killed, or it raised and processed_jobs says failed: no other path
\* through the code forgets a running row.
RunningHasOwner ==
  \A j \in JobIds :
    rows[j].status = "running" =>
      \/ \E w \in Workers : job[w] = j /\ InBody(w)
      \/ j \in lost
      \/ processed[j] = "failed"

\* A row that says pending has somebody to see to it: add_job, which commits it before
\* it enqueues; ARQ, while nobody has claimed the job; or the run that claimed it.  It
\* is forgotten only if the job never reached a claim, or its run was killed.
PendingHasOwner ==
  \A j \in JobIds :
    rows[j].status = "pending" =>
      \/ j \in adding
      \/ processed[j] = "absent" /\ queue[j] \in {"queued", "held"}
      \/ \E w \in Workers : job[w] = j /\ pc[w] \in {"get", "start"}
      \/ j \in lost
      \/ j \in undelivered

\* A cancellation that one of the run's re-reads finds ends the import: no more
\* files are sent, and no later save shows the job running or completed.
NoticedCancelStopsTheRun ==
  [][\A j \in noticed :
       /\ sent'[j] = sent[j]
       /\ rows'[j].status \in {"cancelled", "failed", "deleted"}]_vars

\* A redelivery never resumes a run that was killed or that reported its outcome:
\* its user may still cancel or remove the row, and the stale-job cron may fail it.
SettledRowIsLeftAlone ==
  [][\A j \in JobIds :
       (j \in lost \/ reported[j] # "none") =>
         \/ rows'[j] = rows[j]
         \/ rows'[j] = [rows[j] EXCEPT !.status = "cancelled"]
         \/ rows'[j] = [rows[j] EXCEPT !.status = "deleted"]
         \/ /\ rows[j].status = "running"
            /\ rows'[j] = [rows[j] EXCEPT !.status = "failed"]]_vars

\* A removed row never comes back, whatever a worker that had loaded it does.
RemovedStaysRemoved ==
  [][\A j \in JobIds : rows[j].status = "deleted" => rows'[j] = rows[j]]_vars

\* The run of a claimed job has left the body of import_job.
RunOver(j) ==
  /\ processed[j] # "absent"
  /\ \A w \in Workers : job[w] = j => ~InBody(w)

\* Each listed object is handed to LucidLink at most once, by one run that
\* never starts again.
Phase == [j \in JobIds |->
            IF processed[j] = "absent" THEN "idle"
            ELSE IF RunOver(j) THEN "over" ELSE "active"]

Once == INSTANCE IngestOnce WITH phase <- Phase

IngestsOnce == Once!ASpec

\* ARQ gets rid of every job it was given, whoever dies on the way.
EveryDeliveryEnds == \A j \in JobIds : queue[j] = "queued" ~> queue[j] = "done"

\* A claimed job's row ends in a terminal state or removed, unless the body was
\* killed or raised, and then processed_jobs or the death says so.
UninterruptedRunSettles ==
  \A j \in JobIds :
    processed[j] # "absent" ~>
      \/ rows[j].status \in Terminal \cup {"deleted"}
      \/ j \in lost
      \/ processed[j] = "failed"

-----------------------------------------------------------------------------
(* What the repository says and the code does not do *)

\* timeout_stale_jobs: "Mark stale running jobs as failed ... likely the worker
\* crashed or was terminated without updating the job status".
StaleRunningIsTimedOut ==
  \A j \in JobIds :
    (j \in lost /\ rows[j].status = "running") ~> rows[j].status # "running"

\* "Cancel a job": the row of a cancelled job is never worked on again.
CancelIsFinal ==
  [][\A j \in JobIds :
       rows[j].status = "cancelled" => rows'[j].status \in {"cancelled", "deleted"}]_vars
=============================================================================
