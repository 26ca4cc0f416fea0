----------------------------- MODULE SqsPoller -----------------------------
(***************************************************************************)
(* The SQS poller: an ARQ cron that sweeps the active queues under a lock  *)
(* in Valkey, records each S3 event of each message in sqs_events, imports *)
(* its object into LucidLink and deletes the message.  One step per        *)
(* transaction or external call.                                           *)
(*                                                                         *)
(* The lock has a TTL nobody renews, SQS redelivers what is not deleted    *)
(* within the visibility timeout, users pause, resume and delete queues    *)
(* and clear events at any time, and a sweep can die at any step.          *)
(***************************************************************************)
EXTENDS Naturals, Sequences, FiniteSets

CONSTANTS
  Queues,       \* sqs_queues primary keys
  Messages,     \* MessageIds S3 sends
  Keys,         \* object keys
  Home,         \* Home[m]: the queue S3 sends m to
  Records,      \* Records[m]: the keys of its ObjectCreated events, in order
  Malformed,    \* messages whose body makes parse_s3_events raise
  Sweeps,       \* concurrent invocations of the cron
  MaxReceives,  \* bound: times SQS hands out one message
  MaxBatch,     \* MaxNumberOfMessages
  Free,         \* nobody holds the lock
  Dead,         \* the lock of a sweep that is gone
  None          \* no queue, no message

ASSUME PollerAssumption ==
  /\ Home \in [Messages -> Queues]
  /\ Records \in [Messages -> Seq(Keys)]
  /\ Malformed \subseteq Messages
  /\ MaxReceives \in Nat \ {0}
  /\ MaxBatch \in Nat \ {0}
  /\ Free \notin Sweeps /\ Dead \notin Sweeps /\ Free # Dead
  /\ None \notin Queues /\ None \notin Messages

\* exists_for_message looks events up by message and key.
Events == Messages \X Keys

Settled  == {"completed", "skipped", "failed"}
Status   == {"pending", "processing", "removed"} \cup Settled
RowLabels == {"lookup", "begin", "import", "settle"}
EventLabels == {"probe", "insert", "record"} \cup RowLabels
MessageLabels == EventLabels \cup {"delete"}
QueueLabels == MessageLabels \cup {"receive", "message"}
Labels   == QueueLabels \cup {"idle", "list", "next", "release"}

VARIABLES
  queues,    \* sqs_queues: "active", "paused" or "deleted"
  sqs,       \* messages: "unsent", "visible", "inflight", "deleted"
  receives,  \* times each was received
  rows,      \* sqs_events: per event, the statuses of its rows in order
  imported,  \* objects linked in the filespace
  lock,      \* POLL_LOCK_KEY: Free, the sweep that set it, or Dead
  pc,        \* label of each sweep
  todo,      \* queues of its snapshot not polled yet
  at,        \* the queue it polls
  batch,     \* received messages it has not finished
  msg,       \* the message it processes
  left,      \* events of that message from the current one on
  row,       \* position of the current event's row, or 0
  outcome,   \* what import_file said
  \* History variables: they record, and no action reads them.
  late,      \* sweeps that run on without the lock, since it expired
  overrun,   \* some sweep outlived its lock
  attempts,  \* import_file calls made for rows that are still there
  cutShort   \* events with a row that a sweep was at work on when interrupted

turnVars    == <<batch, msg, left, row, outcome>>
sweepVars   == <<pc, todo, at, turnVars>>
tableVars   == <<queues, rows>>
awsVars     == <<sqs, receives>>
historyVars == <<late, overrun, attempts, cutShort>>
vars == <<queues, sqs, receives, rows, imported, lock, pc, todo, at,
          batch, msg, left, row, outcome, late, overrun, attempts, cutShort>>

Init ==
  /\ queues   = [q \in Queues |-> "active"]
  /\ sqs      = [m \in Messages |-> "unsent"]
  /\ receives = [m \in Messages |-> 0]
  /\ rows     = [e \in Events |-> <<>>]
  /\ imported = {}
  /\ lock     = Free
  /\ pc       = [s \in Sweeps |-> "idle"]
  /\ todo     = [s \in Sweeps |-> {}]
  /\ at       = [s \in Sweeps |-> None]
  /\ batch    = [s \in Sweeps |-> {}]
  /\ msg      = [s \in Sweeps |-> None]
  /\ left     = [s \in Sweeps |-> <<>>]
  /\ row      = [s \in Sweeps |-> 0]
  /\ outcome  = [s \in Sweeps |-> "failed"]
  /\ late     = {}
  /\ overrun  = FALSE
  /\ attempts = [e \in Events |-> 0]
  /\ cutShort = {}

Present(e) == \E i \in DOMAIN rows[e] : rows[e][i] # "removed"
Key(s)     == Head(left[s])
Event(s)   == <<msg[s], Key(s)>>
Goto(s, label) == pc' = [pc EXCEPT ![s] = label]

-----------------------------------------------------------------------------
(* AWS and the users *)

Send(m) ==
  /\ sqs[m] = "unsent"
  /\ sqs' = [sqs EXCEPT ![m] = "visible"]
  /\ UNCHANGED <<tableVars, receives, imported, lock, sweepVars, historyVars>>

\* The visibility timeout: the message can be received again.
Redeliver(m) ==
  /\ sqs[m] = "inflight"
  /\ sqs' = [sqs EXCEPT ![m] = "visible"]
  /\ UNCHANGED <<tableVars, receives, imported, lock, sweepVars, historyVars>>

Pause(q) ==
  /\ queues[q] # "deleted"
  /\ queues' = [queues EXCEPT ![q] = "paused"]
  /\ UNCHANGED <<rows, awsVars, imported, lock, sweepVars, historyVars>>

Resume(q) ==
  /\ queues[q] # "deleted"
  /\ queues' = [queues EXCEPT ![q] = "active"]
  /\ UNCHANGED <<rows, awsVars, imported, lock, sweepVars, historyVars>>

\* Rows of E are deleted; the imports made for them no longer count.
Forget(E) ==
  /\ rows' = [e \in Events |-> IF e \in E THEN [i \in DOMAIN rows[e] |-> "removed"]
                               ELSE rows[e]]
  /\ attempts' = [e \in Events |-> IF e \in E THEN 0 ELSE attempts[e]]
  /\ cutShort' = cutShort \ E

\* delete_sqs_queue: ON DELETE CASCADE takes the events too.  The queue in AWS may be
\* deleted with it or outlive it; receive_messages raises on one that is gone.
DeleteQueue(q) ==
  /\ queues[q] # "deleted"
  /\ queues' = [queues EXCEPT ![q] = "deleted"]
  /\ Forget({e \in Events : Home[e[1]] = q})
  /\ UNCHANGED <<awsVars, imported, lock, sweepVars, late, overrun>>

\* clear_sqs_events takes every event, the cron cleanup_old_events the old ones.
ClearEvents ==
  /\ \E M \in SUBSET Messages : Forget(M \X Keys)
  /\ UNCHANGED <<queues, awsVars, imported, lock, sweepVars, late, overrun>>

-----------------------------------------------------------------------------
(* poll_sqs_queues *)

\* acquire_poll_lock: SET NX EX.  Another holder: the tick is skipped.
Acquire(s) ==
  /\ pc[s] = "idle"
  /\ lock = Free
  /\ lock' = s
  /\ Goto(s, "list")
  /\ UNCHANGED <<tableVars, awsVars, imported, todo, at, turnVars, historyVars>>

\* Mutant of LockExpires: SET NX without EX.
LockStays == FALSE /\ UNCHANGED vars

\* The TTL is over, whether the holder is done or not.
LockExpires ==
  /\ lock # Free
  /\ lock' = Free
  /\ late' = IF lock \in Sweeps THEN late \cup {lock} ELSE late
  /\ overrun' = (overrun \/ lock \in Sweeps)
  /\ UNCHANGED <<tableVars, awsVars, imported, sweepVars, attempts, cutShort>>

\* list_active, a snapshot.
ListActive(s) ==
  /\ pc[s] = "list"
  /\ todo' = [todo EXCEPT ![s] = {q \in Queues : queues[q] = "active"}]
  /\ Goto(s, "next")
  /\ UNCHANGED <<tableVars, awsVars, imported, lock, at, turnVars, historyVars>>

\* Mutant of NextQueue: a queue without credentials ends the sweep.
NextQueueBreaking(s) ==
  /\ pc[s] = "next"
  /\ \/ todo[s] = {} /\ Goto(s, "release") /\ UNCHANGED <<todo, at>>
     \/ \E q \in todo[s] :
          /\ todo' = [todo EXCEPT ![s] = @ \ {q}]
          /\ \/ at' = [at EXCEPT ![s] = q] /\ Goto(s, "receive")
             \/ Goto(s, "release") /\ UNCHANGED at
  /\ UNCHANGED <<tableVars, awsVars, imported, lock, turnVars, historyVars>>

\* The next queue of the snapshot, whatever it is by now; without credentials that
\* decrypt it is passed over.
NextQueue(s) ==
  /\ pc[s] = "next"
  /\ \/ todo[s] = {} /\ Goto(s, "release") /\ UNCHANGED <<todo, at>>
     \/ \E q \in todo[s] :
          /\ todo' = [todo EXCEPT ![s] = @ \ {q}]
          /\ \/ at' = [at EXCEPT ![s] = q] /\ Goto(s, "receive")
             \/ UNCHANGED <<at, pc>>
  /\ UNCHANGED <<tableVars, awsVars, imported, lock, turnVars, historyVars>>

\* Mutant of LeaveQueue: after an error the sweep starts again from the list.
LeaveQueueAndRelist(s) ==
  /\ Goto(s, "list")
  /\ at'      = [at EXCEPT ![s] = None]
  /\ batch'   = [batch EXCEPT ![s] = {}]
  /\ msg'     = [msg EXCEPT ![s] = None]
  /\ left'    = [left EXCEPT ![s] = <<>>]
  /\ row'     = [row EXCEPT ![s] = 0]
  /\ outcome' = [outcome EXCEPT ![s] = "failed"]

\* The queue's turn is over: mark_polled after the last message, set_error after an
\* exception, and the messages left in the batch stay in flight.
LeaveQueue(s) ==
  /\ Goto(s, "next")
  /\ at'      = [at EXCEPT ![s] = None]
  /\ batch'   = [batch EXCEPT ![s] = {}]
  /\ msg'     = [msg EXCEPT ![s] = None]
  /\ left'    = [left EXCEPT ![s] = <<>>]
  /\ row'     = [row EXCEPT ![s] = 0]
  /\ outcome' = [outcome EXCEPT ![s] = "failed"]

\* Mutant of Unlock: DEL without comparing the value.
UnlockUnchecked(s) == lock' = Free

\* The Lua script deletes the key if it still holds this worker's id.
Unlock(s) == lock' = IF lock = s THEN Free ELSE lock

\* The sweep has this row in hand: process_s3_event, or the except branch it raised to.
Handles(s, e, i) ==
  pc[s] \in RowLabels \cup {"record"} /\ Event(s) = e /\ row[s] = i

Unsettled(e) == {i \in DOMAIN rows[e] : rows[e][i] \in {"pending", "processing"}}

\* The sweep is over and its locals are gone.
End(s) ==
  /\ Goto(s, "idle")
  /\ todo'    = [todo EXCEPT ![s] = {}]
  /\ at'      = [at EXCEPT ![s] = None]
  /\ batch'   = [batch EXCEPT ![s] = {}]
  /\ msg'     = [msg EXCEPT ![s] = None]
  /\ left'    = [left EXCEPT ![s] = <<>>]
  /\ row'     = [row EXCEPT ![s] = 0]
  /\ outcome' = [outcome EXCEPT ![s] = "failed"]
  /\ late' = late \ {s}
  /\ cutShort' = cutShort \cup {e \in Events : \E i \in Unsettled(e) : Handles(s, e, i)}
  /\ UNCHANGED <<tableVars, awsVars, imported, overrun, attempts>>

\* release_poll_lock; if Valkey does not answer the key stays.
Release(s) ==
  /\ pc[s] = "release"
  /\ Unlock(s) \/ lock' = (IF lock = s THEN Dead ELSE lock)
  /\ End(s)

\* SIGTERM or job_timeout: CancelledError passes every except Exception, and the
\* finally block releases the lock.
Cancelled(s) ==
  /\ pc[s] # "idle"
  /\ Unlock(s)
  /\ End(s)

\* The process dies.
Crash(s) ==
  /\ pc[s] # "idle"
  /\ lock' = IF lock = s THEN Dead ELSE lock
  /\ End(s)

-----------------------------------------------------------------------------
(* poll_single_queue *)

\* receive_messages returns some of the visible ones, or raises.
Receive(s) ==
  /\ pc[s] = "receive"
  /\ \/ \E M \in SUBSET {m \in Messages : /\ Home[m] = at[s]
                                          /\ sqs[m] = "visible"
                                          /\ receives[m] < MaxReceives} :
          /\ Cardinality(M) <= MaxBatch
          /\ batch' = [batch EXCEPT ![s] = M]
          /\ sqs' = [m \in Messages |-> IF m \in M THEN "inflight" ELSE sqs[m]]
          /\ receives' = [m \in Messages |->
                            IF m \in M THEN receives[m] + 1 ELSE receives[m]]
          /\ Goto(s, "message")
          /\ UNCHANGED <<at, msg, left, row, outcome>>
     \/ LeaveQueue(s) /\ UNCHANGED awsVars
  /\ UNCHANGED <<tableVars, imported, lock, todo, historyVars>>

\* The first event of what is left, or the delete that follows the last.
GoOnWith(s, events) ==
  /\ left' = [left EXCEPT ![s] = events]
  /\ Goto(s, IF events = <<>> THEN "delete" ELSE "probe")

\* The next message; a body that parse_s3_events raises on ends the queue's turn.
TakeMessage(s) ==
  /\ pc[s] = "message"
  /\ \/ batch[s] = {} /\ LeaveQueue(s)
     \/ batch[s] \cap Malformed # {} /\ LeaveQueue(s)
     \/ \E m \in batch[s] \ Malformed :
          /\ batch' = [batch EXCEPT ![s] = @ \ {m}]
          /\ msg' = [msg EXCEPT ![s] = m]
          /\ GoOnWith(s, Records[m])
          /\ UNCHANGED <<at, row, outcome>>
  /\ UNCHANGED <<tableVars, awsVars, imported, lock, todo, historyVars>>

\* The current event is done with.
NextEvent(s) ==
  /\ GoOnWith(s, Tail(left[s]))
  /\ row' = [row EXCEPT ![s] = 0]
  /\ outcome' = [outcome EXCEPT ![s] = "failed"]

\* Mutant of RecordFailure: a failure that cannot be recorded is swallowed.
RecordFailureBestEffort(s) ==
  /\ pc[s] = "record"
  /\ rows' = IF queues[at[s]] # "deleted"
             THEN [rows EXCEPT ![Event(s)] = Append(@, "failed")] ELSE rows
  /\ NextEvent(s)
  /\ UNCHANGED <<queues, awsVars, imported, lock, todo, at, batch, msg, historyVars>>

\* The except branch: a new row that says failed, which raises in its turn if the
\* queue's row is gone (foreign key).
RecordFailure(s) ==
  /\ pc[s] = "record"
  /\ IF queues[at[s]] # "deleted"
     THEN /\ rows' = [rows EXCEPT ![Event(s)] = Append(@, "failed")]
          /\ NextEvent(s)
          /\ UNCHANGED <<at, batch, msg>>
     ELSE LeaveQueue(s) /\ UNCHANGED rows
  /\ UNCHANGED <<queues, awsVars, imported, lock, todo, historyVars>>

\* delete_message: done, or not (SQSError, or a receipt handle that a redelivery
\* made stale), or an error that is no ClientError.
DeleteMessage(s) ==
  /\ pc[s] = "delete"
  /\ \/ /\ sqs' = [sqs EXCEPT ![msg[s]] = "deleted"] \/ UNCHANGED sqs
        /\ msg' = [msg EXCEPT ![s] = None]
        /\ Goto(s, "message")
        /\ UNCHANGED <<at, batch, left, row, outcome>>
     \/ LeaveQueue(s) /\ UNCHANGED sqs
  /\ UNCHANGED <<tableVars, receives, imported, lock, todo, historyVars>>

-----------------------------------------------------------------------------
(* process_s3_event *)

\* Mutant of Probe: the event is not looked up.
ProbeNothing(s) ==
  /\ pc[s] = "probe"
  /\ Goto(s, "insert")
  /\ UNCHANGED <<tableVars, awsVars, imported, lock, todo, at, turnVars, historyVars>>

\* Mutant of Probe: an event that is there is gone on with, without its row.
ProbeResuming(s) ==
  /\ pc[s] = "probe"
  /\ Goto(s, IF Present(Event(s)) THEN "lookup" ELSE "insert")
  /\ UNCHANGED <<tableVars, awsVars, imported, lock, todo, at, turnVars, historyVars>>

\* exists_for_message.
Probe(s) ==
  /\ pc[s] = "probe"
  /\ IF Present(Event(s)) THEN NextEvent(s)
     ELSE Goto(s, "insert") /\ UNCHANGED <<left, row, outcome>>
  /\ UNCHANGED <<tableVars, awsVars, imported, lock, todo, at, batch, msg, historyVars>>

\* create_event and the commit: nothing in the table refuses a second row, and the
\* foreign key refuses one without its queue.
Insert(s) ==
  /\ pc[s] = "insert"
  /\ IF queues[at[s]] # "deleted"
     THEN /\ rows' = [rows EXCEPT ![Event(s)] = Append(@, "pending")]
          /\ row' = [row EXCEPT ![s] = Len(rows[Event(s)]) + 1]
          /\ Goto(s, "lookup")
     ELSE Goto(s, "record") /\ UNCHANGED <<rows, row>>
  /\ UNCHANGED <<queues, awsVars, imported, lock, todo, at, batch, msg, left, outcome,
                 historyVars>>

\* Mutant of Lookup: without a datastore or a token the event is dropped, not failed.
LookupReturning(s) ==
  /\ pc[s] = "lookup"
  /\ \/ Goto(s, "begin") /\ UNCHANGED <<left, row, outcome>>
     \/ NextEvent(s)
     \/ Goto(s, "record") /\ UNCHANGED <<left, row, outcome>>
  /\ UNCHANGED <<tableVars, awsVars, imported, lock, todo, at, batch, msg, historyVars>>

\* The datastore and the token are there, or one of them is not, or the token does
\* not decrypt and the exception leaves process_s3_event.
Lookup(s) ==
  /\ pc[s] = "lookup"
  /\ Goto(s, "begin") \/ Goto(s, "settle") \/ Goto(s, "record")
  /\ UNCHANGED <<tableVars, awsVars, imported, lock, todo, at, turnVars, historyVars>>

\* Mutant of Update: by message and key instead of by id.
UpdateByEvent(s, status) ==
  rows' = [rows EXCEPT ![Event(s)] =
             [i \in DOMAIN @ |-> IF @[i] = "removed" THEN @[i] ELSE status]]

\* SqsEventRepository.update_status: no row, no effect.
Update(s, status) ==
  rows' = [rows EXCEPT ![Event(s)][row[s]] = IF @ = "removed" THEN @ ELSE status]

\* Mutant of Begin: the import starts while its row still says pending.
BeginUnmarked(s) ==
  /\ pc[s] = "begin"
  /\ Goto(s, "import")
  /\ UNCHANGED <<tableVars, awsVars, imported, lock, todo, at, turnVars, historyVars>>

Begin(s) ==
  /\ pc[s] = "begin"
  /\ Update(s, "processing")
  /\ Goto(s, "import")
  /\ UNCHANGED <<queues, awsVars, imported, lock, todo, at, turnVars, historyVars>>

\* Mutant of Answer: any 400 or 409 is taken for an object that is there.
AnswerAnyConflict(s, result) ==
  \/ result = "completed" /\ Key(s) \notin imported /\ imported' = imported \cup {Key(s)}
  \/ result = "skipped"   /\ UNCHANGED imported
  \/ result = "failed"    /\ (UNCHANGED imported \/ imported' = imported \cup {Key(s)})

\* LucidLink links the object, says it already exists, or fails: no folder, an HTTP
\* error, or a timeout that says nothing of what the server did.
Answer(s, result) ==
  \/ result = "completed" /\ Key(s) \notin imported /\ imported' = imported \cup {Key(s)}
  \/ result = "skipped"   /\ Key(s) \in imported    /\ UNCHANGED imported
  \/ result = "failed"    /\ (UNCHANGED imported \/ imported' = imported \cup {Key(s)})

\* ensure_structure and import_file.
Import(s) ==
  /\ pc[s] = "import"
  /\ \E result \in Settled :
       Answer(s, result) /\ outcome' = [outcome EXCEPT ![s] = result]
  /\ attempts' = [attempts EXCEPT ![Event(s)] =
                    IF rows[Event(s)][row[s]] = "removed" THEN @ ELSE @ + 1]
  /\ Goto(s, "settle")
  /\ UNCHANGED <<tableVars, awsVars, lock, todo, at, batch, msg, left, row, late, overrun,
                 cutShort>>

Settle(s) ==
  /\ pc[s] = "settle"
  /\ Update(s, outcome[s])
  /\ NextEvent(s)
  /\ UNCHANGED <<queues, awsVars, imported, lock, todo, at, batch, msg, historyVars>>

-----------------------------------------------------------------------------
SweepStep(s) ==
  \/ ListActive(s) \/ NextQueue(s) \/ Release(s)
  \/ Receive(s) \/ TakeMessage(s) \/ RecordFailure(s) \/ DeleteMessage(s)
  \/ Probe(s) \/ Insert(s) \/ Lookup(s) \/ Begin(s) \/ Import(s) \/ Settle(s)

Interruption(s) == Cancelled(s) \/ Crash(s)

Environment ==
  \/ \E m \in Messages : Send(m) \/ Redeliver(m)
  \/ \E q \in Queues : Pause(q) \/ Resume(q) \/ DeleteQueue(q)
  \/ ClearEvents
  \/ LockExpires

Next ==
  \/ Environment
  \/ \E s \in Sweeps : Acquire(s) \/ SweepStep(s) \/ Interruption(s)

Spec == Init /\ [][Next]_vars

\* A worker's event loop keeps stepping its tasks; Valkey keeps its TTLs; as long as the
\* lock is free the cron's ticks go on, and one of them takes it.
Fairness ==
  /\ \A s \in Sweeps : WF_vars(SweepStep(s))
  /\ WF_vars(LockExpires)
  /\ WF_vars(\E s \in Sweeps : Acquire(s))

FairSpec == Spec /\ Fairness

-----------------------------------------------------------------------------
(* Properties *)

TablesTypeOK ==
  /\ queues \in [Queues -> {"active", "paused", "deleted"}]
  /\ sqs \in [Messages -> {"unsent", "visible", "inflight", "deleted"}]
  /\ receives \in [Messages -> 0..MaxReceives]
  /\ rows \in [Events -> Seq(Status)]
  /\ imported \subseteq Keys
  /\ lock \in Sweeps \cup {Free, Dead}

SweepsTypeOK ==
  /\ pc \in [Sweeps -> Labels]
  /\ todo \in [Sweeps -> SUBSET Queues]
  /\ at \in [Sweeps -> Queues \cup {None}]
  /\ batch \in [Sweeps -> SUBSET Messages]
  /\ msg \in [Sweeps -> Messages \cup {None}]
  /\ left \in [Sweeps -> Seq(Keys)]
  /\ row \in [Sweeps -> Nat]
  /\ outcome \in [Sweeps -> Settled]

HistoryTypeOK ==
  /\ late \subseteq Sweeps
  /\ overrun \in BOOLEAN
  /\ attempts \in [Events -> Nat]
  /\ cutShort \subseteq Events

\* A label that works on a queue, a message, an event or a row has one.
Placed(s) ==
  /\ pc[s] \in QueueLabels => at[s] \in Queues
  /\ pc[s] \in MessageLabels => msg[s] \in Messages
  /\ pc[s] \in EventLabels => left[s] # <<>>
  /\ pc[s] \in RowLabels => row[s] \in DOMAIN rows[Event(s)]

\* Every variable has its type, and no sweep reaches a step of process_s3_event
\* without the message, the event and the row that the step works on.
TypeOK ==
  /\ TablesTypeOK
  /\ SweepsTypeOK
  /\ HistoryTypeOK
  /\ \A s \in Sweeps : Placed(s)

\* A sweep that runs holds the lock, unless the TTL took it: no sweep ever takes or
\* frees another's (acquire_poll_lock, the check in release_poll_lock's script).
OnlyHolderPolls == \A s \in Sweeps : pc[s] # "idle" => lock = s \/ s \in late

\* As long as no sweep outlives its lock, an event is imported at most once for the
\* rows the table holds, whatever is redelivered after whatever crash (the probe of
\* process_s3_event reads before it inserts, and only the lock keeps the two apart).
OneImportPerEvent == ~overrun => \A e \in Events : attempts[e] <= 1

\* When a message is deleted, each object created in it has been recorded: no
\* exception path of poll_single_queue reaches delete_message past an unrecorded one.
RecordedBeforeDeleted ==
  \A m \in Messages : sqs[m] = "deleted" =>
    \A i \in DOMAIN Records[m] : rows[<<m, Records[m][i]>>] # <<>>

\* A row without a verdict has a sweep at work on it, or had one that was interrupted, or
\* the exception that took it off it was recorded beside it: no redelivery that finds
\* the row, no paused queue and no lock that runs out leaves an import half way.
UnsettledHasOwner ==
  \A e \in Events : \A i \in Unsettled(e) :
    \/ \E s \in Sweeps : Handles(s, e, i)
    \/ \E j \in DOMAIN rows[e] : j > i /\ rows[e][j] = "failed"
    \/ e \in cutShort

\* An event said to be completed or skipped has its object in the filespace,
\* also when two messages name one object and two sweeps race on it.
SettledRowsTellTheTruth ==
  \A e \in Events : \A i \in DOMAIN rows[e] :
    rows[e][i] \in {"completed", "skipped"} => e[2] \in imported

\* The verdict on an event is final: neither a redelivery, nor a sweep that outlived
\* its lock, nor a failure recorded later rewrites it.
SettledRowsNeverChange ==
  [][\A e \in Events : \A i \in DOMAIN rows[e] :
       rows[e][i] \in Settled => rows'[e][i] \in {rows[e][i], "removed"}]_rows

\* Whatever the sweeps do to each other, sqs_events, the filespace and the messages
\* deleted behave as one ledger kept by one hand: no row skips a stage or goes back
\* one, nothing is linked before its row says processing (EventLedger).
Book == INSTANCE EventLedger WITH
          ledger <- rows, linked <- imported, gone <- {m \in Messages : sqs[m] = "deleted"}

KeepsTheLedger == Book!LedgerSpec

\* Every sweep ends, by itself or interrupted, whatever users, AWS and the other
\* sweeps do meanwhile.
EverySweepEnds == \A s \in Sweeps : pc[s] # "idle" ~> pc[s] = "idle"

\* A queue that stays active has its turn again and again ("poll every active queue
\* once", sqs_poller.py:82), whatever the queues before it in the snapshot raise, and
\* although a sweep may fail to release the lock: unless sweeps are cut short for ever
\* (an interruption of release_poll_lock is like its end).
ActiveQueueHasItsTurn ==
  \A q \in Queues :
    \/ []<>(queues[q] # "active")
    \/ []<><<\E s \in Sweeps : pc[s] # "release" /\ Interruption(s)>>_vars
    \/ []<><<\E s \in Sweeps : NextQueue(s) /\ q \in todo[s] \ todo'[s]>>_vars

\* sqs_poller.py:217-218, of the events of a message that is deleted: "they're
\* recorded", as failed or as done; none is left half way with nobody at work on it.
DeletedEventsAreSettled ==
  \A m \in Messages, k \in Keys :
    sqs[m] = "deleted" /\ (\A s \in Sweeps : msg[s] # m) /\ rows[<<m, k>>] # <<>> =>
      \E i \in DOMAIN rows[<<m, k>>] : rows[<<m, k>>][i] \in Settled \cup {"removed"}
=============================================================================
