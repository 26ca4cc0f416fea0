------------------------- MODULE QueueProvisioning -------------------------
(***************************************************************************)
(* Setting up and removing the queues that feed automatic imports: the     *)
(* routes under /api/sqs in main.py and the AWS calls of sqs_service.py.   *)
(* A queue is four things kept in three places: the queue and its policy   *)
(* in SQS, an entry in its bucket's notification configuration, which S3   *)
(* only lets one replace as a whole, and the row in sqs_queues.            *)
(*                                                                         *)
(* The AWS client is synchronous: from the first call of a chain to its    *)
(* last, the coroutine holds the event loop of its process.  Another       *)
(* process is not held up.                                                 *)
(*                                                                         *)
(* One user and one region: rows and credentials are keyed by user.        *)
(***************************************************************************)
CONSTANTS
  Processes,     \* web processes
  Requests,      \* slots for concurrent requests
  QueueNames,    \* a name determines the queue's URL and ARN
  Buckets,
  Datastores,
  BucketOf,      \* the bucket in a datastore's credentials
  RowIds,        \* ids of rows; bounds the table
  Elsewhere,     \* kinds of notifications the buckets had before
  None

Kinds == {"topic", "lambda", "bridge"}

ASSUME ProvisioningAssumption ==
  /\ BucketOf \in [Datastores -> Buckets]
  /\ Elsewhere \subseteq Kinds
  /\ None \notin Processes \cup QueueNames \cup Datastores \cup RowIds

Ops    == {"none", "create", "attach", "delete"}
Labels == {"idle", "find", "keys", "store", "create", "describe", "policy", "fetch",
           "put", "drop", "insert", "erase", "reply"}

\* Where the next call is one to AWS.
AwsLabels == {"create", "describe", "policy", "fetch", "put", "drop"}

VARIABLES
  existing,   \* queues in SQS
  allowed,    \* per queue, the buckets its policy lets send
  config,     \* per bucket, its notification configuration
  rows,       \* sqs_queues
  keys,       \* sqs_credentials has a row: get_for_user takes whichever comes first
  req         \* the request in each slot

awsVars == <<existing, allowed, config>>
dbVars  == <<rows, keys>>
vars    == <<existing, allowed, config, rows, keys, req>>

Nothing == [queues |-> {}, others |-> {}]

\* A slot: the route (op), its process and form, and its locals.  failed says that a
\* step failed and the route went on; rivals, a history variable, are the processes
\* from which other requests changed anything in AWS meanwhile.
NoRequest ==
  [pc |-> "idle", op |-> "none", p |-> None, name |-> None, ds |-> None, row |-> None,
   notify |-> FALSE, keyed |-> FALSE, stored |-> FALSE, seen |-> Nothing,
   failed |-> FALSE, done |-> FALSE, rivals |-> {}]

Init ==
  /\ existing  = {}
  /\ allowed   = [n \in QueueNames |-> {}]
  /\ config    = [b \in Buckets |-> [queues |-> {}, others |-> Elsewhere]]
  /\ rows      = [i \in RowIds |-> None]
  /\ keys      = FALSE
  /\ req       = [r \in Requests |-> NoRequest]

Bucket(q)  == BucketOf[q.ds]
Put(r, q)  == req' = [req EXCEPT ![r] = q]
Goto(r, l) == Put(r, [req[r] EXCEPT !.pc = l])

\* The route answers with an error.
Quit(r) == Put(r, [NoRequest EXCEPT !.pc = "reply", !.p = req[r].p])

\* The request goes on to q after it changed something in AWS.
PutNoting(r, q) ==
  req' = [x \in Requests |->
            IF x = r THEN q
            ELSE IF req[x].pc = "idle" THEN req[x]
            ELSE [req[x] EXCEPT !.rivals = @ \cup {req[r].p}]]

\* A chain of AWS calls is under way.
Midway(q) ==
  \/ q.pc \in {"policy", "put"}
  \/ q.pc \in {"describe", "fetch"} /\ q.op = "create"
  \/ q.pc = "drop" /\ q.stored

\* The event loop is free for r to make its next call.
HasLoop(r) == \A x \in Requests \ {r} : req[x].p = req[r].p => ~Midway(req[x])

-----------------------------------------------------------------------------
(* add_sqs_queue and delete_sqs_queue: what both begin with *)

\* mode "create", with or without "configure_s3_policy", and the other mode.
Add(r, p, op, n, d, notify) ==
  /\ req[r].pc = "idle"
  /\ op = "attach" => ~notify
  /\ Put(r, [NoRequest EXCEPT !.pc = "keys", !.op = op, !.p = p, !.name = n,
                              !.ds = d, !.notify = notify])
  /\ UNCHANGED <<awsVars, dbVars>>

Remove(r, p, i) ==
  /\ req[r].pc = "idle"
  /\ Put(r, [NoRequest EXCEPT !.pc = "find", !.op = "delete", !.p = p, !.row = i])
  /\ UNCHANGED <<awsVars, dbVars>>

\* Mutant of Find: the row's queue is not read.
FindOnly(r) ==
  /\ req[r].pc = "find"
  /\ IF rows[req[r].row] = None THEN Quit(r) ELSE Goto(r, "keys")
  /\ UNCHANGED <<awsVars, dbVars>>

\* queue_repo.get_for_user: an unknown row is an answer.
Find(r) ==
  /\ req[r].pc = "find"
  /\ LET row == rows[req[r].row]
     IN  IF row = None
           THEN Quit(r)
           ELSE Put(r, [req[r] EXCEPT !.pc = "keys", !.name = row.name, !.ds = row.ds])
  /\ UNCHANGED <<awsVars, dbVars>>

\* get_sqs_credentials: an add gives up without them, a delete skips the cleanup.
Keys(r) ==
  /\ req[r].pc = "keys"
  /\ IF keys
       THEN Put(r, [req[r] EXCEPT !.keyed = TRUE, !.pc = "store"])
       ELSE IF req[r].op = "delete" THEN Goto(r, "erase") ELSE Quit(r)
  /\ UNCHANGED <<awsVars, dbVars>>

FirstCall(q) ==
  CASE q.op = "create" -> "create" [] q.op = "attach" -> "describe" [] OTHER -> "fetch"

\* ds_repo.get_for_datastore_user: the datastore's credentials come and go (UserState).
\* Without them a delete leaves the bucket alone.
Store(r) ==
  /\ req[r].pc = "store"
  /\ \/ Put(r, [req[r] EXCEPT !.stored = TRUE, !.pc = FirstCall(req[r])])
     \/ IF req[r].op = "delete" THEN Goto(r, "drop") ELSE Quit(r)
  /\ UNCHANGED <<awsVars, dbVars>>

-----------------------------------------------------------------------------
(* The AWS calls *)

\* create_queue is idempotent.
CreateQueue(r) ==
  /\ req[r].pc = "create"
  /\ HasLoop(r)
  /\ existing' = existing \cup {req[r].name}
  /\ PutNoting(r, [req[r] EXCEPT !.pc = "describe"])
  /\ UNCHANGED <<allowed, config, dbVars>>

\* validate_queue_url
DescribeQueue(r) ==
  /\ req[r].pc = "describe"
  /\ HasLoop(r)
  /\ req[r].name \in existing
  /\ Goto(r, IF req[r].notify THEN "policy" ELSE "insert")
  /\ UNCHANGED <<awsVars, dbVars>>

\* Mutant of ConfigureQueue: the policy is generated and not set.
ConfigureNothing(r) ==
  /\ req[r].pc = "policy"
  /\ HasLoop(r)
  /\ req[r].name \in existing
  /\ PutNoting(r, [req[r] EXCEPT !.pc = "fetch"])
  /\ UNCHANGED <<awsVars, dbVars>>

\* configure_queue_for_s3: a new policy replaces the old one.
ConfigureQueue(r) ==
  /\ req[r].pc = "policy"
  /\ HasLoop(r)
  /\ req[r].name \in existing
  /\ allowed' = [allowed EXCEPT ![req[r].name] = {Bucket(req[r])}]
  /\ PutNoting(r, [req[r] EXCEPT !.pc = "fetch"])
  /\ UNCHANGED <<existing, config, dbVars>>

\* get_bucket_notification_configuration
Fetch(r) ==
  /\ req[r].pc = "fetch"
  /\ HasLoop(r)
  /\ Put(r, [req[r] EXCEPT !.pc = "put", !.seen = config[Bucket(req[r])]])
  /\ UNCHANGED <<awsVars, dbVars>>

\* Where add_sqs_notification and remove_sqs_notification return to.
AfterConfig(q) == IF q.op = "create" THEN "insert" ELSE "drop"

\* EventBridge is switched on by an empty structure, which is falsy: it is not copied.
Carried(others) == others \ {"bridge"}

\* Mutant of Rebuilt: the configuration is built from the new entry alone.
BuiltAfresh(q) ==
  [queues |-> IF q.op = "create" THEN {q.name} ELSE q.seen.queues \ {q.name},
   others |-> Carried(q.seen.others)]

\* The configuration that replaces the one that was read.
Rebuilt(q) ==
  [queues |-> IF q.op = "create" THEN q.seen.queues \cup {q.name}
                                 ELSE q.seen.queues \ {q.name},
   others |-> Carried(q.seen.others)]

\* put_bucket_notification_configuration
PutConfig(r) ==
  /\ req[r].pc = "put"
  /\ HasLoop(r)
  /\ config' = [config EXCEPT ![Bucket(req[r])] = Rebuilt(req[r])]
  /\ PutNoting(r, [req[r] EXCEPT !.pc = AfterConfig(req[r]), !.seen = Nothing])
  /\ UNCHANGED <<existing, allowed, dbVars>>

\* Mutant of ConfigFails: the error is not collected.
ConfigFailsSilently(r) ==
  /\ req[r].pc \in {"fetch", "put"}
  /\ HasLoop(r)
  /\ Put(r, [req[r] EXCEPT !.pc = AfterConfig(req[r]), !.seen = Nothing])
  /\ UNCHANGED <<awsVars, dbVars>>

\* S3NotificationError: an add warns, a delete collects it, and both go on.
ConfigFails(r) ==
  /\ req[r].pc \in {"fetch", "put"}
  /\ HasLoop(r)
  /\ Put(r, [req[r] EXCEPT !.pc = AfterConfig(req[r]), !.seen = Nothing, !.failed = TRUE])
  /\ UNCHANGED <<awsVars, dbVars>>

\* sqs.delete_queue: there is no such error as deleting twice, it fails instead.
DropQueue(r) ==
  /\ req[r].pc = "drop"
  /\ HasLoop(r)
  /\ req[r].name \in existing
  /\ existing' = existing \ {req[r].name}
  /\ allowed' = [allowed EXCEPT ![req[r].name] = {}]
  /\ PutNoting(r, [req[r] EXCEPT !.pc = "erase"])
  /\ UNCHANGED <<config, dbVars>>

\* SQSError: a delete collects it, for an add see Fail.
DropFails(r) ==
  /\ req[r].pc = "drop"
  /\ HasLoop(r)
  /\ Put(r, [req[r] EXCEPT !.pc = "erase", !.failed = TRUE])
  /\ UNCHANGED <<awsVars, dbVars>>

-----------------------------------------------------------------------------
(* The rows *)

\* Nothing in the table says that a queue may have only one row.
Insert(r) ==
  /\ req[r].pc = "insert"
  /\ \E i \in RowIds :
       /\ rows[i] = None
       /\ \A x \in Requests : req[x].row # i
       /\ rows' = [rows EXCEPT ![i] = [name |-> req[r].name, ds |-> req[r].ds]]
  /\ Put(r, [req[r] EXCEPT !.pc = "reply", !.done = TRUE])
  /\ UNCHANGED <<awsVars, keys>>

Erase(r) ==
  /\ req[r].pc = "erase"
  /\ rows' = [rows EXCEPT ![req[r].row] = None]
  /\ Put(r, [req[r] EXCEPT !.pc = "reply", !.done = TRUE])
  /\ UNCHANGED <<awsVars, keys>>

\* save_sqs_credentials: old rows are deleted and one is inserted.  A form without a
\* secret takes it from a row that is there.
SaveKeys ==
  /\ keys' = TRUE
  /\ UNCHANGED <<awsVars, rows, req>>

\* delete_sqs_credentials
DeleteKeys ==
  /\ keys' = FALSE
  /\ UNCHANGED <<awsVars, rows, req>>

\* A statement raises, or a call to AWS does with an error that is not expected there
\* (AWS cannot be reached): the request is over, what AWS did stays.
Fail(r) ==
  /\ req[r].pc \notin {"idle", "reply"}
  /\ req[r].pc \in AwsLabels => HasLoop(r)
  /\ Quit(r)
  /\ UNCHANGED <<awsVars, dbVars>>

Reply(r) ==
  /\ req[r].pc = "reply"
  /\ Put(r, NoRequest)
  /\ UNCHANGED <<awsVars, dbVars>>

\* A process is replaced: its requests stop between any two calls.
Restart(p) ==
  /\ req' = [r \in Requests |-> IF req[r].p = p THEN NoRequest ELSE req[r]]
  /\ UNCHANGED <<awsVars, dbVars>>

Arrive(r) ==
  \E p \in Processes :
    \/ \E op \in {"create", "attach"}, n \in QueueNames, d \in Datastores,
          notify \in BOOLEAN : Add(r, p, op, n, d, notify)
    \/ \E i \in RowIds : Remove(r, p, i)

Step(r) ==
  \/ Find(r) \/ Keys(r) \/ Store(r)
  \/ CreateQueue(r) \/ DescribeQueue(r) \/ ConfigureQueue(r)
  \/ Fetch(r) \/ PutConfig(r) \/ ConfigFails(r) \/ DropQueue(r) \/ DropFails(r)
  \/ Insert(r) \/ Erase(r) \/ Fail(r) \/ Reply(r)

Next ==
  \/ \E r \in Requests : Arrive(r) \/ Step(r)
  \/ \E p \in Processes : Restart(p)
  \/ SaveKeys \/ DeleteKeys

Spec == Init /\ [][Next]_vars

-----------------------------------------------------------------------------
(* Properties *)

Configuration == [queues : SUBSET QueueNames, others : SUBSET Kinds]
Row == [name : QueueNames, ds : Datastores]

Request ==
  [pc : Labels, op : Ops, p : Processes \cup {None}, name : QueueNames \cup {None},
   ds : Datastores \cup {None}, row : RowIds \cup {None}, notify : BOOLEAN,
   keyed : BOOLEAN, stored : BOOLEAN, seen : Configuration,
   failed : BOOLEAN, done : BOOLEAN, rivals : SUBSET Processes]

\* What a request has in hand at a label.
Fits(q) ==
  /\ q.pc # "idle" => q.p \in Processes
  /\ q.pc \in {"find", "drop"} => q.op = "delete"
  /\ q.pc \in {"create", "policy"} => q.op = "create"
  /\ q.pc \in {"describe", "insert"} => q.op \in {"create", "attach"}
  /\ q.pc \in {"fetch", "put"} => q.op \in {"create", "delete"}
  /\ q.pc = "erase" => q.op = "delete"
  /\ q.op = "delete" => q.row \in RowIds
  /\ q.pc \in {"keys", "store", "create", "describe", "policy", "fetch", "put", "drop",
               "insert"} => q.name \in QueueNames /\ q.ds \in Datastores
  /\ q.keyed => q.name \in QueueNames /\ q.ds \in Datastores

\* Values stay in their sets, and a request has what its next call needs.
TypeOK ==
  /\ existing \subseteq QueueNames
  /\ allowed \in [QueueNames -> SUBSET Buckets]
  /\ config \in [Buckets -> Configuration]
  /\ rows \in [RowIds -> Row \cup {None}]
  /\ keys \in BOOLEAN
  /\ req \in [Requests -> Request]
  /\ \A r \in Requests : Fits(req[r])

\* A queue's entry leaves a bucket's configuration only when that queue is deleted, or
\* in a put whose request another process overtook: within one process get and put
\* are never separated.  Topics and functions keep theirs.
EntriesSurvive ==
  [][\A b \in Buckets :
       /\ \A n \in config[b].queues \ config'[b].queues :
            \E r \in Requests :
              /\ req[r].pc = "put"
              /\ \/ req[r].op = "delete" /\ req[r].name = n
                 \/ req[r].rivals \ {req[r].p} # {}
       /\ config[b].others \cap {"topic", "lambda"} \subseteq config'[b].others]_vars

\* A queue created with notifications and without a warning gets the bucket's events:
\* it exists, its policy admits the bucket, and the bucket names it.
CreatedDelivers ==
  \A r \in Requests :
    LET q == req[r]
    IN  q.pc = "reply" /\ q.op = "create" /\ q.done /\ q.notify /\ ~q.failed /\ q.rivals = {}
          => /\ q.name \in existing
             /\ Bucket(q) \in allowed[q.name]
             /\ q.name \in config[Bucket(q)].queues

\* A queue logged as fully deleted, with both credentials at hand, is gone from SQS and
\* from the bucket.
DeletedIsGone ==
  \A r \in Requests :
    LET q == req[r]
    IN  q.pc = "reply" /\ q.op = "delete" /\ q.done /\ ~q.failed /\ q.keyed /\ q.stored
          /\ q.rivals = {}
          => /\ q.name \notin existing
             /\ q.name \notin config[Bucket(q)].queues
=============================================================================
