----------------------- MODULE QueueProvisioningProofs -----------------------
(***************************************************************************)
(* Proofs about QueueProvisioning, for any number of processes, requests,  *)
(* queues, buckets and rows.                                               *)
(***************************************************************************)
EXTENDS QueueProvisioning, TLAPS

-----------------------------------------------------------------------------
(* The inductive invariant: e, a and c are the queues, their policies and  *)
(* the configurations of the buckets, q is a request.                      *)

Solid == {"topic", "lambda"}

\* Topics and functions are the ones the buckets had before.
SolidKept(c) == \A b \in Buckets : c[b].others \cap Solid = Elsewhere \cap Solid

\* Between get and put, what was read is still so, unless another process came in.
Fresh(c, q) ==
  q.pc = "put" =>
    /\ q.rivals \ {q.p} = {} => q.seen = c[Bucket(q)]
    /\ q.seen.others \cap Solid = Elsewhere \cap Solid

\* What a creation has done so far.
Made(e, a, c, q) ==
  q.op = "create" /\ q.notify /\ ~q.failed /\ q.rivals = {} =>
    /\ q.pc \in {"fetch", "put", "insert"} \/ (q.pc = "reply" /\ q.done)
         => q.name \in e /\ Bucket(q) \in a[q.name]
    /\ q.pc = "insert" \/ (q.pc = "reply" /\ q.done) => q.name \in c[Bucket(q)].queues
    /\ q.pc = "policy" => q.name \in e

\* What a removal has done so far.
Removed(e, c, q) ==
  q.op = "delete" /\ ~q.failed /\ q.keyed /\ q.stored /\ q.rivals = {} =>
    /\ q.pc \in {"drop", "erase"} \/ (q.pc = "reply" /\ q.done)
         => q.name \notin c[Bucket(q)].queues
    /\ q.pc = "erase" \/ (q.pc = "reply" /\ q.done) => q.name \notin e

\* Credentials are found where they are looked for, and only a creation configures.
Early(q) ==
  /\ q.op = "attach" => ~q.notify
  /\ q.pc \in {"find", "keys"} => ~q.keyed
  /\ q.pc \in {"find", "keys", "store"} => ~q.stored /\ q.op # "none"

Good(e, a, c, q) == Fresh(c, q) /\ Made(e, a, c, q) /\ Removed(e, c, q) /\ Early(q)

Inv ==
  /\ TypeOK
  /\ SolidKept(config)
  /\ \A r \in Requests : Good(existing, allowed, config, req[r])

-----------------------------------------------------------------------------
(* Lemmas *)

LEMMA NothingConfigured == Nothing \in Configuration
BY DEF Nothing, Configuration

LEMMA NoRequestGood ==
  /\ NoRequest \in Request /\ Fits(NoRequest) /\ NoRequest.pc = "idle"
  /\ \A e, a, c : Good(e, a, c, NoRequest)
<1>1. NoRequest \in Request
  BY NothingConfigured DEF NoRequest, Request, Labels, Ops
<1>2. Fits(NoRequest) /\ NoRequest.pc = "idle"
  BY DEF NoRequest, Fits
<1>3. \A e, a, c : Good(e, a, c, NoRequest)
  BY DEF NoRequest, Good, Fresh, Made, Removed, Early
<1>4. QED
  BY <1>1, <1>2, <1>3

LEMMA ReqFacts ==
  ASSUME Inv, NEW r \in Requests
  PROVE  /\ req[r] \in Request /\ Fits(req[r])
         /\ Fresh(config, req[r]) /\ Made(existing, allowed, config, req[r])
         /\ Removed(existing, config, req[r]) /\ Early(req[r])
         /\ config \in [Buckets -> Configuration] /\ existing \subseteq QueueNames
         /\ allowed \in [QueueNames -> SUBSET Buckets]
         /\ rows \in [RowIds -> Row \cup {None}] /\ keys \in BOOLEAN
BY DEF Inv, TypeOK, Good

\* One slot changes, and nothing in AWS.
LEMMA OneSlot ==
  ASSUME Inv, NEW r \in Requests, NEW q \in Request, Fits(q),
         Good(existing, allowed, config, q), Put(r, q), UNCHANGED awsVars,
         rows' \in [RowIds -> Row \cup {None}], keys' \in BOOLEAN
  PROVE  Inv'
<1>1. req' \in [Requests -> Request] /\ req \in [Requests -> Request]
  BY DEF Inv, TypeOK, Put
<1>2. \A x \in Requests : req'[x] = IF x = r THEN q ELSE req[x]
  BY <1>1 DEF Put
<1>3. existing' = existing /\ allowed' = allowed /\ config' = config
  BY DEF awsVars
<1>4. \A x \in Requests : Fits(req'[x]) /\ Good(existing, allowed, config, req'[x])
  BY <1>2 DEF Inv, TypeOK
<1>5. TypeOK'
  BY <1>1, <1>3, <1>4 DEF Inv, TypeOK
<1>6. QED
  BY <1>3, <1>4, <1>5 DEF Inv, SolidKept

\* Where a request ends with an error.
LEMMA QuitInv ==
  ASSUME Inv, NEW r \in Requests, req[r].pc # "idle", Quit(r), UNCHANGED <<awsVars, dbVars>>
  PROVE  Inv'
<1>1. req[r].p \in Processes
  BY ReqFacts DEF Fits
<1> DEFINE q == [NoRequest EXCEPT !.pc = "reply", !.p = req[r].p]
<1>2. q \in Request
  BY <1>1, NoRequestGood DEF Request, Labels
<1>3. q.pc = "reply" /\ q.p = req[r].p /\ q.op = "none" /\ q.keyed = FALSE
  BY DEF NoRequest
<1>4. Put(r, q)
  BY DEF Quit
<1> HIDE DEF q
<1>5. Fits(q) /\ Good(existing, allowed, config, q)
  BY <1>1, <1>3 DEF Fits, Good, Fresh, Made, Removed, Early
<1>6. rows' \in [RowIds -> Row \cup {None}] /\ keys' \in BOOLEAN /\ UNCHANGED awsVars
  BY ReqFacts DEF dbVars
<1>7. QED
  BY <1>2, <1>4, <1>5, <1>6, OneSlot

\* r changes something in AWS and goes on as q.
LEMMA Noted ==
  ASSUME Inv, NEW r \in Requests, req[r].pc # "idle", NEW q \in Request, Fits(q),
         HasLoop(r), PutNoting(r, q), UNCHANGED dbVars,
         existing' \subseteq QueueNames, allowed' \in [QueueNames -> SUBSET Buckets],
         config' \in [Buckets -> Configuration], SolidKept(config'),
         Good(existing', allowed', config', q)
  PROVE  Inv'
<1>1. req[r].p \in Processes
  BY ReqFacts DEF Fits
<1>2. ASSUME NEW x \in Requests
      PROVE  req'[x] \in Request /\ Fits(req'[x]) /\ Good(existing', allowed', config', req'[x])
  <2>1. CASE x = r
    BY <2>1 DEF PutNoting
  <2>2. CASE x # r /\ req[x].pc = "idle"
    <3>1. req'[x] = req[x] /\ req[x] \in Request /\ Fits(req[x]) /\ Early(req[x])
      BY <2>2, ReqFacts DEF PutNoting
    <3>2. QED
      BY <3>1, <2>2 DEF Good, Fresh, Made, Removed, Early
  <2>3. CASE x # r /\ req[x].pc # "idle"
    <3> DEFINE d == [req[x] EXCEPT !.rivals = @ \cup {req[r].p}]
    <3>1. req[x] \in Request /\ Fits(req[x]) /\ Fresh(config, req[x]) /\ Early(req[x])
      BY ReqFacts
    <3>2. /\ d \in Request /\ d.pc = req[x].pc /\ d.op = req[x].op /\ d.p = req[x].p
          /\ d.notify = req[x].notify
          /\ d.name = req[x].name /\ d.ds = req[x].ds /\ d.row = req[x].row
          /\ d.keyed = req[x].keyed /\ d.stored = req[x].stored /\ d.seen = req[x].seen
          /\ d.rivals = req[x].rivals \cup {req[r].p}
      BY <1>1, <3>1 DEF Request
    <3>3. req'[x] = d
      BY <2>3 DEF PutNoting
    <3> HIDE DEF d
    <3>4. Fits(d) /\ Early(d)
      BY <3>1, <3>2 DEF Fits, Early
    <3>5. d.rivals # {}
      BY <3>2
    <3>6. d.pc = "put" => d.rivals \ {d.p} # {}
      <4> SUFFICES ASSUME req[x].pc = "put" PROVE req[x].p # req[r].p
        BY <3>2
      <4>1. Midway(req[x])
        BY DEF Midway
      <4>2. QED
        BY <4>1, <2>3 DEF HasLoop
    <3>7. Good(existing', allowed', config', d)
      BY <3>1, <3>2, <3>4, <3>5, <3>6 DEF Good, Fresh, Made, Removed
    <3>8. QED
      BY <3>2, <3>3, <3>4, <3>7
  <2>4. QED
    BY <2>1, <2>2, <2>3
<1>3. req' \in [Requests -> Request]
  <2>1. req' = [x \in Requests |-> req'[x]]
    BY DEF PutNoting
  <2>2. QED
    BY <2>1, <1>2
<1>4. TypeOK'
  BY <1>2, <1>3 DEF Inv, TypeOK, dbVars
<1>5. QED
  BY <1>2, <1>4 DEF Inv

-----------------------------------------------------------------------------
(* One action at a time *)

LEMMA ArriveInv ==
  ASSUME Inv, NEW r \in Requests, Arrive(r)
  PROVE  Inv'
<1>1. rows \in [RowIds -> Row \cup {None}] /\ keys \in BOOLEAN
  BY ReqFacts
<1>2. ASSUME NEW p \in Processes, NEW op \in {"create", "attach"}, NEW n \in QueueNames,
             NEW d \in Datastores, NEW notify \in BOOLEAN, Add(r, p, op, n, d, notify)
      PROVE  Inv'
  <2> DEFINE q == [NoRequest EXCEPT !.pc = "keys", !.op = op, !.p = p, !.name = n,
                                    !.ds = d, !.notify = notify]
  <2>1. q \in Request
    BY NoRequestGood DEF Request, Labels, Ops
  <2>2. /\ q.pc = "keys" /\ q.op = op /\ q.p = p /\ q.name = n /\ q.ds = d
        /\ q.keyed = FALSE /\ q.stored = FALSE /\ q.notify = notify
    BY DEF NoRequest
  <2>3. Put(r, q) /\ UNCHANGED <<awsVars, dbVars>> /\ (op = "attach" => ~notify)
    BY <1>2 DEF Add
  <2> HIDE DEF q
  <2>4. Fits(q) /\ Good(existing, allowed, config, q)
    BY <2>2, <2>3 DEF Fits, Good, Fresh, Made, Removed, Early
  <2>5. QED
    BY <1>1, <2>1, <2>3, <2>4, OneSlot DEF dbVars
<1>3. ASSUME NEW p \in Processes, NEW i \in RowIds, Remove(r, p, i)
      PROVE  Inv'
  <2> DEFINE q == [NoRequest EXCEPT !.pc = "find", !.op = "delete", !.p = p, !.row = i]
  <2>1. q \in Request
    BY NoRequestGood DEF Request, Labels, Ops
  <2>2. /\ q.pc = "find" /\ q.op = "delete" /\ q.p = p /\ q.row = i
        /\ q.keyed = FALSE /\ q.stored = FALSE
    BY DEF NoRequest
  <2>3. Put(r, q) /\ UNCHANGED <<awsVars, dbVars>>
    BY <1>3 DEF Remove
  <2> HIDE DEF q
  <2>4. Fits(q) /\ Good(existing, allowed, config, q)
    BY <2>2 DEF Fits, Good, Fresh, Made, Removed, Early
  <2>5. QED
    BY <1>1, <2>1, <2>3, <2>4, OneSlot DEF dbVars
<1>4. QED
  BY <1>2, <1>3 DEF Arrive

LEMMA FindInv ==
  ASSUME Inv, NEW r \in Requests, Find(r)
  PROVE  Inv'
<1> DEFINE row == rows[req[r].row]
<1>1. /\ req[r] \in Request /\ Fits(req[r]) /\ Early(req[r])
      /\ rows \in [RowIds -> Row \cup {None}] /\ keys \in BOOLEAN
  BY ReqFacts
<1>2. req[r].pc = "find" /\ UNCHANGED <<awsVars, dbVars>>
  BY DEF Find
<1>3. CASE row = None
  <2>1. Quit(r)
    BY <1>3 DEF Find
  <2>2. QED
    BY <1>2, <2>1, QuitInv
<1>4. CASE row # None
  <2>1. req[r].op = "delete" /\ req[r].row \in RowIds
    BY <1>1, <1>2 DEF Fits
  <2>2. row.name \in QueueNames /\ row.ds \in Datastores
    BY <1>1, <1>4, <2>1 DEF Row
  <2> DEFINE q == [req[r] EXCEPT !.pc = "keys", !.name = row.name, !.ds = row.ds]
  <2>3. Put(r, q)
    BY <1>4 DEF Find
  <2> HIDE DEF row
  <2>4. /\ q \in Request /\ q.pc = "keys" /\ q.name = row.name /\ q.ds = row.ds
        /\ q.op = req[r].op /\ q.p = req[r].p /\ q.row = req[r].row /\ q.notify = req[r].notify
        /\ q.keyed = req[r].keyed /\ q.stored = req[r].stored
    BY <1>1, <2>2 DEF Request, Labels
  <2> HIDE DEF q
  <2>5. Fits(q) /\ Good(existing, allowed, config, q)
    BY <1>1, <1>2, <2>1, <2>2, <2>4 DEF Fits, Good, Fresh, Made, Removed, Early
  <2>6. QED
    BY <1>1, <1>2, <2>3, <2>4, <2>5, OneSlot DEF dbVars
<1>5. QED
  BY <1>3, <1>4

\* A request takes its credentials, or goes on without them.
LEMMA CredentialsInv ==
  ASSUME Inv, NEW r \in Requests, Keys(r) \/ Store(r)
  PROVE  Inv'
<1>1. /\ req[r] \in Request /\ Fits(req[r]) /\ Early(req[r])
      /\ rows \in [RowIds -> Row \cup {None}] /\ keys \in BOOLEAN
  BY ReqFacts
<1>2. req[r].pc \in {"keys", "store"} /\ UNCHANGED <<awsVars, dbVars>>
  BY DEF Keys, Store
<1>3. ASSUME NEW d \in Request, Fits(d), Good(existing, allowed, config, d), Put(r, d)
      PROVE  Inv'
  BY <1>1, <1>2, <1>3, OneSlot DEF dbVars
<1>4. CASE Quit(r)
  BY <1>2, <1>4, QuitInv
<1>5. CASE req[r].pc = "keys" /\ Put(r, [req[r] EXCEPT !.keyed = TRUE, !.pc = "store"])
  <2> DEFINE d == [req[r] EXCEPT !.keyed = TRUE, !.pc = "store"]
  <2>1. /\ d \in Request /\ d.pc = "store" /\ d.op = req[r].op /\ d.p = req[r].p /\ d.notify = req[r].notify
        /\ d.name = req[r].name /\ d.ds = req[r].ds /\ d.row = req[r].row
        /\ d.stored = req[r].stored
    BY <1>1 DEF Request, Labels
  <2> HIDE DEF d
  <2>2. Fits(d) /\ Good(existing, allowed, config, d)
    BY <1>1, <1>5, <2>1 DEF Fits, Good, Fresh, Made, Removed, Early
  <2>3. QED
    BY <1>3, <1>5, <2>1, <2>2 DEF d
<1>6. CASE req[r].pc = "keys" /\ req[r].op = "delete" /\ Goto(r, "erase")
  <2> DEFINE d == [req[r] EXCEPT !.pc = "erase"]
  <2>1. /\ d \in Request /\ d.pc = "erase" /\ d.op = req[r].op /\ d.p = req[r].p /\ d.notify = req[r].notify
        /\ d.name = req[r].name /\ d.ds = req[r].ds /\ d.row = req[r].row
        /\ d.keyed = req[r].keyed
    BY <1>1 DEF Request, Labels
  <2> HIDE DEF d
  <2>2. Fits(d) /\ Good(existing, allowed, config, d)
    BY <1>1, <1>6, <2>1 DEF Fits, Good, Fresh, Made, Removed, Early
  <2>3. QED
    BY <1>3, <1>6, <2>1, <2>2 DEF d, Goto
<1>7. CASE req[r].pc = "store" /\ Put(r, [req[r] EXCEPT !.stored = TRUE, !.pc = FirstCall(req[r])])
  <2> DEFINE first == FirstCall(req[r])
             d == [req[r] EXCEPT !.stored = TRUE, !.pc = first]
  <2>1. /\ first \in {"create", "describe", "fetch"}
        /\ first = "create" => req[r].op = "create"
        /\ first = "describe" => req[r].op = "attach"
        /\ first = "fetch" => req[r].op \notin {"create", "attach"}
    BY DEF FirstCall
  <2>2. Put(r, d)
    BY <1>7
  <2> HIDE DEF first
  <2>3. /\ d \in Request /\ d.pc = first /\ d.op = req[r].op /\ d.p = req[r].p /\ d.notify = req[r].notify
        /\ d.name = req[r].name /\ d.ds = req[r].ds /\ d.row = req[r].row
        /\ d.keyed = req[r].keyed
    BY <1>1, <2>1 DEF Request, Labels
  <2> HIDE DEF d
  <2>4. req[r].op \in {"create", "attach", "delete"}
    BY <1>1, <1>7 DEF Early, Request, Ops
  <2>5. Fits(d) /\ Good(existing, allowed, config, d)
    BY <1>1, <1>7, <2>1, <2>3, <2>4 DEF Fits, Good, Fresh, Made, Removed, Early
  <2>6. QED
    BY <1>3, <2>2, <2>3, <2>5
<1>8. CASE req[r].pc = "store" /\ req[r].op = "delete" /\ Goto(r, "drop")
  <2> DEFINE d == [req[r] EXCEPT !.pc = "drop"]
  <2>1. /\ d \in Request /\ d.pc = "drop" /\ d.op = req[r].op /\ d.p = req[r].p /\ d.notify = req[r].notify
        /\ d.name = req[r].name /\ d.ds = req[r].ds /\ d.row = req[r].row
        /\ d.stored = req[r].stored /\ d.keyed = req[r].keyed
    BY <1>1 DEF Request, Labels
  <2> HIDE DEF d
  <2>2. Fits(d) /\ Good(existing, allowed, config, d)
    BY <1>1, <1>8, <2>1 DEF Fits, Good, Fresh, Made, Removed, Early
  <2>3. QED
    BY <1>3, <1>8, <2>1, <2>2 DEF d, Goto
<1>9. QED
  BY <1>4, <1>5, <1>6, <1>7, <1>8 DEF Keys, Store

\* Calls that change nothing in AWS.
LEMMA AskAwsInv ==
  ASSUME Inv, NEW r \in Requests,
         DescribeQueue(r) \/ Fetch(r) \/ ConfigFails(r) \/ DropFails(r)
  PROVE  Inv'
<1> DEFINE q == req[r]
<1>1. /\ q \in Request /\ Fits(q) /\ Early(q)
      /\ Fresh(config, q) /\ Made(existing, allowed, config, q) /\ Removed(existing, config, q)
      /\ rows \in [RowIds -> Row \cup {None}] /\ keys \in BOOLEAN
      /\ config \in [Buckets -> Configuration]
  BY ReqFacts
<1>2. UNCHANGED <<awsVars, dbVars>>
  BY DEF DescribeQueue, Fetch, ConfigFails, DropFails
<1>3. ASSUME NEW d \in Request, Fits(d), Good(existing, allowed, config, d), Put(r, d)
      PROVE  Inv'
  BY <1>1, <1>2, <1>3, OneSlot DEF dbVars
<1>4. CASE DescribeQueue(r)
  <2> DEFINE l == IF q.notify THEN "policy" ELSE "insert"
             d == [q EXCEPT !.pc = l]
  <2>1. q.pc = "describe" /\ q.name \in existing /\ Put(r, d) /\ q.op \in {"create", "attach"}
    BY <1>1, <1>4 DEF DescribeQueue, Goto, Fits
  <2>2. q.op = "create" \/ q.op = "attach"
    BY <2>1
  <2>3. /\ d \in Request /\ d.pc = l /\ d.op = q.op /\ d.p = q.p /\ d.notify = q.notify
        /\ d.name = q.name /\ d.ds = q.ds /\ d.row = q.row /\ d.keyed = q.keyed
    BY <1>1 DEF Request, Labels
  <2> HIDE DEF d
  <2>4. Good(existing, allowed, config, d)
    <3>1. l = "policy" \/ (l = "insert" /\ ~q.notify)
      BY <1>1 DEF Request
    <3> HIDE DEF l
    <3>2. QED
      BY <1>1, <2>1, <2>3, <3>1 DEF Good, Fresh, Made, Removed, Early
  <2>5. Fits(d)
    <3>1. q.notify => q.op = "create"
      BY <1>1, <2>2 DEF Early
    <3>2. l = "insert" \/ (l = "policy" /\ q.op = "create")
      BY <3>1
    <3> HIDE DEF l
    <3>3. QED
      BY <1>1, <2>1, <2>2, <2>3, <3>2 DEF Fits
  <2>6. QED
    BY <1>3, <2>1, <2>3, <2>4, <2>5 DEF d
<1>5. CASE Fetch(r)
  <2> DEFINE d == [q EXCEPT !.pc = "put", !.seen = config[Bucket(q)]]
  <2>1. q.pc = "fetch" /\ Put(r, d)
    BY <1>5 DEF Fetch
  <2>2. q.ds \in Datastores /\ Bucket(q) \in Buckets
    BY <1>1, <2>1, ProvisioningAssumption DEF Fits, Bucket
  <2>3. config[Bucket(q)] \in Configuration
    BY <1>1, <2>2
  <2>4. /\ d \in Request /\ d.pc = "put" /\ d.op = q.op /\ d.p = q.p /\ d.notify = q.notify
        /\ d.name = q.name /\ d.ds = q.ds /\ d.row = q.row /\ d.keyed = q.keyed
        /\ d.failed = q.failed /\ d.rivals = q.rivals /\ d.seen = config[Bucket(q)]
    BY <1>1, <2>3 DEF Request, Labels
  <2> HIDE DEF d
  <2>5. Fits(d)
    BY <1>1, <2>1, <2>4 DEF Fits
  <2>6. Bucket(d) = Bucket(q)
    BY <2>4 DEF Bucket
  <2>7. d.seen.others \cap Solid = Elsewhere \cap Solid
    BY <2>2, <2>4 DEF Inv, SolidKept
  <2>8. Good(existing, allowed, config, d)
    BY <1>1, <2>1, <2>4, <2>6, <2>7 DEF Good, Fresh, Made, Removed, Early
  <2>9. QED
    BY <1>3, <2>1, <2>4, <2>5, <2>8
<1>6. CASE ConfigFails(r)
  <2> DEFINE l == AfterConfig(q)
             d == [q EXCEPT !.pc = l, !.seen = Nothing, !.failed = TRUE]
  <2>1. q.pc \in {"fetch", "put"} /\ Put(r, d)
    BY <1>6 DEF ConfigFails
  <2>2. q.op \in {"create", "delete"} /\ l = (IF q.op = "create" THEN "insert" ELSE "drop")
    BY <1>1, <2>1 DEF Fits, AfterConfig
  <2>3. /\ d \in Request /\ d.pc = l /\ d.op = q.op /\ d.p = q.p /\ d.notify = q.notify
        /\ d.name = q.name /\ d.ds = q.ds /\ d.row = q.row /\ d.keyed = q.keyed
        /\ d.failed = TRUE
    BY <1>1, <2>2, NothingConfigured DEF Request, Labels
  <2> HIDE DEF d, l
  <2>4. Fits(d) /\ Good(existing, allowed, config, d)
    BY <1>1, <2>1, <2>2, <2>3 DEF Fits, Good, Fresh, Made, Removed, Early
  <2>5. QED
    BY <1>3, <2>1, <2>3, <2>4
<1>7. CASE DropFails(r)
  <2> DEFINE d == [q EXCEPT !.pc = "erase", !.failed = TRUE]
  <2>1. q.pc = "drop" /\ Put(r, d)
    BY <1>7 DEF DropFails
  <2>2. /\ d \in Request /\ d.pc = "erase" /\ d.op = q.op /\ d.p = q.p /\ d.notify = q.notify
        /\ d.name = q.name /\ d.ds = q.ds /\ d.row = q.row /\ d.keyed = q.keyed
        /\ d.failed = TRUE
    BY <1>1 DEF Request, Labels
  <2> HIDE DEF d
  <2>3. Fits(d) /\ Good(existing, allowed, config, d)
    BY <1>1, <2>1, <2>2 DEF Fits, Good, Fresh, Made, Removed, Early
  <2>4. QED
    BY <1>3, <2>1, <2>2, <2>3
<1>8. QED
  BY <1>4, <1>5, <1>6, <1>7

\* Calls that change something in AWS.
LEMMA CreateQueueInv ==
  ASSUME Inv, NEW r \in Requests, CreateQueue(r)
  PROVE  Inv'
<1> DEFINE q == req[r]
           d == [q EXCEPT !.pc = "describe"]
<1>1. /\ q \in Request /\ Fits(q) /\ existing \subseteq QueueNames
      /\ allowed \in [QueueNames -> SUBSET Buckets] /\ config \in [Buckets -> Configuration]
  BY ReqFacts
<1>2. /\ q.pc = "create" /\ HasLoop(r) /\ existing' = existing \cup {q.name}
      /\ PutNoting(r, d) /\ UNCHANGED <<allowed, config, dbVars>>
  BY DEF CreateQueue
<1>3. q.name \in QueueNames /\ q.op = "create"
  BY <1>1, <1>2 DEF Fits
<1>4. /\ d \in Request /\ d.pc = "describe" /\ d.op = q.op /\ d.p = q.p /\ d.notify = q.notify
      /\ d.name = q.name /\ d.ds = q.ds /\ d.row = q.row /\ d.keyed = q.keyed
  BY <1>1 DEF Request, Labels
<1> HIDE DEF d
<1>5. Fits(d) /\ Good(existing', allowed', config', d)
  BY <1>1, <1>2, <1>3, <1>4 DEF Fits, Good, Fresh, Made, Removed, Early
<1>6. SolidKept(config') /\ UNCHANGED dbVars /\ existing' \subseteq QueueNames
  BY <1>1, <1>2, <1>3 DEF Inv, SolidKept
<1>7. QED
  BY <1>1, <1>2, <1>4, <1>5, <1>6, Noted

LEMMA ConfigureQueueInv ==
  ASSUME Inv, NEW r \in Requests, ConfigureQueue(r)
  PROVE  Inv'
<1> DEFINE q == req[r]
           d == [q EXCEPT !.pc = "fetch"]
<1>1. /\ q \in Request /\ Fits(q) /\ existing \subseteq QueueNames
      /\ allowed \in [QueueNames -> SUBSET Buckets] /\ config \in [Buckets -> Configuration]
      /\ Made(existing, allowed, config, q)
  BY ReqFacts
<1>2. /\ q.pc = "policy" /\ HasLoop(r) /\ allowed' = [allowed EXCEPT ![q.name] = {Bucket(q)}]
      /\ PutNoting(r, d) /\ UNCHANGED <<existing, config, dbVars>> /\ q.name \in existing
  BY DEF ConfigureQueue
<1>3. q.name \in QueueNames /\ q.op = "create" /\ q.ds \in Datastores
  BY <1>1, <1>2 DEF Fits
<1>4. Bucket(q) \in Buckets
  BY <1>3, ProvisioningAssumption DEF Bucket
<1>5. allowed' \in [QueueNames -> SUBSET Buckets] /\ Bucket(q) \in allowed'[q.name]
  BY <1>1, <1>2, <1>3, <1>4
<1>6. /\ d \in Request /\ d.pc = "fetch" /\ d.op = q.op /\ d.p = q.p /\ d.notify = q.notify
      /\ d.name = q.name /\ d.ds = q.ds /\ d.row = q.row /\ d.keyed = q.keyed
  BY <1>1 DEF Request, Labels
<1> HIDE DEF d
<1>7. Bucket(d) = Bucket(q)
  BY <1>6 DEF Bucket
<1>8. Fits(d) /\ Good(existing', allowed', config', d)
  BY <1>1, <1>2, <1>3, <1>5, <1>6, <1>7 DEF Fits, Good, Fresh, Made, Removed, Early
<1>9. SolidKept(config') /\ UNCHANGED dbVars
  BY <1>2 DEF Inv, SolidKept
<1>10. QED
  BY <1>1, <1>2, <1>5, <1>6, <1>8, <1>9, Noted

\* What a put writes.
LEMMA RebuiltFacts ==
  ASSUME Inv, NEW r \in Requests, req[r].pc = "put"
  PROVE  /\ Rebuilt(req[r]) \in Configuration
         /\ Rebuilt(req[r]).others \cap Solid = Elsewhere \cap Solid
         /\ Rebuilt(req[r]).queues = IF req[r].op = "create" THEN req[r].seen.queues \cup {req[r].name}
                                     ELSE req[r].seen.queues \ {req[r].name}
         /\ Bucket(req[r]) \in Buckets /\ req[r].op \in {"create", "delete"}
         /\ req[r].name \in QueueNames
<1> DEFINE q == req[r]
<1>1. q \in Request /\ Fits(q) /\ Fresh(config, q)
  BY ReqFacts
<1>2. q.seen \in Configuration /\ q.name \in QueueNames /\ q.ds \in Datastores
      /\ q.op \in {"create", "delete"}
  BY <1>1 DEF Request, Fits
<1>3. Rebuilt(q) \in Configuration
  BY <1>2 DEF Rebuilt, Carried, Configuration
<1>4. q.seen.others \cap Solid = Elsewhere \cap Solid
  BY <1>1 DEF Fresh
<1>5. Rebuilt(q).others = q.seen.others \ {"bridge"}
  BY DEF Rebuilt, Carried
<1>6. Rebuilt(q).others \cap Solid = Elsewhere \cap Solid
  BY <1>4, <1>5 DEF Solid
<1>7. Rebuilt(q).queues = IF q.op = "create" THEN q.seen.queues \cup {q.name}
                          ELSE q.seen.queues \ {q.name}
  BY DEF Rebuilt
<1>8. QED
  BY <1>2, <1>3, <1>6, <1>7, ProvisioningAssumption DEF Bucket

LEMMA PutConfigInv ==
  ASSUME Inv, NEW r \in Requests, PutConfig(r)
  PROVE  Inv'
<1> DEFINE q == req[r]
           b == Bucket(q)
           l == AfterConfig(q)
           d == [q EXCEPT !.pc = l, !.seen = Nothing]
<1>1. /\ q \in Request /\ Fits(q) /\ existing \subseteq QueueNames
      /\ allowed \in [QueueNames -> SUBSET Buckets] /\ config \in [Buckets -> Configuration]
      /\ Made(existing, allowed, config, q)
  BY ReqFacts
<1>2. /\ q.pc = "put" /\ HasLoop(r) /\ config' = [config EXCEPT ![b] = Rebuilt(q)]
      /\ PutNoting(r, d) /\ UNCHANGED <<existing, allowed, dbVars>>
  BY DEF PutConfig
<1>3. /\ Rebuilt(q) \in Configuration
      /\ Rebuilt(q).others \cap Solid = Elsewhere \cap Solid
      /\ Rebuilt(q).queues = IF q.op = "create" THEN q.seen.queues \cup {q.name}
                             ELSE q.seen.queues \ {q.name}
      /\ b \in Buckets /\ q.op \in {"create", "delete"} /\ q.name \in QueueNames
  BY <1>2, RebuiltFacts
<1>4. /\ config' \in [Buckets -> Configuration] /\ config'[b] = Rebuilt(q)
      /\ SolidKept(config')
  BY <1>1, <1>2, <1>3 DEF Inv, SolidKept
<1>5. l = IF q.op = "create" THEN "insert" ELSE "drop"
  BY DEF AfterConfig
<1> HIDE DEF l
<1>6. /\ d \in Request /\ d.pc = l /\ d.op = q.op /\ d.p = q.p /\ d.notify = q.notify
      /\ d.name = q.name /\ d.ds = q.ds /\ d.row = q.row /\ d.keyed = q.keyed
      /\ d.failed = q.failed /\ d.rivals = q.rivals
  BY <1>1, <1>5, NothingConfigured DEF Request, Labels
<1>7. Fits(d)
  BY <1>1, <1>2, <1>3, <1>5, <1>6 DEF Fits
<1>8. Bucket(d) = b
  BY <1>6 DEF Bucket
<1> HIDE DEF d, b
<1>9. Made(existing', allowed', config', d)
  <2>1. q.op = "create" => q.name \in config'[b].queues
    BY <1>3, <1>4
  <2>2. Bucket(q) = b
    BY DEF b
  <2>3. QED
    BY <1>1, <1>2, <1>5, <1>6, <1>8, <2>1, <2>2 DEF Made
<1>10. Removed(existing', config', d)
  <2>1. q.op = "delete" => q.name \notin config'[b].queues
    BY <1>3, <1>4
  <2>2. QED
    BY <1>5, <1>6, <1>8, <2>1 DEF Removed
<1>11. Good(existing', allowed', config', d)
  BY <1>3, <1>5, <1>6, <1>9, <1>10 DEF Good, Fresh, Early
<1>12. QED
  BY <1>1, <1>2, <1>4, <1>6, <1>7, <1>11, Noted

LEMMA DropQueueInv ==
  ASSUME Inv, NEW r \in Requests, DropQueue(r)
  PROVE  Inv'
<1> DEFINE q == req[r]
           d == [q EXCEPT !.pc = "erase"]
<1>1. /\ q \in Request /\ Fits(q) /\ existing \subseteq QueueNames
      /\ allowed \in [QueueNames -> SUBSET Buckets] /\ config \in [Buckets -> Configuration]
      /\ Removed(existing, config, q)
  BY ReqFacts
<1>2. /\ q.pc = "drop" /\ HasLoop(r) /\ existing' = existing \ {q.name}
      /\ allowed' = [allowed EXCEPT ![q.name] = {}]
      /\ PutNoting(r, d) /\ UNCHANGED <<config, dbVars>>
  BY DEF DropQueue
<1>3. q.op = "delete" /\ q.name \in QueueNames
  BY <1>1, <1>2 DEF Fits
<1>4. /\ d \in Request /\ d.pc = "erase" /\ d.op = q.op /\ d.p = q.p /\ d.notify = q.notify
      /\ d.name = q.name /\ d.ds = q.ds /\ d.row = q.row /\ d.keyed = q.keyed
      /\ d.stored = q.stored /\ d.failed = q.failed /\ d.rivals = q.rivals
  BY <1>1 DEF Request, Labels
<1> HIDE DEF d
<1>5. Bucket(d) = Bucket(q)
  BY <1>4 DEF Bucket
<1>6. Fits(d) /\ Good(existing', allowed', config', d)
  BY <1>1, <1>2, <1>3, <1>4, <1>5 DEF Fits, Good, Fresh, Made, Removed, Early
<1>7. /\ SolidKept(config') /\ UNCHANGED dbVars /\ existing' \subseteq QueueNames
      /\ allowed' \in [QueueNames -> SUBSET Buckets]
  BY <1>1, <1>2, <1>3 DEF Inv, SolidKept
<1>8. QED
  BY <1>1, <1>2, <1>4, <1>6, <1>7, Noted

\* The rows.
LEMMA RowInv ==
  ASSUME Inv, NEW r \in Requests, Insert(r) \/ Erase(r)
  PROVE  Inv'
<1> DEFINE q == req[r]
           d == [q EXCEPT !.pc = "reply", !.done = TRUE]
<1>1. /\ q \in Request /\ Fits(q) /\ Made(existing, allowed, config, q)
      /\ Removed(existing, config, q) /\ Early(q)
      /\ rows \in [RowIds -> Row \cup {None}] /\ keys \in BOOLEAN
  BY ReqFacts
<1>2. q.pc \in {"insert", "erase"} /\ Put(r, d) /\ UNCHANGED awsVars /\ UNCHANGED keys
  BY DEF Insert, Erase
<1>3. rows' \in [RowIds -> Row \cup {None}]
  <2>1. CASE Insert(r)
    <3>1. PICK i \in RowIds : rows' = [rows EXCEPT ![i] = [name |-> q.name, ds |-> q.ds]]
      BY <2>1 DEF Insert
    <3>2. [name |-> q.name, ds |-> q.ds] \in Row
      BY <1>1, <2>1 DEF Insert, Fits, Row
    <3>3. QED
      BY <1>1, <3>1, <3>2
  <2>2. CASE Erase(r)
    BY <1>1, <2>2 DEF Erase
  <2>3. QED
    BY <2>1, <2>2
<1>4. /\ d \in Request /\ d.pc = "reply" /\ d.op = q.op /\ d.p = q.p /\ d.notify = q.notify
      /\ d.name = q.name /\ d.ds = q.ds /\ d.row = q.row /\ d.keyed = q.keyed
      /\ d.stored = q.stored /\ d.failed = q.failed /\ d.rivals = q.rivals
  BY <1>1 DEF Request, Labels
<1> HIDE DEF d
<1>5. Bucket(d) = Bucket(q)
  BY <1>4 DEF Bucket
<1>6. (q.pc = "insert" /\ q.op \in {"create", "attach"}) \/ (q.pc = "erase" /\ q.op = "delete")
  BY <1>1, <1>2 DEF Fits
<1>7. Fits(d)
  BY <1>1, <1>2, <1>4 DEF Fits
<1>8. Made(existing, allowed, config, d) /\ Removed(existing, config, d)
  BY <1>1, <1>4, <1>5, <1>6 DEF Made, Removed
<1>9. Good(existing, allowed, config, d)
  BY <1>1, <1>4, <1>8 DEF Good, Fresh, Early
<1>10. QED
  BY <1>1, <1>2, <1>3, <1>4, <1>7, <1>9, OneSlot

\* A request ends.
LEMMA EndInv ==
  ASSUME Inv, NEW r \in Requests, Fail(r) \/ Reply(r)
  PROVE  Inv'
<1>1. rows \in [RowIds -> Row \cup {None}] /\ keys \in BOOLEAN
  BY ReqFacts
<1>2. CASE Fail(r)
  BY <1>2, QuitInv DEF Fail
<1>3. CASE Reply(r)
  BY <1>1, <1>3, NoRequestGood, OneSlot DEF Reply, dbVars
<1>4. QED
  BY <1>2, <1>3

LEMMA RestartInv ==
  ASSUME Inv, NEW p \in Processes, Restart(p)
  PROVE  Inv'
<1>1. /\ req' = [r \in Requests |-> IF req[r].p = p THEN NoRequest ELSE req[r]]
      /\ UNCHANGED <<existing, allowed, config, rows, keys>>
  BY DEF Restart, awsVars, dbVars
<1>2. \A r \in Requests :
        req'[r] \in Request /\ Fits(req'[r]) /\ Good(existing, allowed, config, req'[r])
  BY <1>1, NoRequestGood DEF Inv, TypeOK
<1>3. req' \in [Requests -> Request]
  <2>1. req' = [r \in Requests |-> req'[r]]
    BY <1>1
  <2>2. QED
    BY <2>1, <1>2
<1>4. TypeOK'
  BY <1>1, <1>2, <1>3 DEF Inv, TypeOK
<1>5. QED
  BY <1>1, <1>2, <1>4 DEF Inv, SolidKept

LEMMA KeysInv ==
  ASSUME Inv, SaveKeys \/ DeleteKeys
  PROVE  Inv'
<1>1. UNCHANGED <<existing, allowed, config, rows, req>> /\ keys' \in BOOLEAN
  BY DEF SaveKeys, DeleteKeys, awsVars
<1>2. TypeOK'
  BY <1>1 DEF Inv, TypeOK
<1>3. QED
  BY <1>1, <1>2 DEF Inv, SolidKept

LEMMA InitInv == Init => Inv
<1> SUFFICES ASSUME Init PROVE Inv
  OBVIOUS
<1>1. \A r \in Requests : req[r] = NoRequest
  BY DEF Init
<1>2. [queues |-> {}, others |-> Elsewhere] \in Configuration
  BY ProvisioningAssumption DEF Configuration
<1>3. TypeOK
  BY <1>2, NoRequestGood DEF Init, TypeOK
<1>4. SolidKept(config)
  BY DEF Init, SolidKept
<1>5. QED
  BY <1>1, <1>3, <1>4, NoRequestGood DEF Inv

LEMMA NextInv == Inv /\ [Next]_vars => Inv'
<1> SUFFICES ASSUME Inv, [Next]_vars PROVE Inv'
  OBVIOUS
<1>1. ASSUME NEW r \in Requests, Arrive(r) \/ Step(r) PROVE Inv'
  BY <1>1, ArriveInv, FindInv, CredentialsInv, AskAwsInv, CreateQueueInv, ConfigureQueueInv,
     PutConfigInv, DropQueueInv, RowInv, EndInv DEF Step
<1>2. ASSUME NEW p \in Processes, Restart(p) PROVE Inv'
  BY <1>2, RestartInv
<1>3. CASE SaveKeys \/ DeleteKeys
  BY <1>3, KeysInv
<1>4. CASE UNCHANGED vars
  <2>1. UNCHANGED <<existing, allowed, config, rows, keys, req>>
    BY <1>4 DEF vars
  <2>2. TypeOK'
    BY <2>1 DEF Inv, TypeOK
  <2>3. QED
    BY <2>1, <2>2 DEF Inv, SolidKept
<1>5. QED
  BY <1>1, <1>2, <1>3, <1>4 DEF Next

\* Every reachable state satisfies the inductive invariant.
THEOREM InvHolds == Spec => []Inv
BY InitInv, NextInv, PTL DEF Spec

-----------------------------------------------------------------------------
(* What it implies *)

\* TypeOK: values stay in their sets, and no request of the sqs routes comes to a call
\* without the queue, datastore or row it is about.
THEOREM TypeCorrect == Spec => []TypeOK
<1>1. Inv => TypeOK
  BY DEF Inv
<1>2. QED
  BY <1>1, InvHolds, PTL

\* CreatedDelivers: add_sqs_queue reports success only for a queue that is there, admits
\* its bucket and is named by it.
THEOREM CreationDelivers == Spec => []CreatedDelivers
<1>1. Inv => CreatedDelivers
  BY DEF Inv, Good, Made, CreatedDelivers
<1>2. QED
  BY <1>1, InvHolds, PTL

\* DeletedIsGone: delete_sqs_queue, with credentials and no error, leaves neither the
\* queue nor its entry.
THEOREM DeletionCleans == Spec => []DeletedIsGone
<1>1. Inv => DeletedIsGone
  BY DEF Inv, Good, Removed, DeletedIsGone
<1>2. QED
  BY <1>1, InvHolds, PTL

\* Only a put changes a configuration.
LEMMA OthersLeaveConfig ==
  ASSUME Next, \A r \in Requests : ~PutConfig(r)
  PROVE  config' = config
<1>1. ASSUME NEW r \in Requests, Arrive(r) PROVE config' = config
  BY <1>1 DEF Arrive, Add, Remove, awsVars
<1>2. ASSUME NEW r \in Requests, Step(r) PROVE config' = config
  BY <1>2 DEF Step, Find, Keys, Store, CreateQueue, DescribeQueue, ConfigureQueue, Fetch,
     ConfigFails, DropQueue, DropFails, Insert, Erase, Fail, Reply, awsVars
<1>3. QED
  BY <1>1, <1>2 DEF Next, Restart, SaveKeys, DeleteKeys, awsVars

\* EntriesSurvive: the get and put of add_sqs_notification and remove_sqs_notification
\* lose no other queue's entry, unless another process comes between them.
THEOREM EntriesKept == Spec => EntriesSurvive
<1> DEFINE Kept(b) ==
             /\ \A n \in config[b].queues \ config'[b].queues :
                  \E r \in Requests :
                    /\ req[r].pc = "put"
                    /\ \/ req[r].op = "delete" /\ req[r].name = n
                       \/ req[r].rivals \ {req[r].p} # {}
             /\ config[b].others \cap Solid \subseteq config'[b].others
<1>1. ASSUME Inv, [Next]_vars, NEW b \in Buckets PROVE Kept(b)
  <2>1. CASE config' = config
    BY <2>1
  <2>2. ASSUME NEW r \in Requests, PutConfig(r) PROVE Kept(b)
    <3> DEFINE q == req[r]
    <3>1. q.pc = "put" /\ config' = [config EXCEPT ![Bucket(q)] = Rebuilt(q)]
      BY <2>2 DEF PutConfig
    <3>2. /\ Rebuilt(q).others \cap Solid = Elsewhere \cap Solid
          /\ Rebuilt(q).queues = IF q.op = "create" THEN q.seen.queues \cup {q.name}
                                 ELSE q.seen.queues \ {q.name}
          /\ Bucket(q) \in Buckets /\ q.op \in {"create", "delete"}
      BY <1>1, <3>1, RebuiltFacts
    <3>3. Fresh(config, q) /\ config \in [Buckets -> Configuration]
      BY <1>1, ReqFacts
    <3>4. CASE b # Bucket(q)
      <4>1. config'[b] = config[b]
        BY <3>1, <3>3, <3>4
      <4>2. QED
        BY <4>1
    <3>5. CASE b = Bucket(q)
      <4>1. config'[b] = Rebuilt(q)
        BY <3>1, <3>3, <3>5
      <4>2. config[b].others \cap Solid \subseteq config'[b].others
        BY <1>1, <3>2, <4>1 DEF Inv, SolidKept
      <4>3. ASSUME NEW n \in config[b].queues \ config'[b].queues, q.rivals \ {q.p} = {}
            PROVE  q.op = "delete" /\ q.name = n
        <5>1. q.seen = config[b]
          BY <4>3, <3>1, <3>3, <3>5 DEF Fresh
        <5>2. n \in q.seen.queues /\ n \notin Rebuilt(q).queues
          BY <4>1, <4>3, <5>1
        <5>3. QED
          BY <3>2, <5>2
      <4>4. QED
        BY <3>1, <4>2, <4>3
    <3>6. QED
      BY <3>4, <3>5
  <2>3. QED
    BY <1>1, <2>1, <2>2, OthersLeaveConfig DEF vars
<1>2. Inv /\ [Next]_vars => [\A b \in Buckets : Kept(b)]_vars
  BY <1>1
<1>3. QED
  BY <1>2, InvHolds, PTL DEF Spec, EntriesSurvive, Solid
=============================================================================
