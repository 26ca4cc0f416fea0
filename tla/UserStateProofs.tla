-------------------------- MODULE UserStateProofs --------------------------
(***************************************************************************)
(* Proofs about UserState, for any set of processes, concurrent requests   *)
(* and datastores and any contents of the forms.                           *)
(***************************************************************************)
EXTENDS UserState, TLAPS

LEMMA NoneIsApart == /\ None \notin Records /\ None \notin Tokens
                     /\ None \notin Hosts /\ None \notin Datastores
  BY UserStateAssumption

LEMMA RowTypes == NoRows \in RowSet /\ NoRequest \in Request /\ Fits(NoRequest)
<1>1. NoRows \in RowSet
  BY DEF NoRows, RowSet
<1>2. NoRequest \in Request
  BY <1>1 DEF NoRequest, Request, Labels, Ops
<1>3. QED
  BY <1>1, <1>2 DEF NoRequest, Fits, LoadLabels, SaveLabels, RemoveLabels, HydrateLabels

LEMMA MergeTypes ==
  ASSUME NEW new \in RowSet, NEW old \in RowSet
  PROVE  Merged(new, old) \in RowSet
  BY DEF Merged, Over, RowSet

LEMMA InitTypes == Init => TypeOK
  BY RowTypes DEF Init, TypeOK, TablesTypeOK, MemoryTypeOK, RequestsTypeOK, HistoryTypeOK

\* One slot changes: what the new request fits is all there is to see.
LEMMA OneSlot ==
  ASSUME RequestsTypeOK, NEW r \in Requests, NEW q \in Request, Fits(q),
         req' = [req EXCEPT ![r] = q]
  PROVE  RequestsTypeOK'
<1>1. req' \in [Requests -> Request]
  BY DEF RequestsTypeOK
<1>2. \A x \in Requests : req'[x] = IF x = r THEN q ELSE req[x]
  BY DEF RequestsTypeOK
<1>3. \A x \in Requests : Fits(req'[x])
  BY <1>2 DEF RequestsTypeOK
<1>4. QED
  BY <1>1, <1>3 DEF RequestsTypeOK, Fits

\* The same of a step that only moves to another label.
LEMMA OneLabel ==
  ASSUME RequestsTypeOK, NEW r \in Requests, NEW label \in Labels,
         Goto(r, label), Fits([req[r] EXCEPT !.pc = label])
  PROVE  RequestsTypeOK'
<1>1. [req[r] EXCEPT !.pc = label] \in Request
  BY DEF RequestsTypeOK, Request
<1>2. req' = [req EXCEPT ![r] = [req[r] EXCEPT !.pc = label]]
  BY DEF Goto
<1>3. QED
  BY <1>1, <1>2, OneSlot

LEMMA HydrateTypes ==
  ASSUME RequestsTypeOK, NEW r \in Requests, NEW q \in Request, NEW mine,
         q.p \in Processes, q.op \in {"page", "remove"}, q.ds \in Datastores,
         q.answer = "none", Hydrate(r, q, mine)
  PROVE  RequestsTypeOK'
<1> DEFINE answered == [q EXCEPT !.pc = "reply", !.answer = Answer(mine, q.ds)]
           reading  == [q EXCEPT !.pc = "readHost"]
<1>1. answered \in Request /\ Fits(answered)
  <2>1. Answer(mine, q.ds) \in {"hit", "miss"}
    BY DEF Answer
  <2>2. answered \in Request
    BY <2>1 DEF Request, Labels
  <2>3. answered.pc = "reply" /\ answered.p = q.p
    BY DEF Request
  <2>4. QED
    BY <2>2, <2>3 DEF Fits, LoadLabels, SaveLabels, RemoveLabels, HydrateLabels
<1>2. reading \in Request /\ Fits(reading)
  BY DEF Request, Fits, Labels, LoadLabels, SaveLabels, RemoveLabels, HydrateLabels
<1>3. CASE q.p \in hydrated
  BY <1>1, <1>3, OneSlot DEF Hydrate
<1>4. CASE q.p \notin hydrated
  BY <1>2, <1>4, OneSlot DEF Hydrate
<1>5. QED
  BY <1>3, <1>4


-----------------------------------------------------------------------------
(* TypeCorrect *)

LEMMA HydrationTypes ==
  ASSUME TypeOK, NEW r \in Requests,
         \/ ReadHost(r) \/ UseHost(r) \/ ReadToken(r) \/ UseToken(r)
         \/ ReadRows(r) \/ UseRows(r)
  PROVE  TypeOK'
<1> USE DEF TypeOK, TablesTypeOK, MemoryTypeOK, HistoryTypeOK, dbVars, memoryVars,
            historyVars, writeVars, cleanVars
<1>q. req[r] \in Request /\ Fits(req[r])
  BY DEF RequestsTypeOK
<1>p. req[r].pc \in HydrateLabels
        => /\ At(r) \in Processes /\ req[r].ds \in Datastores
           /\ req[r].op \in {"page", "remove"} /\ req[r].answer = "none"
  BY <1>q DEF Fits, HydrateLabels, At
<1>1. CASE ReadHost(r)
  <2> DEFINE q == [req[r] EXCEPT !.got = hostRow, !.pc = "useHost"]
  <2>1. q \in Request
    BY <1>q, <1>1 DEF Request, Labels, HydrateLabels
  <2>2. Fits(q)
    BY <1>1, <1>q, <1>p DEF ReadHost, Fits, Request, At, HydrateLabels, LoadLabels, SaveLabels, RemoveLabels
  <2>3. req' = [req EXCEPT ![r] = q]
    BY <1>1 DEF ReadHost
  <2>4. QED
    BY <2>1, <2>2, <2>3, <1>1, OneSlot DEF ReadHost
<1>2. CASE UseHost(r)
  <2>1. req[r].pc = "useHost" /\ req[r].got \in Hosts \cup {None}
    BY <1>2, <1>q DEF UseHost, Fits
  <2>2. host' \in [Processes -> Hosts \cup {None}]
    BY <1>2, <2>1, <1>p DEF UseHost, Over
  <2>3. PICK label \in {"readToken", "readRows"} : Goto(r, label)
    BY <1>2 DEF UseHost
  <2>4. Fits([req[r] EXCEPT !.pc = label])
    BY <2>1, <1>q, <1>p DEF Fits, Request, At, HydrateLabels, LoadLabels, SaveLabels, RemoveLabels
  <2>5. QED
    BY <2>2, <2>3, <2>4, <1>2, OneLabel DEF UseHost, Labels, HydrateLabels
<1>3. CASE ReadToken(r)
  <2> DEFINE q == [req[r] EXCEPT !.got = tokenRow, !.pc = "useToken"]
  <2>1. q \in Request
    BY <1>q, <1>3 DEF Request, Labels, HydrateLabels
  <2>2. Fits(q)
    BY <1>3, <1>q, <1>p DEF ReadToken, Fits, Request, At, HydrateLabels, LoadLabels, SaveLabels, RemoveLabels
  <2>3. req' = [req EXCEPT ![r] = q]
    BY <1>3 DEF ReadToken
  <2>4. QED
    BY <2>1, <2>2, <2>3, <1>3, OneSlot DEF ReadToken
<1>4. CASE UseToken(r)
  <2>1. req[r].pc = "useToken" /\ req[r].got \in Tokens \cup {None}
    BY <1>4, <1>q DEF UseToken, Fits
  <2>2. token' \in [Processes -> Tokens \cup {None}]
    BY <1>4, <2>1, <1>p DEF UseToken, Over
  <2>4. Fits([req[r] EXCEPT !.pc = "readRows"])
    BY <2>1, <1>q, <1>p DEF Fits, Request, At, HydrateLabels, LoadLabels, SaveLabels, RemoveLabels
  <2>5. QED
    BY <2>2, <2>4, <1>4, OneLabel DEF UseToken, Labels, HydrateLabels
<1>5. CASE ReadRows(r)
  <2> DEFINE q == [req[r] EXCEPT !.found = rows, !.pc = "useRows"]
  <2>1. q \in Request
    BY <1>q, <1>5 DEF Request, Labels, HydrateLabels
  <2>2. Fits(q)
    BY <1>5, <1>q, <1>p DEF ReadRows, Fits, Request, At, HydrateLabels, LoadLabels, SaveLabels, RemoveLabels
  <2>3. req' = [req EXCEPT ![r] = q]
    BY <1>5 DEF ReadRows
  <2>4. QED
    BY <2>1, <2>2, <2>3, <1>5, OneSlot DEF ReadRows
<1>6. CASE UseRows(r)
  <2> DEFINE merged == Merged(req[r].found, cache[At(r)])
             q == [req[r] EXCEPT !.pc = "reply", !.found = NoRows,
                                 !.answer = Answer(merged, req[r].ds)]
  <2>0. req[r].pc = "useRows" /\ At(r) \in Processes
    BY <1>6, <1>p DEF UseRows, HydrateLabels
  <2>1. merged \in RowSet
    BY <2>0, <1>q, MergeTypes DEF Request
  <2>2. Answer(merged, req[r].ds) \in {"hit", "miss"}
    BY DEF Answer
  <2>3. q \in Request
    BY <1>q, <2>2, RowTypes DEF Request, Labels
  <2>4. Fits(q)
    BY <2>0, <1>q DEF Fits, Request, At, HydrateLabels, LoadLabels, SaveLabels, RemoveLabels
  <2>5. req' = [req EXCEPT ![r] = q] /\ cache' = [cache EXCEPT ![At(r)] = merged]
        /\ hydrated' = hydrated \cup {At(r)}
    BY <1>6 DEF UseRows
  <2>6. RequestsTypeOK'
    BY <2>3, <2>4, <2>5, OneSlot
  <2>7. QED
    BY <2>0, <2>1, <2>5, <2>6, <1>6 DEF UseRows
<1>7. QED
  BY <1>1, <1>2, <1>3, <1>4, <1>5, <1>6

\* Requests that arrive.
LEMMA ArrivalTypes ==
  ASSUME TypeOK, NEW r \in Requests, Arrive(r)
  PROVE  TypeOK'
<1> USE DEF TypeOK, TablesTypeOK, MemoryTypeOK, HistoryTypeOK, dbVars, memoryVars,
            historyVars, writeVars, cleanVars
<1>1. PICK p \in Processes :
        \/ \E t \in Tokens, h \in HostForms : LoadFilespaces(r, p, t, h)
        \/ \E d \in Datastores :
             \/ OpenPage(r, p, d) \/ Connect(r, p, d) \/ Remove(r, p, d) \/ Drop(r, p, d)
             \/ \E x \in Records : Save(r, p, d, x)
  BY DEF Arrive
<1>2. ASSUME NEW t \in Tokens, NEW h \in HostForms, LoadFilespaces(r, p, t, h)
      PROVE  TypeOK'
  <2> DEFINE q == [NoRequest EXCEPT
                     !.pc = "list", !.op = "load", !.p = p, !.tok = t, !.host = Over(h, host[p])]
  <2>1. Over(h, host[p]) \in Hosts \cup {None}
    BY UserStateAssumption DEF Over
  <2>2. q \in Request
    BY <2>1, RowTypes DEF Request, Labels, LoadLabels, Ops
  <2>3. Fits(q)
    BY DEF NoRequest, Fits, HydrateLabels, LoadLabels, SaveLabels, RemoveLabels
  <2>4. req' = [req EXCEPT ![r] = q]
    BY <1>2 DEF LoadFilespaces
  <2>5. QED
    BY <2>2, <2>3, <2>4, <1>2, OneSlot DEF LoadFilespaces
<1>3. ASSUME NEW d \in Datastores, OpenPage(r, p, d)
      PROVE  TypeOK'
  <2> DEFINE q == [NoRequest EXCEPT !.op = "page", !.p = p, !.ds = d]
  <2>1. q \in Request
    BY RowTypes DEF Request, Ops
  <2>2. q.p = p /\ q.op = "page" /\ q.ds = d /\ q.answer = "none"
    BY DEF NoRequest
  <2>3. Hydrate(r, q, cache[p])
    BY <1>3 DEF OpenPage
  <2>4. RequestsTypeOK'
    BY <2>1, <2>2, <2>3, HydrateTypes
  <2>5. QED
    BY <2>4, <1>3 DEF OpenPage
<1>4. ASSUME NEW d \in Datastores, Connect(r, p, d)
      PROVE  TypeOK'
  <2> DEFINE q == [NoRequest EXCEPT !.pc = "creds", !.op = "connect", !.p = p, !.ds = d]
  <2>1. q \in Request
    BY RowTypes DEF Request, Labels, Ops
  <2>2. Fits(q)
    BY DEF NoRequest, Fits, HydrateLabels, LoadLabels, SaveLabels, RemoveLabels
  <2>3. req' = [req EXCEPT ![r] = q]
    BY <1>4 DEF Connect
  <2>4. QED
    BY <2>1, <2>2, <2>3, <1>4, OneSlot DEF Connect
<1>5. ASSUME NEW d \in Datastores, Forsake(d)
      PROVE  clean' \subseteq Datastores /\ known' \in [Processes -> SUBSET Datastores]
             /\ sure' \subseteq Requests
  BY <1>5 DEF Forsake
<1>6. ASSUME NEW d \in Datastores, Remove(r, p, d)
      PROVE  TypeOK'
  <2> DEFINE q == [NoRequest EXCEPT !.pc = "erase", !.op = "remove", !.p = p, !.ds = d]
  <2>1. q \in Request
    BY RowTypes DEF Request, Labels, RemoveLabels, Ops
  <2>2. Fits(q)
    BY DEF NoRequest, Fits, HydrateLabels, LoadLabels, SaveLabels, RemoveLabels
  <2>3. req' = [req EXCEPT ![r] = q]
    BY <1>6 DEF Remove
  <2>4. QED
    BY <2>1, <2>2, <2>3, <1>5, <1>6, OneSlot DEF Remove
<1>7. ASSUME NEW d \in Datastores, Drop(r, p, d)
      PROVE  TypeOK'
  <2> DEFINE q == [NoRequest EXCEPT !.pc = "api", !.op = "drop", !.p = p, !.ds = d]
  <2>1. q \in Request
    BY RowTypes DEF Request, Labels, RemoveLabels, Ops
  <2>2. Fits(q)
    BY DEF NoRequest, Fits, HydrateLabels, LoadLabels, SaveLabels, RemoveLabels
  <2>3. req' = [req EXCEPT ![r] = q]
    BY <1>7 DEF Drop
  <2>4. QED
    BY <2>1, <2>2, <2>3, <1>5, <1>7, OneSlot DEF Drop
<1>8. ASSUME NEW d \in Datastores, NEW x \in Records, Save(r, p, d, x)
      PROVE  TypeOK'
  <2> DEFINE q == [NoRequest EXCEPT
                     !.pc = "validate", !.op = "save", !.p = p, !.ds = d, !.rec = x]
  <2>1. q \in Request
    BY RowTypes DEF Request, Labels, SaveLabels, Ops
  <2>2. Fits(q)
    BY DEF NoRequest, Fits, HydrateLabels, LoadLabels, SaveLabels, RemoveLabels
  <2>3. req' = [req EXCEPT ![r] = q]
    BY <1>8 DEF Save
  <2>4. sure' \subseteq Requests
    BY <1>8 DEF Save
  <2>5. QED
    BY <2>1, <2>2, <2>3, <2>4, <1>8, OneSlot DEF Save
<1>9. QED
  BY <1>1, <1>2, <1>3, <1>4, <1>6, <1>7, <1>8

LEMMA ConnectionTypes ==
  ASSUME TypeOK, NEW r \in Requests,
         \/ FilespacesListed(r) \/ Credentials(r) \/ SaveToken(r) \/ SaveHost(r)
         \/ Commit(r) \/ DatastoresListed(r)
  PROVE  TypeOK'
<1> USE DEF TypeOK, TablesTypeOK, MemoryTypeOK, HistoryTypeOK, dbVars, memoryVars,
            historyVars, writeVars, cleanVars
<1>q. req[r] \in Request /\ Fits(req[r])
  BY DEF RequestsTypeOK
<1>p. req[r].pc \in LoadLabels \cup {"creds"}
        => At(r) \in Processes /\ req[r].op \in {"load", "connect"} /\ req[r].answer = "none"
  BY <1>q DEF Fits, LoadLabels, At
<1>f. ASSUME req[r].pc \in LoadLabels \cup {"creds"},
             NEW label \in {"token", "host", "commit", "datastores", "reply"}
      PROVE  Fits([req[r] EXCEPT !.pc = label])
  BY <1>f, <1>q, <1>p DEF Fits, Request, At, HydrateLabels, LoadLabels, SaveLabels, RemoveLabels
<1>l. {"token", "host", "commit", "datastores", "reply"} \subseteq Labels
  BY DEF Labels, LoadLabels
<1>1. CASE FilespacesListed(r)
  <2>1. req[r].pc = "list" /\ req[r].tok \in Tokens /\ req[r].host \in Hosts \cup {None}
    BY <1>1, <1>q DEF FilespacesListed, Fits, Request
  <2>2. RequestsTypeOK'
    BY <2>1, <1>1, <1>f, <1>l, OneLabel DEF FilespacesListed, LoadLabels
  <2>3. checked' \subseteq (Tokens \X (Hosts \cup {None}))
    BY <2>1, <1>1 DEF FilespacesListed
  <2>4. QED
    BY <2>1, <2>2, <2>3, <1>1 DEF FilespacesListed
<1>2. CASE Credentials(r)
  <2>1. req[r].pc = "creds"
    BY <1>2 DEF Credentials
  <2>2. PICK label \in {"token", "reply"} :
          req' = [req EXCEPT ![r] = [req[r] EXCEPT !.tok = token[At(r)], !.pc = label]]
    BY <1>2 DEF Credentials
  <2> DEFINE q == [req[r] EXCEPT !.tok = token[At(r)], !.pc = label]
  <2>3. token[At(r)] \in Tokens \cup {None}
    BY <2>1, <1>p
  <2>4. q \in Request
    BY <2>3, <1>q, <1>l DEF Request
  <2>5. Fits(q)
    BY <2>1, <1>q, <1>p DEF Fits, Request, At, HydrateLabels, LoadLabels, SaveLabels, RemoveLabels
  <2>6. QED
    BY <2>2, <2>4, <2>5, <1>2, OneSlot DEF Credentials
<1>3. CASE SaveToken(r)
  BY <1>3, <1>f, <1>l, OneLabel DEF SaveToken, LoadLabels
<1>4. CASE SaveHost(r)
  <2> DEFINE q == [req[r] EXCEPT !.host = host[At(r)], !.pc = "commit"]
  <2>1. req[r].pc = "host" /\ host[At(r)] \in Hosts \cup {None}
    BY <1>4, <1>p DEF SaveHost, LoadLabels
  <2>2. q \in Request
    BY <2>1, <1>q, <1>l DEF Request
  <2>3. Fits(q)
    BY <2>1, <1>q, <1>p DEF Fits, Request, At, HydrateLabels, LoadLabels, SaveLabels, RemoveLabels
  <2>4. req' = [req EXCEPT ![r] = q]
    BY <1>4 DEF SaveHost
  <2>5. QED
    BY <2>2, <2>3, <2>4, <1>4, OneSlot DEF SaveHost
<1>5. CASE Commit(r)
  <2>1. req[r].tok \in Tokens \cup {None} /\ req[r].host \in Hosts \cup {None}
    BY <1>q DEF Request
  <2>2. RequestsTypeOK'
    BY <1>5, <1>f, <1>l, OneLabel DEF Commit, LoadLabels
  <2>3. QED
    BY <2>1, <2>2, <1>5 DEF Commit, Over
<1>6. CASE DatastoresListed(r)
  BY <1>6, <1>f, <1>l, <1>p, OneLabel DEF DatastoresListed, LoadLabels
<1>7. QED
  BY <1>1, <1>2, <1>3, <1>4, <1>5, <1>6

LEMMA DisputeTypes ==
  ASSUME TypeOK, NEW r \in Requests, req[r].ds \in Datastores, Dispute(r)
  PROVE  disputed' \in [Processes -> SUBSET Datastores]
  BY DEF TypeOK, HistoryTypeOK, Dispute

LEMMA CredentialTypes ==
  ASSUME TypeOK, NEW r \in Requests,
         Validated(r) \/ Upsert(r) \/ Keep(r) \/ Dropped(r) \/ Erase(r) \/ Forget(r)
  PROVE  TypeOK'
<1> USE DEF TypeOK, TablesTypeOK, MemoryTypeOK, HistoryTypeOK, dbVars, memoryVars,
            historyVars, writeVars, cleanVars
<1>q. req[r] \in Request /\ Fits(req[r])
  BY DEF RequestsTypeOK
<1>p. req[r].pc \in SaveLabels \cup RemoveLabels
        => At(r) \in Processes /\ req[r].ds \in Datastores /\ req[r].answer = "none"
  BY <1>q DEF Fits, SaveLabels, RemoveLabels, At
<1>s. req[r].pc \in SaveLabels => req[r].rec \in Records /\ req[r].op = "save"
  BY <1>q DEF Fits
<1>r. req[r].pc \in RemoveLabels => req[r].op \in {"remove", "drop"}
  BY <1>q DEF Fits
<1>1. CASE Validated(r)
  <2>1. Fits([req[r] EXCEPT !.pc = "upsert"])
    BY <1>1, <1>q, <1>p, <1>s DEF Validated, Fits, Request, At, HydrateLabels, LoadLabels, SaveLabels, RemoveLabels
  <2>2. QED
    BY <2>1, <1>1, OneLabel DEF Validated, Labels, SaveLabels
<1>2. CASE Upsert(r)
  <2>1. Fits([req[r] EXCEPT !.pc = "keep"])
    BY <1>2, <1>q, <1>p, <1>s DEF Upsert, Fits, Request, At, HydrateLabels, LoadLabels, SaveLabels, RemoveLabels
  <2>2. RequestsTypeOK'
    BY <2>1, <1>2, OneLabel DEF Upsert, Labels, SaveLabels
  <2>3. req[r].ds \in Datastores /\ req[r].rec \in Records
    BY <1>2, <1>p, <1>s DEF Upsert, SaveLabels
  <2>4. rows' \in RowSet
    BY <2>3, <1>2 DEF Upsert, RowSet
  <2>5. disputed' \in [Processes -> SUBSET Datastores]
    BY <2>3, <1>2, DisputeTypes DEF Upsert
  <2>6. saved' \subseteq Datastores \X Records
    BY <2>3, <1>2 DEF Upsert
  <2>7. QED
    BY <2>2, <2>4, <2>5, <2>6, <1>2 DEF Upsert
<1>3. CASE Keep(r)
  <2>1. Fits([req[r] EXCEPT !.pc = "reply"])
    BY <1>3, <1>q, <1>p, <1>s DEF Keep, Fits, Request, At, HydrateLabels, LoadLabels, SaveLabels, RemoveLabels
  <2>2. RequestsTypeOK'
    BY <2>1, <1>3, OneLabel DEF Keep, Labels
  <2>3. At(r) \in Processes /\ req[r].ds \in Datastores /\ req[r].rec \in Records
    BY <1>3, <1>p, <1>s DEF Keep, SaveLabels
  <2>4. Kept(r) \in RowSet
    BY <2>3 DEF Kept, RowSet
  <2>5. cache' \in [Processes -> RowSet]
    BY <2>3, <2>4, <1>3 DEF Keep
  <2>6. clean' \subseteq Datastores /\ known' \in [Processes -> SUBSET Datastores]
    BY <2>3, <1>3 DEF Keep
  <2>7. QED
    BY <2>2, <2>5, <2>6, <1>3 DEF Keep
<1>4. CASE Dropped(r)
  <2>1. Fits([req[r] EXCEPT !.pc = "erase"])
    BY <1>4, <1>q, <1>p, <1>r DEF Dropped, Fits, Request, At, HydrateLabels, LoadLabels, SaveLabels, RemoveLabels
  <2>2. QED
    BY <2>1, <1>4, OneLabel DEF Dropped, Labels, RemoveLabels
<1>5. CASE Erase(r)
  <2>0. PICK b \in BOOLEAN :
          req' = [req EXCEPT ![r] = [req[r] EXCEPT !.removed = b, !.pc = "forget"]]
    BY <1>5 DEF Erase
  <2> DEFINE q == [req[r] EXCEPT !.removed = b, !.pc = "forget"]
  <2>1. q \in Request
    BY <1>q DEF Request, Labels, RemoveLabels
  <2>2. Fits(q)
    BY <1>5, <1>q, <1>p, <1>r DEF Erase, Fits, Request, At, HydrateLabels, LoadLabels, SaveLabels, RemoveLabels
  <2>3. req' = [req EXCEPT ![r] = q]
    BY <2>0
  <2>4. rows' \in RowSet
    BY <1>5, <1>p DEF Erase, RowSet, RemoveLabels
  <2>5. disputed' \in [Processes -> SUBSET Datastores]
    BY <1>5, <1>p, DisputeTypes DEF Erase, RemoveLabels
  <2>6. QED
    BY <2>1, <2>2, <2>3, <2>4, <2>5, <1>5, OneSlot DEF Erase
<1>6. CASE Forget(r)
  <2>1. req[r].pc = "forget" /\ At(r) \in Processes /\ req[r].ds \in Datastores
    BY <1>6, <1>p DEF Forget, RemoveLabels
  <2>2. Forgotten(r) \in RowSet
    BY <2>1 DEF Forgotten, RowSet
  <2>3. cache' \in [Processes -> RowSet]
    BY <2>1, <2>2, <1>6 DEF Forget
  <2>4. RequestsTypeOK'
    <3>1. CASE req[r].op = "remove"
      <4>1. Hydrate(r, req[r], Forgotten(r))
        BY <3>1, <1>6 DEF Forget
      <4>2. QED
        BY <4>1, <3>1, <2>1, <1>q, <1>p, HydrateTypes DEF At, RemoveLabels
    <3>2. CASE req[r].op # "remove"
      <4>1. Fits([req[r] EXCEPT !.pc = "reply"])
        BY <2>1, <1>q DEF Fits, Request, At, HydrateLabels, LoadLabels, SaveLabels, RemoveLabels
      <4>2. QED
        BY <4>1, <3>2, <1>6, OneLabel DEF Forget, Labels
    <3>3. QED
      BY <3>1, <3>2
  <2>5. QED
    BY <2>3, <2>4, <1>6 DEF Forget
<1>7. QED
  BY <1>1, <1>2, <1>3, <1>4, <1>5, <1>6

LEMMA EndTypes ==
  ASSUME TypeOK, NEW r \in Requests, Fail(r) \/ Refuse(r) \/ Reply(r)
  PROVE  TypeOK'
<1> USE DEF TypeOK, TablesTypeOK, MemoryTypeOK, HistoryTypeOK, dbVars, memoryVars,
            historyVars, writeVars, cleanVars
<1>q. req[r] \in Request /\ Fits(req[r])
  BY DEF RequestsTypeOK
<1>1. ASSUME req[r].pc \in DatabaseLabels \cup ServiceLabels, Goto(r, "reply")
      PROVE  RequestsTypeOK'
  <2>1. Fits([req[r] EXCEPT !.pc = "reply"])
    BY <1>1, <1>q DEF Fits, Request, DatabaseLabels, ServiceLabels, HydrateLabels, LoadLabels, SaveLabels, RemoveLabels
  <2>2. QED
    BY <2>1, <1>1, OneLabel DEF Labels
<1>2. CASE Fail(r)
  BY <1>1, <1>2 DEF Fail
<1>3. CASE Refuse(r)
  BY <1>1, <1>3 DEF Refuse
<1>4. CASE Reply(r)
  BY <1>4, RowTypes, OneSlot DEF Reply
<1>5. QED
  BY <1>2, <1>3, <1>4

LEMMA RestartTypes ==
  ASSUME TypeOK, NEW p \in Processes, Restart(p)
  PROVE  TypeOK'
<1> USE DEF TypeOK, TablesTypeOK, MemoryTypeOK, HistoryTypeOK, dbVars, memoryVars,
            historyVars, writeVars, cleanVars
<1>1. req' \in [Requests -> Request] /\ \A x \in Requests : Fits(req'[x])
  BY RowTypes DEF Restart, RequestsTypeOK
<1>2. RequestsTypeOK'
  BY <1>1 DEF RequestsTypeOK, Fits
<1>3. QED
  BY <1>2, RowTypes DEF Restart

LEMMA StepTypes ==
  ASSUME TypeOK, [Next]_vars
  PROVE  TypeOK'
<1>1. ASSUME NEW r \in Requests, Arrive(r)
      PROVE  TypeOK'
  BY <1>1, ArrivalTypes
<1>2. ASSUME NEW r \in Requests, Step(r)
      PROVE  TypeOK'
  BY <1>2, HydrationTypes, ConnectionTypes, CredentialTypes, EndTypes DEF Step
<1>3. ASSUME NEW p \in Processes, Restart(p)
      PROVE  TypeOK'
  BY <1>3, RestartTypes
<1>4. CASE UNCHANGED vars
  BY <1>4 DEF vars, TypeOK, TablesTypeOK, MemoryTypeOK, RequestsTypeOK, HistoryTypeOK, Fits
<1>5. QED
  BY <1>1, <1>2, <1>3, <1>4 DEF Next

\* Every reachable state is well typed, and what a request has read fits what it is
\* about to do with it.
THEOREM TypeCorrect == Spec => []TypeOK
<1>1. QED
  BY InitTypes, StepTypes, PTL DEF Spec

-----------------------------------------------------------------------------
(* What arriving and hydrating do to the slots *)

\* The slot of a request that hydrates.
LEMMA Hydrating ==
  ASSUME RequestsTypeOK, NEW r \in Requests, NEW q \in Request, NEW mine, Hydrate(r, q, mine)
  PROVE  /\ \A x \in Requests \ {r} : req'[x] = req[x]
         /\ q.p \in hydrated => /\ req'[r].pc = "reply"
                                /\ req'[r].answer = Answer(mine, q.ds)
         /\ q.p \notin hydrated => /\ req'[r].pc = "readHost"
                                   /\ req'[r].answer = q.answer
         /\ req'[r].op = q.op /\ req'[r].p = q.p /\ req'[r].ds = q.ds
         /\ req'[r].found = q.found
<1>1. req \in [Requests -> Request]
  BY DEF RequestsTypeOK
<1>2. CASE q.p \in hydrated
  <2>1. req' = [req EXCEPT ![r] = [q EXCEPT !.pc = "reply", !.answer = Answer(mine, q.ds)]]
    BY <1>2 DEF Hydrate
  <2>2. QED
    BY <2>1, <1>1, <1>2 DEF Request
<1>3. CASE q.p \notin hydrated
  <2>1. req' = [req EXCEPT ![r] = [q EXCEPT !.pc = "readHost"]]
    BY <1>3 DEF Hydrate
  <2>2. QED
    BY <2>1, <1>1, <1>3 DEF Request
<1>4. QED
  BY <1>2, <1>3

\* The slot of a request that arrives.
LEMMA Arrival ==
  ASSUME RequestsTypeOK, NEW r \in Requests, Arrive(r)
  PROVE  /\ \A x \in Requests \ {r} : req'[x] = req[x]
         /\ req'[r].found = NoRows
         /\ req'[r].pc \notin {"keep", "useRows", "forget"}
<1>t. req \in [Requests -> Request]
  BY DEF RequestsTypeOK
<1>1. ASSUME NEW p \in Processes, NEW d \in Datastores, OpenPage(r, p, d)
      PROVE  /\ \A x \in Requests \ {r} : req'[x] = req[x]
             /\ req'[r].found = NoRows
             /\ req'[r].pc \notin {"keep", "useRows", "forget"}
  <2> DEFINE q == [NoRequest EXCEPT !.op = "page", !.p = p, !.ds = d]
  <2>1. q \in Request
    BY RowTypes DEF Request, Ops
  <2>2. q.found = NoRows
    BY DEF NoRequest
  <2>3. Hydrate(r, q, cache[p])
    BY <1>1 DEF OpenPage
  <2>4. QED
    BY <2>1, <2>2, <2>3, Hydrating
<1>2. ASSUME NEW p \in Processes, NEW t \in Tokens, NEW h \in HostForms,
             LoadFilespaces(r, p, t, h)
      PROVE  /\ \A x \in Requests \ {r} : req'[x] = req[x]
             /\ req'[r].found = NoRows
             /\ req'[r].pc \notin {"keep", "useRows", "forget"}
  BY <1>2, <1>t DEF LoadFilespaces, NoRequest
<1>3. ASSUME NEW p \in Processes, NEW d \in Datastores,
             \/ Connect(r, p, d) \/ Remove(r, p, d) \/ Drop(r, p, d)
             \/ \E x \in Records : Save(r, p, d, x)
      PROVE  /\ \A x \in Requests \ {r} : req'[x] = req[x]
             /\ req'[r].found = NoRows
             /\ req'[r].pc \notin {"keep", "useRows", "forget"}
  <2>1. CASE Connect(r, p, d)
    <3> DEFINE q == [NoRequest EXCEPT !.pc = "creds", !.op = "connect", !.p = p, !.ds = d]
    <3>1. req' = [req EXCEPT ![r] = q]
      BY <2>1 DEF Connect
    <3>2. q.found = NoRows /\ q.pc = "creds"
      BY DEF NoRequest
    <3> HIDE DEF q
    <3>3. QED
      BY <3>1, <3>2, <1>t
  <2>2. CASE Remove(r, p, d)
    <3> DEFINE q == [NoRequest EXCEPT !.pc = "erase", !.op = "remove", !.p = p, !.ds = d]
    <3>1. req' = [req EXCEPT ![r] = q]
      BY <2>2 DEF Remove
    <3>2. q.found = NoRows /\ q.pc = "erase"
      BY DEF NoRequest
    <3> HIDE DEF q
    <3>3. QED
      BY <3>1, <3>2, <1>t
  <2>3. CASE Drop(r, p, d)
    <3> DEFINE q == [NoRequest EXCEPT !.pc = "api", !.op = "drop", !.p = p, !.ds = d]
    <3>1. req' = [req EXCEPT ![r] = q]
      BY <2>3 DEF Drop
    <3>2. q.found = NoRows /\ q.pc = "api"
      BY DEF NoRequest
    <3> HIDE DEF q
    <3>3. QED
      BY <3>1, <3>2, <1>t
  <2>4. ASSUME NEW y \in Records, Save(r, p, d, y)
        PROVE  /\ \A x \in Requests \ {r} : req'[x] = req[x]
               /\ req'[r].found = NoRows
               /\ req'[r].pc \notin {"keep", "useRows", "forget"}
    <3> DEFINE q == [NoRequest EXCEPT !.pc = "validate", !.op = "save", !.p = p, !.ds = d, !.rec = y]
    <3>1. req' = [req EXCEPT ![r] = q]
      BY <2>4 DEF Save
    <3>2. q.found = NoRows /\ q.pc = "validate"
      BY DEF NoRequest
    <3> HIDE DEF q
    <3>3. QED
      BY <3>1, <3>2, <1>t
  <2>5. QED
    BY <1>3, <2>1, <2>2, <2>3, <2>4
<1>4. QED
  BY <1>1, <1>2, <1>3 DEF Arrive

\* The slot of a removal whose row is gone.
LEMMA Forgetting ==
  ASSUME RequestsTypeOK, NEW r \in Requests, Forget(r)
  PROVE  /\ \A x \in Requests \ {r} : req'[x] = req[x]
         /\ req'[r].pc \in {"reply", "readHost"}
         /\ req'[r].op = req[r].op /\ req'[r].p = req[r].p /\ req'[r].ds = req[r].ds
         /\ req'[r].found = req[r].found
<1>t. req \in [Requests -> Request] /\ req[r] \in Request
  BY DEF RequestsTypeOK
<1>1. CASE req[r].op = "remove"
  <2>1. Hydrate(r, req[r], Forgotten(r))
    BY <1>1 DEF Forget
  <2>2. QED
    BY <2>1, <1>t, Hydrating
<1>2. CASE req[r].op # "remove"
  <2>1. Goto(r, "reply")
    BY <1>2 DEF Forget
  <2>2. QED
    BY <2>1, <1>t DEF Goto, Request
<1>3. QED
  BY <1>1, <1>2

-----------------------------------------------------------------------------
(* OnlyCommittedCached *)

\* A function from datastores whose records were all committed.
Committed(c) == \A d \in Datastores : c[d] # None => <<d, c[d]>> \in saved

\* OnlySavedRecordsCached with what feeds the caches: the rows, what a hydration has
\* read of them, and a save that is committed and not cached yet.
SavedInv ==
  /\ TypeOK
  /\ Committed(rows)
  /\ \A p \in Processes : Committed(cache[p])
  /\ \A r \in Requests : Committed(req[r].found)
  /\ \A r \in Requests : req[r].pc = "keep" => <<req[r].ds, req[r].rec>> \in saved

\* A step that commits nothing and only changes labels keeps the invariant.
LEMMA SavedFrame ==
  ASSUME SavedInv, TypeOK', UNCHANGED <<rows, cache, saved>>,
         \A r \in Requests :
           /\ req'[r].found = req[r].found \/ req'[r].found = NoRows
           /\ req'[r].pc = "keep" => req'[r] = req[r]
  PROVE  SavedInv'
  BY DEF SavedInv, Committed, NoRows

LEMMA SavedStep ==
  ASSUME SavedInv, [Next]_vars
  PROVE  SavedInv'
<1> USE DEF dbVars, memoryVars, historyVars, writeVars, cleanVars
<1>t. TypeOK /\ TypeOK' /\ RequestsTypeOK /\ req \in [Requests -> Request] /\ rows \in RowSet
      /\ cache \in [Processes -> RowSet] /\ \A r \in Requests : Fits(req[r])
  BY StepTypes DEF SavedInv, TypeOK, TablesTypeOK, MemoryTypeOK, RequestsTypeOK
<1>1. ASSUME NEW r \in Requests, Arrive(r)
      PROVE  SavedInv'
  <2>1. UNCHANGED <<rows, cache, saved>>
    BY <1>1 DEF Arrive, LoadFilespaces, OpenPage, Connect, Remove, Drop, Save
  <2>2. /\ \A x \in Requests \ {r} : req'[x] = req[x]
        /\ req'[r].found = NoRows /\ req'[r].pc # "keep"
    BY <1>1, <1>t, Arrival
  <2>3. QED
    BY <2>1, <2>2, <1>t, SavedFrame
<1>2. ASSUME NEW r \in Requests,
             \/ ReadHost(r) \/ UseHost(r) \/ ReadToken(r) \/ UseToken(r)
             \/ FilespacesListed(r) \/ Credentials(r) \/ SaveToken(r) \/ SaveHost(r)
             \/ Commit(r) \/ DatastoresListed(r) \/ Validated(r) \/ Dropped(r)
             \/ Fail(r) \/ Refuse(r) \/ Reply(r)
      PROVE  SavedInv'
  <2>1. UNCHANGED <<rows, cache, saved>>
    BY <1>2 DEF ReadHost, UseHost, ReadToken, UseToken, FilespacesListed, Credentials,
       SaveToken, SaveHost, Commit, DatastoresListed, Validated, Dropped, Fail, Refuse, Reply
  <2>2. \A x \in Requests \ {r} : req'[x] = req[x]
    BY <1>2, <1>t DEF ReadHost, UseHost, ReadToken, UseToken, FilespacesListed, Credentials,
       SaveToken, SaveHost, Commit, DatastoresListed, Validated, Dropped, Fail, Refuse, Reply, Goto
  <2>3. req'[r].found \in {req[r].found, NoRows} /\ req'[r].pc # "keep"
    BY <1>2, <1>t DEF ReadHost, UseHost, ReadToken, UseToken, FilespacesListed, Credentials,
       SaveToken, SaveHost, Commit, DatastoresListed, Validated, Dropped, Fail, Refuse, Reply,
       Goto, Request, NoRequest
  <2>4. QED
    BY <2>1, <2>2, <2>3, <1>t, SavedFrame
<1>3. ASSUME NEW r \in Requests, ReadRows(r)
      PROVE  SavedInv'
  <2>1. req' = [req EXCEPT ![r] = [req[r] EXCEPT !.found = rows, !.pc = "useRows"]]
    BY <1>3 DEF ReadRows
  <2>2. \A x \in Requests : req'[x].pc = "keep" => x # r
    BY <2>1, <1>t DEF Request
  <2>3. \A x \in Requests : req'[x].found = IF x = r THEN rows ELSE req[x].found
    BY <2>1, <1>t DEF Request
  <2>4. QED
    BY <2>1, <2>2, <2>3, <1>3, <1>t DEF ReadRows, SavedInv, Committed
<1>4. ASSUME NEW r \in Requests, UseRows(r)
      PROVE  SavedInv'
  <2> DEFINE merged == Merged(req[r].found, cache[At(r)])
  <2>1. req[r].pc = "useRows" /\ At(r) \in Processes
    BY <1>4, <1>t DEF UseRows, Fits, At
  <2>2. Committed(merged)
    BY <2>1 DEF SavedInv, Committed, Merged, Over
  <2>3. cache' = [cache EXCEPT ![At(r)] = merged] /\ UNCHANGED <<rows, saved>>
    BY <1>4 DEF UseRows
  <2>4. \A p \in Processes : cache'[p] = IF p = At(r) THEN merged ELSE cache[p]
    BY <2>1, <2>3, <1>t
  <2>5. \A x \in Requests \ {r} : req'[x] = req[x]
    BY <1>4, <1>t DEF UseRows
  <2>6. req'[r].pc = "reply" /\ req'[r].found = NoRows
    BY <1>4, <1>t DEF UseRows, Request
  <2>7. Committed(rows)' /\ \A p \in Processes : Committed(cache[p])'
    BY <2>2, <2>3, <2>4 DEF SavedInv, Committed
  <2>8. \A x \in Requests : Committed(req[x].found)'
    BY <2>3, <2>5, <2>6 DEF SavedInv, Committed, NoRows
  <2>9. QED
    BY <2>3, <2>5, <2>6, <2>7, <2>8, <1>t DEF SavedInv
<1>5. ASSUME NEW r \in Requests, Upsert(r)
      PROVE  SavedInv'
  <2>1. req[r].pc = "upsert" /\ req[r].ds \in Datastores
    BY <1>5, <1>t DEF Upsert, Fits, SaveLabels
  <2>2. saved' = saved \cup {<<req[r].ds, req[r].rec>>} /\ cache' = cache
        /\ rows' = [rows EXCEPT ![req[r].ds] = req[r].rec]
    BY <1>5 DEF Upsert
  <2>3. \A x \in Requests : /\ req'[x].found = req[x].found
                            /\ req'[x].ds = req[x].ds /\ req'[x].rec = req[x].rec
                            /\ x # r => req'[x].pc = req[x].pc
    BY <1>5, <1>t DEF Upsert, Goto, Request
  <2>4. \A d \in Datastores : rows'[d] = IF d = req[r].ds THEN req[r].rec ELSE rows[d]
    BY <2>2, <1>t DEF RowSet
  <2>5. QED
    BY <2>1, <2>2, <2>3, <2>4, <1>t DEF SavedInv, Committed
<1>6. ASSUME NEW r \in Requests, Keep(r)
      PROVE  SavedInv'
  <2>1. /\ req[r].pc = "keep" /\ req[r].ds \in Datastores /\ At(r) \in Processes
        /\ <<req[r].ds, req[r].rec>> \in saved
    BY <1>6, <1>t DEF Keep, Fits, SaveLabels, SavedInv, At
  <2>2. UNCHANGED <<rows, saved>> /\ cache' = [cache EXCEPT ![At(r)] = Kept(r)]
    BY <1>6 DEF Keep
  <2>3. Committed(Kept(r))
    BY <2>1, <1>t DEF SavedInv, Committed, Kept, RowSet
  <2>4. \A p \in Processes : cache'[p] = IF p = At(r) THEN Kept(r) ELSE cache[p]
    BY <2>1, <2>2, <1>t
  <2>5. \A x \in Requests : /\ req'[x].found = req[x].found
                            /\ req'[x].ds = req[x].ds /\ req'[x].rec = req[x].rec
                            /\ req'[x].pc \in {req[x].pc, "reply"}
    BY <1>6, <1>t DEF Keep, Goto, Request
  <2>6. QED
    BY <2>2, <2>3, <2>4, <2>5, <1>t DEF SavedInv, Committed
<1>7. ASSUME NEW r \in Requests, Erase(r)
      PROVE  SavedInv'
  <2>1. req[r].ds \in Datastores
    BY <1>7, <1>t DEF Erase, Fits, RemoveLabels
  <2>2. UNCHANGED <<saved, cache>> /\ rows' = [rows EXCEPT ![req[r].ds] = None]
    BY <1>7 DEF Erase
  <2>3. \A d \in Datastores : rows'[d] \in {rows[d], None}
    BY <2>1, <2>2, <1>t DEF RowSet
  <2>4. \A x \in Requests : /\ req'[x].found = req[x].found
                            /\ req'[x].ds = req[x].ds /\ req'[x].rec = req[x].rec
                            /\ req'[x].pc \in {req[x].pc, "forget"}
    BY <1>7, <1>t DEF Erase, Request
  <2>5. QED
    BY <2>2, <2>3, <2>4, <1>t DEF SavedInv, Committed
<1>8. ASSUME NEW r \in Requests, Forget(r)
      PROVE  SavedInv'
  <2>1. req[r].pc = "forget" /\ req[r].ds \in Datastores /\ At(r) \in Processes
    BY <1>8, <1>t DEF Forget, Fits, RemoveLabels, At
  <2>2. UNCHANGED <<rows, saved>> /\ cache' = [cache EXCEPT ![At(r)] = Forgotten(r)]
    BY <1>8 DEF Forget
  <2>3. Committed(Forgotten(r))
    BY <2>1, <1>t DEF SavedInv, Committed, Forgotten, RowSet
  <2>4. \A p \in Processes : cache'[p] = IF p = At(r) THEN Forgotten(r) ELSE cache[p]
    BY <2>1, <2>2, <1>t
  <2>5. /\ \A x \in Requests \ {r} : req'[x] = req[x]
        /\ req'[r].found = req[r].found /\ req'[r].pc # "keep"
    BY <1>8, <1>t, Forgetting
  <2>6. Committed(rows)' /\ \A p \in Processes : Committed(cache[p])'
    BY <2>2, <2>3, <2>4 DEF SavedInv, Committed
  <2>7. QED
    BY <2>2, <2>5, <2>6, <1>t DEF SavedInv, Committed
<1>9. ASSUME NEW p \in Processes, Restart(p)
      PROVE  SavedInv'
  <2>1. UNCHANGED <<rows, saved>> /\ cache' = [cache EXCEPT ![p] = NoRows]
    BY <1>9 DEF Restart
  <2>2. \A x \in Requests : req'[x] = req[x] \/ req'[x] = NoRequest
    BY <1>9 DEF Restart
  <2>3. NoRequest.found = NoRows /\ NoRequest.pc = "idle"
    BY DEF NoRequest
  <2>4. Committed(NoRows)'
    BY DEF Committed, NoRows
  <2>5. \A x \in Processes : cache'[x] = IF x = p THEN NoRows ELSE cache[x]
    BY <2>1, <1>t
  <2>6. \A x \in Requests : Committed(req[x].found)'
    BY <2>1, <2>2, <2>3 DEF SavedInv, Committed, NoRows
  <2>7. \A x \in Requests : req'[x].pc = "keep" => <<req'[x].ds, req'[x].rec>> \in saved'
    BY <2>1, <2>2, <2>3 DEF SavedInv
  <2>8. Committed(rows)' /\ \A x \in Processes : Committed(cache[x])'
    BY <2>1, <2>5 DEF SavedInv, Committed, NoRows
  <2>9. QED
    BY <2>6, <2>7, <2>8, <1>t DEF SavedInv
<1>10. CASE UNCHANGED vars
  BY <1>10, <1>t DEF vars, SavedInv, Committed
<1>11. QED
  BY <1>1, <1>2, <1>3, <1>4, <1>5, <1>6, <1>7, <1>8, <1>9, <1>10 DEF Next, Step

\* No process ever browses with credentials that were not committed for that datastore,
\* however its hydrations, saves, removals and restarts interleave.
THEOREM OnlyCommittedCached == Spec => []OnlySavedRecordsCached
<1>1. Init => SavedInv
  <2> SUFFICES ASSUME Init PROVE SavedInv
    OBVIOUS
  <2>1. NoRequest.found = NoRows /\ NoRequest.pc = "idle"
    BY DEF NoRequest
  <2>2. \A r \in Requests : req[r].found = NoRows /\ req[r].pc = "idle"
    BY <2>1 DEF Init
  <2>3. Committed(rows) /\ \A p \in Processes : Committed(cache[p])
    BY DEF Init, Committed, NoRows
  <2>4. \A r \in Requests : Committed(req[r].found)
    BY <2>2 DEF Committed, NoRows
  <2>5. QED
    BY <2>2, <2>3, <2>4, InitTypes DEF SavedInv
<1>2. SavedInv => OnlySavedRecordsCached
  BY DEF SavedInv, Committed, OnlySavedRecordsCached
<1>3. QED
  BY <1>1, <1>2, SavedStep, PTL DEF Spec


-----------------------------------------------------------------------------
(* SavedFound *)

\* What is said of a process: its known datastores are clean ones, whose row exists,
\* and once it is hydrated its cache has them.
KnownIsServed ==
  /\ \A d \in clean : rows[d] # None
  /\ \A p \in Processes :
       /\ known[p] \subseteq clean
       /\ p \in hydrated => \A d \in known[p] : cache[p][d] # None

\* What is said of a request: a removal's datastore is not clean, a hydration that has
\* read the rows found what its process knows (or the cache has it by now), and a
\* request in sure keeps its promise.
KnownRequest(r) ==
  /\ req[r].pc = "idle" => r \notin sure
  /\ Removing(r) => req[r].ds \notin clean
  /\ req[r].pc = "useRows" =>
       \A d \in known[At(r)] : req[r].found[d] # None \/ cache[At(r)][d] # None
  /\ r \in sure =>
       /\ req[r].op \in {"save", "page"}
       /\ req[r].op = "save" => \A x \in Requests : Removing(x) => req[x].ds # req[r].ds
       /\ req[r].pc = "keep" => rows[req[r].ds] # None
       /\ req[r].op = "page" => req[r].ds \in known[At(r)] /\ req[r].answer # "miss"

KnownInv ==
  /\ TypeOK
  /\ KnownIsServed
  /\ \A r \in Requests : KnownRequest(r)

\* A step that only moves requests on keeps the invariant.
LEMMA KnownFrame ==
  ASSUME KnownInv, TypeOK', UNCHANGED <<rows, cache, hydrated, clean, known, sure>>,
         \A r \in Requests :
           /\ req'[r].op = req[r].op /\ req'[r].p = req[r].p /\ req'[r].ds = req[r].ds
           /\ req'[r].answer = req[r].answer
           /\ req'[r].pc \in {"idle", "keep", "useRows"} => req'[r] = req[r]
  PROVE  KnownInv'
<1>1. KnownIsServed'
  BY DEF KnownInv, KnownIsServed
<1>2. ASSUME NEW r \in Requests
      PROVE  KnownRequest(r)'
  <2>1. KnownRequest(r)
    BY DEF KnownInv
  <2>2. \A x \in Requests : Removing(x)' <=> Removing(x)
    BY DEF Removing
  <2>3. At(r)' = At(r)
    BY DEF At
  <2>4. (Removing(r) => req[r].ds \notin clean)'
    BY <2>1, <2>2 DEF KnownRequest
  <2>5. (req[r].pc = "useRows" =>
           \A d \in known[At(r)] : req[r].found[d] # None \/ cache[At(r)][d] # None)'
    BY <2>1, <2>3 DEF KnownRequest
  <2>6. QED
    BY <2>1, <2>2, <2>3, <2>4, <2>5 DEF KnownRequest
<1>3. QED
  BY <1>1, <1>2 DEF KnownInv

LEMMA KnownStep ==
  ASSUME KnownInv, [Next]_vars
  PROVE  KnownInv'
<1> USE DEF dbVars, memoryVars, historyVars, writeVars, cleanVars
<1>t. /\ TypeOK /\ TypeOK' /\ RequestsTypeOK /\ req \in [Requests -> Request]
      /\ rows \in RowSet /\ cache \in [Processes -> RowSet]
      /\ known \in [Processes -> SUBSET Datastores] /\ clean \subseteq Datastores
      /\ \A r \in Requests : Fits(req[r])
  BY StepTypes DEF KnownInv, TypeOK, TablesTypeOK, MemoryTypeOK, RequestsTypeOK, HistoryTypeOK
<1>k. KnownIsServed /\ \A r \in Requests : KnownRequest(r)
  BY DEF KnownInv
<1>1. ASSUME NEW r \in Requests,
             \/ ReadHost(r) \/ UseHost(r) \/ ReadToken(r) \/ UseToken(r)
             \/ FilespacesListed(r) \/ Credentials(r) \/ SaveToken(r) \/ SaveHost(r)
             \/ Commit(r) \/ DatastoresListed(r) \/ Validated(r) \/ Dropped(r)
             \/ Fail(r) \/ Refuse(r)
      PROVE  KnownInv'
  <2>1. UNCHANGED <<rows, cache, hydrated, clean, known, sure>>
    BY <1>1 DEF ReadHost, UseHost, ReadToken, UseToken, FilespacesListed, Credentials,
       SaveToken, SaveHost, Commit, DatastoresListed, Validated, Dropped, Fail, Refuse
  <2>2. \A x \in Requests \ {r} : req'[x] = req[x]
    BY <1>1, <1>t DEF ReadHost, UseHost, ReadToken, UseToken, FilespacesListed, Credentials,
       SaveToken, SaveHost, Commit, DatastoresListed, Validated, Dropped, Fail, Refuse, Goto
  <2>3. /\ req'[r].op = req[r].op /\ req'[r].p = req[r].p /\ req'[r].ds = req[r].ds
        /\ req'[r].answer = req[r].answer
        /\ req'[r].pc \notin {"idle", "keep", "useRows"}
    BY <1>1, <1>t DEF ReadHost, UseHost, ReadToken, UseToken, FilespacesListed, Credentials,
       SaveToken, SaveHost, Commit, DatastoresListed, Validated, Dropped, Fail, Refuse,
       Goto, Request
  <2>4. QED
    BY <2>1, <2>2, <2>3, <1>t, KnownFrame
<1>2. ASSUME NEW r \in Requests, ReadRows(r)
      PROVE  KnownInv'
  <2>1. UNCHANGED <<rows, cache, hydrated, clean, known, sure>>
    BY <1>2 DEF ReadRows
  <2>2. \A x \in Requests \ {r} : req'[x] = req[x]
    BY <1>2, <1>t DEF ReadRows
  <2>3. /\ req'[r].op = req[r].op /\ req'[r].p = req[r].p /\ req'[r].ds = req[r].ds
        /\ req'[r].answer = req[r].answer /\ req'[r].pc = "useRows"
        /\ req'[r].found = rows
    BY <1>2, <1>t DEF ReadRows, Request
  <2>4. req[r].p \in Processes
    BY <1>2, <1>t DEF ReadRows, Fits
  <2>5. \A d \in known[req[r].p] : rows[d] # None
    BY <2>4, <1>k DEF KnownIsServed
  <2>6. KnownIsServed'
    BY <2>1, <1>k DEF KnownIsServed
  <2>7. \A x \in Requests : KnownRequest(x)'
    BY <2>1, <2>2, <2>3, <2>5, <1>k DEF KnownRequest, Removing, At
  <2>8. QED
    BY <2>6, <2>7, <1>t DEF KnownInv
<1>3. ASSUME NEW r \in Requests, UseRows(r)
      PROVE  KnownInv'
  <2> DEFINE p == req[r].p
             merged == Merged(req[r].found, cache[p])
  <2>1. /\ UNCHANGED <<rows, clean, known, sure>> /\ hydrated' = hydrated \cup {p}
        /\ cache' = [cache EXCEPT ![p] = merged]
    BY <1>3 DEF UseRows, At
  <2>2. \A x \in Requests \ {r} : req'[x] = req[x]
    BY <1>3, <1>t DEF UseRows
  <2>3. /\ req'[r].op = req[r].op /\ req'[r].p = p /\ req'[r].ds = req[r].ds
        /\ req'[r].answer = Answer(merged, req[r].ds) /\ req'[r].pc = "reply"
    BY <1>3, <1>t DEF UseRows, Request, At
  <2>4. p \in Processes /\ req[r].pc = "useRows" /\ req[r].ds \in Datastores
    BY <1>3, <1>t DEF UseRows, Fits, HydrateLabels
  <2>5. \A d \in Datastores : cache[p][d] # None => merged[d] # None
    BY DEF Merged, Over
  <2>6. \A d \in known[p] : merged[d] # None
    BY <2>4, <1>k, <1>t DEF KnownRequest, At, Merged, Over
  <2>7. \A x \in Processes : cache'[x] = IF x = p THEN merged ELSE cache[x]
    BY <2>1, <2>4, <1>t
  <2>8. KnownIsServed'
    BY <2>1, <2>6, <2>7, <1>k DEF KnownIsServed
  <2>9. \A x \in Processes, d \in Datastores : cache[x][d] # None => cache'[x][d] # None
    BY <2>5, <2>7
  <2>10. ASSUME NEW x \in Requests \ {r}
         PROVE  KnownRequest(x)'
    <3>1. req[x].pc = "useRows" => req[x].p \in Processes
      BY <1>t DEF Fits
    <3>2. req[x].pc = "useRows" =>
            \A d \in known[req[x].p] : req[x].found[d] # None \/ cache'[req[x].p][d] # None
      BY <3>1, <2>9, <1>k, <1>t DEF KnownRequest, At
    <3>3. QED
      BY <3>2, <2>1, <2>2, <2>3, <1>k DEF KnownRequest, Removing, At
  <2>11. KnownRequest(r)'
    BY <2>1, <2>2, <2>3, <2>4, <2>6, <1>k DEF KnownRequest, Removing, At, Answer
  <2>12. QED
    BY <2>8, <2>10, <2>11, <1>t DEF KnownInv
<1>4. ASSUME NEW r \in Requests, NEW p \in Processes, NEW d \in Datastores, OpenPage(r, p, d)
      PROVE  KnownInv'
  <2> DEFINE q == [NoRequest EXCEPT !.op = "page", !.p = p, !.ds = d]
  <2>1. q \in Request /\ q.op = "page" /\ q.p = p /\ q.ds = d /\ q.answer = "none"
    BY RowTypes DEF Request, Ops, NoRequest
  <2>2. Hydrate(r, q, cache[p])
    BY <1>4 DEF OpenPage
  <2> HIDE DEF q
  <2>3. /\ \A x \in Requests \ {r} : req'[x] = req[x]
        /\ req'[r].op = "page" /\ req'[r].p = p /\ req'[r].ds = d
        /\ req'[r].pc \in {"reply", "readHost"}
        /\ p \in hydrated => req'[r].answer = Answer(cache[p], d)
        /\ p \notin hydrated => req'[r].answer = "none"
    BY <2>1, <2>2, <1>t, Hydrating
  <2>4. /\ UNCHANGED <<rows, cache, hydrated, clean, known>>
        /\ sure' = IF d \in known[p] THEN sure \cup {r} ELSE sure
        /\ req[r].pc = "idle"
    BY <1>4 DEF OpenPage
  <2>5. d \in known[p] => req'[r].answer # "miss"
    BY <2>3, <1>k DEF KnownIsServed, Answer
  <2>6. KnownIsServed'
    BY <2>4, <1>k DEF KnownIsServed
  <2>7. r \in sure' => d \in known[p]
    BY <2>4, <1>k DEF KnownRequest
  <2>8. KnownRequest(r)'
    BY <2>3, <2>4, <2>5, <2>7 DEF KnownRequest, Removing, At
  <2>9. ASSUME NEW x \in Requests \ {r}
        PROVE  KnownRequest(x)'
    BY <2>3, <2>4, <1>k DEF KnownRequest, Removing, At
  <2>10. QED
    BY <2>6, <2>8, <2>9, <1>t DEF KnownInv
<1>5. ASSUME NEW r \in Requests, NEW p \in Processes,
             \/ \E t \in Tokens, h \in HostForms : LoadFilespaces(r, p, t, h)
             \/ \E d \in Datastores : Connect(r, p, d)
      PROVE  KnownInv'
  <2>1. UNCHANGED <<rows, cache, hydrated, clean, known, sure>> /\ req[r].pc = "idle"
    BY <1>5 DEF LoadFilespaces, Connect
  <2>2. \A x \in Requests \ {r} : req'[x] = req[x]
    BY <1>5, <1>t DEF LoadFilespaces, Connect
  <2>3. req'[r].op \in {"load", "connect"} /\ req'[r].pc \in {"list", "creds"}
    <3>1. ASSUME NEW t \in Tokens, NEW h \in HostForms, LoadFilespaces(r, p, t, h)
          PROVE  req'[r].op = "load" /\ req'[r].pc = "list"
      BY <3>1, <1>t DEF LoadFilespaces, NoRequest
    <3>2. ASSUME NEW d \in Datastores, Connect(r, p, d)
          PROVE  req'[r].op = "connect" /\ req'[r].pc = "creds"
      BY <3>2, <1>t DEF Connect, NoRequest
    <3>3. QED
      BY <1>5, <3>1, <3>2
  <2>4. r \notin sure
    BY <2>1, <1>k DEF KnownRequest
  <2>5. KnownIsServed'
    BY <2>1, <1>k DEF KnownIsServed
  <2>6. KnownRequest(r)'
    BY <2>1, <2>3, <2>4 DEF KnownRequest, Removing
  <2>7. ASSUME NEW x \in Requests \ {r}
        PROVE  KnownRequest(x)'
    BY <2>1, <2>2, <2>3, <1>k DEF KnownRequest, Removing, At
  <2>8. QED
    BY <2>5, <2>6, <2>7, <1>t DEF KnownInv
<1>6. ASSUME NEW r \in Requests, NEW p \in Processes, NEW d \in Datastores,
             NEW rec \in Records, Save(r, p, d, rec)
      PROVE  KnownInv'
  <2>1. /\ UNCHANGED <<rows, cache, hydrated, clean, known>> /\ req[r].pc = "idle"
        /\ sure' = IF \E y \in On(d) : Removing(y) THEN sure ELSE sure \cup {r}
    BY <1>6 DEF Save
  <2>2. \A x \in Requests \ {r} : req'[x] = req[x]
    BY <1>6, <1>t DEF Save
  <2>3. req'[r].op = "save" /\ req'[r].pc = "validate" /\ req'[r].ds = d
    BY <1>6, <1>t DEF Save, NoRequest
  <2>4. r \in sure' => \A x \in Requests : Removing(x) => req[x].ds # d
    BY <2>1, <1>k DEF KnownRequest, On
  <2>5. KnownIsServed'
    BY <2>1, <1>k DEF KnownIsServed
  <2>6. KnownRequest(r)'
    BY <2>1, <2>2, <2>3, <2>4 DEF KnownRequest, Removing
  <2>7. ASSUME NEW x \in Requests \ {r}
        PROVE  KnownRequest(x)'
    BY <2>1, <2>2, <2>3, <1>k DEF KnownRequest, Removing, At
  <2>8. QED
    BY <2>5, <2>6, <2>7, <1>t DEF KnownInv
<1>7. ASSUME NEW r \in Requests, Upsert(r)
      PROVE  KnownInv'
  <2>1. /\ UNCHANGED <<cache, hydrated, clean, known, sure>>
        /\ rows' = [rows EXCEPT ![req[r].ds] = req[r].rec] /\ req[r].pc = "upsert"
    BY <1>7 DEF Upsert
  <2>2. \A x \in Requests \ {r} : req'[x] = req[x]
    BY <1>7, <1>t DEF Upsert, Goto
  <2>3. /\ req'[r].op = req[r].op /\ req'[r].p = req[r].p /\ req'[r].ds = req[r].ds
        /\ req'[r].answer = req[r].answer /\ req'[r].pc = "keep"
    BY <1>7, <1>t DEF Upsert, Goto, Request
  <2>4. req[r].ds \in Datastores /\ req[r].rec # None /\ req[r].op = "save"
    BY <2>1, <1>t, UserStateAssumption DEF Fits, SaveLabels
  <2>5. rows'[req[r].ds] # None /\ \A d \in Datastores : rows[d] # None => rows'[d] # None
    BY <2>1, <2>4, <1>t DEF RowSet
  <2>6. KnownIsServed'
    BY <2>1, <2>5, <1>k, <1>t DEF KnownIsServed
  <2>7. KnownRequest(r)'
    BY <2>1, <2>2, <2>3, <2>4, <2>5, <1>k DEF KnownRequest, Removing
  <2>8. ASSUME NEW x \in Requests \ {r}
        PROVE  KnownRequest(x)'
    <3>1. req[x].pc = "keep" => req[x].ds \in Datastores
      BY <1>t DEF Fits, SaveLabels
    <3>2. QED
      BY <3>1, <2>1, <2>2, <2>3, <2>5, <1>k DEF KnownRequest, Removing, At
  <2>9. QED
    BY <2>6, <2>7, <2>8, <1>t DEF KnownInv
<1>8. ASSUME NEW r \in Requests, Keep(r)
      PROVE  KnownInv'
  <2> DEFINE p == req[r].p
             d == req[r].ds
  <2>1. /\ UNCHANGED <<rows, hydrated, sure>> /\ req[r].pc = "keep"
        /\ cache' = [cache EXCEPT ![p] = Kept(r)]
        /\ r \in sure => /\ clean' = clean \cup {d}
                         /\ known' = [known EXCEPT ![p] = @ \cup {d}]
        /\ r \notin sure => UNCHANGED <<clean, known>>
    BY <1>8 DEF Keep, At
  <2>2. \A x \in Requests \ {r} : req'[x] = req[x]
    BY <1>8, <1>t DEF Keep, Goto
  <2>3. /\ req'[r].op = req[r].op /\ req'[r].p = p /\ req'[r].ds = d
        /\ req'[r].answer = req[r].answer /\ req'[r].pc = "reply"
    BY <1>8, <1>t DEF Keep, Goto, Request
  <2>4. p \in Processes /\ d \in Datastores /\ req[r].rec # None /\ req[r].op = "save"
    BY <2>1, <1>t, UserStateAssumption DEF Fits, SaveLabels
  <2>5. Kept(r)[d] # None /\ \A e \in Datastores : cache[p][e] # None => Kept(r)[e] # None
    BY <2>4, <1>t DEF Kept, At, RowSet
  <2>6. \A x \in Processes : cache'[x] = IF x = p THEN Kept(r) ELSE cache[x]
    BY <2>1, <2>4, <1>t
  <2>7. /\ \A x \in Processes, e \in Datastores : cache[x][e] # None => cache'[x][e] # None
        /\ cache'[p][d] # None
    BY <2>4, <2>5, <2>6
  <2>8. /\ clean' \subseteq clean \cup {d}
        /\ \A x \in Processes : known'[x] \subseteq known[x] \cup (IF x = p THEN {d} ELSE {})
        /\ \A x \in Processes : known[x] \subseteq known'[x]
        /\ clean \subseteq clean'
    BY <2>1, <2>4, <1>t
  <2>9. d \in clean' \ clean => r \in sure
    BY <2>1
  <2>10. r \in sure => /\ rows[d] # None /\ d \in clean'
                       /\ \A x \in Requests : Removing(x) => req[x].ds # d
    BY <2>1, <2>4, <1>k DEF KnownRequest
  <2>11. KnownIsServed'
    <3>1. \A e \in clean' : rows'[e] # None
      BY <2>1, <2>8, <2>9, <2>10, <1>k DEF KnownIsServed
    <3>2. \A x \in Processes : known'[x] \subseteq clean'
      BY <2>1, <2>4, <1>k, <1>t DEF KnownIsServed
    <3>3. \A x \in Processes : x \in hydrated' => \A e \in known'[x] : cache'[x][e] # None
      BY <2>1, <2>7, <2>8, <1>k, <1>t DEF KnownIsServed
    <3>4. QED
      BY <3>1, <3>2, <3>3 DEF KnownIsServed
  <2>12. KnownRequest(r)'
    BY <2>1, <2>2, <2>3, <2>4, <1>k DEF KnownRequest, Removing
  <2>13. ASSUME NEW x \in Requests \ {r}
         PROVE  KnownRequest(x)'
    <3>1. req[x].pc = "useRows" => req[x].p \in Processes
      BY <1>t DEF Fits
    <3>2. req[x].pc = "useRows" =>
            \A e \in known'[req[x].p] : req[x].found[e] # None \/ cache'[req[x].p][e] # None
      BY <3>1, <2>7, <2>8, <1>k, <1>t DEF KnownRequest, At
    <3>3. Removing(x) => req[x].ds \notin clean'
      BY <2>8, <2>9, <2>10, <1>k DEF KnownRequest
    <3>4. x \in sure /\ req[x].op = "page" => req[x].ds \in known'[req[x].p]
      <4>1. SUFFICES ASSUME x \in sure, req[x].op = "page"
                     PROVE  req[x].ds \in known'[req[x].p]
        OBVIOUS
      <4>2. req[x].p \in Processes
        BY <4>1, <1>k, <1>t DEF KnownRequest, Fits
      <4>3. QED
        BY <4>1, <4>2, <2>8, <1>k DEF KnownRequest, At
    <3>5. QED
      BY <3>2, <3>3, <3>4, <2>1, <2>2, <2>3, <1>k DEF KnownRequest, Removing, At
  <2>14. QED
    BY <2>11, <2>12, <2>13, <1>t DEF KnownInv
<1>9. ASSUME NEW r \in Requests, NEW p \in Processes, NEW d \in Datastores,
             Remove(r, p, d) \/ Drop(r, p, d)
      PROVE  KnownInv'
  <2>1. /\ UNCHANGED <<rows, cache, hydrated>> /\ req[r].pc = "idle"
        /\ clean' = clean \ {d} /\ sure' = sure \ On(d)
        /\ known' = [x \in Processes |-> known[x] \ {d}]
    BY <1>9 DEF Remove, Drop, Forsake
  <2>2. \A x \in Requests \ {r} : req'[x] = req[x]
    BY <1>9, <1>t DEF Remove, Drop
  <2>3. req'[r].op \in {"remove", "drop"} /\ req'[r].pc \in {"erase", "api"} /\ req'[r].ds = d
    <3>1. CASE Remove(r, p, d)
      BY <3>1, <1>t DEF Remove, NoRequest
    <3>2. CASE Drop(r, p, d)
      BY <3>2, <1>t DEF Drop, NoRequest
    <3>3. QED
      BY <1>9, <3>1, <3>2
  <2>4. r \notin sure /\ \A x \in sure' : x \in Requests => req[x].ds # d
    BY <2>1, <1>k DEF KnownRequest, On
  <2>5. KnownIsServed'
    BY <2>1, <1>k DEF KnownIsServed
  <2>6. KnownRequest(r)'
    BY <2>1, <2>3, <2>4 DEF KnownRequest, Removing
  <2>7. ASSUME NEW x \in Requests \ {r}
        PROVE  KnownRequest(x)'
    <3>1. req[x].pc # "idle" => req[x].p \in Processes
      BY <1>t DEF Fits
    <3>2. KnownRequest(x)
      BY <1>k
    <3>3. req[x].pc = "useRows" =>
            \A e \in known'[req[x].p] : req[x].found[e] # None \/ cache[req[x].p][e] # None
      BY <3>1, <3>2, <2>1 DEF KnownRequest, At
    <3>4. x \in sure' /\ req[x].op = "page" => req[x].ds \in known'[req[x].p]
      BY <3>1, <3>2, <2>1, <2>4 DEF KnownRequest, At
    <3>5. x \in sure' => x \in sure
      BY <2>1
    <3>6. QED
      BY <3>2, <3>3, <3>4, <3>5, <2>1, <2>2, <2>3, <2>4 DEF KnownRequest, Removing, At
  <2>8. QED
    BY <2>5, <2>6, <2>7, <1>t DEF KnownInv
<1>10. ASSUME NEW r \in Requests, Erase(r)
       PROVE  KnownInv'
  <2>1. /\ UNCHANGED <<cache, hydrated, clean, known, sure>> /\ req[r].pc = "erase"
        /\ rows' = [rows EXCEPT ![req[r].ds] = None]
    BY <1>10 DEF Erase
  <2>2. \A x \in Requests \ {r} : req'[x] = req[x]
    BY <1>10, <1>t DEF Erase
  <2>3. /\ req'[r].op = req[r].op /\ req'[r].p = req[r].p /\ req'[r].ds = req[r].ds
        /\ req'[r].answer = req[r].answer /\ req'[r].pc = "forget"
    BY <1>10, <1>t DEF Erase, Request
  <2>4. Removing(r) /\ req[r].ds \in Datastores
    BY <2>1, <1>t DEF Fits, RemoveLabels, Removing
  <2>5. \A e \in Datastores \ {req[r].ds} : rows'[e] = rows[e]
    BY <2>1, <1>t DEF RowSet
  <2>6. req[r].ds \notin clean
    BY <2>4, <1>k DEF KnownRequest
  <2>7. KnownIsServed'
    BY <2>1, <2>5, <2>6, <1>k, <1>t DEF KnownIsServed
  <2>8. KnownRequest(r)'
    BY <2>1, <2>3, <2>4, <1>k DEF KnownRequest, Removing
  <2>9. ASSUME NEW x \in Requests \ {r}
        PROVE  KnownRequest(x)'
    <3>1. x \in sure /\ req[x].pc = "keep" =>
            req[x].op = "save" /\ req[x].ds \in Datastores \ {req[r].ds}
      BY <2>4, <1>k, <1>t DEF KnownRequest, Fits, SaveLabels
    <3>2. x \in sure /\ req[x].pc = "keep" => rows'[req[x].ds] # None
      BY <3>1, <2>5, <1>k DEF KnownRequest
    <3>3. QED
      BY <3>2, <2>1, <2>2, <2>3, <1>k DEF KnownRequest, Removing, At
  <2>10. QED
    BY <2>7, <2>8, <2>9, <1>t DEF KnownInv
<1>11. ASSUME NEW r \in Requests, Forget(r)
       PROVE  KnownInv'
  <2> DEFINE p == req[r].p
  <2>1. /\ UNCHANGED <<rows, hydrated, clean, known, sure>> /\ req[r].pc = "forget"
        /\ cache' = [cache EXCEPT ![p] = Forgotten(r)]
    BY <1>11 DEF Forget, At
  <2>2. /\ \A x \in Requests \ {r} : req'[x] = req[x]
        /\ req'[r].pc \in {"reply", "readHost"}
        /\ req'[r].op = req[r].op /\ req'[r].p = p /\ req'[r].ds = req[r].ds
    BY <1>11, <1>t, Forgetting
  <2>3. Removing(r) /\ p \in Processes /\ req[r].ds \in Datastores
    BY <2>1, <1>t DEF Fits, RemoveLabels, Removing
  <2>4. req[r].ds \notin clean /\ r \notin sure
    BY <2>3, <1>k DEF KnownRequest, Removing
  <2>5. \A e \in Datastores \ {req[r].ds} : Forgotten(r)[e] = cache[p][e]
    BY <2>3, <1>t DEF Forgotten, At, RowSet
  <2>6. \A x \in Processes : cache'[x] = IF x = p THEN Forgotten(r) ELSE cache[x]
    BY <2>1, <2>3, <1>t
  <2>7. \A x \in Processes : \A e \in known[x] : cache'[x][e] = cache[x][e]
    BY <2>4, <2>5, <2>6, <1>k, <1>t DEF KnownIsServed
  <2>8. KnownIsServed'
    BY <2>1, <2>7, <1>k DEF KnownIsServed
  <2>9. KnownRequest(r)'
    BY <2>1, <2>2, <2>3, <2>4 DEF KnownRequest, Removing
  <2>10. ASSUME NEW x \in Requests \ {r}
         PROVE  KnownRequest(x)'
    <3>1. req[x].pc = "useRows" => req[x].p \in Processes
      BY <1>t DEF Fits
    <3>2. req[x].pc = "useRows" =>
            \A e \in known[req[x].p] : req[x].found[e] # None \/ cache'[req[x].p][e] # None
      BY <3>1, <2>7, <1>k DEF KnownRequest, At
    <3>3. QED
      BY <3>2, <2>1, <2>2, <2>3, <1>k DEF KnownRequest, Removing, At
  <2>11. QED
    BY <2>8, <2>9, <2>10, <1>t DEF KnownInv
<1>12. ASSUME NEW r \in Requests, Reply(r)
       PROVE  KnownInv'
  <2>1. UNCHANGED <<rows, cache, hydrated, clean, known>> /\ sure' = sure \ {r}
    BY <1>12 DEF Reply
  <2>2. (\A x \in Requests \ {r} : req'[x] = req[x]) /\ req'[r] = NoRequest
    BY <1>12, <1>t DEF Reply
  <2>3. NoRequest.op = "none" /\ NoRequest.pc = "idle"
    BY DEF NoRequest
  <2>4. KnownIsServed'
    BY <2>1, <1>k DEF KnownIsServed
  <2>5. \A x \in Requests : KnownRequest(x)'
    BY <2>1, <2>2, <2>3, <1>k DEF KnownRequest, Removing, At
  <2>6. QED
    BY <2>4, <2>5, <1>t DEF KnownInv
<1>13. ASSUME NEW p \in Processes, Restart(p)
       PROVE  KnownInv'
  <2>1. /\ UNCHANGED <<rows, clean>> /\ hydrated' = hydrated \ {p}
        /\ cache' = [cache EXCEPT ![p] = NoRows]
        /\ known' = [known EXCEPT ![p] = clean]
        /\ sure' = {r \in sure : req[r].p # p}
    BY <1>13 DEF Restart, At
  <2>2. \A x \in Requests : req'[x] = IF req[x].p = p THEN NoRequest ELSE req[x]
    BY <1>13 DEF Restart, At
  <2>3. NoRequest.op = "none" /\ NoRequest.pc = "idle"
    BY DEF NoRequest
  <2>4. \A x \in Processes \ {p} : cache'[x] = cache[x] /\ known'[x] = known[x]
    BY <2>1, <1>t
  <2>5. known'[p] = clean
    BY <2>1, <1>t
  <2>6. KnownIsServed'
    BY <2>1, <2>4, <2>5, <1>k DEF KnownIsServed
  <2>7. ASSUME NEW x \in Requests
        PROVE  KnownRequest(x)'
    <3>1. CASE req[x].p = p
      BY <3>1, <2>1, <2>2, <2>3 DEF KnownRequest, Removing
    <3>2. CASE req[x].p # p
      <4>1. req'[x] = req[x] /\ KnownRequest(x)
        BY <3>2, <2>2, <1>k
      <4>2. req[x].pc # "idle" => req[x].p \in Processes \ {p}
        BY <3>2, <1>t DEF Fits
      <4>3. x \in sure' <=> x \in sure
        BY <3>2, <2>1
      <4>4. x \in sure => req[x].pc # "idle"
        BY <4>1 DEF KnownRequest
      <4>5. \A y \in Requests : Removing(y)' => Removing(y) /\ req'[y].ds = req[y].ds
        BY <2>2, <2>3 DEF Removing
      <4>6. (req[x].pc = "useRows" =>
               \A d \in known[At(x)] : req[x].found[d] # None \/ cache[At(x)][d] # None)'
        BY <4>1, <4>2, <2>4 DEF KnownRequest, At
      <4>7. (x \in sure /\ req[x].op = "page" =>
               req[x].ds \in known[At(x)] /\ req[x].answer # "miss")'
        BY <4>1, <4>2, <4>3, <4>4, <2>4 DEF KnownRequest, At
      <4>8. QED
        BY <4>1, <4>3, <4>5, <4>6, <4>7, <2>1 DEF KnownRequest
    <3>3. QED
      BY <3>1, <3>2
  <2>8. QED
    BY <2>6, <2>7, <1>t DEF KnownInv
<1>14. CASE UNCHANGED vars
  <2>1. UNCHANGED <<rows, cache, hydrated, clean, known, sure, req>>
    BY <1>14 DEF vars
  <2>2. QED
    BY <2>1, <1>t, KnownFrame
<1>15. QED
  BY <1>1, <1>2, <1>3, <1>4, <1>5, <1>6, <1>7, <1>8, <1>9, <1>10, <1>11, <1>12, <1>13, <1>14
     DEF Next, Step, Arrive

\* A page finds the credentials that its own process saved, or that were saved before the
\* process started, unless a removal overlaps: for any number of processes and requests.
THEOREM SavedFound == Spec => []SavedIsFound
<1>1. Init => KnownInv
  <2> SUFFICES ASSUME Init PROVE KnownInv
    OBVIOUS
  <2>1. NoRequest.pc = "idle" /\ NoRequest.op = "none"
    BY DEF NoRequest
  <2>2. \A r \in Requests : req[r].pc = "idle" /\ req[r].op = "none"
    BY <2>1 DEF Init
  <2>3. \A r \in Requests : KnownRequest(r)
    BY <2>2 DEF Init, KnownRequest, Removing
  <2>4. KnownIsServed
    BY DEF Init, KnownIsServed
  <2>5. QED
    BY <2>3, <2>4, InitTypes DEF KnownInv
<1>2. KnownInv => SavedIsFound
  BY DEF KnownInv, KnownRequest, SavedIsFound
<1>3. QED
  BY <1>1, <1>2, KnownStep, PTL DEF Spec

-----------------------------------------------------------------------------
(* The cache and the table *)

Follows(p, d) == cache[p][d] = rows[d] \/ (p \notin hydrated /\ cache[p][d] = None)

\* What the request read or wrote of d is still what the table holds.
Agrees(r, d) ==
  /\ req[r].pc = "useRows" => req[r].found[d] = rows[d]
  /\ Writing(r, d) => rows[d] = IF req[r].pc = "keep" THEN req[r].rec ELSE None

\* The cache of p follows the table at d, but where one of its requests has just written
\* d, and the requests of p have nothing older of d in hand.
InStep(p, d) ==
  /\ Follows(p, d) \/ \E r \in Requests : At(r) = p /\ Writing(r, d)
  /\ \A r \in Requests : At(r) = p => Agrees(r, d)

FollowInv ==
  /\ TypeOK
  /\ \A p \in Processes : \A d \in Datastores \ disputed[p] : InStep(p, d)

\* Steps that write neither the table nor the cache.
LEMMA FollowFrame ==
  ASSUME FollowInv, TypeOK', NEW r \in Requests,
         UNCHANGED <<rows, cache, hydrated, disputed>>,
         \A x \in Requests \ {r} : req'[x] = req[x],
         req[r].pc \notin {"keep", "forget"}, req'[r].pc \notin {"keep", "forget"},
         req'[r].pc = "useRows" => req'[r].found = rows
  PROVE  FollowInv'
<1> SUFFICES ASSUME NEW p \in Processes, NEW d \in Datastores \ disputed[p]
             PROVE  InStep(p, d)'
  BY DEF FollowInv
<1>1. InStep(p, d)
  BY DEF FollowInv
<1>2. Follows(p, d)' \/ \E x \in Requests : At(x)' = p /\ Writing(x, d)'
  BY <1>1 DEF InStep, Follows, Writing, At
<1>3. \A x \in Requests : At(x)' = p => Agrees(x, d)'
  BY <1>1 DEF InStep, Agrees, Writing, At
<1>4. QED
  BY <1>2, <1>3 DEF InStep

\* A row changes, and the request that changed it is about to write its cache: whatever
\* the processes are not said to lose, they keep or get.
LEMMA FollowWrite ==
  ASSUME FollowInv, TypeOK', NEW r \in Requests, At(r) \in Processes, req[r].ds \in Datastores,
         NEW x, rows' = [rows EXCEPT ![req[r].ds] = x], Dispute(r),
         UNCHANGED <<cache, hydrated>>,
         \A y \in Requests \ {r} : req'[y] = req[y],
         req'[r].p = req[r].p, req'[r].ds = req[r].ds, Writing(r, req[r].ds)',
         req[r].pc \notin {"keep", "forget"},
         x = IF req'[r].pc = "keep" THEN req'[r].rec ELSE None
  PROVE  FollowInv'
<1> SUFFICES ASSUME NEW p \in Processes, NEW d \in Datastores \ disputed'[p]
             PROVE  InStep(p, d)'
  BY DEF FollowInv
<1> DEFINE e == req[r].ds
<1>t. rows \in RowSet /\ disputed \in [Processes -> SUBSET Datastores]
  BY DEF FollowInv, TypeOK, TablesTypeOK, HistoryTypeOK
<1>1. \A c \in Datastores : rows'[c] = IF c = e THEN x ELSE rows[c]
  BY <1>t DEF RowSet
<1>2. disputed'[p] = IF Crossed(r, p) THEN disputed[p] \cup {e}
                     ELSE IF p = At(r) THEN disputed[p] \ {e} ELSE disputed[p]
  BY <1>t DEF Dispute
<1>3. req'[r].pc \in {"keep", "forget"}
  BY DEF Writing
<1>4. CASE d # e
  <2>1. InStep(p, d)
    BY <1>2, <1>4 DEF FollowInv
  <2>2. rows'[d] = rows[d]
    BY <1>1, <1>4
  <2>3. Follows(p, d)' \/ \E y \in Requests : At(y)' = p /\ Writing(y, d)'
    <3>1. CASE Follows(p, d)
      BY <3>1, <2>2 DEF Follows
    <3>2. ASSUME NEW y \in Requests, At(y) = p, Writing(y, d)
          PROVE  At(y)' = p /\ Writing(y, d)'
      BY <3>2, <1>4 DEF Writing, At
    <3>3. QED
      BY <3>1, <3>2, <2>1 DEF InStep
  <2>4. ASSUME NEW y \in Requests, At(y)' = p PROVE Agrees(y, d)'
    <3>1. CASE y = r
      BY <3>1, <1>3, <1>4 DEF Agrees, Writing
    <3>2. CASE y # r
      BY <3>2, <2>1, <2>2, <2>4 DEF InStep, Agrees, Writing, At
    <3>3. QED
      BY <3>1, <3>2
  <2>5. QED
    BY <2>3, <2>4 DEF InStep
<1>5. CASE d = e
  <2>1. ~Crossed(r, p)
    BY <1>2, <1>5
  <2>2. \A y \in Requests \ {r} : At(y) = p => req[y].pc # "useRows" /\ ~Writing(y, d)
    BY <2>1, <1>5 DEF Crossed
  <2>3. Follows(p, d)' \/ \E y \in Requests : At(y)' = p /\ Writing(y, d)'
    <3>1. CASE p = At(r)
      BY <3>1, <1>5 DEF At
    <3>2. CASE p # At(r)
      BY <3>2, <2>1, <1>5 DEF Crossed, Follows
    <3>3. QED
      BY <3>1, <3>2
  <2>4. ASSUME NEW y \in Requests, At(y)' = p PROVE Agrees(y, d)'
    <3>1. CASE y = r
      BY <3>1, <1>1, <1>3, <1>5 DEF Agrees
    <3>2. CASE y # r
      BY <3>2, <2>2, <2>4 DEF Agrees, Writing, At
    <3>3. QED
      BY <3>1, <3>2
  <2>5. QED
    BY <2>3, <2>4 DEF InStep
<1>6. QED
  BY <1>4, <1>5

LEMMA FollowStep ==
  ASSUME FollowInv, [Next]_vars
  PROVE  FollowInv'
<1> USE DEF dbVars, memoryVars, historyVars, writeVars
<1>t. /\ TypeOK /\ TypeOK' /\ req \in [Requests -> Request]
      /\ rows \in RowSet /\ cache \in [Processes -> RowSet]
      /\ disputed \in [Processes -> SUBSET Datastores]
      /\ \A r \in Requests : Fits(req[r])
  BY StepTypes DEF FollowInv, TypeOK, TablesTypeOK, MemoryTypeOK, RequestsTypeOK,
     HistoryTypeOK
<1>1. ASSUME NEW r \in Requests, Arrive(r) PROVE FollowInv'
  <2>1. UNCHANGED <<rows, cache, hydrated, disputed>> /\ req[r].pc = "idle"
    BY <1>1 DEF Arrive, LoadFilespaces, OpenPage, Connect, Remove, Drop, Save
  <2>2. /\ req'[r].pc \notin {"useRows", "keep", "forget"}
        /\ \A x \in Requests \ {r} : req'[x] = req[x]
    BY <1>1, <1>t, Arrival DEF TypeOK, RequestsTypeOK
  <2>3. QED
    BY <2>1, <2>2, <1>t, FollowFrame
<1>2. ASSUME NEW r \in Requests,
             \/ ReadHost(r) \/ UseHost(r) \/ ReadToken(r) \/ UseToken(r) \/ ReadRows(r)
             \/ FilespacesListed(r) \/ Credentials(r) \/ SaveToken(r) \/ SaveHost(r)
             \/ Commit(r) \/ DatastoresListed(r) \/ Validated(r) \/ Dropped(r)
             \/ Fail(r) \/ Refuse(r) \/ Reply(r)
      PROVE  FollowInv'
  <2>1. UNCHANGED <<rows, cache, hydrated, disputed>> /\ req[r].pc \notin {"keep", "forget"}
    BY <1>2 DEF ReadHost, UseHost, ReadToken, UseToken, ReadRows, FilespacesListed,
       Credentials, SaveToken, SaveHost, Commit, DatastoresListed, Validated, Dropped, Fail,
       Refuse, Reply, DatabaseLabels, ServiceLabels
  <2>2. /\ req'[r].pc = "useRows" => req'[r].found = rows
        /\ req'[r].pc \notin {"keep", "forget"}
    BY <1>2, <1>t DEF ReadHost, UseHost, ReadToken, UseToken, ReadRows, FilespacesListed,
       Credentials, SaveToken, SaveHost, Commit, DatastoresListed, Validated, Dropped, Fail,
       Refuse, Reply, Goto, Request, NoRequest
  <2>3. \A x \in Requests \ {r} : req'[x] = req[x]
    BY <1>2, <1>t DEF ReadHost, UseHost, ReadToken, UseToken, ReadRows, FilespacesListed,
       Credentials, SaveToken, SaveHost, Commit, DatastoresListed, Validated, Dropped, Fail,
       Refuse, Reply, Goto
  <2>4. QED
    BY <2>1, <2>2, <2>3, <1>t, FollowFrame
<1>3. ASSUME NEW r \in Requests, UseRows(r),
             NEW p \in Processes, NEW d \in Datastores \ disputed'[p]
      PROVE  InStep(p, d)'
  <2> DEFINE merged == Merged(req[r].found, cache[At(r)])
  <2>1. req[r].pc = "useRows" /\ At(r) \in Processes
    BY <1>3, <1>t DEF UseRows, Fits, At
  <2>2. /\ UNCHANGED <<rows, disputed>> /\ hydrated' = hydrated \cup {At(r)}
        /\ cache' = [cache EXCEPT ![At(r)] = merged]
    BY <1>3 DEF UseRows
  <2>3. req'[r].pc = "reply" /\ \A x \in Requests \ {r} : req'[x] = req[x]
    BY <1>3, <1>t DEF UseRows, Request
  <2>4. InStep(p, d)
    BY <1>3, <2>2 DEF FollowInv
  <2>5. Follows(p, d) => Follows(p, d)'
    <3>1. CASE p = At(r)
      <4>1. req[r].found[d] = rows[d]
        BY <3>1, <2>1, <2>4 DEF InStep, Agrees
      <4>2. cache'[p][d] = IF rows[d] # None THEN rows[d] ELSE cache[p][d]
        BY <3>1, <4>1, <2>1, <2>2, <1>t DEF Merged, Over
      <4>3. QED
        BY <4>2, <2>2 DEF Follows
    <3>2. CASE p # At(r)
      BY <3>2, <2>1, <2>2, <1>t DEF Follows
    <3>3. QED
      BY <3>1, <3>2
  <2>6. ASSUME NEW x \in Requests, At(x) = p, Writing(x, d)
        PROVE  At(x)' = p /\ Writing(x, d)'
    BY <2>6, <2>1, <2>3 DEF Writing, At
  <2>7. \A x \in Requests : At(x)' = p => Agrees(x, d)'
    BY <2>2, <2>3, <2>4 DEF InStep, Agrees, Writing, At
  <2>8. QED
    BY <2>4, <2>5, <2>6, <2>7 DEF InStep
<1>4. ASSUME NEW r \in Requests, Upsert(r) PROVE FollowInv'
  <2>1. req[r].pc = "upsert" /\ req[r].ds \in Datastores /\ At(r) \in Processes
    BY <1>4, <1>t DEF Upsert, Fits, SaveLabels, At
  <2>2. /\ UNCHANGED <<cache, hydrated>> /\ Dispute(r)
        /\ rows' = [rows EXCEPT ![req[r].ds] = req[r].rec]
    BY <1>4 DEF Upsert
  <2>3. /\ req'[r].pc = "keep" /\ req'[r].ds = req[r].ds /\ req'[r].rec = req[r].rec
        /\ req'[r].p = req[r].p /\ \A x \in Requests \ {r} : req'[x] = req[x]
    BY <1>4, <1>t DEF Upsert, Goto, Request
  <2>4. QED
    BY <2>1, <2>2, <2>3, <1>t, FollowWrite DEF Writing
<1>5. ASSUME NEW r \in Requests, Keep(r),
             NEW p \in Processes, NEW d \in Datastores \ disputed'[p]
      PROVE  InStep(p, d)'
  <2>1. req[r].pc = "keep" /\ req[r].ds \in Datastores /\ At(r) \in Processes
    BY <1>5, <1>t DEF Keep, Fits, SaveLabels, At
  <2>2. UNCHANGED <<rows, hydrated, disputed>> /\ cache' = [cache EXCEPT ![At(r)] = Kept(r)]
    BY <1>5 DEF Keep
  <2>3. cache'[p][d] = IF p = At(r) /\ d = req[r].ds THEN req[r].rec ELSE cache[p][d]
    BY <2>1, <2>2, <1>t DEF Kept, RowSet
  <2>4. req'[r].pc = "reply" /\ \A x \in Requests \ {r} : req'[x] = req[x]
    BY <1>5, <1>t DEF Keep, Goto, Request
  <2>5. InStep(p, d)
    BY <1>5, <2>2 DEF FollowInv
  <2>6. Follows(p, d)' \/ \E x \in Requests : At(x)' = p /\ Writing(x, d)'
    <3>1. CASE p = At(r) /\ d = req[r].ds
      BY <3>1, <2>1, <2>2, <2>3, <2>5 DEF InStep, Agrees, Writing, Follows
    <3>2. CASE ~(p = At(r) /\ d = req[r].ds)
      <4>1. Follows(p, d) => Follows(p, d)'
        BY <3>2, <2>2, <2>3 DEF Follows
      <4>2. ASSUME NEW x \in Requests, At(x) = p, Writing(x, d)
            PROVE  At(x)' = p /\ Writing(x, d)'
        BY <4>2, <3>2, <2>4 DEF Writing, At
      <4>3. QED
        BY <4>1, <4>2, <2>5 DEF InStep
    <3>3. QED
      BY <3>1, <3>2
  <2>7. \A x \in Requests : At(x)' = p => Agrees(x, d)'
    BY <2>2, <2>4, <2>5 DEF InStep, Agrees, Writing, At
  <2>8. QED
    BY <2>6, <2>7 DEF InStep
<1>6. ASSUME NEW r \in Requests, Erase(r) PROVE FollowInv'
  <2>1. req[r].pc = "erase" /\ req[r].ds \in Datastores /\ At(r) \in Processes
    BY <1>6, <1>t DEF Erase, Fits, RemoveLabels, At
  <2>2. UNCHANGED <<cache, hydrated>> /\ rows' = [rows EXCEPT ![req[r].ds] = None]
    BY <1>6 DEF Erase
  <2>3. /\ req'[r].pc = "forget" /\ req'[r].ds = req[r].ds /\ req'[r].p = req[r].p
        /\ req'[r].removed = (rows[req[r].ds] # None)
        /\ \A x \in Requests \ {r} : req'[x] = req[x]
    BY <1>6, <1>t DEF Erase, Request
  <2>4. CASE rows[req[r].ds] # None
    <3>1. Dispute(r)
      BY <2>4, <1>6 DEF Erase
    <3>2. QED
      BY <3>1, <2>1, <2>2, <2>3, <2>4, <1>t, FollowWrite DEF Writing
  <2>5. CASE rows[req[r].ds] = None
    <3>1. UNCHANGED <<rows, disputed>>
      BY <2>5, <2>2, <1>6, <1>t DEF Erase, RowSet
    <3>2. ASSUME NEW p \in Processes, NEW d \in Datastores \ disputed'[p]
          PROVE  InStep(p, d)'
      <4>1. InStep(p, d)
        BY <3>1, <3>2 DEF FollowInv
      <4>2. Follows(p, d) => Follows(p, d)'
        BY <3>1, <2>2 DEF Follows
      <4>3. \A x \in Requests : At(x) = p /\ Writing(x, d) => At(x)' = p /\ Writing(x, d)'
        BY <2>1, <2>3 DEF Writing, At
      <4>4. \A x \in Requests : At(x)' = p => Agrees(x, d)'
        BY <3>1, <2>3, <2>5, <4>1 DEF InStep, Agrees, Writing, At
      <4>5. QED
        BY <4>1, <4>2, <4>3, <4>4 DEF InStep
    <3>3. QED
      BY <3>2, <1>t DEF FollowInv
  <2>6. QED
    BY <2>4, <2>5
<1>7. ASSUME NEW r \in Requests, Forget(r),
             NEW p \in Processes, NEW d \in Datastores \ disputed'[p]
      PROVE  InStep(p, d)'
  <2>1. req[r].pc = "forget" /\ req[r].ds \in Datastores /\ At(r) \in Processes
    BY <1>7, <1>t DEF Forget, Fits, RemoveLabels, At
  <2>2. /\ UNCHANGED <<rows, hydrated, disputed>>
        /\ cache' = [cache EXCEPT ![At(r)] = Forgotten(r)]
    BY <1>7 DEF Forget
  <2> DEFINE pops == p = At(r) /\ d = req[r].ds /\ req[r].removed
  <2>3. cache'[p][d] = IF pops THEN None ELSE cache[p][d]
    BY <2>1, <2>2, <1>t DEF Forgotten, RowSet
  <2>4. req'[r].pc \in {"reply", "readHost"} /\ \A x \in Requests \ {r} : req'[x] = req[x]
    BY <1>7, <1>t, Forgetting DEF TypeOK, RequestsTypeOK
  <2>5. InStep(p, d)
    BY <1>7, <2>2 DEF FollowInv
  <2>6. Follows(p, d)' \/ \E x \in Requests : At(x)' = p /\ Writing(x, d)'
    <3>1. CASE pops
      BY <3>1, <2>1, <2>2, <2>3, <2>5 DEF InStep, Agrees, Writing, Follows
    <3>2. CASE ~pops
      <4>1. Follows(p, d) => Follows(p, d)'
        BY <3>2, <2>2, <2>3 DEF Follows
      <4>2. ASSUME NEW x \in Requests, At(x) = p, Writing(x, d)
            PROVE  At(x)' = p /\ Writing(x, d)'
        BY <4>2, <3>2, <2>1, <2>4 DEF Writing, At
      <4>3. QED
        BY <4>1, <4>2, <2>5 DEF InStep
    <3>3. QED
      BY <3>1, <3>2
  <2>7. \A x \in Requests : At(x)' = p => Agrees(x, d)'
    BY <2>2, <2>4, <2>5 DEF InStep, Agrees, Writing, At
  <2>8. QED
    BY <2>6, <2>7 DEF InStep
<1>8. ASSUME NEW q \in Processes, Restart(q),
             NEW p \in Processes, NEW d \in Datastores \ disputed'[p]
      PROVE  InStep(p, d)'
  <2>1. \A x \in Requests : req'[x] = IF At(x) = q THEN NoRequest ELSE req[x]
    BY <1>8 DEF Restart
  <2>2. UNCHANGED rows /\ hydrated' = hydrated \ {q}
    BY <1>8 DEF Restart
  <2>3. CASE p = q
    <3>1. Follows(p, d)'
      BY <2>2, <2>3, <1>8, <1>t DEF Restart, NoRows, Follows
    <3>2. \A x \in Requests : At(x)' = p => Agrees(x, d)'
      BY <2>1, <2>3 DEF At, Agrees, Writing, NoRequest
    <3>3. QED
      BY <3>1, <3>2 DEF InStep
  <2>4. CASE p # q
    <3>1. cache'[p] = cache[p] /\ disputed'[p] = disputed[p]
      BY <2>4, <1>8, <1>t DEF Restart
    <3>2. InStep(p, d)
      BY <3>1, <1>8 DEF FollowInv
    <3>3. Follows(p, d) => Follows(p, d)'
      BY <3>1, <2>2, <2>4 DEF Follows
    <3>4. \A x \in Requests : At(x) = p /\ Writing(x, d) => At(x)' = p /\ Writing(x, d)'
      BY <2>1, <2>4 DEF Writing, At
    <3>5. \A x \in Requests : At(x)' = p => Agrees(x, d)'
      BY <3>2, <2>1, <2>2 DEF InStep, Agrees, Writing, At, NoRequest
    <3>6. QED
      BY <3>2, <3>3, <3>4, <3>5 DEF InStep
  <2>5. QED
    BY <2>3, <2>4
<1>9. CASE UNCHANGED vars
  BY <1>9, <1>t DEF vars, FollowInv, InStep, Follows, Agrees, Writing, At
<1>10. QED
  BY <1>1, <1>2, <1>3, <1>4, <1>5, <1>6, <1>7, <1>8, <1>9, <1>t DEF Next, Step, FollowInv

\* Whatever processes, requests, failures and restarts: a cache leaves the table only
\* where the row changed in another process, or under a request of its own that had it in
\* hand.
THEOREM CacheFollows == Spec => []CacheFollowsUnlessDisputed
<1>1. Init => FollowInv
  BY InitTypes DEF Init, FollowInv, InStep, Follows, Agrees, Writing, NoRows, NoRequest
<1>2. FollowInv => CacheFollowsUnlessDisputed
  BY DEF FollowInv, InStep, Follows, CacheFollowsUnlessDisputed
<1>3. QED
  BY <1>1, <1>2, FollowStep, PTL DEF Spec

-----------------------------------------------------------------------------
(* Requests one at a time *)

\* One process, and one slot for requests.
Solo ==
  /\ \A p, q \in Processes : p = q
  /\ \A r, s \in Requests : r = s

\* With one process and one slot there is nobody to cross.
Unshared == \A p \in Processes : disputed[p] = {}

LEMMA UnsharedStep ==
  ASSUME Solo, TypeOK, Unshared, [Next]_vars
  PROVE  Unshared'
<1> USE DEF dbVars, memoryVars, historyVars, writeVars
<1>1. disputed \in [Processes -> SUBSET Datastores] /\ \A r \in Requests : Fits(req[r])
  BY DEF TypeOK, HistoryTypeOK, RequestsTypeOK
<1>2. ASSUME NEW r \in Requests, At(r) \in Processes, Dispute(r) PROVE Unshared'
  BY <1>1, <1>2 DEF Dispute, Crossed, Solo, Unshared
<1>3. ASSUME NEW r \in Requests, Upsert(r) PROVE Unshared'
  BY <1>1, <1>2, <1>3 DEF Upsert, Fits, At
<1>4. ASSUME NEW r \in Requests, Erase(r) PROVE Unshared'
  BY <1>1, <1>2, <1>4 DEF Erase, Fits, At, Unshared
<1>5. ASSUME NEW p \in Processes, Restart(p) PROVE Unshared'
  BY <1>1, <1>5 DEF Restart, Unshared
<1>6. ASSUME NEW r \in Requests, Arrive(r) PROVE Unshared'
  BY <1>6 DEF Arrive, LoadFilespaces, OpenPage, Connect, Remove, Drop, Save, Unshared
<1>7. ASSUME NEW r \in Requests, Step(r), ~Upsert(r), ~Erase(r) PROVE UNCHANGED disputed
  BY <1>7 DEF Step, ReadHost, UseHost, ReadToken, UseToken, ReadRows, UseRows,
     FilespacesListed, Credentials, SaveToken, SaveHost, Commit, DatastoresListed,
     Validated, Keep, Dropped, Forget, Fail, Refuse, Reply
<1>8. QED
  BY <1>3, <1>4, <1>5, <1>6, <1>7 DEF Next, vars, Unshared

\* Of requests one at a time, whatever fails and restarts: once a request is done, the
\* process serves the rows in the table and none that was removed.
THEOREM CacheFollowsTable == Solo /\ Spec => []QuietCacheIsTable
<1>1. Init => Unshared
  BY DEF Init, Unshared
<1>2. Solo /\ TypeOK /\ Unshared /\ [Next]_vars => (Solo /\ Unshared)'
  BY UnsharedStep DEF Solo
<1>3. Unshared /\ CacheFollowsUnlessDisputed => QuietCacheIsTable
  BY DEF Unshared, CacheFollowsUnlessDisputed, QuietCacheIsTable, Quiet, Writing
<1>4. QED
  BY <1>1, <1>2, <1>3, TypeCorrect, CacheFollows, PTL DEF Spec

-----------------------------------------------------------------------------
(* The connection *)

\* The form always names a host: a blank field means the one in memory, which a
\* process that has not hydrated does not have.
HostsNamed == None \notin HostForms

\* A load has set the memory and not yet committed the rows.
Loading(r) == req[r].op = "load" /\ req[r].pc \in {"token", "host", "commit"}

LoadOK(r) ==
  Loading(r) =>
    /\ req[r].tok # None /\ token[At(r)] = req[r].tok
    /\ host[At(r)] # None /\ <<req[r].tok, host[At(r)]>> \in checked
    /\ req[r].pc = "commit" => req[r].host = host[At(r)]

ConnectOK(r) ==
  /\ req[r].pc = "list" => req[r].op = "load" /\ req[r].host # None
  /\ req[r].pc = "host" => req[r].op = "load"
  /\ req[r].op = "connect" /\ req[r].pc \in {"creds", "token", "commit"} => req[r].host = None
  /\ req[r].op = "connect" /\ req[r].pc \in {"token", "commit"} =>
       req[r].tok # None /\ token[At(r)] = req[r].tok

\* What hydrate has read is still there, and the host it read is in memory before the
\* token is.
ReadOK(r) ==
  /\ req[r].pc = "useHost" => req[r].got = hostRow
  /\ req[r].pc = "useToken" => req[r].got = tokenRow
  /\ req[r].pc \in {"readToken", "useToken"} =>
       token[At(r)] = None /\ (hostRow # None => host[At(r)] = hostRow)

SlotOK(r) == LoadOK(r) /\ ConnectOK(r) /\ ReadOK(r)

RowsPaired == tokenRow # None => hostRow # None /\ <<tokenRow, hostRow>> \in checked

\* Memory and rows agree, but during a load.
Synced(p) == token[p] # None => token[p] = tokenRow /\ host[p] = hostRow

ConnInv ==
  /\ TypeOK
  /\ ~failed => /\ RowsPaired
                /\ \A p \in Processes : Synced(p) \/ \E r \in Requests : Loading(r)
                /\ \A r \in Requests : SlotOK(r)

\* Labels at which nothing is in hand.
Plain == Labels \ {"useHost", "readToken", "useToken", "list", "creds", "token", "host", "commit"}

\* Steps that leave the connection alone and lead to such a label.
LEMMA ConnFrame ==
  ASSUME Solo, ConnInv, TypeOK', NEW r \in Requests, ~Loading(r), req'[r].pc \in Plain,
         UNCHANGED <<tokenRow, hostRow, token, host, checked, failed>>
  PROVE  ConnInv'
<1>1. \A x \in Requests : ~Loading(x) /\ SlotOK(x)'
  BY DEF Solo, SlotOK, LoadOK, Loading, ConnectOK, ReadOK, Plain
<1>2. QED
  BY <1>1 DEF ConnInv, RowsPaired, Synced

LEMMA ConnArrive ==
  ASSUME Solo, HostsNamed, ConnInv, TypeOK', NEW r \in Requests, Arrive(r)
  PROVE  ConnInv'
<1>t. /\ RequestsTypeOK /\ req \in [Requests -> Request] /\ req' \in [Requests -> Request]
  BY DEF ConnInv, TypeOK, RequestsTypeOK
<1>u. /\ UNCHANGED <<tokenRow, hostRow, token, host, checked, failed>>
      /\ req[r].pc = "idle"
  BY DEF Arrive, LoadFilespaces, OpenPage, Connect, Remove, Drop, Save, dbVars, memoryVars,
     historyVars, writeVars
<1>v. ~Loading(r)
  BY <1>u DEF Loading
<1>1. ASSUME NEW p \in Processes, NEW d \in Datastores, OpenPage(r, p, d)
      PROVE  ConnInv'
  <2> DEFINE q == [NoRequest EXCEPT !.op = "page", !.p = p, !.ds = d]
  <2>1. q \in Request /\ Hydrate(r, q, cache[p])
    BY <1>1, RowTypes DEF OpenPage, Request, Ops
  <2>2. req'[r].pc \in {"reply", "readHost"}
    BY <2>1, <1>t, Hydrating
  <2>3. QED
    BY <2>2, <1>u, <1>v, ConnFrame DEF Plain, Labels, HydrateLabels
<1>2. ASSUME NEW p \in Processes, NEW t \in Tokens, NEW h \in HostForms,
             LoadFilespaces(r, p, t, h)
      PROVE  ConnInv'
  <2>1. req'[r].pc = "list" /\ req'[r].op = "load" /\ req'[r].host = Over(h, host[p])
    BY <1>2, <1>t DEF LoadFilespaces, NoRequest
  <2>2. req'[r].host # None
    BY <2>1 DEF HostsNamed, Over
  <2>3. \A x \in Requests : ~Loading(x) /\ SlotOK(x)'
    BY <1>v, <2>1, <2>2 DEF Solo, SlotOK, LoadOK, Loading, ConnectOK, ReadOK
  <2>4. QED
    BY <2>3, <1>u DEF ConnInv, RowsPaired, Synced
<1>3. ASSUME NEW p \in Processes, NEW d \in Datastores, Connect(r, p, d)
      PROVE  ConnInv'
  <2>1. req'[r].pc = "creds" /\ req'[r].op = "connect" /\ req'[r].host = None
    <3> DEFINE q == [NoRequest EXCEPT !.pc = "creds", !.op = "connect", !.p = p, !.ds = d]
    <3>1. req' = [req EXCEPT ![r] = q]
      BY <1>3 DEF Connect
    <3>2. q.pc = "creds" /\ q.op = "connect" /\ q.host = None
      BY DEF NoRequest
    <3> HIDE DEF q
    <3>3. QED
      BY <3>1, <3>2, <1>t
  <2>2. \A x \in Requests : ~Loading(x) /\ SlotOK(x)'
    BY <1>v, <2>1 DEF Solo, SlotOK, LoadOK, Loading, ConnectOK, ReadOK
  <2>3. QED
    BY <2>2, <1>u DEF ConnInv, RowsPaired, Synced
<1>4. ASSUME NEW p \in Processes, NEW d \in Datastores, NEW label \in {"validate", "erase", "api"},
             NEW q, q.pc = label, req' = [req EXCEPT ![r] = q]
      PROVE  ConnInv'
  <2>1. req'[r].pc \in {"validate", "erase", "api"}
    BY <1>4, <1>t
  <2>2. QED
    BY <2>1, <1>u, <1>v, ConnFrame DEF Plain, Labels, SaveLabels, RemoveLabels
<1>5. ASSUME NEW p \in Processes, NEW d \in Datastores, Remove(r, p, d) PROVE ConnInv'
  <2> DEFINE q == [NoRequest EXCEPT !.pc = "erase", !.op = "remove", !.p = p, !.ds = d]
  <2>1. req' = [req EXCEPT ![r] = q] /\ q.pc = "erase"
    BY <1>5 DEF Remove, NoRequest
  <2> HIDE DEF q
  <2>2. QED
    BY <2>1, <1>4
<1>6. ASSUME NEW p \in Processes, NEW d \in Datastores, Drop(r, p, d) PROVE ConnInv'
  <2> DEFINE q == [NoRequest EXCEPT !.pc = "api", !.op = "drop", !.p = p, !.ds = d]
  <2>1. req' = [req EXCEPT ![r] = q] /\ q.pc = "api"
    BY <1>6 DEF Drop, NoRequest
  <2> HIDE DEF q
  <2>2. QED
    BY <2>1, <1>4
<1>7. ASSUME NEW p \in Processes, NEW d \in Datastores, NEW y \in Records, Save(r, p, d, y)
      PROVE  ConnInv'
  <2> DEFINE q == [NoRequest EXCEPT !.pc = "validate", !.op = "save", !.p = p, !.ds = d, !.rec = y]
  <2>1. req' = [req EXCEPT ![r] = q] /\ q.pc = "validate"
    BY <1>7 DEF Save, NoRequest
  <2> HIDE DEF q
  <2>2. QED
    BY <2>1, <1>4
<1>8. QED
  BY <1>1, <1>2, <1>3, <1>5, <1>6, <1>7 DEF Arrive

LEMMA ConnHydrate ==
  ASSUME Solo, ConnInv, TypeOK', NEW r \in Requests,
         ReadHost(r) \/ UseHost(r) \/ ReadToken(r) \/ UseToken(r)
  PROVE  ConnInv'
<1> USE DEF dbVars, memoryVars, historyVars, writeVars
<1>t. /\ RequestsTypeOK /\ req \in [Requests -> Request] /\ Fits(req[r])
      /\ token \in [Processes -> Tokens \cup {None}] /\ host \in [Processes -> Hosts \cup {None}]
  BY DEF ConnInv, TypeOK, RequestsTypeOK, MemoryTypeOK
<1>u. /\ UNCHANGED <<tokenRow, hostRow, checked, failed>> /\ At(r) \in Processes
      /\ req[r].pc \in HydrateLabels /\ req[r].op \in {"page", "remove"}
      /\ req'[r].op = req[r].op /\ req'[r].p = req[r].p
  BY <1>t DEF ReadHost, UseHost, ReadToken, UseToken, Goto, Fits, At, HydrateLabels, Request
<1>1. CASE failed
  BY <1>u, <1>1 DEF ConnInv
<1>2. CASE ~failed
  <2>1. /\ RowsPaired /\ \A p \in Processes : Synced(p)
        /\ \A x \in Requests : SlotOK(x)
    BY <1>2, <1>u DEF ConnInv, Solo, Loading
  <2>2. ASSUME \A p \in Processes : Synced(p)', ReadOK(r)' PROVE ConnInv'
    <3>1. \A x \in Requests : SlotOK(x)'
      BY <2>2, <1>u, <1>t DEF Solo, SlotOK, LoadOK, Loading, ConnectOK, ReadHost, UseHost,
         ReadToken, UseToken, Goto, Request
    <3>2. QED
      BY <2>1, <2>2, <3>1, <1>u DEF ConnInv, RowsPaired
  <2>3. CASE ReadHost(r)
    <3>1. req'[r].pc = "useHost" /\ req'[r].got = hostRow /\ UNCHANGED <<token, host>>
      BY <2>3, <1>t DEF ReadHost, Request
    <3>2. QED
      BY <2>1, <2>2, <3>1, <1>u DEF ReadOK, Synced
  <2>4. CASE UseHost(r)
    <3>1. req[r].got = hostRow
      BY <2>1, <2>4 DEF SlotOK, ReadOK, UseHost
    <3>2. host' = [host EXCEPT ![At(r)] = Over(hostRow, @)] /\ UNCHANGED token
      BY <2>4, <3>1 DEF UseHost
    <3>3. \A p \in Processes : host'[p] = Over(hostRow, host[p])
      BY <3>2, <1>u, <1>t DEF Solo
    <3>4. req'[r].pc = IF token[At(r)] = None THEN "readToken" ELSE "readRows"
      BY <2>4, <1>t DEF UseHost, Goto, Request
    <3>5. \A p \in Processes : Synced(p)'
      BY <2>1, <3>2, <3>3, <1>u DEF Synced, RowsPaired, Over
    <3>6. ReadOK(r)'
      BY <3>2, <3>3, <3>4, <1>u DEF ReadOK, Over, At
    <3>7. QED
      BY <2>2, <3>5, <3>6
  <2>5. CASE ReadToken(r)
    <3>1. req'[r].pc = "useToken" /\ req'[r].got = tokenRow /\ UNCHANGED <<token, host>>
          /\ req[r].pc = "readToken"
      BY <2>5, <1>t DEF ReadToken, Request
    <3>2. ReadOK(r)'
      BY <2>1, <3>1, <1>u DEF ReadOK, SlotOK, At
    <3>3. QED
      BY <2>1, <2>2, <3>1, <3>2, <1>u DEF Synced
  <2>6. CASE UseToken(r)
    <3>1. /\ req[r].got = tokenRow /\ token[At(r)] = None
          /\ hostRow # None => host[At(r)] = hostRow
      BY <2>1, <2>6 DEF SlotOK, ReadOK, UseToken
    <3>2. token' = [token EXCEPT ![At(r)] = Over(tokenRow, @)] /\ UNCHANGED host
      BY <2>6, <3>1 DEF UseToken
    <3>3. \A p \in Processes : p = At(r) /\ token'[p] = tokenRow
      BY <3>1, <3>2, <1>u, <1>t DEF Solo, Over
    <3>4. req'[r].pc = "readRows"
      BY <2>6, <1>t DEF UseToken, Goto, Request
    <3>5. QED
      BY <2>1, <2>2, <3>1, <3>2, <3>3, <3>4, <1>u DEF Synced, ReadOK, RowsPaired
  <2>7. QED
    BY <2>3, <2>4, <2>5, <2>6
<1>3. QED
  BY <1>1, <1>2

LEMMA ConnLoad ==
  ASSUME Solo, ConnInv, TypeOK', NEW r \in Requests,
         FilespacesListed(r) \/ Credentials(r) \/ SaveToken(r) \/ SaveHost(r) \/ Commit(r)
  PROVE  ConnInv'
<1> USE DEF dbVars, memoryVars, historyVars, writeVars
<1>t. /\ RequestsTypeOK /\ req \in [Requests -> Request] /\ Fits(req[r])
      /\ token \in [Processes -> Tokens \cup {None}] /\ host \in [Processes -> Hosts \cup {None}]
  BY DEF ConnInv, TypeOK, RequestsTypeOK, MemoryTypeOK
<1>u. /\ UNCHANGED failed /\ At(r) \in Processes
      /\ req'[r].op = req[r].op /\ req'[r].p = req[r].p
  BY <1>t DEF FilespacesListed, Credentials, SaveToken, SaveHost, Commit, Goto, Fits, At, Request
<1>1. CASE failed
  BY <1>u, <1>1 DEF ConnInv
<1>2. CASE ~failed
  <2>1. /\ RowsPaired /\ SlotOK(r)
        /\ ~Loading(r) => \A p \in Processes : Synced(p)
    BY <1>2 DEF ConnInv, Solo
  <2>2. ASSUME RowsPaired', Loading(r)' \/ \A p \in Processes : Synced(p)', SlotOK(r)'
        PROVE  ConnInv'
    BY <2>2 DEF ConnInv, Solo
  <2>3. CASE FilespacesListed(r)
    <3>1. req[r].op = "load" /\ req[r].host # None /\ req[r].tok \in Tokens
      BY <2>1, <2>3, <1>t DEF SlotOK, ConnectOK, FilespacesListed, Fits
    <3>2. /\ token'[At(r)] = req[r].tok /\ host'[At(r)] = req[r].host
          /\ checked' = checked \cup {<<req[r].tok, req[r].host>>}
          /\ UNCHANGED <<tokenRow, hostRow>>
      BY <2>3, <1>t, <1>u DEF FilespacesListed
    <3>3. req'[r].pc = "token" /\ req'[r].tok = req[r].tok
      BY <2>3, <1>t DEF FilespacesListed, Goto, Request
    <3>4. SlotOK(r)' /\ Loading(r)'
      BY <3>1, <3>2, <3>3, <1>u, NoneIsApart DEF SlotOK, LoadOK, ConnectOK, ReadOK, Loading, At
    <3>5. RowsPaired'
      BY <2>1, <3>2 DEF RowsPaired
    <3>6. QED
      BY <2>2, <3>4, <3>5
  <2>4. CASE Credentials(r)
    <3>1. /\ req[r].pc = "creds" /\ req[r].op = "connect"
          /\ UNCHANGED <<tokenRow, hostRow, token, host, checked>>
      BY <2>4, <1>t DEF Credentials, Fits
    <3>2. /\ req'[r].tok = token[At(r)] /\ req'[r].host = req[r].host
          /\ req'[r].pc \in {"token", "reply"}
          /\ req'[r].pc = "token" => token[At(r)] # None
      BY <2>4, <1>t DEF Credentials, Request
    <3>3. SlotOK(r)'
      BY <2>1, <3>1, <3>2, <1>u DEF SlotOK, LoadOK, ConnectOK, ReadOK, Loading, At
    <3>4. QED
      BY <2>1, <2>2, <3>1, <3>3 DEF Loading, RowsPaired, Synced
  <2>5. CASE SaveToken(r)
    <3>1. /\ req[r].pc = "token" /\ UNCHANGED <<tokenRow, hostRow, token, host, checked>>
          /\ req[r].op \in {"load", "connect"}
      BY <2>5, <1>t DEF SaveToken, Fits, LoadLabels
    <3>2. /\ req'[r].pc = IF req[r].op = "load" THEN "host" ELSE "commit"
          /\ req'[r].tok = req[r].tok /\ req'[r].host = req[r].host
      BY <2>5, <1>t DEF SaveToken, Goto, Request
    <3>3. SlotOK(r)'
      BY <2>1, <3>1, <3>2, <1>u DEF SlotOK, LoadOK, ConnectOK, ReadOK, Loading, At
    <3>4. Loading(r) <=> Loading(r)'
      BY <3>1, <3>2, <1>u DEF Loading
    <3>5. QED
      BY <2>1, <2>2, <3>1, <3>3, <3>4 DEF RowsPaired, Synced
  <2>6. CASE SaveHost(r)
    <3>1. /\ req[r].pc = "host" /\ UNCHANGED <<tokenRow, hostRow, token, host, checked>>
      BY <2>6 DEF SaveHost
    <3>2. req'[r].pc = "commit" /\ req'[r].tok = req[r].tok /\ req'[r].host = host[At(r)]
      BY <2>6, <1>t DEF SaveHost, Request
    <3>3. req[r].op = "load"
      BY <2>1, <3>1 DEF SlotOK, ConnectOK
    <3>4. SlotOK(r)' /\ Loading(r)'
      BY <2>1, <3>1, <3>2, <3>3, <1>u DEF SlotOK, LoadOK, ConnectOK, ReadOK, Loading, At
    <3>5. QED
      BY <2>1, <2>2, <3>1, <3>4 DEF RowsPaired
  <2>7. CASE Commit(r)
    <3>1. /\ req[r].pc = "commit" /\ UNCHANGED <<token, host, checked>>
          /\ tokenRow' = req[r].tok /\ hostRow' = Over(req[r].host, hostRow)
          /\ req[r].op \in {"load", "connect"}
      BY <2>7, <1>t DEF Commit, Fits, LoadLabels
    <3>2. req'[r].pc \in {"datastores", "reply"}
      BY <2>7, <1>t DEF Commit, Goto, Request
    <3>3. SlotOK(r)'
      BY <3>2 DEF SlotOK, LoadOK, ConnectOK, ReadOK, Loading
    <3>4. CASE req[r].op = "load"
      <4>1. /\ tokenRow' = token[At(r)] /\ hostRow' = host[At(r)] /\ host[At(r)] # None
            /\ <<token[At(r)], host[At(r)]>> \in checked
        BY <2>1, <3>1, <3>4 DEF SlotOK, LoadOK, Loading, Over
      <4>2. \A p \in Processes : p = At(r)
        BY <1>u DEF Solo
      <4>3. RowsPaired' /\ \A p \in Processes : Synced(p)'
        BY <3>1, <4>1, <4>2 DEF RowsPaired, Synced
      <4>4. QED
        BY <2>2, <3>3, <4>3
    <3>5. CASE req[r].op = "connect"
      <4>1. /\ req[r].host = None /\ req[r].tok # None /\ token[At(r)] = req[r].tok
        BY <2>1, <3>1, <3>5 DEF SlotOK, ConnectOK
      <4>2. \A p \in Processes : Synced(p)
        BY <2>1, <3>5 DEF Loading
      <4>3. token[At(r)] = tokenRow
        BY <4>1, <4>2, <1>u DEF Synced
      <4>4. UNCHANGED <<tokenRow, hostRow>>
        BY <3>1, <4>1, <4>3 DEF Over
      <4>5. QED
        BY <2>1, <2>2, <3>1, <3>3, <4>2, <4>4 DEF RowsPaired, Synced
    <3>6. QED
      BY <3>1, <3>4, <3>5
  <2>8. QED
    BY <2>3, <2>4, <2>5, <2>6, <2>7
<1>3. QED
  BY <1>1, <1>2

LEMMA ConnStep ==
  ASSUME Solo, HostsNamed, ConnInv, [Next]_vars
  PROVE  ConnInv'
<1> USE DEF dbVars, memoryVars, historyVars, writeVars, cleanVars
<1>t. /\ TypeOK /\ TypeOK' /\ RequestsTypeOK /\ req \in [Requests -> Request]
      /\ \A r \in Requests : Fits(req[r])
  BY StepTypes DEF ConnInv, TypeOK, RequestsTypeOK
<1>1. ASSUME NEW r \in Requests, Arrive(r) PROVE ConnInv'
  BY <1>1, <1>t, ConnArrive
<1>2. ASSUME NEW r \in Requests, ReadHost(r) \/ UseHost(r) \/ ReadToken(r) \/ UseToken(r)
      PROVE  ConnInv'
  BY <1>2, <1>t, ConnHydrate
<1>3. ASSUME NEW r \in Requests,
             FilespacesListed(r) \/ Credentials(r) \/ SaveToken(r) \/ SaveHost(r) \/ Commit(r)
      PROVE  ConnInv'
  BY <1>3, <1>t, ConnLoad
<1>4. ASSUME NEW r \in Requests,
             \/ ReadRows(r) \/ UseRows(r) \/ DatastoresListed(r) \/ Validated(r) \/ Upsert(r)
             \/ Keep(r) \/ Dropped(r) \/ Erase(r) \/ Forget(r) \/ Refuse(r) \/ Reply(r)
      PROVE  ConnInv'
  <2>1. /\ UNCHANGED <<tokenRow, hostRow, token, host, checked, failed>>
        /\ req[r].pc \notin {"token", "host", "commit"}
    BY <1>4 DEF ReadRows, UseRows, DatastoresListed, Validated, Upsert, Keep, Dropped, Erase,
       Forget, Refuse, Reply, ServiceLabels
  <2>2. CASE ~Forget(r)
    <3>1. req'[r].pc \in {"useRows", "reply", "upsert", "keep", "erase", "forget", "idle"}
      BY <1>4, <2>2, <1>t DEF ReadRows, UseRows, DatastoresListed, Validated, Upsert, Keep,
         Dropped, Erase, Refuse, Reply, Goto, Request, NoRequest
    <3>2. QED
      BY <2>1, <3>1, <1>t, ConnFrame
      DEF Loading, Plain, Labels, HydrateLabels, SaveLabels, RemoveLabels
  <2>3. CASE Forget(r)
    <3>1. req'[r].pc \in {"reply", "readHost"}
      BY <2>3, <1>t, Forgetting
    <3>2. QED
      BY <2>1, <3>1, <1>t, ConnFrame DEF Loading, Plain, Labels, HydrateLabels
  <2>4. QED
    BY <2>2, <2>3
<1>5. ASSUME NEW r \in Requests, Fail(r) PROVE ConnInv'
  BY <1>5, <1>t DEF Fail, ConnInv
<1>6. ASSUME NEW p \in Processes, Restart(p) PROVE ConnInv'
  <2>1. /\ UNCHANGED <<tokenRow, hostRow, checked, failed>>
        /\ \A q \in Processes : q = p /\ token'[q] = None
    BY <1>6, <1>t DEF Restart, Solo, TypeOK, MemoryTypeOK
  <2>2. ASSUME NEW x \in Requests PROVE req'[x].pc = "idle"
    <3>1. req'[x] = IF At(x) = p THEN NoRequest ELSE req[x]
      BY <1>6 DEF Restart
    <3>2. req[x].pc # "idle" => At(x) = p
      BY <1>t, <2>1 DEF Fits, At
    <3>3. QED
      BY <3>1, <3>2 DEF NoRequest
  <2>3. \A x \in Requests : SlotOK(x)'
    BY <2>2 DEF SlotOK, LoadOK, ConnectOK, ReadOK, Loading
  <2>4. QED
    BY <2>1, <2>3, <1>t DEF ConnInv, RowsPaired, Synced
<1>7. CASE UNCHANGED vars
  BY <1>7, <1>t DEF vars, ConnInv, RowsPaired, Synced, SlotOK, LoadOK, ConnectOK, ReadOK,
     Loading, At
<1>8. QED
  BY <1>1, <1>2, <1>3, <1>4, <1>5, <1>6, <1>7 DEF Next, Step

\* Of requests one at a time, with a host in every form and no failed statement: what
\* the workers read and what a process uses is a pair that LucidLink accepted.
THEOREM ConnectionWhole == Solo /\ HostsNamed /\ Spec => []ConnectionIsWhole
<1>1. Solo /\ HostsNamed /\ Init => Solo /\ HostsNamed /\ ConnInv
  BY InitTypes DEF Init, ConnInv, RowsPaired, Synced, SlotOK, LoadOK, ConnectOK, ReadOK,
     Loading, NoRequest
<1>2. Solo /\ HostsNamed /\ ConnInv /\ [Next]_vars => (Solo /\ HostsNamed /\ ConnInv)'
  BY ConnStep DEF Solo, HostsNamed
<1>3. Solo /\ HostsNamed /\ ConnInv => ConnectionIsWhole
  BY DEF ConnInv, ConnectionIsWhole, Quiet, Loading, Synced, RowsPaired
<1>4. QED
  BY <1>1, <1>2, <1>3, PTL DEF Spec
=============================================================================
