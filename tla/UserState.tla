----------------------------- MODULE UserState -----------------------------
(***************************************************************************)
(* The per-user state of the web processes: each process keeps the user's  *)
(* LucidLink token, API host and datastore credentials in memory, fills    *)
(* them from Postgres once (UserSession.hydrate) and afterwards writes     *)
(* through.  The routes of main.py run as interleaved coroutines; one step *)
(* per statement the database executes and per resumption of a coroutine.  *)
(*                                                                         *)
(* One user: caches and rows are keyed by the user's id.                   *)
(***************************************************************************)
EXTENDS FiniteSets

CONSTANTS
  Processes,   \* web processes (replicas); a load balancer picks one per request
  Requests,    \* slots for concurrent requests
  Datastores,
  Records,     \* contents of a credentials form: keys, bucket, region
  Tokens,      \* LucidLink API tokens
  Hosts,       \* API hosts
  HostForms,   \* what the API host field of the form may hold
  None         \* no row, or the empty string

ASSUME UserStateAssumption ==
  /\ None \notin Records \cup Tokens \cup Hosts \cup Datastores
  /\ HostForms \subseteq Hosts \cup {None}

Ops == {"none", "page", "load", "connect", "save", "remove", "drop"}

HydrateLabels == {"readHost", "useHost", "readToken", "useToken", "readRows", "useRows"}
LoadLabels    == {"list", "token", "host", "commit", "datastores"}
SaveLabels    == {"validate", "upsert", "keep"}
RemoveLabels  == {"api", "erase", "forget"}
Labels == {"idle", "creds", "reply"} \cup HydrateLabels \cup LoadLabels
            \cup SaveLabels \cup RemoveLabels

\* The labels at which the request waits for a statement, and for another service.
DatabaseLabels == {"readHost", "readToken", "readRows", "token", "host", "commit",
                   "creds", "upsert", "erase"}
ServiceLabels  == {"list", "datastores", "validate", "api"}

VARIABLES
  rows,      \* datastore_credentials: per datastore, the record or None
  tokenRow,  \* user_settings 'll_token_enc'
  hostRow,   \* user_settings 'api_host'
  cache,     \* datastore_credentials and s3_services of each process
  token,     \* UserSession.token
  host,      \* UserSession.api_host
  hydrated,  \* processes whose UserSession.hydrated is set
  listed,    \* processes that hold the list of datastores
  req,       \* the request in each slot
  \* History variables: they record, and no action reads them.
  saved,     \* records that were ever committed
  disputed,  \* datastores whose rows changed where a process could not follow
  clean,     \* datastores saved and answered for, no removal meanwhile or since
  known,     \* of these, those each process saved or found when it started
  sure,      \* saves no removal overlaps, pages whose datastore stays known
  checked,   \* tokens and hosts LucidLink accepted together
  failed     \* a statement failed

dbVars      == <<rows, tokenRow, hostRow>>
memoryVars  == <<cache, token, host, hydrated, listed>>
cleanVars   == <<clean, known, sure>>
writeVars   == <<saved, disputed>>
historyVars == <<writeVars, cleanVars, checked, failed>>
vars == <<rows, tokenRow, hostRow, cache, token, host, hydrated, listed, req,
          saved, disputed, clean, known, sure, checked, failed>>

NoRows == [d \in Datastores |-> None]

\* A slot: the route (op), its process and form (p, ds, rec, tok, host) and its
\* locals: got and found are query results, removed a row count, answer the lookup's.
NoRequest ==
  [pc |-> "idle", op |-> "none", p |-> None, ds |-> None, rec |-> None, tok |-> None,
   host |-> None, got |-> None, found |-> NoRows, removed |-> FALSE, answer |-> "none"]

Init ==
  /\ rows     = NoRows
  /\ tokenRow = None
  /\ hostRow  = None
  /\ cache    = [p \in Processes |-> NoRows]
  /\ token    = [p \in Processes |-> None]
  /\ host     = [p \in Processes |-> None]
  /\ hydrated = {}
  /\ listed   = {}
  /\ req      = [r \in Requests |-> NoRequest]
  /\ saved    = {}
  /\ disputed = [p \in Processes |-> {}]
  /\ clean    = {}
  /\ known    = [p \in Processes |-> {}]
  /\ sure     = {}
  /\ checked  = {}
  /\ failed   = FALSE

At(r)   == req[r].p
Over(new, old) == IF new # None THEN new ELSE old
Answer(c, d)   == IF c[d] # None THEN "hit" ELSE "miss"
Goto(r, label) == req' = [req EXCEPT ![r].pc = label]

Removing(r) == req[r].op \in {"remove", "drop"}
On(d)       == {r \in Requests : req[r].ds = d}

-----------------------------------------------------------------------------
(* UserSession.hydrate *)

\* Its first test: a request that hydrates starts here, or is answered at once.
Hydrate(r, request, mine) ==
  req' = [req EXCEPT ![r] =
            IF request.p \in hydrated
              THEN [request EXCEPT !.pc = "reply", !.answer = Answer(mine, request.ds)]
              ELSE [request EXCEPT !.pc = "readHost"]]

ReadHost(r) ==
  /\ req[r].pc = "readHost"
  /\ req' = [req EXCEPT ![r].got = hostRow, ![r].pc = "useHost"]
  /\ UNCHANGED <<dbVars, memoryVars, historyVars>>

\* The saved host replaces the one in memory; the token is read if there is none.
UseHost(r) ==
  /\ req[r].pc = "useHost"
  /\ host' = [host EXCEPT ![At(r)] = Over(req[r].got, @)]
  /\ Goto(r, IF token[At(r)] = None THEN "readToken" ELSE "readRows")
  /\ UNCHANGED <<dbVars, cache, token, hydrated, listed, historyVars>>

\* Mutant of ReadToken: it selects the other setting.
ReadOtherKey(r) ==
  /\ req[r].pc = "readToken"
  /\ req' = [req EXCEPT ![r].got = hostRow, ![r].pc = "useToken"]
  /\ UNCHANGED <<dbVars, memoryVars, historyVars>>

ReadToken(r) ==
  /\ req[r].pc = "readToken"
  /\ req' = [req EXCEPT ![r].got = tokenRow, ![r].pc = "useToken"]
  /\ UNCHANGED <<dbVars, memoryVars, historyVars>>

\* The token may have been set while it was being read.
UseToken(r) ==
  /\ req[r].pc = "useToken"
  /\ token' = [token EXCEPT ![At(r)] = Over(req[r].got, @)]
  /\ Goto(r, "readRows")
  /\ UNCHANGED <<dbVars, cache, host, hydrated, listed, historyVars>>

\* Mutant of ReadRows: the flag is set before the query is answered.
ReadRowsFlagged(r) ==
  /\ req[r].pc = "readRows"
  /\ req' = [req EXCEPT ![r].found = rows, ![r].pc = "useRows"]
  /\ hydrated' = hydrated \cup {At(r)}
  /\ UNCHANGED <<dbVars, cache, token, host, listed, historyVars>>

ReadRows(r) ==
  /\ req[r].pc = "readRows"
  /\ req' = [req EXCEPT ![r].found = rows, ![r].pc = "useRows"]
  /\ UNCHANGED <<dbVars, memoryVars, historyVars>>

\* Mutant of Merged: the cache becomes what was read.
Replaced(new, old) == new

\* Each row that was read goes into the cache; the other entries stay.
Merged(new, old) == [d \in Datastores |-> Over(new[d], old[d])]

\* Nothing awaits between the end of hydrate and the lookup of the route.
UseRows(r) ==
  /\ req[r].pc = "useRows"
  /\ LET merged == Merged(req[r].found, cache[At(r)])
     IN  /\ cache' = [cache EXCEPT ![At(r)] = merged]
         /\ req' = [req EXCEPT ![r].pc = "reply", ![r].found = NoRows,
                               ![r].answer = Answer(merged, req[r].ds)]
  /\ hydrated' = hydrated \cup {At(r)}
  /\ UNCHANGED <<dbVars, token, host, listed, historyVars>>

\* index, tab_settings, tab_browser, browse_datastore and the imports: hydrate,
\* then look a datastore up.
OpenPage(r, p, d) ==
  /\ req[r].pc = "idle"
  /\ Hydrate(r, [NoRequest EXCEPT !.op = "page", !.p = p, !.ds = d], cache[p])
  /\ sure' = IF d \in known[p] THEN sure \cup {r} ELSE sure
  /\ UNCHANGED <<dbVars, memoryVars, writeVars, clean, known, checked, failed>>

-----------------------------------------------------------------------------
(* The connection: load_filespaces and connect *)

\* A blank host field means the host in memory.
LoadFilespaces(r, p, t, h) ==
  /\ req[r].pc = "idle"
  /\ req' = [req EXCEPT ![r] = [NoRequest EXCEPT
       !.pc = "list", !.op = "load", !.p = p, !.tok = t, !.host = Over(h, host[p])]]
  /\ UNCHANGED <<dbVars, memoryVars, historyVars>>

\* list_filespaces succeeds: memory first, then the rows.
FilespacesListed(r) ==
  /\ req[r].pc = "list"
  /\ token' = [token EXCEPT ![At(r)] = req[r].tok]
  /\ host' = [host EXCEPT ![At(r)] = req[r].host]
  /\ checked' = checked \cup {<<req[r].tok, req[r].host>>}
  /\ Goto(r, "token")
  /\ UNCHANGED <<dbVars, cache, hydrated, listed, writeVars, cleanVars, failed>>

\* connect to a listed datastore.
Connect(r, p, d) ==
  /\ req[r].pc = "idle"
  /\ p \in listed
  /\ req' = [req EXCEPT ![r] = [NoRequest EXCEPT
       !.pc = "creds", !.op = "connect", !.p = p, !.ds = d]]
  /\ UNCHANGED <<dbVars, memoryVars, historyVars>>

\* Without credentials it shows the modal, with them it saves the token in memory
\* again; save_token ignores an empty one.
Credentials(r) ==
  /\ req[r].pc = "creds"
  /\ req' = [req EXCEPT
       ![r].tok = token[At(r)],
       ![r].pc = IF rows[req[r].ds] # None /\ token[At(r)] # None THEN "token" ELSE "reply"]
  /\ UNCHANGED <<dbVars, memoryVars, historyVars>>

\* save_token's upsert: it waits for the transaction that holds the row.
SaveToken(r) ==
  /\ req[r].pc = "token"
  /\ \A x \in Requests : req[x].pc \notin {"host", "commit"}
  /\ Goto(r, IF req[r].op = "load" THEN "host" ELSE "commit")
  /\ UNCHANGED <<dbVars, memoryVars, historyVars>>

\* Mutant of SaveHost: only the token is saved.
SaveNoHost(r) ==
  /\ req[r].pc = "host"
  /\ req' = [req EXCEPT ![r].host = None, ![r].pc = "commit"]
  /\ UNCHANGED <<dbVars, memoryVars, historyVars>>

\* save_api_host looks at the host in memory again.
SaveHost(r) ==
  /\ req[r].pc = "host"
  /\ req' = [req EXCEPT ![r].host = host[At(r)], ![r].pc = "commit"]
  /\ UNCHANGED <<dbVars, memoryVars, historyVars>>

\* connect saves no host.
Commit(r) ==
  /\ req[r].pc = "commit"
  /\ tokenRow' = req[r].tok
  /\ hostRow' = Over(req[r].host, hostRow)
  /\ Goto(r, IF req[r].op = "load" THEN "datastores" ELSE "reply")
  /\ UNCHANGED <<rows, memoryVars, historyVars>>

DatastoresListed(r) ==
  /\ req[r].pc = "datastores"
  /\ listed' = listed \cup {At(r)}
  /\ Goto(r, "reply")
  /\ UNCHANGED <<dbVars, cache, token, host, hydrated, historyVars>>

-----------------------------------------------------------------------------
(* Credentials: save_datastore_credentials, create_datastore,              *)
(* delete_datastore_credentials, delete_datastore                          *)

Save(r, p, d, x) ==
  /\ req[r].pc = "idle"
  /\ req' = [req EXCEPT ![r] = [NoRequest EXCEPT
       !.pc = "validate", !.op = "save", !.p = p, !.ds = d, !.rec = x]]
  /\ sure' = IF \E y \in On(d) : Removing(y) THEN sure ELSE sure \cup {r}
  /\ UNCHANGED <<dbVars, memoryVars, writeVars, clean, known, checked, failed>>

\* Mutant of Validated: the cache is written before the row.
ValidatedCaching(r) ==
  /\ req[r].pc = "validate"
  /\ cache' = [cache EXCEPT ![At(r)][req[r].ds] = req[r].rec]
  /\ Goto(r, "upsert")
  /\ UNCHANGED <<dbVars, token, host, hydrated, listed, historyVars>>

\* head_bucket accepts the keys.
Validated(r) ==
  /\ req[r].pc = "validate"
  /\ Goto(r, "upsert")
  /\ UNCHANGED <<dbVars, memoryVars, historyVars>>

\* The request has written d in the table and is about to write it in its cache.
Writing(r, d) ==
  req[r].ds = d /\ (req[r].pc = "keep" \/ (req[r].pc = "forget" /\ req[r].removed))

\* A process cannot follow a row that changes in another process while it holds what
\* was there, or while a request of its own has an older row in hand.  It can again
\* after a write of its own that nothing crosses, or a restart.
Crossed(r, p) ==
  \/ p # At(r) /\ (p \in hydrated \/ cache[p][req[r].ds] # None)
  \/ \E x \in Requests \ {r} :
       At(x) = p /\ (req[x].pc = "useRows" \/ Writing(x, req[r].ds))

Dispute(r) ==
  disputed' = [p \in Processes |->
                 IF Crossed(r, p) THEN disputed[p] \cup {req[r].ds}
                 ELSE IF p = At(r) THEN disputed[p] \ {req[r].ds} ELSE disputed[p]]

\* upsert and commit, in one step: the statement locks the row until the commit.
Upsert(r) ==
  /\ req[r].pc = "upsert"
  /\ rows' = [rows EXCEPT ![req[r].ds] = req[r].rec]
  /\ saved' = saved \cup {<<req[r].ds, req[r].rec>>}
  /\ Dispute(r)
  /\ Goto(r, "keep")
  /\ UNCHANGED <<tokenRow, hostRow, memoryVars, cleanVars, checked, failed>>

Kept(r) == [cache[At(r)] EXCEPT ![req[r].ds] = req[r].rec]

Keep(r) ==
  /\ req[r].pc = "keep"
  /\ cache' = [cache EXCEPT ![At(r)] = Kept(r)]
  /\ Goto(r, "reply")
  /\ IF r \in sure
       THEN /\ clean' = clean \cup {req[r].ds}
            /\ known' = [known EXCEPT ![At(r)] = @ \cup {req[r].ds}]
       ELSE UNCHANGED <<clean, known>>
  /\ UNCHANGED <<dbVars, token, host, hydrated, listed, writeVars, sure, checked, failed>>

\* What is said of d is void while and after it is removed.
Forsake(d) ==
  /\ clean' = clean \ {d}
  /\ known' = [p \in Processes |-> known[p] \ {d}]
  /\ sure'  = sure \ On(d)

\* remove deletes the credentials, drop first the datastore in LucidLink.
Remove(r, p, d) ==
  /\ req[r].pc = "idle"
  /\ req' = [req EXCEPT ![r] = [NoRequest EXCEPT
       !.pc = "erase", !.op = "remove", !.p = p, !.ds = d]]
  /\ Forsake(d)
  /\ UNCHANGED <<dbVars, memoryVars, writeVars, checked, failed>>

Drop(r, p, d) ==
  /\ req[r].pc = "idle"
  /\ p \in listed
  /\ req' = [req EXCEPT ![r] = [NoRequest EXCEPT
       !.pc = "api", !.op = "drop", !.p = p, !.ds = d]]
  /\ Forsake(d)
  /\ UNCHANGED <<dbVars, memoryVars, writeVars, checked, failed>>

Dropped(r) ==
  /\ req[r].pc = "api"
  /\ Goto(r, "erase")
  /\ UNCHANGED <<dbVars, memoryVars, historyVars>>

Erase(r) ==
  /\ req[r].pc = "erase"
  /\ rows' = [rows EXCEPT ![req[r].ds] = None]
  /\ req' = [req EXCEPT ![r].removed = rows[req[r].ds] # None, ![r].pc = "forget"]
  /\ IF rows[req[r].ds] # None THEN Dispute(r) ELSE UNCHANGED disputed
  /\ UNCHANGED <<tokenRow, hostRow, memoryVars, saved, cleanVars, checked, failed>>

\* Mutant of Forgotten: the cache is left alone.
NothingForgotten(r) == cache[At(r)]

\* The entry is popped only if there was a row to delete.
Forgotten(r) ==
  IF req[r].removed THEN [cache[At(r)] EXCEPT ![req[r].ds] = None] ELSE cache[At(r)]

\* delete_datastore_credentials goes on with tab_settings.
Forget(r) ==
  /\ req[r].pc = "forget"
  /\ cache' = [cache EXCEPT ![At(r)] = Forgotten(r)]
  /\ IF req[r].op = "remove" THEN Hydrate(r, req[r], Forgotten(r)) ELSE Goto(r, "reply")
  /\ UNCHANGED <<dbVars, token, host, hydrated, listed, historyVars>>

-----------------------------------------------------------------------------
(* Errors, answers, restarts *)

\* A statement raises: its transaction is rolled back, what is in memory stays.
Fail(r) ==
  /\ req[r].pc \in DatabaseLabels
  /\ Goto(r, "reply")
  /\ failed' = TRUE
  /\ UNCHANGED <<dbVars, memoryVars, writeVars, cleanVars, checked>>

\* LucidLink or S3 refuses.
Refuse(r) ==
  /\ req[r].pc \in ServiceLabels
  /\ Goto(r, "reply")
  /\ UNCHANGED <<dbVars, memoryVars, historyVars>>

Reply(r) ==
  /\ req[r].pc = "reply"
  /\ req' = [req EXCEPT ![r] = NoRequest]
  /\ sure' = sure \ {r}
  /\ UNCHANGED <<dbVars, memoryVars, writeVars, clean, known, checked, failed>>

\* A process is replaced: its memory, its requests and their transactions are gone.
Restart(p) ==
  /\ cache' = [cache EXCEPT ![p] = NoRows]
  /\ token' = [token EXCEPT ![p] = None]
  /\ host' = [host EXCEPT ![p] = None]
  /\ hydrated' = hydrated \ {p}
  /\ listed' = listed \ {p}
  /\ req' = [r \in Requests |-> IF At(r) = p THEN NoRequest ELSE req[r]]
  /\ sure' = {r \in sure : At(r) # p}
  /\ known' = [known EXCEPT ![p] = clean]
  /\ disputed' = [disputed EXCEPT ![p] = {}]
  /\ UNCHANGED <<dbVars, saved, clean, checked, failed>>

Arrive(r) ==
  \E p \in Processes :
    \/ \E t \in Tokens, h \in HostForms : LoadFilespaces(r, p, t, h)
    \/ \E d \in Datastores :
         \/ OpenPage(r, p, d)
         \/ Connect(r, p, d)
         \/ Remove(r, p, d)
         \/ Drop(r, p, d)
         \/ \E x \in Records : Save(r, p, d, x)

Step(r) ==
  \/ ReadHost(r) \/ UseHost(r) \/ ReadToken(r) \/ UseToken(r) \/ ReadRows(r) \/ UseRows(r)
  \/ FilespacesListed(r) \/ Credentials(r) \/ SaveToken(r) \/ SaveHost(r) \/ Commit(r)
  \/ DatastoresListed(r)
  \/ Validated(r) \/ Upsert(r) \/ Keep(r)
  \/ Dropped(r) \/ Erase(r) \/ Forget(r)
  \/ Fail(r) \/ Refuse(r) \/ Reply(r)

Next ==
  \/ \E r \in Requests : Arrive(r) \/ Step(r)
  \/ \E p \in Processes : Restart(p)

Spec == Init /\ [][Next]_vars

-----------------------------------------------------------------------------
(* Properties *)

RowSet == [Datastores -> Records \cup {None}]

Request ==
  [pc : Labels, op : Ops, p : Processes \cup {None}, ds : Datastores \cup {None},
   rec : Records \cup {None}, tok : Tokens \cup {None}, host : Hosts \cup {None},
   got : Tokens \cup Hosts \cup {None}, found : RowSet, removed : BOOLEAN,
   answer : {"none", "hit", "miss"}]

\* What a request has in hand at a label.
Fits(q) ==
  /\ q.pc # "idle" => q.p \in Processes
  /\ q.pc # "reply" => q.answer = "none"
  /\ q.pc = "useHost" => q.got \in Hosts \cup {None}
  /\ q.pc = "useToken" => q.got \in Tokens \cup {None}
  /\ q.pc = "list" => q.tok \in Tokens
  /\ q.pc = "creds" => q.op = "connect" /\ q.ds \in Datastores
  /\ q.pc \in LoadLabels => q.op \in {"load", "connect"}
  /\ q.pc \in SaveLabels => q.op = "save" /\ q.ds \in Datastores /\ q.rec \in Records
  /\ q.pc \in RemoveLabels => q.op \in {"remove", "drop"} /\ q.ds \in Datastores
  /\ q.pc \in HydrateLabels => q.op \in {"page", "remove"} /\ q.ds \in Datastores

TablesTypeOK ==
  /\ rows \in RowSet
  /\ tokenRow \in Tokens \cup {None}
  /\ hostRow \in Hosts \cup {None}

MemoryTypeOK ==
  /\ cache \in [Processes -> RowSet]
  /\ token \in [Processes -> Tokens \cup {None}]
  /\ host \in [Processes -> Hosts \cup {None}]
  /\ hydrated \subseteq Processes
  /\ listed \subseteq Processes

RequestsTypeOK ==
  /\ req \in [Requests -> Request]
  /\ \A r \in Requests : Fits(req[r])

HistoryTypeOK ==
  /\ saved \subseteq Datastores \X Records
  /\ disputed \in [Processes -> SUBSET Datastores]
  /\ clean \subseteq Datastores
  /\ known \in [Processes -> SUBSET Datastores]
  /\ sure \subseteq Requests
  /\ checked \subseteq (Tokens \X (Hosts \cup {None}))
  /\ failed \in BOOLEAN

\* Values stay in their sets, and a query's result fits the variable it goes to: the
\* token and the host of hydrate share a local.
TypeOK == TablesTypeOK /\ MemoryTypeOK /\ RequestsTypeOK /\ HistoryTypeOK

Quiet == \A r \in Requests : req[r].pc \in {"idle", "reply"}

\* Once its requests are done, a process serves the rows that are in the table, all
\* of them after hydrate, and none that was removed ("updated write-through by the
\* routes", user_state.py).  It holds of requests one at a time, through failed
\* statements and restarts; of concurrent requests it does not.
QuietCacheIsTable ==
  Quiet => \A p \in Processes, d \in Datastores :
             \/ cache[p][d] = rows[d]
             \/ p \notin hydrated /\ cache[p][d] = None

\* What a process holds of a datastore between its writes is what the table holds: the
\* row itself, or before hydrate nothing.  A cache goes stale in two ways only: the row
\* changes in another process, or under a request of its own that has read it or is
\* about to write it.  No failed statement, refusal or restart, no hydration that runs
\* twice and no save or removal that nothing crosses makes it so.
CacheFollowsUnlessDisputed ==
  \A p \in Processes : \A d \in Datastores \ disputed[p] :
    \/ cache[p][d] = rows[d]
    \/ p \notin hydrated /\ cache[p][d] = None
    \/ \E r \in Requests : At(r) = p /\ Writing(r, d)

\* The token and the host that the workers read together, and those a process uses
\* together, are a pair that LucidLink accepted, as long as no statement fails and
\* requests come one at a time.
ConnectionIsWhole ==
  Quiet /\ ~failed =>
    /\ tokenRow # None => <<tokenRow, hostRow>> \in checked
    /\ \A p \in Processes : token[p] # None => <<token[p], host[p]>> \in checked

\* A process browses with credentials that were committed for that datastore: never
\* ones whose validation or upsert failed.
OnlySavedRecordsCached ==
  \A p \in Processes, d \in Datastores :
    cache[p][d] # None => <<d, cache[p][d]>> \in saved

\* A page finds the credentials that its own process saved, or that were saved before
\* the process started, unless a removal overlaps: whatever else runs, hydrations that
\* read before the save included.
SavedIsFound ==
  \A r \in Requests :
    req[r].pc = "reply" /\ req[r].op = "page" /\ r \in sure
      => req[r].answer # "miss"
=============================================================================
