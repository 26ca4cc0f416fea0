--------------------------- MODULE FilespaceLists ---------------------------
(***************************************************************************)
(* The lists a web process keeps for a user: the filespaces of the account *)
(* in use, the data stores of one of them and which one that is            *)
(* (UserSession.filespaces, datastores, selected_filespace).  They are     *)
(* filled from LucidLink by load_filespaces, load_datastores and           *)
(* create_datastore, one data store at a time with a query in between, and *)
(* read by the routes that delete a data store or ask for its credentials. *)
(* The requests of one user share them, with no lock.                      *)
(*                                                                         *)
(* One user in one process: other processes have lists of their own.  The  *)
(* rows of datastore_credentials, which some of these routes write, are    *)
(* in UserState; here is what they are written with.                       *)
(***************************************************************************)
EXTENDS Integers, FiniteSets

CONSTANTS
  Requests,    \* slots for concurrent requests
  Accounts,    \* API tokens, each with its host
  Filespaces,  \* ids of filespaces
  Stores,      \* ids of data stores
  Sees,        \* per account, its filespaces
  NameOf,      \* per filespace, its name
  Home,        \* per data store, its filespace
  StoreName,   \* per data store, its name
  None         \* no filespace, account or name

ASSUME FilespaceListsAssumption ==
  /\ Sees \in [Accounts -> SUBSET Filespaces]
  /\ None \notin Accounts \cup Filespaces \cup Stores
  /\ IsFiniteSet(Stores)
  /\ DOMAIN NameOf = Filespaces /\ DOMAIN StoreName = Stores
  /\ Home \in [Stores -> Filespaces]
  /\ \A f \in Filespaces : NameOf[f] # None
  /\ \A a \in Accounts : \A f, g \in Sees[a] : NameOf[f] = NameOf[g] => f = g
  /\ \A s, t \in Stores : Home[s] = Home[t] /\ StoreName[s] = StoreName[t] => s = t

Labels ==
  {"idle", "list", "save", "stores", "answered", "fill",
   "head", "create", "created", "record", "noted", "delete", "deleted", "unsave", "form",
   "page", "shown", "broken"}

VARIABLES
  exists,   \* data stores in LucidLink
  session,  \* UserSession: account in use, filespaces, data stores listed, selected name
  req,      \* the request in each slot
  blurred   \* history variable: since the last load that ran by itself, one failed
            \* half way, or one ended that another request had overtaken

vars == <<exists, session, req, blurred>>

NewSession == [account |-> None, spaces |-> {}, listed |-> {}, selected |-> None]

\* A request: its form (account, space, store) and locals.  name is the filespace_name
\* that goes with space into what is saved or noted.  todo is what is left of an answer,
\* or of the dictionary a page goes through, new whether a data store is made.
\* A page: shown so far, left to show, whether the dictionary is still the session's
\* (live) and by how much it has grown (drift).
\* History fields: wrote, it is changing the session; overtaken, another one has
\* changed it, or deleted a data store, since this one looked at it; sound, the lists
\* were quiet when a form or page was begun, and start, what they were.
NoRequest ==
  [pc |-> "idle", account |-> None, space |-> None, name |-> None, store |-> None,
   todo |-> {}, new |-> FALSE, shown |-> {}, left |-> 0, live |-> FALSE, drift |-> 0,
   wrote |-> FALSE, overtaken |-> FALSE, sound |-> FALSE, start |-> {}]

Init ==
  /\ exists \in SUBSET Stores
  /\ session = NewSession
  /\ req = [r \in Requests |-> NoRequest]
  /\ blurred = FALSE

Put(r, q) == req' = [req EXCEPT ![r] = q]

\* filespaces.get(name)
Resolve(name) == {f \in session.spaces : NameOf[f] = name}
Selected      == Resolve(session.selected)

Listing(f) == {s \in exists : Home[s] = f}

Namesakes(listed, s) == {t \in listed : s # None /\ StoreName[t] = StoreName[s]}

\* state.datastores[name] = s, and its deletion
Without(listed, s) == listed \ Namesakes(listed, s)
With(listed, s)    == Without(listed, s) \cup {s}

\* Between its first look at the session and its last look at it or change of it.
Exposed(q) ==
  q.pc \in {"save", "stores", "answered", "fill", "create", "created", "record",
            "delete", "deleted"}

\* A page goes through the dictionary that becomes listed, or that a fresh one replaces.
\* An entry keeps its place when its value changes.
Follow(q, listed, fresh) ==
  IF q.pc # "page" \/ ~q.live THEN q
  ELSE IF fresh THEN [q EXCEPT !.live = FALSE]
  ELSE [q EXCEPT !.todo = {s \in listed : Namesakes(session.listed, s) \subseteq q.todo},
                 !.drift = @ + Cardinality(listed) - Cardinality(session.listed)]

\* r goes on as q, and has overtaken the others.
Overtake(r, q, listed, fresh) ==
  req' = [o \in Requests |->
            IF o = r THEN q
            ELSE [Follow(req[o], listed, fresh) EXCEPT !.overtaken = @ \/ Exposed(req[o])]]

\* r changes the session; fresh says that its dictionary of data stores is a new one.
Change(r, q, new, fresh) ==
  /\ session' = new
  /\ Overtake(r, q, new.listed, fresh)

\* No request is amid a change of the lists, or of the stores they list.
Settled == \A r \in Requests : ~req[r].wrote /\ req[r].pc # "deleted"

-----------------------------------------------------------------------------
(* load_filespaces and load_datastores *)

LoadFilespaces(r, a) ==
  /\ req[r].pc = "idle"
  /\ Put(r, [NoRequest EXCEPT !.pc = "list", !.account = a])
  /\ UNCHANGED <<exists, session, blurred>>

FilespacesListed(r) ==
  /\ req[r].pc = "list"
  /\ Change(r, [req[r] EXCEPT !.pc = "save", !.wrote = TRUE],
            [session EXCEPT !.spaces = Sees[req[r].account], !.account = req[r].account],
            FALSE)
  /\ UNCHANGED <<exists, blurred>>

\* Token and host are saved and committed: on with the filespaces there are now, and
\* with the token of the form.
Saved(r) ==
  /\ req[r].pc = "save"
  /\ \/ /\ session.spaces = {}
        /\ Put(r, NoRequest)
        /\ blurred' = (blurred \/ req[r].overtaken)
     \/ /\ \E f \in session.spaces : Put(r, [req[r] EXCEPT !.pc = "stores", !.space = f])
        /\ UNCHANGED blurred
  /\ UNCHANGED <<exists, session>>

LoadDatastores(r, name) ==
  /\ req[r].pc = "idle"
  /\ \E f \in Resolve(name) :
       Put(r, [NoRequest EXCEPT !.pc = "stores", !.account = session.account, !.space = f])
  /\ UNCHANGED <<exists, session, blurred>>

\* list_datastores: what the account sees, or, after any error, nothing.
StoresListed(r) ==
  /\ req[r].pc = "stores"
  /\ \E answer \in {{}} \cup {Listing(f) : f \in Sees[req[r].account] \cap {req[r].space}} :
       Put(r, [req[r] EXCEPT !.pc = "answered", !.todo = answer, !.account = None,
                 !.store = IF Namesakes(answer, @) = {} THEN None
                           ELSE CHOOSE s \in Namesakes(answer, @) : TRUE])
  /\ UNCHANGED <<exists, session, blurred>>

\* A load_datastores or load_filespaces ends: its filespace becomes the selected one.
Select(r, listed, fresh) ==
  Change(r, NoRequest,
         [session EXCEPT !.listed = listed, !.selected = NameOf[req[r].space]], fresh)

\* What create_datastore writes beside the data store's id: the id of the filespace it
\* was created in, and the name that is selected by now.
Naming(q, label) == [q EXCEPT !.pc = label, !.wrote = FALSE, !.name = session.selected]

\* Mutant of Finish: create_datastore takes it that the new one is listed.
FinishUnseen(r, listed, fresh) ==
  /\ IF req[r].new
       THEN Change(r, Naming(req[r], "record"), [session EXCEPT !.listed = listed], fresh)
       ELSE Select(r, listed, fresh)
  /\ blurred' = req[r].overtaken

\* Mutant of Finish: the filespace is looked up again.
FinishSelected(r, listed, fresh) ==
  /\ IF req[r].new
       THEN \E f \in IF Selected = {} THEN {req[r].space} ELSE Selected :
              Change(r, [Naming(req[r], IF req[r].store = None THEN "noted" ELSE "record")
                           EXCEPT !.space = f],
                     [session EXCEPT !.listed = listed], fresh)
       ELSE Select(r, listed, fresh)
  /\ blurred' = req[r].overtaken

\* The list is complete.  create_datastore leaves the selection alone and goes on to
\* save credentials, if it found the new one, or to note in the activity log what it did.
Finish(r, listed, fresh) ==
  /\ IF req[r].new
       THEN Change(r, Naming(req[r], IF req[r].store = None THEN "noted" ELSE "record"),
                   [session EXCEPT !.listed = listed], fresh)
       ELSE Select(r, listed, fresh)
  /\ blurred' = req[r].overtaken

\* One more of the answer is listed.
Insert(r, listed, fresh) ==
  /\ \E s \in req[r].todo :
       Change(r, [req[r] EXCEPT !.pc = "fill", !.wrote = TRUE, !.todo = @ \ {s}],
              [session EXCEPT !.listed = With(listed, s)], fresh)
  /\ UNCHANGED blurred

\* Mutant of Begin: the new list goes into the old one.
BeginInPlace(r) ==
  /\ req[r].pc = "answered"
  /\ IF req[r].todo = {} THEN Finish(r, session.listed, FALSE)
                         ELSE Insert(r, session.listed, FALSE)
  /\ UNCHANGED exists

\* Mutant of Begin: the dictionary is cleared, not replaced.
BeginCleared(r) ==
  /\ req[r].pc = "answered"
  /\ IF req[r].todo = {} THEN Finish(r, {}, FALSE) ELSE Insert(r, {}, FALSE)
  /\ UNCHANGED exists

\* A new, empty list.
Begin(r) ==
  /\ req[r].pc = "answered"
  /\ IF req[r].todo = {} THEN Finish(r, {}, TRUE) ELSE Insert(r, {}, TRUE)
  /\ UNCHANGED exists

\* The query for the credentials of the last one came back.
Fill(r) ==
  /\ req[r].pc = "fill"
  /\ IF req[r].todo = {} THEN Finish(r, session.listed, FALSE)
                         ELSE Insert(r, session.listed, FALSE)
  /\ UNCHANGED exists

\* A statement fails amid a load.
Break(r) ==
  /\ req[r].pc \in {"save", "fill"}
  /\ Put(r, NoRequest)
  /\ blurred' = TRUE
  /\ UNCHANGED <<exists, session>>

-----------------------------------------------------------------------------
(* create_datastore *)

CreateDatastore(r) ==
  /\ req[r].pc = "idle"
  /\ Put(r, [NoRequest EXCEPT !.pc = "head", !.new = TRUE])
  /\ UNCHANGED <<exists, session, blurred>>

\* head_bucket was answered; the filespace is the one selected now.
Headed(r) ==
  /\ req[r].pc = "head"
  /\ \E f \in Selected :
       Put(r, [req[r] EXCEPT !.pc = "create", !.space = f, !.account = session.account])
  /\ UNCHANGED <<exists, session, blurred>>

\* create_s3_datastore; the answer may be lost.
Create(r) ==
  /\ req[r].pc = "create"
  /\ req[r].space \in Sees[req[r].account]
  /\ \E s \in Stores \ exists :
       /\ Home[s] = req[r].space
       /\ exists' = exists \cup {s}
       /\ \/ Put(r, [req[r] EXCEPT !.pc = "created", !.store = s, !.account = None])
          \/ Put(r, NoRequest)
  /\ UNCHANGED <<session, blurred>>

\* The list is loaded again, with the token in use by now.
Reload(r) ==
  /\ req[r].pc = "created"
  /\ Put(r, [req[r] EXCEPT !.pc = "stores", !.account = session.account])
  /\ UNCHANGED <<exists, session, blurred>>

\* save_datastore_credentials for the new one is committed: the cache entry and the
\* activity log take the name selected now.
Record(r) ==
  /\ req[r].pc = "record"
  /\ Put(r, Naming(req[r], "noted"))
  /\ UNCHANGED <<exists, session, blurred>>

-----------------------------------------------------------------------------
(* Pages with the list: index, tab_settings and the answers of delete_datastore *)

\* The iteration goes on until the next query, or ends, or finds that the dictionary
\* has changed its size or its keys.
Visit(r, q) ==
  IF q.drift # 0 \/ (q.todo # {} /\ q.left = 0) THEN Put(r, [q EXCEPT !.pc = "broken"])
  ELSE IF q.todo = {} THEN Put(r, [q EXCEPT !.pc = "shown"])
  ELSE \E s \in q.todo :
         Put(r, [q EXCEPT !.shown = @ \cup {s}, !.todo = @ \ {s}, !.left = @ - 1])

Page ==
  [NoRequest EXCEPT !.pc = "page", !.todo = session.listed, !.live = TRUE,
     !.left = Cardinality(session.listed),
     !.sound = ~blurred /\ Settled, !.start = session.listed]

OpenPage(r) ==
  /\ req[r].pc = "idle"
  /\ Visit(r, Page)
  /\ UNCHANGED <<exists, session, blurred>>

Show(r) ==
  /\ req[r].pc = "page"
  /\ Visit(r, req[r])
  /\ UNCHANGED <<exists, session, blurred>>

Reply(r) ==
  /\ req[r].pc \in {"noted", "shown", "broken"}
  /\ Put(r, NoRequest)
  /\ UNCHANGED <<exists, session, blurred>>

-----------------------------------------------------------------------------
(* delete_datastore, and the form for credentials *)

DeleteDatastore(r, s) ==
  /\ req[r].pc = "idle"
  /\ s \in session.listed
  /\ \E f \in Selected :
       Put(r, [NoRequest EXCEPT !.pc = "delete", !.account = session.account,
                                !.space = f, !.store = s])
  /\ UNCHANGED <<exists, session, blurred>>

\* LucidLinkClient.delete_datastore; the answer may be lost.
Delete(r) ==
  /\ req[r].pc = "delete"
  /\ req[r].space \in Sees[req[r].account]
  /\ req[r].store \in Listing(req[r].space)
  /\ exists' = exists \ {req[r].store}
  /\ \/ /\ Overtake(r, [req[r] EXCEPT !.pc = "deleted", !.account = None, !.space = None],
                    session.listed, FALSE)
        /\ UNCHANGED blurred
     \/ /\ Overtake(r, NoRequest, session.listed, FALSE)
        /\ blurred' = TRUE
  /\ UNCHANGED session

\* It leaves the list by its name.
Unlist(r) ==
  /\ req[r].pc = "deleted"
  /\ Change(r, [req[r] EXCEPT !.pc = "unsave", !.overtaken = FALSE],
            [session EXCEPT !.listed = Without(@, req[r].store)], FALSE)
  /\ blurred' = (blurred \/ req[r].overtaken)
  /\ UNCHANGED exists

\* delete_datastore_credentials, and a page.
Unsave(r) ==
  /\ req[r].pc = "unsave"
  /\ Visit(r, Page)
  /\ UNCHANGED <<exists, session, blurred>>

\* connect and datastore_credentials_modal: the form holds the filespace selected now,
\* its id and its name.
Ask(r, s) ==
  /\ req[r].pc = "idle"
  /\ s \in session.listed
  /\ \E f \in Selected :
       Put(r, [NoRequest EXCEPT !.pc = "form", !.space = f, !.name = session.selected,
                                !.store = s, !.sound = ~blurred /\ Settled])
  /\ UNCHANGED <<exists, session, blurred>>

\* save_datastore_credentials, with what the form holds.
Save(r) ==
  /\ req[r].pc = "form"
  /\ Put(r, NoRequest)
  /\ UNCHANGED <<exists, session, blurred>>

\* LucidLink refuses: the list, with the error.
NotDeleted(r) ==
  /\ req[r].pc = "delete"
  /\ Visit(r, Page)
  /\ UNCHANGED <<exists, session, blurred>>

\* A request ends where the lists are as it found them: LucidLink or S3 answers with an
\* error, no filespace is selected, a statement fails or nobody sends the form.
Refuse(r) ==
  /\ req[r].pc \in {"list", "head", "create", "unsave", "record", "page", "form"}
  /\ Put(r, NoRequest)
  /\ UNCHANGED <<exists, session, blurred>>

-----------------------------------------------------------------------------

\* hydrate may bring back a saved token at any time: UserState has its steps.
Hydrate(a) ==
  /\ session' = [session EXCEPT !.account = a]
  /\ UNCHANGED <<exists, req, blurred>>

\* A new process: its lists are empty, and the browser keeps its form.
Restart ==
  /\ session' = NewSession
  /\ req' = [r \in Requests |-> IF req[r].pc = "form" THEN req[r] ELSE NoRequest]
  /\ blurred' = FALSE
  /\ UNCHANGED exists

Step(r) ==
  \/ FilespacesListed(r) \/ Saved(r) \/ StoresListed(r) \/ Begin(r) \/ Fill(r) \/ Break(r)
  \/ Headed(r) \/ Create(r) \/ Reload(r) \/ Record(r)
  \/ Delete(r) \/ NotDeleted(r) \/ Unlist(r) \/ Unsave(r) \/ Save(r)
  \/ Show(r) \/ Reply(r) \/ Refuse(r)

Next ==
  \/ \E r \in Requests :
       \/ Step(r) \/ CreateDatastore(r) \/ OpenPage(r)
       \/ \E a \in Accounts : LoadFilespaces(r, a)
       \/ \E f \in Filespaces : LoadDatastores(r, NameOf[f])
       \/ \E s \in Stores : DeleteDatastore(r, s) \/ Ask(r, s)
  \/ \E a \in Accounts : Hydrate(a)
  \/ Restart

Spec == Init /\ [][Next]_vars

-----------------------------------------------------------------------------
(* Properties *)

Request ==
  [pc : Labels, account : Accounts \cup {None}, space : Filespaces \cup {None},
   name : {NameOf[f] : f \in Filespaces} \cup {None}, store : Stores \cup {None},
   todo : SUBSET Stores, new : BOOLEAN,
   shown : SUBSET Stores, left : Nat, live : BOOLEAN, drift : Int,
   wrote : BOOLEAN, overtaken : BOOLEAN, sound : BOOLEAN, start : SUBSET Stores]

Session ==
  [account : Accounts \cup {None}, spaces : SUBSET Filespaces, listed : SUBSET Stores,
   selected : {NameOf[f] : f \in Filespaces} \cup {None}]

\* What the steps of a request rely on.
Fits(q) ==
  /\ q.pc \in {"list", "stores", "create", "delete"} => q.account \in Accounts
  /\ q.pc \in {"stores", "answered", "fill", "record", "noted", "create", "created",
                "delete", "form"}
       => q.space \in Filespaces
  /\ q.pc \in {"record", "created", "delete", "deleted", "unsave", "form"} => q.store \in Stores

\* Values stay in their sets, filespaces are known only with an account, and a request
\* has what its next step needs.
TypeOK ==
  /\ exists \subseteq Stores
  /\ session \in Session
  /\ session.spaces # {} => session.account # None
  /\ req \in [Requests -> Request]
  /\ \A r \in Requests : Fits(req[r])
  /\ blurred \in BOOLEAN

\* The data stores listed are those of the filespace selected, and still exist, once
\* the requests at work are past the lists: a load that runs by itself is enough to
\* bring that back, whatever the ones before it left.
ListFollowsSelection ==
  ~blurred /\ Settled => \A f \in Selected : session.listed \subseteq Listing(f)

\* Credentials are saved with the filespace their data store is in: of one that
\* create_datastore made always with its id, whatever is selected meanwhile, and with its
\* name if no other request overtook this one; of a form, however late it is sent, with
\* its name and, if the lists were quiet when the form was made, its id.
CredentialsNameTheirFilespace ==
  \A r \in Requests :
    LET q == req[r]
        made == q.pc \in {"record", "noted"}
        form == q.pc = "form"
    IN  /\ (made /\ q.store # None) \/ (form /\ q.sound) => q.space = Home[q.store]
        /\ (made /\ ~q.overtaken) \/ form => q.name = NameOf[q.space]

\* A page begun while the lists are quiet shows one list, whole, whatever is loaded
\* during its queries; it breaks only if that very list has lost an entry meanwhile.
PagesAreWhole ==
  \A r \in Requests :
    /\ req[r].pc = "shown" /\ req[r].sound => req[r].shown = req[r].start
    /\ req[r].pc = "broken" /\ req[r].sound => req[r].drift < 0
=============================================================================
