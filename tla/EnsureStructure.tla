-------------------------- MODULE EnsureStructure --------------------------
(***************************************************************************)
(* LucidLinkClient.ensure_structure: making the folders above a file.      *)
(* Import jobs, the SQS poller and the import route all call it, at the    *)
(* same time and for overlapping paths, with nothing between them but what *)
(* the filespace answers: a folder is resolved, created if it is not       *)
(* there, and resolved again if someone else was faster.                   *)
(*                                                                         *)
(* The filespace is external.  An entry has an id; a folder is created     *)
(* under the id of its parent, and there is one entry per path.            *)
(***************************************************************************)
EXTENDS Naturals, Sequences

CONSTANTS
  Requests,   \* callers at work
  Keys,       \* what is to be imported
  Paths,      \* paths of entries below the root
  Names,
  Way,        \* per key, the paths of the folders above it, top-level first
  Above,      \* per path, its parent
  NameOf,     \* per path, its last component
  Ids,        \* ids of entries; bounds the filespace
  RootId,
  Root,
  MaxTries,   \* attempts per folder: 3
  None

ASSUME StructureAssumption ==
  /\ Way \in [Keys -> Seq(Paths)]
  /\ Above \in [Paths -> Paths \cup {Root}]
  /\ NameOf \in [Paths -> Names]
  /\ Root \notin Paths
  /\ RootId \notin Ids
  /\ None \notin Ids \cup {RootId} \cup Keys \cup [id : Ids, dir : BOOLEAN]
  /\ MaxTries \in Nat /\ MaxTries >= 2
  /\ \A p, q \in Paths : Above[p] = Above[q] /\ NameOf[p] = NameOf[q] => p = q
  /\ \A k \in Keys : \A i \in 1..Len(Way[k]) :
       Above[Way[k][i]] = IF i = 1 THEN Root ELSE Way[k][i - 1]

Labels == {"idle", "root", "resolve", "create", "done", "failed"}

VARIABLES
  tree,   \* per path, its entry
  req     \* the call in each slot

vars == <<tree, req>>

\* The locals of a call: the folder it is at, curr_id and the attempt.  erred says that
\* a call to the service failed, disturbed, a history variable, that somebody removed
\* an entry meanwhile.
NoRequest ==
  [pc |-> "idle", key |-> None, at |-> 1, curr |-> RootId, tries |-> 0,
   erred |-> FALSE, disturbed |-> FALSE]

Init ==
  /\ tree = [p \in Paths |-> None]
  /\ req  = [r \in Requests |-> NoRequest]

Put(r, q)  == req' = [req EXCEPT ![r] = q]
Goto(r, l) == Put(r, [req[r] EXCEPT !.pc = l])

\* check_path
Check(q) == Way[q.key][q.at]

Taken(p)   == tree[p] # None
HasId(p, i) == Taken(p) /\ tree[p].id = i

\* The folder with id i is p's parent.
Under(p, i) ==
  IF Above[p] = Root THEN i = RootId ELSE HasId(Above[p], i) /\ tree[Above[p]].dir

\* Where a folder named n goes in the folder with id i, if that is one.
Landing(i, n) == {p \in Paths : NameOf[p] = n /\ Under(p, i)}

\* No entry has this id and no call remembers it.
Fresh(i) == /\ \A p \in Paths : ~HasId(p, i)
            /\ \A r \in Requests : req[r].curr # i

-----------------------------------------------------------------------------
(* ensure_structure *)

\* A file at the top needs no folder.
Call(r, k) ==
  /\ req[r].pc = "idle"
  /\ Put(r, [NoRequest EXCEPT !.pc = IF Way[k] = <<>> THEN "done" ELSE "root", !.key = k])
  /\ UNCHANGED tree

\* get_id_by_path("/")
ResolveRoot(r) ==
  /\ req[r].pc = "root"
  /\ \/ Goto(r, "resolve")
     \/ Put(r, [req[r] EXCEPT !.pc = "failed", !.erred = TRUE])
  /\ UNCHANGED tree

\* The folder with id i is there: on to the next one.
Advance(q, i) ==
  IF q.at = Len(Way[q.key])
    THEN [q EXCEPT !.pc = "done"]
    ELSE [q EXCEPT !.pc = "resolve", !.at = q.at + 1, !.curr = i, !.tries = 0]

\* Mutant of Again: one attempt more.
AgainTooOften(q) ==
  [q EXCEPT !.tries = q.tries + 1,
            !.pc = IF q.tries + 1 > MaxTries THEN "failed" ELSE "resolve"]

\* Mutant of Again: conflicts and errors do not count.
AgainAndAgain(q) == [q EXCEPT !.pc = "resolve"]

\* Another attempt, if one is left.
Again(q) ==
  [q EXCEPT !.tries = q.tries + 1,
            !.pc = IF q.tries + 1 = MaxTries THEN "failed" ELSE "resolve"]

\* Mutant of Resolve: curr_id keeps its value.
ResolveInPlace(r) ==
  /\ req[r].pc = "resolve"
  /\ IF Taken(Check(req[r]))
       THEN Put(r, Advance(req[r], req[r].curr))
       ELSE Goto(r, "create")
  /\ UNCHANGED tree

\* get_id_by_path: whatever has the path will do, a file too.
Resolve(r) ==
  /\ req[r].pc = "resolve"
  /\ IF Taken(Check(req[r]))
       THEN Put(r, Advance(req[r], tree[Check(req[r])].id))
       ELSE Goto(r, "create")
  /\ UNCHANGED tree

\* An error looks like a path that is not there.
ResolveFails(r) ==
  /\ req[r].pc = "resolve"
  /\ Put(r, [req[r] EXCEPT !.pc = "create", !.erred = TRUE])
  /\ UNCHANGED tree

\* create_folder: the answer may be lost, or lack the id.
Create(r) ==
  /\ req[r].pc = "create"
  /\ \E p \in Landing(req[r].curr, NameOf[Check(req[r])]), i \in Ids :
       /\ ~Taken(p)
       /\ Fresh(i)
       /\ tree' = [tree EXCEPT ![p] = [id |-> i, dir |-> TRUE]]
       /\ \/ Put(r, Advance(req[r], i))
          \/ Put(r, Again([req[r] EXCEPT !.erred = TRUE]))

\* Mutant of Conflict: an answer like another.
ConflictIsDone(r) ==
  /\ req[r].pc = "create"
  /\ \E p \in Landing(req[r].curr, NameOf[Check(req[r])]) :
       /\ Taken(p)
       /\ Put(r, Advance(req[r], req[r].curr))
  /\ UNCHANGED tree

\* Someone else was faster: the path is resolved again.
Conflict(r) ==
  /\ req[r].pc = "create"
  /\ \E p \in Landing(req[r].curr, NameOf[Check(req[r])]) : Taken(p)
  /\ Put(r, Again(req[r]))
  /\ UNCHANGED tree

\* Any other error, as when the parent is gone or is a file.
CreateFails(r) ==
  /\ req[r].pc = "create"
  /\ Put(r, Again([req[r] EXCEPT !.erred = TRUE]))
  /\ UNCHANGED tree

Return(r) ==
  /\ req[r].pc \in {"done", "failed"}
  /\ Put(r, NoRequest)
  /\ UNCHANGED tree

-----------------------------------------------------------------------------
(* The filespace has other users, and imports put files into it *)

\* One entry at a time, children first.
RemoveEntry(p) ==
  /\ Taken(p)
  /\ \A q \in Paths : Taken(q) => Above[q] # p
  /\ tree' = [tree EXCEPT ![p] = None]
  /\ req' = [r \in Requests |-> IF req[r].pc = "idle" THEN req[r]
                                ELSE [req[r] EXCEPT !.disturbed = TRUE]]

\* import_file, of an object whose key is a prefix of another's.
Occupy(p) ==
  /\ ~Taken(p)
  /\ \E j \in Ids \cup {RootId} : Under(p, j)
  /\ \E i \in Ids :
       /\ Fresh(i)
       /\ tree' = [tree EXCEPT ![p] = [id |-> i, dir |-> FALSE]]
  /\ UNCHANGED req

Step(r) ==
  \/ ResolveRoot(r) \/ Resolve(r) \/ ResolveFails(r)
  \/ Create(r) \/ Conflict(r) \/ CreateFails(r) \/ Return(r)

Next ==
  \/ \E r \in Requests : Step(r) \/ \E k \in Keys : Call(r, k)
  \/ \E p \in Paths : RemoveEntry(p) \/ Occupy(p)

Spec == Init /\ [][Next]_vars

\* Every call to the service is answered or times out, and the event loop gets to it.
FairSpec == Spec /\ \A r \in Requests : WF_vars(Step(r))

-----------------------------------------------------------------------------
(* Properties *)

Entry == [id : Ids, dir : BOOLEAN]
Request ==
  [pc : Labels, key : Keys \cup {None}, at : Nat \ {0}, curr : Ids \cup {RootId},
   tries : 0..MaxTries, erred : BOOLEAN, disturbed : BOOLEAN]

\* A call at work is at a folder of its key, with an attempt left.
Fits(q) ==
  /\ q.pc # "idle" => q.key \in Keys
  /\ q.pc \in {"root", "resolve", "create"} => q.at \in 1..Len(Way[q.key])
  /\ q.pc \in {"resolve", "create"} => q.tries < MaxTries

\* Values stay in their sets, and a call has what its next step needs.
TypeOK ==
  /\ tree \in [Paths -> Entry \cup {None}]
  /\ req \in [Requests -> Request]
  /\ \A r \in Requests : Fits(req[r])

\* However many callers make the same folders at once, none of them fails unless the
\* service answered one of its calls with an error or somebody removed a folder.
FailsForCause ==
  \A r \in Requests : req[r].pc = "failed" => req[r].erred \/ req[r].disturbed

\* When a call reports success, every folder above the key has its entry, unless
\* somebody removed one since the call began.
SuccessMeansThere ==
  \A r \in Requests :
    req[r].pc = "done" /\ ~req[r].disturbed
      => \A i \in 1..Len(Way[req[r].key]) : Taken(Way[req[r].key][i])

\* What a call answers is true.
AnswersAreTrue == FailsForCause /\ SuccessMeansThere

\* A folder appears only where a call at that very path makes it: never under a
\* parent of another path, not even when folders come and go meanwhile.
CreatedInPlace ==
  [][\A p \in Paths :
       ~Taken(p) /\ Taken(p)' /\ tree'[p].dir
         => \E r \in Requests : req[r].pc = "create" /\ Check(req[r]) = p]_vars

\* Every call returns: attempts are bounded, whatever the service answers.
EveryCallReturns == \A r \in Requests : req[r].pc # "idle" ~> req[r].pc = "idle"
=============================================================================
