----------------------- MODULE EnsureStructureProofs -----------------------
(***************************************************************************)
(* Proofs about EnsureStructure, for any number of callers, any keys and   *)
(* any tree of paths.                                                      *)
(***************************************************************************)
EXTENDS EnsureStructure, TLAPS

-----------------------------------------------------------------------------
(* The inductive invariant *)

\* What an entry of the tree t is to a call q, in terms of t alone.
In(t, p)       == t[p] # None
Holds(t, p, i) == In(t, p) /\ t[p].id = i

UniqueIds(t) == \A p, q \in Paths : In(t, p) /\ In(t, q) /\ t[p].id = t[q].id => p = q

\* curr_id is the root, or nobody's but the folder's above the one the call is at.
InPlace(t, q) ==
  q.pc \in {"resolve", "create"} =>
    /\ q.at = 1 => q.curr = RootId
    /\ q.at > 1 => /\ q.curr \in Ids
                   /\ \A p \in Paths : Holds(t, p, q.curr) => p = Way[q.key][q.at - 1]

\* The folders behind the call are there.
Behind(t, q) ==
  ~q.disturbed =>
    /\ q.pc \in {"resolve", "create"} => \A i \in 1..(q.at - 1) : In(t, Way[q.key][i])
    /\ q.pc = "done" => \A i \in 1..Len(Way[q.key]) : In(t, Way[q.key][i])

\* Without errors and removals one conflict is all that can happen to a folder.
Unlucky(t, q) ==
  ~q.disturbed /\ ~q.erred =>
    /\ q.pc = "create" => q.tries = 0
    /\ q.pc = "resolve" => q.tries = 0 \/ (q.tries = 1 /\ In(t, Check(q)))
    /\ q.pc # "failed"

Start(q) == q.pc = "root" => q.at = 1 /\ q.curr = RootId /\ q.tries = 0

Good(t, q) == Start(q) /\ InPlace(t, q) /\ Behind(t, q) /\ Unlucky(t, q)

Inv == TypeOK /\ UniqueIds(tree) /\ \A r \in Requests : Good(tree, req[r])

-----------------------------------------------------------------------------
(* Lemmas *)

LEMMA NoRequestGood ==
  NoRequest \in Request /\ Fits(NoRequest) /\ \A t : Good(t, NoRequest)
<1>1. NoRequest \in Request
  BY StructureAssumption DEF NoRequest, Request, Labels
<1>2. Fits(NoRequest)
  BY DEF NoRequest, Fits
<1>3. \A t : Good(t, NoRequest)
  BY DEF NoRequest, Good, Start, InPlace, Behind, Unlucky
<1>4. QED
  BY <1>1, <1>2, <1>3

\* One slot changes and the tree does not.
LEMMA OneCall ==
  ASSUME Inv, NEW r \in Requests, NEW q \in Request, Fits(q), Good(tree, q),
         Put(r, q), UNCHANGED tree
  PROVE  Inv'
<1>1. req' \in [Requests -> Request]
  BY DEF Inv, TypeOK, Put
<1>2. \A x \in Requests : req'[x] = IF x = r THEN q ELSE req[x]
  BY DEF Inv, TypeOK, Put
<1>3. \A x \in Requests : Fits(req'[x]) /\ Good(tree, req'[x])
  BY <1>2 DEF Inv, TypeOK
<1>4. tree' = tree
  OBVIOUS
<1>5. QED
  BY <1>1, <1>3, <1>4 DEF Inv, TypeOK, Fits

\* The facts about a folder of a key that the steps need.
LEMMA CheckFacts ==
  ASSUME TypeOK, NEW r \in Requests, req[r].pc \in {"root", "resolve", "create"}
  PROVE  /\ req[r].key \in Keys
         /\ Way[req[r].key] \in Seq(Paths)
         /\ req[r].at \in 1..Len(Way[req[r].key])
         /\ Check(req[r]) \in Paths
         /\ Above[Check(req[r])] = IF req[r].at = 1 THEN Root
                                   ELSE Way[req[r].key][req[r].at - 1]
<1>1. req[r] \in Request /\ Fits(req[r])
  BY DEF TypeOK
<1>2. req[r].key \in Keys /\ req[r].at \in 1..Len(Way[req[r].key])
  BY <1>1 DEF Fits
<1>3. Way[req[r].key] \in Seq(Paths)
  BY <1>2, StructureAssumption
<1>4. QED
  BY <1>2, <1>3, StructureAssumption DEF Check

\* A folder that curr_id leads to is the one the call is at.
LEMMA LandsAtCheck ==
  ASSUME Inv, NEW r \in Requests, req[r].pc = "create",
         NEW p \in Landing(req[r].curr, NameOf[Check(req[r])])
  PROVE  p = Check(req[r])
<1>1. /\ p \in Paths /\ NameOf[p] = NameOf[Check(req[r])] /\ Under(p, req[r].curr)
  BY DEF Landing
<1>2. /\ Check(req[r]) \in Paths
      /\ Above[Check(req[r])] = IF req[r].at = 1 THEN Root ELSE Way[req[r].key][req[r].at - 1]
      /\ req[r].at \in 1..Len(Way[req[r].key])
      /\ Way[req[r].key] \in Seq(Paths)
  BY CheckFacts DEF Inv
<1>3. InPlace(tree, req[r])
  BY DEF Inv, Good
<1>4. tree \in [Paths -> Entry \cup {None}] /\ RootId \notin Ids
  BY StructureAssumption DEF Inv, TypeOK
<1>5. Above[p] = Above[Check(req[r])]
  <2>1. CASE req[r].at = 1
    <3>1. req[r].curr = RootId
      BY <2>1, <1>3 DEF InPlace
    <3>2. ASSUME Above[p] # Root PROVE FALSE
      <4>1. HasId(Above[p], RootId) /\ Above[p] \in Paths
        BY <3>1, <3>2, <1>1, StructureAssumption DEF Under
      <4>2. tree[Above[p]] \in Entry /\ tree[Above[p]].id = RootId
        BY <4>1, <1>4 DEF HasId, Taken
      <4>3. QED
        BY <4>2, <1>4 DEF Entry
    <3>3. QED
      BY <3>2, <2>1, <1>2
  <2>2. CASE req[r].at > 1
    <3>1. /\ req[r].curr \in Ids
          /\ \A x \in Paths : Holds(tree, x, req[r].curr) => x = Way[req[r].key][req[r].at - 1]
      BY <2>2, <1>3 DEF InPlace
    <3>2. Above[p] # Root
      BY <3>1, <1>1, <1>4 DEF Under
    <3>3. HasId(Above[p], req[r].curr) /\ Above[p] \in Paths
      BY <3>2, <1>1, StructureAssumption DEF Under
    <3>4. QED
      BY <3>1, <3>3, <2>2, <1>2 DEF HasId, Taken, Holds, In
  <2>3. QED
    BY <2>1, <2>2, <1>2
<1>6. QED
  BY <1>1, <1>2, <1>5, StructureAssumption

\* The call goes on to the next folder: t has the one it was at, with id i and nobody else's.
LEMMA AdvanceGood ==
  ASSUME TypeOK, NEW r \in Requests, req[r].pc \in {"resolve", "create"},
         NEW t, NEW i \in Ids, Behind(t, req[r]), In(t, Check(req[r])),
         \A p \in Paths : Holds(t, p, i) => p = Check(req[r])
  PROVE  /\ Advance(req[r], i) \in Request
         /\ Fits(Advance(req[r], i))
         /\ Good(t, Advance(req[r], i))
<1> DEFINE q == req[r]
           n == Len(Way[q.key])
<1>1. q \in Request /\ q.at \in 1..n /\ n \in Nat /\ q.key \in Keys
  BY CheckFacts DEF TypeOK
<1>2. CASE q.at = n
  <2> DEFINE d == [q EXCEPT !.pc = "done"]
  <2>1. d \in Request /\ d.pc = "done" /\ d.key = q.key /\ d.disturbed = q.disturbed
    BY <1>1 DEF Request, Labels
  <2>2. Advance(q, i) = d
    BY <1>2 DEF Advance
  <2>3. Fits(d)
    BY <2>1, <1>1 DEF Fits
  <2>4. Behind(t, d)
    <3> SUFFICES ASSUME ~d.disturbed PROVE \A k \in 1..n : In(t, Way[q.key][k])
      BY <2>1 DEF Behind
    <3>1. ~q.disturbed
      BY <2>1
    <3>2. \A k \in 1..(n - 1) : In(t, Way[q.key][k])
      BY <3>1, <1>2 DEF Behind
    <3>3. QED
      BY <3>2, <1>1, <1>2 DEF Check
  <2>5. Start(d) /\ InPlace(t, d) /\ Unlucky(t, d)
    BY <2>1 DEF Start, InPlace, Unlucky
  <2>6. QED
    BY <2>1, <2>2, <2>3, <2>4, <2>5 DEF Good
<1>3. CASE q.at # n
  <2> DEFINE d == [q EXCEPT !.pc = "resolve", !.at = q.at + 1, !.curr = i, !.tries = 0]
  <2>0. q.at + 1 \in Nat \ {0} /\ 0 \in 0..MaxTries
    BY <1>1, StructureAssumption
  <2>1. /\ d \in Request /\ d.pc = "resolve" /\ d.at = q.at + 1 /\ d.curr = i /\ d.tries = 0
        /\ d.key = q.key /\ d.disturbed = q.disturbed
    BY <1>1, <2>0 DEF Request, Labels
  <2>2. Advance(q, i) = d
    BY <1>3 DEF Advance
  <2>3. Fits(d)
    BY <2>1, <1>1, <1>3, StructureAssumption DEF Fits
  <2>4. Behind(t, d)
    <3> SUFFICES ASSUME ~d.disturbed PROVE \A k \in 1..(d.at - 1) : In(t, Way[q.key][k])
      BY <2>1 DEF Behind
    <3>1. ~q.disturbed
      BY <2>1
    <3>2. \A k \in 1..(q.at - 1) : In(t, Way[q.key][k])
      BY <3>1 DEF Behind
    <3>3. \A k \in 1..q.at : In(t, Way[q.key][k])
      BY <3>2, <1>1 DEF Check
    <3>4. QED
      BY <3>3, <2>1, <1>1
  <2>5. InPlace(t, d)
    <3>1. d.at - 1 = q.at /\ d.at > 1
      BY <2>1, <1>1
    <3>2. \A p \in Paths : Holds(t, p, i) => p = Way[q.key][q.at]
      BY DEF Check
    <3>3. QED
      BY <2>1, <3>1, <3>2 DEF InPlace
  <2>6. Start(d) /\ Unlucky(t, d)
    BY <2>1 DEF Start, Unlucky
  <2>7. QED
    BY <2>1, <2>2, <2>3, <2>4, <2>5, <2>6 DEF Good
<1>4. QED
  BY <1>2, <1>3

\* Another attempt: after an error, or after a conflict that leaves the folder in t.
LEMMA AgainGood ==
  ASSUME TypeOK, NEW r \in Requests, req[r].pc = "create", NEW t,
         InPlace(t, req[r]), Behind(t, req[r]), Unlucky(t, req[r]),
         NEW b \in BOOLEAN, b \/ req[r].erred \/ In(t, Check(req[r]))
  PROVE  LET q == [req[r] EXCEPT !.erred = b \/ req[r].erred]
         IN  Again(q) \in Request /\ Fits(Again(q)) /\ Good(t, Again(q))
<1> DEFINE q == [req[r] EXCEPT !.erred = b \/ req[r].erred]
           d == Again(q)
<1>1. /\ req[r] \in Request /\ Fits(req[r]) /\ req[r].tries < MaxTries
      /\ req[r].erred \in BOOLEAN
  BY DEF TypeOK, Fits, Request
<1>2. /\ q \in Request /\ q.tries = req[r].tries /\ q.key = req[r].key /\ q.at = req[r].at
      /\ q.curr = req[r].curr /\ q.disturbed = req[r].disturbed
      /\ q.erred = (b \/ req[r].erred)
  BY <1>1 DEF Request
<1>3. /\ d \in Request /\ d.tries = q.tries + 1 /\ d.key = q.key /\ d.at = q.at
      /\ d.curr = q.curr /\ d.disturbed = q.disturbed /\ d.erred = q.erred
      /\ d.pc = IF q.tries + 1 = MaxTries THEN "failed" ELSE "resolve"
  <2> DEFINE l == IF q.tries + 1 = MaxTries THEN "failed" ELSE "resolve"
             k == q.tries + 1
  <2>1. k \in 0..MaxTries /\ l \in Labels
    BY <1>1, <1>2, StructureAssumption DEF Request, Labels
  <2>2. d = [q EXCEPT !.tries = k, !.pc = l]
    BY DEF Again
  <2> HIDE DEF q, l, k
  <2>3. /\ d \in Request /\ d.tries = k /\ d.key = q.key /\ d.at = q.at
        /\ d.curr = q.curr /\ d.disturbed = q.disturbed /\ d.erred = q.erred /\ d.pc = l
    BY <1>2, <2>1, <2>2 DEF Request
  <2>4. QED
    BY <2>3 DEF l, k
<1>4. Fits(d)
  BY <1>1, <1>2, <1>3, CheckFacts, StructureAssumption DEF Fits, Request
<1>5. Start(d) /\ InPlace(t, d) /\ Behind(t, d)
  BY <1>2, <1>3 DEF Start, InPlace, Behind
<1>6. Unlucky(t, d)
  <2> SUFFICES ASSUME ~d.disturbed, ~d.erred
               PROVE  /\ d.pc # "create" /\ d.pc # "failed"
                      /\ d.tries = 1 /\ In(t, Check(d))
    BY DEF Unlucky
  <2>1. ~req[r].disturbed /\ ~req[r].erred /\ In(t, Check(req[r]))
    BY <1>2, <1>3
  <2>2. req[r].tries = 0
    BY <2>1 DEF Unlucky
  <2>3. d.pc = "resolve" /\ d.tries = 1
    BY <2>2, <1>2, <1>3, StructureAssumption
  <2>4. Check(d) = Check(req[r])
    BY <1>2, <1>3 DEF Check
  <2>5. QED
    BY <2>1, <2>3, <2>4
<1>7. QED
  BY <1>3, <1>4, <1>5, <1>6 DEF Good

\* A new entry whose id nobody holds or remembers disturbs no call.
LEMMA NewEntry ==
  ASSUME Inv, NEW p \in Paths, ~Taken(p), NEW i \in Ids, Fresh(i), NEW d \in BOOLEAN,
         tree' = [tree EXCEPT ![p] = [id |-> i, dir |-> d]]
  PROVE  /\ tree' \in [Paths -> Entry \cup {None}]
         /\ UniqueIds(tree')
         /\ \A x \in Requests : Good(tree', req[x])
         /\ In(tree', p)
         /\ \A y \in Paths : Holds(tree', y, i) => y = p
<1> DEFINE e == [id |-> i, dir |-> d]
<1>1. e \in Entry /\ e.id = i /\ e # None
  <2>1. e \in Entry /\ e.id = i
    BY DEF Entry
  <2>2. Entry \cap {None} = {}
    BY StructureAssumption DEF Entry
  <2>3. QED
    BY <2>1, <2>2
<1>2. tree \in [Paths -> Entry \cup {None}]
  BY DEF Inv, TypeOK
<1>3. \A y \in Paths : tree'[y] = IF y = p THEN e ELSE tree[y]
  BY <1>2
<1>4. tree' \in [Paths -> Entry \cup {None}]
  BY <1>1, <1>2
<1>5. tree[p] = None /\ \A y \in Paths : tree[y] # None => tree[y].id # i
  BY DEF Taken, Fresh, HasId
<1>6. UniqueIds(tree')
  BY <1>1, <1>3, <1>5 DEF UniqueIds, In, Inv
<1>7. \A y \in Paths : Holds(tree', y, i) => y = p
  BY <1>3, <1>5 DEF Holds, In
<1>8. \A y \in Paths : In(tree, y) => In(tree', y)
  BY <1>1, <1>3 DEF In
<1>9. ASSUME NEW x \in Requests PROVE Good(tree', req[x])
  <2>1. Good(tree, req[x]) /\ req[x].curr # i
    BY DEF Inv, Fresh
  <2>2. \A y \in Paths : Holds(tree', y, req[x].curr) => Holds(tree, y, req[x].curr)
    BY <2>1, <1>1, <1>3 DEF Holds, In
  <2>3. InPlace(tree', req[x])
    BY <2>1, <2>2 DEF Good, InPlace
  <2>4. req[x].pc \in {"resolve", "create"} =>
          /\ \A k \in 1..(req[x].at - 1) : Way[req[x].key][k] \in Paths
          /\ Check(req[x]) \in Paths
    BY CheckFacts DEF Inv
  <2>5. req[x].pc = "done" => \A k \in 1..Len(Way[req[x].key]) : Way[req[x].key][k] \in Paths
    BY StructureAssumption DEF Inv, TypeOK, Fits
  <2>6. Behind(tree', req[x])
    BY <2>1, <2>4, <2>5, <1>8 DEF Good, Behind
  <2>7. Unlucky(tree', req[x])
    BY <2>1, <2>4, <1>8 DEF Good, Unlucky
  <2>8. QED
    BY <2>1, <2>3, <2>6, <2>7 DEF Good
<1>10. QED
  BY <1>1, <1>3, <1>4, <1>6, <1>7, <1>9 DEF In

-----------------------------------------------------------------------------
(* The steps *)

LEMMA InitInv == Init => Inv
<1> SUFFICES ASSUME Init PROVE Inv
  OBVIOUS
<1>1. TypeOK
  BY NoRequestGood DEF Init, TypeOK
<1>2. UniqueIds(tree)
  BY DEF Init, UniqueIds, In
<1>3. QED
  BY <1>1, <1>2, NoRequestGood DEF Init, Inv

LEMMA CallInv == ASSUME Inv, NEW r \in Requests, NEW k \in Keys, Call(r, k) PROVE Inv'
<1> DEFINE l == IF Way[k] = <<>> THEN "done" ELSE "root"
           q == [NoRequest EXCEPT !.pc = l, !.key = k]
<1>1. Put(r, q) /\ UNCHANGED tree
  BY DEF Call
<1>2. Way[k] \in Seq(Paths)
  BY StructureAssumption
<1>3. /\ q \in Request /\ q.pc = l /\ q.key = k /\ q.at = 1 /\ q.curr = RootId /\ q.tries = 0
      /\ q.erred = FALSE /\ q.disturbed = FALSE /\ l \in {"done", "root"}
  BY NoRequestGood, StructureAssumption DEF NoRequest, Request, Labels
<1> HIDE DEF q
<1>4. l = "root" => Len(Way[k]) > 0
  BY <1>2
<1>5. l = "done" => Len(Way[k]) = 0
  BY <1>2
<1>6. Fits(q)
  BY <1>2, <1>3, <1>4 DEF Fits
<1>7. Behind(tree, q)
  BY <1>3, <1>5 DEF Behind
<1>8. Start(q) /\ InPlace(tree, q) /\ Unlucky(tree, q)
  BY <1>3 DEF Start, InPlace, Unlucky
<1>9. QED
  BY <1>1, <1>3, <1>6, <1>7, <1>8, OneCall DEF Good

LEMMA ResolveRootInv == ASSUME Inv, NEW r \in Requests, ResolveRoot(r) PROVE Inv'
<1>1. /\ req[r] \in Request /\ Fits(req[r]) /\ req[r].pc = "root" /\ UNCHANGED tree
      /\ Start(req[r]) /\ Way[req[r].key] \in Seq(Paths)
  BY CheckFacts DEF Inv, TypeOK, ResolveRoot, Good
<1>2. CASE Goto(r, "resolve")
  <2> DEFINE q == [req[r] EXCEPT !.pc = "resolve"]
  <2>1. /\ q \in Request /\ q.pc = "resolve" /\ q.key = req[r].key /\ q.at = 1
        /\ q.curr = RootId /\ q.tries = 0
    BY <1>1 DEF Request, Labels, Start
  <2>2. Put(r, q)
    BY <1>2 DEF Goto
  <2>3. Fits(q)
    BY <1>1, <2>1, StructureAssumption DEF Fits
  <2>4. Good(tree, q)
    BY <2>1 DEF Good, Start, InPlace, Behind, Unlucky
  <2>5. QED
    BY <2>1, <2>2, <2>3, <2>4, <1>1, OneCall
<1>3. CASE Put(r, [req[r] EXCEPT !.pc = "failed", !.erred = TRUE])
  <2> DEFINE q == [req[r] EXCEPT !.pc = "failed", !.erred = TRUE]
  <2>1. q \in Request /\ q.pc = "failed" /\ q.key = req[r].key /\ q.erred = TRUE
    BY <1>1 DEF Request, Labels
  <2>2. Fits(q)
    BY <1>1, <2>1 DEF Fits
  <2>3. Good(tree, q)
    BY <2>1 DEF Good, Start, InPlace, Behind, Unlucky
  <2>4. QED
    BY <2>1, <2>2, <2>3, <1>1, <1>3, OneCall
<1>4. QED
  BY <1>2, <1>3 DEF ResolveRoot

LEMMA ResolveInv == ASSUME Inv, NEW r \in Requests, Resolve(r) PROVE Inv'
<1>1. /\ TypeOK /\ req[r] \in Request /\ Fits(req[r]) /\ req[r].pc = "resolve"
      /\ UNCHANGED tree /\ Good(tree, req[r]) /\ Check(req[r]) \in Paths
  BY CheckFacts DEF Inv, TypeOK, Resolve
<1> DEFINE c == Check(req[r])
<1>2. CASE Taken(c)
  <2>1. tree[c].id \in Ids
    BY <1>1, <1>2 DEF TypeOK, Taken, Entry
  <2>2. \A p \in Paths : Holds(tree, p, tree[c].id) => p = c
    BY <1>1, <1>2 DEF Inv, UniqueIds, Holds, In, Taken
  <2> DEFINE q == Advance(req[r], tree[c].id)
  <2>3. q \in Request /\ Fits(q) /\ Good(tree, q)
    BY <1>1, <1>2, <2>1, <2>2, AdvanceGood DEF Good, In, Taken
  <2>4. Put(r, q)
    BY <1>2 DEF Resolve
  <2> HIDE DEF q
  <2>5. QED
    BY <2>3, <2>4, <1>1, OneCall
<1>3. CASE ~Taken(c)
  <2> DEFINE q == [req[r] EXCEPT !.pc = "create"]
  <2>1. /\ q \in Request /\ q.pc = "create" /\ q.key = req[r].key /\ q.at = req[r].at
        /\ q.curr = req[r].curr /\ q.tries = req[r].tries /\ q.erred = req[r].erred
        /\ q.disturbed = req[r].disturbed
    BY <1>1 DEF Request, Labels
  <2>2. Put(r, q)
    BY <1>3 DEF Resolve, Goto
  <2>3. Fits(q)
    BY <1>1, <2>1 DEF Fits
  <2>4. Unlucky(tree, q)
    BY <1>1, <1>3, <2>1 DEF Good, Unlucky, In, Taken
  <2>5. Start(q) /\ InPlace(tree, q) /\ Behind(tree, q)
    BY <1>1, <2>1 DEF Good, Start, InPlace, Behind
  <2>6. QED
    BY <2>1, <2>2, <2>3, <2>4, <2>5, <1>1, OneCall DEF Good
<1>4. QED
  BY <1>2, <1>3

LEMMA ResolveFailsInv == ASSUME Inv, NEW r \in Requests, ResolveFails(r) PROVE Inv'
<1> DEFINE q == [req[r] EXCEPT !.pc = "create", !.erred = TRUE]
<1>1. /\ TypeOK /\ req[r] \in Request /\ Fits(req[r]) /\ req[r].pc = "resolve"
      /\ UNCHANGED tree /\ Good(tree, req[r]) /\ Put(r, q)
  BY DEF Inv, TypeOK, ResolveFails
<1>2. /\ q \in Request /\ q.pc = "create" /\ q.key = req[r].key /\ q.at = req[r].at
      /\ q.curr = req[r].curr /\ q.tries = req[r].tries /\ q.erred = TRUE
      /\ q.disturbed = req[r].disturbed
  BY <1>1 DEF Request, Labels
<1>3. Fits(q)
  BY <1>1, <1>2 DEF Fits
<1>4. Good(tree, q)
  BY <1>1, <1>2 DEF Good, Start, InPlace, Behind, Unlucky
<1>5. QED
  BY <1>1, <1>2, <1>3, <1>4, OneCall

\* What a step that ends with another attempt has to show.
LEMMA AttemptInv ==
  ASSUME Inv, NEW r \in Requests, req[r].pc = "create", UNCHANGED tree,
         NEW b \in BOOLEAN, b \/ In(tree, Check(req[r])),
         Put(r, Again([req[r] EXCEPT !.erred = b \/ req[r].erred]))
  PROVE  Inv'
<1> DEFINE q == Again([req[r] EXCEPT !.erred = b \/ req[r].erred])
<1>1. q \in Request /\ Fits(q) /\ Good(tree, q)
  BY AgainGood DEF Inv, Good
<1> HIDE DEF q
<1>2. Put(r, q)
  BY DEF q
<1>3. QED
  BY <1>1, <1>2, OneCall

LEMMA ConflictInv == ASSUME Inv, NEW r \in Requests, Conflict(r) PROVE Inv'
<1>1. PICK p \in Landing(req[r].curr, NameOf[Check(req[r])]) : Taken(p)
  BY DEF Conflict
<1>2. req[r].pc = "create" /\ UNCHANGED tree /\ Put(r, Again(req[r]))
  BY DEF Conflict
<1>3. In(tree, Check(req[r]))
  BY <1>1, <1>2, LandsAtCheck DEF In, Taken
<1>4. [req[r] EXCEPT !.erred = FALSE \/ req[r].erred] = req[r]
  <2>1. req[r] \in Request
    BY DEF Inv, TypeOK
  <2>2. PICK e \in BOOLEAN : req[r].erred = e
    BY <2>1 DEF Request
  <2>3. (FALSE \/ req[r].erred) = e
    BY <2>2
  <2>4. QED
    BY <2>1, <2>2, <2>3 DEF Request
<1>5. QED
  BY <1>2, <1>3, <1>4, AttemptInv

LEMMA CreateFailsInv == ASSUME Inv, NEW r \in Requests, CreateFails(r) PROVE Inv'
<1>1. [req[r] EXCEPT !.erred = TRUE \/ req[r].erred] = [req[r] EXCEPT !.erred = TRUE]
  OBVIOUS
<1>2. QED
  BY <1>1, AttemptInv DEF CreateFails

LEMMA ReturnInv == ASSUME Inv, NEW r \in Requests, Return(r) PROVE Inv'
  BY OneCall, NoRequestGood DEF Return

\* A step that replaces one call, with a new entry in the tree.
LEMMA EntryInv ==
  ASSUME Inv, NEW r \in Requests, NEW q \in Request, Fits(q), Good(tree', q), Put(r, q),
         NEW p \in Paths, ~Taken(p), NEW i \in Ids, Fresh(i), NEW d \in BOOLEAN,
         tree' = [tree EXCEPT ![p] = [id |-> i, dir |-> d]]
  PROVE  Inv'
<1>1. /\ tree' \in [Paths -> Entry \cup {None}] /\ UniqueIds(tree')
      /\ \A x \in Requests : Good(tree', req[x])
  BY NewEntry
<1>2. req' \in [Requests -> Request]
  BY DEF Inv, TypeOK, Put
<1>3. \A x \in Requests : req'[x] = IF x = r THEN q ELSE req[x]
  BY DEF Inv, TypeOK, Put
<1>4. \A x \in Requests : Fits(req'[x]) /\ Good(tree', req'[x])
  BY <1>1, <1>3 DEF Inv, TypeOK
<1>5. QED
  BY <1>1, <1>2, <1>4 DEF Inv, TypeOK, Fits

LEMMA CreateInv == ASSUME Inv, NEW r \in Requests, Create(r) PROVE Inv'
<1>1. req[r].pc = "create" /\ TypeOK /\ Good(tree, req[r])
  BY DEF Create, Inv
<1>2. PICK p \in Landing(req[r].curr, NameOf[Check(req[r])]), i \in Ids :
        /\ ~Taken(p) /\ Fresh(i)
        /\ tree' = [tree EXCEPT ![p] = [id |-> i, dir |-> TRUE]]
        /\ \/ Put(r, Advance(req[r], i))
           \/ Put(r, Again([req[r] EXCEPT !.erred = TRUE]))
  BY DEF Create
<1>3. p \in Paths /\ p = Check(req[r])
  BY <1>1, <1>2, LandsAtCheck DEF Landing
<1>4. /\ Good(tree', req[r]) /\ In(tree', p)
      /\ \A y \in Paths : Holds(tree', y, i) => y = p
  BY <1>2, <1>3, NewEntry
<1>5. CASE Put(r, Advance(req[r], i))
  <2> DEFINE q == Advance(req[r], i)
  <2>1. q \in Request /\ Fits(q) /\ Good(tree', q)
    BY <1>1, <1>3, <1>4, AdvanceGood DEF Good
  <2> HIDE DEF q
  <2>2. Put(r, q)
    BY <1>5 DEF q
  <2>3. QED
    BY <1>2, <1>3, <2>1, <2>2, EntryInv
<1>6. CASE Put(r, Again([req[r] EXCEPT !.erred = TRUE]))
  <2> DEFINE q == Again([req[r] EXCEPT !.erred = TRUE])
  <2>1. q \in Request /\ Fits(q) /\ Good(tree', q)
    <3>1. [req[r] EXCEPT !.erred = TRUE \/ req[r].erred] = [req[r] EXCEPT !.erred = TRUE]
      OBVIOUS
    <3>2. QED
      BY <3>1, <1>1, <1>4, AgainGood DEF Good
  <2> HIDE DEF q
  <2>2. Put(r, q)
    BY <1>6 DEF q
  <2>3. QED
    BY <1>2, <1>3, <2>1, <2>2, EntryInv
<1>7. QED
  BY <1>2, <1>5, <1>6

LEMMA OccupyInv == ASSUME Inv, NEW p \in Paths, Occupy(p) PROVE Inv'
<1>1. ~Taken(p) /\ UNCHANGED req
  BY DEF Occupy
<1>2. PICK i \in Ids : Fresh(i) /\ tree' = [tree EXCEPT ![p] = [id |-> i, dir |-> FALSE]]
  BY DEF Occupy
<1>3. /\ tree' \in [Paths -> Entry \cup {None}] /\ UniqueIds(tree')
      /\ \A x \in Requests : Good(tree', req[x])
  BY <1>1, <1>2, NewEntry
<1>4. QED
  BY <1>1, <1>3 DEF Inv, TypeOK

LEMMA RemoveEntryInv == ASSUME Inv, NEW p \in Paths, RemoveEntry(p) PROVE Inv'
<1>1. tree \in [Paths -> Entry \cup {None}] /\ req \in [Requests -> Request]
  BY DEF Inv, TypeOK
<1>2. \A y \in Paths : tree'[y] = IF y = p THEN None ELSE tree[y]
  BY <1>1 DEF RemoveEntry
<1>3. tree' \in [Paths -> Entry \cup {None}]
  BY <1>1 DEF RemoveEntry
<1>4. UniqueIds(tree')
  BY <1>2 DEF Inv, UniqueIds, In
<1>5. \A x \in Requests :
        req'[x] = IF req[x].pc = "idle" THEN req[x] ELSE [req[x] EXCEPT !.disturbed = TRUE]
  BY DEF RemoveEntry
<1>6. ASSUME NEW x \in Requests
      PROVE  req'[x] \in Request /\ Fits(req'[x]) /\ Good(tree', req'[x])
  <2>1. req[x] \in Request /\ Fits(req[x]) /\ Good(tree, req[x])
    BY DEF Inv, TypeOK
  <2>2. CASE req[x].pc = "idle"
    BY <2>1, <2>2, <1>5 DEF Good, Start, InPlace, Behind, Unlucky
  <2>3. CASE req[x].pc # "idle"
    <3> DEFINE q == [req[x] EXCEPT !.disturbed = TRUE]
    <3>1. /\ q \in Request /\ q.pc = req[x].pc /\ q.key = req[x].key /\ q.at = req[x].at
          /\ q.curr = req[x].curr /\ q.tries = req[x].tries /\ q.disturbed = TRUE
      BY <2>1 DEF Request
    <3>2. Fits(q)
      BY <2>1, <3>1 DEF Fits
    <3>3. \A y \in Paths : Holds(tree', y, q.curr) => Holds(tree, y, q.curr)
      BY <1>2 DEF Holds, In
    <3>4. InPlace(tree', q)
      BY <2>1, <3>1, <3>3 DEF Good, InPlace
    <3>5. Start(q) /\ Behind(tree', q) /\ Unlucky(tree', q)
      BY <2>1, <3>1 DEF Good, Start, Behind, Unlucky
    <3>6. req'[x] = q
      BY <2>3, <1>5
    <3>7. QED
      BY <3>1, <3>2, <3>4, <3>5, <3>6 DEF Good
  <2>4. QED
    BY <2>2, <2>3
<1>7. req' \in [Requests -> Request]
  BY <1>6 DEF RemoveEntry
<1>8. QED
  BY <1>3, <1>4, <1>6, <1>7 DEF Inv, TypeOK, Fits

LEMMA NextInv == Inv /\ [Next]_vars => Inv'
<1> SUFFICES ASSUME Inv, [Next]_vars PROVE Inv'
  OBVIOUS
<1>1. ASSUME NEW r \in Requests, NEW k \in Keys, Call(r, k) PROVE Inv'
  BY <1>1, CallInv
<1>2. ASSUME NEW r \in Requests, Step(r) PROVE Inv'
  BY <1>2, ResolveRootInv, ResolveInv, ResolveFailsInv, CreateInv, ConflictInv,
     CreateFailsInv, ReturnInv DEF Step
<1>3. ASSUME NEW p \in Paths, RemoveEntry(p) \/ Occupy(p) PROVE Inv'
  BY <1>3, RemoveEntryInv, OccupyInv
<1>4. CASE UNCHANGED vars
  BY <1>4 DEF vars, Inv, TypeOK, Fits
<1>5. QED
  BY <1>1, <1>2, <1>3, <1>4 DEF Next

-----------------------------------------------------------------------------
(* The theorems *)

\* The inductive invariant holds throughout.
THEOREM InvHolds == Spec => []Inv
<1>1. QED
  BY InitInv, NextInv, PTL DEF Spec

\* Whatever the filespace answers and whoever else changes it, the state stays well
\* typed and a call has what its next step needs (ensure_structure's locals).
THEOREM TypeCorrect == Spec => []TypeOK
<1>1. Inv => TypeOK
  BY DEF Inv
<1>2. QED
  BY <1>1, InvHolds, PTL

\* ensure_structure fails only for an error or a removal, and what it reports as made
\* is there.
THEOREM AnswersTrue == Spec => []AnswersAreTrue
<1>1. Inv => AnswersAreTrue
  <2> SUFFICES ASSUME Inv, NEW r \in Requests
               PROVE  /\ req[r].pc = "failed" => req[r].erred \/ req[r].disturbed
                      /\ req[r].pc = "done" /\ ~req[r].disturbed
                           => \A i \in 1..Len(Way[req[r].key]) : Taken(Way[req[r].key][i])
    BY DEF AnswersAreTrue, FailsForCause, SuccessMeansThere
  <2>1. Behind(tree, req[r]) /\ Unlucky(tree, req[r])
    BY DEF Inv, Good
  <2>2. QED
    BY <2>1 DEF Behind, Unlucky, In, Taken
<1>2. QED
  BY <1>1, InvHolds, PTL

LEMMA StepInPlace ==
  ASSUME Inv, [Next]_vars, NEW p \in Paths, ~Taken(p), Taken(p)', tree'[p].dir
  PROVE  \E r \in Requests : req[r].pc = "create" /\ Check(req[r]) = p
<1>1. tree \in [Paths -> Entry \cup {None}] /\ tree' # tree
  BY DEF Inv, TypeOK, Taken
<1>2. PICK y \in Paths : \/ RemoveEntry(y) \/ Occupy(y)
                         \/ \E r \in Requests : Create(r)
  BY <1>1 DEF Next, vars, Call, Step, ResolveRoot, Resolve, ResolveFails, Conflict,
     CreateFails, Return
<1>3. ~RemoveEntry(y)
  BY <1>1 DEF RemoveEntry, Taken
<1>4. ASSUME Occupy(y) PROVE FALSE
  <2>1. PICK i \in Ids : tree' = [tree EXCEPT ![y] = [id |-> i, dir |-> FALSE]]
    BY <1>4 DEF Occupy
  <2>2. p = y
    BY <2>1, <1>1 DEF Taken
  <2>3. QED
    BY <2>1, <2>2, <1>1
<1>5. PICK r \in Requests : Create(r)
  BY <1>2, <1>3, <1>4
<1>6. req[r].pc = "create"
  BY <1>5 DEF Create
<1>7. PICK z \in Landing(req[r].curr, NameOf[Check(req[r])]), i \in Ids :
        tree' = [tree EXCEPT ![z] = [id |-> i, dir |-> TRUE]]
  BY <1>5 DEF Create
<1>8. z = p
  BY <1>7, <1>1 DEF Taken, Landing
<1>9. QED
  BY <1>6, <1>7, <1>8, LandsAtCheck

\* create_folder never puts a folder under another parent than its path's, however
\* stale the id it was given.
THEOREM CreatesInPlace == Spec => CreatedInPlace
<1>1. Inv /\ [Next]_vars
        => [\A p \in Paths :
              ~Taken(p) /\ Taken(p)' /\ tree'[p].dir
                => \E r \in Requests : req[r].pc = "create" /\ Check(req[r]) = p]_vars
  BY StepInPlace
<1>2. QED
  BY <1>1, InvHolds, PTL DEF Spec, CreatedInPlace
=============================================================================
