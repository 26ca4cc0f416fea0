------------------------ MODULE FilespaceListsProofs ------------------------
(***************************************************************************)
(* Proofs about FilespaceLists, for any number of requests, accounts and   *)
(* filespaces, and any finite set of data stores.                          *)
(***************************************************************************)
EXTENDS FilespaceLists, FiniteSetTheorems, TLAPS

-----------------------------------------------------------------------------
(* The inductive invariant: s is a session, e the data stores there are, q *)
(* a request and rq all of them.                                           *)

Distinct(spaces) == \A f, g \in spaces : NameOf[f] = NameOf[g] => f = g
Named(listed)    == \A x, y \in listed : StoreName[x] = StoreName[y] => x = y

At(e, f)   == {x \in e : Home[x] = f}
Chosen(s)  == {f \in s.spaces : NameOf[f] = s.selected}
Gone(rq)   == {rq[r].store : r \in {x \in Requests : rq[x].pc = "deleted"}}
Writer(rq) == \E r \in Requests : rq[r].wrote

\* The list follows the selection, but for data stores that are about to leave it.
Follows(s, e, rq, b) ==
  ~b /\ ~Writer(rq) => \A f \in Chosen(s) : s.listed \subseteq At(e, f) \cup Gone(rq)

\* An account is known where one is needed, and only loads change the session.
Known(s, q) ==
  /\ q.pc \in {"create", "created"} => s.account # None
  /\ q.pc = "save" => q.account \in Accounts
  /\ q.pc \in {"list", "save"} => ~q.new
  /\ q.pc \in {"head", "create", "created", "record", "noted"} => q.new
  /\ q.wrote => q.pc \in {"save", "stores", "answered", "fill"}
  /\ q.pc = "fill" => q.wrote

\* What a request chose is still there, if nobody has overtaken it.
Choice(s, q) ==
  ~q.overtaken =>
    /\ q.pc \in {"stores", "answered", "fill"} => q.space \in s.spaces
    /\ q.new /\ q.pc \in {"create", "created", "stores", "answered", "fill", "record"}
         => q.space \in s.spaces /\ NameOf[q.space] = s.selected

\* So is what it was answered.
Answer(s, e, q) ==
  ~q.overtaken =>
    /\ q.pc = "answered" => q.todo \subseteq At(e, q.space)
    /\ q.pc = "fill" => q.todo \cup s.listed \subseteq At(e, q.space)

\* Data stores that have credentials coming are in the filespace they come with, and
\* that goes by its name unless somebody has overtaken the request.
AtHome(q) ==
  /\ q.pc \in {"created", "stores", "answered", "fill"} /\ q.new /\ q.store # None
       => Home[q.store] = q.space
  /\ (q.pc \in {"record", "noted"} /\ q.store # None) \/ (q.pc = "form" /\ q.sound)
       => Home[q.store] = q.space
  /\ (q.pc \in {"record", "noted"} /\ ~q.overtaken) \/ q.pc = "form"
       => q.name = NameOf[q.space]

\* A page that was begun while the lists were quiet.
Whole(s, q) ==
  q.sound /\ q.pc \in {"page", "shown", "broken"} =>
    /\ q.drift <= 0
    /\ q.drift = 0 => q.shown \cup q.todo = q.start /\ q.left = Cardinality(q.todo)
    /\ q.live /\ q.pc = "page" =>
         s.listed \subseteq q.start /\ q.drift = Cardinality(s.listed) - Cardinality(q.start)
    /\ q.pc = "shown" => q.shown = q.start
    /\ q.pc = "broken" => q.drift < 0

Good(s, e, q) ==
  Known(s, q) /\ Choice(s, q) /\ Answer(s, e, q) /\ AtHome(q) /\ Whole(s, q)

\* Nobody fills the dictionary that such a page goes through.
Watched(q) == q.pc = "page" /\ q.sound /\ q.live
NoFill(rq) == \A r, o \in Requests : Watched(rq[r]) => rq[o].pc # "fill"

Inv ==
  /\ TypeOK
  /\ Distinct(session.spaces)
  /\ Named(session.listed)
  /\ Follows(session, exists, req, blurred)
  /\ NoFill(req)
  /\ \A r \in Requests : Good(session, exists, req[r])

-----------------------------------------------------------------------------
(* Lemmas *)

LEMMA NoRequestGood ==
  NoRequest \in Request /\ Fits(NoRequest) /\ \A s, e : Good(s, e, NoRequest)
<1>1. NoRequest \in Request
  BY DEF NoRequest, Request, Labels
<1>2. Fits(NoRequest)
  BY DEF NoRequest, Fits
<1>3. \A s, e : Good(s, e, NoRequest)
  BY DEF NoRequest, Good, Known, Choice, Answer, AtHome, Whole
<1>4. QED
  BY <1>1, <1>2, <1>3

\* Lists of data stores are finite.
LEMMA Sizes ==
  ASSUME NEW A \in SUBSET Stores
  PROVE  /\ IsFiniteSet(A) /\ Cardinality(A) \in Nat
         /\ Cardinality(A) = 0 <=> A = {}
         /\ \A B \in SUBSET A : /\ Cardinality(B) \in Nat /\ Cardinality(B) <= Cardinality(A)
                                /\ Cardinality(B) = Cardinality(A) => B = A
         /\ \A x \in A : Cardinality(A \ {x}) = Cardinality(A) - 1
<1>1. IsFiniteSet(Stores)
  BY FilespaceListsAssumption
<1>2. IsFiniteSet(A)
  BY <1>1, FS_Subset
<1>3. Cardinality(A) \in Nat
  BY <1>2, FS_CardinalityType
<1>4. Cardinality(A) = 0 <=> A = {}
  BY <1>2, FS_EmptySet
<1>5. ASSUME NEW B \in SUBSET A
      PROVE  /\ Cardinality(B) \in Nat /\ Cardinality(B) <= Cardinality(A)
             /\ Cardinality(B) = Cardinality(A) => B = A
  <2>1. IsFiniteSet(B) /\ Cardinality(B) <= Cardinality(A) /\ (Cardinality(B) = Cardinality(A) => B = A)
    BY <1>2, FS_Subset
  <2>2. Cardinality(B) \in Nat
    BY <2>1, FS_CardinalityType
  <2>3. QED
    BY <2>1, <2>2, <1>3
<1>6. ASSUME NEW x \in A PROVE Cardinality(A \ {x}) = Cardinality(A) - 1
  BY <1>2, FS_RemoveElement
<1>7. QED
  BY <1>2, <1>3, <1>4, <1>5, <1>6

\* The names the module uses for what the invariant says of any session.
LEMMA Names ==
  ASSUME TypeOK
  PROVE  /\ Selected = Chosen(session)
         /\ \A f \in Filespaces : Listing(f) = At(exists, f)
         /\ session.spaces \subseteq Filespaces /\ session.listed \subseteq Stores
         /\ exists \subseteq Stores
BY DEF TypeOK, Session, Selected, Resolve, Chosen, Listing, At

\* A named filespace of an account is one filespace.
LEMMA OneChosen ==
  ASSUME NEW s, Distinct(s.spaces), NEW f \in s.spaces, NameOf[f] = s.selected
  PROVE  Chosen(s) = {f}
BY DEF Distinct, Chosen

\* A dictionary of data stores has one of each name.
LEMMA StaysNamed ==
  ASSUME NEW listed, Named(listed), NEW x \in Stores
  PROVE  Named(With(listed, x)) /\ Named(Without(listed, x))
<1>1. Named(Without(listed, x))
  BY DEF Named, Without
<1>2. x # None
  BY FilespaceListsAssumption
<1>3. Named(With(listed, x))
  BY <1>2 DEF Named, With, Without, Namesakes
<1>4. QED
  BY <1>1, <1>3

\* A request is the same in a session that has the same lists and still an account.
LEMMA GoodElsewhere ==
  ASSUME NEW s, NEW z, NEW e, NEW d, NEW q, Good(s, e, q), e \subseteq d,
         z.spaces = s.spaces, z.listed = s.listed, z.selected = s.selected,
         s.account # None => z.account # None
  PROVE  Good(z, d, q)
<1>1. Known(z, q) /\ Choice(z, q) /\ AtHome(q)
  BY DEF Good, Known, Choice
<1>2. Answer(z, d, q)
  BY DEF Good, Answer, At
<1>3. Whole(z, q)
  BY DEF Good, Whole
<1>4. QED
  BY <1>1, <1>2, <1>3 DEF Good

\* One slot changes, data stores may come into being, and the session does not change.
LEMMA OneSlot ==
  ASSUME Inv, NEW r \in Requests, NEW q \in Request, Fits(q), Put(r, q),
         UNCHANGED session, exists \subseteq exists', exists' \subseteq Stores,
         Good(session, exists', q), blurred' \in BOOLEAN,
         req[r].pc # "deleted", q.pc # "deleted", q.pc = "fill" => req[r].pc = "fill",
         Watched(q) => Watched(req[r]) \/ \A o \in Requests : o # r => req[o].pc # "fill",
         ~blurred' /\ ~q.wrote => Chosen(session) = {} \/ (~blurred /\ ~req[r].wrote)
  PROVE  Inv'
<1>1. req' \in [Requests -> Request] /\ req \in [Requests -> Request]
  BY DEF Inv, TypeOK, Put
<1>2. \A x \in Requests : req'[x] = IF x = r THEN q ELSE req[x]
  BY <1>1 DEF Put
<1>3. \A x \in Requests : Fits(req'[x])
  BY <1>2 DEF Inv, TypeOK
<1>4. TypeOK'
  BY <1>1, <1>3 DEF Inv, TypeOK, Fits
<1>5. \A x \in Requests : Good(session, exists', req[x])
  BY GoodElsewhere DEF Inv
<1>6. \A x \in Requests : Good(session', exists', req'[x])
  BY <1>5, <1>2
<1>7. NoFill(req')
  <2> SUFFICES ASSUME NEW x \in Requests, NEW o \in Requests, Watched(req'[x]), req'[o].pc = "fill"
               PROVE  FALSE
    BY DEF NoFill
  <2>1. req[o].pc = "fill"
    BY <1>2
  <2>2. ~Watched(req[x])
    BY <2>1 DEF Inv, NoFill
  <2>3. x = r /\ Watched(q)
    BY <2>2, <1>2
  <2>4. o = r
    BY <2>1, <2>2, <2>3
  <2>5. QED
    BY <2>3, <2>4, <1>2 DEF Watched
<1>8. Gone(req') = Gone(req)
  <2>1. \A x \in Requests : req'[x].pc = "deleted" <=> req[x].pc = "deleted"
    BY <1>2
  <2>2. \A x \in Requests : req'[x].pc = "deleted" => req'[x] = req[x]
    BY <1>2
  <2>3. QED
    BY <2>1, <2>2 DEF Gone
<1>9. Follows(session', exists', req', blurred')
  <2> SUFFICES ASSUME ~blurred', ~Writer(req'), NEW f \in Chosen(session)
               PROVE  session.listed \subseteq At(exists', f) \cup Gone(req')
    BY DEF Follows, Chosen
  <2>1. ~q.wrote
    BY <1>2 DEF Writer
  <2>2. ~blurred /\ ~req[r].wrote
    BY <2>1
  <2>3. ~Writer(req)
    BY <2>2, <1>2 DEF Writer
  <2>4. session.listed \subseteq At(exists, f) \cup Gone(req)
    BY <2>2, <2>3 DEF Inv, Follows
  <2>5. QED
    BY <2>4, <1>8 DEF At
<1>10. QED
  BY <1>4, <1>6, <1>7, <1>9 DEF Inv, Distinct, Named

\* A page, or any request, after another one has changed the list to z.
LEMMA Followed ==
  ASSUME TypeOK, NEW o \in Requests, Whole(session, req[o]), Named(session.listed),
         NEW z \in SUBSET Stores, NEW fresh \in BOOLEAN,
         Watched(req[o]) => fresh \/ z \subseteq session.listed
  PROVE  LET w == Follow(req[o], z, fresh)
         IN  /\ w \in Request
             /\ \A s : s.listed = z => Whole(s, w)
             /\ w.pc = req[o].pc /\ w.account = req[o].account /\ w.space = req[o].space
             /\ w.store = req[o].store /\ w.new = req[o].new /\ w.wrote = req[o].wrote
             /\ w.overtaken = req[o].overtaken /\ w.sound = req[o].sound
             /\ w.name = req[o].name
             /\ w.todo = req[o].todo \/ w.pc = "page"
             /\ Watched(w) => Watched(req[o]) /\ ~fresh
<1> DEFINE q == req[o]
           w == Follow(q, z, fresh)
<1>1. q \in Request /\ session.listed \in SUBSET Stores
  BY DEF TypeOK, Session
<1>2. CASE q.pc # "page" \/ ~q.live
  <2>1. w = q
    BY <1>2 DEF Follow
  <2>2. \A s : s.listed = z => Whole(s, q)
    BY <1>2 DEF Whole
  <2>3. ~Watched(q)
    BY <1>2 DEF Watched
  <2>4. QED
    BY <2>1, <2>2, <2>3, <1>1
<1>3. CASE q.pc = "page" /\ q.live /\ fresh
  <2> DEFINE d == [q EXCEPT !.live = FALSE]
  <2>1. w = d
    BY <1>3 DEF Follow
  <2>2. /\ d \in Request /\ ~d.live /\ d.drift = q.drift /\ d.shown = q.shown /\ d.todo = q.todo
        /\ d.start = q.start /\ d.left = q.left /\ d.pc = q.pc /\ d.account = q.account
        /\ d.space = q.space /\ d.store = q.store /\ d.new = q.new /\ d.wrote = q.wrote
        /\ d.overtaken = q.overtaken /\ d.sound = q.sound /\ d.name = q.name
    BY <1>1 DEF Request
  <2> HIDE DEF d
  <2>3. \A s : s.listed = z => Whole(s, d)
    BY <2>2 DEF Whole
  <2>4. ~Watched(d)
    BY <2>2 DEF Watched
  <2>5. QED
    BY <2>1, <2>2, <2>3, <2>4
<1>4. CASE q.pc = "page" /\ q.live /\ ~fresh
  <2> DEFINE left == {x \in z : Namesakes(session.listed, x) \subseteq q.todo}
             by == q.drift + Cardinality(z) - Cardinality(session.listed)
             d == [q EXCEPT !.todo = left, !.drift = by]
  <2>1. w = d
    BY <1>4 DEF Follow
  <2>2. Cardinality(z) \in Nat /\ Cardinality(session.listed) \in Nat /\ q.drift \in Int
    BY Sizes, <1>1 DEF Request
  <2>3. left \in SUBSET Stores /\ by \in Int
    BY <2>2
  <2> HIDE DEF left, by
  <2>4. /\ d \in Request /\ d.live = q.live /\ d.drift = by /\ d.shown = q.shown /\ d.todo = left
        /\ d.start = q.start /\ d.left = q.left /\ d.pc = q.pc /\ d.account = q.account
        /\ d.space = q.space /\ d.store = q.store /\ d.new = q.new /\ d.wrote = q.wrote
        /\ d.overtaken = q.overtaken /\ d.sound = q.sound /\ d.name = q.name
    BY <1>1, <2>3 DEF Request
  <2> HIDE DEF d
  <2>5. ASSUME q.sound, NEW s, s.listed = z
        PROVE  Whole(s, d)
    <3>1. z \subseteq session.listed
      BY <2>5, <1>4 DEF Watched
    <3>2. /\ session.listed \subseteq q.start
          /\ q.drift = Cardinality(session.listed) - Cardinality(q.start)
          /\ q.drift = 0 => q.shown \cup q.todo = q.start /\ q.left = Cardinality(q.todo)
      BY <2>5, <1>4 DEF Whole
    <3>3. q.start \in SUBSET Stores /\ q.todo \in SUBSET Stores
      BY <1>1 DEF Request
    <3>4. Cardinality(q.start) \in Nat
      BY <3>3, Sizes
    <3>5. by = Cardinality(z) - Cardinality(q.start)
      BY <3>2, <3>4, <2>2 DEF by
    <3>6. z \in SUBSET q.start
      BY <3>1, <3>2
    <3>7. Cardinality(z) <= Cardinality(q.start) /\ (Cardinality(z) = Cardinality(q.start) => z = q.start)
      BY <3>6, <3>3, Sizes
    <3>8. by <= 0
      BY <3>5, <3>7, <3>4, <2>2
    <3>9. ASSUME by = 0 PROVE d.shown \cup d.todo = d.start /\ d.left = Cardinality(d.todo)
      <4>1. z = q.start
        BY <3>9, <3>5, <3>7, <3>4, <2>2
      <4>2. z = session.listed
        BY <4>1, <3>1, <3>2
      <4>3. q.drift = 0
        <5>1. Cardinality(session.listed) = Cardinality(q.start)
          BY <4>1, <4>2
        <5>2. q.drift = Cardinality(session.listed) - Cardinality(q.start)
          BY <3>2
        <5>3. QED
          BY <5>1, <5>2, <3>4
      <4>4. q.todo \subseteq z
        BY <4>1, <4>3, <3>2
      <4>5. \A x \in z : Namesakes(session.listed, x) = {x}
        BY <4>2, FilespaceListsAssumption DEF Namesakes, Named
      <4>6. left = q.todo
        BY <4>4, <4>5 DEF left
      <4>7. QED
        BY <4>3, <4>6, <3>2, <2>4
    <3>10. QED
      BY <3>5, <3>6, <3>8, <3>9, <2>4, <2>5, <1>4 DEF Whole
  <2>6. \A s : s.listed = z => Whole(s, d)
    BY <2>5, <2>4 DEF Whole
  <2>7. Watched(d) => Watched(q)
    BY <2>4 DEF Watched
  <2>8. QED
    BY <2>1, <2>4, <2>6, <2>7, <1>4
<1>5. QED
  BY <1>2, <1>3, <1>4

\* Another request once r has changed the session to s and the stores to e.
LEMMA OvertakenGood ==
  ASSUME TypeOK, NoFill(req), NEW o \in Requests, Good(session, exists, req[o]),
         Named(session.listed),
         NEW s \in Session, NEW e, NEW fresh \in BOOLEAN,
         session.account # None => s.account # None,
         fresh \/ s.listed \subseteq session.listed \/ \E x \in Requests : req[x].pc = "fill"
  PROVE  LET v == [Follow(req[o], s.listed, fresh) EXCEPT !.overtaken = @ \/ Exposed(req[o])]
         IN  /\ v \in Request /\ Fits(v) /\ Good(s, e, v)
             /\ v.pc = req[o].pc /\ v.wrote = req[o].wrote /\ v.store = req[o].store
             /\ Watched(v) => Watched(req[o]) /\ ~fresh
<1> DEFINE q == req[o]
           w == Follow(q, s.listed, fresh)
<1>1. s.listed \in SUBSET Stores
  BY DEF Session
<1>2. Watched(q) => fresh \/ s.listed \subseteq session.listed
  BY DEF NoFill
<1>3. Whole(session, q)
  BY DEF Good
<1>4. /\ w \in Request /\ Whole(s, w)
      /\ w.pc = q.pc /\ w.account = q.account /\ w.space = q.space
      /\ w.store = q.store /\ w.new = q.new /\ w.wrote = q.wrote
      /\ w.overtaken = q.overtaken /\ w.sound = q.sound /\ w.name = q.name
      /\ Watched(w) => Watched(q) /\ ~fresh
  BY <1>1, <1>2, <1>3, Followed
<1> HIDE DEF w
<1>5. Exposed(q) \in BOOLEAN /\ w.overtaken \in BOOLEAN
  BY <1>4 DEF Exposed, Request
<1>6. PICK b \in BOOLEAN : b = (w.overtaken \/ Exposed(q))
  BY <1>5
<1> DEFINE v == [w EXCEPT !.overtaken = b]
<1>7. [w EXCEPT !.overtaken = @ \/ Exposed(q)] = v
  BY <1>6
<1>8. /\ v \in Request /\ v.pc = q.pc /\ v.account = q.account /\ v.space = q.space
      /\ v.store = q.store /\ v.new = q.new /\ v.wrote = q.wrote
      /\ v.name = q.name
      /\ v.overtaken = b /\ v.sound = q.sound /\ v.todo = w.todo /\ v.shown = w.shown
      /\ v.left = w.left /\ v.drift = w.drift /\ v.live = w.live /\ v.start = w.start
  BY <1>4 DEF Request
<1> HIDE DEF v
<1>9. Fits(v)
  BY <1>8 DEF TypeOK, Fits
<1>10. ~v.overtaken => ~Exposed(q) /\ ~q.overtaken
  BY <1>4, <1>6, <1>8
<1>11. Known(s, v) /\ AtHome(v)
  BY <1>8, <1>10 DEF Good, Known, AtHome
<1>12. Choice(s, v) /\ Answer(s, e, v)
  BY <1>8, <1>10 DEF Good, Exposed, Choice, Answer
<1>13. Whole(s, v)
  BY <1>4, <1>8 DEF Whole
<1>14. Watched(v) => Watched(w)
  BY <1>4, <1>8 DEF Watched
<1>15. QED
  BY <1>4, <1>7, <1>8, <1>9, <1>11, <1>12, <1>13, <1>14 DEF Good, w

\* r overtakes the others, and the session and the stores are s and e from then on.
LEMMA Overtook ==
  ASSUME Inv, NEW r \in Requests, NEW q \in Request, NEW s \in Session, NEW e \in SUBSET Stores,
         NEW fresh \in BOOLEAN, Overtake(r, q, s.listed, fresh),
         session' = s, exists' = e, blurred' \in BOOLEAN,
         s.spaces # {} => s.account # None, session.account # None => s.account # None,
         fresh \/ s.listed \subseteq session.listed \/ req[r].pc = "fill",
         Distinct(s.spaces), Named(s.listed), Fits(q), Good(s, e, q), ~Watched(q),
         q.pc = "fill" => fresh \/ req[r].pc = "fill",
         Follows(s, e, req', blurred')
  PROVE  Inv'
<1> DEFINE V(o) == [Follow(req[o], s.listed, fresh) EXCEPT !.overtaken = @ \/ Exposed(req[o])]
<1>1. ASSUME NEW o \in Requests
      PROVE  /\ V(o) \in Request /\ Fits(V(o)) /\ Good(s, e, V(o))
             /\ V(o).pc = req[o].pc
             /\ Watched(V(o)) => Watched(req[o]) /\ ~fresh
  <2>1. TypeOK /\ NoFill(req) /\ Good(session, exists, req[o]) /\ Named(session.listed)
    BY DEF Inv
  <2>2. fresh \/ s.listed \subseteq session.listed \/ \E x \in Requests : req[x].pc = "fill"
    OBVIOUS
  <2>3. QED
    BY <2>1, <2>2, OvertakenGood
<1>2. req' = [o \in Requests |-> IF o = r THEN q ELSE V(o)]
  BY DEF Overtake
<1> HIDE DEF V
<1>3. req' \in [Requests -> Request]
  BY <1>1, <1>2
<1>4. \A o \in Requests : req'[o] = IF o = r THEN q ELSE V(o)
  BY <1>2
<1>5. \A o \in Requests : Fits(req'[o]) /\ Good(s, e, req'[o])
  BY <1>1, <1>4
<1>6. TypeOK'
  BY <1>3, <1>5 DEF TypeOK, Fits
<1>7. NoFill(req')
  <2> SUFFICES ASSUME NEW x \in Requests, NEW o \in Requests, Watched(req'[x]), req'[o].pc = "fill"
               PROVE  FALSE
    BY DEF NoFill
  <2>1. x # r /\ Watched(req[x]) /\ ~fresh
    BY <1>1, <1>4
  <2>2. req[o].pc = "fill"
    BY <1>1, <1>4, <2>1
  <2>3. QED
    BY <2>1, <2>2 DEF Inv, NoFill
<1>8. QED
  BY <1>5, <1>6, <1>7 DEF Inv, Distinct, Named

\* What the others keep in such a step.
LEMMA OvertookKeeps ==
  ASSUME Inv, NEW r \in Requests, NEW q, NEW s \in Session, NEW fresh \in BOOLEAN,
         Overtake(r, q, s.listed, fresh)
  PROVE  /\ req'[r] = q
         /\ \A o \in Requests \ {r} : /\ req'[o].pc = req[o].pc
                                      /\ req'[o].wrote = req[o].wrote
                                      /\ req'[o].store = req[o].store
<1>1. req'[r] = q
  BY DEF Overtake
<1>2. ASSUME NEW o \in Requests \ {r}
      PROVE  /\ req'[o].pc = req[o].pc /\ req'[o].wrote = req[o].wrote
             /\ req'[o].store = req[o].store
  <2> DEFINE w == Follow(req[o], s.listed, fresh)
  <2>1. req[o] \in Request
    BY DEF Inv, TypeOK
  <2>2. /\ DOMAIN w = DOMAIN req[o]
        /\ w.pc = req[o].pc /\ w.wrote = req[o].wrote /\ w.store = req[o].store
    BY <2>1 DEF Follow, Request
  <2>3. req'[o] = [w EXCEPT !.overtaken = @ \/ Exposed(req[o])]
    BY DEF Overtake
  <2> HIDE DEF w
  <2>4. QED
    BY <2>2, <2>3
<1>3. QED
  BY <1>1, <1>2

\* A request that changed nothing ends, or one whose failure leaves the lists blurred.
LEMMA Ends ==
  ASSUME Inv, NEW r \in Requests, Put(r, NoRequest), UNCHANGED session,
         exists \subseteq exists', exists' \subseteq Stores, req[r].pc # "deleted",
         (blurred' = blurred /\ ~req[r].wrote) \/ blurred' = TRUE
  PROVE  Inv'
<1>1. NoRequest \in Request /\ Fits(NoRequest) /\ Good(session, exists', NoRequest)
  BY NoRequestGood
<1>2. NoRequest.pc = "idle" /\ ~NoRequest.wrote /\ ~Watched(NoRequest)
  BY DEF NoRequest, Watched
<1>3. blurred' \in BOOLEAN
  BY DEF Inv, TypeOK
<1>4. QED
  BY <1>1, <1>2, <1>3, OneSlot

\* What the parts of the invariant say of the request in a slot.
LEMMA ReqFacts ==
  ASSUME Inv, NEW r \in Requests
  PROVE  /\ req[r] \in Request /\ Fits(req[r]) /\ Good(session, exists, req[r])
         /\ session \in Session /\ session.spaces \subseteq Filespaces
         /\ session.listed \subseteq Stores /\ exists \subseteq Stores
         /\ session.account # None => session.account \in Accounts
         /\ session.spaces # {} => session.account \in Accounts
         /\ blurred \in BOOLEAN
         /\ Selected = Chosen(session) /\ Chosen(session) \subseteq session.spaces
         /\ \A f \in Filespaces : Listing(f) = At(exists, f)
<1>1. TypeOK
  BY DEF Inv
<1>2. session.account \in Accounts \cup {None}
  BY <1>1 DEF TypeOK, Session
<1>3. Good(session, exists, req[r])
  BY DEF Inv
<1>4. QED
  BY <1>1, <1>2, <1>3, Names DEF TypeOK, Chosen

LEMMA Visited ==
  ASSUME Inv, NEW r \in Requests, req[r].pc # "deleted", ~req[r].wrote,
         NEW q \in Request, Fits(q), q.pc = "page", ~q.wrote, Good(session, exists, q),
         Watched(q) => Watched(req[r]) \/ \A o \in Requests : o # r => req[o].pc # "fill",
         Visit(r, q), UNCHANGED <<exists, session, blurred>>
  PROVE  Inv'
<1> USE DEF Good
<1>1. /\ exists \subseteq Stores /\ blurred \in BOOLEAN
      /\ Known(session, q) /\ Choice(session, q) /\ Answer(session, exists, q)
      /\ AtHome(q) /\ Whole(session, q)
  BY ReqFacts
<1>2. ASSUME NEW d \in Request, d.pc \in {"page", "shown", "broken"}, ~d.wrote, d.sound = q.sound,
             d.live = q.live, Whole(session, d), Put(r, d)
      PROVE  Inv'
  <2>1. Fits(d)
    BY <1>2 DEF Fits
  <2>2. Good(session, exists, d)
    BY <1>2, <1>1 DEF Known, Choice, Answer, AtHome
  <2>3. Watched(d) => Watched(q)
    BY <1>2 DEF Watched
  <2>4. d.pc # "deleted" /\ d.pc # "fill"
    BY <1>2
  <2>5. QED
    BY <1>1, <1>2, <2>1, <2>2, <2>3, <2>4, OneSlot
<1>3. /\ q.todo \in SUBSET Stores /\ q.left \in Nat /\ q.drift \in Int /\ q.shown \in SUBSET Stores
      /\ q.drift = 0 /\ q.sound => q.left = Cardinality(q.todo) /\ q.shown \cup q.todo = q.start
      /\ q.sound => q.drift <= 0
  BY <1>1 DEF Request, Whole
<1>4. CASE q.drift # 0 \/ (q.todo # {} /\ q.left = 0)
  <2> DEFINE d == [q EXCEPT !.pc = "broken"]
  <2>1. Put(r, d)
    BY <1>4 DEF Visit
  <2>2. /\ d \in Request /\ d.pc = "broken" /\ d.wrote = q.wrote /\ d.sound = q.sound
        /\ d.live = q.live /\ d.drift = q.drift /\ d.shown = q.shown /\ d.todo = q.todo
        /\ d.left = q.left /\ d.start = q.start
    BY DEF Request, Labels
  <2> HIDE DEF d
  <2>3. q.sound => q.drift < 0
    <3>1. q.sound /\ q.drift = 0 => FALSE
      <4>1. q.left = 0 /\ q.todo # {} /\ q.sound /\ q.drift = 0 => FALSE
        BY <1>3, Sizes
      <4>2. QED
        BY <4>1, <1>4
    <3>2. QED
      BY <3>1, <1>3
  <2>4. Whole(session, d)
    BY <2>2, <2>3, <1>3 DEF Whole
  <2>5. QED
    BY <2>1, <2>2, <2>4, <1>2
<1>5. CASE q.drift = 0 /\ q.todo = {}
  <2> DEFINE d == [q EXCEPT !.pc = "shown"]
  <2>1. Put(r, d)
    BY <1>5 DEF Visit
  <2>2. /\ d \in Request /\ d.pc = "shown" /\ d.wrote = q.wrote /\ d.sound = q.sound
        /\ d.live = q.live /\ d.drift = q.drift /\ d.shown = q.shown /\ d.todo = q.todo
        /\ d.left = q.left /\ d.start = q.start
    BY DEF Request, Labels
  <2> HIDE DEF d
  <2>3. Whole(session, d)
    BY <2>2, <1>3, <1>5 DEF Whole
  <2>4. QED
    BY <2>1, <2>2, <2>3, <1>2
<1>6. CASE q.drift = 0 /\ q.todo # {} /\ q.left # 0
  <2>1. PICK x \in q.todo : Put(r, [q EXCEPT !.shown = @ \cup {x}, !.todo = @ \ {x}, !.left = @ - 1])
    BY <1>6 DEF Visit
  <2> DEFINE d == [q EXCEPT !.shown = @ \cup {x}, !.todo = @ \ {x}, !.left = @ - 1]
  <2>2. q.left - 1 \in Nat /\ q.shown \cup {x} \in SUBSET Stores /\ q.todo \ {x} \in SUBSET Stores
    BY <1>3, <1>6
  <2>3. /\ d \in Request /\ d.pc = "page" /\ d.wrote = q.wrote /\ d.sound = q.sound
        /\ d.live = q.live /\ d.drift = q.drift /\ d.shown = q.shown \cup {x}
        /\ d.todo = q.todo \ {x} /\ d.left = q.left - 1 /\ d.start = q.start
    BY <2>2 DEF Request
  <2> HIDE DEF d
  <2>4. Cardinality(q.todo \ {x}) = Cardinality(q.todo) - 1
    BY Sizes, <1>3
  <2>5. (q.shown \cup {x}) \cup (q.todo \ {x}) = q.shown \cup q.todo
    OBVIOUS
  <2>6. Whole(session, d)
    <3>1. ASSUME d.sound
          PROVE  /\ d.shown \cup d.todo = d.start /\ d.left = Cardinality(d.todo)
                 /\ d.live => session.listed \subseteq d.start
                              /\ d.drift = Cardinality(session.listed) - Cardinality(d.start)
      <4>1. d.shown \cup d.todo = d.start
        BY <3>1, <2>3, <2>5, <1>3, <1>6
      <4>2. d.left = Cardinality(d.todo)
        BY <3>1, <2>3, <2>4, <1>3, <1>6
      <4>3. q.live => session.listed \subseteq q.start
                      /\ q.drift = Cardinality(session.listed) - Cardinality(q.start)
        BY <3>1, <2>3, <1>1 DEF Whole
      <4>4. QED
        BY <4>1, <4>2, <4>3, <2>3
    <3>2. QED
      BY <3>1, <2>3, <1>6 DEF Whole
  <2>7. QED
    BY <2>1, <2>3, <2>6, <1>2 DEF d
<1>7. QED
  BY <1>4, <1>5, <1>6

\* A page begins.
LEMMA PageBegins ==
  ASSUME Inv, NEW r \in Requests, req[r].pc # "deleted", ~req[r].wrote,
         Visit(r, Page), UNCHANGED <<exists, session, blurred>>
  PROVE  Inv'
<1>1. session.listed \subseteq Stores /\ blurred \in BOOLEAN
  BY ReqFacts
<1>2. Cardinality(session.listed) \in Nat
  BY <1>1, Sizes
<1>3. PICK b \in BOOLEAN : b = (~blurred /\ Settled)
  BY <1>1 DEF Settled
<1> DEFINE q == [NoRequest EXCEPT !.pc = "page", !.todo = session.listed, !.live = TRUE,
                   !.left = Cardinality(session.listed), !.sound = b, !.start = session.listed]
<1>4. Page = q
  BY <1>3 DEF Page
<1>5. /\ q \in Request /\ q.pc = "page" /\ q.todo = session.listed /\ q.live
      /\ q.left = Cardinality(session.listed) /\ q.sound = b /\ q.start = session.listed
      /\ q.drift = 0 /\ q.shown = {} /\ ~q.wrote
  <2> DEFINE n == Cardinality(session.listed)
  <2>1. n \in Nat
    BY <1>2
  <2> HIDE DEF n
  <2>2. q = [NoRequest EXCEPT !.pc = "page", !.todo = session.listed, !.live = TRUE,
               !.left = n, !.sound = b, !.start = session.listed]
    BY DEF n
  <2> HIDE DEF q
  <2>3. q \in Request
    BY <2>1, <2>2, <1>1, NoRequestGood DEF Request, Labels
  <2>4. /\ q.pc = "page" /\ q.todo = session.listed /\ q.live = TRUE
        /\ q.left = n /\ q.sound = b /\ q.start = session.listed
        /\ q.drift = 0 /\ q.shown = {} /\ q.wrote = FALSE
    BY <2>2 DEF NoRequest
  <2>5. QED
    BY <2>3, <2>4 DEF n
<1> HIDE DEF q
<1>6. Fits(q)
  BY <1>5 DEF Fits
<1>7. Whole(session, q)
  BY <1>5, <1>2 DEF Whole
<1>8. Good(session, exists, q)
  BY <1>5, <1>7 DEF Good, Known, Choice, Answer, AtHome
<1>9. Watched(q) => \A o \in Requests : req[o].pc # "fill"
  <2> SUFFICES ASSUME b, NEW o \in Requests, req[o].pc = "fill"
               PROVE  FALSE
    BY <1>5 DEF Watched
  <2>1. ~req[o].wrote
    BY <1>3 DEF Settled
  <2>2. req[o].wrote
    BY ReqFacts DEF Good, Known
  <2>3. QED
    BY <2>1, <2>2
<1>10. QED
  BY <1>4, <1>5, <1>6, <1>8, <1>9, Visited

-----------------------------------------------------------------------------
(* One action at a time *)

LEMMA LoadFilespacesInv ==
  ASSUME Inv, NEW r \in Requests, NEW a \in Accounts, LoadFilespaces(r, a)
  PROVE  Inv'
<1> DEFINE q == [NoRequest EXCEPT !.pc = "list", !.account = a]
<1>1. q \in Request
  BY NoRequestGood DEF Request, Labels
<1>2. q.pc = "list" /\ q.account = a /\ q.wrote = FALSE /\ q.new = FALSE
  BY DEF NoRequest
<1>3. /\ req[r].pc = "idle" /\ Put(r, q) /\ UNCHANGED <<exists, session, blurred>>
  BY DEF LoadFilespaces
<1> HIDE DEF q
<1>4. Fits(q) /\ Good(session, exists, q) /\ ~Watched(q)
  BY <1>2 DEF Fits, Good, Known, Choice, Answer, AtHome, Whole, Watched
<1>5. ~req[r].wrote /\ exists \subseteq Stores /\ blurred \in BOOLEAN
  BY <1>3, ReqFacts DEF Good, Known
<1>6. QED
  BY <1>1, <1>2, <1>3, <1>4, <1>5, OneSlot

LEMMA SavedInv ==
  ASSUME Inv, NEW r \in Requests, Saved(r)
  PROVE  Inv'
<1>1. /\ req[r] \in Request /\ Known(session, req[r]) /\ Fits(req[r])
      /\ exists \subseteq Stores /\ blurred \in BOOLEAN
      /\ session.spaces \subseteq Filespaces /\ Chosen(session) \subseteq session.spaces
      /\ AtHome(req[r])
  BY ReqFacts DEF Good
<1>2. req[r].pc = "save" /\ UNCHANGED <<exists, session>>
  BY DEF Saved
<1>3. CASE session.spaces = {} /\ Put(r, NoRequest) /\ blurred' = (blurred \/ req[r].overtaken)
  <2>1. NoRequest.pc = "idle" /\ NoRequest.wrote = FALSE /\ ~Watched(NoRequest)
    BY DEF NoRequest, Watched
  <2>2. req[r].overtaken \in BOOLEAN
    BY <1>1 DEF Request
  <2>3. blurred' \in BOOLEAN
    BY <2>2, <1>1, <1>3
  <2>4. Chosen(session) = {}
    BY <1>1, <1>3
  <2>5. QED
    BY <1>1, <1>2, <1>3, <2>1, <2>3, <2>4, NoRequestGood, OneSlot
<1>4. CASE UNCHANGED blurred /\ \E f \in session.spaces : Put(r, [req[r] EXCEPT !.pc = "stores", !.space = f])
  <2>1. PICK f \in session.spaces : Put(r, [req[r] EXCEPT !.pc = "stores", !.space = f])
    BY <1>4
  <2> DEFINE q == [req[r] EXCEPT !.pc = "stores", !.space = f]
  <2>2. /\ q \in Request /\ q.pc = "stores" /\ q.space = f /\ q.account = req[r].account
        /\ q.new = req[r].new /\ q.store = req[r].store /\ q.wrote = req[r].wrote
        /\ q.overtaken = req[r].overtaken
    BY <1>1 DEF Request, Labels
  <2>3. Put(r, q)
    BY <2>1
  <2> HIDE DEF q
  <2>4. ~req[r].new /\ req[r].account \in Accounts
    BY <1>1, <1>2 DEF Known
  <2>5. Fits(q) /\ Good(session, exists, q) /\ ~Watched(q)
    BY <2>2, <2>4, <1>1 DEF Fits, Good, Known, Choice, Answer, AtHome, Whole, Watched
  <2>6. blurred' = blurred
    BY <1>4
  <2>7. QED
    BY <1>1, <1>2, <2>2, <2>3, <2>5, <2>6, OneSlot
<1>5. QED
  BY <1>2, <1>3, <1>4 DEF Saved

LEMMA LoadDatastoresInv ==
  ASSUME Inv, NEW r \in Requests, NEW name, LoadDatastores(r, name)
  PROVE  Inv'
<1>1. /\ session.spaces \subseteq Filespaces
      /\ session.spaces # {} => session.account \in Accounts
      /\ exists \subseteq Stores /\ blurred \in BOOLEAN /\ Known(session, req[r])
  BY ReqFacts DEF Good
<1>2. PICK f \in Resolve(name) :
        Put(r, [NoRequest EXCEPT !.pc = "stores", !.account = session.account, !.space = f])
  BY DEF LoadDatastores
<1>3. f \in session.spaces /\ f \in Filespaces /\ session.account \in Accounts
  BY <1>1, <1>2 DEF Resolve
<1> DEFINE q == [NoRequest EXCEPT !.pc = "stores", !.account = session.account, !.space = f]
<1>4. q \in Request
  BY <1>3, NoRequestGood DEF Request, Labels
<1>5. /\ q.pc = "stores" /\ q.account = session.account /\ q.space = f /\ q.wrote = FALSE
      /\ q.new = FALSE
  BY DEF NoRequest
<1>6. req[r].pc = "idle" /\ UNCHANGED <<exists, session, blurred>> /\ Put(r, q)
  BY <1>2 DEF LoadDatastores
<1> HIDE DEF q
<1>7. Fits(q) /\ Good(session, exists, q) /\ ~Watched(q)
  BY <1>3, <1>5 DEF Fits, Good, Known, Choice, Answer, AtHome, Whole, Watched
<1>8. ~req[r].wrote
  BY <1>1, <1>6 DEF Known
<1>9. QED
  BY <1>1, <1>4, <1>5, <1>6, <1>7, <1>8, OneSlot

LEMMA StoresListedInv ==
  ASSUME Inv, NEW r \in Requests, StoresListed(r)
  PROVE  Inv'
<1>1. /\ req[r] \in Request /\ Known(session, req[r]) /\ Fits(req[r]) /\ Choice(session, req[r])
      /\ AtHome(req[r]) /\ exists \subseteq Stores /\ blurred \in BOOLEAN
      /\ \A f \in Filespaces : Listing(f) = At(exists, f)
  BY ReqFacts DEF Good
<1>2. req[r].pc = "stores" /\ UNCHANGED <<exists, session, blurred>>
  BY DEF StoresListed
<1>3. req[r].space \in Filespaces
  BY <1>1, <1>2 DEF Fits
<1>4. PICK answer \in {{}} \cup {Listing(f) : f \in Sees[req[r].account] \cap {req[r].space}} :
        Put(r, [req[r] EXCEPT !.pc = "answered", !.todo = answer, !.account = None,
                  !.store = IF Namesakes(answer, @) = {} THEN None
                            ELSE CHOOSE s \in Namesakes(answer, @) : TRUE])
  BY DEF StoresListed
<1>5. answer \subseteq At(exists, req[r].space)
  BY <1>1, <1>3, <1>4
<1>6. answer \in SUBSET Stores
  BY <1>1, <1>5 DEF At
<1> DEFINE store == IF Namesakes(answer, req[r].store) = {} THEN None
                    ELSE CHOOSE s \in Namesakes(answer, req[r].store) : TRUE
           q == [req[r] EXCEPT !.pc = "answered", !.todo = answer, !.account = None,
                               !.store = store]
<1>7. store = None \/ store \in answer
  BY DEF Namesakes
<1> HIDE DEF store
<1>8. store \in Stores \cup {None} /\ (store # None => Home[store] = req[r].space)
  BY <1>5, <1>6, <1>7 DEF At
<1>9. q \in Request
  BY <1>1, <1>6, <1>8 DEF Request, Labels
<1>10. /\ q.pc = "answered" /\ q.todo = answer /\ q.store = store /\ q.space = req[r].space
       /\ q.wrote = req[r].wrote /\ q.new = req[r].new /\ q.overtaken = req[r].overtaken
  BY <1>1 DEF Request
<1>11. Put(r, q)
  BY <1>4 DEF store
<1> HIDE DEF q
<1>12. Fits(q) /\ Good(session, exists, q) /\ ~Watched(q)
  BY <1>1, <1>2, <1>3, <1>5, <1>8, <1>10
  DEF Fits, Good, Known, Choice, Answer, AtHome, Whole, Watched
<1>13. QED
  BY <1>1, <1>2, <1>9, <1>10, <1>11, <1>12, OneSlot

LEMMA BreakInv ==
  ASSUME Inv, NEW r \in Requests, Break(r)
  PROVE  Inv'
BY Ends, ReqFacts DEF Break

LEMMA CreateDatastoreInv ==
  ASSUME Inv, NEW r \in Requests, CreateDatastore(r)
  PROVE  Inv'
<1> DEFINE q == [NoRequest EXCEPT !.pc = "head", !.new = TRUE]
<1>1. q \in Request
  BY NoRequestGood DEF Request, Labels
<1>2. q.pc = "head" /\ q.wrote = FALSE /\ q.new = TRUE
  BY DEF NoRequest
<1>3. req[r].pc = "idle" /\ Put(r, q) /\ UNCHANGED <<exists, session, blurred>>
  BY DEF CreateDatastore
<1> HIDE DEF q
<1>4. Fits(q) /\ Good(session, exists, q) /\ ~Watched(q)
  BY <1>2 DEF Fits, Good, Known, Choice, Answer, AtHome, Whole, Watched
<1>5. ~req[r].wrote /\ exists \subseteq Stores /\ blurred \in BOOLEAN
  BY <1>3, ReqFacts DEF Good, Known
<1>6. QED
  BY <1>1, <1>2, <1>3, <1>4, <1>5, OneSlot

LEMMA HeadedInv ==
  ASSUME Inv, NEW r \in Requests, Headed(r)
  PROVE  Inv'
<1>1. /\ session.spaces \subseteq Filespaces
      /\ session.spaces # {} => session.account \in Accounts
      /\ exists \subseteq Stores /\ blurred \in BOOLEAN /\ Known(session, req[r])
      /\ req[r] \in Request /\ Selected = Chosen(session)
  BY ReqFacts DEF Good
<1>2. req[r].pc = "head" /\ UNCHANGED <<exists, session, blurred>>
  BY DEF Headed
<1>3. PICK f \in Selected :
        Put(r, [req[r] EXCEPT !.pc = "create", !.space = f, !.account = session.account])
  BY DEF Headed
<1>4. /\ f \in session.spaces /\ f \in Filespaces /\ NameOf[f] = session.selected
      /\ session.account \in Accounts
  BY <1>1, <1>3 DEF Chosen
<1> DEFINE q == [req[r] EXCEPT !.pc = "create", !.space = f, !.account = session.account]
<1>5. /\ q \in Request /\ q.pc = "create" /\ q.space = f /\ q.account = session.account
      /\ q.wrote = req[r].wrote /\ q.new = req[r].new
  BY <1>1, <1>4 DEF Request, Labels
<1>6. Put(r, q)
  BY <1>3
<1> HIDE DEF q
<1>7. ~req[r].wrote /\ session.account # None
  BY <1>1, <1>2, <1>4, FilespaceListsAssumption DEF Known
<1>8. Fits(q) /\ Good(session, exists, q) /\ ~Watched(q)
  BY <1>1, <1>2, <1>4, <1>5, <1>7 DEF Fits, Good, Known, Choice, Answer, AtHome, Whole, Watched
<1>9. QED
  BY <1>1, <1>2, <1>5, <1>6, <1>7, <1>8, OneSlot

LEMMA CreateInv ==
  ASSUME Inv, NEW r \in Requests, Create(r)
  PROVE  Inv'
<1>1. /\ req[r] \in Request /\ Known(session, req[r]) /\ Choice(session, req[r])
      /\ Fits(req[r]) /\ exists \subseteq Stores /\ blurred \in BOOLEAN
  BY ReqFacts DEF Good
<1>2. req[r].pc = "create" /\ UNCHANGED <<session, blurred>>
  BY DEF Create
<1>3. PICK s \in Stores \ exists :
        /\ Home[s] = req[r].space
        /\ exists' = exists \cup {s}
        /\ \/ Put(r, [req[r] EXCEPT !.pc = "created", !.store = s, !.account = None])
           \/ Put(r, NoRequest)
  BY DEF Create
<1>4. exists \subseteq exists' /\ exists' \subseteq Stores
  BY <1>1, <1>3
<1>5. ~req[r].wrote
  BY <1>1, <1>2 DEF Known
<1>6. CASE Put(r, NoRequest)
  BY <1>2, <1>4, <1>5, <1>6, Ends
<1>7. CASE Put(r, [req[r] EXCEPT !.pc = "created", !.store = s, !.account = None])
  <2> DEFINE q == [req[r] EXCEPT !.pc = "created", !.store = s, !.account = None]
  <2>1. /\ q \in Request /\ q.pc = "created" /\ q.space = req[r].space /\ q.store = s
        /\ q.wrote = req[r].wrote /\ q.overtaken = req[r].overtaken /\ q.new = req[r].new
    BY <1>1 DEF Request, Labels
  <2>2. Put(r, q)
    BY <1>7
  <2> HIDE DEF q
  <2>3. Fits(q) /\ Good(session, exists', q) /\ ~Watched(q)
    BY <1>1, <1>2, <1>3, <1>5, <2>1
    DEF Fits, Good, Known, Choice, Answer, AtHome, Whole, Watched
  <2>4. QED
    BY <1>1, <1>2, <1>4, <1>5, <2>1, <2>2, <2>3, OneSlot
<1>8. QED
  BY <1>3, <1>6, <1>7

LEMMA ReloadInv ==
  ASSUME Inv, NEW r \in Requests, Reload(r)
  PROVE  Inv'
<1>1. /\ req[r] \in Request /\ Known(session, req[r]) /\ Choice(session, req[r])
      /\ Fits(req[r]) /\ exists \subseteq Stores /\ blurred \in BOOLEAN
      /\ AtHome(req[r])
      /\ session.account # None => session.account \in Accounts
  BY ReqFacts DEF Good
<1>2. /\ req[r].pc = "created" /\ UNCHANGED <<exists, session, blurred>>
      /\ Put(r, [req[r] EXCEPT !.pc = "stores", !.account = session.account])
  BY DEF Reload
<1>3. session.account \in Accounts /\ ~req[r].wrote
  BY <1>1, <1>2 DEF Known
<1> DEFINE q == [req[r] EXCEPT !.pc = "stores", !.account = session.account]
<1>4. /\ q \in Request /\ q.pc = "stores" /\ q.space = req[r].space /\ q.store = req[r].store
      /\ q.wrote = req[r].wrote /\ q.overtaken = req[r].overtaken /\ q.new = req[r].new
      /\ q.account = session.account
  BY <1>1, <1>3 DEF Request, Labels
<1>5. Put(r, q)
  BY <1>2
<1> HIDE DEF q
<1>6. req[r].new
  BY <1>1, <1>2 DEF Known
<1>7. Fits(q) /\ Good(session, exists, q) /\ ~Watched(q)
  BY <1>1, <1>2, <1>3, <1>4, <1>6
  DEF Fits, Good, Known, Choice, Answer, AtHome, Whole, Watched
<1>8. QED
  BY <1>1, <1>2, <1>3, <1>4, <1>5, <1>7, OneSlot

\* The request ends, with the lists as it found them.
LEMMA EndInv ==
  ASSUME Inv, NEW r \in Requests, Reply(r) \/ Save(r) \/ Refuse(r)
  PROVE  Inv'
<1>1. /\ req[r].pc \in {"record", "noted", "shown", "broken", "form", "list", "head", "create",
                      "unsave", "page"}
      /\ Put(r, NoRequest) /\ UNCHANGED <<exists, session, blurred>>
  BY DEF Reply, Save, Refuse
<1>2. ~req[r].wrote /\ exists \subseteq Stores
  BY <1>1, ReqFacts DEF Good, Known
<1>3. QED
  BY <1>1, <1>2, Ends

\* create_datastore takes the name that is selected by now.
LEMMA NamingTypes ==
  ASSUME NEW q \in Request, session \in Session, NEW label \in Labels
  PROVE  /\ Naming(q, label) \in Request /\ Naming(q, label).pc = label
         /\ Naming(q, label).wrote = FALSE /\ Naming(q, label).name = session.selected
         /\ Naming(q, label).space = q.space /\ Naming(q, label).store = q.store
         /\ Naming(q, label).new = q.new /\ Naming(q, label).overtaken = q.overtaken
BY DEF Naming, Request, Session

LEMMA RecordInv ==
  ASSUME Inv, NEW r \in Requests, Record(r)
  PROVE  Inv'
<1> DEFINE q == Naming(req[r], "noted")
<1>1. /\ req[r].pc = "record" /\ Put(r, q) /\ UNCHANGED <<exists, session, blurred>>
  BY DEF Record
<1>2. /\ req[r] \in Request /\ Fits(req[r]) /\ Known(session, req[r])
      /\ Choice(session, req[r]) /\ AtHome(req[r])
      /\ session \in Session /\ exists \subseteq Stores /\ blurred \in BOOLEAN
  BY ReqFacts DEF Good, Inv, TypeOK
<1>3. /\ q \in Request /\ q.pc = "noted" /\ q.wrote = FALSE /\ q.name = session.selected
      /\ q.space = req[r].space /\ q.store = req[r].store /\ q.new = req[r].new
      /\ q.overtaken = req[r].overtaken
  BY <1>2, NamingTypes DEF Labels
<1> HIDE DEF q
<1>4. ~req[r].wrote /\ req[r].new
  BY <1>1, <1>2 DEF Known
<1>5. Fits(q)
  BY <1>1, <1>2, <1>3 DEF Fits
<1>6. Known(session, q) /\ Choice(session, q) /\ Answer(session, exists, q) /\ Whole(session, q)
  BY <1>3, <1>4 DEF Known, Choice, Answer, Whole
<1>7. AtHome(q)
  BY <1>1, <1>2, <1>3, <1>4 DEF AtHome, Choice
<1>8. Good(session, exists, q) /\ ~Watched(q)
  BY <1>3, <1>6, <1>7 DEF Good, Watched
<1>9. QED
  BY <1>1, <1>2, <1>3, <1>4, <1>5, <1>8, OneSlot

LEMMA PageInv ==
  ASSUME Inv, NEW r \in Requests, OpenPage(r) \/ Unsave(r) \/ NotDeleted(r)
  PROVE  Inv'
<1>1. /\ req[r].pc \in {"idle", "unsave", "delete"}
      /\ Visit(r, Page) /\ UNCHANGED <<exists, session, blurred>>
  BY DEF OpenPage, Unsave, NotDeleted
<1>2. ~req[r].wrote
  BY <1>1, ReqFacts DEF Good, Known
<1>3. QED
  BY <1>1, <1>2, PageBegins

LEMMA ShowInv ==
  ASSUME Inv, NEW r \in Requests, Show(r)
  PROVE  Inv'
<1>1. /\ req[r].pc = "page" /\ Visit(r, req[r]) /\ UNCHANGED <<exists, session, blurred>>
  BY DEF Show
<1>2. req[r] \in Request /\ Fits(req[r]) /\ Good(session, exists, req[r])
  BY ReqFacts
<1>3. ~req[r].wrote
  BY <1>1, <1>2 DEF Good, Known
<1>4. QED
  BY <1>1, <1>2, <1>3, Visited

LEMMA DeleteDatastoreInv ==
  ASSUME Inv, NEW r \in Requests, NEW s \in Stores, DeleteDatastore(r, s)
  PROVE  Inv'
<1>1. /\ session.spaces \subseteq Filespaces
      /\ session.spaces # {} => session.account \in Accounts
      /\ exists \subseteq Stores /\ blurred \in BOOLEAN /\ Known(session, req[r])
      /\ Selected = Chosen(session)
  BY ReqFacts DEF Good
<1>2. PICK f \in Selected :
        Put(r, [NoRequest EXCEPT !.pc = "delete", !.account = session.account,
                                 !.space = f, !.store = s])
  BY DEF DeleteDatastore
<1>3. f \in session.spaces /\ f \in Filespaces /\ session.account \in Accounts
  BY <1>1, <1>2 DEF Chosen
<1> DEFINE q == [NoRequest EXCEPT !.pc = "delete", !.account = session.account,
                                  !.space = f, !.store = s]
<1>4. q \in Request
  BY <1>3, NoRequestGood DEF Request, Labels
<1>5. /\ q.pc = "delete" /\ q.account = session.account /\ q.space = f /\ q.store = s
      /\ q.wrote = FALSE
  BY DEF NoRequest
<1>6. req[r].pc = "idle" /\ UNCHANGED <<exists, session, blurred>> /\ Put(r, q)
  BY <1>2 DEF DeleteDatastore
<1> HIDE DEF q
<1>7. Fits(q) /\ Good(session, exists, q) /\ ~Watched(q)
  BY <1>3, <1>5 DEF Fits, Good, Known, Choice, Answer, AtHome, Whole, Watched
<1>8. ~req[r].wrote
  BY <1>1, <1>6 DEF Known
<1>9. QED
  BY <1>1, <1>4, <1>5, <1>6, <1>7, <1>8, OneSlot

LEMMA AskInv ==
  ASSUME Inv, NEW r \in Requests, NEW s \in Stores, Ask(r, s)
  PROVE  Inv'
<1>1. /\ session.spaces \subseteq Filespaces /\ exists \subseteq Stores /\ blurred \in BOOLEAN
      /\ Known(session, req[r]) /\ Selected = Chosen(session)
  BY ReqFacts DEF Good
<1>2. PICK f \in Selected :
        Put(r, [NoRequest EXCEPT !.pc = "form", !.space = f, !.name = session.selected,
                                 !.store = s, !.sound = ~blurred /\ Settled])
  BY DEF Ask
<1>3. /\ req[r].pc = "idle" /\ s \in session.listed /\ UNCHANGED <<exists, session, blurred>>
  BY DEF Ask
<1>4. f \in Chosen(session) /\ f \in Filespaces /\ NameOf[f] = session.selected
  BY <1>1, <1>2 DEF Chosen
<1>5. PICK b \in BOOLEAN : b = (~blurred /\ Settled)
  BY <1>1 DEF Settled
<1> DEFINE q == [NoRequest EXCEPT !.pc = "form", !.space = f, !.name = session.selected,
                                  !.store = s, !.sound = b]
<1>6. q \in Request
  BY <1>4, NoRequestGood DEF Request, Labels
<1>7. /\ q.pc = "form" /\ q.space = f /\ q.store = s /\ q.wrote = FALSE /\ q.sound = b
      /\ q.name = session.selected
  BY DEF NoRequest
<1>8. Put(r, q)
  BY <1>2, <1>5
<1> HIDE DEF q
<1>9. b => Home[s] = f
  <2> SUFFICES ASSUME b PROVE Home[s] = f
    OBVIOUS
  <2>1. ~blurred /\ ~Writer(req) /\ Gone(req) = {}
    BY <1>5 DEF Settled, Writer, Gone
  <2>2. session.listed \subseteq At(exists, f) \cup Gone(req)
    BY <2>1, <1>4 DEF Inv, Follows
  <2>3. QED
    BY <2>1, <2>2, <1>3 DEF At
<1>10. Fits(q) /\ Good(session, exists, q) /\ ~Watched(q)
  BY <1>4, <1>7, <1>9 DEF Fits, Good, Known, Choice, Answer, AtHome, Whole, Watched
<1>11. ~req[r].wrote
  BY <1>1, <1>3 DEF Known
<1>12. QED
  BY <1>1, <1>3, <1>6, <1>7, <1>8, <1>10, <1>11, OneSlot

LEMMA FilespacesListedInv ==
  ASSUME Inv, NEW r \in Requests, FilespacesListed(r)
  PROVE  Inv'
<1>1. /\ req[r] \in Request /\ Fits(req[r]) /\ Known(session, req[r])
      /\ session \in Session /\ exists \in SUBSET Stores /\ blurred \in BOOLEAN
      /\ Named(session.listed)
  BY ReqFacts DEF Good, Inv
<1>2. /\ req[r].pc = "list" /\ UNCHANGED <<exists, blurred>>
      /\ Change(r, [req[r] EXCEPT !.pc = "save", !.wrote = TRUE],
                [session EXCEPT !.spaces = Sees[req[r].account], !.account = req[r].account],
                FALSE)
  BY DEF FilespacesListed
<1>3. req[r].account \in Accounts
  BY <1>1, <1>2 DEF Fits
<1> DEFINE q == [req[r] EXCEPT !.pc = "save", !.wrote = TRUE]
           s == [session EXCEPT !.spaces = Sees[req[r].account], !.account = req[r].account]
<1>4. /\ q \in Request /\ q.pc = "save" /\ q.wrote = TRUE /\ q.account = req[r].account
      /\ q.new = req[r].new
  BY <1>1 DEF Request, Labels
<1>5. /\ s \in Session /\ s.listed = session.listed /\ s.account = req[r].account
      /\ s.spaces = Sees[req[r].account]
  BY <1>1, <1>3, FilespaceListsAssumption DEF Session
<1>6. session' = s /\ Overtake(r, q, s.listed, FALSE)
  BY <1>2 DEF Change
<1> HIDE DEF q, s
<1>7. s.account # None /\ Distinct(s.spaces)
  BY <1>3, <1>5, FilespaceListsAssumption DEF Distinct
<1>8. Fits(q) /\ Good(s, exists, q) /\ ~Watched(q)
  BY <1>1, <1>2, <1>3, <1>4
  DEF Fits, Good, Known, Choice, Answer, AtHome, Whole, Watched
<1>9. req'[r] = q
  BY <1>5, <1>6, OvertookKeeps
<1>10. Follows(s, exists, req', blurred')
  BY <1>4, <1>9 DEF Follows, Writer
<1>11. QED
  BY <1>1, <1>2, <1>4, <1>5, <1>6, <1>7, <1>8, <1>10, Overtook

\* The list is complete: an empty answer, or the last of one.
LEMMA FinishInv ==
  ASSUME Inv, NEW r \in Requests, NEW listed, NEW fresh \in BOOLEAN,
         req[r].pc \in {"answered", "fill"}, req[r].todo = {},
         (fresh /\ listed = {}) \/ (req[r].pc = "fill" /\ ~fresh /\ listed = session.listed),
         Finish(r, listed, fresh), UNCHANGED exists
  PROVE  Inv'
<1>1. /\ req[r] \in Request /\ Fits(req[r]) /\ Known(session, req[r])
      /\ Choice(session, req[r]) /\ Answer(session, exists, req[r]) /\ AtHome(req[r])
      /\ session \in Session /\ exists \in SUBSET Stores /\ blurred \in BOOLEAN
      /\ Named(session.listed) /\ Distinct(session.spaces)
      /\ session.spaces # {} => session.account # None
  BY ReqFacts DEF Good, Inv, TypeOK
<1>2. req[r].space \in Filespaces
  BY <1>1 DEF Fits
<1>3. Named(listed) /\ listed \in SUBSET Stores /\ listed \subseteq session.listed
  BY <1>1 DEF Named, Session
<1>4. ~req[r].overtaken => listed \subseteq At(exists, req[r].space)
  BY <1>1 DEF Answer
<1>5. blurred' = req[r].overtaken /\ blurred' \in BOOLEAN
  BY <1>1 DEF Finish, Request
<1>6. CASE req[r].new
  <2> DEFINE q == Naming(req[r], IF req[r].store = None THEN "noted" ELSE "record")
             s == [session EXCEPT !.listed = listed]
  <2>1. session' = s /\ Overtake(r, q, s.listed, fresh)
    BY <1>6 DEF Finish, Change
  <2>2. /\ s \in Session /\ s.listed = listed /\ s.spaces = session.spaces
        /\ s.account = session.account /\ s.selected = session.selected
    BY <1>1, <1>3 DEF Session
  <2> HIDE DEF s
  <2>3. q \in Request /\ Fits(q) /\ Good(s, exists, q) /\ ~Watched(q) /\ q.pc # "fill"
    <3>1. /\ q \in Request /\ q.pc = (IF req[r].store = None THEN "noted" ELSE "record")
          /\ q.wrote = FALSE /\ q.name = session.selected /\ q.space = req[r].space
          /\ q.store = req[r].store /\ q.new = TRUE /\ q.overtaken = req[r].overtaken
      <4>1. (IF req[r].store = None THEN "noted" ELSE "record") \in Labels
        BY DEF Labels
      <4>2. QED
        BY <1>1, <1>6, <4>1, NamingTypes
    <3> HIDE DEF q
    <3>2. Fits(q)
      BY <1>1, <1>2, <3>1 DEF Fits, Request
    <3>3. Known(s, q) /\ Choice(s, q) /\ Answer(s, exists, q) /\ Whole(s, q)
      BY <1>1, <1>6, <2>2, <3>1 DEF Known, Choice, Answer, Whole
    <3>4. AtHome(q)
      BY <1>1, <1>6, <3>1 DEF AtHome, Choice
    <3>5. QED
      BY <3>1, <3>2, <3>3, <3>4 DEF Good, Watched
  <2> HIDE DEF q
  <2>4. Follows(s, exists, req', blurred')
    <3> SUFFICES ASSUME ~req[r].overtaken PROVE \A f \in Chosen(s) : s.listed \subseteq At(exists, f)
      BY <1>5 DEF Follows
    <3>1. req[r].space \in s.spaces /\ NameOf[req[r].space] = s.selected
      BY <1>1, <1>6, <2>2 DEF Choice
    <3>2. Distinct(s.spaces)
      BY <1>1, <2>2
    <3>3. Chosen(s) = {req[r].space}
      BY <3>1, <3>2, OneChosen
    <3>4. QED
      BY <3>3, <1>4, <2>2
  <2>5. QED
    BY <1>1, <1>3, <1>5, <2>1, <2>2, <2>3, <2>4, Overtook
<1>7. CASE ~req[r].new
  <2> DEFINE s == [session EXCEPT !.listed = listed, !.selected = NameOf[req[r].space]]
  <2>1. session' = s /\ Overtake(r, NoRequest, s.listed, fresh)
    BY <1>7 DEF Finish, Select, Change
  <2>2. /\ s \in Session /\ s.listed = listed /\ s.spaces = session.spaces
        /\ s.account = session.account /\ s.selected = NameOf[req[r].space]
    BY <1>1, <1>2, <1>3 DEF Session
  <2> HIDE DEF s
  <2>3. NoRequest \in Request /\ Fits(NoRequest) /\ Good(s, exists, NoRequest)
    BY NoRequestGood
  <2>4. ~Watched(NoRequest) /\ NoRequest.pc # "fill"
    BY DEF NoRequest, Watched
  <2>5. Follows(s, exists, req', blurred')
    <3> SUFFICES ASSUME ~req[r].overtaken PROVE \A f \in Chosen(s) : s.listed \subseteq At(exists, f)
      BY <1>5 DEF Follows
    <3>1. req[r].space \in s.spaces /\ NameOf[req[r].space] = s.selected
      BY <1>1, <2>2 DEF Choice
    <3>2. Distinct(s.spaces)
      BY <1>1, <2>2
    <3>3. Chosen(s) = {req[r].space}
      BY <3>1, <3>2, OneChosen
    <3>4. QED
      BY <3>3, <1>4, <2>2
  <2>6. QED
    BY <1>1, <1>3, <1>5, <2>1, <2>2, <2>3, <2>4, <2>5, Overtook
<1>8. QED
  BY <1>6, <1>7

\* One more of the answer is listed.
LEMMA InsertInv ==
  ASSUME Inv, NEW r \in Requests, NEW listed, NEW fresh \in BOOLEAN,
         req[r].pc \in {"answered", "fill"},
         (fresh /\ listed = {}) \/ (req[r].pc = "fill" /\ ~fresh /\ listed = session.listed),
         Insert(r, listed, fresh), UNCHANGED exists
  PROVE  Inv'
<1>1. /\ req[r] \in Request /\ Fits(req[r]) /\ Known(session, req[r])
      /\ Choice(session, req[r]) /\ Answer(session, exists, req[r]) /\ AtHome(req[r])
      /\ session \in Session /\ exists \in SUBSET Stores /\ blurred \in BOOLEAN
      /\ Named(session.listed) /\ Distinct(session.spaces)
      /\ session.spaces # {} => session.account # None
  BY ReqFacts DEF Good, Inv, TypeOK
<1>2. PICK x \in req[r].todo :
        Change(r, [req[r] EXCEPT !.pc = "fill", !.wrote = TRUE, !.todo = @ \ {x}],
               [session EXCEPT !.listed = With(listed, x)], fresh)
  BY DEF Insert
<1>3. x \in Stores /\ req[r].todo \in SUBSET Stores
  BY <1>1 DEF Request
<1>4. Named(listed) /\ listed \in SUBSET Stores
  BY <1>1 DEF Named, Session
<1>5. Named(With(listed, x)) /\ With(listed, x) \in SUBSET Stores /\ With(listed, x) \subseteq listed \cup {x}
  BY <1>3, <1>4, StaysNamed DEF With, Without
<1> DEFINE q == [req[r] EXCEPT !.pc = "fill", !.wrote = TRUE, !.todo = @ \ {x}]
           s == [session EXCEPT !.listed = With(listed, x)]
<1>6. /\ q \in Request /\ q.pc = "fill" /\ q.wrote = TRUE /\ q.todo = req[r].todo \ {x}
      /\ q.space = req[r].space /\ q.store = req[r].store /\ q.new = req[r].new
      /\ q.overtaken = req[r].overtaken
  BY <1>1, <1>3 DEF Request, Labels
<1>7. /\ s \in Session /\ s.listed = With(listed, x) /\ s.spaces = session.spaces
      /\ s.account = session.account /\ s.selected = session.selected
  BY <1>1, <1>5 DEF Session
<1>8. session' = s /\ Overtake(r, q, s.listed, fresh)
  BY <1>2 DEF Change
<1> HIDE DEF q, s
<1>9. Answer(s, exists, q)
  <2> SUFFICES ASSUME ~req[r].overtaken PROVE q.todo \cup s.listed \subseteq At(exists, req[r].space)
    BY <1>6 DEF Answer
  <2>1. req[r].todo \cup listed \subseteq At(exists, req[r].space)
    BY <1>1 DEF Answer
  <2>2. QED
    BY <2>1, <1>5, <1>6, <1>7
<1>10. Fits(q) /\ Good(s, exists, q) /\ ~Watched(q)
  BY <1>1, <1>6, <1>7, <1>9
  DEF Fits, Good, Known, Choice, AtHome, Whole, Watched
<1>11. req'[r] = q
  BY <1>7, <1>8, OvertookKeeps
<1>12. Follows(s, exists, req', blurred')
  BY <1>6, <1>11 DEF Follows, Writer
<1>13. blurred' \in BOOLEAN
  BY <1>1 DEF Insert
<1>14. QED
  BY <1>1, <1>5, <1>6, <1>7, <1>8, <1>10, <1>12, <1>13, Overtook

LEMMA BeginInv ==
  ASSUME Inv, NEW r \in Requests, Begin(r) \/ Fill(r)
  PROVE  Inv'
<1>1. UNCHANGED exists
  BY DEF Begin, Fill
<1>2. CASE Begin(r) /\ req[r].todo = {}
  BY <1>1, <1>2, FinishInv DEF Begin
<1>3. CASE Begin(r) /\ req[r].todo # {}
  BY <1>1, <1>3, InsertInv DEF Begin
<1>4. CASE Fill(r) /\ req[r].todo = {}
  BY <1>1, <1>4, FinishInv DEF Fill
<1>5. CASE Fill(r) /\ req[r].todo # {}
  BY <1>1, <1>5, InsertInv DEF Fill
<1>6. QED
  BY <1>2, <1>3, <1>4, <1>5

LEMMA DeleteInv ==
  ASSUME Inv, NEW r \in Requests, Delete(r)
  PROVE  Inv'
<1>1. /\ req[r] \in Request /\ Fits(req[r]) /\ Known(session, req[r])
      /\ session \in Session /\ exists \in SUBSET Stores /\ blurred \in BOOLEAN
      /\ Named(session.listed) /\ Distinct(session.spaces)
      /\ session.spaces # {} => session.account # None
  BY ReqFacts DEF Good, Inv, TypeOK
<1>2. req[r].pc = "delete" /\ exists' = exists \ {req[r].store} /\ session' = session
  BY DEF Delete
<1>3. exists' \in SUBSET Stores /\ ~req[r].wrote
  BY <1>1, <1>2 DEF Known
<1>4. CASE /\ Overtake(r, [req[r] EXCEPT !.pc = "deleted", !.account = None, !.space = None],
                       session.listed, FALSE)
           /\ UNCHANGED blurred
  <2> DEFINE q == [req[r] EXCEPT !.pc = "deleted", !.account = None, !.space = None]
  <2>1. /\ q \in Request /\ q.pc = "deleted" /\ q.store = req[r].store
        /\ q.wrote = req[r].wrote
    BY <1>1 DEF Request, Labels
  <2>2. Overtake(r, q, session.listed, FALSE)
    BY <1>4
  <2> HIDE DEF q
  <2>3. Fits(q) /\ Good(session, exists', q) /\ ~Watched(q)
    BY <1>1, <1>2, <1>3, <2>1
    DEF Fits, Good, Known, Choice, Answer, AtHome, Whole, Watched
  <2>4. /\ req'[r] = q
        /\ \A o \in Requests \ {r} : /\ req'[o].pc = req[o].pc /\ req'[o].wrote = req[o].wrote
                                     /\ req'[o].store = req[o].store
    BY <1>1, <2>2, OvertookKeeps
  <2>5. Gone(req) \cup {req[r].store} \subseteq Gone(req')
    <3> SUFFICES ASSUME NEW x \in Gone(req) \cup {req[r].store} PROVE x \in Gone(req')
      OBVIOUS
    <3>1. CASE x = req[r].store
      BY <3>1, <2>1, <2>4 DEF Gone
    <3>2. CASE x \in Gone(req)
      <4>1. PICK o \in Requests : req[o].pc = "deleted" /\ x = req[o].store
        BY <3>2 DEF Gone
      <4>2. o # r
        BY <4>1, <1>2
      <4>3. req'[o].pc = "deleted" /\ x = req'[o].store
        BY <4>1, <4>2, <2>4
      <4>4. QED
        BY <4>3 DEF Gone
    <3>3. QED
      BY <3>1, <3>2
  <2>6. Writer(req) => Writer(req')
    <3> SUFFICES ASSUME NEW o \in Requests, req[o].wrote PROVE Writer(req')
      BY DEF Writer
    <3>1. req'[o].wrote
      BY <2>1, <2>4, <1>3
    <3>2. QED
      BY <3>1 DEF Writer
  <2>7. Follows(session, exists', req', blurred')
    <3> SUFFICES ASSUME ~blurred, ~Writer(req), NEW f \in Chosen(session)
                 PROVE  session.listed \subseteq At(exists', f) \cup Gone(req')
      BY <2>6, <1>4 DEF Follows
    <3>1. session.listed \subseteq At(exists, f) \cup Gone(req)
      BY DEF Inv, Follows
    <3>2. QED
      BY <3>1, <2>5, <1>2 DEF At
  <2>8. QED
    BY <1>1, <1>2, <1>3, <1>4, <2>1, <2>2, <2>3, <2>7, Overtook
<1>5. CASE Overtake(r, NoRequest, session.listed, FALSE) /\ blurred' = TRUE
  <2>1. NoRequest \in Request /\ Fits(NoRequest) /\ Good(session, exists', NoRequest)
    BY NoRequestGood
  <2>2. ~Watched(NoRequest) /\ NoRequest.pc # "fill"
    BY DEF NoRequest, Watched
  <2>3. Follows(session, exists', req', blurred')
    BY <1>5 DEF Follows
  <2>4. QED
    BY <1>1, <1>2, <1>3, <1>5, <2>1, <2>2, <2>3, Overtook
<1>6. QED
  BY <1>4, <1>5 DEF Delete

LEMMA UnlistInv ==
  ASSUME Inv, NEW r \in Requests, Unlist(r)
  PROVE  Inv'
<1>1. /\ req[r] \in Request /\ Fits(req[r]) /\ Known(session, req[r])
      /\ session \in Session /\ exists \in SUBSET Stores /\ blurred \in BOOLEAN
      /\ Named(session.listed) /\ Distinct(session.spaces)
      /\ session.spaces # {} => session.account # None
  BY ReqFacts DEF Good, Inv, TypeOK
<1> DEFINE listed == Without(session.listed, req[r].store)
           q == [req[r] EXCEPT !.pc = "unsave", !.overtaken = FALSE]
           s == [session EXCEPT !.listed = listed]
<1>2. /\ req[r].pc = "deleted" /\ exists' = exists
      /\ Change(r, q, s, FALSE)
      /\ blurred' = (blurred \/ req[r].overtaken)
  BY DEF Unlist
<1>3. req[r].store \in Stores /\ req[r].overtaken \in BOOLEAN
  BY <1>1, <1>2 DEF Fits, Request
<1>4. /\ listed \in SUBSET Stores /\ listed \subseteq session.listed
      /\ req[r].store \notin listed /\ Named(listed)
  BY <1>1, <1>3, FilespaceListsAssumption, StaysNamed DEF Session, Without, Namesakes
<1>5. /\ q \in Request /\ q.pc = "unsave" /\ q.store = req[r].store /\ q.wrote = req[r].wrote
  BY <1>1 DEF Request, Labels
<1> HIDE DEF listed
<1>6. /\ s \in Session /\ s.listed = listed /\ s.spaces = session.spaces
      /\ s.account = session.account /\ s.selected = session.selected
  BY <1>1, <1>4 DEF Session
<1>7. session' = s /\ Overtake(r, q, s.listed, FALSE)
  BY <1>2 DEF Change
<1> HIDE DEF q, s
<1>8. ~req[r].wrote
  BY <1>1, <1>2 DEF Known
<1>9. Fits(q) /\ Good(s, exists, q) /\ ~Watched(q)
  BY <1>3, <1>5, <1>8 DEF Fits, Good, Known, Choice, Answer, AtHome, Whole, Watched
<1>10. /\ req'[r] = q
       /\ \A o \in Requests \ {r} : /\ req'[o].pc = req[o].pc /\ req'[o].wrote = req[o].wrote
                                    /\ req'[o].store = req[o].store
  BY <1>1, <1>6, <1>7, OvertookKeeps
<1>11. Writer(req) => Writer(req')
  <2> SUFFICES ASSUME NEW o \in Requests, req[o].wrote PROVE Writer(req')
    BY DEF Writer
  <2>1. req'[o].wrote
    BY <1>5, <1>8, <1>10
  <2>2. QED
    BY <2>1 DEF Writer
<1>12. Gone(req) \subseteq Gone(req') \cup {req[r].store}
  <2> SUFFICES ASSUME NEW o \in Requests, req[o].pc = "deleted", o # r
               PROVE  req[o].store \in Gone(req')
    BY DEF Gone
  <2>1. req'[o].pc = "deleted" /\ req'[o].store = req[o].store
    BY <1>10
  <2>2. QED
    BY <2>1 DEF Gone
<1>13. Follows(s, exists, req', blurred')
  <2> SUFFICES ASSUME ~blurred, ~Writer(req), NEW f \in Chosen(s)
               PROVE  s.listed \subseteq At(exists, f) \cup Gone(req')
    BY <1>2, <1>11 DEF Follows
  <2>1. Chosen(s) = Chosen(session)
    BY <1>6 DEF Chosen
  <2>2. session.listed \subseteq At(exists, f) \cup Gone(req)
    BY <2>1 DEF Inv, Follows
  <2>3. QED
    BY <2>2, <1>4, <1>6, <1>12
<1>14. blurred' \in BOOLEAN
  BY <1>1, <1>2, <1>3
<1>15. QED
  BY <1>1, <1>2, <1>4, <1>5, <1>6, <1>7, <1>9, <1>13, <1>14, Overtook

LEMMA HydrateInv ==
  ASSUME Inv, NEW a \in Accounts, Hydrate(a)
  PROVE  Inv'
<1>1. TypeOK /\ session \in Session
  BY DEF Inv, TypeOK
<1> DEFINE s == [session EXCEPT !.account = a]
<1>2. session' = s /\ UNCHANGED <<exists, req, blurred>>
  BY DEF Hydrate
<1>3. /\ s \in Session /\ s.account = a /\ s.spaces = session.spaces
      /\ s.listed = session.listed /\ s.selected = session.selected
  BY <1>1 DEF Session
<1> HIDE DEF s
<1>4. a # None
  BY FilespaceListsAssumption
<1>5. \A r \in Requests : Good(s, exists, req[r])
  BY <1>3, <1>4, GoodElsewhere DEF Inv
<1>6. TypeOK'
  BY <1>1, <1>2, <1>3, <1>4 DEF TypeOK
<1>7. Follows(s, exists, req, blurred)
  BY <1>3 DEF Inv, Follows, Chosen
<1>8. QED
  BY <1>2, <1>3, <1>5, <1>6, <1>7 DEF Inv

LEMMA NewSessionGood ==
  /\ NewSession \in Session /\ NewSession.spaces = {} /\ NewSession.listed = {}
  /\ NewSession.account = None
BY DEF NewSession, Session

LEMMA RestartInv ==
  ASSUME Inv, Restart
  PROVE  Inv'
<1>1. /\ session' = NewSession /\ blurred' = FALSE /\ exists' = exists
      /\ req' = [r \in Requests |-> IF req[r].pc = "form" THEN req[r] ELSE NoRequest]
  BY DEF Restart
<1>2. ASSUME NEW r \in Requests
      PROVE  req'[r] \in Request /\ Fits(req'[r]) /\ Good(NewSession, exists, req'[r]) /\ ~Watched(req'[r])
  <2>1. CASE req[r].pc = "form"
    <3>1. req'[r] = req[r]
      BY <1>1, <2>1
    <3>2. req[r] \in Request /\ Fits(req[r]) /\ AtHome(req[r]) /\ ~req[r].wrote
      BY <2>1, ReqFacts DEF Good, Known
    <3>3. Good(NewSession, exists, req[r]) /\ ~Watched(req[r])
      BY <2>1, <3>2 DEF Good, Known, Choice, Answer, Whole, Watched
    <3>4. QED
      BY <3>1, <3>2, <3>3
  <2>2. CASE req[r].pc # "form"
    <3>1. req'[r] = NoRequest
      BY <1>1, <2>2
    <3>2. ~Watched(NoRequest)
      BY DEF NoRequest, Watched
    <3>3. QED
      BY <3>1, <3>2, NoRequestGood
  <2>3. QED
    BY <2>1, <2>2
<1>3. TypeOK'
  BY <1>1, <1>2, NewSessionGood DEF Inv, TypeOK
<1>4. Distinct(session'.spaces) /\ Named(session'.listed) /\ NoFill(req')
  BY <1>1, <1>2, NewSessionGood DEF Distinct, Named, NoFill
<1>5. Follows(session', exists', req', blurred')
  BY <1>1, NewSessionGood DEF Follows, Chosen
<1>6. QED
  BY <1>1, <1>2, <1>3, <1>4, <1>5 DEF Inv

LEMMA InitInv == Init => Inv
<1> SUFFICES ASSUME Init PROVE Inv
  OBVIOUS
<1>1. \A r \in Requests : req[r] = NoRequest
  BY DEF Init
<1>2. ~Watched(NoRequest)
  BY DEF NoRequest, Watched
<1>3. TypeOK
  BY NoRequestGood, NewSessionGood DEF Init, TypeOK
<1>4. Distinct(session.spaces) /\ Named(session.listed) /\ NoFill(req)
  BY <1>1, <1>2, NewSessionGood DEF Init, Distinct, Named, NoFill
<1>5. Follows(session, exists, req, blurred)
  BY NewSessionGood DEF Init, Follows, Chosen
<1>6. QED
  BY <1>1, <1>3, <1>4, <1>5, NoRequestGood DEF Inv

LEMMA NextInv == Inv /\ [Next]_vars => Inv'
<1> SUFFICES ASSUME Inv, [Next]_vars PROVE Inv'
  OBVIOUS
<1>1. ASSUME NEW r \in Requests, Step(r) PROVE Inv'
  BY <1>1, FilespacesListedInv, SavedInv, StoresListedInv, BeginInv, BreakInv, HeadedInv,
     CreateInv, ReloadInv, RecordInv, EndInv, DeleteInv, PageInv, UnlistInv, ShowInv DEF Step
<1>2. ASSUME NEW r \in Requests, CreateDatastore(r) \/ OpenPage(r) PROVE Inv'
  BY <1>2, CreateDatastoreInv, PageInv
<1>3. ASSUME NEW r \in Requests, NEW a \in Accounts, LoadFilespaces(r, a) PROVE Inv'
  BY <1>3, LoadFilespacesInv
<1>4. ASSUME NEW r \in Requests, NEW f \in Filespaces, LoadDatastores(r, NameOf[f]) PROVE Inv'
  BY <1>4, LoadDatastoresInv
<1>5. ASSUME NEW r \in Requests, NEW s \in Stores, DeleteDatastore(r, s) \/ Ask(r, s) PROVE Inv'
  BY <1>5, DeleteDatastoreInv, AskInv
<1>6. ASSUME NEW a \in Accounts, Hydrate(a) PROVE Inv'
  BY <1>6, HydrateInv
<1>7. CASE Restart
  BY <1>7, RestartInv
<1>8. CASE UNCHANGED vars
  <2> USE <1>8 DEF vars
  <2>1. TypeOK'
    BY DEF Inv, TypeOK
  <2>2. QED
    BY <2>1 DEF Inv
<1>9. QED
  BY <1>1, <1>2, <1>3, <1>4, <1>5, <1>6, <1>7, <1>8 DEF Next

\* Every reachable state satisfies the inductive invariant.
THEOREM InvHolds == Spec => []Inv
BY InitInv, NextInv, PTL DEF Spec

-----------------------------------------------------------------------------
(* What it implies *)

\* TypeOK: values stay in their sets, filespaces are known only with an account, and no
\* request of load_filespaces, load_datastores, create_datastore or delete_datastore
\* comes to a step without the account, filespace or data store it uses.
THEOREM TypeCorrect == Spec => []TypeOK
<1>1. Inv => TypeOK
  BY DEF Inv
<1>2. QED
  BY <1>1, InvHolds, PTL

\* ListFollowsSelection: a load of load_datastores that nobody overtakes leaves the list
\* and the selected filespace in step, however many requests share the session.
THEOREM ListsInStep == Spec => []ListFollowsSelection
<1>1. Inv => ListFollowsSelection
  <2> SUFFICES ASSUME Inv, ~blurred, Settled, NEW f \in Selected
               PROVE  session.listed \subseteq Listing(f)
    BY DEF ListFollowsSelection
  <2>1. ~Writer(req) /\ Gone(req) = {}
    BY DEF Settled, Writer, Gone
  <2>2. /\ Selected = Chosen(session) /\ session.spaces \subseteq Filespaces
        /\ \A g \in Filespaces : Listing(g) = At(exists, g)
    BY Names DEF Inv
  <2>3. f \in Filespaces
    BY <2>2 DEF Chosen
  <2>4. session.listed \subseteq At(exists, f) \cup Gone(req)
    BY <2>1, <2>2 DEF Inv, Follows
  <2>5. QED
    BY <2>1, <2>2, <2>3, <2>4
<1>2. QED
  BY <1>1, InvHolds, PTL

\* CredentialsNameTheirFilespace: create_datastore saves the credentials of the data store
\* it made with the id of the filespace it made it in, and unless it was overtaken with
\* that one's name, there, in the cache and in the activity log; a form names one
\* filespace, and if it was made while the lists were quiet that of its data store.
THEOREM CredentialsAtHome == Spec => []CredentialsNameTheirFilespace
<1>1. Inv => CredentialsNameTheirFilespace
  BY DEF Inv, TypeOK, Good, AtHome, CredentialsNameTheirFilespace
<1>2. QED
  BY <1>1, InvHolds, PTL

\* PagesAreWhole: a page of index or tab_settings begun while the lists are quiet shows
\* one list, whole, and breaks only if that list has shrunk.
THEOREM PagesWhole == Spec => []PagesAreWhole
<1>1. Inv => PagesAreWhole
  BY DEF Inv, Good, Whole, PagesAreWhole
<1>2. QED
  BY <1>1, InvHolds, PTL
=============================================================================
