------------------------- MODULE AuthSessionsProofs -------------------------
(***************************************************************************)
(* Proofs about AuthSessions, for any number of processes, requests, users *)
(* and sessions.                                                           *)
(***************************************************************************)
EXTENDS AuthSessions, TLAPS

-----------------------------------------------------------------------------
(* The inductive invariant: t is the table of users, b the processes, q a  *)
(* request and rq all of them.                                             *)

\* An active session is what its user's row says, or late.
Told(t, x) ==
  x # None /\ ~x.late =>
    /\ t[x.user] # None
    /\ x.admin = t[x.user].admin
    /\ x.password = t[x.user].password

\* So is what a login has in hand.
Verified(t, q) ==
  q.pc \in LoginLabels /\ ~q.late =>
    /\ t[q.me] # None
    /\ t[q.me].password = q.password
    /\ q.pc = "session" => t[q.me].admin = q.admin

\* Whoever registers is no admin.
Ordinary(q) == q.op = "register" /\ q.pc \in {"unused", "insert"} => ~q.role /\ ~q.admin

\* Nobody's role is changed, and nobody is deleted, by themselves.
NotSelf(q) ==
  /\ q.pc \in {"load", "apply"} => q.op = "role"
  /\ q.pc \in {"verify", "repass"} => q.op = "password"
  /\ q.pc \in {"load", "apply", "erase"} \/ (q.pc = "commit" /\ q.op = "role") => q.me # q.target

\* A row that a commit will write is still there.
Held(t, q) == q.pc = "commit" /\ Writes(q) => t[q.target] # None

Good(t, q) == Verified(t, q) /\ Ordinary(q) /\ NotSelf(q) /\ Held(t, q)

SomeUser(t)  == \E u \in UserIds : t[u] # None
SomeAdmin(t) == \E u \in UserIds : t[u] # None /\ t[u].admin
Busy(b, rq)  == (\E p \in Processes : b[p] = "up") \/ \E r \in Requests : rq[r].pc # "idle"

\* While anything is served there is a user, and while there are users an admin.
Governed(t, b, rq, c) ==
  ~c => /\ SomeUser(t) => SomeAdmin(t)
        /\ Busy(b, rq) => SomeUser(t)

Inv ==
  /\ TypeOK
  /\ \A s \in SessionIds : Told(users, sessions[s])
  /\ \A r \in Requests : Good(users, req[r])
  /\ Governed(users, boot, req, crossed)

-----------------------------------------------------------------------------
(* Lemmas *)

LEMMA NoRequestGood ==
  /\ NoRequest \in Request /\ Fits(NoRequest) /\ \A t : Good(t, NoRequest)
  /\ NoRequest.pc = "idle"
<1>1. NoRequest \in Request
  BY DEF NoRequest, Request, Labels, Ops
<1>2. Fits(NoRequest)
  BY DEF NoRequest, Fits
<1>3. \A t : Good(t, NoRequest)
  BY DEF NoRequest, Good, Verified, LoginLabels, Ordinary, NotSelf, Held
<1>4. NoRequest.pc = "idle"
  BY DEF NoRequest
<1>5. QED
  BY <1>1, <1>2, <1>3, <1>4

LEMMA ReqFacts ==
  ASSUME Inv, NEW r \in Requests
  PROVE  /\ req[r] \in Request /\ Fits(req[r]) /\ Good(users, req[r])
         /\ users \in [UserIds -> Account \cup {None}]
         /\ sessions \in [SessionIds -> Session \cup {None}]
         /\ boot \in [Processes -> {"down", "counted", "up"}] /\ crossed \in BOOLEAN
BY DEF Inv, TypeOK

\* One slot changes, and no table.
LEMMA OneSlot ==
  ASSUME Inv, NEW r \in Requests, NEW q \in Request, Fits(q), Good(users, q), Put(r, q),
         UNCHANGED <<boot, users, sessions, crossed>>,
         q.pc = "idle" \/ req[r].pc # "idle" \/ Serving
  PROVE  Inv'
<1>1. req' \in [Requests -> Request] /\ req \in [Requests -> Request]
  BY DEF Inv, TypeOK, Put
<1>2. \A x \in Requests : req'[x] = IF x = r THEN q ELSE req[x]
  BY <1>1 DEF Put
<1>3. \A x \in Requests : Fits(req'[x]) /\ Good(users, req'[x])
  BY <1>2 DEF Inv, TypeOK
<1>4. TypeOK'
  BY <1>1, <1>3 DEF Inv, TypeOK, Fits
<1>5. Busy(boot, req') => Busy(boot, req)
  BY <1>2 DEF Busy, Serving
<1>6. Governed(users, boot, req', crossed)
  BY <1>5 DEF Inv, Governed
<1>7. QED
  BY <1>3, <1>4, <1>6 DEF Inv

\* A user is added whom nobody knew.
LEMMA AddedUser ==
  ASSUME Inv, NEW u \in UserIds, FreshUser(u), NEW a \in Account,
         users' = [users EXCEPT ![u] = a]
  PROVE  /\ users' \in [UserIds -> Account \cup {None}] /\ users'[u] = a /\ a # None
         /\ \A v \in UserIds : v # u => users'[v] = users[v]
         /\ \A s \in SessionIds : Told(users', sessions[s])
         /\ \A r \in Requests : Good(users', req[r])
         /\ SomeUser(users')
         /\ SomeAdmin(users) \/ a.admin => SomeAdmin(users')
<1>1. users \in [UserIds -> Account \cup {None}] /\ users[u] = None
  BY DEF Inv, TypeOK, FreshUser, Known
<1>2. a # None
  BY AuthAssumption DEF Account
<1>3. users' \in [UserIds -> Account \cup {None}] /\ users'[u] = a
  BY <1>1
<1>4. \A v \in UserIds : v # u => users'[v] = users[v]
  BY <1>1
<1>5. ASSUME NEW s \in SessionIds PROVE Told(users', sessions[s])
  <2>1. Told(users, sessions[s]) /\ sessions[s] \in Session \cup {None}
    BY DEF Inv, TypeOK
  <2>2. QED
    BY <2>1, <1>1, <1>4 DEF Told, Session
<1>6. ASSUME NEW r \in Requests PROVE Good(users', req[r])
  <2>1. Good(users, req[r]) /\ Fits(req[r]) /\ req[r].me # u /\ req[r].target # u
    BY DEF Inv, TypeOK, FreshUser
  <2>2. Verified(users', req[r])
    BY <2>1, <1>4 DEF Good, Verified, Fits, LoginLabels
  <2>3. Held(users', req[r])
    BY <2>1, <1>4 DEF Good, Held, Fits
  <2>4. QED
    BY <2>1, <2>2, <2>3 DEF Good
<1>7. SomeUser(users') /\ (SomeAdmin(users) \/ a.admin => SomeAdmin(users'))
  BY <1>1, <1>2, <1>3, <1>4 DEF SomeUser, SomeAdmin
<1>8. QED
  BY <1>2, <1>3, <1>4, <1>5, <1>6, <1>7

\* What a change of u does to another request.
LEMMA OvertakenGood ==
  ASSUME NEW q \in Request, Fits(q), NEW u \in UserIds, NEW t, NEW z, Good(t, q),
         \A v \in UserIds : v # u => z[v] = t[v],
         Held(z, q)
  PROVE  /\ Overtaken(u, q) \in Request /\ Fits(Overtaken(u, q)) /\ Good(z, Overtaken(u, q))
         /\ Overtaken(u, q).pc = q.pc
<1>1. CASE q.pc \in LoginLabels /\ q.me = u
  <2> DEFINE d == [q EXCEPT !.late = TRUE]
  <2>1. /\ d \in Request /\ d.pc = q.pc /\ d.op = q.op /\ d.me = q.me /\ d.late = TRUE
        /\ d.target = q.target /\ d.email = q.email /\ d.password = q.password
        /\ d.fresh = q.fresh /\ d.admin = q.admin /\ d.role = q.role
    BY DEF Request
  <2>2. Overtaken(u, q) = d
    BY <1>1 DEF Overtaken
  <2> HIDE DEF d
  <2>3. Fits(d) /\ Good(z, d)
    BY <1>1, <2>1 DEF Fits, Good, Verified, Ordinary, NotSelf, Held, LoginLabels
  <2>4. QED
    BY <2>1, <2>2, <2>3
<1>2. CASE ~(q.pc \in LoginLabels /\ q.me = u)
  <2>1. Overtaken(u, q) = q
    BY <1>2 DEF Overtaken
  <2>2. Verified(z, q)
    BY <1>2 DEF Good, Verified, Fits, LoginLabels
  <2>3. QED
    BY <2>1, <2>2 DEF Good
<1>3. QED
  BY <1>1, <1>2

\* What a change of u leaves of a session.
LEMMA SweptGood ==
  ASSUME Inv, NEW u \in UserIds, NEW t, NEW swept, NEW s \in SessionIds,
         \A v \in UserIds : v # u => t[v] = users[v],
         NEW x, x = IF s \in swept THEN None
                    ELSE IF s \in SessionsOf(u) THEN [sessions[s] EXCEPT !.late = TRUE]
                    ELSE sessions[s]
  PROVE  x \in Session \cup {None} /\ Told(t, x)
<1>1. sessions[s] \in Session \cup {None} /\ Told(users, sessions[s])
  BY DEF Inv, TypeOK
<1>2. CASE s \in swept
  BY <1>2 DEF Told
<1>3. CASE s \notin swept /\ s \in SessionsOf(u)
  <2>1. sessions[s] \in Session
    BY <1>1, <1>3 DEF SessionsOf
  <2>2. x \in Session /\ x.late = TRUE
    BY <1>3, <2>1 DEF Session
  <2>3. QED
    BY <2>2 DEF Told
<1>4. CASE s \notin swept /\ s \notin SessionsOf(u)
  <2>1. x = sessions[s]
    BY <1>4
  <2>2. x # None => x.user # u /\ x.user \in UserIds
    BY <1>1, <1>4, <2>1 DEF SessionsOf, Session
  <2>3. QED
    BY <1>1, <2>1, <2>2 DEF Told
<1>5. QED
  BY <1>2, <1>3, <1>4

\* A change of u goes through.
LEMMA Changed ==
  ASSUME Inv, NEW r \in Requests, NEW u \in UserIds, NEW swept, Change(r, u, swept),
         users' \in [UserIds -> Account \cup {None}],
         \A v \in UserIds : v # u => users'[v] = users[v],
         users'[u] = None => ~Locked(u),
         boot' = boot, crossed' \in BOOLEAN,
         ~crossed' => ~crossed,
         ~crossed' => (SomeAdmin(users) => SomeAdmin(users')),
         SomeUser(users') => SomeUser(users)
  PROVE  Inv'
<1>1. /\ req' = [x \in Requests |-> IF x = r THEN NoRequest ELSE Overtaken(u, req[x])]
      /\ sessions' = [s \in SessionIds |->
                        IF s \in swept THEN None
                        ELSE IF s \in SessionsOf(u) THEN [sessions[s] EXCEPT !.late = TRUE]
                        ELSE sessions[s]]
  BY DEF Change
<1>2. ASSUME NEW x \in Requests
      PROVE  /\ req'[x] \in Request /\ Fits(req'[x]) /\ Good(users', req'[x])
             /\ req'[x].pc # "idle" => req[x].pc # "idle"
  <2>1. CASE x = r
    BY <2>1, <1>1, NoRequestGood
  <2>2. CASE x # r
    <3>1. req[x] \in Request /\ Fits(req[x]) /\ Good(users, req[x])
      BY ReqFacts
    <3>2. Held(users', req[x])
      <4> SUFFICES ASSUME req[x].pc = "commit", Writes(req[x]) PROVE users'[req[x].target] # None
        BY DEF Held
      <4>1. req[x].target \in UserIds /\ users[req[x].target] # None
        BY <3>1 DEF Fits, Good, Held
      <4>2. req[x].target = u => Locked(u)
        BY DEF Locked
      <4>3. QED
        BY <4>1, <4>2
    <3>3. req'[x] = Overtaken(u, req[x])
      BY <1>1, <2>2
    <3>4. QED
      BY <3>1, <3>2, <3>3, OvertakenGood
  <2>3. QED
    BY <2>1, <2>2
<1>3. req' \in [Requests -> Request]
  <2>1. req' = [x \in Requests |-> req'[x]]
    BY <1>1
  <2>2. QED
    BY <2>1, <1>2
<1>4. ASSUME NEW s \in SessionIds PROVE sessions'[s] \in Session \cup {None} /\ Told(users', sessions'[s])
  <2>1. sessions'[s] = IF s \in swept THEN None
                       ELSE IF s \in SessionsOf(u) THEN [sessions[s] EXCEPT !.late = TRUE]
                       ELSE sessions[s]
    BY <1>1
  <2>2. QED
    BY <2>1, SweptGood
<1>5. sessions' \in [SessionIds -> Session \cup {None}]
  <2>1. sessions' = [s \in SessionIds |-> sessions'[s]]
    BY <1>1
  <2>2. QED
    BY <2>1, <1>4
<1>6. TypeOK'
  BY <1>2, <1>3, <1>5 DEF Inv, TypeOK
<1>7. Busy(boot, req') => Busy(boot, req)
  BY <1>2 DEF Busy
<1>8. SomeAdmin(users') => SomeUser(users')
  BY DEF SomeAdmin, SomeUser
<1>9. Governed(users', boot', req', crossed')
  BY <1>7, <1>8 DEF Inv, Governed
<1>10. QED
  BY <1>2, <1>4, <1>6, <1>9 DEF Inv

-----------------------------------------------------------------------------
(* One action at a time *)

LEMMA StartInv ==
  ASSUME Inv, NEW p \in Processes, Start(p) \/ Restart(p)
  PROVE  Inv'
<1>1. TypeOK
  BY DEF Inv
<1>2. CASE Count(p) \/ StartFails(p) \/ Restart(p)
  <2>1. UNCHANGED <<users, sessions, req, crossed>>
    BY <1>2 DEF Count, StartFails, Restart
  <2>2. PICK b \in {"down", "counted", "up"} : boot' = [boot EXCEPT ![p] = b] /\ (b = "up" => SomeUser(users))
    BY <1>2 DEF Count, StartFails, Restart, SomeUser, Known
  <2>3. TypeOK'
    BY <1>1, <2>1, <2>2 DEF TypeOK
  <2>4. Busy(boot', req) => Busy(boot, req) \/ SomeUser(users)
    BY <1>1, <2>2 DEF TypeOK, Busy
  <2>5. Governed(users', boot', req', crossed')
    BY <2>1, <2>4 DEF Inv, Governed
  <2>6. QED
    BY <2>1, <2>3, <2>5 DEF Inv
<1>3. CASE CreateAdmin(p)
  <2>1. PICK u \in UserIds, w \in Passwords :
          /\ FreshUser(u)
          /\ users' = [users EXCEPT ![u] = [email |-> AdminEmail, password |-> w, admin |-> TRUE]]
    BY <1>3 DEF CreateAdmin
  <2> DEFINE a == [email |-> AdminEmail, password |-> w, admin |-> TRUE]
  <2>2. a \in Account /\ a.admin
    BY AuthAssumption DEF Account
  <2>3. users' = [users EXCEPT ![u] = a]
    BY <2>1
  <2> HIDE DEF a
  <2>4. /\ users' \in [UserIds -> Account \cup {None}] /\ SomeUser(users') /\ SomeAdmin(users')
        /\ \A s \in SessionIds : Told(users', sessions[s])
        /\ \A r \in Requests : Good(users', req[r])
    BY <2>1, <2>2, <2>3, AddedUser
  <2>5. UNCHANGED <<sessions, req, crossed>> /\ boot' = [boot EXCEPT ![p] = "up"]
    BY <1>3 DEF CreateAdmin
  <2>6. TypeOK'
    BY <1>1, <2>4, <2>5 DEF TypeOK
  <2>7. QED
    BY <2>4, <2>5, <2>6 DEF Inv, Governed
<1>4. QED
  BY <1>2, <1>3 DEF Start

\* A request arrives.
LEMMA ArriveInv ==
  ASSUME Inv, NEW r \in Requests, Arrive(r)
  PROVE  Inv'
<1> USE NoRequestGood
<1>1. ASSUME NEW q \in Request, Fits(q), Good(users, q), Put(r, q), Serving,
             UNCHANGED <<boot, users, sessions, crossed>>
      PROVE  Inv'
  BY <1>1, OneSlot
<1>2. ASSUME NEW s \in SessionIds, Accepted(s)
      PROVE  Serving /\ sessions[s] \in Session
  BY <1>2 DEF Accepted, Inv, TypeOK
<1>3. ASSUME NEW e \in Emails, NEW w \in Passwords, Login(r, e, w)
      PROVE  Inv'
  <2> DEFINE q == [NoRequest EXCEPT !.pc = "lookup", !.op = "login", !.email = e, !.password = w]
  <2>1. q \in Request
    BY DEF Request, Labels, Ops
  <2>2. q.pc = "lookup" /\ q.op = "login" /\ q.email = e /\ q.password = w
    BY DEF NoRequest
  <2>3. Put(r, q) /\ Serving /\ UNCHANGED <<boot, users, sessions, crossed>>
    BY <1>3 DEF Login
  <2> HIDE DEF q
  <2>4. Fits(q) /\ Good(users, q)
    BY <2>2 DEF Fits, Good, Verified, LoginLabels, Ordinary, NotSelf, Held
  <2>5. QED
    BY <2>1, <2>3, <2>4, <1>1
<1>4. ASSUME NEW e \in Emails, NEW w \in Passwords, Register(r, e, w)
      PROVE  Inv'
  <2> DEFINE q == [NoRequest EXCEPT !.pc = "unused", !.op = "register", !.email = e, !.password = w]
  <2>1. q \in Request
    BY DEF Request, Labels, Ops
  <2>2. /\ q.pc = "unused" /\ q.op = "register" /\ q.email = e /\ q.password = w
        /\ q.role = FALSE /\ q.admin = FALSE
    BY DEF NoRequest
  <2>3. Put(r, q) /\ Serving /\ UNCHANGED <<boot, users, sessions, crossed>>
    BY <1>4 DEF Register
  <2> HIDE DEF q
  <2>4. Fits(q) /\ Good(users, q)
    BY <2>2 DEF Fits, Good, Verified, LoginLabels, Ordinary, NotSelf, Held
  <2>5. QED
    BY <2>1, <2>3, <2>4, <1>1
<1>5. ASSUME NEW s \in SessionIds, NEW e \in Emails, NEW w \in Passwords, NEW role \in BOOLEAN,
             Invite(r, s, e, w, role)
      PROVE  Inv'
  <2> DEFINE q == [NoRequest EXCEPT !.pc = "unused", !.op = "invite", !.email = e,
                                    !.password = w, !.role = role]
  <2>1. q \in Request
    BY DEF Request, Labels, Ops
  <2>2. q.pc = "unused" /\ q.op = "invite" /\ q.email = e /\ q.password = w
    BY DEF NoRequest
  <2>3. Put(r, q) /\ Serving /\ UNCHANGED <<boot, users, sessions, crossed>>
    BY <1>5, <1>2 DEF Invite
  <2> HIDE DEF q
  <2>4. Fits(q) /\ Good(users, q)
    BY <2>2 DEF Fits, Good, Verified, LoginLabels, Ordinary, NotSelf, Held
  <2>5. QED
    BY <2>1, <2>3, <2>4, <1>1
<1>6. ASSUME NEW s \in SessionIds, NEW old \in Passwords, NEW new \in Passwords,
             ChangePassword(r, s, old, new)
      PROVE  Inv'
  <2>1. Serving /\ sessions[s].user \in UserIds
    BY <1>6, <1>2 DEF ChangePassword, Admitted, Session
  <2> DEFINE q == [NoRequest EXCEPT !.pc = "verify", !.op = "password", !.me = sessions[s].user,
                                    !.password = old, !.fresh = new]
  <2>2. q \in Request
    BY <2>1 DEF Request, Labels, Ops
  <2>3. /\ q.pc = "verify" /\ q.op = "password" /\ q.me = sessions[s].user /\ q.password = old
        /\ q.fresh = new
    BY DEF NoRequest
  <2>4. Put(r, q) /\ UNCHANGED <<boot, users, sessions, crossed>>
    BY <1>6 DEF ChangePassword
  <2> HIDE DEF q
  <2>5. Fits(q) /\ Good(users, q)
    BY <2>1, <2>3 DEF Fits, Good, Verified, LoginLabels, Ordinary, NotSelf, Held
  <2>6. QED
    BY <2>1, <2>2, <2>4, <2>5, <1>1
<1>7. ASSUME NEW s \in SessionIds, NEW u \in UserIds, NEW role \in BOOLEAN, ChangeRole(r, s, u, role)
      PROVE  Inv'
  <2>1. Serving /\ sessions[s].user \in UserIds /\ u # sessions[s].user
    BY <1>7, <1>2 DEF ChangeRole, Admitted, Session
  <2> DEFINE q == [NoRequest EXCEPT !.pc = "load", !.op = "role", !.me = sessions[s].user,
                                    !.target = u, !.role = role]
  <2>2. q \in Request
    BY <2>1 DEF Request, Labels, Ops
  <2>3. q.pc = "load" /\ q.op = "role" /\ q.me = sessions[s].user /\ q.target = u
    BY DEF NoRequest
  <2>4. Put(r, q) /\ UNCHANGED <<boot, users, sessions, crossed>>
    BY <1>7 DEF ChangeRole
  <2> HIDE DEF q
  <2>5. Fits(q) /\ Good(users, q)
    BY <2>1, <2>3 DEF Fits, Good, Verified, LoginLabels, Ordinary, NotSelf, Held
  <2>6. QED
    BY <2>1, <2>2, <2>4, <2>5, <1>1
<1>8. ASSUME NEW s \in SessionIds, NEW u \in UserIds, DeleteUser(r, s, u)
      PROVE  Inv'
  <2>1. Serving /\ sessions[s].user \in UserIds /\ u # sessions[s].user
    BY <1>8, <1>2 DEF DeleteUser, Admitted, Session
  <2> DEFINE q == [NoRequest EXCEPT !.pc = "erase", !.op = "delete", !.me = sessions[s].user,
                                    !.target = u]
  <2>2. q \in Request
    BY <2>1 DEF Request, Labels, Ops
  <2>3. q.pc = "erase" /\ q.op = "delete" /\ q.me = sessions[s].user /\ q.target = u
    BY DEF NoRequest
  <2>4. Put(r, q) /\ UNCHANGED <<boot, users, sessions, crossed>>
    BY <1>8 DEF DeleteUser
  <2> HIDE DEF q
  <2>5. Fits(q) /\ Good(users, q)
    BY <2>1, <2>3 DEF Fits, Good, Verified, LoginLabels, Ordinary, NotSelf, Held
  <2>6. QED
    BY <2>1, <2>2, <2>4, <2>5, <1>1
<1>9. QED
  BY <1>3, <1>4, <1>5, <1>6, <1>7, <1>8 DEF Arrive

\* A request goes on, and no table changes.
LEMMA GoOnInv ==
  ASSUME Inv, NEW r \in Requests,
         \/ Lookup(r) \/ Refresh(r) \/ Unused(r) \/ Verify(r) \/ Repass(r)
         \/ LoadRole(r) \/ ApplyRole(r) \/ Refuse(r)
  PROVE  Inv'
<1> DEFINE q == req[r]
<1>1. /\ q \in Request /\ Fits(q) /\ Verified(users, q) /\ Ordinary(q) /\ NotSelf(q) /\ Held(users, q)
      /\ users \in [UserIds -> Account \cup {None}]
  BY ReqFacts DEF Good
<1>2. UNCHANGED <<boot, users, sessions, crossed>> /\ q.pc # "idle"
  BY DEF Lookup, Refresh, Unused, Verify, Repass, LoadRole, ApplyRole, Refuse, Goto, Finish
<1>3. ASSUME NEW d \in Request, Fits(d), Good(users, d), Put(r, d) PROVE Inv'
  BY <1>2, <1>3, OneSlot
<1>4. CASE Lookup(r)
  <2>1. PICK u \in Named(q.email) :
          /\ users[u].password = q.password
          /\ Put(r, [q EXCEPT !.pc = "refresh", !.me = u, !.email = None])
    BY <1>4 DEF Lookup
  <2>2. u \in UserIds /\ users[u] # None /\ q.pc = "lookup"
    BY <2>1, <1>4 DEF Named, Known, Lookup
  <2> DEFINE d == [q EXCEPT !.pc = "refresh", !.me = u, !.email = None]
  <2>3. d \in Request /\ d.pc = "refresh" /\ d.me = u /\ d.password = q.password /\ d.op = q.op
    BY <1>1, <2>2 DEF Request, Labels
  <2>4. Put(r, d)
    BY <2>1
  <2> HIDE DEF d
  <2>5. Fits(d) /\ Good(users, d)
    BY <1>1, <2>1, <2>2, <2>3 DEF Fits, Good, Verified, LoginLabels, Ordinary, NotSelf, Held
  <2>6. QED
    BY <2>3, <2>4, <2>5, <1>3
<1>5. CASE Refresh(r)
  <2>1. q.pc = "refresh" /\ users[q.me] # None /\ q.me \in UserIds
    BY <1>1, <1>5 DEF Refresh, Known, Fits
  <2>2. users[q.me].admin \in BOOLEAN
    BY <1>1, <2>1 DEF Account
  <2> DEFINE d == [q EXCEPT !.pc = "session", !.admin = users[q.me].admin]
  <2>3. /\ d \in Request /\ d.pc = "session" /\ d.me = q.me /\ d.password = q.password
        /\ d.late = q.late /\ d.admin = users[q.me].admin
    BY <1>1, <2>2 DEF Request, Labels
  <2>4. Put(r, d)
    BY <1>5 DEF Refresh
  <2> HIDE DEF d
  <2>5. Fits(d) /\ Good(users, d)
    BY <1>1, <2>1, <2>3 DEF Fits, Good, Verified, LoginLabels, Ordinary, NotSelf, Held
  <2>6. QED
    BY <2>3, <2>4, <2>5, <1>3
<1>6. CASE Unused(r)
  <2> DEFINE d == [q EXCEPT !.pc = "insert"]
  <2>1. q.pc = "unused" /\ Put(r, d)
    BY <1>6 DEF Unused, Goto
  <2>2. /\ d \in Request /\ d.pc = "insert" /\ d.email = q.email /\ d.password = q.password
        /\ d.op = q.op /\ d.role = q.role /\ d.admin = q.admin
    BY <1>1 DEF Request, Labels
  <2> HIDE DEF d
  <2>3. Fits(d) /\ Good(users, d)
    BY <1>1, <2>1, <2>2 DEF Fits, Good, Verified, LoginLabels, Ordinary, NotSelf, Held
  <2>4. QED
    BY <2>1, <2>2, <2>3, <1>3
<1>7. CASE Verify(r)
  <2> DEFINE d == [q EXCEPT !.pc = "repass", !.password = None]
  <2>1. q.pc = "verify" /\ Put(r, d)
    BY <1>7 DEF Verify
  <2>2. d \in Request /\ d.pc = "repass" /\ d.me = q.me /\ d.fresh = q.fresh /\ d.op = q.op
    BY <1>1 DEF Request, Labels
  <2> HIDE DEF d
  <2>3. Fits(d) /\ Good(users, d)
    BY <1>1, <2>1, <2>2 DEF Fits, Good, Verified, LoginLabels, Ordinary, NotSelf, Held
  <2>4. QED
    BY <2>1, <2>2, <2>3, <1>3
<1>8. CASE Repass(r)
  <2> DEFINE d == [q EXCEPT !.pc = "commit", !.target = q.me, !.swept = SessionsOf(q.me)]
  <2>1. q.pc = "repass" /\ users[q.me] # None /\ Put(r, d)
    BY <1>8 DEF Repass, Known
  <2>2. q.me \in UserIds /\ SessionsOf(q.me) \in SUBSET SessionIds
    BY <1>1, <2>1 DEF Fits, SessionsOf
  <2>3. /\ d \in Request /\ d.pc = "commit" /\ d.me = q.me /\ d.target = q.me
        /\ d.fresh = q.fresh /\ d.op = q.op
    BY <1>1, <2>2 DEF Request, Labels
  <2> HIDE DEF d
  <2>4. Fits(d) /\ Good(users, d)
    BY <1>1, <2>1, <2>2, <2>3 DEF Fits, Good, Verified, LoginLabels, Ordinary, NotSelf, Held
  <2>5. QED
    BY <2>1, <2>3, <2>4, <1>3
<1>9. CASE LoadRole(r)
  <2> DEFINE d == [q EXCEPT !.pc = "apply", !.admin = users[q.target].admin]
  <2>1. q.pc = "load" /\ users[q.target] # None /\ Put(r, d)
    BY <1>9 DEF LoadRole, Known
  <2>2. q.target \in UserIds /\ users[q.target].admin \in BOOLEAN
    BY <1>1, <2>1 DEF Fits, Account
  <2>3. d \in Request /\ d.pc = "apply" /\ d.me = q.me /\ d.target = q.target /\ d.op = q.op
    BY <1>1, <2>2 DEF Request, Labels
  <2> HIDE DEF d
  <2>4. Fits(d) /\ Good(users, d)
    BY <1>1, <2>1, <2>3 DEF Fits, Good, Verified, LoginLabels, Ordinary, NotSelf, Held
  <2>5. QED
    BY <2>1, <2>3, <2>4, <1>3
<1>10. CASE ApplyRole(r)
  <2> DEFINE d == [q EXCEPT !.pc = "commit", !.swept = SessionsOf(q.target)]
  <2>1. q.pc = "apply" /\ users[q.target] # None /\ Put(r, d)
    BY <1>10 DEF ApplyRole, Known
  <2>2. SessionsOf(q.target) \in SUBSET SessionIds
    BY DEF SessionsOf
  <2>3. d \in Request /\ d.pc = "commit" /\ d.me = q.me /\ d.target = q.target /\ d.op = q.op
    BY <1>1, <2>2 DEF Request, Labels
  <2> HIDE DEF d
  <2>4. Fits(d) /\ Good(users, d)
    BY <1>1, <2>1, <2>3 DEF Fits, Good, Verified, LoginLabels, Ordinary, NotSelf, Held
  <2>5. QED
    BY <2>1, <2>3, <2>4, <1>3
<1>11. CASE Refuse(r)
  BY <1>11, <1>3, NoRequestGood DEF Refuse, Finish
<1>12. QED
  BY <1>4, <1>5, <1>6, <1>7, <1>8, <1>9, <1>10, <1>11

LEMMA OpenSessionInv ==
  ASSUME Inv, NEW r \in Requests, OpenSession(r)
  PROVE  Inv'
<1> DEFINE q == req[r]
<1>1. /\ q \in Request /\ Fits(q) /\ Verified(users, q)
      /\ sessions \in [SessionIds -> Session \cup {None}]
  BY ReqFacts DEF Good
<1>2. q.pc = "session" /\ Put(r, NoRequest) /\ UNCHANGED <<boot, users, crossed>>
  BY DEF OpenSession, Finish
<1> DEFINE x == [user |-> q.me, admin |-> q.admin, password |-> q.password, late |-> q.late]
<1>3. PICK s \in SessionIds : sessions' = [sessions EXCEPT ![s] = x]
  BY DEF OpenSession
<1>4. x \in Session /\ Told(users, x)
  BY <1>1, <1>2 DEF Fits, Request, Session, Verified, LoginLabels, Told
<1> HIDE DEF x
<1>5. /\ sessions' \in [SessionIds -> Session \cup {None}]
      /\ \A y \in SessionIds : Told(users, sessions'[y])
  BY <1>1, <1>3, <1>4 DEF Inv
<1>6. req' \in [Requests -> Request]
  BY <1>2, NoRequestGood DEF Inv, TypeOK, Put
<1>7. \A y \in Requests : req'[y] = IF y = r THEN NoRequest ELSE req[y]
  BY <1>2 DEF Inv, TypeOK, Put
<1>8. \A y \in Requests : Fits(req'[y]) /\ Good(users, req'[y])
  BY <1>7, NoRequestGood DEF Inv, TypeOK
<1>9. TypeOK'
  BY <1>2, <1>5, <1>6, <1>8 DEF Inv, TypeOK
<1>10. Busy(boot, req') => Busy(boot, req)
  BY <1>7, NoRequestGood DEF Busy
<1>11. Governed(users, boot, req', crossed)
  BY <1>10 DEF Inv, Governed
<1>12. QED
  BY <1>2, <1>5, <1>8, <1>9, <1>11 DEF Inv

LEMMA InsertInv ==
  ASSUME Inv, NEW r \in Requests, Insert(r)
  PROVE  Inv'
<1> DEFINE q == req[r]
           d(u) == IF q.op = "register" THEN [q EXCEPT !.pc = "session", !.me = u, !.email = None]
                   ELSE NoRequest
<1>1. q \in Request /\ Fits(q) /\ Ordinary(q)
  BY ReqFacts DEF Good
<1>2. q.pc = "insert" /\ UNCHANGED <<boot, sessions, crossed>>
  BY DEF Insert
<1> DEFINE a == [email |-> q.email, password |-> q.password, admin |-> q.role]
<1>3. PICK u \in UserIds : FreshUser(u) /\ users' = [users EXCEPT ![u] = a] /\ Put(r, d(u))
  BY DEF Insert
<1>4. a \in Account /\ a.admin = q.role /\ a.password = q.password
  BY <1>1, <1>2 DEF Fits, Request, Account
<1> HIDE DEF a
<1>5. /\ users' \in [UserIds -> Account \cup {None}] /\ users'[u] = a /\ a # None
      /\ \A s \in SessionIds : Told(users', sessions[s])
      /\ \A x \in Requests : Good(users', req[x])
      /\ SomeUser(users')
      /\ SomeAdmin(users) => SomeAdmin(users')
  BY <1>3, <1>4, AddedUser
<1>6. d(u) \in Request /\ Fits(d(u)) /\ Good(users', d(u))
  <2>1. CASE q.op = "register"
    <3> DEFINE g == [q EXCEPT !.pc = "session", !.me = u, !.email = None]
    <3>1. /\ g \in Request /\ g.pc = "session" /\ g.me = u /\ g.password = q.password
          /\ g.admin = q.admin /\ g.op = q.op
      BY <1>1 DEF Request, Labels
    <3>2. d(u) = g
      BY <2>1
    <3> HIDE DEF g, d
    <3>3. ~q.role /\ ~q.admin /\ q.role \in BOOLEAN /\ q.admin \in BOOLEAN
      BY <1>1, <1>2, <2>1 DEF Ordinary, Request
    <3>4. users'[u].admin = q.admin
      BY <3>3, <1>4, <1>5
    <3>5. Fits(g) /\ Good(users', g)
      BY <1>1, <1>2, <1>4, <1>5, <3>1, <3>4
      DEF Fits, Good, Verified, LoginLabels, Ordinary, NotSelf, Held
    <3>6. QED
      BY <3>1, <3>2, <3>5
  <2>2. CASE q.op # "register"
    BY <2>2, NoRequestGood
  <2>3. QED
    BY <2>1, <2>2
<1> HIDE DEF d
<1>7. req' \in [Requests -> Request]
  BY <1>3, <1>6 DEF Inv, TypeOK, Put
<1>8. \A y \in Requests : req'[y] = IF y = r THEN d(u) ELSE req[y]
  BY <1>3 DEF Inv, TypeOK, Put
<1>9. \A y \in Requests : Fits(req'[y]) /\ Good(users', req'[y])
  BY <1>5, <1>6, <1>8 DEF Inv, TypeOK
<1>10. TypeOK'
  BY <1>2, <1>5, <1>7, <1>9 DEF Inv, TypeOK
<1>11. Busy(boot, req)
  BY <1>2 DEF Busy
<1>12. Governed(users', boot', req', crossed')
  BY <1>2, <1>5, <1>11 DEF Inv, Governed
<1>13. QED
  BY <1>2, <1>5, <1>9, <1>10, <1>12 DEF Inv

LEMMA CommitPasswordInv ==
  ASSUME Inv, NEW r \in Requests, CommitPassword(r)
  PROVE  Inv'
<1> DEFINE q == req[r]
           u == q.target
<1>1. q \in Request /\ Fits(q) /\ Held(users, q) /\ users \in [UserIds -> Account \cup {None}]
  BY ReqFacts DEF Good
<1>2. /\ q.pc = "commit" /\ q.op = "password" /\ boot' = boot /\ crossed' = crossed
      /\ users' = [users EXCEPT ![u].password = q.fresh]
      /\ Change(r, u, q.swept)
  BY DEF CommitPassword
<1>3. u \in UserIds /\ q.fresh \in Passwords /\ users[u] # None
  BY <1>1, <1>2 DEF Fits, Held, Writes
<1>4. users[u] \in Account
  BY <1>1, <1>3
<1> DEFINE a == [users[u] EXCEPT !.password = q.fresh]
<1>5. a \in Account /\ a.admin = users[u].admin
  BY <1>3, <1>4 DEF Account
<1>6. users' = [users EXCEPT ![u] = a]
  BY <1>2
<1> HIDE DEF a, u
<1>7. /\ users' \in [UserIds -> Account \cup {None}] /\ users'[u] = a /\ a # None
      /\ \A v \in UserIds : v # u => users'[v] = users[v]
  BY <1>1, <1>3, <1>5, <1>6, AuthAssumption DEF Account
<1>8. SomeAdmin(users) => SomeAdmin(users')
  BY <1>3, <1>5, <1>7 DEF SomeAdmin
<1>9. SomeUser(users') => SomeUser(users)
  BY <1>3 DEF SomeUser
<1>10. crossed \in BOOLEAN
  BY ReqFacts
<1>11. QED
  BY <1>2, <1>3, <1>7, <1>8, <1>9, <1>10, Changed

LEMMA CommitRoleInv ==
  ASSUME Inv, NEW r \in Requests, CommitRole(r)
  PROVE  Inv'
<1> DEFINE q == req[r]
           u == q.target
<1>1. /\ q \in Request /\ Fits(q) /\ Held(users, q) /\ users \in [UserIds -> Account \cup {None}]
      /\ NotSelf(q) /\ crossed \in BOOLEAN
  BY ReqFacts DEF Good
<1>2. /\ q.pc = "commit" /\ q.op = "role" /\ boot' = boot
      /\ users' = IF Writes(q) THEN [users EXCEPT ![u].admin = q.role] ELSE users
      /\ Change(r, u, q.swept)
      /\ crossed' = (crossed \/ ((q.admin /\ ~q.role) /\ ~Admin(q.me)))
  BY DEF CommitRole, Crosses
<1>3. u \in UserIds /\ q.me \in UserIds /\ q.me # u /\ q.role \in BOOLEAN /\ q.admin \in BOOLEAN
  BY <1>1, <1>2 DEF Fits, NotSelf, Request
<1>4. Admin(q.me) \in BOOLEAN
  <2>1. Known(q.me) => users[q.me].admin \in BOOLEAN
    BY <1>1, <1>3 DEF Known, Account
  <2>2. QED
    BY <2>1 DEF Admin, Known
<1>5. crossed' \in BOOLEAN /\ (~crossed' => ~crossed)
  BY <1>1, <1>2, <1>3, <1>4
<1>6. CASE ~Writes(q)
  <2>1. users' = users
    BY <1>2, <1>6
  <2>2. users[u] = None => ~Locked(u)
    <3> SUFFICES ASSUME NEW x \in Requests, req[x].pc = "commit", req[x].target = u, Writes(req[x])
                 PROVE  users[u] # None
      BY DEF Locked
    <3>1. QED
      BY ReqFacts DEF Good, Held
  <2> HIDE DEF u
  <2>3. QED
    BY <1>1, <1>2, <1>3, <1>5, <2>1, <2>2, Changed
<1>7. CASE Writes(q)
  <2>1. users[u] # None
    BY <1>1, <1>2, <1>7 DEF Held
  <2>2. users[u] \in Account
    BY <1>1, <1>3, <2>1
  <2> DEFINE a == [users[u] EXCEPT !.admin = q.role]
  <2>3. a \in Account /\ a.admin = q.role
    BY <1>3, <2>2 DEF Account
  <2>4. users' = [users EXCEPT ![u] = a]
    BY <1>2, <1>7
  <2> HIDE DEF a, u
  <2>5. /\ users' \in [UserIds -> Account \cup {None}] /\ users'[u] = a /\ a # None
        /\ \A v \in UserIds : v # u => users'[v] = users[v]
    BY <1>1, <1>3, <2>3, <2>4, AuthAssumption DEF Account
  <2>6. ~crossed' => q.role \/ Admin(q.me)
    <3>1. q.role # q.admin
      BY <1>2, <1>7 DEF Writes
    <3>2. QED
      BY <1>2, <1>3, <3>1
  <2>7. ~crossed' => (SomeAdmin(users) => SomeAdmin(users'))
    <3>1. CASE q.role
      BY <3>1, <1>3, <2>3, <2>5 DEF SomeAdmin
    <3>2. CASE Admin(q.me)
      BY <3>2, <1>3, <2>5 DEF Admin, Known, SomeAdmin
    <3>3. QED
      BY <3>1, <3>2, <2>6
  <2>8. SomeUser(users') => SomeUser(users)
    BY <1>3, <2>1 DEF SomeUser
  <2>9. QED
    BY <1>2, <1>3, <1>5, <2>5, <2>7, <2>8, Changed
<1>8. QED
  BY <1>6, <1>7

LEMMA EraseInv ==
  ASSUME Inv, NEW r \in Requests, Erase(r)
  PROVE  Inv'
<1> DEFINE q == req[r]
           u == q.target
<1>1. /\ q \in Request /\ Fits(q) /\ users \in [UserIds -> Account \cup {None}]
      /\ NotSelf(q) /\ crossed \in BOOLEAN
  BY ReqFacts DEF Good
<1>2. /\ q.pc = "erase" /\ boot' = boot /\ users[u] # None /\ ~Locked(u)
      /\ users' = [users EXCEPT ![u] = None]
      /\ Change(r, u, SessionsOf(u))
      /\ crossed' = (crossed \/ ~Admin(q.me))
  BY DEF Erase, Crosses, Known
<1>3. u \in UserIds /\ q.me \in UserIds /\ q.me # u
  BY <1>1, <1>2 DEF Fits, NotSelf
<1>4. Admin(q.me) \in BOOLEAN
  <2>1. Known(q.me) => users[q.me].admin \in BOOLEAN
    BY <1>1, <1>3 DEF Known, Account
  <2>2. QED
    BY <2>1 DEF Admin, Known
<1>5. crossed' \in BOOLEAN /\ (~crossed' => ~crossed /\ Admin(q.me))
  BY <1>1, <1>2, <1>4
<1> HIDE DEF u
<1>6. /\ users' \in [UserIds -> Account \cup {None}]
      /\ \A v \in UserIds : v # u => users'[v] = users[v]
  BY <1>1, <1>2, <1>3
<1>7. ~crossed' => SomeAdmin(users')
  BY <1>3, <1>5, <1>6 DEF Admin, Known, SomeAdmin
<1>8. SomeUser(users)
  BY <1>2, <1>3 DEF SomeUser
<1>9. QED
  BY <1>2, <1>3, <1>5, <1>6, <1>7, <1>8, Changed

\* A session ends, or all of a user's do.
LEMMA EndInv ==
  ASSUME Inv, NEW s \in SessionIds, Logout(s) \/ Expire(s) \/ LogoutEverywhere(s)
  PROVE  Inv'
<1>1. /\ sessions \in [SessionIds -> Session \cup {None}]
      /\ \A x \in SessionIds : Told(users, sessions[x])
      /\ req \in [Requests -> Request] /\ \A x \in Requests : Fits(req[x]) /\ Good(users, req[x])
  BY DEF Inv, TypeOK
<1>2. UNCHANGED <<boot, users, crossed>>
  BY DEF Logout, Expire, LogoutEverywhere
<1>3. /\ sessions' \in [SessionIds -> Session \cup {None}]
      /\ \A x \in SessionIds : Told(users, sessions'[x])
  <2>1. CASE Logout(s) \/ Expire(s)
    <3>1. sessions' = [sessions EXCEPT ![s] = None]
      BY <2>1 DEF Logout, Expire
    <3>2. Told(users, None)
      BY DEF Told
    <3>3. QED
      BY <3>1, <3>2, <1>1
  <2>2. CASE LogoutEverywhere(s)
    <3>1. sessions' = [x \in SessionIds |->
                        IF x \in SessionsOf(sessions[s].user) THEN None ELSE sessions[x]]
      BY <2>2 DEF LogoutEverywhere, Revoke
    <3>2. Told(users, None)
      BY DEF Told
    <3>3. QED
      BY <3>1, <3>2, <1>1
  <2>3. QED
    BY <2>1, <2>2
<1>4. /\ req' \in [Requests -> Request]
      /\ \A x \in Requests : /\ Fits(req'[x]) /\ Good(users, req'[x])
                             /\ req'[x].pc = req[x].pc
  <2>1. CASE Logout(s) \/ Expire(s)
    BY <2>1, <1>1 DEF Logout, Expire
  <2>2. CASE LogoutEverywhere(s)
    <3> DEFINE u == sessions[s].user
    <3>1. u \in UserIds
      BY <2>2, <1>1 DEF LogoutEverywhere, Accepted, Session
    <3>2. req' = [x \in Requests |-> Overtaken(u, req[x])]
      BY <2>2 DEF LogoutEverywhere
    <3> HIDE DEF u
    <3>3. ASSUME NEW x \in Requests
          PROVE  /\ Overtaken(u, req[x]) \in Request /\ Fits(Overtaken(u, req[x]))
                 /\ Good(users, Overtaken(u, req[x])) /\ Overtaken(u, req[x]).pc = req[x].pc
      <4>1. Held(users, req[x]) /\ req[x] \in Request
        BY <1>1 DEF Good
      <4>2. QED
        BY <1>1, <3>1, <4>1, OvertakenGood
    <3>4. QED
      BY <3>2, <3>3
  <2>3. QED
    BY <2>1, <2>2
<1>5. TypeOK'
  BY <1>2, <1>3, <1>4 DEF Inv, TypeOK
<1>6. Governed(users, boot, req', crossed)
  BY <1>4 DEF Inv, Governed, Busy
<1>7. QED
  BY <1>2, <1>3, <1>4, <1>5, <1>6 DEF Inv

LEMMA InitInv == Init => Inv
<1> SUFFICES ASSUME Init PROVE Inv
  OBVIOUS
<1>1. /\ \A r \in Requests : req[r] = NoRequest
      /\ \A s \in SessionIds : sessions[s] = None
      /\ \A u \in UserIds : users[u] = None
      /\ \A p \in Processes : boot[p] = "down"
  BY DEF Init
<1>2. TypeOK
  BY NoRequestGood DEF Init, TypeOK
<1>3. Governed(users, boot, req, crossed)
  BY <1>1, NoRequestGood DEF Governed, SomeUser, Busy
<1>4. QED
  BY <1>1, <1>2, <1>3, NoRequestGood DEF Inv, Told

LEMMA NextInv == Inv /\ [Next]_vars => Inv'
<1> SUFFICES ASSUME Inv, [Next]_vars PROVE Inv'
  OBVIOUS
<1>1. ASSUME NEW r \in Requests, Arrive(r) \/ Step(r) PROVE Inv'
  BY <1>1, ArriveInv, GoOnInv, OpenSessionInv, InsertInv, CommitPasswordInv, CommitRoleInv,
     EraseInv DEF Step
<1>2. ASSUME NEW s \in SessionIds, Logout(s) \/ Expire(s) \/ LogoutEverywhere(s) PROVE Inv'
  BY <1>2, EndInv
<1>3. ASSUME NEW p \in Processes, Start(p) \/ Restart(p) PROVE Inv'
  BY <1>3, StartInv
<1>4. CASE UNCHANGED vars
  <2>1. UNCHANGED <<boot, users, sessions, req, crossed>>
    BY <1>4 DEF vars
  <2>2. TypeOK'
    BY <2>1 DEF Inv, TypeOK
  <2>3. QED
    BY <2>1, <2>2 DEF Inv
<1>5. QED
  BY <1>1, <1>2, <1>3, <1>4 DEF Next

\* Every reachable state satisfies the inductive invariant.
THEOREM InvHolds == Spec => []Inv
BY InitInv, NextInv, PTL DEF Spec

-----------------------------------------------------------------------------
(* What it implies *)

\* TypeOK: values stay in their sets, and no request of the auth routes comes to a
\* statement without what it uses.
THEOREM TypeCorrect == Spec => []TypeOK
<1>1. Inv => TypeOK
  BY DEF Inv
<1>2. QED
  BY <1>1, InvHolds, PTL

\* SessionsMatchAccounts: update_password, change_user_role and delete_user leave no
\* session that was there before the change and says something else than the row.
THEOREM SessionsTrue == Spec => []SessionsMatchAccounts
<1>1. Inv => SessionsMatchAccounts
  BY DEF Inv, Told, SessionsMatchAccounts, Known
<1>2. QED
  BY <1>1, InvHolds, PTL

\* AdminRemains: ensure_admin_exists and the guards of change_user_role and delete_user
\* leave an admin, unless two admins cross.
THEOREM AdminStays == Spec => []AdminRemains
<1>1. Inv => AdminRemains
  BY DEF Inv, Governed, SomeUser, SomeAdmin, AdminRemains, Known, Admin
<1>2. QED
  BY <1>1, InvHolds, PTL
=============================================================================
