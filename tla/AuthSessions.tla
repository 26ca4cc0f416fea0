---------------------------- MODULE AuthSessions ----------------------------
(***************************************************************************)
(* Accounts and login sessions: services/auth.py, the routes under         *)
(* /api/auth and the middleware that admits requests.  A token is signed   *)
(* with the role its user had at login and is good while the row of its    *)
(* session is active; changing a password or a role, deleting an account   *)
(* and logging out everywhere revoke sessions.  Requests interleave at     *)
(* every statement, in any process.                                        *)
(*                                                                         *)
(* Several processes start at once, and each makes sure that an account    *)
(* exists.                                                                 *)
(***************************************************************************)
CONSTANTS
  Processes,    \* web processes
  Requests,     \* slots for concurrent requests
  UserIds,      \* ids of users; bounds the table
  SessionIds,   \* ids of sessions; bounds the active ones
  Emails,
  AdminEmail,   \* ADMIN_EMAIL, the account the first start creates
  Passwords,
  None

ASSUME AuthAssumption ==
  /\ AdminEmail \in Emails
  /\ Passwords # {}
  /\ None \notin UserIds \cup SessionIds \cup Emails \cup Passwords
  /\ None \notin [email : Emails, password : Passwords, admin : BOOLEAN]

Ops    == {"none", "login", "register", "invite", "password", "role", "delete"}
Labels == {"idle", "lookup", "refresh", "session", "unused", "insert",
           "verify", "repass", "load", "apply", "commit", "erase"}

\* A login that has verified a password and has not stored its session.
LoginLabels == {"refresh", "session"}

VARIABLES
  boot,       \* of each process: "down", "counted" or "up"
  users,      \* the table
  sessions,   \* active sessions: a revoked, expired or deleted one is None
  req,        \* the request in each slot
  crossed     \* history: an admin's change went through after that admin was gone

vars == <<boot, users, sessions, req, crossed>>

\* A slot: the route, its user (me), target and form, and its locals: the role read
\* (admin), the password verified, the sessions its UPDATE revokes (swept).  late is
\* history: see Change.
NoRequest ==
  [pc |-> "idle", op |-> "none", me |-> None, target |-> None, email |-> None,
   password |-> None, fresh |-> None, admin |-> FALSE, role |-> FALSE,
   swept |-> {}, late |-> FALSE]

Init ==
  /\ boot     = [p \in Processes |-> "down"]
  /\ users    = [u \in UserIds |-> None]
  /\ sessions = [s \in SessionIds |-> None]
  /\ req      = [r \in Requests |-> NoRequest]
  /\ crossed  = FALSE

Put(r, q)    == req' = [req EXCEPT ![r] = q]
Goto(r, l)   == Put(r, [req[r] EXCEPT !.pc = l])
Finish(r)    == Put(r, NoRequest)
Known(u)     == users[u] # None
Named(e)     == {u \in UserIds : Known(u) /\ users[u].email = e}
Admin(u)     == Known(u) /\ users[u].admin
Serving      == \E p \in Processes : boot[p] = "up"

\* The token of s passes: the middleware asks, and the route asks again.
Accepted(s)  == Serving /\ sessions[s] # None

\* A uuid4: no row has it and no request remembers it.
FreshUser(u) == ~Known(u) /\ \A r \in Requests : req[r].me # u /\ req[r].target # u

SessionsOf(u) == {s \in SessionIds : sessions[s] # None /\ sessions[s].user = u}

\* The row of u is locked: an UPDATE of it awaits its commit.
Writes(q) == q.op = "password" \/ q.role # q.admin
Locked(u) == \E r \in Requests : req[r].pc = "commit" /\ req[r].target = u /\ Writes(req[r])

\* revoke_all_user_sessions in a statement of its own.
Revoke(u) == sessions' = [s \in SessionIds |-> IF s \in SessionsOf(u) THEN None ELSE sessions[s]]

Overtaken(u, q) == IF q.pc \in LoginLabels /\ q.me = u THEN [q EXCEPT !.late = TRUE] ELSE q

-----------------------------------------------------------------------------
(* Startup: ensure_admin_exists *)

Count(p) ==
  /\ boot[p] = "down"
  /\ boot' = [boot EXCEPT ![p] = IF \E u \in UserIds : Known(u) THEN "up" ELSE "counted"]
  /\ UNCHANGED <<users, sessions, req, crossed>>

\* Mutant of CreateAdmin: the account is an ordinary one.
CreateOrdinary(p) ==
  /\ boot[p] = "counted"
  /\ Named(AdminEmail) = {}
  /\ \E u \in UserIds, w \in Passwords :
       /\ FreshUser(u)
       /\ users' = [users EXCEPT ![u] =
                      [email |-> AdminEmail, password |-> w, admin |-> FALSE]]
  /\ boot' = [boot EXCEPT ![p] = "up"]
  /\ UNCHANGED <<sessions, req, crossed>>

CreateAdmin(p) ==
  /\ boot[p] = "counted"
  /\ Named(AdminEmail) = {}
  /\ \E u \in UserIds, w \in Passwords :
       /\ FreshUser(u)
       /\ users' = [users EXCEPT ![u] =
                      [email |-> AdminEmail, password |-> w, admin |-> TRUE]]
  /\ boot' = [boot EXCEPT ![p] = "up"]
  /\ UNCHANGED <<sessions, req, crossed>>

\* email is unique: the second of two processes that counted nobody fails to start.
StartFails(p) ==
  /\ boot[p] = "counted"
  /\ Named(AdminEmail) # {}
  /\ boot' = [boot EXCEPT ![p] = "down"]
  /\ UNCHANGED <<users, sessions, req, crossed>>

\* A process is replaced.
Restart(p) ==
  /\ boot[p] = "up"
  /\ boot' = [boot EXCEPT ![p] = "down"]
  /\ UNCHANGED <<users, sessions, req, crossed>>

-----------------------------------------------------------------------------
(* login: authenticate_user, then create_access_token *)

Login(r, e, w) ==
  /\ Serving
  /\ req[r].pc = "idle"
  /\ Put(r, [NoRequest EXCEPT !.pc = "lookup", !.op = "login", !.email = e, !.password = w])
  /\ UNCHANGED <<boot, users, sessions, crossed>>

\* get_by_email and verify_password.  The login time that is written next is not
\* modelled; to a row deleted since, writing it does nothing.
Lookup(r) ==
  /\ req[r].pc = "lookup"
  /\ \E u \in Named(req[r].email) :
       /\ users[u].password = req[r].password
       /\ Put(r, [req[r] EXCEPT !.pc = "refresh", !.me = u, !.email = None])
  /\ UNCHANGED <<boot, users, sessions, crossed>>

\* session.refresh reads the row again: its role goes into the token.
Refresh(r) ==
  /\ req[r].pc = "refresh"
  /\ Known(req[r].me)
  /\ Put(r, [req[r] EXCEPT !.pc = "session", !.admin = users[req[r].me].admin])
  /\ UNCHANGED <<boot, users, sessions, crossed>>

\* create_session: its foreign key refuses a deleted user.
OpenSession(r) ==
  /\ req[r].pc = "session"
  /\ Known(req[r].me)
  /\ \E s \in SessionIds :
       /\ sessions[s] = None
       /\ \A x \in Requests : s \notin req[x].swept
       /\ sessions' = [sessions EXCEPT ![s] =
            [user |-> req[r].me, admin |-> req[r].admin,
             password |-> req[r].password, late |-> req[r].late]]
  /\ Finish(r)
  /\ UNCHANGED <<boot, users, crossed>>

-----------------------------------------------------------------------------
(* register and invite_user *)

Register(r, e, w) ==
  /\ Serving
  /\ req[r].pc = "idle"
  /\ Put(r, [NoRequest EXCEPT !.pc = "unused", !.op = "register", !.email = e,
                              !.password = w])
  /\ UNCHANGED <<boot, users, sessions, crossed>>

\* require_admin trusts the token.  The temporary password may fail the strength test.
Invite(r, s, e, w, role) ==
  /\ Accepted(s)
  /\ req[r].pc = "idle"
  /\ sessions[s].admin
  /\ Put(r, [NoRequest EXCEPT !.pc = "unused", !.op = "invite", !.email = e,
                              !.password = w, !.role = role])
  /\ UNCHANGED <<boot, users, sessions, crossed>>

\* register_user looks for the address ...
Unused(r) ==
  /\ req[r].pc = "unused"
  /\ Named(req[r].email) = {}
  /\ Goto(r, "insert")
  /\ UNCHANGED <<boot, users, sessions, crossed>>

\* Mutant of Insert: the token is made for no user.
InsertAnonymous(r) ==
  /\ req[r].pc = "insert"
  /\ Named(req[r].email) = {}
  /\ \E u \in UserIds :
       /\ FreshUser(u)
       /\ users' = [users EXCEPT ![u] =
            [email |-> req[r].email, password |-> req[r].password, admin |-> req[r].role]]
       /\ Put(r, IF req[r].op = "register"
                   THEN [req[r] EXCEPT !.pc = "session", !.email = None]
                   ELSE NoRequest)
  /\ UNCHANGED <<boot, sessions, crossed>>

\* ... and inserts the row, which the unique constraint may still refuse.  Whoever
\* registers is logged in.
Insert(r) ==
  /\ req[r].pc = "insert"
  /\ Named(req[r].email) = {}
  /\ \E u \in UserIds :
       /\ FreshUser(u)
       /\ users' = [users EXCEPT ![u] =
            [email |-> req[r].email, password |-> req[r].password, admin |-> req[r].role]]
       /\ Put(r, IF req[r].op = "register"
                   THEN [req[r] EXCEPT !.pc = "session", !.me = u, !.email = None]
                   ELSE NoRequest)
  /\ UNCHANGED <<boot, sessions, crossed>>

-----------------------------------------------------------------------------
(* Requests of a session; require_admin trusts the role in the token *)

Admitted(r, s, op) ==
  /\ Accepted(s)
  /\ req[r].pc = "idle"
  /\ op \in {"role", "delete"} => sessions[s].admin

ChangePassword(r, s, old, new) ==
  /\ Admitted(r, s, "password")
  /\ Put(r, [NoRequest EXCEPT !.pc = "verify", !.op = "password", !.me = sessions[s].user,
                              !.password = old, !.fresh = new])
  /\ UNCHANGED <<boot, users, sessions, crossed>>

Verify(r) ==
  /\ req[r].pc = "verify"
  /\ Known(req[r].me)
  /\ users[req[r].me].password = req[r].password
  /\ Put(r, [req[r] EXCEPT !.pc = "repass", !.password = None])
  /\ UNCHANGED <<boot, users, sessions, crossed>>

\* update_password and revoke_all_user_sessions: what they change shows when they are
\* committed, what they find is there now.
Repass(r) ==
  /\ req[r].pc = "repass"
  /\ Known(req[r].me)
  /\ ~Locked(req[r].me)
  /\ Put(r, [req[r] EXCEPT !.pc = "commit", !.target = req[r].me,
                           !.swept = SessionsOf(req[r].me)])
  /\ UNCHANGED <<boot, users, sessions, crossed>>

\* Mutant of ChangeRole: admins may change their own role.
ChangeAnyRole(r, s, u, role) ==
  /\ Admitted(r, s, "role")
  /\ Put(r, [NoRequest EXCEPT !.pc = "load", !.op = "role", !.me = sessions[s].user,
                              !.target = u, !.role = role])
  /\ UNCHANGED <<boot, users, sessions, crossed>>

\* change_user_role: not one's own.
ChangeRole(r, s, u, role) ==
  /\ Admitted(r, s, "role")
  /\ u # sessions[s].user
  /\ Put(r, [NoRequest EXCEPT !.pc = "load", !.op = "role", !.me = sessions[s].user,
                              !.target = u, !.role = role])
  /\ UNCHANGED <<boot, users, sessions, crossed>>

\* update() loads the row ...
LoadRole(r) ==
  /\ req[r].pc = "load"
  /\ Known(req[r].target)
  /\ Put(r, [req[r] EXCEPT !.pc = "apply", !.admin = users[req[r].target].admin])
  /\ UNCHANGED <<boot, users, sessions, crossed>>

\* ... and writes the role if it differs from the one loaded; then every session of the
\* user is revoked.
ApplyRole(r) ==
  /\ req[r].pc = "apply"
  /\ Known(req[r].target)
  /\ Writes(req[r]) => ~Locked(req[r].target)
  /\ Put(r, [req[r] EXCEPT !.pc = "commit", !.swept = SessionsOf(req[r].target)])
  /\ UNCHANGED <<boot, users, sessions, crossed>>

\* What an actor who is no admin any more takes from the others.
Crosses(r, takes) == crossed' = (crossed \/ (takes /\ ~Admin(req[r].me)))

\* The commit of a change of u ends the sessions that were swept.  A login of u that
\* came between its password check and its session meanwhile is late: its session is
\* not among them.
Change(r, u, swept) ==
  /\ sessions' = [s \in SessionIds |->
                   IF s \in swept THEN None
                   ELSE IF s \in SessionsOf(u) THEN [sessions[s] EXCEPT !.late = TRUE]
                   ELSE sessions[s]]
  /\ req' = [x \in Requests |-> IF x = r THEN NoRequest ELSE Overtaken(u, req[x])]

CommitPassword(r) ==
  /\ req[r].pc = "commit"
  /\ req[r].op = "password"
  /\ users' = [users EXCEPT ![req[r].target].password = req[r].fresh]
  /\ Change(r, req[r].target, req[r].swept)
  /\ UNCHANGED <<boot, crossed>>

\* Mutant of CommitRole: sessions live on.
CommitRoleOnly(r) ==
  /\ req[r].pc = "commit"
  /\ req[r].op = "role"
  /\ users' = IF Writes(req[r]) THEN [users EXCEPT ![req[r].target].admin = req[r].role]
              ELSE users
  /\ req' = [req EXCEPT ![r] = NoRequest]
  /\ Crosses(r, req[r].admin /\ ~req[r].role)
  /\ UNCHANGED <<boot, sessions>>

CommitRole(r) ==
  /\ req[r].pc = "commit"
  /\ req[r].op = "role"
  /\ users' = IF Writes(req[r]) THEN [users EXCEPT ![req[r].target].admin = req[r].role]
              ELSE users
  /\ Change(r, req[r].target, req[r].swept)
  /\ Crosses(r, req[r].admin /\ ~req[r].role)
  /\ UNCHANGED boot

\* delete_user: not oneself.
DeleteUser(r, s, u) ==
  /\ Admitted(r, s, "delete")
  /\ u # sessions[s].user
  /\ Put(r, [NoRequest EXCEPT !.pc = "erase", !.op = "delete", !.me = sessions[s].user,
                              !.target = u])
  /\ UNCHANGED <<boot, users, sessions, crossed>>

\* DELETE and commit; the foreign key takes the sessions along.
Erase(r) ==
  /\ req[r].pc = "erase"
  /\ Known(req[r].target)
  /\ ~Locked(req[r].target)
  /\ users' = [users EXCEPT ![req[r].target] = None]
  /\ Change(r, req[r].target, SessionsOf(req[r].target))
  /\ Crosses(r, TRUE)
  /\ UNCHANGED boot

\* logout: revoke_session; the token is refused from then on, as when it expires.
Logout(s) ==
  /\ Accepted(s)
  /\ sessions' = [sessions EXCEPT ![s] = None]
  /\ UNCHANGED <<boot, users, req, crossed>>

Expire(s) ==
  /\ sessions[s] # None
  /\ sessions' = [sessions EXCEPT ![s] = None]
  /\ UNCHANGED <<boot, users, req, crossed>>

\* logout-all
LogoutEverywhere(s) ==
  /\ Accepted(s)
  /\ Revoke(sessions[s].user)
  /\ req' = [x \in Requests |-> Overtaken(sessions[s].user, req[x])]
  /\ UNCHANGED <<boot, users, crossed>>

\* The answer is an error: a wrong password, a user who is gone, an address in use, a
\* statement that fails, a process that dies.  What was not committed is undone.
Refuse(r) ==
  /\ req[r].pc # "idle"
  /\ Finish(r)
  /\ UNCHANGED <<boot, users, sessions, crossed>>

Arrive(r) ==
  \/ \E e \in Emails, w \in Passwords : Login(r, e, w) \/ Register(r, e, w)
  \/ \E s \in SessionIds :
       \/ \E e \in Emails, w \in Passwords, role \in BOOLEAN : Invite(r, s, e, w, role)
       \/ \E old, new \in Passwords : ChangePassword(r, s, old, new)
       \/ \E u \in UserIds :
            \/ \E role \in BOOLEAN : ChangeRole(r, s, u, role)
            \/ DeleteUser(r, s, u)

Step(r) ==
  \/ Lookup(r) \/ Refresh(r) \/ OpenSession(r)
  \/ Unused(r) \/ Insert(r)
  \/ Verify(r) \/ Repass(r) \/ CommitPassword(r)
  \/ LoadRole(r) \/ ApplyRole(r) \/ CommitRole(r) \/ Erase(r)
  \/ Refuse(r)

Start(p) == Count(p) \/ CreateAdmin(p) \/ StartFails(p)

Next ==
  \/ \E r \in Requests : Arrive(r) \/ Step(r)
  \/ \E s \in SessionIds : Logout(s) \/ Expire(s) \/ LogoutEverywhere(s)
  \/ \E p \in Processes : Start(p) \/ Restart(p)

Spec == Init /\ [][Next]_vars

-----------------------------------------------------------------------------
(* Properties *)

Account == [email : Emails, password : Passwords, admin : BOOLEAN]
Session == [user : UserIds, admin : BOOLEAN, password : Passwords, late : BOOLEAN]
Request ==
  [pc : Labels, op : Ops, me : UserIds \cup {None}, target : UserIds \cup {None},
   email : Emails \cup {None}, password : Passwords \cup {None},
   fresh : Passwords \cup {None}, admin : BOOLEAN, role : BOOLEAN,
   swept : SUBSET SessionIds, late : BOOLEAN]

\* What a request has in hand at a label.
Fits(q) ==
  /\ q.pc \in {"lookup", "unused", "insert"} => q.email \in Emails
  /\ q.pc \in {"lookup", "unused", "insert", "refresh", "session", "verify"}
       => q.password \in Passwords
  /\ q.pc \in {"refresh", "session", "verify", "repass", "load", "apply", "commit", "erase"}
       => q.me \in UserIds
  /\ q.pc \in {"verify", "repass"} => q.fresh \in Passwords
  /\ q.pc \in {"load", "apply", "commit", "erase"} => q.target \in UserIds
  /\ q.pc = "commit" => q.op = "role" \/ (q.op = "password" /\ q.fresh \in Passwords)

\* Values stay in their sets, and a request has what its next statement needs.
TypeOK ==
  /\ boot \in [Processes -> {"down", "counted", "up"}]
  /\ users \in [UserIds -> Account \cup {None}]
  /\ sessions \in [SessionIds -> Session \cup {None}]
  /\ req \in [Requests -> Request]
  /\ \A r \in Requests : Fits(req[r])
  /\ crossed \in BOOLEAN

\* A token that is accepted tells the truth: its user exists, has the role it states,
\* and has the password it was obtained with.  The exception is a login that a change
\* of the account overtook between its password check and its session.
SessionsMatchAccounts ==
  \A s \in SessionIds :
    sessions[s] # None /\ ~sessions[s].late
      => /\ Known(sessions[s].user)
         /\ sessions[s].admin = users[sessions[s].user].admin
         /\ sessions[s].password = users[sessions[s].user].password

\* Nobody can lock everyone out: while there are accounts, one is an admin's.  Two
\* admins who demote or delete each other at once are the exception: the routes only
\* forbid it to oneself, and ask the token, not the table.
AdminRemains ==
  ~crossed /\ (\E u \in UserIds : Known(u)) => \E u \in UserIds : Admin(u)

=============================================================================
