----------------------------- MODULE UserAdmin -----------------------------
(***************************************************************************)
(* The users table and the requests that write it: POST, PATCH and DELETE   *)
(* /users behind the access check (app/users/router.py,                     *)
(* app/repositories/user_repo.py, app/auth/dependencies.py, app/rbac/) and  *)
(* the last_login_at of POST /auth/verify-otp (app/auth/router.py).         *)
(*                                                                          *)
(* A slot is one database session: a request in any worker, or a process of *)
(* Bootstrap, which composes this module with the scripts that create the   *)
(* first user.  A password hash or a login time is told apart by the slot   *)
(* that wrote it: hashes are salted and times pass, so either differs from  *)
(* whatever was there.  Which id a sequence gives does not matter.          *)
(*                                                                          *)
(* Invalid roles (422) and unknown ids (404) leave no trace and are left    *)
(* out, as are the audit entries, which are part of the commits.            *)
(***************************************************************************)
EXTENDS Naturals, FiniteSets, Sequences

CONSTANTS Emails,       \* addresses
          Slots,        \* database sessions
          Bodies,       \* bodies of PATCH that set a role, a state or both
          MaxUsers,     \* bound: rows
          MaxRequests,  \* bound: requests received
          MaxCrashes,   \* bound: sessions lost
          Same,         \* a column that a change leaves alone
          None          \* no row, id or slot

Ids == 1 .. MaxUsers

Roles == {"admin", "hr"}

ALL_PERMISSIONS ==
  <<"users.manage", "resumes.read", "resumes.write", "resumes.delete", "taxonomy.manage",
    "taxonomy.read", "logs.view", "jd.write", "jd.read", "analysis.write", "results.read">>

AllCodes == {ALL_PERMISSIONS[i] : i \in 1 .. Len(ALL_PERMISSIONS)}

ROLE_DEFAULTS ==
  [admin |-> AllCodes,
   hr    |-> AllCodes \ {"users.manage", "resumes.delete", "taxonomy.manage", "logs.view"}]

(* user_permissions are part of the row; UserPermissions has their edits.  *)
User == [email : Emails, role : Roles, is_active : BOOLEAN,
         password : Slots, login : Slots \cup {None}, extra : SUBSET AllCodes]

(* The columns a request sets, and what it sets them to.                   *)
Change == [role : Roles \cup {Same}, is_active : BOOLEAN \cup {Same},
           password : Slots \cup {Same}, login : Slots \cup {Same}]

NoChange == [role |-> Same, is_active |-> Same, password |-> Same, login |-> Same]

ASSUME UsersAssumption ==
  /\ {MaxUsers, MaxRequests, MaxCrashes} \subseteq Nat
  /\ Bodies \subseteq Change
  /\ None \notin User /\ None \notin Ids /\ None \notin Slots
  /\ Same \notin Roles /\ Same \notin BOOLEAN /\ Same \notin Slots

VARIABLES
  users,     \* committed rows, by id
  req,       \* what each session does
  received,  \* number of requests received
  crashes    \* sessions lost so far

userVars == <<users, req, received, crashes>>

(* loaded: the row in the identity map of the session; written: what its   *)
(* UPDATE set, or the row its INSERT added, until the commit.              *)
Handler == [pc      : {"idle", "check", "find", "flush", "insert", "commit", "added"},
            actor   : Ids \cup {None},
            target  : Ids \cup {None},
            body    : Change \cup User,
            loaded  : User \cup {None},
            written : Change \cup User]

Idle == [pc |-> "idle", actor |-> None, target |-> None, body |-> NoChange,
         loaded |-> None, written |-> NoChange]

UsersTypeOK ==
  /\ users \in [Ids -> User \cup {None}]
  /\ req \in [Slots -> Handler]
  /\ received \in 0 .. MaxRequests
  /\ crashes \in 0 .. MaxCrashes

SessionsInit ==
  /\ req = [s \in Slots |-> Idle]
  /\ received = 0
  /\ crashes = 0

Rollback(s) == req' = [req EXCEPT ![s] = Idle]

Stored == {i \in Ids : users[i] # None}

-----------------------------------------------------------------------------
(* Access: get_current_user and require_permission.                        *)

EffectivePermissions(u) == ROLE_DEFAULTS[u.role] \cup u.extra

HasPermission(u, code) == code \in EffectivePermissions(u)

(* DELETE /users/{id} is an edit that deactivates.                         *)
Deactivation == [NoChange EXCEPT !.is_active = FALSE]

(* UserUpdate: some columns, or a password of the session's own.           *)
Edits(s) == Bodies \cup {[NoChange EXCEPT !.password = s]}

(* UserCreate, with the defaults of the other columns.                     *)
NewUser(s, email, role) ==
  [email |-> email, role |-> role, is_active |-> TRUE, password |-> s, login |-> None,
   extra |-> {}]

Receive(s, actor, target, body, pc) ==
  /\ req[s].pc = "idle"
  /\ received < MaxRequests
  /\ received' = received + 1
  /\ req' = [req EXCEPT ![s] = [Idle EXCEPT !.pc = pc, !.actor = actor,
                                           !.target = target, !.body = body]]
  /\ UNCHANGED <<users, crashes>>

ReceivePost(s) ==
  \E actor \in Stored, email \in Emails, role \in Roles :
    Receive(s, actor, None, NewUser(s, email, role), "check")

ReceivePatch(s) ==
  \E actor, target \in Stored, body \in Edits(s) : Receive(s, actor, target, body, "check")

ReceiveDelete(s) ==
  \E actor, target \in Stored : Receive(s, actor, target, Deactivation, "check")

(* POST /auth/verify-otp with the right code: get_by_email is its lookup.  *)
ReceiveVerify(s) ==
  \E i \in Stored : Receive(s, None, i, [NoChange EXCEPT !.login = s], "find")

(* The row of the token's user is read anew for every request; a 401 or a  *)
(* 403 ends the request.  The session keeps the row it has read.           *)
Check(s) ==
  LET u == users[req[s].actor] IN
  /\ req[s].pc = "check"
  /\ IF u.is_active /\ HasPermission(u, "users.manage")
     THEN req' = [req EXCEPT ![s].pc = "find", ![s].loaded = u]
     ELSE Rollback(s)
  /\ UNCHANGED <<users, received, crashes>>

(* get_by_id.  An actor who edits himself finds the object that the check  *)
(* loaded: the second SELECT does not refresh it.  A verification refuses  *)
(* an inactive account.                                                    *)
FindTarget(s) ==
  LET i == req[s].target
      u == IF req[s].actor = i THEN req[s].loaded ELSE users[i] IN
  /\ req[s].pc = "find"
  /\ i # None
  /\ IF req[s].actor # None \/ u.is_active
     THEN req' = [req EXCEPT ![s].pc = "flush", ![s].loaded = u]
     ELSE Rollback(s)
  /\ UNCHANGED <<users, received, crashes>>

EmailTaken(email) == \E i \in Stored : users[i].email = email

(* get_by_email: a 409 when the address is registered.                     *)
FindEmail(s) ==
  /\ req[s].pc = "find"
  /\ req[s].target = None
  /\ IF EmailTaken(req[s].body.email)
     THEN Rollback(s)
     ELSE req' = [req EXCEPT ![s].pc = "insert"]
  /\ UNCHANGED <<users, received, crashes>>

-----------------------------------------------------------------------------
(* update and create of the repository, commit.                            *)

(* The open transactions that an UPDATE of row i, or an INSERT of an       *)
(* address, must wait for.                                                 *)
RowHolders(s, i) ==
  {t \in Slots \ {s} : req[t].pc = "commit" /\ req[t].target = i /\ req[t].written # NoChange}

EmailHolders(s, email) ==
  {t \in Slots \ {s} : req[t].pc = "added" /\ req[t].written.email = email}

(* Variant that drops every false value of the body, not only the missing. *)
DirtyTruthy(body, loaded) ==
  [role      |-> IF body.role = loaded.role THEN Same ELSE body.role,
   is_active |-> IF body.is_active = FALSE THEN Same ELSE body.is_active,
   password  |-> body.password,
   login     |-> body.login]

(* Variant that writes the whole row back.                                 *)
DirtyAll(body, loaded) ==
  [role      |-> IF body.role = Same THEN loaded.role ELSE body.role,
   is_active |-> IF body.is_active = Same THEN loaded.is_active ELSE body.is_active,
   password  |-> body.password,
   login     |-> body.login]

(* The columns the flush writes: those whose value is another than the     *)
(* loaded one.                                                             *)
Dirty(body, loaded) ==
  [role      |-> IF body.role = loaded.role THEN Same ELSE body.role,
   is_active |-> IF body.is_active = loaded.is_active THEN Same ELSE body.is_active,
   password  |-> body.password,
   login     |-> body.login]

(* update: the UPDATE waits for the row.  Without a dirty column there is  *)
(* none.                                                                   *)
Flush(s) ==
  LET written == Dirty(req[s].body, req[s].loaded) IN
  /\ req[s].pc = "flush"
  /\ written = NoChange \/ RowHolders(s, req[s].target) = {}
  /\ req' = [req EXCEPT ![s].pc = "commit", ![s].written = written]
  /\ UNCHANGED <<users, received, crashes>>

FreeIds(s) == {i \in Ids : users[i] = None /\ \A t \in Slots \ {s} : req[t].target # i}

(* Variant that trusts the lookup.                                         *)
InsertUnchecked(s) ==
  /\ req[s].pc = "insert"
  /\ \E i \in FreeIds(s) :
       /\ \A j \in FreeIds(s) : i <= j
       /\ req' = [req EXCEPT ![s].pc = "added", ![s].target = i, ![s].written = req[s].body]
  /\ UNCHANGED <<users, received, crashes>>

(* create: the INSERT waits for other INSERTs of the address.  An address  *)
(* that is stored then violates the unique constraint: a 500.              *)
Insert(s) ==
  /\ req[s].pc = "insert"
  /\ EmailHolders(s, req[s].body.email) = {}
  /\ IF EmailTaken(req[s].body.email)
     THEN Rollback(s)
     ELSE \E i \in FreeIds(s) :
            /\ \A j \in FreeIds(s) : i <= j
            /\ req' = [req EXCEPT ![s].pc = "added", ![s].target = i,
                                  ![s].written = req[s].body]
  /\ UNCHANGED <<users, received, crashes>>

Column(old, new) == IF new = Same THEN old ELSE new

(* What an UPDATE leaves of the row it finds.                              *)
Updated(row, ch) ==
  [row EXCEPT !.role = Column(@, ch.role), !.is_active = Column(@, ch.is_active),
              !.password = Column(@, ch.password), !.login = Column(@, ch.login)]

CommitEdit(s) ==
  /\ req[s].pc = "commit"
  /\ users' = [users EXCEPT ![req[s].target] = Updated(@, req[s].written)]
  /\ Rollback(s)
  /\ UNCHANGED <<received, crashes>>

CommitNew(s) ==
  /\ req[s].pc = "added"
  /\ users' = [users EXCEPT ![req[s].target] = req[s].written]
  /\ Rollback(s)
  /\ UNCHANGED <<received, crashes>>

(* The worker of the session dies and PostgreSQL rolls back.               *)
Crash(s) ==
  /\ req[s].pc # "idle"
  /\ crashes < MaxCrashes
  /\ crashes' = crashes + 1
  /\ Rollback(s)
  /\ UNCHANGED <<users, received>>

(* PUT /users/{id}/permissions, which UserPermissions has in detail, from  *)
(* here: the committed grants of a user are others.  users.manage is the   *)
(* one that a request of this module is asked for.                         *)
Regrant(i, codes) ==
  /\ received < MaxRequests
  /\ received' = received + 1
  /\ users[i] # None
  /\ users' = [users EXCEPT ![i].extra = codes]
  /\ UNCHANGED <<req, crashes>>

ReceiveAny(s) == ReceivePost(s) \/ ReceivePatch(s) \/ ReceiveDelete(s) \/ ReceiveVerify(s)

SessionStep(s) ==
  Check(s) \/ FindTarget(s) \/ FindEmail(s) \/ Flush(s) \/ Insert(s)
    \/ CommitEdit(s) \/ CommitNew(s)

-----------------------------------------------------------------------------
(* No address belongs to two users, with any requests and any bootstrap in *)
(* flight: get_by_email, and so the login, relies on it.                   *)
EmailsAreUnique ==
  \A i, j \in Stored : users[i].email = users[j].email => i = j

(* An edit touches no column that it was not asked to change, however long *)
(* ago it loaded the row: a deactivation, a new role or a grant that was   *)
(* committed in between stays.                                             *)
EditsKeepToTheirColumns ==
  [][\A s \in Slots : CommitEdit(s) =>
       LET old == users[req[s].target]
           new == users'[req[s].target]
       IN /\ new.email = old.email /\ new.extra = old.extra
          /\ \A c \in DOMAIN NoChange : req[s].body[c] = Same => new[c] = old[c]]_userVars

(* When an edit is done, each column it was asked to change has the value  *)
(* that was asked for, unless it had that value when the edit loaded the   *)
(* row: then a change that came in between stays.                          *)
EditsTakeEffect ==
  [][\A s \in Slots : CommitEdit(s) =>
       \A c \in DOMAIN NoChange :
         req[s].body[c] \notin {Same, req[s].loaded[c]} =>
           users'[req[s].target][c] = req[s].body[c]]_userVars

-----------------------------------------------------------------------------
(* Parts of the inductive invariant of Bootstrap.                          *)

(* What a session refers to is there, and it writes what differed.         *)
SessionInv ==
  \A s \in Slots :
    /\ req[s].pc = "check" => req[s].actor \in Stored
    /\ req[s].pc \in {"check", "find"} =>
         IF req[s].target = None THEN req[s].body \in User
         ELSE req[s].target \in Stored /\ req[s].body \in Change
    /\ req[s].pc = "find" /\ req[s].actor # None => req[s].loaded \in User
    /\ req[s].pc = "insert" => req[s].body \in User
    /\ req[s].pc \in {"flush", "commit"} =>
         req[s].target \in Stored /\ req[s].body \in Change /\ req[s].loaded \in User
    /\ req[s].pc = "commit" => req[s].written = Dirty(req[s].body, req[s].loaded)

(* An INSERT that is not committed is the only one of its address and id.  *)
InsertInv ==
  \A s \in Slots : req[s].pc = "added" =>
    /\ req[s].written \in User
    /\ req[s].target \in Ids \ Stored
    /\ ~EmailTaken(req[s].written.email)
    /\ \A t \in Slots \ {s} : req[t].pc = "added" =>
         /\ req[t].written.email # req[s].written.email
         /\ req[t].target # req[s].target
=============================================================================
