----------------------------- MODULE Bootstrap -----------------------------
(***************************************************************************)
(* How an installation comes up: the entrypoint of the API container        *)
(* (entrypoint.sh: alembic upgrade head, tools/bootstrap.py, uvicorn) and   *)
(* the same two scripts run by hand with docker-compose exec, beside each   *)
(* other on one database, while UserAdmin serves requests.                  *)
(*                                                                          *)
(* The entrypoint runs under set -e, and the container is started again     *)
(* whenever it ends (restart: always).  A script run by hand just ends.     *)
(* The wait for the database and the printing are left out; a container     *)
(* that stops also loses its requests, which UserAdmin has as crashes.      *)
(***************************************************************************)
EXTENDS UserAdmin

CONSTANTS Containers,  \* sessions of the entrypoints' scripts
          Manuals,     \* sessions of scripts that are run by hand
          AdminEmail,  \* ADMIN_BOOTSTRAP_EMAIL
          Installed    \* tables of users of installations that are upgraded

Scripts  == Containers \cup Manuals
Requests == Slots \ Scripts

ASSUME BootstrapAssumption ==
  /\ Scripts \subseteq Slots
  /\ Containers \cap Manuals = {}
  /\ AdminEmail \in Emails
  /\ \A table \in Installed :
       /\ table \in [Ids -> User \cup {None}]
       /\ \A i, j \in Ids : None \notin {table[i], table[j]} /\ table[i].email = table[j].email
                             => i = j

(* The relations that the migrations create, in the order of the revisions.*)
(* Columns are left out, and with them what 002 does to audit_log.         *)
Initial  == {"job_descriptions", "resumes", "analyses", "audit_log"}
AuthRbac == {"users", "permissions", "user_permissions", "skill_taxonomy"}

Migrations == <<Initial, AuthRbac>>
HEAD       == Len(Migrations)

Tables(from, to) == UNION {Migrations[r] : r \in from + 1 .. to}

VARIABLES
  revision,  \* committed revision, and with it the tables
  codes,     \* committed rows of permissions
  boot       \* what each script does

bootVars == <<revision, codes, boot>>
vars     == <<users, req, received, crashes, revision, codes, boot>>

(* found: the revision the upgrade started from; code: the code that was   *)
(* not found; added: the codes this session has inserted.                  *)
Script == [pc    : {"down", "upgrade", "migrate", "migrated", "seed", "insert", "seeded",
                    "count", "admin", "created", "serve"},
           found : 0 .. HEAD,
           code  : AllCodes \cup {None},
           added : SUBSET AllCodes]

Down == [pc |-> "down", found |-> 0, code |-> None, added |-> {}]

TypeOK ==
  /\ UsersTypeOK
  /\ revision \in 0 .. HEAD
  /\ codes \subseteq AllCodes
  /\ boot \in [Scripts -> Script]

(* A new database, one of the release before users, or one with users and  *)
(* the permission codes of an earlier release.                             *)
Init ==
  /\ SessionsInit
  /\ \/ revision \in 0 .. HEAD - 1 /\ codes = {} /\ users = [i \in Ids |-> None]
     \/ revision = HEAD /\ codes = AllCodes \ {"results.read"} /\ users \in Installed
  /\ boot = [p \in Scripts |-> Down]

Goto(p, from, to) ==
  /\ boot[p].pc = from
  /\ boot' = [boot EXCEPT ![p] = [Down EXCEPT !.pc = to]]

(* Variant without set -e.                                                 *)
FailAndServe(p) ==
  boot' = [boot EXCEPT ![p] = [Down EXCEPT !.pc = IF p \in Containers THEN "serve" ELSE "down"]]

(* The exit code of a script: set -e ends the entrypoint with it.          *)
Fail(p) == boot' = [boot EXCEPT ![p] = Down]

Done(p, next) == IF p \in Containers THEN next ELSE "down"

-----------------------------------------------------------------------------
Start(p) ==
  /\ \/ p \in Containers /\ Goto(p, "down", "upgrade")
     \/ p \in Manuals /\ (Goto(p, "down", "upgrade") \/ Goto(p, "down", "seed"))
  /\ UNCHANGED <<userVars, revision, codes>>

(* alembic upgrade head: the revision is read first ...                    *)
ReadRevision(p) ==
  /\ IF revision = HEAD
     THEN Goto(p, "upgrade", Done(p, "seed"))
     ELSE /\ boot[p].pc = "upgrade"
          /\ boot' = [boot EXCEPT ![p].pc = "migrate", ![p].found = revision]
  /\ UNCHANGED <<userVars, revision, codes>>

(* ... then all missing revisions run in one transaction.  The first CREATE*)
(* waits for another transaction that creates the relation, and fails if   *)
(* it is there when the wait is over.                                      *)
Migrate(p) ==
  /\ boot[p].pc = "migrate"
  /\ \A q \in Scripts : boot[q].pc # "migrated"
  /\ IF Tables(boot[p].found, HEAD) \cap Tables(0, revision) = {}
     THEN boot' = [boot EXCEPT ![p].pc = "migrated"]
     ELSE Fail(p)
  /\ UNCHANGED <<userVars, revision, codes>>

CommitUpgrade(p) ==
  /\ Goto(p, "migrated", Done(p, "seed"))
  /\ revision' = HEAD
  /\ UNCHANGED <<userVars, codes>>

-----------------------------------------------------------------------------
(* tools/bootstrap.py: seed_permissions.                                   *)

(* The first code of ALL_PERMISSIONS that is missing, if any.              *)
First(missing) ==
  {ALL_PERMISSIONS[i] : i \in {k \in 1 .. Len(ALL_PERMISSIONS) :
     /\ ALL_PERMISSIONS[k] \in missing
     /\ \A j \in 1 .. k - 1 : ALL_PERMISSIONS[j] \notin missing}}

(* A look for the missing codes, with the INSERT of the first to follow.   *)
Look(p, missing) ==
  \/ missing = {} /\ boot' = [boot EXCEPT ![p].pc = "seeded"]
  \/ \E code \in First(missing) : boot' = [boot EXCEPT ![p].pc = "insert", ![p].code = code]

(* Variant that inserts without looking.                                   *)
SeedLooksAway(p) ==
  /\ boot[p].pc = "seed"
  /\ Look(p, AllCodes \ boot[p].added)
  /\ UNCHANGED <<userVars, revision, codes>>

(* seed goes through the codes in their order and looks each one up, down  *)
(* to the next that is missing.  Codes are never removed, so those it has  *)
(* passed need no second look.                                             *)
SeedLooks(p) ==
  /\ boot[p].pc = "seed"
  /\ IF "permissions" \in Tables(0, revision)
     THEN Look(p, AllCodes \ (codes \cup boot[p].added))
     ELSE Fail(p)
  /\ UNCHANGED <<userVars, revision, codes>>

(* The INSERT waits for others of the code, and fails when it is there.    *)
SeedInserts(p) ==
  LET code == boot[p].code IN
  /\ boot[p].pc = "insert"
  /\ \A q \in Scripts \ {p} : code \notin boot[q].added
  /\ IF code \in codes
     THEN Fail(p)
     ELSE boot' = [boot EXCEPT ![p].pc = "seed", ![p].code = None,
                               ![p].added = @ \cup {code}]
  /\ UNCHANGED <<userVars, revision, codes>>

SeedCommits(p) ==
  /\ Goto(p, "seeded", "count")
  /\ codes' = codes \cup boot[p].added
  /\ UNCHANGED <<userVars, revision>>

-----------------------------------------------------------------------------
(* create_admin: no administrator when there is any user.                  *)
CountUsers(p) ==
  /\ IF Stored # {}
     THEN Goto(p, "count", Done(p, "serve")) /\ UNCHANGED req
     ELSE /\ Goto(p, "count", "admin")
          /\ req' = [req EXCEPT ![p] = [Idle EXCEPT !.pc = "insert",
                                          !.body = NewUser(p, AdminEmail, "admin")]]
  /\ UNCHANGED <<users, received, crashes, revision, codes>>

InsertAdmin(p) ==
  /\ boot[p].pc = "admin"
  /\ Insert(p)
  /\ IF EmailTaken(AdminEmail) THEN Fail(p) ELSE Goto(p, "admin", "created")
  /\ UNCHANGED <<revision, codes>>

CommitAdmin(p) ==
  /\ CommitNew(p)
  /\ Goto(p, "created", Done(p, "serve"))
  /\ UNCHANGED <<revision, codes>>

(* The container or the script is stopped: its transaction is rolled back. *)
Exit(p) ==
  /\ boot[p].pc # "down"
  /\ crashes < MaxCrashes
  /\ crashes' = crashes + 1
  /\ Fail(p)
  /\ Rollback(p)
  /\ UNCHANGED <<users, received, revision, codes>>

ScriptStep(p) ==
  ReadRevision(p) \/ Migrate(p) \/ CommitUpgrade(p) \/ SeedLooks(p) \/ SeedInserts(p)
    \/ SeedCommits(p) \/ CountUsers(p) \/ InsertAdmin(p) \/ CommitAdmin(p)

Serving == {c \in Containers : boot[c].pc = "serve"}

Next ==
  \/ \E p \in Scripts : Start(p) \/ ScriptStep(p) \/ Exit(p)
  \/ Serving # {} /\ (\E s \in Requests : ReceiveAny(s)) /\ UNCHANGED bootVars
  \/ /\ Serving # {}
     /\ \E i \in Ids, grants \in {{}, {"users.manage"}} : Regrant(i, grants)
     /\ UNCHANGED bootVars
  \/ (\E s \in Requests : SessionStep(s) \/ Crash(s)) /\ UNCHANGED bootVars

Spec == Init /\ [][Next]_vars

(* PostgreSQL and the event loops resume what need not wait, and Docker    *)
(* starts the container again.  Nobody has to run a script by hand.        *)
FairSpec ==
  /\ Spec
  /\ \A c \in Containers : WF_vars(Start(c))
  /\ \A p \in Scripts : WF_vars(ScriptStep(p))
  /\ \A s \in Requests : WF_vars(SessionStep(s) /\ UNCHANGED bootVars)

-----------------------------------------------------------------------------
(* A container that serves has what its requests need: the schema, every   *)
(* permission code and a first user, whatever failed, was stopped or ran   *)
(* beside it before (entrypoint.sh, set -e).                               *)
ServingIsReady ==
  Serving # {} => revision = HEAD /\ codes = AllCodes /\ Stored # {}

(* Every container serves in the end, also when scripts that ran beside it *)
(* made it fail, or it was stopped in the middle.                          *)
EveryContainerServes == \A c \in Containers : <>[](boot[c].pc = "serve")

-----------------------------------------------------------------------------
(* The inductive invariant: what each step of a script has made sure of.   *)
ScriptInv(p) ==
  /\ boot[p].pc = "seed" /\ p \in Containers => revision = HEAD
  /\ boot[p].pc \in {"insert", "seeded", "count", "admin", "created", "serve"} =>
       revision = HEAD
  /\ boot[p].pc = "insert" => boot[p].code \in AllCodes
  /\ boot[p].pc = "seeded" => AllCodes \subseteq codes \cup boot[p].added
  /\ boot[p].pc \in {"count", "admin", "created", "serve"} => codes = AllCodes
  /\ boot[p].pc = "serve" => Stored # {}
  /\ boot[p].pc = "admin" <=> req[p].pc = "insert"
  /\ boot[p].pc = "created" <=> req[p].pc = "added"
  /\ boot[p].pc \notin {"admin", "created"} <=> req[p].pc = "idle"
  /\ boot[p].pc = "admin" => req[p].body.email = AdminEmail

BootInv == \A p \in Scripts : ScriptInv(p)

IInv == TypeOK /\ SessionInv /\ InsertInv /\ EmailsAreUnique /\ BootInv

-----------------------------------------------------------------------------
(* The abstract specification: sessions, loaded rows, waits and the rest of *)
(* the start of an installation are hidden.  What is left of a session is   *)
(* what it was asked for: by a client, or by create_admin.                  *)

Asked(body) == [c \in {c \in DOMAIN NoChange : body[c] # Same} |-> body[c]]

Creates(h) == h.pc = "insert" \/ (h.pc \in {"check", "find"} /\ h.target = None)

AskedFor(h) ==
  CASE h.pc = "idle"  -> [kind |-> "nothing"]
    [] h.pc = "added" -> [kind |-> "add", row |-> h.written]
    [] Creates(h)     -> [kind |-> "add", row |-> h.body]
    [] OTHER          -> [kind |-> "edit", id |-> h.target, edit |-> Asked(h.body)]

PendingView == [s \in Slots |-> AskedFor(req[s])]

(* The rows a session adds: a script only the administrator.               *)
NewRows(s) ==
  IF s \in Scripts THEN {NewUser(s, AdminEmail, "admin")}
  ELSE {NewUser(s, email, role) : email \in Emails, role \in Roles}

(* Every body that the Receive actions make of a request.                  *)
EditBodies(s) ==
  IF s \in Scripts THEN {}
  ELSE Edits(s) \cup {Deactivation, [NoChange EXCEPT !.login = s]}

Requestable ==
  [s \in Slots |->
     {[kind |-> "add", row |-> row] : row \in NewRows(s)}
       \cup {[kind |-> "edit", id |-> i, edit |-> Asked(body)] :
                i \in Ids, body \in EditBodies(s)}]

Table == INSTANCE AtomicTable WITH
  table <- users, pending <- PendingView, Sessions <- Slots, Key <- "email",
  Asks <- Requestable,
  Outside <- {[extra |-> grants] : grants \in {{}, {"users.manage"}}},
  Starts <- Installed \cup {[i \in Ids |-> None]}

(* Accounts are created, edited and signed in to at once or not at all,     *)
(* each change made of what its own session was asked for, with scripts     *)
(* that create the first administrator beside them.                         *)
ImplementsTable == Table!Spec
=============================================================================
