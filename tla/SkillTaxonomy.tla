--------------------------- MODULE SkillTaxonomy ---------------------------
(***************************************************************************)
(* POST, PATCH and DELETE /taxonomy/skills of all API workers on one        *)
(* database (app/taxonomy/router.py, app/repositories/taxonomy_repo.py,     *)
(* app/models/skill_taxonomy.py).                                           *)
(*                                                                          *)
(* Names are unique and a PATCH may change one.  PostgreSQL then first      *)
(* locks the row and after that enters the name into the unique index, and  *)
(* either may have to wait for another transaction, so renames can wait for *)
(* each other.  category stands for category and aliases, which nothing     *)
(* reads but the client; created_by_id never changes.                       *)
(*                                                                          *)
(* Requests that the access check refuses (UserAdmin has it), unknown ids   *)
(* (404), the reads and the audit entries are left out.                     *)
(***************************************************************************)
EXTENDS Naturals

CONSTANTS Names,        \* names of skills
          Categories,   \* categories and lists of aliases
          Actors,       \* users who may manage the taxonomy
          Requests,     \* slots for concurrent requests, in any worker
          Bodies,       \* bodies of PATCH
          Existing,     \* tables to start with
          MaxSkills,    \* bound: rows
          MaxRequests,  \* bound: requests received
          MaxCrashes,   \* bound: requests lost to worker crashes
          Same,         \* a column that a change leaves alone
          None          \* no row or id

Ids == 1 .. MaxSkills

Skill == [name : Names, category : Categories, is_active : BOOLEAN, updated_by : Actors]

Change == [name : Names \cup {Same}, category : Categories \cup {Same},
           is_active : BOOLEAN \cup {Same}, updated_by : Actors \cup {Same}]

NoChange == [name |-> Same, category |-> Same, is_active |-> Same, updated_by |-> Same]

ASSUME TaxonomyAssumption ==
  /\ {MaxSkills, MaxRequests, MaxCrashes} \subseteq Nat
  /\ Bodies \subseteq Change
  /\ \A table \in Existing :
       /\ table \in [Ids -> Skill \cup {None}]
       /\ \A i, j \in Ids : None \notin {table[i], table[j]} /\ table[i].name = table[j].name
                             => i = j
  /\ None \notin Skill /\ None \notin Ids
  /\ Same \notin Names /\ Same \notin Categories /\ Same \notin BOOLEAN /\ Same \notin Actors

VARIABLES
  skills,    \* committed rows of skill_taxonomy, by id
  req,       \* handlers
  received,  \* number of requests received
  crashes    \* requests lost so far

vars == <<skills, req, received, crashes>>

(* row: what a POST inserts; body: what a PATCH or DELETE sets; written:   *)
(* what its UPDATE sets.                                                   *)
Handler == [pc      : {"idle", "post", "insert", "added", "find", "flush", "rename", "commit"},
            target  : Ids \cup {None},
            row     : Skill \cup {None},
            body    : Change,
            loaded  : Skill \cup {None},
            written : Change]

Idle == [pc |-> "idle", target |-> None, row |-> None, body |-> NoChange,
         loaded |-> None, written |-> NoChange]

TypeOK ==
  /\ skills \in [Ids -> Skill \cup {None}]
  /\ req \in [Requests -> Handler]
  /\ received \in 0 .. MaxRequests
  /\ crashes \in 0 .. MaxCrashes

Init ==
  /\ skills \in Existing
  /\ req = [r \in Requests |-> Idle]
  /\ received = 0
  /\ crashes = 0

Stored == {i \in Ids : skills[i] # None}

NameTaken(name, i) == \E j \in Stored \ {i} : skills[j].name = name

Rollback(r) == req' = [req EXCEPT ![r] = Idle]

Goto(r, from, to) ==
  /\ req[r].pc = from
  /\ req' = [req EXCEPT ![r].pc = to]

-----------------------------------------------------------------------------
(* The open transactions that hold row i, or that an INSERT of a name must *)
(* wait for: one that has written the name, or a row that bears it.        *)

Locked(t) == req[t].pc \in {"rename", "commit"} /\ req[t].written # NoChange

RowHolders(r, i) == {t \in Requests \ {r} : Locked(t) /\ req[t].target = i}

NameHolders(r, name) ==
  {t \in Requests \ {r} :
     \/ req[t].pc = "added" /\ req[t].row.name = name
     \/ req[t].pc = "commit" /\ req[t].written.name = name
     \/ Locked(t) /\ skills[req[t].target].name = name}

WaitsFor(r) ==
  CASE req[r].pc = "flush"  -> RowHolders(r, req[r].target)
    [] req[r].pc = "rename" -> NameHolders(r, req[r].written.name)
    [] req[r].pc = "insert" -> NameHolders(r, req[r].row.name)
    [] OTHER                -> {}

(* r is on a cycle of waits.                                               *)
Deadlocked(r) ==
  \E S \in SUBSET Requests :
    /\ r \in S
    /\ \A t \in S : WaitsFor(t) \cap S # {} /\ \E u \in S : t \in WaitsFor(u)

-----------------------------------------------------------------------------
Receive(r, handler) ==
  /\ req[r].pc = "idle"
  /\ received < MaxRequests
  /\ received' = received + 1
  /\ req' = [req EXCEPT ![r] = handler]
  /\ UNCHANGED <<skills, crashes>>

(* SkillCreate; its is_active is not passed on.                            *)
ReceivePost(r) ==
  \E actor \in Actors, name \in Names, category \in Categories :
    Receive(r, [Idle EXCEPT !.pc = "post",
                            !.row = [name |-> name, category |-> category,
                                     is_active |-> TRUE, updated_by |-> actor]])

ReceivePatch(r) ==
  \E actor \in Actors, i \in Stored, body \in Bodies :
    Receive(r, [Idle EXCEPT !.pc = "find", !.target = i,
                            !.body = [body EXCEPT !.updated_by = actor]])

ReceiveDelete(r) ==
  \E actor \in Actors, i \in Stored :
    Receive(r, [Idle EXCEPT !.pc = "find", !.target = i,
                            !.body = [NoChange EXCEPT !.is_active = FALSE,
                                                      !.updated_by = actor]])

(* POST: get_by_name, also of a deactivated skill, gives a 409.            *)
FindName(r) ==
  /\ req[r].pc = "post"
  /\ IF NameTaken(req[r].row.name, None)
     THEN Rollback(r)
     ELSE Goto(r, "post", "insert")
  /\ UNCHANGED <<skills, received, crashes>>

FreeIds(r) == {i \in Ids : skills[i] = None /\ \A t \in Requests \ {r} : req[t].target # i}

(* create: the INSERT.  A name that is stored when the wait is over        *)
(* violates the unique constraint: a 500.                                  *)
Insert(r) ==
  /\ req[r].pc = "insert"
  /\ NameHolders(r, req[r].row.name) = {}
  /\ IF NameTaken(req[r].row.name, None)
     THEN Rollback(r)
     ELSE \E i \in FreeIds(r) :
            /\ \A j \in FreeIds(r) : i <= j
            /\ req' = [req EXCEPT ![r].pc = "added", ![r].target = i]
  /\ UNCHANGED <<skills, received, crashes>>

CommitNew(r) ==
  /\ req[r].pc = "added"
  /\ skills' = [skills EXCEPT ![req[r].target] = req[r].row]
  /\ Rollback(r)
  /\ UNCHANGED <<received, crashes>>

(* PATCH and DELETE: get_by_id.                                            *)
FindSkill(r) ==
  /\ req[r].pc = "find"
  /\ req' = [req EXCEPT ![r].pc = "flush", ![r].loaded = skills[req[r].target]]
  /\ UNCHANGED <<skills, received, crashes>>

Replaced(old, new) == IF new = Same THEN old ELSE new
Differing(old, new) == IF new = old THEN Same ELSE new

(* Variant that writes the whole row back.                                 *)
DirtyAll(body, loaded) ==
  [name       |-> Replaced(loaded.name, body.name),
   category   |-> Replaced(loaded.category, body.category),
   is_active  |-> Replaced(loaded.is_active, body.is_active),
   updated_by |-> body.updated_by]

(* Variant that sets the editor first, so that he never differs.           *)
DirtyButEditor(body, loaded) ==
  [name       |-> Differing(loaded.name, body.name),
   category   |-> Differing(loaded.category, body.category),
   is_active  |-> Differing(loaded.is_active, body.is_active),
   updated_by |-> Same]

(* The columns that differ from the loaded ones, the editor among them.    *)
Dirty(body, loaded) ==
  [name       |-> Differing(loaded.name, body.name),
   category   |-> Differing(loaded.category, body.category),
   is_active  |-> Differing(loaded.is_active, body.is_active),
   updated_by |-> Differing(loaded.updated_by, body.updated_by)]

(* update: the UPDATE waits for the row and locks it.  Without a dirty     *)
(* column there is none.                                                   *)
Flush(r) ==
  LET written == Dirty(req[r].body, req[r].loaded) IN
  /\ req[r].pc = "flush"
  /\ written = NoChange \/ RowHolders(r, req[r].target) = {}
  /\ req' = [req EXCEPT ![r].pc = IF written.name = Same THEN "commit" ELSE "rename",
                        ![r].written = written]
  /\ UNCHANGED <<skills, received, crashes>>

(* Variant that trusts a name that nobody is just writing.                 *)
RenameUnchecked(r) ==
  /\ Goto(r, "rename", "commit")
  /\ NameHolders(r, req[r].written.name) = {}
  /\ UNCHANGED <<skills, received, crashes>>

(* Variant that tries again until the name is free.                        *)
RenameWaits(r) ==
  /\ Goto(r, "rename", "commit")
  /\ ~NameTaken(req[r].written.name, req[r].target)
  /\ NameHolders(r, req[r].written.name) = {}
  /\ UNCHANGED <<skills, received, crashes>>

(* A new name enters the unique index, when nobody else is writing it or a *)
(* row that bears it.  There is no check before: a name that another skill *)
(* has is a 500.                                                           *)
Rename(r) ==
  /\ req[r].pc = "rename"
  /\ NameHolders(r, req[r].written.name) = {}
  /\ IF NameTaken(req[r].written.name, req[r].target)
     THEN Rollback(r)
     ELSE Goto(r, "rename", "commit")
  /\ UNCHANGED <<skills, received, crashes>>

(* What an UPDATE leaves of the row it finds.                              *)
Updated(row, ch) ==
  [name       |-> Replaced(row.name, ch.name),
   category   |-> Replaced(row.category, ch.category),
   is_active  |-> Replaced(row.is_active, ch.is_active),
   updated_by |-> Replaced(row.updated_by, ch.updated_by)]

CommitEdit(r) ==
  /\ req[r].pc = "commit"
  /\ skills' = [skills EXCEPT ![req[r].target] = Updated(@, req[r].written)]
  /\ Rollback(r)
  /\ UNCHANGED <<received, crashes>>

(* PostgreSQL's deadlock detector ends one of the transactions: a 500.     *)
DeadlockDetected(r) ==
  /\ Deadlocked(r)
  /\ Rollback(r)
  /\ UNCHANGED <<skills, received, crashes>>

(* The worker dies and PostgreSQL rolls the transaction back.              *)
Crash(r) ==
  /\ req[r].pc # "idle"
  /\ crashes < MaxCrashes
  /\ crashes' = crashes + 1
  /\ Rollback(r)
  /\ UNCHANGED <<skills, received>>

HandlerStep(r) ==
  FindName(r) \/ Insert(r) \/ CommitNew(r) \/ FindSkill(r) \/ Flush(r) \/ Rename(r)
    \/ CommitEdit(r) \/ DeadlockDetected(r)

Next == \E r \in Requests :
  ReceivePost(r) \/ ReceivePatch(r) \/ ReceiveDelete(r) \/ HandlerStep(r) \/ Crash(r)

Spec == Init /\ [][Next]_vars

(* PostgreSQL and the event loop resume a handler when it need not wait,   *)
(* and the deadlock detector looks at every wait that lasts.               *)
FairSpec == Spec /\ \A r \in Requests : WF_vars(HandlerStep(r))

-----------------------------------------------------------------------------
(* No name belongs to two skills, with creates and renames of any order in *)
(* flight: get_by_name, and so POST, relies on it.                         *)
NamesAreUnique ==
  \A i, j \in Stored : skills[i].name = skills[j].name => i = j

(* An edit touches no column that it was not asked to change, however long *)
(* ago it loaded the row: a DELETE does not take back a rename that was    *)
(* committed in between, a rename does not revive the skill.               *)
EditsKeepToTheirColumns ==
  [][\A r \in Requests : CommitEdit(r) =>
       \A c \in DOMAIN NoChange : req[r].body[c] = Same =>
         skills'[req[r].target][c] = skills[req[r].target][c]]_vars

(* When an edit is done, each column it was asked to change has the value  *)
(* that was asked for, and the skill names its editor, unless that was so  *)
(* already when the edit loaded the row.                                   *)
EditsTakeEffect ==
  [][\A r \in Requests : CommitEdit(r) =>
       \A c \in DOMAIN NoChange : req[r].body[c] \notin {Same, req[r].loaded[c]} =>
         skills'[req[r].target][c] = req[r].body[c]]_vars

(* Every request is answered: no create or rename waits for ever, also not *)
(* the two that swap their names.                                          *)
EveryRequestEnds == \A r \in Requests : req[r].pc # "idle" ~> req[r].pc = "idle"

-----------------------------------------------------------------------------
(* The inductive invariant behind the safety properties.                   *)

(* What a handler refers to is there, and it writes what differed.         *)
HandlerInv ==
  \A r \in Requests :
    /\ req[r].pc \in {"post", "insert", "added"} => req[r].row \in Skill
    /\ req[r].pc \in {"find", "flush", "rename", "commit"} => req[r].target \in Stored
    /\ req[r].pc \in {"flush", "rename", "commit"} => req[r].loaded \in Skill
    /\ req[r].pc \in {"rename", "commit"} =>
         req[r].written = Dirty(req[r].body, req[r].loaded)
    /\ req[r].pc = "rename" => req[r].written.name # Same

(* Only one open transaction holds a row.                                  *)
LockInv ==
  \A r, t \in Requests : r # t /\ Locked(r) /\ Locked(t) => req[r].target # req[t].target

(* The name that a transaction has entered is no other's, and no other row *)
(* has it.                                                                 *)
Entered(r, name) ==
  \/ req[r].pc = "added" /\ req[r].row.name = name
  \/ req[r].pc = "commit" /\ req[r].written.name = name

NameInv ==
  \A r \in Requests, name \in Names : Entered(r, name) =>
    /\ req[r].pc = "added" => req[r].target \in Ids \ Stored
    /\ ~NameTaken(name, req[r].target)
    /\ \A t \in Requests \ {r} : ~Entered(t, name)

IdInv ==
  \A r, t \in Requests : r # t /\ req[r].pc = "added" /\ req[t].pc = "added"
    => req[r].target # req[t].target

IInv == TypeOK /\ HandlerInv /\ LockInv /\ NameInv /\ IdInv /\ NamesAreUnique

-----------------------------------------------------------------------------
(* The abstract specification: loaded objects, locks and waits are hidden.  *)
(* What is left of a handler is what its client asked for.                  *)

Asked(body) == [c \in {c \in DOMAIN NoChange : body[c] # Same} |-> body[c]]

AskedFor(h) ==
  CASE h.pc = "idle"                         -> [kind |-> "nothing"]
    [] h.pc \in {"post", "insert", "added"} -> [kind |-> "add", row |-> h.row]
    [] OTHER -> [kind |-> "edit", id |-> h.target, edit |-> Asked(h.body)]

PendingView == [r \in Requests |-> AskedFor(req[r])]

(* Every body that ReceivePatch and ReceiveDelete make of a request.       *)
EditBodies == {[body EXCEPT !.updated_by = actor] :
                 body \in Bodies \cup {[NoChange EXCEPT !.is_active = FALSE]}, actor \in Actors}

Requestable ==
  [r \in Requests |->
     {[kind |-> "add", row |-> row] : row \in {skill \in Skill : skill.is_active}}
       \cup {[kind |-> "edit", id |-> i, edit |-> Asked(body)] :
                i \in Ids, body \in EditBodies}]

Table == INSTANCE AtomicTable WITH
  table <- skills, pending <- PendingView, Sessions <- Requests, Key <- "name",
  Asks <- Requestable, Outside <- {}, Starts <- Existing

(* Creates, renames and edits take effect at once or not at all.           *)
ImplementsTable == Table!Spec
=============================================================================
