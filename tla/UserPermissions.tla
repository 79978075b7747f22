-------------------------- MODULE UserPermissions --------------------------
(***************************************************************************)
(* PUT /users/{id}/permissions of all API workers on one PostgreSQL         *)
(* database (app/users/router.py, app/repositories/user_repo.py,            *)
(* app/models/permission.py).  An edit deletes the grants of the user and   *)
(* inserts the requested ones in one READ COMMITTED transaction.            *)
(*                                                                          *)
(* A row of user_permissions is the permission together with the number of  *)
(* the edit that inserted it: a row that was deleted and inserted again is  *)
(* another row, and a DELETE only deletes rows that its snapshot showed.    *)
(* The primary key (user_id, permission_id) allows one row per permission.  *)
(* Edits that are refused before the DELETE (unknown user or code) leave no *)
(* trace and are left out; users are never removed, only deactivated.       *)
(***************************************************************************)
EXTENDS Naturals, FiniteSets

CONSTANTS Users,        \* ids of users
          Permissions,  \* seeded permission codes
          Edits,        \* slots for concurrent edits, in any worker process
          MaxEdits,     \* bound: edits received
          MaxCrashes,   \* bound: handlers lost to worker crashes
          None          \* no user

ASSUME PermissionsAssumption ==
  /\ MaxEdits \in Nat
  /\ MaxCrashes \in Nat
  /\ None \notin Users

UserPermission == Permissions \X (1 .. MaxEdits)

VARIABLES
  grants,    \* committed rows of user_permissions, by user
  edits,     \* number of edits received
  put,       \* handlers
  crashes    \* handlers lost so far

vars == <<grants, edits, put, crashes>>

(* seen: the rows in the snapshot of the DELETE; passed: those it is done  *)
(* with; removed: those it deleted; taken: the codes inserted so far.      *)
Handler == [pc      : {"idle", "scan", "write"},
            user    : Users \cup {None},
            number  : 0 .. MaxEdits,
            codes   : SUBSET Permissions,
            seen    : SUBSET UserPermission,
            passed  : SUBSET UserPermission,
            removed : SUBSET UserPermission,
            taken   : SUBSET Permissions]

IdleHandler == [pc |-> "idle", user |-> None, number |-> 0, codes |-> {},
                seen |-> {}, passed |-> {}, removed |-> {}, taken |-> {}]

TypeOK ==
  /\ grants \in [Users -> SUBSET UserPermission]
  /\ edits \in 0 .. MaxEdits
  /\ put \in [Edits -> Handler]
  /\ \A e \in Edits : put[e] = IdleHandler \/ (put[e].pc # "idle" /\ put[e].user \in Users)
  /\ \A e \in Edits : put[e].taken \subseteq put[e].codes
  /\ crashes \in 0 .. MaxCrashes

Init ==
  /\ grants = [u \in Users |-> {}]
  /\ edits = 0
  /\ put = [e \in Edits |-> IdleHandler]
  /\ crashes = 0

Codes(rows) == {r[1] : r \in rows}

Rollback(e) == put' = [put EXCEPT ![e] = IdleHandler]

(* What an edit has still to do.                                           *)
RowsLeft(e) == put[e].seen \ put[e].passed
KeysLeft(e) == IF put[e].pc = "write" /\ RowsLeft(e) = {}
               THEN put[e].codes \ put[e].taken ELSE {}

(* The open transactions that hold a row or a key: a DELETE waits for      *)
(* those that have deleted its row, an INSERT for those that have deleted  *)
(* or inserted a row with its key.                                         *)
Others(e)        == {f \in Edits \ {e} : put[f].user = put[e].user}
RowHolders(e, r) == {f \in Others(e) : r \in put[f].removed}
KeyHolders(e, c) == {f \in Others(e) : c \in Codes(put[f].removed) \cup put[f].taken}

WaitsFor(e) == UNION ({RowHolders(e, r) : r \in RowsLeft(e)}
                        \cup {KeyHolders(e, c) : c \in KeysLeft(e)})

(* e is on a cycle of waits: it belongs to a set of edits, no part of which *)
(* goes on without the rest.                                               *)
Deadlocked(e) ==
  \E S \in SUBSET Edits :
    /\ e \in S
    /\ S # {e}
    /\ \A T \in (SUBSET S) \ {{}, S} : \E f \in T : WaitsFor(f) \cap (S \ T) # {}

-----------------------------------------------------------------------------
Receive(e, u, codes) ==
  /\ put[e].pc = "idle"
  /\ edits < MaxEdits
  /\ edits' = edits + 1
  /\ put' = [put EXCEPT ![e] = [pc |-> "scan", user |-> u, number |-> edits + 1,
                                codes |-> codes, seen |-> {}, passed |-> {},
                                removed |-> {}, taken |-> {}]]
  /\ UNCHANGED <<grants, crashes>>

(* set_permissions: the DELETE takes its snapshot ...                      *)
Scan(e) ==
  /\ put[e].pc = "scan"
  /\ put' = [put EXCEPT ![e].pc = "write", ![e].seen = grants[put[e].user]]
  /\ UNCHANGED <<grants, edits, crashes>>

(* Variant that skips the rows other transactions hold.                    *)
DeleteSkipsLocked(e) ==
  /\ \E r \in RowsLeft(e) :
       put' = [put EXCEPT ![e].passed = @ \cup {r},
                          ![e].removed = @ \cup {x \in {r} \cap grants[put[e].user] :
                                                   RowHolders(e, x) = {}}]
  /\ UNCHANGED <<grants, edits, crashes>>

(* ... and deletes row after row.  A row that is gone when the wait for it *)
(* is over is skipped, a row that came after the snapshot is not seen.     *)
Delete(e) ==
  /\ \E r \in RowsLeft(e) :
       /\ RowHolders(e, r) = {}
       /\ put' = [put EXCEPT ![e].passed = @ \cup {r},
                             ![e].removed = @ \cup ({r} \cap grants[put[e].user])]
  /\ UNCHANGED <<grants, edits, crashes>>

(* Variant without the primary key.                                        *)
InsertAny(e) ==
  /\ \E c \in KeysLeft(e) : put' = [put EXCEPT ![e].taken = @ \cup {c}]
  /\ UNCHANGED <<grants, edits, crashes>>

(* Variant that tries again until the key is free.                         *)
InsertWaits(e) ==
  /\ \E c \in KeysLeft(e) :
       /\ KeyHolders(e, c) = {}
       /\ c \notin Codes(grants[put[e].user] \ put[e].removed)
       /\ put' = [put EXCEPT ![e].taken = @ \cup {c}]
  /\ UNCHANGED <<grants, edits, crashes>>

(* The INSERTs of the flush, in the order the permissions were found in,   *)
(* which no ORDER BY fixes.  A key that is there when the wait for it is   *)
(* over violates the primary key: a 500 and a rollback.                    *)
Insert(e) ==
  /\ \E c \in KeysLeft(e) :
       /\ KeyHolders(e, c) = {}
       /\ IF c \in Codes(grants[put[e].user] \ put[e].removed)
          THEN Rollback(e)
          ELSE put' = [put EXCEPT ![e].taken = @ \cup {c}]
  /\ UNCHANGED <<grants, edits, crashes>>

(* PostgreSQL's deadlock detector ends one of the transactions: a 500.     *)
DeadlockDetected(e) ==
  /\ Deadlocked(e)
  /\ Rollback(e)
  /\ UNCHANGED <<grants, edits, crashes>>

Flushed(e) == put[e].pc = "write" /\ RowsLeft(e) = {} /\ put[e].taken = put[e].codes

Inserted(e) == put[e].taken \X {put[e].number}

(* write_audit, the commit and the 200 with the requested codes.           *)
Commit(e) ==
  LET u == put[e].user IN
  /\ Flushed(e)
  /\ grants' = [grants EXCEPT ![u] = (@ \ put[e].removed) \cup Inserted(e)]
  /\ put' = [put EXCEPT ![e] = IdleHandler]
  /\ UNCHANGED <<edits, crashes>>

(* The worker dies and PostgreSQL rolls the transaction back.              *)
Crash(e) ==
  /\ put[e].pc # "idle"
  /\ crashes < MaxCrashes
  /\ crashes' = crashes + 1
  /\ Rollback(e)
  /\ UNCHANGED <<grants, edits>>

EditStep(e) == Scan(e) \/ Delete(e) \/ Insert(e) \/ DeadlockDetected(e) \/ Commit(e)

Next ==
  \/ \E e \in Edits, u \in Users, codes \in SUBSET Permissions : Receive(e, u, codes)
  \/ \E e \in Edits : EditStep(e) \/ Crash(e)

Spec == Init /\ [][Next]_vars

(* PostgreSQL and the event loop resume a handler when it need not wait,   *)
(* and the deadlock detector looks at every wait that lasts.               *)
FairSpec == Spec /\ \A e \in Edits : WF_vars(EditStep(e))

-----------------------------------------------------------------------------
(* No permission is granted twice, with any edits in flight: what the      *)
(* loading of user_permissions and the next DELETE rely on.                *)
GrantsAreUnique ==
  \A u \in Users : \A r, s \in grants[u] : r[1] = s[1] => r = s

(* When an edit commits, every grant that was there when it started is     *)
(* gone, whether it deleted the row itself or waited for the edit that     *)
(* did: what stays beside its own grants came from edits it did not see.   *)
EditRemovesWhatItSaw ==
  [][\A e \in Edits : Commit(e) => grants'[put[e].user] \cap put[e].seen = {}]_vars

(* Edits never wait for one another for ever, also not the ones that each  *)
(* hold what the next one wants.                                           *)
EveryEditEnds == \A e \in Edits : put[e].pc # "idle" ~> put[e].pc = "idle"

-----------------------------------------------------------------------------
(* The inductive invariant behind the safety properties.                   *)

(* An edit's number is its own: no other edit under way has it, and no row *)
(* carries it before the edit commits.                                     *)
NumberInv ==
  /\ \A u \in Users : \A r \in grants[u] : r[2] <= edits
  /\ \A e \in Edits : \A r \in put[e].seen : r[2] <= edits
  /\ \A e \in Edits : put[e].pc # "idle" =>
       /\ put[e].number \in 1 .. edits
       /\ \A f \in Edits \ {e} : put[f].number # put[e].number
       /\ \A u \in Users : \A r \in grants[u] : r[2] # put[e].number
       /\ \A f \in Edits : \A r \in put[f].seen : r[2] # put[e].number

(* A deleted row is there until the commit, and only one edit deletes it;  *)
(* a row the DELETE is done with is deleted or gone.                       *)
RowLockInv ==
  \A e \in Edits : put[e].pc # "idle" =>
    /\ put[e].pc = "scan" => put[e].seen = {}
    /\ put[e].passed \subseteq put[e].seen
    /\ put[e].removed \subseteq grants[put[e].user]
    /\ put[e].passed \cap grants[put[e].user] \subseteq put[e].removed
    /\ \A f \in Others(e) : put[f].removed \cap put[e].removed = {}

(* An inserted key is no other edit's, and every row with it is deleted.   *)
KeyLockInv ==
  \A e \in Edits : put[e].pc # "idle" =>
    /\ \A r \in grants[put[e].user] : r[1] \in put[e].taken => r \in put[e].removed
    /\ \A f \in Others(e) : put[f].taken \cap put[e].taken = {}

IInv ==
  /\ TypeOK
  /\ NumberInv
  /\ RowLockInv
  /\ KeyLockInv
  /\ GrantsAreUnique
=============================================================================
