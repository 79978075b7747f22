------------------------ MODULE SkillTaxonomyProofs ------------------------
(***************************************************************************)
(* Proofs about SkillTaxonomy: the inductive invariant IInv, and with it    *)
(* unique names and what an edit may and must write, for any skills,        *)
(* editors and concurrent requests.                                         *)
(***************************************************************************)
EXTENDS SkillTaxonomy, TLAPS

LEMMA IdleType ==
  /\ NoChange \in Change
  /\ Idle \in Handler
  /\ Idle.pc = "idle"
BY DEF Idle, Handler, NoChange, Change

LEMMA InitIInv == Init => IInv
<1> SUFFICES ASSUME Init PROVE IInv
  OBVIOUS
<1>1. TypeOK
  BY TaxonomyAssumption, IdleType DEF Init, TypeOK
<1>2. \A r \in Requests : req[r].pc = "idle"
  BY IdleType DEF Init
<1>3. HandlerInv /\ LockInv /\ NameInv /\ IdInv
  BY <1>2 DEF HandlerInv, LockInv, Locked, NameInv, Entered, IdInv
<1>4. NamesAreUnique
  BY TaxonomyAssumption DEF Init, NamesAreUnique, Stored
<1> QED
  BY <1>1, <1>3, <1>4 DEF IInv

(* The handler of r becomes h, the others stay.                            *)
LEMMA HandlerBecomes ==
  ASSUME TypeOK, NEW r \in Requests, NEW h \in Handler, req' = [req EXCEPT ![r] = h]
  PROVE  /\ req' \in [Requests -> Handler]
         /\ req'[r] = h
         /\ \A t \in Requests \ {r} : req'[t] = req[t]
BY DEF TypeOK

(* What the flush writes, and what it makes of a row.                      *)
LEMMA DirtyType ==
  ASSUME NEW body \in Change, NEW loaded
  PROVE  /\ Dirty(body, loaded) \in Change
         /\ Dirty(body, loaded).name = Differing(loaded.name, body.name)
         /\ Dirty(body, loaded).category = Differing(loaded.category, body.category)
         /\ Dirty(body, loaded).is_active = Differing(loaded.is_active, body.is_active)
         /\ Dirty(body, loaded).updated_by = Differing(loaded.updated_by, body.updated_by)
BY DEF Dirty, Differing, Change

LEMMA UpdatedType ==
  ASSUME NEW row \in Skill, NEW ch \in Change
  PROVE  /\ Updated(row, ch) \in Skill
         /\ Updated(row, ch).name = Replaced(row.name, ch.name)
         /\ Updated(row, ch).category = Replaced(row.category, ch.category)
         /\ Updated(row, ch).is_active = Replaced(row.is_active, ch.is_active)
         /\ Updated(row, ch).updated_by = Replaced(row.updated_by, ch.updated_by)
BY DEF Updated, Replaced, Change, Skill

-----------------------------------------------------------------------------
(* What the invariant asks of a handler h of r, the others given.          *)

HandlerFits(h) ==
  /\ h.pc \in {"post", "insert", "added"} => h.row \in Skill
  /\ h.pc \in {"find", "flush", "rename", "commit"} => h.target \in Stored
  /\ h.pc \in {"flush", "rename", "commit"} => h.loaded \in Skill
  /\ h.pc \in {"rename", "commit"} => h.written = Dirty(h.body, h.loaded)
  /\ h.pc = "rename" => h.written.name # Same

LockFits(r, h) ==
  h.pc \in {"rename", "commit"} /\ h.written # NoChange =>
    \A t \in Requests \ {r} : Locked(t) => req[t].target # h.target

NameFits(r, h) ==
  \A name \in Names :
    (\/ h.pc = "added" /\ h.row.name = name
     \/ h.pc = "commit" /\ h.written.name = name) =>
      /\ h.pc = "added" => h.target \in Ids \ Stored
      /\ ~NameTaken(name, h.target)
      /\ \A t \in Requests \ {r} : ~Entered(t, name)

IdFits(r, h) ==
  h.pc = "added" =>
    \A t \in Requests \ {r} : req[t].pc = "added" => req[t].target # h.target

(* A step that changes one handler only, to one that fits the others.      *)
LEMMA HandlerMoves ==
  ASSUME IInv, NEW r \in Requests, NEW h \in Handler,
         req' = [req EXCEPT ![r] = h],
         UNCHANGED skills, received' \in 0 .. MaxRequests, crashes' \in 0 .. MaxCrashes,
         HandlerFits(h), LockFits(r, h), NameFits(r, h), IdFits(r, h)
  PROVE  IInv'
<1>1. /\ req' \in [Requests -> Handler]
      /\ req'[r] = h
      /\ \A t \in Requests \ {r} : req'[t] = req[t]
  BY HandlerBecomes DEF IInv
<1>2. TypeOK'
  BY <1>1 DEF IInv, TypeOK
<1>3. Stored' = Stored /\ \A name, i : NameTaken(name, i)' = NameTaken(name, i)
  BY DEF Stored, NameTaken
<1>4. HandlerInv'
  BY <1>1, <1>3 DEF IInv, HandlerInv, HandlerFits
<1>5. LockInv'
  <2> SUFFICES ASSUME NEW s \in Requests, NEW t \in Requests, s # t, Locked(s)', Locked(t)'
               PROVE  req'[s].target # req'[t].target
    BY DEF LockInv
  <2>1. \A u \in Requests \ {r} : Locked(u)' <=> Locked(u)
    BY <1>1 DEF Locked
  <2>2. Locked(r)' => h.pc \in {"rename", "commit"} /\ h.written # NoChange
    BY <1>1 DEF Locked
  <2>3. CASE s = r
    BY <1>1, <2>1, <2>2, <2>3 DEF LockFits
  <2>4. CASE t = r
    BY <1>1, <2>1, <2>2, <2>4 DEF LockFits
  <2>5. CASE s # r /\ t # r
    BY <1>1, <2>1, <2>5 DEF IInv, LockInv
  <2> QED
    BY <2>3, <2>4, <2>5
<1>6. NameInv'
  <2> SUFFICES ASSUME NEW s \in Requests, NEW name \in Names, Entered(s, name)'
               PROVE  /\ req'[s].pc = "added" => req'[s].target \in Ids \ Stored
                      /\ ~NameTaken(name, req'[s].target)
                      /\ \A t \in Requests \ {s} : ~Entered(t, name)'
    BY <1>3 DEF NameInv
  <2>1. \A u \in Requests \ {r} : Entered(u, name)' <=> Entered(u, name)
    BY <1>1 DEF Entered
  <2>2. Entered(r, name)' <=> \/ h.pc = "added" /\ h.row.name = name
                              \/ h.pc = "commit" /\ h.written.name = name
    BY <1>1 DEF Entered
  <2>3. CASE s = r
    BY <1>1, <2>1, <2>2, <2>3 DEF NameFits
  <2>4. CASE s # r
    <3>1. Entered(s, name)
      BY <2>1, <2>4
    <3>2. ~Entered(r, name)'
      BY <2>2, <2>4, <3>1 DEF NameFits
    <3> QED
      BY <1>1, <2>1, <2>4, <3>1, <3>2 DEF IInv, NameInv
  <2> QED
    BY <2>3, <2>4
<1>7. IdInv'
  BY <1>1 DEF IInv, IdInv, IdFits
<1>8. NamesAreUnique'
  BY <1>3 DEF IInv, NamesAreUnique
<1> QED
  BY <1>2, <1>4, <1>5, <1>6, <1>7, <1>8 DEF IInv

(* A handler that is not at a write owes the others nothing.               *)
LEMMA HandlerPasses ==
  ASSUME IInv, NEW r \in Requests, NEW h \in Handler,
         req' = [req EXCEPT ![r] = h],
         UNCHANGED skills, received' \in 0 .. MaxRequests, crashes' \in 0 .. MaxCrashes,
         h.pc \in {"idle", "post", "insert", "find", "flush"},
         HandlerFits(h)
  PROVE  IInv'
<1>1. LockFits(r, h) /\ NameFits(r, h) /\ IdFits(r, h)
  BY DEF LockFits, NameFits, IdFits
<1> QED
  BY <1>1, HandlerMoves

LEMMA RollsBack ==
  ASSUME IInv, NEW r \in Requests, Rollback(r),
         UNCHANGED skills, received' \in 0 .. MaxRequests, crashes' \in 0 .. MaxCrashes
  PROVE  IInv'
<1>1. HandlerFits(Idle)
  BY IdleType DEF HandlerFits
<1> QED
  BY <1>1, IdleType, HandlerPasses DEF Rollback

-----------------------------------------------------------------------------
LEMMA ReceiveStep ==
  ASSUME IInv, NEW r \in Requests, ReceivePost(r) \/ ReceivePatch(r) \/ ReceiveDelete(r)
  PROVE  IInv'
<1>1. ASSUME NEW h \in Handler, h.pc \in {"post", "find"}, HandlerFits(h), Receive(r, h)
      PROVE  IInv'
  <2>1. received' \in 0 .. MaxRequests
    BY <1>1, TaxonomyAssumption DEF Receive, IInv, TypeOK
  <2> QED
    BY <1>1, <2>1, HandlerPasses DEF Receive, IInv, TypeOK
<1>2. CASE ReceivePost(r)
  <2>1. PICK actor \in Actors, name \in Names, category \in Categories :
          Receive(r, [Idle EXCEPT !.pc = "post",
                                  !.row = [name |-> name, category |-> category,
                                           is_active |-> TRUE, updated_by |-> actor]])
    BY <1>2 DEF ReceivePost
  <2> DEFINE row == [name |-> name, category |-> category,
                     is_active |-> TRUE, updated_by |-> actor]
             h   == [Idle EXCEPT !.pc = "post", !.row = row]
  <2>2. row \in Skill
    BY DEF Skill
  <2>3. h \in Handler /\ h.pc = "post" /\ h.row = row
    BY <2>2, IdleType DEF Handler, Idle
  <2>4. Receive(r, h)
    BY <2>1
  <2> HIDE DEF row, h
  <2>5. HandlerFits(h)
    BY <2>2, <2>3 DEF HandlerFits
  <2> QED
    BY <1>1, <2>3, <2>4, <2>5
<1>3. ASSUME NEW i \in Stored, NEW body \in Change,
             Receive(r, [Idle EXCEPT !.pc = "find", !.target = i, !.body = body])
      PROVE  IInv'
  <2> DEFINE h == [Idle EXCEPT !.pc = "find", !.target = i, !.body = body]
  <2>1. h \in Handler /\ h.pc = "find" /\ h.target = i
    BY IdleType DEF Handler, Idle, Stored
  <2>2. Receive(r, h)
    BY <1>3
  <2> HIDE DEF h
  <2>3. HandlerFits(h)
    BY <2>1 DEF HandlerFits
  <2> QED
    BY <1>1, <2>1, <2>2, <2>3
<1>4. CASE ReceivePatch(r)
  <2>1. PICK actor \in Actors, i \in Stored, body \in Bodies :
          Receive(r, [Idle EXCEPT !.pc = "find", !.target = i,
                                  !.body = [body EXCEPT !.updated_by = actor]])
    BY <1>4 DEF ReceivePatch
  <2>2. [body EXCEPT !.updated_by = actor] \in Change
    BY TaxonomyAssumption DEF Change
  <2> QED
    BY <1>3, <2>1, <2>2
<1>5. CASE ReceiveDelete(r)
  <2>1. PICK actor \in Actors, i \in Stored :
          Receive(r, [Idle EXCEPT !.pc = "find", !.target = i,
                                  !.body = [NoChange EXCEPT !.is_active = FALSE,
                                                            !.updated_by = actor]])
    BY <1>5 DEF ReceiveDelete
  <2>2. [NoChange EXCEPT !.is_active = FALSE, !.updated_by = actor] \in Change
    BY DEF Change, NoChange
  <2> QED
    BY <1>3, <2>1, <2>2
<1> QED
  BY <1>2, <1>4, <1>5

(* The steps before the first write, and the ends without a trace.         *)
LEMMA LookupStep ==
  ASSUME IInv, NEW r \in Requests,
         FindName(r) \/ FindSkill(r) \/ DeadlockDetected(r) \/ Crash(r)
  PROVE  IInv'
<1>1. received' \in 0 .. MaxRequests /\ crashes' \in 0 .. MaxCrashes /\ UNCHANGED skills
  BY TaxonomyAssumption DEF IInv, TypeOK, FindName, FindSkill, DeadlockDetected, Crash
<1>2. CASE Rollback(r)
  BY <1>1, <1>2, RollsBack
<1>3. CASE Goto(r, "post", "insert")
  <2> DEFINE h == [req[r] EXCEPT !.pc = "insert"]
  <2>1. h \in Handler /\ h.pc = "insert" /\ h.row = req[r].row
    BY DEF IInv, TypeOK, Handler
  <2>2. req' = [req EXCEPT ![r] = h]
    BY <1>3 DEF Goto
  <2>3. req[r].row \in Skill
    BY <1>3 DEF Goto, IInv, HandlerInv
  <2> HIDE DEF h
  <2>4. HandlerFits(h)
    BY <2>1, <2>3 DEF HandlerFits
  <2> QED
    BY <1>1, <2>1, <2>2, <2>4, HandlerPasses
<1>4. CASE FindSkill(r)
  <2> DEFINE h == [req[r] EXCEPT !.pc = "flush", !.loaded = skills[req[r].target]]
  <2>1. req[r].target \in Stored /\ skills[req[r].target] \in Skill
    BY <1>4 DEF FindSkill, IInv, HandlerInv, TypeOK, Stored
  <2>2. /\ h \in Handler /\ h.pc = "flush" /\ h.target = req[r].target
        /\ h.loaded = skills[req[r].target]
    BY <2>1 DEF IInv, TypeOK, Handler
  <2>3. req' = [req EXCEPT ![r] = h]
    BY <1>4 DEF FindSkill
  <2> HIDE DEF h
  <2>4. HandlerFits(h)
    BY <2>1, <2>2 DEF HandlerFits
  <2> QED
    BY <1>1, <2>2, <2>3, <2>4, HandlerPasses
<1> QED
  BY <1>2, <1>3, <1>4 DEF FindName, DeadlockDetected, Crash

(* A row is locked by one UPDATE only.                                     *)
LEMMA FlushStep ==
  ASSUME IInv, NEW r \in Requests, Flush(r)
  PROVE  IInv'
<1> DEFINE written == Dirty(req[r].body, req[r].loaded)
           pc == IF written.name = Same THEN "commit" ELSE "rename"
           h  == [req[r] EXCEPT !.pc = pc, !.written = written]
<1>1. req[r] \in Handler /\ req[r].pc = "flush"
  BY DEF Flush, IInv, TypeOK
<1>2. req[r].target \in Stored /\ req[r].loaded \in Skill
  BY <1>1 DEF IInv, HandlerInv
<1>3. written \in Change
  BY <1>1, DirtyType DEF Handler
<1>4. /\ h \in Handler /\ h.pc = pc /\ h.written = written /\ h.target = req[r].target
      /\ h.body = req[r].body /\ h.loaded = req[r].loaded
  BY <1>1, <1>3 DEF Handler
<1>5. req' = [req EXCEPT ![r] = h]
  BY DEF Flush
<1>6. written = NoChange \/ RowHolders(r, req[r].target) = {}
  BY DEF Flush
<1>7. h.written = Dirty(h.body, h.loaded)
  BY <1>4
<1>8. h.pc = "commit" => h.written.name = Same
  BY <1>4
<1>9. h.pc = "rename" => h.written.name # Same
  BY <1>4
<1>10. h.pc \in {"commit", "rename"}
  BY <1>4
<1> HIDE DEF h, written, pc
<1>11. HandlerFits(h)
  BY <1>2, <1>4, <1>7, <1>9, <1>10 DEF HandlerFits
<1>12. LockFits(r, h)
  BY <1>4, <1>6 DEF LockFits, RowHolders
<1>13. NameFits(r, h)
  BY <1>8, <1>10, TaxonomyAssumption DEF NameFits
<1>14. IdFits(r, h)
  BY <1>10 DEF IdFits
<1>15. received' \in 0 .. MaxRequests /\ crashes' \in 0 .. MaxCrashes /\ UNCHANGED skills
  BY DEF Flush, IInv, TypeOK
<1> QED
  BY <1>4, <1>5, <1>11, <1>12, <1>13, <1>14, <1>15, HandlerMoves

(* Nobody else has entered a name that can be entered.                     *)
LEMMA NameFree ==
  ASSUME NEW r \in Requests, NEW name, NameHolders(r, name) = {}
  PROVE  \A t \in Requests \ {r} : ~Entered(t, name)
BY DEF NameHolders, Entered

LEMMA RenameStep ==
  ASSUME IInv, NEW r \in Requests, Rename(r)
  PROVE  IInv'
<1>1. received' \in 0 .. MaxRequests /\ crashes' \in 0 .. MaxCrashes /\ UNCHANGED skills
  BY DEF Rename, IInv, TypeOK
<1>2. CASE NameTaken(req[r].written.name, req[r].target)
  BY <1>1, <1>2, RollsBack DEF Rename
<1>3. CASE ~NameTaken(req[r].written.name, req[r].target)
  <2> DEFINE h == [req[r] EXCEPT !.pc = "commit"]
  <2>1. req[r] \in Handler /\ req[r].pc = "rename"
    BY DEF Rename, IInv, TypeOK
  <2>2. req' = [req EXCEPT ![r] = h]
    BY <1>3 DEF Rename, Goto
  <2>3. /\ h \in Handler /\ h.pc = "commit" /\ h.written = req[r].written
        /\ h.target = req[r].target /\ h.body = req[r].body /\ h.loaded = req[r].loaded
    BY <2>1 DEF Handler
  <2> HIDE DEF h
  <2>4. HandlerFits(h)
    BY <2>1, <2>3 DEF HandlerFits, IInv, HandlerInv
  <2>5. LockFits(r, h)
    <3>1. h.written # NoChange => Locked(r)
      BY <2>1, <2>3 DEF Locked
    <3> QED
      BY <2>3, <3>1 DEF LockFits, IInv, LockInv
  <2>6. NameFits(r, h)
    <3>1. \A t \in Requests \ {r} : ~Entered(t, req[r].written.name)
      BY NameFree DEF Rename
    <3> QED
      BY <1>3, <2>3, <3>1 DEF NameFits
  <2>7. IdFits(r, h)
    BY <2>3 DEF IdFits
  <2> QED
    BY <1>1, <2>2, <2>3, <2>4, <2>5, <2>6, <2>7, HandlerMoves
<1> QED
  BY <1>2, <1>3

LEMMA InsertStep ==
  ASSUME IInv, NEW r \in Requests, Insert(r)
  PROVE  IInv'
<1>1. received' \in 0 .. MaxRequests /\ crashes' \in 0 .. MaxCrashes /\ UNCHANGED skills
  BY DEF Insert, IInv, TypeOK
<1>2. CASE NameTaken(req[r].row.name, None)
  BY <1>1, <1>2, RollsBack DEF Insert
<1>3. CASE ~NameTaken(req[r].row.name, None)
  <2>1. PICK i \in FreeIds(r) : req' = [req EXCEPT ![r].pc = "added", ![r].target = i]
    BY <1>3 DEF Insert
  <2>2. i \in Ids \ Stored /\ \A t \in Requests \ {r} : req[t].target # i
    BY DEF FreeIds, Stored
  <2> DEFINE h == [req[r] EXCEPT !.pc = "added", !.target = i]
  <2>3. req[r] \in Handler /\ req[r].pc = "insert" /\ req[r].row \in Skill
    BY DEF Insert, IInv, TypeOK, HandlerInv
  <2>4. req' = [req EXCEPT ![r] = h]
    BY <2>1
  <2>5. h \in Handler /\ h.pc = "added" /\ h.target = i /\ h.row = req[r].row
    BY <2>2, <2>3 DEF Handler
  <2> HIDE DEF h
  <2>6. HandlerFits(h)
    BY <2>3, <2>5 DEF HandlerFits
  <2>7. LockFits(r, h) /\ IdFits(r, h)
    BY <2>2, <2>5 DEF LockFits, IdFits
  <2>8. NameFits(r, h)
    <3>1. \A t \in Requests \ {r} : ~Entered(t, req[r].row.name)
      BY NameFree DEF Insert
    <3>2. ~NameTaken(req[r].row.name, i)
      BY <1>3, TaxonomyAssumption DEF NameTaken, Stored
    <3> QED
      BY <2>2, <2>5, <3>1, <3>2 DEF NameFits
  <2> QED
    BY <1>1, <2>4, <2>5, <2>6, <2>7, <2>8, HandlerMoves
<1> QED
  BY <1>2, <1>3

-----------------------------------------------------------------------------
(* A commit: row i becomes row, whose name no other row and no other open   *)
(* transaction has.                                                        *)
LEMMA RowBecomes ==
  ASSUME IInv, NEW r \in Requests, NEW i \in Ids, NEW row \in Skill,
         skills' = [skills EXCEPT ![i] = row], Rollback(r), UNCHANGED <<received, crashes>>,
         \A j \in Stored \ {i} : skills[j].name # row.name,
         \A t \in Requests \ {r} : req[t].pc = "added" => req[t].target # i,
         \A t \in Requests \ {r} : Entered(t, row.name) => req[t].target = i
  PROVE  IInv'
<1>1. /\ req' \in [Requests -> Handler]
      /\ req'[r].pc = "idle"
      /\ \A t \in Requests \ {r} : req'[t] = req[t]
  BY IdleType, HandlerBecomes DEF IInv, Rollback
<1>2. /\ skills' \in [Ids -> Skill \cup {None}]
      /\ skills'[i] = row
      /\ \A j \in Ids \ {i} : skills'[j] = skills[j]
      /\ row # None
  BY TaxonomyAssumption DEF IInv, TypeOK
<1>3. TypeOK'
  BY <1>1, <1>2 DEF IInv, TypeOK
<1>4. Stored' = Stored \cup {i}
  BY <1>2 DEF Stored
<1>5. HandlerInv'
  BY <1>1, <1>4 DEF IInv, HandlerInv
<1>6. \A t \in Requests : (Locked(t)' => t # r /\ Locked(t))
  BY <1>1 DEF Locked
<1>7. LockInv'
  BY <1>1, <1>6 DEF IInv, LockInv
<1>8. NameInv'
  <2> SUFFICES ASSUME NEW s \in Requests, NEW name \in Names, Entered(s, name)'
               PROVE  /\ req'[s].pc = "added" => req'[s].target \in Ids \ Stored'
                      /\ ~NameTaken(name, req[s].target)'
                      /\ \A t \in Requests \ {s} : ~Entered(t, name)'
    BY DEF NameInv
  <2>1. \A t \in Requests : Entered(t, name)' => t # r /\ Entered(t, name)
    BY <1>1 DEF Entered
  <2>2. s # r /\ Entered(s, name) /\ req'[s] = req[s]
    BY <1>1, <2>1
  <2>3. /\ req[s].pc = "added" => req[s].target \in Ids \ Stored
        /\ ~NameTaken(name, req[s].target)
        /\ \A t \in Requests \ {s} : ~Entered(t, name)
    BY <2>2 DEF IInv, NameInv
  <2>4. row.name = name => req[s].target = i
    BY <2>2
  <2>5. ~NameTaken(name, req[s].target)'
    BY <1>2, <1>4, <2>2, <2>3, <2>4 DEF NameTaken
  <2> QED
    BY <1>4, <2>1, <2>2, <2>3, <2>5
<1>9. IdInv'
  BY <1>1 DEF IInv, IdInv
<1>10. NamesAreUnique'
  BY <1>2, <1>4 DEF IInv, NamesAreUnique, Stored
<1> QED
  BY <1>3, <1>5, <1>7, <1>8, <1>9, <1>10 DEF IInv

LEMMA CommitNewStep ==
  ASSUME IInv, NEW r \in Requests, CommitNew(r)
  PROVE  IInv'
<1> DEFINE i   == req[r].target
           row == req[r].row
<1>1. req[r].pc = "added" /\ row \in Skill
  BY DEF CommitNew, IInv, HandlerInv
<1>2. row.name \in Names /\ Entered(r, row.name)
  BY <1>1 DEF Skill, Entered
<1>3. /\ i \in Ids \ Stored
      /\ ~NameTaken(row.name, i)
      /\ \A t \in Requests \ {r} : ~Entered(t, row.name)
  BY <1>1, <1>2 DEF IInv, NameInv
<1>4. \A j \in Stored \ {i} : skills[j].name # row.name
  BY <1>3 DEF NameTaken
<1>5. \A t \in Requests \ {r} : req[t].pc = "added" => req[t].target # i
  BY <1>1 DEF IInv, IdInv
<1>6. skills' = [skills EXCEPT ![i] = row] /\ Rollback(r) /\ UNCHANGED <<received, crashes>>
  BY DEF CommitNew
<1> HIDE DEF i, row
<1> QED
  BY <1>1, <1>3, <1>4, <1>5, <1>6, RowBecomes

(* What a commit of an edit writes: its row and the name of it.            *)
LEMMA CommitEditRow ==
  ASSUME IInv, NEW r \in Requests, CommitEdit(r)
  PROVE  /\ req[r].target \in Stored
         /\ skills[req[r].target] \in Skill
         /\ req[r].body \in Change
         /\ req[r].loaded \in Skill
         /\ req[r].written \in Change
         /\ req[r].written = Dirty(req[r].body, req[r].loaded)
         /\ skills' = [skills EXCEPT ![req[r].target] =
                         Updated(skills[req[r].target], req[r].written)]
         /\ skills'[req[r].target] = Updated(skills[req[r].target], req[r].written)
<1>1. req[r] \in Handler /\ req[r].pc = "commit"
  BY DEF CommitEdit, IInv, TypeOK
<1>2. /\ req[r].target \in Stored
      /\ req[r].loaded \in Skill
      /\ req[r].written = Dirty(req[r].body, req[r].loaded)
  BY <1>1 DEF IInv, HandlerInv
<1>3. skills[req[r].target] \in Skill /\ req[r].target \in Ids
  BY <1>2 DEF IInv, TypeOK, Stored
<1>4. skills' = [skills EXCEPT ![req[r].target] =
                   Updated(skills[req[r].target], req[r].written)]
  BY DEF CommitEdit
<1>5. skills'[req[r].target] = Updated(skills[req[r].target], req[r].written)
  BY <1>3, <1>4 DEF IInv, TypeOK
<1> QED
  BY <1>1, <1>2, <1>3, <1>4, <1>5 DEF Handler

LEMMA CommitEditStep ==
  ASSUME IInv, NEW r \in Requests, CommitEdit(r)
  PROVE  IInv'
<1> DEFINE i   == req[r].target
           old == skills[i]
           row == Updated(old, req[r].written)
<1>1. i \in Stored /\ i \in Ids /\ old \in Skill /\ req[r].written \in Change
  BY CommitEditRow DEF Stored
<1>2. row \in Skill /\ row.name = Replaced(old.name, req[r].written.name)
  BY <1>1, UpdatedType
<1>3. skills' = [skills EXCEPT ![i] = row] /\ Rollback(r) /\ UNCHANGED <<received, crashes>>
  BY CommitEditRow DEF CommitEdit
<1>4. \A t \in Requests \ {r} : req[t].pc = "added" => req[t].target # i
  <2>1. ASSUME NEW t \in Requests \ {r}, req[t].pc = "added"
        PROVE  req[t].target \notin Stored
    <3>1. req[t].row \in Skill
      BY <2>1 DEF IInv, HandlerInv
    <3>2. req[t].row.name \in Names /\ Entered(t, req[t].row.name)
      BY <2>1, <3>1 DEF Skill, Entered
    <3> QED
      BY <2>1, <3>2 DEF IInv, NameInv
  <2> QED
    BY <1>1, <2>1
<1>5. CASE req[r].written.name = Same
  <2>1. row.name = old.name /\ row.name \in Names
    BY <1>1, <1>2, <1>5 DEF Replaced, Skill
  <2>2. \A j \in Stored \ {i} : skills[j].name # row.name
    BY <1>1, <2>1 DEF IInv, NamesAreUnique
  <2>3. ASSUME NEW t \in Requests \ {r}, Entered(t, row.name)
        PROVE  req[t].target = i
    <3>1. ~NameTaken(row.name, req[t].target)
      BY <2>1, <2>3 DEF IInv, NameInv
    <3> QED
      BY <1>1, <2>1, <3>1 DEF NameTaken
  <2> HIDE DEF i, old, row
  <2> QED
    BY <1>1, <1>2, <1>3, <1>4, <2>2, <2>3, RowBecomes
<1>6. CASE req[r].written.name # Same
  <2>1. row.name = req[r].written.name /\ row.name \in Names
    BY <1>2, <1>6 DEF Replaced, Skill
  <2>2. Entered(r, row.name)
    BY <2>1 DEF Entered, CommitEdit
  <2>3. ~NameTaken(row.name, i) /\ \A t \in Requests \ {r} : ~Entered(t, row.name)
    BY <2>1, <2>2 DEF IInv, NameInv
  <2>4. \A j \in Stored \ {i} : skills[j].name # row.name
    BY <2>3 DEF NameTaken
  <2> HIDE DEF i, old, row
  <2> QED
    BY <1>1, <1>2, <1>3, <1>4, <2>3, <2>4, RowBecomes
<1> QED
  BY <1>5, <1>6

(* Every step keeps the invariant.                                         *)
LEMMA NextIInv == IInv /\ [Next]_vars => IInv'
<1> SUFFICES ASSUME IInv, [Next]_vars PROVE IInv'
  OBVIOUS
<1>1. CASE UNCHANGED vars
  BY <1>1 DEF vars, IInv, TypeOK, HandlerInv, LockInv, Locked, NameInv, Entered, NameTaken,
              IdInv, NamesAreUnique, Stored
<1>2. ASSUME NEW r \in Requests,
             ReceivePost(r) \/ ReceivePatch(r) \/ ReceiveDelete(r) \/ HandlerStep(r) \/ Crash(r)
      PROVE  IInv'
  BY <1>2, ReceiveStep, LookupStep, FlushStep, RenameStep, InsertStep, CommitNewStep,
     CommitEditStep DEF HandlerStep
<1> QED
  BY <1>1, <1>2 DEF Next

-----------------------------------------------------------------------------
(* The invariant holds in every reachable state (TaxonomyRepository and its *)
(* transactions).                                                          *)
THEOREM SpecIInv == Spec => []IInv
BY InitIInv, NextIInv, PTL DEF Spec

(* No two skills have one name, whatever creates and renames run beside     *)
(* each other: the unique index keeps up what get_by_name relies on.       *)
THEOREM UniqueNames == Spec => []NamesAreUnique
<1>1. IInv => NamesAreUnique
  BY DEF IInv
<1> QED
  BY SpecIInv, <1>1, PTL

(* An edit leaves alone every column that it was not asked to change.      *)
THEOREM OtherColumnsStay == Spec => EditsKeepToTheirColumns
<1> DEFINE Kept == \A r \in Requests : CommitEdit(r) =>
                     \A c \in DOMAIN NoChange : req[r].body[c] = Same =>
                       skills'[req[r].target][c] = skills[req[r].target][c]
<1>1. ASSUME IInv, NEW r \in Requests, CommitEdit(r), NEW c \in DOMAIN NoChange,
             req[r].body[c] = Same
      PROVE  skills'[req[r].target][c] = skills[req[r].target][c]
  <2> DEFINE ch  == req[r].written
             old == skills[req[r].target]
  <2>1. c \in {"name", "category", "is_active", "updated_by"}
    BY DEF NoChange
  <2>2. ch \in Change /\ old \in Skill /\ req[r].body \in Change
        /\ ch = Dirty(req[r].body, req[r].loaded) /\ req[r].loaded \in Skill
        /\ skills'[req[r].target] = Updated(old, ch)
    BY <1>1, CommitEditRow
  <2>3. ch[c] = Same
    <3>1. ch[c] = Differing(req[r].loaded[c], req[r].body[c])
      BY <2>1, <2>2, DirtyType
    <3> QED
      BY <1>1, <3>1 DEF Differing
  <2>4. Updated(old, ch)[c] = Replaced(old[c], ch[c])
    BY <2>1, <2>2, UpdatedType
  <2> QED
    BY <2>2, <2>3, <2>4 DEF Replaced
<1>2. IInv /\ [Next]_vars => [Kept]_vars
  BY <1>1
<1> QED
  BY SpecIInv, <1>2, PTL DEF Spec, EditsKeepToTheirColumns

(* An edit gives each column that it was asked to change, and that had      *)
(* another value when it loaded the row, the value that was asked for.     *)
THEOREM AskedColumnsChange == Spec => EditsTakeEffect
<1> DEFINE Done == \A r \in Requests : CommitEdit(r) =>
                     \A c \in DOMAIN NoChange : req[r].body[c] \notin {Same, req[r].loaded[c]} =>
                       skills'[req[r].target][c] = req[r].body[c]
<1>1. ASSUME IInv, NEW r \in Requests, CommitEdit(r), NEW c \in DOMAIN NoChange,
             req[r].body[c] \notin {Same, req[r].loaded[c]}
      PROVE  skills'[req[r].target][c] = req[r].body[c]
  <2> DEFINE ch  == req[r].written
             old == skills[req[r].target]
  <2>1. c \in {"name", "category", "is_active", "updated_by"}
    BY DEF NoChange
  <2>2. ch \in Change /\ old \in Skill /\ req[r].body \in Change
        /\ ch = Dirty(req[r].body, req[r].loaded) /\ req[r].loaded \in Skill
        /\ skills'[req[r].target] = Updated(old, ch)
    BY <1>1, CommitEditRow
  <2>3. ch[c] = req[r].body[c]
    <3>1. ch[c] = Differing(req[r].loaded[c], req[r].body[c])
      BY <2>1, <2>2, DirtyType
    <3> QED
      BY <1>1, <3>1 DEF Differing
  <2>4. Updated(old, ch)[c] = Replaced(old[c], ch[c])
    BY <2>1, <2>2, UpdatedType
  <2> QED
    BY <1>1, <2>2, <2>3, <2>4 DEF Replaced
<1>2. IInv /\ [Next]_vars => [Done]_vars
  BY <1>1
<1> QED
  BY SpecIInv, <1>2, PTL DEF Spec, EditsTakeEffect

-----------------------------------------------------------------------------
(* The refinement of AtomicTable.                                          *)

Columns == {"name", "category", "is_active", "updated_by"}

(* When the handler of r becomes h, the table sees what h asks for.        *)
LEMMA PendingBecomes ==
  ASSUME TypeOK, NEW r \in Requests, NEW h, req' = [req EXCEPT ![r] = h]
  PROVE  /\ PendingView' = [PendingView EXCEPT ![r] = AskedFor(h)]
         /\ AskedFor(h) = AskedFor(req[r]) => PendingView' = PendingView
<1>1. \A t \in Requests : req'[t] = IF t = r THEN h ELSE req[t]
  BY DEF TypeOK
<1>2. PendingView' = [t \in Requests |-> AskedFor(req'[t])]
  BY DEF PendingView
<1>3. ASSUME NEW t \in Requests
      PROVE  AskedFor(req'[t]) = IF t = r THEN AskedFor(h) ELSE AskedFor(req[t])
  BY <1>1
<1>4. PendingView' = [PendingView EXCEPT ![r] = AskedFor(h)]
  BY <1>2, <1>3 DEF PendingView
<1>5. ASSUME AskedFor(h) = AskedFor(req[r]) PROVE PendingView' = PendingView
  BY <1>2, <1>3, <1>5 DEF PendingView
<1> QED
  BY <1>4, <1>5

(* What a handler asks for, by its place in the code.                      *)
LEMMA AskedForWhat ==
  ASSUME NEW h \in Handler
  PROVE  /\ h.pc = "idle" => AskedFor(h) = Table!Nothing
         /\ h.pc \in {"post", "insert", "added"} =>
              AskedFor(h) = [kind |-> "add", row |-> h.row]
         /\ h.pc \in {"find", "flush", "rename", "commit"} =>
              AskedFor(h) = [kind |-> "edit", id |-> h.target, edit |-> Asked(h.body)]
BY DEF AskedFor, Table!Nothing, Handler

(* A handler that only gets on asks for what it asked for.                 *)
LEMMA GettingOnIsHidden ==
  ASSUME TypeOK, NEW r \in Requests, NEW h \in Handler, req' = [req EXCEPT ![r] = h],
         UNCHANGED skills,
         \/ req[r].pc \in {"post", "insert"} /\ h.pc \in {"insert", "added"}
            /\ h.row = req[r].row
         \/ req[r].pc \in {"find", "flush", "rename"} /\ h.pc \in {"flush", "rename", "commit"}
            /\ h.target = req[r].target /\ h.body = req[r].body
  PROVE  UNCHANGED Table!tableVars
<1>1. req[r] \in Handler
  BY DEF TypeOK
<1>2. AskedFor(h) = AskedFor(req[r])
  BY <1>1, AskedForWhat
<1> QED
  BY <1>2, PendingBecomes DEF Table!tableVars

(* A session that is over asks for nothing.                                *)
LEMMA EndingEndsTheOperation ==
  ASSUME TypeOK, NEW r \in Requests, req' = [req EXCEPT ![r] = Idle]
  PROVE  PendingView' = [PendingView EXCEPT ![r] = Table!Nothing]
<1>1. AskedFor(Idle) = Table!Nothing
  BY IdleType, AskedForWhat
<1> QED
  BY <1>1, PendingBecomes

(* A rollback drops the request.                                           *)
LEMMA RollbackDrops ==
  ASSUME TypeOK, NEW r \in Requests, Rollback(r), UNCHANGED skills
  PROVE  [Table!Next]_(Table!tableVars)
<1>1. PendingView' = [PendingView EXCEPT ![r] = Table!Nothing]
  BY EndingEndsTheOperation DEF Rollback
<1>2. CASE PendingView[r] = Table!Nothing
  <2>1. PendingView' = PendingView
    BY <1>1, <1>2 DEF PendingView
  <2> QED
    BY <2>1 DEF Table!tableVars
<1>3. CASE PendingView[r] # Table!Nothing
  BY <1>1, <1>3 DEF Table!Next, Table!Drop, Table!Ends
<1> QED
  BY <1>2, <1>3

(* A request that arrives asks for something that may be asked for.        *)
LEMMA ReceiveAsks ==
  ASSUME TypeOK, NEW r \in Requests, ReceivePost(r) \/ ReceivePatch(r) \/ ReceiveDelete(r)
  PROVE  Table!Next
<1>1. ASSUME NEW h \in Handler, AskedFor(h) \in Requestable[r], Receive(r, h)
      PROVE  Table!Next
  <2>1. PendingView' = [PendingView EXCEPT ![r] = AskedFor(h)]
    BY <1>1, PendingBecomes DEF Receive
  <2>2. PendingView[r] = Table!Nothing
    BY <1>1, AskedForWhat DEF Receive, PendingView, TypeOK
  <2>3. UNCHANGED skills
    BY <1>1 DEF Receive
  <2>4. Table!Ask(r)
    BY <1>1, <2>1, <2>2, <2>3 DEF Table!Ask
  <2> QED
    BY <2>4 DEF Table!Next
<1>2. CASE ReceivePost(r)
  <2>1. PICK actor \in Actors, name \in Names, category \in Categories :
          Receive(r, [Idle EXCEPT !.pc = "post",
                                  !.row = [name |-> name, category |-> category,
                                           is_active |-> TRUE, updated_by |-> actor]])
    BY <1>2 DEF ReceivePost
  <2> DEFINE row == [name |-> name, category |-> category,
                     is_active |-> TRUE, updated_by |-> actor]
             h   == [Idle EXCEPT !.pc = "post", !.row = row]
  <2>2. row \in Skill /\ row.is_active
    BY DEF Skill
  <2>3. h \in Handler /\ h.pc = "post" /\ h.row = row
    BY <2>2, IdleType DEF Handler, Idle
  <2>4. Receive(r, h)
    BY <2>1
  <2> HIDE DEF row, h
  <2>5. AskedFor(h) \in Requestable[r]
    BY <2>2, <2>3, AskedForWhat DEF Requestable
  <2> QED
    BY <1>1, <2>3, <2>4, <2>5
<1>3. ASSUME NEW i \in Stored, NEW body \in EditBodies, body \in Change,
             Receive(r, [Idle EXCEPT !.pc = "find", !.target = i, !.body = body])
      PROVE  Table!Next
  <2> DEFINE h == [Idle EXCEPT !.pc = "find", !.target = i, !.body = body]
  <2>1. h \in Handler /\ h.pc = "find" /\ h.target = i /\ h.body = body
    BY <1>3, IdleType DEF Handler, Idle, Stored
  <2>2. Receive(r, h)
    BY <1>3
  <2> HIDE DEF h
  <2>3. AskedFor(h) \in Requestable[r]
    BY <1>3, <2>1, AskedForWhat DEF Requestable, Stored
  <2> QED
    BY <1>1, <2>1, <2>2, <2>3
<1>4. CASE ReceivePatch(r)
  <2>1. PICK actor \in Actors, i \in Stored, body \in Bodies :
          Receive(r, [Idle EXCEPT !.pc = "find", !.target = i,
                                  !.body = [body EXCEPT !.updated_by = actor]])
    BY <1>4 DEF ReceivePatch
  <2>2. [body EXCEPT !.updated_by = actor] \in Change
    BY TaxonomyAssumption DEF Change
  <2>3. [body EXCEPT !.updated_by = actor] \in EditBodies
    BY DEF EditBodies
  <2> QED
    BY <1>3, <2>1, <2>2, <2>3
<1>5. CASE ReceiveDelete(r)
  <2> DEFINE off == [NoChange EXCEPT !.is_active = FALSE]
  <2>1. PICK actor \in Actors, i \in Stored :
          Receive(r, [Idle EXCEPT !.pc = "find", !.target = i,
                                  !.body = [off EXCEPT !.updated_by = actor]])
    BY <1>5 DEF ReceiveDelete
  <2>2. [off EXCEPT !.updated_by = actor] \in Change
    BY DEF Change, NoChange
  <2>3. off \in Bodies \cup {[NoChange EXCEPT !.is_active = FALSE]}
    OBVIOUS
  <2> HIDE DEF off
  <2>4. [off EXCEPT !.updated_by = actor] \in EditBodies
    BY <2>3 DEF EditBodies
  <2> QED
    BY <1>3, <2>1, <2>2, <2>4
<1> QED
  BY <1>2, <1>4, <1>5

(* The dirty columns are among those asked for, with the values asked for. *)
LEMMA DirtyIsAsked ==
  ASSUME NEW body \in Change, NEW loaded, NEW c \in Columns,
         Dirty(body, loaded)[c] # Same
  PROVE  /\ c \in DOMAIN Asked(body)
         /\ Asked(body)[c] = Dirty(body, loaded)[c]
<1>1. Dirty(body, loaded)[c] = Differing(loaded[c], body[c])
  BY DirtyType DEF Columns
<1>2. body[c] = Dirty(body, loaded)[c] /\ body[c] # Same
  BY <1>1 DEF Differing
<1>3. DOMAIN NoChange = Columns
  BY DEF NoChange, Columns
<1> QED
  BY <1>2, <1>3 DEF Asked

(* What an UPDATE leaves is the row overlaid with the dirty columns of the *)
(* request.                                                                *)
LEMMA UpdatedIsOverlay ==
  ASSUME NEW row \in Skill, NEW body \in Change, NEW loaded
  PROVE  Updated(row, Dirty(body, loaded)) =
           Table!Overlay(row, Asked(body), {c \in Columns : Dirty(body, loaded)[c] # Same})
<1> DEFINE written == Dirty(body, loaded)
           dirty == {c \in Columns : written[c] # Same}
           new   == Updated(row, written)
           over  == Table!Overlay(row, Asked(body), dirty)
<1>1. written \in Change
  BY DirtyType
<1>2. DOMAIN row = Columns /\ DOMAIN new = Columns /\ DOMAIN over = Columns
  BY DEF Skill, Updated, Columns, Table!Overlay
<1>3. ASSUME NEW c \in Columns PROVE new[c] = over[c]
  <2>1. new[c] = Replaced(row[c], written[c])
    BY <1>1, UpdatedType DEF Columns
  <2>2. over[c] = IF c \in dirty THEN Asked(body)[c] ELSE row[c]
    BY <1>2 DEF Table!Overlay
  <2>3. c \in dirty => Asked(body)[c] = written[c]
    BY DirtyIsAsked
  <2> QED
    BY <2>1, <2>2, <2>3 DEF Replaced
<1>4. new = [c \in DOMAIN new |-> new[c]]
  BY DEF Updated
<1>5. over = [c \in DOMAIN over |-> over[c]]
  BY DEF Table!Overlay
<1> HIDE DEF new, over
<1>6. new = over
  BY <1>2, <1>3, <1>4, <1>5
<1> QED
  BY <1>6 DEF new, over

(* The commit of a POST adds the row that was asked for.                   *)
LEMMA CommitNewApplies ==
  ASSUME IInv, NEW r \in Requests, CommitNew(r)
  PROVE  Table!ApplyAdd(r, req[r].target) /\ req[r].target \in Ids
<1> DEFINE i   == req[r].target
           row == req[r].row
<1>1. TypeOK /\ req[r] \in Handler /\ req[r].pc = "added" /\ row \in Skill
  BY DEF CommitNew, IInv, HandlerInv, TypeOK
<1>2. row.name \in Names /\ Entered(r, row.name)
  BY <1>1 DEF Skill, Entered
<1>3. i \in Ids \ Stored /\ ~NameTaken(row.name, i)
  BY <1>1, <1>2 DEF IInv, NameInv
<1>4. skills[i] = None /\ ~Table!KeyTaken(row["name"], i)
  BY <1>3 DEF Stored, NameTaken, Table!KeyTaken
<1>5. PendingView[r] = [kind |-> "add", row |-> row]
  BY <1>1, AskedForWhat DEF PendingView
<1>6. PendingView' = [PendingView EXCEPT ![r] = Table!Nothing]
  BY <1>1, EndingEndsTheOperation DEF CommitNew, Rollback
<1>7. skills' = [skills EXCEPT ![i] = row]
  BY DEF CommitNew
<1> HIDE DEF i, row
<1>8. Table!ApplyAdd(r, i)
  BY <1>4, <1>5, <1>6, <1>7 DEF Table!ApplyAdd, Table!Ends
<1> QED
  BY <1>3, <1>8 DEF i

(* The commit of a PATCH or DELETE changes the dirty columns, and no other  *)
(* skill has the new name.                                                  *)
LEMMA CommitEditApplies ==
  ASSUME IInv, NEW r \in Requests, CommitEdit(r)
  PROVE  /\ PendingView[r].kind = "edit"
         /\ \E columns \in SUBSET DOMAIN PendingView[r].edit : Table!ApplyEdit(r, columns)
<1> DEFINE i     == req[r].target
           edit  == Asked(req[r].body)
           dirty == {c \in Columns : req[r].written[c] # Same}
<1>1. /\ TypeOK /\ req[r] \in Handler /\ req[r].pc = "commit"
      /\ i \in Ids /\ skills[i] # None /\ skills[i] \in Skill
      /\ req[r].body \in Change /\ req[r].written \in Change
      /\ req[r].written = Dirty(req[r].body, req[r].loaded)
      /\ skills' = [skills EXCEPT ![i] = Updated(skills[i], req[r].written)]
  BY CommitEditRow DEF IInv, TypeOK, CommitEdit, Stored
<1>2. \A c \in dirty : c \in DOMAIN edit /\ edit[c] = req[r].written[c]
  BY <1>1, DirtyIsAsked
<1>3. Updated(skills[i], req[r].written) = Table!Overlay(skills[i], edit, dirty)
  BY <1>1, UpdatedIsOverlay
<1>4. "name" \in dirty => ~Table!KeyTaken(edit["name"], i)
  <2> SUFFICES ASSUME "name" \in dirty PROVE ~Table!KeyTaken(edit["name"], i)
    OBVIOUS
  <2>1. edit["name"] = req[r].written.name /\ req[r].written.name \in Names
    BY <1>1, <1>2 DEF Change
  <2>2. ~NameTaken(req[r].written.name, i)
    BY <1>1, <2>1 DEF IInv, NameInv, Entered
  <2> QED
    BY <2>1, <2>2 DEF NameTaken, Table!KeyTaken, Stored
<1>5. PendingView[r] = [kind |-> "edit", id |-> i, edit |-> edit]
  BY <1>1, AskedForWhat DEF PendingView
<1>6. PendingView' = [PendingView EXCEPT ![r] = Table!Nothing]
  BY <1>1, EndingEndsTheOperation DEF CommitEdit, Rollback
<1>7. dirty \subseteq DOMAIN edit
  BY <1>2
<1> HIDE DEF i, edit, dirty
<1>8. Table!ApplyEdit(r, dirty)
  BY <1>1, <1>3, <1>4, <1>5, <1>6 DEF Table!ApplyEdit, Table!Change, Table!Ends
<1> QED
  BY <1>5, <1>7, <1>8

(* Every step of a handler is a step of the table or hidden.               *)
LEMMA HandlerStepRefines ==
  ASSUME IInv, NEW r \in Requests, HandlerStep(r) \/ Crash(r)
  PROVE  [Table!Next]_(Table!tableVars)
<1>1. TypeOK /\ req[r] \in Handler
  BY DEF IInv, TypeOK
<1>2. ASSUME Rollback(r), UNCHANGED skills PROVE [Table!Next]_(Table!tableVars)
  BY <1>1, <1>2, RollbackDrops
<1>3. CASE FindName(r)
  <2>1. CASE Goto(r, "post", "insert")
    <3> DEFINE h == [req[r] EXCEPT !.pc = "insert"]
    <3>1. h \in Handler /\ h.pc = "insert" /\ h.row = req[r].row
      BY <1>1 DEF Handler
    <3>2. req' = [req EXCEPT ![r] = h] /\ req[r].pc = "post" /\ UNCHANGED skills
      BY <1>3, <2>1 DEF Goto, FindName
    <3> HIDE DEF h
    <3> QED
      BY <1>1, <3>1, <3>2, GettingOnIsHidden
  <2> QED
    BY <1>2, <1>3, <2>1 DEF FindName
<1>4. CASE Insert(r)
  <2>1. ASSUME NEW i \in FreeIds(r), req' = [req EXCEPT ![r].pc = "added", ![r].target = i]
        PROVE  [Table!Next]_(Table!tableVars)
    <3> DEFINE h == [req[r] EXCEPT !.pc = "added", !.target = i]
    <3>1. h \in Handler /\ h.pc = "added" /\ h.row = req[r].row
      BY <1>1 DEF Handler, FreeIds
    <3>2. req' = [req EXCEPT ![r] = h] /\ req[r].pc = "insert" /\ UNCHANGED skills
      BY <1>4, <2>1 DEF Insert
    <3> HIDE DEF h
    <3> QED
      BY <1>1, <3>1, <3>2, GettingOnIsHidden
  <2> QED
    BY <1>2, <1>4, <2>1 DEF Insert
<1>5. CASE CommitNew(r)
  BY <1>5, CommitNewApplies DEF Table!Next
<1>6. CASE FindSkill(r)
  <2> DEFINE h == [req[r] EXCEPT !.pc = "flush", !.loaded = skills[req[r].target]]
  <2>1. skills[req[r].target] \in Skill
    BY <1>6 DEF FindSkill, IInv, HandlerInv, TypeOK, Stored
  <2>2. /\ h \in Handler /\ h.pc = "flush" /\ h.target = req[r].target
        /\ h.body = req[r].body
    BY <1>1, <2>1 DEF Handler
  <2>3. req' = [req EXCEPT ![r] = h] /\ req[r].pc = "find" /\ UNCHANGED skills
    BY <1>6 DEF FindSkill
  <2> HIDE DEF h
  <2> QED
    BY <1>1, <2>2, <2>3, GettingOnIsHidden
<1>7. CASE Flush(r)
  <2> DEFINE written == Dirty(req[r].body, req[r].loaded)
             pc == IF written.name = Same THEN "commit" ELSE "rename"
             h  == [req[r] EXCEPT !.pc = pc, !.written = written]
  <2>1. written \in Change /\ pc \in {"commit", "rename"}
    BY <1>1, DirtyType DEF Handler
  <2>2. req' = [req EXCEPT ![r] = h] /\ req[r].pc = "flush" /\ UNCHANGED skills
    BY <1>7 DEF Flush
  <2> HIDE DEF written, pc
  <2>3. h \in Handler /\ h.pc = pc /\ h.target = req[r].target /\ h.body = req[r].body
    BY <1>1, <2>1 DEF Handler
  <2> HIDE DEF h
  <2> QED
    BY <1>1, <2>1, <2>2, <2>3, GettingOnIsHidden
<1>8. CASE Rename(r)
  <2>1. CASE Goto(r, "rename", "commit")
    <3> DEFINE h == [req[r] EXCEPT !.pc = "commit"]
    <3>1. h \in Handler /\ h.pc = "commit" /\ h.target = req[r].target /\ h.body = req[r].body
      BY <1>1 DEF Handler
    <3>2. req' = [req EXCEPT ![r] = h] /\ req[r].pc = "rename" /\ UNCHANGED skills
      BY <1>8, <2>1 DEF Goto, Rename
    <3> HIDE DEF h
    <3> QED
      BY <1>1, <3>1, <3>2, GettingOnIsHidden
  <2> QED
    BY <1>2, <1>8, <2>1 DEF Rename
<1>9. CASE CommitEdit(r)
  BY <1>9, CommitEditApplies DEF Table!Next
<1>10. CASE DeadlockDetected(r) \/ Crash(r)
  BY <1>2, <1>10 DEF DeadlockDetected, Crash
<1> QED
  BY <1>3, <1>4, <1>5, <1>6, <1>7, <1>8, <1>9, <1>10 DEF HandlerStep

(* Creates, renames and edits of any number of concurrent requests behave   *)
(* as an atomic table: each takes effect in one step, in the columns it     *)
(* asked for and under a name that no other skill has, or not at all.       *)
THEOREM Refinement == Spec => ImplementsTable
<1>1. Init => Table!Init
  <2> SUFFICES ASSUME Init PROVE Table!Init
    OBVIOUS
  <2>1. AskedFor(Idle) = Table!Nothing
    BY IdleType, AskedForWhat
  <2>2. PendingView = [r \in Requests |-> Table!Nothing]
    BY <2>1 DEF PendingView, Init
  <2> QED
    BY <2>2 DEF Init, Table!Init
<1>2. IInv /\ [Next]_vars => [Table!Next]_(Table!tableVars)
  <2> SUFFICES ASSUME IInv, [Next]_vars PROVE [Table!Next]_(Table!tableVars)
    OBVIOUS
  <2>1. CASE UNCHANGED vars
    BY <2>1 DEF vars, Table!tableVars, PendingView
  <2>2. ASSUME NEW r \in Requests, ReceivePost(r) \/ ReceivePatch(r) \/ ReceiveDelete(r)
        PROVE  Table!Next
    BY <2>2, ReceiveAsks DEF IInv
  <2>3. ASSUME NEW r \in Requests, HandlerStep(r) \/ Crash(r)
        PROVE  [Table!Next]_(Table!tableVars)
    BY <2>3, HandlerStepRefines
  <2> QED
    BY <2>1, <2>2, <2>3 DEF Next
<1> QED
  BY <1>1, <1>2, SpecIInv, PTL DEF Spec, ImplementsTable, Table!Spec
=============================================================================
