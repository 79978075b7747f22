----------------------- MODULE UserPermissionsProofs -----------------------
(***************************************************************************)
(* Proofs about UserPermissions: the inductive invariant IInv, and with it  *)
(* type correctness, unique grants and the removal of what an edit saw, for *)
(* any users, permissions and concurrent edits.                             *)
(***************************************************************************)
EXTENDS UserPermissions, TLAPS

(* An edit that is under way is for a user.                                *)
LEMMA BusyEdit ==
  ASSUME TypeOK, NEW e \in Edits, put[e].pc # "idle"
  PROVE  /\ put[e] \in Handler
         /\ put[e].user \in Users
         /\ grants[put[e].user] \in SUBSET UserPermission
BY DEF TypeOK, IdleHandler

LEMMA IdleType ==
  /\ IdleHandler \in Handler
  /\ IdleHandler.pc = "idle"
  /\ IdleHandler.user = None
  /\ IdleHandler.number = 0
  /\ IdleHandler.codes = {}
  /\ IdleHandler.seen = {}
  /\ IdleHandler.passed = {}
  /\ IdleHandler.removed = {}
  /\ IdleHandler.taken = {}
BY PermissionsAssumption DEF IdleHandler, Handler

LEMMA InitIInv == Init => IInv
<1> SUFFICES ASSUME Init PROVE IInv
  OBVIOUS
<1>1. TypeOK
  BY PermissionsAssumption, IdleType DEF Init, TypeOK
<1>2. \A e \in Edits : put[e].pc = "idle" /\ put[e].seen = {}
  BY IdleType DEF Init
<1>3. \A u \in Users : grants[u] = {}
  BY DEF Init
<1>4. NumberInv
  BY <1>2, <1>3 DEF NumberInv
<1>5. RowLockInv /\ KeyLockInv /\ GrantsAreUnique
  BY <1>2, <1>3 DEF RowLockInv, KeyLockInv, GrantsAreUnique
<1> QED
  BY <1>1, <1>4, <1>5 DEF IInv

(* The handler of e becomes h, the others stay.                            *)
LEMMA HandlerBecomes ==
  ASSUME TypeOK, NEW e \in Edits, NEW h \in Handler, put' = [put EXCEPT ![e] = h]
  PROVE  /\ put' \in [Edits -> Handler]
         /\ put'[e] = h
         /\ \A f \in Edits \ {e} : put'[f] = put[f]
BY DEF TypeOK

-----------------------------------------------------------------------------
(* A step of an edit that keeps its user and number, leaves the table alone *)
(* and keeps to the locks of the others.                                   *)
LEMMA EditMoves ==
  ASSUME IInv, NEW e \in Edits, NEW h \in Handler,
         put' = [put EXCEPT ![e] = h],
         UNCHANGED <<grants, edits, crashes>>,
         put[e].pc # "idle", h.pc = "write",
         h.user = put[e].user, h.number = put[e].number,
         h.taken \subseteq h.codes,
         h.seen \subseteq put[e].seen \cup grants[put[e].user],
         h.passed \subseteq h.seen,
         h.removed \subseteq grants[put[e].user],
         h.passed \cap grants[put[e].user] \subseteq h.removed,
         \A f \in Others(e) : put[f].removed \cap h.removed = {},
         \A r \in grants[put[e].user] : r[1] \in h.taken => r \in h.removed,
         \A f \in Others(e) : put[f].taken \cap h.taken = {}
  PROVE  IInv'
<1>1. /\ put' \in [Edits -> Handler]
      /\ put'[e] = h
      /\ \A f \in Edits \ {e} : put'[f] = put[f]
  BY HandlerBecomes DEF IInv
<1>2. put[e].user \in Users /\ put[e].user # None
  BY BusyEdit, PermissionsAssumption DEF IInv
<1>3. TypeOK'
  BY <1>1, <1>2 DEF IInv, TypeOK
<1>4. NumberInv'
  <2>1. \A f \in Edits : put'[f].number = put[f].number /\ (put'[f].pc = "idle" <=> put[f].pc = "idle")
    BY <1>1
  <2>2. \A f \in Edits : \A r \in put'[f].seen :
          r \in put[f].seen \/ \E u \in Users : r \in grants[u]
    BY <1>1, <1>2
  <2> QED
    BY <2>1, <2>2 DEF IInv, NumberInv
<1>5. \A f \in Edits : Others(f)' = Others(f)
  BY <1>1 DEF Others
<1>6. \A f, g \in Edits : g \in Others(f) <=> f \in Others(g)
  BY DEF Others
<1>7. RowLockInv'
  <2> SUFFICES ASSUME NEW f \in Edits, put'[f].pc # "idle"
               PROVE  /\ put'[f].pc = "scan" => put'[f].seen = {}
                      /\ put'[f].passed \subseteq put'[f].seen
                      /\ put'[f].removed \subseteq grants[put'[f].user]
                      /\ put'[f].passed \cap grants[put'[f].user] \subseteq put'[f].removed
                      /\ \A g \in Others(f) : put'[g].removed \cap put'[f].removed = {}
    BY <1>5 DEF RowLockInv
  <2>1. CASE f = e
    <3>1. \A g \in Others(e) : put'[g] = put[g]
      BY <1>1 DEF Others
    <3> QED
      BY <1>1, <2>1, <3>1
  <2>2. CASE f # e
    <3>1. put'[f] = put[f]
      BY <1>1, <2>2
    <3>2. \A g \in Others(f) : g = e \/ put'[g] = put[g]
      BY <1>1 DEF Others
    <3>3. e \in Others(f) => h.removed \cap put[f].removed = {}
      BY <1>6
    <3> QED
      BY <1>1, <3>1, <3>2, <3>3 DEF IInv, RowLockInv
  <2> QED
    BY <2>1, <2>2
<1>8. KeyLockInv'
  <2> SUFFICES ASSUME NEW f \in Edits, put'[f].pc # "idle"
               PROVE  /\ \A r \in grants[put'[f].user] :
                           r[1] \in put'[f].taken => r \in put'[f].removed
                      /\ \A g \in Others(f) : put'[g].taken \cap put'[f].taken = {}
    BY <1>5 DEF KeyLockInv
  <2>1. CASE f = e
    <3>1. \A g \in Others(e) : put'[g] = put[g]
      BY <1>1 DEF Others
    <3> QED
      BY <1>1, <2>1, <3>1
  <2>2. CASE f # e
    <3>1. put'[f] = put[f]
      BY <1>1, <2>2
    <3>2. \A g \in Others(f) : g = e \/ put'[g] = put[g]
      BY <1>1 DEF Others
    <3>3. e \in Others(f) => h.taken \cap put[f].taken = {}
      BY <1>6
    <3> QED
      BY <1>1, <3>1, <3>2, <3>3 DEF IInv, KeyLockInv
  <2> QED
    BY <2>1, <2>2
<1>9. GrantsAreUnique'
  BY DEF IInv, GrantsAreUnique
<1> QED
  BY <1>3, <1>4, <1>7, <1>8, <1>9 DEF IInv

-----------------------------------------------------------------------------
(* An edit ends without a trace: an error or a crash.                      *)
LEMMA EditRollsBack ==
  ASSUME IInv, NEW e \in Edits, Rollback(e), UNCHANGED <<grants, edits>>,
         crashes' \in 0 .. MaxCrashes
  PROVE  IInv'
<1>1. /\ put' \in [Edits -> Handler]
      /\ put'[e] = IdleHandler
      /\ \A f \in Edits \ {e} : put'[f] = put[f]
  BY IdleType, HandlerBecomes DEF IInv, Rollback
<1>2. TypeOK'
  BY <1>1, IdleType DEF IInv, TypeOK
<1>3. \A f \in Edits : put'[f].pc # "idle" => f # e /\ put'[f] = put[f]
  BY <1>1, IdleType
<1>4. \A f \in Edits : put'[f].pc # "idle" => put[f].user \in Users
  BY <1>3, BusyEdit DEF IInv
<1>5. ASSUME NEW f \in Edits, put'[f].pc # "idle"
      PROVE  \A g \in Others(f)' : g \in Others(f) /\ put'[g] = put[g]
  BY <1>1, <1>3, <1>4, <1>5, IdleType, PermissionsAssumption DEF Others
<1>6. NumberInv'
  <2>1. \A f \in Edits : put'[f].number = put[f].number \/ put'[f].number = 0
    BY <1>1, IdleType
  <2>2. \A f \in Edits : put'[f].seen \subseteq put[f].seen
    BY <1>1, IdleType
  <2>3. \A f \in Edits : \A n \in 1 .. edits : n # 0
    BY DEF IInv, TypeOK
  <2> QED
    BY <1>3, <2>1, <2>2, <2>3 DEF IInv, NumberInv
<1>7. RowLockInv'
  BY <1>3, <1>5 DEF IInv, RowLockInv
<1>8. KeyLockInv'
  BY <1>3, <1>5 DEF IInv, KeyLockInv
<1>9. GrantsAreUnique'
  BY DEF IInv, GrantsAreUnique
<1> QED
  BY <1>2, <1>6, <1>7, <1>8, <1>9 DEF IInv

(* A new edit has a new number, and holds nothing.                         *)
LEMMA ReceiveStep ==
  ASSUME IInv, NEW e \in Edits, NEW u \in Users, NEW codes \in SUBSET Permissions,
         Receive(e, u, codes)
  PROVE  IInv'
<1> DEFINE h == [pc |-> "scan", user |-> u, number |-> edits + 1, codes |-> codes,
                 seen |-> {}, passed |-> {}, removed |-> {}, taken |-> {}]
<1>1. edits \in Nat /\ edits' = edits + 1 /\ edits' \in 0 .. MaxEdits
  BY PermissionsAssumption DEF IInv, TypeOK, Receive
<1>2. h \in Handler
  BY <1>1, PermissionsAssumption DEF Handler
<1>3. /\ h.pc = "scan" /\ h.user = u /\ h.number = edits + 1 /\ h.seen = {}
      /\ h.passed = {} /\ h.removed = {} /\ h.taken = {} /\ h.codes = codes
  OBVIOUS
<1>4. put' = [put EXCEPT ![e] = h]
  BY DEF Receive
<1> HIDE DEF h
<1>5. /\ put' \in [Edits -> Handler]
      /\ put'[e] = h
      /\ \A f \in Edits \ {e} : put'[f] = put[f]
  BY <1>2, <1>4, HandlerBecomes DEF IInv
<1>6. TypeOK'
  BY <1>1, <1>3, <1>5, PermissionsAssumption DEF IInv, TypeOK, Receive
<1>7. \A f \in Edits \ {e} : put[f].number # edits + 1
  <2>1. \A f \in Edits : put[f].pc = "idle" \/ put[f].number \in 1 .. edits
    BY DEF IInv, NumberInv
  <2>2. \A f \in Edits : put[f].number \in 0 .. edits
    BY <2>1, <1>1, IdleType DEF IInv, TypeOK
  <2>3. edits + 1 \notin 0 .. edits
    BY <1>1
  <2> QED
    BY <2>2, <2>3
<1>8. NumberInv'
  <2>1. ASSUME NEW r \in UserPermission, r[2] <= edits
        PROVE  r[2] <= edits + 1 /\ r[2] # edits + 1
    BY <1>1, <2>1 DEF UserPermission
  <2>2. \A v \in Users : \A r \in grants[v] : r[2] <= edits + 1 /\ r[2] # edits + 1
    BY <2>1 DEF IInv, TypeOK, NumberInv
  <2>3. \A f \in Edits : \A r \in put[f].seen : r[2] <= edits + 1 /\ r[2] # edits + 1
    BY <2>1 DEF IInv, TypeOK, NumberInv, Handler
  <2>4. grants' = grants
    BY DEF Receive
  <2>5. \A f \in Edits : \A r \in put'[f].seen : r[2] <= edits + 1 /\ r[2] # edits + 1
    BY <1>3, <1>5, <2>3
  <2>6. ASSUME NEW f \in Edits, f # e, put'[f].pc # "idle"
        PROVE  /\ put'[f].number \in 1 .. edits + 1
               /\ \A g \in Edits \ {f} : put'[g].number # put'[f].number
               /\ \A v \in Users : \A r \in grants[v] : r[2] # put'[f].number
               /\ \A g \in Edits : \A r \in put'[g].seen : r[2] # put'[f].number
    <3>1. put'[f] = put[f] /\ put[f].pc # "idle" /\ put[f].number \in 1 .. edits
      BY <1>5, <2>6 DEF IInv, NumberInv
    <3>2. \A g \in Edits : put'[g].number = put[g].number \/ (g = e /\ put'[g].number = edits + 1)
      BY <1>3, <1>5
    <3>3. \A g \in Edits : put'[g].seen = put[g].seen \/ put'[g].seen = {}
      BY <1>3, <1>5
    <3> QED
      BY <1>1, <1>7, <2>6, <3>1, <3>2, <3>3 DEF IInv, NumberInv
  <2>7. /\ put'[e].number \in 1 .. edits + 1
        /\ \A g \in Edits \ {e} : put'[g].number # put'[e].number
        /\ \A v \in Users : \A r \in grants[v] : r[2] # put'[e].number
        /\ \A g \in Edits : \A r \in put'[g].seen : r[2] # put'[e].number
    BY <1>1, <1>3, <1>5, <1>7, <2>2, <2>5
  <2> QED
    BY <1>1, <2>2, <2>4, <2>5, <2>6, <2>7 DEF NumberInv
<1>9. RowLockInv' /\ KeyLockInv'
  BY <1>3, <1>5 DEF IInv, RowLockInv, KeyLockInv, Others, Receive
<1>10. GrantsAreUnique'
  BY DEF IInv, GrantsAreUnique, Receive
<1> QED
  BY <1>6, <1>8, <1>9, <1>10 DEF IInv

-----------------------------------------------------------------------------
(* The DELETE: its snapshot, and one row of it.                            *)
LEMMA ScanStep ==
  ASSUME IInv, NEW e \in Edits, Scan(e)
  PROVE  IInv'
<1> DEFINE s == grants[put[e].user]
           h == [put[e] EXCEPT !.pc = "write", !.seen = s]
<1>1. put[e].pc = "scan" /\ put[e].pc # "idle" /\ UNCHANGED <<grants, edits, crashes>>
  BY DEF Scan
<1>2. put[e] \in Handler /\ s \in SUBSET UserPermission
  BY <1>1, BusyEdit DEF IInv
<1>3. put' = [put EXCEPT ![e] = h]
  BY DEF Scan
<1>4. /\ put[e].seen = {} /\ put[e].passed \subseteq put[e].seen
      /\ put[e].taken \subseteq put[e].codes
      /\ put[e].removed \subseteq s
      /\ \A f \in Others(e) : put[f].removed \cap put[e].removed = {}
      /\ \A f \in Others(e) : put[f].taken \cap put[e].taken = {}
      /\ \A r \in s : r[1] \in put[e].taken => r \in put[e].removed
  BY <1>1 DEF IInv, TypeOK, RowLockInv, KeyLockInv
<1> HIDE DEF s
<1>5. /\ h \in Handler
      /\ h.pc = "write" /\ h.user = put[e].user /\ h.number = put[e].number
      /\ h.codes = put[e].codes /\ h.seen = s /\ h.passed = put[e].passed
      /\ h.removed = put[e].removed /\ h.taken = put[e].taken
  BY <1>2 DEF Handler
<1> HIDE DEF h
<1>6. /\ h.seen \subseteq put[e].seen \cup grants[put[e].user]
      /\ h.passed = {}
      /\ h.removed \subseteq grants[put[e].user]
      /\ \A r \in grants[put[e].user] : r[1] \in h.taken => r \in h.removed
  BY <1>4, <1>5 DEF s
<1> QED
  BY <1>1, <1>3, <1>4, <1>5, <1>6, EditMoves

LEMMA DeleteStep ==
  ASSUME IInv, NEW e \in Edits, Delete(e)
  PROVE  IInv'
<1> DEFINE g == grants[put[e].user]
<1>1. PICK r \in RowsLeft(e) :
        /\ RowHolders(e, r) = {}
        /\ put' = [put EXCEPT ![e].passed = @ \cup {r},
                              ![e].removed = @ \cup ({r} \cap grants[put[e].user])]
  BY DEF Delete
<1>2. put[e].pc = "write" /\ r \in put[e].seen
  <2>1. put[e].pc # "idle"
    BY IdleType DEF IInv, TypeOK, RowsLeft
  <2>2. put[e].pc = "scan" => put[e].seen = {}
    BY <2>1 DEF IInv, RowLockInv
  <2> QED
    BY <2>1, <2>2 DEF IInv, TypeOK, Handler, RowsLeft
<1>3. put[e] \in Handler /\ g \in SUBSET UserPermission
  BY <1>2, BusyEdit DEF IInv
<1> DEFINE p == put[e].passed \cup {r}
           d == put[e].removed \cup ({r} \cap g)
           h == [put[e] EXCEPT !.passed = p, !.removed = d]
<1>4. put' = [put EXCEPT ![e] = h]
  BY <1>1
<1>5. p \in SUBSET UserPermission /\ d \in SUBSET UserPermission
  BY <1>2, <1>3 DEF Handler
<1> HIDE DEF p, d
<1>6. /\ h \in Handler
      /\ h.pc = put[e].pc /\ h.user = put[e].user /\ h.number = put[e].number
      /\ h.codes = put[e].codes /\ h.seen = put[e].seen /\ h.passed = p
      /\ h.removed = d /\ h.taken = put[e].taken
  BY <1>3, <1>5 DEF Handler
<1> HIDE DEF h
<1>7. /\ put[e].passed \subseteq put[e].seen
      /\ put[e].removed \subseteq g
      /\ put[e].passed \cap g \subseteq put[e].removed
      /\ put[e].taken \subseteq put[e].codes
      /\ \A f \in Others(e) : put[f].removed \cap put[e].removed = {}
      /\ \A f \in Others(e) : put[f].taken \cap put[e].taken = {}
      /\ \A x \in g : x[1] \in put[e].taken => x \in put[e].removed
  BY <1>2 DEF IInv, TypeOK, RowLockInv, KeyLockInv
<1>8. p \subseteq put[e].seen /\ d \subseteq g /\ p \cap g \subseteq d
  BY <1>2, <1>7 DEF p, d
<1>9. \A f \in Others(e) : put[f].removed \cap d = {}
  BY <1>1, <1>7 DEF d, RowHolders
<1>10. \A x \in g : x[1] \in put[e].taken => x \in d
  BY <1>7 DEF d
<1>11. UNCHANGED <<grants, edits, crashes>>
  BY DEF Delete
<1> HIDE DEF g
<1>12. /\ h.pc = "write"
       /\ h.taken \subseteq h.codes
       /\ h.seen \subseteq put[e].seen \cup g
       /\ h.passed \subseteq h.seen
       /\ h.removed \subseteq g
       /\ h.passed \cap g \subseteq h.removed
       /\ \A f \in Others(e) : put[f].removed \cap h.removed = {}
       /\ \A x \in g : x[1] \in h.taken => x \in h.removed
       /\ \A f \in Others(e) : put[f].taken \cap h.taken = {}
  BY <1>2, <1>6, <1>7, <1>8, <1>9, <1>10
<1> USE DEF g
<1> QED
  BY <1>2, <1>4, <1>6, <1>11, <1>12, EditMoves

-----------------------------------------------------------------------------
(* One INSERT: the key is free, or the edit ends with an error.            *)
LEMMA InsertStep ==
  ASSUME IInv, NEW e \in Edits, Insert(e)
  PROVE  IInv'
<1> DEFINE g == grants[put[e].user]
<1>1. PICK c \in KeysLeft(e) :
        /\ KeyHolders(e, c) = {}
        /\ IF c \in Codes(g \ put[e].removed)
           THEN Rollback(e)
           ELSE put' = [put EXCEPT ![e].taken = @ \cup {c}]
  BY DEF Insert
<1>2. UNCHANGED <<grants, edits, crashes>>
  BY DEF Insert
<1>3. put[e].pc = "write" /\ c \in put[e].codes
  BY DEF KeysLeft
<1>4. put[e] \in Handler /\ g \in SUBSET UserPermission /\ put[e].pc # "idle"
  BY <1>3, BusyEdit DEF IInv
<1>5. CASE c \in Codes(g \ put[e].removed)
  <2>1. Rollback(e) /\ crashes' \in 0 .. MaxCrashes
    BY <1>1, <1>2, <1>5 DEF IInv, TypeOK
  <2> QED
    BY <1>2, <2>1, EditRollsBack
<1>6. CASE c \notin Codes(g \ put[e].removed)
  <2> DEFINE t == put[e].taken \cup {c}
             h == [put[e] EXCEPT !.taken = t]
  <2>1. put' = [put EXCEPT ![e] = h]
    BY <1>1, <1>6
  <2>2. t \in SUBSET Permissions
    BY <1>3, <1>4 DEF Handler
  <2>3. /\ put[e].passed \subseteq put[e].seen
        /\ put[e].removed \subseteq g
        /\ put[e].passed \cap g \subseteq put[e].removed
        /\ put[e].taken \subseteq put[e].codes
        /\ \A f \in Others(e) : put[f].removed \cap put[e].removed = {}
        /\ \A f \in Others(e) : put[f].taken \cap put[e].taken = {}
        /\ \A x \in g : x[1] \in put[e].taken => x \in put[e].removed
    BY <1>4 DEF IInv, TypeOK, RowLockInv, KeyLockInv
  <2>4. \A f \in Others(e) : put[f].taken \cap t = {}
    BY <1>1, <2>3 DEF KeyHolders
  <2>5. \A x \in g : x[1] \in t => x \in put[e].removed
    BY <1>6, <2>3 DEF Codes
  <2>6. t \subseteq put[e].codes
    BY <1>3, <2>3
  <2> HIDE DEF t, g
  <2>7. /\ h \in Handler
        /\ h.pc = put[e].pc /\ h.user = put[e].user /\ h.number = put[e].number
        /\ h.codes = put[e].codes /\ h.seen = put[e].seen /\ h.passed = put[e].passed
        /\ h.removed = put[e].removed /\ h.taken = t
    BY <1>4, <2>2 DEF Handler
  <2> HIDE DEF h
  <2>8. /\ h.pc = "write"
        /\ h.taken \subseteq h.codes
        /\ h.seen \subseteq put[e].seen \cup g
        /\ h.passed \subseteq h.seen
        /\ h.removed \subseteq g
        /\ h.passed \cap g \subseteq h.removed
        /\ \A f \in Others(e) : put[f].removed \cap h.removed = {}
        /\ \A x \in g : x[1] \in h.taken => x \in h.removed
        /\ \A f \in Others(e) : put[f].taken \cap h.taken = {}
    BY <1>3, <2>3, <2>4, <2>5, <2>6, <2>7
  <2> USE DEF g
  <2> QED
    BY <1>2, <1>4, <2>1, <2>7, <2>8, EditMoves
<1> QED
  BY <1>5, <1>6

-----------------------------------------------------------------------------
(* The commit: the deleted rows go and the inserted ones come, which no    *)
(* other edit has deleted, inserted or seen.                               *)
LEMMA CommitStep ==
  ASSUME IInv, NEW e \in Edits, Commit(e)
  PROVE  IInv'
<1> DEFINE u == put[e].user
           n == put[e].number
<1>1. put[e].pc # "idle" /\ edits' = edits /\ crashes' = crashes /\ edits \in 0 .. MaxEdits
  BY DEF Commit, Flushed, IInv, TypeOK
<1>2. put[e] \in Handler /\ u \in Users /\ n \in 1 .. edits
  BY <1>1, BusyEdit DEF IInv, NumberInv
<1>3. /\ put' \in [Edits -> Handler]
      /\ put'[e] = IdleHandler
      /\ \A f \in Edits \ {e} : put'[f] = put[f]
  BY IdleType, HandlerBecomes DEF IInv, Commit
<1>4. grants' = [grants EXCEPT ![u] = (@ \ put[e].removed) \cup Inserted(e)]
  BY DEF Commit
<1>5. /\ grants'[u] = (grants[u] \ put[e].removed) \cup Inserted(e)
      /\ \A v \in Users \ {u} : grants'[v] = grants[v]
  BY <1>2, <1>4 DEF IInv, TypeOK
<1>6. \A r \in Inserted(e) : r[1] \in put[e].taken /\ r[2] = n
  BY DEF Inserted
<1>7. \A v \in Users : \A r \in grants'[v] : r \in grants[v] \/ (v = u /\ r \in Inserted(e))
  BY <1>5
<1>8. TypeOK'
  <2>1. Inserted(e) \in SUBSET UserPermission
    BY <1>1, <1>2, PermissionsAssumption DEF Inserted, UserPermission, Handler
  <2>2. grants' \in [Users -> SUBSET UserPermission]
    BY <1>2, <1>4, <2>1 DEF IInv, TypeOK
  <2> QED
    BY <1>1, <1>3, <2>2, IdleType DEF IInv, TypeOK
<1>9. \A f \in Edits : put'[f].pc # "idle" =>
        f # e /\ put'[f] = put[f] /\ put[f].user \in Users
  BY <1>3, IdleType, BusyEdit DEF IInv
<1>10. ASSUME NEW f \in Edits, put'[f].pc # "idle"
       PROVE  \A g \in Others(f)' : g \in Others(f) /\ put'[g] = put[g]
  BY <1>3, <1>9, <1>10, IdleType, PermissionsAssumption DEF Others
<1> HIDE DEF u, n
<1>11. NumberInv'
  <2>1. \A v \in Users : \A r \in grants'[v] : r[2] <= edits
    BY <1>2, <1>6, <1>7 DEF IInv, NumberInv
  <2>2. \A f \in Edits : put'[f].seen \subseteq put[f].seen
    BY <1>3, IdleType
  <2>3. ASSUME NEW f \in Edits, put'[f].pc # "idle"
        PROVE  /\ put'[f].number \in 1 .. edits
               /\ \A g \in Edits \ {f} : put'[g].number # put'[f].number
               /\ \A v \in Users : \A r \in grants'[v] : r[2] # put'[f].number
               /\ \A g \in Edits : \A r \in put'[g].seen : r[2] # put'[f].number
    <3>1. f # e /\ put'[f] = put[f] /\ put[f].pc # "idle"
      BY <1>9, <2>3
    <3>2. /\ put[f].number \in 1 .. edits
          /\ \A g \in Edits \ {f} : put[g].number # put[f].number
          /\ \A v \in Users : \A r \in grants[v] : r[2] # put[f].number
          /\ \A g \in Edits : \A r \in put[g].seen : r[2] # put[f].number
      BY <3>1 DEF IInv, NumberInv
    <3>3. n # put[f].number
      BY <3>1, <3>2 DEF n
    <3>4. \A g \in Edits : put'[g].number = put[g].number \/ put'[g].number = 0
      BY <1>3, IdleType
    <3>5. put[f].number # 0
      BY <3>2
    <3> QED
      BY <1>6, <1>7, <2>2, <3>1, <3>2, <3>3, <3>4, <3>5
  <2> QED
    BY <1>1, <2>1, <2>2, <2>3 DEF IInv, NumberInv
<1>12. \A f \in Edits : put'[f].pc # "idle" /\ put[f].user = u => f \in Others(e)
  BY <1>9 DEF Others, u
<1>13. RowLockInv'
  <2> SUFFICES ASSUME NEW f \in Edits, put'[f].pc # "idle"
               PROVE  /\ put'[f].pc = "scan" => put'[f].seen = {}
                      /\ put'[f].passed \subseteq put'[f].seen
                      /\ put'[f].removed \subseteq grants'[put'[f].user]
                      /\ put'[f].passed \cap grants'[put'[f].user] \subseteq put'[f].removed
                      /\ \A g \in Others(f)' : put'[g].removed \cap put'[f].removed = {}
    BY DEF RowLockInv
  <2>1. f # e /\ put'[f] = put[f] /\ put[f].user \in Users /\ put[f].pc # "idle"
    BY <1>9
  <2>2. /\ put[f].pc = "scan" => put[f].seen = {}
        /\ put[f].passed \subseteq put[f].seen
        /\ put[f].removed \subseteq grants[put[f].user]
        /\ put[f].passed \cap grants[put[f].user] \subseteq put[f].removed
        /\ \A g \in Others(f) : put[g].removed \cap put[f].removed = {}
    BY <2>1 DEF IInv, RowLockInv
  <2>3. put[f].user = u => put[f].removed \cap put[e].removed = {}
    BY <1>1, <1>12 DEF IInv, RowLockInv
  <2>4. put[f].removed \subseteq grants'[put[f].user]
    BY <1>5, <2>1, <2>2, <2>3
  <2>5. \A r \in put[f].seen : r \notin Inserted(e)
    BY <1>1, <1>6 DEF IInv, NumberInv, n
  <2>6. put[f].passed \cap grants'[put[f].user] \subseteq put[f].removed
    BY <1>7, <2>1, <2>2, <2>5
  <2> QED
    BY <1>10, <2>1, <2>2, <2>4, <2>6
<1>14. KeyLockInv'
  <2> SUFFICES ASSUME NEW f \in Edits, put'[f].pc # "idle"
               PROVE  /\ \A r \in grants'[put'[f].user] :
                           r[1] \in put'[f].taken => r \in put'[f].removed
                      /\ \A g \in Others(f)' : put'[g].taken \cap put'[f].taken = {}
    BY DEF KeyLockInv
  <2>1. f # e /\ put'[f] = put[f] /\ put[f].user \in Users /\ put[f].pc # "idle"
    BY <1>9
  <2>2. put[f].user = u => put[f].taken \cap put[e].taken = {}
    BY <1>1, <1>12 DEF IInv, KeyLockInv
  <2>3. \A r \in grants'[put[f].user] : r[1] \in put[f].taken => r \in put[f].removed
    BY <1>6, <1>7, <2>1, <2>2 DEF IInv, KeyLockInv
  <2> QED
    BY <1>10, <2>1, <2>3 DEF IInv, KeyLockInv
<1>15. GrantsAreUnique'
  <2> SUFFICES ASSUME NEW v \in Users, NEW r \in grants'[v], NEW s \in grants'[v], r[1] = s[1]
               PROVE  r = s
    BY DEF GrantsAreUnique
  <2>1. CASE v # u
    BY <1>5, <2>1 DEF IInv, GrantsAreUnique
  <2>2. CASE v = u
    <3>1. \A x \in grants[u] : x[1] \in put[e].taken => x \in put[e].removed
      BY <1>1 DEF IInv, KeyLockInv, u
    <3>2. \A x, y \in Inserted(e) : x[1] = y[1] => x = y
      BY DEF Inserted
    <3>3. \A x, y \in grants[u] : x[1] = y[1] => x = y
      BY <1>2 DEF IInv, GrantsAreUnique
    <3> QED
      BY <1>5, <1>6, <2>2, <3>1, <3>2, <3>3
  <2> QED
    BY <2>1, <2>2
<1> QED
  BY <1>8, <1>11, <1>13, <1>14, <1>15 DEF IInv

(* Every step keeps the invariant.                                         *)
LEMMA NextIInv == IInv /\ [Next]_vars => IInv'
<1> SUFFICES ASSUME IInv, [Next]_vars PROVE IInv'
  OBVIOUS
<1>1. CASE UNCHANGED vars
  BY <1>1 DEF vars, IInv, TypeOK, NumberInv, RowLockInv, KeyLockInv, GrantsAreUnique, Others
<1>2. ASSUME NEW e \in Edits, NEW u \in Users, NEW codes \in SUBSET Permissions,
             Receive(e, u, codes)
      PROVE  IInv'
  BY <1>2, ReceiveStep
<1>3. ASSUME NEW e \in Edits, DeadlockDetected(e)
      PROVE  IInv'
  BY <1>3, EditRollsBack DEF DeadlockDetected, IInv, TypeOK
<1>4. ASSUME NEW e \in Edits, Crash(e)
      PROVE  IInv'
  <2>1. crashes' \in 0 .. MaxCrashes
    BY <1>4, PermissionsAssumption DEF Crash, IInv, TypeOK
  <2> QED
    BY <1>4, <2>1, EditRollsBack DEF Crash
<1>5. ASSUME NEW e \in Edits, EditStep(e)
      PROVE  IInv'
  BY <1>3, <1>5, ScanStep, DeleteStep, InsertStep, CommitStep DEF EditStep
<1> QED
  BY <1>1, <1>2, <1>4, <1>5 DEF Next

(* The invariant holds in every reachable state (set_permissions and its   *)
(* transaction).                                                           *)
THEOREM SpecIInv == Spec => []IInv
BY InitIInv, NextIInv, PTL DEF Spec

(* Every reachable state is well typed.                                    *)
THEOREM TypeCorrect == Spec => []TypeOK
<1>1. IInv => TypeOK
  BY DEF IInv
<1> QED
  BY SpecIInv, <1>1, PTL

(* No permission is granted twice: the row locks and the primary key keep  *)
(* concurrent edits of one user apart.                                     *)
THEOREM UniqueGrants == Spec => []GrantsAreUnique
<1>1. IInv => GrantsAreUnique
  BY DEF IInv
<1> QED
  BY SpecIInv, <1>1, PTL

(* What the snapshot of an edit's DELETE showed is gone at its commit.     *)
THEOREM SnapshotIsGone == Spec => EditRemovesWhatItSaw
<1> DEFINE Gone == \A e \in Edits : Commit(e) => grants'[put[e].user] \cap put[e].seen = {}
<1>1. ASSUME IInv, NEW e \in Edits, Commit(e)
      PROVE  grants'[put[e].user] \cap put[e].seen = {}
  <2>1. put[e].pc # "idle" /\ put[e].seen \subseteq put[e].passed
    BY <1>1 DEF Commit, Flushed, RowsLeft
  <2>2. put[e].user \in Users
    BY <1>1, <2>1, BusyEdit DEF IInv
  <2>3. grants'[put[e].user] = (grants[put[e].user] \ put[e].removed) \cup Inserted(e)
    BY <1>1, <2>2 DEF IInv, TypeOK, Commit
  <2>4. put[e].passed \cap grants[put[e].user] \subseteq put[e].removed
    BY <1>1, <2>1 DEF IInv, RowLockInv
  <2>5. \A r \in put[e].seen : r \notin Inserted(e)
    BY <1>1, <2>1 DEF IInv, NumberInv, Inserted
  <2> QED
    BY <2>1, <2>3, <2>4, <2>5
<1>2. IInv /\ [Next]_vars => [Gone]_vars
  BY <1>1
<1> HIDE DEF Gone
<1>3. Spec => [][Gone]_vars
  BY SpecIInv, <1>2, PTL DEF Spec
<1> QED
  BY <1>3 DEF Gone, EditRemovesWhatItSaw
=============================================================================
