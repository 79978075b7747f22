---------------------------- MODULE AtomicTable ----------------------------
(***************************************************************************)
(* What POST, PATCH and DELETE promise of a table with a unique column,     *)
(* without transactions, locks or loaded objects.  A session asks for one   *)
(* operation.  Either it is dropped and leaves no trace, or it takes effect *)
(* in one step: a new row appears, if no other row has its key; or an       *)
(* existing row changes in columns that this one request asked to change,   *)
(* each to the value it asked for, and in no other column, if no other row  *)
(* has the new key.  No row ever goes away.                                 *)
(***************************************************************************)
CONSTANTS Ids,       \* primary keys
          Sessions,  \* those who ask
          Key,       \* name of the unique column
          Asks,      \* per session, the operations it may ask for
          Outside,   \* edits that sessions of other modules make
          Starts,    \* tables to start with
          None       \* no row

VARIABLES table,   \* rows by id
          pending  \* per session, the operation asked for and not yet ended, or Nothing

tableVars == <<table, pending>>

(* An operation is [kind |-> "add", row |-> ...], or [kind |-> "edit",      *)
(* id |-> ..., edit |-> ...] with a function from some columns to values.   *)
Nothing == [kind |-> "nothing"]

Overlay(row, ed, columns) == [c \in DOMAIN row |-> IF c \in columns THEN ed[c] ELSE row[c]]

KeyTaken(key, i) == \E j \in Ids \ {i} : table[j] # None /\ table[j][Key] = key

Init ==
  /\ table \in Starts
  /\ pending = [s \in Sessions |-> Nothing]

Ask(s) ==
  /\ pending[s] = Nothing
  /\ UNCHANGED table
  /\ \E op \in Asks[s] : pending' = [pending EXCEPT ![s] = op]

Ends(s) == pending' = [pending EXCEPT ![s] = Nothing]

(* A refusal, an error, a crash.                                           *)
Drop(s) ==
  /\ pending[s] # Nothing
  /\ UNCHANGED table
  /\ Ends(s)

ApplyAdd(s, i) ==
  /\ pending[s].kind = "add"
  /\ table[i] = None
  /\ ~KeyTaken(pending[s].row[Key], i)
  /\ table' = [table EXCEPT ![i] = pending[s].row]
  /\ Ends(s)

Change(i, ed, columns) ==
  /\ table[i] # None
  /\ Key \in columns => ~KeyTaken(ed[Key], i)
  /\ table' = [table EXCEPT ![i] = Overlay(table[i], ed, columns)]

ApplyEdit(s, columns) ==
  /\ Change(pending[s].id, pending[s].edit, columns)
  /\ Ends(s)

Next ==
  \/ \E s \in Sessions : Ask(s) \/ Drop(s)
  \/ \E s \in Sessions, i \in Ids : ApplyAdd(s, i)
  \/ \E s \in Sessions :
       /\ pending[s].kind = "edit"
       /\ \E columns \in SUBSET DOMAIN pending[s].edit : ApplyEdit(s, columns)
  \/ \E i \in Ids, ed \in Outside : Change(i, ed, DOMAIN ed) /\ UNCHANGED pending

Spec == Init /\ [][Next]_tableVars
=============================================================================
