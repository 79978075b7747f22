--------------------------- MODULE AnalysisBoard ---------------------------
(***************************************************************************)
(* What POST /analyses, GET /analyses/{id} and GET /results promise to a    *)
(* client, without transactions, handlers or messages: a board of           *)
(* analyses.  An entry appears once, under an id never used before, for a   *)
(* fixed pair; it is "processing" or already "failed" when it appears; it   *)
(* only ever moves to "done" or "failed"; the result it shows is one        *)
(* computed for its own pair and is never taken away.  A client is told an  *)
(* id only when the board shows it for the pair the client asked for.       *)
(***************************************************************************)
CONSTANTS Pairs, Ids, None

Entry == [pair   : Pairs,
          status : {"processing", "done", "failed"},
          result : Pairs \cup {None}]

VARIABLES board,  \* what a GET shows, by id
          told    \* <<pair, id>> of every 201 response

boardVars == <<board, told>>

Init ==
  /\ board = [i \in Ids |-> None]
  /\ told = {}

(* A POST leaves a new entry on the board.                                 *)
Record(i, p, s) ==
  /\ board[i] = None
  /\ board' = [board EXCEPT ![i] = [pair |-> p, status |-> s, result |-> None]]
  /\ UNCHANGED told

(* n8n reports an outcome, with a result or without.                       *)
Settle(i, s, r) ==
  /\ board[i] # None
  /\ board[i].result # None => r # None
  /\ r \in {None, board[i].pair}
  /\ board' = [board EXCEPT ![i] = [pair |-> board[i].pair, status |-> s, result |-> r]]
  /\ UNCHANGED told

Tell(i, p) ==
  /\ board[i] # None
  /\ board[i].pair = p
  /\ told' = told \cup {<<p, i>>}
  /\ UNCHANGED board

Next ==
  \/ \E i \in Ids, p \in Pairs, s \in {"processing", "failed"} : Record(i, p, s)
  \/ \E i \in Ids, s \in {"done", "failed"}, r \in Pairs \cup {None} : Settle(i, s, r)
  \/ \E i \in Ids, p \in Pairs : Tell(i, p)

Spec == Init /\ [][Next]_boardVars
=============================================================================
