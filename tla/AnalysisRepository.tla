------------------------- MODULE AnalysisRepository -------------------------
(***************************************************************************)
(* The analyses table and the repository that reads and writes it          *)
(* (app/models/analysis.py, app/repositories/analysis_repo.py).  The        *)
(* operators are pure: a table goes in, a row, a set of ids or a table      *)
(* comes out.  AnalysisService applies them inside its transactions.        *)
(*                                                                          *)
(* A row is abstracted to what the properties tell apart.  The score and    *)
(* the three JSON columns are one column "result"; its value is the pair    *)
(* whose texts n8n scored, so a result stored on the row of another pair is *)
(* visible.  scoring_version, parser_version and created_at never change    *)
(* and are left out.                                                        *)
(***************************************************************************)
EXTENDS Naturals, FiniteSets

CONSTANTS Resumes,          \* ids of rows of the resumes table
          JobDescriptions,  \* ids of rows of the job_descriptions table
          MaxId,            \* bound: last value of the analyses id sequence
          None              \* NULL, and "no row"

Pairs == Resumes \X JobDescriptions
Ids   == 1 .. MaxId

ANALYSIS_STATUSES == {"queued", "processing", "done", "failed"}
Terminal          == {"done", "failed"}
Active            == {"queued", "processing", "done"}

(* A nullable timestamp is told apart only by whether it is set.           *)
Timestamps == {None, "set"}

Errors == {"n8n unreachable", "workflow error"}

AnalysisRow == [pair     : Pairs,
                status   : ANALYSIS_STATUSES,
                result   : Pairs \cup {None},
                error    : Errors \cup {None},
                started  : Timestamps,
                finished : Timestamps]

ASSUME RepositoryAssumption ==
  /\ MaxId \in Nat
  /\ None \notin AnalysisRow
  /\ None \notin Errors \cup {"set"}

-----------------------------------------------------------------------------
(* create: the row as it is inserted, before any update.                   *)
NewRow(p) == [pair |-> p, status |-> "queued", result |-> None, error |-> None,
              started |-> None, finished |-> None]

Stored(table) == {i \in Ids : table[i] # None}

(* Variant of get_existing that forgets finished analyses.                 *)
GetExistingUnfinished(table, p) ==
  {i \in Stored(table) : table[i].pair = p /\ table[i].status \in {"queued", "processing"}}

(* get_existing: the ids that the idempotency query matches.               *)
GetExisting(table, p) ==
  {i \in Stored(table) : table[i].pair = p /\ table[i].status \in Active}

Coalesce(new, old) == IF new = None THEN old ELSE new

(* Variant of update_status that leaves finished_at alone on "failed".     *)
UpdateStatusNoFinish(row, status, result, error) ==
  LET ends == status \in Terminal IN
  [pair     |-> row.pair,
   status   |-> status,
   result   |-> IF ends THEN Coalesce(result, row.result) ELSE row.result,
   error    |-> IF ends THEN Coalesce(error, row.error) ELSE row.error,
   started  |-> IF status = "processing" THEN "set" ELSE row.started,
   finished |-> IF status = "done" THEN "set" ELSE row.finished]

(* update_status: the attributes assigned on the loaded object.  A column   *)
(* whose argument is None keeps its old value, also on a status change.     *)
UpdateStatus(row, status, result, error) ==
  LET ends == status \in Terminal IN
  [pair     |-> row.pair,
   status   |-> status,
   result   |-> IF ends THEN Coalesce(result, row.result) ELSE row.result,
   error    |-> IF ends THEN Coalesce(error, row.error) ELSE row.error,
   started  |-> IF status = "processing" THEN "set" ELSE row.started,
   finished |-> IF ends THEN "set" ELSE row.finished]

(* Variant that writes every column of the object.                         *)
FlushAllColumns(stored, loaded, new) == new

(* What the flush of an ORM object writes: the UPDATE names only the        *)
(* columns whose value differs from the one loaded, so every other column   *)
(* keeps what the table holds by then.                                      *)
Flush(stored, loaded, new) ==
  LET Column(c) == IF new[c] = loaded[c] THEN stored[c] ELSE new[c]
  IN  [pair |-> stored.pair, status |-> Column("status"), result |-> Column("result"),
       error |-> Column("error"), started |-> Column("started"),
       finished |-> Column("finished")]
=============================================================================
