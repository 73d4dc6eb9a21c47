---------------------------- MODULE BatchImport -----------------------------
(***************************************************************************)
(* The import of a goods receipt from a file: a job row, then one          *)
(* transaction for all rows, then the job row again.                       *)
(*                                                                         *)
(* A row that fails is counted and the loop goes on.  When it failed in    *)
(* the database the transaction is aborted: every later statement fails,   *)
(* and Commit rolls back and returns an error.  Commit also returns one    *)
(* when its reply is lost, and then the rows may be stored all the same.   *)
(* The job is written on connections of the pool, before and after.        *)
(*                                                                         *)
(* A row is reduced to what decides its fate: whether its SKU or its       *)
(* variant id is known, and a quantity, which may exceed the range of the  *)
(* INTEGER columns.  Its costs only have to have the right sign, and are   *)
(* part of "valid".  The job row is written through the interface          *)
(* BatchImportRepo that the service declares.                              *)
(***************************************************************************)
EXTENDS Integers, Sequences, FiniteSets

CONSTANTS
  MaxRows,       \* rows of a file that parse
  MaxUnparsed    \* rows of a file that do not

ASSUME BatchImportAssumption == MaxRows \in Nat \ {0} /\ MaxUnparsed \in Nat

VARIABLES
  file,      \* the rows of the request, and how many more do not parse
  job,       \* the row of batch_imports
  progress,  \* where runImport is, and its counts
  txItems,   \* rows whose batch item is written in the open transaction
  stored,    \* rows whose batch item is committed
  reply      \* the answer of the handler ImportBatch

importVars == <<file, job, progress, txItems, stored, reply>>

\* The largest value of an INTEGER column, and one beyond it.
MaxInteger == 1
Quantities == 0..(MaxInteger + 1)

Rows      == [valid : BOOLEAN, known : BOOLEAN, quantity : Quantities]
NoFile    == [rows |-> <<>>, unparsed |-> 0]
NoJob     == [status |-> "none", imported |-> 0, failed |-> 0]
AtStart   == [pc |-> "new", next |-> 1, imported |-> 0, failed |-> 0, aborted |-> FALSE]
Replies   == {"none", "400", "415", "422", "207", "201", "lost"}

ImportInit ==
  /\ file = NoFile /\ job = NoJob /\ progress = AtStart
  /\ txItems = {} /\ stored = {} /\ reply = "none"

TotalRows == Len(file.rows) + file.unparsed

-----------------------------------------------------------------------------
(* The request                                                             *)

\* A file of another type, without a required column or not JSON is refused.
RefuseFile ==
  /\ progress.pc = "new"
  /\ progress' = [progress EXCEPT !.pc = "over"] /\ reply' \in {"400", "415", "422"}
  /\ UNCHANGED <<file, job, txItems, stored>>

\* A CSV file: a row whose numbers do not parse is only counted.
ImportFromCSV ==
  /\ progress.pc = "new"
  /\ \E n \in 0..MaxRows, unparsed \in 0..MaxUnparsed :
       \E rows \in [1..n -> Rows] : file' = [rows |-> rows, unparsed |-> unparsed]
  /\ progress' = [progress EXCEPT !.pc = "parsed"]
  /\ UNCHANGED <<job, txItems, stored, reply>>

\* A JSON array: it parses as a whole or not at all.
ImportFromJSON ==
  /\ progress.pc = "new"
  /\ \E n \in 0..MaxRows : \E rows \in [1..n -> Rows] : file' = [rows |-> rows, unparsed |-> 0]
  /\ progress' = [progress EXCEPT !.pc = "parsed"]
  /\ UNCHANGED <<job, txItems, stored, reply>>

-----------------------------------------------------------------------------
(* runImport                                                               *)

NewJob == [status |-> "processing", imported |-> 0, failed |-> file.unparsed]

CreateJob ==
  /\ progress.pc = "parsed"
  /\ job' = NewJob
  /\ progress' = [progress EXCEPT !.pc = "rows"]
  /\ UNCHANGED <<file, txItems, stored, reply>>

\* processRow up to the variant: what it refuses without the transaction.
ValidRow(row) == row.valid /\ row.quantity > 0 /\ row.known

\* The statements of the row succeed in the transaction as it is.
InsertBatchItem(row) == ~progress.aborted /\ row.quantity <= MaxInteger

RowImported(row) == ValidRow(row) /\ InsertBatchItem(row)

ProcessRow ==
  LET i == progress.next
      row == file.rows[i]
  IN  /\ progress.pc = "rows" /\ i <= Len(file.rows)
      /\ txItems' = IF RowImported(row) THEN txItems \cup {i} ELSE txItems
      /\ progress' = [progress EXCEPT
           !.next = i + 1,
           !.imported = IF RowImported(row) THEN @ + 1 ELSE @,
           !.failed = IF RowImported(row) THEN @ ELSE @ + 1,
           !.aborted = @ \/ (ValidRow(row) /\ ~InsertBatchItem(row))]
      /\ UNCHANGED <<file, job, stored, reply>>

\* Mutant of Commits: the error of Commit is not looked at.
CommitsAlways == TRUE

\* COMMIT of an aborted transaction rolls back, and pgx returns an error.
Commits == ~progress.aborted

Commit ==
  /\ progress.pc = "rows" /\ progress.next > Len(file.rows)
  /\ stored' = IF progress.aborted THEN {} ELSE txItems
  /\ txItems' = {}
  /\ progress' = [progress EXCEPT !.pc = IF Commits THEN "committed" ELSE "over"]
  /\ reply' = IF Commits THEN "none" ELSE "422"
  /\ UNCHANGED <<file, job>>

\* The rows are stored and the error is one of the connection.
LoseCommitReply ==
  /\ progress.pc = "rows" /\ progress.next > Len(file.rows) /\ ~progress.aborted
  /\ stored' = txItems /\ txItems' = {} /\ reply' = "422"
  /\ progress' = [progress EXCEPT !.pc = "over"]
  /\ UNCHANGED <<file, job>>

\* BeginTx, a statement outside the rows or Commit fails, and nothing is stored.
FailImport ==
  /\ progress.pc \in {"parsed", "rows"}
  /\ txItems' = {} /\ reply' = "422"
  /\ progress' = [progress EXCEPT !.pc = "over"]
  /\ UNCHANGED <<file, job, stored>>

\* The count of failed rows leaves out those that did not parse; the total
\* does not.
JobStatus == IF progress.failed = TotalRows THEN "failed" ELSE "completed"

FinishedJob == [status |-> JobStatus, imported |-> progress.imported,
                failed |-> progress.failed]

ReplyStatus ==
  IF progress.failed > 0 THEN IF progress.imported = 0 THEN "422" ELSE "207" ELSE "201"

\* The error of the update is not looked at.
FinishImport ==
  /\ progress.pc = "committed"
  /\ job' = FinishedJob \/ job' = job
  /\ progress' = [progress EXCEPT !.pc = "over"]
  /\ reply' = ReplyStatus
  /\ UNCHANGED <<file, txItems, stored>>

\* The server stops: an open transaction is rolled back.
CrashImport ==
  /\ progress.pc \in {"parsed", "rows", "committed"}
  /\ txItems' = {} /\ reply' = "lost"
  /\ progress' = [progress EXCEPT !.pc = "over"]
  /\ UNCHANGED <<file, job, stored>>

-----------------------------------------------------------------------------

ImportNext ==
  \/ RefuseFile \/ ImportFromCSV \/ ImportFromJSON
  \/ CreateJob \/ ProcessRow \/ Commit \/ LoseCommitReply \/ FailImport
  \/ FinishImport \/ CrashImport

ImportSpec == ImportInit /\ [][ImportNext]_importVars

ImportTypeOK ==
  /\ file \in [rows : Seq(Rows), unparsed : 0..MaxUnparsed]
  /\ job \in [status : {"none", "processing", "completed", "failed"},
              imported : 0..MaxRows, failed : 0..(MaxRows + MaxUnparsed)]
  /\ progress \in [pc : {"new", "parsed", "rows", "committed", "over"},
                   next : 1..(MaxRows + 1), imported : 0..MaxRows, failed : 0..MaxRows,
                   aborted : BOOLEAN]
  /\ txItems \in SUBSET (1..MaxRows) /\ stored \in SUBSET (1..MaxRows)
  /\ reply \in Replies

GoodRows == {i \in DOMAIN file.rows : ValidRow(file.rows[i])}

(* What the client and the job are told is what was stored, also when the   *)
(* database aborts the transaction in the middle of the file, the server   *)
(* stops or the reply of the commit is lost.  The good rows are stored all *)
(* or not at all; an answer of success comes with all of them; a job that  *)
(* has ended counts the ones stored, and has stored none when it failed.   *)
(* A 422 alone does not say that nothing is stored, but then the job is    *)
(* still processing (runImport, ImportBatch).                              *)
ImportReportTrue ==
  /\ stored \in {{}, GoodRows}
  /\ reply \in {"201", "207"} => stored = GoodRows
  /\ job.status \in {"completed", "failed"} => job.imported = Cardinality(stored)
  /\ job.status = "failed" \/ reply \in {"400", "415"} => stored = {}
  /\ reply = "422" /\ stored # {} => job.status = "processing"
=============================================================================
