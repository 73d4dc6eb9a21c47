------------------------------ MODULE Returns -------------------------------
(***************************************************************************)
(* Returns of goods (RMA): a return is opened with its lines, photos are   *)
(* uploaded and compared by their hash, and the return is approved, which  *)
(* books its lines on the stock, or rejected.                              *)
(*                                                                         *)
(* ApproveReturn reads the return on a connection of the pool and writes   *)
(* in a transaction of its own; RejectReturn reads nothing.  UploadPhoto   *)
(* inserts the photo, reads the outbound photo and stores the verdict,     *)
(* each on a connection of its own.                                        *)
(*                                                                         *)
(* No code moves a return to "received" or "qc_review", which ApproveReturn*)
(* asks for: MoveByHand stands for whoever does.  All lines are of one     *)
(* variant: lines of several meet only in that they fail together.         *)
(***************************************************************************)
EXTENDS Integers, Sequences, FiniteSets

CONSTANTS
  NReturns,      \* returns are 1..NReturns
  MaxLines,      \* lines of a return
  NApprovals,    \* ApproveReturn requests are 1..NApprovals
  NUploads,      \* UploadPhoto requests are 1..NUploads
  Hashes,        \* SHA-256 sums of photo files
  FirstOnHand    \* quantity_on_hand of the variant at the start

ASSUME ReturnsAssumption ==
  /\ NReturns \in Nat \ {0} /\ MaxLines \in Nat \ {0}
  /\ NApprovals \in Nat /\ NUploads \in Nat /\ FirstOnHand \in Nat

VARIABLES
  returnRow,    \* returns with their return_items
  photo,        \* return_photos
  returnStock,  \* inventory.quantity_on_hand of the variant
  approval,     \* the ApproveReturn requests
  upload,       \* the UploadPhoto requests
  booked,       \* how often each return was booked on the stock
  overlapped    \* the returns two approvals of which were under way at once

returnsVars == <<returnRow, photo, returnStock, approval, upload, booked, overlapped>>

Returns   == 1..NReturns
Approvals == 1..NApprovals
Uploads   == 1..NUploads

ReturnStatuses == {"none", "pending", "received", "qc_review", "approved", "rejected"}
Conditions     == {"good", "damaged"}  \* the code treats "wrong_item" as "damaged"
PhotoTypes     == {"outbound_qc", "customer_submitted"}  \* no verdict looks at "warehouse_received"
NoHash         == "no hash"
Verdicts       == {"none", "passed", "failed"}

\* A new line: one unit, no verdict, no cost stamped.
NewLine(c) == [condition |-> c, qc |-> "none", cogs |-> FALSE]
NoReturn   == [status |-> "none", resolved |-> FALSE, lines |-> <<>>]

NoApproval == [pc |-> "new", return |-> 1, costed |-> FALSE]
NoUpload   == [pc |-> "new", return |-> 1, line |-> 1, hash |-> NoHash,
               outbound |-> NoHash]

ReturnsInit ==
  /\ returnRow = [r \in Returns |-> NoReturn]
  /\ photo = {}
  /\ returnStock = FirstOnHand
  /\ approval = [a \in Approvals |-> NoApproval]
  /\ upload = [u \in Uploads |-> NoUpload]
  /\ booked = [r \in Returns |-> 0]
  /\ overlapped = {}

-----------------------------------------------------------------------------
(* Opening a return                                                        *)

InsertReturn(r, lines) == [returnRow EXCEPT ![r] =
                             [status |-> "pending", resolved |-> FALSE, lines |-> lines]]
InsertReturnItem(conditions) == [i \in DOMAIN conditions |-> NewLine(conditions[i])]

\* The handler and the service both ask for at least one item.
CreateReturn(r) ==
  /\ returnRow[r].status = "none"
  /\ \E n \in 1..MaxLines : \E conditions \in [1..n -> Conditions] :
       returnRow' = InsertReturn(r, InsertReturnItem(conditions))
  /\ UNCHANGED <<photo, returnStock, approval, upload, booked, overlapped>>

MoveByHand(r) ==
  /\ \/ /\ returnRow[r].status = "pending"
        /\ returnRow' = [returnRow EXCEPT ![r].status = "received"]
     \/ /\ returnRow[r].status = "received"
        /\ returnRow' = [returnRow EXCEPT ![r].status = "qc_review"]
  /\ UNCHANGED <<photo, returnStock, approval, upload, booked, overlapped>>

-----------------------------------------------------------------------------
(* Photos                                                                  *)

PhotoRow(u, r, i, type, hash) ==
  [return |-> r, line |-> i, type |-> type, hash |-> hash, at |-> u]

\* Mutant of ComparesType: every photo is compared, as if the customer's.
ComparesAny(type) == TRUE

ComparesType(type) == type = "customer_submitted"

\* UploadPhoto up to the insertion of the row, which is stamped just before;
\* uploads come in the order of their numbers, which are their stamps.
InsertReturnPhoto(u, r, i, type, hash) ==
  /\ upload[u].pc = "new" /\ \A v \in 1..(u - 1) : upload[v].pc # "new"
  /\ i \in DOMAIN returnRow[r].lines
  /\ photo' = photo \cup {PhotoRow(u, r, i, type, hash)}
  /\ upload' = [upload EXCEPT ![u] =
       [pc |-> IF ComparesType(type) THEN "inserted" ELSE "over",
        return |-> r, line |-> i, hash |-> hash, outbound |-> NoHash]]
  /\ UNCHANGED <<returnRow, returnStock, approval, booked, overlapped>>

PhotosOf(r, i, type) == {p \in photo : p.return = r /\ p.line = i /\ p.type = type}

\* Mutant of GetOutboundQCHash: the latest photo of any line of the return.
OutboundHashOfReturn(r, i) ==
  LET P == {p \in photo : p.return = r /\ p.type = "outbound_qc"}
  IN  IF P = {} THEN NoHash
      ELSE (CHOOSE p \in P : \A q \in P : q.at <= p.at).hash

\* The newest outbound photo of the line, by its stamp.
GetOutboundQCHash(r, i) ==
  LET P == PhotosOf(r, i, "outbound_qc")
  IN  IF P = {} THEN NoHash
      ELSE (CHOOSE p \in P : \A q \in P : q.at <= p.at).hash

\* Without an outbound photo there is nothing to compare and nothing is stored.
ReadOutbound(u) ==
  LET hash == GetOutboundQCHash(upload[u].return, upload[u].line)
  IN  /\ upload[u].pc = "inserted"
      /\ upload' = [upload EXCEPT ![u].outbound = hash,
                                  ![u].pc = IF hash = NoHash THEN "over" ELSE "compared"]
      /\ UNCHANGED <<returnRow, photo, returnStock, approval, booked, overlapped>>

UpdateReturnItemQC(r, i, verdict) == [returnRow EXCEPT ![r].lines[i].qc = verdict]

Verdict(u) == IF upload[u].hash = upload[u].outbound THEN "passed" ELSE "failed"

StoreVerdict(u) ==
  /\ upload[u].pc = "compared"
  /\ returnRow' = UpdateReturnItemQC(upload[u].return, upload[u].line, Verdict(u))
  /\ upload' = [upload EXCEPT ![u].pc = "over"]
  /\ UNCHANGED <<photo, returnStock, approval, booked, overlapped>>

\* An error at any step ends the upload; one of the comparison is swallowed.
FailUpload(u) ==
  /\ upload[u].pc \in {"inserted", "compared"}
  /\ upload' = [upload EXCEPT ![u].pc = "over"]
  /\ UNCHANGED <<returnRow, photo, returnStock, approval, booked, overlapped>>

-----------------------------------------------------------------------------
(* Approval and rejection                                                  *)

\* Mutant of MayApprove: the status is not asked for.
MayApproveAny(status) == status # "none"

MayApprove(status) == status \in {"received", "qc_review"}

UnderWay(r) == {a \in Approvals : approval[a].pc = "read" /\ approval[a].return = r}

\* ApproveReturn reads the return; the request may name the costs of its items.
ReadForApproval(a, r, costed) ==
  /\ approval[a].pc = "new" /\ \A b \in 1..(a - 1) : approval[b].pc # "new"
  /\ MayApprove(returnRow[r].status)
  /\ approval' = [approval EXCEPT ![a] = [pc |-> "read", return |-> r, costed |-> costed]]
  /\ overlapped' = IF UnderWay(r) = {} THEN overlapped ELSE overlapped \cup {r}
  /\ UNCHANGED <<returnRow, photo, returnStock, upload, booked>>

\* A good unit goes back on hand, any other is written off.
Delta(line) == IF line.condition = "good" THEN 1 ELSE -1

\* What the first n lines do to the stock.
DeltaTo(lines, n) ==
  Cardinality({i \in 1..n : lines[i].condition = "good"})
    - Cardinality({i \in 1..n : lines[i].condition # "good"})

\* Mutant of AdjustStock: nothing checks what a write-off leaves.
AdjustStockUnchecked(lines) == TRUE

\* quantity_on_hand >= 0 is checked at every line.
AdjustStock(lines) == \A n \in DOMAIN lines : returnStock + DeltaTo(lines, n) >= 0

\* A line whose cost the request does not name is stamped with zero.
SetReturnItemCOGS(lines, costed) == [i \in DOMAIN lines |-> [lines[i] EXCEPT !.cogs = costed]]

UpdateReturnStatus(row, status) == [row EXCEPT !.status = status, !.resolved = TRUE]

ApproveReturn(a) ==
  LET r == approval[a].return
      lines == returnRow[r].lines
  IN  /\ approval[a].pc = "read"
      /\ AdjustStock(lines)
      /\ returnStock' = returnStock + DeltaTo(lines, Len(lines))
      /\ returnRow' = [returnRow EXCEPT ![r] = UpdateReturnStatus(
                         [@ EXCEPT !.lines = SetReturnItemCOGS(lines, approval[a].costed)],
                         "approved")]
      /\ booked' = [booked EXCEPT ![r] = @ + 1]
      /\ approval' = [approval EXCEPT ![a].pc = "over"]
      /\ UNCHANGED <<photo, upload, overlapped>>

\* The transaction fails, or would write off a unit that is not there.
FailApproval(a) ==
  /\ approval[a].pc = "read"
  /\ approval' = [approval EXCEPT ![a].pc = "over"]
  /\ UNCHANGED <<returnRow, photo, returnStock, upload, booked, overlapped>>

RejectReturn(r) ==
  /\ returnRow[r].status # "none"
  /\ returnRow' = [returnRow EXCEPT ![r] = UpdateReturnStatus(@, "rejected")]
  /\ UNCHANGED <<photo, returnStock, approval, upload, booked, overlapped>>

-----------------------------------------------------------------------------

ReturnsNext ==
  \/ \E r \in Returns : CreateReturn(r) \/ MoveByHand(r) \/ RejectReturn(r)
  \/ \E u \in Uploads, r \in Returns, i \in 1..MaxLines, type \in PhotoTypes, h \in Hashes :
       InsertReturnPhoto(u, r, i, type, h)
  \/ \E u \in Uploads : ReadOutbound(u) \/ StoreVerdict(u) \/ FailUpload(u)
  \/ \E a \in Approvals, r \in Returns, costed \in BOOLEAN : ReadForApproval(a, r, costed)
  \/ \E a \in Approvals : ApproveReturn(a) \/ FailApproval(a)

ReturnsSpec == ReturnsInit /\ [][ReturnsNext]_returnsVars

ReturnsTypeOK ==
  /\ returnRow \in [Returns -> [status : ReturnStatuses, resolved : BOOLEAN,
                                lines : Seq([condition : Conditions, qc : Verdicts,
                                             cogs : BOOLEAN])]]
  /\ photo \in SUBSET [return : Returns, line : 1..MaxLines, type : PhotoTypes,
                       hash : Hashes, at : Uploads]
  /\ returnStock \in Nat
  /\ approval \in [Approvals -> [pc : {"new", "read", "over"}, return : Returns,
                                 costed : BOOLEAN]]
  /\ upload \in [Uploads -> [pc : {"new", "inserted", "compared", "over"},
                             return : Returns, line : 1..MaxLines,
                             hash : Hashes \cup {NoHash}, outbound : Hashes \cup {NoHash}]]
  /\ booked \in [Returns -> Nat]
  /\ overlapped \in SUBSET Returns

(* A return is booked on the stock at most once, however uploads, moves and *)
(* rejections interleave with its approvals, unless two of its approvals   *)
(* were under way at once: a request that reads the status after the       *)
(* booking is refused (ApproveReturn, the check of the status).            *)
BookedOnce == \A r \in Returns : r \notin overlapped => booked[r] <= 1

(* A verdict that is stored rests on photos on file of that line: "passed"  *)
(* on a customer's and an outbound photo with the same hash, "failed" on   *)
(* two that differ (UploadPhoto, runQCComparison, GetOutboundQCHash).      *)
VerdictGrounded ==
  \A r \in Returns : \A i \in DOMAIN returnRow[r].lines :
    LET qc == returnRow[r].lines[i].qc
    IN  qc # "none" =>
          \E c \in PhotosOf(r, i, "customer_submitted"), o \in PhotosOf(r, i, "outbound_qc") :
            (qc = "passed") <=> (c.hash = o.hash)
=============================================================================
