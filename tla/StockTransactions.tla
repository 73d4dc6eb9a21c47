------------------------ MODULE StockTransactions ---------------------------
(***************************************************************************)
(* The statements of the transactions that change the inventory rows.      *)
(*                                                                         *)
(* SubtractStock and AdjustInventory (serializable), ReserveStock and      *)
(* ReleaseExpiredReservations (repeatable read) work on a snapshot taken   *)
(* by their first statement, lock the rows they touch (SELECT FOR UPDATE,  *)
(* UPDATE) and fail when a row they want was written after the snapshot.   *)
(* The writers of the catalogue and of returns run at read committed: they *)
(* wait for the lock and take the row as it then is.                       *)
(* PostgreSQL aborts one of the sessions that wait for each other.         *)
(***************************************************************************)
EXTENDS Fifo, Sequences, FiniteSets

CONSTANTS
  Variants,       \* the variants, each with its inventory row
  NSessions,      \* sessions are 1..NSessions; each may sell the order of its number
  NBatches,       \* batch items are 1..NBatches, oldest first
  NReservations,  \* reservation rows are 1..NReservations
  MaxLines,       \* bound on the lines of one request
  MaxQty          \* bound on the quantity of a line, a receipt or a write

Sessions     == 1..NSessions
Orders       == Sessions
Batches      == 1..NBatches
Reservations == 1..NReservations

\* What can be locked: <<"inventory", v>> and <<"reservation", r>>.
Rows == ({"inventory"} \X Variants) \cup ({"reservation"} \X Reservations)

ASSUME TransactionsAssumption ==
  /\ Variants # {}
  /\ NSessions \in Nat /\ NBatches \in Nat /\ NReservations \in Nat \ {0}
  /\ MaxLines \in Nat \ {0} /\ MaxQty \in Nat \ {0}

NoSession == 0  \* the holder of a free lock

VARIABLES
  db,      \* the committed tables
  lock,    \* who holds each row of inventory and of stock_reservations
  tx,      \* each session: pc, kind and the lines still to do
  copy,    \* the tables as each session sees them: its snapshot and its writes
  stale,   \* the rows others committed since each session's snapshot
  written  \* what write sessions did to onHand in all

vars == <<db, lock, tx, copy, stale, written>>

-----------------------------------------------------------------------------
(* The tables                                                              *)

NoUnits == [b \in Batches |-> 0]

\* The units of variant v among units, a quantity for each batch item.
UnitsOf(t, units, v) ==
  SumTo([b \in Batches |-> IF t.batch[b].variant = v THEN units[b] ELSE 0], NBatches)

Deducted(t, b) == SumTo([o \in Orders |-> t.saleOut[o][b]], NSessions)

FifoStock(t, v) ==
  [b \in Batches |-> IF t.batch[b].variant = v
                     THEN t.batch[b].received - Deducted(t, b) ELSE 0]

Available(t, v) == t.onHand[v] - t.reserved[v]

Held(t, v) ==
  SumTo([r \in Reservations |-> IF t.resv[r].state = "active" /\ t.resv[r].variant = v
                                THEN t.resv[r].quantity ELSE 0], NReservations)

-----------------------------------------------------------------------------
(* Sessions and locks                                                      *)

Running(s) == tx[s].pc = "running"
Pending(s) == Running(s) /\ tx[s].todo # << >>
Line(s)    == Head(tx[s].todo)

\* UPDATE stock_reservations ... WHERE is_active: the snapshot shows no such row.
Skips(s) ==
  /\ Pending(s) /\ tx[s].kind = "release"
  /\ copy[s].resv[Line(s).reservation].state # "active"

\* The session has a statement to run that locks a row.
Busy(s) == Pending(s) /\ ~Skips(s)

\* The row it locks next.  A release locks the reservation, then its
\* inventory row.
Wants(s) ==
  IF tx[s].kind = "release"
  THEN LET r == Line(s).reservation
       IN  IF lock[<<"reservation", r>>] = s
           THEN <<"inventory", copy[s].resv[r].variant>> ELSE <<"reservation", r>>
  ELSE <<"inventory", Line(s).variant>>

\* Mutant of Blocker: the SELECT has no FOR UPDATE.
BlockerNone(s) == NoSession

\* The session s has to wait for.
Blocker(s) ==
  IF Busy(s) /\ lock[Wants(s)] # s THEN lock[Wants(s)] ELSE NoSession

\* Mutant of Conflicts: the isolation level lets rows change under a snapshot.
ConflictsNever(s) == FALSE

\* The row was written after the snapshot of s.  A write session is at read
\* committed: it has no snapshot to keep to.
Conflicts(s) ==
  /\ Busy(s) /\ Blocker(s) = NoSession
  /\ tx[s].kind # "write" /\ Wants(s) \in stale[s]

\* The row can be locked and read.
Granted(s) == Busy(s) /\ Blocker(s) = NoSession /\ ~Conflicts(s)

\* Mutant of Deadlocked: only a session that waits for itself is found.
DeadlockedAlone(s) == Blocker(s) = s

\* s waits for itself, through others.
Deadlocked(s) ==
  LET waitsFor[n \in 0..Cardinality(Sessions)] ==
        IF n = 0 THEN s
        ELSE IF waitsFor[n - 1] = NoSession THEN NoSession ELSE Blocker(waitsFor[n - 1])
  IN  \E n \in 1..Cardinality(Sessions) : waitsFor[n] = s

NoCopy == << >>

\* The session is over: its locks are free, its copy is forgotten.
End(s, pc) ==
  /\ tx' = [tx EXCEPT ![s] = [pc |-> pc, kind |-> "none", todo |-> << >>]]
  /\ lock' = [row \in Rows |-> IF lock[row] = s THEN NoSession ELSE lock[row]]
  /\ copy' = [copy EXCEPT ![s] = NoCopy]

\* Mutant of Rollback: the deferred tx.Rollback is missing, the locks stay.
RollbackMissing(s, pc) ==
  /\ tx' = [tx EXCEPT ![s] = [pc |-> pc, kind |-> "none", todo |-> << >>]]
  /\ copy' = [copy EXCEPT ![s] = NoCopy]
  /\ stale' = [stale EXCEPT ![s] = {}]
  /\ UNCHANGED <<db, lock, written>>

Rollback(s, pc) ==
  /\ End(s, pc)
  /\ stale' = [stale EXCEPT ![s] = {}]
  /\ UNCHANGED <<db, written>>

\* The statement has locked its row and left its writes in the copy.
Done(s, t) ==
  /\ lock' = [lock EXCEPT ![Wants(s)] = s]
  /\ tx' = [tx EXCEPT ![s].todo = Tail(@)]
  /\ copy' = [copy EXCEPT ![s] = t]
  /\ UNCHANGED <<db, stale, written>>

-----------------------------------------------------------------------------
(* Requests                                                                *)

Lists(S) == UNION {[1..n -> S] : n \in 1..MaxLines}
NoRepeat(p, column) == \A i, j \in DOMAIN p : i # j => p[i][column] # p[j][column]

\* The lines of an order, in the order of the request; no variant comes twice.
SalePlans ==
  {p \in Lists([variant : Variants, quantity : 1..MaxQty]) : NoRepeat(p, "variant")}

\* The lines of a reservation request, each with the fresh id of its new row.
ReservePlans ==
  {p \in Lists([variant : Variants, quantity : 1..MaxQty, reservation : Reservations]) :
     /\ NoRepeat(p, "reservation")
     /\ \A i \in DOMAIN p : /\ db.resv[p[i].reservation].state = "unused"
                           /\ lock[<<"reservation", p[i].reservation>>] = NoSession}

\* The reservations a cleanup has listed, or a task names.
ReleasePlans ==
  {p \in Lists([reservation : Reservations]) :
     /\ NoRepeat(p, "reservation")
     /\ \A i \in DOMAIN p : db.resv[p[i].reservation].state # "unused"}

\* The variants of a catalogue write or of the items of a return.
WritePlans == {p \in Lists([variant : Variants]) : NoRepeat(p, "variant")}

\* AdjustInventory is of one variant.
AdjustPlans == {p \in WritePlans : Len(p) = 1}

\* BEGIN and the snapshot that the first statement takes, before it waits for
\* any lock.  The new rows of a reservation request are its own until it commits.
Start(s, kind, p) ==
  /\ tx[s].pc = "idle"
  /\ tx' = [tx EXCEPT ![s] = [pc |-> "running", kind |-> kind, todo |-> p]]
  /\ copy' = [copy EXCEPT ![s] = db]
  /\ lock' = [row \in Rows |->
                IF kind = "reserve" /\ \E i \in DOMAIN p : row = <<"reservation", p[i].reservation>>
                THEN s ELSE lock[row]]
  /\ UNCHANGED <<db, stale, written>>

Begin(s) ==
  \/ \E p \in SalePlans    : Start(s, "sale", p)
  \/ \E p \in ReservePlans : Start(s, "reserve", p)
  \/ \E p \in ReleasePlans : Start(s, "release", p)
  \/ \E p \in WritePlans   : Start(s, "write", p)
  \/ \E p \in AdjustPlans  : Start(s, "adjust", p)

-----------------------------------------------------------------------------
(* Statements                                                              *)

\* The line passes both checks of deductSingleVariant.
Sellable(s) ==
  LET v == Line(s).variant
  IN  /\ Line(s).quantity <= Available(copy[s], v)
      /\ Covers(FifoStock(copy[s], v), Line(s).quantity, NBatches)

\* deductSingleVariant: lock, check, waterfall, DeductOnHand.
SellLine(s) ==
  LET v == Line(s).variant
      units == Consumed(FifoStock(copy[s], v), Line(s).quantity, NBatches)
  IN  /\ Granted(s) /\ tx[s].kind = "sale" /\ Sellable(s)
      /\ Done(s, [copy[s] EXCEPT !.onHand[v] = @ - Line(s).quantity,
                                 !.saleOut[s] = [b \in Batches |-> @[b] + units[b]]])

\* The lock, the check and the insert of ReserveStock.
ReserveLine(s) ==
  LET v == Line(s).variant
  IN  /\ Granted(s) /\ tx[s].kind = "reserve"
      /\ Line(s).quantity <= Available(copy[s], v)
      /\ Done(s, [copy[s] EXCEPT
                    !.reserved[v] = @ + Line(s).quantity,
                    !.resv[Line(s).reservation] = [state |-> "active", variant |-> v,
                                          quantity |-> Line(s).quantity]])

\* InsufficientStockError: the whole request is rolled back.
RefuseLine(s) ==
  /\ Granted(s)
  /\ \/ tx[s].kind = "sale" /\ ~Sellable(s)
     \/ tx[s].kind = "reserve" /\ Line(s).quantity > Available(copy[s], Line(s).variant)
  /\ Rollback(s, "refused")

\* ReleaseReservation has found its row and locked it.
LockReservation(s) ==
  /\ Granted(s) /\ tx[s].kind = "release" /\ Wants(s)[1] = "reservation"
  /\ lock' = [lock EXCEPT ![Wants(s)] = s]
  /\ UNCHANGED <<db, tx, copy, stale, written>>

\* Both rows of ReleaseReservation are locked and written.
ReleaseLine(s) ==
  LET r == Line(s).reservation
  IN  /\ Granted(s) /\ tx[s].kind = "release" /\ Wants(s)[1] = "inventory"
      /\ Done(s, [copy[s] EXCEPT
                    !.resv[r].state = "released",
                    !.reserved[Wants(s)[2]] = @ - copy[s].resv[r].quantity])

SkipLine(s) ==
  /\ Skips(s)
  /\ tx' = [tx EXCEPT ![s].todo = Tail(@)]
  /\ UNCHANGED <<db, lock, copy, stale, written>>

Writes(s) == tx[s].kind \in {"write", "adjust"}

\* UPDATE inventory SET quantity_on_hand, to a value or by a difference.
WriteLine(s) ==
  /\ Granted(s) /\ Writes(s)
  /\ \E q \in 0..MaxQty : Done(s, [copy[s] EXCEPT !.onHand[Line(s).variant] = q])

-----------------------------------------------------------------------------
(* The ends of a session                                                   *)

\* The rows a session has locked and the rows it has inserted are published.
Commit(s) ==
  LET t == copy[s]
      mine == {row \in Rows : lock[row] = s}
  IN  /\ Running(s) /\ tx[s].todo = << >>
      /\ db' = [db EXCEPT
            !.onHand   = [v \in Variants |->
                            IF <<"inventory", v>> \in mine THEN t.onHand[v] ELSE @[v]],
            !.reserved = [v \in Variants |->
                            IF <<"inventory", v>> \in mine /\ tx[s].kind # "write"
                            THEN t.reserved[v] ELSE @[v]],
            !.resv     = [r \in Reservations |->
                            IF <<"reservation", r>> \in mine THEN t.resv[r] ELSE @[r]],
            !.saleOut[s] = t.saleOut[s]]
      /\ written' = IF Writes(s)
                    THEN [v \in Variants |-> written[v] + db'.onHand[v] - db.onHand[v]]
                    ELSE written
      /\ stale' = [p \in Sessions |-> IF p # s /\ Running(p)
                                      THEN stale[p] \cup mine
                                      ELSE {}]
      /\ End(s, "done")

\* SQLSTATE 40001; neither ProcessOrder nor the worker tries again at once.
FailSerialization(s) == Conflicts(s) /\ Rollback(s, "conflict")

\* SQLSTATE 40P01: PostgreSQL gives up one of the sessions of the cycle.
BreakDeadlock(s) == Deadlocked(s) /\ Rollback(s, "deadlock")

\* The request is cancelled or the connection is lost.
Cancel(s) == Running(s) /\ Rollback(s, "cancelled")

\* A receipt commits: sessions with an older snapshot do not see its goods.
Receive(b, v, q) ==
  /\ db.batch[b].received = 0
  /\ db' = [db EXCEPT !.batch[b] = [variant |-> v, received |-> q]]
  /\ UNCHANGED <<lock, tx, copy, stale, written>>

-----------------------------------------------------------------------------

\* Any quantities, no goods received yet, and one active reservation.
Init ==
  \E on \in [Variants -> 0..MaxQty] :
    LET v == CHOOSE u \in Variants : TRUE IN
    /\ db = [onHand   |-> on,
             reserved |-> [u \in Variants |-> IF u = v THEN 1 ELSE 0],
             batch    |-> [b \in Batches |-> [variant |-> v, received |-> 0]],
             saleOut  |-> [o \in Orders |-> NoUnits],
             resv     |-> [r \in Reservations |->
                             [state |-> IF r = 1 THEN "active" ELSE "unused",
                              variant |-> v, quantity |-> IF r = 1 THEN 1 ELSE 0]]]
    /\ written = on
    /\ lock = [row \in Rows |-> NoSession]
    /\ tx = [s \in Sessions |-> [pc |-> "idle", kind |-> "none", todo |-> << >>]]
    /\ copy = [s \in Sessions |-> NoCopy]
    /\ stale = [s \in Sessions |-> {}]

Statement(s) ==
  \/ SellLine(s) \/ ReserveLine(s) \/ RefuseLine(s)
  \/ LockReservation(s) \/ ReleaseLine(s) \/ SkipLine(s)
  \/ WriteLine(s)

Progress(s) ==
  \/ Statement(s) \/ Commit(s) \/ FailSerialization(s) \/ BreakDeadlock(s)

Next ==
  \/ \E s \in Sessions : Begin(s) \/ Progress(s) \/ Cancel(s)
  \/ \E b \in Batches, v \in Variants, q \in 1..MaxQty : Receive(b, v, q)

Spec == Init /\ [][Next]_vars

\* The driver sends the statements of a session one after the other, and
\* PostgreSQL answers each, gives freed locks away and looks for deadlocks.
Fairness == \A s \in Sessions : WF_vars(Progress(s))

LiveSpec == Spec /\ Fairness

-----------------------------------------------------------------------------
(* Properties                                                              *)

Tables ==
  [onHand : [Variants -> Nat], reserved : [Variants -> Nat],
   batch : [Batches -> [variant : Variants, received : Nat]],
   saleOut : [Orders -> [Batches -> Nat]],
   resv : [Reservations -> [state : {"unused", "active", "released"},
                            variant : Variants, quantity : Nat]]]

TypeOK ==
  /\ db \in Tables
  /\ lock \in [Rows -> Sessions \cup {NoSession}]
  /\ \A s \in Sessions :
       /\ tx[s].pc \in {"idle", "running", "done", "refused", "conflict",
                        "deadlock", "cancelled"}
       /\ tx[s].kind \in {"none", "sale", "reserve", "release", "write", "adjust"}
       /\ copy[s] \in IF Running(s) THEN Tables ELSE {NoCopy}
       /\ stale[s] \subseteq Rows
       /\ ~Running(s) => \A row \in Rows : lock[row] # s
  /\ written \in [Variants -> Int]

\* Statement by statement and in any interleaving, the transactions do what
\* StockContract says a call does in one step.
Contract == INSTANCE StockContract WITH
  onHand    <- db.onHand,
  reserved  <- db.reserved,
  sold      <- [o \in Orders |-> [v \in Variants |-> UnitsOf(db, db.saleOut[o], v)]],
  held      <- [v \in Variants |-> Held(db, v)],
  inherited <- [v \in Variants |-> 0]

ImplementsContract == Contract!Spec

\* "preventing double-deduction": no two sessions sell the same unit of a
\* batch item (inventory.go:180, ARCHITECTURE.md:302).
NoDoubleDeduction ==
  \A b \in Batches : Deducted(db, b) <= db.batch[b].received

\* No session stays in a transaction for ever, whatever order the lines of
\* its request lock the rows in.
SessionsEnd == \A s \in Sessions : Running(s) ~> ~Running(s)

\* The line that s has to do next is covered by what is committed now.
StillCovered(s) ==
  LET v == Line(s).variant
  IN  /\ Line(s).quantity <= Available(db, v)
      /\ Covers(FifoStock(db, v), Line(s).quantity, NBatches)

\* ARCHITECTURE.md:303-305 "Concurrent orders on the same SKU will queue behind
\* the lock": when another order has sold and has left enough for it, an order
\* that began meanwhile gets the lock and is not turned away.
OrdersQueueBehindLock ==
  [][\A o, p \in Orders :
       /\ o # p /\ Pending(o) /\ tx[o].kind = "sale"
       /\ db.saleOut[p] # NoUnits
       /\ Sellable(o) /\ StillCovered(o)
       => tx[o].pc' \notin {"conflict", "deadlock"}]_vars
=============================================================================
