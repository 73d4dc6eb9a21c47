----------------------------- MODULE Transfers ------------------------------
(***************************************************************************)
(* The stock of the warehouses and the transfer documents between them.    *)
(*                                                                         *)
(* TransitionTransfer reads the status and then the items of a transfer    *)
(* on connections of the pool, moves the units in a serializable           *)
(* transaction, writes the status on a second connection while that        *)
(* transaction is still open, and commits.  Nothing locks the document.    *)
(* CreateTransfer and UpdateTransfer write the header and the items in two *)
(* transactions.                                                           *)
(*                                                                         *)
(* The statements that move the units are one step, Move: it waits until   *)
(* no other transaction has locked one of its rows.  A transaction that    *)
(* has waited, and so meets a newer row, fails, and so does one of a       *)
(* deadlock: that is FailCall, which may take the place of any step.       *)
(***************************************************************************)
EXTENDS Sums, FiniteSets

CONSTANTS
  Warehouses,
  Variants,
  NTransfers,    \* transfer documents are 1..NTransfers
  NCalls,        \* TransitionTransfer requests are 1..NCalls
  NEdits,        \* CreateTransfer and UpdateTransfer requests are 1..NEdits
  NConnections,  \* the connections of the pool (25 in the code)
  MaxQty         \* bound on the quantity of an item or of a write

ASSUME TransfersAssumption ==
  /\ \E w, x \in Warehouses : w # x
  /\ NTransfers \in Nat \ {0} /\ NCalls \in Nat /\ NEdits \in Nat
  /\ NConnections \in Nat /\ MaxQty \in Nat

VARIABLES
  stock,     \* warehouse_stock.qty_on_hand of each warehouse and variant
  transfer,  \* inventory_transfers with their items
  call,      \* the TransitionTransfer requests: where each is, what it has read
  edit,      \* the CreateTransfer and UpdateTransfer requests, likewise
  booked,    \* what other writers did to stock in all
  applied,   \* what the transitions of each transfer did to stock in all
  disturbed  \* the transfers whose requests got in each other's way

vars == <<stock, transfer, call, edit, booked, applied, disturbed>>

Transfers == 1..NTransfers
Calls     == 1..NCalls
Edits     == 1..NEdits

Statuses == {"draft", "pending", "in_transit", "completed", "cancelled"}
Items    == [Variants -> 0..MaxQty]
NoItems  == [v \in Variants |-> 0]
NoUnits  == [w \in Warehouses |-> NoItems]

Headers  == [status : Statuses \cup {"none"}, origin : Warehouses,
             destination : Warehouses, items : Items]
NoHeader == LET w == CHOOSE x \in Warehouses : TRUE
            IN  [status |-> "none", origin |-> w, destination |-> w, items |-> NoItems]

-----------------------------------------------------------------------------
(* What a transition does, by the status that was read and the target      *)

\* The units of a document, at warehouse w.
At(w, items) == [NoUnits EXCEPT ![w] = items]
Plus(f, g)   == [w \in Warehouses |-> [v \in Variants |-> f[w][v] + g[w][v]]]
Minus(f, g)  == [w \in Warehouses |-> [v \in Variants |-> f[w][v] - g[w][v]]]

\* The switch of TransitionTransfer.
Allowed(status, target) ==
  \/ target = "pending"    /\ status = "draft"
  \/ target = "in_transit" /\ status \in {"draft", "pending"}
  \/ target = "completed"  /\ status \in {"draft", "pending", "in_transit"}
  \/ target = "cancelled"  /\ status # "completed"

\* Mutant of Outgoing: a direct completion only applies the second leg.
OutgoingDispatchOnly(h, target) ==
  IF target = "in_transit" THEN At(h.origin, h.items) ELSE NoUnits

\* Units leave the origin on dispatch, and on a direct completion.
Outgoing(h, target) ==
  IF h.status \in {"draft", "pending"} /\ target \in {"in_transit", "completed"}
  THEN At(h.origin, h.items) ELSE NoUnits

\* Units arrive at the destination, or come back to the origin.
Incoming(h, target) ==
  IF target = "completed" THEN At(h.destination, h.items)
  ELSE IF target = "cancelled" /\ h.status = "in_transit" THEN At(h.origin, h.items)
  ELSE NoUnits

Out(c) == Outgoing(call[c].copy, call[c].target)
In(c)  == Incoming(call[c].copy, call[c].target)

-----------------------------------------------------------------------------
(* Requests, row locks and connections                                     *)

NewCall(pc) == [pc |-> pc, transfer |-> 1, target |-> "none",
                copy |-> NoHeader, view |-> NoUnits]
NewEdit(pc) == [pc |-> pc, transfer |-> 1, row |-> NoHeader]

InProgress(c) == call[c].pc \notin {"new", "over"}
CallsOn(t)    == {c \in Calls : InProgress(c) /\ call[c].transfer = t}

\* The requests that have not come yet come in the order of their numbers.
IsNext(requests, i) ==
  requests[i].pc = "new" /\ \A j \in DOMAIN requests : requests[j].pc = "new" => i <= j

\* The rows of warehouse_stock that call c moves units out of or into.
Touches(c) ==
  {row \in Warehouses \X Variants : Out(c)[row[1]][row[2]] + In(c)[row[1]][row[2]] > 0}

\* The rows its open transaction has locked.
Locked(c) == IF call[c].pc \in {"moved", "written"} THEN Touches(c) ELSE {}

\* Mutant of Unlocked: GetStockForUpdate does not lock.
UnlockedAlways(rows) == TRUE

Unlocked(rows) == \A c \in Calls : rows \cap Locked(c) = {}

\* Mutant of Free: the connection of GetTransferItems is never given back.
FreeLeaking ==
  NConnections - Cardinality({c \in Calls : call[c].pc \in {"open", "moved", "written"}})
               - Cardinality({c \in Calls : call[c].pc \notin {"new", "header"}})

\* A call keeps one connection from BeginTx to the end of its transaction.
Free ==
  NConnections - Cardinality({c \in Calls : call[c].pc \in {"open", "moved", "written"}})

-----------------------------------------------------------------------------
(* TransitionTransfer                                                      *)

\* GetTransferByID.
ReadHeader(c, t, target) ==
  /\ IsNext(call, c) /\ Free > 0
  /\ transfer[t].status # "none"
  /\ call' = [call EXCEPT ![c] = [pc |-> "header", transfer |-> t, target |-> target,
                                  copy |-> [transfer[t] EXCEPT !.items = NoItems],
                                  view |-> NoUnits]]
  /\ disturbed' = IF CallsOn(t) = {} THEN disturbed ELSE disturbed \cup {t}
  /\ UNCHANGED <<stock, transfer, edit, booked, applied>>

\* GetTransferItems.
ReadItems(c) ==
  /\ call[c].pc = "header" /\ Free > 0
  /\ call' = [call EXCEPT ![c].pc = "read",
                          ![c].copy.items = transfer[call[c].transfer].items]
  /\ UNCHANGED <<stock, transfer, edit, booked, applied, disturbed>>

\* BeginTx, unless the transfer already has the target status.
BeginTx(c) ==
  /\ call[c].pc = "read" /\ Free > 0
  /\ call[c].copy.status # call[c].target
  /\ call' = [call EXCEPT ![c].pc = "open"]
  /\ UNCHANGED <<stock, transfer, edit, booked, applied, disturbed>>

EnoughAtOrigin(c) ==
  \A w \in Warehouses, v \in Variants : Out(c)[w][v] <= stock[w][v]

\* The rows it locks, as the transaction sees them.
Seen(c) == [w \in Warehouses |-> [v \in Variants |->
              IF <<w, v>> \in Touches(c) THEN stock[w][v] ELSE 0]]

\* Mutant of Move: the check of QtyAvailable is missing.
MoveUnchecked(c) ==
  /\ call[c].pc = "open" /\ Allowed(call[c].copy.status, call[c].target)
  /\ Unlocked(Touches(c))
  /\ call' = [call EXCEPT ![c].pc = "moved", ![c].view = Seen(c)]
  /\ UNCHANGED <<stock, transfer, edit, booked, applied, disturbed>>

\* GetStockForUpdate, AdjustStockTx and addToDestination, for every item.
Move(c) ==
  /\ call[c].pc = "open" /\ Allowed(call[c].copy.status, call[c].target)
  /\ Unlocked(Touches(c)) /\ EnoughAtOrigin(c)
  /\ call' = [call EXCEPT ![c].pc = "moved", ![c].view = Seen(c)]
  /\ UNCHANGED <<stock, transfer, edit, booked, applied, disturbed>>

\* UpdateTransferStatus: it commits at once, on another connection.
WriteStatus(c) ==
  /\ call[c].pc = "moved" /\ Free > 0
  /\ transfer' = [transfer EXCEPT ![call[c].transfer].status = call[c].target]
  /\ call' = [call EXCEPT ![c].pc = "written"]
  /\ UNCHANGED <<stock, edit, booked, applied, disturbed>>

\* The rows the transaction has locked become what it made of its view of them.
Commit(c) ==
  LET t == call[c].transfer
      result == Plus(Minus(call[c].view, Out(c)), In(c))
  IN  /\ call[c].pc = "written"
      /\ stock' = [w \in Warehouses |-> [v \in Variants |->
                     IF <<w, v>> \in Locked(c) THEN result[w][v] ELSE stock[w][v]]]
      /\ applied' = [applied EXCEPT ![t] = Plus(Minus(@, Out(c)), In(c))]
      /\ call' = [call EXCEPT ![c] = NewCall("over")]
      /\ UNCHANGED <<transfer, edit, booked, disturbed>>

\* Nothing is to be done, the switch refuses, or the origin has too little.
Refuse(c) ==
  /\ \/ call[c].pc = "read" /\ call[c].copy.status = call[c].target
     \/ call[c].pc = "open" /\ ~Allowed(call[c].copy.status, call[c].target)
     \/ call[c].pc = "open" /\ Unlocked(Touches(c)) /\ ~EnoughAtOrigin(c)
  /\ call' = [call EXCEPT ![c] = NewCall("over")]
  /\ UNCHANGED <<stock, transfer, edit, booked, applied, disturbed>>

\* The client leaves, the database refuses a statement or the server stops: the
\* transaction is rolled back, and a status that is written stays written.
FailCall(c) ==
  /\ InProgress(c)
  /\ disturbed' = IF call[c].pc = "written" THEN disturbed \cup {call[c].transfer}
                  ELSE disturbed
  /\ call' = [call EXCEPT ![c] = NewCall("over")]
  /\ UNCHANGED <<stock, transfer, edit, booked, applied>>

-----------------------------------------------------------------------------
(* CreateTransfer and UpdateTransfer                                       *)

\* An edit leaves a transfer as its transitions expect it to be.
Harmless(t) == transfer[t].status \in {"draft", "pending"} /\ CallsOn(t) = {}

AfterEdit(t) == IF Harmless(t) THEN disturbed ELSE disturbed \cup {t}

\* InsertTransfer, with any status the request names.
CreateTransfer(e, t, row) ==
  /\ IsNext(edit, e) /\ transfer[t].status = "none"
  /\ row.status # "none" /\ row.origin # row.destination /\ row.items # NoItems
  /\ transfer' = [transfer EXCEPT ![t] = [row EXCEPT !.items = NoItems]]
  /\ edit' = [edit EXCEPT ![e] = [pc |-> "header", transfer |-> t, row |-> row]]
  /\ disturbed' = IF row.status \in {"draft", "pending"} THEN disturbed
                  ELSE disturbed \cup {t}
  /\ UNCHANGED <<stock, call, booked, applied>>

\* GetTransferByID and the check of the status.
CheckEditable(e, t, row) ==
  /\ IsNext(edit, e) /\ transfer[t].status \in {"draft", "pending", "in_transit"}
  /\ row.status = "none" /\ row.origin # row.destination /\ row.items # NoItems
  /\ edit' = [edit EXCEPT ![e] = [pc |-> "checked", transfer |-> t, row |-> row]]
  /\ UNCHANGED <<stock, transfer, call, booked, applied, disturbed>>

\* UpdateTransferMeta.
UpdateTransferMeta(e) ==
  LET t == edit[e].transfer
  IN  /\ edit[e].pc = "checked"
      /\ transfer' = [transfer EXCEPT ![t].origin = edit[e].row.origin,
                                      ![t].destination = edit[e].row.destination]
      /\ edit' = [edit EXCEPT ![e].pc = "header"]
      /\ disturbed' = AfterEdit(t)
      /\ UNCHANGED <<stock, call, booked, applied>>

\* ReplaceTransferItems.
ReplaceTransferItems(e) ==
  LET t == edit[e].transfer
  IN  /\ edit[e].pc = "header"
      /\ transfer' = [transfer EXCEPT ![t].items = edit[e].row.items]
      /\ edit' = [edit EXCEPT ![e] = NewEdit("over")]
      /\ disturbed' = AfterEdit(t)
      /\ UNCHANGED <<stock, call, booked, applied>>

\* The request fails between two of its transactions.
FailEdit(e) ==
  /\ edit[e].pc \in {"checked", "header"}
  /\ edit' = [edit EXCEPT ![e] = NewEdit("over")]
  /\ UNCHANGED <<stock, transfer, call, booked, applied, disturbed>>

-----------------------------------------------------------------------------
(* The other writers of warehouse_stock, each a committed transaction      *)

Book(s) ==
  /\ stock' = s
  /\ booked' = Plus(booked, Minus(s, stock))
  /\ UNCHANGED <<transfer, call, edit, applied, disturbed>>

\* SetStock, and the upserts of the catalogue: an absolute value.
SetStock(w, v, q) ==
  /\ Unlocked({<<w, v>>})
  /\ Book([stock EXCEPT ![w][v] = q])

\* AdjustInventory: what is taken away has to be available.
AdjustInventory(w, v, delta) ==
  /\ Unlocked({<<w, v>>})
  /\ stock[w][v] + delta \in 0..MaxQty
  /\ Book([stock EXCEPT ![w][v] = @ + delta])

\* Transfer: both legs at once, without a document.
Transfer(from, to, v, q) ==
  /\ from # to
  /\ Unlocked({<<from, v>>, <<to, v>>})
  /\ q <= stock[from][v] /\ stock[to][v] + q <= MaxQty
  /\ Book([stock EXCEPT ![from][v] = @ - q, ![to][v] = @ + q])

-----------------------------------------------------------------------------

\* What the stock transactions of a transfer with this header should have done.
Due(h) ==
  Minus(IF h.status = "completed" THEN At(h.destination, h.items) ELSE NoUnits,
        IF h.status \in {"in_transit", "completed"} THEN At(h.origin, h.items) ELSE NoUnits)

\* What the transitions of all transfers did.
Applied ==
  [w \in Warehouses |-> [v \in Variants |->
     SumTo([t \in Transfers |-> applied[t][w][v]], NTransfers)]]

\* Transfers that are not created yet, or have come as far as they may without
\* a request in progress.
Init ==
  /\ stock \in [Warehouses -> Items]
  /\ transfer \in [Transfers -> {h \in Headers :
                     IF h.status = "none" THEN h = NoHeader
                     ELSE h.origin # h.destination /\ h.items # NoItems}]
  /\ applied = [t \in Transfers |-> Due(transfer[t])]
  /\ booked = Minus(stock, Applied)
  /\ call = [c \in Calls |-> NewCall("new")]
  /\ edit = [e \in Edits |-> NewEdit("new")]
  /\ disturbed = {}

\* What the server does for a call that has begun.
Proceed(c) ==
  \/ ReadItems(c) \/ BeginTx(c) \/ Move(c) \/ WriteStatus(c) \/ Commit(c) \/ Refuse(c)

CallStep ==
  \E c \in Calls :
    \/ \E t \in Transfers, target \in Statuses : ReadHeader(c, t, target)
    \/ Proceed(c)
    \/ FailCall(c)

EditStep ==
  \E e \in Edits :
    \/ \E t \in Transfers, row \in Headers : CreateTransfer(e, t, row)
                                             \/ CheckEditable(e, t, row)
    \/ UpdateTransferMeta(e)
    \/ ReplaceTransferItems(e)
    \/ FailEdit(e)

StockWrite ==
  \E w \in Warehouses, v \in Variants, q \in 0..MaxQty :
    \/ SetStock(w, v, q)
    \/ AdjustInventory(w, v, q) \/ AdjustInventory(w, v, -q)
    \/ \E x \in Warehouses : q > 0 /\ Transfer(w, x, v, q)

Next == CallStep \/ EditStep \/ StockWrite

Spec == Init /\ [][Next]_vars

\* The server carries on with a call; freed locks and connections are given to
\* those that wait for them.
Fairness == \A c \in Calls : WF_vars(Proceed(c))

LiveSpec == Spec /\ Fairness

-----------------------------------------------------------------------------
(* Properties                                                              *)

TypeOK ==
  /\ stock \in [Warehouses -> [Variants -> Nat]]
  /\ booked \in [Warehouses -> [Variants -> Int]]
  /\ transfer \in [Transfers -> Headers]
  /\ call \in [Calls -> [pc : {"new", "header", "read", "open", "moved", "written", "over"},
                         transfer : Transfers, target : Statuses \cup {"none"},
                         copy : Headers, view : [Warehouses -> [Variants -> Nat]]]]
  /\ edit \in [Edits -> [pc : {"new", "checked", "header", "over"},
                         transfer : Transfers, row : Headers]]
  /\ applied \in [Transfers -> [Warehouses -> [Variants -> Int]]]
  /\ disturbed \subseteq Transfers

\* The status of a transfer says where its units are, whatever path of statuses
\* led there and whatever other transfers and writers did to the same rows,
\* as long as its own requests do not overlap (warehouse.go:485-571).
StatusTellsStock ==
  \A t \in Transfers \ disturbed : CallsOn(t) = {} => applied[t] = Due(transfer[t])

\* No write of warehouse_stock is lost: each row is the sum of what the
\* transitions and the other writers did to it.
NoLostWrite == stock = Plus(booked, Applied)

\* Every transition ends, as long as the pool has a connection more than there
\* are transitions at a time.
TransitionsEnd == \A c \in Calls : InProgress(c) ~> call[c].pc = "over"

\* warehouse.go:551 "cannot cancel completed transfer".
CompletedNeverCancelled ==
  [][\A t \in Transfers :
       transfer[t].status = "completed" => transfer'[t].status # "cancelled"]_vars
=============================================================================
