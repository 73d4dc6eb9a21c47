--------------------------- MODULE TransferProofs ---------------------------
(***************************************************************************)
(* The safety of module Transfers for any warehouses and variants and any  *)
(* number of transfers, requests and connections: no write of a stock row  *)
(* is lost, and the status of a transfer tells where its units are.        *)
(***************************************************************************)
EXTENDS Transfers, SumLemmas

\* Two open transactions never hold one row.
LocksApart ==
  \A c, d \in Calls : c # d => Locked(c) \cap Locked(d) = {}

\* A row that is held is as its holder has seen it, and has what it takes out.
ViewsTrue ==
  \A c \in Calls : \A w \in Warehouses, v \in Variants :
    <<w, v>> \in Locked(c) =>
      /\ call[c].view[w][v] = stock[w][v]
      /\ Out(c)[w][v] <= stock[w][v]

StockInv == LocksApart /\ ViewsTrue /\ NoLostWrite

\* A request is for a transfer that has been created, and for a status.
DocumentsThere ==
  \A c \in Calls : InProgress(c) =>
    /\ call[c].target # "none"
    /\ transfer[call[c].transfer].status # "none"

\* A transfer that is not disturbed has one request at a time ...
Alone == \A t \in Transfers \ disturbed : \A c, d \in CallsOn(t) : c = d

\* ... which has the document as it is, but for the status it has written, and
\* the units are where the document it has read says.
DocumentKept(c) ==
  LET h == transfer[call[c].transfer]
  IN  /\ call[c].pc = "header" => call[c].copy = [h EXCEPT !.items = NoItems]
      /\ call[c].pc \in {"read", "open", "moved"} => call[c].copy = h
      /\ call[c].pc = "written" => h = [call[c].copy EXCEPT !.status = call[c].target]
      /\ call[c].pc \in {"moved", "written"} => Allowed(call[c].copy.status, call[c].target)
      /\ applied[call[c].transfer] = Due(IF call[c].pc = "written" THEN call[c].copy ELSE h)

DocumentsKept ==
  \A c \in Calls : InProgress(c) /\ call[c].transfer \notin disturbed => DocumentKept(c)

DocumentInv == DocumentsThere /\ Alone /\ DocumentsKept /\ StatusTellsStock

\* The inductive invariant.
IInv == TypeOK /\ StockInv /\ DocumentInv

-----------------------------------------------------------------------------
(* What a transition moves                                                 *)

Quantities == [Warehouses -> [Variants -> Nat]]

\* The units of a document, at a warehouse, are quantities.
LEMMA AtType ==
  ASSUME NEW x \in Warehouses, NEW items \in Items
  PROVE  /\ At(x, items) \in Quantities
         /\ NoUnits \in Quantities
         /\ \A w \in Warehouses, v \in Variants :
              /\ NoUnits[w][v] = 0
              /\ At(x, items)[w][v] = IF w = x THEN items[v] ELSE 0
<1>1. items \in [Variants -> Nat]
  BY TransfersAssumption DEF Items
<1>2. NoUnits \in Quantities /\ \A w \in Warehouses, v \in Variants : NoUnits[w][v] = 0
  BY DEF NoUnits, NoItems, Quantities
<1> QED
  BY <1>1, <1>2 DEF At, Quantities

\* So are both legs of a transition.
LEMMA LegTypes ==
  ASSUME NEW h \in Headers, NEW target
  PROVE  Outgoing(h, target) \in Quantities /\ Incoming(h, target) \in Quantities
<1>1. h.origin \in Warehouses /\ h.destination \in Warehouses /\ h.items \in Items
  BY DEF Headers
<1>2. /\ At(h.origin, h.items) \in Quantities
      /\ At(h.destination, h.items) \in Quantities
      /\ NoUnits \in Quantities
  BY <1>1, AtType
<1> QED
  BY <1>2 DEF Outgoing, Incoming

\* A transition that is allowed moves what the two statuses differ by.
LEMMA DueAfter ==
  ASSUME NEW h \in Headers, NEW target \in Statuses, Allowed(h.status, target)
  PROVE  Plus(Minus(Due(h), Outgoing(h, target)), Incoming(h, target))
           = Due([h EXCEPT !.status = target])
<1> DEFINE g == [h EXCEPT !.status = target]
<1>1. h.origin \in Warehouses /\ h.destination \in Warehouses /\ h.items \in Items
  BY DEF Headers
<1>2. g.status = target /\ g.origin = h.origin /\ g.destination = h.destination
      /\ g.items = h.items
  BY DEF Headers
<1>3. \A w \in Warehouses, v \in Variants :
        /\ At(h.origin, h.items)[w][v] \in Int
        /\ At(h.destination, h.items)[w][v] \in Int
        /\ NoUnits[w][v] = 0
  BY <1>1, AtType DEF Quantities
<1> HIDE DEF g
<1>4. \A w \in Warehouses, v \in Variants :
        Plus(Minus(Due(h), Outgoing(h, target)), Incoming(h, target))[w][v] = Due(g)[w][v]
  <2> SUFFICES ASSUME NEW w \in Warehouses, NEW v \in Variants
               PROVE  (Due(h)[w][v] - Outgoing(h, target)[w][v]) + Incoming(h, target)[w][v]
                        = Due(g)[w][v]
    BY DEF Plus, Minus
  <2> DEFINE o == At(h.origin, h.items)
             d == At(h.destination, h.items)
  <2>1. /\ Due(h)[w][v] = (IF h.status = "completed" THEN d[w][v] ELSE 0)
                          - (IF h.status \in {"in_transit", "completed"} THEN o[w][v] ELSE 0)
        /\ Due(g)[w][v] = (IF target = "completed" THEN d[w][v] ELSE 0)
                          - (IF target \in {"in_transit", "completed"} THEN o[w][v] ELSE 0)
    BY <1>2, <1>3 DEF Due, Minus
  <2>2. Outgoing(h, target)[w][v] =
          IF h.status \in {"draft", "pending"} /\ target \in {"in_transit", "completed"}
          THEN o[w][v] ELSE 0
    BY <1>3 DEF Outgoing
  <2>3. Incoming(h, target)[w][v] =
          IF target = "completed" THEN d[w][v]
          ELSE IF target = "cancelled" /\ h.status = "in_transit" THEN o[w][v] ELSE 0
    BY <1>3 DEF Incoming
  <2>4. o[w][v] \in Int /\ d[w][v] \in Int
    BY <1>3
  <2> HIDE DEF o, d
  <2>5. \/ target = "pending"    /\ h.status = "draft"
        \/ target = "in_transit" /\ h.status \in {"draft", "pending"}
        \/ target = "completed"  /\ h.status \in {"draft", "pending", "in_transit"}
        \/ target = "cancelled"  /\ h.status # "completed"
    BY DEF Allowed
  <2> QED
    BY <2>1, <2>2, <2>3, <2>4, <2>5
<1> QED
  BY <1>4 DEF g, Plus, Minus, Due

\* What a document owes depends on neither its ends nor its items before the
\* units have left.
LEMMA NothingDue ==
  ASSUME NEW h \in Headers,
         h.status \in {"none", "draft", "pending", "cancelled"}
  PROVE  Due(h) = Minus(NoUnits, NoUnits)
  BY DEF Due

-----------------------------------------------------------------------------
(* Type correctness                                                        *)

\* A header keeps its type when a field gets a value of its range.
LEMMA HeaderTypes ==
  /\ NoHeader \in Headers /\ NoUnits \in Quantities /\ NoItems \in Items
  /\ \A h \in Headers : h.status \in Statuses \cup {"none"} /\ h.items \in Items
                        /\ h.origin \in Warehouses /\ h.destination \in Warehouses
  /\ \A h \in Headers, status \in Statuses : [h EXCEPT !.status = status] \in Headers
  /\ \A h \in Headers, items \in Items : [h EXCEPT !.items = items] \in Headers
  /\ \A h \in Headers, o \in Warehouses, d \in Warehouses :
       [h EXCEPT !.origin = o, !.destination = d] \in Headers
<1>1. NoItems \in Items /\ NoUnits \in Quantities
  BY TransfersAssumption DEF NoItems, Items, NoUnits, Quantities
<1>2. PICK w \in Warehouses : NoHeader = [status |-> "none", origin |-> w,
                                          destination |-> w, items |-> NoItems]
  <2>1. \E x \in Warehouses : TRUE
    BY TransfersAssumption
  <2> QED BY <2>1 DEF NoHeader
<1> QED
  BY <1>1, <1>2 DEF Headers

\* The sum of what the transitions did to a row is an integer.
LEMMA AppliedType ==
  ASSUME TypeOK
  PROVE  Applied \in [Warehouses -> [Variants -> Int]]
<1>1. ASSUME NEW w \in Warehouses, NEW v \in Variants
      PROVE  SumTo([t \in Transfers |-> applied[t][w][v]], NTransfers) \in Int
  <2> DEFINE g == [t \in Transfers |-> applied[t][w][v]]
  <2>1. NTransfers \in Nat /\ \A i \in 1..NTransfers : g[i] \in Int
    BY TransfersAssumption DEF TypeOK, Transfers
  <2> HIDE DEF g
  <2>2. SumTo(g, NTransfers) \in Int
    BY <2>1, SumToType
  <2> QED BY <2>2 DEF g
<1> QED
  BY <1>1 DEF Applied

LEMMA InitTypes == Init => TypeOK
<1> SUFFICES ASSUME Init PROVE TypeOK
  OBVIOUS
<1>1. stock \in [Warehouses -> [Variants -> Nat]]
  BY TransfersAssumption DEF Init, Items
<1>2. transfer \in [Transfers -> Headers]
  BY DEF Init
<1>3. applied \in [Transfers -> [Warehouses -> [Variants -> Int]]]
  <2>1. ASSUME NEW t \in Transfers
        PROVE  Due(transfer[t]) \in [Warehouses -> [Variants -> Int]]
    <3>1. transfer[t].origin \in Warehouses /\ transfer[t].destination \in Warehouses
          /\ transfer[t].items \in Items
      BY <1>2, HeaderTypes
    <3>2. /\ At(transfer[t].origin, transfer[t].items) \in Quantities
          /\ At(transfer[t].destination, transfer[t].items) \in Quantities
          /\ NoUnits \in Quantities
      BY <3>1, AtType
    <3> QED
      BY <3>2 DEF Due, Minus, Quantities
  <2> QED
    BY <2>1 DEF Init
<1>4. booked \in [Warehouses -> [Variants -> Int]]
  <2>1. ASSUME NEW w \in Warehouses, NEW v \in Variants
        PROVE  SumTo([t \in Transfers |-> applied[t][w][v]], NTransfers) \in Int
    <3> DEFINE g == [t \in Transfers |-> applied[t][w][v]]
    <3>1. NTransfers \in Nat /\ \A i \in 1..NTransfers : g[i] \in Int
      BY <1>3, TransfersAssumption DEF Transfers
    <3> HIDE DEF g
    <3>2. SumTo(g, NTransfers) \in Int
      BY <3>1, SumToType
    <3> QED BY <3>2 DEF g
  <2>2. \A w \in Warehouses, v \in Variants : Applied[w][v] \in Int
    BY <2>1 DEF Applied
  <2> QED
    BY <1>1, <2>2 DEF Init, Minus
<1>5. /\ call \in [Calls -> [pc : {"new"}, transfer : Transfers, target : {"none"},
                             copy : Headers, view : Quantities]]
      /\ edit \in [Edits -> [pc : {"new"}, transfer : Transfers, row : Headers]]
  <2>1. 1 \in Transfers
    BY TransfersAssumption DEF Transfers
  <2> QED
    BY <2>1, HeaderTypes DEF Init, NewCall, NewEdit
<1>6. disturbed \subseteq Transfers
  BY DEF Init
<1> QED
  BY <1>1, <1>2, <1>3, <1>4, <1>5, <1>6 DEF TypeOK, Quantities

\* A step of a request for a transition; the units it has seen stay counted.
LEMMA CallStepTypes ==
  ASSUME TypeOK, ViewsTrue, CallStep
  PROVE  TypeOK'
<1>1. PICK c \in Calls : \/ \E t \in Transfers, target \in Statuses : ReadHeader(c, t, target)
                         \/ Proceed(c) \/ FailCall(c)
  BY DEF CallStep
<1> DEFINE Requests == [pc : {"new", "header", "read", "open", "moved", "written", "over"},
                        transfer : Transfers, target : Statuses \cup {"none"},
                        copy : Headers, view : [Warehouses -> [Variants -> Nat]]]
<1>2. /\ call \in [Calls -> Requests] /\ transfer \in [Transfers -> Headers]
      /\ stock \in [Warehouses -> [Variants -> Nat]]
      /\ call[c].transfer \in Transfers /\ call[c].copy \in Headers
  BY DEF TypeOK
<1>3. NewCall("over") \in Requests
  <2>1. 1 \in Transfers
    BY TransfersAssumption DEF Transfers
  <2> QED
    BY <2>1, HeaderTypes DEF NewCall, Quantities
<1>4. ASSUME NEW t \in Transfers, NEW target \in Statuses, ReadHeader(c, t, target)
      PROVE  TypeOK'
  <2>1. [transfer[t] EXCEPT !.items = NoItems] \in Headers /\ NoUnits \in Quantities
    BY <1>2, HeaderTypes
  <2>2. call' \in [Calls -> Requests]
    BY <1>2, <1>4, <2>1 DEF ReadHeader, Quantities
  <2> QED
    BY <1>4, <2>2 DEF ReadHeader, TypeOK
<1>5. CASE ReadItems(c)
  <2>1. transfer[call[c].transfer].items \in Items
    BY <1>2, HeaderTypes
  <2>2. [call[c].copy EXCEPT !.items = transfer[call[c].transfer].items] \in Headers
    BY <1>2, <2>1, HeaderTypes
  <2>3. call' = [call EXCEPT ![c] = [call[c] EXCEPT !.pc = "read",
                   !.copy = [@ EXCEPT !.items = transfer[call[c].transfer].items]]]
    BY <1>2, <1>5 DEF ReadItems
  <2>4. call' \in [Calls -> Requests]
    BY ZenonT(40), <1>2, <2>2, <2>3
  <2> QED
    BY <1>5, <2>4 DEF ReadItems, TypeOK
<1>6. CASE BeginTx(c)
  <2>1. call' \in [Calls -> Requests]
    BY ZenonT(40), <1>2, <1>6 DEF BeginTx
  <2> QED
    BY <1>6, <2>1 DEF BeginTx, TypeOK
<1>7. CASE Move(c)
  <2>1. Seen(c) \in [Warehouses -> [Variants -> Nat]]
    BY <1>2 DEF Seen
  <2>2. call' \in [Calls -> Requests]
    BY ZenonT(40), <1>2, <1>7, <2>1 DEF Move
  <2> QED
    BY <1>7, <2>2 DEF Move, TypeOK
<1>8. CASE WriteStatus(c)
  <2>1. call[c].target \in Statuses \cup {"none"}
    BY <1>2
  <2>2. transfer' \in [Transfers -> Headers]
    <3>1. \A h \in Headers, status \in Statuses \cup {"none"} :
            [h EXCEPT !.status = status] \in Headers
      BY DEF Headers
    <3>2. [transfer[call[c].transfer] EXCEPT !.status = call[c].target] \in Headers
      BY <1>2, <2>1, <3>1
    <3>3. transfer' = [transfer EXCEPT ![call[c].transfer] =
                         [transfer[call[c].transfer] EXCEPT !.status = call[c].target]]
      BY <1>2, <1>8 DEF WriteStatus
    <3> QED BY <1>2, <3>2, <3>3
  <2>3. call' \in [Calls -> Requests]
    BY SMTT(20), <1>2, <1>8 DEF WriteStatus
  <2> QED
    BY <1>8, <2>2, <2>3 DEF WriteStatus, TypeOK
<1>9. CASE Commit(c)
  <2>1. Out(c) \in Quantities /\ In(c) \in Quantities
    BY <1>2, LegTypes DEF Out, In
  <2>2. stock' \in [Warehouses -> [Variants -> Nat]]
    <3>1. ASSUME NEW w \in Warehouses, NEW v \in Variants, <<w, v>> \in Locked(c)
          PROVE  Plus(Minus(call[c].view, Out(c)), In(c))[w][v] \in Nat
      <4>1. /\ call[c].view[w][v] = stock[w][v] /\ Out(c)[w][v] <= stock[w][v]
            /\ stock[w][v] \in Nat /\ Out(c)[w][v] \in Nat /\ In(c)[w][v] \in Nat
        BY <1>2, <2>1, <3>1 DEF ViewsTrue, Quantities
      <4>2. Plus(Minus(call[c].view, Out(c)), In(c))[w][v]
              = (call[c].view[w][v] - Out(c)[w][v]) + In(c)[w][v]
        BY DEF Plus, Minus
      <4> QED
        BY <4>1, <4>2
    <3> QED
      BY <1>2, <1>9, <3>1 DEF Commit
  <2>3. applied' \in [Transfers -> [Warehouses -> [Variants -> Int]]]
    <3>1. Plus(Minus(applied[call[c].transfer], Out(c)), In(c))
            \in [Warehouses -> [Variants -> Int]]
      BY <1>2, <2>1 DEF TypeOK, Plus, Minus, Quantities
    <3> QED
      BY <1>9, <3>1 DEF Commit, TypeOK
  <2>4. call' \in [Calls -> Requests]
    BY <1>2, <1>3, <1>9 DEF Commit
  <2> QED
    BY <1>9, <2>2, <2>3, <2>4 DEF Commit, TypeOK
<1>10. CASE Refuse(c)
  <2>1. call' \in [Calls -> Requests]
    BY <1>2, <1>3, <1>10 DEF Refuse
  <2> QED
    BY <1>10, <2>1 DEF Refuse, TypeOK
<1>11. CASE FailCall(c)
  <2>1. call' \in [Calls -> Requests]
    BY <1>2, <1>3, <1>11 DEF FailCall
  <2> QED
    BY <1>2, <1>11, <2>1 DEF FailCall, TypeOK
<1> QED
  BY <1>1, <1>4, <1>5, <1>6, <1>7, <1>8, <1>9, <1>10, <1>11 DEF Proceed

LEMMA EditStepTypes ==
  ASSUME TypeOK, EditStep
  PROVE  TypeOK'
<1>1. PICK e \in Edits :
        \/ \E t \in Transfers, row \in Headers : CreateTransfer(e, t, row)
                                                 \/ CheckEditable(e, t, row)
        \/ UpdateTransferMeta(e) \/ ReplaceTransferItems(e) \/ FailEdit(e)
  BY DEF EditStep
<1> DEFINE Requests == [pc : {"new", "checked", "header", "over"},
                        transfer : Transfers, row : Headers]
<1>2. /\ edit \in [Edits -> Requests] /\ transfer \in [Transfers -> Headers]
      /\ edit[e].transfer \in Transfers /\ edit[e].row \in Headers
      /\ transfer[edit[e].transfer] \in Headers
  BY DEF TypeOK
<1>3. NewEdit("over") \in Requests
  <2>1. 1 \in Transfers
    BY TransfersAssumption DEF Transfers
  <2> QED
    BY <2>1, HeaderTypes DEF NewEdit
<1>4. ASSUME NEW t \in Transfers, NEW row \in Headers, CreateTransfer(e, t, row)
      PROVE  TypeOK'
  <2>1. [row EXCEPT !.items = NoItems] \in Headers
    BY HeaderTypes
  <2> QED
    BY <1>2, <1>4, <2>1 DEF CreateTransfer, TypeOK
<1>5. ASSUME NEW t \in Transfers, NEW row \in Headers, CheckEditable(e, t, row)
      PROVE  TypeOK'
  BY <1>2, <1>5 DEF CheckEditable, TypeOK
<1>6. CASE UpdateTransferMeta(e)
  <2> DEFINE t == edit[e].transfer
  <2>1. edit[e].row.origin \in Warehouses /\ edit[e].row.destination \in Warehouses
    BY <1>2, HeaderTypes
  <2>2. [transfer[t] EXCEPT !.origin = edit[e].row.origin,
                            !.destination = edit[e].row.destination] \in Headers
    BY <1>2, <2>1, HeaderTypes
  <2>3. transfer' = [transfer EXCEPT ![t] =
          [transfer[t] EXCEPT !.origin = edit[e].row.origin,
                              !.destination = edit[e].row.destination]]
    BY <1>2, <1>6 DEF UpdateTransferMeta
  <2>4. transfer' \in [Transfers -> Headers]
    BY <1>2, <2>2, <2>3
  <2>5. edit' \in [Edits -> Requests]
    BY <1>2, <1>6 DEF UpdateTransferMeta
  <2>6. disturbed' \subseteq Transfers
    BY <1>2, <1>6 DEF UpdateTransferMeta, AfterEdit, TypeOK
  <2> QED
    BY <1>6, <2>4, <2>5, <2>6 DEF UpdateTransferMeta, TypeOK
<1>7. CASE ReplaceTransferItems(e)
  <2> DEFINE t == edit[e].transfer
  <2>1. [transfer[t] EXCEPT !.items = edit[e].row.items] \in Headers
    BY <1>2, HeaderTypes
  <2>2. transfer' = [transfer EXCEPT ![t] = [transfer[t] EXCEPT !.items = edit[e].row.items]]
    BY <1>2, <1>7 DEF ReplaceTransferItems
  <2>3. transfer' \in [Transfers -> Headers]
    BY <1>2, <2>1, <2>2
  <2> QED
    BY <1>2, <1>3, <1>7, <2>3 DEF ReplaceTransferItems, AfterEdit, TypeOK
<1>8. CASE FailEdit(e)
  BY <1>2, <1>3, <1>8 DEF FailEdit, TypeOK
<1> QED
  BY <1>1, <1>4, <1>5, <1>6, <1>7, <1>8

LEMMA StockWriteTypes ==
  ASSUME TypeOK, StockWrite
  PROVE  TypeOK'
<1>1. /\ stock \in [Warehouses -> [Variants -> Nat]]
      /\ booked \in [Warehouses -> [Variants -> Int]]
  BY DEF TypeOK
<1>2. ASSUME NEW s \in [Warehouses -> [Variants -> Nat]], Book(s)
      PROVE  TypeOK'
  <2>1. Plus(booked, Minus(s, stock)) \in [Warehouses -> [Variants -> Int]]
    BY <1>1 DEF Plus, Minus
  <2> QED
    BY <1>2, <2>1 DEF Book, TypeOK
<1>3. PICK w \in Warehouses, v \in Variants, q \in 0..MaxQty :
        \/ SetStock(w, v, q)
        \/ AdjustInventory(w, v, q) \/ AdjustInventory(w, v, -q)
        \/ \E x \in Warehouses : q > 0 /\ Transfer(w, x, v, q)
  BY DEF StockWrite
<1>4. q \in Nat /\ MaxQty \in Nat
  BY TransfersAssumption
<1>5. CASE SetStock(w, v, q)
  <2>1. [stock EXCEPT ![w][v] = q] \in [Warehouses -> [Variants -> Nat]]
    BY <1>1, <1>4
  <2> QED
    BY <1>2, <1>5, <2>1 DEF SetStock
<1>6. ASSUME NEW delta \in {q, -q}, AdjustInventory(w, v, delta)
      PROVE  TypeOK'
  <2>1. stock[w][v] + delta \in Nat
    BY <1>4, <1>6 DEF AdjustInventory
  <2>2. [stock EXCEPT ![w][v] = @ + delta] \in [Warehouses -> [Variants -> Nat]]
    BY <1>1, <2>1
  <2> QED
    BY <1>2, <1>6, <2>2 DEF AdjustInventory
<1>7. ASSUME NEW x \in Warehouses, Transfer(w, x, v, q)
      PROVE  TypeOK'
  <2>1. w # x /\ stock[w][v] - q \in Nat /\ stock[x][v] + q \in Nat
    BY <1>1, <1>4, <1>7 DEF Transfer
  <2>2. [stock EXCEPT ![w][v] = @ - q, ![x][v] = @ + q] \in [Warehouses -> [Variants -> Nat]]
    BY <1>1, <2>1
  <2> QED
    BY <1>2, <1>7, <2>2 DEF Transfer
<1> QED
  BY <1>3, <1>5, <1>6, <1>7

-----------------------------------------------------------------------------
(* The rows of warehouse_stock                                             *)

\* What transitions move is a natural number at every row, and a row that a
\* transition does not touch stays as it is.
LEMMA MovedUnits ==
  ASSUME TypeOK, NEW c \in Calls
  PROVE  /\ Out(c) \in Quantities /\ In(c) \in Quantities
         /\ \A w \in Warehouses, v \in Variants :
              <<w, v>> \in Touches(c) <=> Out(c)[w][v] + In(c)[w][v] > 0
         /\ \A w \in Warehouses, v \in Variants :
              <<w, v>> \notin Touches(c) => Out(c)[w][v] = 0 /\ In(c)[w][v] = 0
<1>1. call[c].copy \in Headers
  BY DEF TypeOK
<1>2. Out(c) \in Quantities /\ In(c) \in Quantities
  BY <1>1, LegTypes DEF Out, In
<1>3. \A w \in Warehouses, v \in Variants :
        <<w, v>> \in Touches(c) <=> Out(c)[w][v] + In(c)[w][v] > 0
  BY DEF Touches
<1> QED
  BY <1>2, <1>3 DEF Quantities

\* Requests that let go of their rows, or keep them with what they have seen,
\* while the stock is not written.
LEMMA StockKept ==
  ASSUME StockInv, UNCHANGED <<stock, booked, applied>>,
         \A c \in Calls : \/ Locked(c)' = {}
                          \/ /\ Locked(c)' = Locked(c) /\ Out(c)' = Out(c)
                             /\ call'[c].view = call[c].view
  PROVE  StockInv'
<1>1. LocksApart'
  BY DEF StockInv, LocksApart
<1>2. ViewsTrue'
  BY DEF StockInv, ViewsTrue
<1>3. NoLostWrite'
  BY DEF StockInv, NoLostWrite, Applied
<1> QED
  BY <1>1, <1>2, <1>3 DEF StockInv

\* A step of a request that is not locking or committing.
LEMMA FlowKeepsStock ==
  ASSUME TypeOK, StockInv, NEW c \in Calls,
         \/ \E t \in Transfers, target \in Statuses : ReadHeader(c, t, target)
         \/ ReadItems(c) \/ BeginTx(c) \/ WriteStatus(c) \/ Refuse(c) \/ FailCall(c)
  PROVE  StockInv'
<1>1. UNCHANGED <<stock, booked, applied>>
  BY DEF ReadHeader, ReadItems, BeginTx, WriteStatus, Refuse, FailCall
<1>2. DOMAIN call = Calls /\ \A d \in Calls : DOMAIN call[d] =
        {"pc", "transfer", "target", "copy", "view"}
  BY DEF TypeOK
<1>3. \A d \in Calls \ {c} : call'[d] = call[d]
  BY <1>2 DEF ReadHeader, ReadItems, BeginTx, WriteStatus, Refuse, FailCall
<1>4. \A d \in Calls \ {c} : /\ Locked(d)' = Locked(d) /\ Out(d)' = Out(d)
                             /\ call'[d].view = call[d].view
  BY <1>3 DEF Locked, Touches, Out, In
<1>5. \/ Locked(c)' = {}
      \/ /\ Locked(c)' = Locked(c) /\ Out(c)' = Out(c) /\ call'[c].view = call[c].view
  <2>1. CASE WriteStatus(c)
    <3>1. call'[c] = [call[c] EXCEPT !.pc = "written"] /\ call[c].pc = "moved"
      BY <1>2, <2>1 DEF WriteStatus
    <3>2. /\ call'[c].pc = "written" /\ call'[c].copy = call[c].copy
          /\ call'[c].target = call[c].target /\ call'[c].view = call[c].view
      BY <1>2, <3>1
    <3> QED
      BY <3>1, <3>2 DEF Locked, Touches, Out, In
  <2>2. CASE ~WriteStatus(c)
    <3>1. call'[c].pc \notin {"moved", "written"}
      BY <1>2, <2>2 DEF ReadHeader, ReadItems, BeginTx, Refuse, FailCall, NewCall
    <3> QED
      BY <3>1 DEF Locked
  <2> QED
    BY <2>1, <2>2
<1> QED
  BY <1>1, <1>4, <1>5, StockKept

LEMMA MoveKeepsStock ==
  ASSUME TypeOK, StockInv, NEW c \in Calls, Move(c)
  PROVE  StockInv'
<1>1. /\ DOMAIN call = Calls
      /\ DOMAIN call[c] = {"pc", "transfer", "target", "copy", "view"}
  BY DEF TypeOK
<1>2. call' = [call EXCEPT ![c].pc = "moved", ![c].view = Seen(c)]
  BY DEF Move
<1>3. \A d \in Calls \ {c} : call'[d] = call[d]
  BY <1>1, <1>2
<1>4. /\ call'[c].pc = "moved" /\ call'[c].view = Seen(c)
      /\ call'[c].copy = call[c].copy /\ call'[c].target = call[c].target
  BY <1>1, <1>2
<1>5. \A d \in Calls \ {c} : /\ Locked(d)' = Locked(d) /\ Out(d)' = Out(d)
                             /\ call'[d].view = call[d].view
  BY <1>3 DEF Locked, Touches, Out, In
<1>6. Locked(c)' = Touches(c) /\ Out(c)' = Out(c)
  BY <1>4 DEF Locked, Touches, Out, In
<1>7. LocksApart'
  BY <1>5, <1>6 DEF Move, Unlocked, StockInv, LocksApart
<1>8. ViewsTrue'
  <2>1. \A w \in Warehouses, v \in Variants :
          <<w, v>> \in Touches(c) => Seen(c)[w][v] = stock[w][v]
    BY DEF Seen
  <2>2. \A w \in Warehouses, v \in Variants : Out(c)[w][v] <= stock[w][v]
    BY DEF Move, EnoughAtOrigin
  <2>3. stock' = stock
    BY DEF Move
  <2>4. ASSUME NEW d \in Calls, NEW w \in Warehouses, NEW v \in Variants,
               <<w, v>> \in Locked(d)'
        PROVE  call'[d].view[w][v] = stock'[w][v] /\ Out(d)'[w][v] <= stock'[w][v]
    <3>1. CASE d = c
      BY <1>4, <1>6, <2>1, <2>2, <2>3, <2>4, <3>1
    <3>2. CASE d # c
      BY <1>5, <2>3, <2>4, <3>2 DEF StockInv, ViewsTrue
    <3> QED
      BY <3>1, <3>2
  <2> QED
    BY <2>4 DEF ViewsTrue
<1>9. NoLostWrite'
  BY DEF Move, StockInv, NoLostWrite, Applied
<1> QED
  BY <1>7, <1>8, <1>9 DEF StockInv

\* A transition that commits changes the sums by what it has moved.
LEMMA AppliedAfter ==
  ASSUME TypeOK, NEW t \in Transfers, NEW f \in Quantities, NEW g \in Quantities,
         applied' = [applied EXCEPT ![t] = Plus(Minus(@, f), g)]
  PROVE  \A w \in Warehouses, v \in Variants :
           Applied'[w][v] = (Applied[w][v] - f[w][v]) + g[w][v]
<1> SUFFICES ASSUME NEW w \in Warehouses, NEW v \in Variants
             PROVE  Applied'[w][v] = (Applied[w][v] - f[w][v]) + g[w][v]
  OBVIOUS
<1> DEFINE a == [u \in Transfers |-> applied[u][w][v]]
           b == [u \in Transfers |-> applied'[u][w][v]]
<1>1. /\ NTransfers \in Nat /\ Transfers = 1..NTransfers
      /\ applied \in [Transfers -> [Warehouses -> [Variants -> Int]]]
  BY TransfersAssumption DEF TypeOK, Transfers
<1>7. f[w][v] \in Int /\ g[w][v] \in Int
  BY DEF Quantities
<1>2. applied'[t][w][v] = (applied[t][w][v] - f[w][v]) + g[w][v]
  <2>1. applied'[t] = Plus(Minus(applied[t], f), g)
    BY <1>1
  <2> QED BY <2>1 DEF Plus, Minus
<1>3. /\ \A i \in 1..NTransfers : a[i] \in Int /\ b[i] \in Int
      /\ \A i \in 1..NTransfers : i # t => b[i] = a[i]
      /\ b[t] = (a[t] - f[w][v]) + g[w][v]
  <2>1. \A i \in Transfers : i # t => applied'[i] = applied[i]
    BY <1>1
  <2>2. \A i \in Transfers : applied[i][w][v] \in Int
    BY <1>1
  <2>3. (applied[t][w][v] - f[w][v]) + g[w][v] \in Int
    BY <1>7, <2>2
  <2> QED BY <1>1, <1>2, <2>1, <2>2, <2>3
<1>4. Applied[w][v] = SumTo(a, NTransfers) /\ Applied'[w][v] = SumTo(b, NTransfers)
  BY DEF Applied
<1> HIDE DEF a, b
<1>5. SumTo(b, NTransfers) = SumTo(a, NTransfers) + b[t] - a[t]
  BY <1>1, <1>3, SumToUpdate
<1>6. SumTo(a, NTransfers) \in Int /\ a[t] \in Int /\ b[t] \in Int
  BY <1>1, <1>3, SumToType
<1>8. SumTo(b, NTransfers) = (SumTo(a, NTransfers) - f[w][v]) + g[w][v]
  BY <1>3, <1>5, <1>6, <1>7
<1> QED
  BY <1>4, <1>8

LEMMA CommitKeepsStock ==
  ASSUME TypeOK, StockInv, NEW c \in Calls, Commit(c)
  PROVE  StockInv'
<1> DEFINE t == call[c].transfer
<1>1. /\ DOMAIN call = Calls /\ t \in Transfers
      /\ stock \in [Warehouses -> [Variants -> Nat]]
      /\ booked \in [Warehouses -> [Variants -> Int]]
      /\ Applied \in [Warehouses -> [Variants -> Int]]
  BY AppliedType DEF TypeOK
<1>2. /\ call'[c] = NewCall("over")
      /\ \A d \in Calls \ {c} : call'[d] = call[d]
  BY <1>1 DEF Commit
<1>3. \A d \in Calls \ {c} : /\ Locked(d)' = Locked(d) /\ Out(d)' = Out(d)
                             /\ call'[d].view = call[d].view
  BY <1>2 DEF Locked, Touches, Out, In
<1>4. Locked(c)' = {}
  BY <1>2 DEF Locked, NewCall
<1>5. /\ Out(c) \in Quantities /\ In(c) \in Quantities
      /\ \A w \in Warehouses, v \in Variants :
           <<w, v>> \notin Touches(c) => Out(c)[w][v] = 0 /\ In(c)[w][v] = 0
  BY MovedUnits
<1>6. Locked(c) = Touches(c)
  BY DEF Commit, Locked
<1>7. \A w \in Warehouses, v \in Variants :
        /\ stock'[w][v] = (stock[w][v] - Out(c)[w][v]) + In(c)[w][v]
        /\ <<w, v>> \notin Locked(c) => stock'[w][v] = stock[w][v]
  <2> SUFFICES ASSUME NEW w \in Warehouses, NEW v \in Variants
               PROVE  /\ stock'[w][v] = (stock[w][v] - Out(c)[w][v]) + In(c)[w][v]
                      /\ <<w, v>> \notin Locked(c) => stock'[w][v] = stock[w][v]
    OBVIOUS
  <2>1. stock'[w][v] = IF <<w, v>> \in Locked(c)
                       THEN Plus(Minus(call[c].view, Out(c)), In(c))[w][v] ELSE stock[w][v]
    BY DEF Commit
  <2>2. Plus(Minus(call[c].view, Out(c)), In(c))[w][v]
          = (call[c].view[w][v] - Out(c)[w][v]) + In(c)[w][v]
    BY DEF Plus, Minus
  <2>3. <<w, v>> \in Locked(c) => call[c].view[w][v] = stock[w][v]
    BY DEF StockInv, ViewsTrue
  <2>4. stock[w][v] \in Nat
    BY <1>1
  <2>5. CASE <<w, v>> \in Locked(c)
    BY <2>1, <2>2, <2>3, <2>5
  <2>6. CASE <<w, v>> \notin Locked(c)
    BY <1>5, <1>6, <2>1, <2>4, <2>6
  <2> QED
    BY <2>5, <2>6
<1>8. LocksApart'
  BY <1>3, <1>4 DEF StockInv, LocksApart
<1>9. ViewsTrue'
  <2>1. ASSUME NEW d \in Calls, NEW w \in Warehouses, NEW v \in Variants,
               <<w, v>> \in Locked(d)'
        PROVE  call'[d].view[w][v] = stock'[w][v] /\ Out(d)'[w][v] <= stock'[w][v]
    <3>1. d # c
      BY <1>4, <2>1
    <3>2. <<w, v>> \in Locked(d) /\ <<w, v>> \notin Locked(c)
      BY <1>3, <2>1, <3>1 DEF StockInv, LocksApart
    <3>3. stock'[w][v] = stock[w][v]
      BY <1>7, <3>2
    <3>4. call[d].view[w][v] = stock[w][v] /\ Out(d)[w][v] <= stock[w][v]
      BY <3>2 DEF StockInv, ViewsTrue
    <3> QED
      BY <1>3, <3>1, <3>3, <3>4
  <2> QED
    BY <2>1 DEF ViewsTrue
<1>10. NoLostWrite'
  <2>1. applied' = [applied EXCEPT ![t] = Plus(Minus(@, Out(c)), In(c))]
    BY DEF Commit
  <2>2. \A w \in Warehouses, v \in Variants :
          Applied'[w][v] = (Applied[w][v] - Out(c)[w][v]) + In(c)[w][v]
    <3> HIDE DEF t
    <3> QED BY <1>1, <1>5, <2>1, AppliedAfter
  <2>3. ASSUME NEW w \in Warehouses, NEW v \in Variants
        PROVE  stock'[w][v] = booked[w][v] + Applied'[w][v]
    <3>1. stock[w][v] = booked[w][v] + Applied[w][v]
      BY DEF StockInv, NoLostWrite, Plus
    <3>2. /\ booked[w][v] \in Int /\ Applied[w][v] \in Int
          /\ Out(c)[w][v] \in Int /\ In(c)[w][v] \in Int
      BY <1>1, <1>5 DEF Quantities
    <3>3. stock'[w][v] = (stock[w][v] - Out(c)[w][v]) + In(c)[w][v]
      BY <1>7
    <3>4. Applied'[w][v] = (Applied[w][v] - Out(c)[w][v]) + In(c)[w][v]
      BY <2>2
    <3> QED
      BY <3>1, <3>2, <3>3, <3>4
  <2>4. booked' = booked
    BY DEF Commit
  <2>5. stock' = [w \in Warehouses |-> [v \in Variants |-> stock'[w][v]]]
    BY DEF Commit
  <2>6. stock' = [w \in Warehouses |-> [v \in Variants |-> booked[w][v] + Applied'[w][v]]]
    BY <2>3, <2>5
  <2> QED
    BY <2>4, <2>6 DEF NoLostWrite, Plus
<1> QED
  BY <1>8, <1>9, <1>10 DEF StockInv

\* Another writer books on rows that nobody holds.
LEMMA BookKeepsStock ==
  ASSUME TypeOK, StockInv, NEW s \in [Warehouses -> [Variants -> Nat]], Book(s),
         \A w \in Warehouses, v \in Variants :
           s[w][v] # stock[w][v] => \A d \in Calls : <<w, v>> \notin Locked(d)
  PROVE  StockInv'
<1>1. /\ stock' = s /\ call' = call /\ applied' = applied
      /\ booked' = Plus(booked, Minus(s, stock))
  BY DEF Book
<1>2. \A d \in Calls : Locked(d)' = Locked(d) /\ Out(d)' = Out(d)
  BY <1>1 DEF Locked, Touches, Out, In
<1>3. LocksApart'
  BY <1>2 DEF StockInv, LocksApart
<1>4. ViewsTrue'
  <2>1. ASSUME NEW d \in Calls, NEW w \in Warehouses, NEW v \in Variants,
               <<w, v>> \in Locked(d)'
        PROVE  call'[d].view[w][v] = stock'[w][v] /\ Out(d)'[w][v] <= stock'[w][v]
    <3>1. <<w, v>> \in Locked(d) /\ stock'[w][v] = stock[w][v]
      BY <1>1, <1>2, <2>1
    <3> QED
      BY <1>1, <1>2, <3>1 DEF StockInv, ViewsTrue
  <2> QED
    BY <2>1 DEF ViewsTrue
<1>5. NoLostWrite'
  <2>1. ASSUME NEW w \in Warehouses, NEW v \in Variants
        PROVE  s[w][v] = booked'[w][v] + Applied[w][v]
    <3>1. booked'[w][v] = booked[w][v] + (s[w][v] - stock[w][v])
      BY <1>1 DEF Plus, Minus
    <3>2. stock[w][v] = booked[w][v] + Applied[w][v]
      BY DEF StockInv, NoLostWrite, Plus
    <3>3. /\ stock[w][v] \in Int /\ booked[w][v] \in Int /\ s[w][v] \in Int
          /\ Applied[w][v] \in Int
      BY AppliedType DEF TypeOK
    <3> QED
      BY <3>1, <3>2, <3>3
  <2>2. Applied' = Applied
    BY <1>1 DEF Applied
  <2>3. s = [w \in Warehouses |-> [v \in Variants |-> booked'[w][v] + Applied[w][v]]]
    BY <2>1
  <2> QED
    BY <1>1, <2>2, <2>3 DEF NoLostWrite, Plus
<1> QED
  BY <1>3, <1>4, <1>5 DEF StockInv

LEMMA StockWriteKeepsStock ==
  ASSUME TypeOK, StockInv, StockWrite
  PROVE  StockInv'
<1>1. stock \in [Warehouses -> [Variants -> Nat]]
  BY DEF TypeOK
<1>2. PICK w \in Warehouses, v \in Variants, q \in 0..MaxQty :
        \/ SetStock(w, v, q)
        \/ AdjustInventory(w, v, q) \/ AdjustInventory(w, v, -q)
        \/ \E x \in Warehouses : q > 0 /\ Transfer(w, x, v, q)
  BY DEF StockWrite
<1>3. q \in Nat /\ MaxQty \in Nat
  BY TransfersAssumption
<1>4. CASE SetStock(w, v, q)
  <2> DEFINE s == [stock EXCEPT ![w][v] = q]
  <2>1. s \in [Warehouses -> [Variants -> Nat]] /\ Book(s)
    BY <1>1, <1>3, <1>4 DEF SetStock
  <2>2. \A y \in Warehouses, u \in Variants : s[y][u] # stock[y][u] => y = w /\ u = v
    BY <1>1
  <2>3. \A d \in Calls : <<w, v>> \notin Locked(d)
    BY <1>4 DEF SetStock, Unlocked
  <2> HIDE DEF s
  <2> QED
    BY <2>1, <2>2, <2>3, BookKeepsStock
<1>5. ASSUME NEW delta \in {q, -q}, AdjustInventory(w, v, delta)
      PROVE  StockInv'
  <2> DEFINE s == [stock EXCEPT ![w][v] = @ + delta]
  <2>1. stock[w][v] + delta \in Nat
    BY <1>3, <1>5 DEF AdjustInventory
  <2>2. s \in [Warehouses -> [Variants -> Nat]] /\ Book(s)
    BY <1>1, <1>5, <2>1 DEF AdjustInventory
  <2>3. \A y \in Warehouses, u \in Variants : s[y][u] # stock[y][u] => y = w /\ u = v
    BY <1>1
  <2>4. \A d \in Calls : <<w, v>> \notin Locked(d)
    BY <1>5 DEF AdjustInventory, Unlocked
  <2> HIDE DEF s
  <2> QED
    BY <2>2, <2>3, <2>4, BookKeepsStock
<1>6. ASSUME NEW x \in Warehouses, Transfer(w, x, v, q)
      PROVE  StockInv'
  <2> DEFINE s == [stock EXCEPT ![w][v] = @ - q, ![x][v] = @ + q]
  <2>1. w # x /\ stock[w][v] - q \in Nat /\ stock[x][v] + q \in Nat
    BY <1>1, <1>3, <1>6 DEF Transfer
  <2>2. s \in [Warehouses -> [Variants -> Nat]] /\ Book(s)
    BY <1>1, <1>6, <2>1 DEF Transfer
  <2>3. \A y \in Warehouses, u \in Variants :
          s[y][u] # stock[y][u] => y \in {w, x} /\ u = v
    BY <1>1
  <2>4. \A d \in Calls : <<w, v>> \notin Locked(d) /\ <<x, v>> \notin Locked(d)
    BY <1>6 DEF Transfer, Unlocked
  <2> HIDE DEF s
  <2> QED
    BY <2>2, <2>3, <2>4, BookKeepsStock
<1> QED
  BY <1>2, <1>4, <1>5, <1>6

-----------------------------------------------------------------------------
(* The documents                                                           *)

\* A request that is over leaves the document as it found it, unless it is
\* disturbed.
LEMMA EndKeepsDocuments ==
  ASSUME TypeOK, DocumentInv, NEW c \in Calls, InProgress(c),
         call' = [call EXCEPT ![c] = NewCall("over")],
         UNCHANGED <<transfer, applied>>, disturbed \subseteq disturbed',
         call[c].pc = "written" => call[c].transfer \in disturbed'
  PROVE  DocumentInv'
<1>1. /\ DOMAIN call = Calls /\ call[c].transfer \in Transfers
      /\ call'[c].pc = "over" /\ \A d \in Calls \ {c} : call'[d] = call[d]
  BY DEF TypeOK, NewCall
<1>2. ~InProgress(c)' /\ \A d \in Calls \ {c} : InProgress(d)' = InProgress(d)
  BY <1>1 DEF InProgress
<1>3. \A t : CallsOn(t)' = CallsOn(t) \ {c}
  BY <1>1, <1>2 DEF CallsOn
<1>4. DocumentsThere'
  BY <1>1, <1>2 DEF DocumentInv, DocumentsThere
<1>5. Alone'
  BY <1>3 DEF DocumentInv, Alone
<1>6. DocumentsKept'
  <2>1. ASSUME NEW d \in Calls, InProgress(d)', call'[d].transfer \notin disturbed'
        PROVE  DocumentKept(d)'
    <3>1. d # c /\ call'[d] = call[d]
      BY <1>1, <1>2, <2>1
    <3>2. DocumentKept(d)
      BY <1>2, <2>1, <3>1 DEF DocumentInv, DocumentsKept
    <3> QED
      BY <3>1, <3>2 DEF DocumentKept
  <2> QED
    BY <2>1 DEF DocumentsKept
<1>7. StatusTellsStock'
  <2>1. ASSUME NEW t \in Transfers \ disturbed', CallsOn(t)' = {}
        PROVE  applied[t] = Due(transfer[t])
    <3>1. CASE CallsOn(t) = {}
      BY <2>1, <3>1 DEF DocumentInv, StatusTellsStock
    <3>2. CASE CallsOn(t) # {}
      <4>1. c \in CallsOn(t)
        BY <1>3, <2>1, <3>2
      <4>2. call[c].transfer = t /\ t \notin disturbed /\ call[c].pc # "written"
        BY <2>1, <4>1 DEF CallsOn
      <4>3. DocumentKept(c)
        BY <4>2 DEF DocumentInv, DocumentsKept
      <4> QED
        BY <4>2, <4>3 DEF DocumentKept
    <3> QED
      BY <3>1, <3>2
  <2> QED
    BY <2>1 DEF StatusTellsStock
<1> QED
  BY <1>4, <1>5, <1>6, <1>7 DEF DocumentInv

\* A request that goes on, and leaves the document as it is.
LEMMA FlowKeepsDocuments ==
  ASSUME TypeOK, DocumentInv, NEW c \in Calls, InProgress(c), InProgress(c)',
         \A d \in Calls \ {c} : call'[d] = call[d],
         call'[c].transfer = call[c].transfer, call'[c].target = call[c].target,
         UNCHANGED <<transfer, applied, disturbed>>,
         DocumentKept(c) => DocumentKept(c)'
  PROVE  DocumentInv'
<1>1. \A d \in Calls : InProgress(d)' = InProgress(d) /\ call'[d].transfer = call[d].transfer
  BY DEF InProgress
<1>2. \A t : CallsOn(t)' = CallsOn(t)
  BY <1>1 DEF CallsOn
<1>3. DocumentsThere'
  BY <1>1 DEF DocumentInv, DocumentsThere
<1>4. Alone' /\ StatusTellsStock'
  BY <1>2 DEF DocumentInv, Alone, StatusTellsStock
<1>5. DocumentsKept'
  <2>1. ASSUME NEW d \in Calls, InProgress(d)', call'[d].transfer \notin disturbed'
        PROVE  DocumentKept(d)'
    <3>1. DocumentKept(d)
      BY <1>1, <2>1 DEF DocumentInv, DocumentsKept
    <3>2. CASE d # c
      BY <3>1, <3>2 DEF DocumentKept
    <3> QED
      BY <3>1, <3>2
  <2> QED
    BY <2>1 DEF DocumentsKept
<1> QED
  BY <1>3, <1>4, <1>5 DEF DocumentInv

LEMMA ReadHeaderKeepsDocuments ==
  ASSUME TypeOK, DocumentInv, NEW c \in Calls, NEW t \in Transfers, NEW target \in Statuses,
         ReadHeader(c, t, target)
  PROVE  DocumentInv'
<1>1. /\ DOMAIN call = Calls /\ \A d \in Calls \ {c} : call'[d] = call[d]
      /\ call[c].pc = "new"
      /\ call'[c] = [pc |-> "header", transfer |-> t, target |-> target,
                     copy |-> [transfer[t] EXCEPT !.items = NoItems], view |-> NoUnits]
  BY DEF TypeOK, ReadHeader, IsNext
<1>2. /\ call'[c].pc = "header" /\ call'[c].transfer = t /\ call'[c].target = target
      /\ call'[c].copy = [transfer[t] EXCEPT !.items = NoItems]
  BY <1>1
<1>3. /\ ~InProgress(c) /\ InProgress(c)'
      /\ \A d \in Calls \ {c} : InProgress(d)' = InProgress(d)
  BY <1>1, <1>2 DEF InProgress
<1>4. \A u : CallsOn(u)' = IF u = t THEN CallsOn(u) \cup {c} ELSE CallsOn(u)
  BY <1>1, <1>2, <1>3 DEF CallsOn
<1>5. /\ UNCHANGED <<transfer, applied>> /\ transfer[t].status # "none"
      /\ disturbed' = IF CallsOn(t) = {} THEN disturbed ELSE disturbed \cup {t}
  BY DEF ReadHeader
<1>6. DocumentsThere'
  BY <1>1, <1>2, <1>3, <1>5 DEF DocumentInv, DocumentsThere, Statuses
<1>7. Alone'
  <2>1. ASSUME NEW u \in Transfers \ disturbed', NEW a \in CallsOn(u)', NEW b \in CallsOn(u)'
        PROVE  a = b
    <3>1. CASE u = t
      <4>1. CallsOn(t) = {}
        BY <1>5, <2>1, <3>1
      <4> QED BY <1>4, <2>1, <3>1, <4>1
    <3>2. CASE u # t
      BY <1>4, <1>5, <2>1, <3>2 DEF DocumentInv, Alone
    <3> QED BY <3>1, <3>2
  <2> QED BY <2>1 DEF Alone
<1>8. DocumentsKept'
  <2>1. ASSUME NEW d \in Calls, InProgress(d)', call'[d].transfer \notin disturbed'
        PROVE  DocumentKept(d)'
    <3>1. CASE d # c
      <4>1. DocumentKept(d)
        BY <1>1, <1>3, <1>5, <2>1, <3>1 DEF DocumentInv, DocumentsKept
      <4> QED
        BY <1>1, <1>5, <3>1, <4>1 DEF DocumentKept
    <3>2. CASE d = c
      <4>1. CallsOn(t) = {} /\ t \notin disturbed
        BY <1>2, <1>5, <2>1, <3>2
      <4>2. applied[t] = Due(transfer[t])
        BY <4>1 DEF DocumentInv, StatusTellsStock
      <4> QED
        BY <1>2, <1>5, <3>2, <4>2 DEF DocumentKept
    <3> QED BY <3>1, <3>2
  <2> QED BY <2>1 DEF DocumentsKept
<1>9. StatusTellsStock'
  <2>1. ASSUME NEW u \in Transfers \ disturbed', CallsOn(u)' = {}
        PROVE  applied[u] = Due(transfer[u])
    <3>1. CallsOn(u) = {} /\ u \notin disturbed
      BY <1>4, <1>5, <2>1
    <3> QED BY <3>1 DEF DocumentInv, StatusTellsStock
  <2> QED BY <1>5, <2>1 DEF StatusTellsStock
<1> QED
  BY <1>6, <1>7, <1>8, <1>9 DEF DocumentInv

LEMMA WriteStatusKeepsDocuments ==
  ASSUME TypeOK, DocumentInv, NEW c \in Calls, WriteStatus(c)
  PROVE  DocumentInv'
<1> DEFINE t == call[c].transfer
<1>1. /\ DOMAIN call = Calls /\ DOMAIN call[c] = {"pc", "transfer", "target", "copy", "view"}
      /\ t \in Transfers /\ call[c].target \in Statuses \cup {"none"}
      /\ call[c].copy \in Headers /\ transfer \in [Transfers -> Headers]
  BY DEF TypeOK
<1>2. /\ \A d \in Calls \ {c} : call'[d] = call[d]
      /\ call[c].pc = "moved" /\ call'[c].pc = "written"
      /\ call'[c].transfer = t /\ call'[c].target = call[c].target
      /\ call'[c].copy = call[c].copy
  BY <1>1 DEF WriteStatus
<1>3. \A d \in Calls : InProgress(d)' = InProgress(d) /\ call'[d].transfer = call[d].transfer
  BY <1>2 DEF InProgress
<1>4. InProgress(c)
  BY <1>2 DEF InProgress
<1>5. \A u : CallsOn(u)' = CallsOn(u)
  BY <1>3 DEF CallsOn
<1>6. /\ \A u \in Transfers \ {t} : transfer'[u] = transfer[u]
      /\ transfer'[t] = [transfer[t] EXCEPT !.status = call[c].target]
      /\ UNCHANGED <<applied, disturbed>>
  BY <1>1 DEF WriteStatus
<1>7. transfer'[t].status = call[c].target /\ call[c].target # "none"
  <2>1. \A h \in Headers : \A x : [h EXCEPT !.status = x].status = x
    BY DEF Headers
  <2> QED
    BY <1>1, <1>4, <1>6, <2>1 DEF DocumentInv, DocumentsThere
<1>8. DocumentsThere'
  <2>1. ASSUME NEW d \in Calls, InProgress(d)'
        PROVE  call'[d].target # "none" /\ transfer'[call'[d].transfer].status # "none"
    <3>1. call'[d].target = call[d].target /\ call[d].transfer \in Transfers
      BY <1>2 DEF TypeOK
    <3>2. call[d].target # "none" /\ transfer[call[d].transfer].status # "none"
      BY <1>3, <2>1 DEF DocumentInv, DocumentsThere
    <3> QED
      BY <1>3, <1>6, <1>7, <3>1, <3>2
  <2> QED BY <2>1 DEF DocumentsThere
<1>9. Alone'
  BY <1>5, <1>6 DEF DocumentInv, Alone
<1>10. DocumentsKept'
  <2>1. ASSUME NEW d \in Calls, InProgress(d)', call'[d].transfer \notin disturbed'
        PROVE  DocumentKept(d)'
    <3>1. DocumentKept(d) /\ call[d].transfer \in Transfers
      BY <1>3, <1>6, <2>1 DEF DocumentInv, DocumentsKept, TypeOK
    <3>2. CASE d # c
      <4>1. call[d].transfer # t
        BY <1>1, <1>2, <1>3, <1>4, <1>6, <2>1, <3>2 DEF DocumentInv, Alone, CallsOn
      <4> QED
        BY <1>2, <1>6, <3>1, <3>2, <4>1 DEF DocumentKept
    <3>3. CASE d = c
      BY <1>2, <1>6, <3>1, <3>3 DEF DocumentKept
    <3> QED BY <3>2, <3>3
  <2> QED BY <2>1 DEF DocumentsKept
<1>11. StatusTellsStock'
  <2>1. ASSUME NEW u \in Transfers \ disturbed', CallsOn(u)' = {}
        PROVE  applied[u] = Due(transfer'[u])
    <3>1. u # t /\ CallsOn(u) = {}
      BY <1>4, <1>5, <2>1 DEF CallsOn
    <3> QED
      BY <1>6, <2>1, <3>1 DEF DocumentInv, StatusTellsStock
  <2> QED
    BY <1>6, <2>1 DEF StatusTellsStock
<1> QED
  BY <1>8, <1>9, <1>10, <1>11 DEF DocumentInv

LEMMA CommitKeepsDocuments ==
  ASSUME TypeOK, DocumentInv, NEW c \in Calls, Commit(c)
  PROVE  DocumentInv'
<1> DEFINE t == call[c].transfer
<1>1. /\ DOMAIN call = Calls /\ t \in Transfers
      /\ call[c].target \in Statuses \cup {"none"} /\ call[c].copy \in Headers
      /\ applied \in [Transfers -> [Warehouses -> [Variants -> Int]]]
      /\ call[c].pc = "written" /\ InProgress(c)
  BY DEF TypeOK, Commit, InProgress
<1>2. /\ call'[c].pc = "over" /\ \A d \in Calls \ {c} : call'[d] = call[d]
  BY <1>1 DEF Commit, NewCall
<1>3. ~InProgress(c)' /\ \A d \in Calls \ {c} : InProgress(d)' = InProgress(d)
  BY <1>2 DEF InProgress
<1>4. \A u : CallsOn(u)' = CallsOn(u) \ {c}
  BY <1>2, <1>3 DEF CallsOn
<1>5. /\ \A u \in Transfers \ {t} : applied'[u] = applied[u]
      /\ applied'[t] = Plus(Minus(applied[t], Out(c)), In(c))
      /\ UNCHANGED <<transfer, disturbed>>
  BY <1>1 DEF Commit
<1>6. DocumentsThere'
  BY <1>2, <1>3, <1>5 DEF DocumentInv, DocumentsThere
<1>7. Alone'
  BY <1>4, <1>5 DEF DocumentInv, Alone
<1>8. DocumentsKept'
  <2>1. ASSUME NEW d \in Calls, InProgress(d)', call'[d].transfer \notin disturbed'
        PROVE  DocumentKept(d)'
    <3>1. d # c /\ call'[d] = call[d] /\ call[d].transfer \in Transfers
      BY <1>2, <1>3, <2>1 DEF TypeOK
    <3>2. DocumentKept(d)
      BY <1>3, <1>5, <2>1, <3>1 DEF DocumentInv, DocumentsKept
    <3>3. call[d].transfer # t
      BY <1>1, <1>3, <1>5, <2>1, <3>1 DEF DocumentInv, Alone, CallsOn
    <3> QED
      BY <1>5, <3>1, <3>2, <3>3 DEF DocumentKept
  <2> QED BY <2>1 DEF DocumentsKept
<1>9. StatusTellsStock'
  <2>1. ASSUME NEW u \in Transfers \ disturbed', CallsOn(u)' = {}
        PROVE  applied'[u] = Due(transfer[u])
    <3>1. CASE u # t
      <4>1. CallsOn(u) = {}
        BY <1>4, <2>1, <3>1 DEF CallsOn
      <4> QED
        BY <1>5, <2>1, <3>1, <4>1 DEF DocumentInv, StatusTellsStock
    <3>2. CASE u = t
      <4>1. DocumentKept(c)
        BY <1>1, <1>5, <2>1, <3>2 DEF DocumentInv, DocumentsKept
      <4>2. /\ applied[t] = Due(call[c].copy)
            /\ transfer[t] = [call[c].copy EXCEPT !.status = call[c].target]
            /\ Allowed(call[c].copy.status, call[c].target)
        BY <1>1, <4>1 DEF DocumentKept
      <4>3. call[c].target \in Statuses
        BY <1>1 DEF DocumentInv, DocumentsThere
      <4>4. Plus(Minus(Due(call[c].copy), Out(c)), In(c)) = Due(transfer[t])
        BY <1>1, <4>2, <4>3, DueAfter DEF Out, In
      <4> QED
        BY <1>5, <3>2, <4>2, <4>4
    <3> QED BY <3>1, <3>2
  <2> QED
    BY <1>5, <2>1 DEF StatusTellsStock
<1> QED
  BY <1>6, <1>7, <1>8, <1>9 DEF DocumentInv

\* The steps of a request between its first read and the status it writes.
LEMMA MiddleKeepsDocuments ==
  ASSUME TypeOK, DocumentInv, NEW c \in Calls, ReadItems(c) \/ BeginTx(c) \/ Move(c)
  PROVE  DocumentInv'
<1> DEFINE h == transfer[call[c].transfer]
<1>1. /\ DOMAIN call = Calls /\ DOMAIN call[c] = {"pc", "transfer", "target", "copy", "view"}
      /\ h \in Headers /\ call[c].copy \in Headers
  BY DEF TypeOK
<1>2. /\ \A d \in Calls \ {c} : call'[d] = call[d]
      /\ call'[c].transfer = call[c].transfer /\ call'[c].target = call[c].target
      /\ UNCHANGED <<transfer, applied, disturbed>>
  BY <1>1 DEF ReadItems, BeginTx, Move
<1>3. InProgress(c) /\ InProgress(c)'
  BY <1>1 DEF ReadItems, BeginTx, Move, InProgress
<1>4. DocumentKept(c) => DocumentKept(c)'
  <2> SUFFICES ASSUME DocumentKept(c) PROVE DocumentKept(c)'
    OBVIOUS
  <2>1. CASE ReadItems(c)
    <3>1. /\ call'[c].pc = "read" /\ call[c].pc = "header"
          /\ call'[c].copy = [call[c].copy EXCEPT !.items = h.items]
      BY <1>1, <2>1 DEF ReadItems
    <3>2. [[h EXCEPT !.items = NoItems] EXCEPT !.items = h.items] = h
      BY <1>1 DEF Headers
    <3>3. call'[c].copy = h
      BY <3>1, <3>2 DEF DocumentKept
    <3> QED
      BY <1>2, <3>1, <3>3 DEF DocumentKept
  <2>2. CASE BeginTx(c)
    <3>1. call'[c].pc = "open" /\ call[c].pc = "read" /\ call'[c].copy = call[c].copy
      BY <1>1, <2>2 DEF BeginTx
    <3> QED
      BY <1>2, <3>1 DEF DocumentKept
  <2>3. CASE Move(c)
    <3>1. /\ call'[c].pc = "moved" /\ call[c].pc = "open" /\ call'[c].copy = call[c].copy
          /\ Allowed(call[c].copy.status, call[c].target)
      BY <1>1, <2>3 DEF Move
    <3> QED
      BY <1>2, <3>1 DEF DocumentKept
  <2> QED
    BY <2>1, <2>2, <2>3
<1> QED
  BY <1>2, <1>3, <1>4, FlowKeepsDocuments

LEMMA CallStepKeepsDocuments ==
  ASSUME TypeOK, DocumentInv, CallStep
  PROVE  DocumentInv'
<1>1. PICK c \in Calls : \/ \E t \in Transfers, target \in Statuses : ReadHeader(c, t, target)
                         \/ Proceed(c) \/ FailCall(c)
  BY DEF CallStep
<1>2. CASE \E t \in Transfers, target \in Statuses : ReadHeader(c, t, target)
  BY <1>2, ReadHeaderKeepsDocuments
<1>3. CASE ReadItems(c) \/ BeginTx(c) \/ Move(c)
  BY <1>3, MiddleKeepsDocuments
<1>4. CASE WriteStatus(c)
  BY <1>4, WriteStatusKeepsDocuments
<1>5. CASE Commit(c)
  BY <1>5, CommitKeepsDocuments
<1>6. CASE Refuse(c) \/ FailCall(c)
  <2>1. InProgress(c)
    BY <1>6 DEF Refuse, FailCall, InProgress
  <2>2. /\ call' = [call EXCEPT ![c] = NewCall("over")]
        /\ UNCHANGED <<transfer, applied>> /\ disturbed \subseteq disturbed'
        /\ call[c].pc = "written" => call[c].transfer \in disturbed'
    BY <1>6 DEF Refuse, FailCall
  <2> QED
    BY <2>1, <2>2, EndKeepsDocuments
<1> QED
  BY <1>1, <1>2, <1>3, <1>4, <1>5, <1>6 DEF Proceed

\* An edit changes one document, which is disturbed by it or has no request and
\* owes nothing.
LEMMA EditKeepsDocuments ==
  ASSUME TypeOK, DocumentInv, NEW t \in Transfers, NEW h \in Headers,
         transfer' = [transfer EXCEPT ![t] = h],
         UNCHANGED <<call, applied>>, disturbed \subseteq disturbed',
         h.status = "none" => transfer[t].status = "none",
         \/ t \in disturbed'
         \/ /\ CallsOn(t) = {}
            /\ transfer[t].status \in {"none", "draft", "pending"}
            /\ h.status \in {"none", "draft", "pending"}
  PROVE  DocumentInv'
<1>1. /\ transfer \in [Transfers -> Headers] /\ transfer'[t] = h
      /\ \A u \in Transfers \ {t} : transfer'[u] = transfer[u]
      /\ \A c \in Calls : call[c].transfer \in Transfers
  BY DEF TypeOK
<1>2. /\ \A c \in Calls : InProgress(c)' = InProgress(c)
      /\ \A u : CallsOn(u)' = CallsOn(u)
  BY DEF InProgress, CallsOn
<1>3. DocumentsThere'
  BY <1>1, <1>2 DEF DocumentInv, DocumentsThere
<1>4. Alone'
  BY <1>2 DEF DocumentInv, Alone
<1>5. DocumentsKept'
  <2>1. ASSUME NEW c \in Calls, InProgress(c)', call'[c].transfer \notin disturbed'
        PROVE  DocumentKept(c)'
    <3>1. call[c].transfer # t
      BY <1>2, <2>1 DEF CallsOn
    <3>2. DocumentKept(c)
      BY <1>2, <2>1 DEF DocumentInv, DocumentsKept
    <3> QED
      BY <1>1, <3>1, <3>2 DEF DocumentKept
  <2> QED BY <2>1 DEF DocumentsKept
<1>6. StatusTellsStock'
  <2>1. ASSUME NEW u \in Transfers \ disturbed', CallsOn(u)' = {}
        PROVE  applied[u] = Due(transfer'[u])
    <3>1. applied[u] = Due(transfer[u])
      BY <1>2, <2>1 DEF DocumentInv, StatusTellsStock
    <3>2. CASE u = t
      <4>1. /\ transfer[t].status \in {"none", "draft", "pending"}
            /\ h.status \in {"none", "draft", "pending"}
        BY <2>1, <3>2
      <4>2. Due(transfer[t]) = Due(h)
        BY <1>1, <4>1, NothingDue
      <4> QED BY <1>1, <3>1, <3>2, <4>2
    <3> QED BY <1>1, <3>1, <3>2
  <2> QED BY <2>1 DEF StatusTellsStock
<1> QED
  BY <1>3, <1>4, <1>5, <1>6 DEF DocumentInv

LEMMA EditStepKeepsDocuments ==
  ASSUME TypeOK, DocumentInv, EditStep
  PROVE  DocumentInv'
<1>1. PICK e \in Edits :
        \/ \E t \in Transfers, row \in Headers : CreateTransfer(e, t, row)
                                                 \/ CheckEditable(e, t, row)
        \/ UpdateTransferMeta(e) \/ ReplaceTransferItems(e) \/ FailEdit(e)
  BY DEF EditStep
<1> DEFINE t == edit[e].transfer
<1>2. /\ transfer \in [Transfers -> Headers] /\ t \in Transfers /\ edit[e].row \in Headers
      /\ transfer[t] \in Headers
  BY DEF TypeOK
<1>3. \A u \in Transfers : transfer[u].status = "none" => CallsOn(u) = {}
  BY DEF DocumentInv, DocumentsThere, CallsOn
<1>4. ASSUME NEW u \in Transfers, NEW row \in Headers, CreateTransfer(e, u, row)
      PROVE  DocumentInv'
  <2>1. /\ [row EXCEPT !.items = NoItems] \in Headers
        /\ [row EXCEPT !.items = NoItems].status = row.status
    BY HeaderTypes DEF Headers
  <2>2. /\ transfer' = [transfer EXCEPT ![u] = [row EXCEPT !.items = NoItems]]
        /\ UNCHANGED <<call, applied>>
        /\ disturbed' = IF row.status \in {"draft", "pending"} THEN disturbed
                        ELSE disturbed \cup {u}
        /\ transfer[u].status = "none"
    BY <1>4 DEF CreateTransfer
  <2> QED
    BY <1>3, <2>1, <2>2, EditKeepsDocuments
<1>5. ASSUME UpdateTransferMeta(e) \/ ReplaceTransferItems(e)
      PROVE  DocumentInv'
  <2>1. /\ UNCHANGED <<call, applied>>
        /\ disturbed' = IF Harmless(t) THEN disturbed ELSE disturbed \cup {t}
    BY <1>5 DEF UpdateTransferMeta, ReplaceTransferItems, AfterEdit
  <2>2. \E h \in Headers : transfer' = [transfer EXCEPT ![t] = h]
                           /\ h.status = transfer[t].status
    <3>1. CASE UpdateTransferMeta(e)
      <4> DEFINE h == [transfer[t] EXCEPT !.origin = edit[e].row.origin,
                                          !.destination = edit[e].row.destination]
      <4>1. h \in Headers /\ h.status = transfer[t].status
        BY <1>2 DEF Headers
      <4>2. transfer' = [transfer EXCEPT ![t] = h]
        BY <1>2, <3>1 DEF UpdateTransferMeta
      <4> QED BY <4>1, <4>2
    <3>2. CASE ReplaceTransferItems(e)
      <4> DEFINE h == [transfer[t] EXCEPT !.items = edit[e].row.items]
      <4>1. h \in Headers /\ h.status = transfer[t].status
        BY <1>2 DEF Headers
      <4>2. transfer' = [transfer EXCEPT ![t] = h]
        BY <1>2, <3>2 DEF ReplaceTransferItems
      <4> QED BY <4>1, <4>2
    <3> QED BY <1>5, <3>1, <3>2
  <2> HIDE DEF t
  <2> QED
    BY <1>2, <2>1, <2>2, EditKeepsDocuments DEF Harmless
<1>6. CASE FailEdit(e) \/ \E u \in Transfers, row \in Headers : CheckEditable(e, u, row)
  <2>1. UNCHANGED <<transfer, call, applied, disturbed>>
    BY <1>6 DEF FailEdit, CheckEditable
  <2> QED
    BY <2>1 DEF DocumentInv, DocumentsThere, Alone, DocumentsKept, StatusTellsStock,
                DocumentKept, InProgress, CallsOn
<1> QED
  BY <1>1, <1>4, <1>5, <1>6

-----------------------------------------------------------------------------
(* The theorems                                                            *)

LEMMA InitSafe == Init => IInv
<1> SUFFICES ASSUME Init PROVE IInv
  OBVIOUS
<1>1. TypeOK
  BY InitTypes
<1>2. \A c \in Calls : call[c].pc = "new"
  BY DEF Init, NewCall
<1>3. \A c \in Calls : Locked(c) = {} /\ ~InProgress(c)
  BY <1>2 DEF Locked, InProgress
<1>4. NoLostWrite
  <2>1. ASSUME NEW w \in Warehouses, NEW v \in Variants
        PROVE  stock[w][v] = booked[w][v] + Applied[w][v]
    <3>1. booked[w][v] = stock[w][v] - Applied[w][v]
      BY DEF Init, Minus
    <3>2. stock[w][v] \in Int /\ Applied[w][v] \in Int
      BY <1>1, AppliedType DEF TypeOK
    <3> QED BY <3>1, <3>2
  <2>2. stock = [w \in Warehouses |-> [v \in Variants |-> stock[w][v]]]
    BY <1>1 DEF TypeOK
  <2>3. stock = [w \in Warehouses |-> [v \in Variants |-> booked[w][v] + Applied[w][v]]]
    BY <2>1, <2>2
  <2> QED BY <2>3 DEF NoLostWrite, Plus
<1>5. StockInv
  BY <1>3, <1>4 DEF StockInv, LocksApart, ViewsTrue
<1>6. StatusTellsStock
  BY DEF Init, StatusTellsStock
<1>7. DocumentInv
  BY <1>3, <1>6 DEF DocumentInv, DocumentsThere, Alone, DocumentsKept, CallsOn
<1> QED
  BY <1>1, <1>5, <1>7 DEF IInv

\* Every step keeps the row locks apart, what their holders have seen true, and
\* the units of each transfer where its document says (Transfers, Next).
THEOREM Inductive == IInv /\ [Next]_vars => IInv'
<1> SUFFICES ASSUME IInv, [Next]_vars PROVE IInv'
  OBVIOUS
<1>1. TypeOK /\ StockInv /\ DocumentInv /\ ViewsTrue
  BY DEF IInv, StockInv
<1>2. CASE CallStep
  <2>1. TypeOK'
    BY <1>1, <1>2, CallStepTypes
  <2>2. StockInv'
    <3>1. PICK c \in Calls :
            \/ \E t \in Transfers, target \in Statuses : ReadHeader(c, t, target)
            \/ Proceed(c) \/ FailCall(c)
      BY <1>2 DEF CallStep
    <3>2. CASE Move(c)
      BY <1>1, <3>2, MoveKeepsStock
    <3>3. CASE Commit(c)
      BY <1>1, <3>3, CommitKeepsStock
    <3>4. CASE ~Move(c) /\ ~Commit(c)
      BY <1>1, <3>1, <3>4, FlowKeepsStock DEF Proceed
    <3> QED BY <3>2, <3>3, <3>4
  <2>3. DocumentInv'
    BY <1>1, <1>2, CallStepKeepsDocuments
  <2> QED BY <2>1, <2>2, <2>3 DEF IInv
<1>3. CASE EditStep
  <2>1. UNCHANGED <<stock, call, booked, applied>>
    BY <1>3 DEF EditStep, CreateTransfer, CheckEditable, UpdateTransferMeta,
                ReplaceTransferItems, FailEdit
  <2>2. StockInv'
    BY <1>1, <2>1, StockKept DEF Locked, Touches, Out, In
  <2> QED
    BY <1>1, <1>3, <2>2, EditStepTypes, EditStepKeepsDocuments DEF IInv
<1>4. CASE StockWrite
  <2>1. UNCHANGED <<transfer, call, applied, disturbed>>
    <3>1. \A s : Book(s) => UNCHANGED <<transfer, call, applied, disturbed>>
      BY DEF Book
    <3>2. PICK w \in Warehouses, v \in Variants, q \in 0..MaxQty :
            \/ SetStock(w, v, q)
            \/ AdjustInventory(w, v, q) \/ AdjustInventory(w, v, -q)
            \/ \E x \in Warehouses : Transfer(w, x, v, q)
      BY <1>4 DEF StockWrite
    <3>3. CASE SetStock(w, v, q)
      BY <3>1, <3>3 DEF SetStock
    <3>4. CASE AdjustInventory(w, v, q)
      BY <3>1, <3>4 DEF AdjustInventory
    <3>5. CASE AdjustInventory(w, v, -q)
      BY <3>1, <3>5 DEF AdjustInventory
    <3>6. CASE \E x \in Warehouses : Transfer(w, x, v, q)
      BY <3>1, <3>6 DEF Transfer
    <3> QED BY <3>2, <3>3, <3>4, <3>5, <3>6
  <2>2. DocumentInv'
    BY <1>1, <2>1 DEF DocumentInv, DocumentsThere, Alone, DocumentsKept, StatusTellsStock,
                      DocumentKept, InProgress, CallsOn
  <2> QED
    BY <1>1, <1>4, <2>2, StockWriteTypes, StockWriteKeepsStock DEF IInv
<1>5. CASE UNCHANGED vars
  <2>1. UNCHANGED <<stock, transfer, call, edit, booked, applied, disturbed>>
    BY <1>5 DEF vars
  <2>2. TypeOK'
    BY <1>1, <2>1 DEF TypeOK
  <2>3. StockInv'
    BY <1>1, <2>1, StockKept DEF Locked, Touches, Out, In
  <2>4. DocumentInv'
    BY <1>1, <2>1 DEF DocumentInv, DocumentsThere, Alone, DocumentsKept, StatusTellsStock,
                      DocumentKept, InProgress, CallsOn
  <2> QED BY <2>2, <2>3, <2>4 DEF IInv
<1> QED
  BY <1>2, <1>3, <1>4, <1>5 DEF Next

THEOREM InvariantHolds == Spec => []IInv
  BY InitSafe, Inductive, PTL DEF Spec

\* The rows of the stock, the documents and the requests have the types the
\* schema and the code give them; above all, no quantity on hand ever goes
\* below zero, whatever transitions and writers race (warehouse_stock).
THEOREM TypeCorrect == Spec => []TypeOK
<1>1. IInv => TypeOK
  BY DEF IInv
<1> QED
  BY <1>1, InvariantHolds, PTL

\* Each row of the stock is the sum of what the transitions and the other
\* writers did to it: the row locks let no write overwrite another
\* (TransitionTransfer, GetStockForUpdate, SetStock, AdjustInventory).
THEOREM WritesKept == Spec => []NoLostWrite
<1>1. IInv => NoLostWrite
  BY DEF IInv, StockInv
<1> QED
  BY <1>1, InvariantHolds, PTL

\* The status of a transfer whose requests do not overlap tells where its
\* units are, whatever path of statuses led there (TransitionTransfer,
\* CreateTransfer, UpdateTransfer).
THEOREM StatusIsTrue == Spec => []StatusTellsStock
<1>1. IInv => StatusTellsStock
  BY DEF IInv, DocumentInv
<1> QED
  BY <1>1, InvariantHolds, PTL
=============================================================================
