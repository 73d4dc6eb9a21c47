------------------------------- MODULE Shipping -------------------------------
(***************************************************************************)
(* Shipments: a row is inserted, the carrier books a waybill, the row is   *)
(* updated; later the carrier's events are copied into the log.            *)
(*                                                                         *)
(* SyncTracking reads the log, asks the carrier, and inserts the events    *)
(* that are newer than the newest one it had read, each by a statement of  *)
(* its own.  Nothing keeps two calls for one shipment apart, and the route *)
(* that shows the tracking makes one each time (the worker's task does     *)
(* nothing yet).  Carrier and network are outside: a call may fail before  *)
(* or after the carrier has acted.                                         *)
(***************************************************************************)
EXTENDS Integers, Sequences, FiniteSets, SequencesExt

CONSTANTS
  NShipments,   \* CreateShipment calls, each of which makes a row
  NTrackings,   \* SyncTracking calls
  MaxEvents,    \* bound on the events of a waybill
  MaxEventTime  \* event times are 1..MaxEventTime; 0 is a date that does not parse

ASSUME ShippingAssumption ==
  /\ NShipments \in Nat \ {0} /\ NTrackings \in Nat
  /\ MaxEvents \in Nat /\ MaxEventTime \in Nat \ {0}

VARIABLES
  carrierAccount, \* the account's provider_type setting; "none" without account
  shipment,       \* the calls and their shipments rows
  waybill,        \* the carrier's bookings and their events, in the order reported
  eventLog,       \* shipment_events of each shipment
  tracking,       \* the SyncTracking calls
  muddled         \* shipments two calls tracked at once, or one of whose
                  \* statements failed

shippingVars == <<carrierAccount, shipment, waybill, eventLog, tracking, muddled>>

Shipments     == 1..NShipments
Trackings     == 1..NTrackings
Registry      == {"aramex", "dhl", "emiratespost"}
CarrierEvents == [time : 0..MaxEventTime, delivered : BOOLEAN, no : 1..MaxEvents]

NoShipment == [pc |-> "new", status |-> "none", tracked |-> FALSE]
NoWaybill  == [booked |-> FALSE, events |-> <<>>]
NoTracking == [pc |-> "new", shipment |-> 1, latest |-> 0, seen |-> {}, todo |-> {}]

ShippingInit ==
  /\ carrierAccount = "none"
  /\ shipment = [s \in Shipments |-> NoShipment]
  /\ waybill = [s \in Shipments |-> NoWaybill]
  /\ eventLog = [s \in Shipments |-> <<>>]
  /\ tracking = [y \in Trackings |-> NoTracking]
  /\ muddled = {}

-----------------------------------------------------------------------------
(* Accounts                                                                *)

InsertAccount(setting) == carrierAccount' = setting

\* Aramex is the one active provider; its settings may name the connector or
\* leave it open.
AddAccount(setting) ==
  /\ carrierAccount = "none"
  /\ InsertAccount(setting)
  /\ UNCHANGED <<shipment, waybill, eventLog, tracking, muddled>>

GetActiveAccountForProvider == {carrierAccount} \ {"none"}

-----------------------------------------------------------------------------
(* Booking                                                                 *)

InsertShipment(s) == [shipment EXCEPT ![s].pc = "inserted", ![s].status = "pending"]

CreateShipment(s) ==
  /\ shipment[s].pc = "new" /\ GetActiveAccountForProvider # {}
  /\ shipment' = InsertShipment(s)
  /\ UNCHANGED <<carrierAccount, waybill, eventLog, tracking, muddled>>

\* The carrier books, or refuses, or its answer is lost: then the row stays
\* pending, and nothing remembers the waybill.
BookWaybill(s) ==
  /\ shipment[s].pc = "inserted"
  /\ \/ /\ waybill' = [waybill EXCEPT ![s].booked = TRUE]
        /\ \E pc \in {"booked", "over"} : shipment' = [shipment EXCEPT ![s].pc = pc]
     \/ shipment' = [shipment EXCEPT ![s].pc = "over"] /\ UNCHANGED waybill
  /\ UNCHANGED <<carrierAccount, eventLog, tracking, muddled>>

\* Mutant of UpdateShipmentStatus: no number given takes the number away.
UpdateWithoutCoalesce(s, status, tracked) ==
  [shipment EXCEPT ![s].status = status, ![s].tracked = tracked]

\* COALESCE: without a tracking number the row keeps its own.
UpdateShipmentStatus(s, status, tracked) ==
  [shipment EXCEPT ![s].status = status, ![s].tracked = @ \/ tracked]

BookShipment(s) ==
  /\ shipment[s].pc = "booked"
  /\ shipment' = [UpdateShipmentStatus(s, "booked", TRUE) EXCEPT ![s].pc = "over"]
  /\ UNCHANGED <<carrierAccount, waybill, eventLog, tracking, muddled>>

\* The error of the update is logged, the answer says "booked"; or the server
\* stops.
LoseBooking(s) ==
  /\ shipment[s].pc \in {"inserted", "booked"}
  /\ shipment' = [shipment EXCEPT ![s].pc = "over"]
  /\ UNCHANGED <<carrierAccount, waybill, eventLog, tracking, muddled>>

\* The carrier reports an event of its waybill, whose time may be any.
ReportEvent(s) ==
  LET events == waybill[s].events
  IN  /\ waybill[s].booked /\ Len(events) < MaxEvents
      /\ \E time \in 0..MaxEventTime, delivered \in BOOLEAN :
           waybill' = [waybill EXCEPT ![s].events =
             Append(@, [time |-> time, delivered |-> delivered, no |-> Len(events) + 1])]
      /\ UNCHANGED <<carrierAccount, shipment, eventLog, tracking, muddled>>

-----------------------------------------------------------------------------
(* Tracking                                                                *)

Busy(s) == \E y \in Trackings : tracking[y].shipment = s /\ tracking[y].pc \in {"read", "asked"}

\* The newest time in the log, 0 when it is empty.
LatestKnown(s) ==
  LET times == {0} \cup {e.time : e \in Range(eventLog[s])}
  IN  CHOOSE t \in times : \A u \in times : u <= t

\* A shipment without a tracking number is left alone.
GetShipmentByID(y, s) ==
  /\ tracking[y].pc = "new" /\ \A x \in 1..(y - 1) : tracking[x].pc # "new"
  /\ shipment[s].tracked
  /\ tracking' = [tracking EXCEPT ![y] =
       [NoTracking EXCEPT !.pc = "read", !.shipment = s, !.latest = LatestKnown(s)]]
  /\ muddled' = IF Busy(s) THEN muddled \cup {s} ELSE muddled
  /\ UNCHANGED <<carrierAccount, shipment, waybill, eventLog>>

\* Without a setting it is the first of a Go map: any.
ConnectorFor(setting) == IF setting = "" THEN Registry ELSE {setting}

IsNew(e, latest) == e.time > latest

\* The carrier's events; only the new ones are left to insert.  The connectors
\* of the other carriers are stubs, which fail.
GetTracking(y) ==
  LET seen == Range(waybill[tracking[y].shipment].events)
  IN  /\ tracking[y].pc = "read" /\ "aramex" \in ConnectorFor(carrierAccount)
      /\ tracking' = [tracking EXCEPT ![y].pc = "asked", ![y].seen = seen,
                        ![y].todo = {e \in seen : IsNew(e, tracking[y].latest)}]
      /\ UNCHANGED <<carrierAccount, shipment, waybill, eventLog, muddled>>

FailTracking(y) ==
  /\ tracking[y].pc = "read"
  /\ tracking' = [tracking EXCEPT ![y].pc = "failed"]
  /\ UNCHANGED <<carrierAccount, shipment, waybill, eventLog, muddled>>

\* One after the other, in the carrier's order, which may be any; an error of the
\* insertion is logged and the loop goes on.
InsertEvent(y, e) ==
  LET s == tracking[y].shipment
  IN  /\ tracking[y].pc = "asked" /\ e \in tracking[y].todo
      /\ \/ eventLog' = [eventLog EXCEPT ![s] = Append(@, e)] /\ UNCHANGED muddled
         \/ muddled' = muddled \cup {s} /\ UNCHANGED eventLog
      /\ tracking' = [tracking EXCEPT ![y].todo = @ \ {e}]
      /\ UNCHANGED <<carrierAccount, shipment, waybill>>

\* The error of the update is not looked at.
SyncTracking(y) ==
  LET s == tracking[y].shipment
  IN  /\ tracking[y].pc = "asked" /\ tracking[y].todo = {}
      /\ tracking' = [tracking EXCEPT ![y].pc = "over"]
      /\ IF \E e \in tracking[y].seen : e.delivered
         THEN \/ shipment' = UpdateShipmentStatus(s, "delivered", FALSE) /\ UNCHANGED muddled
              \/ muddled' = muddled \cup {s} /\ UNCHANGED shipment
         ELSE UNCHANGED <<shipment, muddled>>
      /\ UNCHANGED <<carrierAccount, waybill, eventLog>>

\* The client goes away, or the server stops.
AbandonTracking(y) ==
  /\ tracking[y].pc = "asked"
  /\ tracking' = [tracking EXCEPT ![y].pc = "failed", ![y].todo = {}]
  /\ muddled' = muddled \cup {tracking[y].shipment}
  /\ UNCHANGED <<carrierAccount, shipment, waybill, eventLog>>

-----------------------------------------------------------------------------

\* GET /admin/shipments/{id}/tracking; an error of the sync is not looked at.
ShowTracking(y) == \E s \in Shipments : GetShipmentByID(y, s)

ShippingNext ==
  \/ \E setting \in {"", "aramex"} : AddAccount(setting)
  \/ \E s \in Shipments :
       CreateShipment(s) \/ BookWaybill(s) \/ BookShipment(s) \/ LoseBooking(s) \/ ReportEvent(s)
  \/ \E y \in Trackings :
       ShowTracking(y) \/ GetTracking(y) \/ FailTracking(y) \/ SyncTracking(y) \/ AbandonTracking(y)
  \/ \E y \in Trackings, e \in CarrierEvents : InsertEvent(y, e)

ShippingSpec == ShippingInit /\ [][ShippingNext]_shippingVars

ShippingTypeOK ==
  /\ carrierAccount \in {"none", "", "aramex"}
  /\ shipment \in [Shipments -> [pc : {"new", "inserted", "booked", "over"},
                                 status : {"none", "pending", "booked", "delivered"},
                                 tracked : BOOLEAN]]
  /\ waybill \in [Shipments -> [booked : BOOLEAN, events : Seq(CarrierEvents)]]
  /\ eventLog \in [Shipments -> Seq(CarrierEvents)]
  /\ tracking \in [Trackings -> [pc : {"new", "read", "asked", "over", "failed"},
                                 shipment : Shipments, latest : 0..MaxEventTime,
                                 seen : SUBSET CarrierEvents, todo : SUBSET CarrierEvents]]
  /\ muddled \subseteq Shipments

\* Reported after another one that is not older.
Late(s, e) == \E f \in Range(waybill[s].events) : f.no < e.no /\ f.time >= e.time

Logged(s, e) == Cardinality({i \in DOMAIN eventLog[s] : eventLog[s][i] = e})

\* Each event at most once, and after a call that ended each one it was shown.
LogTellsCarrier ==
  \A s \in Shipments \ muddled :
    /\ \A i, j \in DOMAIN eventLog[s] : eventLog[s][i] = eventLog[s][j] => i = j
    /\ \A y \in Trackings : tracking[y].pc = "over" /\ tracking[y].shipment = s =>
         \A e \in tracking[y].seen : e.time > 0 /\ ~Late(s, e) => Logged(s, e) = 1

\* A number only of a booking, which it keeps from then on, "booked" and
\* "delivered" only with one, and "delivered" only of what was delivered.
RowTellsCarrier ==
  \A s \in Shipments :
    LET row == shipment[s]
    IN  /\ row.tracked => waybill[s].booked
        /\ row.tracked = (row.status \in {"booked", "delivered"})
        /\ row.status = "delivered" => \E e \in Range(waybill[s].events) : e.delivered
        /\ \A y \in Trackings :
             /\ s \notin muddled /\ tracking[y].pc = "over" /\ tracking[y].shipment = s
             /\ \E e \in tracking[y].seen : e.delivered
             => row.status = "delivered"

(* The row and the log of a shipment say what the carrier has done, and     *)
(* after a call that ended all that it was shown, through any number of    *)
(* calls - unless two calls for the shipment overlapped or a statement     *)
(* failed, and but for events that came late or without a date             *)
(* (CreateShipment, SyncTracking: "to avoid duplicates").                  *)
ShipmentTellsCarrier == RowTellsCarrier /\ LogTellsCarrier
=============================================================================
