---------------------------- MODULE ChannelOrders ---------------------------
(***************************************************************************)
(* Import of a channel's orders: an account is connected, and the worker   *)
(* asks its platform again and again for the open orders of the last six   *)
(* hours and stores them.                                                  *)
(*                                                                         *)
(* Time is counted in ticks of which LookBack make the six hours.  The     *)
(* platform answers at most 250 orders; which ones, when there are more,   *)
(* is its choice.                                                          *)
(***************************************************************************)
EXTENDS Integers, FiniteSets

CONSTANTS
  NExternalOrders,  \* orders on the platform are 1..NExternalOrders
  LookBack,         \* six hours
  MaxTime,          \* bound on the clock
  FetchLimit,       \* 250
  NImports          \* runs of the import

ASSUME ChannelOrdersAssumption ==
  /\ NExternalOrders \in Nat /\ LookBack \in Nat /\ MaxTime \in Nat \ {0}
  /\ FetchLimit \in Nat \ {0} /\ NImports \in Nat

VARIABLES
  now,
  channel,       \* "none", "platform" (the account's row is missing), "connected"
  externalOrder, \* orders on the platform: when each was placed (0: not yet), if it is open
  platformOrder, \* platform_orders: the external orders that are stored
  import,        \* the runs of ImportOrders
  lastFetch,     \* when the platform last answered, 0 before
  excused        \* orders that closed, fell into a gap between answers longer
                 \* than LookBack, were cut off by the limit or failed to be stored

channelOrdersVars ==
  <<now, channel, externalOrder, platformOrder, import, lastFetch, excused>>

ExternalOrders == 1..NExternalOrders
Imports        == 1..NImports

ChannelOrdersInit ==
  /\ now = 1 /\ channel = "none"
  /\ externalOrder = [o \in ExternalOrders |-> [placed |-> 0, open |-> TRUE]]
  /\ platformOrder = {}
  /\ import = [i \in Imports |-> [pc |-> "new", todo |-> {}]]
  /\ lastFetch = 0 /\ excused = {}

-----------------------------------------------------------------------------
(* Connection                                                              *)

InsertPlatform == channel' = "platform"

InsertPlatformAccount == channel' = "connected"

\* ConnectPlatform writes the platform, then the account; the route asks for
\* a type and a key.  After a failure in between, another call begins anew.
ConnectPlatform ==
  /\ \/ channel = "none" /\ InsertPlatform
     \/ channel = "platform" /\ InsertPlatformAccount
  /\ UNCHANGED <<now, externalOrder, platformOrder, import, lastFetch, excused>>

ListAllActiveAccounts == IF channel = "connected" THEN {channel} ELSE {}

-----------------------------------------------------------------------------
(* The platform and its clock                                              *)

Tick ==
  /\ now < MaxTime
  /\ now' = now + 1
  /\ UNCHANGED <<channel, externalOrder, platformOrder, import, lastFetch, excused>>

PlaceOrder(o) ==
  /\ externalOrder[o].placed = 0
  /\ externalOrder' = [externalOrder EXCEPT ![o].placed = now]
  /\ UNCHANGED <<now, channel, platformOrder, import, lastFetch, excused>>

CloseOrder(o) ==
  /\ externalOrder[o].placed # 0 /\ externalOrder[o].open
  /\ externalOrder' = [externalOrder EXCEPT ![o].open = FALSE]
  /\ excused' = excused \cup {o}
  /\ UNCHANGED <<now, channel, platformOrder, import, lastFetch>>

\* The open orders created since then.
OpenSince(since) ==
  {o \in ExternalOrders :
     externalOrder[o].placed # 0 /\ externalOrder[o].open /\ externalOrder[o].placed >= since}

\* All of them, or as many as the platform gives.
Answers(since) ==
  LET window == OpenSince(since)
  IN  IF Cardinality(window) <= FetchLimit THEN {window}
      ELSE {part \in SUBSET window : Cardinality(part) = FetchLimit}

-----------------------------------------------------------------------------
(* ImportOrders                                                            *)

\* Mutant of Since: only the orders since the last run.
SinceNow == now

\* HandleImportChannelOrders looks six hours back.
Since == now - LookBack

MissedInGap ==
  {o \in ExternalOrders :
     externalOrder[o].placed # 0 /\ externalOrder[o].placed < Since
       /\ (lastFetch = 0 \/ lastFetch < now - LookBack)}

\* The platform answers; an error is logged, and the next run tries again.
FetchOrders(i) ==
  /\ import[i].pc = "new" /\ \A j \in 1..(i - 1) : import[j].pc # "new"
  /\ ListAllActiveAccounts # {}
  /\ \/ \E orders \in Answers(Since) :
          /\ import' = [import EXCEPT ![i] = [pc |-> "fetched", todo |-> orders]]
          /\ lastFetch' = now
          /\ excused' = excused \cup MissedInGap \cup (OpenSince(Since) \ orders)
     \/ /\ import' = [import EXCEPT ![i].pc = "over"]
        /\ UNCHANGED <<lastFetch, excused>>
  /\ UNCHANGED <<now, channel, externalOrder, platformOrder>>

\* An order that is there is set to pending again.
UpsertPlatformOrder(o) == platformOrder' = platformOrder \cup {o}

\* One order after the other; one that cannot be stored is logged.
ImportOrder(i, o) ==
  /\ import[i].pc = "fetched" /\ o \in import[i].todo
  /\ \/ UpsertPlatformOrder(o) /\ UNCHANGED excused
     \/ platformOrder' = platformOrder /\ excused' = excused \cup {o}
  /\ import' = [import EXCEPT ![i].todo = @ \ {o}]
  /\ UNCHANGED <<now, channel, externalOrder, lastFetch>>

EndImport(i) ==
  /\ import[i].pc = "fetched" /\ import[i].todo = {}
  /\ import' = [import EXCEPT ![i].pc = "over"]
  /\ UNCHANGED <<now, channel, externalOrder, platformOrder, lastFetch, excused>>

\* The two minutes of the task are over, or the worker stops.
AbandonImport(i) ==
  /\ import[i].pc = "fetched" /\ import[i].todo # {}
  /\ import' = [import EXCEPT ![i] = [pc |-> "over", todo |-> {}]]
  /\ excused' = excused \cup import[i].todo
  /\ UNCHANGED <<now, channel, externalOrder, platformOrder, lastFetch>>

-----------------------------------------------------------------------------

ChannelOrdersNext ==
  \/ ConnectPlatform
  \/ Tick
  \/ \E o \in ExternalOrders : PlaceOrder(o) \/ CloseOrder(o)
  \/ \E i \in Imports : FetchOrders(i) \/ EndImport(i) \/ AbandonImport(i)
  \/ \E i \in Imports, o \in ExternalOrders : ImportOrder(i, o)

ChannelOrdersSpec == ChannelOrdersInit /\ [][ChannelOrdersNext]_channelOrdersVars

ChannelOrdersTypeOK ==
  /\ now \in 1..MaxTime /\ lastFetch \in 0..MaxTime
  /\ channel \in {"none", "platform", "connected"}
  /\ externalOrder \in [ExternalOrders -> [placed : 0..MaxTime, open : BOOLEAN]]
  /\ platformOrder \subseteq ExternalOrders /\ excused \subseteq ExternalOrders
  /\ import \in [Imports -> [pc : {"new", "fetched", "over"}, todo : SUBSET ExternalOrders]]

(* No order falls between two runs: one that was placed before the         *)
(* platform last answered is stored or about to be, as long as it stayed   *)
(* open, answers were never further apart than the look-back, the window   *)
(* was within the limit and storing it did not fail                        *)
(* (HandleImportChannelOrders, ImportOrders).                              *)
NoOrderMissed ==
  \A o \in ExternalOrders \ excused :
    externalOrder[o].placed \in 1..(lastFetch - 1)
    => o \in platformOrder \/ \E i \in Imports : o \in import[i].todo
=============================================================================
