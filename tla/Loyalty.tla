------------------------------ MODULE Loyalty -------------------------------
(***************************************************************************)
(* Customers, their loyalty accounts and the ledger of points.             *)
(*                                                                         *)
(* AwardPoints and RedeemPoints lock the account row in a transaction at   *)
(* repeatable read, whose snapshot is taken by that first statement: a     *)
(* request that waits for the lock fails when the holder commits, and gets *)
(* the lock when it does not.  The rest of the transaction is one step.    *)
(* After the commit of an award the tier is written on a connection of its *)
(* own, and an error of that write is only logged.  The tier is that of    *)
(* the balance at hand: what was earned over the life of the account has   *)
(* no part in it, and an award after a redemption may take a tier away.    *)
(***************************************************************************)
EXTENDS Integers, Sequences

CONSTANTS
  NCustomers,                \* customers are 1..NCustomers
  NPointRequests,            \* AwardPoints and RedeemPoints requests
  MaxPoints,                 \* bound on the points of a request
  SilverAt, GoldAt, VipAt    \* 1000, 5000 and 20000 in the code

ASSUME LoyaltyAssumption ==
  /\ NCustomers \in Nat \ {0} /\ NPointRequests \in Nat /\ MaxPoints \in Nat \ {0}
  /\ {SilverAt, GoldAt, VipAt} \subseteq Nat
  /\ 0 < SilverAt /\ SilverAt < GoldAt /\ GoldAt < VipAt

VARIABLES
  customer,    \* customers: whether the row is there, and the tier
  account,     \* loyalty_accounts
  points,      \* loyalty_transactions of each account, in the order of commit
  pointsReq,   \* the requests
  tierUnsure   \* customers whose newest award lost its tier write, or had it
               \* overwritten by an older one

loyaltyVars == <<customer, account, points, pointsReq, tierUnsure>>

Customers     == 1..NCustomers
PointRequests == 1..NPointRequests
Tiers         == {"bronze", "silver", "gold", "vip"}

NewRequest == [pc |-> "new", customer |-> 1, delta |-> 0, before |-> 0, after |-> 0, row |-> 0]

LoyaltyInit ==
  /\ customer = [c \in Customers |-> [exists |-> FALSE, tier |-> "bronze"]]
  /\ account = [c \in Customers |-> [exists |-> FALSE, balance |-> 0, lifetime |-> 0]]
  /\ points = [c \in Customers |-> <<>>]
  /\ pointsReq = [q \in PointRequests |-> NewRequest]
  /\ tierUnsure = {}

-----------------------------------------------------------------------------
(* Customers                                                               *)

InsertCustomer(c) == [customer EXCEPT ![c] = [exists |-> TRUE, tier |-> "bronze"]]

\* An account that is there stays as it is.
GetOrCreateAccount(c) ==
  [account EXCEPT ![c] = IF @.exists THEN @
                         ELSE [exists |-> TRUE, balance |-> 0, lifetime |-> 0]]

\* The account is made by a second statement, whose failure is only logged:
\* such a customer has none, and no other code makes one.
CreateCustomer(c) ==
  /\ ~customer[c].exists
  /\ customer' = InsertCustomer(c)
  /\ account' = GetOrCreateAccount(c) \/ account' = account
  /\ UNCHANGED <<points, pointsReq, tierUnsure>>

-----------------------------------------------------------------------------
(* Points                                                                  *)

Holds(q) == pointsReq[q].pc = "locked"

\* Mutant of AccountFree: GetAccountByCustomerIDForUpdate without its lock.
AccountFreeAlways(c) == c \in Customers

AccountFree(c) == \A q \in PointRequests : ~(Holds(q) /\ pointsReq[q].customer = c)

\* A redemption asks for no more than the balance.
Covered(c, delta) == account[c].balance + delta >= 0

\* GetAccountByCustomerIDForUpdate with the lock at hand: the account is read,
\* and a redemption above the balance is refused.
Locking(q, c, delta) ==
  pointsReq' = [pointsReq EXCEPT ![q] =
    [pc |-> IF account[c].exists /\ Covered(c, delta) THEN "locked" ELSE "over",
     customer |-> c, delta |-> delta,
     before |-> account[c].balance, after |-> account[c].balance + delta, row |-> 0]]

\* AwardPoints (delta > 0) or RedeemPoints (delta < 0) comes.  An order below
\* one AED earns nothing and leaves no trace.
RequestPoints(q, c, delta) ==
  /\ pointsReq[q].pc = "new" /\ \A r \in 1..(q - 1) : pointsReq[r].pc # "new"
  /\ delta # 0
  /\ IF AccountFree(c) THEN Locking(q, c, delta)
     ELSE pointsReq' = [pointsReq EXCEPT ![q] =
            [NewRequest EXCEPT !.pc = "waiting", !.customer = c, !.delta = delta]]
  /\ UNCHANGED <<customer, account, points, tierUnsure>>

\* The holder rolled back.
LockAfterWait(q) ==
  /\ pointsReq[q].pc = "waiting" /\ AccountFree(pointsReq[q].customer)
  /\ Locking(q, pointsReq[q].customer, pointsReq[q].delta)
  /\ UNCHANGED <<customer, account, points, tierUnsure>>

\* A relative update of the balance; only what is earned counts for life.
AddPoints(c, delta) ==
  [account EXCEPT ![c].balance = @ + delta,
                  ![c].lifetime = @ + (IF delta > 0 THEN delta ELSE 0)]

InsertTransaction(q) ==
  [points EXCEPT ![pointsReq[q].customer] = Append(@,
     [delta |-> pointsReq[q].delta, before |-> pointsReq[q].before,
      after |-> account[pointsReq[q].customer].balance + pointsReq[q].delta])]

\* The update, the ledger row and the commit.  The check points_balance >= 0
\* is the database's; whoever waited for the row fails.  An award whose
\* commit's reply is lost goes on as one whose tier write is.
CommitPoints(q) ==
  LET c == pointsReq[q].customer
      delta == pointsReq[q].delta
  IN  /\ Holds(q)
      /\ account[c].balance + delta >= 0
      /\ account' = AddPoints(c, delta)
      /\ points' = InsertTransaction(q)
      /\ pointsReq' = [r \in PointRequests |->
           IF r = q THEN [pointsReq[r] EXCEPT !.pc = IF delta > 0 THEN "tier" ELSE "over",
                                              !.row = Len(points[c]) + 1]
           ELSE IF pointsReq[r].pc = "waiting" /\ pointsReq[r].customer = c
                THEN [pointsReq[r] EXCEPT !.pc = "over"]
                ELSE pointsReq[r]]
      /\ UNCHANGED <<customer, tierUnsure>>

\* The request fails before its commit.
FailPoints(q) ==
  /\ pointsReq[q].pc \in {"waiting", "locked"}
  /\ pointsReq' = [pointsReq EXCEPT ![q].pc = "over"]
  /\ UNCHANGED <<customer, account, points, tierUnsure>>

-----------------------------------------------------------------------------
(* Tiers                                                                   *)

\* The first threshold, from the top, that the balance reaches.
TierOf(balance) ==
  IF balance >= VipAt THEN "vip" ELSE IF balance >= GoldAt THEN "gold"
  ELSE IF balance >= SilverAt THEN "silver" ELSE "bronze"

UpdateCustomerTier(c, tier) == [customer EXCEPT ![c].tier = tier]

\* Mutant of NewBalance: the balance that was read, before the points.
BalanceBefore(q) == pointsReq[q].before

\* What AwardPoints hands to maybePromoteTier.
NewBalance(q) == pointsReq[q].after

EarnedRows(rows) == {i \in DOMAIN rows : rows[i].delta > 0}

\* No award of the account was committed after that of q.
Newest(q) ==
  \A i \in EarnedRows(points[pointsReq[q].customer]) : i <= pointsReq[q].row

\* The write of the newest award settles the tier; that of an older one makes
\* it unsure.
MaybePromoteTier(q) ==
  LET c == pointsReq[q].customer
  IN  /\ pointsReq[q].pc = "tier"
      /\ customer' = UpdateCustomerTier(c, TierOf(NewBalance(q)))
      /\ pointsReq' = [pointsReq EXCEPT ![q].pc = "over"]
      /\ tierUnsure' = IF Newest(q) THEN tierUnsure \ {c} ELSE tierUnsure \cup {c}
      /\ UNCHANGED <<account, points>>

\* The write fails, or the server stops before it.
LoseTier(q) ==
  /\ pointsReq[q].pc = "tier"
  /\ tierUnsure' = IF Newest(q) THEN tierUnsure \cup {pointsReq[q].customer} ELSE tierUnsure
  /\ pointsReq' = [pointsReq EXCEPT ![q].pc = "over"]
  /\ UNCHANGED <<customer, account, points>>

-----------------------------------------------------------------------------

LoyaltyNext ==
  \/ \E c \in Customers : CreateCustomer(c)
  \/ \E q \in PointRequests, c \in Customers, delta \in (-MaxPoints)..MaxPoints :
       RequestPoints(q, c, delta)
  \/ \E q \in PointRequests :
       LockAfterWait(q) \/ CommitPoints(q) \/ FailPoints(q) \/ MaybePromoteTier(q) \/ LoseTier(q)

LoyaltySpec == LoyaltyInit /\ [][LoyaltyNext]_loyaltyVars

LoyaltyTypeOK ==
  /\ customer \in [Customers -> [exists : BOOLEAN, tier : Tiers]]
  /\ account \in [Customers -> [exists : BOOLEAN, balance : Nat, lifetime : Nat]]
  /\ points \in [Customers -> Seq([delta : Int, before : Int, after : Int])]
  /\ pointsReq \in [PointRequests ->
       [pc : {"new", "waiting", "locked", "tier", "over"}, customer : Customers,
        delta : Int, before : Int, after : Int, row : Nat]]
  /\ tierUnsure \in SUBSET Customers

(* The ledger explains the balance: its rows follow each other, each starts *)
(* from the balance the one before has left, none goes below zero, and the *)
(* last one ends at the balance of the account, whatever awards and        *)
(* redemptions of the account race (AwardPoints, RedeemPoints).            *)
LedgerChains ==
  \A c \in Customers :
    LET rows == points[c]
    IN  /\ \A i \in DOMAIN rows :
             /\ rows[i].before = IF i = 1 THEN 0 ELSE rows[i - 1].after
             /\ rows[i].after = rows[i].before + rows[i].delta
             /\ rows[i].after >= 0
        /\ account[c].balance = IF rows = <<>> THEN 0 ELSE rows[Len(rows)].after

AwardedBalance(rows) ==
  IF EarnedRows(rows) = {} THEN 0
  ELSE rows[CHOOSE last \in EarnedRows(rows) : \A i \in EarnedRows(rows) : i <= last].after

\* Awards of a customer whose tier write is to come.
TierPending(c) == {q \in PointRequests : pointsReq[q].pc = "tier" /\ pointsReq[q].customer = c}

(* The tier is that of the balance the newest award has left, from the     *)
(* write of that award on, however the writes of others are lost or cross: *)
(* only an older write that comes after it, or the loss of its own, may    *)
(* leave another tier, until the next award (maybePromoteTier).            *)
TierFollowsAwards ==
  \A c \in Customers \ tierUnsure :
    (\A q \in TierPending(c) : ~Newest(q)) => customer[c].tier = TierOf(AwardedBalance(points[c]))

(* The tier is that of the points earned over the life of the account      *)
(* ("Tier thresholds (lifetime_points)", service/customer.go;              *)
(* ARCHITECTURE.md, "Tier-driven").                                        *)
TierFollowsLifetime ==
  \A c \in Customers \ tierUnsure :
    TierPending(c) = {} => customer[c].tier = TierOf(account[c].lifetime)
=============================================================================
