----------------------------- MODULE AccountProofs -----------------------------
(***************************************************************************)
(* The safety of the accounts of customers and users, for any number of    *)
(* them and of requests: the ledger of points explains the balance and the *)
(* tier, a token that is let in tells the truth about roles, versions and  *)
(* revocations, and a session has one refresh token.                       *)
(***************************************************************************)
EXTENDS Loyalty, AuthVersions, Sessions, SumLemmas, FiniteSetTheorems

-----------------------------------------------------------------------------
(* Loyalty: the inductive invariant                                        *)

\* The request that has the account locked has read what the account still is.
LockedIsCurrent ==
  \A q \in PointRequests :
    LET r == pointsReq[q]
    IN  Holds(q) => /\ account[r.customer].exists
                    /\ r.before = account[r.customer].balance
                    /\ r.after = r.before + r.delta

\* An account row is locked by one request at a time.
OneHolder ==
  \A q, r \in PointRequests :
    Holds(q) /\ Holds(r) /\ pointsReq[q].customer = pointsReq[r].customer => q = r

\* No account without its customer, no ledger without its account.
Nested ==
  \A c \in Customers : /\ ~account[c].exists => points[c] = <<>> /\ account[c].balance = 0
                       /\ ~customer[c].exists => ~account[c].exists

\* The tier write that is pending is of a row of the ledger.
PendingRows ==
  \A c \in Customers : \A q \in TierPending(c) :
    /\ pointsReq[q].row \in EarnedRows(points[c])
    /\ points[c][pointsReq[q].row].after = pointsReq[q].after

LoyaltyInv ==
  /\ LoyaltyTypeOK /\ LedgerChains /\ LockedIsCurrent /\ OneHolder /\ Nested
  /\ PendingRows /\ TierFollowsAwards

-----------------------------------------------------------------------------
(* Permission versions: the inductive invariant                            *)

\* A token is of a user who exists, and no newer than the user.
TokensOfUsers ==
  \A t \in Tokens : token[t].pc # "new" =>
    LET u == token[t].user
    IN  u \in Users /\ user[u].exists /\ token[t].version <= user[u].version

\* A token of the current version tells the roles from the moment the version
\* of the last change of roles is bumped.
BumpedTokensTellRoles ==
  \A t \in Tokens :
    LET u == token[t].user
    IN  /\ token[t].pc = "issued" /\ u \notin distrusted
        /\ \A c \in Changes : ~(change[c].pc = "changed" /\ change[c].user = u)
        /\ token[t].version = user[u].version
        => token[t].roles = user[u].roles

\* What a change that has returned has left, no version in the cache is before.
CacheSettled ==
  \A u \in Users :
    /\ settled[u] <= user[u].version
    /\ ~user[u].exists => user[u].version = NewUser.version
    /\ u \notin distrusted /\ cached[u] # Absent => settled[u] <= cached[u]

\* A request has an issued token, and has read no version from before it came;
\* what it let in is as new, or the user is distrusted.
RequestsSettled ==
  \A q \in Requests :
    LET r == request[q]
        t == r.token
    IN  /\ r.pc # "new" => t \in Tokens /\ token[t].pc = "issued"
        /\ r.pc = "read" => r.since <= r.version
        /\ r.pc = "granted" => token[t].version >= r.since \/ token[t].user \in distrusted

ChangesOfUsers ==
  \A c \in Changes : change[c].pc # "new" =>
    change[c].user \in Users /\ user[change[c].user].exists

AuthInv ==
  /\ AuthTypeOK /\ TokensOfUsers /\ BumpedTokensTellRoles /\ CacheSettled
  /\ RequestsSettled /\ ChangesOfUsers

-----------------------------------------------------------------------------
(* Sessions: the inductive invariant                                       *)

Refreshing(s) ==
  {f \in Refreshes : refresh[f].pc \in {"read", "removed"} /\ pair[refresh[f].token].session = s}
GoodTokens(s) == {p \in storedTokens : pair[p].session = s}

\* A session that has not branched has one refresh at a time.  While it reads,
\* no token but its own is good; once that is removed, none is.
OneBranch ==
  \A s \in Logins \ branched :
    /\ \A p, q \in GoodTokens(s) : p = q
    /\ \A f, g \in Refreshing(s) : f = g
    /\ \A f \in Refreshing(s) :
         GoodTokens(s) \subseteq IF refresh[f].pc = "read" THEN {refresh[f].token} ELSE {}

\* A session begins with its login, in pair s.
SessionOrder ==
  /\ \A p \in Pairs : pair[p] # NoPair => pair[p].session \in Logins /\ pair[pair[p].session] # NoPair
  /\ \A p \in storedTokens : pair[p] # NoPair
  /\ \A f \in Refreshes : /\ refresh[f].pc \in {"read", "removed"} => pair[refresh[f].token] # NoPair
                          /\ refresh[f].pc # "over" => pair[NLogins + f] = NoPair

\* The key counts the revocations.  A pair carries the count at its birth, or
\* the baseline.
VersionsBorn ==
  /\ globalKey = revocations
  /\ \A p \in Pairs : pair[p].born <= revocations /\ pair[p].version \in {Baseline, pair[p].born}
  /\ \A c \in Checks : check[c].pc = "granted" => pair[check[c].pair] # NoPair

SessionsInv ==
  /\ SessionsTypeOK /\ OneBranch /\ SessionOrder /\ VersionsBorn
  /\ RevokedStayRefused

-----------------------------------------------------------------------------
(* Loyalty: the proof                                                      *)

LEMMA LoyaltyInitSafe == LoyaltyInit => LoyaltyInv
<1> SUFFICES ASSUME LoyaltyInit PROVE LoyaltyInv
  OBVIOUS
<1>1. LoyaltyTypeOK
  <2>1. 1 \in Customers
    BY LoyaltyAssumption DEF Customers
  <2> QED
    BY <2>1 DEF LoyaltyInit, LoyaltyTypeOK, NewRequest, Tiers
<1>2. LedgerChains /\ Nested
  BY DEF LoyaltyInit, LedgerChains, Nested
<1>3. LockedIsCurrent /\ OneHolder
  BY DEF LoyaltyInit, LockedIsCurrent, OneHolder, Holds, NewRequest
<1>4. PendingRows /\ TierFollowsAwards
  <2>1. \A c \in Customers : EarnedRows(points[c]) = {} /\ TierPending(c) = {}
    BY DEF LoyaltyInit, EarnedRows, TierPending, NewRequest
  <2> QED
    BY <2>1, LoyaltyAssumption
    DEF LoyaltyInit, PendingRows, TierFollowsAwards, AwardedBalance, TierOf
<1> QED
  BY <1>1, <1>2, <1>3, <1>4 DEF LoyaltyInv

\* A set of row numbers that is not empty has a last one.
LEMMA LastOfSome ==
  ASSUME NEW n \in Nat, NEW E, E \subseteq 1..n, E # {}
  PROVE  (CHOOSE last \in E : \A i \in E : i <= last) \in E
<1> DEFINE T == {k \in 0..n : n - k \in E}
<1>0. \A i \in E : i \in 1..n /\ n - i \in T
  <2> SUFFICES ASSUME NEW i \in E PROVE i \in 1..n /\ n - i \in T
    OBVIOUS
  <2>1. i \in 1..n /\ n - i \in 0..n /\ n - (n - i) = i
    OBVIOUS
  <2> QED BY <2>1
<1>1. T \subseteq Nat /\ T # {}
  <2>1. T \subseteq Nat
    OBVIOUS
  <2> HIDE DEF T
  <2> QED BY <1>0, <2>1
<1>2. PICK x \in T : \A y \in T : ~(y < x)
  BY <1>1, NatMin
<1>3. n - x \in E /\ x \in 0..n
  BY <1>2
<1>4. ASSUME NEW i \in E PROVE i <= n - x
  <2>1. i \in 1..n /\ n - i \in T
    BY <1>0
  <2> HIDE DEF T
  <2>2. ~(n - i < x)
    BY <1>2, <2>1
  <2> QED BY <1>3, <2>1, <2>2
<1> QED
  BY <1>3, <1>4

\* A row at the end of a ledger is the last award if it is an award, and leaves
\* the last award as it was if it is a redemption.
LEMMA AwardedByAppend ==
  ASSUME NEW rows \in Seq([delta : Int, before : Int, after : Int]),
         NEW row \in [delta : Int, before : Int, after : Int]
  PROVE  AwardedBalance(Append(rows, row)) = IF row.delta > 0 THEN row.after
                                             ELSE AwardedBalance(rows)
<1> DEFINE n == Len(rows)
           more == Append(rows, row)
           E == EarnedRows(rows)
           F == EarnedRows(more)
<1>1. /\ n \in Nat /\ DOMAIN rows = 1..n /\ DOMAIN more = 1..(n + 1)
      /\ more[n + 1] = row /\ \A i \in 1..n : more[i] = rows[i]
      /\ row.delta \in Int
  OBVIOUS
<1>2. /\ E = {i \in 1..n : rows[i].delta > 0}
      /\ F = {i \in 1..(n + 1) : more[i].delta > 0}
  BY <1>1 DEF EarnedRows
<1>3. /\ AwardedBalance(rows)
           = IF E = {} THEN 0 ELSE rows[CHOOSE last \in E : \A i \in E : i <= last].after
      /\ AwardedBalance(more)
           = IF F = {} THEN 0 ELSE more[CHOOSE last \in F : \A i \in F : i <= last].after
  BY DEF AwardedBalance
<1> HIDE DEF n, more, E, F
<1>4. CASE row.delta > 0
  <2>1. n + 1 \in F /\ \A i \in F : i <= n + 1 /\ i \in Int
    BY <1>1, <1>2, <1>4
  <2>2. \A last \in F : (\A i \in F : i <= last) <=> last = n + 1
    BY <1>1, <2>1
  <2>3. (CHOOSE last \in F : \A i \in F : i <= last) = n + 1
    BY <2>1, <2>2
  <2> QED
    BY <1>1, <1>3, <1>4, <2>1, <2>3 DEF more
<1>5. CASE ~(row.delta > 0)
  <2>1. F = E
    BY SMTT(20), <1>1, <1>2, <1>5
  <2>2. \A i \in E : more[i].after = rows[i].after
    BY <1>1, <1>2
  <2>3. E # {} => (CHOOSE last \in E : \A i \in E : i <= last) \in E
    <3>1. E \subseteq 1..n
      BY <1>2
    <3> QED
      BY <1>1, <3>1, LastOfSome
  <2>4. AwardedBalance(more) = AwardedBalance(rows)
    <3>1. CASE E = {}
      BY <1>3, <2>1, <3>1
    <3>2. CASE E # {}
      <4>1. PICK last \in E : last = CHOOSE l \in E : \A i \in E : i <= l
        BY <2>3, <3>2
      <4>2. AwardedBalance(rows) = rows[last].after /\ AwardedBalance(more) = more[last].after
        BY <1>3, <2>1, <3>2, <4>1
      <4> QED BY <2>2, <4>2
    <3> QED BY <3>1, <3>2
  <2> QED
    BY <1>5, <2>4 DEF more
<1> QED BY <1>4, <1>5

\* A row at the end of a ledger is earned if it is an award.
LEMMA EarnedByAppend ==
  ASSUME NEW rows \in Seq([delta : Int, before : Int, after : Int]),
         NEW row \in [delta : Int, before : Int, after : Int]
  PROVE  EarnedRows(Append(rows, row))
           = EarnedRows(rows) \cup (IF row.delta > 0 THEN {Len(rows) + 1} ELSE {})
<1> DEFINE n == Len(rows)
           more == Append(rows, row)
<1>1. /\ n \in Nat /\ DOMAIN rows = 1..n /\ DOMAIN more = 1..(n + 1)
      /\ more[n + 1] = row /\ \A i \in 1..n : more[i] = rows[i]
  OBVIOUS
<1>2. 1..(n + 1) = (1..n) \cup {n + 1}
  BY <1>1
<1> HIDE DEF n, more
<1> QED
  BY <1>1, <1>2 DEF EarnedRows, n, more

\* The award whose row is the last earned one has left the balance the tier is
\* of.
LEMMA NewestRow ==
  ASSUME LoyaltyInv, NEW c \in Customers, NEW q \in TierPending(c), Newest(q)
  PROVE  AwardedBalance(points[c]) = pointsReq[q].after
<1> DEFINE E == EarnedRows(points[c])
           k == pointsReq[q].row
<1>1. /\ k \in E /\ points[c][k].after = pointsReq[q].after
      /\ \A i \in E : i <= k /\ i \in Nat
  <2>1. k \in E /\ points[c][k].after = pointsReq[q].after
    BY DEF LoyaltyInv, PendingRows
  <2>2. \A i \in E : i <= k
    BY DEF Newest, TierPending
  <2>3. points[c] \in Seq([delta : Int, before : Int, after : Int])
    BY DEF LoyaltyInv, LoyaltyTypeOK
  <2>4. \A i \in E : i \in Nat
    BY <2>3 DEF EarnedRows
  <2> QED BY <2>1, <2>2, <2>4
<1>2. AwardedBalance(points[c])
        = IF E = {} THEN 0 ELSE points[c][CHOOSE last \in E : \A i \in E : i <= last].after
  BY DEF AwardedBalance
<1> HIDE DEF E, k
<1>3. \A last \in E : (\A i \in E : i <= last) <=> last = k
  BY <1>1
<1>4. (CHOOSE last \in E : \A i \in E : i <= last) = k
  BY <1>1, <1>3
<1> QED
  BY <1>1, <1>2, <1>4

\* What the ledger says of an account that nothing is written to.
LEMMA LedgerKept ==
  ASSUME LoyaltyInv, account' = account, points' = points
  PROVE  LedgerChains' /\ \A c \in Customers : AwardedBalance(points'[c]) = AwardedBalance(points[c])
  BY DEF LoyaltyInv, LedgerChains, AwardedBalance, EarnedRows

\* A request that takes the account's lock, or comes to its end.
LEMMA RequestKeeps ==
  ASSUME LoyaltyInv, NEW q \in PointRequests,
         NEW r \in [pc : {"waiting", "locked", "over"}, customer : Customers,
                    delta : Int, before : Int, after : Int, row : Nat],
         pointsReq' = [pointsReq EXCEPT ![q] = r],
         pointsReq[q].pc # "tier",
         r.pc = "locked" =>
           /\ AccountFree(r.customer)
           /\ account[r.customer].exists
           /\ r.before = account[r.customer].balance
           /\ r.after = r.before + r.delta,
         UNCHANGED <<customer, account, points, tierUnsure>>
  PROVE  LoyaltyInv'
<1>1. LoyaltyTypeOK'
  BY DEF LoyaltyInv, LoyaltyTypeOK
<1>2. LedgerChains' /\ \A c \in Customers : AwardedBalance(points'[c]) = AwardedBalance(points[c])
  BY LedgerKept
<1>3. /\ pointsReq'[q] = r /\ r.pc # "tier"
      /\ \A p \in PointRequests : p # q => pointsReq'[p] = pointsReq[p]
  BY DEF LoyaltyInv, LoyaltyTypeOK
<1>4. LockedIsCurrent'
  BY <1>3 DEF LoyaltyInv, LockedIsCurrent, Holds
<1>5. OneHolder'
  BY <1>3 DEF LoyaltyInv, OneHolder, Holds, AccountFree
<1>6. Nested'
  BY DEF LoyaltyInv, Nested
<1>7. \A c \in Customers : TierPending(c)' = TierPending(c)
  BY <1>3 DEF TierPending
<1>8. \A c \in Customers : \A p \in TierPending(c) :
        pointsReq'[p] = pointsReq[p] /\ (Newest(p)' <=> Newest(p))
  BY <1>3 DEF TierPending, Newest, EarnedRows
<1>9. PendingRows' /\ TierFollowsAwards'
  <2>1. PendingRows'
    BY <1>7, <1>8 DEF LoyaltyInv, PendingRows, EarnedRows
  <2> QED
    BY <1>2, <1>7, <1>8, <2>1 DEF LoyaltyInv, TierFollowsAwards, TierOf
<1> QED
  BY <1>1, <1>2, <1>4, <1>5, <1>6, <1>9 DEF LoyaltyInv

LEMMA CreateCustomerKeeps ==
  ASSUME LoyaltyInv, NEW c \in Customers, CreateCustomer(c)
  PROVE  LoyaltyInv'
<1>1. /\ ~account[c].exists /\ account[c].balance = 0 /\ points[c] = <<>>
      /\ account' \in [Customers -> [exists : BOOLEAN, balance : Nat, lifetime : Nat]]
      /\ customer' \in [Customers -> [exists : BOOLEAN, tier : Tiers]]
      /\ \A d \in Customers : d # c => account'[d] = account[d] /\ customer'[d] = customer[d]
      /\ account'[c].balance = 0 /\ customer'[c].tier = "bronze" /\ customer'[c].exists
      /\ UNCHANGED <<points, pointsReq, tierUnsure>>
  <2>1. /\ ~account[c].exists /\ account[c].balance = 0 /\ points[c] = <<>>
        /\ UNCHANGED <<points, pointsReq, tierUnsure>>
    BY DEF LoyaltyInv, Nested, CreateCustomer
  <2>2. /\ customer \in [Customers -> [exists : BOOLEAN, tier : Tiers]]
        /\ account \in [Customers -> [exists : BOOLEAN, balance : Nat, lifetime : Nat]]
    BY DEF LoyaltyInv, LoyaltyTypeOK
  <2>3. customer' = [customer EXCEPT ![c] = [exists |-> TRUE, tier |-> "bronze"]]
    BY DEF CreateCustomer, InsertCustomer
  <2>4. account' = account
        \/ account' = [account EXCEPT ![c] = [exists |-> TRUE, balance |-> 0, lifetime |-> 0]]
    BY <2>1, <2>2 DEF CreateCustomer, GetOrCreateAccount
  <2>5. /\ account' \in [Customers -> [exists : BOOLEAN, balance : Nat, lifetime : Nat]]
        /\ account'[c].balance = 0
        /\ \A d \in Customers : d # c => account'[d] = account[d]
    <3>1. CASE account' = account
      BY <2>1, <2>2, <3>1
    <3>2. CASE account' = [account EXCEPT ![c] = [exists |-> TRUE, balance |-> 0, lifetime |-> 0]]
      BY <2>2, <3>2
    <3> QED BY <2>4, <3>1, <3>2
  <2>6. /\ customer' \in [Customers -> [exists : BOOLEAN, tier : Tiers]]
        /\ customer'[c].tier = "bronze" /\ customer'[c].exists
        /\ \A d \in Customers : d # c => customer'[d] = customer[d]
    BY <2>2, <2>3 DEF Tiers
  <2> QED
    BY <2>1, <2>5, <2>6
<1>2. LoyaltyTypeOK'
  BY <1>1 DEF LoyaltyInv, LoyaltyTypeOK
<1>3. LedgerChains'
  BY <1>1 DEF LoyaltyInv, LedgerChains
<1>4. LockedIsCurrent' /\ OneHolder'
  <2>1. \A q \in PointRequests : Holds(q) => pointsReq[q].customer \in Customers \ {c}
    BY <1>1 DEF LoyaltyInv, LoyaltyTypeOK, LockedIsCurrent
  <2> QED
    BY <1>1, <2>1 DEF LoyaltyInv, LockedIsCurrent, OneHolder, Holds
<1>5. Nested'
  BY <1>1 DEF LoyaltyInv, Nested
<1>6. PendingRows' /\ TierFollowsAwards'
  <2>1. \A d \in Customers : /\ TierPending(d)' = TierPending(d)
                             /\ AwardedBalance(points'[d]) = AwardedBalance(points[d])
                             /\ \A q \in TierPending(d) : Newest(q)' <=> Newest(q)
    BY <1>1 DEF TierPending, AwardedBalance, EarnedRows, Newest
  <2>2. AwardedBalance(points[c]) = 0 /\ TierOf(0) = "bronze"
    BY <1>1, LoyaltyAssumption DEF AwardedBalance, EarnedRows, TierOf
  <2>3. PendingRows'
    BY <1>1, <2>1 DEF LoyaltyInv, PendingRows, EarnedRows
  <2>4. TierFollowsAwards'
    <3> SUFFICES ASSUME NEW d \in Customers \ tierUnsure, \A q \in TierPending(d) : ~Newest(q)
                 PROVE  customer'[d].tier = TierOf(AwardedBalance(points'[d]))
      BY <1>1, <2>1 DEF TierFollowsAwards, TierOf
    <3>1. customer[d].tier = TierOf(AwardedBalance(points[d]))
      BY DEF LoyaltyInv, TierFollowsAwards
    <3>2. d = c \/ customer'[d] = customer[d]
      BY <1>1
    <3> QED
      BY <1>1, <2>1, <2>2, <3>1, <3>2
  <2> QED BY <2>3, <2>4
<1> QED
  BY <1>2, <1>3, <1>4, <1>5, <1>6 DEF LoyaltyInv

\* The commit of an award or a redemption: a row at the end of the ledger, from
\* the balance the request has read, which is the balance still.
LEMMA CommitPointsKeeps ==
  ASSUME LoyaltyInv, NEW q \in PointRequests, CommitPoints(q)
  PROVE  LoyaltyInv'
<1> DEFINE c     == pointsReq[q].customer
           delta == pointsReq[q].delta
           row   == [delta |-> delta, before |-> pointsReq[q].before,
                     after |-> account[c].balance + delta]
           n     == Len(points[c])
<1>1. /\ c \in Customers /\ delta \in Int /\ pointsReq[q].pc = "locked"
      /\ account \in [Customers -> [exists : BOOLEAN, balance : Nat, lifetime : Nat]]
      /\ account[c].balance \in Nat /\ account[c].lifetime \in Nat
      /\ points \in [Customers -> Seq([delta : Int, before : Int, after : Int])]
      /\ points[c] \in Seq([delta : Int, before : Int, after : Int]) /\ n \in Nat
      /\ pointsReq[q].before \in Int
  <2>1. c \in Customers /\ delta \in Int /\ pointsReq[q].before \in Int
    BY DEF LoyaltyInv, LoyaltyTypeOK
  <2>2. /\ account \in [Customers -> [exists : BOOLEAN, balance : Nat, lifetime : Nat]]
        /\ points \in [Customers -> Seq([delta : Int, before : Int, after : Int])]
    BY DEF LoyaltyInv, LoyaltyTypeOK
  <2>3. pointsReq[q].pc = "locked"
    BY DEF CommitPoints, Holds
  <2> HIDE DEF c, delta
  <2>4. /\ account[c].balance \in Nat /\ account[c].lifetime \in Nat
        /\ points[c] \in Seq([delta : Int, before : Int, after : Int])
    BY <2>1, <2>2
  <2> QED
    BY <2>1, <2>2, <2>3, <2>4
<1>2. /\ account[c].exists /\ pointsReq[q].before = account[c].balance
      /\ pointsReq[q].after = account[c].balance + delta
      /\ account[c].balance + delta >= 0
  BY DEF LoyaltyInv, LockedIsCurrent, CommitPoints, Holds
<1>3. account' = [account EXCEPT ![c].balance = @ + delta,
                                 ![c].lifetime = @ + (IF delta > 0 THEN delta ELSE 0)]
  BY DEF CommitPoints, AddPoints
<1>4. points' = [points EXCEPT ![c] = Append(@, row)]
  BY DEF CommitPoints, InsertTransaction
<1>5. \A r \in PointRequests :
        pointsReq'[r] = IF r = q THEN [pointsReq[r] EXCEPT !.pc = IF delta > 0 THEN "tier" ELSE "over",
                                                             !.row = n + 1]
                        ELSE IF pointsReq[r].pc = "waiting" /\ pointsReq[r].customer = c
                             THEN [pointsReq[r] EXCEPT !.pc = "over"]
                             ELSE pointsReq[r]
  BY DEF CommitPoints
<1>6. /\ DOMAIN pointsReq' = PointRequests
      /\ pointsReq' = [r \in PointRequests |-> pointsReq'[r]]
      /\ tierUnsure' = tierUnsure /\ customer' = customer
  BY DEF CommitPoints
<1>7. /\ row \in [delta : Int, before : Int, after : Int]
      /\ row.delta = delta /\ row.before = account[c].balance
      /\ row.after = account[c].balance + delta
  BY <1>1, <1>2
<1> HIDE DEF c, delta, row
<1>8. /\ account' \in [Customers -> [exists : BOOLEAN, balance : Nat, lifetime : Nat]]
      /\ account'[c].balance = account[c].balance + delta /\ account'[c].exists
      /\ \A d \in Customers : d # c => account'[d] = account[d]
  <2>1. account[c].balance + delta \in Nat
    BY <1>1, <1>2
  <2>2. account[c].lifetime + (IF delta > 0 THEN delta ELSE 0) \in Nat
    BY <1>1
  <2>3. [account[c] EXCEPT !.balance = account[c].balance + delta,
                           !.lifetime = account[c].lifetime + (IF delta > 0 THEN delta ELSE 0)]
          \in [exists : BOOLEAN, balance : Nat, lifetime : Nat]
    BY <1>1, <2>1, <2>2
  <2> QED
    BY <1>1, <1>2, <1>3, <2>1, <2>2, <2>3
<1>9. /\ points' \in [Customers -> Seq([delta : Int, before : Int, after : Int])]
      /\ \A d \in Customers : d # c => points'[d] = points[d]
      /\ Len(points'[c]) = n + 1 /\ points'[c] # <<>>
      /\ points'[c][n + 1] = row
      /\ \A i \in 1..n : points'[c][i] = points[c][i]
      /\ DOMAIN points'[c] = 1..(n + 1) /\ DOMAIN points[c] = 1..n
      /\ points[c] = <<>> <=> n = 0
  <2>1. Append(points[c], row) \in Seq([delta : Int, before : Int, after : Int])
    BY <1>1, <1>7
  <2>2. points'[c] = Append(points[c], row)
    BY <1>1, <1>4
  <2>3. /\ points' \in [Customers -> Seq([delta : Int, before : Int, after : Int])]
        /\ \A d \in Customers : d # c => points'[d] = points[d]
    BY <1>1, <1>4, <2>1
  <2> DEFINE rows == points[c]
  <2>4. rows \in Seq([delta : Int, before : Int, after : Int])
    BY <1>1
  <2> HIDE DEF rows
  <2>5. /\ Len(Append(rows, row)) = Len(rows) + 1 /\ Len(rows) \in Nat
        /\ Append(rows, row)[Len(rows) + 1] = row
        /\ \A i \in 1..Len(rows) : Append(rows, row)[i] = rows[i]
        /\ DOMAIN Append(rows, row) = 1..(Len(rows) + 1) /\ DOMAIN rows = 1..Len(rows)
    BY <1>7, <2>4
  <2>6. Append(rows, row) # <<>> /\ (rows = <<>> <=> Len(rows) = 0)
    BY <1>7, <2>4
  <2>7. points'[c] = Append(rows, row) /\ n = Len(rows) /\ points[c] = rows
    BY <2>2 DEF rows
  <2> HIDE DEF n
  <2> QED
    BY <2>3, <2>5, <2>6, <2>7
<1> HIDE DEF n
<1>10. \A r \in PointRequests :
         /\ pointsReq'[r].customer = pointsReq[r].customer
         /\ pointsReq'[r].delta = pointsReq[r].delta
         /\ pointsReq'[r].before = pointsReq[r].before
         /\ pointsReq'[r].after = pointsReq[r].after
         /\ pointsReq'[r].row = IF r = q THEN n + 1 ELSE pointsReq[r].row
         /\ pointsReq'[r].pc = "locked" => r # q /\ pointsReq[r].pc = "locked"
         /\ pointsReq'[r].pc = "tier" <=> (r = q /\ delta > 0) \/ (r # q /\ pointsReq[r].pc = "tier")
         /\ pointsReq'[r] \in [pc : {"new", "waiting", "locked", "tier", "over"},
                               customer : Customers, delta : Int, before : Int, after : Int, row : Nat]
  <2> SUFFICES ASSUME NEW r \in PointRequests
               PROVE  /\ pointsReq'[r].customer = pointsReq[r].customer
                      /\ pointsReq'[r].delta = pointsReq[r].delta
                      /\ pointsReq'[r].before = pointsReq[r].before
                      /\ pointsReq'[r].after = pointsReq[r].after
                      /\ pointsReq'[r].row = IF r = q THEN n + 1 ELSE pointsReq[r].row
                      /\ pointsReq'[r].pc = "locked" => r # q /\ pointsReq[r].pc = "locked"
                      /\ pointsReq'[r].pc = "tier"
                           <=> (r = q /\ delta > 0) \/ (r # q /\ pointsReq[r].pc = "tier")
                      /\ pointsReq'[r] \in [pc : {"new", "waiting", "locked", "tier", "over"},
                                            customer : Customers, delta : Int,
                                            before : Int, after : Int, row : Nat]
    OBVIOUS
  <2>1. pointsReq[r] \in [pc : {"new", "waiting", "locked", "tier", "over"},
                          customer : Customers, delta : Int, before : Int, after : Int, row : Nat]
    BY DEF LoyaltyInv, LoyaltyTypeOK
  <2>2. \/ /\ pointsReq'[r] = [pointsReq[r] EXCEPT !.pc = "tier", !.row = n + 1]
           /\ r = q /\ delta > 0
        \/ /\ pointsReq'[r] = [pointsReq[r] EXCEPT !.pc = "over", !.row = n + 1]
           /\ r = q /\ ~(delta > 0)
        \/ /\ pointsReq'[r] = [pointsReq[r] EXCEPT !.pc = "over"]
           /\ r # q /\ pointsReq[r].pc = "waiting"
        \/ /\ pointsReq'[r] = pointsReq[r] /\ r # q
    BY <1>5
  <2>3. n + 1 \in Nat
    BY <1>1
  <2> QED
    BY <2>1, <2>2, <2>3
<1>11. LoyaltyTypeOK'
  BY <1>1, <1>6, <1>8, <1>9, <1>10 DEF LoyaltyInv, LoyaltyTypeOK
<1>12. LedgerChains'
  <2> SUFFICES ASSUME NEW d \in Customers
               PROVE  /\ \A i \in DOMAIN points'[d] :
                           /\ points'[d][i].before = IF i = 1 THEN 0 ELSE points'[d][i - 1].after
                           /\ points'[d][i].after = points'[d][i].before + points'[d][i].delta
                           /\ points'[d][i].after >= 0
                      /\ account'[d].balance = IF points'[d] = <<>> THEN 0
                                               ELSE points'[d][Len(points'[d])].after
    BY DEF LedgerChains
  <2>1. /\ \A i \in DOMAIN points[d] :
             /\ points[d][i].before = IF i = 1 THEN 0 ELSE points[d][i - 1].after
             /\ points[d][i].after = points[d][i].before + points[d][i].delta
             /\ points[d][i].after >= 0
        /\ account[d].balance = IF points[d] = <<>> THEN 0
                                ELSE points[d][Len(points[d])].after
    BY DEF LoyaltyInv, LedgerChains
  <2>2. CASE d # c
    <3>1. points'[d] = points[d] /\ account'[d] = account[d]
      BY <1>8, <1>9, <2>2
    <3> QED BY <2>1, <3>1
  <2>3. CASE d = c
    <3>0. /\ \A i \in 1..n :
               /\ points[c][i].before = IF i = 1 THEN 0 ELSE points[c][i - 1].after
               /\ points[c][i].after = points[c][i].before + points[c][i].delta
               /\ points[c][i].after >= 0
          /\ account[c].balance = IF points[c] = <<>> THEN 0
                                  ELSE points[c][Len(points[c])].after
      BY <1>9, <2>1, <2>3
    <3>1. account[c].balance = IF n = 0 THEN 0 ELSE points[c][n].after
      BY <1>9, <3>0 DEF n
    <3>2. ASSUME NEW i \in 1..n
          PROVE  /\ points'[c][i].before = IF i = 1 THEN 0 ELSE points'[c][i - 1].after
                 /\ points'[c][i].after = points'[c][i].before + points'[c][i].delta
                 /\ points'[c][i].after >= 0
      <4>1. i # 1 => i - 1 \in 1..n
        BY <1>1
      <4>2. points'[c][i] = points[c][i] /\ (i # 1 => points'[c][i - 1] = points[c][i - 1])
        BY <1>9, <4>1
      <4>3. /\ points[c][i].before = IF i = 1 THEN 0 ELSE points[c][i - 1].after
            /\ points[c][i].after = points[c][i].before + points[c][i].delta
            /\ points[c][i].after >= 0
        BY <3>0
      <4>4. CASE i = 1
        BY <4>2, <4>3, <4>4
      <4>5. CASE i # 1
        BY <4>2, <4>3, <4>5
      <4> QED BY <4>4, <4>5
    <3>3. /\ row.before = IF n + 1 = 1 THEN 0 ELSE points'[c][n].after
          /\ row.after = row.before + row.delta /\ row.after >= 0
      <4>1. n # 0 => n \in 1..n
        BY <1>1
      <4>2. row.before = IF n + 1 = 1 THEN 0 ELSE points'[c][n].after
        <5>1. CASE n = 0
          BY <1>7, <3>1, <5>1
        <5>2. CASE n # 0
          <6>1. n \in Nat
            BY <1>1
          <6>2. n + 1 # 1
            BY <5>2, <6>1
          <6>3. points'[c][n] = points[c][n]
            BY <1>9, <4>1, <5>2
          <6> QED BY <1>7, <3>1, <5>2, <6>2, <6>3
        <5> QED BY <5>1, <5>2
      <4>3. row.after = row.before + row.delta /\ row.after >= 0
        BY <1>1, <1>2, <1>7
      <4> QED BY <4>2, <4>3
    <3>4. ASSUME NEW i \in 1..(n + 1)
          PROVE  /\ points'[c][i].before = IF i = 1 THEN 0 ELSE points'[c][i - 1].after
                 /\ points'[c][i].after = points'[c][i].before + points'[c][i].delta
                 /\ points'[c][i].after >= 0
      <4>1. \A m \in Nat : \A j \in 1..(m + 1) : j \in 1..m \/ (j = m + 1 /\ j - 1 = m)
        OBVIOUS
      <4>2. n \in Nat
        BY <1>1
      <4>3. i \in 1..n \/ (i = n + 1 /\ i - 1 = n)
        BY <4>1, <4>2
      <4> QED
        BY <1>9, <3>2, <3>3, <4>3
    <3> QED
      BY <1>7, <1>8, <1>9, <2>3, <3>4
  <2> QED BY <2>2, <2>3
<1>13. \A r \in PointRequests :
         pointsReq[r].pc = "locked" /\ r # q => pointsReq[r].customer # c
  BY <1>1 DEF LoyaltyInv, OneHolder, Holds, c
<1>14. LockedIsCurrent'
  <2>1. \A r \in PointRequests : pointsReq[r].customer \in Customers
    BY DEF LoyaltyInv, LoyaltyTypeOK
  <2> QED
    BY <1>8, <1>10, <1>13, <2>1 DEF LoyaltyInv, LockedIsCurrent, Holds
<1>15. OneHolder'
  BY <1>10 DEF LoyaltyInv, OneHolder, Holds
<1>16. Nested'
  BY <1>2, <1>6, <1>8, <1>9 DEF LoyaltyInv, Nested
<1>17. \A d \in Customers, p \in PointRequests :
         p \in TierPending(d)' <=> \/ p = q /\ d = c /\ delta > 0
                                   \/ p # q /\ p \in TierPending(d)
  BY <1>1, <1>10 DEF TierPending, c
<1>18. EarnedRows(points'[c]) = EarnedRows(points[c]) \cup (IF delta > 0 THEN {n + 1} ELSE {})
  <2>1. points'[c] = Append(points[c], row)
    BY <1>1, <1>4
  <2> QED
    BY <1>1, <1>7, <2>1, EarnedByAppend DEF n
<1>19. q \notin TierPending(c) /\ \A d \in Customers : TierPending(d) \subseteq PointRequests
  BY <1>1 DEF TierPending
<1>20. \A i \in EarnedRows(points[c]) : i \in 1..n
  BY <1>9 DEF EarnedRows
<1>21. PendingRows'
  <2> SUFFICES ASSUME NEW d \in Customers, NEW p \in PointRequests, p \in TierPending(d)'
               PROVE  /\ pointsReq'[p].row \in EarnedRows(points'[d])
                      /\ points'[d][pointsReq'[p].row].after = pointsReq'[p].after
    BY DEF PendingRows, TierPending, EarnedRows
  <2>1. CASE p = q
    <3>1. d = c /\ delta > 0
      BY <1>17, <2>1
    <3>2. pointsReq'[q].row = n + 1 /\ pointsReq'[q].after = pointsReq[q].after
      BY <1>10
    <3>3. n + 1 \in EarnedRows(points'[c])
      BY <1>18, <3>1
    <3>4. points'[c][n + 1].after = pointsReq[q].after
      BY <1>2, <1>7, <1>9
    <3> QED
      BY <2>1, <3>1, <3>2, <3>3, <3>4
  <2>2. CASE p # q
    <3>1. /\ p \in TierPending(d) /\ pointsReq'[p].row = pointsReq[p].row
          /\ pointsReq'[p].after = pointsReq[p].after
      BY <1>10, <1>17, <2>2
    <3>2. /\ pointsReq[p].row \in EarnedRows(points[d])
          /\ points[d][pointsReq[p].row].after = pointsReq[p].after
      BY <3>1 DEF LoyaltyInv, PendingRows
    <3>3. CASE d = c
      BY <1>9, <1>18, <1>20, <3>1, <3>2, <3>3
    <3>4. CASE d # c
      BY <1>9, <3>1, <3>2, <3>4
    <3> QED BY <3>3, <3>4
  <2> QED BY <2>1, <2>2
<1>22. TierFollowsAwards'
  <2> SUFFICES ASSUME NEW d \in Customers \ tierUnsure,
                      \A p \in TierPending(d)' : ~Newest(p)'
               PROVE  customer[d].tier = TierOf(AwardedBalance(points'[d]))
    BY <1>6 DEF TierFollowsAwards, TierOf
  <2>1. (\A p \in TierPending(d) : ~Newest(p)) =>
          customer[d].tier = TierOf(AwardedBalance(points[d]))
    BY DEF LoyaltyInv, TierFollowsAwards
  <2>2. ~(d = c /\ delta > 0)
    <3> SUFFICES ASSUME d = c, delta > 0 PROVE FALSE
      OBVIOUS
    <3>1. q \in TierPending(d)'
      BY <1>17
    <3>2. \A i \in EarnedRows(points'[c]) : i <= n + 1
      BY <1>1, <1>18, <1>20
    <3>3. Newest(q)' <=> \A i \in EarnedRows(points'[pointsReq'[q].customer]) :
                            i <= pointsReq'[q].row
      BY DEF Newest, EarnedRows
    <3>4. pointsReq'[q].customer = c /\ pointsReq'[q].row = n + 1
      BY <1>10 DEF c
    <3> QED BY <3>1, <3>2, <3>3, <3>4
  <2>3. /\ EarnedRows(points'[d]) = EarnedRows(points[d])
        /\ AwardedBalance(points'[d]) = AwardedBalance(points[d])
    <3>1. CASE d # c
      BY <1>9, <3>1
    <3>2. CASE d = c
      <4>1. points'[c] = Append(points[c], row)
        BY <1>1, <1>4
      <4> QED
        BY <1>1, <1>7, <1>18, <2>2, <3>2, <4>1, AwardedByAppend
    <3> QED BY <3>1, <3>2
  <2>4. ASSUME NEW p \in TierPending(d) PROVE ~Newest(p)
    <3>1. p \in PointRequests /\ p # q /\ pointsReq[p].customer = d
      BY <1>1, <2>4 DEF TierPending
    <3>2. p \in TierPending(d)'
      BY <1>17, <2>4, <3>1
    <3>3. pointsReq'[p].row = pointsReq[p].row /\ pointsReq'[p].customer = d
      BY <1>10, <3>1
    <3>4. ~(\A i \in EarnedRows(points'[d]) : i <= pointsReq[p].row)
      BY <3>2, <3>3 DEF Newest, EarnedRows
    <3> QED
      BY <2>3, <3>1, <3>4 DEF Newest
  <2> QED
    BY <2>1, <2>3, <2>4
<1> QED
  BY <1>11, <1>12, <1>14, <1>15, <1>16, <1>21, <1>22 DEF LoyaltyInv

\* The tier write of an award, and its loss.
LEMMA TierStepKeeps ==
  ASSUME LoyaltyInv, NEW q \in PointRequests, MaybePromoteTier(q) \/ LoseTier(q)
  PROVE  LoyaltyInv'
<1>1. /\ pointsReq' = [pointsReq EXCEPT ![q].pc = "over"] /\ pointsReq[q].pc = "tier"
      /\ account' = account /\ points' = points
  BY DEF MaybePromoteTier, LoseTier
<1>2. PICK c \in Customers : pointsReq[q].customer = c
  BY DEF LoyaltyInv, LoyaltyTypeOK
<1>3. \A r \in PointRequests :
        /\ pointsReq'[r].customer = pointsReq[r].customer
        /\ pointsReq'[r].delta = pointsReq[r].delta
        /\ pointsReq'[r].before = pointsReq[r].before
        /\ pointsReq'[r].after = pointsReq[r].after
        /\ pointsReq'[r].row = pointsReq[r].row
        /\ pointsReq'[r].pc = IF r = q THEN "over" ELSE pointsReq[r].pc
        /\ pointsReq'[r] \in [pc : {"new", "waiting", "locked", "tier", "over"},
                              customer : Customers, delta : Int, before : Int, after : Int, row : Nat]
  BY <1>1 DEF LoyaltyInv, LoyaltyTypeOK
<1>4. /\ customer' \in [Customers -> [exists : BOOLEAN, tier : Tiers]]
      /\ \A d \in Customers : customer'[d].exists = customer[d].exists
      /\ \A d \in Customers : d # c => customer'[d] = customer[d]
      /\ tierUnsure' \subseteq Customers /\ tierUnsure \ {c} \subseteq tierUnsure'
      /\ \/ Newest(q) /\ customer'[c].tier = TierOf(pointsReq[q].after)
         \/ c \in tierUnsure'
         \/ ~Newest(q) /\ customer' = customer /\ tierUnsure' = tierUnsure
  <2>0. /\ customer \in [Customers -> [exists : BOOLEAN, tier : Tiers]]
        /\ tierUnsure \subseteq Customers
    BY DEF LoyaltyInv, LoyaltyTypeOK
  <2>1. CASE MaybePromoteTier(q)
    <3>1. TierOf(pointsReq[q].after) \in Tiers
      BY DEF TierOf, Tiers
    <3>2. /\ customer' = [customer EXCEPT ![c].tier = TierOf(pointsReq[q].after)]
          /\ tierUnsure' = IF Newest(q) THEN tierUnsure \ {c} ELSE tierUnsure \cup {c}
      BY <1>2, <2>1 DEF MaybePromoteTier, UpdateCustomerTier, NewBalance
    <3> QED
      BY <2>0, <3>1, <3>2
  <2>2. CASE LoseTier(q)
    BY <1>2, <2>0, <2>2 DEF LoseTier
  <2> QED
    BY <2>1, <2>2
<1>5. LoyaltyTypeOK'
  <2>1. DOMAIN pointsReq' = PointRequests /\ pointsReq' = [r \in PointRequests |-> pointsReq'[r]]
    BY <1>1 DEF LoyaltyInv, LoyaltyTypeOK
  <2> QED
    BY <1>1, <1>3, <1>4, <2>1 DEF LoyaltyInv, LoyaltyTypeOK
<1>6. LedgerChains'
  BY <1>1, LedgerKept
<1>7. LockedIsCurrent' /\ OneHolder'
  BY <1>1, <1>3 DEF LoyaltyInv, LockedIsCurrent, OneHolder, Holds
<1>8. Nested'
  <2>1. \A d \in Customers : /\ account'[d] = account[d] /\ points'[d] = points[d]
                             /\ customer'[d].exists = customer[d].exists
    <3>1. \A d \in Customers : customer'[d].exists = customer[d].exists
      BY <1>4
    <3> QED BY <1>1, <3>1
  <2> QED
    BY <2>1 DEF LoyaltyInv, Nested
<1>9. \A d \in Customers : /\ TierPending(d)' = TierPending(d) \ {q}
                           /\ q \in TierPending(d) <=> d = c
                           /\ \A p \in TierPending(d) : Newest(p)' <=> Newest(p)
  BY <1>1, <1>2, <1>3 DEF TierPending, Newest, EarnedRows
<1>10. PendingRows'
  <2> SUFFICES ASSUME NEW d \in Customers, NEW p \in PointRequests, p \in TierPending(d)'
               PROVE  /\ pointsReq'[p].row \in EarnedRows(points'[d])
                      /\ points'[d][pointsReq'[p].row].after = pointsReq'[p].after
    BY DEF PendingRows, TierPending, EarnedRows
  <2>1. p \in TierPending(d)
    BY <1>9
  <2>2. /\ pointsReq[p].row \in EarnedRows(points[d])
        /\ points[d][pointsReq[p].row].after = pointsReq[p].after
    BY <2>1 DEF LoyaltyInv, PendingRows
  <2> QED
    BY <1>1, <1>3, <2>2
<1>11. TierFollowsAwards'
  <2> SUFFICES ASSUME NEW d \in Customers, d \notin tierUnsure',
                      \A p \in TierPending(d)' : ~Newest(p)'
               PROVE  customer'[d].tier = TierOf(AwardedBalance(points'[d]))
    BY DEF TierFollowsAwards, TierOf
  <2>0. /\ \A p \in TierPending(d) \ {q} : ~Newest(p)
        /\ points'[d] = points[d]
    BY <1>1, <1>9
  <2>1. d \notin tierUnsure /\ (\A p \in TierPending(d) : ~Newest(p)) =>
          customer[d].tier = TierOf(AwardedBalance(points[d]))
    BY DEF LoyaltyInv, TierFollowsAwards
  <2>2. CASE d # c
    <3>1. \A p \in TierPending(d) : ~Newest(p)
      BY <1>9, <2>0, <2>2
    <3>2. d \notin tierUnsure /\ customer'[d] = customer[d]
      BY <1>4, <2>2
    <3> QED
      BY <2>0, <2>1, <3>1, <3>2
  <2>3. CASE d = c
    <3>1. CASE Newest(q) /\ customer'[c].tier = TierOf(pointsReq[q].after)
      <4>1. q \in TierPending(c)
        BY <1>9
      <4>2. AwardedBalance(points[c]) = pointsReq[q].after
        BY <3>1, <4>1, NewestRow
      <4> QED
        BY <2>0, <2>3, <3>1, <4>2
    <3>2. CASE ~Newest(q) /\ customer' = customer /\ tierUnsure' = tierUnsure
      <4>1. \A p \in TierPending(d) : ~Newest(p)
        BY <2>0, <3>2
      <4> QED
        BY <2>0, <2>1, <3>2, <4>1
    <3> QED
      BY <1>4, <2>3, <3>1, <3>2
  <2> QED BY <2>2, <2>3
<1> QED
  BY <1>5, <1>6, <1>7, <1>8, <1>10, <1>11 DEF LoyaltyInv

\* Every step of an award or a redemption keeps the ledger chained and the tier
\* with the last award (AwardPoints, RedeemPoints, maybePromoteTier).
THEOREM LoyaltyInductive == LoyaltyInv /\ [LoyaltyNext]_loyaltyVars => LoyaltyInv'
<1> SUFFICES ASSUME LoyaltyInv, [LoyaltyNext]_loyaltyVars PROVE LoyaltyInv'
  OBVIOUS
<1>1. ASSUME NEW c \in Customers, CreateCustomer(c) PROVE LoyaltyInv'
  BY <1>1, CreateCustomerKeeps
<1>2. ASSUME NEW q \in PointRequests, NEW c \in Customers, NEW delta \in Int,
             Locking(q, c, delta), AccountFree(c), pointsReq[q].pc # "tier",
             UNCHANGED <<customer, account, points, tierUnsure>>
      PROVE  LoyaltyInv'
  <2> DEFINE r == [pc |-> IF account[c].exists /\ Covered(c, delta) THEN "locked" ELSE "over",
                   customer |-> c, delta |-> delta,
                   before |-> account[c].balance, after |-> account[c].balance + delta,
                   row |-> 0]
  <2>1. r \in [pc : {"waiting", "locked", "over"}, customer : Customers,
               delta : Int, before : Int, after : Int, row : Nat]
    BY DEF LoyaltyInv, LoyaltyTypeOK
  <2>2. pointsReq' = [pointsReq EXCEPT ![q] = r]
    BY <1>2 DEF Locking
  <2>3. r.pc = "locked" =>
           /\ AccountFree(r.customer) /\ account[r.customer].exists
           /\ r.before = account[r.customer].balance /\ r.after = r.before + r.delta
    BY <1>2
  <2> HIDE DEF r
  <2> QED
    BY <1>2, <2>1, <2>2, <2>3, RequestKeeps
<1>3. ASSUME NEW q \in PointRequests, NEW c \in Customers,
             NEW delta \in (-MaxPoints)..MaxPoints, RequestPoints(q, c, delta)
      PROVE  LoyaltyInv'
  <2>1. delta \in Int /\ pointsReq[q].pc # "tier"
        /\ UNCHANGED <<customer, account, points, tierUnsure>>
    BY <1>3, LoyaltyAssumption DEF RequestPoints
  <2>2. CASE AccountFree(c)
    BY <1>2, <1>3, <2>1, <2>2 DEF RequestPoints
  <2>3. CASE ~AccountFree(c)
    <3> DEFINE r == [NewRequest EXCEPT !.pc = "waiting", !.customer = c, !.delta = delta]
    <3>1. r \in [pc : {"waiting", "locked", "over"}, customer : Customers,
                 delta : Int, before : Int, after : Int, row : Nat] /\ r.pc # "locked"
      <4>1. NewRequest \in [pc : {"new"}, customer : Int,
                            delta : Int, before : Int, after : Int, row : Nat]
        BY DEF NewRequest
      <4>2. \A old \in [pc : {"new"}, customer : Int,
                        delta : Int, before : Int, after : Int, row : Nat] :
              [old EXCEPT !.pc = "waiting", !.customer = c, !.delta = delta]
                \in [pc : {"waiting"}, customer : Customers,
                     delta : Int, before : Int, after : Int, row : Nat]
        BY <2>1
      <4>3. r \in [pc : {"waiting"}, customer : Customers,
                   delta : Int, before : Int, after : Int, row : Nat]
        BY <4>1, <4>2
      <4> HIDE DEF r
      <4> QED BY <4>3
    <3>2. pointsReq' = [pointsReq EXCEPT ![q] = r]
      BY <1>3, <2>3 DEF RequestPoints
    <3> HIDE DEF r
    <3> QED
      BY <2>1, <3>1, <3>2, RequestKeeps
  <2> QED BY <2>2, <2>3
<1>4. ASSUME NEW q \in PointRequests, LockAfterWait(q) PROVE LoyaltyInv'
  <2>1. pointsReq[q].customer \in Customers /\ pointsReq[q].delta \in Int
    BY DEF LoyaltyInv, LoyaltyTypeOK
  <2> QED
    BY <1>2, <1>4, <2>1 DEF LockAfterWait
<1>5. ASSUME NEW q \in PointRequests, FailPoints(q) PROVE LoyaltyInv'
  <2> DEFINE r == [pointsReq[q] EXCEPT !.pc = "over"]
  <2>1. r \in [pc : {"waiting", "locked", "over"}, customer : Customers,
               delta : Int, before : Int, after : Int, row : Nat] /\ r.pc # "locked"
    BY DEF LoyaltyInv, LoyaltyTypeOK
  <2>2. pointsReq' = [pointsReq EXCEPT ![q] = r] /\ pointsReq[q].pc # "tier"
        /\ UNCHANGED <<customer, account, points, tierUnsure>>
    BY <1>5 DEF FailPoints
  <2> HIDE DEF r
  <2> QED
    BY <2>1, <2>2, RequestKeeps
<1>6. CASE UNCHANGED loyaltyVars
  <2>1. UNCHANGED <<customer, account, points, pointsReq, tierUnsure>>
    BY <1>6 DEF loyaltyVars
  <2>2. LoyaltyTypeOK' /\ LedgerChains' /\ LockedIsCurrent' /\ OneHolder' /\ Nested'
    BY <2>1 DEF LoyaltyInv, LoyaltyTypeOK, LedgerChains, LockedIsCurrent, OneHolder,
                Holds, AccountFree, Nested
  <2>3. PendingRows'
    BY <2>1 DEF LoyaltyInv, PendingRows, TierPending, EarnedRows
  <2>4. TierFollowsAwards'
    <3> SUFFICES ASSUME NEW c \in Customers, c \notin tierUnsure',
                        \A q \in TierPending(c)' : ~Newest(q)'
                 PROVE  customer'[c].tier = TierOf(AwardedBalance(points'[c]))
      BY DEF TierFollowsAwards, TierOf
    <3>1. \A q \in TierPending(c) : ~Newest(q)
      BY <2>1 DEF TierPending, Newest, EarnedRows
    <3> QED
      BY <2>1, <3>1 DEF LoyaltyInv, TierFollowsAwards
  <2> QED
    BY <2>2, <2>3, <2>4 DEF LoyaltyInv
<1> QED
  BY <1>1, <1>3, <1>4, <1>5, <1>6, CommitPointsKeeps, TierStepKeeps DEF LoyaltyNext

\* LoyaltyInv holds in every state.
THEOREM LoyaltyInvHolds == LoyaltySpec => []LoyaltyInv
  BY LoyaltyInitSafe, LoyaltyInductive, PTL DEF LoyaltySpec

\* The ledger explains the balance, whatever awards and redemptions race.
THEOREM LedgerExplainsBalance == LoyaltySpec => []LedgerChains
<1>1. LoyaltyInv => LedgerChains
  BY DEF LoyaltyInv
<1> QED
  BY <1>1, LoyaltyInvHolds, PTL

\* The tier is that of the balance the newest award has left, unless its own
\* write was lost or an older one came after it (maybePromoteTier).
THEOREM TierIsOfLastAward == LoyaltySpec => []TierFollowsAwards
<1>1. LoyaltyInv => TierFollowsAwards
  BY DEF LoyaltyInv
<1> QED
  BY <1>1, LoyaltyInvHolds, PTL

-----------------------------------------------------------------------------
(* Permission versions: the proof                                          *)

\* The types of the rows and requests, one by one.
LEMMA AuthTypes ==
  ASSUME AuthInv
  PROVE  /\ \A u \in Users : /\ user[u].version \in Nat /\ user[u].exists \in BOOLEAN
                             /\ cached[u] \in Nat /\ settled[u] \in Nat
         /\ \A t \in Tokens : token[t].version \in Nat
         /\ \A q \in Requests : request[q].version \in Nat /\ request[q].since \in Nat
  BY DEF AuthInv, AuthTypeOK

LEMMA AuthInitSafe == AuthInit => AuthInv
<1> SUFFICES ASSUME AuthInit PROVE AuthInv
  OBVIOUS
<1>1. AuthTypeOK
  <2>1. 1 \in Tokens
    <3>1. NTokens \in Nat \ {0}
      BY AuthVersionsAssumption
    <3> QED BY <3>1 DEF Tokens
  <2> QED BY <2>1 DEF AuthInit, AuthTypeOK, NewUser, Absent
<1>2. TokensOfUsers /\ BumpedTokensTellRoles /\ RequestsSettled /\ ChangesOfUsers
  BY DEF AuthInit, TokensOfUsers, BumpedTokensTellRoles, RequestsSettled, ChangesOfUsers
<1>3. CacheSettled
  BY DEF AuthInit, CacheSettled, NewUser, Absent
<1> QED
  BY <1>1, <1>2, <1>3 DEF AuthInv

\* A user who is new has no token and no change of roles.
LEMMA CreateUserKeeps ==
  ASSUME AuthInv, NEW u \in Users, NEW roles \in SUBSET Roles, CreateUser(u, roles)
  PROVE  AuthInv'
<1>1. /\ user \in [Users -> [exists : BOOLEAN, roles : SUBSET Roles, version : Nat]]
      /\ ~user[u].exists
  BY DEF AuthInv, AuthTypeOK, CreateUser
<1>2. UNCHANGED <<cached, change, token, request, settled, distrusted>>
  BY DEF CreateUser
<1>3. /\ user' \in [Users -> [exists : BOOLEAN, roles : SUBSET Roles, version : Nat]]
      /\ user'[u].exists /\ user'[u].version = NewUser.version
      /\ \A w \in Users : w # u => user'[w] = user[w]
  <2>1. user' = [[user EXCEPT ![u] = [NewUser EXCEPT !.exists = TRUE]] EXCEPT ![u].roles = roles]
    BY DEF CreateUser, InsertUser
  <2> DEFINE new == [NewUser EXCEPT !.exists = TRUE]
             row == [new EXCEPT !.roles = roles]
  <2>2. /\ new \in [exists : BOOLEAN, roles : SUBSET Roles, version : Nat]
        /\ new.exists /\ new.version = NewUser.version
    BY DEF NewUser
  <2> HIDE DEF new
  <2>3. /\ row \in [exists : BOOLEAN, roles : SUBSET Roles, version : Nat]
        /\ row.exists /\ row.version = NewUser.version
    BY <2>2
  <2>4. user' = [[user EXCEPT ![u] = new] EXCEPT ![u].roles = roles]
    BY <2>1 DEF new
  <2>5. user' = [user EXCEPT ![u] = row]
    BY <1>1, <2>4
  <2> HIDE DEF row
  <2> QED
    BY <1>1, <2>3, <2>5
<1>4. \A t \in Tokens : token[t].pc # "new" => token[t].user # u
  BY <1>1 DEF AuthInv, TokensOfUsers
<1>5. AuthTypeOK'
  BY <1>2, <1>3 DEF AuthInv, AuthTypeOK
<1>6. TokensOfUsers' /\ BumpedTokensTellRoles'
  <2>1. \A t \in Tokens : token[t].pc # "new" =>
          token[t].user \in Users /\ user'[token[t].user] = user[token[t].user]
    BY <1>3, <1>4 DEF AuthInv, TokensOfUsers
  <2> QED
    BY <1>2, <2>1 DEF AuthInv, TokensOfUsers, BumpedTokensTellRoles
<1>7. CacheSettled'
  BY <1>1, <1>2, <1>3 DEF AuthInv, CacheSettled
<1>8. RequestsSettled' /\ ChangesOfUsers'
  BY <1>2, <1>3 DEF AuthInv, RequestsSettled, ChangesOfUsers
<1> QED
  BY <1>5, <1>6, <1>7, <1>8 DEF AuthInv

\* While a change of roles is before its bump, no token of the user need tell.
LEMMA ChangeRolesKeeps ==
  ASSUME AuthInv, NEW c \in Changes, NEW u \in Users, NEW r \in Roles,
         AssignRole(c, u, r) \/ RemoveRole(c, u, r)
  PROVE  AuthInv'
<1>1. /\ user \in [Users -> [exists : BOOLEAN, roles : SUBSET Roles, version : Nat]]
      /\ change \in [Changes -> [pc : {"new", "changed", "bumped", "over"},
                                 user : Users \cup {NoUser}]]
  BY DEF AuthInv, AuthTypeOK
<1>2. /\ change[c].pc = "new" /\ user[u].exists
      /\ change' = [change EXCEPT ![c] = [pc |-> "changed", user |-> u]]
      /\ UNCHANGED <<cached, token, request, settled, distrusted>>
  BY DEF AssignRole, RemoveRole, MayAssign
<1>3. PICK roles \in SUBSET Roles : user' = [user EXCEPT ![u].roles = roles]
  <2>1. user[u].roles \in SUBSET Roles
    BY <1>1
  <2>2. CASE AssignRole(c, u, r)
    <3>1. user' = [user EXCEPT ![u].roles = user[u].roles \cup {r}]
      BY <1>1, <2>2 DEF AssignRole, AssignRoleToUser
    <3> QED BY <2>1, <3>1
  <2>3. CASE RemoveRole(c, u, r)
    <3>1. user' = [user EXCEPT ![u].roles = user[u].roles \ {r}]
      BY <1>1, <2>3 DEF RemoveRole, RemoveRoleFromUser
    <3> QED BY <2>1, <3>1
  <2> QED BY <2>2, <2>3
<1>4. /\ user' \in [Users -> [exists : BOOLEAN, roles : SUBSET Roles, version : Nat]]
      /\ \A w \in Users : /\ user'[w].exists = user[w].exists
                          /\ user'[w].version = user[w].version
                          /\ w # u => user'[w] = user[w]
  BY <1>1, <1>3
<1>5. /\ change' \in [Changes -> [pc : {"new", "changed", "bumped", "over"},
                                  user : Users \cup {NoUser}]]
      /\ change'[c].pc = "changed" /\ change'[c].user = u
      /\ \A d \in Changes : d # c => change'[d] = change[d]
  BY <1>1, <1>2
<1>6. AuthTypeOK'
  BY <1>2, <1>4, <1>5 DEF AuthInv, AuthTypeOK
<1>7. TokensOfUsers'
  BY <1>2, <1>4 DEF AuthInv, TokensOfUsers
<1>8. BumpedTokensTellRoles'
  <2> SUFFICES ASSUME NEW t \in Tokens,
                      token[t].pc = "issued", token[t].user \notin distrusted,
                      \A d \in Changes : ~(change'[d].pc = "changed"
                                           /\ change'[d].user = token[t].user),
                      token[t].version = user'[token[t].user].version
               PROVE  token[t].roles = user'[token[t].user].roles
    BY <1>2 DEF BumpedTokensTellRoles
  <2>1. token[t].user \in Users \ {u}
    BY <1>5 DEF AuthInv, TokensOfUsers
  <2>2. \A d \in Changes : ~(change[d].pc = "changed" /\ change[d].user = token[t].user)
    BY <1>2, <1>5
  <2> QED
    BY <1>4, <2>1, <2>2 DEF AuthInv, BumpedTokensTellRoles
<1>9. CacheSettled'
  BY <1>2, <1>4 DEF AuthInv, CacheSettled
<1>10. RequestsSettled' /\ ChangesOfUsers'
  BY <1>2, <1>4, <1>5 DEF AuthInv, RequestsSettled, ChangesOfUsers
<1> QED
  BY <1>6, <1>7, <1>8, <1>9, <1>10 DEF AuthInv

\* The bump makes the user newer than every token there is.
LEMMA BumpVersionKeeps ==
  ASSUME AuthInv, NEW c \in Changes, BumpVersion(c)
  PROVE  AuthInv'
<1>1. /\ user \in [Users -> [exists : BOOLEAN, roles : SUBSET Roles, version : Nat]]
      /\ change \in [Changes -> [pc : {"new", "changed", "bumped", "over"},
                                 user : Users \cup {NoUser}]]
      /\ change[c].pc = "changed"
      /\ UNCHANGED <<cached, token, request, settled, distrusted>>
  BY DEF AuthInv, AuthTypeOK, BumpVersion
<1>2. PICK u \in Users : change[c].user = u /\ user[u].exists
  BY <1>1 DEF AuthInv, ChangesOfUsers
<1>3. user' = [user EXCEPT ![u].version = @ + 1] /\ change' = [change EXCEPT ![c].pc = "bumped"]
  BY <1>2 DEF BumpVersion, IncrementPermissionsVersion
<1>4. /\ user' \in [Users -> [exists : BOOLEAN, roles : SUBSET Roles, version : Nat]]
      /\ user'[u].version = user[u].version + 1
      /\ \A w \in Users : user'[w].exists = user[w].exists
      /\ \A w \in Users : w # u => user'[w] = user[w]
  <2>1. user[u].version + 1 \in Nat
    BY <1>1
  <2>2. user' = [user EXCEPT ![u].version = user[u].version + 1]
    BY <1>1, <1>3
  <2> QED
    BY <1>1, <2>1, <2>2
<1>5. /\ change' \in [Changes -> [pc : {"new", "changed", "bumped", "over"},
                                  user : Users \cup {NoUser}]]
      /\ \A d \in Changes : change'[d].user = change[d].user
      /\ \A d \in Changes : d # c => change'[d] = change[d]
  BY <1>1, <1>3
<1>6. AuthTypeOK'
  BY <1>1, <1>4, <1>5 DEF AuthInv, AuthTypeOK
<1>7. \A w \in Users : user[w].version \in Nat /\ user[w].version <= user'[w].version
  BY <1>1, <1>4
<1>8. TokensOfUsers'
  <2>1. \A t \in Tokens : token[t].version \in Nat
    BY DEF AuthInv, AuthTypeOK
  <2>2. \A w \in Users : user'[w].version \in Nat
    BY <1>4
  <2> QED
    BY <1>1, <1>4, <1>7, <2>1, <2>2 DEF AuthInv, TokensOfUsers
<1>9. BumpedTokensTellRoles'
  <2> SUFFICES ASSUME NEW t \in Tokens,
                      token[t].pc = "issued", token[t].user \notin distrusted,
                      \A d \in Changes : ~(change'[d].pc = "changed"
                                           /\ change'[d].user = token[t].user),
                      token[t].version = user'[token[t].user].version
               PROVE  token[t].roles = user'[token[t].user].roles
    BY <1>1 DEF BumpedTokensTellRoles
  <2>1. token[t].user \in Users /\ token[t].version <= user[token[t].user].version
        /\ token[t].version \in Nat
    BY AuthTypes DEF AuthInv, TokensOfUsers
  <2>2. token[t].user # u
    BY <1>4, <1>7, <2>1
  <2>3. \A d \in Changes : ~(change[d].pc = "changed" /\ change[d].user = token[t].user)
    BY <1>2, <1>5, <2>2
  <2> QED
    BY <1>4, <2>1, <2>2, <2>3 DEF AuthInv, BumpedTokensTellRoles
<1>10. CacheSettled'
  <2>1. \A w \in Users : settled[w] \in Nat /\ user'[w].version \in Nat
    BY <1>4, AuthTypes
  <2> QED
    BY <1>1, <1>2, <1>4, <1>7, <2>1 DEF AuthInv, CacheSettled
<1>11. RequestsSettled'
  BY <1>1 DEF AuthInv, RequestsSettled
<1>12. ChangesOfUsers'
  BY <1>1, <1>4, <1>5 DEF AuthInv, ChangesOfUsers
<1> QED
  BY <1>6, <1>8, <1>9, <1>10, <1>11, <1>12 DEF AuthInv

\* A change that is lost, or that returns with the cache removed.
LEMMA EndChangeKeeps ==
  ASSUME AuthInv, NEW c \in Changes, LoseVersion(c) \/ BustPermissionsCache(c)
  PROVE  AuthInv'
<1>1. /\ change \in [Changes -> [pc : {"new", "changed", "bumped", "over"},
                                 user : Users \cup {NoUser}]]
      /\ cached \in [Users -> Nat] /\ settled \in [Users -> Nat] /\ distrusted \subseteq Users
      /\ \A w \in Users : user[w].version \in Nat
      /\ change[c].pc \in {"changed", "bumped"}
      /\ UNCHANGED <<user, token, request>>
      /\ change' = [change EXCEPT ![c].pc = "over"]
  BY DEF AuthInv, AuthTypeOK, LoseVersion, BustPermissionsCache
<1>2. PICK u \in Users : change[c].user = u /\ user[u].exists
  BY <1>1 DEF AuthInv, ChangesOfUsers
<1>3. /\ change' \in [Changes -> [pc : {"new", "changed", "bumped", "over"},
                                  user : Users \cup {NoUser}]]
      /\ \A d \in Changes : change'[d].user = change[d].user
      /\ \A d \in Changes : d # c => change'[d] = change[d]
  BY <1>1
<1>4. CASE LoseVersion(c)
  <2>1. distrusted' = distrusted \cup {u} /\ UNCHANGED <<cached, settled>>
    BY <1>2, <1>4 DEF LoseVersion
  <2>2. AuthTypeOK'
    BY <1>1, <1>3, <2>1 DEF AuthInv, AuthTypeOK
  <2>3. TokensOfUsers' /\ CacheSettled' /\ RequestsSettled' /\ ChangesOfUsers'
    BY <1>1, <1>3, <2>1
    DEF AuthInv, TokensOfUsers, CacheSettled, RequestsSettled, ChangesOfUsers
  <2>4. BumpedTokensTellRoles'
    BY <1>1, <1>2, <1>3, <2>1 DEF AuthInv, BumpedTokensTellRoles
  <2> QED
    BY <2>2, <2>3, <2>4 DEF AuthInv
<1>5. CASE BustPermissionsCache(c)
  <2>1. /\ cached' = [cached EXCEPT ![u] = Absent]
        /\ settled' = [settled EXCEPT ![u] = user[u].version]
        /\ UNCHANGED distrusted /\ change[c].pc = "bumped"
    BY <1>2, <1>5 DEF BustPermissionsCache, Busted
  <2>2. AuthTypeOK'
    BY <1>1, <1>3, <2>1 DEF AuthInv, AuthTypeOK, Absent
  <2>3. TokensOfUsers' /\ RequestsSettled' /\ ChangesOfUsers'
    BY <1>1, <1>3, <2>1
    DEF AuthInv, TokensOfUsers, RequestsSettled, ChangesOfUsers
  <2>4. BumpedTokensTellRoles'
    BY <1>1, <1>2, <1>3, <2>1 DEF AuthInv, BumpedTokensTellRoles
  <2>5. CacheSettled'
    BY <1>1, <1>2, <2>1 DEF AuthInv, CacheSettled
  <2> QED
    BY <2>2, <2>3, <2>4, <2>5 DEF AuthInv
<1> QED BY <1>4, <1>5

\* A login or a refresh reads the row of its user, then the roles.
LEMMA IssueKeeps ==
  ASSUME AuthInv, NEW t \in Tokens,
         (\E u \in Users : LoadUser(t, u)) \/ GetPermissionsForUser(t)
  PROVE  AuthInv'
<1>1. /\ token \in [Tokens -> [pc : {"new", "row", "issued"}, user : Users \cup {NoUser},
                               version : Nat, roles : SUBSET Roles]]
      /\ user \in [Users -> [exists : BOOLEAN, roles : SUBSET Roles, version : Nat]]
      /\ UNCHANGED <<user, cached, change, request, settled, distrusted>>
      /\ token[t].pc # "issued"
  BY DEF AuthInv, AuthTypeOK, LoadUser, GetPermissionsForUser
<1>2. /\ token' \in [Tokens -> [pc : {"new", "row", "issued"}, user : Users \cup {NoUser},
                                version : Nat, roles : SUBSET Roles]]
      /\ \A s \in Tokens : s # t => token'[s] = token[s]
      /\ token'[t].user \in Users /\ user[token'[t].user].exists
      /\ token'[t].version <= user[token'[t].user].version
      /\ token'[t].pc = "issued" => token'[t].roles = user[token'[t].user].roles
  <2>1. ASSUME NEW u \in Users, LoadUser(t, u)
        PROVE  /\ token' \in [Tokens -> [pc : {"new", "row", "issued"},
                                         user : Users \cup {NoUser},
                                         version : Nat, roles : SUBSET Roles]]
               /\ \A s \in Tokens : s # t => token'[s] = token[s]
               /\ token'[t].user \in Users /\ user[token'[t].user].exists
               /\ token'[t].version <= user[token'[t].user].version
               /\ token'[t].pc # "issued"
    <3>1. /\ token' = [token EXCEPT ![t] = [pc |-> "row", user |-> u, version |-> user[u].version,
                                           roles |-> {}]]
          /\ user[u].exists /\ user[u].version \in Nat
      BY <1>1, <2>1 DEF LoadUser
    <3> QED
      BY <1>1, <3>1
  <2>2. CASE GetPermissionsForUser(t)
    <3>1. PICK u \in Users : token[t].user = u
      BY <1>1, <2>2 DEF GetPermissionsForUser, AuthInv, TokensOfUsers
    <3>2. /\ token' = [token EXCEPT ![t].pc = "issued", ![t].roles = user[u].roles]
          /\ user[u].exists /\ user[u].roles \in SUBSET Roles
          /\ token[t].version <= user[u].version
      BY <1>1, <2>2, <3>1 DEF GetPermissionsForUser, PermissionsOf, AuthInv, TokensOfUsers
    <3>3. /\ token'[t].pc = "issued" /\ token'[t].user = u
          /\ token'[t].version = token[t].version /\ token'[t].roles = user[u].roles
      BY <1>1, <3>1, <3>2
    <3> QED
      BY <1>1, <3>2, <3>3
  <2> QED BY <2>1, <2>2
<1>3. AuthTypeOK'
  BY <1>1, <1>2 DEF AuthInv, AuthTypeOK
<1>4. TokensOfUsers'
  BY <1>1, <1>2 DEF AuthInv, TokensOfUsers
<1>5. BumpedTokensTellRoles'
  <2> SUFFICES ASSUME NEW s \in Tokens,
                      token'[s].pc = "issued", token'[s].user \notin distrusted,
                      \A d \in Changes : ~(change[d].pc = "changed"
                                           /\ change[d].user = token'[s].user),
                      token'[s].version = user[token'[s].user].version
               PROVE  token'[s].roles = user[token'[s].user].roles
    BY <1>1 DEF BumpedTokensTellRoles
  <2>1. s = t \/ token'[s] = token[s]
    BY <1>2
  <2> QED
    BY <1>2, <2>1 DEF AuthInv, BumpedTokensTellRoles
<1>6. CacheSettled' /\ ChangesOfUsers'
  BY <1>1 DEF AuthInv, CacheSettled, ChangesOfUsers
<1>7. RequestsSettled'
  <2>1. ASSUME NEW q \in Requests
        PROVE  /\ request[q].pc # "new" =>
                    /\ request[q].token \in Tokens
                    /\ token[request[q].token].pc = "issued"
               /\ request[q].pc = "read" => request[q].since <= request[q].version
               /\ request[q].pc = "granted" =>
                    \/ token[request[q].token].version >= request[q].since
                    \/ token[request[q].token].user \in distrusted
    BY DEF AuthInv, RequestsSettled
  <2>2. ASSUME NEW q \in Requests, request[q].pc # "new"
        PROVE  token'[request[q].token] = token[request[q].token]
    BY <1>1, <1>2, <2>1, <2>2
  <2> QED
    BY <1>1, <2>1, <2>2 DEF RequestsSettled
<1> QED
  BY <1>3, <1>4, <1>5, <1>6, <1>7 DEF AuthInv

RequestRows ==
  [pc : {"new", "read", "granted", "refused"}, token : Tokens, version : Nat, since : Nat]

\* A request that comes, or goes on with the version it has read.
LEMMA RequestStepKeeps ==
  ASSUME AuthInv, NEW q \in Requests, NEW t \in Tokens, token[t].pc = "issued",
         request' \in [Requests -> RequestRows],
         \A p \in Requests \ {q} : request'[p] = request[p],
         request'[q].token = t,
         request'[q].pc = "read" => request'[q].since <= request'[q].version,
         request'[q].pc = "granted" =>
           token[t].version >= request'[q].since \/ token[t].user \in distrusted,
         UNCHANGED <<user, change, token, settled>>,
         cached' \in [Users -> Nat], distrusted \subseteq distrusted', distrusted' \subseteq Users,
         \A u \in Users : u \notin distrusted' /\ cached'[u] # Absent => settled[u] <= cached'[u]
  PROVE  AuthInv'
<1>1. AuthTypeOK'
  BY DEF AuthInv, AuthTypeOK, RequestRows
<1>2. TokensOfUsers' /\ BumpedTokensTellRoles' /\ ChangesOfUsers'
  BY DEF AuthInv, TokensOfUsers, BumpedTokensTellRoles, ChangesOfUsers
<1>3. CacheSettled'
  BY DEF AuthInv, CacheSettled
<1>4. RequestsSettled'
  BY DEF AuthInv, RequestsSettled
<1> QED
  BY <1>1, <1>2, <1>3, <1>4 DEF AuthInv

\* A request whose row is replaced by another.
LEMMA RequestReplaced ==
  ASSUME request \in [Requests -> RequestRows], NEW q \in Requests, NEW row \in RequestRows,
         request' = [request EXCEPT ![q] = row]
  PROVE  /\ request' \in [Requests -> RequestRows]
         /\ request'[q] = row
         /\ \A p \in Requests \ {q} : request'[p] = request[p]
  OBVIOUS

LEMMA CheckKeeps ==
  ASSUME AuthInv, NEW q \in Requests, NEW t \in Tokens, CheckPermissionVersion(q, t)
  PROVE  AuthInv'
<1>1. /\ token[t].pc = "issued" /\ token[t].version \in Nat
      /\ UNCHANGED <<user, cached, change, token, settled, distrusted>>
      /\ cached \in [Users -> Nat] /\ distrusted \subseteq Users
      /\ \A u \in Users : u \notin distrusted /\ cached[u] # Absent => settled[u] <= cached[u]
      /\ request \in [Requests -> RequestRows] /\ t \in Nat
  <2>1. token[t].pc = "issued" /\ UNCHANGED <<user, cached, change, token, settled, distrusted>>
    BY DEF CheckPermissionVersion, CacheHit, GetPermissionsVersion
  <2>2. /\ cached \in [Users -> Nat] /\ distrusted \subseteq Users
        /\ request \in [Requests -> RequestRows]
    BY DEF AuthInv, AuthTypeOK, RequestRows
  <2>3. t \in Nat
    <3>1. NTokens \in Nat
      BY AuthVersionsAssumption
    <3> QED
      BY <3>1 DEF Tokens
  <2>4. \A u \in Users : u \notin distrusted /\ cached[u] # Absent => settled[u] <= cached[u]
    BY DEF AuthInv, CacheSettled
  <2> QED
    BY <2>1, <2>2, <2>3, <2>4, AuthTypes
<1>2. PICK u \in Users : token[t].user = u
  BY <1>1 DEF AuthInv, TokensOfUsers
<1>3. /\ settled[u] \in Nat /\ cached[u] \in Nat /\ user[u].version \in Nat
      /\ settled[u] <= user[u].version
  BY AuthTypes DEF AuthInv, CacheSettled
<1>4. CASE CacheHit(q, t)
  <2>1. PICK pc \in {"granted", "refused"} : /\ pc = Checked(q, t, cached[u])
                                             /\ pc = "granted" => cached[u] = token[t].version
    BY DEF Checked
  <2> DEFINE row == [pc |-> pc, token |-> t, version |-> cached[u], since |-> settled[u]]
  <2>2. request' = [request EXCEPT ![q] = row] /\ cached[u] # Absent
    BY <1>2, <1>4, <2>1 DEF CacheHit
  <2>3. /\ row \in RequestRows
        /\ row.pc # "read" /\ row.token = t /\ row.since = settled[u]
        /\ row.pc = "granted" => cached[u] = token[t].version
    BY <1>1, <1>3, <2>1 DEF RequestRows
  <2> HIDE DEF row
  <2>4. PICK r \in RequestRows : r = row
    BY <2>3
  <2>5. /\ request' \in [Requests -> RequestRows] /\ request'[q] = r
        /\ \A p \in Requests \ {q} : request'[p] = request[p]
    BY <1>1, <2>2, <2>4, RequestReplaced
  <2>6. r.pc = "granted" => token[t].version >= r.since \/ token[t].user \in distrusted
    BY <1>1, <1>2, <1>3, <2>2, <2>3, <2>4
  <2> QED
    BY <1>1, <2>3, <2>4, <2>5, <2>6, RequestStepKeeps
<1>5. CASE GetPermissionsVersion(q, t)
  <2> DEFINE row == [pc |-> "read", token |-> t, version |-> user[u].version,
                     since |-> settled[u]]
  <2>1. request' = [request EXCEPT ![q] = row]
    BY <1>2, <1>5 DEF GetPermissionsVersion
  <2>2. /\ row \in RequestRows
        /\ row.pc = "read" /\ row.token = t /\ row.since <= row.version
    BY <1>1, <1>3 DEF RequestRows
  <2> HIDE DEF row
  <2>3. PICK r \in RequestRows : r = row
    BY <2>2
  <2>4. /\ request' \in [Requests -> RequestRows] /\ request'[q] = r
        /\ \A p \in Requests \ {q} : request'[p] = request[p]
    BY <1>1, <2>1, <2>3, RequestReplaced
  <2>5. r.pc # "granted"
    BY <2>2, <2>3
  <2> QED
    BY <1>1, <2>2, <2>3, <2>4, <2>5, RequestStepKeeps
<1> QED
  BY <1>4, <1>5 DEF CheckPermissionVersion

\* A request goes on with what it read: what it puts in the cache is current,
\* or its user is distrusted from then on.
LEMMA FillKeeps ==
  ASSUME AuthInv, NEW q \in Requests, FillCache(q) \/ SkipCache(q)
  PROVE  AuthInv'
<1>1. /\ request[q].pc = "read" /\ UNCHANGED <<user, change, token, settled>>
      /\ cached \in [Users -> Nat] /\ distrusted \subseteq Users
      /\ \A u \in Users : u \notin distrusted /\ cached[u] # Absent => settled[u] <= cached[u]
      /\ request \in [Requests -> RequestRows]
  BY DEF FillCache, SkipCache, AuthInv, AuthTypeOK, CacheSettled, RequestRows
<1>2. PICK t \in Tokens : request[q].token = t /\ token[t].pc = "issued"
  BY <1>1 DEF AuthInv, RequestsSettled
<1>3. PICK u \in Users : token[t].user = u
  BY <1>2 DEF AuthInv, TokensOfUsers
<1>4. PICK version \in Nat : request[q].version = version
  BY AuthTypes
<1>5. PICK pc \in {"granted", "refused"} : /\ pc = Checked(q, t, version)
                                           /\ pc = "granted" => version = token[t].version
  BY DEF Checked
<1>6. request' = [request EXCEPT ![q].pc = pc]
  BY <1>1, <1>2, <1>4, <1>5 DEF FillCache, SkipCache
<1>7. /\ request' \in [Requests -> RequestRows]
      /\ request'[q].pc = pc /\ request'[q].token = t
      /\ request'[q].version = version /\ request'[q].since = request[q].since
      /\ \A p \in Requests \ {q} : request'[p] = request[p]
  BY <1>1, <1>2, <1>4, <1>6 DEF RequestRows
<1>8. request'[q].pc # "read"
  BY <1>7
<1>9. /\ request[q].since \in Nat /\ token[t].version \in Nat /\ user[u].version \in Nat
      /\ settled[u] <= user[u].version /\ request[q].since <= version
  BY <1>1, <1>4, AuthTypes DEF AuthInv, RequestsSettled, CacheSettled
<1>10. request'[q].pc = "granted" =>
         token[t].version >= request'[q].since \/ token[t].user \in distrusted
  BY <1>5, <1>7, <1>9
<1>11. CASE FillCache(q)
  <2>1. /\ cached' = [cached EXCEPT ![u] = version]
        /\ distrusted' = IF version = user[u].version THEN distrusted
                         ELSE distrusted \cup {u}
    BY <1>2, <1>3, <1>4, <1>11 DEF FillCache
  <2>2. /\ cached' \in [Users -> Nat] /\ distrusted \subseteq distrusted'
        /\ distrusted' \subseteq Users
    BY <1>1, <2>1
  <2>3. \A w \in Users : w \notin distrusted' /\ cached'[w] # Absent => settled[w] <= cached'[w]
    BY <1>1, <1>9, <2>1
  <2> QED
    BY <1>1, <1>2, <1>7, <1>8, <1>10, <2>2, <2>3, RequestStepKeeps
<1>12. CASE SkipCache(q)
  <2>1. UNCHANGED <<cached, distrusted>>
    BY <1>12 DEF SkipCache
  <2> QED
    BY <1>1, <1>2, <1>7, <1>8, <1>10, <2>1, RequestStepKeeps
<1> QED
  BY <1>11, <1>12

LEMMA ExpireKeeps ==
  ASSUME AuthInv, NEW u \in Users, ExpireCache(u)
  PROVE  AuthInv'
<1>1. /\ cached' = [cached EXCEPT ![u] = Absent] /\ cached \in [Users -> Nat]
      /\ UNCHANGED <<user, change, token, request, settled, distrusted>>
  BY DEF ExpireCache, Busted, AuthInv, AuthTypeOK
<1>2. AuthTypeOK'
  BY <1>1 DEF AuthInv, AuthTypeOK, Absent
<1>3. TokensOfUsers' /\ BumpedTokensTellRoles' /\ RequestsSettled' /\ ChangesOfUsers'
  BY <1>1 DEF AuthInv, TokensOfUsers, BumpedTokensTellRoles, RequestsSettled, ChangesOfUsers
<1>4. CacheSettled'
  BY <1>1 DEF AuthInv, CacheSettled
<1> QED
  BY <1>2, <1>3, <1>4 DEF AuthInv

\* Every step of the users, their roles, tokens and requests keeps AuthInv.
THEOREM AuthInductive == AuthInv /\ [AuthNext]_authVars => AuthInv'
<1> SUFFICES ASSUME AuthInv, [AuthNext]_authVars PROVE AuthInv'
  OBVIOUS
<1>1. ASSUME NEW u \in Users, PostUser(u) PROVE AuthInv'
  <2>1. PICK roles \in SUBSET Roles : CreateUser(u, roles)
    BY <1>1 DEF PostUser
  <2> QED BY <2>1, CreateUserKeeps
<1>2. ASSUME NEW u \in Users, ExpireCache(u) PROVE AuthInv'
  BY <1>2, ExpireKeeps
<1>3. ASSUME NEW c \in Changes, NEW u \in Users,
             PostUserRole(c, u) \/ \E r \in Roles : RemoveRole(c, u, r)
      PROVE  AuthInv'
  <2>1. PICK r \in Roles : AssignRole(c, u, r) \/ RemoveRole(c, u, r)
    BY <1>3 DEF PostUserRole
  <2> QED BY <2>1, ChangeRolesKeeps
<1>4. ASSUME NEW c \in Changes, BumpVersion(c) \/ LoseVersion(c) \/ BustPermissionsCache(c)
      PROVE  AuthInv'
  BY <1>4, BumpVersionKeeps, EndChangeKeeps
<1>5. ASSUME NEW t \in Tokens, (\E u \in Users : LoadUser(t, u)) \/ GetPermissionsForUser(t)
      PROVE  AuthInv'
  BY <1>5, IssueKeeps
<1>6. ASSUME NEW q \in Requests, NEW t \in Tokens, CheckPermissionVersion(q, t) PROVE AuthInv'
  BY <1>6, CheckKeeps
<1>7. ASSUME NEW q \in Requests, FillCache(q) \/ SkipCache(q) PROVE AuthInv'
  BY <1>7, FillKeeps
<1>8. CASE UNCHANGED authVars
  <2>1. UNCHANGED <<user, cached, change, token, request, settled, distrusted>>
    BY <1>8 DEF authVars
  <2> QED
    BY <2>1 DEF AuthInv, AuthTypeOK, TokensOfUsers, BumpedTokensTellRoles, CacheSettled,
                RequestsSettled, ChangesOfUsers
<1> QED
  BY <1>1, <1>2, <1>3, <1>4, <1>5, <1>6, <1>7, <1>8 DEF AuthNext

\* AuthInv holds in every state.
THEOREM AuthInvHolds == AuthSpec => []AuthInv
  BY AuthInitSafe, AuthInductive, PTL DEF AuthSpec

\* Whoever logs in while roles change, a token of the current version tells the
\* roles of its user once no change is under way (loadUser, AssignRole).
THEOREM TokensTellRoles == AuthSpec => []CurrentTokensTellRoles
<1>1. AuthInv => CurrentTokensTellRoles
  <2> SUFFICES ASSUME AuthInv, NEW t \in Tokens,
                      token[t].pc = "issued", token[t].user \notin distrusted,
                      InFlight(token[t].user) = {},
                      token[t].version = user[token[t].user].version
               PROVE  token[t].roles = user[token[t].user].roles
    BY DEF CurrentTokensTellRoles
  <2>1. \A c \in Changes : ~(change[c].pc = "changed" /\ change[c].user = token[t].user)
    BY DEF InFlight
  <2> QED
    BY <2>1 DEF AuthInv, BumpedTokensTellRoles
<1> QED
  BY <1>1, AuthInvHolds, PTL

\* A token from before a change of roles is let in by no request that comes
\* after the change has returned (CheckPermissionVersion and its cache).
THEOREM OldTokensAreRefused == AuthSpec => []OldTokensRefused
<1>1. AuthInv => OldTokensRefused
  <2> SUFFICES ASSUME AuthInv, NEW q \in Requests, request[q].pc = "granted",
                      token[request[q].token].version < request[q].since,
                      token[request[q].token].user \notin distrusted
               PROVE  FALSE
    BY DEF OldTokensRefused
  <2>1. /\ request[q].token \in Tokens
        /\ token[request[q].token].version >= request[q].since
    BY DEF AuthInv, RequestsSettled
  <2>2. token[request[q].token].version \in Nat /\ request[q].since \in Nat
    BY <2>1, AuthTypes
  <2> QED
    BY <2>1, <2>2
<1> QED
  BY <1>1, AuthInvHolds, PTL

-----------------------------------------------------------------------------
(* Sessions: the proof                                                     *)

LEMMA SessionShapes ==
  ASSUME SessionsInv
  PROVE  /\ storedTokens \subseteq Pairs /\ branched \subseteq Logins
         /\ globalKey \in Nat /\ revocations \in Nat
         /\ pair \in [Pairs -> [session : {0} \cup Logins, version : Nat, born : Nat]]
         /\ refresh \in [Refreshes -> [pc : {"new", "read", "removed", "over"}, token : Pairs]]
         /\ check \in [Checks -> [pc : {"new", "granted", "refused"}, pair : Pairs,
                                  seen : Nat]]
         /\ GetGlobalAuthVersion \in Nat
  BY DEF SessionsInv, SessionsTypeOK, GetGlobalAuthVersion, Baseline

\* Login s issues pair s, refresh f the pair after those of the logins.
LEMMA PairNumbers ==
  /\ Logins \subseteq Pairs /\ 0 \notin Logins
  /\ \A f \in Refreshes : NLogins + f \in Pairs /\ NLogins + f \notin Logins
  /\ \A f, g \in Refreshes : f # g => NLogins + f # NLogins + g
  BY SessionsAssumption DEF Logins, Refreshes, Pairs

LEMMA SessionsInitSafe == SessionsInit => SessionsInv
<1> SUFFICES ASSUME SessionsInit PROVE SessionsInv
  OBVIOUS
<1>1. 1 \in Pairs
  BY SessionsAssumption DEF Pairs
<1>2. SessionsTypeOK
  BY <1>1 DEF SessionsInit, SessionsTypeOK, NoPair
<1>3. SessionOrder /\ VersionsBorn
  BY PairNumbers
  DEF SessionsInit, SessionOrder, VersionsBorn, NoPair, GetGlobalAuthVersion, Baseline
<1>4. OneBranch
  BY DEF SessionsInit, OneBranch, Refreshing, GoodTokens
<1>5. RevokedStayRefused
  BY DEF SessionsInit, RevokedStayRefused
<1> QED
  BY <1>2, <1>3, <1>4, <1>5 DEF SessionsInv

\* A pair that is issued is of the session, and born at the revocations so far.
LEMMA IssuedPair ==
  ASSUME SessionsInv, NEW p \in Pairs, NEW s \in Logins, IssueTokenPair(p, s)
  PROVE  /\ pair' \in [Pairs -> [session : {0} \cup Logins, version : Nat, born : Nat]]
         /\ \A q \in Pairs \ {p} : pair'[q] = pair[q]
         /\ pair'[p].session = s /\ pair'[p] # NoPair
         /\ pair'[p].version \in {Baseline, revocations} /\ pair'[p].born = revocations
         /\ storedTokens' = storedTokens \cup {p}
<1>1. PICK version \in {GetGlobalAuthVersion, Baseline} :
        pair' = [pair EXCEPT ![p] =
                   [session |-> s, version |-> version, born |-> revocations]]
  BY DEF IssueTokenPair
<1>2. version \in Nat /\ version \in {Baseline, revocations}
  BY SessionShapes DEF SessionsInv, VersionsBorn, GetGlobalAuthVersion, Baseline
<1> DEFINE row == [session |-> s, version |-> version, born |-> revocations]
<1>3. /\ row \in [session : {0} \cup Logins, version : Nat, born : Nat]
      /\ row.session = s /\ row.version = version /\ row.born = revocations
  BY <1>2, SessionShapes
<1>4. pair' = [pair EXCEPT ![p] = row]
  BY <1>1
<1> HIDE DEF row
<1>5. /\ pair' \in [Pairs -> [session : {0} \cup Logins, version : Nat, born : Nat]]
      /\ \A q \in Pairs \ {p} : pair'[q] = pair[q]
      /\ pair'[p] = row
  BY <1>3, <1>4, SessionShapes
<1>6. pair'[p] # NoPair
  BY <1>3, <1>5, PairNumbers DEF NoPair
<1>7. storedTokens' = storedTokens \cup {p}
  BY DEF IssueTokenPair
<1> QED
  BY <1>2, <1>3, <1>5, <1>6, <1>7

\* A login begins a session that no pair and no refresh is of yet.
LEMMA LoginKeeps ==
  ASSUME SessionsInv, NEW s \in Logins, Login(s)
  PROVE  SessionsInv'
<1>1. /\ pair[s] = NoPair /\ s \in Pairs
      /\ UNCHANGED <<refresh, globalKey, check, revocations, branched>>
  BY PairNumbers DEF Login
<1>2. /\ pair' \in [Pairs -> [session : {0} \cup Logins, version : Nat, born : Nat]]
      /\ \A q \in Pairs \ {s} : pair'[q] = pair[q]
      /\ pair'[s].session = s /\ pair'[s] # NoPair
      /\ pair'[s].version \in {Baseline, revocations} /\ pair'[s].born = revocations
      /\ storedTokens' = storedTokens \cup {s}
  BY <1>1, IssuedPair DEF Login
<1>3. /\ \A p \in Pairs : pair[p] # NoPair => pair'[p] = pair[p] /\ pair[p].session # s
      /\ s \notin storedTokens
      /\ \A p \in storedTokens : pair[p] # NoPair
      /\ \A f \in Refreshes : /\ refresh[f].token \in Pairs
                              /\ refresh[f].pc \in {"read", "removed"} =>
                                   pair[refresh[f].token] # NoPair
  BY <1>1, <1>2, SessionShapes DEF SessionsInv, SessionOrder
<1>4. SessionsTypeOK'
  BY <1>1, <1>2 DEF SessionsInv, SessionsTypeOK
<1>5. VersionsBorn' /\ RevokedStayRefused'
  <2>1. \A c \in Checks : check[c].pair \in Pairs
    BY SessionShapes
  <2> QED
    BY <1>1, <1>2, <1>3, <2>1, SessionShapes DEF SessionsInv, VersionsBorn, RevokedStayRefused
<1>6. SessionOrder'
  <2>1. \A p \in Pairs : pair'[p] # NoPair =>
          pair'[p].session \in Logins /\ pair'[pair'[p].session] # NoPair
    BY <1>1, <1>2, <1>3, PairNumbers DEF SessionsInv, SessionOrder
  <2>2. \A p \in storedTokens' : pair'[p] # NoPair
    BY <1>2, <1>3, SessionShapes
  <2>3. \A f \in Refreshes : /\ refresh'[f].pc \in {"read", "removed"} =>
                                  pair'[refresh'[f].token] # NoPair
                             /\ refresh'[f].pc # "over" => pair'[NLogins + f] = NoPair
    BY <1>1, <1>2, <1>3, PairNumbers DEF SessionsInv, SessionOrder
  <2> QED
    BY <2>1, <2>2, <2>3 DEF SessionOrder
<1>7. OneBranch'
  <2> SUFFICES ASSUME NEW r \in Logins \ branched
               PROVE  /\ \A p, q \in GoodTokens(r)' : p = q
                      /\ \A f, g \in Refreshing(r)' : f = g
                      /\ \A f \in Refreshing(r)' :
                           GoodTokens(r)' \subseteq IF refresh'[f].pc = "read"
                                                    THEN {refresh'[f].token} ELSE {}
    BY <1>1 DEF OneBranch
  <2>1. Refreshing(r)' = Refreshing(r)
    BY <1>1, <1>3 DEF Refreshing
  <2>2. CASE r = s
    <3>1. Refreshing(r) = {}
      BY <1>3, <2>2 DEF Refreshing
    <3>2. GoodTokens(r)' \subseteq {s}
      BY <1>2, <1>3, <2>2, SessionShapes DEF GoodTokens
    <3> QED BY <2>1, <3>1, <3>2
  <2>3. CASE r # s
    <3>1. GoodTokens(r)' = GoodTokens(r)
      BY <1>2, <1>3, <2>3, SessionShapes DEF GoodTokens
    <3> QED BY <1>1, <2>1, <3>1 DEF SessionsInv, OneBranch
  <2> QED BY <2>2, <2>3
<1> QED
  BY <1>4, <1>5, <1>6, <1>7 DEF SessionsInv

\* A refresh reads a token that is good: in a session that has not branched it
\* is the only one, and no other refresh has the session.
LEMMA BeginKeeps ==
  ASSUME SessionsInv, NEW f \in Refreshes, NEW p \in Pairs, BeginRefresh(f, p)
  PROVE  SessionsInv'
<1>1. /\ refresh[f].pc = "new" /\ p \in storedTokens
      /\ UNCHANGED <<storedTokens, pair, globalKey, check, revocations>>
      /\ branched' = IF Reading(p) = {} THEN branched ELSE branched \cup {pair[p].session}
  BY DEF BeginRefresh
<1>2. /\ refresh' \in [Refreshes -> [pc : {"new", "read", "removed", "over"}, token : Pairs]]
      /\ refresh'[f].pc = "read" /\ refresh'[f].token = p
      /\ \A g \in Refreshes \ {f} : refresh'[g] = refresh[g]
  <2>1. refresh' = [refresh EXCEPT ![f] = [pc |-> "read", token |-> p]]
    BY DEF BeginRefresh
  <2> QED
    BY <2>1, SessionShapes
<1>3. PICK s \in Logins : pair[p].session = s
  BY <1>1, SessionShapes DEF SessionsInv, SessionOrder
<1>4. branched \subseteq branched' /\ branched' \subseteq Logins
  BY <1>1, <1>3, SessionShapes
<1>5. SessionsTypeOK'
  BY <1>1, <1>2, <1>4 DEF SessionsInv, SessionsTypeOK
<1>6. VersionsBorn' /\ RevokedStayRefused'
  BY <1>1 DEF SessionsInv, VersionsBorn, RevokedStayRefused, GetGlobalAuthVersion
<1>7. SessionOrder'
  BY <1>1, <1>2 DEF SessionsInv, SessionOrder
<1>8. OneBranch'
  <2> SUFFICES ASSUME NEW r \in Logins \ branched'
               PROVE  /\ \A q, t \in GoodTokens(r)' : q = t
                      /\ \A g, h \in Refreshing(r)' : g = h
                      /\ \A g \in Refreshing(r)' :
                           GoodTokens(r)' \subseteq IF refresh'[g].pc = "read"
                                                    THEN {refresh'[g].token} ELSE {}
    BY DEF OneBranch
  <2>1. GoodTokens(r)' = GoodTokens(r)
    BY <1>1 DEF GoodTokens
  <2>2. r \in Logins \ branched
    BY <1>4
  <2>3. CASE r # s
    <3>1. Refreshing(r)' = Refreshing(r)
      BY <1>1, <1>2, <1>3, <2>3 DEF Refreshing
    <3>2. f \notin Refreshing(r)
      BY <1>1 DEF Refreshing
    <3>3. \A g \in Refreshing(r) : refresh'[g] = refresh[g]
      BY <1>2, <3>2 DEF Refreshing
    <3> QED BY <2>1, <2>2, <3>1, <3>3 DEF SessionsInv, OneBranch
  <2>4. CASE r = s
    <3>1. Reading(p) = {}
      BY <1>1, <1>3, <2>4
    <3>2. p \in GoodTokens(r)
      BY <1>1, <1>3, <2>4 DEF GoodTokens
    <3>3. Refreshing(r) = {}
      <4> SUFFICES ASSUME NEW g \in Refreshing(r) PROVE FALSE
        OBVIOUS
      <4>1. p \in IF refresh[g].pc = "read" THEN {refresh[g].token} ELSE {}
        BY <2>2, <3>2 DEF SessionsInv, OneBranch
      <4>2. g \in Reading(p)
        BY <4>1 DEF Reading, Refreshing
      <4> QED BY <3>1, <4>2
    <3>4. Refreshing(r)' \subseteq {f}
      BY <1>1, <1>2, <3>3 DEF Refreshing
    <3>5. GoodTokens(r) \subseteq {p}
      BY <2>2, <3>2 DEF SessionsInv, OneBranch
    <3>6. \A q, t \in GoodTokens(r) : q = t
      BY <2>2 DEF SessionsInv, OneBranch
    <3> QED BY <1>2, <2>1, <3>4, <3>5, <3>6
  <2> QED BY <2>3, <2>4
<1> QED
  BY <1>5, <1>6, <1>7, <1>8 DEF SessionsInv

\* A refresh that removes its token, or fails: the session it leaves has no
\* token but one, or has branched.
LEMMA RefreshStopsKeeps ==
  ASSUME SessionsInv, NEW f \in Refreshes, RemoveOld(f) \/ FailRefresh(f)
  PROVE  SessionsInv'
<1>1. /\ refresh[f].pc \in {"read", "removed"}
      /\ UNCHANGED <<pair, globalKey, check, revocations>>
      /\ storedTokens' \subseteq storedTokens /\ branched \subseteq branched'
  BY DEF RemoveOld, FailRefresh, Removed
<1>2. PICK p \in Pairs : refresh[f].token = p /\ pair[p] # NoPair
  BY <1>1, SessionShapes DEF SessionsInv, SessionOrder
<1>3. PICK s \in Logins : pair[p].session = s
  BY <1>2 DEF SessionsInv, SessionOrder
<1>4. branched' \subseteq Logins
  BY <1>1, <1>2, <1>3, SessionShapes DEF RemoveOld, FailRefresh
<1>5. /\ refresh' \in [Refreshes -> [pc : {"new", "read", "removed", "over"}, token : Pairs]]
      /\ refresh'[f].pc \in {"removed", "over"} /\ refresh'[f].token = p
      /\ refresh'[f].pc = "removed" => RemoveOld(f)
      /\ \A g \in Refreshes \ {f} : refresh'[g] = refresh[g]
  <2>1. PICK pc \in {"removed", "over"} : /\ refresh' = [refresh EXCEPT ![f].pc = pc]
                                          /\ pc = "removed" => RemoveOld(f)
    BY DEF RemoveOld, FailRefresh
  <2> QED
    BY <1>2, <2>1, SessionShapes
<1>6. SessionsTypeOK'
  BY <1>1, <1>4, <1>5 DEF SessionsInv, SessionsTypeOK
<1>7. VersionsBorn' /\ RevokedStayRefused'
  BY <1>1 DEF SessionsInv, VersionsBorn, RevokedStayRefused, GetGlobalAuthVersion
<1>8. SessionOrder'
  BY <1>1, <1>2, <1>5 DEF SessionsInv, SessionOrder
<1>9. OneBranch'
  <2> SUFFICES ASSUME NEW r \in Logins \ branched'
               PROVE  /\ \A q, t \in GoodTokens(r)' : q = t
                      /\ \A g, h \in Refreshing(r)' : g = h
                      /\ \A g \in Refreshing(r)' :
                           GoodTokens(r)' \subseteq IF refresh'[g].pc = "read"
                                                    THEN {refresh'[g].token} ELSE {}
    BY DEF OneBranch
  <2>1. r \in Logins \ branched
    BY <1>1
  <2>2. /\ \A q, t \in GoodTokens(r) : q = t
        /\ \A g, h \in Refreshing(r) : g = h
        /\ \A g \in Refreshing(r) :
             GoodTokens(r) \subseteq IF refresh[g].pc = "read" THEN {refresh[g].token} ELSE {}
    BY <2>1 DEF SessionsInv, OneBranch
  <2>3. GoodTokens(r)' \subseteq GoodTokens(r)
    BY <1>1 DEF GoodTokens
  <2>4. Refreshing(r)' \subseteq Refreshing(r)
    BY <1>1, <1>2, <1>5 DEF Refreshing
  <2>5. ASSUME NEW g \in Refreshing(r)'
        PROVE  GoodTokens(r)' \subseteq IF refresh'[g].pc = "read"
                                        THEN {refresh'[g].token} ELSE {}
    <3>1. CASE g # f
      <4>1. refresh'[g] = refresh[g]
        BY <1>5, <2>5, <3>1 DEF Refreshing
      <4> QED BY <2>2, <2>3, <2>4, <2>5, <4>1
    <3>2. CASE g = f
      <4>1. r = s /\ refresh'[f].pc = "removed"
        BY <1>1, <1>2, <1>3, <1>5, <2>5, <3>2 DEF Refreshing
      <4>2. RemoveOld(f)
        BY <1>5, <4>1
      <4>3. storedTokens' = storedTokens \ {p}
        BY <1>2, <1>3, <4>1, <4>2 DEF RemoveOld, Removed
      <4>4. refresh[f].pc = "read" /\ f \in Refreshing(r)
        BY <2>4, <2>5, <3>2, <4>2 DEF RemoveOld
      <4>5. GoodTokens(r) \subseteq {p}
        BY <1>2, <2>2, <4>4
      <4>6. GoodTokens(r)' = {}
        BY <2>3, <4>3, <4>5 DEF GoodTokens
      <4> QED BY <4>6
    <3> QED BY <3>1, <3>2
  <2> QED
    BY <2>2, <2>3, <2>4, <2>5
<1> QED
  BY <1>6, <1>7, <1>8, <1>9 DEF SessionsInv

\* The token a refresh issues is the only one of its session.
LEMMA FinishKeeps ==
  ASSUME SessionsInv, NEW f \in Refreshes, FinishRefresh(f)
  PROVE  SessionsInv'
<1>1. /\ refresh[f].pc = "removed"
      /\ UNCHANGED <<globalKey, check, revocations, branched>>
      /\ refresh' = [refresh EXCEPT ![f].pc = "over"]
  BY DEF FinishRefresh
<1>2. PICK p \in Pairs : refresh[f].token = p /\ pair[p] # NoPair
  BY <1>1, SessionShapes DEF SessionsInv, SessionOrder
<1>3. PICK s \in Logins : pair[p].session = s
  BY <1>2 DEF SessionsInv, SessionOrder
<1>4. PICK n \in Pairs : n = NLogins + f
  BY PairNumbers
<1>5. pair[n] = NoPair /\ n \notin Logins /\ \A g \in Refreshes \ {f} : NLogins + g # n
  BY <1>1, <1>4, PairNumbers DEF SessionsInv, SessionOrder
<1>6. /\ pair' \in [Pairs -> [session : {0} \cup Logins, version : Nat, born : Nat]]
      /\ \A q \in Pairs \ {n} : pair'[q] = pair[q]
      /\ pair'[n].session = s /\ pair'[n] # NoPair
      /\ pair'[n].version \in {Baseline, revocations} /\ pair'[n].born = revocations
      /\ storedTokens' = storedTokens \cup {n}
  BY <1>2, <1>3, <1>4, IssuedPair DEF FinishRefresh
<1>7. /\ refresh' \in [Refreshes -> [pc : {"new", "read", "removed", "over"}, token : Pairs]]
      /\ refresh'[f].pc = "over"
      /\ \A g \in Refreshes : refresh'[g].token = refresh[g].token
      /\ \A g \in Refreshes \ {f} : refresh'[g] = refresh[g]
  BY <1>1, SessionShapes
<1>8. /\ \A q \in Pairs : pair[q] # NoPair => pair'[q] = pair[q]
      /\ n \notin storedTokens
      /\ \A g \in Refreshes : /\ refresh[g].token \in Pairs
                              /\ refresh[g].pc \in {"read", "removed"} =>
                                   pair[refresh[g].token] # NoPair
  BY <1>5, <1>6, SessionShapes DEF SessionsInv, SessionOrder
<1>9. SessionsTypeOK'
  BY <1>1, <1>6, <1>7 DEF SessionsInv, SessionsTypeOK
<1>10. VersionsBorn' /\ RevokedStayRefused'
  <2>1. \A c \in Checks : check[c].pair \in Pairs
    BY SessionShapes
  <2> QED
    BY <1>1, <1>6, <1>8, <2>1, SessionShapes DEF SessionsInv, VersionsBorn, RevokedStayRefused
<1>11. SessionOrder'
  <2>1. \A q \in Pairs : pair'[q] # NoPair =>
          pair'[q].session \in Logins /\ pair'[pair'[q].session] # NoPair
    <3>1. pair[s] # NoPair /\ s \in Pairs
      BY <1>2, <1>3, PairNumbers DEF SessionsInv, SessionOrder
    <3>2. pair'[n].session \in Logins /\ pair'[pair'[n].session] # NoPair
      BY <1>6, <1>8, <3>1
    <3>3. \A q \in Pairs : pair[q] # NoPair =>
            pair[q].session \in Logins /\ pair[q].session \in Pairs /\ pair[pair[q].session] # NoPair
      BY PairNumbers DEF SessionsInv, SessionOrder
    <3> QED
      BY <1>5, <1>6, <1>8, <3>2, <3>3
  <2>2. \A q \in storedTokens' : pair'[q] # NoPair
    BY <1>6, <1>8, SessionShapes DEF SessionsInv, SessionOrder
  <2>3. \A g \in Refreshes : /\ refresh'[g].pc \in {"read", "removed"} =>
                                  pair'[refresh'[g].token] # NoPair
                             /\ refresh'[g].pc # "over" => pair'[NLogins + g] = NoPair
    BY <1>5, <1>6, <1>7, <1>8, PairNumbers DEF SessionsInv, SessionOrder
  <2> QED
    BY <2>1, <2>2, <2>3 DEF SessionOrder
<1>12. OneBranch'
  <2> SUFFICES ASSUME NEW r \in Logins \ branched
               PROVE  /\ \A q, t \in GoodTokens(r)' : q = t
                      /\ \A g, h \in Refreshing(r)' : g = h
                      /\ \A g \in Refreshing(r)' :
                           GoodTokens(r)' \subseteq IF refresh'[g].pc = "read"
                                                    THEN {refresh'[g].token} ELSE {}
    BY <1>1 DEF OneBranch
  <2>1. /\ \A q, t \in GoodTokens(r) : q = t
        /\ \A g, h \in Refreshing(r) : g = h
        /\ \A g \in Refreshing(r) :
             GoodTokens(r) \subseteq IF refresh[g].pc = "read" THEN {refresh[g].token} ELSE {}
    BY DEF SessionsInv, OneBranch
  <2>2. Refreshing(r)' = Refreshing(r) \ {f}
    BY <1>7, <1>8 DEF Refreshing
  <2>3. CASE r = s
    <3>1. f \in Refreshing(r)
      BY <1>1, <1>2, <1>3, <2>3 DEF Refreshing
    <3>2. Refreshing(r)' = {}
      BY <2>1, <2>2, <3>1
    <3>3. GoodTokens(r) = {}
      BY <1>1, <2>1, <3>1
    <3>4. GoodTokens(r)' \subseteq {n}
      BY <1>6, <1>8, <3>3, SessionShapes DEF GoodTokens
    <3> QED BY <3>2, <3>4
  <2>4. CASE r # s
    <3>1. GoodTokens(r)' = GoodTokens(r)
      BY <1>6, <1>8, <2>4, SessionShapes DEF GoodTokens
    <3>2. \A g \in Refreshing(r)' : g \in Refreshing(r) /\ refresh'[g] = refresh[g]
      BY <1>7, <2>2 DEF Refreshing
    <3> QED BY <2>1, <3>1, <3>2
  <2> QED BY <2>3, <2>4
<1> QED
  BY <1>9, <1>10, <1>11, <1>12 DEF SessionsInv

LEMMA LogoutKeeps ==
  ASSUME SessionsInv, NEW p \in Pairs, Logout(p)
  PROVE  SessionsInv'
<1>1. /\ storedTokens' \subseteq storedTokens
      /\ UNCHANGED <<pair, refresh, globalKey, check, revocations, branched>>
  BY DEF Logout
<1>2. SessionsTypeOK'
  BY <1>1 DEF SessionsInv, SessionsTypeOK
<1>3. VersionsBorn' /\ RevokedStayRefused' /\ SessionOrder'
  BY <1>1 DEF SessionsInv, VersionsBorn, RevokedStayRefused, GetGlobalAuthVersion, SessionOrder
<1>4. OneBranch'
  BY <1>1 DEF SessionsInv, OneBranch, GoodTokens, Refreshing
<1> QED
  BY <1>2, <1>3, <1>4 DEF SessionsInv

\* A revocation is counted by the key, and touches no pair and no request.
LEMMA RevokeKeeps ==
  ASSUME SessionsInv, RevokeAllTokens
  PROVE  SessionsInv'
<1>1. /\ globalKey' = globalKey + 1 /\ revocations' = revocations + 1
      /\ globalKey \in Nat /\ revocations \in Nat
      /\ UNCHANGED <<storedTokens, pair, refresh, check, branched>>
  BY SessionShapes DEF RevokeAllTokens, Incremented
<1>2. SessionsTypeOK'
  BY <1>1 DEF SessionsInv, SessionsTypeOK
<1>3. VersionsBorn'
  <2>1. \A p \in Pairs : pair[p].born \in Nat
    BY SessionShapes
  <2> QED
    BY <1>1, <2>1 DEF SessionsInv, VersionsBorn
<1>4. RevokedStayRefused' /\ SessionOrder' /\ OneBranch'
  BY <1>1 DEF SessionsInv, RevokedStayRefused, SessionOrder, OneBranch, GoodTokens, Refreshing
<1> QED
  BY <1>2, <1>3, <1>4 DEF SessionsInv

\* From the second revocation on, only a pair born since the last carries the
\* version it is compared with.
LEMMA AuthenticateKeeps ==
  ASSUME SessionsInv, NEW c \in Checks, Authenticate(c)
  PROVE  SessionsInv'
<1>1. PICK p \in Pairs : CheckGlobalAuthVersion(c, p)
  BY DEF Authenticate
<1>2. /\ UNCHANGED <<storedTokens, pair, refresh, globalKey, revocations, branched>>
      /\ pair[p] # NoPair
      /\ check' = [check EXCEPT ![c] =
           [pc |-> IF pair[p].version = GetGlobalAuthVersion THEN "granted" ELSE "refused",
            pair |-> p, seen |-> revocations]]
  BY <1>1 DEF CheckGlobalAuthVersion, Issued
<1>3. PICK pc \in {"granted", "refused"} :
        pc = IF pair[p].version = GetGlobalAuthVersion THEN "granted" ELSE "refused"
  OBVIOUS
<1> DEFINE row == [pc |-> pc, pair |-> p, seen |-> revocations]
<1>4. /\ row \in [pc : {"new", "granted", "refused"}, pair : Pairs, seen : Nat]
      /\ row.pair = p /\ row.seen = revocations
      /\ row.pc = "granted" => pair[p].version = GetGlobalAuthVersion
      /\ check' = [check EXCEPT ![c] = row]
  BY <1>2, <1>3, SessionShapes
<1> HIDE DEF row
<1>5. pair[p].version = GetGlobalAuthVersion => pair[p].born = revocations \/ revocations = 1
  <2>1. pair[p].version \in Nat /\ pair[p].born \in Nat /\ revocations \in Nat
    BY SessionShapes
  <2>2. /\ globalKey = revocations /\ pair[p].born <= revocations
        /\ pair[p].version \in {Baseline, pair[p].born}
    BY DEF SessionsInv, VersionsBorn
  <2> QED
    BY <2>1, <2>2 DEF GetGlobalAuthVersion, Baseline
<1>6. /\ check' \in [Checks -> [pc : {"new", "granted", "refused"}, pair : Pairs,
                                seen : Nat]]
      /\ check'[c] = row
      /\ \A d \in Checks \ {c} : check'[d] = check[d]
  BY <1>4, SessionShapes
<1>7. SessionsTypeOK'
  BY <1>2, <1>6 DEF SessionsInv, SessionsTypeOK
<1>8. RevokedStayRefused'
  BY <1>2, <1>4, <1>5, <1>6 DEF SessionsInv, RevokedStayRefused
<1>9. VersionsBorn'
  BY <1>2, <1>4, <1>6 DEF SessionsInv, VersionsBorn
<1>10. SessionOrder' /\ OneBranch'
  BY <1>2 DEF SessionsInv, SessionOrder, OneBranch, GoodTokens, Refreshing
<1> QED
  BY <1>7, <1>8, <1>9, <1>10 DEF SessionsInv

\* Every step of the sessions, their refreshes and revocations keeps SessionsInv.
THEOREM SessionsInductive == SessionsInv /\ [SessionsNext]_sessionsVars => SessionsInv'
<1> SUFFICES ASSUME SessionsInv, [SessionsNext]_sessionsVars PROVE SessionsInv'
  OBVIOUS
<1>1. ASSUME NEW s \in Logins, Login(s) PROVE SessionsInv'
  BY <1>1, LoginKeeps
<1>2. ASSUME NEW f \in Refreshes,
             PostRefresh(f) \/ RemoveOld(f) \/ FinishRefresh(f) \/ FailRefresh(f)
      PROVE  SessionsInv'
  BY <1>2, BeginKeeps, RefreshStopsKeeps, FinishKeeps DEF PostRefresh
<1>3. ASSUME NEW p \in Pairs, Logout(p) PROVE SessionsInv'
  BY <1>3, LogoutKeeps
<1>4. CASE RevokeAllTokens
  BY <1>4, RevokeKeeps
<1>5. ASSUME NEW c \in Checks, Authenticate(c) PROVE SessionsInv'
  BY <1>5, AuthenticateKeeps
<1>6. CASE UNCHANGED sessionsVars
  <2>1. UNCHANGED <<storedTokens, pair, refresh, globalKey, check, revocations, branched>>
    BY <1>6 DEF sessionsVars
  <2> QED
    BY <2>1 DEF SessionsInv, SessionsTypeOK, VersionsBorn, GetGlobalAuthVersion, SessionOrder,
                OneBranch, GoodTokens, Refreshing, RevokedStayRefused
<1> QED
  BY <1>1, <1>2, <1>3, <1>4, <1>5, <1>6 DEF SessionsNext

\* SessionsInv holds in every state.
THEOREM SessionsInvHolds == SessionsSpec => []SessionsInv
  BY SessionsInitSafe, SessionsInductive, PTL DEF SessionsSpec

\* A set with one element at most.
LEMMA OneAtMost ==
  ASSUME NEW S, \A x, y \in S : x = y
  PROVE  Cardinality(S) \in {0, 1} /\ (S = {} => Cardinality(S) = 0)
<1>1. CASE S = {}
  BY <1>1, FS_EmptySet
<1>2. CASE S # {}
  <2>1. PICK x : S = {x}
    BY <1>2
  <2> QED
    BY <1>2, <2>1, FS_Singleton
<1> QED BY <1>1, <1>2

\* Through any refreshes, logouts and failures a session has one refresh token
\* that is good or about to be issued, until it branches (Refresh).
THEOREM SessionsRotate == SessionsSpec => []OneTokenPerSession
<1>1. SessionsInv => OneTokenPerSession
  <2> SUFFICES ASSUME SessionsInv, NEW s \in Logins \ branched
               PROVE  Cardinality({p \in storedTokens : pair[p].session = s})
                        + Cardinality({f \in Refreshes : refresh[f].pc = "removed"
                                         /\ pair[refresh[f].token].session = s}) <= 1
    BY DEF OneTokenPerSession
  <2> DEFINE good == {p \in storedTokens : pair[p].session = s}
             due == {f \in Refreshes : refresh[f].pc = "removed"
                                         /\ pair[refresh[f].token].session = s}
  <2>1. /\ \A p, q \in good : p = q
        /\ \A f, g \in due : f = g
        /\ good = {} \/ due = {}
    BY DEF SessionsInv, OneBranch, GoodTokens, Refreshing
  <2> HIDE DEF good, due
  <2>2. Cardinality(good) \in {0, 1} /\ (good = {} => Cardinality(good) = 0)
    BY <2>1, OneAtMost
  <2>3. Cardinality(due) \in {0, 1} /\ (due = {} => Cardinality(due) = 0)
    BY <2>1, OneAtMost
  <2>4. Cardinality(good) + Cardinality(due) <= 1
    BY <2>1, <2>2, <2>3
  <2> QED
    BY <2>4 DEF good, due
<1> QED
  BY <1>1, SessionsInvHolds, PTL

\* From the second revocation on, an access token older than a revocation is
\* refused; the first revokes nothing (RevokeAllTokens, CheckGlobalAuthVersion).
THEOREM RevokedAreRefused == SessionsSpec => []RevokedStayRefused
<1>1. SessionsInv => RevokedStayRefused
  BY DEF SessionsInv
<1> QED
  BY <1>1, SessionsInvHolds, PTL
=============================================================================
