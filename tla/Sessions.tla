------------------------------ MODULE Sessions ------------------------------
(***************************************************************************)
(* Sessions: refresh tokens in Redis, one key each, and the global version *)
(* that every access token carries.                                        *)
(*                                                                         *)
(* Refresh reads the key of its token, then the user, removes the key and  *)
(* stores a new one; the steps are commands of their own, and the error of *)
(* the removal is ignored.  The global version is a counter in Redis that  *)
(* counts as 1 while its key is absent, so that the first revocation of a  *)
(* deployment leaves the version as it is; a token issued while Redis      *)
(* cannot be read carries 1.                                               *)
(***************************************************************************)
EXTENDS Integers, FiniteSets

CONSTANTS
  NLogins,      \* logins are 1..NLogins, each of which begins a session
  NRefreshes,   \* Refresh requests
  NRevocations, \* bound on RevokeAllTokens
  NChecks       \* authenticated requests

ASSUME SessionsAssumption ==
  /\ NLogins \in Nat \ {0} /\ NRefreshes \in Nat
  /\ NRevocations \in Nat /\ NChecks \in Nat

VARIABLES
  storedTokens, \* the refresh tokens whose key is in Redis
  pair,         \* the token pairs: the session, the version of the access token,
                \* and the revocations before it was issued
  refresh,      \* the Refresh requests
  globalKey,    \* auth:global_version, 0 when absent
  check,        \* the authenticated requests, at the check of the global version,
                \* and the revocations each has seen
  revocations,  \* how many revocations there have been
  branched      \* sessions with a token that two refreshes had read, or whose
                \* key was not removed

sessionsVars == <<storedTokens, pair, refresh, globalKey, check, revocations, branched>>

Logins    == 1..NLogins
Refreshes == 1..NRefreshes
Checks    == 1..NChecks
Pairs     == 1..(NLogins + NRefreshes)  \* login s issues pair s

NoPair    == [session |-> 0, version |-> 0, born |-> 0]
Baseline  == 1

SessionsInit ==
  /\ storedTokens = {} /\ globalKey = 0 /\ revocations = 0 /\ branched = {}
  /\ pair = [p \in Pairs |-> NoPair]
  /\ refresh = [f \in Refreshes |-> [pc |-> "new", token |-> 1]]
  /\ check = [c \in Checks |-> [pc |-> "new", pair |-> 1, seen |-> 0]]

-----------------------------------------------------------------------------
(* Issuing                                                                 *)

GetGlobalAuthVersion == IF globalKey = 0 THEN Baseline ELSE globalKey

\* issueTokenPair: the version at hand, or the baseline if Redis failed to
\* answer, and a refresh token of the user's session.
IssueTokenPair(p, session) ==
  /\ \E version \in {GetGlobalAuthVersion, Baseline} :
       pair' = [pair EXCEPT ![p] =
         [session |-> session, version |-> version, born |-> revocations]]
  /\ storedTokens' = storedTokens \cup {p}

\* With the password of an active user.
Login(s) ==
  /\ pair[s] = NoPair /\ \A r \in 1..(s - 1) : pair[r] # NoPair
  /\ IssueTokenPair(s, s)
  /\ UNCHANGED <<refresh, globalKey, check, revocations, branched>>

-----------------------------------------------------------------------------
(* Refreshing                                                              *)

Reading(p) == {f \in Refreshes : refresh[f].pc = "read" /\ refresh[f].token = p}

\* The key is there; the user is read, whatever is_active says.
BeginRefresh(f, p) ==
  /\ refresh[f].pc = "new" /\ \A g \in 1..(f - 1) : refresh[g].pc # "new"
  /\ p \in storedTokens
  /\ refresh' = [refresh EXCEPT ![f] = [pc |-> "read", token |-> p]]
  /\ branched' = IF Reading(p) = {} THEN branched ELSE branched \cup {pair[p].session}
  /\ UNCHANGED <<storedTokens, pair, globalKey, check, revocations>>

\* Mutant of Removed: the old refresh token stays good.
RemovedNever(p) == storedTokens \cup {p}

Removed(p) == storedTokens \ {p}

RemoveOld(f) ==
  /\ refresh[f].pc = "read"
  /\ \/ storedTokens' = Removed(refresh[f].token) /\ UNCHANGED branched
     \/ /\ storedTokens' = storedTokens
        /\ branched' = branched \cup {pair[refresh[f].token].session}
  /\ refresh' = [refresh EXCEPT ![f].pc = "removed"]
  /\ UNCHANGED <<pair, globalKey, check, revocations>>

FinishRefresh(f) ==
  /\ refresh[f].pc = "removed"
  /\ IssueTokenPair(NLogins + f, pair[refresh[f].token].session)
  /\ refresh' = [refresh EXCEPT ![f].pc = "over"]
  /\ UNCHANGED <<globalKey, check, revocations, branched>>

\* Redis or the database fails, or the server stops: after the removal the
\* session is gone.
FailRefresh(f) ==
  /\ refresh[f].pc \in {"read", "removed"}
  /\ refresh' = [refresh EXCEPT ![f].pc = "over"]
  /\ UNCHANGED <<storedTokens, pair, globalKey, check, revocations, branched>>

\* A logout, or the seven days of the key.  A refresh that has read the token
\* goes on: the token it issues outlives the logout.
Logout(p) ==
  /\ p \in storedTokens
  /\ storedTokens' = storedTokens \ {p}
  /\ UNCHANGED <<pair, refresh, globalKey, check, revocations, branched>>

-----------------------------------------------------------------------------
(* The global version                                                      *)

\* Mutant of Incremented: the version is set rather than incremented.
IncrementedTo2 == 2

\* INCR makes an absent key 1.
Incremented == globalKey + 1

Issued == {p \in Pairs : pair[p] # NoPair}

\* The first one makes 1 of the absent key, which counts as 1 already.
RevokeAllTokens ==
  /\ revocations < NRevocations
  /\ globalKey' = Incremented
  /\ revocations' = revocations + 1
  /\ UNCHANGED <<storedTokens, pair, refresh, check, branched>>

\* Redis must answer, or the request is refused.
CheckGlobalAuthVersion(c, p) ==
  /\ check[c].pc = "new" /\ \A d \in 1..(c - 1) : check[d].pc # "new"
  /\ p \in Issued
  /\ check' = [check EXCEPT ![c] =
       [pc |-> IF pair[p].version = GetGlobalAuthVersion THEN "granted" ELSE "refused",
        pair |-> p, seen |-> revocations]]
  /\ UNCHANGED <<storedTokens, pair, refresh, globalKey, revocations, branched>>

-----------------------------------------------------------------------------

\* The handlers ask for a token and nothing else.
PostRefresh(f) == \E p \in Pairs : BeginRefresh(f, p)

Authenticate(c) == \E p \in Pairs : CheckGlobalAuthVersion(c, p)

SessionsNext ==
  \/ \E s \in Logins : Login(s)
  \/ \E f \in Refreshes : PostRefresh(f) \/ RemoveOld(f) \/ FinishRefresh(f) \/ FailRefresh(f)
  \/ \E p \in Pairs : Logout(p)
  \/ RevokeAllTokens
  \/ \E c \in Checks : Authenticate(c)

SessionsSpec == SessionsInit /\ [][SessionsNext]_sessionsVars

SessionsTypeOK ==
  /\ storedTokens \subseteq Pairs /\ branched \subseteq Logins
  /\ globalKey \in Nat /\ revocations \in Nat
  /\ pair \in [Pairs -> [session : {0} \cup Logins, version : Nat, born : Nat]]
  /\ refresh \in [Refreshes -> [pc : {"new", "read", "removed", "over"}, token : Pairs]]
  /\ check \in [Checks -> [pc : {"new", "granted", "refused"}, pair : Pairs, seen : Nat]]

(* Rotation: a login has at most one refresh token that is good or about   *)
(* to be issued, through any number of refreshes and logouts, unless two   *)
(* refreshes of one token overlapped or the removal of a key failed        *)
(* (Refresh, "prevents replay").                                           *)
OneTokenPerSession ==
  \A s \in Logins \ branched :
    Cardinality({p \in storedTokens : pair[p].session = s})
      + Cardinality({f \in Refreshes : refresh[f].pc = "removed"
                                         /\ pair[refresh[f].token].session = s}) <= 1

(* A request whose access token is older than a revocation is refused, also *)
(* when the token was issued without Redis, from the second revocation of  *)
(* the deployment on: the first sets the absent key to the version that    *)
(* every token carries already, and the tokens it was to revoke stay good  *)
(* until the next (RevokeAllTokens, getGlobalAuthVersion).                 *)
RevokedStayRefused ==
  \A c \in Checks : check[c].pc = "granted"
     => pair[check[c].pair].born = check[c].seen \/ check[c].seen = 1

(* A request whose access token is older than any revocation is refused    *)
(* ("immediately invalidating every outstanding access token system-wide", *)
(* RevokeAllTokens).                                                       *)
RevokedAtOnce ==
  \A c \in Checks : check[c].pc = "granted" => pair[check[c].pair].born = check[c].seen
=============================================================================
