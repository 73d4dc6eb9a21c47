---------------------------- MODULE AuthVersions ----------------------------
(***************************************************************************)
(* Users, roles and the version of a user's permissions.                   *)
(*                                                                         *)
(* A token carries the permissions of its user and permissions_version as  *)
(* they were read when it was issued.  A change of roles is three writes:  *)
(* the role, the version, and the removal of the version from the Redis    *)
(* cache.  A request compares the version of its token with the cached     *)
(* one, or reads the database and fills the cache, in steps of its own.    *)
(*                                                                         *)
(* A permission is held through its role: role_permissions never changes,  *)
(* so a token's permissions are the roles they come from.                  *)
(***************************************************************************)
EXTENDS Integers, FiniteSets

CONSTANTS
  Users,
  Roles,
  NChanges,     \* AssignRole and RemoveRole requests
  NTokens,      \* logins and refreshes, each of which issues a token
  NRequests     \* authenticated requests

ASSUME AuthVersionsAssumption ==
  /\ "no user" \notin Users
  /\ NChanges \in Nat /\ NTokens \in Nat \ {0} /\ NRequests \in Nat

VARIABLES
  user,        \* users and user_roles
  cached,      \* auth:perm_version of each user in Redis, 0 when absent
  change,      \* the AssignRole and RemoveRole requests
  token,       \* the logins and refreshes, and the claims of their tokens
  request,     \* the authenticated requests
  settled,     \* the version the last change of roles that returned has left
  distrusted   \* users whose version was cached late, or not bumped or busted

authVars == <<user, cached, change, token, request, settled, distrusted>>

Changes      == 1..NChanges
Tokens       == 1..NTokens
Requests     == 1..NRequests

NoUser   == "no user"
NewUser  == [exists |-> FALSE, roles |-> {}, version |-> 1]
Absent   == 0

AuthInit ==
  /\ user = [u \in Users |-> NewUser]
  /\ cached = [u \in Users |-> Absent]
  /\ change = [c \in Changes |-> [pc |-> "new", user |-> NoUser]]
  /\ token = [t \in Tokens |-> [pc |-> "new", user |-> NoUser, version |-> 0, roles |-> {}]]
  /\ request = [q \in Requests |-> [pc |-> "new", token |-> 1, version |-> 0, since |-> 0]]
  /\ settled = [u \in Users |-> 1]
  /\ distrusted = {}

-----------------------------------------------------------------------------
(* Users                                                                   *)

InsertUser(u) == [user EXCEPT ![u] = [NewUser EXCEPT !.exists = TRUE]]

\* AssignRoleToUser runs on a connection of the pool: its foreign key meets
\* only users that are committed.
MayAssign(u) == user[u].exists

\* CreateUser inserts the user in a transaction and assigns the roles outside
\* it, before the commit: with a role to assign it fails and rolls back.
CreateUser(u, roles) ==
  /\ ~user[u].exists
  /\ roles # {} => MayAssign(u)
  /\ user' = [InsertUser(u) EXCEPT ![u].roles = roles]
  /\ UNCHANGED <<cached, change, token, request, settled, distrusted>>

-----------------------------------------------------------------------------
(* Changes of roles                                                        *)

AssignRoleToUser(u, r)   == [user EXCEPT ![u].roles = @ \cup {r}]
RemoveRoleFromUser(u, r) == [user EXCEPT ![u].roles = @ \ {r}]
IncrementPermissionsVersion(u) == [user EXCEPT ![u].version = @ + 1]

InFlight(u) == {c \in Changes : change[c].user = u /\ change[c].pc \in {"changed", "bumped"}}

AssignRole(c, u, r) ==
  /\ change[c].pc = "new" /\ MayAssign(u)
  /\ user' = AssignRoleToUser(u, r)
  /\ change' = [change EXCEPT ![c] = [pc |-> "changed", user |-> u]]
  /\ UNCHANGED <<cached, token, request, settled, distrusted>>

RemoveRole(c, u, r) ==
  /\ change[c].pc = "new" /\ user[u].exists
  /\ user' = RemoveRoleFromUser(u, r)
  /\ change' = [change EXCEPT ![c] = [pc |-> "changed", user |-> u]]
  /\ UNCHANGED <<cached, token, request, settled, distrusted>>

\* Mutant of BumpVersion: the version is bumped by the first role change only.
BumpVersionOnce(c) ==
  /\ change[c].pc = "changed"
  /\ user' = IF user[change[c].user].version > 1 THEN user
             ELSE IncrementPermissionsVersion(change[c].user)
  /\ change' = [change EXCEPT ![c].pc = "bumped"]
  /\ UNCHANGED <<cached, token, request, settled, distrusted>>

BumpVersion(c) ==
  /\ change[c].pc = "changed"
  /\ user' = IncrementPermissionsVersion(change[c].user)
  /\ change' = [change EXCEPT ![c].pc = "bumped"]
  /\ UNCHANGED <<cached, token, request, settled, distrusted>>

\* The error of the increment is logged, and the server may stop before it or
\* before the cache is busted.
LoseVersion(c) ==
  /\ change[c].pc \in {"changed", "bumped"}
  /\ change' = [change EXCEPT ![c].pc = "over"]
  /\ distrusted' = distrusted \cup {change[c].user}
  /\ UNCHANGED <<user, cached, token, request, settled>>

\* Mutant of Busted: the cached version is left to its expiry.
BustedNever(u) == [cached EXCEPT ![u] = @]

Busted(u) == [cached EXCEPT ![u] = Absent]

\* The change returns to its client.
BustPermissionsCache(c) ==
  /\ change[c].pc = "bumped"
  /\ cached' = Busted(change[c].user)
  /\ change' = [change EXCEPT ![c].pc = "over"]
  /\ settled' = [settled EXCEPT ![change[c].user] = user[change[c].user].version]
  /\ UNCHANGED <<user, token, request, distrusted>>

-----------------------------------------------------------------------------
(* Tokens                                                                  *)

\* loadUser, first the row: Login asks for an active user, Refresh does not.
LoadUser(t, u) ==
  /\ token[t].pc = "new" /\ \A s \in 1..(t - 1) : token[s].pc # "new"
  /\ user[u].exists
  /\ token' = [token EXCEPT ![t] = [pc |-> "row", user |-> u, version |-> user[u].version,
                                    roles |-> {}]]
  /\ UNCHANGED <<user, cached, change, request, settled, distrusted>>

PermissionsOf(u) == user[u].roles

\* ... then the permissions; the token is issued with both.
GetPermissionsForUser(t) ==
  /\ token[t].pc = "row"
  /\ token' = [token EXCEPT ![t].pc = "issued", ![t].roles = PermissionsOf(token[t].user)]
  /\ UNCHANGED <<user, cached, change, request, settled, distrusted>>

-----------------------------------------------------------------------------
(* Requests                                                                *)

\* The version of the token must be the one at hand.
Checked(q, t, version) == IF version = token[t].version THEN "granted" ELSE "refused"

\* Requests come in the order of their numbers.
Comes(q) == request[q].pc = "new" /\ \A p \in 1..(q - 1) : request[p].pc # "new"

\* CheckPermissionVersion with the version in the cache.
CacheHit(q, t) ==
  LET u == token[t].user
  IN  /\ Comes(q) /\ token[t].pc = "issued" /\ cached[u] # Absent
      /\ request' = [request EXCEPT ![q] =
           [pc |-> Checked(q, t, cached[u]), token |-> t, version |-> cached[u],
            since |-> settled[u]]]
      /\ UNCHANGED <<user, cached, change, token, settled, distrusted>>

\* ... without it, or without Redis: the database is read.
GetPermissionsVersion(q, t) ==
  LET u == token[t].user
  IN  /\ Comes(q) /\ token[t].pc = "issued" /\ cached[u] = Absent
      /\ request' = [request EXCEPT ![q] =
           [pc |-> "read", token |-> t, version |-> user[u].version, since |-> settled[u]]]
      /\ UNCHANGED <<user, cached, change, token, settled, distrusted>>

\* ... and the cache is filled with what was read.
FillCache(q) ==
  LET t == request[q].token
      u == token[t].user
  IN  /\ request[q].pc = "read"
      /\ cached' = [cached EXCEPT ![u] = request[q].version]
      /\ request' = [request EXCEPT ![q].pc = Checked(q, t, request[q].version)]
      /\ distrusted' = IF request[q].version = user[u].version THEN distrusted
                       ELSE distrusted \cup {u}
      /\ UNCHANGED <<user, change, token, settled>>

\* The error of the fill is ignored.
SkipCache(q) ==
  /\ request[q].pc = "read"
  /\ request' = [request EXCEPT ![q].pc = Checked(q, request[q].token, request[q].version)]
  /\ UNCHANGED <<user, cached, change, token, settled, distrusted>>

\* After five minutes.
ExpireCache(u) ==
  /\ cached[u] # Absent
  /\ cached' = Busted(u)
  /\ UNCHANGED <<user, change, token, request, settled, distrusted>>

-----------------------------------------------------------------------------

\* The handlers: a user, and a role by its name, which GetRoleByName must know.
\* No route removes a role: callers of the service do.
PostUser(u)        == \E roles \in SUBSET Roles : CreateUser(u, roles)
PostUserRole(c, u) == \E r \in Roles : AssignRole(c, u, r)
CheckPermissionVersion(q, t) == CacheHit(q, t) \/ GetPermissionsVersion(q, t)

AuthNext ==
  \/ \E u \in Users : PostUser(u) \/ ExpireCache(u)
  \/ \E c \in Changes, u \in Users : PostUserRole(c, u) \/ \E r \in Roles : RemoveRole(c, u, r)
  \/ \E c \in Changes : BumpVersion(c) \/ LoseVersion(c) \/ BustPermissionsCache(c)
  \/ \E t \in Tokens, u \in Users : LoadUser(t, u)
  \/ \E t \in Tokens : GetPermissionsForUser(t)
  \/ \E q \in Requests, t \in Tokens : CheckPermissionVersion(q, t)
  \/ \E q \in Requests : FillCache(q) \/ SkipCache(q)

AuthSpec == AuthInit /\ [][AuthNext]_authVars

AuthTypeOK ==
  /\ user \in [Users -> [exists : BOOLEAN, roles : SUBSET Roles, version : Nat]]
  /\ cached \in [Users -> Nat]
  /\ change \in [Changes -> [pc : {"new", "changed", "bumped", "over"},
                             user : Users \cup {NoUser}]]
  /\ token \in [Tokens -> [pc : {"new", "row", "issued"}, user : Users \cup {NoUser},
                           version : Nat, roles : SUBSET Roles]]
  /\ request \in [Requests -> [pc : {"new", "read", "granted", "refused"}, token : Tokens,
                               version : Nat, since : Nat]]
  /\ settled \in [Users -> Nat] /\ distrusted \in SUBSET Users

(* A token with the current version of its user tells the user's roles, in *)
(* whatever order a login reads the row and the roles while others change  *)
(* them, once no change is under way (loadUser; AssignRole, RemoveRole,    *)
(* which bump the version after the roles).                                *)
CurrentTokensTellRoles ==
  \A t \in Tokens :
    LET u == token[t].user
    IN  /\ token[t].pc = "issued" /\ u \notin distrusted /\ InFlight(u) = {}
        /\ token[t].version = user[u].version
        => token[t].roles = user[u].roles

(* No request that comes after a change of roles has returned is granted by *)
(* a token issued before it, whatever the order of the version's bump, the *)
(* cache's removal and the fills of other requests - except where the bump *)
(* or the removal was lost, or a request filled the cache with a version it *)
(* had read before a change (getPermissionsVersion: see distrusted).       *)
OldTokensRefused ==
  \A q \in Requests :
    LET t == request[q].token
    IN  request[q].pc = "granted" /\ token[t].version < request[q].since
        => token[t].user \in distrusted
=============================================================================
