---------------------------- MODULE AccessControl ---------------------------
(***************************************************************************)
(* Accounts, access tokens and the permissions of the routes: who is let    *)
(* through by authenticate and authorize, while accounts are registered,    *)
(* deactivated or given another role.                                       *)
(*                                                                          *)
(* An access token names its user and carries the role of the row that the  *)
(* login or the refresh read; it is valid until it expires and no request   *)
(* looks at the row again.  The code checks isActive and role of a row but  *)
(* never changes them: whoever administers the database does.               *)
(*                                                                          *)
(* A definition whose name starts with Bad is no part of the model: it is   *)
(* the definition after it with one plausible mistake.                      *)
(***************************************************************************)
EXTENDS Integers, FiniteSets

CONSTANTS
  NULL,         \* the null of the source
  Users,        \* the normalised emails accounts may have
  Founder,      \* the administrator who is there from the start
  Calls,        \* logins, refreshes and registrations, each executed once
  AccessTTL,    \* accessTtl, in ticks
  SignLatency,  \* ticks from the read of the user to the signature
  MaxTime,      \* bound of the clock
  MaxChanges    \* bound on the changes made to the accounts from outside

ASSUME AccessAssumption ==
  /\ NULL \notin Int /\ NULL \notin Users /\ Founder \in Users
  /\ AccessTTL \in Nat /\ SignLatency \in Nat
  /\ MaxTime \in Nat /\ MaxChanges \in Nat

VARIABLES
  now,     \* the clock
  user,    \* the User table: a row, or NULL while the email is not registered
  jwts,    \* the access tokens signed so far
  call,    \* the progress of each login, refresh and registration
  served,  \* the last request that was let through, NULL before the first
  changes  \* changes made from outside so far

vars == <<now, user, jwts, call, served, changes>>

-----------------------------------------------------------------------------
(* Roles and permissions *)

Roles == {"ADMIN", "AGENT", "USER"}

UserPermissions == {"ticket:create", "ticket:read:own", "ticket:comment"}

AgentPermissions ==
  UserPermissions \cup
    {"ticket:read:all", "ticket:assign", "ticket:reassign", "ticket:close"}

RolePermissions ==
  [USER |-> UserPermissions, AGENT |-> AgentPermissions,
   ADMIN |-> AgentPermissions \cup {"user:manage"}]

(* What each route requires.                                                *)
TicketRoutes ==
  [createTicket |-> {"ticket:create"}, readTickets  |-> {"ticket:read:own"},
   assign       |-> {"ticket:assign"}, comment      |-> {"ticket:comment"},
   changeStatus |-> {"ticket:close"}]

UserRoutes == [createUser |-> {"user:manage"}, me |-> {}]

Routes == DOMAIN TicketRoutes \cup DOMAIN UserRoutes

BadRequired(route) ==
  IF route \in DOMAIN UserRoutes THEN UserRoutes[route]
  ELSE IF route = "changeStatus" THEN TicketRoutes["comment"] ELSE TicketRoutes[route]

Required(route) ==
  IF route \in DOMAIN UserRoutes THEN UserRoutes[route] ELSE TicketRoutes[route]

-----------------------------------------------------------------------------
(* The data *)

UserRow == [role : Roles, isActive : BOOLEAN, createdAt : Nat, updatedAt : Nat]

ASSUME NullIsNoUser == NULL \notin UserRow

(* What a call keeps between two awaits; at is the instant of its read.     *)
NewCall == [pc |-> "new", sub |-> NULL, role |-> NULL, at |-> 0]

CreatedUser(role) ==
  [role |-> role, isActive |-> TRUE, createdAt |-> now, updatedAt |-> now]

-----------------------------------------------------------------------------
(* Login and refresh: the user is read, then the token is signed *)

BadMaySignIn(u) == user[u] # NULL

MaySignIn(u) == user[u] # NULL /\ user[u].isActive

ReadUser(c, u) ==
  /\ call[c].pc = "new"
  /\ MaySignIn(u)
  /\ call' = [call EXCEPT ![c] = [pc |-> "sign", sub |-> u, role |-> user[u].role, at |-> now]]
  /\ UNCHANGED <<now, user, jwts, served, changes>>

Sign(c) ==
  /\ call[c].pc = "sign"
  /\ jwts' = jwts \cup {[sub |-> call[c].sub, role |-> call[c].role, exp |-> now + AccessTTL]}
  /\ call' = [call EXCEPT ![c].pc = "done"]
  /\ UNCHANGED <<now, user, served, changes>>

-----------------------------------------------------------------------------
(* Requests *)

(* authenticate, with the verifier of the JWT library: valid up to and      *)
(* including the instant of expiry.                                         *)
Authenticated(jwt) == jwt \in jwts /\ now <= jwt.exp

(* authorize: every permission the route requires.                          *)
Authorized(jwt, route) == Required(route) \subseteq RolePermissions[jwt.role]

LetThrough(jwt, route) ==
  /\ Authenticated(jwt) /\ Authorized(jwt, route)
  /\ served' = [sub |-> jwt.sub, role |-> jwt.role, route |-> route, at |-> now]

(* What the routes do is modelled elsewhere, but for registrations; one that *)
(* finds its email taken changes nothing.                                   *)
Serve(jwt, route) ==
  /\ LetThrough(jwt, route)
  /\ UNCHANGED <<now, user, jwts, call, changes>>

(* CreateUserUseCase looks for the email, hashes the password, and inserts. *)
BeginCreateUser(c, jwt, u, role) ==
  /\ call[c].pc = "new"
  /\ LetThrough(jwt, "createUser")
  /\ user[u] = NULL
  /\ call' = [call EXCEPT ![c] = [pc |-> "hash", sub |-> u, role |-> role, at |-> now]]
  /\ UNCHANGED <<now, user, jwts, changes>>

(* The unique index on the email, which decides between two registrations   *)
(* that both found it free.                                                 *)
InsertAccepted(u) == user[u] = NULL

InsertUser(c) ==
  /\ call[c].pc = "hash"
  /\ user' = IF InsertAccepted(call[c].sub)
               THEN [user EXCEPT ![call[c].sub] = CreatedUser(call[c].role)] ELSE user
  /\ call' = [call EXCEPT ![c].pc = "done"]
  /\ UNCHANGED <<now, jwts, served, changes>>

-----------------------------------------------------------------------------
(* Somebody with access to the database changes an account.                 *)
ChangeUser(u, role, isActive) ==
  /\ changes < MaxChanges
  /\ user[u] # NULL
  /\ <<role, isActive>> # <<user[u].role, user[u].isActive>>
  /\ user' = [user EXCEPT ![u].role = role, ![u].isActive = isActive, ![u].updatedAt = now]
  /\ changes' = changes + 1
  /\ UNCHANGED <<now, jwts, call, served>>

(* Time passes; a password is verified within SignLatency.                  *)
Tick ==
  /\ now < MaxTime
  /\ \A c \in Calls : call[c].pc = "sign" => now < call[c].at + SignLatency
  /\ now' = now + 1
  /\ UNCHANGED <<user, jwts, call, served, changes>>

Init ==
  /\ now = 0
  /\ user = [u \in Users |-> IF u = Founder THEN CreatedUser("ADMIN") ELSE NULL]
  /\ jwts = {}
  /\ call = [c \in Calls |-> NewCall]
  /\ served = NULL
  /\ changes = 0

Next ==
  \/ \E c \in Calls, u \in Users : ReadUser(c, u)
  \/ \E c \in Calls : Sign(c)
  \/ \E jwt \in jwts, route \in Routes : Serve(jwt, route)
  \/ \E c \in Calls, jwt \in jwts, u \in Users, role \in Roles : BeginCreateUser(c, jwt, u, role)
  \/ \E c \in Calls : InsertUser(c)
  \/ \E u \in Users, role \in Roles, isActive \in BOOLEAN : ChangeUser(u, role, isActive)
  \/ Tick

Spec == Init /\ [][Next]_vars

-----------------------------------------------------------------------------
(* The properties *)

(* An account that is deactivated or loses its role keeps what its tokens   *)
(* carry for one token lifetime at most, although requests never read the   *)
(* row and a login may already have read it when it changed.                *)
AuthorityExpires ==
  served # NULL =>
    LET row == user[served.sub] IN
    \/ row.isActive /\ row.role = served.role
    \/ served.at <= row.updatedAt + SignLatency + AccessTTL

(* The table of permissions.ts:9-19, by route; me needs no permission.      *)
Documented(route) ==
  CASE route = "createUser" -> {"ADMIN"}
    [] route \in {"assign", "changeStatus"} -> {"ADMIN", "AGENT"}
    [] OTHER -> Roles

(* What the roles' permission lists and the routes' requirements amount to  *)
(* together is the documented table: a valid token passes a route exactly   *)
(* if the table grants it to the role the token carries.                    *)
RoutesFollowTable ==
  \A jwt \in jwts, route \in Routes :
    Authenticated(jwt) =>
      (Authorized(jwt, route) <=> jwt.role \in Documented(route))
=============================================================================
