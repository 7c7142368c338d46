---------------------------- MODULE AccessProofs ----------------------------
(***************************************************************************)
(* Proofs about AccessControl, for any number of accounts, calls, tokens    *)
(* and outside changes: stale authority ends.                               *)
(***************************************************************************)
EXTENDS AccessControl, TLAPS

-----------------------------------------------------------------------------
(* The inductive invariant *)

Jwt == [sub : Users, role : Roles, exp : Nat]

Served == [sub : Users, role : Roles, route : Routes, at : Nat]

(* Tokens, requests and signing calls belong to accounts that exist, and    *)
(* no account is gone once it exists.                                       *)
Typed ==
  /\ now \in Nat
  /\ user \in [Users -> UserRow \cup {NULL}]
  /\ jwts \subseteq {jwt \in Jwt : user[jwt.sub] # NULL}
  /\ call \in [Calls -> [pc : {"new", "sign", "hash", "done"}, sub : Users \cup {NULL},
                         role : Roles \cup {NULL}, at : Nat]]
  /\ \A c \in Calls :
       /\ call[c].pc \in {"sign", "hash"} => call[c].sub \in Users /\ call[c].role \in Roles
       /\ call[c].pc = "sign" => user[call[c].sub] # NULL
       /\ call[c].at <= now
  /\ served # NULL => served \in Served /\ user[served.sub] # NULL

(* What the row says now, or a change of the row no earlier than since.     *)
Current(u, role, since) ==
  \/ user[u].isActive /\ user[u].role = role
  \/ since <= user[u].updatedAt

(* A call signs in time what it read, and the row is as it was read or was  *)
(* changed later.                                                           *)
CallsCurrent ==
  \A c \in Calls : call[c].pc = "sign" =>
    /\ now <= call[c].at + SignLatency
    /\ Current(call[c].sub, call[c].role, call[c].at)

(* A token ends one lifetime from now at most, and outlives a change of its *)
(* row no longer than promised.                                             *)
TokensCurrent ==
  \A jwt \in jwts :
    /\ jwt.exp <= now + AccessTTL
    /\ \/ user[jwt.sub].isActive /\ user[jwt.sub].role = jwt.role
       \/ jwt.exp <= user[jwt.sub].updatedAt + SignLatency + AccessTTL

(* The last request was let through in the past.                            *)
ServedInPast == served # NULL => served.at <= now

IInv == Typed /\ CallsCurrent /\ TokensCurrent /\ ServedInPast /\ AuthorityExpires

-----------------------------------------------------------------------------
LEMMA ConstantFacts ==
  /\ AccessTTL \in Nat /\ SignLatency \in Nat /\ Founder \in Users
  /\ \A row \in UserRow : row # NULL
BY AccessAssumption, NullIsNoUser

LEMMA InitInv == ASSUME Init PROVE IInv
<1>1. CreatedUser("ADMIN") \in UserRow
  BY DEF Init, CreatedUser, UserRow, Roles
<1>2. Typed
  BY <1>1, ConstantFacts DEF Init, Typed, NewCall
<1> QED
  BY <1>2 DEF Init, IInv, CallsCurrent, TokensCurrent, ServedInPast, AuthorityExpires, NewCall

(* A step that leaves accounts and clock alone, and lets at most one        *)
(* request through.                                                         *)
LEMMA LetThroughInv ==
  ASSUME IInv, NEW jwt \in jwts, NEW route \in Routes, LetThrough(jwt, route),
         UNCHANGED <<now, user, jwts>>
  PROVE  /\ served' \in Served /\ user'[served'.sub] # NULL
         /\ ServedInPast' /\ AuthorityExpires'
<1>1. /\ jwt \in Jwt /\ user[jwt.sub] \in UserRow /\ user[jwt.sub] # NULL /\ now \in Nat
      /\ now <= jwt.exp
      /\ served' = [sub |-> jwt.sub, role |-> jwt.role, route |-> route, at |-> now]
  BY DEF IInv, Typed, LetThrough, Authenticated, Jwt
<1>2. served' \in Served /\ user'[served'.sub] # NULL
  BY <1>1 DEF Served, Jwt
<1>3. ServedInPast'
  BY <1>1 DEF ServedInPast
<1>4. \/ user[jwt.sub].isActive /\ user[jwt.sub].role = jwt.role
      \/ jwt.exp <= user[jwt.sub].updatedAt + SignLatency + AccessTTL
  BY DEF IInv, TokensCurrent
<1>5. user[jwt.sub].updatedAt \in Nat /\ jwt.exp \in Nat
  BY <1>1 DEF UserRow, Jwt
<1>6. \/ user[jwt.sub].isActive /\ user[jwt.sub].role = jwt.role
      \/ now <= user[jwt.sub].updatedAt + SignLatency + AccessTTL
  BY <1>1, <1>4, <1>5, ConstantFacts
<1>7. AuthorityExpires'
  BY <1>1, <1>6 DEF AuthorityExpires
<1> QED
  BY <1>2, <1>3, <1>7

LEMMA ReadUserInv ==
  ASSUME IInv, NEW c \in Calls, NEW u \in Users, ReadUser(c, u)
  PROVE  IInv'
<1>1. user[u] \in UserRow /\ user[u].isActive /\ now \in Nat
  BY DEF IInv, Typed, ReadUser, MaySignIn
<1>2. user[u].role \in Roles
  BY <1>1 DEF UserRow
<1>3. Typed'
  BY <1>1, <1>2, ConstantFacts DEF IInv, Typed, ReadUser
<1>4. CallsCurrent'
  BY <1>1, <1>2, ConstantFacts DEF IInv, Typed, ReadUser, CallsCurrent, Current
<1>5. TokensCurrent' /\ ServedInPast' /\ AuthorityExpires'
  BY DEF IInv, ReadUser, TokensCurrent, ServedInPast, AuthorityExpires
<1> QED
  BY <1>3, <1>4, <1>5 DEF IInv

LEMMA SignInv ==
  ASSUME IInv, NEW c \in Calls, Sign(c)
  PROVE  IInv'
<1> DEFINE q == call[c]
           jwt == [sub |-> q.sub, role |-> q.role, exp |-> now + AccessTTL]
<1>1. /\ q.sub \in Users /\ q.role \in Roles /\ q.at \in Nat /\ now \in Nat
      /\ user[q.sub] # NULL /\ user[q.sub] \in UserRow
  BY DEF IInv, Typed, Sign
<1>2. user[q.sub].updatedAt \in Nat
  BY <1>1 DEF UserRow
<1>3. jwt \in Jwt /\ jwt.exp = now + AccessTTL /\ jwt.sub = q.sub /\ jwt.role = q.role
  BY <1>1, ConstantFacts DEF Jwt
<1>4. jwts' = jwts \cup {jwt} /\ call' = [call EXCEPT ![c].pc = "done"]
      /\ UNCHANGED <<now, user, served>>
  BY DEF Sign
<1>5. Typed'
  BY <1>1, <1>3, <1>4 DEF IInv, Typed
<1>6. CallsCurrent'
  BY <1>4 DEF IInv, Typed, CallsCurrent, Current
<1>7. /\ now <= q.at + SignLatency
      /\ Current(q.sub, q.role, q.at)
  BY DEF IInv, CallsCurrent, Sign
<1>8. \/ user[q.sub].isActive /\ user[q.sub].role = jwt.role
      \/ jwt.exp <= user[q.sub].updatedAt + SignLatency + AccessTTL
  BY <1>1, <1>2, <1>3, <1>7, ConstantFacts DEF Current
<1>9. TokensCurrent'
  BY <1>3, <1>4, <1>8, <1>1, ConstantFacts DEF IInv, TokensCurrent
<1>10. ServedInPast' /\ AuthorityExpires'
  BY <1>4 DEF IInv, ServedInPast, AuthorityExpires
<1> QED
  BY <1>5, <1>6, <1>9, <1>10 DEF IInv

LEMMA ServeInv ==
  ASSUME IInv, NEW jwt \in jwts, NEW route \in Routes, Serve(jwt, route)
  PROVE  IInv'
<1>1. UNCHANGED <<now, user, jwts, call>> /\ LetThrough(jwt, route)
  BY DEF Serve
<1>2. served' \in Served /\ user'[served'.sub] # NULL /\ ServedInPast' /\ AuthorityExpires'
  BY <1>1, LetThroughInv
<1>3. Typed'
  BY <1>1, <1>2 DEF IInv, Typed
<1>4. CallsCurrent' /\ TokensCurrent'
  BY <1>1 DEF IInv, CallsCurrent, Current, TokensCurrent
<1> QED
  BY <1>2, <1>3, <1>4 DEF IInv

LEMMA BeginCreateUserInv ==
  ASSUME IInv, NEW c \in Calls, NEW jwt \in jwts, NEW u \in Users, NEW role \in Roles,
         BeginCreateUser(c, jwt, u, role)
  PROVE  IInv'
<1>1. /\ UNCHANGED <<now, user, jwts>> /\ LetThrough(jwt, "createUser")
      /\ call' = [call EXCEPT ![c] = [pc |-> "hash", sub |-> u, role |-> role, at |-> now]]
  BY DEF BeginCreateUser
<1>2. "createUser" \in Routes
  BY DEF Routes, UserRoutes
<1>3. served' \in Served /\ user'[served'.sub] # NULL /\ ServedInPast' /\ AuthorityExpires'
  BY <1>1, <1>2, LetThroughInv
<1>4. Typed'
  BY <1>1, <1>3 DEF IInv, Typed
<1>5. CallsCurrent' /\ TokensCurrent'
  BY <1>1 DEF IInv, Typed, CallsCurrent, Current, TokensCurrent
<1> QED
  BY <1>3, <1>4, <1>5 DEF IInv

(* An account that exists stays as it is.                                   *)
LEMMA InsertUserKeeps ==
  ASSUME Typed, NEW c \in Calls, InsertUser(c)
  PROVE  /\ user' \in [Users -> UserRow \cup {NULL}]
         /\ \A u \in Users : user[u] # NULL => user'[u] = user[u]
<1>1. /\ call[c].sub \in Users /\ call[c].role \in Roles /\ now \in Nat
      /\ user \in [Users -> UserRow \cup {NULL}]
  BY DEF Typed, InsertUser
<1>2. CreatedUser(call[c].role) \in UserRow
  BY <1>1 DEF CreatedUser, UserRow
<1>3. CASE InsertAccepted(call[c].sub)
  BY <1>1, <1>2, <1>3 DEF InsertUser, InsertAccepted
<1>4. CASE ~ InsertAccepted(call[c].sub)
  BY <1>1, <1>4 DEF InsertUser
<1> QED
  BY <1>3, <1>4

LEMMA InsertUserInv ==
  ASSUME IInv, NEW c \in Calls, InsertUser(c)
  PROVE  IInv'
<1>1. /\ user' \in [Users -> UserRow \cup {NULL}]
      /\ \A u \in Users : user[u] # NULL => user'[u] = user[u]
  BY InsertUserKeeps DEF IInv
<1>2. call' = [call EXCEPT ![c].pc = "done"] /\ UNCHANGED <<now, jwts, served>>
  BY DEF InsertUser
<1>3. Typed'
  BY <1>1, <1>2 DEF IInv, Typed, Jwt, Served
<1>4. \A o \in Calls : call'[o].pc = "sign" =>
        call'[o] = call[o] /\ call[o].sub \in Users /\ user[call[o].sub] # NULL
  BY <1>2 DEF IInv, Typed
<1>5. CallsCurrent'
  BY <1>1, <1>2, <1>4 DEF IInv, CallsCurrent, Current
<1>6. TokensCurrent'
  BY <1>1, <1>2 DEF IInv, Typed, TokensCurrent, Jwt
<1>7. ServedInPast' /\ AuthorityExpires'
  BY <1>1, <1>2 DEF IInv, Typed, ServedInPast, AuthorityExpires, Served
<1> QED
  BY <1>3, <1>5, <1>6, <1>7 DEF IInv

LEMMA ChangeUserInv ==
  ASSUME IInv, NEW u \in Users, NEW role \in Roles, NEW isActive \in BOOLEAN,
         ChangeUser(u, role, isActive)
  PROVE  IInv'
<1>1. /\ now \in Nat /\ user \in [Users -> UserRow \cup {NULL}] /\ user[u] \in UserRow
      /\ UNCHANGED <<now, jwts, call, served>>
      /\ user' = [user EXCEPT ![u].role = role, ![u].isActive = isActive, ![u].updatedAt = now]
  BY DEF IInv, Typed, ChangeUser
<1>2. /\ user'[u] \in UserRow /\ user'[u].updatedAt = now
      /\ \A o \in Users \ {u} : user'[o] = user[o]
  BY <1>1 DEF UserRow
<1>3. user' \in [Users -> UserRow \cup {NULL}] /\ \A o \in Users : user[o] # NULL => user'[o] # NULL
  BY <1>1, <1>2, ConstantFacts DEF UserRow
<1>4. Typed'
  BY <1>1, <1>3 DEF IInv, Typed, Jwt, Served
<1>5. \A c \in Calls : call[c].pc = "sign" =>
        call[c].sub \in Users /\ call[c].at \in Nat /\ call[c].at <= now
  BY DEF IInv, Typed
<1>6. CallsCurrent'
  BY <1>1, <1>2, <1>5 DEF IInv, CallsCurrent, Current
<1>7. \A jwt \in jwts : jwt.sub \in Users /\ jwt.exp \in Nat /\ jwt.exp <= now + AccessTTL
  BY DEF IInv, Typed, TokensCurrent, Jwt
<1>8. TokensCurrent'
  BY <1>1, <1>2, <1>7, ConstantFacts DEF IInv, TokensCurrent
<1>9. served # NULL => served.sub \in Users /\ served.at \in Nat /\ served.at <= now
  BY DEF IInv, Typed, ServedInPast, Served
<1>10. ServedInPast' /\ AuthorityExpires'
  BY <1>1, <1>2, <1>9, ConstantFacts DEF IInv, ServedInPast, AuthorityExpires
<1> QED
  BY <1>4, <1>6, <1>8, <1>10 DEF IInv

LEMMA TickInv ==
  ASSUME IInv, Tick
  PROVE  IInv'
<1>1. now \in Nat /\ now' = now + 1 /\ UNCHANGED <<user, jwts, call, served>>
  BY DEF IInv, Typed, Tick
<1>2. Typed'
  BY <1>1 DEF IInv, Typed
<1>3. CallsCurrent'
  BY <1>1, ConstantFacts DEF IInv, Typed, CallsCurrent, Current, Tick
<1>4. TokensCurrent'
  BY <1>1, ConstantFacts DEF IInv, Typed, TokensCurrent, Jwt
<1>5. ServedInPast' /\ AuthorityExpires'
  BY <1>1 DEF IInv, Typed, ServedInPast, AuthorityExpires, Served
<1> QED
  BY <1>2, <1>3, <1>4, <1>5 DEF IInv

LEMMA StepInv == ASSUME IInv, [Next]_vars PROVE IInv'
<1>1. ASSUME NEW c \in Calls, NEW u \in Users, ReadUser(c, u) PROVE IInv'
  BY <1>1, ReadUserInv
<1>2. ASSUME NEW c \in Calls, Sign(c) PROVE IInv'
  BY <1>2, SignInv
<1>3. ASSUME NEW jwt \in jwts, NEW route \in Routes, Serve(jwt, route) PROVE IInv'
  BY <1>3, ServeInv
<1>4. ASSUME NEW c \in Calls, NEW jwt \in jwts, NEW u \in Users, NEW role \in Roles,
             BeginCreateUser(c, jwt, u, role)
      PROVE  IInv'
  BY <1>4, BeginCreateUserInv
<1>5. ASSUME NEW c \in Calls, InsertUser(c) PROVE IInv'
  BY <1>5, InsertUserInv
<1>6. ASSUME NEW u \in Users, NEW role \in Roles, NEW isActive \in BOOLEAN,
             ChangeUser(u, role, isActive)
      PROVE  IInv'
  BY <1>6, ChangeUserInv
<1>7. CASE Tick
  BY <1>7, TickInv
<1>8. CASE UNCHANGED vars
  BY <1>8 DEF vars, IInv, Typed, CallsCurrent, Current, TokensCurrent, ServedInPast,
              AuthorityExpires
<1> QED
  BY <1>1, <1>2, <1>3, <1>4, <1>5, <1>6, <1>7, <1>8 DEF Next

LEMMA Inductive == Spec => []IInv
<1>1. Init => IInv
  BY InitInv
<1>2. IInv /\ [Next]_vars => IInv'
  BY StepInv
<1> QED
  BY <1>1, <1>2, PTL DEF Spec

-----------------------------------------------------------------------------
(* Deactivating an account, or taking a role from it, takes effect one      *)
(* token lifetime and one signature later at the latest.                    *)
THEOREM AuthorityEnds == Spec => []AuthorityExpires
<1>1. IInv => AuthorityExpires
  BY DEF IInv
<1> QED
  BY <1>1, Inductive, PTL
=============================================================================
