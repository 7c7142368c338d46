--------------------------- MODULE RefreshTokens ----------------------------
(***************************************************************************)
(* The sessions of the auth module: the rows of the RefreshToken table, and *)
(* the login, refresh and logout calls that create, rotate and revoke them. *)
(*                                                                          *)
(* Every call reads a row, decides on that snapshot and writes afterwards,  *)
(* in statements of their own: there is no transaction around a rotation.   *)
(* A call may stop between any two of them, and its answer may be lost.  A  *)
(* call keeps its record when it has ended, which is how the properties     *)
(* know which token came from which.                                        *)
(*                                                                          *)
(* An instant that a statement writes is taken before the statement: a row  *)
(* may be inserted long after its expiresAt was computed.  The instant in   *)
(* revokedAt is read by nobody, only whether there is one.  The model keeps *)
(* the latter (revoked), and when the statement that first revoked the row  *)
(* took effect apart from the table, for the properties (retired).          *)
(*                                                                          *)
(* A definition whose name starts with Bad is no part of the model: it is   *)
(* the definition after it with one plausible mistake.                      *)
(***************************************************************************)
EXTENDS Integers, FiniteSets

CONSTANTS
  NULL,       \* the null of the source
  Tokens,     \* ids of the rows the database may hand out
  Users,      \* the users, active and with valid credentials
  Calls,      \* calls of the auth endpoints, each executed once
  TTL,        \* refreshTtl, in ticks
  MaxTime,    \* bound of the clock
  MaxFaults   \* bound on the calls that stop half-way

ASSUME TokenAssumption ==
  /\ NULL \notin Int /\ NULL \notin Tokens /\ NULL \notin Users
  /\ TTL \in Nat \ {0} /\ MaxTime \in Nat /\ MaxFaults \in Nat

VARIABLES
  now,    \* the clock
  token,  \* the RefreshToken table: a row, or NULL while the id is not in use
  held,   \* the tokens that some answer delivered to a client
  call,   \* the progress of each call
  faults, \* calls stopped so far
  retired \* history: when each row was first revoked, NULL before

vars == <<now, token, held, call, faults, retired>>

-----------------------------------------------------------------------------
(* The data *)

RefreshTokenRecord ==
  [userId : Users, expiresAt : Nat, revoked : BOOLEAN, replacedById : Tokens \cup {NULL}]

ASSUME NullIsNoRecord == NULL \notin RefreshTokenRecord

(* at, a history, is when a refresh read the token it presents, and when    *)
(* one that found a reuse revoked the others.                               *)
Call ==
  [pc : {"new", "issue", "create", "rotate", "reply", "reuse", "logout", "done"},
   kind : {"login", "refresh", "logout"}, userId : Users \cup {NULL},
   presented : Tokens \cup {NULL}, expiresAt : Nat, refreshRecordId : Tokens \cup {NULL},
   outcome : {"none", "issued", "reused"}, at : Nat]

NewCall ==
  [pc |-> "new", kind |-> "login", userId |-> NULL, presented |-> NULL, expiresAt |-> 0,
   refreshRecordId |-> NULL, outcome |-> "none", at |-> 0]

IsLive(row) == row # NULL /\ ~ row.revoked

IsExpired(row) == row.expiresAt <= now

-----------------------------------------------------------------------------
(* Login *)

(* The user exists, is active and gave the right password; any other login  *)
(* ends without effect.                                                     *)
Login(c, u) ==
  /\ call[c].pc = "new"
  /\ call' = [call EXCEPT ![c] = [NewCall EXCEPT !.pc = "issue", !.userId = u]]
  /\ UNCHANGED <<now, token, held, faults, retired>>

-----------------------------------------------------------------------------
(* Refresh *)

BadAfterRead(row) == IF IsExpired(row) THEN "done" ELSE "issue"

(* What a refresh does of the row it read: a revoked token is a reuse, an   *)
(* expired one is refused, any other is rotated.  The clock is read after   *)
(* the row; a token that expires in between ends a call that may as well    *)
(* stop, without a trace.                                                   *)
AfterRead(row) ==
  IF row.revoked THEN "reuse" ELSE IF IsExpired(row) THEN "done" ELSE "issue"

ReadForRefresh(c, k) ==
  /\ call[c].pc = "new"
  /\ k \in held
  /\ call' = [call EXCEPT ![c] =
       [NewCall EXCEPT !.pc = AfterRead(token[k]), !.kind = "refresh",
                       !.userId = token[k].userId, !.presented = k, !.at = now]]
  /\ UNCHANGED <<now, token, held, faults, retired>>

BadAfterIssue(kind) == "reply"

BadAfterEveryIssue(kind) == "rotate"

AfterIssue(kind) == IF kind = "refresh" THEN "rotate" ELSE "reply"

(* TokenIssuer.issue, for login and refresh alike, first computes when the  *)
(* token will expire.                                                       *)
Issue(c) ==
  /\ call[c].pc = "issue"
  /\ call' = [call EXCEPT ![c].pc = "create", ![c].expiresAt = now + TTL]
  /\ UNCHANGED <<now, token, held, faults, retired>>

(* The row is inserted at any time after that.                              *)
Create(c, k) ==
  /\ call[c].pc = "create"
  /\ token[k] = NULL
  /\ token' = [token EXCEPT ![k] =
       [userId |-> call[c].userId, expiresAt |-> call[c].expiresAt, revoked |-> FALSE,
        replacedById |-> NULL]]
  /\ call' = [call EXCEPT ![c].pc = AfterIssue(call[c].kind), ![c].refreshRecordId = k,
                          ![c].outcome = "issued"]
  /\ UNCHANGED <<now, held, faults, retired>>

(* The history of the rows K, which the step revokes.                       *)
Retire(K) ==
  retired' = [k \in Tokens |-> IF k \in K /\ IsLive(token[k]) THEN now ELSE retired[k]]

(* PrismaRefreshTokenRepository.revoke: whatever the row is by now, both    *)
(* columns are overwritten.                                                 *)
Revoke(k, replacedById) ==
  /\ token' = [token EXCEPT ![k].revoked = TRUE, ![k].replacedById = replacedById]
  /\ Retire({k})

Rotate(c) ==
  /\ call[c].pc = "rotate"
  /\ Revoke(call[c].presented, call[c].refreshRecordId)
  /\ call' = [call EXCEPT ![c].pc = "reply"]
  /\ UNCHANGED <<now, held, faults>>

BadWholeTable(k) == {other \in Tokens : token[other] # NULL}

(* All the rows of the user who owns k.                                     *)
Family(k) == {other \in Tokens : token[other] # NULL /\ token[other].userId = token[k].userId}

(* revokeAllForUser, after which the call is refused.                       *)
RevokeAllForUser(c) ==
  /\ call[c].pc = "reuse"
  /\ token' = [k \in Tokens |->
       IF k \in Family(call[c].presented) /\ IsLive(token[k])
         THEN [token[k] EXCEPT !.revoked = TRUE] ELSE token[k]]
  /\ Retire(Family(call[c].presented))
  /\ call' = [call EXCEPT ![c].pc = "done", ![c].outcome = "reused", ![c].at = now]
  /\ UNCHANGED <<now, held, faults>>

(* The answer reaches the client.                                           *)
Reply(c) ==
  /\ call[c].pc = "reply"
  /\ held' = held \cup {call[c].refreshRecordId}
  /\ call' = [call EXCEPT ![c].pc = "done"]
  /\ UNCHANGED <<now, token, faults, retired>>

-----------------------------------------------------------------------------
(* Logout *)

(* A token already revoked is left as it is.                                *)
ReadForLogout(c, k) ==
  /\ call[c].pc = "new"
  /\ k \in held
  /\ IsLive(token[k])
  /\ call' = [call EXCEPT ![c] =
       [NewCall EXCEPT !.pc = "logout", !.kind = "logout", !.userId = token[k].userId,
                       !.presented = k]]
  /\ UNCHANGED <<now, token, held, faults, retired>>

RevokePresented(c) ==
  /\ call[c].pc = "logout"
  /\ Revoke(call[c].presented, NULL)
  /\ call' = [call EXCEPT ![c].pc = "done"]
  /\ UNCHANGED <<now, held, faults>>

-----------------------------------------------------------------------------
(* The API process stops, a statement throws, or the answer is lost.        *)
StopCall(c) ==
  /\ call[c].pc \notin {"new", "done"}
  /\ faults < MaxFaults
  /\ faults' = faults + 1
  /\ call' = [call EXCEPT ![c].pc = "done"]
  /\ UNCHANGED <<now, token, held, retired>>

Tick ==
  /\ now < MaxTime
  /\ now' = now + 1
  /\ UNCHANGED <<token, held, call, faults, retired>>

Init ==
  /\ now = 0
  /\ token = [k \in Tokens |-> NULL]
  /\ held = {}
  /\ call = [c \in Calls |-> NewCall]
  /\ faults = 0
  /\ retired = [k \in Tokens |-> NULL]

CallStep(c) ==
  \/ \E u \in Users : Login(c, u)
  \/ \E k \in Tokens : ReadForRefresh(c, k)
  \/ Issue(c)
  \/ \E k \in Tokens : Create(c, k)
  \/ Rotate(c)
  \/ RevokeAllForUser(c)
  \/ Reply(c)
  \/ \E k \in Tokens : ReadForLogout(c, k)
  \/ RevokePresented(c)
  \/ StopCall(c)

Next == (\E c \in Calls : CallStep(c)) \/ Tick

Spec == Init /\ [][Next]_vars

-----------------------------------------------------------------------------
(* The properties *)

(* The tables and the calls are well formed, and a call acts only on rows   *)
(* that exist.                                                              *)
TypeOK ==
  /\ now \in Nat /\ faults \in Nat
  /\ token \in [Tokens -> RefreshTokenRecord \cup {NULL}]
  /\ call \in [Calls -> Call]
  /\ held \subseteq {k \in Tokens : token[k] # NULL}
  /\ retired \in [Tokens -> Nat \cup {NULL}]
  /\ \A k \in Tokens : retired[k] # NULL <=> token[k] # NULL /\ ~ IsLive(token[k])
  /\ \A c \in Calls :
       /\ call[c].presented # NULL => call[c].presented \in held
       /\ call[c].pc \in {"rotate", "reuse", "logout"} => call[c].presented # NULL
       /\ call[c].outcome = "issued" <=> call[c].refreshRecordId # NULL
       /\ call[c].refreshRecordId # NULL => token[call[c].refreshRecordId] # NULL

Rotations == {c \in Calls : call[c].kind = "refresh" /\ call[c].outcome = "issued"}

(* Each refresh issues a new token and revokes the one presented            *)
(* (refresh-token.usecase.ts:13): once a client holds the successor, what   *)
(* it presented is of no use any more, although the two statements have no  *)
(* transaction and may race with other calls of the same token.             *)
SuccessorRetiresToken ==
  \A c \in Rotations :
    call[c].refreshRecordId \in held => ~ IsLive(token[call[c].presented])

(* Only a call that read the token before its revocation took effect        *)
(* rotates it: the tokens that a logout, a rotation or a reuse retired have *)
(* no successors but those already under way.                               *)
RotatedBeforeRevoked ==
  \A c \in Rotations :
    LET k == call[c].presented IN retired[k] # NULL => call[c].at <= retired[k]

(* refresh-token.usecase.ts:14-15: a reuse revokes the whole family of the  *)
(* user.  Nothing lives after it that a refresh begun before it issued.     *)
ReuseEndsFamily ==
  \A c \in Calls, r \in Rotations :
    (call[c].outcome = "reused" /\ call[r].userId = call[c].userId /\ call[r].at < call[c].at)
      => ~ IsLive(token[call[r].refreshRecordId])

(* schema.prisma:58: replacedById of a rotated token is the token that      *)
(* replaced it.  No rotation of the token is half-way.                      *)
RotationLinked ==
  \A k \in Tokens :
    LET by == {c \in Rotations : call[c].presented = k} IN
    (/\ \E c \in by : call[c].refreshRecordId \in held
     /\ \A c \in Calls : call[c].presented = k => call[c].pc = "done") =>
       \E c \in by : token[k].replacedById = call[c].refreshRecordId

ASSUME NullIsNoSession ==
  NULL \notin [owner : Users, parent : Tokens \cup {NULL}, live : BOOLEAN]

(* The abstract session of each row: its predecessor is what the call that  *)
(* issued it presented, NULL for a login.                                   *)
IssuerOf(k) == CHOOSE c \in Calls : call[c].refreshRecordId = k

SessionOf(k) ==
  IF token[k] = NULL THEN NULL
  ELSE [owner |-> token[k].userId, parent |-> call[IssuerOf(k)].presented,
        live |-> IsLive(token[k])]

Sessions == [k \in Tokens |-> SessionOf(k)]

Promise == INSTANCE SessionPromise WITH session <- Sessions, held <- held

(* The statements of the auth calls, in whatever order they interleave and  *)
(* wherever they stop, keep what SessionPromise says: in particular a       *)
(* client that never got the answer of its refresh and presents the same    *)
(* token again (refresh-token.usecase.ts:33) ends only what its own user    *)
(* has, and no later statement revives a token that was revoked.            *)
SessionSpec == Promise!Spec
=============================================================================
