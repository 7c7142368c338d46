---------------------------- MODULE SessionProofs ---------------------------
(***************************************************************************)
(* Proofs about RefreshTokens, for any number of tokens, users and calls:   *)
(* its types, what rotation and reuse detection retire, and that it         *)
(* implements SessionPromise.                                               *)
(***************************************************************************)
EXTENDS RefreshTokens, TLAPS

-----------------------------------------------------------------------------
(* The inductive invariant *)

(* How far a call is, what it presented and what it issued fit together.    *)
Progress(q) ==
  /\ q.pc = "new" => q = NewCall
  /\ q.pc \in {"rotate", "reuse"} => q.kind = "refresh"
  /\ q.pc = "logout" => q.presented # NULL
  /\ q.pc \in {"issue", "create", "reuse", "logout"} => q.outcome = "none"
  /\ q.pc \in {"rotate", "reply"} => q.outcome = "issued"
  /\ q.pc \in {"issue", "create"} => q.userId \in Users /\ q.kind \in {"login", "refresh"}
  /\ q.outcome = "issued" <=> q.refreshRecordId # NULL
  /\ q.outcome = "issued" => q.kind \in {"login", "refresh"}
  /\ q.kind = "refresh" => q.presented # NULL
  /\ q.kind = "login" => q.presented = NULL
  /\ q.at <= now

(* What it presented and issued are rows of its user.                       *)
Owned(q) ==
  /\ q.presented # NULL => /\ q.presented \in held /\ token[q.presented] # NULL
                           /\ token[q.presented].userId = q.userId
  /\ q.refreshRecordId # NULL => /\ token[q.refreshRecordId] # NULL
                                 /\ token[q.refreshRecordId].userId = q.userId

(* What it presented was revoked, if at all, after the call had read it.    *)
ReadInTime(q) ==
  (q.kind = "refresh" /\ (q.pc \in {"issue", "create"} \/ q.outcome = "issued")) =>
    (retired[q.presented] # NULL => q.at <= retired[q.presented])

(* What it presented is retired once the call found a reuse, and before a   *)
(* client has the successor.                                                *)
RetiredInTime(q) ==
  /\ q.pc = "reuse" => ~ IsLive(token[q.presented])
  /\ (q.kind = "refresh" /\ q.outcome = "issued"
        /\ (q.pc = "reply" \/ q.refreshRecordId \in held)) => ~ IsLive(token[q.presented])

CallFacts(q) == Progress(q) /\ Owned(q) /\ ReadInTime(q) /\ RetiredInTime(q)

(* Every row was issued by one call.                                        *)
Issuers ==
  /\ \A c, d \in Calls :
       (call[c].refreshRecordId # NULL /\ call[c].refreshRecordId = call[d].refreshRecordId)
         => c = d
  /\ \A k \in Tokens : token[k] # NULL => \E c \in Calls : call[c].refreshRecordId = k

(* The history agrees with the table.                                       *)
RowsTyped ==
  /\ token \in [Tokens -> RefreshTokenRecord \cup {NULL}]
  /\ retired \in [Tokens -> Nat \cup {NULL}]
  /\ \A k \in Tokens : retired[k] # NULL <=> token[k] # NULL /\ ~ IsLive(token[k])

Tables ==
  /\ now \in Nat /\ faults \in Nat
  /\ RowsTyped
  /\ call \in [Calls -> Call]
  /\ held \subseteq {k \in Tokens : token[k] # NULL}

IInv == Tables /\ Issuers /\ \A c \in Calls : CallFacts(call[c])

-----------------------------------------------------------------------------
LEMMA ConstantFacts ==
  /\ NULL \notin Tokens /\ NULL \notin Users /\ NULL \notin Nat
  /\ TTL \in Nat /\ \A row \in RefreshTokenRecord : row # NULL
BY TokenAssumption, NullIsNoRecord

(* The rows of a step: none vanishes, changes hands or is revived, and one  *)
(* that is revoked is so from the instant of the step.                      *)
RowsEvolve ==
  \A k \in Tokens :
    /\ token[k] # NULL => /\ token'[k] # NULL
                          /\ token'[k].userId = token[k].userId
                          /\ ~ IsLive(token[k]) => ~ IsLive(token'[k])
    /\ retired'[k] \in {retired[k], now}

LEMMA RowTypes ==
  ASSUME Tables, NEW k \in Tokens, token[k] # NULL
  PROVE  /\ token[k] \in RefreshTokenRecord
         /\ token[k].userId \in Users
BY DEF Tables, RowsTyped, RefreshTokenRecord

(* What is known of a call stays true while others go on.                   *)
LEMMA FactsKept ==
  ASSUME Tables, Tables', RowsEvolve, now <= now', held \subseteq held',
         NEW q \in Call, CallFacts(q), q.refreshRecordId \in held' => q.refreshRecordId \in held
  PROVE  CallFacts(q)'
<1>1. Progress(q)'
  BY DEF CallFacts, Progress, Tables, RowsTyped, Call
<1>2. Owned(q)'
  BY DEF CallFacts, Owned, RowsEvolve, Call, Tables, RowsTyped
<1>3. \A k \in Tokens : (token[k] # NULL /\ ~ IsLive(token[k])) => ~ IsLive(token'[k])
  BY ConstantFacts DEF RowsEvolve, IsLive, Tables, RowsTyped
<1>4. q.kind = "refresh" => q.presented \in Tokens /\ token[q.presented] # NULL
  BY DEF CallFacts, Progress, Owned, Call
<1>5. q.pc = "reuse" => q.kind = "refresh"
  BY DEF CallFacts, Progress
<1>6. RetiredInTime(q)'
  BY <1>3, <1>4, <1>5 DEF CallFacts, RetiredInTime, IsLive
<1>7. ReadInTime(q)'
  <2>1. SUFFICES ASSUME q.kind = "refresh", q.pc \in {"issue", "create"} \/ q.outcome = "issued",
                        retired'[q.presented] # NULL
                 PROVE  q.at <= retired'[q.presented]
    BY DEF ReadInTime
  <2>2. retired'[q.presented] \in {retired[q.presented], now}
    BY <1>4, <2>1 DEF RowsEvolve
  <2>3. CASE retired'[q.presented] = now
    BY <2>3 DEF CallFacts, Progress
  <2>4. CASE retired'[q.presented] = retired[q.presented]
    BY <2>1, <2>4 DEF CallFacts, ReadInTime
  <2> QED
    BY <2>2, <2>3, <2>4
<1> QED
  BY <1>1, <1>2, <1>6, <1>7 DEF CallFacts

(* A step of one call that issues nothing.                                  *)
LEMMA CallUpdate ==
  ASSUME IInv, NEW c \in Calls, NEW q \in Call, call' = [call EXCEPT ![c] = q],
         q.refreshRecordId = call[c].refreshRecordId, CallFacts(q)',
         RowsTyped', RowsEvolve,
         \A k \in Tokens : token[k] = NULL => token'[k] = NULL,
         now' = now, faults' \in Nat, held \subseteq held',
         \A k \in held' \ held : token[k] # NULL /\ k \in Tokens /\ k = q.refreshRecordId
  PROVE  IInv'
<1>1. Tables'
  BY DEF IInv, Tables, RowsTyped, RowsEvolve
<1>2. Issuers'
  <2>1. \A d \in Calls : call'[d].refreshRecordId = call[d].refreshRecordId
    BY DEF IInv, Tables, RowsTyped
  <2> QED
    BY <2>1 DEF IInv, Issuers
<1>3. ASSUME NEW d \in Calls PROVE CallFacts(call[d])' 
  <2>1. CASE d = c
    <3>1. call'[d] = q
      BY <2>1 DEF IInv, Tables, RowsTyped
    <3> QED
      BY <3>1 DEF CallFacts, Progress, Owned, ReadInTime, RetiredInTime
  <2>2. CASE d # c
    <3> DEFINE x == call[d]
    <3>1. x \in Call /\ CallFacts(x) /\ call'[d] = x
      BY <2>2 DEF IInv, Tables, RowsTyped
    <3>2. x.refreshRecordId \in held' => x.refreshRecordId \in held
      <4>1. SUFFICES ASSUME x.refreshRecordId \in held' \ held PROVE FALSE
        OBVIOUS
      <4>2. x.refreshRecordId = call[c].refreshRecordId /\ x.refreshRecordId # NULL
        BY <4>1, ConstantFacts
      <4> QED
        BY <2>2, <4>2 DEF IInv, Issuers
    <3>3. now <= now'
      BY DEF IInv, Tables, RowsTyped
    <3> HIDE DEF x
    <3>4. \A y \in Call : (CallFacts(y) /\ (y.refreshRecordId \in held' => y.refreshRecordId \in held))
                            => CallFacts(y)'
      BY <1>1, <3>3, FactsKept DEF IInv
    <3>5. CallFacts(x) /\ x \in Call
      BY <3>1
    <3> QED
      BY <3>1, <3>2, <3>4, <3>5 DEF CallFacts, Progress, Owned, ReadInTime, RetiredInTime
  <2> QED
    BY <2>1, <2>2
<1> QED
  BY <1>1, <1>2, <1>3 DEF IInv

LEMMA SameRows ==
  ASSUME Tables, UNCHANGED <<token, retired>>
  PROVE  /\ RowsTyped' /\ RowsEvolve
         /\ \A k \in Tokens : token[k] = NULL => token'[k] = NULL
BY DEF Tables, RowsTyped, RowsEvolve, IsLive

LEMMA RevokedRow ==
  ASSUME Tables, NEW k \in Tokens, token[k] # NULL, NEW other \in Tokens \cup {NULL},
         Revoke(k, other)
  PROVE  /\ RowsTyped' /\ RowsEvolve
         /\ \A j \in Tokens : token[j] = NULL => token'[j] = NULL
         /\ ~ IsLive(token'[k])
         /\ \A j \in Tokens \ {k} : token'[j] = token[j]
<1> DEFINE row == [token[k] EXCEPT !.revoked = TRUE, !.replacedById = other]
<1>1. /\ token[k] \in RefreshTokenRecord /\ now \in Nat /\ RowsTyped
      /\ token \in [Tokens -> RefreshTokenRecord \cup {NULL}]
      /\ retired \in [Tokens -> Nat \cup {NULL}]
  BY DEF Tables, RowsTyped
<1>2. token' = [token EXCEPT ![k] = row]
  BY <1>1 DEF Revoke
<1>3. row \in RefreshTokenRecord /\ row.userId = token[k].userId /\ row.revoked = TRUE
  BY <1>1 DEF RefreshTokenRecord
<1> HIDE DEF row
<1>4. /\ token' \in [Tokens -> RefreshTokenRecord \cup {NULL}] /\ token'[k] = row
      /\ \A j \in Tokens \ {k} : token'[j] = token[j]
  BY <1>1, <1>2, <1>3
<1>5. token'[k] # NULL /\ token'[k].userId = token[k].userId /\ ~ IsLive(token'[k])
  BY <1>3, <1>4, ConstantFacts DEF IsLive
<1>6. retired' = [j \in Tokens |-> IF j = k /\ IsLive(token[j]) THEN now ELSE retired[j]]
  BY DEF Revoke, Retire
<1>7. RowsTyped'
  <2>1. retired' \in [Tokens -> Nat \cup {NULL}]
    BY <1>1, <1>6
  <2>2. ASSUME NEW j \in Tokens
        PROVE  retired'[j] # NULL <=> token'[j] # NULL /\ ~ IsLive(token'[j])
    <3>1. retired[j] # NULL <=> token[j] # NULL /\ ~ IsLive(token[j])
      BY <1>1 DEF RowsTyped
    <3>2. CASE j = k
      BY <1>1, <1>5, <1>6, <3>1, <3>2, ConstantFacts
    <3>3. CASE j # k
      BY <1>4, <1>6, <3>1, <3>3
    <3> QED
      BY <3>2, <3>3
  <2> QED
    BY <1>4, <2>1, <2>2 DEF RowsTyped, IsLive
<1>8. RowsEvolve
  BY <1>4, <1>5, <1>6 DEF RowsEvolve
<1> QED
  BY <1>4, <1>5, <1>7, <1>8

LEMMA InitInv == ASSUME Init PROVE IInv
<1>1. NewCall \in Call
  BY DEF NewCall, Call
<1>2. Tables /\ Issuers
  BY <1>1, ConstantFacts DEF Init, Tables, RowsTyped, Issuers, NewCall
<1>3. \A c \in Calls : CallFacts(call[c])
  BY ConstantFacts
    DEF Init, NewCall, CallFacts, Progress, Owned, ReadInTime, RetiredInTime
<1> QED
  BY <1>2, <1>3 DEF IInv

LEMMA LoginInv ==
  ASSUME IInv, NEW c \in Calls, NEW u \in Users, Login(c, u)
  PROVE  IInv'
<1>1. call[c] = NewCall /\ Tables /\ now \in Nat
  BY DEF IInv, CallFacts, Progress, Login, Tables, RowsTyped
<1>2. PICK q \in Call : q = [NewCall EXCEPT !.pc = "issue", !.userId = u]
  BY <1>1 DEF NewCall, Call
<1>3. /\ call' = [call EXCEPT ![c] = q] /\ UNCHANGED <<now, token, held, faults, retired>>
      /\ q.refreshRecordId = call[c].refreshRecordId
  BY <1>1, <1>2 DEF Login, NewCall
<1>4. CallFacts(q)'
  BY <1>1, <1>2, <1>3, ConstantFacts
    DEF NewCall, CallFacts, Progress, Owned, ReadInTime, RetiredInTime
<1> QED
  BY <1>1, <1>3, <1>4, SameRows, CallUpdate DEF Tables

LEMMA ReadForRefreshInv ==
  ASSUME IInv, NEW c \in Calls, NEW k \in Tokens, ReadForRefresh(c, k)
  PROVE  IInv'
<1>1. call[c] = NewCall /\ Tables /\ now \in Nat /\ k \in held /\ token[k] # NULL
  BY DEF IInv, CallFacts, Progress, ReadForRefresh, Tables, RowsTyped
<1>2. AfterRead(token[k]) \in {"reuse", "done", "issue"} /\ token[k].userId \in Users
  BY <1>1, RowTypes DEF AfterRead
<1>3. PICK q \in Call :
        q = [NewCall EXCEPT !.pc = AfterRead(token[k]), !.kind = "refresh",
                            !.userId = token[k].userId, !.presented = k, !.at = now]
  BY <1>1, <1>2 DEF NewCall, Call
<1>4. /\ call' = [call EXCEPT ![c] = q] /\ UNCHANGED <<now, token, held, faults, retired>>
      /\ q.refreshRecordId = call[c].refreshRecordId
  BY <1>1, <1>3 DEF ReadForRefresh, NewCall
<1>5. /\ q.pc = AfterRead(token[k]) /\ q.kind = "refresh" /\ q.userId = token[k].userId
      /\ q.presented = k /\ q.at = now /\ q.outcome = "none" /\ q.refreshRecordId = NULL
  BY <1>3 DEF NewCall
<1>6. /\ q.pc = "reuse" => ~ IsLive(token[k])
      /\ q.pc = "issue" => retired[k] = NULL
  BY <1>1, <1>5 DEF AfterRead, IsLive, Tables, RowsTyped
<1>7. Progress(q)' /\ Owned(q)'
  BY <1>1, <1>2, <1>4, <1>5, ConstantFacts DEF Progress, Owned
<1>8. ReadInTime(q)' /\ RetiredInTime(q)'
  BY <1>2, <1>4, <1>5, <1>6 DEF ReadInTime, RetiredInTime
<1> QED
  BY <1>1, <1>4, <1>7, <1>8, SameRows, CallUpdate DEF Tables, CallFacts

LEMMA ReadForLogoutInv ==
  ASSUME IInv, NEW c \in Calls, NEW k \in Tokens, ReadForLogout(c, k)
  PROVE  IInv'
<1>1. call[c] = NewCall /\ Tables /\ now \in Nat /\ k \in held /\ token[k] # NULL
  BY DEF IInv, CallFacts, Progress, ReadForLogout, Tables, RowsTyped
<1>2. token[k].userId \in Users
  BY <1>1, RowTypes
<1>3. PICK q \in Call :
        q = [NewCall EXCEPT !.pc = "logout", !.kind = "logout", !.userId = token[k].userId,
                            !.presented = k]
  BY <1>1, <1>2 DEF NewCall, Call
<1>4. /\ call' = [call EXCEPT ![c] = q] /\ UNCHANGED <<now, token, held, faults, retired>>
      /\ q.refreshRecordId = call[c].refreshRecordId
  BY <1>1, <1>3 DEF ReadForLogout, NewCall
<1>5. CallFacts(q)'
  BY <1>1, <1>2, <1>3, <1>4, ConstantFacts
    DEF NewCall, CallFacts, Progress, Owned, ReadInTime, RetiredInTime
<1> QED
  BY <1>1, <1>4, <1>5, SameRows, CallUpdate DEF Tables

(* The record of a call in progress.                                        *)
LEMMA CallTypes ==
  ASSUME IInv, NEW c \in Calls
  PROVE  /\ call[c] \in Call /\ CallFacts(call[c]) /\ Tables
         /\ call[c].presented # NULL =>
              call[c].presented \in Tokens /\ call[c].presented \in held
              /\ token[call[c].presented] # NULL
         /\ call[c].refreshRecordId # NULL => call[c].refreshRecordId \in Tokens
BY DEF IInv, CallFacts, Owned, Tables, RowsTyped, Call

LEMMA RotateInv ==
  ASSUME IInv, NEW c \in Calls, Rotate(c)
  PROVE  IInv'
<1> DEFINE k == call[c].presented
<1>1. /\ call[c].pc = "rotate" /\ Revoke(k, call[c].refreshRecordId)
      /\ call' = [call EXCEPT ![c] = [call[c] EXCEPT !.pc = "reply"]]
      /\ UNCHANGED <<now, held, faults>>
  BY DEF Rotate, IInv, Tables, RowsTyped
<1>2. /\ Tables /\ k \in Tokens /\ token[k] # NULL /\ call[c].refreshRecordId \in Tokens \cup {NULL}
      /\ call[c] \in Call /\ CallFacts(call[c])
  BY <1>1, CallTypes DEF CallFacts, Progress
<1>3. /\ RowsTyped' /\ RowsEvolve
      /\ \A j \in Tokens : token[j] = NULL => token'[j] = NULL
      /\ ~ IsLive(token'[k])
  BY <1>1, <1>2, RevokedRow
<1>4. PICK q \in Call : q = [call[c] EXCEPT !.pc = "reply"]
  BY <1>2 DEF Call
<1>5. /\ q.pc = "reply" /\ q.kind = call[c].kind /\ q.userId = call[c].userId
      /\ q.presented = k /\ q.refreshRecordId = call[c].refreshRecordId
      /\ q.outcome = call[c].outcome /\ q.at = call[c].at
  BY <1>2, <1>4 DEF Call
<1>6. q.kind = "refresh" /\ q.outcome = "issued" /\ q.at <= now
  BY <1>1, <1>2, <1>5 DEF CallFacts, Progress
<1>7. Progress(q)'
  BY <1>1, <1>2, <1>5, <1>6 DEF CallFacts, Progress
<1>8. Owned(q)'
  BY <1>1, <1>2, <1>3, <1>5, <1>6 DEF CallFacts, Progress, Owned, RowsEvolve, Tables, RowsTyped
<1>9. ReadInTime(q)' /\ RetiredInTime(q)'
  <2>1. retired'[k] # NULL => q.at <= retired'[k]
    BY <1>2, <1>3, <1>5, <1>6 DEF CallFacts, ReadInTime, RowsEvolve
  <2> QED
    BY <1>3, <1>5, <1>6, <2>1 DEF ReadInTime, RetiredInTime
<1>10. CallFacts(q)'
  BY <1>7, <1>8, <1>9 DEF CallFacts
<1> QED
  BY <1>1, <1>2, <1>3, <1>4, <1>5, <1>10, CallUpdate DEF Tables

LEMMA RevokePresentedInv ==
  ASSUME IInv, NEW c \in Calls, RevokePresented(c)
  PROVE  IInv'
<1> DEFINE k == call[c].presented
<1>1. /\ call[c].pc = "logout" /\ Revoke(k, NULL)
      /\ call' = [call EXCEPT ![c] = [call[c] EXCEPT !.pc = "done"]]
      /\ UNCHANGED <<now, held, faults>>
  BY DEF RevokePresented, IInv, Tables, RowsTyped
<1>2. /\ Tables /\ k \in Tokens /\ token[k] # NULL
      /\ call[c] \in Call /\ CallFacts(call[c])
  BY <1>1, CallTypes DEF CallFacts, Progress
<1>3. /\ RowsTyped' /\ RowsEvolve
      /\ \A j \in Tokens : token[j] = NULL => token'[j] = NULL
  BY <1>1, <1>2, RevokedRow
<1>4. PICK q \in Call : q = [call[c] EXCEPT !.pc = "done"]
  BY <1>2 DEF Call
<1>5. /\ q.pc = "done" /\ q.kind = call[c].kind /\ q.userId = call[c].userId
      /\ q.presented = k /\ q.refreshRecordId = call[c].refreshRecordId
      /\ q.outcome = "none" /\ q.at = call[c].at
  BY <1>1, <1>2, <1>4 DEF Call, CallFacts, Progress
<1>6. Progress(q)'
  BY <1>1, <1>2, <1>5 DEF CallFacts, Progress
<1>7. Owned(q)'
  BY <1>1, <1>2, <1>3, <1>5 DEF CallFacts, Progress, Owned, RowsEvolve, Tables, RowsTyped
<1>8. ReadInTime(q)' /\ RetiredInTime(q)'
  BY <1>5 DEF ReadInTime, RetiredInTime
<1>9. CallFacts(q)'
  BY <1>6, <1>7, <1>8 DEF CallFacts
<1> QED
  BY <1>1, <1>2, <1>3, <1>4, <1>5, <1>9, CallUpdate DEF Tables

(* The rows after a reuse of the token k.                                   *)
FamilyRevoked(k) ==
  /\ token' = [j \in Tokens |-> IF j \in Family(k) /\ IsLive(token[j])
                                 THEN [token[j] EXCEPT !.revoked = TRUE] ELSE token[j]]
  /\ Retire(Family(k))

LEMMA FamilyRows ==
  ASSUME Tables, NEW k \in Tokens, token[k] # NULL, FamilyRevoked(k)
  PROVE  /\ RowsTyped' /\ RowsEvolve
         /\ \A j \in Tokens : token[j] = NULL => token'[j] = NULL
         /\ \A j \in Tokens : token'[j] # NULL /\ token'[j].userId = token[k].userId
                                => ~ IsLive(token'[j])
<1>1. /\ now \in Nat /\ RowsTyped /\ token \in [Tokens -> RefreshTokenRecord \cup {NULL}]
      /\ retired \in [Tokens -> Nat \cup {NULL}]
  BY DEF Tables, RowsTyped
<1>2. ASSUME NEW j \in Tokens, j \in Family(k), IsLive(token[j])
      PROVE  /\ token'[j] \in RefreshTokenRecord /\ token'[j].userId = token[j].userId
             /\ ~ IsLive(token'[j]) /\ token[j] # NULL /\ token'[j] # NULL /\ retired'[j] = now
  <2>1. /\ token[j] \in RefreshTokenRecord /\ token'[j] = [token[j] EXCEPT !.revoked = TRUE]
        /\ retired'[j] = now
    BY <1>1, <1>2 DEF IsLive, FamilyRevoked, Retire
  <2>2. /\ token'[j] \in RefreshTokenRecord /\ token'[j].userId = token[j].userId
        /\ token'[j].revoked = TRUE
    BY <1>1, <2>1 DEF RefreshTokenRecord
  <2> QED
    BY <1>1, <1>2, <2>1, <2>2, ConstantFacts DEF IsLive
<1>3. ASSUME NEW j \in Tokens, ~ (j \in Family(k) /\ IsLive(token[j]))
      PROVE  token'[j] = token[j] /\ retired'[j] = retired[j]
  BY <1>3 DEF FamilyRevoked, Retire
<1>4. RowsTyped'
  <2>1. token' \in [Tokens -> RefreshTokenRecord \cup {NULL}]
    <3>1. \A j \in Tokens : token'[j] \in RefreshTokenRecord \cup {NULL}
      BY <1>1, <1>2, <1>3
    <3>2. token' = [j \in Tokens |-> token'[j]]
      BY DEF FamilyRevoked
    <3> QED
      BY <3>1, <3>2
  <2>2. retired' \in [Tokens -> Nat \cup {NULL}]
    BY <1>1 DEF FamilyRevoked, Retire
  <2>3. ASSUME NEW j \in Tokens
        PROVE  retired'[j] # NULL <=> token'[j] # NULL /\ ~ IsLive(token'[j])
    <3>1. retired[j] # NULL <=> token[j] # NULL /\ ~ IsLive(token[j])
      BY <1>1 DEF RowsTyped
    <3>2. CASE j \in Family(k) /\ IsLive(token[j])
      BY <1>1, <1>2, <3>2, ConstantFacts
    <3>3. CASE ~ (j \in Family(k) /\ IsLive(token[j]))
      BY <1>3, <3>1, <3>3
    <3> QED
      BY <3>2, <3>3
  <2> QED
    BY <2>1, <2>2, <2>3 DEF RowsTyped, IsLive
<1>5. RowsEvolve
  BY <1>2, <1>3 DEF RowsEvolve
<1>6. \A j \in Tokens : token[j] = NULL => token'[j] = NULL
  BY <1>3 DEF IsLive
<1>7. ASSUME NEW j \in Tokens, token'[j] # NULL, token'[j].userId = token[k].userId
      PROVE  ~ IsLive(token'[j])
  <2>1. token[j] # NULL /\ token'[j].userId = token[j].userId
    BY <1>5, <1>6, <1>7 DEF RowsEvolve
  <2>2. j \in Family(k)
    BY <1>7, <2>1 DEF Family
  <2> QED
    BY <1>2, <1>3, <2>2
<1> QED
  BY <1>4, <1>5, <1>6, <1>7

LEMMA RevokeAllInv ==
  ASSUME IInv, NEW c \in Calls, RevokeAllForUser(c)
  PROVE  IInv'
<1> DEFINE k == call[c].presented
<1>1. /\ call[c].pc = "reuse"
      /\ FamilyRevoked(k)
      /\ call' = [call EXCEPT ![c] = [call[c] EXCEPT !.pc = "done", !.outcome = "reused", !.at = now]]
      /\ UNCHANGED <<now, held, faults>>
  BY DEF RevokeAllForUser, FamilyRevoked, IInv, Tables, RowsTyped
<1>2. /\ Tables /\ k \in Tokens /\ token[k] # NULL /\ call[c] \in Call /\ CallFacts(call[c])
      /\ now \in Nat
  BY <1>1, CallTypes DEF CallFacts, Progress, Tables, RowsTyped
<1>3. /\ RowsTyped' /\ RowsEvolve
      /\ \A j \in Tokens : token[j] = NULL => token'[j] = NULL
  <2> HIDE DEF k
  <2> QED BY <1>1, <1>2, FamilyRows
<1>4. PICK q \in Call : q = [call[c] EXCEPT !.pc = "done", !.outcome = "reused", !.at = now]
  BY <1>2 DEF Call
<1>5. /\ q.pc = "done" /\ q.kind = call[c].kind /\ q.userId = call[c].userId
      /\ q.presented = k /\ q.refreshRecordId = call[c].refreshRecordId
      /\ q.outcome = "reused" /\ q.at = now
  BY <1>2, <1>4 DEF Call
<1>6. Progress(q)'
  BY <1>1, <1>2, <1>5 DEF CallFacts, Progress
<1>7. Owned(q)'
  BY <1>1, <1>2, <1>3, <1>5 DEF CallFacts, Progress, Owned, RowsEvolve, Tables, RowsTyped
<1>8. ReadInTime(q)' /\ RetiredInTime(q)'
  BY <1>5 DEF ReadInTime, RetiredInTime
<1>9. CallFacts(q)'
  BY <1>6, <1>7, <1>8 DEF CallFacts
<1> QED
  BY <1>1, <1>2, <1>3, <1>4, <1>5, <1>9, CallUpdate DEF Tables

(* The instant a call takes for the row it will insert.                     *)
LEMMA IssueInv ==
  ASSUME IInv, NEW c \in Calls, Issue(c)
  PROVE  IInv'
<1>1. /\ call[c].pc = "issue" /\ UNCHANGED <<now, token, held, faults, retired>>
      /\ call' = [call EXCEPT ![c] = [call[c] EXCEPT !.pc = "create", !.expiresAt = now + TTL]]
  BY DEF Issue, IInv, Tables, RowsTyped
<1>2. Tables /\ call[c] \in Call /\ CallFacts(call[c]) /\ now + TTL \in Nat
  BY <1>1, CallTypes, ConstantFacts DEF Tables, RowsTyped
<1>3. PICK q \in Call : q = [call[c] EXCEPT !.pc = "create", !.expiresAt = now + TTL]
  BY <1>2 DEF Call
<1>4. /\ q.pc = "create" /\ q.kind = call[c].kind /\ q.userId = call[c].userId
      /\ q.presented = call[c].presented /\ q.refreshRecordId = call[c].refreshRecordId
      /\ q.outcome = call[c].outcome /\ q.at = call[c].at
  BY <1>2, <1>3 DEF Call
<1>5. Progress(q)' /\ Owned(q)'
  BY <1>1, <1>2, <1>4 DEF CallFacts, Progress, Owned
<1>6. ReadInTime(q)' /\ RetiredInTime(q)'
  BY <1>1, <1>2, <1>4 DEF CallFacts, Progress, ReadInTime, RetiredInTime
<1>7. CallFacts(q)'
  BY <1>5, <1>6 DEF CallFacts
<1>8. faults' \in Nat /\ now' = now
  BY <1>1, <1>2 DEF Tables, RowsTyped
<1> QED
  BY <1>1, <1>2, <1>3, <1>4, <1>7, <1>8, SameRows, CallUpdate

(* The row a call issues.                                                   *)
NewRow(c) ==
  [userId |-> call[c].userId, expiresAt |-> call[c].expiresAt, revoked |-> FALSE,
   replacedById |-> NULL]

LEMMA CreateFacts ==
  ASSUME IInv, NEW c \in Calls, NEW k \in Tokens, Create(c, k)
  PROVE  /\ Tables /\ call[c] \in Call /\ CallFacts(call[c]) /\ now \in Nat
         /\ call[c].refreshRecordId = NULL /\ k \notin held /\ k # NULL /\ token[k] = NULL
         /\ NewRow(c) \in RefreshTokenRecord /\ NewRow(c) # NULL
         /\ token' = [token EXCEPT ![k] = NewRow(c)] /\ UNCHANGED <<now, held, faults, retired>>
         /\ RowsTyped' /\ RowsEvolve
         /\ token'[k] = NewRow(c) /\ \A j \in Tokens \ {k} : token'[j] = token[j]
<1>1. Tables /\ call[c] \in Call /\ CallFacts(call[c]) /\ now \in Nat
  BY CallTypes DEF Tables, RowsTyped
<1>2. call[c].refreshRecordId = NULL /\ k \notin held /\ call[c].userId \in Users
  BY <1>1 DEF Create, CallFacts, Progress, Tables, RowsTyped
<1>3. NewRow(c) \in RefreshTokenRecord
  BY <1>1, <1>2, ConstantFacts DEF NewRow, RefreshTokenRecord, Call
<1>4. token[k] = NULL /\ token' = [token EXCEPT ![k] = NewRow(c)] /\ UNCHANGED <<now, held, faults, retired>>
  BY DEF Create, NewRow
<1>5. /\ token' \in [Tokens -> RefreshTokenRecord \cup {NULL}]
      /\ token'[k] = NewRow(c) /\ \A j \in Tokens \ {k} : token'[j] = token[j]
  BY <1>1, <1>3, <1>4 DEF Tables, RowsTyped
<1>6. IsLive(NewRow(c)) /\ NewRow(c) # NULL
  BY <1>3, ConstantFacts DEF NewRow, IsLive
<1>7. RowsEvolve
  BY <1>4, <1>5 DEF RowsEvolve
<1>8. RowsTyped'
  <2>1. RowsTyped
    BY <1>1 DEF Tables, RowsTyped
  <2>2. ASSUME NEW j \in Tokens
        PROVE  retired'[j] # NULL <=> token'[j] # NULL /\ ~ IsLive(token'[j])
    <3>1. retired[j] # NULL <=> token[j] # NULL /\ ~ IsLive(token[j])
      BY <2>1 DEF RowsTyped
    <3> QED
      BY <1>4, <1>5, <1>6, <3>1
  <2> QED
    BY <1>4, <1>5, <2>1, <2>2 DEF RowsTyped, IsLive
<1> QED
  BY <1>1, <1>2, <1>3, <1>4, <1>5, <1>7, <1>8, ConstantFacts

LEMMA CreateInv ==
  ASSUME IInv, NEW c \in Calls, NEW k \in Tokens, Create(c, k)
  PROVE  IInv'
<1>1. /\ Tables /\ call[c] \in Call /\ CallFacts(call[c]) /\ now \in Nat
      /\ call[c].refreshRecordId = NULL /\ k \notin held /\ k # NULL /\ token[k] = NULL
      /\ token'[k] = NewRow(c) /\ NewRow(c) # NULL /\ \A j \in Tokens \ {k} : token'[j] = token[j]
      /\ RowsTyped' /\ RowsEvolve
      /\ UNCHANGED <<now, held, faults, retired>>
  BY CreateFacts
<1>2. call[c].pc = "create" /\ AfterIssue(call[c].kind) \in {"rotate", "reply"}
      /\ (AfterIssue(call[c].kind) = "rotate" <=> call[c].kind = "refresh")
  BY DEF Create, AfterIssue
<1>3. PICK q \in Call :
        q = [call[c] EXCEPT !.pc = AfterIssue(call[c].kind), !.refreshRecordId = k,
                            !.outcome = "issued"]
  BY <1>1, <1>2 DEF Call
<1>4. call' = [call EXCEPT ![c] = q]
  BY <1>1, <1>3 DEF Create, Tables, RowsTyped
<1>5. /\ q.pc = AfterIssue(call[c].kind) /\ q.kind = call[c].kind /\ q.userId = call[c].userId
      /\ q.presented = call[c].presented /\ q.refreshRecordId = k
      /\ q.outcome = "issued" /\ q.at = call[c].at
  BY <1>1, <1>3 DEF Call
<1>6. call'[c] = q /\ \A d \in Calls \ {c} : call'[d] = call[d]
  BY <1>1, <1>4 DEF Tables, RowsTyped
<1>7. Tables'
  BY <1>1, <1>4 DEF Tables, RowsTyped, RowsEvolve
<1>8. Issuers'
  <2>1. \A d \in Calls : call[d].refreshRecordId # k
    BY <1>1, CallTypes DEF CallFacts, Owned
  <2>2. \A d \in Calls : call'[d].refreshRecordId = (IF d = c THEN k ELSE call[d].refreshRecordId)
    BY <1>5, <1>6
  <2>3. ASSUME NEW a \in Calls, NEW d \in Calls, call'[a].refreshRecordId # NULL,
               call'[a].refreshRecordId = call'[d].refreshRecordId
        PROVE  a = d
    BY <2>1, <2>2, <2>3 DEF IInv, Issuers
  <2>4. ASSUME NEW j \in Tokens, token'[j] # NULL
        PROVE  \E d \in Calls : call'[d].refreshRecordId = j
    <3>1. CASE j = k
      BY <2>2, <3>1
    <3>2. CASE j # k
      <4>1. token[j] # NULL
        BY <1>1, <2>4, <3>2
      <4>2. PICK d \in Calls : call[d].refreshRecordId = j
        BY <4>1 DEF IInv, Issuers
      <4>3. d # c
        BY <1>1, <4>2, ConstantFacts
      <4> QED
        BY <2>2, <4>2, <4>3
    <3> QED
      BY <3>1, <3>2
  <2> QED
    BY <2>3, <2>4 DEF Issuers
<1>9. CallFacts(q)'
  <2>1. Progress(q)'
    BY <1>1, <1>2, <1>5 DEF CallFacts, Progress
  <2>2. Owned(q)'
    <3>1. token'[k] # NULL /\ token'[k].userId = q.userId
      BY <1>1, <1>5 DEF NewRow
    <3>2. q.presented # NULL => /\ q.presented \in held' /\ token'[q.presented] # NULL
                                /\ token'[q.presented].userId = q.userId
      BY <1>1, <1>5 DEF CallFacts, Owned, RowsEvolve, Tables, RowsTyped
    <3> QED
      BY <1>5, <3>1, <3>2 DEF Owned
  <2>3. ReadInTime(q)'
    <3>1. q.kind = "refresh" => q.presented # k /\ q.presented \in Tokens
      BY <1>1, <1>5, CallTypes DEF CallFacts, Progress
    <3> QED
      BY <1>1, <1>2, <1>5, <3>1 DEF CallFacts, ReadInTime
  <2>4. RetiredInTime(q)'
    BY <1>1, <1>2, <1>5 DEF RetiredInTime
  <2> QED
    BY <2>1, <2>2, <2>3, <2>4 DEF CallFacts
<1>10. ASSUME NEW d \in Calls, d # c PROVE CallFacts(call[d])'
  <2> DEFINE x == call[d]
  <2>1. x \in Call /\ CallFacts(x) /\ call'[d] = x
    BY <1>6, <1>10, CallTypes
  <2> HIDE DEF x
  <2>2. \A y \in Call : CallFacts(y) => CallFacts(y)'
    BY <1>1, <1>7, FactsKept
  <2> QED
    BY <2>1, <2>2 DEF CallFacts, Progress, Owned, ReadInTime, RetiredInTime
<1>11. CallFacts(call[c])'
  BY <1>6, <1>9 DEF CallFacts, Progress, Owned, ReadInTime, RetiredInTime
<1> QED
  BY <1>7, <1>8, <1>10, <1>11 DEF IInv

LEMMA ReplyInv ==
  ASSUME IInv, NEW c \in Calls, Reply(c)
  PROVE  IInv'
<1>1. /\ call[c].pc = "reply" /\ UNCHANGED <<now, token, faults, retired>>
      /\ held' = held \cup {call[c].refreshRecordId}
      /\ call' = [call EXCEPT ![c] = [call[c] EXCEPT !.pc = "done"]]
  BY DEF Reply, IInv, Tables, RowsTyped
<1>2. /\ Tables /\ call[c] \in Call /\ CallFacts(call[c])
      /\ call[c].refreshRecordId \in Tokens /\ token[call[c].refreshRecordId] # NULL
  BY <1>1, CallTypes DEF CallFacts, Progress, Owned
<1>3. PICK q \in Call : q = [call[c] EXCEPT !.pc = "done"]
  BY <1>2 DEF Call
<1>4. /\ q.pc = "done" /\ q.kind = call[c].kind /\ q.userId = call[c].userId
      /\ q.presented = call[c].presented /\ q.refreshRecordId = call[c].refreshRecordId
      /\ q.outcome = "issued" /\ q.at = call[c].at
  BY <1>1, <1>2, <1>3 DEF Call, CallFacts, Progress
<1>5. Progress(q)' /\ Owned(q)'
  BY <1>1, <1>2, <1>4 DEF CallFacts, Progress, Owned
<1>6. ReadInTime(q)' /\ RetiredInTime(q)'
  <2>1. ReadInTime(call[c]) /\ RetiredInTime(call[c])
    BY <1>2 DEF CallFacts
  <2>2. ReadInTime(q)'
    BY <1>1, <1>2, <1>4, <2>1 DEF ReadInTime, CallFacts, Progress
  <2>3. q.kind = "refresh" => ~ IsLive(token[q.presented])
    BY <1>1, <1>2, <1>4, <2>1 DEF RetiredInTime, CallFacts, Progress
  <2>4. RetiredInTime(q)'
    BY <1>1, <1>4, <2>3 DEF RetiredInTime, IsLive
  <2> QED
    BY <2>2, <2>4
<1>7. CallFacts(q)'
  BY <1>5, <1>6 DEF CallFacts
<1> QED
  BY <1>1, <1>2, <1>3, <1>4, <1>7, SameRows, CallUpdate DEF Tables

LEMMA StopCallInv ==
  ASSUME IInv, NEW c \in Calls, StopCall(c)
  PROVE  IInv'
<1>1. /\ call[c].pc \notin {"new", "done"} /\ UNCHANGED <<now, token, held, retired>>
      /\ faults' = faults + 1
      /\ call' = [call EXCEPT ![c] = [call[c] EXCEPT !.pc = "done"]]
  BY DEF StopCall, IInv, Tables, RowsTyped
<1>2. Tables /\ call[c] \in Call /\ CallFacts(call[c]) /\ faults' \in Nat
  BY <1>1, CallTypes DEF Tables, RowsTyped
<1>3. PICK q \in Call : q = [call[c] EXCEPT !.pc = "done"]
  BY <1>2 DEF Call
<1>4. /\ q.pc = "done" /\ q.kind = call[c].kind /\ q.userId = call[c].userId
      /\ q.presented = call[c].presented /\ q.refreshRecordId = call[c].refreshRecordId
      /\ q.outcome = call[c].outcome /\ q.at = call[c].at
  BY <1>2, <1>3 DEF Call
<1>5. Progress(q)' /\ Owned(q)'
  BY <1>1, <1>2, <1>4 DEF CallFacts, Progress, Owned
<1>6. ReadInTime(q)' /\ RetiredInTime(q)'
  BY <1>1, <1>2, <1>4 DEF CallFacts, ReadInTime, RetiredInTime
<1>7. CallFacts(q)'
  BY <1>5, <1>6 DEF CallFacts
<1> QED
  BY <1>1, <1>2, <1>3, <1>4, <1>7, SameRows, CallUpdate

LEMMA TickInv ==
  ASSUME IInv, Tick
  PROVE  IInv'
<1>1. now' = now + 1 /\ now \in Nat /\ UNCHANGED <<token, held, call, faults, retired>>
  BY DEF Tick, IInv, Tables, RowsTyped
<1>2. Tables' /\ Issuers'
  BY <1>1 DEF IInv, Tables, RowsTyped, Issuers
<1>3. ASSUME NEW c \in Calls PROVE CallFacts(call[c])'
  BY <1>1, CallTypes
    DEF Call, CallFacts, Progress, Owned, ReadInTime, RetiredInTime
<1> QED
  BY <1>2, <1>3 DEF IInv

LEMMA StepInv == ASSUME IInv, [Next]_vars PROVE IInv'
<1>1. ASSUME NEW c \in Calls, CallStep(c) PROVE IInv'
  BY <1>1, LoginInv, ReadForRefreshInv, IssueInv, CreateInv, RotateInv, RevokeAllInv, ReplyInv,
     ReadForLogoutInv, RevokePresentedInv, StopCallInv DEF CallStep
<1>2. CASE Tick
  BY <1>2, TickInv
<1>3. CASE UNCHANGED vars
  <2>1. UNCHANGED <<now, token, held, call, faults, retired>>
    BY <1>3 DEF vars
  <2>2. Tables' /\ Issuers'
    BY <2>1 DEF IInv, Tables, RowsTyped, Issuers
  <2>3. ASSUME NEW c \in Calls PROVE CallFacts(call[c])'
    BY <2>1 DEF IInv, CallFacts, Progress, Owned, ReadInTime, RetiredInTime
  <2> QED
    BY <2>2, <2>3 DEF IInv
<1> QED
  BY <1>1, <1>2, <1>3 DEF Next

LEMMA Inductive == Spec => []IInv
<1>1. Init => IInv
  BY InitInv
<1>2. IInv /\ [Next]_vars => IInv'
  BY StepInv
<1> QED
  BY <1>1, <1>2, PTL DEF Spec

-----------------------------------------------------------------------------
(* Rows and calls stay well formed, and calls act on rows that exist.       *)
THEOREM SessionTypes == Spec => []TypeOK
<1>1. ASSUME IInv PROVE TypeOK
  <2>1. Tables /\ \A c \in Calls : call[c] \in Call /\ Progress(call[c]) /\ Owned(call[c])
    BY <1>1 DEF IInv, Tables, RowsTyped, CallFacts
  <2> QED
    BY <2>1 DEF TypeOK, Tables, RowsTyped, Progress, Owned
<1> QED
  BY <1>1, Inductive, PTL

(* Once a client holds a successor, its predecessor is of no use.           *)
THEOREM RotationRetires == Spec => []SuccessorRetiresToken
<1>1. IInv => SuccessorRetiresToken
  BY DEF IInv, CallFacts, RetiredInTime, SuccessorRetiresToken, Rotations
<1> QED
  BY <1>1, Inductive, PTL

(* A revoked token has no successors but those under way when it was.       *)
THEOREM RevokedIsNotRotated == Spec => []RotatedBeforeRevoked
<1>1. IInv => RotatedBeforeRevoked
  BY DEF IInv, CallFacts, ReadInTime, RotatedBeforeRevoked, Rotations
<1> QED
  BY <1>1, Inductive, PTL

-----------------------------------------------------------------------------
(* The refinement of SessionPromise *)

Session == [owner : Users, parent : Tokens \cup {NULL}, live : BOOLEAN]

(* The issuer of a row is the call that says so.                            *)
LEMMA IssuerIs ==
  ASSUME Issuers, NEW k \in Tokens, NEW c \in Calls, call[c].refreshRecordId = k, k # NULL
  PROVE  IssuerOf(k) = c
<1>1. \A d \in Calls : call[d].refreshRecordId = k => d = c
  BY DEF Issuers
<1> QED
  BY <1>1 DEF IssuerOf

LEMMA IssuerIsNext ==
  ASSUME Issuers', NEW k \in Tokens, NEW c \in Calls, call'[c].refreshRecordId = k, k # NULL
  PROVE  IssuerOf(k)' = c
<1>1. \A d \in Calls : call'[d].refreshRecordId = k => d = c
  BY DEF Issuers
<1> QED
  BY <1>1 DEF IssuerOf

LEMMA SessionFacts ==
  ASSUME IInv, NEW k \in Tokens
  PROVE  /\ Sessions[k] = SessionOf(k)
         /\ token[k] = NULL <=> Sessions[k] = NULL
         /\ token[k] # NULL =>
              /\ Sessions[k] \in Session /\ Sessions[k].owner = token[k].userId
              /\ Sessions[k].parent = call[IssuerOf(k)].presented
              /\ Sessions[k].live = IsLive(token[k])
<1>1. Sessions[k] = SessionOf(k)
  BY DEF Sessions
<1>2. CASE token[k] = NULL
  BY <1>1, <1>2 DEF SessionOf
<1>3. CASE token[k] # NULL
  <2>1. PICK c \in Calls : call[c].refreshRecordId = k
    BY <1>3 DEF IInv, Issuers
  <2>2. IssuerOf(k) = c
    BY <2>1, ConstantFacts, IssuerIs DEF IInv
  <2>3. call[c].presented \in Tokens \cup {NULL} /\ token[k].userId \in Users
    BY <1>3, CallTypes, RowTypes
  <2>4. SessionOf(k) = [owner |-> token[k].userId, parent |-> call[c].presented,
                        live |-> IsLive(token[k])]
    BY <1>3, <2>2 DEF SessionOf
  <2>5. SessionOf(k) \in Session
    BY <2>3, <2>4 DEF Session, IsLive
  <2> QED
    BY <1>1, <1>3, <2>2, <2>4, <2>5, NullIsNoSession DEF Session
<1> QED
  BY <1>2, <1>3

(* The sessions after a step that keeps what calls have issued.             *)
LEMMA SessionsNext ==
  ASSUME IInv, IInv', RowsEvolve,
         \A c \in Calls : call[c].refreshRecordId # NULL =>
           call'[c].refreshRecordId = call[c].refreshRecordId /\ call'[c].presented = call[c].presented
  PROVE  \A k \in Tokens :
           /\ Sessions'[k] = SessionOf(k)'
           /\ token'[k] = NULL => Sessions'[k] = NULL
           /\ token[k] # NULL =>
                Sessions'[k] = [owner |-> Sessions[k].owner, parent |-> Sessions[k].parent,
                                live |-> IsLive(token'[k])]
<1> SUFFICES ASSUME NEW k \in Tokens
             PROVE  /\ Sessions'[k] = SessionOf(k)'
                    /\ token'[k] = NULL => Sessions'[k] = NULL
                    /\ token[k] # NULL =>
                         Sessions'[k] = [owner |-> Sessions[k].owner, parent |-> Sessions[k].parent,
                                         live |-> IsLive(token'[k])]
  OBVIOUS
<1>1. Sessions'[k] = SessionOf(k)'
  BY DEF Sessions
<1>2. token'[k] = NULL => Sessions'[k] = NULL
  BY <1>1 DEF SessionOf
<1>3. ASSUME token[k] # NULL
      PROVE  Sessions'[k] = [owner |-> Sessions[k].owner, parent |-> Sessions[k].parent,
                             live |-> IsLive(token'[k])]
  <2>1. PICK c \in Calls : call[c].refreshRecordId = k
    BY <1>3 DEF IInv, Issuers
  <2>2. call'[c].refreshRecordId = k /\ call'[c].presented = call[c].presented /\ k # NULL
    BY <2>1, ConstantFacts
  <2>3. IssuerOf(k) = c /\ IssuerOf(k)' = c
    BY <2>1, <2>2, IssuerIs, IssuerIsNext DEF IInv
  <2>4. token'[k] # NULL /\ token'[k].userId = token[k].userId
    BY <1>3 DEF RowsEvolve
  <2>5. SessionOf(k)' = [owner |-> token'[k].userId, parent |-> call'[c].presented,
                         live |-> IsLive(token'[k])]
    BY <2>3, <2>4 DEF SessionOf
  <2>6. Sessions[k].owner = token[k].userId /\ Sessions[k].parent = call[c].presented
    BY <1>3, <2>3, SessionFacts
  <2> QED
    BY <1>1, <2>2, <2>4, <2>5, <2>6
<1> QED
  BY <1>1, <1>2, <1>3

(* Sessions that change only in whether they live.                          *)
LEMMA SessionShape ==
  ASSUME NEW s \in Session, NEW live
  PROVE  /\ [owner |-> s.owner, parent |-> s.parent, live |-> live] = [s EXCEPT !.live = live]
         /\ s.live = live => [s EXCEPT !.live = live] = s
BY DEF Session

(* A step that creates no row leaves every session but for whether it lives. *)
LEMMA SessionsKept ==
  ASSUME IInv, IInv', RowsEvolve, \A k \in Tokens : token[k] = NULL => token'[k] = NULL,
         \A c \in Calls : call[c].refreshRecordId # NULL =>
           call'[c].refreshRecordId = call[c].refreshRecordId /\ call'[c].presented = call[c].presented
  PROVE  Sessions' = [k \in Tokens |->
           IF token[k] = NULL THEN Sessions[k] ELSE [Sessions[k] EXCEPT !.live = IsLive(token'[k])]]
<1>1. ASSUME NEW k \in Tokens
      PROVE  SessionOf(k)' =
        IF token[k] = NULL THEN Sessions[k] ELSE [Sessions[k] EXCEPT !.live = IsLive(token'[k])]
  <2>1. CASE token[k] = NULL
    BY <2>1, SessionFacts, SessionsNext
  <2>2. CASE token[k] # NULL
    <3>1. Sessions[k] \in Session
      BY <2>2, SessionFacts
    <3> QED
      BY <2>2, <3>1, SessionsNext, SessionShape
  <2> QED
    BY <2>1, <2>2
<1>2. Sessions' = [k \in Tokens |-> SessionOf(k)']
  BY DEF Sessions
<1> QED
  BY <1>1, <1>2

(* Where no row changes whether it lives, nothing happens to the sessions.  *)
LEMMA SessionsUnchanged ==
  ASSUME IInv, IInv', UNCHANGED <<token, retired>>,
         \A c \in Calls : call[c].refreshRecordId # NULL =>
           call'[c].refreshRecordId = call[c].refreshRecordId /\ call'[c].presented = call[c].presented
  PROVE  UNCHANGED Sessions
<1>1. /\ RowsEvolve /\ \A k \in Tokens : token[k] = NULL => token'[k] = NULL
  BY SameRows DEF IInv
<1>2. ASSUME NEW k \in Tokens
      PROVE  Sessions[k] =
        IF token[k] = NULL THEN Sessions[k] ELSE [Sessions[k] EXCEPT !.live = IsLive(token'[k])]
  BY SessionFacts, SessionShape
<1>3. Sessions = [k \in Tokens |-> Sessions[k]]
  BY DEF Sessions
<1> QED
  BY <1>1, <1>2, <1>3, SessionsKept

(* A call that has issued nothing may begin, and any may go on.             *)
LEMMA CallsKept ==
  ASSUME IInv, NEW c \in Calls, NEW q,
         call' = [call EXCEPT ![c] = q],
         call[c].refreshRecordId # NULL =>
           q.refreshRecordId = call[c].refreshRecordId /\ q.presented = call[c].presented
  PROVE  \A d \in Calls : call[d].refreshRecordId # NULL =>
           call'[d].refreshRecordId = call[d].refreshRecordId /\ call'[d].presented = call[d].presented
<1>1. \A d \in Calls : call'[d] = IF d = c THEN q ELSE call[d]
  BY DEF IInv, Tables, RowsTyped
<1> QED
  BY <1>1

LEMMA BeginRefines ==
  ASSUME IInv, IInv', NEW c \in Calls, NEW k \in Tokens \cup Users,
         Login(c, k) \/ ReadForRefresh(c, k) \/ ReadForLogout(c, k)
  PROVE  UNCHANGED Promise!vars
<1>1. call[c].refreshRecordId = NULL
  BY DEF IInv, CallFacts, Progress, Login, ReadForRefresh, ReadForLogout, NewCall
<1>2. PICK q : call' = [call EXCEPT ![c] = q] /\ UNCHANGED <<token, held, retired>>
  BY DEF Login, ReadForRefresh, ReadForLogout
<1> QED
  BY <1>1, <1>2, CallsKept, SessionsUnchanged DEF Promise!vars

LEMMA StopRefines ==
  ASSUME IInv, IInv', NEW c \in Calls, StopCall(c)
  PROVE  UNCHANGED Promise!vars
<1> DEFINE q == [call[c] EXCEPT !.pc = "done"]
<1>1. call' = [call EXCEPT ![c] = q] /\ UNCHANGED <<token, held, retired>>
  BY DEF StopCall, IInv, Tables, RowsTyped
<1>2. q.refreshRecordId = call[c].refreshRecordId /\ q.presented = call[c].presented
  BY CallTypes DEF Call
<1> HIDE DEF q
<1> QED
  BY <1>1, <1>2, CallsKept, SessionsUnchanged DEF Promise!vars

(* Revoking what the call presented retires it, or did already.             *)
LEMMA RevokeRefines ==
  ASSUME IInv, IInv', NEW c \in Calls, NEW q, call' = [call EXCEPT ![c] = q],
         q.refreshRecordId = call[c].refreshRecordId, q.presented = call[c].presented,
         NEW other \in Tokens \cup {NULL}, Revoke(call[c].presented, other),
         call[c].presented # NULL, UNCHANGED held
  PROVE  (\E k \in Tokens : Promise!Retire(k)) \/ UNCHANGED Promise!vars
<1> DEFINE k == call[c].presented
<1>1. k \in Tokens /\ k \in held /\ token[k] # NULL /\ Tables /\ Revoke(k, other)
  BY CallTypes
<1> HIDE DEF k
<1>2. /\ RowsEvolve /\ \A j \in Tokens : token[j] = NULL => token'[j] = NULL
      /\ ~ IsLive(token'[k]) /\ \A j \in Tokens \ {k} : token'[j] = token[j]
  BY <1>1, RevokedRow
<1>3. Sessions' = [j \in Tokens |->
        IF token[j] = NULL THEN Sessions[j] ELSE [Sessions[j] EXCEPT !.live = IsLive(token'[j])]]
  BY <1>2, CallsKept, SessionsKept
<1>4. ASSUME NEW j \in Tokens \ {k}
      PROVE  (IF token[j] = NULL THEN Sessions[j]
              ELSE [Sessions[j] EXCEPT !.live = IsLive(token'[j])]) = Sessions[j]
  <2>1. token'[j] = token[j] /\ j \in Tokens
    BY <1>2
  <2>2. token[j] # NULL => Sessions[j] \in Session /\ Sessions[j].live = IsLive(token'[j])
    BY <2>1, SessionFacts
  <2> QED
    BY <2>2, SessionShape
<1>5. Sessions = [j \in Tokens |-> Sessions[j]] /\ Sessions[k] \in Session /\ IsLive(token'[k]) = FALSE
  BY <1>1, <1>2, SessionFacts DEF Sessions, IsLive
<1>6. Sessions' = [Sessions EXCEPT ![k] = [Sessions[k] EXCEPT !.live = FALSE]]
  BY <1>1, <1>3, <1>4, <1>5
<1>7. CASE Sessions[k].live
  <2>1. Sessions' = [Sessions EXCEPT ![k].live = FALSE]
    BY <1>6
  <2>2. Sessions[k] # NULL
    BY <1>1, SessionFacts
  <2>3. Promise!Retire(k)
    BY <1>1, <1>7, <2>1, <2>2 DEF Promise!Retire, Promise!Live
  <2> QED
    BY <1>1, <2>3
<1>8. CASE ~ Sessions[k].live
  <2>1. Sessions[k].live = FALSE
    BY <1>5, <1>8 DEF Session
  <2>2. [Sessions[k] EXCEPT !.live = FALSE] = Sessions[k]
    BY <1>5, <2>1, SessionShape
  <2>3. Sessions' = Sessions
    BY <1>1, <1>5, <1>6, <2>2
  <2> QED
    BY <2>3 DEF Promise!vars
<1> QED
  BY <1>7, <1>8

LEMMA RotateRefines ==
  ASSUME IInv, IInv', NEW c \in Calls, Rotate(c)
  PROVE  (\E k \in Tokens : Promise!Retire(k)) \/ UNCHANGED Promise!vars
<1> DEFINE q == [call[c] EXCEPT !.pc = "reply"]
           other == call[c].refreshRecordId
<1>1. call' = [call EXCEPT ![c] = q] /\ Revoke(call[c].presented, other) /\ UNCHANGED held
  BY DEF Rotate, IInv, Tables, RowsTyped
<1>2. q.refreshRecordId = call[c].refreshRecordId /\ q.presented = call[c].presented
      /\ call[c].presented # NULL /\ other \in Tokens \cup {NULL}
  BY CallTypes DEF Call, CallFacts, Progress, Rotate
<1> HIDE DEF q, other
<1> QED
  BY <1>1, <1>2, RevokeRefines

LEMMA RevokePresentedRefines ==
  ASSUME IInv, IInv', NEW c \in Calls, RevokePresented(c)
  PROVE  (\E k \in Tokens : Promise!Retire(k)) \/ UNCHANGED Promise!vars
<1> DEFINE q == [call[c] EXCEPT !.pc = "done"]
<1>1. call' = [call EXCEPT ![c] = q] /\ Revoke(call[c].presented, NULL) /\ UNCHANGED held
  BY DEF RevokePresented, IInv, Tables, RowsTyped
<1>2. q.refreshRecordId = call[c].refreshRecordId /\ q.presented = call[c].presented
      /\ call[c].presented # NULL
  BY CallTypes DEF Call, CallFacts, Progress, RevokePresented
<1> HIDE DEF q
<1> QED
  BY <1>1, <1>2, RevokeRefines

LEMMA RevokeAllRefines ==
  ASSUME IInv, IInv', NEW c \in Calls, RevokeAllForUser(c)
  PROVE  \E k \in Tokens : Promise!EndFamily(k)
<1> DEFINE k == call[c].presented
           q == [call[c] EXCEPT !.pc = "done", !.outcome = "reused", !.at = now]
<1>1. /\ call' = [call EXCEPT ![c] = q] /\ UNCHANGED held
      /\ FamilyRevoked(k)
  BY DEF RevokeAllForUser, FamilyRevoked, IInv, Tables, RowsTyped
<1>2. /\ q.refreshRecordId = call[c].refreshRecordId /\ q.presented = call[c].presented
      /\ k \in Tokens /\ k \in held /\ token[k] # NULL /\ ~ IsLive(token[k]) /\ Tables
  BY CallTypes DEF Call, CallFacts, Progress, RetiredInTime, RevokeAllForUser
<1> HIDE DEF k, q
<1>3. /\ RowsEvolve /\ \A j \in Tokens : token[j] = NULL => token'[j] = NULL
      /\ \A j \in Tokens : token'[j] # NULL /\ token'[j].userId = token[k].userId
                             => ~ IsLive(token'[j])
  BY <1>1, <1>2, FamilyRows
<1>4. Sessions' = [j \in Tokens |->
        IF token[j] = NULL THEN Sessions[j] ELSE [Sessions[j] EXCEPT !.live = IsLive(token'[j])]]
  BY <1>1, <1>2, <1>3, CallsKept, SessionsKept
<1>5. /\ Sessions[k] # NULL /\ Sessions[k].owner = token[k].userId
      /\ Sessions[k].live = IsLive(token[k])
  BY <1>2, SessionFacts
<1>6. ASSUME NEW j \in Tokens
      PROVE  (IF token[j] = NULL THEN Sessions[j]
              ELSE [Sessions[j] EXCEPT !.live = IsLive(token'[j])])
             = IF Promise!Live(j) /\ Sessions[j].owner = Sessions[k].owner
                 THEN [Sessions[j] EXCEPT !.live = FALSE] ELSE Sessions[j]
  <2>1. CASE token[j] = NULL
    BY <2>1, SessionFacts DEF Promise!Live
  <2>2. CASE token[j] # NULL
    <3>1. /\ Sessions[j] \in Session /\ Sessions[j] # NULL /\ Sessions[j].owner = token[j].userId
          /\ Sessions[j].live = IsLive(token[j])
          /\ token'[j] # NULL /\ token'[j].userId = token[j].userId
      BY <1>3, <2>2, SessionFacts DEF RowsEvolve
    <3>2. CASE IsLive(token[j]) /\ token[j].userId = token[k].userId
      <4>1. IsLive(token'[j]) = FALSE
        BY <1>3, <3>1, <3>2 DEF IsLive
      <4> QED
        BY <1>5, <2>2, <3>1, <3>2, <4>1 DEF Promise!Live
    <3>3. CASE ~ (IsLive(token[j]) /\ token[j].userId = token[k].userId)
      <4>1. token'[j] = token[j]
        BY <1>1, <3>3 DEF Family, FamilyRevoked
      <4>2. [Sessions[j] EXCEPT !.live = IsLive(token'[j])] = Sessions[j]
        BY <3>1, <4>1, SessionShape
      <4> QED
        BY <1>5, <2>2, <3>1, <3>3, <4>2 DEF Promise!Live
    <3> QED
      BY <3>2, <3>3
  <2> QED
    BY <2>1, <2>2
<1>7. Promise!EndFamily(k)
  BY <1>1, <1>2, <1>4, <1>5, <1>6 DEF Promise!EndFamily, Promise!Retired
<1> QED
  BY <1>2, <1>7

LEMMA ReplyRefines ==
  ASSUME IInv, IInv', NEW c \in Calls, Reply(c)
  PROVE  \E k \in Tokens : Promise!Deliver(k)
<1> DEFINE k == call[c].refreshRecordId
           q == [call[c] EXCEPT !.pc = "done"]
<1>1. /\ call[c].pc = "reply" /\ call' = [call EXCEPT ![c] = q]
      /\ held' = held \cup {k} /\ UNCHANGED <<token, retired>>
  BY DEF Reply, IInv, Tables, RowsTyped
<1>2. /\ q.refreshRecordId = k /\ q.presented = call[c].presented
      /\ k \in Tokens /\ k # NULL /\ token[k] # NULL
  BY <1>1, CallTypes, ConstantFacts DEF Call, CallFacts, Progress, Owned
<1>3. IssuerOf(k) = c
  BY <1>2, IssuerIs DEF IInv
<1>4. Sessions[k] # NULL /\ Sessions[k].parent = call[c].presented
  BY <1>2, <1>3, SessionFacts
<1>5. call[c].presented # NULL =>
        /\ call[c].presented \in Tokens /\ token[call[c].presented] # NULL
        /\ ~ IsLive(token[call[c].presented])
  BY <1>1, CallTypes DEF CallFacts, Progress, RetiredInTime
<1>6. call[c].presented # NULL => Promise!Retired(call[c].presented)
  BY <1>5, SessionFacts DEF Promise!Retired
<1>7. UNCHANGED Sessions
  BY <1>1, <1>2, CallsKept, SessionsUnchanged
<1> HIDE DEF k, q
<1>8. Promise!Deliver(k)
  BY <1>1, <1>4, <1>6, <1>7 DEF Promise!Deliver
<1> QED
  BY <1>2, <1>8

LEMMA IssueRefines ==
  ASSUME IInv, IInv', NEW c \in Calls, Issue(c)
  PROVE  UNCHANGED Promise!vars
<1> DEFINE q == [call[c] EXCEPT !.pc = "create", !.expiresAt = now + TTL]
<1>1. call' = [call EXCEPT ![c] = q] /\ UNCHANGED <<token, held, retired>>
  BY DEF Issue, IInv, Tables, RowsTyped
<1>2. q.refreshRecordId = call[c].refreshRecordId /\ q.presented = call[c].presented
  BY CallTypes DEF Call
<1> HIDE DEF q
<1> QED
  BY <1>1, <1>2, CallsKept, SessionsUnchanged DEF Promise!vars

LEMMA CreateRefines ==
  ASSUME IInv, IInv', NEW c \in Calls, NEW k \in Tokens, Create(c, k)
  PROVE  (\E u \in Users : Promise!Open(k, u)) \/ (\E p \in Tokens : Promise!Succeed(k, p))
<1> DEFINE q == [call[c] EXCEPT !.pc = AfterIssue(call[c].kind), !.refreshRecordId = k,
                                !.outcome = "issued"]
           p == call[c].presented
           new == [owner |-> call[c].userId, parent |-> p, live |-> TRUE]
<1>1. /\ Tables /\ call[c] \in Call /\ CallFacts(call[c]) /\ RowsEvolve /\ k # NULL
      /\ call[c].refreshRecordId = NULL /\ token[k] = NULL /\ token'[k] = NewRow(c)
      /\ UNCHANGED held /\ NewRow(c) # NULL /\ \A j \in Tokens \ {k} : token'[j] = token[j]
  BY CreateFacts
<1>2. call[c].pc = "create" /\ call' = [call EXCEPT ![c] = q]
  BY <1>1 DEF Create, Tables, RowsTyped
<1>3. q.refreshRecordId = k /\ q.presented = p /\ call[c].userId \in Users
      /\ call[c].kind \in {"login", "refresh"}
      /\ (call[c].kind = "login" => p = NULL)
      /\ (call[c].kind = "refresh" => p \in Tokens /\ p \in held /\ token[p] # NULL
                                      /\ token[p].userId = call[c].userId)
  BY <1>1, <1>2, CallTypes DEF Call, CallFacts, Progress, Owned
<1> HIDE DEF q
<1>4. call'[c] = q /\ \A d \in Calls \ {c} : call'[d] = call[d]
  BY <1>1, <1>2 DEF Tables, RowsTyped
<1>5. \A d \in Calls : call[d].refreshRecordId # NULL =>
        call'[d].refreshRecordId = call[d].refreshRecordId /\ call'[d].presented = call[d].presented
  BY <1>1, <1>4
<1>6. SessionOf(k)' = new
  <2>1. IssuerOf(k)' = c
    BY <1>1, <1>3, <1>4, IssuerIsNext DEF IInv
  <2>2. token'[k].userId = call[c].userId /\ IsLive(token'[k]) = TRUE /\ token'[k] # NULL
    BY <1>1 DEF NewRow, IsLive
  <2> QED
    BY <1>3, <1>4, <2>1, <2>2 DEF SessionOf
<1>7. ASSUME NEW j \in Tokens, j # k PROVE SessionOf(j)' = Sessions[j]
  <2>1. token'[j] = token[j] /\ Sessions'[j] = SessionOf(j)'
    BY <1>1, <1>7 DEF Sessions
  <2>2. CASE token[j] = NULL
    <3>1. SessionOf(j)' = NULL
      BY <2>1, <2>2 DEF SessionOf
    <3> QED
      BY <2>2, <3>1, SessionFacts
  <2>3. CASE token[j] # NULL
    <3>1. Sessions[j] \in Session /\ Sessions[j].live = IsLive(token'[j])
      BY <2>1, <2>3, SessionFacts
    <3>2. Sessions'[j] = [owner |-> Sessions[j].owner, parent |-> Sessions[j].parent,
                          live |-> IsLive(token'[j])]
      BY <1>1, <1>5, <2>3, SessionsNext
    <3> QED
      BY <2>1, <3>1, <3>2, SessionShape
  <2> QED
    BY <2>2, <2>3
<1>8. Sessions' = [Sessions EXCEPT ![k] = new]
  <2> HIDE DEF new
  <2>1. Sessions' = [j \in Tokens |-> SessionOf(j)'] /\ Sessions = [j \in Tokens |-> Sessions[j]]
    BY DEF Sessions
  <2> QED
    BY <1>6, <1>7, <2>1
<1>9. Sessions[k] = NULL
  BY <1>1, SessionFacts
<1>10. CASE call[c].kind = "login"
  <2>1. Promise!Open(k, call[c].userId)
    BY <1>1, <1>3, <1>8, <1>9, <1>10 DEF Promise!Open, Promise!Create
  <2> QED
    BY <1>3, <2>1
<1>11. CASE call[c].kind = "refresh"
  <2>1. p \in Tokens /\ p \in held /\ Sessions[p] # NULL /\ Sessions[p].owner = call[c].userId
    BY <1>3, <1>11, SessionFacts
  <2> HIDE DEF p
  <2>2. Promise!Create(k, Sessions[p].owner, p)
    BY <1>1, <1>8, <1>9, <2>1 DEF Promise!Create
  <2>3. Promise!Succeed(k, p)
    BY <2>1, <2>2 DEF Promise!Succeed
  <2> QED
    BY <2>1, <2>3
<1> QED
  BY <1>3, <1>10, <1>11

LEMMA SessionNext ==
  ASSUME IInv, IInv', [Next]_vars
  PROVE  [Promise!Next]_(Promise!vars)
<1>1. ASSUME NEW c \in Calls, CallStep(c) PROVE [Promise!Next]_(Promise!vars)
  <2>1. CASE (\E u \in Users : Login(c, u)) \/ (\E k \in Tokens : ReadForRefresh(c, k))
               \/ (\E k \in Tokens : ReadForLogout(c, k)) \/ Issue(c) \/ StopCall(c)
    BY <2>1, BeginRefines, IssueRefines, StopRefines
  <2>2. CASE \E k \in Tokens : Create(c, k)
    BY <2>2, CreateRefines DEF Promise!Next
  <2>3. CASE Rotate(c) \/ RevokePresented(c)
    BY <2>3, RotateRefines, RevokePresentedRefines DEF Promise!Next
  <2>4. CASE RevokeAllForUser(c) \/ Reply(c)
    BY <2>4, RevokeAllRefines, ReplyRefines DEF Promise!Next
  <2> QED
    BY <1>1, <2>1, <2>2, <2>3, <2>4 DEF CallStep
<1>2. CASE Tick \/ UNCHANGED vars
  <2>1. UNCHANGED <<token, held, call, retired>>
    BY <1>2 DEF Tick, vars
  <2> QED
    BY <2>1, SessionsUnchanged DEF Promise!vars
<1> QED
  BY <1>1, <1>2 DEF Next

(* The calls of the auth module, interleaved and stopped in every way,      *)
(* implement the chains of SessionPromise.                                  *)
THEOREM SessionRefinement == Spec => SessionSpec
<1>1. Init => Promise!Init
  BY DEF Init, Promise!Init, Sessions, SessionOf
<1>2. IInv /\ IInv' /\ [Next]_vars => [Promise!Next]_(Promise!vars)
  BY SessionNext
<1> QED
  BY <1>1, <1>2, Inductive, PTL DEF Spec, SessionSpec, Promise!Spec
=============================================================================
