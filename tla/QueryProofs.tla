----------------------------- MODULE QueryProofs ----------------------------
(***************************************************************************)
(* Proofs about TicketQueries, for any number of tickets, users, readers   *)
(* and filters: its types, that a client may open what it was listed, that *)
(* its offsets skip no ticket, and what makes a list repeat one.           *)
(***************************************************************************)
EXTENDS TicketQueries, FiniteSetTheorems, TLAPS

(* A walk under way has the filter of its user, and what it listed was     *)
(* created by a USER who walks; rows do not change who created them.       *)
Listed(w) ==
  /\ w.refused = {}
  /\ (w.pc # "new" /\ w.user \in Plain) => w.filter.createdById = w.user
  /\ w.pc = "new" => w.seen = {} /\ w.offset = 0
  /\ \A t \in w.seen : /\ ticket[t] # NULL
                       /\ w.user \in Plain => ticket[t].createdById = w.user

Tables ==
  /\ now \in Nat /\ changes \in Nat
  /\ ticket \in [Tickets -> TicketRow \cup {NULL}]
  /\ walk \in [Readers -> Walk]

IInv == Tables /\ \A r \in Readers : Listed(walk[r])

-----------------------------------------------------------------------------
LEMMA ConstantFacts ==
  /\ NULL \notin Users /\ NULL \notin TicketStatus /\ NULL \notin TicketRow
  /\ Plain \subseteq Users /\ Statuses \subseteq TicketStatus /\ DefaultLimit \in Nat \ {0}
  /\ \A f \in Filters : f \in TicketListFilter
BY QueryAssumption, NullIsNoTicketRow, FilterAssumption

(* A page holds rows that match its filter.                                *)
LEMMA PageMatches ==
  ASSUME NEW filter, NEW offset, NEW page \in Pages(filter, offset)
  PROVE  /\ page \subseteq Tickets
         /\ \A t \in page : Matches(ticket[t], filter)
<1> DEFINE S == Matching(ticket, filter)
<1>1. PICK A, B : A \in Leading(S, Skip(offset)) /\ page = B \ A
                  /\ B \in Leading(S, Skip(offset) + Take(filter))
  BY DEF Pages
<1>2. page \subseteq S
  <2> HIDE DEF S
  <2> QED BY <1>1 DEF Leading
<1> QED
  BY <1>2 DEF Matching

LEMMA TakeType ==
  ASSUME NEW filter \in TicketListFilter
  PROVE  Take(filter) \in Nat
BY ConstantFacts DEF Take, TicketListFilter

LEMMA ScopeFacts ==
  ASSUME NEW user \in Users, NEW filter \in TicketListFilter
  PROVE  /\ Scope(user, filter) \in TicketListFilter
         /\ user \in Plain => Scope(user, filter).createdById = user
BY DEF Scope, TicketListFilter

(* A page that is fetched keeps the walk well formed and its listing right. *)
LEMMA FetchFacts ==
  ASSUME Tables, NEW w \in Walk, NEW page \in Pages(w.filter, w.offset),
         \/ w.pc = "paging" /\ Listed(w)
         \/ w.seen = {} /\ w.refused = {} /\ (w.user \in Plain => w.filter.createdById = w.user)
  PROVE  FetchPage(w, page) \in Walk /\ Listed(FetchPage(w, page))
<1>1. /\ page \subseteq Tickets
      /\ \A t \in page : /\ ticket[t] # NULL
                         /\ w.filter.createdById # NULL
                              => ticket[t].createdById = w.filter.createdById
  BY PageMatches DEF Matches
<1>2. w.filter \in TicketListFilter /\ w.offset \in Nat /\ w.user \in Users
      /\ w.seen \subseteq Tickets /\ w.repeated \subseteq Tickets /\ w.refused = {}
  BY DEF Walk, Listed
<1>3. w.offset + Take(w.filter) \in Nat
  BY <1>2, TakeType
<1> DEFINE x == FetchPage(w, page)
<1>4. /\ x.pc \in {"paging", "done"} /\ x.user = w.user /\ x.filter = w.filter
      /\ x.seen = w.seen \cup page /\ x.refused = {}
  BY <1>2 DEF FetchPage, Walk
<1>5. x \in Walk
  BY <1>1, <1>2, <1>3 DEF FetchPage, Walk
<1> HIDE DEF x
<1>6. (w.user \in Plain => w.filter.createdById = w.user /\ w.user # NULL)
      /\ \A t \in w.seen : /\ ticket[t] # NULL
                           /\ w.user \in Plain => ticket[t].createdById = w.user
  BY <1>2, ConstantFacts DEF Listed
<1>7. Listed(x)
  BY <1>1, <1>4, <1>6 DEF Listed
<1> QED
  BY <1>5, <1>7 DEF x

(* A step of one walk.                                                     *)
LEMMA WalkUpdate ==
  ASSUME IInv, NEW r \in Readers, NEW w \in Walk, Listed(w),
         walk' = [walk EXCEPT ![r] = w], UNCHANGED <<now, ticket, changes>>
  PROVE  IInv'
<1>1. Tables' /\ \A s \in Readers : walk'[s] = IF s = r THEN w ELSE walk[s]
  BY DEF IInv, Tables
<1>2. \A s \in Readers : Listed(walk'[s])
  BY <1>1 DEF IInv
<1>3. \A s \in Readers : Listed(walk[s])'
  BY <1>2 DEF Listed
<1> QED
  BY <1>1, <1>3 DEF IInv

LEMMA OpenListInv ==
  ASSUME IInv, NEW r \in Readers, NEW filter \in Filters, OpenList(r, filter)
  PROVE  IInv'
<1> DEFINE scoped == Scope(walk[r].user, filter)
           start == [walk[r] EXCEPT !.filter = scoped, !.stayed = Matching(ticket, scoped)]
<1>1. walk[r] \in Walk /\ walk[r].pc = "new" /\ Listed(walk[r]) /\ Tables
  BY DEF OpenList, IInv, Tables
<1>2. scoped \in TicketListFilter /\ (walk[r].user \in Plain => scoped.createdById = walk[r].user)
  BY <1>1, ScopeFacts, ConstantFacts DEF Walk
<1>3. PICK page \in Pages(scoped, 0) : walk' = [walk EXCEPT ![r] = FetchPage(start, page)]
  BY DEF OpenList
<1> HIDE DEF scoped
<1>4. /\ start \in Walk /\ start.filter = scoped /\ start.offset = 0
      /\ start.user = walk[r].user /\ start.seen = {} /\ start.refused = {}
  BY <1>1, <1>2 DEF Walk, Listed, Matching
<1> HIDE DEF start
<1>5. FetchPage(start, page) \in Walk /\ Listed(FetchPage(start, page))
  BY <1>1, <1>2, <1>4, FetchFacts
<1> QED
  BY <1>3, <1>5, WalkUpdate DEF OpenList

LEMMA NextPageInv ==
  ASSUME IInv, NEW r \in Readers, NextPage(r)
  PROVE  IInv'
<1>1. walk[r] \in Walk /\ walk[r].pc = "paging" /\ Listed(walk[r]) /\ Tables
  BY DEF NextPage, IInv, Tables
<1>2. PICK page \in Pages(walk[r].filter, walk[r].offset) :
        walk' = [walk EXCEPT ![r] = FetchPage(walk[r], page)]
  BY DEF NextPage
<1>3. FetchPage(walk[r], page) \in Walk /\ Listed(FetchPage(walk[r], page))
  BY <1>1, FetchFacts
<1> QED
  BY <1>2, <1>3, WalkUpdate DEF NextPage

LEMMA OpenTicketInv ==
  ASSUME IInv, NEW r \in Readers, NEW t \in Tickets, OpenTicket(r, t)
  PROVE  IInv'
<1>1. walk[r] \in Walk /\ Listed(walk[r]) /\ t \in walk[r].seen
  BY DEF OpenTicket, IInv, Tables
<1>2. Readable(walk[r].user, ticket[t])
  BY <1>1 DEF Listed, Readable
<1>3. walk' = [walk EXCEPT ![r] = [walk[r] EXCEPT !.refused = walk[r].refused]]
  BY <1>2 DEF OpenTicket
<1>4. [walk[r] EXCEPT !.refused = walk[r].refused] = walk[r]
  BY <1>1 DEF Walk
<1> QED
  BY <1>1, <1>3, <1>4, WalkUpdate DEF OpenTicket

(* A change of a row that keeps who created it.                            *)
LEMMA ChangeInv ==
  ASSUME IInv, NEW t \in Tickets, NEW row \in TicketRow, Change(t, row),
         ticket[t] # NULL => row.createdById = ticket[t].createdById
  PROVE  IInv'
<1>1. Tables /\ changes' \in Nat /\ UNCHANGED now /\ row # NULL
  BY ConstantFacts DEF Change, IInv, Tables
<1>2. /\ ticket' \in [Tickets -> TicketRow \cup {NULL}]
      /\ \A s \in Tickets : ticket[s] # NULL =>
           ticket'[s] # NULL /\ ticket'[s].createdById = ticket[s].createdById
  BY <1>1 DEF Change, Tables
<1>3. ASSUME NEW r \in Readers
      PROVE  /\ walk'[r] \in Walk /\ walk'[r].pc = walk[r].pc /\ walk'[r].user = walk[r].user
             /\ walk'[r].filter = walk[r].filter /\ walk'[r].offset = walk[r].offset
             /\ walk'[r].seen = walk[r].seen /\ walk'[r].refused = walk[r].refused
  <2>1. walk[r] \in Walk /\ walk'[r] = Track(walk[r], ticket, [ticket EXCEPT ![t] = row])
    BY <1>1 DEF Change, Tables
  <2>2. \A table, filter : Matching(table, filter) \subseteq Tickets
    BY DEF Matching
  <2>3. CASE walk[r].pc # "paging"
    BY <2>1, <2>3 DEF Track
  <2>4. CASE walk[r].pc = "paging"
    <3>1. PICK old \in SUBSET Tickets, new \in SUBSET Tickets :
            walk'[r] = [walk[r] EXCEPT !.stayed = @ \cap new, !.entered = @ \cup (new \ old),
                                       !.left = @ \cup (old \ new)]
      BY <2>1, <2>2, <2>4 DEF Track
    <3>2. /\ walk[r].stayed \cap new \in SUBSET Tickets
          /\ walk[r].entered \cup (new \ old) \in SUBSET Tickets
          /\ walk[r].left \cup (old \ new) \in SUBSET Tickets
      BY <2>1, <3>1 DEF Walk
    <3> QED
      BY <2>1, <3>1, <3>2 DEF Walk
  <2> QED
    BY <2>3, <2>4
<1>4. Tables'
  <2>1. walk' = [r \in Readers |-> walk'[r]]
    BY DEF Change
  <2> QED
    BY <1>1, <1>2, <1>3, <2>1 DEF Tables
<1>5. ASSUME NEW r \in Readers PROVE Listed(walk[r])'
  <2>1. Listed(walk[r]) /\ walk[r].seen \subseteq Tickets
    BY <1>1 DEF IInv, Tables, Walk
  <2> QED
    BY <1>2, <1>3, <2>1 DEF Listed
<1> QED
  BY <1>4, <1>5 DEF IInv

LEMMA WriteInv ==
  ASSUME IInv, NEW t \in Tickets, Write(t)
  PROVE  IInv'
<1>1. ticket[t] # NULL => ticket[t] \in TicketRow
  BY DEF IInv, Tables
<1>2. ASSUME NEW user \in Users, NEW assignee \in Users \cup {NULL},
             CreateTicket(t, user, assignee)
      PROVE  IInv'
  <2>1. CreatedRow(user, assignee) \in TicketRow
    BY DEF CreatedRow, TicketRow, IInv, Tables, TicketStatus, ActiveStatus
  <2> QED
    BY <1>2, <2>1, ChangeInv DEF CreateTicket
<1>3. ASSUME NEW assignee \in Users, Reassign(t, assignee)
      PROVE  IInv'
  <2> DEFINE row == [ticket[t] EXCEPT !.assigneeId = assignee]
  <2>1. row \in TicketRow /\ row.createdById = ticket[t].createdById /\ Change(t, row)
    BY <1>1, <1>3 DEF Reassign, TicketRow
  <2> HIDE DEF row
  <2> QED
    BY <2>1, ChangeInv
<1>4. ASSUME NEW status \in Statuses, ChangeStatus(t, status)
      PROVE  IInv'
  <2> DEFINE row == [ticket[t] EXCEPT !.status = status]
  <2>1. row \in TicketRow /\ row.createdById = ticket[t].createdById /\ Change(t, row)
    BY <1>1, <1>4, ConstantFacts DEF ChangeStatus, TicketRow
  <2> HIDE DEF row
  <2> QED
    BY <2>1, ChangeInv
<1> QED
  BY <1>2, <1>3, <1>4 DEF Write

LEMMA StepInv == ASSUME IInv, [Next]_vars PROVE IInv'
<1>1. ASSUME NEW r \in Readers, Query(r) PROVE IInv'
  BY <1>1, OpenListInv, NextPageInv, OpenTicketInv DEF Query
<1>2. ASSUME NEW t \in Tickets, Write(t) PROVE IInv'
  BY <1>2, WriteInv
<1>3. CASE Tick \/ UNCHANGED vars
  <2>1. now' \in Nat /\ UNCHANGED <<ticket, walk, changes>>
    BY <1>3 DEF Tick, vars, IInv, Tables
  <2> QED
    BY <2>1 DEF IInv, Tables, Listed
<1> QED
  BY <1>1, <1>2, <1>3 DEF Next

LEMMA InitInv == ASSUME Init PROVE IInv
<1>1. NoFilter \in TicketListFilter
  BY DEF NoFilter, TicketListFilter
<1>2. Tables
  BY <1>1 DEF Init, Tables, Walk
<1>3. \A r \in Readers : Listed(walk[r])
  BY DEF Init, Listed
<1> QED
  BY <1>2, <1>3 DEF IInv

LEMMA Inductive == Spec => []IInv
<1>1. Init => IInv
  BY InitInv
<1>2. IInv /\ [Next]_vars => IInv'
  BY StepInv
<1> QED
  BY <1>1, <1>2, PTL DEF Spec

-----------------------------------------------------------------------------
(* The table and the walks stay well formed.                               *)
THEOREM QueryTypes == Spec => []TypeOK
<1>1. IInv => TypeOK
  BY DEF IInv, Tables, Listed, TypeOK
<1> QED
  BY <1>1, Inductive, PTL

(* What a list shows a client is never unknown to it afterwards.           *)
THEOREM ListedStaysReadable == Spec => []ListedIsReadable
<1>1. IInv => ListedIsReadable
  BY DEF IInv, Listed, ListedIsReadable
<1> QED
  BY <1>1, Inductive, PTL

-----------------------------------------------------------------------------
(* Offsets: the invariant *)

Existing(table) == {t \in Tickets : table[t] # NULL}

(* The rows of S that every query lists before t.                          *)
Newer(table, S, t) == {s \in S : table[s].createdAt > table[t].createdAt}

AloneIn(table, t) ==
  \A s \in Existing(table) \ {t} : table[s].createdAt # table[t].createdAt

Explained(w, table, t) ==
  \E s \in w.entered : s = t \/ table[s].createdAt > table[t].createdAt

(* The offset of a walk separates what it listed from what it did not, but *)
(* for tickets that left the list or that came in above.                   *)
MissesNone(w, table) ==
  LET S == Matching(table, w.filter) IN
  /\ w.stayed \subseteq S
  /\ w.left = {} => \A t \in w.stayed \ w.seen :
       AloneIn(table, t) => Cardinality(Newer(table, S, t)) >= w.offset

ListsOnce(w, table) ==
  LET S == Matching(table, w.filter) IN
  \A t \in w.seen \cap S :
    AloneIn(table, t) => \/ Explained(w, table, t)
                         \/ Cardinality(Newer(table, S, t)) < w.offset

Walked(w, table) ==
  /\ w.stayed \cup w.entered \cup w.seen \subseteq Existing(table)
  /\ w.repeated \subseteq w.seen
  /\ \A t \in w.repeated : AloneIn(table, t) => Explained(w, table, t)
  /\ w.pc = "paging" => MissesNone(w, table) /\ ListsOnce(w, table)
  /\ w.pc = "done" /\ w.left = {} => \A t \in w.stayed : AloneIn(table, t) => t \in w.seen

OffsetInv ==
  /\ IsFiniteSet(Existing(ticket))
  /\ \A r \in Readers : Walked(walk[r], ticket)

-----------------------------------------------------------------------------
(* Where a ticket stands in the order of the query *)

(* The number of newer rows tells whether a ticket whose instant is its    *)
(* own is among the first n, whatever the database does with the others.   *)
LEMMA LeadingPlace ==
  ASSUME NEW S \in SUBSET Existing(ticket), IsFiniteSet(S), NEW n \in Nat,
         \A s \in S : ticket[s].createdAt \in Nat,
         NEW A \in Leading(S, n), NEW t \in S, AloneIn(ticket, t)
  PROVE  t \in A <=> Cardinality(Newer(ticket, S, t)) < n
<1> DEFINE above == Newer(ticket, S, t)
<1>1. /\ A \in SUBSET S
      /\ Cardinality(A) = (IF n < Cardinality(S) THEN n ELSE Cardinality(S))
      /\ \A a \in A, s \in S \ A : ticket[a].createdAt >= ticket[s].createdAt
  BY DEF Leading, NewestFirst
<1>2. above \in SUBSET S /\ t \notin above /\ \A s \in S : s \in above <=> ticket[s].createdAt > ticket[t].createdAt
  BY DEF Newer
<1>3. \A s \in S \ {t} : ticket[s].createdAt # ticket[t].createdAt
  BY DEF AloneIn
<1> HIDE DEF above
<1>4. /\ IsFiniteSet(A) /\ IsFiniteSet(above) /\ IsFiniteSet(above \cup {t})
      /\ Cardinality(above \cup {t}) = Cardinality(above) + 1
      /\ Cardinality(S) \in Nat /\ Cardinality(A) \in Nat /\ Cardinality(above) \in Nat
  BY <1>1, <1>2, FS_Subset, FS_AddElement, FS_CardinalityType
<1>5. ASSUME t \in A PROVE Cardinality(above) < n
  <2>1. above \cup {t} \in SUBSET A
    BY <1>1, <1>2, <1>5
  <2>2. Cardinality(above \cup {t}) <= Cardinality(A)
    BY <1>4, <2>1, FS_Subset
  <2> QED
    BY <1>1, <1>4, <2>2
<1>6. ASSUME t \notin A PROVE n <= Cardinality(above)
  <2>1. A \in SUBSET above
    BY <1>1, <1>2, <1>3, <1>6
  <2>2. Cardinality(A) <= Cardinality(above)
    BY <1>4, <2>1, FS_Subset
  <2>3. A # S
    BY <1>6
  <2>4. Cardinality(S) # Cardinality(A)
    BY <1>1, <2>3, FS_Subset
  <2> QED
    BY <1>1, <1>4, <2>2, <2>4
<1> QED
  BY <1>4, <1>5, <1>6 DEF above

LEMMA MatchingRows ==
  ASSUME Tables, IsFiniteSet(Existing(ticket)), NEW filter
  PROVE  LET S == Matching(ticket, filter) IN
         /\ S \in SUBSET Existing(ticket) /\ IsFiniteSet(S) /\ Cardinality(S) \in Nat
         /\ \A s \in S : ticket[s].createdAt \in Nat
<1> DEFINE S == Matching(ticket, filter)
<1>1. S \in SUBSET Existing(ticket)
  BY DEF Matching, Matches, Existing
<1>2. \A s \in S : ticket[s].createdAt \in Nat
  BY <1>1 DEF Existing, Tables, TicketRow
<1> HIDE DEF S
<1>3. IsFiniteSet(S) /\ Cardinality(S) \in Nat
  BY <1>1, FS_Subset, FS_CardinalityType
<1> QED
  BY <1>1, <1>2, <1>3 DEF S

(* A page lists the ticket exactly if offset separates it from the rows    *)
(* listed before, and is full if there are rows enough.                    *)
LEMMA PagePlace ==
  ASSUME Tables, IsFiniteSet(Existing(ticket)), NEW filter \in TicketListFilter,
         NEW offset \in Nat, NEW page \in Pages(filter, offset)
  PROVE  LET S == Matching(ticket, filter) IN
         /\ \A t \in S : AloneIn(ticket, t) =>
              (t \in page <=> /\ offset <= Cardinality(Newer(ticket, S, t))
                              /\ Cardinality(Newer(ticket, S, t)) < offset + Take(filter))
         /\ offset + Take(filter) <= Cardinality(S) => Cardinality(page) = Take(filter)
<1> DEFINE S == Matching(ticket, filter)
           n == offset + Take(filter)
<1>1. n \in Nat /\ Take(filter) \in Nat
  BY TakeType
<1>2. /\ S \in SUBSET Existing(ticket) /\ IsFiniteSet(S) /\ Cardinality(S) \in Nat
      /\ \A s \in S : ticket[s].createdAt \in Nat
  BY MatchingRows
<1>3. PICK A \in Leading(S, offset), B \in Leading(S, n) : page = B \ A /\ A \subseteq B
  BY DEF Pages, Skip
<1> HIDE DEF S
<1>4. ASSUME NEW t \in S, AloneIn(ticket, t)
      PROVE  t \in page <=> /\ offset <= Cardinality(Newer(ticket, S, t))
                            /\ Cardinality(Newer(ticket, S, t)) < n
  <2>1. Newer(ticket, S, t) \in SUBSET S
    BY DEF Newer
  <2>2. Cardinality(Newer(ticket, S, t)) \in Nat
    BY <1>2, <2>1, FS_Subset, FS_CardinalityType
  <2>3. t \in A <=> Cardinality(Newer(ticket, S, t)) < offset
    BY <1>2, <1>4, LeadingPlace
  <2>4. t \in B <=> Cardinality(Newer(ticket, S, t)) < n
    <3> HIDE DEF n
    <3> QED BY <1>1, <1>2, <1>4, LeadingPlace
  <2> QED
    BY <1>3, <2>2, <2>3, <2>4
<1>5. ASSUME n <= Cardinality(S) PROVE Cardinality(page) = Take(filter)
  <2>1. A \in SUBSET S /\ B \in SUBSET S /\ Cardinality(A) = offset /\ Cardinality(B) = n
    BY <1>1, <1>2, <1>5 DEF Leading
  <2>2. IsFiniteSet(B) /\ B \cap A = A
    BY <1>2, <1>3, <2>1, FS_Subset
  <2>3. Cardinality(B \ A) = Cardinality(B) - Cardinality(B \cap A)
    BY <2>2, FS_Difference
  <2>4. Cardinality(page) = Cardinality(B) - Cardinality(A)
    BY <1>3, <2>2, <2>3, Zenon
  <2> QED
    BY <1>1, <2>1, <2>4
<1> QED
  BY <1>4, <1>5 DEF S

-----------------------------------------------------------------------------
(* A page *)

LEMMA NewerCount ==
  ASSUME NEW S, IsFiniteSet(S), NEW table, NEW t
  PROVE  Cardinality(Newer(table, S, t)) \in Nat
<1>1. Newer(table, S, t) \in SUBSET S
  BY DEF Newer
<1> QED
  BY <1>1, FS_Subset, FS_CardinalityType

LEMMA FetchWalked ==
  ASSUME Tables, IsFiniteSet(Existing(ticket)), NEW w \in Walk,
         NEW page \in Pages(w.filter, w.offset), Walked(w, ticket), MissesNone(w, ticket),
         ListsOnce(w, ticket)
  PROVE  Walked(FetchPage(w, page), ticket)
<1> DEFINE S == Matching(ticket, w.filter)
           x == FetchPage(w, page)
           k == Take(w.filter)
           place(t) == Cardinality(Newer(ticket, S, t))
<1>1. /\ w.filter \in TicketListFilter /\ w.offset \in Nat /\ k \in Nat
      /\ w.seen \subseteq Tickets /\ w.repeated \subseteq Tickets
  BY TakeType DEF Walk
<1>2. /\ x.pc = (IF Cardinality(page) < k THEN "done" ELSE "paging") /\ x.filter = w.filter
      /\ x.offset = w.offset + k /\ x.seen = w.seen \cup page
      /\ x.repeated = w.repeated \cup (w.seen \cap page)
      /\ x.stayed = w.stayed /\ x.entered = w.entered /\ x.left = w.left
  BY DEF FetchPage, Walk
<1>3. /\ S \in SUBSET Existing(ticket) /\ IsFiniteSet(S) /\ Cardinality(S) \in Nat
  BY MatchingRows
<1>4. \A t : place(t) \in Nat /\ place(t) <= Cardinality(S)
  <2>1. \A t : Newer(ticket, S, t) \in SUBSET S
    BY DEF Newer
  <2> HIDE DEF S
  <2> QED
    BY <1>3, <2>1, FS_Subset, FS_CardinalityType
<1>5. page \subseteq S
  BY PageMatches DEF Matching
<1>6. /\ \A t \in S : AloneIn(ticket, t) =>
           (t \in page <=> w.offset <= place(t) /\ place(t) < w.offset + k)
      /\ w.offset + k <= Cardinality(S) => Cardinality(page) = k
  BY <1>1, PagePlace
<1>7. /\ w.stayed \cup w.entered \cup w.seen \subseteq Existing(ticket)
      /\ w.repeated \subseteq w.seen
      /\ \A t \in w.repeated : AloneIn(ticket, t) => Explained(w, ticket, t)
      /\ w.stayed \subseteq S
      /\ w.left = {} => \A t \in w.stayed \ w.seen : AloneIn(ticket, t) => place(t) >= w.offset
      /\ \A t \in w.seen \cap S :
           AloneIn(ticket, t) => Explained(w, ticket, t) \/ place(t) < w.offset
  BY DEF Walked, MissesNone, ListsOnce
<1> HIDE DEF S, k, x, place
<1>8. \A t : Explained(x, ticket, t) <=> Explained(w, ticket, t)
  BY <1>2 DEF Explained
<1>9. \A t \in x.repeated : AloneIn(ticket, t) => Explained(x, ticket, t)
  <2> SUFFICES ASSUME NEW t \in w.seen \cap page, AloneIn(ticket, t)
               PROVE  Explained(w, ticket, t)
    BY <1>2, <1>7, <1>8
  <2>1. t \in S /\ w.offset <= place(t)
    BY <1>5, <1>6
  <2> QED
    BY <1>1, <1>4, <1>7, <2>1
<1>10. ASSUME x.left = {}, NEW t \in x.stayed \ x.seen, AloneIn(ticket, t)
       PROVE  place(t) >= x.offset
  <2>1. t \in S /\ t \notin page /\ w.offset <= place(t)
    BY <1>2, <1>7, <1>10
  <2> QED
    BY <1>1, <1>2, <1>4, <1>6, <1>10, <2>1
<1>11. ASSUME NEW t \in x.seen \cap S, AloneIn(ticket, t)
       PROVE  Explained(x, ticket, t) \/ place(t) < x.offset
  <2>1. CASE t \in page
    BY <1>1, <1>2, <1>4, <1>6, <1>11, <2>1
  <2>2. CASE t \in w.seen
    BY <1>1, <1>2, <1>4, <1>7, <1>8, <1>11, <2>2
  <2> QED
    BY <1>2, <1>11, <2>1, <2>2
<1>12. ASSUME x.pc = "done", x.left = {}, NEW t \in x.stayed, AloneIn(ticket, t)
       PROVE  t \in x.seen
  <2> SUFFICES ASSUME t \notin x.seen PROVE FALSE
    OBVIOUS
  <2>1. w.offset + k <= place(t)
    BY <1>2, <1>10, <1>12
  <2>2. Cardinality(page) = k
    BY <1>1, <1>3, <1>4, <1>6, <2>1
  <2> QED
    BY <1>1, <1>2, <1>12, <2>2
<1>13. MissesNone(x, ticket) /\ ListsOnce(x, ticket)
  BY <1>2, <1>7, <1>10, <1>11 DEF MissesNone, ListsOnce, S, place
<1>14. /\ x.stayed \cup x.entered \cup x.seen \subseteq Existing(ticket)
       /\ x.repeated \subseteq x.seen
  BY <1>2, <1>3, <1>5, <1>7
<1>15. Walked(x, ticket)
  BY <1>9, <1>12, <1>13, <1>14 DEF Walked
<1> QED
  BY <1>15 DEF x

(* A step of one walk.                                                     *)
LEMMA OneWalk ==
  ASSUME IInv, OffsetInv, NEW r \in Readers, NEW w, Walked(w, ticket),
         walk' = [walk EXCEPT ![r] = w], UNCHANGED ticket
  PROVE  OffsetInv'
<1>1. \A s \in Readers : walk'[s] = w \/ walk'[s] = walk[s]
  BY DEF IInv, Tables
<1>2. IsFiniteSet(Existing(ticket')) /\ \A s \in Readers : Walked(walk'[s], ticket')
  BY <1>1 DEF OffsetInv
<1> QED
  BY <1>2 DEF OffsetInv

LEMMA OpenListWalked ==
  ASSUME IInv, OffsetInv, NEW r \in Readers, NEW filter \in Filters, OpenList(r, filter)
  PROVE  OffsetInv'
<1> DEFINE scoped == Scope(walk[r].user, filter)
           start == [walk[r] EXCEPT !.filter = scoped, !.stayed = Matching(ticket, scoped)]
<1>1. /\ walk[r] \in Walk /\ walk[r].seen = {} /\ walk[r].offset = 0 /\ Tables
      /\ IsFiniteSet(Existing(ticket)) /\ Walked(walk[r], ticket)
  BY DEF OpenList, IInv, Tables, Listed, OffsetInv
<1>2. scoped \in TicketListFilter
  BY <1>1, ScopeFacts, ConstantFacts DEF Walk
<1>3. PICK page \in Pages(scoped, 0) : walk' = [walk EXCEPT ![r] = FetchPage(start, page)]
  BY DEF OpenList
<1> HIDE DEF scoped
<1>4. /\ start \in Walk /\ start.filter = scoped /\ start.offset = 0 /\ start.seen = {}
      /\ start.stayed = Matching(ticket, scoped) /\ start.pc = "new"
      /\ start.repeated = walk[r].repeated /\ start.entered = walk[r].entered
  <2>1. Matching(ticket, scoped) \in SUBSET Tickets
    BY DEF Matching
  <2>2. walk[r].pc = "new"
    BY DEF OpenList
  <2> QED
    BY <1>1, <1>2, <2>1, <2>2 DEF Walk
<1> HIDE DEF start
<1>5. /\ Matching(ticket, scoped) \in SUBSET Existing(ticket)
      /\ IsFiniteSet(Matching(ticket, scoped))
  BY <1>1, MatchingRows
<1>6. \A t : Cardinality(Newer(ticket, Matching(ticket, scoped), t)) >= 0
  BY <1>5, NewerCount
<1>7. MissesNone(start, ticket) /\ ListsOnce(start, ticket)
  BY <1>4, <1>6 DEF MissesNone, ListsOnce
<1>8. Walked(start, ticket)
  BY <1>1, <1>4, <1>5 DEF Walked
<1>9. Walked(FetchPage(start, page), ticket)
  BY <1>1, <1>3, <1>4, <1>7, <1>8, FetchWalked
<1> QED
  BY <1>3, <1>9, OneWalk DEF OpenList

LEMMA NextPageWalked ==
  ASSUME IInv, OffsetInv, NEW r \in Readers, NextPage(r)
  PROVE  OffsetInv'
<1>1. /\ walk[r] \in Walk /\ Tables /\ IsFiniteSet(Existing(ticket)) /\ Walked(walk[r], ticket)
      /\ MissesNone(walk[r], ticket) /\ ListsOnce(walk[r], ticket)
  BY DEF NextPage, IInv, Tables, OffsetInv, Walked
<1>2. PICK page \in Pages(walk[r].filter, walk[r].offset) :
        walk' = [walk EXCEPT ![r] = FetchPage(walk[r], page)]
  BY DEF NextPage
<1>3. Walked(FetchPage(walk[r], page), ticket)
  BY <1>1, FetchWalked
<1> QED
  BY <1>2, <1>3, OneWalk DEF NextPage

LEMMA OpenTicketWalked ==
  ASSUME IInv, OffsetInv, NEW r \in Readers, NEW t \in Tickets, OpenTicket(r, t)
  PROVE  OffsetInv'
<1>1. walk[r] \in Walk /\ Walked(walk[r], ticket)
  BY DEF IInv, Tables, OffsetInv
<1>2. PICK refused : walk' = [walk EXCEPT ![r].refused = refused]
  BY DEF OpenTicket
<1> DEFINE w == [walk[r] EXCEPT !.refused = refused]
<1>3. /\ w.pc = walk[r].pc /\ w.filter = walk[r].filter /\ w.offset = walk[r].offset
      /\ w.seen = walk[r].seen /\ w.repeated = walk[r].repeated /\ w.stayed = walk[r].stayed
      /\ w.entered = walk[r].entered /\ w.left = walk[r].left
      /\ walk' = [walk EXCEPT ![r] = w]
  BY <1>1, <1>2 DEF Walk
<1> HIDE DEF w
<1>4. Walked(w, ticket)
  BY <1>1, <1>3 DEF Walked, MissesNone, ListsOnce, Explained
<1> QED
  BY <1>3, <1>4, OneWalk DEF OpenTicket

-----------------------------------------------------------------------------
(* A change *)

(* The rows that exist keep their instants, whatever changes.              *)
LEMMA SameInstants ==
  ASSUME NEW table, NEW after, Existing(table) \subseteq Existing(after),
         \A s \in Existing(table) : after[s].createdAt = table[s].createdAt,
         NEW t \in Existing(table)
  PROVE  /\ AloneIn(after, t) => AloneIn(table, t)
         /\ \A w, x : (/\ w.entered \subseteq Existing(table)
                       /\ w.entered \subseteq x.entered
                       /\ Explained(w, table, t)) => Explained(x, after, t)
<1>1. AloneIn(after, t) => AloneIn(table, t)
  BY DEF AloneIn
<1>2. ASSUME NEW w, NEW x, w.entered \subseteq Existing(table), w.entered \subseteq x.entered,
             Explained(w, table, t)
      PROVE  Explained(x, after, t)
  BY <1>2 DEF Explained
<1> QED
  BY <1>1, <1>2

LEMMA TrackWalked ==
  ASSUME NEW table, NEW after, NEW w \in Walk, w.pc = "paging", Walked(w, table),
         Existing(table) \subseteq Existing(after), IsFiniteSet(Existing(after)),
         \A s \in Existing(table) : after[s].createdAt = table[s].createdAt
  PROVE  Walked(Track(w, table, after), after)
<1> DEFINE S == Matching(table, w.filter)
           T == Matching(after, w.filter)
           x == Track(w, table, after)
<1>1. S \in SUBSET Existing(table) /\ T \in SUBSET Existing(after)
  BY DEF Matching, Matches, Existing
<1>2. /\ x.pc = w.pc /\ x.filter = w.filter /\ x.offset = w.offset /\ x.seen = w.seen
      /\ x.repeated = w.repeated /\ x.stayed = w.stayed \cap T
      /\ x.entered = w.entered \cup (T \ S) /\ x.left = w.left \cup (S \ T)
      /\ w.offset \in Nat
  BY DEF Track, Walk
<1>3. /\ w.stayed \cup w.entered \cup w.seen \subseteq Existing(table)
      /\ w.repeated \subseteq w.seen
      /\ \A t \in w.repeated : AloneIn(table, t) => Explained(w, table, t)
      /\ w.left = {} => \A t \in w.stayed \ w.seen :
           AloneIn(table, t) => Cardinality(Newer(table, S, t)) >= w.offset
      /\ \A t \in w.seen \cap S : AloneIn(table, t) =>
           Explained(w, table, t) \/ Cardinality(Newer(table, S, t)) < w.offset
      /\ w.stayed \subseteq S
  BY DEF Walked, MissesNone, ListsOnce
<1> HIDE DEF S, T, x
<1>4. IsFiniteSet(S) /\ IsFiniteSet(T)
  <2>1. S \in SUBSET Existing(after)
    BY <1>1
  <2> QED
    BY <1>1, <2>1, FS_Subset
<1>5. \A t \in Existing(table) :
        /\ AloneIn(after, t) => AloneIn(table, t)
        /\ Explained(w, table, t) => Explained(x, after, t)
  BY <1>2, <1>3, SameInstants
<1>6. \A t \in x.repeated : AloneIn(after, t) => Explained(x, after, t)
  BY <1>2, <1>3, <1>5
<1>7. ASSUME x.left = {}, NEW t \in x.stayed \ x.seen, AloneIn(after, t)
      PROVE  Cardinality(Newer(after, T, t)) >= x.offset
  <2>1. S \subseteq T /\ w.left = {} /\ t \in S
    BY <1>2, <1>3, <1>7
  <2>2. Newer(table, S, t) \in SUBSET Newer(after, T, t)
    BY <1>1, <2>1 DEF Newer
  <2>3. Newer(after, T, t) \in SUBSET T
    BY DEF Newer
  <2>4. Cardinality(Newer(table, S, t)) <= Cardinality(Newer(after, T, t))
    BY <1>4, <2>2, <2>3, FS_Subset
  <2>5. Cardinality(Newer(table, S, t)) >= w.offset
    BY <1>1, <1>2, <1>3, <1>5, <1>7, <2>1
  <2> QED
    BY <1>2, <1>4, <2>4, <2>5, NewerCount
<1>8. ASSUME NEW t \in x.seen \cap T, AloneIn(after, t), ~ Explained(x, after, t)
      PROVE  Cardinality(Newer(after, T, t)) < x.offset
  <2>1. t \notin x.entered /\ \A s \in x.entered : ~ (after[s].createdAt > after[t].createdAt)
    BY <1>8 DEF Explained
  <2>2. t \in S /\ t \in w.seen /\ t \in Existing(table)
    BY <1>1, <1>2, <1>8, <2>1
  <2>3. Newer(after, T, t) \in SUBSET Newer(table, S, t)
    <3>1. \A s \in Newer(after, T, t) : s \in S
      BY <1>2, <2>1 DEF Newer
    <3> QED
      BY <1>1, <2>2, <3>1 DEF Newer
  <2>4. Newer(table, S, t) \in SUBSET S
    BY DEF Newer
  <2>5. Cardinality(Newer(after, T, t)) <= Cardinality(Newer(table, S, t))
    BY <1>4, <2>3, <2>4, FS_Subset
  <2>6. Cardinality(Newer(table, S, t)) < w.offset
    BY <1>3, <1>5, <1>8, <2>2
  <2> QED
    BY <1>2, <1>4, <2>5, <2>6, NewerCount
<1>9. MissesNone(x, after) /\ ListsOnce(x, after)
  <2>1. x.stayed \subseteq T /\ T = Matching(after, x.filter)
    BY <1>2 DEF T
  <2> QED
    BY <1>7, <1>8, <2>1 DEF MissesNone, ListsOnce
<1>10. /\ x.stayed \cup x.entered \cup x.seen \subseteq Existing(after)
       /\ x.repeated \subseteq x.seen
  BY <1>1, <1>2, <1>3
<1>11. Walked(x, after)
  BY <1>2, <1>6, <1>9, <1>10 DEF Walked
<1> QED
  BY <1>11 DEF x

(* A walk that has not begun or is over notices no change.                 *)
LEMMA RestWalked ==
  ASSUME NEW table, NEW after, NEW w, w.pc # "paging", Walked(w, table),
         Existing(table) \subseteq Existing(after),
         \A s \in Existing(table) : after[s].createdAt = table[s].createdAt
  PROVE  Walked(w, after)
<1>1. \A t \in Existing(table) :
        /\ AloneIn(after, t) => AloneIn(table, t)
        /\ w.entered \subseteq Existing(table) /\ Explained(w, table, t) => Explained(w, after, t)
  BY SameInstants
<1> QED
  BY <1>1 DEF Walked

LEMMA ChangeWalked ==
  ASSUME IInv, OffsetInv, NEW t \in Tickets, NEW row \in TicketRow, Change(t, row),
         ticket[t] # NULL => row.createdAt = ticket[t].createdAt
  PROVE  OffsetInv'
<1>1. /\ ticket \in [Tickets -> TicketRow \cup {NULL}] /\ row # NULL
      /\ ticket' = [ticket EXCEPT ![t] = row]
      /\ walk' = [r \in Readers |-> Track(walk[r], ticket, ticket')]
  BY ConstantFacts DEF IInv, Tables, Change
<1>2. /\ Existing(ticket) \subseteq Existing(ticket')
      /\ Existing(ticket') \in SUBSET (Existing(ticket) \cup {t})
      /\ \A s \in Existing(ticket) : ticket'[s].createdAt = ticket[s].createdAt
  BY <1>1 DEF Existing
<1>3. IsFiniteSet(Existing(ticket'))
  <2>1. IsFiniteSet(Existing(ticket) \cup {t})
    BY FS_AddElement DEF OffsetInv
  <2> QED
    BY <1>2, <2>1, FS_Subset
<1>4. ASSUME NEW r \in Readers PROVE Walked(walk'[r], ticket')
  <2>1. walk[r] \in Walk /\ Walked(walk[r], ticket) /\ walk'[r] = Track(walk[r], ticket, ticket')
    BY <1>1 DEF IInv, Tables, OffsetInv
  <2>2. CASE walk[r].pc = "paging"
    BY <1>2, <1>3, <2>1, <2>2, TrackWalked
  <2>3. CASE walk[r].pc # "paging"
    <3>1. walk'[r] = walk[r]
      BY <2>1, <2>3 DEF Track
    <3> QED
      BY <1>2, <2>1, <2>3, <3>1, RestWalked
  <2> QED
    BY <2>2, <2>3
<1> QED
  BY <1>3, <1>4 DEF OffsetInv

LEMMA WriteWalked ==
  ASSUME IInv, OffsetInv, NEW t \in Tickets, Write(t)
  PROVE  OffsetInv'
<1>1. ticket[t] # NULL => ticket[t] \in TicketRow
  BY DEF IInv, Tables
<1>2. PICK row \in TicketRow : /\ Change(t, row)
                               /\ ticket[t] # NULL => row.createdAt = ticket[t].createdAt
  <2>1. ASSUME NEW user \in Users, NEW assignee \in Users \cup {NULL},
               CreateTicket(t, user, assignee)
        PROVE  CreatedRow(user, assignee) \in TicketRow
    BY DEF CreatedRow, TicketRow, IInv, Tables, TicketStatus, ActiveStatus
  <2>2. ASSUME NEW assignee \in Users, ticket[t] \in TicketRow
        PROVE  LET row == [ticket[t] EXCEPT !.assigneeId = assignee] IN
               row \in TicketRow /\ row.createdAt = ticket[t].createdAt
    BY <2>2 DEF TicketRow
  <2>3. ASSUME NEW status \in Statuses, ticket[t] \in TicketRow
        PROVE  LET row == [ticket[t] EXCEPT !.status = status] IN
               row \in TicketRow /\ row.createdAt = ticket[t].createdAt
    BY <2>3, ConstantFacts DEF TicketRow
  <2> QED
    BY <1>1, <2>1, <2>2, <2>3 DEF Write, CreateTicket, Reassign, ChangeStatus
<1> QED
  BY <1>2, ChangeWalked

LEMMA InitWalked == ASSUME Init PROVE OffsetInv
<1>1. Existing(ticket) = {}
  BY DEF Init, Existing
<1>2. \A r \in Readers : Walked(walk[r], ticket)
  BY DEF Init, Walked
<1> QED
  BY <1>1, <1>2, FS_EmptySet DEF OffsetInv

LEMMA StepWalked == ASSUME IInv, OffsetInv, [Next]_vars PROVE OffsetInv'
<1>1. ASSUME NEW r \in Readers, Query(r) PROVE OffsetInv'
  BY <1>1, OpenListWalked, NextPageWalked, OpenTicketWalked DEF Query
<1>2. ASSUME NEW t \in Tickets, Write(t) PROVE OffsetInv'
  BY <1>2, WriteWalked
<1>3. CASE Tick \/ UNCHANGED vars
  BY <1>3 DEF Tick, vars, OffsetInv
<1> QED
  BY <1>1, <1>2, <1>3 DEF Next

LEMMA OffsetsInductive == Spec => []OffsetInv
<1>1. Init => OffsetInv
  BY InitWalked
<1>2. IInv /\ OffsetInv /\ [Next]_vars => OffsetInv'
  BY StepWalked
<1> QED
  BY <1>1, <1>2, Inductive, PTL DEF Spec

LEMMA AloneThen == \A t : Alone(t) => AloneIn(ticket, t)
BY DEF Alone, AloneIn, Existing

(* A client that pages to the end saw every ticket that matched all the    *)
(* time, if none left its list and the ticket shares its instant with no   *)
(* other: the offset, counted anew for each page, never jumps over one.    *)
THEOREM PagesMissNone == Spec => []PagesComplete
<1>1. OffsetInv => PagesComplete
  BY AloneThen DEF OffsetInv, Walked, PagesComplete
<1> QED
  BY <1>1, OffsetsInductive, PTL

(* A ticket listed twice is the work of a row that came in above it.       *)
THEOREM RepeatsAreExplained == Spec => []RepeatsExplained
<1>1. OffsetInv => RepeatsExplained
  BY AloneThen DEF OffsetInv, Walked, Explained, RepeatsExplained
<1> QED
  BY <1>1, OffsetsInductive, PTL
=============================================================================
