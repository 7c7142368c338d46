---------------------------- MODULE TicketQueries ---------------------------
(***************************************************************************)
(* The queries of GetTicketsUseCase, next to the people and workers who    *)
(* change the tickets meanwhile.                                           *)
(*                                                                         *)
(* A client walks through the list page by page: the API gives it limit    *)
(* and offset and nothing else, so the client asks for offset 0, limit,    *)
(* 2*limit and so on until a page is short.  Each page is a query of its   *)
(* own on the table as it is then.  The order is createdAt, descending,    *)
(* and the database may order equal instants differently each time.        *)
(*                                                                         *)
(* No code sets deletedAt, so the tests of it are left out.  A definition  *)
(* whose name starts with Bad is no part of the model: it is the           *)
(* definition after it with one plausible mistake.                         *)
(***************************************************************************)
EXTENDS TicketEntity, FiniteSets

CONSTANTS
  Tickets,       \* ids of the rows that may be created
  Users,         \* the users of the system
  Plain,         \* those of them with role USER
  Readers,       \* clients that walk through the list, once each
  Statuses,      \* the statuses the tickets of the instance take
  Filters,       \* the filters and limits a client may give
  DefaultLimit,  \* 50 in the source
  MaxTime,       \* bound of the clock
  MaxChanges     \* bound on the changes of rows

ASSUME QueryAssumption ==
  /\ NULL \notin Users /\ NULL \notin TicketStatus
  /\ Plain \subseteq Users /\ Statuses \subseteq TicketStatus
  /\ DefaultLimit \in Nat \ {0} /\ MaxTime \in Nat /\ MaxChanges \in Nat

VARIABLES
  now,      \* the clock
  ticket,   \* the Ticket table: a row, or NULL before its creation
  walk,     \* the progress of each client
  changes   \* changes of rows so far

vars == <<now, ticket, walk, changes>>

-----------------------------------------------------------------------------
(* The data *)

TicketRow ==
  [createdAt : Nat, createdById : Users, assigneeId : Users \cup {NULL}, status : TicketStatus]

ASSUME NullIsNoTicketRow == NULL \notin TicketRow

(* NULL is a filter that the client leaves out.                            *)
TicketListFilter ==
  [status : TicketStatus \cup {NULL}, assigneeId : Users \cup {NULL},
   createdById : Users \cup {NULL}, limit : (Nat \ {0}) \cup {NULL}]

(* The query string has no createdById: only the use case sets it.         *)
ASSUME FilterAssumption == \A f \in Filters : f \in TicketListFilter /\ f.createdById = NULL

(* seen are the tickets listed so far, repeated those listed more than     *)
(* once, refused those that the client was told do not exist after they    *)
(* were listed.  stayed, entered and left compare the table with the       *)
(* filter since the first page: the tickets that matched all the time,     *)
(* that began to and that ceased to.                                       *)
Walk ==
  [pc : {"new", "paging", "done"}, user : Users, filter : TicketListFilter, offset : Nat,
   seen : SUBSET Tickets, repeated : SUBSET Tickets, refused : SUBSET Tickets,
   stayed : SUBSET Tickets, entered : SUBSET Tickets, left : SUBSET Tickets]

Take(filter) == IF filter.limit = NULL THEN DefaultLimit ELSE filter.limit

Matches(row, filter) ==
  /\ row # NULL
  /\ filter.status # NULL => row.status = filter.status
  /\ filter.assigneeId # NULL => row.assigneeId = filter.assigneeId
  /\ filter.createdById # NULL => row.createdById = filter.createdById

Matching(table, filter) == {t \in Tickets : Matches(table[t], filter)}

-----------------------------------------------------------------------------
(* The queries *)

BadScope(user, filter) ==
  IF user \in Plain THEN [filter EXCEPT !.assigneeId = user] ELSE filter

(* A USER lists what it created, whatever else it asks for.                *)
Scope(user, filter) ==
  IF user \in Plain THEN [filter EXCEPT !.createdById = user] ELSE filter

BadNewestFirst(t, s) == TRUE

NewestFirst(t, s) == ticket[t].createdAt >= ticket[s].createdAt

(* The sets that the first n rows of S, in the order of the query, can be. *)
Leading(S, n) ==
  {A \in SUBSET S : /\ Cardinality(A) = (IF n < Cardinality(S) THEN n ELSE Cardinality(S))
                    /\ \A t \in A, s \in S \ A : NewestFirst(t, s)}

BadSkip(offset) == IF offset = 0 THEN 0 ELSE offset - 1

Skip(offset) == offset

(* One page.                                                               *)
Pages(filter, offset) ==
  LET S == Matching(ticket, filter) IN
  UNION {{B \ A : B \in {B \in Leading(S, Skip(offset) + Take(filter)) : A \subseteq B}}
           : A \in Leading(S, Skip(offset))}

(* The client goes on with the next offset until a page is short.          *)
FetchPage(w, page) ==
  [w EXCEPT !.pc = IF Cardinality(page) < Take(w.filter) THEN "done" ELSE "paging",
            !.offset = @ + Take(w.filter),
            !.seen = @ \cup page,
            !.repeated = @ \cup (w.seen \cap page),
            !.refused = @ \ page]

(* The first page: from here on the changes of the table are followed.     *)
OpenList(r, filter) ==
  /\ walk[r].pc = "new"
  /\ LET scoped == Scope(walk[r].user, filter)
         start == [walk[r] EXCEPT !.filter = scoped, !.stayed = Matching(ticket, scoped)] IN
     \E page \in Pages(scoped, 0) : walk' = [walk EXCEPT ![r] = FetchPage(start, page)]
  /\ UNCHANGED <<now, ticket, changes>>

NextPage(r) ==
  /\ walk[r].pc = "paging"
  /\ \E page \in Pages(walk[r].filter, walk[r].offset) :
       walk' = [walk EXCEPT ![r] = FetchPage(walk[r], page)]
  /\ UNCHANGED <<now, ticket, changes>>

Readable(user, row) ==
  user \in Plain => row.createdById = user \/ row.assigneeId = user

(* getById of a ticket the client has in its list.                         *)
OpenTicket(r, t) ==
  /\ t \in walk[r].seen
  /\ walk' = [walk EXCEPT ![r].refused =
       IF Readable(walk[r].user, ticket[t]) THEN @ ELSE @ \cup {t}]
  /\ UNCHANGED <<now, ticket, changes>>

-----------------------------------------------------------------------------
(* The changes *)

Track(w, before, after) ==
  IF w.pc # "paging" THEN w
  ELSE LET old == Matching(before, w.filter)
           new == Matching(after, w.filter) IN
       [w EXCEPT !.stayed = @ \cap new, !.entered = @ \cup (new \ old),
                 !.left = @ \cup (old \ new)]

Change(t, row) ==
  /\ changes < MaxChanges
  /\ changes' = changes + 1
  /\ ticket' = [ticket EXCEPT ![t] = row]
  /\ walk' = [r \in Readers |-> Track(walk[r], ticket, [ticket EXCEPT ![t] = row])]
  /\ UNCHANGED now

BadCreatedRow(user, assignee) ==
  [createdAt |-> now, createdById |-> user, assigneeId |-> assignee, status |-> NULL]

CreatedRow(user, assignee) ==
  [createdAt |-> now, createdById |-> user, assigneeId |-> assignee, status |-> "OPEN"]

CreateTicket(t, user, assignee) ==
  /\ ticket[t] = NULL
  /\ Change(t, CreatedRow(user, assignee))

(* The update of an assignment, by hand or automatic.                      *)
Reassign(t, assignee) ==
  /\ ticket[t] # NULL
  /\ Change(t, [ticket[t] EXCEPT !.assigneeId = assignee])

(* The update of a change of status.  The transition was checked on an     *)
(* earlier read, so the row may hold any status by now.                    *)
ChangeStatus(t, status) ==
  /\ ticket[t] # NULL
  /\ Change(t, [ticket[t] EXCEPT !.status = status])

Tick ==
  /\ now < MaxTime
  /\ now' = now + 1
  /\ UNCHANGED <<ticket, walk, changes>>

-----------------------------------------------------------------------------

NoFilter == [status |-> NULL, assigneeId |-> NULL, createdById |-> NULL, limit |-> NULL]

Init ==
  /\ now = 0 /\ changes = 0
  /\ ticket = [t \in Tickets |-> NULL]
  /\ walk \in [Readers -> {[pc |-> "new", user |-> u, filter |-> NoFilter, offset |-> 0,
                            seen |-> {}, repeated |-> {}, refused |-> {}, stayed |-> {},
                            entered |-> {}, left |-> {}] : u \in Users}]

Query(r) ==
  \/ \E filter \in Filters : OpenList(r, filter)
  \/ NextPage(r)
  \/ \E t \in Tickets : OpenTicket(r, t)

Write(t) ==
  \/ \E user \in Users, assignee \in Users \cup {NULL} : CreateTicket(t, user, assignee)
  \/ \E assignee \in Users : Reassign(t, assignee)
  \/ \E status \in Statuses : ChangeStatus(t, status)

Next == (\E r \in Readers : Query(r)) \/ (\E t \in Tickets : Write(t)) \/ Tick

Spec == Init /\ [][Next]_vars

-----------------------------------------------------------------------------
(* The properties *)

(* The table and the walks are well formed, and only rows that exist were  *)
(* listed.                                                                 *)
TypeOK ==
  /\ now \in Nat /\ changes \in Nat
  /\ ticket \in [Tickets -> TicketRow \cup {NULL}]
  /\ walk \in [Readers -> Walk]
  /\ \A r \in Readers : \A t \in walk[r].seen : ticket[t] # NULL

(* No other ticket was created at the very instant of t.                   *)
Alone(t) ==
  \A s \in Tickets \ {t} : ticket[s] # NULL => ticket[s].createdAt # ticket[t].createdAt

(* A walk to the end misses no ticket, in spite of all that others create, *)
(* assign and resolve between two pages (ticket.prisma.repository.ts:72-74 *)
(* counts the offset anew for each): a ticket that matched all the time    *)
(* was listed, if none left the list meanwhile and its instant is its own. *)
PagesComplete ==
  \A r \in Readers :
    (walk[r].pc = "done" /\ walk[r].left = {})
      => \A t \in walk[r].stayed : Alone(t) => t \in walk[r].seen

(* A walk lists a ticket twice only where another came in above it, or the *)
(* order of equal instants is open.                                        *)
RepeatsExplained ==
  \A r \in Readers : \A t \in walk[r].repeated :
    Alone(t) => \E s \in walk[r].entered :
                  s = t \/ ticket[s].createdAt > ticket[t].createdAt

(* What the list shows a client, it may also open, then and later: the two *)
(* rules of visibility (get-tickets.usecase.ts:17-19 and 28-32) never make *)
(* a listed ticket unknown, whoever it is assigned to meanwhile.           *)
ListedIsReadable == \A r \in Readers : walk[r].refused = {}
=============================================================================
