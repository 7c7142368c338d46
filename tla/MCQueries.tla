------------------------------ MODULE MCQueries -----------------------------
(* One client that walks in pages of one or two, and the tickets of two     *)
(* users who change meanwhile, for TLC.                                     *)
EXTENDS TicketQueries, TLC

CONSTANT Assigned

TicketSymmetry == Permutations(Tickets)

Filter(status, assignee, limit) ==
  [status |-> status, assigneeId |-> assignee, createdById |-> NULL, limit |-> limit]

MCFilters ==
  {Filter(NULL, NULL, NULL), Filter(NULL, NULL, 1), Filter("OPEN", NULL, 1),
   Filter("OPEN", NULL, NULL), Filter(NULL, Assigned, 1), Filter("RESOLVED", Assigned, 1)}
=============================================================================
