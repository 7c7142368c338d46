---------------------------- MODULE TicketEntity ----------------------------
(***************************************************************************)
(* The pure rules of a ticket (domain/ticket.entity.ts): its statuses, the  *)
(* transitions between them, when its SLA falls due and when it is overdue. *)
(* Instants are natural numbers.  NULL stands for the null of the source:   *)
(* no assignee, no due date, no row.                                        *)
(***************************************************************************)
EXTENDS Integers

CONSTANT NULL

ASSUME NullAssumption == NULL \notin Int

ActiveStatus == {"OPEN", "IN_PROGRESS"}

TicketStatus == ActiveStatus \cup {"RESOLVED", "CLOSED"}

IsTicketActive(status) == status \in ActiveStatus

ComputeSlaDueAt(from, sla) == from + sla

IsOverdue(row, instant) ==
  /\ IsTicketActive(row.status)
  /\ row.slaDueAt # NULL
  /\ row.slaDueAt <= instant

AllowedTransitions ==
  [OPEN        |-> {"IN_PROGRESS", "RESOLVED", "CLOSED"},
   IN_PROGRESS |-> {"OPEN", "RESOLVED", "CLOSED"},
   RESOLVED    |-> {"IN_PROGRESS", "CLOSED"},
   CLOSED      |-> {}]

CanTransition(from, to) == from = to \/ to \in AllowedTransitions[from]
=============================================================================
