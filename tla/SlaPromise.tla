----------------------------- MODULE SlaPromise -----------------------------
(***************************************************************************)
(* What the tickets module promises about the rows of the Ticket table and  *)
(* their assignment history, whatever requests and workers run at once:     *)
(* reassignment is one atomic step, taken only on a ticket that is overdue  *)
(* in that very state, away from the user the row names, a bounded number   *)
(* of times, after which the ticket goes to an administrator and its clock  *)
(* stops.  People may do anything at any time; what they write carries an   *)
(* instant less than one SLA old.                                           *)
(***************************************************************************)
EXTENDS TicketEntity, FiniteSets, Sequences

(* As in TicketReassignment, which states what it assumes of them.          *)
CONSTANTS Tickets, Users, Agents, Admins, SLA, MaxAutoReassignments

VARIABLES now, ticket, history

vars == <<now, ticket, history>>

Row(status, assignee, at, due, count) ==
  [status |-> status, assigneeId |-> assignee, lastActivityAt |-> at,
   slaDueAt |-> due, autoReassignCount |-> count]

Assignment(from, to, reason) ==
  [fromUserId |-> from, toUserId |-> to, reason |-> reason]

Due(at) == ComputeSlaDueAt(at, SLA)

Init ==
  /\ now = 0
  /\ ticket \in [Tickets -> {NULL} \cup {Row("OPEN", u, 0, Due(0), 0) : u \in Users \cup {NULL}}]
  /\ history \in [Tickets -> {<<>>} \cup {<<Assignment(NULL, u, "MANUAL")>> : u \in Users}]

Tick ==
  /\ now' = now + 1
  /\ UNCHANGED <<ticket, history>>

(* A person creates the ticket or acts on it.                               *)
HumanActivity(t) ==
  /\ UNCHANGED <<now, history>>
  /\ \E at \in 0..now :
       /\ now < at + SLA
       /\ \E status \in TicketStatus, assignee \in Users \cup {NULL}, due \in {NULL, Due(at)} :
            ticket' = [ticket EXCEPT ![t] =
              Row(status, assignee, at, due,
                  IF ticket[t] = NULL THEN 0 ELSE ticket[t].autoReassignCount)]

(* The history of manual assignments is written apart from the row.         *)
RecordManual(t) ==
  /\ UNCHANGED <<now, ticket>>
  /\ \E from \in Users \cup {NULL}, to \in Users :
       history' = [history EXCEPT ![t] = Append(@, Assignment(from, to, "MANUAL"))]

Reassign(t, u, at, due, reason) ==
  /\ ticket' = [ticket EXCEPT ![t] =
       Row(ticket[t].status, u, at, due, ticket[t].autoReassignCount + 1)]
  /\ history' = [history EXCEPT ![t] =
       Append(@, Assignment(ticket[t].assigneeId, u, reason))]
  /\ UNCHANGED now

AutoReassign(t, u) ==
  /\ ticket[t] # NULL
  /\ ticket[t].autoReassignCount < MaxAutoReassignments
  /\ u # ticket[t].assigneeId
  /\ \E at \in 0..now : /\ IsOverdue(ticket[t], at)
                        /\ Reassign(t, u, at, Due(at), "AUTO_REASSIGN")

Escalate(t, u) ==
  /\ ticket[t] # NULL
  /\ ticket[t].autoReassignCount >= MaxAutoReassignments
  /\ \E at \in 0..now : /\ IsOverdue(ticket[t], at)
                        /\ Reassign(t, u, at, NULL, "ESCALATION")

Next ==
  \/ Tick
  \/ \E t \in Tickets : HumanActivity(t) \/ RecordManual(t)
  \/ \E t \in Tickets, u \in Agents : AutoReassign(t, u)
  \/ \E t \in Tickets, u \in Admins : Escalate(t, u)

Spec == Init /\ [][Next]_vars
=============================================================================
