--------------------------- MODULE WorkerProcesses --------------------------
(***************************************************************************)
(* The worker processes (src/jobs/worker.ts) and the jobs of their two     *)
(* queues: how a process starts, consumes, closes and dies, and what then  *)
(* becomes of the jobs it was running.  What a job does to the tickets is  *)
(* TicketReassignment's subject; here a handler has one effect.            *)
(*                                                                         *)
(* The queues live in Redis and outlast the processes.  Locks, stalled     *)
(* jobs, attempts and repetition are BullMQ's (external), with the options *)
(* that the source gives it.                                               *)
(*                                                                         *)
(* A definition whose name starts with Bad is no part of the model: it is  *)
(* the definition after it with one plausible mistake.                     *)
(***************************************************************************)
EXTENDS Integers, FiniteSets

CONSTANTS
  NULL,                     \* no process
  Workers,                  \* the worker processes
  Checks,                   \* jobs check-reassignment
  Notices,                  \* jobs notify
  Sweep,                    \* the repeated job
  NotificationAttempts,     \* 5 in the source
  ReassignmentConcurrency,  \* 5 in the source
  NotificationConcurrency,  \* 10 in the source
  MaxStalled,               \* maxStalledCount, 1 unless told otherwise
  MaxCrashes                \* bound on the processes that end abruptly

ASSUME WorkerAssumption ==
  /\ NULL \notin Workers
  /\ Sweep \notin Checks \cup Notices /\ Checks \cap Notices = {}
  /\ NotificationAttempts \in Nat \ {0} /\ ReassignmentConcurrency \in Nat \ {0}
  /\ NotificationConcurrency \in Nat \ {0} /\ MaxStalled \in Nat /\ MaxCrashes \in Nat

VARIABLES
  phase,      \* of each process
  scheduled,  \* the repetition of the sweep is registered in Redis
  job,        \* the jobs in Redis, with the history of each
  crashes     \* processes that ended abruptly so far

vars == <<phase, scheduled, job, crashes>>

Jobs == Checks \cup Notices \cup {Sweep}

(* A handler that lost the lock of its job and goes on all the same.       *)
LateHandler == [by : Workers, start : Nat]

(* made are the failed attempts that were followed by another, stalled the *)
(* stalls that were forgiven, starts the times a handler began the job,    *)
(* effects the times one did what the job is for.  by is NULL when the     *)
(* process that ran it is gone.                                            *)
Job ==
  [state : {"absent", "waiting", "active", "delayed", "completed", "failed"},
   by : Workers \cup {NULL}, performed : BOOLEAN, late : SUBSET LateHandler,
   made : Nat, stalled : Nat, starts : Nat, effects : Nat]

NoJob ==
  [state |-> "absent", by |-> NULL, performed |-> FALSE, late |-> {},
   made |-> 0, stalled |-> 0, starts |-> 0, effects |-> 0]

BadAttempts(j) == NotificationAttempts

(* The queue of reassignments keeps the one attempt of the library.        *)
Attempts(j) == IF j \in Notices THEN NotificationAttempts ELSE 1

(* The jobs of the queue that j is in.                                     *)
Queue(j) == IF j \in Notices THEN Notices ELSE Checks \cup {Sweep}

Concurrency(j) == IF j \in Notices THEN NotificationConcurrency ELSE ReassignmentConcurrency

Running(w) == {j \in Jobs : job[j].state = "active" /\ job[j].by = w}

LateOf(w, j) == {h \in job[j].late : h.by = w}

(* The handlers of the jobs S that process w runs.                         *)
Handlers(w, S) ==
  {<<j, job[j].starts>> : j \in Running(w) \cap S}
    \cup UNION {{<<j, h.start>> : h \in LateOf(w, j)} : j \in S}

Consuming(w) == phase[w] \in {"starting", "running"}

-----------------------------------------------------------------------------
(* The processes *)

(* Both workers consume from their construction on, before bootstrapWorker *)
(* goes on.                                                                *)
Boot(w) ==
  /\ phase[w] = "down"
  /\ phase' = [phase EXCEPT ![w] = "starting"]
  /\ UNCHANGED <<scheduled, job, crashes>>

BadRegistered == scheduled

(* queue.add with repeat: once more is no change.                          *)
Registered == TRUE

(* Then the sweep is registered and the signal handlers are installed.     *)
FinishBoot(w) ==
  /\ phase[w] = "starting"
  /\ scheduled' = Registered
  /\ phase' = [phase EXCEPT ![w] = "running"]
  /\ UNCHANGED <<job, crashes>>

Deserted(record, w) ==
  [record EXCEPT !.by = IF @ = w THEN NULL ELSE @, !.late = {h \in @ : h.by # w}]

(* The process is gone, its jobs stay active in Redis.                     *)
Crash(w) ==
  /\ crashes < MaxCrashes
  /\ crashes' = crashes + 1
  /\ phase' = [phase EXCEPT ![w] = "down"]
  /\ job' = [j \in Jobs |-> Deserted(job[j], w)]
  /\ UNCHANGED scheduled

(* Registering the sweep throws (process.exit(1)), or a signal arrives     *)
(* before there is a handler for it.                                       *)
FailBoot(w) == phase[w] = "starting" /\ Crash(w)

Kill(w) == phase[w] \in {"running", "closing"} /\ Crash(w)

(* SIGINT or SIGTERM; the workers take no more jobs.                       *)
Shutdown(w) ==
  /\ phase[w] = "running"
  /\ phase' = [phase EXCEPT ![w] = "closing"]
  /\ UNCHANGED <<scheduled, job, crashes>>

BadMayExit(w) == TRUE

(* close() of a worker waits for the handlers it runs.                     *)
MayExit(w) == Handlers(w, Jobs) = {}

Exit(w) ==
  /\ phase[w] = "closing"
  /\ MayExit(w)
  /\ phase' = [phase EXCEPT ![w] = "down"]
  /\ UNCHANGED <<scheduled, job, crashes>>

-----------------------------------------------------------------------------
(* The jobs *)

Enqueued == [NoJob EXCEPT !.state = "waiting"]

(* A request of the API or a handler of a worker publishes: a new check or *)
(* notification.                                                           *)
Enqueue(j) ==
  /\ j # Sweep
  /\ job[j].state = "absent"
  /\ job' = [job EXCEPT ![j] = Enqueued]
  /\ UNCHANGED <<phase, scheduled, crashes>>

(* The interval of the sweep has passed: the next instance of it, another  *)
(* job.  A late handler of the last one is not followed any further.       *)
Repeat ==
  /\ scheduled
  /\ job[Sweep].state \in {"absent", "completed", "failed"}
  /\ job' = [job EXCEPT ![Sweep] = Enqueued]
  /\ UNCHANGED <<phase, scheduled, crashes>>

BadServed == Checks \cup {Sweep}

(* A process has a worker for each of the two queues.                      *)
Served == Jobs

Take(w, j) ==
  /\ Consuming(w)
  /\ j \in Served
  /\ job[j].state = "waiting"
  /\ Cardinality(Handlers(w, Queue(j))) < Concurrency(j)
  /\ job' = [job EXCEPT ![j].state = "active", ![j].by = w, ![j].performed = FALSE,
                        ![j].starts = @ + 1]
  /\ UNCHANGED <<phase, scheduled, crashes>>

BadReleased(record, state) == [record EXCEPT !.state = state]

(* The process has no part in the job any more.                            *)
Released(record, state) == [record EXCEPT !.state = state, !.by = NULL]

(* The handler does its work: the commit, the notification.                *)
Perform(w, j) ==
  /\ j \in Running(w)
  /\ ~ job[j].performed
  /\ job' = [job EXCEPT ![j].performed = TRUE, ![j].effects = @ + 1]
  /\ UNCHANGED <<phase, scheduled, crashes>>

Complete(w, j) ==
  /\ j \in Running(w)
  /\ job[j].performed
  /\ job' = [job EXCEPT ![j] = Released(job[j], "completed")]
  /\ UNCHANGED <<phase, scheduled, crashes>>

BadMayThrow(j) == TRUE

(* The work is the last a handler does that can throw: what a reassignment *)
(* publishes afterwards fails without an error (event-bus.ts:37-46).  Only *)
(* a sweep works on many tickets, and may throw with some of them done.    *)
MayThrow(j) == j = Sweep \/ ~ job[j].performed

(* The handler throws: another attempt after a while, if there is one.     *)
Fail(w, j) ==
  /\ j \in Running(w)
  /\ MayThrow(j)
  /\ job' = [job EXCEPT ![j] =
       IF job[j].made + 1 < Attempts(j)
         THEN [Released(job[j], "delayed") EXCEPT !.made = job[j].made + 1]
         ELSE Released(job[j], "failed")]
  /\ UNCHANGED <<phase, scheduled, crashes>>

(* The backoff of a failed attempt has passed.                             *)
Retry(j) ==
  /\ job[j].state = "delayed"
  /\ job' = [job EXCEPT ![j].state = "waiting"]
  /\ UNCHANGED <<phase, scheduled, crashes>>

(* The handler of j, whose work is still to do, becomes a late one.        *)
Outrun(record) ==
  IF record.by = NULL \/ record.performed THEN record
  ELSE [record EXCEPT !.late = @ \cup {[by |-> record.by, start |-> record.starts]}]

(* A consuming process finds an active job without a lock: the process of  *)
(* it is gone, or too busy to renew it, and then goes on with the handler  *)
(* later.  A job that stalls too often fails.                              *)
Stall(j) ==
  /\ \E w \in Workers : Consuming(w)
  /\ job[j].state = "active"
  /\ job' = [job EXCEPT ![j] =
       IF job[j].stalled < MaxStalled
         THEN [Released(Outrun(job[j]), "waiting") EXCEPT !.stalled = job[j].stalled + 1]
         ELSE Released(Outrun(job[j]), "failed")]
  /\ UNCHANGED <<phase, scheduled, crashes>>

(* A late handler does its work, or throws.  Redis takes no report from it *)
(* and the job goes its own way.                                           *)
FinishLate(j) ==
  /\ \E h \in job[j].late, done \in {0, 1} :
       job' = [job EXCEPT ![j].late = @ \ {h}, ![j].effects = @ + done]
  /\ UNCHANGED <<phase, scheduled, crashes>>

-----------------------------------------------------------------------------

Init ==
  /\ phase = [w \in Workers |-> "down"]
  /\ scheduled = FALSE
  /\ job = [j \in Jobs |-> NoJob]
  /\ crashes = 0

Process(w) ==
  Boot(w) \/ FinishBoot(w) \/ FailBoot(w) \/ Kill(w) \/ Shutdown(w) \/ Exit(w)

Handler(w, j) == Perform(w, j) \/ Complete(w, j) \/ Fail(w, j)

Next ==
  \/ \E w \in Workers : Process(w)
  \/ \E w \in Workers, j \in Jobs : Take(w, j) \/ Handler(w, j)
  \/ \E j \in Jobs : Enqueue(j) \/ Retry(j) \/ Stall(j) \/ FinishLate(j)
  \/ Repeat

Spec == Init /\ [][Next]_vars

(* What the process of j, or without one the library, does with it next.   *)
Advance(j) ==
  \/ \E w \in Workers : Handler(w, j)
  \/ job[j].by = NULL /\ Stall(j)
  \/ Retry(j)

(* A process that has begun to start goes on with it; consuming workers    *)
(* take what waits in the order of its arrival, so that no job is passed   *)
(* over for ever (strong fairness); a handler ends, one way or the other;  *)
(* the library repeats, retries and looks for jobs whose process is gone.  *)
(* Nobody is obliged to start a process, to publish or to stop one.        *)
Fairness ==
  /\ \A w \in Workers : WF_vars(FinishBoot(w))
  /\ \A j \in Jobs : SF_vars(\E w \in Workers : Take(w, j))
  /\ \A j \in Jobs : WF_vars(Advance(j)) /\ WF_vars(FinishLate(j))
  /\ WF_vars(Repeat)

FairSpec == Spec /\ Fairness

-----------------------------------------------------------------------------
(* The properties *)

(* The processes and jobs are well formed, and only an active job has a    *)
(* process.                                                                *)
TypeOK ==
  /\ phase \in [Workers -> {"down", "starting", "running", "closing"}]
  /\ scheduled \in BOOLEAN /\ crashes \in Nat
  /\ job \in [Jobs -> Job]
  /\ \A j \in Jobs : job[j].by # NULL => job[j].state = "active"

(* A stop that nobody forces strands no job and cuts off no handler        *)
(* (worker.ts:52-61): whatever starts, closes and ends when, an active job *)
(* has a process that is up, unless one crashed, and so has a late handler.*)
StopsAreClean ==
  \A j \in Jobs :
    /\ job[j].state = "active" =>
         \/ job[j].by # NULL /\ phase[job[j].by] # "down"
         \/ job[j].by = NULL /\ crashes > 0
    /\ \A h \in job[j].late : phase[h.by] # "down"

(* What attempts: 5 of the notifications and the absence of it in the      *)
(* other queue (queue.ts:26-28, 33-35) amount to when failures, stalls and *)
(* crashes come together: a handler begins a job at most that often, and   *)
(* once more for each stall that is forgiven.                              *)
StartsBounded ==
  \A j \in Jobs :
    job[j].starts <= (IF j \in Notices THEN NotificationAttempts ELSE 1) + MaxStalled

(* A notification is sent twice, or a check executed twice, only if its    *)
(* job stalled in between: retries alone repeat nothing, and late handlers *)
(* add no more than one effect for each stall that is forgiven.            *)
DuplicatesExplained == \A j \in Jobs : job[j].effects <= 1 + job[j].stalled

Pending(j) == job[j].state \in {"waiting", "active", "delayed"}

Settled(j) == job[j].state \in {"completed", "failed"}

SomeoneConsumes == \E w \in Workers : Consuming(w)

(* No job is forgotten: as long as in the end there is always a process    *)
(* that consumes, each queued job completes or uses up its attempts.       *)
JobsSettle ==
  (<>[]SomeoneConsumes) => \A j \in Checks \cup Notices : Pending(j) ~> Settled(j)

(* The safety net stays up (reassignment.job.ts:24-25): sweeps go on       *)
(* starting for ever, across crashes and restarts, as long as in the end   *)
(* there is always a process that consumes.                                *)
SweepsKeepComing ==
  (<>[]SomeoneConsumes) => []<>(job[Sweep].state = "active")
=============================================================================
