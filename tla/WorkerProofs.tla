---------------------------- MODULE WorkerProofs ----------------------------
(***************************************************************************)
(* Proofs about WorkerProcesses, for any number of processes, jobs and     *)
(* attempts: its types, that stops strand no job, and how often a job is   *)
(* begun and done.                                                         *)
(***************************************************************************)
EXTENDS WorkerProcesses, FiniteSetTheorems, TLAPS

(* Whether the job waits for its work to be done, or done again.           *)
Open(q) ==
  IF q.state \in {"waiting", "delayed"} \/ (q.state = "active" /\ ~ q.performed)
    THEN 1 ELSE 0

Begun(q) == IF q.state \in {"active", "completed", "failed"} THEN 1 ELSE 0

(* The books of a job balance: each start but the last ended in a failed   *)
(* attempt or a stall, and each effect beyond the first, done or still to  *)
(* come from a late handler, has its stall.                                *)
Books(j, q) ==
  /\ q.by # NULL => q.state = "active"
  /\ IsFiniteSet(q.late)
  /\ q.effects + Cardinality(q.late) + Open(q) <= 1 + q.stalled
  /\ q.starts = q.made + q.stalled + Begun(q)
  /\ q.made < Attempts(j) /\ q.stalled <= MaxStalled

(* An active job has a process that is up, or lost it in a crash; a late   *)
(* handler has one.                                                        *)
Hosted(q) ==
  /\ q.state = "active" => \/ q.by # NULL /\ phase[q.by] # "down"
                           \/ q.by = NULL /\ crashes > 0
  /\ \A h \in q.late : phase[h.by] # "down"

Tables ==
  /\ phase \in [Workers -> {"down", "starting", "running", "closing"}]
  /\ scheduled \in BOOLEAN /\ crashes \in Nat
  /\ job \in [Jobs -> Job]

IInv == Tables /\ \A j \in Jobs : Books(j, job[j]) /\ Hosted(job[j])

-----------------------------------------------------------------------------
LEMMA AttemptsPositive ==
  ASSUME NEW j \in Jobs
  PROVE  /\ Attempts(j) \in Nat \ {0} /\ MaxStalled \in Nat /\ NULL \notin Workers
         /\ Attempts(j) = (IF j \in Notices THEN NotificationAttempts ELSE 1)
         /\ Attempts(Sweep) = 1
BY WorkerAssumption DEF Attempts

LEMMA IdleJob ==
  /\ NoJob \in Job /\ Enqueued \in Job
  /\ \A j \in Jobs : Books(j, NoJob) /\ Books(j, Enqueued)
  /\ Hosted(NoJob) /\ Hosted(Enqueued)
<1>1. \A q \in {NoJob, Enqueued} :
        /\ q.state \in {"absent", "waiting"} /\ q.by = NULL /\ q.performed = FALSE /\ q.late = {}
        /\ q.made = 0 /\ q.stalled = 0 /\ q.starts = 0 /\ q.effects = 0
  BY DEF NoJob, Enqueued
<1>2. NoJob \in Job /\ Enqueued \in Job
  BY DEF NoJob, Enqueued, Job, LateHandler
<1>3. IsFiniteSet({}) /\ Cardinality({}) = 0
  BY FS_EmptySet
<1>4. ASSUME NEW j \in Jobs, NEW q \in {NoJob, Enqueued} PROVE Books(j, q)
  <2>1. /\ q.by = NULL /\ q.late = {} /\ q.made = 0 /\ q.stalled = 0 /\ q.starts = 0 /\ q.effects = 0
        /\ q.state \in {"absent", "waiting"}
    BY <1>1
  <2>2. Open(q) \in {0, 1} /\ Begun(q) = 0
    BY <2>1 DEF Open, Begun
  <2>3. IsFiniteSet(q.late) /\ q.effects + Cardinality(q.late) + Open(q) <= 1 + q.stalled
    BY <1>3, <2>1, <2>2
  <2>4. q.made < Attempts(j) /\ q.stalled <= MaxStalled
    BY <2>1, AttemptsPositive
  <2> QED
    BY <2>1, <2>2, <2>3, <2>4 DEF Books
<1>5. \A q \in {NoJob, Enqueued} : Hosted(q)
  BY <1>1 DEF Hosted
<1> QED
  BY <1>2, <1>4, <1>5

(* The number of late handlers, as far as the books need it.               *)
LEMMA LateCount ==
  ASSUME NEW S, IsFiniteSet(S)
  PROVE  /\ Cardinality(S) \in Nat
         /\ \A x : /\ IsFiniteSet(S \cup {x})
                   /\ Cardinality(S \cup {x}) <= Cardinality(S) + 1
         /\ \A x \in S : /\ IsFiniteSet(S \ {x})
                        /\ Cardinality(S \ {x}) = Cardinality(S) - 1
         /\ \A T \in SUBSET S : IsFiniteSet(T) /\ Cardinality(T) <= Cardinality(S)
<1>1. Cardinality(S) \in Nat
  BY FS_CardinalityType
<1>2. \A x : /\ IsFiniteSet(S \cup {x})
            /\ Cardinality(S \cup {x}) = (IF x \in S THEN Cardinality(S) ELSE Cardinality(S) + 1)
  BY FS_AddElement
<1>3. \A x \in S : IsFiniteSet(S \ {x}) /\ Cardinality(S \ {x}) = Cardinality(S) - 1
  BY FS_RemoveElement
<1>4. \A T \in SUBSET S : IsFiniteSet(T) /\ Cardinality(T) <= Cardinality(S)
  BY FS_Subset
<1>5. ASSUME NEW x
      PROVE  IsFiniteSet(S \cup {x}) /\ Cardinality(S \cup {x}) <= Cardinality(S) + 1
  <2>1. CASE x \in S
    BY <1>1, <1>2, <2>1
  <2>2. CASE x \notin S
    BY <1>1, <1>2, <2>2
  <2> QED
    BY <2>1, <2>2
<1> QED
  BY <1>1, <1>3, <1>4, <1>5

(* A step that changes one job and no process.                             *)
LEMMA JobUpdate ==
  ASSUME IInv, NEW j \in Jobs, NEW q \in Job, job' = [job EXCEPT ![j] = q],
         Books(j, q), Hosted(q), UNCHANGED <<phase, scheduled, crashes>>
  PROVE  IInv'
<1>1. Tables' /\ \A i \in Jobs : job'[i] = IF i = j THEN q ELSE job[i]
  BY DEF IInv, Tables
<1>2. ASSUME NEW i \in Jobs PROVE Books(i, job'[i]) /\ Hosted(job'[i])
  BY <1>1 DEF IInv
<1>3. \A i \in Jobs : Hosted(job'[i]) => Hosted(job[i])'
  BY DEF Hosted
<1>4. \A i \in Jobs : Books(i, job'[i]) => Books(i, job[i])'
  BY DEF Books, Open, Begun
<1> QED
  BY <1>1, <1>2, <1>3, <1>4 DEF IInv

LEMMA NoHandlers ==
  ASSUME NEW w \in Workers, Handlers(w, Jobs) = {}, NEW j \in Jobs
  PROVE  /\ job[j].state = "active" => job[j].by # w
         /\ \A h \in job[j].late : h.by # w
<1>1. ASSUME j \in Running(w) PROVE FALSE
  <2>1. <<j, job[j].starts>> \in Handlers(w, Jobs)
    BY <1>1 DEF Handlers
  <2> QED
    BY <2>1
<1>2. ASSUME NEW h \in job[j].late, h.by = w PROVE FALSE
  <2>1. <<j, h.start>> \in {<<j, g.start>> : g \in LateOf(w, j)}
    BY <1>2 DEF LateOf
  <2>2. <<j, h.start>> \in Handlers(w, Jobs)
    BY <2>1 DEF Handlers
  <2> QED
    BY <2>2
<1> QED
  BY <1>1, <1>2 DEF Running

(* A step that changes one process and no job: it comes up, or it goes     *)
(* down without a handler.                                                 *)
LEMMA ProcessUpdate ==
  ASSUME IInv, NEW w \in Workers, NEW p \in {"down", "starting", "running", "closing"},
         phase' = [phase EXCEPT ![w] = p], p = "down" => Handlers(w, Jobs) = {},
         scheduled' \in BOOLEAN, UNCHANGED <<job, crashes>>
  PROVE  IInv'
<1>1. Tables'
  BY DEF IInv, Tables
<1>2. ASSUME NEW j \in Jobs PROVE Hosted(job[j])'
  <2>1. /\ Hosted(job[j]) /\ job[j] \in Job /\ job' = job /\ crashes' = crashes
        /\ \A v \in Workers : phase'[v] = IF v = w THEN p ELSE phase[v]
    BY DEF IInv, Tables
  <2>2. \A h \in job[j].late : h.by \in Workers
    BY <2>1 DEF Job, LateHandler
  <2>3. job[j].by # NULL => job[j].by \in Workers
    BY <2>1 DEF Job
  <2>4. CASE p = "down"
    BY <2>1, <2>2, <2>3, <2>4, NoHandlers DEF Hosted
  <2>5. CASE p # "down"
    BY <2>1, <2>2, <2>3, <2>5 DEF Hosted
  <2> QED
    BY <2>4, <2>5
<1>3. ASSUME NEW j \in Jobs PROVE Books(j, job[j])'
  BY DEF IInv, Books, Open, Begun
<1> QED
  BY <1>1, <1>2, <1>3 DEF IInv

-----------------------------------------------------------------------------
LEMMA CrashInv ==
  ASSUME IInv, NEW w \in Workers, Crash(w)
  PROVE  IInv'
<1>1. /\ crashes' > 0 /\ crashes' \in Nat /\ scheduled' = scheduled
      /\ phase' \in [Workers -> {"down", "starting", "running", "closing"}]
      /\ \A v \in Workers \ {w} : phase'[v] = phase[v]
      /\ job' = [j \in Jobs |-> Deserted(job[j], w)]
  BY DEF Crash, IInv, Tables
<1>2. ASSUME NEW j \in Jobs
      PROVE  /\ job'[j] \in Job /\ Books(j, job'[j])
             /\ job'[j].state = "active" => \/ job'[j].by = NULL
                                            \/ job'[j].by # w /\ phase[job'[j].by] # "down"
             /\ job'[j].by # NULL => job'[j].by \in Workers
             /\ \A h \in job'[j].late : h.by \in Workers \ {w} /\ phase[h.by] # "down"
  <2>1. job[j] \in Job /\ Books(j, job[j]) /\ Hosted(job[j]) /\ job'[j] = Deserted(job[j], w)
    BY <1>1 DEF IInv, Tables
  <2> DEFINE q == job[j]
             r == job'[j]
  <2>2. /\ r.state = q.state /\ r.by = (IF q.by = w THEN NULL ELSE q.by)
        /\ r.late = {h \in q.late : h.by # w} /\ r.performed = q.performed
        /\ r.made = q.made /\ r.stalled = q.stalled /\ r.starts = q.starts
        /\ r.effects = q.effects
    BY <2>1 DEF Deserted, Job
  <2>3. r \in Job
    BY <2>1 DEF Deserted, Job
  <2>4. IsFiniteSet(r.late) /\ Cardinality(r.late) <= Cardinality(q.late)
        /\ Cardinality(q.late) \in Nat /\ Cardinality(r.late) \in Nat
    <3>1. IsFiniteSet(q.late) /\ r.late \in SUBSET q.late
      BY <2>1, <2>2 DEF Books
    <3>2. IsFiniteSet(r.late) /\ Cardinality(r.late) <= Cardinality(q.late)
          /\ Cardinality(q.late) \in Nat
      BY <3>1, LateCount
    <3> QED
      BY <3>2, FS_CardinalityType
  <2>5. Open(r) = Open(q) /\ Begun(r) = Begun(q) /\ Open(q) \in {0, 1}
    BY <2>2 DEF Open, Begun
  <2>6. q.effects \in Nat /\ q.stalled \in Nat
    BY <2>1 DEF Job
  <2>7. r.effects + Cardinality(r.late) + Open(r) <= 1 + r.stalled
    BY <2>1, <2>2, <2>4, <2>5, <2>6 DEF Books
  <2>8. Books(j, r)
    BY <2>1, <2>2, <2>4, <2>5, <2>7 DEF Books
  <2>9. /\ q.by # NULL => q.by \in Workers
        /\ \A h \in q.late : h.by \in Workers
    BY <2>1 DEF Job, LateHandler
  <2> QED
    BY <2>1, <2>2, <2>3, <2>8, <2>9 DEF Hosted
<1>3. Tables'
  <2>1. job' \in [Jobs -> Job]
    BY <1>1, <1>2
  <2> QED
    BY <1>1, <2>1 DEF IInv, Tables
<1>4. ASSUME NEW j \in Jobs PROVE Books(j, job[j])'
  BY <1>2 DEF IInv, Books, Open, Begun
<1>5. ASSUME NEW j \in Jobs PROVE Hosted(job[j])'
  BY <1>1, <1>2 DEF Hosted
<1> QED
  BY <1>3, <1>4, <1>5 DEF IInv

LEMMA ProcessInv ==
  ASSUME IInv, NEW w \in Workers, Process(w)
  PROVE  IInv'
<1>1. CASE Boot(w)
  BY <1>1, ProcessUpdate DEF Boot, IInv, Tables
<1>2. CASE FinishBoot(w)
  BY <1>2, ProcessUpdate DEF FinishBoot, Registered
<1>3. CASE FailBoot(w) \/ Kill(w)
  BY <1>3, CrashInv DEF FailBoot, Kill
<1>4. CASE Shutdown(w)
  BY <1>4, ProcessUpdate DEF Shutdown, IInv, Tables
<1>5. CASE Exit(w)
  BY <1>5, ProcessUpdate DEF Exit, MayExit, IInv, Tables
<1> QED
  BY <1>1, <1>2, <1>3, <1>4, <1>5 DEF Process

(* A step that changes one job and none of its late handlers.              *)
LEMMA SameLate ==
  ASSUME IInv, NEW j \in Jobs, NEW q \in Job, job' = [job EXCEPT ![j] = q],
         q.late = job[j].late,
         q.by # NULL => q.state = "active",
         q.effects + Open(q) - q.stalled <= job[j].effects + Open(job[j]) - job[j].stalled,
         q.starts = q.made + q.stalled + Begun(q),
         q.made < Attempts(j), q.stalled <= MaxStalled,
         q.state = "active" => \/ q.by # NULL /\ phase[q.by] # "down"
                               \/ q.by = NULL /\ crashes > 0,
         UNCHANGED <<phase, scheduled, crashes>>
  PROVE  IInv'
<1>1. job[j] \in Job /\ Books(j, job[j]) /\ Hosted(job[j])
  BY DEF IInv, Tables
<1>2. IsFiniteSet(q.late) /\ Cardinality(q.late) \in Nat
  BY <1>1, LateCount DEF Books
<1>3. /\ q.effects \in Nat /\ q.stalled \in Nat
      /\ job[j].effects \in Nat /\ job[j].stalled \in Nat
      /\ Open(q) \in {0, 1} /\ Open(job[j]) \in {0, 1}
  BY <1>1 DEF Job, Open
<1>4. q.effects + Cardinality(q.late) + Open(q) <= 1 + q.stalled
  BY <1>1, <1>2, <1>3 DEF Books
<1>5. Books(j, q)
  BY <1>2, <1>4 DEF Books
<1>6. Hosted(q)
  BY <1>1 DEF Hosted
<1> QED
  BY <1>5, <1>6, JobUpdate

LEMMA TakeInv ==
  ASSUME IInv, NEW w \in Workers, NEW j \in Jobs, Take(w, j)
  PROVE  IInv'
<1>1. /\ job[j] \in Job /\ job[j].state = "waiting" /\ Books(j, job[j])
      /\ Consuming(w) /\ UNCHANGED <<phase, scheduled, crashes>>
  BY DEF Take, IInv, Tables
<1>2. PICK q \in Job :
        q = [job[j] EXCEPT !.state = "active", !.by = w, !.performed = FALSE, !.starts = @ + 1]
  <2>1. job[j].starts + 1 \in Nat
    BY <1>1 DEF Job
  <2> QED
    BY <1>1, <2>1 DEF Job
<1>3. job' = [job EXCEPT ![j] = q]
  BY <1>1, <1>2 DEF Take, IInv, Tables
<1>4. /\ q.state = "active" /\ q.by = w /\ q.performed = FALSE /\ q.starts = job[j].starts + 1
      /\ q.made = job[j].made /\ q.stalled = job[j].stalled /\ q.effects = job[j].effects
      /\ q.late = job[j].late
  BY <1>1, <1>2 DEF Job
<1>5. Open(q) = 1 /\ Open(job[j]) = 1 /\ Begun(q) = 1 /\ Begun(job[j]) = 0
  BY <1>1, <1>4 DEF Open, Begun
<1>6. /\ q.starts = q.made + q.stalled + Begun(q) /\ q.made < Attempts(j) /\ q.stalled <= MaxStalled
      /\ q.effects + Open(q) - q.stalled <= job[j].effects + Open(job[j]) - job[j].stalled
  BY <1>1, <1>4, <1>5 DEF Books, Job
<1>7. q.by # NULL /\ phase[q.by] # "down"
  BY <1>1, <1>4, AttemptsPositive DEF Consuming
<1> QED
  BY <1>1, <1>3, <1>4, <1>6, <1>7, SameLate

LEMMA PerformInv ==
  ASSUME IInv, NEW w \in Workers, NEW j \in Jobs, Perform(w, j)
  PROVE  IInv'
<1>1. /\ job[j] \in Job /\ job[j].state = "active" /\ Books(j, job[j]) /\ Hosted(job[j])
      /\ ~ job[j].performed /\ UNCHANGED <<phase, scheduled, crashes>>
  BY DEF Perform, Running, IInv, Tables
<1>2. PICK q \in Job : q = [job[j] EXCEPT !.performed = TRUE, !.effects = @ + 1]
  <2>1. job[j].effects + 1 \in Nat
    BY <1>1 DEF Job
  <2> QED
    BY <1>1, <2>1 DEF Job
<1>3. job' = [job EXCEPT ![j] = q]
  BY <1>1, <1>2 DEF Perform, IInv, Tables
<1>4. /\ q.state = "active" /\ q.by = job[j].by /\ q.performed = TRUE /\ q.starts = job[j].starts
      /\ q.made = job[j].made /\ q.stalled = job[j].stalled /\ q.effects = job[j].effects + 1
      /\ q.late = job[j].late
  BY <1>1, <1>2 DEF Job
<1>5. Open(q) = 0 /\ Open(job[j]) = 1 /\ Begun(q) = 1 /\ Begun(job[j]) = 1
  BY <1>1, <1>4 DEF Open, Begun
<1>6. /\ q.starts = q.made + q.stalled + Begun(q) /\ q.made < Attempts(j) /\ q.stalled <= MaxStalled
      /\ q.effects + Open(q) - q.stalled <= job[j].effects + Open(job[j]) - job[j].stalled
  BY <1>1, <1>4, <1>5 DEF Books, Job
<1>7. \/ q.by # NULL /\ phase[q.by] # "down"
      \/ q.by = NULL /\ crashes > 0
  BY <1>1, <1>4 DEF Hosted
<1> QED
  BY <1>1, <1>3, <1>4, <1>6, <1>7, SameLate

(* A job that comes anew.                                                  *)
LEMMA EnqueueInv ==
  ASSUME IInv, NEW j \in Jobs, job' = [job EXCEPT ![j] = Enqueued],
         UNCHANGED <<phase, scheduled, crashes>>
  PROVE  IInv'
BY IdleJob, JobUpdate

(* A job that its process gives up, with or without a further chance.      *)
LEMMA GiveUpInv ==
  ASSUME IInv, NEW j \in Jobs, NEW q \in Job, job' = [job EXCEPT ![j] = q],
         job[j].state = "active", q.by = NULL, q.late = job[j].late,
         q.starts = job[j].starts, q.effects = job[j].effects,
         q.made \in Nat, q.stalled \in Nat,
         \/ /\ q.state \in {"completed", "failed"}
            /\ q.made = job[j].made /\ q.stalled = job[j].stalled
         \/ /\ q.state = "delayed" /\ q.made = job[j].made + 1 /\ q.stalled = job[j].stalled
            /\ q.made < Attempts(j) /\ ~ job[j].performed,
         UNCHANGED <<phase, scheduled, crashes>>
  PROVE  IInv'
<1>1. job[j] \in Job /\ Books(j, job[j])
  BY DEF IInv, Tables
<1>2. /\ Begun(job[j]) = 1 /\ Open(job[j]) = (IF job[j].performed THEN 0 ELSE 1)
      /\ Begun(q) = (IF q.state = "delayed" THEN 0 ELSE 1)
      /\ Open(q) = (IF q.state = "delayed" THEN 1 ELSE 0)
  BY <1>1 DEF Begun, Open, Job
<1>3. /\ q.starts = q.made + q.stalled + Begun(q) /\ q.made < Attempts(j) /\ q.stalled <= MaxStalled
      /\ q.effects + Open(q) - q.stalled <= job[j].effects + Open(job[j]) - job[j].stalled
  BY <1>1, <1>2, AttemptsPositive DEF Books, Job
<1>4. q.state # "active"
  OBVIOUS
<1> QED
  BY <1>3, <1>4, SameLate

LEMMA ReleasedFields ==
  ASSUME NEW record \in Job, NEW state \in {"waiting", "delayed", "completed", "failed"}
  PROVE  LET q == Released(record, state) IN
         /\ q \in Job /\ q.state = state /\ q.by = NULL /\ q.late = record.late
         /\ q.made = record.made /\ q.stalled = record.stalled
         /\ q.starts = record.starts /\ q.effects = record.effects
BY DEF Released, Job

LEMMA CompleteInv ==
  ASSUME IInv, NEW w \in Workers, NEW j \in Jobs, Complete(w, j)
  PROVE  IInv'
<1>1. /\ job[j] \in Job /\ job[j].state = "active"
      /\ job' = [job EXCEPT ![j] = Released(job[j], "completed")]
      /\ job[j].made \in Nat /\ job[j].stalled \in Nat
      /\ UNCHANGED <<phase, scheduled, crashes>>
  BY DEF Complete, Running, IInv, Tables, Job
<1> QED
  BY <1>1, ReleasedFields, GiveUpInv

LEMMA FailInv ==
  ASSUME IInv, NEW w \in Workers, NEW j \in Jobs, Fail(w, j)
  PROVE  IInv'
<1>1. /\ job[j] \in Job /\ job[j].state = "active" /\ Books(j, job[j])
      /\ job[j].made \in Nat /\ job[j].stalled \in Nat
      /\ UNCHANGED <<phase, scheduled, crashes>>
  BY DEF Fail, Running, IInv, Tables, Job
<1>2. CASE job[j].made + 1 < Attempts(j)
  <2>1. PICK q \in Job : q = [Released(job[j], "delayed") EXCEPT !.made = job[j].made + 1]
    <3>1. job[j].made + 1 \in Nat
      BY <1>1 DEF Job
    <3> QED
      BY <1>1, <3>1 DEF Job, Released
  <2>2. job' = [job EXCEPT ![j] = q]
    <3>1. job' = [job EXCEPT ![j] = [Released(job[j], "delayed") EXCEPT !.made = job[j].made + 1]]
      BY <1>2 DEF Fail
    <3> QED
      BY <2>1, <3>1
  <2>3. /\ q.state = "delayed" /\ q.by = NULL /\ q.starts = job[j].starts /\ q.late = job[j].late
        /\ q.effects = job[j].effects /\ q.made = job[j].made + 1 /\ q.stalled = job[j].stalled
    BY <1>1, <2>1 DEF Job, Released
  <2>4. ~ job[j].performed
    <3>1. j # Sweep
      BY <1>1, <1>2, AttemptsPositive DEF Job
    <3> QED
      BY <3>1 DEF Fail, MayThrow
  <2>5. q.made \in Nat /\ q.stalled \in Nat
    BY DEF Job
  <2> QED
    BY <1>1, <1>2, <2>2, <2>3, <2>4, <2>5, GiveUpInv
<1>3. CASE ~ (job[j].made + 1 < Attempts(j))
  <2>1. job' = [job EXCEPT ![j] = Released(job[j], "failed")]
    BY <1>1, <1>3 DEF Fail, IInv, Tables
  <2> QED
    BY <1>1, <2>1, ReleasedFields, GiveUpInv
<1> QED
  BY <1>2, <1>3

(* What a stall makes of the late handlers: one more, if the work of the   *)
(* outrun handler is still to do.                                          *)
LEMMA OutrunFields ==
  ASSUME IInv, NEW j \in Jobs, job[j].state = "active"
  PROVE  LET q == Outrun(job[j]) IN
         /\ q \in Job
         /\ q.made = job[j].made /\ q.stalled = job[j].stalled
         /\ q.starts = job[j].starts /\ q.effects = job[j].effects
         /\ IsFiniteSet(q.late) /\ Cardinality(q.late) \in Nat
         /\ Cardinality(q.late) <= Cardinality(job[j].late) + (IF job[j].performed THEN 0 ELSE 1)
         /\ \A h \in q.late : phase[h.by] # "down"
<1> DEFINE p == job[j]
           q == Outrun(p)
<1>1. p \in Job /\ Books(j, p) /\ Hosted(p)
  BY DEF IInv, Tables
<1>2. IsFiniteSet(p.late) /\ Cardinality(p.late) \in Nat
  BY <1>1, LateCount DEF Books
<1>3. CASE p.by = NULL \/ p.performed
  <2>1. q = p
    BY <1>3 DEF Outrun
  <2> QED
    BY <1>1, <1>2, <2>1 DEF Hosted
<1>4. CASE ~ (p.by = NULL \/ p.performed)
  <2> DEFINE h == [by |-> p.by, start |-> p.starts]
  <2>1. h \in LateHandler /\ h.by = p.by
    BY <1>1, <1>4 DEF LateHandler, Job
  <2>2. q = [p EXCEPT !.late = p.late \cup {h}]
    BY <1>1, <1>4 DEF Outrun, Job
  <2>3. /\ q \in Job /\ q.late = p.late \cup {h} /\ q.made = p.made /\ q.stalled = p.stalled
        /\ q.starts = p.starts /\ q.effects = p.effects
    <3>1. p.late \cup {h} \in SUBSET LateHandler
      BY <1>1, <2>1 DEF Job
    <3> HIDE DEF q, h
    <3> QED
      BY <1>1, <2>2, <3>1 DEF Job
  <2>4. /\ IsFiniteSet(q.late) /\ Cardinality(q.late) <= Cardinality(p.late) + 1
    BY <1>2, <2>3, LateCount
  <2>5. Cardinality(q.late) \in Nat
    BY <2>4, LateCount
  <2>6. \A g \in q.late : phase[g.by] # "down"
    BY <1>1, <1>4, <2>1, <2>3 DEF Hosted
  <2> HIDE DEF q
  <2> QED
    BY <1>4, <2>3, <2>4, <2>5, <2>6 DEF q
<1> QED
  BY <1>3, <1>4

LEMMA StallInv ==
  ASSUME IInv, NEW j \in Jobs, Stall(j)
  PROVE  IInv'
<1> DEFINE p == job[j]
           o == Outrun(p)
<1>1. /\ p \in Job /\ p.state = "active" /\ Books(j, p)
      /\ p.stalled \in Nat /\ p.effects \in Nat /\ p.made \in Nat
      /\ UNCHANGED <<phase, scheduled, crashes>>
  BY DEF Stall, IInv, Tables, Job
<1>2. /\ o \in Job /\ o.made = p.made /\ o.stalled = p.stalled
      /\ o.starts = p.starts /\ o.effects = p.effects
      /\ IsFiniteSet(o.late) /\ Cardinality(o.late) \in Nat
      /\ Cardinality(o.late) <= Cardinality(p.late) + (IF p.performed THEN 0 ELSE 1)
      /\ \A h \in o.late : phase[h.by] # "down"
  BY <1>1, OutrunFields
<1>3. Cardinality(p.late) \in Nat /\ Open(p) = (IF p.performed THEN 0 ELSE 1) /\ Begun(p) = 1
  BY <1>1, LateCount DEF Books, Open, Begun, Job
<1>4. ASSUME NEW q \in Job, q.by = NULL, q.late = o.late, q.made = p.made,
             q.starts = p.starts, q.effects = p.effects,
             job' = [job EXCEPT ![j] = q],
             \/ q.state = "waiting" /\ q.stalled = p.stalled + 1 /\ p.stalled < MaxStalled
             \/ q.state = "failed" /\ q.stalled = p.stalled
      PROVE  IInv'
  <2>1. /\ Open(q) = (IF q.state = "waiting" THEN 1 ELSE 0)
        /\ Begun(q) = (IF q.state = "waiting" THEN 0 ELSE 1)
    BY <1>4 DEF Open, Begun
  <2> HIDE DEF o, p
  <2>2. q.effects + Cardinality(q.late) + Open(q) <= 1 + q.stalled
    BY <1>1, <1>2, <1>3, <1>4, <2>1 DEF Books
  <2>3. q.starts = q.made + q.stalled + Begun(q) /\ q.stalled <= MaxStalled /\ q.made < Attempts(j)
    BY <1>1, <1>3, <1>4, <2>1, AttemptsPositive DEF Books
  <2>4. Books(j, q)
    BY <1>2, <1>4, <2>2, <2>3 DEF Books
  <2>5. Hosted(q)
    BY <1>2, <1>4 DEF Hosted
  <2> QED
    BY <1>1, <1>4, <2>4, <2>5, JobUpdate
<1>5. CASE p.stalled < MaxStalled
  <2>1. PICK q \in Job : q = [Released(o, "waiting") EXCEPT !.stalled = p.stalled + 1]
    <3>1. p.stalled + 1 \in Nat
      BY <1>1
    <3> HIDE DEF o, p
    <3> QED
      BY <1>2, <3>1 DEF Job, Released
  <2>2. job' = [job EXCEPT ![j] = q]
    <3>1. job' = [job EXCEPT ![j] = [Released(Outrun(job[j]), "waiting") EXCEPT !.stalled = job[j].stalled + 1]]
      BY <1>5 DEF Stall
    <3> QED
      BY <2>1, <3>1
  <2>3. /\ q.state = "waiting" /\ q.by = NULL /\ q.starts = o.starts /\ q.late = o.late
        /\ q.effects = o.effects /\ q.made = o.made /\ q.stalled = p.stalled + 1
    <3> HIDE DEF o, p
    <3> QED
      BY <1>2, <2>1 DEF Job, Released
  <2> QED
    BY <1>2, <1>4, <1>5, <2>2, <2>3
<1>6. CASE ~ (p.stalled < MaxStalled)
  <2>1. job' = [job EXCEPT ![j] = Released(o, "failed")]
    BY <1>1, <1>6 DEF Stall, IInv, Tables
  <2> HIDE DEF o, p
  <2>2. LET q == Released(o, "failed") IN
        /\ q \in Job /\ q.state = "failed" /\ q.by = NULL /\ q.late = o.late
        /\ q.made = o.made /\ q.stalled = o.stalled
        /\ q.starts = o.starts /\ q.effects = o.effects
    BY <1>2, ReleasedFields
  <2> QED
    BY <1>2, <1>4, <2>1, <2>2
<1> QED
  BY <1>5, <1>6

LEMMA FinishLateInv ==
  ASSUME IInv, NEW j \in Jobs, FinishLate(j)
  PROVE  IInv'
<1>1. job[j] \in Job /\ Books(j, job[j]) /\ Hosted(job[j]) /\ UNCHANGED <<phase, scheduled, crashes>>
  BY DEF FinishLate, IInv, Tables
<1>2. PICK h \in job[j].late, done \in {0, 1} :
        job' = [job EXCEPT ![j].late = @ \ {h}, ![j].effects = @ + done]
  BY DEF FinishLate
<1>3. /\ IsFiniteSet(job[j].late \ {h}) /\ Cardinality(job[j].late) \in Nat
      /\ Cardinality(job[j].late \ {h}) = Cardinality(job[j].late) - 1
  BY <1>1, <1>2, LateCount DEF Books
<1>4. PICK q \in Job : q = [job[j] EXCEPT !.late = @ \ {h}, !.effects = @ + done]
  <2>1. job[j].effects + done \in Nat /\ job[j].late \ {h} \in SUBSET LateHandler
    BY <1>1, <1>2 DEF Job
  <2> QED
    BY <1>1, <2>1 DEF Job
<1>5. job' = [job EXCEPT ![j] = q]
  BY <1>1, <1>2, <1>4 DEF IInv, Tables
<1>6. /\ q.state = job[j].state /\ q.by = job[j].by /\ q.performed = job[j].performed
      /\ q.made = job[j].made /\ q.stalled = job[j].stalled /\ q.starts = job[j].starts
      /\ q.effects = job[j].effects + done /\ q.late = job[j].late \ {h}
  BY <1>1, <1>4 DEF Job
<1>7. Open(q) = Open(job[j]) /\ Begun(q) = Begun(job[j]) /\ Open(q) \in {0, 1}
  BY <1>6 DEF Open, Begun
<1>8. job[j].effects \in Nat /\ job[j].stalled \in Nat
  BY <1>1 DEF Job
<1>9. q.effects + Cardinality(q.late) + Open(q) <= 1 + q.stalled
  BY <1>1, <1>2, <1>3, <1>6, <1>7, <1>8 DEF Books
<1>10. Books(j, q)
  BY <1>1, <1>3, <1>6, <1>7, <1>9 DEF Books
<1>11. Hosted(q)
  BY <1>1, <1>6 DEF Hosted
<1> QED
  BY <1>1, <1>5, <1>10, <1>11, JobUpdate

LEMMA RetryInv ==
  ASSUME IInv, NEW j \in Jobs, Retry(j)
  PROVE  IInv'
<1>1. /\ job[j] \in Job /\ job[j].state = "delayed" /\ Books(j, job[j])
      /\ UNCHANGED <<phase, scheduled, crashes>>
  BY DEF Retry, IInv, Tables
<1>2. PICK q \in Job : q = [job[j] EXCEPT !.state = "waiting"]
  BY <1>1 DEF Job
<1>3. job' = [job EXCEPT ![j] = q]
  BY <1>1, <1>2 DEF Retry, IInv, Tables
<1>4. /\ q.state = "waiting" /\ q.by = job[j].by /\ q.starts = job[j].starts
      /\ q.made = job[j].made /\ q.stalled = job[j].stalled /\ q.effects = job[j].effects
      /\ q.late = job[j].late
  BY <1>1, <1>2 DEF Job
<1>5. Open(q) = 1 /\ Open(job[j]) = 1 /\ Begun(q) = 0 /\ Begun(job[j]) = 0 /\ q.by = NULL
  BY <1>1, <1>4 DEF Open, Begun, Books
<1>6. /\ q.starts = q.made + q.stalled + Begun(q) /\ q.made < Attempts(j) /\ q.stalled <= MaxStalled
      /\ q.effects + Open(q) - q.stalled <= job[j].effects + Open(job[j]) - job[j].stalled
  BY <1>1, <1>4, <1>5 DEF Books, Job
<1> QED
  BY <1>1, <1>3, <1>4, <1>5, <1>6, SameLate

LEMMA StepInv == ASSUME IInv, [Next]_vars PROVE IInv'
<1>1. ASSUME NEW w \in Workers, Process(w) PROVE IInv'
  BY <1>1, ProcessInv
<1>2. ASSUME NEW w \in Workers, NEW j \in Jobs, Take(w, j) \/ Handler(w, j) PROVE IInv'
  BY <1>2, TakeInv, PerformInv, CompleteInv, FailInv DEF Handler
<1>3. ASSUME NEW j \in Jobs, Enqueue(j) \/ Retry(j) \/ Stall(j) \/ FinishLate(j) PROVE IInv'
  <2>1. CASE Enqueue(j)
    BY <2>1, EnqueueInv DEF Enqueue
  <2> QED
    BY <1>3, <2>1, RetryInv, StallInv, FinishLateInv
<1>4. CASE Repeat
  <2>1. Sweep \in Jobs
    BY DEF Jobs
  <2> QED
    BY <1>4, <2>1, EnqueueInv DEF Repeat
<1>5. CASE UNCHANGED vars
  <2>1. UNCHANGED <<phase, scheduled, job, crashes>>
    BY <1>5 DEF vars
  <2> QED
    BY <2>1 DEF IInv, Tables, Books, Hosted, Open, Begun
<1> QED
  BY <1>1, <1>2, <1>3, <1>4, <1>5 DEF Next

LEMMA InitInv == ASSUME Init PROVE IInv
<1>1. Tables
  BY IdleJob DEF Init, Tables
<1>2. \A j \in Jobs : Books(j, job[j]) /\ Hosted(job[j])
  BY IdleJob DEF Init
<1> QED
  BY <1>1, <1>2 DEF IInv

LEMMA Inductive == Spec => []IInv
<1>1. Init => IInv
  BY InitInv
<1>2. IInv /\ [Next]_vars => IInv'
  BY StepInv
<1> QED
  BY <1>1, <1>2, PTL DEF Spec

-----------------------------------------------------------------------------
(* Processes and jobs stay well formed.                                    *)
THEOREM WorkerTypes == Spec => []TypeOK
<1>1. IInv => TypeOK
  BY DEF IInv, Tables, TypeOK, Books
<1> QED
  BY <1>1, Inductive, PTL

(* However processes start, close and end, only a crash leaves an active   *)
(* job without one.                                                        *)
THEOREM CleanStops == Spec => []StopsAreClean
<1>1. IInv => StopsAreClean
  BY DEF IInv, Hosted, StopsAreClean
<1> QED
  BY <1>1, Inductive, PTL

(* Failed attempts, stalls and crashes together start a job no more often  *)
(* than the options of its queue allow.                                    *)
THEOREM StartsAreBounded == Spec => []StartsBounded
<1>1. ASSUME IInv PROVE StartsBounded
  <2>1. ASSUME NEW j \in Jobs
        PROVE  job[j].starts <= (IF j \in Notices THEN NotificationAttempts ELSE 1) + MaxStalled
    <3>1. job[j] \in Job /\ Books(j, job[j])
      BY <1>1 DEF IInv, Tables
    <3> QED
      BY <3>1, AttemptsPositive DEF Books, Begun, Job
  <2> QED
    BY <2>1 DEF StartsBounded
<1> QED
  BY <1>1, Inductive, PTL

(* What is done twice was stalled in between.                              *)
THEOREM DuplicatesNeedStalls == Spec => []DuplicatesExplained
<1>1. ASSUME IInv PROVE DuplicatesExplained
  <2>1. ASSUME NEW j \in Jobs PROVE job[j].effects <= 1 + job[j].stalled
    <3>1. job[j] \in Job /\ Books(j, job[j])
      BY <1>1 DEF IInv, Tables
    <3>2. Cardinality(job[j].late) \in Nat
      BY <3>1, LateCount DEF Books
    <3> QED
      BY <3>1, <3>2 DEF Books, Open, Job
  <2> QED
    BY <2>1 DEF DuplicatesExplained
<1> QED
  BY <1>1, Inductive, PTL
=============================================================================
