------------------------------ MODULE WorkerLoop ------------------------------
(***************************************************************************)
(* One worker process: run_worker_loop keeps a thread pool filled with     *)
(* calls of process_one_task, falls back to one job of the subprocess path *)
(* when a thread came back empty-handed, sleeps when there is neither, and *)
(* drains on SIGTERM.  With a width of 1 it calls run_worker_tick instead. *)
(* With --once the process calls run_worker_tick once, for several rounds, *)
(* and ends.                                                               *)
(*                                                                         *)
(* The queue is seen from here as two numbers: tasks and task-less jobs    *)
(* that are pending.  What a task or a job does is JobQueue's and          *)
(* LegacyJobs' subject.                                                    *)
(***************************************************************************)
EXTENDS Naturals, FiniteSets

CONSTANTS
  Widths,     \* values of --task-parallelism
  MaxWidth,   \* 8 in the code
  MaxJobs,    \* --max-jobs-per-tick, the rounds of --once
  MaxTasks,   \* bound: tasks that ever arrive
  MaxLegacy,  \* bound: jobs without tasks that ever arrive
  MaxFaults   \* bound: exceptions that ever escape from a task

ASSUME WidthsAssumption == Widths \subseteq Nat /\ MaxWidth \in Nat \ {0} /\ MaxJobs \in Nat
ASSUME LimitsAssumption == MaxTasks \in Nat /\ MaxLegacy \in Nat /\ MaxFaults \in Nat

Slots == 1..MaxWidth

VARIABLES
  width,      \* tp
  once,       \* --once
  round,      \* the rounds that --once has begun
  pending,    \* job_tasks rows that are pending
  legacy,     \* pending jobs without tasks
  arrived,    \* tasks and jobs that have arrived, and exceptions so far
  slot,       \* the future of each pool thread
  pc,         \* where the loop is
  stop,       \* stop_event
  stranded,   \* history: tasks claimed by a thread that then raised
  lateTasks,  \* history: tasks that a slot (the loop itself: slot 1) claimed after stop
  lateJobs    \* history: task-less jobs claimed after stop

env  == <<arrived, stop>>
args == <<width, once, round>>
late == <<lateTasks, lateJobs>>
hist == <<stranded, lateTasks, lateJobs>>
vars == <<width, once, round, pending, legacy, arrived, slot, pc, stop, stranded, lateTasks, lateJobs>>

Used    == 1..width
Done    == {s \in Used : slot[s] \in {"ended", "none", "raised"}}
InHand  == {s \in Used : slot[s] = "running"}
Pooled  == width > 1
Ended   == {"exited", "crashed", "killed"}
Top     == IF once THEN "round" ELSE "head"

\* Mutant: the upper limit is forgotten.
ClampLow(n) == IF n < 1 THEN 1 ELSE n
Clamp(n) == IF n < 1 THEN 1 ELSE IF n > MaxWidth THEN MaxWidth ELSE n

Init ==
  /\ width \in {Clamp(n) : n \in Widths}
  /\ pending = 0 /\ legacy = 0
  /\ arrived = [task |-> 0, job |-> 0, fault |-> 0]
  /\ slot = [s \in Slots |-> "free"]
  /\ once \in BOOLEAN /\ round = 0
  /\ pc = (IF once THEN "round" ELSE "head") /\ stop = FALSE
  /\ stranded = 0 /\ lateTasks = [s \in Slots |-> 0] /\ lateJobs = 0

-----------------------------------------------------------------------------
(* The world around the loop.                                              *)

TaskArrives ==
  /\ arrived.task < MaxTasks
  /\ arrived' = [arrived EXCEPT !.task = @ + 1]
  /\ pending' = pending + 1
  /\ UNCHANGED <<args, legacy, slot, pc, stop, hist>>

JobArrives ==
  /\ arrived.job < MaxLegacy
  /\ arrived' = [arrived EXCEPT !.job = @ + 1]
  /\ legacy' = legacy + 1
  /\ UNCHANGED <<args, pending, slot, pc, stop, hist>>

\* run_worker_loop installs handlers for SIGTERM and SIGINT.
Signal ==
  /\ ~once /\ ~stop
  /\ stop' = TRUE
  /\ UNCHANGED <<args, pending, legacy, arrived, slot, pc, hist>>

\* --once does not: a signal ends the process with what its threads hold.
Killed ==
  /\ once /\ pc \notin Ended
  /\ pc' = "killed"
  /\ slot' = [s \in Slots |-> "free"]
  /\ stranded' = stranded + Cardinality(InHand) + (IF pc = "ticktask" THEN 1 ELSE 0)
  /\ UNCHANGED <<args, pending, legacy, env, late>>

-----------------------------------------------------------------------------
(* The loop.                                                               *)

LoopGoto(from, to) == pc = from /\ pc' = to

\* The claim of process_one_task, in slot s.
TakeTask(s) ==
  /\ pending' = IF pending > 0 THEN pending - 1 ELSE 0
  /\ lateTasks' = IF stop /\ pending > 0 THEN [lateTasks EXCEPT ![s] = @ + 1] ELSE lateTasks

\* Mutant: the condition of the outer loop does not look at the event.
LoopHeadDeaf ==
  /\ LoopGoto("head", IF Pooled THEN "fill" ELSE "tick")
  /\ UNCHANGED <<args, pending, legacy, env, slot, hist>>

LoopHead ==
  /\ LoopGoto("head", IF stop THEN "drain" ELSE IF Pooled THEN "fill" ELSE "tick")
  /\ UNCHANGED <<args, pending, legacy, env, slot, hist>>

\* The inner loop: is there room, and is the event still clear?
FillHead ==
  /\ LoopGoto("fill", IF stop \/ \A s \in Used : slot[s] # "free" THEN "wait" ELSE "submit")
  /\ UNCHANGED <<args, pending, legacy, env, slot, hist>>

\* By then the event may have been set.
Submit ==
  /\ LoopGoto("submit", "fill")
  /\ \E s \in Used :
       /\ slot[s] = "free"
       /\ slot' = [slot EXCEPT ![s] = "submitted"]
  /\ UNCHANGED <<args, pending, legacy, env, hist>>

\* wait() comes back with nothing: the poll interval is over, or nothing was
\* submitted.
WaitTimesOut ==
  /\ Done = {}
  /\ LoopGoto("wait", "head")
  /\ UNCHANGED <<args, pending, legacy, env, slot, hist>>

\* Mutant: a round without a task goes straight to sleep.
CollectTasksOnly ==
  /\ Done # {}
  /\ LoopGoto("wait", IF \E s \in Done : slot[s] = "ended" THEN "head" ELSE "sleep")
  /\ slot' = [s \in Slots |-> IF s \in Done THEN "free" ELSE slot[s]]
  /\ UNCHANGED <<args, pending, legacy, env, hist>>

\* Mutant: only the futures that did a task leave the set of those in flight.
CollectLeaks ==
  /\ Done # {}
  /\ LoopGoto("wait", IF \E s \in Done : slot[s] = "ended" THEN "head" ELSE "legacy")
  /\ slot' = [s \in Slots |-> IF slot[s] = "ended" THEN "free" ELSE slot[s]]
  /\ UNCHANGED <<args, pending, legacy, env, hist>>

\* Mutant: the place of a future that did a task is filled again at once.
CollectRefills ==
  /\ Done # {}
  /\ LoopGoto("wait", IF \E s \in Done : slot[s] = "ended" THEN "submit" ELSE "legacy")
  /\ slot' = [s \in Slots |-> IF s \in Done THEN "free" ELSE slot[s]]
  /\ UNCHANGED <<args, pending, legacy, env, hist>>

\* All futures that are done by now are collected; an exception counts as an
\* empty slot.
Collect ==
  /\ Done # {}
  /\ LoopGoto("wait", IF \E s \in Done : slot[s] = "ended" THEN "head" ELSE "legacy")
  /\ slot' = [s \in Slots |-> IF s \in Done THEN "free" ELSE slot[s]]
  /\ UNCHANGED <<args, pending, legacy, env, hist>>

\* process_one_job on the loop's own thread and connection.
LegacyClaim ==
  /\ LoopGoto("legacy", IF legacy > 0 THEN "legacyrun" ELSE IF once THEN "exited" ELSE "sleep")
  /\ legacy' = IF legacy > 0 THEN legacy - 1 ELSE 0
  /\ lateJobs' = IF stop /\ legacy > 0 THEN lateJobs + 1 ELSE lateJobs
  /\ UNCHANGED <<args, pending, env, slot, stranded, lateTasks>>

\* The subprocess ends, and process_one_job writes the outcome.
LegacyRun ==
  /\ LoopGoto("legacyrun", Top)
  /\ UNCHANGED <<args, pending, legacy, env, slot, hist>>

\* stop_event.wait: woken by the event, or by the timeout.
Sleep ==
  /\ LoopGoto("sleep", IF stop THEN "drain" ELSE "head")
  /\ UNCHANGED <<args, pending, legacy, env, slot, hist>>

\* Mutant: the pool is left without waiting for its futures.
DrainAtOnce ==
  /\ LoopGoto("drain", "exited")
  /\ UNCHANGED <<args, pending, legacy, env, slot, hist>>

\* as_completed over what is still in flight.
Drain ==
  /\ \A s \in Used : slot[s] \notin {"submitted", "running"}
  /\ LoopGoto("drain", "exited")
  /\ slot' = [s \in Slots |-> "free"]
  /\ UNCHANGED <<args, pending, legacy, env, hist>>

\* run_worker_tick with one task at most: the loop's thread does the work.
Tick ==
  /\ LoopGoto("tick", IF pending > 0 THEN "ticktask" ELSE "legacy")
  /\ TakeTask(1)
  /\ UNCHANGED <<args, legacy, env, slot, stranded, lateJobs>>

TickTask ==
  /\ LoopGoto("ticktask", Top)
  /\ UNCHANGED <<args, pending, legacy, env, slot, hist>>

\* run_worker_tick of --once: a wave of the pool, then as above when it found no task.
Round ==
  /\ LoopGoto("round", IF round = MaxJobs THEN "exited" ELSE IF Pooled THEN "wave" ELSE "tick")
  /\ round' = IF round = MaxJobs THEN round ELSE round + 1
  /\ slot' = IF round < MaxJobs /\ Pooled THEN [s \in Slots |-> IF s \in Used THEN "submitted" ELSE "free"] ELSE slot
  /\ UNCHANGED <<width, once, pending, legacy, env, hist>>

\* An exception leaves run_worker_tick once the pool is empty.
WaveEnds ==
  /\ Done = Used
  /\ LoopGoto("wave", IF \E s \in Used : slot[s] = "raised" THEN "crashed"
                      ELSE IF \E s \in Used : slot[s] = "ended" THEN "round" ELSE "tick")
  /\ slot' = [s \in Slots |-> "free"]
  /\ UNCHANGED <<args, pending, legacy, env, hist>>

\* Nothing catches an exception of the single-threaded loop: the process ends.
TickRaises ==
  /\ arrived.fault < MaxFaults
  /\ pc \in {"tick", "ticktask"}
  /\ pc' = "crashed"
  /\ arrived' = [arrived EXCEPT !.fault = @ + 1]
  /\ stranded' = IF pc = "ticktask" THEN stranded + 1 ELSE stranded
  /\ UNCHANGED <<args, pending, legacy, slot, stop, late>>

\* The pooled loop takes an exception of process_one_job for "no job".
LegacyRaises ==
  /\ arrived.fault < MaxFaults
  /\ pc \in {"legacy", "legacyrun"}
  /\ pc' = IF Pooled /\ ~once THEN "sleep" ELSE "crashed"
  /\ arrived' = [arrived EXCEPT !.fault = @ + 1]
  /\ UNCHANGED <<args, pending, legacy, slot, stop, hist>>

Loop ==
  \/ LoopHead \/ FillHead \/ Submit \/ WaitTimesOut \/ Collect \/ LegacyClaim
  \/ LegacyRun \/ Sleep \/ Drain \/ Tick \/ TickTask \/ Round \/ WaveEnds

-----------------------------------------------------------------------------
(* A pool thread: process_one_task with a fresh connection.                *)

TryClaim(s) ==
  /\ slot[s] = "submitted"
  /\ slot' = [slot EXCEPT ![s] = IF pending > 0 THEN "running" ELSE "none"]
  /\ TakeTask(s)
  /\ UNCHANGED <<args, legacy, env, pc, stranded, lateJobs>>

EndTask(s) ==
  /\ slot[s] = "running"
  /\ slot' = [slot EXCEPT ![s] = "ended"]
  /\ UNCHANGED <<args, pending, legacy, env, pc, hist>>

Raise(s) ==
  /\ arrived.fault < MaxFaults
  /\ slot[s] \in {"submitted", "running"}
  /\ slot' = [slot EXCEPT ![s] = "raised"]
  /\ arrived' = [arrived EXCEPT !.fault = @ + 1]
  /\ stranded' = IF slot[s] = "running" THEN stranded + 1 ELSE stranded
  /\ UNCHANGED <<args, pending, legacy, pc, stop, late>>

Thread(s) == TryClaim(s) \/ EndTask(s)

-----------------------------------------------------------------------------
Next ==
  \/ TaskArrives \/ JobArrives \/ Signal \/ Killed
  \/ Loop \/ TickRaises \/ LegacyRaises
  \/ \E s \in Slots : Thread(s) \/ Raise(s)

(***************************************************************************)
(* The operating system runs every thread; every wait has a timeout; a     *)
(* task ends, since its attempts are counted and the client of the LLM has *)
(* a timeout; and the subprocess is assumed to end (the code limits it     *)
(* only if AB_VALIDATOR_SUBPROCESS_TIMEOUT_SEC is set).  Nothing has to    *)
(* arrive and no signal has to come.                                       *)
(***************************************************************************)
Spec == Init /\ [][Next]_vars /\ WF_vars(Loop) /\ \A s \in Slots : WF_vars(Thread(s))

-----------------------------------------------------------------------------
\* Every variable has its type; a slot beyond the width is never used.
TypeOK ==
  /\ width \in 1..MaxWidth /\ once \in BOOLEAN /\ round \in 0..MaxJobs
  /\ pending \in 0..MaxTasks /\ legacy \in 0..MaxLegacy
  /\ arrived \in [task : 0..MaxTasks, job : 0..MaxLegacy, fault : 0..MaxFaults]
  /\ slot \in [Slots -> {"free", "submitted", "running", "ended", "none", "raised"}]
  /\ \A s \in Slots \ Used : slot[s] = "free"
  /\ pc \in {"head", "fill", "submit", "wait", "legacy", "legacyrun", "sleep", "drain",
             "tick", "ticktask", "round", "wave"} \cup Ended
  /\ stop \in BOOLEAN
  /\ stranded \in 0..(MaxFaults + MaxWidth)
  /\ lateTasks \in [Slots -> Nat] /\ lateJobs \in Nat

\* How much a worker still begins after SIGTERM, wherever it was found: one task for
\* each thread at most (that of the future in it, or the one whose submit had already
\* passed the test of the event) and one task-less job; no future is refilled.
StopBoundsTheWork == (\A s \in Slots : lateTasks[s] <= 1) /\ lateJobs <= 1

\* "draining": when the process has ended of itself it was told to, or ran --once and
\* did its rounds or found nothing more; no thread still holds a task.
DrainsBeforeExit ==
  pc = "exited" =>
    /\ stop \/ once
    /\ InHand = {} /\ \A s \in Slots : slot[s] = "free"

\* A pending task is taken in the end: neither sleeping, nor the subprocess jobs, nor
\* exceptions in other tasks keep the pool from it (until the process is stopped or,
\* in the single-threaded loop, killed by an exception).
TasksAreTaken == []<>(pending = 0 \/ stop \/ once \/ pc = "crashed")

\* Jobs without tasks are not starved once the tasks run out.
LegacyIsRun == []<>(legacy = 0 \/ stop \/ once \/ pc = "crashed")

\* SIGTERM ends the worker from wherever the loop is, and --once ends, though tasks
\* and jobs keep coming.
StopEndsTheWorker == stop \/ once ~> pc \in Ended

\* queue_worker.py, run_worker_loop: once stop_event is set the loop finishes what is
\* in flight and ends, so it does not begin another job.
StopBeginsNoJob == [][stop => legacy' >= legacy]_vars

=============================================================================
