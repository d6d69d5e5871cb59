------------------------------ MODULE LegacyJobs ------------------------------
(***************************************************************************)
(* Jobs without tasks (use_llm_task_queue = false): POST /jobs makes them  *)
(* pending at once and only then stores their images; any worker process   *)
(* claims one, runs scripts/ab_validator.py on it as a subprocess, and     *)
(* writes the outcome.                                                     *)
(*                                                                         *)
(* A worker writes with one connection as long as it lives, and never      *)
(* rolls back: what was executed when a commit raised is committed by the  *)
(* next commit, and until then no other connection can write (SQLite).     *)
(* Handlers use a connection of their own and close it.                    *)
(*                                                                         *)
(* One action is one group of statements with its commit, or one read      *)
(* whose answer is used later.                                             *)
(***************************************************************************)
EXTENDS Naturals, FiniteSets

CONSTANTS
  MaxJobs,  \* bound: jobs ever posted; ids are handed out in order
  Procs,    \* worker processes
  MaxFaults, \* bound: exceptions and deaths, not counting those forced by the lock
  NoJob

ASSUME MaxJobsAssumption == MaxJobs \in Nat /\ MaxFaults \in Nat
ASSUME NoJobAssumption == NoJob \notin 1..MaxJobs

Jobs == 1..MaxJobs

VARIABLES
  status,  \* jobs.status, with what is not yet committed; "none": no such row
  result,  \* jobs with a row in job_results, with what is not yet committed
  notes,   \* types of the notifications of each job, with what is not yet committed
  disk,    \* the three as they are committed
  writer,  \* the worker whose connection has written and not committed, if any
  hpc,     \* where the POST handler of each job is
  pc,      \* where process_one_job of each worker is
  job,     \* the job it has read
  runs,    \* history: subprocess runs of each job
  lost,    \* history: jobs whose worker died, or raised outside of its try block
  stray,   \* history: jobs that a worker left with writes still to be committed
  faults   \* exceptions and deaths so far

db   == <<status, result, notes, disk, writer>>
hist == <<runs, lost, stray, faults>>
vars == <<db, hpc, pc, job, hist>>

Init ==
  /\ status = [j \in Jobs |-> "none"]
  /\ result = {}
  /\ notes = [j \in Jobs |-> {}]
  /\ disk = [status |-> status, result |-> result, notes |-> notes]
  /\ writer = {}
  /\ hpc = [j \in Jobs |-> "idle"]
  /\ pc = [p \in Procs |-> "idle"]
  /\ job = [p \in Procs |-> NoJob]
  /\ runs = [j \in Jobs |-> 0]
  /\ lost = {} /\ stray = {} /\ faults = 0

SetStatus(j, s) == status' = [status EXCEPT ![j] = IF @ = "none" THEN "none" ELSE s]
AddNotification(j, type) == notes' = [notes EXCEPT ![j] = @ \cup {type}]

\* SQLite has one writer at a time.
MayWrite(p) == writer \subseteq {p}
Commit == writer' = {} /\ disk' = [status |-> status', result |-> result', notes |-> notes']

-----------------------------------------------------------------------------
(* POST /jobs.                                                             *)

PostGoto(j, from, to) == hpc[j] = from /\ hpc' = [hpc EXCEPT ![j] = to]

Post(j) ==
  /\ \A i \in Jobs : i < j => hpc[i] # "idle"
  /\ PostGoto(j, "idle", "note")
  /\ writer = {}
  /\ status' = [status EXCEPT ![j] = "pending"]
  /\ UNCHANGED <<result, notes>>
  /\ Commit
  /\ UNCHANGED <<pc, job, hist>>

PostNote(j) ==
  /\ PostGoto(j, "note", "normalize")
  /\ writer = {}
  /\ AddNotification(j, "info")
  /\ UNCHANGED <<status, result>>
  /\ Commit
  /\ UNCHANGED <<pc, job, hist>>

\* The images are where the payload says (which is rewritten), or one is missing.
Normalize(j) ==
  /\ \E next \in {"done", "reject"} : PostGoto(j, "normalize", next)
  /\ UNCHANGED <<db, pc, job, hist>>

\* The client gets a 400; a worker may have the job by now.
Reject(j) ==
  /\ PostGoto(j, "reject", "rejected")
  /\ writer = {}
  /\ SetStatus(j, "failed")
  /\ UNCHANGED <<result, notes>>
  /\ Commit
  /\ UNCHANGED <<pc, job, hist>>

\* "database is locked": the client gets a 500, and the job stays as it is.
PostLockedOut(j) ==
  /\ writer # {}
  /\ \E from \in {"note", "reject"} : PostGoto(j, from, "done")
  /\ UNCHANGED <<db, pc, job, hist>>

Handler(j) == PostNote(j) \/ Normalize(j) \/ Reject(j) \/ PostLockedOut(j)

-----------------------------------------------------------------------------
(* process_one_job: what its statements write, ...                         *)

Claimed(p)   == SetStatus(job[p], "running") /\ UNCHANGED <<result, notes>>
Completed(p) == SetStatus(job[p], "completed") /\ result' = result \cup {job[p]} /\ UNCHANGED notes
Succeeded(p) == AddNotification(job[p], "success") /\ UNCHANGED <<status, result>>
Failed(p)    == SetStatus(job[p], "failed") /\ UNCHANGED <<result, notes>>
Erred(p)     == AddNotification(job[p], "error") /\ UNCHANGED <<status, result>>

(* ... and its steps.                                                      *)

Goto(p, from, to) == pc[p] = from /\ pc' = [pc EXCEPT ![p] = to]
Return(p) == pc' = [pc EXCEPT ![p] = "idle"] /\ job' = [job EXCEPT ![p] = NoJob]

\* Other connections see what is committed.
StatusFor(p) == IF p \in writer THEN status ELSE disk.status

\* Mutant: the newest of the pending jobs is picked.
SelectNewest(p) ==
  \E j \in Jobs :
    /\ StatusFor(p)[j] = "pending"
    /\ \A i \in Jobs : StatusFor(p)[i] = "pending" => j >= i
    /\ Goto(p, "idle", "claim")
    /\ job' = [job EXCEPT ![p] = j]
    /\ UNCHANGED <<db, hpc, hist>>

Select(p) ==
  \E j \in Jobs :
    /\ StatusFor(p)[j] = "pending"
    /\ \A i \in Jobs : StatusFor(p)[i] = "pending" => j <= i
    /\ Goto(p, "idle", "claim")
    /\ job' = [job EXCEPT ![p] = j]
    /\ UNCHANGED <<db, hpc, hist>>

\* Mutant: the UPDATE has lost "AND status='pending'".
ClaimUnguarded(p) ==
  /\ Goto(p, "claim", "reload") /\ MayWrite(p)
  /\ Claimed(p) /\ Commit
  /\ UNCHANGED <<job, hpc, hist>>

\* UPDATE ... WHERE id=? AND status='pending', by rowcount.
Claim(p) ==
  /\ pc[p] = "claim" /\ MayWrite(p)
  /\ IF status[job[p]] = "pending"
       THEN Goto(p, "claim", "reload") /\ Claimed(p) /\ UNCHANGED job
       ELSE Return(p) /\ UNCHANGED <<status, result, notes>>
  /\ Commit
  /\ UNCHANGED <<hpc, hist>>

\* A rejected job may have been deleted since.
Reload(p) ==
  /\ pc[p] = "reload"
  /\ IF StatusFor(p)[job[p]] = "none" THEN Return(p) ELSE Goto(p, "reload", "run") /\ UNCHANGED job
  /\ UNCHANGED <<db, hpc, hist>>

\* Mutant: the exception of run_validator is only printed.
RunSwallowed(p) ==
  /\ \/ Goto(p, "run", "complete") /\ UNCHANGED job
     \/ pc[p] = "run" /\ Return(p)
  /\ runs' = [runs EXCEPT ![job[p]] = @ + 1]
  /\ UNCHANGED <<db, hpc, lost, stray, faults>>

\* run_validator: a report, or an exception (no persona, timeout, exit code).
Run(p) ==
  /\ \E next \in {"complete", "fail"} : Goto(p, "run", next)
  /\ runs' = [runs EXCEPT ![job[p]] = @ + 1]
  /\ UNCHANGED <<db, hpc, job, lost, stray, faults>>

Complete(p) ==
  /\ Goto(p, "complete", "note") /\ MayWrite(p)
  /\ Completed(p) /\ Commit
  /\ UNCHANGED <<hpc, job, hist>>

SuccessNote(p) ==
  /\ pc[p] = "note" /\ MayWrite(p)
  /\ Succeeded(p) /\ Commit
  /\ Return(p)
  /\ UNCHANGED <<hpc, hist>>

\* Mutant: the type of the notification is written as the status.
FailAsError(p) ==
  /\ Goto(p, "fail", "failnote") /\ MayWrite(p)
  /\ SetStatus(job[p], "error") /\ UNCHANGED <<result, notes>> /\ Commit
  /\ UNCHANGED <<hpc, job, hist>>

\* Mutant: the except block has lost its notification.
FailSilently(p) ==
  /\ pc[p] = "fail" /\ MayWrite(p)
  /\ Failed(p) /\ Commit
  /\ Return(p)
  /\ UNCHANGED <<hpc, hist>>

\* The except block.  Its commit also commits what the try block had not.
Fail(p) ==
  /\ Goto(p, "fail", "failnote") /\ MayWrite(p)
  /\ Failed(p) /\ Commit
  /\ UNCHANGED <<hpc, job, hist>>

ErrorNote(p) ==
  /\ pc[p] = "failnote" /\ MayWrite(p)
  /\ Erred(p) /\ Commit
  /\ Return(p)
  /\ UNCHANGED <<hpc, hist>>

-----------------------------------------------------------------------------
(* Exceptions and deaths.                                                  *)

\* The statements of the next step are executed, and their commit raises; of the two
\* of complete_job the second may have raised already.
Uncommitted(p) ==
  /\ MayWrite(p)
  /\ \/ pc[p] = "claim" /\ status[job[p]] = "pending" /\ Claimed(p)
     \/ pc[p] = "complete" /\ Completed(p)
     \/ pc[p] = "complete" /\ SetStatus(job[p], "completed") /\ UNCHANGED <<result, notes>>
     \/ pc[p] = "note" /\ Succeeded(p)
     \/ pc[p] = "fail" /\ Failed(p)
     \/ pc[p] = "failnote" /\ Erred(p)
  /\ writer' = {p} /\ UNCHANGED disk

\* The process ends, or SQLite rolls back by itself (a full disk).
Rollback(p) ==
  IF p \in writer
    THEN /\ status' = disk.status /\ result' = disk.result /\ notes' = disk.notes
         /\ writer' = {} /\ UNCHANGED disk
    ELSE UNCHANGED db

\* A statement raises, or its commit does.
Outcome(p) == UNCHANGED db \/ Uncommitted(p) \/ Rollback(p)

Fault == faults < MaxFaults /\ faults' = faults + 1

\* In the try block: the except block fails the job, even one that complete_job has
\* already closed.
TryRaises(p) ==
  /\ \E from \in {"complete", "note"} : Goto(p, from, "fail")
  /\ Outcome(p)
  /\ UNCHANGED <<hpc, job, runs, lost, stray>>

\* Outside of it: the exception leaves process_one_job, and the pooled loop goes on with
\* the same connection.
EscapesWorker(p) ==
  /\ pc[p] \in {"claim", "reload", "fail", "failnote"}
  /\ Outcome(p)
  /\ Return(p)
  /\ lost' = lost \cup {job[p]}
  /\ stray' = IF p \in writer' THEN stray \cup {job[p]} ELSE stray
  /\ UNCHANGED <<hpc, runs>>

\* The process ends: killed, or by an exception that nothing catches.
\* Another one takes its place.
Dies(p) ==
  /\ pc[p] # "idle" \/ p \in writer
  /\ Fault
  /\ Rollback(p)
  /\ Return(p)
  /\ lost' = IF pc[p] = "idle" THEN lost ELSE lost \cup {job[p]}
  /\ UNCHANGED <<hpc, runs, stray>>

\* Another connection keeps its transaction open: the statement raises.
LockedOut(p) ==
  /\ ~MayWrite(p) /\ pc[p] # "reload"
  /\ TryRaises(p) \/ EscapesWorker(p)
  /\ UNCHANGED faults

Worker(p) ==
  \/ Select(p) \/ Claim(p) \/ Reload(p) \/ Run(p) \/ Complete(p)
  \/ SuccessNote(p) \/ Fail(p) \/ ErrorNote(p) \/ LockedOut(p)

\* DELETE /jobs/{id}.
Delete(j) ==
  /\ status[j] \in {"completed", "failed"}
  /\ writer = {}
  /\ status' = [status EXCEPT ![j] = "none"]
  /\ result' = result \ {j}
  /\ notes' = [notes EXCEPT ![j] = {}]
  /\ Commit
  /\ UNCHANGED <<hpc, pc, job, hist>>

Next ==
  \/ \E j \in Jobs : Post(j) \/ Handler(j) \/ Delete(j)
  \/ \E p \in Procs : Worker(p) \/ (TryRaises(p) /\ Fault) \/ (EscapesWorker(p) /\ Fault) \/ Dies(p)

\* Handlers and workers run on, and a statement that waits for the lock raises in the
\* end; the subprocess is assumed to end.
Fairness ==
  /\ \A j \in Jobs : WF_vars(Handler(j))
  /\ \A p \in Procs : WF_vars(Worker(p))
Spec == Init /\ [][Next]_vars /\ Fairness

-----------------------------------------------------------------------------
Tables ==
  [status : [Jobs -> {"none", "pending", "running", "completed", "failed"}],
   result : SUBSET Jobs,
   notes  : [Jobs -> SUBSET {"info", "success", "error"}]]

\* Every variable has its type, and a worker has a job when it is at work.
TypeOK ==
  /\ disk \in Tables
  /\ status \in [Jobs -> {"none", "pending", "running", "completed", "failed"}]
  /\ result \in SUBSET Jobs
  /\ notes \in [Jobs -> SUBSET {"info", "success", "error"}]
  /\ writer \in SUBSET Procs
  /\ hpc \in [Jobs -> {"idle", "note", "normalize", "reject", "done", "rejected"}]
  /\ pc \in [Procs -> {"idle", "claim", "reload", "run", "complete", "note", "fail", "failnote"}]
  /\ job \in [Procs -> Jobs \cup {NoJob}]
  /\ \A p \in Procs : pc[p] = "idle" <=> job[p] = NoJob
  /\ runs \in [Jobs -> Nat] /\ lost \in SUBSET Jobs /\ stray \in SUBSET Jobs /\ faults \in Nat

\* The claim is a SELECT and a guarded UPDATE: whatever the interleaving of the worker
\* processes, of POST's late rejection and of DELETE, a job is run once at most, also
\* when its claim was executed, not committed, and made good or undone later.
RunsOnce == \A j \in Jobs : runs[j] <= 1

\* Until POST rejects it, a job is announced as what it is.  A job announced as
\* completed has its result, and is completed unless the commit of the announcement
\* itself raised: then the except block has failed the job, the commit of fail_job has
\* made the announcement good, and the worker corrects it by an error, or is lost.  An
\* error is announced of a failed job only.
AnnouncementIsTrue ==
  \A j \in Jobs : disk.status[j] # "none" /\ hpc[j] # "rejected" =>
    /\ "success" \in disk.notes[j] =>
         /\ j \in disk.result
         /\ \/ disk.status[j] = "completed"
            \/ /\ disk.status[j] = "failed"
               /\ \/ "error" \in disk.notes[j] \/ j \in lost
                  \/ \E p \in Procs : pc[p] = "failnote" /\ job[p] = j
    /\ "error" \in disk.notes[j] => disk.status[j] = "failed"

\* The worker has claimed its job.
Active == {"reload", "run", "complete", "note", "fail", "failnote"}

Held(j) == \E p \in Procs : pc[p] \in Active /\ job[p] = j

\* A job is running until its worker has announced the verdict, which may still
\* change before; a rejected job is taken off the queue whatever its worker does, and
\* one that is left with writes still to be committed is out of order.
QueueState(j) ==
  IF hpc[j] = "idle" THEN "unborn"
  ELSE IF hpc[j] = "rejected" \/ j \in stray \/ disk.status[j] = "none" THEN "gone"
  ELSE IF Held(j) THEN "running" ELSE disk.status[j]

queue == [j \in Jobs |-> QueueState(j)]
holds == [p \in Procs |-> IF pc[p] \in Active /\ job[p] \notin stray THEN job[p] ELSE 0]

\* Jobs and worker processes are a TaskQueue too.  Although a worker selects a job in
\* one statement and claims it in another (claim_next_pending_job_legacy_only), jobs
\* are handed out in the order they were posted, to one worker each, which alone ends
\* them, once, even when it changes its mind about the verdict.
Queue == INSTANCE TaskQueue WITH Workers <- Procs, MaxTasks <- MaxJobs, state <- queue
ImplementsTaskQueue == Queue!Spec

\* Every posted job comes to rest, except when its worker died on it or could not write
\* its end (nothing offers a running job again); a job waiting behind a transaction that
\* was left open does.
JobsSettle ==
  \A j \in Jobs : hpc[j] # "idle" ~> (disk.status[j] \in {"completed", "failed", "none"} \/ j \in lost)

=============================================================================
