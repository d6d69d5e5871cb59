------------------------------- MODULE JobQueue -------------------------------
(***************************************************************************)
(* The life of an LLM job: POST /jobs enrols it, a background preparer     *)
(* turns it into one job_tasks row per persona, worker threads score the   *)
(* tasks, whoever finds no task left writes the report and closes the job, *)
(* GET /jobs/{id} may close it too, and DELETE /jobs/{id} removes it.      *)
(*                                                                         *)
(* One action is one committed database statement, one read whose answer   *)
(* is used later, or one operation on a file of outputs/jobs/job_<id>.     *)
(* Between two of them every other thread or process may run.              *)
(***************************************************************************)
EXTENDS Naturals, Sequences, FiniteSets

CONSTANTS
  Jobs,      \* ids of the jobs table
  Workers,   \* threads of the worker's pool
  Readers,   \* request handlers of GET /jobs/{id}
  MaxRows,   \* bound: personas that one retrieval returns
  MaxTasks,  \* bound: job_tasks rows ever inserted
  NoJob      \* the job of an actor that has none

ASSUME JobsAssumption   == NoJob \notin Jobs
ASSUME ActorsAssumption == Workers \cap Readers = {}
ASSUME BoundsAssumption == MaxRows \in Nat /\ MaxTasks \in Nat

Actors   == Workers \cup Readers
TaskIds  == 1..MaxTasks
NoTask   == 0

\* A line of partial.jsonl names the task that wrote it; Leftover stands for
\* a line found in the directory of a job of an earlier database.
Leftover == 0
Lines    == Seq(0..MaxTasks)

\* status "none": the jobs table has no row of that id (not yet, or deleted).
JobStatus  == {"none", "preparing", "pending", "running", "completed", "failed"}
Terminal   == {"completed", "failed"}
\* "unborn": id not handed out yet; "gone": the row has been deleted.
TaskStatus == {"unborn", "pending", "running", "completed", "failed", "gone"}

VARIABLES
  status,    \* jobs.status
  tjob,      \* job_tasks.job_id
  tstat,     \* job_tasks.status
  nextId,    \* job_tasks AUTOINCREMENT: the next id
  result,    \* jobs with a row in job_results
  notes,     \* types of the notifications of each job
  partial,   \* partial.jsonl of each job
  report,    \* result/job_<id>.report.json
  copy,      \* result/job_<id>.partial.jsonl
  ppc,       \* where the preparer of each job is
  left,      \* personas it has still to insert
  pc,        \* where each worker thread or GET handler is
  task,      \* the task of a worker
  jobOf,     \* the job an actor works on
  seen,      \* partial.jsonl as a finalizer read it
  nfail,     \* failed tasks as a finalizer counted them
  dpc,       \* where the DELETE handler of each job is
  stranded,  \* history: tasks left running by a thread that died
  early      \* history: jobs whose tasks a finalizer counted before enrolment ended

db    == <<status, tjob, tstat, nextId, result, notes>>
files == <<partial, report, copy>>
prep  == <<ppc, left>>
acts  == <<pc, task, jobOf, seen, nfail>>
hist  == <<stranded, early>>
vars  == <<db, files, prep, acts, dpc, hist>>

TasksOf(j, s)  == {t \in TaskIds : tjob[t] = j /\ tstat[t] \in s}
Unfinished(j)  == TasksOf(j, {"pending", "running"})
RowsOf(lines)  == {lines[i] : i \in DOMAIN lines}

Reports        == [state : {"none", "torn", "whole"}, rows : Lines, failed : Nat]
NoReport       == [state |-> "none",  rows |-> <<>>, failed |-> 0]
Torn           == [state |-> "torn",  rows |-> <<>>, failed |-> 0]
Whole(rows, n) == [state |-> "whole", rows |-> rows, failed |-> n]

-----------------------------------------------------------------------------
(***************************************************************************)
(* Only outputs/ may survive from an earlier database: a job directory may *)
(* hold an old partial.jsonl.                                              *)
(***************************************************************************)
Init ==
  /\ status  = [j \in Jobs |-> "none"]
  /\ tjob    = [t \in TaskIds |-> NoJob]
  /\ tstat   = [t \in TaskIds |-> "unborn"]
  /\ nextId  = 1
  /\ result  = {}
  /\ notes   = [j \in Jobs |-> {}]
  /\ partial \in [Jobs -> {<<>>, <<Leftover>>}]
  /\ report  = [j \in Jobs |-> NoReport]
  /\ copy    = [j \in Jobs |-> <<>>]
  /\ ppc     = [j \in Jobs |-> "idle"]
  /\ left    = [j \in Jobs |-> 0]
  /\ pc      = [a \in Actors |-> "idle"]
  /\ task    = [a \in Actors |-> NoTask]
  /\ jobOf   = [a \in Actors |-> NoJob]
  /\ seen    = [a \in Actors |-> <<>>]
  /\ nfail   = [a \in Actors |-> 0]
  /\ dpc     = [j \in Jobs |-> "idle"]
  /\ stranded = {}
  /\ early    = {}

-----------------------------------------------------------------------------
(* The statements of db.py that more than one handler issues.              *)

\* An UPDATE of a row that is not there changes nothing.
SetStatus(j, s) ==
  status' = [status EXCEPT ![j] = IF @ = "none" THEN "none" ELSE s]

SetTask(t, s) ==
  tstat' = [tstat EXCEPT ![t] = IF @ \in {"unborn", "gone"} THEN @ ELSE s]

\* An INSERT does not look at jobs: the connections do not enforce the
\* foreign key.
AddNotification(j, type) == notes' = [notes EXCEPT ![j] = @ \cup {type}]

-----------------------------------------------------------------------------
(* POST /jobs, and the background task that finishes the enrolment.        *)

PrepGoto(j, from, to) == ppc[j] = from /\ ppc' = [ppc EXCEPT ![j] = to]

\* Mutant: enqueue_job with its default status.
CreateAsPending(j) ==
  /\ PrepGoto(j, "idle", "normalize")
  /\ status' = [status EXCEPT ![j] = "pending"]
  /\ UNCHANGED <<tjob, tstat, nextId, result, notes, files, left, acts, dpc, hist>>

Create(j) ==
  /\ PrepGoto(j, "idle", "normalize")
  /\ status' = [status EXCEPT ![j] = "preparing"]
  /\ UNCHANGED <<tjob, tstat, nextId, result, notes, files, left, acts, dpc, hist>>

\* The images of the payload are moved into the job directory.
NormalizeOk(j) ==
  /\ PrepGoto(j, "normalize", "check")
  /\ UNCHANGED <<db, files, left, acts, dpc, hist>>

\* A missing staged image: the job fails and the client gets a 400.
NormalizeFails(j) ==
  /\ PrepGoto(j, "normalize", "done")
  /\ SetStatus(j, "failed")
  /\ UNCHANGED <<tjob, tstat, nextId, result, notes, files, left, acts, dpc, hist>>

PrepCheck(j) ==
  /\ PrepGoto(j, "check", IF status[j] = "preparing" THEN "retrieve" ELSE "done")
  /\ UNCHANGED <<db, files, left, acts, dpc, hist>>

Retrieve(j) ==
  \E n \in 0..MaxRows :
    /\ PrepGoto(j, "retrieve", IF n = 0 THEN "norows" ELSE "unlink")
    /\ left' = [left EXCEPT ![j] = n]
    /\ UNCHANGED <<db, files, acts, dpc, hist>>

NoRowsFail(j) ==
  /\ PrepGoto(j, "norows", "norowsnote")
  /\ SetStatus(j, "failed")
  /\ UNCHANGED <<tjob, tstat, nextId, result, notes, files, left, acts, dpc, hist>>

NoRowsNote(j) ==
  /\ PrepGoto(j, "norowsnote", "done")
  /\ AddNotification(j, "error")
  /\ UNCHANGED <<status, tjob, tstat, nextId, result, files, left, acts, dpc, hist>>

\* Mutant: the old file is left where it is.
UnlinkForgotten(j) ==
  /\ PrepGoto(j, "unlink", "insert")
  /\ UNCHANGED <<db, files, left, acts, dpc, hist>>

UnlinkPartial(j) ==
  /\ PrepGoto(j, "unlink", "insert")
  /\ partial' = [partial EXCEPT ![j] = <<>>]
  /\ UNCHANGED <<db, report, copy, left, acts, dpc, hist>>

\* insert_job_task commits every row by itself: a worker may take it at once.
InsertTask(j) ==
  /\ nextId \in TaskIds
  /\ PrepGoto(j, "insert", IF left[j] = 1 THEN "publish" ELSE "insert")
  /\ tjob'   = [tjob EXCEPT ![nextId] = j]
  /\ tstat'  = [tstat EXCEPT ![nextId] = "pending"]
  /\ nextId' = nextId + 1
  /\ left'   = [left EXCEPT ![j] = @ - 1]
  /\ UNCHANGED <<status, result, notes, files, acts, dpc, hist>>

\* Mutant: an UPDATE without its condition on the present status.
PublishAnyway(j) ==
  /\ PrepGoto(j, "publish", "info")
  /\ SetStatus(j, "pending")
  /\ UNCHANGED <<tjob, tstat, nextId, result, notes, files, left, acts, dpc, hist>>

Publish(j) ==
  /\ PrepGoto(j, "publish", "info")
  /\ status' = [status EXCEPT ![j] = IF @ = "preparing" THEN "pending" ELSE @]
  /\ UNCHANGED <<tjob, tstat, nextId, result, notes, files, left, acts, dpc, hist>>

InfoNote(j) ==
  /\ PrepGoto(j, "info", "done")
  /\ AddNotification(j, "info")
  /\ UNCHANGED <<status, tjob, tstat, nextId, result, files, left, acts, dpc, hist>>

PrepStep(j) ==
  \/ NormalizeOk(j) \/ NormalizeFails(j) \/ PrepCheck(j) \/ Retrieve(j)
  \/ NoRowsFail(j)  \/ NoRowsNote(j)     \/ UnlinkPartial(j)
  \/ InsertTask(j)  \/ Publish(j)        \/ InfoNote(j)

-----------------------------------------------------------------------------
(* A worker thread: process_one_task and _run_llm_score.                   *)

Goto(a, from, to) == pc[a] = from /\ pc' = [pc EXCEPT ![a] = to]

\* The handler returns: what it held in local variables is forgotten.
Return(a) ==
  /\ pc'    = [pc EXCEPT ![a] = "idle"]
  /\ task'  = [task EXCEPT ![a] = NoTask]
  /\ jobOf' = [jobOf EXCEPT ![a] = NoJob]
  /\ seen'  = [seen EXCEPT ![a] = <<>>]
  /\ nfail' = [nfail EXCEPT ![a] = 0]

\* Mutant: the UPDATE of a claim does not ask for a pending row.
ClaimableTwice == {t \in TaskIds : tstat[t] \in {"pending", "running"}}

\* The oldest pending task, of whatever job and whatever the job's status.
Claimable == {t \in TaskIds : tstat[t] = "pending"}

\* Mutant: no ORDER BY id.
ClaimUnordered(w) ==
  \E t \in Claimable :
    /\ Goto(w, "idle", "load")
    /\ tstat' = [tstat EXCEPT ![t] = "running"]
    /\ task'  = [task EXCEPT ![w] = t]
    /\ jobOf' = [jobOf EXCEPT ![w] = tjob[t]]
    /\ UNCHANGED <<status, tjob, nextId, result, notes, files, prep, seen, nfail, dpc, hist>>

Claim(w) ==
  \E t \in Claimable :
    /\ \A u \in Claimable : t <= u
    /\ Goto(w, "idle", "load")
    /\ tstat' = [tstat EXCEPT ![t] = "running"]
    /\ task'  = [task EXCEPT ![w] = t]
    /\ jobOf' = [jobOf EXCEPT ![w] = tjob[t]]
    /\ UNCHANGED <<status, tjob, nextId, result, notes, files, prep, seen, nfail, dpc, hist>>

\* claim_next_pending_task reads the row again after its commit.
Load(w) ==
  /\ pc[w] = "load"
  /\ IF tstat[task[w]] = "gone"
       THEN Return(w)
       ELSE Goto(w, "load", "fetch") /\ UNCHANGED <<task, jobOf, seen, nfail>>
  /\ UNCHANGED <<db, files, prep, dpc, hist>>

FetchJob(w) ==
  /\ Goto(w, "fetch", IF status[jobOf[w]] = "none" THEN "failtask" ELSE "start")
  /\ UNCHANGED <<db, files, prep, task, jobOf, seen, nfail, dpc, hist>>

\* start_job_running updates the row whatever its status is by now.
StartRunning(w) ==
  /\ Goto(w, "start", "evaluate")
  /\ SetStatus(jobOf[w], "running")
  /\ UNCHANGED <<tjob, tstat, nextId, result, notes, files, prep, task, jobOf, seen, nfail, dpc, hist>>

\* A score, or a persona that cannot be used, or every attempt used up.
Evaluate(w) ==
  \E next \in {"append", "failtask"} :
    /\ Goto(w, "evaluate", next)
    /\ UNCHANGED <<db, files, prep, task, jobOf, seen, nfail, dpc, hist>>

AppendRow(w) ==
  /\ Goto(w, "append", "completetask")
  /\ partial' = [partial EXCEPT ![jobOf[w]] = Append(@, task[w])]
  /\ UNCHANGED <<db, report, copy, prep, task, jobOf, seen, nfail, dpc, hist>>

\* The task ends and its thread turns finalizer.
EndTask(w, from, s) ==
  /\ Goto(w, from, "cntpending")
  /\ SetTask(task[w], s)
  /\ task' = [task EXCEPT ![w] = NoTask]
  /\ UNCHANGED <<status, tjob, nextId, result, notes, files, prep, jobOf, seen, nfail, dpc, hist>>

CompleteTask(w) == EndTask(w, "completetask", "completed")
\* Mutant: the path of a failed task returns without looking at the job.
FailTaskOnly(w) ==
  /\ pc[w] = "failtask"
  /\ SetTask(task[w], "failed")
  /\ Return(w)
  /\ UNCHANGED <<status, tjob, nextId, result, notes, files, prep, dpc, hist>>

FailTask(w) == EndTask(w, "failtask", "failed")

WorkerOwn(w) ==
  \/ Claim(w) \/ Load(w) \/ FetchJob(w) \/ StartRunning(w) \/ Evaluate(w)
  \/ AppendRow(w) \/ CompleteTask(w) \/ FailTask(w)

-----------------------------------------------------------------------------
(* _maybe_finalize_job, in a worker thread or in a GET handler.            *)

CountPending(a) ==
  /\ pc[a] = "cntpending"
  /\ IF TasksOf(jobOf[a], {"pending"}) # {}
       THEN Return(a) /\ UNCHANGED early
       ELSE /\ Goto(a, "cntpending", "cntrunning")
            /\ early' = IF ppc[jobOf[a]] = "insert" THEN early \cup {jobOf[a]} ELSE early
            /\ UNCHANGED <<task, jobOf, seen, nfail>>
  /\ UNCHANGED <<db, files, prep, dpc, stranded>>

\* Mutant: only the pending tasks are counted.
CountRunningSkipped(a) ==
  /\ Goto(a, "cntrunning", "cntfailed")
  /\ UNCHANGED <<db, files, prep, task, jobOf, seen, nfail, dpc, hist>>

CountRunning(a) ==
  /\ pc[a] = "cntrunning"
  /\ IF TasksOf(jobOf[a], {"running"}) # {}
       THEN Return(a)
       ELSE Goto(a, "cntrunning", "cntfailed") /\ UNCHANGED <<task, jobOf, seen, nfail>>
  /\ UNCHANGED <<db, files, prep, dpc, hist>>

CountFailed(a) ==
  /\ Goto(a, "cntfailed", "refetch")
  /\ nfail' = [nfail EXCEPT ![a] = Cardinality(TasksOf(jobOf[a], {"failed"}))]
  /\ UNCHANGED <<db, files, prep, task, jobOf, seen, dpc, hist>>

RefetchJob(a) ==
  /\ pc[a] = "refetch"
  /\ IF status[jobOf[a]] = "none"
       THEN Return(a)
       ELSE Goto(a, "refetch", "readrows") /\ UNCHANGED <<task, jobOf, seen, nfail>>
  /\ UNCHANGED <<db, files, prep, dpc, hist>>

\* Mutant: a report is written even when no row was read.
ReadRowsUnchecked(a) ==
  /\ Goto(a, "readrows", "open")
  /\ seen' = [seen EXCEPT ![a] = partial[jobOf[a]]]
  /\ UNCHANGED <<db, files, prep, task, jobOf, nfail, dpc, hist>>

ReadRows(a) ==
  /\ Goto(a, "readrows", IF partial[jobOf[a]] = <<>> THEN "failjob" ELSE "open")
  /\ seen' = [seen EXCEPT ![a] = partial[jobOf[a]]]
  /\ UNCHANGED <<db, files, prep, task, jobOf, nfail, dpc, hist>>

FailJob(a) ==
  /\ Goto(a, "failjob", "errornote")
  /\ SetStatus(jobOf[a], "failed")
  /\ UNCHANGED <<tjob, tstat, nextId, result, notes, files, prep, task, jobOf, seen, nfail, dpc, hist>>

ErrorNote(a) ==
  /\ pc[a] = "errornote"
  /\ AddNotification(jobOf[a], "error")
  /\ Return(a)
  /\ UNCHANGED <<status, tjob, tstat, nextId, result, files, prep, dpc, hist>>

\* open("w") truncates report.json ...
OpenReport(a) ==
  /\ Goto(a, "open", "write")
  /\ report' = [report EXCEPT ![jobOf[a]] = Torn]
  /\ UNCHANGED <<db, partial, copy, prep, task, jobOf, seen, nfail, dpc, hist>>

\* ... and the JSON is written from offset 0. A file that another finalizer has
\* written since keeps its tail when it is the longer one; a file that DELETE
\* has unlinked stays away.
WriteReport(a) ==
  LET j    == jobOf[a]
      mine == Whole(seen[a], nfail[a]) IN
  /\ Goto(a, "write", "copy")
  /\ \E r \in CASE report[j].state = "none"  -> {NoReport}
                [] report[j].state = "torn"  -> {mine}
                [] report[j].state = "whole" -> {mine, Torn} :
       report' = [report EXCEPT ![j] = r]
  /\ UNCHANGED <<db, partial, copy, prep, task, jobOf, seen, nfail, dpc, hist>>

CopyPartial(a) ==
  /\ Goto(a, "copy", "completejob")
  /\ copy' = [copy EXCEPT ![jobOf[a]] = IF partial[jobOf[a]] = <<>> THEN @ ELSE partial[jobOf[a]]]
  /\ UNCHANGED <<db, partial, report, prep, task, jobOf, seen, nfail, dpc, hist>>

\* Mutant: the caller returns before it adds the notification.
CompleteJobSilently(a) ==
  /\ pc[a] = "completejob"
  /\ SetStatus(jobOf[a], "completed")
  /\ result' = result \cup {jobOf[a]}
  /\ Return(a)
  /\ UNCHANGED <<tjob, tstat, nextId, notes, files, prep, dpc, hist>>

\* One transaction: UPDATE jobs, then the upsert of job_results.
CompleteJob(a) ==
  /\ Goto(a, "completejob", "successnote")
  /\ SetStatus(jobOf[a], "completed")
  /\ result' = result \cup {jobOf[a]}
  /\ UNCHANGED <<tjob, tstat, nextId, notes, files, prep, task, jobOf, seen, nfail, dpc, hist>>

SuccessNote(a) ==
  /\ pc[a] = "successnote"
  /\ AddNotification(jobOf[a], "success")
  /\ Return(a)
  /\ UNCHANGED <<status, tjob, tstat, nextId, result, files, prep, dpc, hist>>

Finalize(a) ==
  \/ CountPending(a) \/ CountRunning(a) \/ CountFailed(a) \/ RefetchJob(a)
  \/ ReadRows(a)     \/ FailJob(a)      \/ ErrorNote(a)   \/ OpenReport(a)
  \/ WriteReport(a)  \/ CopyPartial(a)  \/ CompleteJob(a) \/ SuccessNote(a)

WorkerStep(w) == WorkerOwn(w) \/ Finalize(w)

-----------------------------------------------------------------------------
(* GET /jobs/{id}: a job still open whose tasks are all finished is closed *)
(* by the reader.                                                          *)

GetJob(r, j) ==
  /\ status[j] \in {"pending", "running"}
  /\ Goto(r, "idle", "breakdown")
  /\ jobOf' = [jobOf EXCEPT ![r] = j]
  /\ UNCHANGED <<db, files, prep, task, seen, nfail, dpc, hist>>

GetBreakdown(r) ==
  LET j == jobOf[r] IN
  /\ pc[r] = "breakdown"
  /\ IF TasksOf(j, {"completed", "failed"}) # {} /\ Unfinished(j) = {}
       THEN Goto(r, "breakdown", "cntpending") /\ UNCHANGED <<task, jobOf, seen, nfail>>
       ELSE Return(r)
  /\ UNCHANGED <<db, files, prep, dpc, hist>>

ReaderStep(r) == GetBreakdown(r) \/ Finalize(r)

-----------------------------------------------------------------------------
(* DELETE /jobs/{id}.                                                      *)

DeleteRequest(j) ==
  /\ dpc[j] = "idle"
  /\ status[j] \in Terminal
  /\ dpc' = [dpc EXCEPT ![j] = "delete"]
  /\ UNCHANGED <<db, files, prep, acts, hist>>

\* The four DELETEs are one transaction; the last one looks at the status
\* again, and when it finds no row the handler raises and rolls back.
DeleteRows(j) ==
  /\ dpc[j] = "delete"
  /\ IF status[j] \in Terminal
       THEN /\ status' = [status EXCEPT ![j] = "none"]
            /\ tstat'  = [t \in TaskIds |-> IF tjob[t] = j THEN "gone" ELSE tstat[t]]
            /\ result' = result \ {j}
            /\ notes'  = [notes EXCEPT ![j] = {}]
            /\ dpc'    = [dpc EXCEPT ![j] = "purge"]
       ELSE /\ dpc'    = [dpc EXCEPT ![j] = "idle"]
            /\ UNCHANGED <<status, tstat, result, notes>>
  /\ UNCHANGED <<tjob, nextId, files, prep, acts, hist>>

Purge(j) ==
  /\ dpc[j] = "purge"
  /\ dpc'     = [dpc EXCEPT ![j] = "deleted"]
  /\ partial' = [partial EXCEPT ![j] = <<>>]
  /\ report'  = [report EXCEPT ![j] = NoReport]
  /\ copy'    = [copy EXCEPT ![j] = <<>>]
  /\ UNCHANGED <<db, prep, acts, hist>>

DeleteStep(j) == DeleteRows(j) \/ Purge(j)

-----------------------------------------------------------------------------
(* Faults: an exception (a locked database, an unreadable file, a missing  *)
(* vector index) or the end of the process, between any two steps.         *)

Busy(a) == pc[a] # "idle"

ActorAborts(a) ==
  /\ Busy(a)
  /\ stranded' = stranded \cup ({task[a]} \ {NoTask})
  /\ Return(a)
  /\ UNCHANGED <<db, files, prep, dpc, early>>

PrepAborts(j) ==
  /\ ppc[j] \notin {"idle", "done", "dead"}
  /\ ppc'  = [ppc EXCEPT ![j] = "dead"]
  /\ left' = [left EXCEPT ![j] = 0]
  /\ UNCHANGED <<db, files, acts, dpc, hist>>

Fault == (\E a \in Actors : ActorAborts(a)) \/ (\E j \in Jobs : PrepAborts(j))

-----------------------------------------------------------------------------
Request ==
  \/ \E j \in Jobs : Create(j) \/ DeleteRequest(j)
  \/ \E r \in Readers, j \in Jobs : GetJob(r, j)

Handle ==
  \/ \E j \in Jobs    : PrepStep(j) \/ DeleteStep(j)
  \/ \E w \in Workers : WorkerStep(w)
  \/ \E r \in Readers : ReaderStep(r)

Next == Request \/ Handle \/ Fault

Spec == Init /\ [][Next]_vars

(***************************************************************************)
(* Without faults, and with every handler that has started, and every pool *)
(* thread, running on: threads are scheduled by the operating system, each *)
(* statement ends, and the worker polls for ever.  No request ever has to  *)
(* come.                                                                   *)
(***************************************************************************)
Fairness ==
  /\ \A j \in Jobs    : WF_vars(PrepStep(j)) /\ WF_vars(DeleteStep(j))
  /\ \A w \in Workers : WF_vars(WorkerStep(w))
  /\ \A r \in Readers : WF_vars(ReaderStep(r))

FairSpec == Init /\ [][Request \/ Handle]_vars /\ Fairness

-----------------------------------------------------------------------------
(* What is correct about it.                                               *)

PrepPcs   == {"idle", "normalize", "check", "retrieve", "norows", "norowsnote",
              "unlink", "insert", "publish", "info", "done", "dead"}
ActorPcs  == {"idle", "load", "fetch", "start", "evaluate", "append", "completetask",
              "failtask", "breakdown", "cntpending", "cntrunning", "cntfailed",
              "refetch", "readrows", "failjob", "errornote", "open", "write", "copy",
              "completejob", "successnote"}
\* The finalizer has read the rows and has not yet told its verdict.
DecidedPcs == {"failjob", "open", "write", "copy", "completejob"}

DbTypeOK ==
  /\ status \in [Jobs -> JobStatus]
  /\ tjob   \in [TaskIds -> Jobs \cup {NoJob}]
  /\ tstat  \in [TaskIds -> TaskStatus]
  /\ nextId \in 1..(MaxTasks + 1)
  /\ result \in SUBSET Jobs
  /\ notes  \in [Jobs -> SUBSET {"info", "success", "error"}]

FilesTypeOK ==
  /\ partial \in [Jobs -> Lines]
  /\ report  \in [Jobs -> Reports]
  /\ copy    \in [Jobs -> Lines]

HandlersTypeOK ==
  /\ ppc   \in [Jobs -> PrepPcs]
  /\ left  \in [Jobs -> 0..MaxRows]
  /\ pc    \in [Actors -> ActorPcs]
  /\ task  \in [Actors -> TaskIds \cup {NoTask}]
  /\ jobOf \in [Actors -> Jobs \cup {NoJob}]
  /\ seen  \in [Actors -> Lines]
  /\ nfail \in [Actors -> Nat]
  /\ dpc   \in [Jobs -> {"idle", "delete", "purge", "deleted"}]
  /\ stranded \in SUBSET TaskIds
  /\ early    \in SUBSET Jobs

\* Every variable holds a value its column, file or local variable can hold.
TypeOK == DbTypeOK /\ FilesTypeOK /\ HandlersTypeOK

\* No task is scored twice: a task is in the hands of one thread at most, that
\* task is still running (or its job was deleted under the thread), and a
\* running task nobody holds is one whose thread died (claim_next_pending_task).
ExclusiveClaim ==
  /\ \A v, w \in Workers : task[v] = task[w] /\ task[v] # NoTask => v = w
  /\ \A w \in Workers : task[w] # NoTask =>
       task[w] \notin stranded /\ tstat[task[w]] \in {"running", "gone"}
  /\ \A t \in TaskIds : tstat[t] = "running" =>
       t \in stranded \/ \E w \in Workers : task[w] = t

\* The rows of partial.jsonl and the rows of job_tasks agree: a completed task
\* wrote exactly one line, a task still pending or failed wrote none, and no line
\* of an earlier database survives beside a task of this one (_run_llm_score
\* appends before complete_task; the preparer unlinks before it inserts).
RowsMatchTasks ==
  /\ \A j \in Jobs : \A i, k \in DOMAIN partial[j] :
       partial[j][i] = partial[j][k] /\ partial[j][i] # Leftover => i = k
  /\ \A j \in Jobs :
       /\ TasksOf(j, {"completed"}) \subseteq RowsOf(partial[j])
       /\ TasksOf(j, {"pending", "failed"}) \cap RowsOf(partial[j]) = {}
       /\ TasksOf(j, TaskStatus \ {"gone"}) # {} => Leftover \notin RowsOf(partial[j])

\* A job offered to the pool as pending always has a task: otherwise
\* claim_next_pending_job_legacy_only would run it a second time as a
\* subprocess.
PendingHasTasks ==
  \A j \in Jobs : status[j] = "pending" => TasksOf(j, TaskStatus \ {"gone"}) # {}

\* Unless a finalizer counted while tasks were still being enrolled, whoever is
\* about to close a job (and finds it still there) has read the line of every
\* completed task and no other, has counted every failed one, and no task is
\* left that could still change this.
FinalizerSeesAll ==
  \A a \in Actors : LET j == jobOf[a] IN
    pc[a] \in DecidedPcs /\ j \notin early /\ status[j] # "none" =>
      /\ Unfinished(j) = {}
      /\ RowsOf(seen[a]) = TasksOf(j, {"completed"})
      /\ nfail[a] = Cardinality(TasksOf(j, {"failed"}))

\* With the same reservation, the outcome of a job is the outcome of its tasks: it
\* completes only when all have ended and one was scored, with a job_results row
\* and a report (when it is not being rewritten) over all of them, it fails only
\* when none was scored, and it is not announced as both.
VerdictFitsTasks ==
  \A j \in Jobs \ early :
    /\ status[j] = "completed" =>
         /\ j \in result
         /\ Unfinished(j) = {} /\ TasksOf(j, {"completed"}) # {}
         /\ report[j].state = "whole" =>
              /\ RowsOf(report[j].rows) = TasksOf(j, {"completed"})
              /\ report[j].failed = Cardinality(TasksOf(j, {"failed"}))
    /\ status[j] = "failed" => TasksOf(j, {"pending", "running", "completed"}) = {}
    /\ status[j] # "none" => ~({"success", "error"} \subseteq notes[j])

\* With the same reservation, a completed or failed job keeps that status until it is
\* deleted, and a deleted job stays away (start_job_running, complete_job and
\* fail_job update the row whatever its status).
VerdictIsFinal ==
  [][\A j \in Jobs \ early :
       /\ status[j] \in Terminal => status'[j] \in {status[j], "none"}
       /\ status[j] = "none" /\ ppc[j] # "idle" => status'[j] = "none"]_vars

\* The tasks and the threads are a TaskQueue: the interleaving of the statements of
\* claim_next_pending_task, complete_task, fail_task, insert_job_task and delete_job
\* with each other cannot be told from handing out tasks one at a time.
Queue == INSTANCE TaskQueue WITH state <- tstat, holds <- [w \in Workers |-> task[w]]
ImplementsTaskQueue == Queue!Spec

\* If no thread dies, every job comes to rest: completed, failed or deleted,
\* even when finalizers raced with the enrolment.
EveryJobSettles ==
  \A j \in Jobs : <>[](status[j] \in Terminal \cup {"none"})

\* If no thread dies, a completed job that is not deleted is announced.
CompletionIsAnnounced ==
  \A j \in Jobs : status[j] = "completed" ~> ("success" \in notes[j] \/ status[j] = "none")

\* job_tasks_worker.py, try_finalize_job: "no-op while a task is in progress".
FinalizeIsNoOpWhileUnfinished ==
  [][\A j \in Jobs : status[j] \notin Terminal /\ status'[j] \in Terminal
                       => Unfinished(j) = {}]_vars

\* db.py, start_job_running: callers check the status first, so that a completed
\* or failed job does not become running again.
TerminalIsNotRestarted ==
  [][\A j \in Jobs : status[j] \in Terminal => status'[j] # "running"]_vars

\* jobs.py, delete_job_endpoint: a deleted job is gone for good, with its report,
\* task rows, partial results and notifications.
DeletedStaysDeleted ==
  \A j \in Jobs : dpc[j] = "deleted" =>
    /\ j \notin result /\ notes[j] = {}
    /\ TasksOf(j, TaskStatus \ {"gone"}) = {}
    /\ partial[j] = <<>> /\ report[j] = NoReport /\ copy[j] = <<>>

=============================================================================
