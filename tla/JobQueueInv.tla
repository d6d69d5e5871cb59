------------------------------ MODULE JobQueueInv ------------------------------
(***************************************************************************)
(* The inductive strengthenings of the invariants of JobQueue: what holds  *)
(* between any two statements, and is enough for the next one.             *)
(***************************************************************************)
EXTENDS JobQueue

HoldPcs == {"load", "fetch", "start", "evaluate", "append", "completetask", "failtask"}

\* Ids are handed out in order and belong to a job, an actor inside a handler has a
\* job, a preparer about to insert has personas left, and exactly the threads
\* between a claim and the end of its task hold a task, one of the job they work on.
Bookkeeping ==
  /\ \A t \in TaskIds : tstat[t] = "unborn" <=> t >= nextId
  /\ \A t \in TaskIds : tstat[t] # "unborn" <=> tjob[t] \in Jobs
  /\ \A j \in Jobs    : ppc[j] \in {"unlink", "insert"} => left[j] > 0
  /\ \A a \in Actors  : pc[a] # "idle" => jobOf[a] \in Jobs
  /\ \A a \in Actors  : IF pc[a] \in HoldPcs
                          THEN task[a] \in TaskIds /\ a \in Workers /\ jobOf[a] = tjob[task[a]]
                          ELSE task[a] = NoTask

TypeInv == TypeOK /\ Bookkeeping

\* A claim takes a pending task, and an abandoned or a held task is never pending.
ClaimInv ==
  /\ TypeInv
  /\ ExclusiveClaim
  /\ \A t \in stranded : tstat[t] \in {"running", "gone"}

\* Once created a job has left "idle"; a job without a row has neither a completed
\* task nor a thread that may still complete one that is there.
DeletionInv ==
  /\ \A j \in Jobs : ppc[j] = "idle" => status[j] = "none" /\ dpc[j] = "idle"
  /\ \A j \in Jobs : dpc[j] \in {"purge", "deleted"} => status[j] = "none"
  /\ \A t \in TaskIds : tstat[t] = "completed" => status[tjob[t]] # "none"
  /\ \A w \in Workers :
       pc[w] \in {"start", "evaluate", "append", "completetask"} /\ tstat[task[w]] # "gone"
         => status[jobOf[w]] # "none"

\* Tasks exist only after the old file has been unlinked; a line names a task of its
\* job; a thread's own line is there after it appended and not before.
LineInv ==
  /\ \A j \in Jobs : ppc[j] \in {"idle", "normalize", "check", "retrieve", "unlink"}
       => \A t \in TaskIds : tjob[t] # j
  /\ \A j \in Jobs : (ppc[j] = "insert" \/ \E t \in TaskIds : tjob[t] = j)
       => Leftover \notin RowsOf(partial[j])
  /\ \A j \in Jobs : \A l \in RowsOf(partial[j]) : l # Leftover => tjob[l] = j
  /\ \A w \in Workers : pc[w] \in HoldPcs \ {"completetask"}
       => task[w] \notin RowsOf(partial[jobOf[w]])
  /\ \A w \in Workers : pc[w] = "completetask" /\ tstat[task[w]] # "gone"
       => task[w] \in RowsOf(partial[jobOf[w]])

RowsInv == ClaimInv /\ DeletionInv /\ LineInv /\ RowsMatchTasks

-----------------------------------------------------------------------------
(* The verdict.                                                            *)

\* The preparer inserts no more rows.
EndPcs == {"norows", "norowsnote", "publish", "info", "done", "dead"}

\* How far a finalizer is: the pending tasks are counted, the running ones too, the
\* failed ones too.
PendingCounted == {"cntrunning", "cntfailed", "refetch", "readrows", "failjob", "errornote",
                   "open", "write", "copy", "completejob", "successnote"}
RunningCounted == PendingCounted \ {"cntrunning"}
FailedCounted  == RunningCounted \ {"cntfailed"}
Failing        == {"failjob", "errornote"}
Completing     == {"open", "write", "copy", "completejob", "successnote"}

HasTask(j)     == \E t \in TaskIds : tjob[t] = j
NonePending(j) == ppc[j] \in EndPcs /\ \A t \in TaskIds : tjob[t] = j => tstat[t] # "pending"
Ended(j)       == NonePending(j) /\ \A t \in TaskIds : tjob[t] = j => tstat[t] # "running"
Scored(j)      == \E t \in TaskIds : tjob[t] = j /\ tstat[t] = "completed"

\* The reservation of the properties: the job is there, and nobody counted its tasks
\* during the enrolment.
Regular(j) == status[j] # "none" /\ j \notin early

\* Task rows go only with their job; whoever works on a job, and whatever became of it
\* but a failure, came after its first task.
EnrolledInv ==
  /\ \A t \in TaskIds : tstat[t] = "gone" => status[tjob[t]] = "none"
  /\ \A j \in Jobs : ppc[j] \in {"publish", "info"} => HasTask(j)
  /\ \A j \in Jobs : ppc[j] \in {"norows", "norowsnote"} => ~HasTask(j)
  /\ \A j \in Jobs : status[j] \in {"pending", "running", "completed"} \/ report[j].state # "none" \/ "success" \in notes[j]
       => HasTask(j)
  /\ \A j \in Jobs : "error" \in notes[j] => ppc[j] # "idle"
  /\ \A a \in Actors : pc[a] # "idle" => HasTask(jobOf[a])

\* What a finalizer has found so far is still true.
CountOf(a) ==
  \A j \in Jobs : jobOf[a] = j /\ Regular(j) =>
    /\ pc[a] \in PendingCounted => NonePending(j)
    /\ pc[a] \in RunningCounted => Ended(j)
    /\ pc[a] \in FailedCounted  => nfail[a] = Cardinality(TasksOf(j, {"failed"}))
    /\ pc[a] \in DecidedPcs     => RowsOf(seen[a]) = TasksOf(j, {"completed"})
    /\ pc[a] \in Failing        => ~Scored(j)
    /\ pc[a] \in Completing     => Scored(j)

\* A job with a verdict, a report or an announcement has no task that could still
\* change, and they are what its tasks call for.
VerdictOf(j) ==
  Regular(j) =>
    /\ status[j] \in Terminal    => Ended(j)
    /\ status[j] = "completed"   => Scored(j) /\ j \in result
    /\ status[j] = "failed"      => ~Scored(j)
    /\ report[j].state # "none"  => Ended(j)
    /\ report[j].state = "whole" => /\ RowsOf(report[j].rows) = TasksOf(j, {"completed"})
                                    /\ report[j].failed = Cardinality(TasksOf(j, {"failed"}))
    /\ "success" \in notes[j]    => Ended(j) /\ Scored(j)
    /\ "error" \in notes[j]      => Ended(j) /\ ~Scored(j)

\* Two jobs that share a pool: lines, tasks, counts, reports, announcements and
\* verdicts agree at every point of every handler.  No step needs more than this to
\* leave it true.
VerdictInv ==
  /\ RowsInv
  /\ EnrolledInv
  /\ \A a \in Actors : CountOf(a)
  /\ \A j \in Jobs : VerdictOf(j)

-----------------------------------------------------------------------------
(* The life of a job.                                                      *)

\* A job that is gone takes no more tasks and has none, and whoever is about to
\* announce a verdict announces the one the job has.
LifeInv ==
  /\ \A j \in early : HasTask(j)
  /\ \A j \in Jobs \ early :
       /\ status[j] = "none" /\ ppc[j] # "idle" =>
            ppc[j] \in EndPcs /\ \A t \in TaskIds : tjob[t] = j => tstat[t] = "gone"
       /\ ppc[j] = "norowsnote" => status[j] \in {"failed", "none"}
       /\ \A a \in Actors : jobOf[a] = j =>
            /\ pc[a] = "errornote"   => status[j] \in {"failed", "none"}
            /\ pc[a] = "successnote" => status[j] \in {"completed", "none"}

PhaseOf(j) ==
  IF j \in early THEN "overtaken"
  ELSE IF status[j] = "none" THEN IF ppc[j] = "idle" THEN "absent" ELSE "removed"
  ELSE IF status[j] \in {"pending", "running"} THEN "offered" ELSE status[j]

phase     == [j \in Jobs |-> PhaseOf(j)]
enrolling == {j \in Jobs : ppc[j] \notin EndPcs \cup {"idle"}}
told      == [j \in Jobs |-> notes[j] \ {"info"}]

\* To whoever looks at jobs, job_tasks, job_results and notifications, a job is a
\* JobLife: the dozen statements of a finalizer, several of which may run at once,
\* cannot be told from closing it in one step (_maybe_finalize_job, start_job_running,
\* mark_job_pending_from_preparing, fail_job, complete_job, delete_job).
Life == INSTANCE JobLife WITH owner <- tjob, state <- tstat, results <- result
ImplementsJobLife == Life!Spec

=============================================================================
