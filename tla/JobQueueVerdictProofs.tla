------------------------ MODULE JobQueueVerdictProofs ------------------------
(* That the outcome of a job is the outcome of its tasks, for every         *)
(* instance of JobQueue.                                                    *)
(*                                                                          *)
(* Once nobody inserts tasks of a job and all have ended, they stay as they *)
(* are as long as the job is there (EndedStays); so whatever a finalizer    *)
(* has read and counted is still true when it acts on it.                   *)
EXTENDS JobQueueRowsProofs

-----------------------------------------------------------------------------
(* What any step leaves of a job that is over.                              *)

\* Tasks are inserted for a job that is being enrolled, go forward, and are removed
\* with their job; an enrolment that has ended stays so, and only Create makes a job.
Forward ==
  /\ \A t \in TaskIds : tjob[t] \in Jobs => tjob'[t] = tjob[t]
  /\ \A t \in TaskIds : tjob[t] \notin Jobs /\ tjob'[t] \in Jobs => ppc[tjob'[t]] = "insert"
  /\ \A t \in TaskIds : tjob[t] \in Jobs =>
       \/ tstat'[t] = tstat[t]
       \/ tstat[t] = "pending" /\ tstat'[t] = "running"
       \/ tstat[t] = "running" /\ tstat'[t] \in {"completed", "failed"}
       \/ tstat'[t] = "gone" /\ status'[tjob[t]] = "none"
  /\ \A t \in TaskIds : tjob'[t] \in Jobs /\ tjob[t] \notin Jobs => tstat'[t] = "pending"
  /\ \A j \in Jobs : ppc[j] \in EndPcs => ppc'[j] \in EndPcs
  /\ \A j \in Jobs : ppc[j] # "idle" => ppc'[j] # "idle"
  /\ \A j \in Jobs : status[j] = "none" /\ status'[j] # "none" => ppc[j] = "idle"
  /\ early \subseteq early'

LEMMA NextIsForward == Good /\ [Next]_vars => Forward
  <1> SUFFICES ASSUME Good, [Next]_vars PROVE Forward
    OBVIOUS
  <1> USE TypesOfGood DEF Forward, db, files, prep, acts, hist, SetStatus, EndPcs
  <1>1. ASSUME NEW j \in Jobs, Create(j) PROVE Forward
    BY <1>1 DEF Create, PrepGoto
  <1>2. ASSUME NEW j \in Jobs, DeleteRequest(j) \/ Purge(j) PROVE Forward
    BY <1>2 DEF DeleteRequest, Purge
  <1>3. ASSUME NEW j \in Jobs, PrepAborts(j) PROVE Forward
    BY <1>3 DEF PrepAborts
  <1>4. ASSUME NEW j \in Jobs, NormalizeOk(j) \/ NormalizeFails(j) \/ PrepCheck(j) PROVE Forward
    BY <1>4 DEF NormalizeOk, NormalizeFails, PrepCheck, PrepGoto
  <1>5. ASSUME NEW j \in Jobs, Retrieve(j) \/ NoRowsFail(j) \/ NoRowsNote(j) \/ UnlinkPartial(j) PROVE Forward
    BY <1>5 DEF Retrieve, NoRowsFail, NoRowsNote, UnlinkPartial, PrepGoto
  <1>6. ASSUME NEW j \in Jobs, Publish(j) \/ InfoNote(j) PROVE Forward
    BY <1>6 DEF Publish, InfoNote, PrepGoto
  <1>7. ASSUME NEW j \in Jobs, InsertTask(j) PROVE Forward
    <2>1. nextId \in TaskIds /\ tstat[nextId] = "unborn" /\ tjob[nextId] \notin Jobs
      BY <1>7 DEF InsertTask, Bookkeeping, TaskIds
    <2>2. /\ ppc[j] = "insert" /\ UNCHANGED <<status, early>>
          /\ tjob' = [tjob EXCEPT ![nextId] = j] /\ tstat' = [tstat EXCEPT ![nextId] = "pending"]
          /\ \E to \in {"publish", "insert"} : ppc' = [ppc EXCEPT ![j] = to]
      BY <1>7 DEF InsertTask, PrepGoto
    <2> QED BY <2>1, <2>2
  <1>8. ASSUME NEW j \in Jobs, DeleteRows(j) PROVE Forward
    BY <1>8 DEF DeleteRows
  <1>9. ASSUME NEW w \in Workers, Claim(w) PROVE Forward
    BY <1>9 DEF Claim, Claimable
  <1>10. ASSUME NEW w \in Workers, Load(w) \/ FetchJob(w) \/ StartRunning(w) \/ Evaluate(w) \/ AppendRow(w)
         PROVE  Forward
    BY <1>10 DEF Load, FetchJob, StartRunning, Evaluate, AppendRow
  <1>11. ASSUME NEW w \in Workers, CompleteTask(w) \/ FailTask(w) PROVE Forward
    <2>1. pc[w] \in HoldPcs
      BY <1>11 DEF CompleteTask, FailTask, EndTask, Goto, HoldPcs
    <2>2. task[w] \in TaskIds /\ tstat[task[w]] \in {"running", "gone"}
      BY <2>1, HandsOfGood
    <2>3. PICK s \in {"completed", "failed"} : SetTask(task[w], s)
      BY <1>11 DEF CompleteTask, FailTask, EndTask
    <2> QED BY <1>11, <2>2, <2>3 DEF CompleteTask, FailTask, EndTask, SetTask
  <1>12. ASSUME NEW a \in Actors, Finalize(a) PROVE Forward
    <2>1. Quiet
      BY <1>12, FinalizeIsQuiet
    <2>2. early \subseteq early'
      BY <1>12 DEF Finalize, CountPending, CountRunning, CountFailed, RefetchJob, ReadRows, FailJob, ErrorNote,
                   OpenReport, WriteReport, CopyPartial, CompleteJob, SuccessNote
    <2> QED BY <2>1, <2>2 DEF Quiet
  <1>13. ASSUME NEW r \in Readers, GetBreakdown(r) \/ \E j \in Jobs : GetJob(r, j) PROVE Forward
    BY <1>13 DEF GetBreakdown, GetJob
  <1>14. ASSUME NEW a \in Actors, ActorAborts(a) PROVE Forward
    BY <1>14 DEF ActorAborts
  <1>15. CASE UNCHANGED vars
    BY <1>15 DEF vars
  <1> QED
    BY <1>1, <1>2, <1>3, <1>4, <1>5, <1>6, <1>7, <1>8, <1>9, <1>10, <1>11, <1>12, <1>13, <1>14, <1>15
    DEF Next, Request, Handle, Fault, PrepStep, DeleteStep, WorkerStep, WorkerOwn, ReaderStep, Actors

LEMMA EndedStays ==
  ASSUME Good, Forward, NEW j \in Jobs
  PROVE  /\ HasTask(j) => HasTask(j)'
         /\ Regular(j)' /\ ppc[j] # "idle" => Regular(j)
         /\ Regular(j)' /\ NonePending(j) => NonePending(j)'
         /\ Regular(j)' /\ Ended(j) =>
              /\ Ended(j)' /\ (Scored(j)' <=> Scored(j))
              /\ TasksOf(j, {"completed"})' = TasksOf(j, {"completed"})
              /\ TasksOf(j, {"failed"})' = TasksOf(j, {"failed"})
  <1>1. HasTask(j) => HasTask(j)'
    BY DEF Forward, HasTask
  <1>2. Regular(j)' /\ ppc[j] # "idle" => Regular(j)
    BY DEF Forward, Regular
  <1>3. ppc[j] \in EndPcs => ppc'[j] \in EndPcs /\ \A t \in TaskIds : tjob'[t] = j <=> tjob[t] = j
    BY DEF Forward, EndPcs
  <1>4. Regular(j)' /\ NonePending(j) => NonePending(j)'
    BY <1>3 DEF Forward, NonePending, Regular
  <1>5. Regular(j)' /\ Ended(j) => \A t \in TaskIds : tjob[t] = j => tstat'[t] = tstat[t]
    BY DEF Forward, Ended, NonePending, Regular
  <1>6. ASSUME Regular(j)', Ended(j)
        PROVE  /\ Ended(j)' /\ (Scored(j)' <=> Scored(j))
               /\ TasksOf(j, {"completed"})' = TasksOf(j, {"completed"})
               /\ TasksOf(j, {"failed"})' = TasksOf(j, {"failed"})
    <2>1. ppc[j] \in EndPcs
      BY <1>6 DEF Ended, NonePending
    <2>2. Ended(j)' /\ (Scored(j)' <=> Scored(j))
      BY <1>3, <1>4, <1>5, <1>6, <2>1 DEF Ended, Scored
    <2>3. TasksOf(j, {"completed"})' = TasksOf(j, {"completed"}) /\ TasksOf(j, {"failed"})' = TasksOf(j, {"failed"})
      BY <1>3, <1>5, <1>6, <2>1 DEF TasksOf
    <2> QED BY <2>2, <2>3
  <1> QED BY <1>1, <1>2, <1>4, <1>6

-----------------------------------------------------------------------------
(* Everything but a failure comes after the first task.                     *)

\* A preparer is past its insertions only with a task, what is written of a job is
\* written by somebody who has a task of it, and so is the job of every handler.
Founded ==
  /\ \A j \in Jobs : ppc'[j] \in {"publish", "info"} => ppc[j] \in {"publish", "info"} \/ HasTask(j)'
  /\ \A j \in Jobs : ppc'[j] \in {"norows", "norowsnote"} => ppc[j] \in {"norows", "norowsnote", "retrieve"}
  /\ \A j \in Jobs : status'[j] \in {"pending", "running", "completed"}
       => status[j] \in {"pending", "running", "completed"} \/ HasTask(j)
  /\ \A j \in Jobs : report'[j].state # "none" => report[j].state # "none" \/ HasTask(j)
  /\ \A j \in Jobs : "success" \in notes'[j] => "success" \in notes[j] \/ HasTask(j)
  /\ \A j \in Jobs : "error" \in notes'[j] => "error" \in notes[j] \/ ppc[j] # "idle"
  /\ \A a \in Actors : pc'[a] # "idle" => (pc[a] # "idle" /\ jobOf'[a] = jobOf[a]) \/ HasTask(jobOf'[a])

LEMMA TasksComeAfterUnlink == Good => \A j \in Jobs : HasTask(j) => ppc[j] \notin BeforeInsert
  BY DEF Good, Kept, RowFacts, HasTask

LEMMA EnrolledFrom ==
  ASSUME Good, ClaimInv', EnrolledInv, Forward, Founded
  PROVE  EnrolledInv'
  <1>0. \A a \in Actors : pc'[a] # "idle" => jobOf'[a] \in Jobs
    BY DEF ClaimInv, TypeInv, Bookkeeping
  <1>1. \A j \in Jobs : HasTask(j) => HasTask(j)' /\ ppc[j] # "idle"
    BY EndedStays, TasksComeAfterUnlink DEF BeforeInsert
  <1>2. ASSUME NEW t \in TaskIds, tstat'[t] = "gone" PROVE status'[tjob'[t]] = "none"
    <2>1. tjob'[t] \in Jobs
      BY <1>2 DEF ClaimInv, TypeInv, Bookkeeping
    <2>2. tjob[t] \in Jobs
      BY <1>2, <2>1 DEF Forward
    <2>3. CASE tstat[t] = "gone"
      <3>1. status[tjob[t]] = "none" /\ HasTask(tjob[t])
        BY <2>3 DEF EnrolledInv, HasTask
      <3> QED BY <1>1, <2>2, <3>1 DEF Forward
    <2>4. CASE tstat[t] # "gone"
      BY <1>2, <2>2, <2>4 DEF Forward
    <2> QED BY <2>3, <2>4
  <1>3. \A j \in Jobs : ppc'[j] \in {"publish", "info"} => HasTask(j)'
    BY <1>1 DEF EnrolledInv, Founded
  <1>4. ASSUME NEW j \in Jobs, ppc'[j] \in {"norows", "norowsnote"} PROVE ~HasTask(j)'
    <2>1. ppc[j] \in {"norows", "norowsnote", "retrieve"}
      BY <1>4 DEF Founded
    <2>2. ~HasTask(j)
      BY <2>1, TasksComeAfterUnlink DEF EnrolledInv, BeforeInsert
    <2> QED BY <2>1, <2>2 DEF HasTask, Forward
  <1>5. /\ \A j \in Jobs : status'[j] \in {"pending", "running", "completed"} => HasTask(j)'
        /\ \A j \in Jobs : report'[j].state # "none" => HasTask(j)'
        /\ \A j \in Jobs : "success" \in notes'[j] => HasTask(j)'
    BY <1>1 DEF EnrolledInv, Founded
  <1>6. \A j \in Jobs : "error" \in notes'[j] => ppc'[j] # "idle"
    BY DEF EnrolledInv, Founded, Forward
  <1>7. ASSUME NEW a \in Actors, pc'[a] # "idle" PROVE HasTask(jobOf[a])'
    <2>1. HasTask(jobOf'[a])
      BY <1>7 DEF EnrolledInv, Founded
    <2>2. \A j \in Jobs : HasTask(j) => HasTask(j)'
      BY <1>1
    <2> QED BY <1>0, <1>7, <2>1, <2>2 DEF HasTask
  <1> QED BY <1>2, <1>3, <1>4, <1>5, <1>6, <1>7 DEF EnrolledInv

LEMMA FilesOfGood ==
  Good => /\ report \in [Jobs -> Reports] /\ notes \in [Jobs -> SUBSET {"info", "success", "error"}]
          /\ seen \in [Actors -> Lines] /\ nfail \in [Actors -> Nat] /\ result \in SUBSET Jobs
          /\ left \in [Jobs -> 0..MaxRows] /\ early \in SUBSET Jobs
  BY DEF Good, ClaimInv, TypeInv, TypeOK, DbTypeOK, FilesTypeOK, HandlersTypeOK

LEMMA NextIsFounded == Good /\ EnrolledInv /\ [Next]_vars => Founded
  <1> SUFFICES ASSUME Good, EnrolledInv, [Next]_vars PROVE Founded
    OBVIOUS
  <1>0. /\ \A j \in Jobs : HasTask(j) => ppc[j] \notin BeforeInsert
        /\ \A a \in Actors : pc[a] # "idle" => HasTask(jobOf[a]) /\ jobOf[a] \in Jobs
    BY TasksComeAfterUnlink, TypesOfGood DEF EnrolledInv, Bookkeeping
  <1> USE TypesOfGood, FilesOfGood DEF Founded, db, files, prep, acts, hist, SetStatus, AddNotification
  <1>1. ASSUME NEW j \in Jobs, Create(j) PROVE Founded
    BY <1>1 DEF Create, PrepGoto
  <1>2. ASSUME NEW j \in Jobs, DeleteRequest(j) \/ PrepAborts(j) PROVE Founded
    BY <1>2 DEF DeleteRequest, PrepAborts
  <1>3. ASSUME NEW j \in Jobs, Purge(j) PROVE Founded
    BY <1>3 DEF Purge, NoReport
  <1>4. ASSUME NEW j \in Jobs, NormalizeOk(j) \/ NormalizeFails(j) \/ PrepCheck(j) PROVE Founded
    BY <1>4 DEF NormalizeOk, NormalizeFails, PrepCheck, PrepGoto
  <1>5. ASSUME NEW j \in Jobs, Retrieve(j) \/ NoRowsFail(j) \/ NoRowsNote(j) \/ UnlinkPartial(j) PROVE Founded
    <2>1. CASE Retrieve(j)
      <3>1. PICK to \in {"norows", "unlink"} : ppc[j] = "retrieve" /\ ppc' = [ppc EXCEPT ![j] = to]
        BY <2>1 DEF Retrieve, PrepGoto
      <3> QED BY <2>1, <3>1 DEF Retrieve
    <2>2. CASE NoRowsFail(j) \/ NoRowsNote(j)
      BY <2>2 DEF NoRowsFail, NoRowsNote, PrepGoto
    <2>3. CASE UnlinkPartial(j)
      BY <2>3 DEF UnlinkPartial, PrepGoto
    <2> QED BY <1>5, <2>1, <2>2, <2>3
  <1>6. ASSUME NEW j \in Jobs, Publish(j) \/ InfoNote(j) PROVE Founded
    BY <1>6 DEF Publish, InfoNote, PrepGoto, EnrolledInv
  <1>7. ASSUME NEW j \in Jobs, InsertTask(j) PROVE Founded
    <2>1. HasTask(j)'
      BY <1>7 DEF InsertTask, HasTask
    <2>2. /\ UNCHANGED <<status, report, notes, pc, jobOf>>
          /\ \E to \in {"publish", "insert"} : ppc' = [ppc EXCEPT ![j] = to]
      BY <1>7 DEF InsertTask, PrepGoto
    <2> QED BY <2>1, <2>2
  <1>8. ASSUME NEW j \in Jobs, DeleteRows(j) PROVE Founded
    BY <1>8 DEF DeleteRows
  <1>9. ASSUME NEW w \in Workers, Claim(w) PROVE Founded
    <2>1. PICK t \in TaskIds : jobOf' = [jobOf EXCEPT ![w] = tjob[t]]
      BY <1>9 DEF Claim, Claimable
    <2>2. HasTask(tjob[t])
      BY DEF HasTask
    <2> QED BY <1>9, <2>1, <2>2 DEF Claim, Goto
  <1>10. ASSUME NEW w \in Workers, Load(w) \/ FetchJob(w) \/ Evaluate(w) \/ AppendRow(w) PROVE Founded
    BY <1>10 DEF Load, FetchJob, Evaluate, AppendRow, Goto, Return
  <1>11. ASSUME NEW w \in Workers, StartRunning(w) PROVE Founded
    BY <1>0, <1>11 DEF StartRunning, Goto
  <1>12. ASSUME NEW w \in Workers, CompleteTask(w) \/ FailTask(w) PROVE Founded
    BY <1>12 DEF CompleteTask, FailTask, EndTask, Goto
  <1>13. ASSUME NEW a \in Actors, Finalize(a) PROVE Founded
    <2>0. pc[a] # "idle" /\ HasTask(jobOf[a]) /\ jobOf[a] \in Jobs /\ ppc[jobOf[a]] # "idle"
      BY <1>0, <1>13 DEF Finalize, CountPending, CountRunning, CountFailed, RefetchJob, ReadRows, FailJob, ErrorNote,
                   OpenReport, WriteReport, CopyPartial, CompleteJob, SuccessNote, Goto, BeforeInsert
    <2>1. \A b \in Actors : pc'[b] # "idle" => pc[b] # "idle" /\ jobOf'[b] = jobOf[b]
      BY <1>13, <2>0 DEF Finalize, CountPending, CountRunning, CountFailed, RefetchJob, ReadRows, FailJob, ErrorNote,
                   OpenReport, WriteReport, CopyPartial, CompleteJob, SuccessNote, Goto, Return
    <2>2. ppc' = ppc /\ \A j \in Jobs : j # jobOf[a] => status'[j] = status[j] /\ notes'[j] = notes[j]
      BY <1>13, <2>0 DEF Finalize, CountPending, CountRunning, CountFailed, RefetchJob, ReadRows, FailJob, ErrorNote,
                   OpenReport, WriteReport, CopyPartial, CompleteJob, SuccessNote
    <2>3. \A j \in Jobs : j # jobOf[a] => report'[j] = report[j]
      BY <1>13, <2>0 DEF Finalize, CountPending, CountRunning, CountFailed, RefetchJob, ReadRows, FailJob, ErrorNote,
                   OpenReport, WriteReport, CopyPartial, CompleteJob, SuccessNote
    <2> QED BY <2>0, <2>1, <2>2, <2>3
  <1>14. ASSUME NEW r \in Readers, GetBreakdown(r) PROVE Founded
    BY <1>14 DEF GetBreakdown, Goto, Return
  <1>15. ASSUME NEW r \in Readers, NEW j \in Jobs, GetJob(r, j) PROVE Founded
    BY <1>15 DEF GetJob, Goto, EnrolledInv
  <1>16. ASSUME NEW a \in Actors, ActorAborts(a) PROVE Founded
    BY <1>16 DEF ActorAborts, Return
  <1>17. CASE UNCHANGED vars
    BY <1>17 DEF vars
  <1> QED
    BY <1>1, <1>2, <1>3, <1>4, <1>5, <1>6, <1>7, <1>8, <1>9, <1>10, <1>11, <1>12, <1>13, <1>14, <1>15, <1>16, <1>17
    DEF Next, Request, Handle, Fault, PrepStep, DeleteStep, WorkerStep, WorkerOwn, ReaderStep, Actors

-----------------------------------------------------------------------------
(* What a finalizer has found so far.                                       *)

\* An actor that stays where it is: what it found is as true as before.
LEMMA FoundStays ==
  ASSUME Good, EnrolledInv, Forward, NEW a \in Actors, CountOf(a),
         pc'[a] = pc[a], jobOf'[a] = jobOf[a], seen'[a] = seen[a], nfail'[a] = nfail[a]
  PROVE  CountOf(a)'
  <1> SUFFICES ASSUME NEW j \in Jobs, jobOf[a] = j, Regular(j)', pc[a] \in PendingCounted
               PROVE  /\ NonePending(j)'
                      /\ pc[a] \in RunningCounted => Ended(j)'
                      /\ pc[a] \in FailedCounted  => nfail[a] = Cardinality(TasksOf(j, {"failed"}))'
                      /\ pc[a] \in DecidedPcs     => RowsOf(seen[a]) = TasksOf(j, {"completed"})'
                      /\ pc[a] \in Failing        => ~Scored(j)'
                      /\ pc[a] \in Completing     => Scored(j)'
    BY DEF CountOf, PendingCounted, RunningCounted, FailedCounted, DecidedPcs, Failing, Completing
  <1>1. ppc[j] # "idle"
    BY TasksComeAfterUnlink DEF EnrolledInv, BeforeInsert, PendingCounted
  <1>2. Regular(j)
    BY <1>1, EndedStays
  <1>3. /\ NonePending(j)
        /\ pc[a] \in RunningCounted => Ended(j)
        /\ pc[a] \in FailedCounted  => nfail[a] = Cardinality(TasksOf(j, {"failed"}))
        /\ pc[a] \in DecidedPcs     => RowsOf(seen[a]) = TasksOf(j, {"completed"})
        /\ pc[a] \in Failing        => ~Scored(j)
        /\ pc[a] \in Completing     => Scored(j)
    BY <1>2 DEF CountOf
  <1>4. NonePending(j)'
    BY <1>3, EndedStays
  <1>5. CASE pc[a] \notin RunningCounted
    BY <1>4, <1>5 DEF RunningCounted, FailedCounted, DecidedPcs, Failing, Completing, PendingCounted
  <1>6. CASE pc[a] \in RunningCounted
    <2>1. /\ Ended(j)' /\ (Scored(j)' <=> Scored(j))
          /\ TasksOf(j, {"completed"})' = TasksOf(j, {"completed"})
          /\ TasksOf(j, {"failed"})' = TasksOf(j, {"failed"})
      BY <1>3, <1>6, EndedStays
    <2> QED BY <1>3, <1>4, <2>1
  <1> QED BY <1>5, <1>6

\* An actor that is not (or not yet) past a count has found nothing.
LEMMA NothingFound == ASSUME NEW a \in Actors, pc'[a] \notin PendingCounted PROVE CountOf(a)'
  BY DEF CountOf, PendingCounted, RunningCounted, FailedCounted, DecidedPcs, Failing, Completing

\* The lines of a job all of whose tasks have ended are its completed tasks.
LEMMA RowsAreCompleted ==
  ASSUME Good, EnrolledInv, NEW j \in Jobs, Regular(j), Ended(j), HasTask(j)
  PROVE  RowsOf(partial[j]) = TasksOf(j, {"completed"})
  <1>1. rows[j] = RowsOf(partial[j])
    BY DEF rows
  <1>2. ASSUME NEW l \in rows[j] PROVE l \in TasksOf(j, {"completed"})
    <2>1. l # Leftover
      BY <1>2 DEF Good, Kept, RowFacts, HasTask
    <2>2. l \in TaskIds /\ tjob[l] = j
      BY <1>2, <2>1 DEF Good, Kept, RowFacts
    <2>3. tstat[l] \notin {"unborn", "gone", "pending", "failed", "running"}
      BY <1>2, <2>2, TypesOfGood DEF Good, Kept, RowFacts, EnrolledInv, Regular, Ended, NonePending, Bookkeeping
    <2> QED BY <2>2, <2>3, TypesOfGood DEF TasksOf, TaskStatus
  <1>3. ASSUME NEW t \in TasksOf(j, {"completed"}) PROVE t \in rows[j]
    BY <1>3 DEF Good, Kept, RowFacts, TasksOf
  <1> QED BY <1>1, <1>2, <1>3

LEMMA NoLineNoRow == \A r \in Lines : r = <<>> <=> RowsOf(r) = {}
  <1> SUFFICES ASSUME NEW r \in Lines, r # <<>> PROVE RowsOf(r) # {}
    BY RowsOfLines
  <1>1. 1 \in DOMAIN r
    BY DEF Lines
  <1>2. r[1] \in RowsOf(r)
    BY <1>1 DEF RowsOf
  <1> QED BY <1>2

\* A step of a finalizer: what it finds is true of the job as it is.
LEMMA FinalizerFinds ==
  ASSUME Good, EnrolledInv, NEW a \in Actors, Finalize(a), CountOf(a)
  PROVE  CountOf(a)'
  <1> USE DEF Goto, Return, db, files, prep, acts
  <1>1. Quiet /\ Forward
    <2>1. [Next]_vars
      BY DEF Next, Handle, WorkerStep, ReaderStep, Actors
    <2> QED BY <2>1, FinalizeIsQuiet, NextIsForward
  <1>2. pc[a] \in PendingCounted \cup {"cntpending"}
    BY DEF Finalize, CountPending, CountRunning, CountFailed, RefetchJob, ReadRows, FailJob, ErrorNote,
           OpenReport, WriteReport, CopyPartial, CompleteJob, SuccessNote, PendingCounted
  <1>3. PICK j \in Jobs : j = jobOf[a]
    BY <1>2, TypesOfGood DEF Bookkeeping, PendingCounted
  <1>4. HasTask(j) /\ ppc[j] \notin BeforeInsert /\ ppc[j] \in PrepPcs
    BY <1>2, <1>3, TasksComeAfterUnlink, TypesOfGood DEF EnrolledInv, PendingCounted
  <1>5. Regular(j)' => Regular(j)
    BY <1>4, <1>1, EndedStays DEF BeforeInsert
  <1>6. /\ NonePending(j)' <=> NonePending(j)
        /\ Ended(j)' <=> Ended(j)
        /\ Scored(j)' <=> Scored(j)
        /\ TasksOf(j, {"completed"})' = TasksOf(j, {"completed"})
        /\ TasksOf(j, {"failed"})' = TasksOf(j, {"failed"})
    BY <1>1 DEF Quiet, NonePending, Ended, Scored, TasksOf
  <1>7. Regular(j) =>
          /\ pc[a] \in PendingCounted => NonePending(j)
          /\ pc[a] \in RunningCounted => Ended(j)
          /\ pc[a] \in FailedCounted  => nfail[a] = Cardinality(TasksOf(j, {"failed"}))
          /\ pc[a] \in DecidedPcs     => RowsOf(seen[a]) = TasksOf(j, {"completed"})
          /\ pc[a] \in Failing        => ~Scored(j)
          /\ pc[a] \in Completing     => Scored(j)
    BY <1>3 DEF CountOf
  <1> USE DEF PendingCounted, RunningCounted, FailedCounted, DecidedPcs, Failing, Completing
  <1>8. CASE pc'[a] \notin PendingCounted
    BY <1>8, NothingFound
  <1>9. CASE CountPending(a) /\ pc'[a] \in PendingCounted
    <2>1. /\ pc'[a] = "cntrunning" /\ jobOf'[a] = j /\ TasksOf(j, {"pending"}) = {}
          /\ ppc[j] = "insert" => j \in early'
      BY <1>3, <1>9, TypesOfGood, FilesOfGood DEF CountPending
    <2>2. Regular(j)' => ppc[j] \in EndPcs
      BY <1>4, <2>1 DEF Regular, BeforeInsert, PrepPcs, EndPcs
    <2>3. Regular(j)' => NonePending(j)'
      BY <1>6, <2>1, <2>2 DEF NonePending, TasksOf
    <2> QED BY <2>1, <2>3 DEF CountOf
  <1>10. CASE CountRunning(a) /\ pc'[a] \in PendingCounted
    <2>1. pc'[a] = "cntfailed" /\ pc[a] = "cntrunning" /\ jobOf'[a] = j /\ TasksOf(j, {"running"}) = {}
      BY <1>3, <1>10, TypesOfGood DEF CountRunning
    <2>2. Regular(j)' => NonePending(j)' /\ Ended(j)'
      BY <1>5, <1>6, <1>7, <2>1 DEF Ended, TasksOf
    <2> QED BY <2>1, <2>2 DEF CountOf
  <1>11. CASE CountFailed(a)
    <2>1. /\ pc'[a] = "refetch" /\ pc[a] = "cntfailed" /\ jobOf'[a] = j
          /\ nfail'[a] = Cardinality(TasksOf(j, {"failed"}))
      BY <1>3, <1>11, TypesOfGood, FilesOfGood DEF CountFailed
    <2>2. Regular(j)' => NonePending(j)' /\ Ended(j)' /\ nfail'[a] = Cardinality(TasksOf(j, {"failed"})')
      BY <1>5, <1>6, <1>7, <2>1
    <2> QED BY <2>1, <2>2 DEF CountOf
  <1>12. CASE RefetchJob(a) /\ pc'[a] \in PendingCounted
    <2>1. pc'[a] = "readrows" /\ pc[a] = "refetch" /\ jobOf'[a] = j /\ nfail'[a] = nfail[a]
      BY <1>3, <1>12, TypesOfGood DEF RefetchJob
    <2>2. Regular(j)' => NonePending(j)' /\ Ended(j)' /\ nfail'[a] = Cardinality(TasksOf(j, {"failed"})')
      BY <1>5, <1>6, <1>7, <2>1
    <2> QED BY <2>1, <2>2 DEF CountOf
  <1>13. CASE ReadRows(a)
    <2>1. /\ pc'[a] = (IF partial[j] = <<>> THEN "failjob" ELSE "open") /\ pc[a] = "readrows"
          /\ jobOf'[a] = j /\ nfail'[a] = nfail[a] /\ seen'[a] = partial[j]
      BY <1>3, <1>13, TypesOfGood, FilesOfGood DEF ReadRows
    <2>2. Regular(j)' => NonePending(j)' /\ Ended(j)' /\ nfail'[a] = Cardinality(TasksOf(j, {"failed"})')
      BY <1>5, <1>6, <1>7, <2>1
    <2>3. Regular(j)' => RowsOf(partial[j]) = TasksOf(j, {"completed"})
      BY <1>4, <1>5, <1>7, <2>1, RowsAreCompleted
    <2>4. Regular(j)' => (partial[j] = <<>> <=> ~Scored(j))
      BY <2>3, NoLineNoRow, TypesOfGood DEF Scored, TasksOf
    <2>5. Regular(j)' => RowsOf(seen'[a]) = TasksOf(j, {"completed"})' /\ (pc'[a] = "failjob" <=> ~Scored(j)')
      BY <1>6, <2>1, <2>3, <2>4
    <2>6. pc'[a] \in {"failjob", "open"}
      BY <2>1
    <2> HIDE DEF Failing
    <2> QED BY <2>1, <2>2, <2>5, <2>6 DEF CountOf, Failing
  <1>14. CASE /\ FailJob(a) \/ OpenReport(a) \/ WriteReport(a) \/ CopyPartial(a) \/ CompleteJob(a)
              /\ pc'[a] \in PendingCounted
    <2>1. /\ <<pc[a], pc'[a]>> \in {<<"failjob", "errornote">>, <<"open", "write">>, <<"write", "copy">>,
                                   <<"copy", "completejob">>, <<"completejob", "successnote">>}
          /\ jobOf'[a] = j /\ nfail'[a] = nfail[a] /\ seen'[a] = seen[a]
      BY <1>3, <1>14, TypesOfGood DEF FailJob, OpenReport, WriteReport, CopyPartial, CompleteJob
    <2>2. Regular(j)' =>
            /\ NonePending(j)' /\ Ended(j)' /\ nfail'[a] = Cardinality(TasksOf(j, {"failed"})')
            /\ RowsOf(seen'[a]) = TasksOf(j, {"completed"})'
            /\ pc'[a] = "errornote" => ~Scored(j)'
            /\ pc'[a] # "errornote" => Scored(j)'
      BY <1>5, <1>6, <1>7, <2>1
    <2>3. pc'[a] \in {"errornote", "write", "copy", "completejob", "successnote"}
      BY <2>1
    <2> QED BY <2>1, <2>2, <2>3 DEF CountOf
  <1>15. CASE ErrorNote(a) \/ SuccessNote(a)
    <2>1. pc'[a] = "idle"
      BY <1>15, TypesOfGood DEF ErrorNote, SuccessNote
    <2> QED BY <2>1, NothingFound
  <1> QED
    BY <1>8, <1>9, <1>10, <1>11, <1>12, <1>13, <1>14, <1>15 DEF Finalize

\* Any step: the acting thread is a finalizer or has counted nothing; the others stay.
LEMMA CountNext ==
  ASSUME Good, EnrolledInv, [Next]_vars, \A a \in Actors : CountOf(a), NEW b \in Actors
  PROVE  CountOf(b)'
  <1> DEFINE Idle(a) == pc'[a] = pc[a] /\ jobOf'[a] = jobOf[a] /\ seen'[a] = seen[a] /\ nfail'[a] = nfail[a]
  <1>1. Forward
    BY NextIsForward
  <1>2. \A a \in Actors : Idle(a) => CountOf(a)'
    BY <1>1, FoundStays
  <1> USE TypesOfGood, FilesOfGood DEF Goto, Return, db, files, prep, acts, hist
  <1>3. ASSUME NEW j \in Jobs,
               Create(j) \/ DeleteRequest(j) \/ PrepStep(j) \/ DeleteStep(j) \/ PrepAborts(j)
        PROVE  Idle(b)
    BY <1>3 DEF Create, DeleteRequest, PrepStep, NormalizeOk, NormalizeFails, PrepCheck, Retrieve, NoRowsFail,
                NoRowsNote, UnlinkPartial, InsertTask, Publish, InfoNote, DeleteStep, DeleteRows, Purge, PrepAborts
  <1>4. ASSUME NEW w \in Workers, WorkerOwn(w)
        PROVE  Idle(b) \/ pc'[b] \notin PendingCounted
    <2> USE DEF PendingCounted
    <2>1. ASSUME Claim(w) PROVE Idle(b) \/ pc'[b] \notin PendingCounted
      BY <2>1 DEF Claim
    <2>2. ASSUME Load(w) \/ FetchJob(w) \/ StartRunning(w) \/ Evaluate(w) \/ AppendRow(w)
          PROVE  Idle(b) \/ pc'[b] \notin PendingCounted
      BY <2>2 DEF Load, FetchJob, StartRunning, Evaluate, AppendRow
    <2>3. ASSUME CompleteTask(w) \/ FailTask(w) PROVE Idle(b) \/ pc'[b] \notin PendingCounted
      BY <2>3 DEF CompleteTask, FailTask, EndTask
    <2> QED BY <1>4, <2>1, <2>2, <2>3 DEF WorkerOwn
  <1>5. ASSUME NEW a \in Actors, Finalize(a) PROVE CountOf(b)'
    <2>1. CASE a = b
      BY <1>5, <2>1, FinalizerFinds
    <2>2. CASE a # b
      <3>1. Idle(b)
        BY <1>5, <2>2
           DEF Finalize, CountPending, CountRunning, CountFailed, RefetchJob, ReadRows, FailJob, ErrorNote,
               OpenReport, WriteReport, CopyPartial, CompleteJob, SuccessNote
      <3> QED BY <1>2, <3>1
    <2> QED BY <2>1, <2>2
  <1>6. ASSUME NEW r \in Readers, GetBreakdown(r) \/ \E j \in Jobs : GetJob(r, j)
        PROVE  Idle(b) \/ pc'[b] \notin PendingCounted
    BY <1>6 DEF GetBreakdown, GetJob, PendingCounted
  <1>7. ASSUME NEW a \in Actors, ActorAborts(a) PROVE Idle(b) \/ pc'[b] \notin PendingCounted
    BY <1>7 DEF ActorAborts, PendingCounted
  <1>8. ASSUME UNCHANGED vars PROVE Idle(b)
    BY <1>8 DEF vars
  <1>9. Idle(b) \/ pc'[b] \notin PendingCounted \/ CountOf(b)'
    BY <1>3, <1>4, <1>5, <1>6, <1>7, <1>8
    DEF Next, Request, Handle, Fault, WorkerStep, ReaderStep, Actors
  <1> QED BY <1>2, <1>9, NothingFound

-----------------------------------------------------------------------------
(* What became of the job.                                                  *)

\* A verdict, a report or an announcement stays right; what a step adds to them must
\* be right of the tasks as the step leaves them.
LEMMA VerdictFrom ==
  ASSUME Good, Forward, NEW j \in Jobs, VerdictOf(j), ppc[j] # "idle",
         Regular(j)' /\ j \in result => j \in result',
         Regular(j)' /\ status'[j] \in Terminal =>
           \/ status'[j] = status[j]
           \/ /\ Ended(j)'
              /\ status'[j] = "completed" => Scored(j)' /\ j \in result'
              /\ status'[j] = "failed" => ~Scored(j)',
         Regular(j)' /\ report'[j].state # "none" =>
           \/ report'[j] = report[j]
           \/ /\ Ended(j)'
              /\ report'[j].state = "whole" => /\ RowsOf(report'[j].rows) = TasksOf(j, {"completed"})'
                                               /\ report'[j].failed = Cardinality(TasksOf(j, {"failed"})'),
         Regular(j)' /\ "success" \in notes'[j] => "success" \in notes[j] \/ (Ended(j)' /\ Scored(j)'),
         Regular(j)' /\ "error" \in notes'[j] => "error" \in notes[j] \/ (Ended(j)' /\ ~Scored(j)')
  PROVE  VerdictOf(j)'
  <1> SUFFICES ASSUME Regular(j)'
               PROVE  /\ status'[j] \in Terminal    => Ended(j)'
                      /\ status'[j] = "completed"   => Scored(j)' /\ j \in result'
                      /\ status'[j] = "failed"      => ~Scored(j)'
                      /\ report'[j].state # "none"  => Ended(j)'
                      /\ report'[j].state = "whole" => /\ RowsOf(report'[j].rows) = TasksOf(j, {"completed"})'
                                                       /\ report'[j].failed = Cardinality(TasksOf(j, {"failed"})')
                      /\ "success" \in notes'[j]    => Ended(j)' /\ Scored(j)'
                      /\ "error" \in notes'[j]      => Ended(j)' /\ ~Scored(j)'
    BY DEF VerdictOf
  <1>1. /\ status[j] \in Terminal    => Ended(j)
        /\ status[j] = "completed"   => Scored(j) /\ j \in result
        /\ status[j] = "failed"      => ~Scored(j)
        /\ report[j].state # "none"  => Ended(j)
        /\ report[j].state = "whole" => /\ RowsOf(report[j].rows) = TasksOf(j, {"completed"})
                                        /\ report[j].failed = Cardinality(TasksOf(j, {"failed"}))
        /\ "success" \in notes[j]    => Ended(j) /\ Scored(j)
        /\ "error" \in notes[j]      => Ended(j) /\ ~Scored(j)
    BY EndedStays DEF VerdictOf
  <1>2. Ended(j) => /\ Ended(j)' /\ (Scored(j)' <=> Scored(j))
                    /\ TasksOf(j, {"completed"})' = TasksOf(j, {"completed"})
                    /\ TasksOf(j, {"failed"})' = TasksOf(j, {"failed"})
    BY EndedStays
  <1> QED BY <1>1, <1>2 DEF Terminal

\* What a step that writes nothing of a job leaves is as right as before.
LEMMA VerdictStays ==
  ASSUME Good, Forward, NEW j \in Jobs, VerdictOf(j),
         status'[j] = status[j] \/ (status'[j] \notin Terminal \cup {"none"} /\ ppc[j] # "idle"),
         report'[j] = report[j] \/ report'[j].state = "none" \/ status[j] = "none",
         "success" \in notes'[j] => "success" \in notes[j],
         "error" \in notes'[j] => "error" \in notes[j],
         j \in result => j \in result'
  PROVE  VerdictOf(j)'
  <1>1. CASE ~Regular(j)'
    BY <1>1 DEF VerdictOf
  <1>2. CASE Regular(j)'
    <2>1. ppc[j] # "idle"
      BY <1>2 DEF Regular, Good, Kept, DeletionInv
    <2>2. status[j] # "none"
      BY <1>2, <2>1 DEF Regular, Forward
    <2> QED BY <2>1, <2>2, VerdictFrom
  <1> QED BY <1>1, <1>2

\* Steps of a preparer: it fails only a job without tasks.
LEMMA PrepVerdict ==
  ASSUME Good, EnrolledInv, Forward, NEW k \in Jobs, VerdictOf(k), NEW j \in Jobs,
         Create(j) \/ PrepStep(j) \/ PrepAborts(j)
  PROVE  VerdictOf(k)'
  <1> USE TypesOfGood, FilesOfGood DEF db, files, acts, hist, PrepGoto, SetStatus, AddNotification
  <1>1. CASE k # j
    <2>1. UNCHANGED <<status[k], report[k], notes[k], result>>
      BY <1>1 DEF Create, PrepStep, NormalizeOk, NormalizeFails, PrepCheck, Retrieve, NoRowsFail, NoRowsNote,
                  UnlinkPartial, InsertTask, Publish, InfoNote, PrepAborts
    <2> QED BY <2>1, VerdictStays
  <1>2. CASE k = j /\ Create(j)
    <2>1. /\ ppc[j] = "idle" /\ status'[j] = "preparing" /\ UNCHANGED <<report, notes>>
      BY <1>2 DEF Create
    <2>2. ~HasTask(j)
      BY <2>1, TasksComeAfterUnlink DEF BeforeInsert
    <2>3. report'[j].state = "none" /\ "success" \notin notes'[j] /\ "error" \notin notes'[j]
      BY <2>1, <2>2 DEF EnrolledInv
    <2> QED BY <1>2, <2>1, <2>3 DEF VerdictOf, Terminal
  <1>3. CASE /\ k = j
             /\ \/ NormalizeOk(j) \/ PrepCheck(j) \/ Retrieve(j) \/ UnlinkPartial(j)
                \/ InsertTask(j) \/ Publish(j) \/ InfoNote(j) \/ PrepAborts(j)
    <2>1. ppc[j] # "idle"
      BY <1>3 DEF NormalizeOk, PrepCheck, Retrieve, UnlinkPartial, InsertTask, Publish, InfoNote, PrepAborts
    <2>2. /\ status'[j] = status[j] \/ status'[j] = "pending"
          /\ UNCHANGED <<report, result>> /\ (notes'[j] = notes[j] \/ notes'[j] = notes[j] \cup {"info"})
      BY <1>3 DEF NormalizeOk, PrepCheck, Retrieve, UnlinkPartial, InsertTask, Publish, InfoNote, PrepAborts
    <2> QED BY <1>3, <2>1, <2>2, VerdictStays DEF Terminal
  <1>4. CASE k = j /\ (NormalizeFails(j) \/ NoRowsFail(j) \/ NoRowsNote(j))
    <2>1. /\ ppc[j] \in {"normalize", "norows", "norowsnote"} /\ ppc'[j] \in EndPcs
          /\ UNCHANGED <<report, result, tjob, tstat>>
          /\ status'[j] \in {status[j], "failed"} /\ notes'[j] \in {notes[j], notes[j] \cup {"error"}}
      BY <1>4 DEF NormalizeFails, NoRowsFail, NoRowsNote, EndPcs
    <2>2. ~HasTask(j)
      BY <2>1, TasksComeAfterUnlink DEF EnrolledInv, BeforeInsert
    <2>3. Ended(j)' /\ ~Scored(j)'
      BY <2>1, <2>2 DEF Ended, NonePending, Scored, HasTask
    <2> QED BY <1>4, <2>1, <2>3, VerdictFrom
  <1> QED BY <1>1, <1>2, <1>3, <1>4 DEF PrepStep

\* Steps of DELETE: what it changes belongs to a job that is not there.
LEMMA DeleteVerdict ==
  ASSUME Good, Forward, NEW k \in Jobs, VerdictOf(k), NEW j \in Jobs, DeleteRequest(j) \/ DeleteStep(j)
  PROVE  VerdictOf(k)'
  <1> USE TypesOfGood, FilesOfGood DEF db, files, prep, acts, hist
  <1>1. CASE DeleteRequest(j)
    <2>1. UNCHANGED <<status, report, notes, result>>
      BY <1>1 DEF DeleteRequest
    <2> QED BY <2>1, VerdictStays
  <1>2. CASE DeleteRows(j)
    <2>1. CASE k = j /\ status'[j] = "none"
      BY <2>1 DEF VerdictOf, Regular
    <2>2. CASE k # j \/ status'[j] # "none"
      <3>1. UNCHANGED <<status[k], report, notes[k]>> /\ (k \in result => k \in result')
        BY <1>2, <2>2 DEF DeleteRows
      <3> QED BY <3>1, VerdictStays
    <2> QED BY <2>1, <2>2
  <1>3. CASE Purge(j)
    <2>1. /\ UNCHANGED <<status, notes, result>>
          /\ \A i \in Jobs : report'[i] = report[i] \/ report'[i].state = "none"
      BY <1>3 DEF Purge, NoReport
    <2> QED BY <2>1, VerdictStays
  <1> QED BY <1>1, <1>2, <1>3 DEF DeleteStep

\* Steps of a worker before it turns finalizer write no verdict.
LEMMA WorkerVerdict ==
  ASSUME Good, EnrolledInv, Forward, NEW k \in Jobs, VerdictOf(k), NEW w \in Workers, WorkerOwn(w)
  PROVE  VerdictOf(k)'
  <1>1. UNCHANGED <<report, notes, result>>
    BY DEF WorkerOwn, Claim, Load, FetchJob, StartRunning, Evaluate, AppendRow, CompleteTask, FailTask, EndTask,
           db, files
  <1>2. \/ status'[k] = status[k]
        \/ status'[k] = "running" /\ StartRunning(w) /\ jobOf[w] = k
    BY TypesOfGood
       DEF WorkerOwn, Claim, Load, FetchJob, StartRunning, Evaluate, AppendRow, CompleteTask, FailTask, EndTask,
           SetStatus, db
  <1>3. StartRunning(w) => ppc[jobOf[w]] # "idle"
    <2>1. StartRunning(w) => pc[w] # "idle" /\ w \in Actors /\ jobOf[w] \in Jobs
      BY TypesOfGood DEF StartRunning, Goto, Bookkeeping
    <2> QED BY <2>1, TasksComeAfterUnlink DEF EnrolledInv, BeforeInsert
  <1> QED BY <1>1, <1>2, <1>3, VerdictStays DEF Terminal

\* What a finalizer leaves of report.json: its own report, pieces of two, or no file.
LEMMA WrittenReports ==
  ASSUME Good, NEW a \in Actors, WriteReport(a)
  PROVE  \E r \in {NoReport, Torn, Whole(seen[a], nfail[a])} : report' = [report EXCEPT ![jobOf[a]] = r]
  <1>1. jobOf[a] \in Jobs
    BY TypesOfGood DEF WriteReport, Goto, Bookkeeping
  <1>2. report[jobOf[a]].state \in {"none", "torn", "whole"}
    BY <1>1, FilesOfGood DEF Reports
  <1> QED BY <1>2 DEF WriteReport

\* Steps of a finalizer: what it writes is what it found.
LEMMA FinalizerVerdict ==
  ASSUME Good, EnrolledInv, Forward, NEW k \in Jobs, VerdictOf(k), NEW a \in Actors, CountOf(a), Finalize(a)
  PROVE  VerdictOf(k)'
  <1> USE TypesOfGood, FilesOfGood DEF Goto, db, files, prep, acts, SetStatus, AddNotification
  <1>1. PICK j \in Jobs : j = jobOf[a]
    <2>1. pc[a] # "idle"
      BY DEF Finalize, CountPending, CountRunning, CountFailed, RefetchJob, ReadRows, FailJob, ErrorNote,
             OpenReport, WriteReport, CopyPartial, CompleteJob, SuccessNote
    <2> QED BY <2>1 DEF Bookkeeping
  <1>2. CASE k # j
    <2>1. UNCHANGED <<status[k], report[k], notes[k]>> /\ (k \in result => k \in result')
      BY <1>1, <1>2
         DEF Finalize, CountPending, CountRunning, CountFailed, RefetchJob, ReadRows, FailJob, ErrorNote,
             OpenReport, WriteReport, CopyPartial, CompleteJob, SuccessNote
    <2> QED BY <2>1, VerdictStays
  <1>3. ASSUME Regular(j)'
        PROVE  /\ pc[a] \in RunningCounted => Ended(j)'
               /\ pc[a] \in FailedCounted  => nfail[a] = Cardinality(TasksOf(j, {"failed"})')
               /\ pc[a] \in DecidedPcs     => RowsOf(seen[a]) = TasksOf(j, {"completed"})'
               /\ pc[a] \in Failing        => ~Scored(j)'
               /\ pc[a] \in Completing     => Scored(j)'
    <2>1. Quiet
      BY FinalizeIsQuiet
    <2>2. Regular(j)
      BY <1>3, <2>1 DEF Quiet, Regular, Forward
    <2>3. /\ Ended(j)' <=> Ended(j)
          /\ Scored(j)' <=> Scored(j)
          /\ TasksOf(j, {"completed"})' = TasksOf(j, {"completed"})
          /\ TasksOf(j, {"failed"})' = TasksOf(j, {"failed"})
      BY <2>1 DEF Quiet, NonePending, Ended, Scored, TasksOf
    <2> QED BY <1>1, <2>2, <2>3 DEF CountOf
  <1>4. CASE k = j /\ (\/ CountPending(a) \/ CountRunning(a) \/ CountFailed(a) \/ RefetchJob(a) \/ ReadRows(a)
                       \/ CopyPartial(a))
    <2>1. UNCHANGED <<status, report, notes, result>>
      BY <1>4 DEF CountPending, CountRunning, CountFailed, RefetchJob, ReadRows, CopyPartial
    <2> QED BY <2>1, VerdictStays
  <1>5. pc[a] # "idle" /\ ppc[j] # "idle"
    <2>1. pc[a] # "idle"
      BY DEF Finalize, CountPending, CountRunning, CountFailed, RefetchJob, ReadRows, FailJob, ErrorNote,
             OpenReport, WriteReport, CopyPartial, CompleteJob, SuccessNote
    <2> QED BY <1>1, <2>1, TasksComeAfterUnlink DEF EnrolledInv, BeforeInsert
  <1> USE DEF PendingCounted, RunningCounted, FailedCounted, DecidedPcs, Failing, Completing
  <1>6. CASE k = j /\ FailJob(a)
    <2>1. /\ pc[a] = "failjob" /\ status'[j] \in {status[j], "failed"}
          /\ UNCHANGED <<report, notes, result>>
      BY <1>1, <1>6 DEF FailJob
    <2>2. Regular(j)' => Ended(j)' /\ ~Scored(j)'
      BY <1>3, <2>1
    <2> QED BY <1>5, <1>6, <2>1, <2>2, VerdictFrom
  <1>7. CASE k = j /\ ErrorNote(a)
    <2>1. /\ pc[a] = "errornote" /\ notes'[j] = notes[j] \cup {"error"}
          /\ UNCHANGED <<status, report, result>>
      BY <1>1, <1>7 DEF ErrorNote
    <2>2. Regular(j)' => Ended(j)' /\ ~Scored(j)'
      BY <1>3, <2>1
    <2> QED BY <1>5, <1>7, <2>1, <2>2, VerdictFrom
  <1>8. CASE k = j /\ (OpenReport(a) \/ WriteReport(a))
    <2>1. /\ pc[a] \in {"open", "write"} /\ UNCHANGED <<status, notes, result>>
          /\ report'[j] \in {NoReport, Torn} \/ (pc[a] = "write" /\ report'[j] = Whole(seen[a], nfail[a]))
      <3>1. CASE OpenReport(a)
        BY <1>1, <3>1 DEF OpenReport
      <3>2. CASE WriteReport(a)
        <4>1. pc[a] = "write" /\ UNCHANGED <<status, notes, result>>
          BY <3>2 DEF WriteReport
        <4>2. \E r \in {NoReport, Torn, Whole(seen[a], nfail[a])} : report' = [report EXCEPT ![j] = r]
          BY <1>1, <3>2, WrittenReports
        <4> HIDE <1>8
        <4> QED BY <4>1, <4>2
      <3> QED BY <1>8, <3>1, <3>2
    <2>2. Regular(j)' => /\ Ended(j)' /\ nfail[a] = Cardinality(TasksOf(j, {"failed"})')
                         /\ RowsOf(seen[a]) = TasksOf(j, {"completed"})'
      BY <1>3, <2>1
    <2>3. Regular(j)' /\ report'[j].state = "whole" =>
            /\ RowsOf(report'[j].rows) = TasksOf(j, {"completed"})'
            /\ report'[j].failed = Cardinality(TasksOf(j, {"failed"})')
      BY <2>1, <2>2 DEF NoReport, Torn, Whole
    <2> QED BY <1>5, <1>8, <2>1, <2>2, <2>3, VerdictFrom
  <1>9. CASE k = j /\ CompleteJob(a)
    <2>1. /\ pc[a] = "completejob" /\ status'[j] \in {status[j], "completed"} /\ j \in result'
          /\ UNCHANGED <<report, notes>>
      BY <1>1, <1>9 DEF CompleteJob
    <2>2. Regular(j)' => Ended(j)' /\ Scored(j)'
      BY <1>3, <2>1
    <2> QED BY <1>5, <1>9, <2>1, <2>2, VerdictFrom
  <1>10. CASE k = j /\ SuccessNote(a)
    <2>1. /\ pc[a] = "successnote" /\ notes'[j] = notes[j] \cup {"success"}
          /\ UNCHANGED <<status, report, result>>
      BY <1>1, <1>10 DEF SuccessNote
    <2>2. Regular(j)' => Ended(j)' /\ Scored(j)'
      BY <1>3, <2>1
    <2> QED BY <1>5, <1>10, <2>1, <2>2, VerdictFrom
  <1> QED BY <1>2, <1>4, <1>6, <1>7, <1>8, <1>9, <1>10 DEF Finalize

-----------------------------------------------------------------------------
(* The whole invariant, and what it gives.                                  *)

LEMMA VerdictInit == Init => VerdictInv
  <1> SUFFICES ASSUME Init PROVE VerdictInv
    OBVIOUS
  <1>1. RowsInv
    BY RowsInit
  <1>2. /\ \A t \in TaskIds : tstat[t] = "unborn"
        /\ \A j \in Jobs : status[j] = "none" /\ report[j].state = "none" /\ notes[j] = {} /\ ppc[j] = "idle"
        /\ \A a \in Actors : pc[a] = "idle"
    BY DEF Init, NoReport
  <1>3. EnrolledInv
    BY <1>2 DEF EnrolledInv
  <1>4. \A a \in Actors : CountOf(a)
    BY <1>2 DEF CountOf, Regular
  <1>5. \A j \in Jobs : VerdictOf(j)
    BY <1>2 DEF VerdictOf, Regular
  <1> QED BY <1>1, <1>3, <1>4, <1>5 DEF VerdictInv

LEMMA VerdictNext == VerdictInv /\ [Next]_vars => VerdictInv'
  <1> SUFFICES ASSUME VerdictInv, [Next]_vars PROVE VerdictInv'
    OBVIOUS
  <1>1. RowsInv /\ EnrolledInv /\ (\A a \in Actors : CountOf(a)) /\ (\A j \in Jobs : VerdictOf(j))
    BY DEF VerdictInv
  <1>2. Good /\ RowsInv' /\ ClaimInv'
    BY <1>1, RowsInvGives, RowsNext DEF Good, Kept, RowsInv
  <1>3. Forward /\ Founded
    BY <1>1, <1>2, NextIsForward, NextIsFounded
  <1>4. EnrolledInv'
    BY <1>1, <1>2, <1>3, EnrolledFrom
  <1>5. (\A a \in Actors : CountOf(a))'
    BY <1>1, <1>2, CountNext DEF Actors
  <1>6. ASSUME NEW k \in Jobs PROVE VerdictOf(k)'
    <2>1. ASSUME NEW j \in Jobs, Create(j) \/ PrepStep(j) \/ PrepAborts(j) PROVE VerdictOf(k)'
      BY <1>1, <1>2, <1>3, <2>1, PrepVerdict
    <2>2. ASSUME NEW j \in Jobs, DeleteRequest(j) \/ DeleteStep(j) PROVE VerdictOf(k)'
      BY <1>1, <1>2, <1>3, <2>2, DeleteVerdict
    <2>3. ASSUME NEW w \in Workers, WorkerOwn(w) PROVE VerdictOf(k)'
      BY <1>1, <1>2, <1>3, <2>3, WorkerVerdict
    <2>4. ASSUME NEW a \in Actors, Finalize(a) PROVE VerdictOf(k)'
      BY <1>1, <1>2, <1>3, <2>4, FinalizerVerdict
    <2>5. ASSUME \/ \E r \in Readers : GetBreakdown(r) \/ \E j \in Jobs : GetJob(r, j)
                 \/ \E a \in Actors : ActorAborts(a)
                 \/ UNCHANGED vars
          PROVE  VerdictOf(k)'
      <3>1. UNCHANGED <<status, report, notes, result>>
        BY <2>5 DEF GetBreakdown, GetJob, ActorAborts, vars, db, files
      <3> QED BY <1>1, <1>2, <1>3, <3>1, VerdictStays
    <2> QED BY <2>1, <2>2, <2>3, <2>4, <2>5
            DEF Next, Request, Handle, Fault, WorkerStep, ReaderStep, Actors
  <1> QED BY <1>2, <1>4, <1>5, <1>6 DEF VerdictInv

\* At every statement of every handler, what a finalizer has counted so far is still
\* true, and lines, reports, announcements and verdicts fit the tasks of their job: the
\* helpers of db.py and the files may be interleaved in any way.
THEOREM VerdictAlways == Spec => []VerdictInv
  BY VerdictInit, VerdictNext, PTL DEF Spec

LEMMA VerdictGood ==
  VerdictInv => Good /\ EnrolledInv /\ (\A a \in Actors : CountOf(a)) /\ (\A j \in Jobs : VerdictOf(j))
  BY RowsInvGives DEF VerdictInv, Good, Kept, RowsInv

\* A row of a job that is there is there itself.
LEMMA TasksAreThere ==
  ASSUME Good, EnrolledInv, NEW j \in Jobs, status[j] # "none"
  PROVE  TasksOf(j, TaskStatus \ {"gone"}) = {t \in TaskIds : tjob[t] = j}
  BY TypesOfGood DEF EnrolledInv, TasksOf

\* A job waiting for a worker always has a task row, however the preparer, the workers,
\* the readers and DELETE interleave and wherever one of them dies: the fallback that
\* runs a job without tasks as a subprocess never takes an enrolled one
\* (claim_next_pending_job_legacy_only).
THEOREM PendingJobsHaveTasks == Spec => []PendingHasTasks
  <1>1. VerdictInv => PendingHasTasks
    <2> SUFFICES ASSUME VerdictInv, NEW j \in Jobs, status[j] = "pending"
                 PROVE  TasksOf(j, TaskStatus \ {"gone"}) # {}
      BY DEF PendingHasTasks
    <2>1. HasTask(j)
      BY VerdictGood DEF EnrolledInv
    <2>2. TasksOf(j, TaskStatus \ {"gone"}) = {t \in TaskIds : tjob[t] = j}
      BY VerdictGood, TasksAreThere
    <2> QED BY <2>1, <2>2 DEF HasTask
  <1> QED BY <1>1, VerdictAlways, PTL

\* A finalizer that has decided has read the line of every completed task and no
\* other, counted every failed one, and nothing can change it any more: its counts and
\* its file were read one after the other, while others ran (_maybe_finalize_job).
THEOREM FinalizersSeeAll == Spec => []FinalizerSeesAll
  <1>1. VerdictInv => FinalizerSeesAll
    <2> SUFFICES ASSUME VerdictInv, NEW a \in Actors, NEW j, j = jobOf[a],
                        pc[a] \in DecidedPcs, j \notin early, status[j] # "none"
                 PROVE  /\ Unfinished(j) = {}
                        /\ RowsOf(seen[a]) = TasksOf(j, {"completed"})
                        /\ nfail[a] = Cardinality(TasksOf(j, {"failed"}))
      BY DEF FinalizerSeesAll
    <2>1. j \in Jobs
      BY VerdictGood, TypesOfGood DEF Bookkeeping, DecidedPcs
    <2>2. Ended(j)
      BY <2>1, VerdictGood DEF CountOf, Regular, DecidedPcs, RunningCounted, PendingCounted
    <2>3. RowsOf(seen[a]) = TasksOf(j, {"completed"}) /\ nfail[a] = Cardinality(TasksOf(j, {"failed"}))
      BY <2>1, VerdictGood DEF CountOf, Regular, DecidedPcs, RunningCounted, PendingCounted, FailedCounted
    <2>4. Unfinished(j) = {}
      BY <2>2 DEF Ended, NonePending, Unfinished, TasksOf
    <2> QED BY <2>3, <2>4
  <1> QED BY <1>1, VerdictAlways, PTL

\* What is recorded of a job is what became of its tasks: it completes only when all
\* have ended and one was scored, with its job_results row and a report over all of
\* them; it fails only when none was scored; and it is never announced as both
\* (complete_job, fail_job, run_report and the notifications of _maybe_finalize_job).
THEOREM VerdictsFit == Spec => []VerdictFitsTasks
  <1>1. VerdictInv => VerdictFitsTasks
    <2> SUFFICES ASSUME VerdictInv, NEW j \in Jobs, j \notin early
                 PROVE  /\ status[j] = "completed" =>
                             /\ j \in result
                             /\ Unfinished(j) = {} /\ TasksOf(j, {"completed"}) # {}
                             /\ report[j].state = "whole" =>
                                  /\ RowsOf(report[j].rows) = TasksOf(j, {"completed"})
                                  /\ report[j].failed = Cardinality(TasksOf(j, {"failed"}))
                        /\ status[j] = "failed" => TasksOf(j, {"pending", "running", "completed"}) = {}
                        /\ status[j] # "none" => ~({"success", "error"} \subseteq notes[j])
      BY DEF VerdictFitsTasks
    <2>1. VerdictOf(j)
      BY VerdictGood
    <2>2. Ended(j) => Unfinished(j) = {}
      BY DEF Ended, NonePending, Unfinished, TasksOf
    <2>3. Scored(j) <=> TasksOf(j, {"completed"}) # {}
      BY DEF Scored, TasksOf
    <2>4. ~Scored(j) /\ Ended(j) => TasksOf(j, {"pending", "running", "completed"}) = {}
      BY DEF Scored, Ended, NonePending, TasksOf
    <2> QED BY <2>1, <2>2, <2>3, <2>4 DEF VerdictOf, Regular, Terminal
  <1> QED BY <1>1, VerdictAlways, PTL

LEMMA VerdictsStay ==
  ASSUME VerdictInv, [Next]_vars
  PROVE  \A j \in Jobs \ early :
           /\ status[j] \in Terminal => status'[j] \in {status[j], "none"}
           /\ status[j] = "none" /\ ppc[j] # "idle" => status'[j] = "none"
  <1>1. Good /\ EnrolledInv /\ (\A a \in Actors : CountOf(a)) /\ (\A j \in Jobs : VerdictOf(j)) /\ Forward
    BY VerdictGood, NextIsForward
  <1> SUFFICES ASSUME NEW k \in Jobs, k \notin early, status[k] \in Terminal
               PROVE  status'[k] \in {status[k], "none"}
    BY <1>1 DEF Forward
  <1> USE <1>1, TypesOfGood DEF Goto, SetStatus, PrepGoto, db, files, prep, acts, hist
  <1>2. /\ Ended(k) /\ ppc[k] \in EndPcs
        /\ status[k] = "completed" => Scored(k)
        /\ status[k] = "failed" => ~Scored(k)
    BY DEF VerdictOf, Regular, Terminal, Ended, NonePending
  <1>3. ASSUME NEW j \in Jobs, Create(j) \/ PrepStep(j) \/ PrepAborts(j)
        PROVE  status'[k] \in {status[k], "none"}
    <2>1. CASE NormalizeFails(j) \/ NoRowsFail(j)
      <3>1. ppc[j] \in {"normalize", "norows"} /\ (k = j => status'[k] = "failed") /\ (k # j => status'[k] = status[k])
        BY <2>1 DEF NormalizeFails, NoRowsFail, Terminal
      <3>2. k = j => ~HasTask(k)
        BY <1>2, <3>1 DEF EnrolledInv, EndPcs
      <3>3. k = j => status[k] = "failed"
        BY <1>2, <3>2 DEF Scored, HasTask, Terminal
      <3> QED BY <3>1, <3>3
    <2>2. CASE Create(j) \/ Publish(j)
      BY <1>2, <2>2 DEF Create, Publish, EndPcs, Terminal
    <2>3. CASE \/ NormalizeOk(j) \/ PrepCheck(j) \/ Retrieve(j) \/ NoRowsNote(j) \/ UnlinkPartial(j)
               \/ InsertTask(j) \/ InfoNote(j) \/ PrepAborts(j)
      BY <2>3 DEF NormalizeOk, PrepCheck, Retrieve, NoRowsNote, UnlinkPartial, InsertTask, InfoNote, PrepAborts
    <2> QED BY <1>3, <2>1, <2>2, <2>3 DEF PrepStep
  <1>4. ASSUME NEW j \in Jobs, DeleteRequest(j) \/ DeleteStep(j)
        PROVE  status'[k] \in {status[k], "none"}
    BY <1>4 DEF DeleteRequest, DeleteStep, DeleteRows, Purge
  <1>5. ASSUME NEW w \in Workers, WorkerOwn(w) PROVE status'[k] \in {status[k], "none"}
    <2>1. CASE StartRunning(w) /\ jobOf[w] = k
      <3>1. pc[w] = "start"
        BY <2>1 DEF StartRunning
      <3>2. task[w] \in TaskIds /\ tjob[task[w]] = k /\ tstat[task[w]] \in {"running", "gone"}
        BY <2>1, <3>1, HandsOfGood DEF HoldPcs
      <3>3. tstat[task[w]] \notin {"running", "gone"}
        BY <1>2, <3>2 DEF Ended, EnrolledInv, Terminal
      <3> QED BY <3>2, <3>3
    <2>2. CASE ~(StartRunning(w) /\ jobOf[w] = k)
      BY <1>5, <2>2
         DEF WorkerOwn, Claim, Load, FetchJob, StartRunning, Evaluate, AppendRow, CompleteTask, FailTask, EndTask
    <2> QED BY <2>1, <2>2
  <1>6. ASSUME NEW a \in Actors, Finalize(a) PROVE status'[k] \in {status[k], "none"}
    <2>1. CASE FailJob(a) /\ jobOf[a] = k
      <3>1. ~Scored(k)
        BY <2>1 DEF CountOf, Regular, FailJob, Failing, Terminal
      <3> QED BY <1>2, <2>1, <3>1 DEF FailJob, Terminal
    <2>2. CASE CompleteJob(a) /\ jobOf[a] = k
      <3>1. Scored(k)
        BY <2>2 DEF CountOf, Regular, CompleteJob, Completing, Terminal
      <3> QED BY <1>2, <2>2, <3>1 DEF CompleteJob, Terminal
    <2>3. CASE ~(FailJob(a) \/ CompleteJob(a)) \/ jobOf[a] # k
      BY <1>6, <2>3
         DEF Finalize, CountPending, CountRunning, CountFailed, RefetchJob, ReadRows, FailJob, ErrorNote,
             OpenReport, WriteReport, CopyPartial, CompleteJob, SuccessNote
    <2> QED BY <2>1, <2>2, <2>3
  <1>7. ASSUME \/ \E r \in Readers : GetBreakdown(r) \/ \E j \in Jobs : GetJob(r, j)
               \/ \E a \in Actors : ActorAborts(a)
               \/ UNCHANGED vars
        PROVE  status' = status
    BY <1>7 DEF GetBreakdown, GetJob, ActorAborts, vars
  <1> QED BY <1>3, <1>4, <1>5, <1>6, <1>7
          DEF Next, Request, Handle, Fault, WorkerStep, ReaderStep, Actors

\* No step takes a verdict back: a completed or failed job keeps its status until it
\* is deleted and a deleted job stays away, although start_job_running, complete_job
\* and fail_job update the row whatever its status.
THEOREM VerdictsAreFinal == Spec => VerdictIsFinal
  <1> DEFINE Final == \A j \in Jobs \ early :
                        /\ status[j] \in Terminal => status'[j] \in {status[j], "none"}
                        /\ status[j] = "none" /\ ppc[j] # "idle" => status'[j] = "none"
  <1>1. ASSUME VerdictInv, [Next]_vars PROVE [Final]_vars
    BY <1>1, VerdictsStay
  <1> QED BY <1>1, VerdictAlways, PTL DEF Spec, VerdictIsFinal

-----------------------------------------------------------------------------
(* The life of a job.                                                       *)

\* Where LifeInv begins to speak of a job, a preparer or a handler.
Begins ==
  /\ \A j \in early' : j \in early \/ (j \in Jobs /\ HasTask(j))
  /\ \A j \in Jobs : ppc[j] = "idle" /\ ppc'[j] # "idle" => status'[j] = "preparing"
  /\ \A j \in Jobs : status[j] # "none" /\ status'[j] = "none" =>
       status[j] \in Terminal /\ \A t \in TaskIds : tjob[t] = j => tstat'[t] = "gone"
  /\ \A j \in Jobs : ppc'[j] = "norowsnote" => ppc[j] = "norowsnote" \/ status'[j] \in {"failed", "none"}
  /\ \A a \in Actors : pc'[a] = "errornote" =>
       (pc[a] = "errornote" /\ jobOf'[a] = jobOf[a]) \/ status'[jobOf'[a]] \in {"failed", "none"}
  /\ \A a \in Actors : pc'[a] = "successnote" =>
       (pc[a] = "successnote" /\ jobOf'[a] = jobOf[a]) \/ status'[jobOf'[a]] \in {"completed", "none"}

LEMMA NextBegins == Good /\ EnrolledInv /\ [Next]_vars => Begins
  <1> SUFFICES ASSUME Good, EnrolledInv, [Next]_vars PROVE Begins
    OBVIOUS
  <1>0. \A a \in Actors : pc[a] # "idle" => HasTask(jobOf[a]) /\ jobOf[a] \in Jobs
    BY TypesOfGood DEF EnrolledInv, Bookkeeping
  <1> USE TypesOfGood, FilesOfGood DEF Begins, db, files, prep, acts, hist, SetStatus
  <1>1. ASSUME NEW j \in Jobs, Create(j) PROVE Begins
    BY <1>1 DEF Create, PrepGoto
  <1>2. ASSUME NEW j \in Jobs, DeleteRequest(j) \/ Purge(j) \/ PrepAborts(j) PROVE Begins
    BY <1>2 DEF DeleteRequest, Purge, PrepAborts
  <1>3. ASSUME NEW j \in Jobs, NormalizeOk(j) \/ NormalizeFails(j) \/ PrepCheck(j) PROVE Begins
    BY <1>3 DEF NormalizeOk, NormalizeFails, PrepCheck, PrepGoto
  <1>4. ASSUME NEW j \in Jobs, Retrieve(j) PROVE Begins
    <2>1. PICK to \in {"norows", "unlink"} : ppc[j] = "retrieve" /\ ppc' = [ppc EXCEPT ![j] = to]
      BY <1>4 DEF Retrieve, PrepGoto
    <2> QED BY <1>4, <2>1 DEF Retrieve
  <1>5. ASSUME NEW j \in Jobs, NoRowsFail(j) PROVE Begins
    BY <1>5 DEF NoRowsFail, PrepGoto
  <1>6. ASSUME NEW j \in Jobs, NoRowsNote(j) \/ UnlinkPartial(j) \/ InfoNote(j) PROVE Begins
    BY <1>6 DEF NoRowsNote, UnlinkPartial, InfoNote, PrepGoto
  <1>7. ASSUME NEW j \in Jobs, InsertTask(j) PROVE Begins
    <2>1. /\ ppc[j] = "insert" /\ UNCHANGED <<status, pc, jobOf, early>>
          /\ \E to \in {"publish", "insert"} : ppc' = [ppc EXCEPT ![j] = to]
      BY <1>7 DEF InsertTask, PrepGoto
    <2> QED BY <2>1
  <1>8. ASSUME NEW j \in Jobs, Publish(j) PROVE Begins
    BY <1>8 DEF Publish, PrepGoto
  <1>9. ASSUME NEW j \in Jobs, DeleteRows(j) PROVE Begins
    BY <1>9 DEF DeleteRows
  <1>10. ASSUME NEW w \in Workers, Claim(w) \/ Load(w) \/ FetchJob(w) \/ Evaluate(w) \/ AppendRow(w) PROVE Begins
    BY <1>10 DEF Claim, Load, FetchJob, Evaluate, AppendRow, Goto, Return
  <1>11. ASSUME NEW w \in Workers, StartRunning(w) PROVE Begins
    BY <1>11 DEF StartRunning, Goto
  <1>12. ASSUME NEW w \in Workers, CompleteTask(w) \/ FailTask(w) PROVE Begins
    BY <1>12 DEF CompleteTask, FailTask, EndTask, Goto
  <1>13. ASSUME NEW a \in Actors, CountPending(a) PROVE Begins
    <2>1. /\ pc[a] # "idle" /\ UNCHANGED <<status, ppc>>
          /\ early' \in {early, early \cup {jobOf[a]}}
      BY <1>13 DEF CountPending
    <2>2. \A b \in Actors : pc'[b] \in {"errornote", "successnote"} => pc'[b] = pc[b] /\ jobOf'[b] = jobOf[b]
      BY <1>13 DEF CountPending, Goto, Return
    <2> QED BY <1>0, <2>1, <2>2
  <1>14. ASSUME NEW a \in Actors, FailJob(a) \/ CompleteJob(a) PROVE Begins
    BY <1>0, <1>14 DEF FailJob, CompleteJob, Goto
  <1>15. ASSUME NEW a \in Actors,
                \/ CountRunning(a) \/ CountFailed(a) \/ RefetchJob(a) \/ ReadRows(a) \/ ErrorNote(a)
                \/ OpenReport(a) \/ WriteReport(a) \/ CopyPartial(a) \/ SuccessNote(a)
         PROVE  Begins
    <2>1. UNCHANGED <<status, ppc, early>>
      BY <1>15 DEF CountRunning, CountFailed, RefetchJob, ReadRows, ErrorNote, OpenReport, WriteReport,
                   CopyPartial, SuccessNote
    <2>2. \A b \in Actors : pc'[b] \in {"errornote", "successnote"} => pc'[b] = pc[b] /\ jobOf'[b] = jobOf[b]
      BY <1>15 DEF CountRunning, CountFailed, RefetchJob, ReadRows, ErrorNote, OpenReport, WriteReport,
                   CopyPartial, SuccessNote, Goto, Return
    <2> QED BY <2>1, <2>2
  <1>16. ASSUME NEW r \in Readers, GetBreakdown(r) PROVE Begins
    BY <1>16 DEF GetBreakdown, Goto, Return
  <1>17. ASSUME NEW r \in Readers, NEW j \in Jobs, GetJob(r, j) PROVE Begins
    BY <1>17 DEF GetJob, Goto
  <1>18. ASSUME NEW a \in Actors, ActorAborts(a) PROVE Begins
    BY <1>18 DEF ActorAborts, Return
  <1>19. CASE UNCHANGED vars
    BY <1>19 DEF vars
  <1>20. ASSUME NEW a \in Actors, Finalize(a) PROVE Begins
    BY <1>13, <1>14, <1>15, <1>20 DEF Finalize
  <1>21. ASSUME NEW j \in Jobs, PrepStep(j) PROVE Begins
    BY <1>3, <1>4, <1>5, <1>6, <1>7, <1>8, <1>21 DEF PrepStep
  <1> QED
    BY <1>1, <1>2, <1>9, <1>10, <1>11, <1>12, <1>16, <1>17, <1>18, <1>19, <1>20, <1>21
    DEF Next, Request, Handle, Fault, DeleteStep, WorkerStep, WorkerOwn, ReaderStep, Actors

LEMMA LifeInit == Init => LifeInv
  BY DEF Init, LifeInv, Actors

LEMMA LifeNext == VerdictInv /\ LifeInv /\ [Next]_vars => LifeInv'
  <1> SUFFICES ASSUME VerdictInv, LifeInv, [Next]_vars PROVE LifeInv'
    OBVIOUS
  <1>1. Good /\ EnrolledInv /\ (\A j \in Jobs : VerdictOf(j)) /\ Forward /\ Begins
    BY VerdictGood, NextIsForward, NextBegins
  <1>2. \A j \in Jobs \ early :
          /\ status[j] \in Terminal => status'[j] \in {status[j], "none"}
          /\ status[j] = "none" /\ ppc[j] # "idle" => status'[j] = "none"
    BY VerdictsStay
  <1>3. \A j \in early' : HasTask(j)'
    <2>1. \A j \in early' : j \in Jobs /\ HasTask(j)
      BY <1>1, FilesOfGood DEF Begins, LifeInv
    <2> QED BY <1>1, <2>1, EndedStays
  <1>4. \A j \in Jobs : j \notin early' => j \notin early
    BY <1>1 DEF Forward
  <1>5. ASSUME NEW j \in Jobs, j \notin early', status'[j] = "none", ppc'[j] # "idle"
        PROVE  ppc'[j] \in EndPcs /\ \A t \in TaskIds : tjob'[t] = j => tstat'[t] = "gone"
    <2>1. CASE status[j] = "none"
      <3>1. ppc[j] # "idle"
        BY <1>1, <1>5 DEF Begins
      <3>2. ppc[j] \in EndPcs /\ \A t \in TaskIds : tjob[t] = j => tstat[t] = "gone"
        BY <1>4, <1>5, <2>1, <3>1 DEF LifeInv
      <3>3. \A t \in TaskIds : tjob'[t] = j => tjob[t] = j
        BY <1>1, <3>2 DEF Forward, EndPcs
      <3> QED BY <1>1, <3>2, <3>3 DEF Forward
    <2>2. CASE status[j] # "none"
      <3>1. status[j] \in Terminal /\ \A t \in TaskIds : tjob[t] = j => tstat'[t] = "gone"
        BY <1>1, <1>5, <2>2 DEF Begins
      <3>2. ppc[j] \in EndPcs
        BY <1>1, <1>4, <1>5, <2>2, <3>1 DEF VerdictOf, Regular, Ended, NonePending
      <3>3. \A t \in TaskIds : tjob'[t] = j => tjob[t] = j
        BY <1>1, <3>2 DEF Forward, EndPcs
      <3> QED BY <1>1, <3>1, <3>2, <3>3 DEF Forward
    <2> QED BY <2>1, <2>2
  <1>6. ASSUME NEW j \in Jobs, j \notin early, ppc[j] # "idle", NEW v \in Terminal, status[j] \in {v, "none"}
        PROVE  status'[j] \in {v, "none"}
    BY <1>2, <1>6
  <1>7. ASSUME NEW j \in Jobs, j \notin early', ppc'[j] = "norowsnote" PROVE status'[j] \in {"failed", "none"}
    BY <1>1, <1>4, <1>6, <1>7 DEF Begins, LifeInv, Terminal
  <1>8. ASSUME NEW a \in Actors, pc[a] # "idle" PROVE ppc[jobOf[a]] # "idle"
    BY <1>1, <1>8, TasksComeAfterUnlink, TypesOfGood DEF EnrolledInv, Bookkeeping, BeforeInsert
  <1>9. ASSUME NEW a \in Actors, NEW j \in Jobs, j \notin early', jobOf'[a] = j
        PROVE  /\ pc'[a] = "errornote"   => status'[j] \in {"failed", "none"}
               /\ pc'[a] = "successnote" => status'[j] \in {"completed", "none"}
    BY <1>1, <1>4, <1>6, <1>8, <1>9 DEF Begins, LifeInv, Terminal
  <1> QED BY <1>3, <1>5, <1>7, <1>9 DEF LifeInv

\* Whoever looks at JobLife sees no difference in job k.
Same(k) ==
  /\ status'[k] = status[k] /\ (k \in early' <=> k \in early)
  /\ ppc'[k] = "idle" <=> ppc[k] = "idle"
  /\ ppc'[k] \in EndPcs <=> ppc[k] \in EndPcs
  /\ notes'[k] \ {"info"} = notes[k] \ {"info"}

LEMMA LifeFrame ==
  ASSUME NEW j \in Jobs, \A k \in Jobs : k # j => Same(k)
  PROVE  /\ phase' = [phase EXCEPT ![j] = PhaseOf(j)']
         /\ told' = [told EXCEPT ![j] = notes'[j] \ {"info"}]
         /\ enrolling' = IF ppc'[j] \in EndPcs \cup {"idle"} THEN enrolling \ {j} ELSE enrolling \cup {j}
  <1>1. \A k \in Jobs : k # j => PhaseOf(k)' = PhaseOf(k)
    BY DEF Same, PhaseOf
  <1>2. phase' = [phase EXCEPT ![j] = PhaseOf(j)']
    BY <1>1 DEF phase
  <1>3. told' = [told EXCEPT ![j] = notes'[j] \ {"info"}]
    BY DEF Same, told
  <1>4. enrolling' = IF ppc'[j] \in EndPcs \cup {"idle"} THEN enrolling \ {j} ELSE enrolling \cup {j}
    BY DEF Same, enrolling
  <1> QED BY <1>2, <1>3, <1>4

LEMMA LifeStutters ==
  ASSUME \A k \in Jobs : Same(k), UNCHANGED <<tjob, tstat, result>>
  PROVE  UNCHANGED Life!vars
  <1>1. \A k \in Jobs : PhaseOf(k)' = PhaseOf(k)
    BY DEF Same, PhaseOf
  <1>2. phase' = phase
    BY <1>1 DEF phase
  <1>3. told' = told
    BY DEF Same, told
  <1>4. enrolling' = enrolling
    BY DEF Same, enrolling
  <1> QED BY <1>2, <1>3, <1>4 DEF Life!vars

\* One step of JobLife on one job or one task.
LEMMA LifeSteps ==
  /\ \A j \in Jobs : (\/ Life!Post(j) \/ Life!StopEnrolling(j) \/ Life!Offer(j) \/ Life!Close(j)
                      \/ Life!Announce(j) \/ Life!Remove(j) \/ Life!Overtake(j) \/ Life!Late(j)) => Life!Next
  /\ \A j \in Jobs, t \in TaskIds : Life!Enrol(j, t) => Life!Next
  /\ \A t \in TaskIds : Life!Take(t) \/ (\E v \in Terminal : Life!End(t, v)) => Life!Next
  BY DEF Life!Next, Life!TaskIds, Life!Verdicts, TaskIds, Terminal

\* Where a job is, seen from one who works on it.
LEMMA LifeFacts ==
  ASSUME VerdictInv, LifeInv, NEW j \in Jobs
  PROVE  /\ phase[j] = PhaseOf(j) /\ told[j] = notes[j] \ {"info"} /\ status[j] \in JobStatus
         /\ j \in enrolling <=> ppc[j] \notin EndPcs \cup {"idle"}
         /\ j \in early => HasTask(j)
         /\ HasTask(j) => ppc[j] \notin BeforeInsert
         /\ ppc[j] = "idle" => status[j] = "none" /\ j \notin early
         /\ ppc[j] \notin EndPcs \cup {"idle"} => PhaseOf(j) \in {"preparing", "offered", "overtaken"}
         /\ \A t \in TaskIds : tjob[t] = j /\ tstat[t] \in {"pending", "running"}
              => PhaseOf(j) \in {"preparing", "offered", "overtaken"}
         /\ Life!Tasks(j) # {} <=> HasTask(j)
         /\ Life!Scored(j) <=> Scored(j)
         /\ Ended(j) /\ Regular(j) =>
              j \notin enrolling /\ \A t \in Life!Tasks(j) : tstat[t] \in Terminal
  <1>1. Good /\ EnrolledInv /\ DeletionInv /\ VerdictOf(j) /\ Bookkeeping /\ status \in [Jobs -> JobStatus]
                /\ tstat \in [TaskIds -> TaskStatus]
    BY VerdictGood, TypesOfGood DEF VerdictInv, RowsInv
  <1>2. /\ phase[j] = PhaseOf(j) /\ told[j] = notes[j] \ {"info"} /\ status[j] \in JobStatus
        /\ j \in enrolling <=> ppc[j] \notin EndPcs \cup {"idle"}
    BY <1>1 DEF phase, told, enrolling
  <1>3. (j \in early => HasTask(j)) /\ (HasTask(j) => ppc[j] \notin BeforeInsert)
    BY <1>1, TasksComeAfterUnlink DEF LifeInv
  <1>4. ppc[j] = "idle" => status[j] = "none" /\ j \notin early
    BY <1>1, <1>3 DEF DeletionInv, BeforeInsert
  <1>5. ASSUME ~(PhaseOf(j) \in {"preparing", "offered", "overtaken"}), ppc[j] # "idle"
        PROVE  /\ ppc[j] \in EndPcs
               /\ \A t \in TaskIds : tjob[t] = j => tstat[t] \notin {"pending", "running"}
    <2>1. j \notin early /\ status[j] \in Terminal \cup {"none"}
      BY <1>2, <1>5 DEF PhaseOf, JobStatus, Terminal
    <2>2. CASE status[j] = "none"
      BY <1>5, <2>1, <2>2 DEF LifeInv
    <2>3. CASE status[j] \in Terminal
      BY <1>1, <2>1, <2>3 DEF VerdictOf, Regular, Terminal, Ended, NonePending
    <2> QED BY <2>1, <2>2, <2>3
  <1>6. \A t \in TaskIds : tjob[t] = j => ppc[j] # "idle"
    BY <1>3 DEF HasTask, BeforeInsert
  <1>7. (Life!Tasks(j) # {} <=> HasTask(j)) /\ (Life!Scored(j) <=> Scored(j))
    BY DEF Life!Tasks, Life!Scored, Life!TaskIds, TaskIds, HasTask, Scored
  <1>8. ASSUME Ended(j), Regular(j)
        PROVE  j \notin enrolling /\ \A t \in Life!Tasks(j) : tstat[t] \in Terminal
    BY <1>1, <1>2, <1>8 DEF Ended, NonePending, Regular, EnrolledInv, Bookkeeping, TaskStatus, Terminal,
                            Life!Tasks, Life!TaskIds, TaskIds
  <1> QED BY <1>2, <1>3, <1>4, <1>5, <1>6, <1>7, <1>8

LifeStep == Life!Next \/ UNCHANGED Life!vars

\* The steps of an enrolment.
LEMMA PrepLife ==
  ASSUME VerdictInv, LifeInv, NEW j \in Jobs, Create(j) \/ PrepStep(j) \/ PrepAborts(j)
  PROVE  LifeStep
  <1>1. Good /\ EnrolledInv /\ VerdictOf(j) /\ Bookkeeping
    BY VerdictGood, TypesOfGood
  <1>2. ppc \in [Jobs -> PrepPcs] /\ status \in [Jobs -> JobStatus] /\ notes \in [Jobs -> SUBSET {"info", "success", "error"}]
    BY <1>1, TypesOfGood, FilesOfGood
  <1> USE <1>2 DEF PrepGoto, SetStatus, AddNotification, db, files, prep, acts, hist, LifeStep
  <1>3. ASSUME Create(j) PROVE LifeStep
    <2>1. \A k \in Jobs : k # j => Same(k)
      BY <1>3 DEF Create, Same
    <2>2. /\ ppc[j] = "idle" /\ status'[j] = "preparing" /\ ppc'[j] = "normalize"
          /\ UNCHANGED <<tjob, tstat, result, notes, early>>
      BY <1>3 DEF Create
    <2>3. j \notin early /\ status[j] = "none" /\ phase[j] = "absent"
      BY <2>2, LifeFacts DEF PhaseOf
    <2>4. Life!Post(j)
      <3>1. told' = told /\ PhaseOf(j)' = "preparing"
        BY <2>2, <2>3 DEF told, PhaseOf
      <3> QED BY <2>1, <2>2, <2>3, <3>1, LifeFrame DEF Life!Post, EndPcs
    <2> QED BY <2>4, LifeSteps
  <1>4. ASSUME \/ NormalizeOk(j) \/ UnlinkPartial(j) \/ InfoNote(j) PROVE LifeStep
    <2>1. \A k \in Jobs : Same(k)
      BY <1>4 DEF NormalizeOk, UnlinkPartial, InfoNote, Same, EndPcs
    <2> QED BY <1>4, <2>1, LifeStutters DEF NormalizeOk, UnlinkPartial, InfoNote
  <1>5. ASSUME PrepCheck(j) \/ Retrieve(j) \/ PrepAborts(j) PROVE LifeStep
    <2>1. PICK to \in PrepPcs \ {"idle"} : ppc[j] \notin {"idle", "done", "dead"} /\ ppc' = [ppc EXCEPT ![j] = to]
                                           /\ (ppc[j] \in EndPcs => to \in EndPcs)
      BY <1>5 DEF PrepCheck, Retrieve, PrepAborts, PrepPcs, EndPcs
    <2>2. UNCHANGED <<tjob, tstat, result, notes, status, early>>
      BY <1>5 DEF PrepCheck, Retrieve, PrepAborts
    <2>3. \A k \in Jobs : k # j => Same(k)
      BY <2>1, <2>2 DEF Same
    <2>4. CASE ppc[j] \in EndPcs <=> to \in EndPcs
      <3>1. \A k \in Jobs : Same(k)
        BY <2>1, <2>2, <2>4 DEF Same
      <3> QED BY <2>2, <3>1, LifeStutters
    <2>5. CASE ~(ppc[j] \in EndPcs <=> to \in EndPcs)
      <3>1. ppc[j] \notin EndPcs \cup {"idle"} /\ ppc'[j] \in EndPcs
        BY <2>1, <2>5
      <3>2. PhaseOf(j)' = phase[j] /\ j \in enrolling
        BY <2>1, <2>2, <3>1, LifeFacts DEF PhaseOf
      <3>3. phase' = phase
        BY <2>3, <3>2, LifeFrame DEF phase
      <3>4. Life!StopEnrolling(j)
        <4>1. told' = told
          BY <2>2 DEF told
        <4> QED BY <2>2, <2>3, <3>1, <3>2, <3>3, <4>1, LifeFrame DEF Life!StopEnrolling
      <3> QED BY <3>4, LifeSteps
    <2> QED BY <2>4, <2>5
  <1>6. ASSUME NormalizeFails(j) \/ NoRowsFail(j) PROVE LifeStep
    <2>1. /\ ppc[j] \in {"normalize", "norows"} /\ ppc'[j] \in EndPcs
          /\ status' = [status EXCEPT ![j] = IF @ = "none" THEN "none" ELSE "failed"]
          /\ UNCHANGED <<tjob, tstat, result, notes, early>>
      BY <1>6 DEF NormalizeFails, NoRowsFail, EndPcs
    <2>2. \A k \in Jobs : k # j => Same(k)
      BY <1>6 DEF NormalizeFails, NoRowsFail, Same
    <2>3. ~HasTask(j)
      BY <1>1, <2>1, LifeFacts DEF EnrolledInv, BeforeInsert
    <2>4. j \notin early /\ status[j] \in {"none", "preparing", "failed"}
      BY <1>1, <2>3, LifeFacts DEF EnrolledInv, JobStatus
    <2>5. CASE status[j] = "preparing"
      <3>1. phase[j] = "preparing" /\ PhaseOf(j)' = "failed"
        BY <2>1, <2>4, <2>5, LifeFacts DEF PhaseOf
      <3>2. Life!Tasks(j) = {} /\ ~Life!Scored(j)
        BY <2>3, LifeFacts DEF Scored, HasTask
      <3>3. Life!Close(j)
        <4>1. told' = told
          BY <2>1 DEF told
        <4> QED BY <2>1, <2>2, <3>1, <3>2, <4>1, LifeFrame DEF Life!Close, Life!Open
      <3> QED BY <3>3, LifeSteps
    <2>6. CASE status[j] # "preparing"
      <3>1. ppc[j] \in EndPcs
        BY <1>1, <2>1, <2>3, <2>4, <2>6 DEF LifeInv, VerdictOf, Regular, Terminal, Ended, NonePending
      <3>2. \A k \in Jobs : Same(k)
        BY <2>1, <2>2, <2>4, <2>6, <3>1 DEF Same, EndPcs
      <3> QED BY <2>1, <3>2, LifeStutters
    <2> QED BY <2>5, <2>6
  <1>7. ASSUME NoRowsNote(j) PROVE LifeStep
    <2>1. /\ ppc[j] = "norowsnote" /\ ppc'[j] = "done"
          /\ notes' = [notes EXCEPT ![j] = @ \cup {"error"}]
          /\ UNCHANGED <<tjob, tstat, result, status, early>>
      BY <1>7 DEF NoRowsNote
    <2>2. \A k \in Jobs : k # j => Same(k)
      BY <1>7 DEF NoRowsNote, Same
    <2>3. j \notin early /\ status[j] \in {"failed", "none"}
      BY <1>1, <2>1, LifeFacts DEF EnrolledInv, LifeInv
    <2>4. /\ told' = [told EXCEPT ![j] = @ \cup {"error"}]
          /\ phase' = phase /\ enrolling' = enrolling
          /\ phase[j] = IF status[j] = "none" THEN "removed" ELSE "failed"
      <3>1. PhaseOf(j)' = PhaseOf(j) /\ phase[j] = IF status[j] = "none" THEN "removed" ELSE "failed"
        BY <2>1, <2>3, LifeFacts DEF PhaseOf
      <3>2. phase' = phase
        BY <2>2, <3>1, LifeFrame DEF phase
      <3>3. notes'[j] \ {"info"} = told[j] \cup {"error"}
        BY <2>1, LifeFacts
      <3>4. told' = [told EXCEPT ![j] = @ \cup {"error"}]
        BY <2>2, <3>3, LifeFrame DEF told
      <3>5. enrolling' = enrolling
        BY <2>1, <2>2 DEF Same, enrolling, EndPcs
      <3> QED BY <3>1, <3>2, <3>4, <3>5
    <2>5. Life!Announce(j) \/ Life!Late(j)
      BY <2>1, <2>3, <2>4 DEF Life!Announce, Life!Late, Life!Verdicts, Life!News
    <2> QED BY <2>5, LifeSteps
  <1>8. ASSUME InsertTask(j) PROVE LifeStep
    <2>1. /\ nextId \in TaskIds /\ ppc[j] = "insert" /\ ppc'[j] \in {"insert", "publish"}
          /\ tjob' = [tjob EXCEPT ![nextId] = j] /\ tstat' = [tstat EXCEPT ![nextId] = "pending"]
          /\ UNCHANGED <<result, status, notes, early>>
      BY <1>8 DEF InsertTask
    <2>2. \A k \in Jobs : k # j => Same(k)
      BY <1>8 DEF InsertTask, Same
    <2>3. phase[j] \in {"preparing", "offered", "overtaken"} /\ j \in enrolling /\ tstat[nextId] = "unborn"
      BY <1>1, <2>1, LifeFacts DEF EndPcs, Bookkeeping, TaskIds
    <2>4. PhaseOf(j)' = phase[j]
      BY <2>1, LifeFacts DEF PhaseOf
    <2>5. phase' = phase /\ told' = told /\ enrolling' \in {enrolling, enrolling \ {j}}
      <3>1. phase' = phase
        BY <2>2, <2>4, LifeFrame DEF phase
      <3>2. told' = told
        BY <2>1 DEF told
      <3>3. enrolling \cup {j} = enrolling
        BY <2>3
      <3>4. enrolling' = enrolling \cup {j} \/ enrolling' = enrolling \ {j}
        BY <2>2, LifeFrame
      <3> QED BY <3>1, <3>2, <3>3, <3>4
    <2>6. Life!Enrol(j, nextId)
      BY <2>1, <2>3, <2>5 DEF Life!Enrol, Life!Open
    <2> QED BY <2>1, <2>6, LifeSteps
  <1>9. ASSUME Publish(j) PROVE LifeStep
    <2>1. /\ ppc[j] = "publish" /\ ppc'[j] = "info"
          /\ status' = [status EXCEPT ![j] = IF @ = "preparing" THEN "pending" ELSE @]
          /\ UNCHANGED <<tjob, tstat, result, notes, early>>
      BY <1>9 DEF Publish
    <2>2. \A k \in Jobs : k # j => Same(k)
      BY <1>9 DEF Publish, Same
    <2>3. CASE status[j] = "preparing" /\ j \notin early
      <3>1. phase[j] = "preparing" /\ PhaseOf(j)' = "offered" /\ Life!Tasks(j) # {} /\ j \notin enrolling
        BY <1>1, <2>1, <2>3, LifeFacts DEF PhaseOf, EnrolledInv, EndPcs
      <3>2. Life!Offer(j)
        <4>1. told' = told /\ enrolling' = enrolling
          BY <2>1, <2>2 DEF Same, told, enrolling, EndPcs
        <4> QED BY <2>1, <2>2, <3>1, <4>1, LifeFrame DEF Life!Offer
      <3> QED BY <3>2, LifeSteps
    <2>4. CASE ~(status[j] = "preparing" /\ j \notin early)
      <3>1. phase' = phase
        <4>1. PhaseOf(j)' = phase[j]
          BY <2>1, <2>4, LifeFacts DEF PhaseOf
        <4> QED BY <2>2, <4>1, LifeFrame DEF phase
      <3>2. told' = told /\ enrolling' = enrolling
        BY <2>1, <2>2 DEF Same, told, enrolling, EndPcs
      <3> QED BY <2>1, <3>1, <3>2 DEF Life!vars
    <2> QED BY <2>3, <2>4
  <1> QED BY <1>3, <1>4, <1>5, <1>6, <1>7, <1>8, <1>9 DEF PrepStep

LEMMA DeleteLife ==
  ASSUME VerdictInv, LifeInv, NEW j \in Jobs, DeleteRequest(j) \/ DeleteStep(j)
  PROVE  LifeStep
  <1>1. Good /\ ppc \in [Jobs -> PrepPcs] /\ status \in [Jobs -> JobStatus]
             /\ notes \in [Jobs -> SUBSET {"info", "success", "error"}]
    BY VerdictGood, TypesOfGood, FilesOfGood
  <1> USE <1>1 DEF db, files, prep, acts, hist, LifeStep
  <1>2. CASE DeleteRequest(j) \/ Purge(j) \/ (DeleteRows(j) /\ status[j] \notin Terminal)
    <2>1. UNCHANGED <<tjob, tstat, result, status, notes, ppc, early>>
      BY <1>2 DEF DeleteRequest, Purge, DeleteRows
    <2>2. \A k \in Jobs : Same(k)
      BY <2>1 DEF Same
    <2> QED BY <2>1, <2>2, LifeStutters
  <1>3. CASE DeleteRows(j) /\ status[j] \in Terminal
    <2>1. /\ status' = [status EXCEPT ![j] = "none"] /\ notes' = [notes EXCEPT ![j] = {}]
          /\ tstat' = [t \in TaskIds |-> IF tjob[t] = j THEN "gone" ELSE tstat[t]]
          /\ result' = result \ {j} /\ UNCHANGED <<tjob, ppc, early>>
      BY <1>3 DEF DeleteRows
    <2>2. \A k \in Jobs : k # j => Same(k)
      BY <2>1 DEF Same
    <2>3. ppc[j] # "idle"
      BY <1>3, LifeFacts DEF Terminal
    <2>4. phase' = [phase EXCEPT ![j] = IF @ = "overtaken" THEN @ ELSE "removed"]
      <3>1. PhaseOf(j)' = IF phase[j] = "overtaken" THEN phase[j] ELSE "removed"
        BY <1>3, <2>1, <2>3, LifeFacts DEF PhaseOf, Terminal
      <3> QED BY <2>2, <3>1, LifeFrame DEF phase
    <2>5. told' = [told EXCEPT ![j] = {}]
      BY <2>1, <2>2, LifeFrame
    <2>6. enrolling' = enrolling
      BY <2>1 DEF enrolling
    <2>7. phase[j] \in {"completed", "failed", "overtaken"}
      BY <1>3, LifeFacts DEF PhaseOf, Terminal
    <2>8. Life!Remove(j)
      BY <2>1, <2>4, <2>5, <2>6, <2>7 DEF Life!Remove, Life!Verdicts, Life!TaskIds, TaskIds
    <2> QED BY <2>8, LifeSteps
  <1> QED BY <1>2, <1>3 DEF DeleteStep

\* A task goes from one state to the next, and nothing else can be seen.
LEMMA MoveLife ==
  ASSUME VerdictInv, LifeInv, NEW t \in TaskIds, NEW to,
         UNCHANGED <<status, tjob, result, notes, ppc, early>>, tstat' = [tstat EXCEPT ![t] = to],
         (tstat[t] = "pending" /\ to = "running") \/ (tstat[t] = "running" /\ to \in Terminal)
  PROVE  LifeStep
  <1>1. Good /\ tjob[t] \in Jobs
    BY VerdictGood, TypesOfGood DEF Bookkeeping
  <1>2. phase[tjob[t]] \in {"preparing", "offered", "overtaken"}
    BY <1>1, LifeFacts
  <1>3. UNCHANGED <<phase, enrolling, told>>
    BY DEF phase, PhaseOf, enrolling, told
  <1>4. Life!Take(t) \/ \E v \in Terminal : Life!End(t, v)
    BY <1>1, <1>2, <1>3 DEF Life!Take, Life!End, Life!Move, Life!Open
  <1> QED BY <1>4, LifeSteps DEF LifeStep

LEMMA WorkerLife ==
  ASSUME VerdictInv, LifeInv, NEW w \in Workers, WorkerOwn(w)
  PROVE  LifeStep
  <1>1. Good /\ EnrolledInv /\ Bookkeeping
    BY VerdictGood, TypesOfGood
  <1>2. ppc \in [Jobs -> PrepPcs] /\ status \in [Jobs -> JobStatus] /\ tstat \in [TaskIds -> TaskStatus]
    BY <1>1, TypesOfGood, FilesOfGood
  <1> USE <1>2 DEF Goto, SetStatus, db, files, prep, acts, hist, LifeStep
  <1>3. CASE Claim(w)
    <2>1. PICK t \in TaskIds : tstat[t] = "pending" /\ tstat' = [tstat EXCEPT ![t] = "running"]
                               /\ UNCHANGED <<status, tjob, result, notes, ppc, early>>
      BY <1>3 DEF Claim, Claimable
    <2> QED BY <2>1, MoveLife
  <1>4. CASE Load(w) \/ FetchJob(w) \/ Evaluate(w) \/ AppendRow(w)
    <2>1. UNCHANGED <<tjob, tstat, result, status, notes, ppc, early>>
      BY <1>4 DEF Load, FetchJob, Evaluate, AppendRow
    <2>2. \A k \in Jobs : Same(k)
      BY <2>1 DEF Same
    <2> QED BY <2>1, <2>2, LifeStutters
  <1>5. CASE CompleteTask(w) \/ FailTask(w)
    <2>1. PICK v \in Terminal : SetTask(task[w], v) /\ pc[w] \in HoldPcs
                                /\ UNCHANGED <<status, tjob, result, notes, ppc, early>>
      BY <1>5 DEF CompleteTask, FailTask, EndTask, Terminal, HoldPcs
    <2>2. task[w] \in TaskIds /\ tstat[task[w]] \in {"running", "gone"}
      BY <1>1, <2>1, HandsOfGood
    <2>3. CASE tstat[task[w]] = "running"
      <3>1. tstat' = [tstat EXCEPT ![task[w]] = v]
        BY <2>1, <2>3 DEF SetTask
      <3> QED BY <2>1, <2>2, <2>3, <3>1, MoveLife
    <2>4. CASE tstat[task[w]] = "gone"
      <3>1. tstat' = tstat
        BY <2>1, <2>2, <2>4 DEF SetTask
      <3>2. \A k \in Jobs : Same(k)
        BY <2>1 DEF Same
      <3> QED BY <2>1, <3>1, <3>2, LifeStutters
    <2> QED BY <2>2, <2>3, <2>4
  <1>6. CASE StartRunning(w)
    <2>2. PICK j \in Jobs, t \in TaskIds :
            j = jobOf[w] /\ tjob[t] = j /\ tstat[t] \in {"running", "gone"}
      BY <1>1, <1>6, HandsOfGood DEF StartRunning, HoldPcs
    <2>1. /\ status' = [status EXCEPT ![j] = IF @ = "none" THEN "none" ELSE "running"]
          /\ UNCHANGED <<tjob, tstat, result, notes, ppc, early>>
      BY <1>6, <2>2 DEF StartRunning
    <2>3. status[j] = "none" \/ PhaseOf(j) \in {"preparing", "offered", "overtaken"}
      BY <1>1, <2>2, LifeFacts DEF EnrolledInv
    <2>4. \A k \in Jobs : k # j => Same(k)
      BY <2>1 DEF Same
    <2>5. told' = told /\ enrolling' = enrolling
      BY <2>1 DEF told, enrolling
    <2>6. CASE PhaseOf(j) = "preparing"
      <3>1. phase[j] = "preparing" /\ PhaseOf(j)' = "offered" /\ Life!Tasks(j) # {}
        BY <2>1, <2>2, <2>6, LifeFacts DEF PhaseOf, HasTask
      <3>2. Life!Offer(j)
        BY <2>1, <2>2, <2>4, <2>5, <3>1, LifeFrame DEF Life!Offer
      <3> QED BY <2>2, <3>2, LifeSteps
    <2>7. CASE PhaseOf(j) # "preparing"
      <3>1. PhaseOf(j)' = phase[j]
        BY <2>1, <2>2, <2>3, <2>7, LifeFacts DEF PhaseOf, JobStatus
      <3>2. phase' = phase
        BY <2>2, <2>4, <3>1, LifeFrame DEF phase
      <3> QED BY <2>1, <2>5, <3>2 DEF Life!vars
    <2> QED BY <2>6, <2>7
  <1> QED BY <1>3, <1>4, <1>5, <1>6 DEF WorkerOwn

LEMMA FinalizerLife ==
  ASSUME VerdictInv, LifeInv, NEW a \in Actors, Finalize(a)
  PROVE  LifeStep
  <1>1. Good /\ EnrolledInv /\ Bookkeeping /\ CountOf(a)
    BY VerdictGood, TypesOfGood
  <1>2. ppc \in [Jobs -> PrepPcs] /\ status \in [Jobs -> JobStatus] /\ result \in SUBSET Jobs
        /\ notes \in [Jobs -> SUBSET {"info", "success", "error"}]
    BY <1>1, TypesOfGood, FilesOfGood
  <1> USE <1>2 DEF Goto, Return, SetStatus, AddNotification, db, files, prep, acts, hist, LifeStep
  <1>3. pc[a] # "idle"
    BY DEF Finalize, CountPending, CountRunning, CountFailed, RefetchJob, ReadRows, FailJob, ErrorNote,
           OpenReport, WriteReport, CopyPartial, CompleteJob, SuccessNote
  <1>4. PICK j \in Jobs : j = jobOf[a] /\ HasTask(j) /\ ppc[j] # "idle" /\ Life!Tasks(j) # {} /\ VerdictOf(j)
    <2>1. jobOf[a] \in Jobs /\ HasTask(jobOf[a])
      BY <1>1, <1>3 DEF Bookkeeping, EnrolledInv
    <2> QED BY <2>1, VerdictGood, LifeFacts DEF BeforeInsert
  <1>5. CASE \/ CountRunning(a) \/ CountFailed(a) \/ RefetchJob(a) \/ ReadRows(a)
             \/ OpenReport(a) \/ WriteReport(a) \/ CopyPartial(a)
    <2>1. UNCHANGED <<tjob, tstat, result, status, notes, ppc, early>>
      BY <1>5 DEF CountRunning, CountFailed, RefetchJob, ReadRows, OpenReport, WriteReport, CopyPartial
    <2>2. \A k \in Jobs : Same(k)
      BY <2>1 DEF Same
    <2> QED BY <2>1, <2>2, LifeStutters
  <1>6. CASE CountPending(a)
    <2>1. UNCHANGED <<tjob, tstat, result, status, notes, ppc>>
      BY <1>6 DEF CountPending
    <2>2. CASE early' = early
      <3>1. \A k \in Jobs : Same(k)
        BY <2>1, <2>2 DEF Same
      <3> QED BY <2>1, <3>1, LifeStutters
    <2>3. CASE early' # early
      <3>1. ppc[j] = "insert" /\ early' = early \cup {j} /\ j \notin early /\ TasksOf(j, {"pending"}) = {}
        BY <1>4, <1>6, <2>3 DEF CountPending
      <3>2. phase[j] \in {"preparing", "offered"} /\ PhaseOf(j)' = "overtaken" /\ j \in enrolling
        <4>1. ppc[j] \notin EndPcs \cup {"idle"}
          BY <3>1 DEF EndPcs
        <4>2. PhaseOf(j) # "overtaken"
          BY <1>2, <3>1 DEF PhaseOf, JobStatus
        <4>3. PhaseOf(j)' = "overtaken"
          BY <3>1 DEF PhaseOf
        <4> QED BY <1>4, <4>1, <4>2, <4>3, LifeFacts
      <3>3. told' = told /\ enrolling' = enrolling
        BY <2>1 DEF told, enrolling
      <3>4. \A t \in Life!Tasks(j) : tstat[t] # "pending"
        BY <3>1 DEF TasksOf, Life!Tasks, Life!TaskIds, TaskIds
      <3>5. phase' = [phase EXCEPT ![j] = "overtaken"]
        <4>1. \A k \in Jobs : k # j => Same(k)
          BY <2>1, <3>1 DEF Same
        <4> QED BY <1>4, <3>2, <4>1, LifeFrame
      <3>6. Life!Overtake(j)
        BY <1>4, <2>1, <3>2, <3>3, <3>4, <3>5 DEF Life!Overtake, Life!Open
      <3> QED BY <1>4, <3>6, LifeSteps
    <2> QED BY <2>2, <2>3
  <1>7. CASE FailJob(a)
    <2>1. /\ pc[a] = "failjob" /\ status' = [status EXCEPT ![j] = IF @ = "none" THEN "none" ELSE "failed"]
          /\ UNCHANGED <<tjob, tstat, result, notes, ppc, early>>
      BY <1>4, <1>7 DEF FailJob
    <2>2. Regular(j) => Ended(j) /\ ~Scored(j)
      BY <1>1, <1>4, <2>1 DEF CountOf, RunningCounted, PendingCounted, Failing
    <2>3. (\A k \in Jobs : k # j => Same(k)) /\ told' = told /\ enrolling' = enrolling
      BY <2>1 DEF Same, told, enrolling
    <2>4. CASE phase[j] \in {"preparing", "offered"}
      <3>1. Regular(j) /\ PhaseOf(j)' = "failed"
        BY <1>4, <2>1, <2>4, LifeFacts DEF PhaseOf, Regular
      <3>2. j \notin enrolling /\ (\A t \in Life!Tasks(j) : tstat[t] \in Terminal) /\ ~Life!Scored(j)
        BY <1>4, <2>2, <3>1, LifeFacts
      <3>3. Life!Close(j)
        BY <1>4, <2>1, <2>3, <2>4, <3>1, <3>2, LifeFrame DEF Life!Close, Life!Open, Life!Verdicts, Terminal
      <3> QED BY <1>4, <3>3, LifeSteps
    <2>5. CASE phase[j] \notin {"preparing", "offered"}
      <3>1. PhaseOf(j)' = phase[j]
        BY <1>4, <2>1, <2>2, <2>5, LifeFacts DEF PhaseOf, Regular, VerdictOf, JobStatus
      <3>2. phase' = phase
        BY <1>4, <2>3, <3>1, LifeFrame DEF phase
      <3> QED BY <2>1, <2>3, <3>2 DEF Life!vars
    <2> QED BY <2>4, <2>5
  <1>8. CASE CompleteJob(a)
    <2>1. /\ pc[a] = "completejob" /\ status' = [status EXCEPT ![j] = IF @ = "none" THEN "none" ELSE "completed"]
          /\ result' = result \cup {j} /\ UNCHANGED <<tjob, tstat, notes, ppc, early>>
      BY <1>4, <1>8 DEF CompleteJob
    <2>2. Regular(j) => Ended(j) /\ Scored(j)
      BY <1>1, <1>4, <2>1 DEF CountOf, RunningCounted, PendingCounted, Completing
    <2>3. (\A k \in Jobs : k # j => Same(k)) /\ told' = told /\ enrolling' = enrolling
      BY <2>1 DEF Same, told, enrolling
    <2>4. CASE phase[j] \in {"preparing", "offered"}
      <3>1. Regular(j) /\ PhaseOf(j)' = "completed"
        BY <1>4, <2>1, <2>4, LifeFacts DEF PhaseOf, Regular
      <3>2. j \notin enrolling /\ (\A t \in Life!Tasks(j) : tstat[t] \in Terminal) /\ Life!Scored(j)
        BY <1>4, <2>2, <3>1, LifeFacts
      <3>3. Life!Close(j)
        BY <1>4, <2>1, <2>3, <2>4, <3>1, <3>2, LifeFrame DEF Life!Close, Life!Open, Life!Verdicts, Terminal
      <3> QED BY <1>4, <3>3, LifeSteps
    <2>5. CASE phase[j] \notin {"preparing", "offered"}
      <3>1. PhaseOf(j)' = phase[j] /\ (j \in result \/ phase[j] \in {"overtaken", "removed"})
        BY <1>4, <2>1, <2>2, <2>5, LifeFacts DEF PhaseOf, Regular, VerdictOf, JobStatus
      <3>2. phase' = phase
        BY <1>4, <2>3, <3>1, LifeFrame DEF phase
      <3>3. CASE j \in result
        <4>1. result' = result
          BY <2>1, <3>3
        <4> QED BY <2>1, <2>3, <3>2, <4>1 DEF Life!vars
      <3>4. CASE phase[j] \in {"overtaken", "removed"}
        <4>1. Life!Late(j)
          BY <2>1, <2>3, <3>2, <3>4 DEF Life!Late
        <4> QED BY <1>4, <4>1, LifeSteps
      <3> QED BY <3>1, <3>3, <3>4
    <2> QED BY <2>4, <2>5
  <1>9. CASE ErrorNote(a) \/ SuccessNote(a)
    <2>1. PICK v \in Terminal :
            /\ notes' = [notes EXCEPT ![j] = @ \cup {Life!News(v)}]
            /\ j \notin early => status[j] \in {v, "none"}
            /\ Life!News(v) # "info"
            /\ UNCHANGED <<tjob, tstat, result, status, ppc, early>>
      BY <1>4, <1>9 DEF ErrorNote, SuccessNote, Life!News, Terminal, LifeInv
    <2>2. \A k \in Jobs : k # j => Same(k)
      BY <2>1 DEF Same
    <2>3. told' = [told EXCEPT ![j] = @ \cup {Life!News(v)}]
      <3>1. notes'[j] \ {"info"} = told[j] \cup {Life!News(v)}
        BY <1>4, <2>1, LifeFacts
      <3> QED BY <1>4, <2>2, <3>1, LifeFrame DEF told
    <2>4. phase' = phase /\ enrolling' = enrolling
      BY <2>1 DEF phase, PhaseOf, enrolling
    <2>5. phase[j] = v \/ phase[j] \in {"overtaken", "removed"}
      BY <1>4, <2>1, LifeFacts DEF PhaseOf, Terminal
    <2>6. Life!Announce(j) \/ Life!Late(j)
      BY <2>1, <2>3, <2>4, <2>5 DEF Life!Announce, Life!Late, Life!Verdicts, Terminal
    <2> QED BY <1>4, <2>6, LifeSteps
  <1> QED BY <1>5, <1>6, <1>7, <1>8, <1>9 DEF Finalize

\* However the statements of preparers, threads, readers and deletions interleave, a
\* job lives as JobLife promises: in particular it is closed once, when its last task
\* has ended, with the verdict and the result that its tasks justify, and announced as
\* what it is, although a dozen statements lie between the first count and the last
\* write and several handlers may be in the middle of them.
THEOREM JobLifeIsImplemented == Spec => ImplementsJobLife
  <1>1. Init => Life!Init
    BY DEF Init, Life!Init, phase, PhaseOf, enrolling, told, Life!TaskIds, TaskIds
  <1>2. ASSUME VerdictInv, LifeInv, [Next]_vars PROVE [Life!Next]_(Life!vars)
    <2> SUFFICES LifeStep
      BY DEF LifeStep
    <2>1. ASSUME \/ \E r \in Readers : GetBreakdown(r) \/ \E j \in Jobs : GetJob(r, j)
                 \/ \E a \in Actors : ActorAborts(a)
                 \/ UNCHANGED vars
          PROVE  LifeStep
      <3>1. UNCHANGED <<tjob, tstat, result, status, notes, ppc, early>>
        BY <2>1 DEF GetBreakdown, GetJob, ActorAborts, vars, db, files, prep, acts, hist
      <3>2. \A k \in Jobs : Same(k)
        BY <3>1 DEF Same
      <3> QED BY <3>1, <3>2, LifeStutters DEF LifeStep
    <2> QED
      BY <1>2, <2>1, PrepLife, DeleteLife, WorkerLife, FinalizerLife
      DEF Next, Request, Handle, Fault, WorkerStep, ReaderStep, Actors
  <1>3. VerdictInv /\ LifeInv /\ [Next]_vars => LifeInv'
    BY LifeNext
  <1> QED BY <1>1, <1>2, <1>3, LifeInit, VerdictAlways, PTL DEF Spec, ImplementsJobLife, Life!Spec

=============================================================================
