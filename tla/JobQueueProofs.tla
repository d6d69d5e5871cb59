---------------------------- MODULE JobQueueProofs ----------------------------
(* Theorems about JobQueue, for every set of jobs, threads and tasks.       *)
EXTENDS JobQueueInv, FiniteSetTheorems, TLAPS

USE DEF NoTask, Leftover

LEMMA LinesFacts ==
  /\ <<>> \in Lines /\ <<Leftover>> \in Lines
  /\ NoReport \in Reports /\ Torn \in Reports
  /\ \A r \in Lines, n \in Nat : Whole(r, n) \in Reports
  /\ \A r \in Lines, t \in TaskIds : Append(r, t) \in Lines
  BY BoundsAssumption DEF Lines, Reports, NoReport, Torn, Whole, TaskIds

LEMMA TaskIdsArithmetic ==
  \A t \in TaskIds : /\ t \in Nat /\ t # NoTask
                     /\ t + 1 \in 1..(MaxTasks + 1)
                     /\ \A u \in TaskIds : u >= t + 1 <=> u >= t /\ u # t
  BY BoundsAssumption DEF TaskIds

LEMMA TasksOfFinite ==
  ASSUME NEW j, NEW s
  PROVE  IsFiniteSet(TasksOf(j, s)) /\ Cardinality(TasksOf(j, s)) \in Nat
  <1>1. IsFiniteSet(TaskIds)
    BY FS_Interval, BoundsAssumption DEF TaskIds
  <1>2. TasksOf(j, s) \subseteq TaskIds
    BY DEF TasksOf
  <1> QED BY <1>1, <1>2, FS_Subset, FS_CardinalityType

LEMMA TypeInit == Init => TypeInv
  <1> SUFFICES ASSUME Init PROVE TypeInv
    OBVIOUS
  <1> USE JobsAssumption, BoundsAssumption DEF Init
  <1>1. DbTypeOK
    BY DEF DbTypeOK, JobStatus, TaskStatus, TaskIds
  <1>2. FilesTypeOK
    <2>1. {<<>>, <<Leftover>>} \subseteq Lines
      BY LinesFacts
    <2>2. partial \in [Jobs -> Lines]
      BY <2>1
    <2> QED BY <2>2, LinesFacts DEF FilesTypeOK
  <1>3. HandlersTypeOK
    BY LinesFacts DEF HandlersTypeOK, PrepPcs, ActorPcs
  <1>4. Bookkeeping
    BY DEF Bookkeeping, HoldPcs, TaskIds
  <1> QED BY <1>1, <1>2, <1>3, <1>4 DEF TypeInv, TypeOK

LEMMA ReturnKeepsTypes ==
  ASSUME TypeInv, NEW a \in Actors, Return(a), UNCHANGED <<db, files, prep, dpc, hist>>
  PROVE  TypeInv'
  BY LinesFacts DEF TypeInv, TypeOK, DbTypeOK, FilesTypeOK, HandlersTypeOK, Bookkeeping,
     HoldPcs, ActorPcs, db, files, prep, hist, Return

LEMMA TypeNext == TypeInv /\ [Next]_vars => TypeInv'
  <1> SUFFICES ASSUME TypeInv, [Next]_vars PROVE TypeInv'
    OBVIOUS
  <1> USE JobsAssumption, BoundsAssumption, LinesFacts
      DEF TypeInv, TypeOK, DbTypeOK, FilesTypeOK, HandlersTypeOK, Bookkeeping,
          HoldPcs, JobStatus, TaskStatus, PrepPcs, ActorPcs, Actors,
          db, files, prep, acts, hist, PrepGoto, Goto
  <1>1. ASSUME NEW j \in Jobs, Create(j) PROVE TypeInv'
    BY <1>1 DEF Create
  <1>2. ASSUME NEW j \in Jobs, DeleteRequest(j) PROVE TypeInv'
    BY <1>2 DEF DeleteRequest
  <1>3. ASSUME NEW j \in Jobs, NormalizeOk(j) PROVE TypeInv'
    BY <1>3 DEF NormalizeOk
  <1>4. ASSUME NEW j \in Jobs, NormalizeFails(j) PROVE TypeInv'
    BY <1>4 DEF NormalizeFails, SetStatus
  <1>5. ASSUME NEW j \in Jobs, PrepCheck(j) PROVE TypeInv'
    BY <1>5 DEF PrepCheck
  <1>6. ASSUME NEW j \in Jobs, Retrieve(j) PROVE TypeInv'
    BY <1>6 DEF Retrieve
  <1>7. ASSUME NEW j \in Jobs, NoRowsFail(j) PROVE TypeInv'
    BY <1>7 DEF NoRowsFail, SetStatus
  <1>8. ASSUME NEW j \in Jobs, NoRowsNote(j) PROVE TypeInv'
    BY <1>8 DEF NoRowsNote, AddNotification
  <1>9. ASSUME NEW j \in Jobs, UnlinkPartial(j) PROVE TypeInv'
    BY <1>9 DEF UnlinkPartial
  <1>10. ASSUME NEW j \in Jobs, InsertTask(j) PROVE TypeInv'
    <2> USE TaskIdsArithmetic
    <2>1. DbTypeOK'
      BY <1>10 DEF InsertTask
    <2>2. FilesTypeOK' /\ HandlersTypeOK'
      BY <1>10 DEF InsertTask
    <2>3. /\ \A t \in TaskIds : (tstat[t] = "unborn" <=> t >= nextId)'
          /\ \A t \in TaskIds : (tstat[t] # "unborn" <=> tjob[t] \in Jobs)'
      BY <1>10 DEF InsertTask
    <2>4. \A i \in Jobs : (ppc[i] \in {"unlink", "insert"} => left[i] > 0)'
      BY <1>10 DEF InsertTask
    <2>5. \A a \in Actors : (task[a] # NoTask => tjob[task[a]] = jobOf[a])'
      <3> SUFFICES ASSUME NEW a \in Actors, task[a] # NoTask PROVE tjob'[task[a]] = jobOf[a]
        BY <1>10 DEF InsertTask
      <3>1. task[a] \in TaskIds /\ jobOf[a] \in Jobs /\ jobOf[a] = tjob[task[a]]
        OBVIOUS
      <3>2. tstat[task[a]] # "unborn"
        BY <3>1
      <3>3. task[a] # nextId
        BY <1>10, <3>2 DEF InsertTask
      <3> QED BY <1>10, <3>1, <3>3 DEF InsertTask
    <2> QED BY <1>10, <2>1, <2>2, <2>3, <2>4, <2>5 DEF InsertTask
  <1>11. ASSUME NEW j \in Jobs, Publish(j) PROVE TypeInv'
    BY <1>11 DEF Publish
  <1>12. ASSUME NEW j \in Jobs, InfoNote(j) PROVE TypeInv'
    BY <1>12 DEF InfoNote, AddNotification
  <1>13. ASSUME NEW j \in Jobs, DeleteRows(j) PROVE TypeInv'
    <2>1. /\ status' \in [Jobs -> JobStatus] /\ result' \subseteq Jobs
          /\ notes' \in [Jobs -> SUBSET {"info", "success", "error"}]
          /\ dpc' \in [Jobs -> {"idle", "delete", "purge", "deleted"}]
          /\ UNCHANGED <<tjob, nextId, files, prep, acts, hist>>
      <3>1. CASE status[j] \in Terminal
        <4>1. /\ status' = [status EXCEPT ![j] = "none"] /\ result' = result \ {j}
              /\ notes' = [notes EXCEPT ![j] = {}] /\ dpc' = [dpc EXCEPT ![j] = "purge"]
              /\ UNCHANGED <<tjob, nextId, files, prep, acts, hist>>
          BY <1>13, <3>1 DEF DeleteRows
        <4> HIDE <1>13
        <4> QED BY <4>1
      <3>2. CASE status[j] \notin Terminal
        <4>1. /\ dpc' = [dpc EXCEPT ![j] = "idle"]
              /\ UNCHANGED <<status, result, notes, tjob, nextId, files, prep, acts, hist>>
          BY <1>13, <3>2 DEF DeleteRows
        <4> HIDE <1>13
        <4> QED BY <4>1
      <3> QED BY <3>1, <3>2
    <2>2. /\ tstat' \in [TaskIds -> TaskStatus]
          /\ \A t \in TaskIds : tstat'[t] = "unborn" <=> tstat[t] = "unborn"
      <3>1. CASE status[j] \in Terminal
        <4>1. tstat' = [t \in TaskIds |-> IF tjob[t] = j THEN "gone" ELSE tstat[t]]
          BY <1>13, <3>1 DEF DeleteRows
        <4>2. \A t \in TaskIds : tjob[t] = j => tstat[t] # "unborn"
          OBVIOUS
        <4> HIDE <1>13
        <4> QED BY <4>1, <4>2
      <3>2. CASE status[j] \notin Terminal
        BY <1>13, <3>2 DEF DeleteRows
      <3> QED BY <3>1, <3>2
    <2> HIDE <1>13
    <2> QED BY <2>1, <2>2
  <1>14. ASSUME NEW j \in Jobs, Purge(j) PROVE TypeInv'
    BY <1>14 DEF Purge
  <1>15. ASSUME NEW j \in Jobs, PrepAborts(j) PROVE TypeInv'
    BY <1>15 DEF PrepAborts
  <1>16. ASSUME NEW w \in Workers, Claim(w) PROVE TypeInv'
    BY <1>16 DEF Claim, Claimable
  <1>17. ASSUME NEW w \in Workers, Load(w) PROVE TypeInv'
    <2>1. CASE tstat[task[w]] = "gone"
      <3>1. Return(w) /\ UNCHANGED <<db, files, prep, dpc, hist>>
        BY <1>17, <2>1 DEF Load
      <3> QED BY <3>1, ReturnKeepsTypes DEF Actors
    <2>2. CASE ~(tstat[task[w]] = "gone")
      <3>1. /\ Goto(w, "load", "fetch") /\ UNCHANGED <<task, jobOf, seen, nfail>>
            /\ UNCHANGED <<db, files, prep, dpc, hist>>
        BY <1>17, <2>2 DEF Load
      <3> HIDE <1>17
      <3> QED BY <3>1
    <2> QED BY <2>1, <2>2
  <1>18. ASSUME NEW w \in Workers, FetchJob(w) PROVE TypeInv'
    BY <1>18 DEF FetchJob
  <1>19. ASSUME NEW w \in Workers, StartRunning(w) PROVE TypeInv'
    BY <1>19 DEF StartRunning, SetStatus
  <1>20. ASSUME NEW w \in Workers, Evaluate(w) PROVE TypeInv'
    BY <1>20 DEF Evaluate
  <1>21. ASSUME NEW w \in Workers, AppendRow(w) PROVE TypeInv'
    BY <1>21 DEF AppendRow
  <1>22. ASSUME NEW w \in Workers, CompleteTask(w) PROVE TypeInv'
    BY <1>22 DEF CompleteTask, EndTask, SetTask
  <1>23. ASSUME NEW w \in Workers, FailTask(w) PROVE TypeInv'
    BY <1>23 DEF FailTask, EndTask, SetTask
  <1>24. ASSUME NEW a \in Actors, CountPending(a) PROVE TypeInv'
    <2>1. CASE TasksOf(jobOf[a], {"pending"}) # {}
      <3>1. Return(a) /\ UNCHANGED <<db, files, prep, dpc, hist>>
        BY <1>24, <2>1 DEF CountPending
      <3> QED BY <3>1, ReturnKeepsTypes DEF Actors
    <2>2. CASE ~(TasksOf(jobOf[a], {"pending"}) # {})
      <3>1. /\ Goto(a, "cntpending", "cntrunning") /\ UNCHANGED <<task, jobOf, seen, nfail>>
            /\ early' \in {early, early \cup {jobOf[a]}}
            /\ UNCHANGED <<db, files, prep, dpc, stranded>>
        BY <1>24, <2>2 DEF CountPending
      <3> HIDE <1>24
      <3> QED BY <3>1
    <2> QED BY <2>1, <2>2
  <1>25. ASSUME NEW a \in Actors, CountRunning(a) PROVE TypeInv'
    <2>1. CASE TasksOf(jobOf[a], {"running"}) # {}
      <3>1. Return(a) /\ UNCHANGED <<db, files, prep, dpc, hist>>
        BY <1>25, <2>1 DEF CountRunning
      <3> QED BY <3>1, ReturnKeepsTypes DEF Actors
    <2>2. CASE ~(TasksOf(jobOf[a], {"running"}) # {})
      <3>1. /\ Goto(a, "cntrunning", "cntfailed") /\ UNCHANGED <<task, jobOf, seen, nfail>>
            /\ UNCHANGED <<db, files, prep, dpc, hist>>
        BY <1>25, <2>2 DEF CountRunning
      <3> HIDE <1>25
      <3> QED BY <3>1
    <2> QED BY <2>1, <2>2
  <1>26. ASSUME NEW a \in Actors, CountFailed(a) PROVE TypeInv'
    BY <1>26, TasksOfFinite DEF CountFailed
  <1>27. ASSUME NEW a \in Actors, RefetchJob(a) PROVE TypeInv'
    <2>1. CASE status[jobOf[a]] = "none"
      <3>1. Return(a) /\ UNCHANGED <<db, files, prep, dpc, hist>>
        BY <1>27, <2>1 DEF RefetchJob
      <3> QED BY <3>1, ReturnKeepsTypes DEF Actors
    <2>2. CASE ~(status[jobOf[a]] = "none")
      <3>1. /\ Goto(a, "refetch", "readrows") /\ UNCHANGED <<task, jobOf, seen, nfail>>
            /\ UNCHANGED <<db, files, prep, dpc, hist>>
        BY <1>27, <2>2 DEF RefetchJob
      <3> HIDE <1>27
      <3> QED BY <3>1
    <2> QED BY <2>1, <2>2
  <1>28. ASSUME NEW a \in Actors, ReadRows(a) PROVE TypeInv'
    BY <1>28 DEF ReadRows
  <1>29. ASSUME NEW a \in Actors, FailJob(a) PROVE TypeInv'
    BY <1>29 DEF FailJob, SetStatus
  <1>30. ASSUME NEW a \in Actors, ErrorNote(a) PROVE TypeInv'
    BY <1>30 DEF ErrorNote, AddNotification, Return
  <1>31. ASSUME NEW a \in Actors, OpenReport(a) PROVE TypeInv'
    BY <1>31 DEF OpenReport
  <1>32. ASSUME NEW a \in Actors, WriteReport(a) PROVE TypeInv'
    <2>1. seen[a] \in Lines /\ nfail[a] \in Nat
      OBVIOUS
    <2>2. \E r \in Reports : report' = [report EXCEPT ![jobOf[a]] = r]
      <3>1. \E r \in {NoReport, Torn, Whole(seen[a], nfail[a])} :
              report' = [report EXCEPT ![jobOf[a]] = r]
        <4>1. jobOf[a] \in Jobs
          BY <1>32 DEF WriteReport
        <4>2. report[jobOf[a]] \in Reports
          BY <4>1
        <4>3. report[jobOf[a]].state \in {"none", "torn", "whole"}
          BY <4>2 DEF Reports
        <4> QED BY <1>32, <4>3 DEF WriteReport
      <3>2. {NoReport, Torn, Whole(seen[a], nfail[a])} \subseteq Reports
        BY <2>1
      <3> QED BY <3>1, <3>2
    <2>3. Goto(a, "write", "copy")
          /\ UNCHANGED <<db, partial, copy, prep, task, jobOf, seen, nfail, dpc, hist>>
      BY <1>32 DEF WriteReport
    <2> HIDE <1>32
    <2> QED BY <2>2, <2>3
  <1>33. ASSUME NEW a \in Actors, CopyPartial(a) PROVE TypeInv'
    BY <1>33 DEF CopyPartial
  <1>34. ASSUME NEW a \in Actors, CompleteJob(a) PROVE TypeInv'
    BY <1>34 DEF CompleteJob, SetStatus
  <1>35. ASSUME NEW a \in Actors, SuccessNote(a) PROVE TypeInv'
    BY <1>35 DEF SuccessNote, AddNotification, Return
  <1>36. ASSUME NEW a \in Actors, ActorAborts(a) PROVE TypeInv'
    BY <1>36 DEF ActorAborts, Return
  <1>37. ASSUME NEW r \in Readers, NEW j \in Jobs, GetJob(r, j) PROVE TypeInv'
    BY <1>37 DEF GetJob
  <1>38. ASSUME NEW r \in Readers, GetBreakdown(r) PROVE TypeInv'
    <2>1. \/ Return(r) /\ UNCHANGED <<db, files, prep, dpc, hist>>
          \/ /\ Goto(r, "breakdown", "cntpending") /\ UNCHANGED <<task, jobOf, seen, nfail>>
             /\ UNCHANGED <<db, files, prep, dpc, hist>>
      BY <1>38 DEF GetBreakdown
    <2>2. CASE Return(r) /\ UNCHANGED <<db, files, prep, dpc, hist>>
      BY <2>2, ReturnKeepsTypes DEF Actors
    <2>3. CASE /\ Goto(r, "breakdown", "cntpending") /\ UNCHANGED <<task, jobOf, seen, nfail>>
               /\ UNCHANGED <<db, files, prep, dpc, hist>>
      BY <2>3
    <2> QED BY <2>1, <2>2, <2>3
  <1>39. CASE UNCHANGED vars
    BY <1>39 DEF vars
  <1> QED
    BY <1>1, <1>2, <1>3, <1>4, <1>5, <1>6, <1>7, <1>8, <1>9, <1>10, <1>11, <1>12, <1>13, <1>14, <1>15, <1>16, <1>17, <1>18, <1>19, <1>20, <1>21, <1>22, <1>23, <1>24, <1>25, <1>26, <1>27, <1>28, <1>29, <1>30, <1>31, <1>32, <1>33, <1>34, <1>35, <1>36, <1>37, <1>38, <1>39
       DEF Next, Request, Handle, Fault, PrepStep, DeleteStep, WorkerStep, WorkerOwn, Finalize, ReaderStep

\* The types of the columns, files and local variables of every reachable state.
THEOREM TypeCorrect == Spec => []TypeOK
  <1>1. TypeInv => TypeOK
    BY DEF TypeInv
  <1> QED BY TypeInit, TypeNext, <1>1, PTL DEF Spec

-----------------------------------------------------------------------------
(* What one step can do to the tasks and to the hands that hold them.      *)

Keeps   == UNCHANGED <<tstat, task, stranded>>
Offers  == /\ nextId \in TaskIds /\ tstat[nextId] = "unborn"
           /\ tstat' = [tstat EXCEPT ![nextId] = "pending"]
           /\ UNCHANGED <<task, stranded>>
Takes(w, t) ==
           /\ task[w] = NoTask /\ tstat[t] = "pending"
           /\ \A u \in TaskIds : u < t => tstat[u] # "pending"
           /\ tstat' = [tstat EXCEPT ![t] = "running"]
           /\ task'  = [task EXCEPT ![w] = t]
           /\ UNCHANGED stranded
Ends(w, s) ==
           /\ task[w] \in TaskIds
           /\ tstat' = [tstat EXCEPT ![task[w]] = IF @ \in {"unborn", "gone"} THEN @ ELSE s]
           /\ task'  = [task EXCEPT ![w] = NoTask]
           /\ UNCHANGED stranded
LetsGo(w) ==
           /\ task[w] \in TaskIds
           /\ task' = [task EXCEPT ![w] = NoTask]
           /\ UNCHANGED tstat
           /\ \/ stranded' = stranded /\ tstat[task[w]] = "gone"
              \/ stranded' = stranded \cup {task[w]}
Removes(j) ==
           /\ tstat' = [t \in TaskIds |-> IF tjob[t] = j THEN "gone" ELSE tstat[t]]
           /\ UNCHANGED <<task, stranded>>

TaskStep ==
  \/ Keeps \/ Offers
  \/ \E w \in Workers : \/ \E t \in TaskIds : Takes(w, t)
                        \/ \E s \in {"completed", "failed"} : Ends(w, s)
                        \/ LetsGo(w)
  \/ \E j \in Jobs : Removes(j)

LEMMA ReturnKeeps ==
  ASSUME TypeInv, NEW a \in Actors, pc[a] \notin HoldPcs, Return(a), UNCHANGED <<tstat, stranded>>
  PROVE  Keeps
  <1>1. task[a] = NoTask
    BY DEF TypeInv, Bookkeeping
  <1>2. task' = task
    BY <1>1 DEF Return, TypeInv, TypeOK, HandlersTypeOK
  <1> QED BY <1>2 DEF Keeps

LEMMA NextIsTaskStep == TypeInv /\ [Next]_vars => TaskStep
  <1> SUFFICES ASSUME TypeInv, [Next]_vars PROVE TaskStep
    OBVIOUS
  <1> USE DEF db, files, prep, acts, hist
  <1>1. ASSUME NEW j \in Jobs, Create(j) \/ DeleteRequest(j) \/ Purge(j) \/ PrepAborts(j)
        PROVE  Keeps
    BY <1>1 DEF Create, DeleteRequest, Purge, PrepAborts, Keeps
  <1>2. ASSUME NEW j \in Jobs, PrepStep(j) PROVE Keeps \/ Offers
    <2>1. CASE InsertTask(j)
      <3>1. tstat[nextId] = "unborn"
        BY <2>1 DEF InsertTask, TypeInv, TypeOK, DbTypeOK, Bookkeeping, TaskIds
      <3> QED BY <2>1, <3>1 DEF InsertTask, Offers
    <2>2. CASE ~InsertTask(j)
      BY <1>2, <2>2 DEF PrepStep, NormalizeOk, NormalizeFails, PrepCheck, Retrieve, NoRowsFail,
         NoRowsNote, UnlinkPartial, Publish, InfoNote, Keeps
    <2> QED BY <2>1, <2>2
  <1>3. ASSUME NEW j \in Jobs, DeleteRows(j) PROVE Keeps \/ Removes(j)
    BY <1>3 DEF DeleteRows, Keeps, Removes
  <1>4. ASSUME NEW w \in Workers, Claim(w) PROVE \E t \in TaskIds : Takes(w, t)
    <2>1. task[w] = NoTask
      BY <1>4 DEF Claim, Goto, TypeInv, Bookkeeping, HoldPcs, Actors
    <2>2. PICK t \in Claimable :
            /\ \A u \in Claimable : t <= u
            /\ tstat' = [tstat EXCEPT ![t] = "running"] /\ task' = [task EXCEPT ![w] = t]
            /\ UNCHANGED stranded
      BY <1>4 DEF Claim
    <2>3. \A u \in TaskIds : u < t => tstat[u] # "pending"
      BY <2>2, TaskIdsArithmetic DEF Claimable
    <2> QED BY <2>1, <2>2, <2>3 DEF Takes, Claimable
  <1>5. ASSUME NEW w \in Workers, Load(w) PROVE Keeps \/ LetsGo(w)
    <2>1. task[w] \in TaskIds
      BY <1>5 DEF Load, TypeInv, Bookkeeping, HoldPcs, Actors
    <2> QED BY <1>5, <2>1 DEF Load, Return, Keeps, LetsGo
  <1>6. ASSUME NEW w \in Workers,
               FetchJob(w) \/ StartRunning(w) \/ Evaluate(w) \/ AppendRow(w)
        PROVE  Keeps
    BY <1>6 DEF FetchJob, StartRunning, Evaluate, AppendRow, Keeps
  <1>7. ASSUME NEW w \in Workers, CompleteTask(w) \/ FailTask(w)
        PROVE  \E s \in {"completed", "failed"} : Ends(w, s)
    <2>1. task[w] \in TaskIds
      BY <1>7 DEF CompleteTask, FailTask, EndTask, Goto, TypeInv, Bookkeeping, HoldPcs, Actors
    <2> QED BY <1>7, <2>1 DEF CompleteTask, FailTask, EndTask, SetTask, Ends
  <1>8. ASSUME NEW a \in Actors, Finalize(a) PROVE Keeps
    <2>1. CASE CountPending(a) \/ CountRunning(a) \/ RefetchJob(a) \/ ErrorNote(a) \/ SuccessNote(a)
      <3>1. pc[a] \notin HoldPcs /\ UNCHANGED <<tstat, stranded>> /\ (Return(a) \/ UNCHANGED task)
        BY <2>1 DEF CountPending, CountRunning, RefetchJob, ErrorNote, SuccessNote, HoldPcs
      <3> QED BY <3>1, ReturnKeeps DEF Keeps
    <2>2. CASE CountFailed(a) \/ ReadRows(a) \/ FailJob(a) \/ OpenReport(a) \/ WriteReport(a)
               \/ CopyPartial(a) \/ CompleteJob(a)
      BY <2>2 DEF CountFailed, ReadRows, FailJob, OpenReport, WriteReport, CopyPartial,
         CompleteJob, Keeps
    <2> QED BY <1>8, <2>1, <2>2 DEF Finalize
  <1>9. ASSUME NEW r \in Readers, GetBreakdown(r) PROVE Keeps
    <2>1. pc[r] \notin HoldPcs /\ UNCHANGED <<tstat, stranded>> /\ (Return(r) \/ UNCHANGED task)
      BY <1>9 DEF GetBreakdown, HoldPcs
    <2> QED BY <2>1, ReturnKeeps DEF Keeps, Actors
  <1>10. ASSUME NEW r \in Readers, NEW j \in Jobs, GetJob(r, j) PROVE Keeps
    BY <1>10 DEF GetJob, Keeps
  <1>11. ASSUME NEW a \in Actors, ActorAborts(a)
         PROVE  Keeps \/ \E w \in Workers : LetsGo(w)
    <2>1. CASE pc[a] \in HoldPcs
      <3>1. task[a] \in TaskIds /\ a \in Workers
        BY <2>1 DEF TypeInv, Bookkeeping
      <3>2. task[a] # NoTask
        BY <3>1, TaskIdsArithmetic
      <3>3. stranded' = stranded \cup {task[a]} /\ task' = [task EXCEPT ![a] = NoTask] /\ UNCHANGED tstat
        BY <1>11, <3>2 DEF ActorAborts, Return
      <3> QED BY <3>1, <3>3 DEF LetsGo
    <2>2. CASE pc[a] \notin HoldPcs
      <3>1. task[a] = NoTask
        BY <2>2 DEF TypeInv, Bookkeeping
      <3>2. stranded' = stranded
        BY <1>11, <3>1 DEF ActorAborts
      <3> QED BY <1>11, <2>2, <3>2, ReturnKeeps DEF ActorAborts
    <2> QED BY <2>1, <2>2
  <1>12. CASE UNCHANGED vars
    BY <1>12 DEF vars, Keeps, TaskStep
  <1>13. CASE Request
    <2>1. CASE \E j \in Jobs : Create(j) \/ DeleteRequest(j)
      BY <1>1, <2>1 DEF TaskStep
    <2>2. CASE \E r \in Readers, j \in Jobs : GetJob(r, j)
      BY <1>10, <2>2 DEF TaskStep
    <2> QED BY <1>13, <2>1, <2>2 DEF Request
  <1>14. CASE Handle
    <2>1. ASSUME NEW j \in Jobs, PrepStep(j) \/ DeleteStep(j) PROVE TaskStep
      BY <1>1, <1>2, <1>3, <2>1 DEF DeleteStep, TaskStep
    <2>2. ASSUME NEW w \in Workers, WorkerOwn(w) PROVE TaskStep
      BY <1>4, <1>5, <1>6, <1>7, <2>2 DEF WorkerOwn, TaskStep
    <2>3. ASSUME NEW a \in Actors, Finalize(a) PROVE TaskStep
      BY <1>8, <2>3 DEF TaskStep
    <2>4. ASSUME NEW r \in Readers, GetBreakdown(r) PROVE TaskStep
      BY <1>9, <2>4 DEF TaskStep
    <2> QED BY <1>14, <2>1, <2>2, <2>3, <2>4 DEF Handle, WorkerStep, ReaderStep, Actors
  <1>15. CASE Fault
    BY <1>1, <1>11, <1>15 DEF Fault, TaskStep
  <1> QED BY <1>12, <1>13, <1>14, <1>15 DEF Next, TaskStep

-----------------------------------------------------------------------------
(* A claim is exclusive.                                                   *)

LEMMA ClaimInit == Init => ClaimInv
  <1> SUFFICES ASSUME Init PROVE ClaimInv
    OBVIOUS
  <1>1. TypeInv
    BY TypeInit
  <1> QED BY <1>1 DEF Init, ClaimInv, ExclusiveClaim, Actors

LEMMA ClaimNext == ClaimInv /\ [Next]_vars => ClaimInv'
  <1> SUFFICES ASSUME ClaimInv, [Next]_vars PROVE ClaimInv'
    OBVIOUS
  <1>1. TypeInv /\ TypeInv' /\ TaskStep
    BY TypeNext, NextIsTaskStep DEF ClaimInv
  <1>2. /\ tstat \in [TaskIds -> TaskStatus] /\ task \in [Actors -> TaskIds \cup {NoTask}]
        /\ stranded \subseteq TaskIds /\ Workers \subseteq Actors
    BY <1>1 DEF TypeInv, TypeOK, DbTypeOK, HandlersTypeOK, Actors
  <1> DEFINE StrandedStay == \A t \in stranded : tstat[t] \in {"running", "gone"}
  <1> SUFFICES ExclusiveClaim' /\ StrandedStay'
    BY <1>1 DEF ClaimInv
  <1> USE <1>2, TaskIdsArithmetic DEF ClaimInv, ExclusiveClaim, TaskStatus
  <1>3. CASE Keeps
    BY <1>3 DEF Keeps
  <1>4. CASE Offers
    BY <1>4 DEF Offers
  <1>5. ASSUME NEW w \in Workers, NEW t \in TaskIds, Takes(w, t)
        PROVE  ExclusiveClaim' /\ StrandedStay'
    BY <1>5 DEF Takes
  <1>6. ASSUME NEW w \in Workers, NEW s \in {"completed", "failed"}, Ends(w, s)
        PROVE  ExclusiveClaim' /\ StrandedStay'
    BY <1>6 DEF Ends
  <1>7. ASSUME NEW w \in Workers, LetsGo(w)
        PROVE  ExclusiveClaim' /\ StrandedStay'
    BY <1>7 DEF LetsGo
  <1>8. ASSUME NEW j \in Jobs, Removes(j)
        PROVE  ExclusiveClaim' /\ StrandedStay'
    BY <1>8 DEF Removes
  <1> QED BY <1>1, <1>3, <1>4, <1>5, <1>6, <1>7, <1>8 DEF TaskStep

\* No task is ever in two hands, and a running task in no hand is one whose thread died.
THEOREM ClaimsAreExclusive == Spec => []ExclusiveClaim
  <1>1. ClaimInv => ExclusiveClaim
    BY DEF ClaimInv
  <1> QED BY <1>1, ClaimInit, ClaimNext, PTL DEF Spec

-----------------------------------------------------------------------------
(* The tasks implement the abstract queue.                                 *)

LEMMA StepRefinesQueue == ClaimInv /\ [Next]_vars => [Queue!Next]_(Queue!vars)
  <1> SUFFICES ASSUME ClaimInv, [Next]_vars PROVE [Queue!Next]_(Queue!vars)
    OBVIOUS
  <1>1. TypeInv /\ TaskStep
    BY NextIsTaskStep DEF ClaimInv
  <1> DEFINE held == [w \in Workers |-> task[w]]
  <1>2. /\ tstat \in [TaskIds -> TaskStatus] /\ task \in [Actors -> TaskIds \cup {NoTask}]
        /\ nextId \in Nat /\ Workers \subseteq Actors
        /\ \A t \in TaskIds : tstat[t] = "unborn" <=> t >= nextId
        /\ \A t \in TaskIds : tstat[t] # "unborn" <=> tjob[t] \in Jobs
    BY <1>1, BoundsAssumption DEF TypeInv, TypeOK, DbTypeOK, HandlersTypeOK, Actors, Bookkeeping
  <1>3. ASSUME NEW w \in Workers, NEW x, task' = [task EXCEPT ![w] = x]
        PROVE  held' = [held EXCEPT ![w] = x]
    BY <1>2, <1>3
  <1>4. Queue!TaskIds = TaskIds /\ Queue!NoTask = NoTask
    BY DEF Queue!TaskIds, TaskIds, Queue!NoTask
  <1> USE <1>4 DEF Queue!vars
  <1>5. CASE Keeps
    BY <1>5 DEF Keeps
  <1>6. CASE Offers
    <2>1. Queue!Offer(nextId)
      BY <1>2, <1>6, TaskIdsArithmetic DEF Offers, Queue!Offer
    <2> QED BY <1>6, <2>1 DEF Offers, Queue!Next
  <1>7. ASSUME NEW w \in Workers, NEW t \in TaskIds, Takes(w, t) PROVE Queue!Next
    <2>1. Queue!Take(w, t)
      BY <1>2, <1>3, <1>7 DEF Takes, Queue!Take
    <2> QED BY <2>1 DEF Queue!Next
  <1>8. ASSUME NEW w \in Workers, NEW s \in {"completed", "failed"}, Ends(w, s)
        PROVE  Queue!Next
    <2>1. held' = [held EXCEPT ![w] = NoTask] /\ held[w] = task[w] /\ task[w] # NoTask
      BY <1>2, <1>3, <1>8, TaskIdsArithmetic DEF Ends
    <2>2. tstat[task[w]] \in {"running", "gone"}
      BY <1>8, <2>1 DEF ClaimInv, ExclusiveClaim
    <2>3. CASE tstat[task[w]] = "running"
      <3>1. tstat' = [tstat EXCEPT ![task[w]] = s]
        BY <1>2, <1>8, <2>3 DEF Ends
      <3>2. PICK t \in TaskIds : t = task[w]
        BY <1>8 DEF Ends
      <3>3. Queue!End(w, t)
        BY <2>1, <2>3, <3>1, <3>2 DEF Queue!End
      <3> QED BY <3>2, <3>3 DEF Queue!Next
    <2>4. CASE tstat[task[w]] = "gone"
      <3>1. tstat' = tstat
        BY <1>2, <1>8, <2>4 DEF Ends
      <3>2. Queue!LetGo(w)
        BY <2>1, <3>1 DEF Queue!LetGo
      <3> QED BY <3>2 DEF Queue!Next
    <2> QED BY <2>2, <2>3, <2>4
  <1>9. ASSUME NEW w \in Workers, LetsGo(w) PROVE Queue!Next
    <2>1. Queue!LetGo(w)
      BY <1>2, <1>3, <1>9, TaskIdsArithmetic DEF LetsGo, Queue!LetGo
    <2> QED BY <2>1 DEF Queue!Next
  <1>10. ASSUME NEW j \in Jobs, Removes(j) PROVE Queue!Next
    <2> DEFINE T == {t \in TaskIds : tjob[t] = j}
    <2>1. tstat' = [t \in TaskIds |-> IF t \in T THEN "gone" ELSE tstat[t]]
      BY <1>10 DEF Removes
    <2>2. \A t \in T : tstat[t] # "unborn"
      BY <1>2
    <2>3. held' = held
      BY <1>10 DEF Removes
    <2>4. Queue!Remove(T)
      BY <2>1, <2>2, <2>3 DEF Queue!Remove
    <2> QED BY <2>4 DEF Queue!Next
  <1> QED BY <1>1, <1>5, <1>6, <1>7, <1>8, <1>9, <1>10 DEF TaskStep

\* Whatever the interleaving, the tasks are offered in order, handed to one thread each
\* and ended once.
THEOREM QueueIsImplemented == Spec => ImplementsTaskQueue
  <1>1. Init => Queue!Init
    BY DEF Init, Queue!Init, Actors, TaskIds, Queue!TaskIds, Queue!NoTask
  <1> QED BY <1>1, ClaimInit, ClaimNext, StepRefinesQueue, PTL DEF Spec, ImplementsTaskQueue, Queue!Spec
=============================================================================
