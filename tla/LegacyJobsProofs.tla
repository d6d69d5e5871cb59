--------------------------- MODULE LegacyJobsProofs ---------------------------
(* Theorems about LegacyJobs, for any number of jobs, worker processes and  *)
(* faults.                                                                  *)
EXTENDS LegacyJobs, TLAPS

\* POST has answered with a 400: its verdict and that of a worker may both be there.
Rejected(j) == hpc[j] = "rejected"

\* The open transaction has changed something of the job.
Differs(j) ==
  \/ status[j] # disk.status[j] \/ notes[j] # disk.notes[j]
  \/ ~(j \in result <=> j \in disk.result)

\* A transaction stays open when a try block is left, or process_one_job: it holds what
\* was done to the job in hand or to stray ones, which nobody else has.
TxInv ==
  /\ writer = {} => disk.status = status /\ disk.result = result /\ disk.notes = notes
  /\ \A p, q \in writer : p = q
  /\ \A p \in writer : pc[p] \in {"idle", "claim", "fail"} /\ (pc[p] = "claim" => status[job[p]] = "pending")
  /\ \A j \in Jobs : /\ status[j] = "none" <=> disk.status[j] = "none"
                     /\ status[j] = "pending" => disk.status[j] = "pending"
  /\ \A j \in Jobs : Differs(j) =>
       /\ j \in stray \/ \E p \in writer : pc[p] = "fail" /\ job[p] = j
       /\ \A p \in Procs : pc[p] \in Active /\ job[p] = j => p \in writer

\* Nobody knows a job before it is posted; a job has one worker at most after the
\* claim, and then it is not pending; it was not run before it is claimed.
OwnerInv ==
  /\ \A j \in Jobs : hpc[j] = "idle" =>
       /\ status[j] = "none" /\ notes[j] = {} /\ disk.notes[j] = {}
       /\ runs[j] = 0 /\ j \notin stray /\ \A p \in Procs : job[p] # j
  /\ \A p, q \in Procs : pc[p] \in Active /\ pc[q] \in Active /\ job[p] = job[q] => p = q
  /\ \A p \in Procs : pc[p] \in Active => disk.status[job[p]] # "pending"
  /\ \A p \in Procs : pc[p] \in {"reload", "run"} => runs[job[p]] = 0
  /\ \A j \in Jobs : disk.status[j] = "pending" => runs[j] = 0

\* While a worker has a job that is there, the status is the one its step expects, and
\* no verdict was announced, or by a commit that raised.
VerdictOf(st, res, nt) ==
  /\ \A p \in Procs : pc[p] \in Active /\ ~Rejected(job[p]) /\ st[job[p]] # "none" =>
       /\ "error" \notin nt[job[p]]
       /\ "success" \in nt[job[p]] => pc[p] \in {"fail", "failnote"} /\ job[p] \in res
       /\ pc[p] \in {"reload", "run", "complete"} => st[job[p]] = "running"
       /\ pc[p] = "note" => st[job[p]] = "completed" /\ job[p] \in res
       /\ pc[p] = "fail" => st[job[p]] \in {"running", "completed"}
       /\ pc[p] = "fail" /\ "success" \in nt[job[p]] => st[job[p]] = "completed"
       /\ pc[p] = "failnote" => st[job[p]] = "failed"
  /\ \A j \in Jobs : st[j] = "pending" => "success" \notin nt[j] /\ "error" \notin nt[j]

VerdictInv == VerdictOf(status, result, notes) /\ VerdictOf(disk.status, disk.result, disk.notes)

\* AnnouncementIsTrue, also of what is not yet committed.
AnnouncedOf(st, res, nt) ==
  \A j \in Jobs : st[j] # "none" /\ ~Rejected(j) =>
    /\ "success" \in nt[j] =>
         /\ j \in res
         /\ \/ st[j] = "completed"
            \/ /\ st[j] = "failed"
               /\ \/ "error" \in nt[j] \/ j \in lost
                  \/ \E p \in Procs : pc[p] = "failnote" /\ job[p] = j
    /\ "error" \in nt[j] => st[j] = "failed"

AnnouncedInv == AnnouncedOf(status, result, notes) /\ AnnouncedOf(disk.status, disk.result, disk.notes)

\* Jobs are posted in order; a job that is pending when another one with a greater id
\* has been selected would have been there before, and only a stray one is pending again.
OrderInv ==
  /\ \A i, j \in Jobs : i < j /\ hpc[j] # "idle" => hpc[i] # "idle"
  /\ \A p \in Procs : pc[p] = "claim" =>
       \A i \in Jobs : i < job[p] => hpc[i] # "idle" /\ (disk.status[i] # "pending" \/ i \in stray)
  /\ \A j \in Jobs : hpc[j] = "rejected" => disk.status[j] # "pending"

Inv == TypeOK /\ TxInv /\ OwnerInv /\ RunsOnce /\ VerdictInv /\ AnnouncedInv /\ OrderInv

LEMMA NoJobIsNoJob == NoJob \notin Jobs
  BY NoJobAssumption DEF Jobs

LEMMA InvInit == Init => Inv
  <1> SUFFICES ASSUME Init PROVE Inv
    OBVIOUS
  <1>1. TypeOK
    BY DEF Init, TypeOK, Tables
  <1>2. TxInv /\ OwnerInv
    BY NoJobIsNoJob DEF Init, TxInv, OwnerInv, Active, Differs
  <1>3. RunsOnce /\ VerdictInv /\ AnnouncedInv /\ OrderInv
    BY DEF Init, RunsOnce, VerdictInv, VerdictOf, AnnouncedInv, AnnouncedOf, OrderInv, Active
  <1> QED BY <1>1, <1>2, <1>3 DEF Inv

LEMMA TypeNext == Inv /\ [Next]_vars => TypeOK'
  <1> SUFFICES ASSUME Inv, [Next]_vars PROVE TypeOK'
    OBVIOUS
  <1> USE NoJobIsNoJob DEF db, hist, PostGoto, Goto, Return, SetStatus, AddNotification, MayWrite, Commit, StatusFor, Inv, TypeOK, Tables
  <1>1. ASSUME NEW j \in Jobs, Post(j) PROVE TypeOK'
    BY <1>1 DEF Post
  <1>2. ASSUME NEW j \in Jobs, PostNote(j) PROVE TypeOK'
    BY <1>2 DEF PostNote
  <1>3. ASSUME NEW j \in Jobs, Normalize(j) \/ PostLockedOut(j) PROVE TypeOK'
    BY <1>3 DEF Normalize, PostLockedOut
  <1>4. ASSUME NEW j \in Jobs, Reject(j) PROVE TypeOK'
    BY <1>4 DEF Reject
  <1>5. ASSUME NEW j \in Jobs, Delete(j) PROVE TypeOK'
    BY <1>5 DEF Delete
  <1>6. ASSUME NEW p \in Procs, Select(p) PROVE TypeOK'
    BY <1>6 DEF Select
  <1>7. ASSUME NEW p \in Procs, Claim(p) PROVE TypeOK'
    BY <1>7 DEF Claim, Claimed
  <1>8. ASSUME NEW p \in Procs, Reload(p) PROVE TypeOK'
    BY <1>8 DEF Reload
  <1>9. ASSUME NEW p \in Procs, Run(p) PROVE TypeOK'
    BY <1>9 DEF Run
  <1>10. ASSUME NEW p \in Procs, Complete(p) PROVE TypeOK'
    BY <1>10 DEF Complete, Completed
  <1>11. ASSUME NEW p \in Procs, SuccessNote(p) PROVE TypeOK'
    BY <1>11 DEF SuccessNote, Succeeded
  <1>12. ASSUME NEW p \in Procs, Fail(p) PROVE TypeOK'
    BY <1>12 DEF Fail, Failed
  <1>13. ASSUME NEW p \in Procs, ErrorNote(p) PROVE TypeOK'
    BY <1>13 DEF ErrorNote, Erred
  <1>14. ASSUME NEW p \in Procs, TryRaises(p), faults' \in Nat PROVE TypeOK'
    BY <1>14 DEF TryRaises, Outcome, Uncommitted, Rollback, Claimed, Completed, Succeeded, Failed, Erred
  <1>15. ASSUME NEW p \in Procs, EscapesWorker(p), faults' \in Nat PROVE TypeOK'
    BY <1>15 DEF EscapesWorker, Outcome, Uncommitted, Rollback, Claimed, Completed, Succeeded, Failed, Erred
  <1>16. ASSUME NEW p \in Procs, Dies(p) PROVE TypeOK'
    BY <1>16 DEF Dies, Rollback, Fault
  <1>17. CASE UNCHANGED vars
    BY <1>17 DEF vars
  <1> QED BY <1>1, <1>2, <1>3, <1>4, <1>5, <1>6, <1>7, <1>8, <1>9, <1>10, <1>11, <1>12, <1>13, <1>14, <1>15, <1>16, <1>17 DEF Next, Handler, Worker, LockedOut, Fault

LEMMA TxNext == Inv /\ [Next]_vars => TxInv'
  <1> SUFFICES ASSUME Inv, [Next]_vars PROVE TxInv'
    OBVIOUS
  <1> USE NoJobIsNoJob DEF db, hist, PostGoto, Goto, Return, SetStatus, AddNotification, MayWrite, Commit, StatusFor, Inv, TypeOK, TxInv, OwnerInv, OrderInv, Active, Differs
  <1>1. ASSUME NEW j \in Jobs, Post(j) PROVE TxInv'
    BY <1>1 DEF Post
  <1>2. ASSUME NEW j \in Jobs, PostNote(j) PROVE TxInv'
    BY <1>2 DEF PostNote
  <1>3. ASSUME NEW j \in Jobs, Normalize(j) \/ PostLockedOut(j) PROVE TxInv'
    BY <1>3 DEF Normalize, PostLockedOut
  <1>4. ASSUME NEW j \in Jobs, Reject(j) PROVE TxInv'
    BY <1>4 DEF Reject
  <1>5. ASSUME NEW j \in Jobs, Delete(j) PROVE TxInv'
    BY <1>5 DEF Delete
  <1>6. ASSUME NEW p \in Procs, Select(p) PROVE TxInv'
    BY <1>6 DEF Select
  <1>7. ASSUME NEW p \in Procs, Claim(p) PROVE TxInv'
    BY <1>7 DEF Claim, Claimed
  <1>8. ASSUME NEW p \in Procs, Reload(p) PROVE TxInv'
    BY <1>8 DEF Reload
  <1>9. ASSUME NEW p \in Procs, Run(p) PROVE TxInv'
    BY <1>9 DEF Run
  <1>10. ASSUME NEW p \in Procs, Complete(p) PROVE TxInv'
    BY <1>10 DEF Complete, Completed
  <1>11. ASSUME NEW p \in Procs, SuccessNote(p) PROVE TxInv'
    BY <1>11 DEF SuccessNote, Succeeded
  <1>12. ASSUME NEW p \in Procs, Fail(p) PROVE TxInv'
    BY <1>12 DEF Fail, Failed
  <1>13. ASSUME NEW p \in Procs, ErrorNote(p) PROVE TxInv'
    BY <1>13 DEF ErrorNote, Erred
  <1>14. ASSUME NEW p \in Procs, TryRaises(p) PROVE TxInv'
    BY <1>14 DEF TryRaises, Outcome, Uncommitted, Rollback, Claimed, Completed, Succeeded, Failed, Erred
  <1>15. ASSUME NEW p \in Procs, EscapesWorker(p) PROVE TxInv'
    BY <1>15 DEF EscapesWorker, Outcome, Uncommitted, Rollback, Claimed, Completed, Succeeded, Failed, Erred
  <1>16. ASSUME NEW p \in Procs, Dies(p) PROVE TxInv'
    BY <1>16 DEF Dies, Rollback, Fault
  <1>17. CASE UNCHANGED vars
    BY <1>17 DEF vars
  <1> QED BY <1>1, <1>2, <1>3, <1>4, <1>5, <1>6, <1>7, <1>8, <1>9, <1>10, <1>11, <1>12, <1>13, <1>14, <1>15, <1>16, <1>17 DEF Next, Handler, Worker, LockedOut

LEMMA OwnerNext == Inv /\ [Next]_vars => OwnerInv'
  <1> SUFFICES ASSUME Inv, [Next]_vars PROVE OwnerInv'
    OBVIOUS
  <1> USE NoJobIsNoJob DEF db, hist, PostGoto, Goto, Return, SetStatus, AddNotification, MayWrite, Commit, StatusFor, Inv, TypeOK, TxInv, OwnerInv, Active, Differs
  <1>1. ASSUME NEW j \in Jobs, Post(j) PROVE OwnerInv'
    BY <1>1 DEF Post
  <1>2. ASSUME NEW j \in Jobs, PostNote(j) PROVE OwnerInv'
    BY <1>2 DEF PostNote
  <1>3. ASSUME NEW j \in Jobs, Normalize(j) \/ PostLockedOut(j) PROVE OwnerInv'
    BY <1>3 DEF Normalize, PostLockedOut
  <1>4. ASSUME NEW j \in Jobs, Reject(j) PROVE OwnerInv'
    BY <1>4 DEF Reject
  <1>5. ASSUME NEW j \in Jobs, Delete(j) PROVE OwnerInv'
    BY <1>5 DEF Delete
  <1>6. ASSUME NEW p \in Procs, Select(p) PROVE OwnerInv'
    BY <1>6 DEF Select
  <1>7. ASSUME NEW p \in Procs, Claim(p) PROVE OwnerInv'
    BY <1>7 DEF Claim, Claimed
  <1>8. ASSUME NEW p \in Procs, Reload(p) PROVE OwnerInv'
    BY <1>8 DEF Reload
  <1>9. ASSUME NEW p \in Procs, Run(p) PROVE OwnerInv'
    BY <1>9 DEF Run
  <1>10. ASSUME NEW p \in Procs, Complete(p) PROVE OwnerInv'
    BY <1>10 DEF Complete, Completed
  <1>11. ASSUME NEW p \in Procs, SuccessNote(p) PROVE OwnerInv'
    BY <1>11 DEF SuccessNote, Succeeded
  <1>12. ASSUME NEW p \in Procs, Fail(p) PROVE OwnerInv'
    BY <1>12 DEF Fail, Failed
  <1>13. ASSUME NEW p \in Procs, ErrorNote(p) PROVE OwnerInv'
    BY <1>13 DEF ErrorNote, Erred
  <1>14. ASSUME NEW p \in Procs, TryRaises(p) PROVE OwnerInv'
    BY <1>14 DEF TryRaises, Outcome, Uncommitted, Rollback, Claimed, Completed, Succeeded, Failed, Erred
  <1>15. ASSUME NEW p \in Procs, EscapesWorker(p) PROVE OwnerInv'
    BY <1>15 DEF EscapesWorker, Outcome, Uncommitted, Rollback, Claimed, Completed, Succeeded, Failed, Erred
  <1>16. ASSUME NEW p \in Procs, Dies(p) PROVE OwnerInv'
    BY <1>16 DEF Dies, Rollback, Fault
  <1>17. CASE UNCHANGED vars
    BY <1>17 DEF vars
  <1> QED BY <1>1, <1>2, <1>3, <1>4, <1>5, <1>6, <1>7, <1>8, <1>9, <1>10, <1>11, <1>12, <1>13, <1>14, <1>15, <1>16, <1>17 DEF Next, Handler, Worker, LockedOut

LEMMA RunsNext == Inv /\ [Next]_vars => RunsOnce'
  <1> SUFFICES ASSUME Inv, [Next]_vars PROVE RunsOnce'
    OBVIOUS
  <1> USE NoJobIsNoJob DEF db, hist, PostGoto, Goto, Return, SetStatus, AddNotification, MayWrite, Commit, StatusFor, Inv, TypeOK, OwnerInv, RunsOnce, Active
  <1>1. ASSUME NEW j \in Jobs, Post(j) PROVE RunsOnce'
    BY <1>1 DEF Post
  <1>2. ASSUME NEW j \in Jobs, PostNote(j) PROVE RunsOnce'
    BY <1>2 DEF PostNote
  <1>3. ASSUME NEW j \in Jobs, Normalize(j) \/ PostLockedOut(j) PROVE RunsOnce'
    BY <1>3 DEF Normalize, PostLockedOut
  <1>4. ASSUME NEW j \in Jobs, Reject(j) PROVE RunsOnce'
    BY <1>4 DEF Reject
  <1>5. ASSUME NEW j \in Jobs, Delete(j) PROVE RunsOnce'
    BY <1>5 DEF Delete
  <1>6. ASSUME NEW p \in Procs, Select(p) PROVE RunsOnce'
    BY <1>6 DEF Select
  <1>7. ASSUME NEW p \in Procs, Claim(p) PROVE RunsOnce'
    BY <1>7 DEF Claim, Claimed
  <1>8. ASSUME NEW p \in Procs, Reload(p) PROVE RunsOnce'
    BY <1>8 DEF Reload
  <1>9. ASSUME NEW p \in Procs, Run(p) PROVE RunsOnce'
    BY <1>9 DEF Run
  <1>10. ASSUME NEW p \in Procs, Complete(p) PROVE RunsOnce'
    BY <1>10 DEF Complete, Completed
  <1>11. ASSUME NEW p \in Procs, SuccessNote(p) PROVE RunsOnce'
    BY <1>11 DEF SuccessNote, Succeeded
  <1>12. ASSUME NEW p \in Procs, Fail(p) PROVE RunsOnce'
    BY <1>12 DEF Fail, Failed
  <1>13. ASSUME NEW p \in Procs, ErrorNote(p) PROVE RunsOnce'
    BY <1>13 DEF ErrorNote, Erred
  <1>14. ASSUME NEW p \in Procs, TryRaises(p) PROVE RunsOnce'
    BY <1>14 DEF TryRaises, Outcome, Uncommitted, Rollback, Claimed, Completed, Succeeded, Failed, Erred
  <1>15. ASSUME NEW p \in Procs, EscapesWorker(p) PROVE RunsOnce'
    BY <1>15 DEF EscapesWorker, Outcome, Uncommitted, Rollback, Claimed, Completed, Succeeded, Failed, Erred
  <1>16. ASSUME NEW p \in Procs, Dies(p) PROVE RunsOnce'
    BY <1>16 DEF Dies, Rollback, Fault
  <1>17. CASE UNCHANGED vars
    BY <1>17 DEF vars
  <1> QED BY <1>1, <1>2, <1>3, <1>4, <1>5, <1>6, <1>7, <1>8, <1>9, <1>10, <1>11, <1>12, <1>13, <1>14, <1>15, <1>16, <1>17 DEF Next, Handler, Worker, LockedOut

LEMMA VerdictNext == Inv /\ [Next]_vars => VerdictInv'
  <1> SUFFICES ASSUME Inv, [Next]_vars PROVE VerdictInv'
    OBVIOUS
  <1> USE NoJobIsNoJob DEF db, hist, PostGoto, Goto, Return, SetStatus, AddNotification, MayWrite, Commit, StatusFor, Inv, TypeOK, TxInv, OwnerInv, VerdictInv, VerdictOf, Active, Rejected, Differs
  <1>1. ASSUME NEW j \in Jobs, Post(j) PROVE VerdictInv'
    BY <1>1 DEF Post
  <1>2. ASSUME NEW j \in Jobs, PostNote(j) PROVE VerdictInv'
    BY <1>2 DEF PostNote
  <1>3. ASSUME NEW j \in Jobs, Normalize(j) \/ PostLockedOut(j) PROVE VerdictInv'
    BY <1>3 DEF Normalize, PostLockedOut
  <1>4. ASSUME NEW j \in Jobs, Reject(j) PROVE VerdictInv'
    BY <1>4 DEF Reject
  <1>5. ASSUME NEW j \in Jobs, Delete(j) PROVE VerdictInv'
    BY <1>5 DEF Delete
  <1>6. ASSUME NEW p \in Procs, Select(p) PROVE VerdictInv'
    BY <1>6 DEF Select
  <1>7. ASSUME NEW p \in Procs, Claim(p) PROVE VerdictInv'
    BY <1>7 DEF Claim, Claimed
  <1>8. ASSUME NEW p \in Procs, Reload(p) PROVE VerdictInv'
    BY <1>8 DEF Reload
  <1>9. ASSUME NEW p \in Procs, Run(p) PROVE VerdictInv'
    BY <1>9 DEF Run
  <1>10. ASSUME NEW p \in Procs, Complete(p) PROVE VerdictInv'
    BY <1>10 DEF Complete, Completed
  <1>11. ASSUME NEW p \in Procs, SuccessNote(p) PROVE VerdictInv'
    BY <1>11 DEF SuccessNote, Succeeded
  <1>12. ASSUME NEW p \in Procs, Fail(p) PROVE VerdictInv'
    BY <1>12 DEF Fail, Failed
  <1>13. ASSUME NEW p \in Procs, ErrorNote(p) PROVE VerdictInv'
    BY <1>13 DEF ErrorNote, Erred
  <1>14. ASSUME NEW p \in Procs, TryRaises(p) PROVE VerdictInv'
    BY <1>14 DEF TryRaises, Outcome, Uncommitted, Rollback, Claimed, Completed, Succeeded, Failed, Erred
  <1>15. ASSUME NEW p \in Procs, EscapesWorker(p) PROVE VerdictInv'
    BY <1>15 DEF EscapesWorker, Outcome, Uncommitted, Rollback, Claimed, Completed, Succeeded, Failed, Erred
  <1>16. ASSUME NEW p \in Procs, Dies(p) PROVE VerdictInv'
    BY <1>16 DEF Dies, Rollback, Fault
  <1>17. CASE UNCHANGED vars
    BY <1>17 DEF vars
  <1> QED BY <1>1, <1>2, <1>3, <1>4, <1>5, <1>6, <1>7, <1>8, <1>9, <1>10, <1>11, <1>12, <1>13, <1>14, <1>15, <1>16, <1>17 DEF Next, Handler, Worker, LockedOut

LEMMA AnnouncedNext == Inv /\ [Next]_vars => AnnouncedInv'
  <1> SUFFICES ASSUME Inv, [Next]_vars PROVE AnnouncedInv'
    OBVIOUS
  <1> USE NoJobIsNoJob DEF db, hist, PostGoto, Goto, Return, SetStatus, AddNotification, MayWrite, Commit, StatusFor, Inv, TypeOK, TxInv, OwnerInv, VerdictInv, VerdictOf, AnnouncedInv, AnnouncedOf, Active, Rejected, Differs
  <1>1. ASSUME NEW j \in Jobs, Post(j) PROVE AnnouncedInv'
    BY <1>1 DEF Post
  <1>2. ASSUME NEW j \in Jobs, PostNote(j) PROVE AnnouncedInv'
    BY <1>2 DEF PostNote
  <1>3. ASSUME NEW j \in Jobs, Normalize(j) \/ PostLockedOut(j) PROVE AnnouncedInv'
    BY <1>3 DEF Normalize, PostLockedOut
  <1>4. ASSUME NEW j \in Jobs, Reject(j) PROVE AnnouncedInv'
    BY <1>4 DEF Reject
  <1>5. ASSUME NEW j \in Jobs, Delete(j) PROVE AnnouncedInv'
    BY <1>5 DEF Delete
  <1>6. ASSUME NEW p \in Procs, Select(p) PROVE AnnouncedInv'
    BY <1>6 DEF Select
  <1>7. ASSUME NEW p \in Procs, Claim(p) PROVE AnnouncedInv'
    BY <1>7 DEF Claim, Claimed
  <1>8. ASSUME NEW p \in Procs, Reload(p) PROVE AnnouncedInv'
    BY <1>8 DEF Reload
  <1>9. ASSUME NEW p \in Procs, Run(p) PROVE AnnouncedInv'
    BY <1>9 DEF Run
  <1>10. ASSUME NEW p \in Procs, Complete(p) PROVE AnnouncedInv'
    BY <1>10 DEF Complete, Completed
  <1>11. ASSUME NEW p \in Procs, SuccessNote(p) PROVE AnnouncedInv'
    BY <1>11 DEF SuccessNote, Succeeded
  <1>12. ASSUME NEW p \in Procs, Fail(p) PROVE AnnouncedInv'
    BY <1>12 DEF Fail, Failed
  <1>13. ASSUME NEW p \in Procs, ErrorNote(p) PROVE AnnouncedInv'
    BY <1>13 DEF ErrorNote, Erred
  <1>14. ASSUME NEW p \in Procs, TryRaises(p) PROVE AnnouncedInv'
    BY <1>14 DEF TryRaises, Outcome, Uncommitted, Rollback, Claimed, Completed, Succeeded, Failed, Erred
  <1>15. ASSUME NEW p \in Procs, EscapesWorker(p) PROVE AnnouncedInv'
    BY <1>15 DEF EscapesWorker, Outcome, Uncommitted, Rollback, Claimed, Completed, Succeeded, Failed, Erred
  <1>16. ASSUME NEW p \in Procs, Dies(p) PROVE AnnouncedInv'
    BY <1>16 DEF Dies, Rollback, Fault
  <1>17. CASE UNCHANGED vars
    BY <1>17 DEF vars
  <1> QED BY <1>1, <1>2, <1>3, <1>4, <1>5, <1>6, <1>7, <1>8, <1>9, <1>10, <1>11, <1>12, <1>13, <1>14, <1>15, <1>16, <1>17 DEF Next, Handler, Worker, LockedOut

LEMMA OrderNext == Inv /\ [Next]_vars => OrderInv'
  <1> SUFFICES ASSUME Inv, [Next]_vars PROVE OrderInv'
    OBVIOUS
  <1>0. \A i, j \in Jobs : i \in Nat /\ j \in Nat /\ (i < j \/ j < i \/ i = j)
    BY MaxJobsAssumption DEF Jobs
  <1> USE NoJobIsNoJob DEF db, hist, PostGoto, Goto, Return, SetStatus, AddNotification, MayWrite, Commit, StatusFor, Inv, TypeOK, TxInv, OwnerInv, OrderInv, Differs
  <1>1. ASSUME NEW j \in Jobs, Post(j) PROVE OrderInv'
    BY <1>0, <1>1 DEF Post
  <1>2. ASSUME NEW j \in Jobs, PostNote(j) PROVE OrderInv'
    BY <1>2 DEF PostNote
  <1>3. ASSUME NEW j \in Jobs, Normalize(j) \/ PostLockedOut(j) PROVE OrderInv'
    BY <1>3 DEF Normalize, PostLockedOut
  <1>4. ASSUME NEW j \in Jobs, Reject(j) PROVE OrderInv'
    BY <1>4 DEF Reject
  <1>5. ASSUME NEW j \in Jobs, Delete(j) PROVE OrderInv'
    BY <1>5 DEF Delete
  <1>6. ASSUME NEW p \in Procs, Select(p) PROVE OrderInv'
    BY <1>0, <1>6 DEF Select
  <1>7. ASSUME NEW p \in Procs, Claim(p) PROVE OrderInv'
    BY <1>7 DEF Claim, Claimed
  <1>8. ASSUME NEW p \in Procs, Reload(p) PROVE OrderInv'
    BY <1>8 DEF Reload
  <1>9. ASSUME NEW p \in Procs, Run(p) PROVE OrderInv'
    BY <1>9 DEF Run
  <1>10. ASSUME NEW p \in Procs, Complete(p) PROVE OrderInv'
    BY <1>10 DEF Complete, Completed
  <1>11. ASSUME NEW p \in Procs, SuccessNote(p) PROVE OrderInv'
    BY <1>11 DEF SuccessNote, Succeeded
  <1>12. ASSUME NEW p \in Procs, Fail(p) PROVE OrderInv'
    BY <1>12 DEF Fail, Failed
  <1>13. ASSUME NEW p \in Procs, ErrorNote(p) PROVE OrderInv'
    BY <1>13 DEF ErrorNote, Erred
  <1>14. ASSUME NEW p \in Procs, TryRaises(p) PROVE OrderInv'
    BY <1>14 DEF TryRaises, Outcome, Uncommitted, Rollback, Claimed, Completed, Succeeded, Failed, Erred
  <1>15. ASSUME NEW p \in Procs, EscapesWorker(p) PROVE OrderInv'
    BY <1>15 DEF EscapesWorker, Outcome, Uncommitted, Rollback, Claimed, Completed, Succeeded, Failed, Erred
  <1>16. ASSUME NEW p \in Procs, Dies(p) PROVE OrderInv'
    BY <1>16 DEF Dies, Rollback, Fault
  <1>17. CASE UNCHANGED vars
    BY <1>17 DEF vars
  <1> QED BY <1>1, <1>2, <1>3, <1>4, <1>5, <1>6, <1>7, <1>8, <1>9, <1>10, <1>11, <1>12, <1>13, <1>14, <1>15, <1>16, <1>17 DEF Next, Handler, Worker, LockedOut

LEMMA InvNext == Inv /\ [Next]_vars => Inv'
  BY TypeNext, TxNext, OwnerNext, RunsNext, VerdictNext, AnnouncedNext, OrderNext DEF Inv

\* Every variable keeps its type, and a worker has a job exactly while it is at work.
THEOREM LegacyTypeCorrect == Spec => []TypeOK
  <1>1. Inv => TypeOK
    BY DEF Inv
  <1> QED BY <1>1, InvInit, InvNext, PTL DEF Spec

\* However many worker processes poll the table, a job is handed to one of them: the
\* SELECT and the guarded UPDATE of claim_next_pending_job_legacy_only leave no gap
\* for the late rejection of POST, for DELETE, for a claim whose commit raises, or for
\* the death of a worker.
THEOREM JobsRunOnce == Spec => []RunsOnce
  <1>1. Inv => RunsOnce
    BY DEF Inv
  <1> QED BY <1>1, InvInit, InvNext, PTL DEF Spec

\* A success is announced of a completed job, or of one that has failed since and whose
\* worker says so next or is lost, and an error of a failed one only, whatever statement
\* or commit of process_one_job raises, and whatever commit makes it good.
THEOREM AnnouncementsAreTrue == Spec => []AnnouncementIsTrue
  <1>1. Inv => AnnouncementIsTrue
    BY DEF Inv, AnnouncedInv, AnnouncedOf, AnnouncementIsTrue, Rejected
  <1> QED BY <1>1, InvInit, InvNext, PTL DEF Spec

-----------------------------------------------------------------------------
(* The refinement of TaskQueue.                                             *)

\* Who holds a job, and whether somebody does, can be read off holds.
HoldsAreJobs ==
  /\ DOMAIN holds = Procs
  /\ \A p \in Procs :
       IF pc[p] \in Active /\ job[p] \notin stray THEN holds[p] = job[p] /\ job[p] \in Jobs ELSE holds[p] = 0
  /\ \A j \in Jobs : j # 0 /\ (j \notin stray => (Held(j) <=> \E p \in Procs : holds[p] = j))
  /\ \A p, q \in Procs : holds[p] = holds[q] => p = q \/ holds[p] = 0

\* The job is off the queue.
Off(j) == hpc[j] = "rejected" \/ j \in stray \/ disk.status[j] = "none"

\* What the queue says of a job follows from its row, its handler and its holder.
QueueIsTable ==
  /\ DOMAIN queue = Jobs
  /\ \A j \in Jobs :
       /\ hpc[j] = "idle" => queue[j] = "unborn" /\ ~Held(j)
       /\ hpc[j] # "idle" /\ Off(j) => queue[j] = "gone"
       /\ hpc[j] # "idle" /\ ~Off(j) => queue[j] = IF Held(j) THEN "running" ELSE disk.status[j]
       /\ Held(j) => disk.status[j] # "pending"

LEMMA HoldsOfInv == Inv => HoldsAreJobs
  <1> SUFFICES ASSUME Inv PROVE HoldsAreJobs
    OBVIOUS
  <1>1. \A j \in Jobs : j # 0
    BY MaxJobsAssumption DEF Jobs
  <1>2. \A p \in Procs : pc[p] \in Active => job[p] \in Jobs
    BY DEF Inv, TypeOK, Active
  <1>3. \A p \in Procs : holds[p] = IF pc[p] \in Active /\ job[p] \notin stray THEN job[p] ELSE 0
    BY DEF holds
  <1>4. \A p, q \in Procs : holds[p] = holds[q] => p = q \/ holds[p] = 0
    BY <1>1, <1>2, <1>3 DEF Inv, OwnerInv
  <1>5. \A j \in Jobs : j \notin stray => (Held(j) <=> \E p \in Procs : holds[p] = j)
    BY <1>1, <1>2, <1>3 DEF Held
  <1>6. DOMAIN holds = Procs
    BY DEF holds
  <1> QED BY <1>1, <1>2, <1>3, <1>4, <1>5, <1>6 DEF HoldsAreJobs

LEMMA QueueOfInv == Inv => QueueIsTable
  <1> SUFFICES ASSUME Inv PROVE QueueIsTable
    OBVIOUS
  <1>1. DOMAIN queue = Jobs /\ \A j \in Jobs : queue[j] = QueueState(j)
    BY DEF queue
  <1>2. \A j \in Jobs : hpc[j] = "idle" => ~Held(j)
    BY DEF Inv, OwnerInv, Held
  <1>3. \A j \in Jobs : Held(j) => disk.status[j] # "pending"
    BY DEF Inv, OwnerInv, Held
  <1> QED BY <1>1, <1>2, <1>3 DEF QueueIsTable, QueueState, Off

\* Both before and after a step.
Mapped == HoldsAreJobs /\ QueueIsTable /\ HoldsAreJobs' /\ QueueIsTable'

LEMMA StepIsMapped == Inv /\ [Next]_vars => Mapped
  BY InvNext, HoldsOfInv, QueueOfInv, PTL DEF Mapped

LEMMA QueueInit == Init => Queue!Init
  <1> SUFFICES ASSUME Init PROVE Queue!Init
    OBVIOUS
  <1>1. HoldsAreJobs /\ QueueIsTable
    BY InvInit, HoldsOfInv, QueueOfInv
  <1>2. \A p \in Procs : holds[p] = 0
    BY <1>1 DEF HoldsAreJobs, Init, Active
  <1>3. holds = [p \in Procs |-> 0]
    BY <1>2 DEF holds
  <1>4. \A j \in Jobs : queue[j] = "unborn"
    BY <1>1 DEF QueueIsTable, Init
  <1>5. queue = [j \in Jobs |-> "unborn"]
    BY <1>4 DEF queue
  <1> QED BY <1>3, <1>5 DEF Queue!Init, Queue!TaskIds, Queue!NoTask, Jobs

\* What the commit of a worker publishes of other jobs concerns stray ones only.
LEMMA OthersStand ==
  ASSUME Inv, NEW p \in Procs, MayWrite(p), NEW k \in Jobs, k # job[p], k \notin stray
  PROVE  status[k] = disk.status[k]
  BY DEF Inv, TxInv, MayWrite, Differs

\* A job keeps its place in the queue when what it depends on stays.
LEMMA SamePlace ==
  ASSUME Inv, Mapped, NEW k \in Jobs,
         hpc[k] = "idle" <=> hpc'[k] = "idle", hpc[k] = "rejected" <=> hpc'[k] = "rejected",
         k \in stray <=> k \in stray',
         k \notin stray => /\ Held(k)' <=> Held(k)
                           /\ disk'.status[k] = disk.status[k] \/ (Held(k) /\ disk'.status[k] # "none" /\ disk.status[k] # "none")
  PROVE  queue'[k] = queue[k]
  BY DEF Mapped, QueueIsTable, Off

LEMMA SameQueue ==
  ASSUME \A k \in Jobs : queue'[k] = queue[k]
  PROVE  UNCHANGED queue
  BY DEF queue

LEMMA OnePlace ==
  ASSUME NEW j \in Jobs, NEW v, queue'[j] = v, \A k \in Jobs : k # j => queue'[k] = queue[k]
  PROVE  queue' = [queue EXCEPT ![j] = v]
  BY DEF queue

\* A step that moves no worker into or out of a job leaves every holder.
LEMMA SameHolders ==
  ASSUME Mapped, UNCHANGED <<holds, stray>>
  PROVE  \A j \in Jobs : j \notin stray => (Held(j)' <=> Held(j))
  BY DEF Mapped, HoldsAreJobs

\* Two steps of the handler and DELETE take a job off the queue, POST puts it there.
LEMMA HandlerSteps ==
  ASSUME Inv, Mapped, NEW j \in Jobs, Post(j) \/ Handler(j) \/ Delete(j)
  PROVE  [Queue!Next]_(Queue!vars)
  <1>1. UNCHANGED <<pc, job, stray>> /\ UNCHANGED holds
    BY DEF Post, Handler, PostNote, Normalize, PostLockedOut, Reject, Delete, holds, hist
  <1>2. \A k \in Jobs : k \notin stray => (Held(k)' <=> Held(k))
    BY <1>1, SameHolders
  <1> USE DEF Inv, TypeOK, TxInv, PostGoto, SetStatus, Commit
  <1>3. CASE Post(j)
    <2>1. hpc[j] = "idle" /\ hpc'[j] = "note" /\ disk'.status[j] = "pending" /\ j \notin stray
      BY <1>3 DEF Post, OwnerInv
    <2>2. \A k \in Jobs : k # j => hpc'[k] = hpc[k] /\ disk'.status[k] = disk.status[k]
      BY <1>3 DEF Post
    <2>3. queue[j] = "unborn" /\ queue'[j] = "pending"
      BY <1>1, <1>2, <2>1 DEF Mapped, QueueIsTable, Off
    <2>4. \A k \in Jobs : k # j => queue'[k] = queue[k]
      BY <1>1, <1>2, <2>2, SamePlace
    <2>5. queue' = [queue EXCEPT ![j] = "pending"]
      BY <2>3, <2>4, OnePlace
    <2>6. \A k \in Jobs : k < j => queue[k] # "unborn"
      <3>1. \A k \in Jobs : k < j => hpc[k] # "idle"
        BY <1>3 DEF Post
      <3> QED BY <3>1 DEF queue, QueueState, Tables
    <2>7. Queue!Offer(j)
      BY <1>1, <2>3, <2>5, <2>6 DEF Queue!Offer, Queue!TaskIds, Jobs
    <2> QED BY <2>7 DEF Queue!Next, Queue!TaskIds, Jobs
  <1>4. CASE PostNote(j) \/ Normalize(j) \/ PostLockedOut(j)
    <2>1. \A k \in Jobs : /\ disk'.status[k] = disk.status[k]
                          /\ hpc'[k] = "idle" <=> hpc[k] = "idle"
                          /\ hpc'[k] = "rejected" <=> hpc[k] = "rejected"
      BY <1>4 DEF PostNote, Normalize, PostLockedOut, db
    <2>2. UNCHANGED queue
      BY <1>1, <1>2, <2>1, SamePlace, SameQueue
    <2> QED BY <1>1, <2>2 DEF Queue!vars
  <1>5. CASE Reject(j) \/ Delete(j)
    <2>1. hpc[j] # "idle" /\ hpc'[j] # "idle" /\ (hpc'[j] = "rejected" \/ disk'.status[j] = "none")
      BY <1>5 DEF Reject, Delete, OwnerInv
    <2>2. \A k \in Jobs : k # j => hpc'[k] = hpc[k] /\ disk'.status[k] = disk.status[k]
      BY <1>5 DEF Reject, Delete
    <2>3. queue[j] # "unborn" /\ queue'[j] = "gone"
      <3>1. queue[j] # "unborn"
        BY <2>1 DEF queue, QueueState, Tables
      <3> QED BY <2>1, <3>1 DEF Mapped, QueueIsTable, Off
    <2>4. \A k \in Jobs : k # j => queue'[k] = queue[k]
      BY <1>1, <1>2, <2>2, SamePlace
    <2>5. queue' = [k \in Jobs |-> IF k \in {j} THEN "gone" ELSE queue[k]]
      BY <2>3, <2>4 DEF queue
    <2>6. Queue!Remove({j})
      BY <1>1, <2>3, <2>5 DEF Queue!Remove, Queue!TaskIds, Jobs
    <2> QED BY <2>6 DEF Queue!Next, Queue!TaskIds, Jobs
  <1> QED BY <1>3, <1>4, <1>5 DEF Handler

\* A worker that leaves its job ends it if it has been closed, and else lets go of it;
\* what it leaves with a transaction open is gone.
LEMMA ReturnSteps ==
  ASSUME Inv, Mapped, NEW p \in Procs, pc[p] \in Active, Return(p), UNCHANGED hpc,
         stray' = stray \/ stray' = stray \cup {job[p]},
         \A k \in Jobs : k \notin stray => disk'.status[k] = disk.status[k]
  PROVE  [Queue!Next]_(Queue!vars)
  <1> DEFINE j == job[p]
  <1> USE DEF Inv, TypeOK, Return
  <1>1. j \in Jobs /\ j # 0 /\ Held(j)
    BY DEF Mapped, HoldsAreJobs, Held, Active
  <1>2. \A k \in Jobs : Held(k)' <=> (k # j /\ Held(k))
    BY <1>1 DEF Held, Active, OwnerInv
  <1>3. \A k \in Jobs : k # j => queue'[k] = queue[k]
    BY <1>2, SamePlace
  <1>4. CASE j \in stray
    <2>1. UNCHANGED holds
      BY <1>1, <1>4 DEF holds, Active
    <2>2. queue'[j] = queue[j]
      BY <1>1, <1>4, SamePlace
    <2> QED BY <1>3, <2>1, <2>2, SameQueue DEF Queue!vars
  <1>5. CASE j \notin stray
    <2>1. holds[p] = j
      BY <1>1, <1>5 DEF Mapped, HoldsAreJobs
    <2>2. holds' = [holds EXCEPT ![p] = 0]
      <3>1. \A q \in Procs : q # p => holds'[q] = holds[q]
        BY <1>1, <1>5 DEF holds, Active, OwnerInv
      <3>2. holds'[p] = 0
        BY DEF holds, Active
      <3> QED BY <3>1, <3>2 DEF holds
    <2>3. hpc[j] # "idle" /\ disk.status[j] \in {"none", "running", "completed", "failed"}
      BY <1>1 DEF Mapped, QueueIsTable, Tables
    <2> HIDE DEF j
    <2>4. CASE j \in stray'
      <3>1. queue'[j] = "gone"
        BY <1>1, <2>3, <2>4 DEF Mapped, QueueIsTable, Off
      <3>2. queue' = [queue EXCEPT ![j] = "gone"]
        BY <1>1, <1>3, <3>1, OnePlace
      <3>3. Queue!LetGo(p)
        BY <1>1, <2>1, <2>2, <3>2 DEF Queue!LetGo, Queue!NoTask
      <3> QED BY <3>3 DEF Queue!Next
    <2>5. CASE j \notin stray' /\ (hpc[j] = "rejected" \/ disk.status[j] \in {"none", "running"})
      <3>1. queue'[j] = queue[j]
        BY <1>1, <1>2, <1>5, <2>3, <2>5 DEF Mapped, QueueIsTable, Off
      <3>2. UNCHANGED queue
        BY <1>3, <3>1, SameQueue
      <3>3. Queue!LetGo(p)
        BY <1>1, <2>1, <2>2, <3>2 DEF Queue!LetGo, Queue!NoTask
      <3> QED BY <3>3 DEF Queue!Next
    <2>6. CASE j \notin stray' /\ hpc[j] # "rejected" /\ disk.status[j] \in {"completed", "failed"}
      <3>1. PICK v \in {"completed", "failed"} : queue[j] = "running" /\ queue'[j] = v
        BY <1>1, <1>2, <1>5, <2>3, <2>6 DEF Mapped, QueueIsTable, Off
      <3>2. queue' = [queue EXCEPT ![j] = v]
        BY <1>1, <1>3, <3>1, OnePlace
      <3>3. Queue!End(p, j)
        BY <1>1, <2>1, <2>2, <3>1, <3>2 DEF Queue!End, Queue!NoTask
      <3> QED BY <1>1, <3>3 DEF Queue!Next, Queue!TaskIds, Jobs
    <2> QED BY <2>3, <2>4, <2>5, <2>6
  <1> QED BY <1>4, <1>5

\* The guarded UPDATE takes the first job of the queue, although it was selected before.
LEMMA ClaimSteps ==
  ASSUME Inv, Mapped, NEW p \in Procs, Claim(p)
  PROVE  [Queue!Next]_(Queue!vars)
  <1> DEFINE j == job[p]
  <1> USE DEF Inv, TypeOK, Return, Goto, Claimed, SetStatus, Commit, hist
  <1>1. j \in Jobs /\ pc[p] = "claim" /\ MayWrite(p) /\ UNCHANGED <<hpc, stray>> /\ holds[p] = 0
    BY NoJobIsNoJob DEF Claim, holds, Active
  <1>2. \A k \in Jobs : k # j /\ k \notin stray => disk'.status[k] = disk.status[k]
    BY <1>1, OthersStand DEF Claim
  <1>3. CASE status[j] # "pending"
    <2>1. UNCHANGED holds
      BY <1>1, <1>3 DEF Claim, holds, Active
    <2>2. j \notin stray => disk'.status[j] = disk.status[j]
      BY <1>1, <1>3 DEF Claim, TxInv, MayWrite
    <2>3. UNCHANGED queue
      BY <1>1, <1>2, <2>1, <2>2, SameHolders, SamePlace, SameQueue
    <2> QED BY <2>1, <2>3 DEF Queue!vars
  <1>4. CASE status[j] = "pending"
    <2>1. /\ status' = [status EXCEPT ![j] = "running"] /\ disk'.status = status'
          /\ UNCHANGED job /\ pc' = [pc EXCEPT ![p] = "reload"]
      BY <1>1, <1>4 DEF Claim
    <2>2. disk.status[j] = "pending" /\ ~Held(j)
      BY <1>1, <1>4 DEF TxInv, Mapped, QueueIsTable
    <2>3. Held(j)' /\ \A k \in Jobs : k # j => (Held(k)' <=> Held(k))
      BY <1>1, <2>1 DEF Held, Active
    <2>4. \A k \in Jobs : k # j => queue'[k] = queue[k]
      BY <1>1, <1>2, <2>3, SamePlace
    <2>5. CASE j \in stray
      <3>1. UNCHANGED holds
        BY <1>1, <2>1, <2>5 DEF holds, Active
      <3>2. queue'[j] = queue[j]
        BY <1>1, <2>5, SamePlace
      <3> QED BY <2>4, <3>1, <3>2, SameQueue DEF Queue!vars
    <2>6. CASE j \notin stray
      <3>1. holds' = [holds EXCEPT ![p] = j]
        BY <1>1, <2>1, <2>6 DEF holds, Active
      <3>2. hpc[j] \notin {"idle", "rejected"}
        BY <1>1, <2>2 DEF OrderInv, OwnerInv
      <3>3. queue[j] = "pending" /\ queue'[j] = "running"
        BY <1>1, <2>1, <2>2, <2>3, <2>6, <3>2 DEF Mapped, QueueIsTable, Off
      <3>4. \A k \in Jobs : k < j => queue[k] # "pending"
        <4>1. \A k \in Jobs : k < j => disk.status[k] # "pending" \/ k \in stray
          BY <1>1 DEF OrderInv
        <4> QED BY <4>1 DEF queue, QueueState, Tables
      <3> HIDE DEF j
      <3>5. queue' = [queue EXCEPT ![j] = "running"]
        BY <1>1, <2>4, <3>3, OnePlace
      <3>6. Queue!Take(p, j)
        BY <1>1, <3>1, <3>3, <3>4, <3>5 DEF Queue!Take, Queue!NoTask, Queue!TaskIds, Jobs
      <3> QED BY <1>1, <3>6 DEF Queue!Next, Queue!TaskIds, Jobs
    <2> QED BY <2>5, <2>6
  <1> QED BY <1>3, <1>4

\* What a worker does with the job it holds is nobody else's business.
LEMMA HoldingSteps ==
  ASSUME Inv, Mapped, NEW p \in Procs,
         Select(p) \/ (Reload(p) /\ ~Return(p)) \/ Run(p) \/ Complete(p) \/ Fail(p) \/ TryRaises(p)
  PROVE  UNCHANGED Queue!vars
  <1> USE NoJobIsNoJob DEF Inv, TypeOK, Return, Goto, SetStatus, Commit, Completed, Failed, db, hist
  <1>1. UNCHANGED <<hpc, stray>> /\ UNCHANGED holds
    BY DEF Select, Reload, Run, Complete, Fail, TryRaises, holds, Active
  <1>2. \A j \in Jobs : j \notin stray => (Held(j)' <=> Held(j))
    BY <1>1, SameHolders
  <1>3. CASE UNCHANGED disk
    BY <1>1, <1>2, <1>3, SamePlace, SameQueue DEF Queue!vars
  <1>4. CASE Complete(p) \/ Fail(p)
    <2>1. job[p] \in Jobs /\ Held(job[p]) /\ MayWrite(p)
      BY <1>4 DEF Complete, Fail, Held, Active
    <2>2. \A k \in Jobs : k # job[p] /\ k \notin stray => disk'.status[k] = disk.status[k]
      BY <1>4, <2>1, OthersStand DEF Complete, Fail
    <2>3. disk'.status[job[p]] = "none" <=> disk.status[job[p]] = "none"
      BY <1>4, <2>1 DEF Complete, Fail, TxInv
    <2>4. \A k \in Jobs : queue'[k] = queue[k]
      <3>1. \A k \in Jobs : k # job[p] => queue'[k] = queue[k]
        BY <1>1, <1>2, <2>2, SamePlace
      <3>2. queue'[job[p]] = queue[job[p]]
        BY <1>1, <1>2, <2>1, <2>3 DEF Mapped, QueueIsTable, Off
      <3> QED BY <3>1, <3>2
    <2> QED BY <1>1, <2>4, SameQueue DEF Queue!vars
  <1> QED BY <1>3, <1>4 DEF Select, Reload, Run, TryRaises, Outcome, Uncommitted, Rollback

\* A claim that raises may leave the job neither taken nor on offer.
LEMMA UnclaimedSteps ==
  ASSUME Inv, Mapped, NEW p \in Procs, EscapesWorker(p) \/ Dies(p), pc[p] \notin Active
  PROVE  [Queue!Next]_(Queue!vars)
  <1> USE NoJobIsNoJob DEF Inv, TypeOK, Return, db
  <1>1. UNCHANGED <<hpc, disk>>
    BY DEF EscapesWorker, Dies, Outcome, Uncommitted, Rollback
  <1>2. \A k \in Jobs : Held(k)' <=> Held(k)
    BY DEF EscapesWorker, Dies, Held, Active
  <1>3. CASE UNCHANGED stray
    <2>1. UNCHANGED holds
      BY <1>3 DEF EscapesWorker, Dies, holds, Active
    <2>2. UNCHANGED queue
      BY <1>1, <1>2, <1>3, SamePlace, SameQueue
    <2> QED BY <2>1, <2>2 DEF Queue!vars
  <1>4. CASE stray' = stray \cup {job[p]} /\ p \in writer' /\ EscapesWorker(p) /\ job[p] \notin stray
    <2>1. pc[p] = "claim" /\ job[p] \in Jobs
      BY <1>4 DEF EscapesWorker, Active
    <2>2. status[job[p]] = "pending"
      BY <1>4, <2>1 DEF EscapesWorker, Outcome, Uncommitted, Rollback, TxInv
    <2>3. ~Held(job[p]) /\ hpc[job[p]] # "idle"
      BY <2>1, <2>2 DEF TxInv, Mapped, QueueIsTable, OwnerInv
    <2>4. UNCHANGED holds
      BY <1>4, <2>1, <2>3 DEF EscapesWorker, holds, Active, Held
    <2>5. queue[job[p]] # "unborn" /\ queue'[job[p]] = "gone"
      <3>1. queue[job[p]] # "unborn"
        BY <2>1, <2>3 DEF queue, QueueState, Tables
      <3> QED BY <1>1, <1>4, <2>1, <2>3, <3>1 DEF Mapped, QueueIsTable, Off
    <2>6. \A k \in Jobs : k # job[p] => queue'[k] = queue[k]
      BY <1>1, <1>2, <1>4, SamePlace
    <2>7. queue' = [k \in Jobs |-> IF k \in {job[p]} THEN "gone" ELSE queue[k]]
      BY <2>5, <2>6 DEF queue
    <2>8. Queue!Remove({job[p]})
      BY <2>1, <2>4, <2>5, <2>7 DEF Queue!Remove, Queue!TaskIds, Jobs
    <2> QED BY <2>1, <2>8 DEF Queue!Next, Queue!TaskIds, Jobs
  <1>5. CASE job[p] \in stray
    <2>1. stray \cup {job[p]} = stray
      BY <1>5
    <2>2. UNCHANGED stray
      BY <2>1 DEF EscapesWorker, Dies
    <2> QED BY <1>3, <2>2
  <1>6. CASE job[p] \notin stray
    BY <1>3, <1>4, <1>6 DEF EscapesWorker, Dies
  <1> QED BY <1>5, <1>6

LEMMA WorkerSteps ==
  ASSUME Inv, Mapped, NEW p \in Procs, Worker(p) \/ TryRaises(p) \/ EscapesWorker(p) \/ Dies(p)
  PROVE  [Queue!Next]_(Queue!vars)
  <1>1. CASE Claim(p)
    BY <1>1, ClaimSteps
  <1>2. CASE Select(p) \/ (Reload(p) /\ ~Return(p)) \/ Run(p) \/ Complete(p) \/ Fail(p) \/ TryRaises(p)
    BY <1>2, HoldingSteps
  <1>3. CASE (Reload(p) /\ Return(p)) \/ SuccessNote(p) \/ ErrorNote(p)
    <2>1. pc[p] \in Active /\ Return(p) /\ UNCHANGED <<hpc, stray>>
      BY <1>3 DEF Reload, SuccessNote, ErrorNote, Active, hist
    <2>2. disk'.status = disk.status
      BY <1>3 DEF Reload, SuccessNote, ErrorNote, Succeeded, Erred, Commit, MayWrite, Inv, TypeOK, TxInv, db
    <2> QED BY <2>1, <2>2, ReturnSteps
  <1>4. CASE (EscapesWorker(p) \/ Dies(p)) /\ pc[p] \in Active
    <2>1. Return(p) /\ UNCHANGED <<hpc, disk>> /\ (stray' = stray \/ stray' = stray \cup {job[p]})
      BY <1>4 DEF EscapesWorker, Dies, Outcome, Uncommitted, Rollback, db
    <2> QED BY <1>4, <2>1, ReturnSteps
  <1>5. CASE (EscapesWorker(p) \/ Dies(p)) /\ pc[p] \notin Active
    BY <1>5, UnclaimedSteps
  <1> QED BY <1>1, <1>2, <1>3, <1>4, <1>5 DEF Worker, LockedOut

LEMMA StepRefinesQueue == Inv /\ [Next]_vars => [Queue!Next]_(Queue!vars)
  <1> SUFFICES ASSUME Inv, [Next]_vars PROVE [Queue!Next]_(Queue!vars)
    OBVIOUS
  <1>1. Mapped
    BY StepIsMapped
  <1>2. ASSUME NEW j \in Jobs, Post(j) \/ Handler(j) \/ Delete(j) PROVE [Queue!Next]_(Queue!vars)
    BY <1>1, <1>2, HandlerSteps
  <1>3. ASSUME NEW p \in Procs, Worker(p) \/ TryRaises(p) \/ EscapesWorker(p) \/ Dies(p)
        PROVE  [Queue!Next]_(Queue!vars)
    BY <1>1, <1>3, WorkerSteps
  <1>4. CASE UNCHANGED vars
    <2>1. UNCHANGED <<disk, hpc, pc, job, stray>>
      BY <1>4 DEF vars, db, hist
    <2>2. UNCHANGED holds /\ \A k \in Jobs : Held(k)' <=> Held(k)
      BY <2>1 DEF holds, Held
    <2>3. UNCHANGED queue
      BY <1>1, <2>1, <2>2, SamePlace, SameQueue
    <2> QED BY <2>2, <2>3 DEF Queue!vars
  <1> QED BY <1>2, <1>3, <1>4 DEF Next

\* Jobs without tasks and the worker processes are a TaskQueue: each job is handed to
\* one process, in the order of the ids, and ended by that process, once, or taken
\* off by POST or DELETE, or lost in a transaction left open; SELECT and UPDATE being
\* two statements changes nothing.
THEOREM JobsAreQueued == Spec => ImplementsTaskQueue
  BY QueueInit, InvInit, InvNext, StepRefinesQueue, PTL DEF Spec, ImplementsTaskQueue, Queue!Spec

=============================================================================
