-------------------------- MODULE JobQueueRowsProofs --------------------------
(* That partial.jsonl and job_tasks agree, for every instance of JobQueue.  *)
(*                                                                          *)
(* The sequence of lines of a job matters only as the set of its lines      *)
(* (rows) and in that no line is repeated (Unrepeated); RowFacts says in    *)
(* terms of rows what LineInv and RowsMatchTasks say of partial.            *)
EXTENDS JobQueueProofs

USE DEF NoTask, Leftover

rows == [j \in Jobs |-> RowsOf(partial[j])]

Distinct(lines) ==
  \A i, k \in DOMAIN lines : lines[i] = lines[k] /\ lines[i] # Leftover => i = k

Unrepeated == \A j \in Jobs : Distinct(partial[j])

BeforeInsert == {"idle", "normalize", "check", "retrieve", "unlink"}
Scoring      == {"start", "evaluate", "append", "completetask"}

RowFacts ==
  /\ \A j \in Jobs : ppc[j] \in BeforeInsert => \A t \in TaskIds : tjob[t] # j
  /\ \A j \in Jobs : ppc[j] = "insert" => Leftover \notin rows[j]
  /\ \A j \in Jobs, t \in TaskIds : tjob[t] = j => Leftover \notin rows[j]
  /\ \A j \in Jobs : \A l \in rows[j] : l # Leftover => l \in TaskIds /\ tjob[l] = j
  /\ \A w \in Workers : pc[w] \in HoldPcs \ {"completetask"} => task[w] \notin rows[jobOf[w]]
  /\ \A w \in Workers : pc[w] = "completetask" /\ tstat[task[w]] # "gone" => task[w] \in rows[jobOf[w]]
  /\ \A t \in TaskIds : tstat[t] = "completed" => t \in rows[tjob[t]]
  /\ \A t \in TaskIds : tstat[t] \in {"pending", "failed"} => t \notin rows[tjob[t]]

LEMMA RowsOfLines ==
  /\ RowsOf(<<>>) = {} /\ Distinct(<<>>) /\ Distinct(<<Leftover>>)
  /\ \A r \in Lines : RowsOf(r) \subseteq 0..MaxTasks
  /\ \A r \in Lines, t \in TaskIds : RowsOf(Append(r, t)) = RowsOf(r) \cup {t}
  /\ \A r \in Lines, t \in TaskIds : Distinct(r) /\ t \notin RowsOf(r) => Distinct(Append(r, t))
  <1>1. RowsOf(<<>>) = {} /\ Distinct(<<>>) /\ Distinct(<<Leftover>>)
    BY DEF RowsOf, Distinct
  <1>2. ASSUME NEW r \in Lines PROVE RowsOf(r) \subseteq 0..MaxTasks
    <2>1. ASSUME NEW S, r \in Seq(S) PROVE \A i \in DOMAIN r : r[i] \in S
      BY <2>1
    <2> QED BY <2>1 DEF RowsOf, Lines
  <1>3. ASSUME NEW r \in Lines, NEW t \in TaskIds
        PROVE  /\ RowsOf(Append(r, t)) = RowsOf(r) \cup {t}
               /\ Distinct(r) /\ t \notin RowsOf(r) => Distinct(Append(r, t))
    <2>1. /\ DOMAIN r = 1..Len(r) /\ Len(r) \in Nat
          /\ DOMAIN Append(r, t) = 1..(Len(r) + 1)
          /\ \A i \in 1..Len(r) : Append(r, t)[i] = r[i]
          /\ Append(r, t)[Len(r) + 1] = t
      BY BoundsAssumption DEF Lines, TaskIds
    <2>2. \A i \in 1..(Len(r) + 1) : i \in 1..Len(r) \/ i = Len(r) + 1
      BY <2>1
    <2>3. RowsOf(Append(r, t)) = RowsOf(r) \cup {t}
      BY <2>1, <2>2 DEF RowsOf
    <2>4. Distinct(r) /\ t \notin RowsOf(r) => Distinct(Append(r, t))
      BY <2>1, <2>2 DEF Distinct, RowsOf
    <2> QED BY <2>3, <2>4
  <1> QED BY <1>1, <1>2, <1>3

LEMMA RowsInvGives == RowsInv => ClaimInv /\ DeletionInv /\ RowFacts /\ Unrepeated
  <1> SUFFICES ASSUME RowsInv PROVE RowFacts /\ Unrepeated
    BY DEF RowsInv
  <1>1. /\ LineInv /\ RowsMatchTasks
        /\ partial \in [Jobs -> Lines] /\ tstat \in [TaskIds -> TaskStatus]
        /\ \A w \in Workers : pc[w] \in HoldPcs => task[w] \in TaskIds /\ jobOf[w] = tjob[task[w]]
        /\ \A w \in Workers : pc[w] # "idle" => jobOf[w] \in Jobs
        /\ \A t \in TaskIds : tstat[t] # "unborn" => tjob[t] \in Jobs
    BY DEF RowsInv, ClaimInv, TypeInv, TypeOK, DbTypeOK, FilesTypeOK, Bookkeeping, Actors
  <1>2. Unrepeated
    BY <1>1 DEF RowsMatchTasks, Unrepeated, Distinct
  <1>3. \A j \in Jobs : rows[j] = RowsOf(partial[j]) /\ rows[j] \subseteq 0..MaxTasks
    BY <1>1, RowsOfLines DEF rows
  <1>4. RowFacts
    BY <1>1, <1>3 DEF LineInv, RowsMatchTasks, RowFacts, BeforeInsert, HoldPcs, TasksOf, TaskIds
  <1> QED BY <1>2, <1>4

LEMMA RowsInvFrom ==
  ASSUME ClaimInv', DeletionInv', RowFacts', Unrepeated'
  PROVE  RowsInv'
  <1>1. /\ \A w \in Workers : pc'[w] \in HoldPcs => task'[w] \in TaskIds /\ jobOf'[w] = tjob'[task'[w]]
        /\ \A w \in Workers : pc'[w] # "idle" => jobOf'[w] \in Jobs
        /\ \A t \in TaskIds : tstat'[t] # "unborn" => tjob'[t] \in Jobs
    BY DEF ClaimInv, TypeInv, Bookkeeping, Actors
  <1>2. \A j \in Jobs : rows'[j] = RowsOf(partial'[j])
    BY DEF rows
  <1>3. LineInv'
    BY <1>1, <1>2 DEF LineInv, RowFacts, BeforeInsert, HoldPcs
  <1>4. RowsMatchTasks'
    BY <1>1, <1>2 DEF RowsMatchTasks, RowFacts, Unrepeated, Distinct, TasksOf
  <1> QED BY <1>3, <1>4 DEF RowsInv

LEMMA RowsInit == Init => RowsInv
  <1> SUFFICES ASSUME Init PROVE RowsInv
    OBVIOUS
  <1>1. ClaimInv
    BY ClaimInit
  <1>2. DeletionInv
    BY DEF Init, DeletionInv, Actors
  <1>3. \A j \in Jobs : partial[j] \in {<<>>, <<Leftover>>}
    BY DEF Init
  <1>4. \A j \in Jobs : RowsOf(partial[j]) \subseteq {Leftover}
    BY <1>3 DEF RowsOf
  <1>5. LineInv
    BY <1>4, JobsAssumption DEF Init, LineInv, HoldPcs, Actors
  <1>6. RowsMatchTasks
    <2>1. \A j \in Jobs, s \in SUBSET TaskStatus : TasksOf(j, s) = {}
      BY JobsAssumption DEF Init, TasksOf
    <2>2. \A j \in Jobs : Distinct(partial[j])
      BY <1>3, RowsOfLines
    <2> QED BY <2>1, <2>2 DEF RowsMatchTasks, Distinct, TaskStatus
  <1> QED BY <1>1, <1>2, <1>5, <1>6 DEF RowsInv

-----------------------------------------------------------------------------
(* What a step must keep: DeletionInv, RowFacts and Unrepeated, once        *)
(* ClaimInv is known before and after it.                                   *)

Kept == DeletionInv /\ RowFacts /\ Unrepeated
Good == ClaimInv /\ Kept

\* Nothing changes but statuses of jobs that are there, and hands that are or become empty.
Quiet ==
  /\ UNCHANGED <<tjob, tstat, partial, ppc, dpc>>
  /\ \A j \in Jobs : status'[j] = "none" <=> status[j] = "none"
  /\ \A w \in Workers : pc'[w] \in HoldPcs => pc'[w] = pc[w] /\ task'[w] = task[w] /\ jobOf'[w] = jobOf[w]

\* A thread with a task in its hands goes on, and writes no line.
HandMoves(w) ==
  /\ UNCHANGED <<tjob, tstat, partial, ppc, dpc, task, jobOf>>
  /\ \A j \in Jobs : status'[j] = "none" <=> status[j] = "none"
  /\ pc[w] \in HoldPcs \ {"completetask"}
  /\ \E to \in HoldPcs \ {"completetask"} : pc' = [pc EXCEPT ![w] = to]
  /\ pc'[w] \in Scoring => pc[w] \in Scoring \/ status[jobOf[w]] # "none"

\* The enrolment of a job goes on, and neither unlinks nor inserts.
PrepMoves(j) ==
  /\ UNCHANGED <<tjob, tstat, partial, pc, task, jobOf, dpc>>
  /\ \A i \in Jobs : i # j => status'[i] = status[i]
  /\ IF ppc[j] = "idle" THEN status'[j] # "none" ELSE status'[j] = "none" <=> status[j] = "none"
  /\ \E to \in PrepPcs \ {"idle", "insert"} :
       /\ ppc' = [ppc EXCEPT ![j] = to]
       /\ to \in BeforeInsert => ppc[j] \in BeforeInsert

LEMMA TypesOfGood ==
  Good => /\ tjob \in [TaskIds -> Jobs \cup {NoJob}] /\ tstat \in [TaskIds -> TaskStatus]
          /\ status \in [Jobs -> JobStatus] /\ ppc \in [Jobs -> PrepPcs]
          /\ partial \in [Jobs -> Lines] /\ pc \in [Actors -> ActorPcs]
          /\ dpc \in [Jobs -> {"idle", "delete", "purge", "deleted"}]
          /\ task \in [Actors -> TaskIds \cup {NoTask}] /\ jobOf \in [Actors -> Jobs \cup {NoJob}]
          /\ Workers \subseteq Actors /\ Bookkeeping /\ ExclusiveClaim
  BY DEF Good, ClaimInv, TypeInv, TypeOK, DbTypeOK, FilesTypeOK, HandlersTypeOK, Actors

LEMMA HandsOfGood ==
  Good => /\ \A w \in Workers : pc[w] \in HoldPcs =>
                /\ task[w] \in TaskIds /\ jobOf[w] \in Jobs /\ jobOf[w] = tjob[task[w]]
                /\ tstat[task[w]] \in {"running", "gone"}
                /\ \A v \in Workers : pc[v] \in HoldPcs /\ v # w => task[v] # task[w]
          /\ \A t \in TaskIds : tstat[t] # "unborn" => tjob[t] \in Jobs
  <1> SUFFICES ASSUME Good
               PROVE  /\ \A w \in Workers : pc[w] \in HoldPcs =>
                             /\ task[w] \in TaskIds /\ jobOf[w] \in Jobs /\ jobOf[w] = tjob[task[w]]
                             /\ tstat[task[w]] \in {"running", "gone"}
                             /\ \A v \in Workers : pc[v] \in HoldPcs /\ v # w => task[v] # task[w]
                      /\ \A t \in TaskIds : tstat[t] # "unborn" => tjob[t] \in Jobs
    OBVIOUS
  <1>1. /\ \A a \in Actors : pc[a] \in HoldPcs => task[a] \in TaskIds /\ jobOf[a] = tjob[task[a]]
        /\ \A a \in Actors : pc[a] # "idle" => jobOf[a] \in Jobs
        /\ \A t \in TaskIds : tstat[t] # "unborn" => tjob[t] \in Jobs
        /\ Workers \subseteq Actors
    BY TypesOfGood DEF Bookkeeping
  <1>2. 0 \notin TaskIds /\ "idle" \notin HoldPcs
    BY DEF TaskIds, HoldPcs
  <1> QED BY <1>1, <1>2, TypesOfGood DEF ExclusiveClaim

LEMMA QuietKeeps == Good /\ Quiet => Kept'
  <1> SUFFICES ASSUME Good, Quiet PROVE Kept'
    OBVIOUS
  <1>1. rows' = rows
    BY DEF rows, Quiet
  <1>2. DeletionInv'
    BY TypesOfGood DEF Good, Kept, Quiet, DeletionInv, Bookkeeping, HoldPcs
  <1>3. RowFacts'
    BY <1>1, TypesOfGood DEF Good, Kept, Quiet, RowFacts, HoldPcs
  <1>4. Unrepeated'
    BY DEF Good, Kept, Quiet, Unrepeated
  <1> QED BY <1>2, <1>3, <1>4 DEF Kept

LEMMA HandMovesKeeps ==
  ASSUME Good, NEW w \in Workers, HandMoves(w) PROVE Kept'
  <1>1. rows' = rows
    BY DEF rows, HandMoves
  <1>2. DeletionInv'
    BY TypesOfGood DEF Good, Kept, HandMoves, DeletionInv, Bookkeeping, HoldPcs, Scoring
  <1>3. RowFacts'
    BY <1>1, TypesOfGood DEF Good, Kept, HandMoves, RowFacts, HoldPcs
  <1>4. Unrepeated'
    BY DEF Good, Kept, HandMoves, Unrepeated
  <1> QED BY <1>2, <1>3, <1>4 DEF Kept

LEMMA PrepMovesKeeps ==
  ASSUME Good, NEW j \in Jobs, PrepMoves(j) PROVE Kept'
  <1>1. rows' = rows
    BY DEF rows, PrepMoves
  <1>2. DeletionInv'
    BY TypesOfGood DEF Good, Kept, PrepMoves, DeletionInv, Bookkeeping, HoldPcs
  <1>3. RowFacts'
    BY <1>1, TypesOfGood DEF Good, Kept, PrepMoves, RowFacts, BeforeInsert
  <1>4. Unrepeated'
    BY DEF Good, Kept, PrepMoves, Unrepeated
  <1> QED BY <1>2, <1>3, <1>4 DEF Kept

-----------------------------------------------------------------------------
(* The actions that touch a task or a line, one lemma each.                *)

LEMMA UnlinkKeeps == ASSUME Good, NEW j \in Jobs, UnlinkPartial(j) PROVE Kept'
  <1> USE DEF UnlinkPartial, PrepGoto, db, acts
  <1>1. \A i \in Jobs : rows'[i] = IF i = j THEN {} ELSE rows[i]
    BY TypesOfGood, RowsOfLines DEF rows
  <1>2. DeletionInv'
    BY TypesOfGood DEF Good, Kept, DeletionInv
  <1>3. RowFacts'
    BY <1>1, TypesOfGood, HandsOfGood DEF Good, Kept, RowFacts, BeforeInsert, HoldPcs
  <1>4. Unrepeated'
    BY TypesOfGood, RowsOfLines DEF Good, Kept, Unrepeated
  <1> QED BY <1>2, <1>3, <1>4 DEF Kept

LEMMA InsertKeeps == ASSUME Good, NEW j \in Jobs, InsertTask(j) PROVE Kept'
  <1> USE DEF InsertTask, PrepGoto, files, acts
  <1>1. /\ rows' = rows
        /\ tstat[nextId] = "unborn" /\ tjob[nextId] \notin Jobs
        /\ \A t \in TaskIds : tstat[t] # "unborn" => tjob[t] \in Jobs
        /\ \A w \in Workers : pc[w] \in HoldPcs => task[w] \in TaskIds /\ tstat[task[w]] \in {"running", "gone"}
        /\ \A w \in Workers : pc[w] # "idle" => jobOf[w] \in Jobs
    <2>1. nextId \in TaskIds /\ nextId >= nextId
      BY BoundsAssumption DEF TaskIds
    <2>2. task = task' /\ rows' = rows
      BY DEF rows
    <2> QED BY <2>1, <2>2, TypesOfGood DEF Bookkeeping, ExclusiveClaim, NoTask, TaskIds
  <1>2. DeletionInv'
    BY <1>1, TypesOfGood DEF Good, Kept, DeletionInv, HoldPcs
  <1>3. RowFacts'
    BY <1>1, TypesOfGood DEF Good, Kept, RowFacts, BeforeInsert, HoldPcs
  <1>4. Unrepeated'
    BY DEF Good, Kept, Unrepeated
  <1> QED BY <1>2, <1>3, <1>4 DEF Kept

LEMMA ClaimKeeps == ASSUME Good, NEW w \in Workers, Claim(w) PROVE Kept'
  <1> USE DEF Goto, files, prep
  <1> PICK t \in Claimable :
        /\ pc[w] = "idle" /\ pc' = [pc EXCEPT ![w] = "load"]
        /\ tstat' = [tstat EXCEPT ![t] = "running"]
        /\ task' = [task EXCEPT ![w] = t] /\ jobOf' = [jobOf EXCEPT ![w] = tjob[t]]
        /\ UNCHANGED <<status, tjob, files, prep, dpc>>
    BY DEF Claim
  <1>1. /\ rows' = rows /\ t \in TaskIds /\ tstat[t] = "pending"
        /\ \A v \in Workers : pc[v] \in HoldPcs => task[v] \in TaskIds /\ task[v] # t
    <2>1. rows' = rows
      BY DEF rows
    <2> QED BY <2>1, TypesOfGood DEF Claimable, Bookkeeping, ExclusiveClaim, TaskIds
  <1>2. DeletionInv'
    BY <1>1, TypesOfGood DEF Good, Kept, DeletionInv, HoldPcs
  <1>3. RowFacts'
    BY <1>1, TypesOfGood DEF Good, Kept, RowFacts, HoldPcs
  <1>4. Unrepeated'
    BY DEF Good, Kept, Unrepeated
  <1> QED BY <1>2, <1>3, <1>4 DEF Kept

LEMMA AppendKeeps == ASSUME Good, NEW w \in Workers, AppendRow(w) PROVE Kept'
  <1> USE DEF AppendRow, Goto, db, prep
  <1>1. /\ task[w] \in TaskIds /\ jobOf[w] \in Jobs /\ jobOf[w] = tjob[task[w]]
        /\ tstat[task[w]] \in {"running", "gone"}
        /\ task[w] \notin rows[jobOf[w]]
        /\ \A v \in Workers : pc[v] \in HoldPcs /\ v # w => task[v] # task[w]
    <2>1. pc[w] \in HoldPcs \ {"completetask"}
      BY DEF HoldPcs
    <2>2. task[w] \notin rows[jobOf[w]]
      BY <2>1 DEF Good, Kept, RowFacts
    <2> QED BY <2>1, <2>2, HandsOfGood
  <1>2. \A i \in Jobs : rows'[i] = IF i = jobOf[w] THEN rows[i] \cup {task[w]} ELSE rows[i]
    <2>1. \A i \in Jobs : partial'[i] = IF i = jobOf[w] THEN Append(partial[i], task[w]) ELSE partial[i]
      BY TypesOfGood
    <2>2. \A i \in Jobs : partial[i] \in Lines
      BY TypesOfGood
    <2>3. LET lines == partial[jobOf[w]] IN RowsOf(Append(lines, task[w])) = RowsOf(lines) \cup {task[w]}
      BY <1>1, <2>2, RowsOfLines
    <2>4. \A i \in Jobs : rows[i] = RowsOf(partial[i]) /\ rows'[i] = RowsOf(partial'[i])
      BY DEF rows
    <2> HIDE DEF AppendRow
    <2> QED BY <1>1, <2>1, <2>3, <2>4
  <1>3. DeletionInv'
    BY <1>1, TypesOfGood DEF Good, Kept, DeletionInv
  <1>4. RowFacts'
    <2> PICK t \in TaskIds, j \in Jobs :
          /\ t = task[w] /\ j = jobOf[w] /\ j = tjob[t] /\ t # Leftover
          /\ tstat[t] \in {"running", "gone"}
          /\ \A i \in Jobs : rows'[i] = IF i = j THEN rows[i] \cup {t} ELSE rows[i]
          /\ \A v \in Workers : pc[v] \in HoldPcs /\ v # w => task[v] # t
      <3>1. task[w] # Leftover
        BY <1>1 DEF TaskIds
      <3> QED BY <1>1, <1>2, <3>1
    <2>1. /\ UNCHANGED <<tjob, tstat, ppc, task, jobOf>>
          /\ \A v \in Workers : pc'[v] = IF v = w THEN "completetask" ELSE pc[v]
      BY TypesOfGood
    <2>2. \A i \in Jobs : \A u : u \in rows'[i] <=> u \in rows[i] \/ (i = j /\ u = t)
      OBVIOUS
    <2> HIDE DEF AppendRow
    <2>3. RowFacts
      BY DEF Good, Kept
    <2>4. /\ \A i \in Jobs : ppc'[i] \in BeforeInsert => \A u \in TaskIds : tjob'[u] # i
          /\ \A i \in Jobs : ppc'[i] = "insert" => Leftover \notin rows'[i]
          /\ \A i \in Jobs, u \in TaskIds : tjob'[u] = i => Leftover \notin rows'[i]
          /\ \A i \in Jobs : \A l \in rows'[i] : l # Leftover => l \in TaskIds /\ tjob'[l] = i
      BY <2>1, <2>2, <2>3 DEF RowFacts
    <2>5. ASSUME NEW v \in Workers, pc'[v] \in HoldPcs
          PROVE  IF pc'[v] = "completetask"
                   THEN tstat'[task'[v]] # "gone" => task'[v] \in rows'[jobOf'[v]]
                   ELSE task'[v] \notin rows'[jobOf'[v]]
      <3>1. CASE v = w
        BY <2>1, <2>2, <3>1
      <3>2. CASE v # w
        <4>1. pc[v] \in HoldPcs /\ pc'[v] = pc[v] /\ task[v] # t /\ jobOf[v] \in Jobs
          BY <2>1, <2>5, <3>2, HandsOfGood
        <4> QED BY <2>1, <2>2, <2>3, <4>1 DEF RowFacts
      <3> QED BY <3>1, <3>2
    <2>6. ASSUME NEW u \in TaskIds
          PROVE  /\ tstat'[u] = "completed" => u \in rows'[tjob'[u]]
                 /\ tstat'[u] \in {"pending", "failed"} => u \notin rows'[tjob'[u]]
      <3>1. tstat[u] # "unborn" => tjob[u] \in Jobs
        BY HandsOfGood
      <3> QED BY <2>1, <2>2, <2>3, <3>1 DEF RowFacts
    <2> QED BY <2>4, <2>5, <2>6 DEF RowFacts, HoldPcs
  <1>5. Unrepeated'
    BY <1>1, TypesOfGood, RowsOfLines DEF Good, Kept, Unrepeated, rows
  <1> QED BY <1>3, <1>4, <1>5 DEF Kept

LEMMA EndTaskKeeps == ASSUME Good, NEW w \in Workers, CompleteTask(w) \/ FailTask(w) PROVE Kept'
  <1> USE DEF EndTask, SetTask, Goto, files, prep
  <1>1. /\ UNCHANGED <<status, tjob, partial, ppc, jobOf, dpc>> /\ rows' = rows
        /\ pc' = [pc EXCEPT ![w] = "cntpending"] /\ task' = [task EXCEPT ![w] = NoTask]
        /\ pc[w] \in {"completetask", "failtask"}
        /\ tstat' = [tstat EXCEPT ![task[w]] =
                       IF @ \in {"unborn", "gone"} THEN @
                       ELSE IF pc[w] = "completetask" THEN "completed" ELSE "failed"]
    BY DEF CompleteTask, FailTask, rows
  <1>2. pc[w] \in HoldPcs
    BY <1>1 DEF HoldPcs
  <1>3. \A v \in Workers : pc'[v] \in HoldPcs => v # w /\ pc'[v] = pc[v] /\ task'[v] = task[v]
    BY <1>1, TypesOfGood DEF HoldPcs
  <1>4. \A t \in TaskIds : t # task[w] => tstat'[t] = tstat[t]
    BY <1>1, TypesOfGood
  <1>5. \A v \in Workers : pc'[v] \in HoldPcs => tstat'[task[v]] = tstat[task[v]]
    BY <1>2, <1>3, <1>4, HandsOfGood
  <1>6. tstat'[task[w]] = IF tstat[task[w]] = "gone" THEN "gone"
                          ELSE IF pc[w] = "completetask" THEN "completed" ELSE "failed"
    BY <1>1, <1>2, TypesOfGood, HandsOfGood
  <1>7. tstat[task[w]] # "gone" => IF pc[w] = "completetask"
          THEN task[w] \in rows[jobOf[w]] /\ status[jobOf[w]] # "none"
          ELSE task[w] \notin rows[jobOf[w]]
    BY <1>1 DEF Good, Kept, RowFacts, DeletionInv, HoldPcs
  <1>8. DeletionInv'
    BY <1>1, <1>2, <1>3, <1>4, <1>5, <1>6, <1>7, HandsOfGood DEF Good, Kept, DeletionInv, HoldPcs
  <1>9. RowFacts'
    BY <1>1, <1>2, <1>3, <1>4, <1>5, <1>6, <1>7, HandsOfGood DEF Good, Kept, RowFacts, HoldPcs
  <1>10. Unrepeated'
    BY <1>1 DEF Good, Kept, Unrepeated
  <1> QED BY <1>8, <1>9, <1>10 DEF Kept

LEMMA DeleteKeeps == ASSUME Good, NEW j \in Jobs, DeleteRequest(j) \/ DeleteRows(j) PROVE Kept'
  <1>1. /\ UNCHANGED <<tjob, partial, ppc, pc, task, jobOf>> /\ rows' = rows
        /\ dpc[j] \in {"idle", "delete"}
        /\ \A i \in Jobs : i # j => status'[i] = status[i] /\ dpc'[i] = dpc[i]
        /\ \A t \in TaskIds : tjob[t] # j => tstat'[t] = tstat[t]
    BY TypesOfGood DEF DeleteRequest, DeleteRows, db, files, prep, acts, rows
  <1>2. \/ /\ dpc'[j] \in {"idle", "delete"} /\ status'[j] = status[j] /\ tstat' = tstat
           /\ ppc[j] = "idle" => dpc'[j] = "idle"
        \/ /\ dpc'[j] = "purge" /\ status'[j] = "none" /\ ppc[j] # "idle"
           /\ \A t \in TaskIds : tjob[t] = j => tstat'[t] = "gone"
    BY TypesOfGood DEF DeleteRequest, DeleteRows, db, Terminal, Good, Kept, DeletionInv
  <1>3. DeletionInv'
    BY <1>1, <1>2, HandsOfGood DEF Good, Kept, DeletionInv, HoldPcs
  <1>4. RowFacts'
    BY <1>1, <1>2, HandsOfGood DEF Good, Kept, RowFacts, HoldPcs
  <1>5. Unrepeated'
    BY <1>1 DEF Good, Kept, Unrepeated
  <1> QED BY <1>3, <1>4, <1>5 DEF Kept

LEMMA PurgeKeeps == ASSUME Good, NEW j \in Jobs, Purge(j) PROVE Kept'
  <1> USE DEF Purge, db, prep, acts
  <1>1. \A i \in Jobs : rows'[i] = IF i = j THEN {} ELSE rows[i]
    BY TypesOfGood, RowsOfLines DEF rows
  <1>2. /\ status[j] = "none"
        /\ \A t \in TaskIds : tstat[t] = "completed" => tjob[t] # j
        /\ \A w \in Workers : pc[w] = "completetask" /\ tstat[task[w]] # "gone" => jobOf[w] # j
    BY DEF Good, Kept, DeletionInv
  <1>3. DeletionInv'
    BY <1>2, TypesOfGood DEF Good, Kept, DeletionInv
  <1>4. RowFacts'
    <2>1. RowFacts
      BY DEF Good, Kept
    <2>2. UNCHANGED <<tjob, tstat, ppc, pc, task, jobOf>>
      OBVIOUS
    <2> HIDE DEF Purge
    <2>3. /\ \A i \in Jobs : ppc'[i] \in BeforeInsert => \A t \in TaskIds : tjob'[t] # i
          /\ \A i \in Jobs : ppc'[i] = "insert" => Leftover \notin rows'[i]
          /\ \A i \in Jobs, t \in TaskIds : tjob'[t] = i => Leftover \notin rows'[i]
          /\ \A i \in Jobs : \A l \in rows'[i] : l # Leftover => l \in TaskIds /\ tjob'[l] = i
      BY <1>1, <2>1, <2>2 DEF RowFacts
    <2>4. /\ \A w \in Workers : pc'[w] \in HoldPcs \ {"completetask"} => task'[w] \notin rows'[jobOf'[w]]
          /\ \A w \in Workers : pc'[w] = "completetask" /\ tstat'[task'[w]] # "gone" => task'[w] \in rows'[jobOf'[w]]
      BY <1>1, <1>2, <2>1, <2>2, HandsOfGood DEF RowFacts, HoldPcs
    <2>5. /\ \A t \in TaskIds : tstat'[t] = "completed" => t \in rows'[tjob'[t]]
          /\ \A t \in TaskIds : tstat'[t] \in {"pending", "failed"} => t \notin rows'[tjob'[t]]
      BY <1>1, <1>2, <2>1, <2>2, HandsOfGood DEF RowFacts
    <2> QED BY <2>3, <2>4, <2>5 DEF RowFacts
  <1>5. Unrepeated'
    BY TypesOfGood, RowsOfLines DEF Good, Kept, Unrepeated
  <1> QED BY <1>3, <1>4, <1>5 DEF Kept

-----------------------------------------------------------------------------
(* The other actions are of one of the three harmless kinds.               *)

LEMMA FinalizeIsQuiet == ASSUME Good, NEW a \in Actors, Finalize(a) PROVE Quiet
  <1> USE DEF Goto, Return, db, files, prep, acts
  <1>1. /\ UNCHANGED <<tjob, tstat, partial, ppc, dpc>>
        /\ \A b \in Actors : b # a => pc'[b] = pc[b] /\ task'[b] = task[b] /\ jobOf'[b] = jobOf[b]
        /\ pc'[a] \notin HoldPcs
    BY TypesOfGood
       DEF Finalize, CountPending, CountRunning, CountFailed, RefetchJob, ReadRows, FailJob,
           ErrorNote, OpenReport, WriteReport, CopyPartial, CompleteJob, SuccessNote, HoldPcs
  <1>2. \A j \in Jobs : status'[j] = "none" <=> status[j] = "none"
    BY TypesOfGood
       DEF Finalize, CountPending, CountRunning, CountFailed, RefetchJob, ReadRows, FailJob,
           ErrorNote, OpenReport, WriteReport, CopyPartial, CompleteJob, SuccessNote, SetStatus
  <1> QED BY <1>1, <1>2, TypesOfGood DEF Quiet

LEMMA ReadsAreQuiet ==
  ASSUME Good, NEW a \in Actors,
         \/ ActorAborts(a) \/ (a \in Readers /\ GetBreakdown(a))
         \/ (a \in Readers /\ \E j \in Jobs : GetJob(a, j))
         \/ (Load(a) /\ Return(a))
  PROVE  Quiet
  <1> USE DEF Goto, Return, db, files, prep, acts
  <1>1. /\ UNCHANGED <<status, tjob, tstat, partial, ppc, dpc>>
        /\ \A b \in Actors : b # a => pc'[b] = pc[b] /\ task'[b] = task[b] /\ jobOf'[b] = jobOf[b]
        /\ pc'[a] \notin HoldPcs
    BY TypesOfGood DEF ActorAborts, GetBreakdown, GetJob, Load, HoldPcs
  <1> QED BY <1>1, TypesOfGood DEF Quiet

LEMMA HandStepsMove ==
  ASSUME Good, NEW w \in Workers,
         (Load(w) /\ ~Return(w)) \/ FetchJob(w) \/ StartRunning(w) \/ Evaluate(w)
  PROVE  HandMoves(w)
  <1> USE DEF Goto, SetStatus, db, files, prep, acts
  <1>1. CASE Load(w) /\ ~Return(w)
    BY <1>1, TypesOfGood DEF Load, HandMoves, HoldPcs, Scoring
  <1>2. CASE FetchJob(w)
    BY <1>2, TypesOfGood DEF FetchJob, HandMoves, HoldPcs, Scoring
  <1>3. CASE StartRunning(w)
    BY <1>3, TypesOfGood DEF StartRunning, HandMoves, HoldPcs, Scoring
  <1>4. CASE Evaluate(w)
    BY <1>4, TypesOfGood DEF Evaluate, HandMoves, HoldPcs, Scoring
  <1> QED BY <1>1, <1>2, <1>3, <1>4

LEMMA PrepStepsMove ==
  ASSUME Good, NEW j \in Jobs,
         \/ Create(j) \/ NormalizeOk(j) \/ NormalizeFails(j) \/ PrepCheck(j) \/ Retrieve(j)
         \/ NoRowsFail(j) \/ NoRowsNote(j) \/ Publish(j) \/ InfoNote(j) \/ PrepAborts(j)
  PROVE  PrepMoves(j)
  <1> USE DEF PrepGoto, SetStatus, db, files, acts, PrepMoves, PrepPcs, BeforeInsert
  <1>1. CASE Create(j)
    BY <1>1, TypesOfGood DEF Create
  <1>2. CASE NormalizeOk(j) \/ NormalizeFails(j)
    BY <1>2, TypesOfGood DEF NormalizeOk, NormalizeFails
  <1>3. CASE PrepCheck(j) \/ Retrieve(j)
    BY <1>3, TypesOfGood DEF PrepCheck, Retrieve
  <1>4. CASE NoRowsFail(j) \/ NoRowsNote(j)
    BY <1>4, TypesOfGood DEF NoRowsFail, NoRowsNote, AddNotification
  <1>5. CASE Publish(j) \/ InfoNote(j)
    BY <1>5, TypesOfGood DEF Publish, InfoNote, AddNotification
  <1>6. CASE PrepAborts(j)
    <2>1. ppc[j] # "idle" /\ ppc' = [ppc EXCEPT ![j] = "dead"] /\ "dead" \in PrepPcs \ {"idle", "insert"}
      BY <1>6 DEF PrepAborts
    <2>2. UNCHANGED <<status, tjob, tstat, partial, pc, task, jobOf, dpc>>
      BY <1>6 DEF PrepAborts
    <2> QED BY <2>1, <2>2
  <1> QED BY <1>1, <1>2, <1>3, <1>4, <1>5, <1>6

LEMMA RowsNext == RowsInv /\ [Next]_vars => RowsInv'
  <1> SUFFICES ASSUME RowsInv, [Next]_vars PROVE RowsInv'
    OBVIOUS
  <1>1. Good /\ ClaimInv'
    BY RowsInvGives, ClaimNext DEF Good, Kept
  <1>2. ASSUME NEW j \in Jobs,
               Create(j) \/ DeleteRequest(j) \/ PrepStep(j) \/ DeleteStep(j) \/ PrepAborts(j)
        PROVE  Kept'
    BY <1>1, <1>2, PrepStepsMove, PrepMovesKeeps, UnlinkKeeps, InsertKeeps, DeleteKeeps, PurgeKeeps
       DEF PrepStep, DeleteStep
  <1>3. ASSUME NEW w \in Workers, WorkerStep(w) PROVE Kept'
    <2>1. w \in Actors
      BY DEF Actors
    <2> QED BY <1>1, <1>3, <2>1, FinalizeIsQuiet, ReadsAreQuiet, QuietKeeps, HandStepsMove,
               HandMovesKeeps, ClaimKeeps, AppendKeeps, EndTaskKeeps
            DEF WorkerStep, WorkerOwn
  <1>4. ASSUME NEW r \in Readers, ReaderStep(r) \/ \E j \in Jobs : GetJob(r, j) PROVE Kept'
    BY <1>1, <1>4, FinalizeIsQuiet, ReadsAreQuiet, QuietKeeps DEF ReaderStep, Actors
  <1>5. ASSUME NEW a \in Actors, ActorAborts(a) PROVE Kept'
    BY <1>1, <1>5, ReadsAreQuiet, QuietKeeps
  <1>6. ASSUME UNCHANGED vars PROVE Kept'
    <2>1. Quiet
      BY <1>6 DEF vars, db, files, prep, acts, Quiet
    <2> QED BY <1>1, <2>1, QuietKeeps
  <1>7. Kept'
    BY <1>2, <1>3, <1>4, <1>5, <1>6 DEF Next, Request, Handle, Fault
  <1> QED BY <1>1, <1>7, RowsInvFrom DEF Kept

\* Whatever the numbers of jobs, threads, readers and tasks, and wherever a thread or
\* the process dies, a completed task has its one line in partial.jsonl and a pending
\* or failed one has none (_run_llm_score, complete_task, fail_task, delete_job and
\* the unlink of the preparer, in any interleaving).
THEOREM RowsAreTasks == Spec => []RowsMatchTasks
  <1>1. RowsInv => RowsMatchTasks
    BY DEF RowsInv
  <1> QED BY <1>1, RowsInit, RowsNext, PTL DEF Spec

=============================================================================
