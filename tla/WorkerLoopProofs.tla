--------------------------- MODULE WorkerLoopProofs ---------------------------
(* Theorems about WorkerLoop, for any width, limits and bounds.             *)
EXTENDS WorkerLoop, FiniteSetTheorems, TLAPS

\* Where the loop is tells which mode it runs in, and whether it was told to stop;
\* a process of --once is never told, since it has no handler for signals.
ModeInv ==
  /\ once => ~stop
  /\ pc \in {"fill", "submit", "wait"} => Pooled /\ ~once
  /\ pc \in {"head", "sleep", "drain"} => ~once
  /\ pc \in {"round", "wave", "killed"} => once
  /\ pc \in {"tick", "ticktask"} => ~Pooled \/ once
  /\ pc = "drain" => stop
  /\ pc = "exited" => stop \/ once

\* Threads are at work only while the pool exists: between fill and the end of drain
\* in the loop, during a wave of --once.
PoolInv ==
  \A s \in Slots : slot[s] # "free" =>
    /\ Pooled /\ s \in Used
    /\ IF once THEN pc = "wave" ELSE pc \in {"head", "fill", "submit", "wait", "legacy", "legacyrun", "sleep", "drain"}

\* Nothing is taken that has not arrived, and before a process is killed each stranded
\* task has an exception of its own.
CountInv ==
  /\ pending <= arrived.task /\ legacy <= arrived.job
  /\ pc # "killed" => stranded <= arrived.fault

\* Before the signal nothing is late.  A future that has not claimed yet belongs to a slot
\* that has taken nothing since the signal, and so does the place that the loop is about
\* to fill; the loop gets to a task-less job once, from a place where it has begun none.
LateInv ==
  /\ \A s \in Slots : lateTasks[s] \in {0, 1}
  /\ lateJobs \in {0, 1}
  /\ ~stop => lateJobs = 0 /\ \A s \in Slots : lateTasks[s] = 0
  /\ \A s \in Slots : slot[s] = "submitted" => lateTasks[s] = 0
  /\ pc = "submit" => \A s \in Slots : slot[s] = "free" => lateTasks[s] = 0
  /\ pc = "tick" => \A s \in Slots : lateTasks[s] = 0
  /\ pc \in {"fill", "submit", "wait", "tick", "legacy"} => lateJobs = 0

Inv == TypeOK /\ ModeInv /\ PoolInv /\ CountInv /\ LateInv

LEMMA ClampFacts == \A n \in Widths : Clamp(n) \in 1..MaxWidth
  BY WidthsAssumption DEF Clamp

LEMMA InvInit == Init => Inv
  <1> SUFFICES ASSUME Init PROVE Inv
    OBVIOUS
  <1>1. width \in 1..MaxWidth
    BY ClampFacts DEF Init
  <1>2. TypeOK
    <2>1. arrived \in [task : 0..MaxTasks, job : 0..MaxLegacy, fault : 0..MaxFaults]
      BY LimitsAssumption DEF Init
    <2>2. pending \in 0..MaxTasks /\ legacy \in 0..MaxLegacy /\ stranded \in 0..(MaxFaults + MaxWidth) /\ round \in 0..MaxJobs
      BY WidthsAssumption, LimitsAssumption DEF Init
    <2> QED BY <1>1, <2>1, <2>2 DEF Init, TypeOK, Ended
  <1>3. ModeInv /\ PoolInv /\ CountInv /\ LateInv
    BY DEF Init, ModeInv, PoolInv, CountInv, LateInv
  <1> QED BY <1>2, <1>3 DEF Inv

LEMMA HandsCounted ==
  Inv => /\ Cardinality(InHand) \in 0..MaxWidth
         /\ pc = "ticktask" => Cardinality(InHand) = 0
  <1> SUFFICES ASSUME Inv
               PROVE  /\ Cardinality(InHand) \in 0..MaxWidth
                      /\ pc = "ticktask" => Cardinality(InHand) = 0
    OBVIOUS
  <1>1. IsFiniteSet(1..MaxWidth) /\ Cardinality(1..MaxWidth) = MaxWidth
    BY FS_Interval, WidthsAssumption
  <1>2. InHand \in SUBSET (1..MaxWidth)
    BY WidthsAssumption DEF Inv, TypeOK, InHand, Used
  <1>3. IsFiniteSet(InHand) /\ Cardinality(InHand) <= MaxWidth
    BY <1>1, <1>2, FS_Subset
  <1>4. Cardinality(InHand) \in Nat
    BY <1>3, FS_CardinalityType
  <1>5. ASSUME pc = "ticktask" PROVE InHand = {}
    BY <1>2, <1>5 DEF Inv, PoolInv, InHand, Slots
  <1> QED BY <1>3, <1>4, <1>5, FS_EmptySet, WidthsAssumption

LEMMA TypeNext == Inv /\ [Next]_vars => TypeOK'
  <1> SUFFICES ASSUME Inv, [Next]_vars PROVE TypeOK'
    OBVIOUS
  <1> USE WidthsAssumption, LimitsAssumption DEF Inv, TypeOK, LoopGoto, TakeTask, env, args, hist, late, Used, Top, Ended, CountInv
  <1>1. CASE TaskArrives
    BY <1>1 DEF TaskArrives
  <1>2. CASE JobArrives
    BY <1>2 DEF JobArrives
  <1>3. CASE Signal
    BY <1>3 DEF Signal
  <1>4. CASE Killed
    <2>1. stranded' \in 0..(MaxFaults + MaxWidth)
      <3>1. /\ stranded \in 0..MaxFaults
            /\ stranded' = stranded + Cardinality(InHand) + (IF pc = "ticktask" THEN 1 ELSE 0)
        BY <1>4 DEF Killed
      <3>2. Cardinality(InHand) \in 0..MaxWidth /\ (pc = "ticktask" => Cardinality(InHand) = 0)
        BY HandsCounted
      <3> QED BY <3>1, <3>2
    <2> QED BY <1>4, <2>1 DEF Killed
  <1>5. CASE LoopHead
    BY <1>5 DEF LoopHead
  <1>6. CASE FillHead
    BY <1>6 DEF FillHead
  <1>7. CASE Submit
    BY <1>7 DEF Submit
  <1>8. CASE WaitTimesOut
    BY <1>8 DEF WaitTimesOut
  <1>9. CASE Collect
    BY <1>9 DEF Collect
  <1>10. CASE LegacyClaim
    BY <1>10 DEF LegacyClaim
  <1>11. CASE LegacyRun
    BY <1>11 DEF LegacyRun
  <1>12. CASE Sleep
    BY <1>12 DEF Sleep
  <1>13. CASE Drain
    BY <1>13 DEF Drain
  <1>14. CASE Tick
    <2>1. 1 \in Slots
      BY DEF Slots
    <2>2. lateTasks' \in [Slots -> Nat]
      BY <1>14, <2>1 DEF Tick
    <2> QED BY <1>14, <2>2 DEF Tick
  <1>15. CASE TickTask
    BY <1>15 DEF TickTask
  <1>16. CASE Round
    BY <1>16 DEF Round
  <1>17. CASE WaveEnds
    BY <1>17 DEF WaveEnds
  <1>18. CASE TickRaises
    BY <1>18 DEF TickRaises
  <1>19. CASE LegacyRaises
    BY <1>19 DEF LegacyRaises
  <1>20. ASSUME NEW s \in Slots, TryClaim(s) PROVE TypeOK'
    BY <1>20 DEF TryClaim
  <1>21. ASSUME NEW s \in Slots, EndTask(s) PROVE TypeOK'
    BY <1>21 DEF EndTask
  <1>22. ASSUME NEW s \in Slots, Raise(s) PROVE TypeOK'
    <2>1. pc # "killed"
      BY <1>22 DEF Raise, PoolInv
    <2>2. stranded' \in 0..(MaxFaults + MaxWidth)
      BY <1>22, <2>1 DEF Raise
    <2> QED BY <1>22, <2>2 DEF Raise
  <1>23. CASE UNCHANGED vars
    BY <1>23 DEF vars
  <1> QED BY <1>1, <1>2, <1>3, <1>4, <1>5, <1>6, <1>7, <1>8, <1>9, <1>10, <1>11, <1>12, <1>13, <1>14, <1>15, <1>16, <1>17, <1>18, <1>19, <1>20, <1>21, <1>22, <1>23 DEF Next, Loop, Thread

LEMMA ModeNext == Inv /\ [Next]_vars => ModeInv'
  <1> SUFFICES ASSUME Inv, [Next]_vars PROVE ModeInv'
    OBVIOUS
  <1> USE DEF Inv, TypeOK, LoopGoto, TakeTask, env, args, hist, late, Used, Top, Ended, ModeInv, PoolInv, Pooled
  <1>1. CASE TaskArrives
    BY <1>1 DEF TaskArrives
  <1>2. CASE JobArrives
    BY <1>2 DEF JobArrives
  <1>3. CASE Signal
    BY <1>3 DEF Signal
  <1>4. CASE Killed
    BY <1>4 DEF Killed
  <1>5. CASE LoopHead
    BY <1>5 DEF LoopHead
  <1>6. CASE FillHead
    BY <1>6 DEF FillHead
  <1>7. CASE Submit
    BY <1>7 DEF Submit
  <1>8. CASE WaitTimesOut
    BY <1>8 DEF WaitTimesOut
  <1>9. CASE Collect
    BY <1>9 DEF Collect
  <1>10. CASE LegacyClaim
    BY <1>10 DEF LegacyClaim
  <1>11. CASE LegacyRun
    BY <1>11 DEF LegacyRun
  <1>12. CASE Sleep
    BY <1>12 DEF Sleep
  <1>13. CASE Drain
    BY <1>13 DEF Drain
  <1>14. CASE Tick
    BY <1>14 DEF Tick
  <1>15. CASE TickTask
    BY <1>15 DEF TickTask
  <1>16. CASE Round
    BY <1>16 DEF Round
  <1>17. CASE WaveEnds
    BY <1>17 DEF WaveEnds
  <1>18. CASE TickRaises
    BY <1>18 DEF TickRaises
  <1>19. CASE LegacyRaises
    BY <1>19 DEF LegacyRaises
  <1>20. ASSUME NEW s \in Slots, TryClaim(s) PROVE ModeInv'
    BY <1>20 DEF TryClaim
  <1>21. ASSUME NEW s \in Slots, EndTask(s) PROVE ModeInv'
    BY <1>21 DEF EndTask
  <1>22. ASSUME NEW s \in Slots, Raise(s) PROVE ModeInv'
    BY <1>22 DEF Raise
  <1>23. CASE UNCHANGED vars
    BY <1>23 DEF vars
  <1> QED BY <1>1, <1>2, <1>3, <1>4, <1>5, <1>6, <1>7, <1>8, <1>9, <1>10, <1>11, <1>12, <1>13, <1>14, <1>15, <1>16, <1>17, <1>18, <1>19, <1>20, <1>21, <1>22, <1>23 DEF Next, Loop, Thread

LEMMA PoolNext == Inv /\ [Next]_vars => PoolInv'
  <1> SUFFICES ASSUME Inv, [Next]_vars PROVE PoolInv'
    OBVIOUS
  <1> USE DEF Inv, TypeOK, LoopGoto, TakeTask, env, args, hist, late, Used, Top, Ended, ModeInv, PoolInv, Pooled, Done
  <1>1. CASE TaskArrives
    BY <1>1 DEF TaskArrives
  <1>2. CASE JobArrives
    BY <1>2 DEF JobArrives
  <1>3. CASE Signal
    BY <1>3 DEF Signal
  <1>4. CASE Killed
    BY <1>4 DEF Killed
  <1>5. CASE LoopHead
    BY <1>5 DEF LoopHead
  <1>6. CASE FillHead
    BY <1>6 DEF FillHead
  <1>7. CASE Submit
    BY <1>7 DEF Submit
  <1>8. CASE WaitTimesOut
    BY <1>8 DEF WaitTimesOut
  <1>9. CASE Collect
    BY <1>9 DEF Collect
  <1>10. CASE LegacyClaim
    BY <1>10 DEF LegacyClaim
  <1>11. CASE LegacyRun
    BY <1>11 DEF LegacyRun
  <1>12. CASE Sleep
    BY <1>12 DEF Sleep
  <1>13. CASE Drain
    BY <1>13 DEF Drain
  <1>14. CASE Tick
    BY <1>14 DEF Tick
  <1>15. CASE TickTask
    BY <1>15 DEF TickTask
  <1>16. CASE Round
    BY <1>16 DEF Round
  <1>17. CASE WaveEnds
    BY <1>17 DEF WaveEnds
  <1>18. CASE TickRaises
    BY <1>18 DEF TickRaises
  <1>19. CASE LegacyRaises
    BY <1>19 DEF LegacyRaises
  <1>20. ASSUME NEW s \in Slots, TryClaim(s) PROVE PoolInv'
    BY <1>20 DEF TryClaim
  <1>21. ASSUME NEW s \in Slots, EndTask(s) PROVE PoolInv'
    BY <1>21 DEF EndTask
  <1>22. ASSUME NEW s \in Slots, Raise(s) PROVE PoolInv'
    BY <1>22 DEF Raise
  <1>23. CASE UNCHANGED vars
    BY <1>23 DEF vars
  <1> QED BY <1>1, <1>2, <1>3, <1>4, <1>5, <1>6, <1>7, <1>8, <1>9, <1>10, <1>11, <1>12, <1>13, <1>14, <1>15, <1>16, <1>17, <1>18, <1>19, <1>20, <1>21, <1>22, <1>23 DEF Next, Loop, Thread

LEMMA CountNext == Inv /\ [Next]_vars => CountInv'
  <1> SUFFICES ASSUME Inv, [Next]_vars PROVE CountInv'
    OBVIOUS
  <1> USE DEF Inv, TypeOK, LoopGoto, TakeTask, env, args, hist, late, Used, Top, Ended, CountInv
  <1>1. CASE TaskArrives
    BY <1>1 DEF TaskArrives
  <1>2. CASE JobArrives
    BY <1>2 DEF JobArrives
  <1>3. CASE Signal
    BY <1>3 DEF Signal
  <1>4. CASE Killed
    BY <1>4 DEF Killed
  <1>5. CASE LoopHead
    BY <1>5 DEF LoopHead
  <1>6. CASE FillHead
    BY <1>6 DEF FillHead
  <1>7. CASE Submit
    BY <1>7 DEF Submit
  <1>8. CASE WaitTimesOut
    BY <1>8 DEF WaitTimesOut
  <1>9. CASE Collect
    BY <1>9 DEF Collect
  <1>10. CASE LegacyClaim
    BY <1>10 DEF LegacyClaim
  <1>11. CASE LegacyRun
    BY <1>11 DEF LegacyRun
  <1>12. CASE Sleep
    BY <1>12 DEF Sleep
  <1>13. CASE Drain
    BY <1>13 DEF Drain
  <1>14. CASE Tick
    BY <1>14 DEF Tick
  <1>15. CASE TickTask
    BY <1>15 DEF TickTask
  <1>16. CASE Round
    BY <1>16 DEF Round
  <1>17. CASE WaveEnds
    BY <1>17 DEF WaveEnds
  <1>18. CASE TickRaises
    BY <1>18 DEF TickRaises
  <1>19. CASE LegacyRaises
    BY <1>19 DEF LegacyRaises
  <1>20. ASSUME NEW s \in Slots, TryClaim(s) PROVE CountInv'
    BY <1>20 DEF TryClaim
  <1>21. ASSUME NEW s \in Slots, EndTask(s) PROVE CountInv'
    BY <1>21 DEF EndTask
  <1>22. ASSUME NEW s \in Slots, Raise(s) PROVE CountInv'
    BY <1>22 DEF Raise
  <1>23. CASE UNCHANGED vars
    BY <1>23 DEF vars
  <1> QED BY <1>1, <1>2, <1>3, <1>4, <1>5, <1>6, <1>7, <1>8, <1>9, <1>10, <1>11, <1>12, <1>13, <1>14, <1>15, <1>16, <1>17, <1>18, <1>19, <1>20, <1>21, <1>22, <1>23 DEF Next, Loop, Thread

LEMMA LateNext == Inv /\ [Next]_vars => LateInv'
  <1> SUFFICES ASSUME Inv, [Next]_vars PROVE LateInv'
    OBVIOUS
  <1> USE WidthsAssumption DEF Inv, TypeOK, Slots, LoopGoto, TakeTask, env, args, hist, late, Used, Top, Ended, ModeInv, PoolInv, LateInv
  <1>1. CASE TaskArrives
    BY <1>1 DEF TaskArrives
  <1>2. CASE JobArrives
    BY <1>2 DEF JobArrives
  <1>3. CASE Signal
    BY <1>3 DEF Signal
  <1>4. CASE Killed
    BY <1>4 DEF Killed
  <1>5. CASE LoopHead
    BY <1>5 DEF LoopHead
  <1>6. CASE FillHead
    BY <1>6 DEF FillHead
  <1>7. CASE Submit
    BY <1>7 DEF Submit
  <1>8. CASE WaitTimesOut
    BY <1>8 DEF WaitTimesOut
  <1>9. CASE Collect
    BY <1>9 DEF Collect
  <1>10. CASE LegacyClaim
    BY <1>10 DEF LegacyClaim
  <1>11. CASE LegacyRun
    BY <1>11 DEF LegacyRun
  <1>12. CASE Sleep
    BY <1>12 DEF Sleep
  <1>13. CASE Drain
    BY <1>13 DEF Drain
  <1>14. CASE Tick
    BY <1>14 DEF Tick
  <1>15. CASE TickTask
    BY <1>15 DEF TickTask
  <1>16. CASE Round
    BY <1>16 DEF Round
  <1>17. CASE WaveEnds
    BY <1>17 DEF WaveEnds
  <1>18. CASE TickRaises
    BY <1>18 DEF TickRaises
  <1>19. CASE LegacyRaises
    BY <1>19 DEF LegacyRaises
  <1>20. ASSUME NEW s \in Slots, TryClaim(s) PROVE LateInv'
    BY <1>20 DEF TryClaim
  <1>21. ASSUME NEW s \in Slots, EndTask(s) PROVE LateInv'
    BY <1>21 DEF EndTask
  <1>22. ASSUME NEW s \in Slots, Raise(s) PROVE LateInv'
    BY <1>22 DEF Raise
  <1>23. CASE UNCHANGED vars
    BY <1>23 DEF vars
  <1> QED BY <1>1, <1>2, <1>3, <1>4, <1>5, <1>6, <1>7, <1>8, <1>9, <1>10, <1>11, <1>12, <1>13, <1>14, <1>15, <1>16, <1>17, <1>18, <1>19, <1>20, <1>21, <1>22, <1>23 DEF Next, Loop, Thread

LEMMA InvNext == Inv /\ [Next]_vars => Inv'
  BY TypeNext, ModeNext, PoolNext, CountNext, LateNext DEF Inv

\* Every variable keeps its type: the slots beyond the width stay free, and as many tasks
\* at most are stranded as exceptions escaped, and threads there were when it was killed.
THEOREM LoopTypeCorrect == Spec => []TypeOK
  <1>1. Inv => TypeOK
    BY DEF Inv
  <1> QED BY <1>1, InvInit, InvNext, PTL DEF Spec

\* Whenever the process has ended of itself, it was told to or ran --once, and each
\* thread of the pool has handed in what it held (run_worker_loop's drain, for any
\* width, wherever SIGTERM found the loop, and whatever exceptions escaped).
THEOREM DrainIsComplete == Spec => []DrainsBeforeExit
  <1>1. Inv => DrainsBeforeExit
    <2> SUFFICES ASSUME Inv, pc = "exited"
                 PROVE  (stop \/ once) /\ InHand = {} /\ \A s \in Slots : slot[s] = "free"
      BY DEF DrainsBeforeExit
    <2>1. \A s \in Slots : slot[s] = "free"
      BY DEF Inv, PoolInv
    <2>2. Used \subseteq Slots
      BY WidthsAssumption DEF Inv, TypeOK, Used, Slots
    <2> QED BY <2>1, <2>2 DEF Inv, ModeInv, InHand
  <1> QED BY <1>1, InvInit, InvNext, PTL DEF Spec

\* After the signal each thread of the pool takes one further task at most, and the loop
\* begins one further task-less job at most, for any width and wherever the signal found
\* the loop, also between the test of the event and the submit that follows it.
THEOREM StopBoundsWork == Spec => []StopBoundsTheWork
  <1>1. Inv => StopBoundsTheWork
    BY DEF Inv, LateInv, StopBoundsTheWork
  <1> QED BY <1>1, InvInit, InvNext, PTL DEF Spec

=============================================================================
