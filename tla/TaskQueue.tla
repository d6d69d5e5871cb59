------------------------------- MODULE TaskQueue -------------------------------
(***************************************************************************)
(* What the job_tasks table promises to the threads of the worker, and the *)
(* jobs table to the worker processes: tasks are offered in the order of   *)
(* their ids, each is handed to one worker, in that order, and never       *)
(* offered again; it ends once, by the hand of the worker that holds it; a *)
(* worker may let go of it without ending it; and it may be taken off the  *)
(* queue at any moment, even in a worker's hands.                          *)
(***************************************************************************)
EXTENDS Naturals

CONSTANTS Workers, MaxTasks

VARIABLES state, holds
vars == <<state, holds>>

TaskIds == 1..MaxTasks
NoTask  == 0

Init ==
  /\ state = [t \in TaskIds |-> "unborn"]
  /\ holds = [w \in Workers |-> NoTask]

Offer(t) ==
  /\ state[t] = "unborn"
  /\ \A u \in TaskIds : u < t => state[u] # "unborn"
  /\ state' = [state EXCEPT ![t] = "pending"]
  /\ UNCHANGED holds

Take(w, t) ==
  /\ holds[w] = NoTask
  /\ state[t] = "pending"
  /\ \A u \in TaskIds : u < t => state[u] # "pending"
  /\ state' = [state EXCEPT ![t] = "running"]
  /\ holds' = [holds EXCEPT ![w] = t]

End(w, t) ==
  /\ holds[w] = t
  /\ state[t] = "running"
  /\ \E s \in {"completed", "failed"} : state' = [state EXCEPT ![t] = s]
  /\ holds' = [holds EXCEPT ![w] = NoTask]

\* The worker died, or found that the row had been deleted under it; the task may be
\* lost with it.
LetGo(w) ==
  /\ holds[w] # NoTask
  /\ holds' = [holds EXCEPT ![w] = NoTask]
  /\ state' \in {state, [state EXCEPT ![holds[w]] = "gone"]}

Remove(T) ==
  /\ state' = [t \in TaskIds |-> IF t \in T THEN "gone" ELSE state[t]]
  /\ \A t \in T : state[t] # "unborn"
  /\ UNCHANGED holds

Next ==
  \/ \E t \in TaskIds : Offer(t)
  \/ \E w \in Workers : LetGo(w) \/ \E t \in TaskIds : Take(w, t) \/ End(w, t)
  \/ \E T \in SUBSET TaskIds : Remove(T)

Spec == Init /\ [][Next]_vars
=============================================================================
