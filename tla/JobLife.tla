-------------------------------- MODULE JobLife --------------------------------
(***************************************************************************)
(* What a job with tasks promises to whoever looks at the tables: it is    *)
(* preparing, then offered together with its tasks; when the last of them  *)
(* has ended it is closed, in one step, with the verdict they justify, and *)
(* its result is there; only then is it announced, as what it is; and a    *)
(* closed job only disappears, with all of its tasks.                      *)
(*                                                                         *)
(* Two ways of falling short are part of the promise.  A job whose tasks   *)
(* were counted before they were all enrolled is "overtaken": nothing more *)
(* is said of its verdict.  Of a job that was removed, a handler that is   *)
(* late may bring back the result or an announcement.                      *)
(***************************************************************************)
EXTENDS Naturals

CONSTANTS Jobs, MaxTasks, NoJob

VARIABLES
  phase,      \* where each job is
  enrolling,  \* jobs whose tasks may still be added
  owner,      \* the job of each task
  state,      \* what became of each task
  results,    \* jobs whose result can be read
  told        \* the verdicts each job was announced with
vars == <<phase, enrolling, owner, state, results, told>>

TaskIds  == 1..MaxTasks
Open     == {"preparing", "offered"}
Verdicts == {"completed", "failed"}
News(v)  == IF v = "completed" THEN "success" ELSE "error"

Tasks(j)  == {t \in TaskIds : owner[t] = j}
Scored(j) == \E t \in Tasks(j) : state[t] = "completed"

Init ==
  /\ phase = [j \in Jobs |-> "absent"]
  /\ enrolling = {}
  /\ owner = [t \in TaskIds |-> NoJob]
  /\ state = [t \in TaskIds |-> "unborn"]
  /\ results = {}
  /\ told = [j \in Jobs |-> {}]

Post(j) ==
  /\ phase[j] = "absent"
  /\ phase' = [phase EXCEPT ![j] = "preparing"]
  /\ enrolling' = enrolling \cup {j}
  /\ UNCHANGED <<owner, state, results, told>>

\* A task is added and may be taken at once, even before its job is offered.
Enrol(j, t) ==
  /\ j \in enrolling /\ phase[j] \in Open \cup {"overtaken"}
  /\ state[t] = "unborn"
  /\ owner' = [owner EXCEPT ![t] = j]
  /\ state' = [state EXCEPT ![t] = "pending"]
  /\ enrolling' \in {enrolling, enrolling \ {j}}
  /\ UNCHANGED <<phase, results, told>>

StopEnrolling(j) ==
  /\ j \in enrolling
  /\ enrolling' = enrolling \ {j}
  /\ UNCHANGED <<phase, owner, state, results, told>>

Offer(j) ==
  /\ phase[j] = "preparing" /\ Tasks(j) # {}
  /\ phase' = [phase EXCEPT ![j] = "offered"]
  /\ UNCHANGED <<enrolling, owner, state, results, told>>

\* No task of a closed job is ever taken or ended.
Move(t, from, to) ==
  /\ owner[t] \in Jobs /\ phase[owner[t]] \in Open \cup {"overtaken"}
  /\ state[t] = from
  /\ state' = [state EXCEPT ![t] = to]
  /\ UNCHANGED <<phase, enrolling, owner, results, told>>

Take(t)   == Move(t, "pending", "running")
End(t, v) == Move(t, "running", v)

\* The one step for which a thread, a second one and a reader of the job may all be at
\* work.  Before its first task a job may be closed at any time.
Close(j) ==
  /\ phase[j] \in Open
  /\ \A t \in Tasks(j) : state[t] \in Verdicts
  /\ j \notin enrolling \/ Tasks(j) = {}
  /\ enrolling' = enrolling \ {j}
  /\ IF Scored(j) THEN phase' = [phase EXCEPT ![j] = "completed"] /\ results' = results \cup {j}
                  ELSE phase' = [phase EXCEPT ![j] = "failed"]    /\ UNCHANGED results
  /\ UNCHANGED <<owner, state, told>>

Announce(j) ==
  /\ phase[j] \in Verdicts
  /\ told' = [told EXCEPT ![j] = @ \cup {News(phase[j])}]
  /\ UNCHANGED <<phase, enrolling, owner, state, results>>

Remove(j) ==
  /\ phase[j] \in Verdicts \cup {"overtaken"}
  /\ phase' = [phase EXCEPT ![j] = IF @ = "overtaken" THEN @ ELSE "removed"]
  /\ state' = [t \in TaskIds |-> IF owner[t] = j THEN "gone" ELSE state[t]]
  /\ results' = results \ {j}
  /\ told' = [told EXCEPT ![j] = {}]
  /\ UNCHANGED <<enrolling, owner>>

Overtake(j) ==
  /\ phase[j] \in Open /\ j \in enrolling
  /\ Tasks(j) # {} /\ \A t \in Tasks(j) : state[t] # "pending"
  /\ phase' = [phase EXCEPT ![j] = "overtaken"]
  /\ UNCHANGED <<enrolling, owner, state, results, told>>

Late(j) ==
  /\ phase[j] \in {"overtaken", "removed"}
  /\ \/ results' = results \cup {j} /\ UNCHANGED told
     \/ \E v \in Verdicts : told' = [told EXCEPT ![j] = @ \cup {News(v)}] /\ UNCHANGED results
  /\ UNCHANGED <<phase, enrolling, owner, state>>

Next ==
  \/ \E j \in Jobs : \/ Post(j) \/ StopEnrolling(j) \/ Offer(j) \/ Close(j) \/ Announce(j) \/ Remove(j)
                     \/ Overtake(j) \/ Late(j) \/ \E t \in TaskIds : Enrol(j, t)
  \/ \E t \in TaskIds : Take(t) \/ \E v \in Verdicts : End(t, v)

Spec == Init /\ [][Next]_vars
=============================================================================
