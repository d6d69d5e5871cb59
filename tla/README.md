# A verification development of Nemotron-AB

Nemotron-AB asks synthetic personas, through an LLM, which of two campaign drafts they
prefer. A FastAPI process takes jobs, a worker process scores one persona per task with a
pool of threads, a Next.js front end shows jobs, reports and notifications, and all of them
meet in one SQL database and one directory of files (`outputs/jobs/job_<id>`). There is no
broker and no lock service: what keeps the parts apart is single SQL statements, the order
in which statements and file operations are issued, and counts taken before a verdict.
That is what this project models, checks with TLC and, as far as safety goes, proves with TLAPS.

Paths below are relative to the repository's root.

## 1. Inventory

| component | state | operations | how it interacts | what is hard |
|---|---|---|---|---|
| job queue: `nemotron_ab/db.py`, `nemotron_ab/job_tasks_worker.py`, `backend/routers/jobs.py`, `backend/services/job_enqueue.py` | tables `jobs`, `job_tasks`, `job_results`, `notifications`; `partial.jsonl`, `result/*.report.json` | POST, clone, GET, DELETE of a job; enrolment in a background thread; claim, score, complete, fail of a task; finalize | API handlers, preparer threads and worker threads each on a connection of their own; every helper commits by itself | two finalizers; a finalizer that counts while tasks are still enrolled or claimed; rows read before and used after another commit; DELETE under a running handler; death between claim and end, between file and row |
| worker process: `nemotron_ab/queue_worker.py`, `worker_main.py` | the futures in flight, `stop_event` | fill the pool, wait, collect, fall back to a subprocess job, sleep, drain | calls the job queue; SIGTERM and SIGINT | starvation of either kind of work, a pool that shrinks, the order of the checks of `stop_event` |
| subprocess jobs: `queue_worker.process_one_job`, `services/validator_runner.py`, `scripts/ab_validator.py` | `jobs` without tasks | guarded claim, subprocess, close, notify | POST makes the job pending before its images are stored | a double claim, exceptions after the commit of `complete_job`, a transaction left open on the one connection of a worker, a late rejection |
| notifications: `backend/routers/notifications.py`, `frontend/components/BrowserNotification*.tsx`, `frontend/lib/browser-notifications.ts` | table `notifications`; `localStorage`; a request in flight | poll, show, enable with a baseline, disable, mark read | HTTP between tab and server, `localStorage` across reloads | answers delivered after the state they were asked in has changed; bursts larger than an answer |
| bell and notification page: `frontend/components/TopBar.tsx`, `frontend/app/notifications/page.tsx` | the unread count | refresh on events and intervals | HTTP | answers out of order |
| report synthesis: `nemotron_ab/report_synthesis.py`, `llm_usage.py` | `report.json`, `report.md`, `job_results.summary_json` | read, LLM call, write back to four places | concurrent requests, late finalizers, DELETE | lost update across a long call, report and summary of different calls, two writers of one file |
| images: `nemotron_ab/campaign_assets.py` | `outputs/staging`, `job_<id>/assets` | stage, validate, promote (move), read, purge | payloads carry paths; clones share them | one upload named by two requests or by both arms, partial moves, paths into the directory of a deleted job |
| scoring: `scripts/ab_validator.py`, `nemotron_ab/key_reasons.py` | the rows of a batch, `partial.jsonl`, the report | sampling, a batch in a pool with retries, weighted sums, aggregation, winner, quotes | run as a child of `run_validator`; its functions are called by tasks and finalizers | threads that end out of order, malformed answers, ties, empty buckets, rounding, a child that dies |
| retrieval: `nemotron_ab/persona_retrieval.py`, `persona_where.py`, `chroma_langchain.py` | the vector index (read only) | clamp, query per bucket or a single one, post filter, shuffle, round robin, paged scan | called by the preparer and by `run_validator` | buckets of unequal size, a filter applied after the limit, the end of the scan |
| LLM evaluation: `nemotron_ab/langchain_eval.py`, `llm_provider.py`, `prompt_profile.py` | none | prompt, call, parse, retry | remote LLM | malformed answers, retries |
| progress and validation: `backend/services/job_progress.py`, `job_validation.py`, ... | none | functions of counts and requests | GET | zero counts |
| database engines: `nemotron_ab/db_engine.py`, `config.py`, `backend/deps.py` | connections | choose SQLite or PostgreSQL | every process chooses by itself | two processes that choose differently |
| pages, demo mode, scripts, shell | views of the above | fetch, poll, render | HTTP | late answers |

What makes each correct:

* *job queue*: a task is scored by one thread; the lines of `partial.jsonl` and the rows of
  `job_tasks` agree; a job is closed once all of its tasks have ended, with the verdict they
  justify, and then left alone; a deleted job leaves nothing behind; without deaths every job
  is closed and its completion announced.
* *worker*: neither kind of work starves, nothing is abandoned on a stop, a stop bounds what is still begun and ends it.
* *subprocess jobs*: a job is run once, announced as what it is, and comes to rest.
* *notifications*: each new one is shown, once, and only what is new.
* *synthesis*: a synthesis stands beside the aggregation it is about, nothing announces one that was never written, and
  a report stays readable.
* *images*: each arm of a job shows what was uploaded for it, and no upload is lost or in two places.
* *scoring*: every persona that was retrieved is counted once, the winner and the quotes follow from the counted rows,
  and only a finished report of this very run is returned.
* *retrieval*: only what the filter asks for, as balanced over the ages as the index allows, and nobody overlooked.

The 40 hazards of this list, each at its line, are in `PROJECT.json`.

## 2. Modules

| module | what it is | stands for |
|---|---|---|
| `JobQueue` | the job queue, one action per committed statement, per read that is used later, per file operation | `job_tasks_worker.py`, the SQL of `db.py`, the handlers of `routers/jobs.py` |
| `TaskQueue` | what `job_tasks` promises the threads, and `jobs` the worker processes: work in order, one worker each, ended by that worker | abstract; `JobQueue` and `LegacyJobs` implement it |
| `JobLife` | what the tables promise whoever looks at a job with tasks: posted, offered, closed in one step with the verdict its tasks justify, then announced, then removed | abstract; `JobQueue` implements it |
| `JobQueueInv` | inductive strengthenings, and the mapping from `JobQueue` to `JobLife` | - |
| `JobQueueProofs` | types, claims and the refinement of `TaskQueue`, proved | - |
| `JobQueueRowsProofs` | that `partial.jsonl` and `job_tasks` agree, proved | - |
| `JobQueueVerdictProofs` | counts, reports, verdicts, announcements and the refinement of `JobLife`, proved | - |
| `MCJobQueue` | `JobQueue` with symmetric threads and readers, for TLC | - |
| `WorkerLoop` | `run_worker_loop` with its pool, its single-threaded form, and `--once` | `queue_worker.py`, `worker_main.py` |
| `WorkerLoopProofs`, `LegacyJobsProofs`, `NotificationsProofs`, `JobFilesProofs`, `ValidatorRunProofs` | the safety of the module each is named after, proved | - |
| `LegacyJobs` | jobs without tasks, in several worker processes | `process_one_job`, `claim_next_pending_job_legacy_only`, POST |
| `Notifications` | table, listener and settings card | the listed front-end files and `routers/notifications.py` |
| `Rows` | age buckets, and picking rows of a sequence in its order | shared by the next two |
| `Retrieval` | how personas are picked from the index: limits, conditions, queries, round robin, scan | `persona_retrieval.py`, `persona_where.py`, `chroma_langchain.py`, part of `validator_runner.py` |
| `Scoring` | one answer to a score, rows to a report | functions of `ab_validator.py`, `key_reasons.py` |
| `ValidatorRun` | a subprocess job from its payload to its summary; EXTENDS `Retrieval` and `Scoring` | `validator_runner.py`, `ab_validator.py` |
| `MCValidatorRun` | the indexes, payloads and answers that TLC enumerates | - |
| `Assets` | images from the upload to the payload, POST and CLONE | `campaign_assets.py`, `job_enqueue.py`, `routers/jobs.py` |
| `Synthesis` | a report and its writers: finalizers and synthesis requests; EXTENDS `Assets` | `report_synthesis.py`, the end of `_maybe_finalize_job` |
| `JobFiles` | `Assets` and `Synthesis` with DELETE and deaths | `routers/jobs.py`, `db.delete_job` |
| `MCJobFiles` | `JobFiles` with symmetric finalizers and requests | - |

### JobQueue

State. `status`, `tjob`, `tstat`, `nextId`, `result`, `notes` are the columns that matter;
`partial`, `report`, `copy` the files of a job, a line of `partial` being the id of the task
that wrote it. `ppc`/`left`, `pc`/`task`/`jobOf`/`seen`/`nfail` and `dpc` are the program
counters and local variables of the preparer, of a thread or GET handler, and of DELETE.
`stranded` and `early` are history variables.

Actions, in the order of the code: `Create`, `NormalizeOk`/`NormalizeFails` (POST);
`PrepCheck` ... `InfoNote` (`finalize_llm_enqueue_sync`); `Claim`, `Load`, `FetchJob`,
`StartRunning`, `Evaluate`, `AppendRow`, `CompleteTask`/`FailTask` (`process_one_task`);
`CountPending` ... `SuccessNote` (`_maybe_finalize_job`, by a thread after each task and by
`GET /jobs/{id}`, whose own reads are `GetJob` and `GetBreakdown`); `DeleteRequest`,
`DeleteRows`, `Purge`; `ActorAborts`, `PrepAborts`.

Choices worth knowing:

* A transaction is one step: the claim (`BEGIN IMMEDIATE`, `SELECT`, `UPDATE`),
  `complete_job`, `delete_job`. Every other helper commits on its own and is a step of its
  own. This is SQLite; on PostgreSQL the claim is a plain `BEGIN`, whose guarded `UPDATE`
  loses to a concurrent one and returns nothing, which here is a thread that stays idle.
* SQLite connections of this code do not enable foreign keys, so an `INSERT` of a
  notification or a result does not look whether the job is still there.
* `report.json` is truncated, then written. Two finalizers may do so at once; a report another
  one has written in between may keep a longer tail, which is the state `torn`. A report written
  through a handle whose file has been unlinked stays invisible.
* A line appended to `partial.jsonl` is atomic (one small `write` in append mode).
* Notifications are the set of types a job ever got: how often one is repeated is not told apart.
* A job directory may hold an old `partial.jsonl` (database removed, `outputs/` kept).
* Scores, payloads, token counts, progress are not state here.

### WorkerLoop

`slot` is the future of each pool thread, `pending` and `legacy` count what the tables offer.
`FillHead` is the test of the inner loop and `Submit` the call that follows it, two steps because the handler of a signal
runs in the same thread between any two bytecodes; `Collect`/`WaitTimesOut` the return of `wait`,
`LegacyClaim`/`LegacyRun` the call of `process_one_job` on the loop's own thread, `Sleep`
`stop_event.wait`, `Drain` the `as_completed` at the end; `Tick`/`TickTask` the
single-threaded form. `Round` and `WaveEnds` are `run_worker_tick` under `--once`: a wave of the pool, then a task, then a job, for
`--max-jobs-per-tick` rounds; no signal handler is installed there, so a signal (`Killed`) ends the process with what its
threads hold. `Raise`, `LegacyRaises` and `TickRaises` are exceptions: the pooled loop
takes one for an empty slot, the single-threaded one and `--once` end. `stop_event` is read at the
heads of both loops (`LoopHead`, `FillHead`) and by `Sleep`, and nowhere else. `lateTasks` and `lateJobs` count what is claimed
after it was set: futures that were submitted and had not claimed, the one whose submit had passed the test, and the job of the
fall-back. `StopBoundsTheWork` says that this is one task for each thread and one task-less job at most.

### LegacyJobs

`status`, `result`, `notes` as above; `hpc` is POST, which inserts the row as `pending`, notifies,
and only then moves the images (`Normalize`) and may reject the job (`Reject`); `pc`/`job` is
`process_one_job` of each worker process. `Select` and `Claim` are the two statements of the
claim.

A worker has one connection as long as it lives, and neither `process_one_job` nor the loops roll back. Hence there are two
views of the tables: `status`, `result`, `notes` as the connection that writes sees them, and `disk` as they are committed;
`writer` is the worker between the two, if any. What a step writes (`Claimed`, `Completed`, `Succeeded`, `Failed`, `Erred`) is defined
apart from the step, which commits it. `Outcome` lists what an exception leaves: nothing written; statements executed and not
committed (`Uncommitted`), which the next commit of that connection publishes; or all undone (`Rollback`).

* `TryRaises` is an exception inside the `try`, also after `complete_job` has committed: `fail_job` follows on the same connection, and
  its commit publishes what was pending, such as the success of a job that it fails.
* `EscapesWorker` is one outside of it. The pooled loop goes on with the connection, so what is pending is published by the commit of
  a later claim; such jobs are `stray`. `Dies` is the end of the process, which rolls back.
* While a worker has a transaction open nobody else can write (`MayWrite`): other workers raise (`LockedOut`), and so does POST, which
  answers 500 and leaves the job as it is (`PostLockedOut`). DELETE then fails before it changes anything and is not a step.
* This is SQLite with its rollback journal. Handlers use a connection per request and close it, so they leave nothing open.
* `faults` bounds exceptions and deaths; the exceptions that the lock forces are not counted.

### Notifications

`row` is the table, `enabled` and `lastId` are `localStorage`, `poll` and `setup` the two requests
a tab may have in flight, each sent, answered and delivered in steps of its own. JavaScript runs
to its next `await`, so delivery is one step and reads `lastId` then. One tab; a permission the
user takes back is not modelled.

### Retrieval, Scoring, ValidatorRun

`pc` runs through `run_validator` and its child. `QueryBucket`/`MergeBuckets`/`SingleQuery`/`ScanPage` are the retrieval
in its four variants (Chroma or LangChain, balanced or `PERSONA_RETRIEVE_LEGACY`); `Spawn` writes `personas.jsonl` and starts
the child; `Sample`, `Take`, `Attempt`, `EndBatch` are `main` and `run_campaign`, with the pool's threads in `busy` and the
attempts of each in `tries`; `OpenReport`/`WriteReport`/`WriteText` its end; `ChildDies`, `Timeout`, `Raise` and `Return`
what the parent can see.

* A similarity query returns *any* `n` of the rows that its where clause matches, in any order: what holds, holds for
  every embedding. A row is its age, its place relative to the province and district that are asked, and whether the other
  conditions fit. `random.shuffle` is any order as well.
* An answer of the LLM is a text without JSON, an object with a field of an odd type (which raises something else than
  the `ValueError` that is retried), or a record with a winner, some scores and a reason.
* Numbers are integers: hundredths of a point, and averages in their fourth decimal place, which is where the code rounds.
  Below 8 rows no half comes up, so `Rounded` is Python's `round`. Rounding can make equal averages of two
  unequal totals; `WinnerIsDefensible` says by how much, as a function of the number of rows. The sums of the code are floats, those of the
  model exact, which from 8 rows on is an idealisation near a half. Nothing is hidden below 100 rows (below 10000 for wins), and the bounds hold whichever way a half is rounded.
* `DistrictIsFound` is about Chroma. LangChain has no scan, and there a district whose personas the queries missed is empty.
* What a comprehension over a list or a loop with `append` picks is written without recursion: `Ascending` enumerates a set of
  positions, `At` takes the elements there. The round robin is the enumeration of its `Turns`; turn `p` belongs to
  bucket `BucketOf(p)` and round `RoundOf(p)`, and exists if the bucket has that many rows.
* `RetrievedAsAsked` reads the filter as the code does: a district name without its province means nothing.

### Assets, Synthesis, JobFiles

`row`, `payload`, `summary` are columns; `staging`, `dir`, `assets`, `report`, `md` files. POST and CLONE are coroutines without an
`await` between their first statement and their answer, so there is one `handler` at a time; each of its statements and
moves is a step, because the thread pool (DELETE, synthesis) and the worker run in between. A synthesis (`SynRead` ...
`SynNotify`) and a finalizer (`FinStart` ... `FinComplete`) have a `pc`, a `job` and a `copy` of what they read.

* What a report says is who aggregated it, whose synthesis it has, from which aggregation that was made and whether the call
  failed. `Contents` of `summary` and `md` are the same record.
* `open(path, "w")` truncates and the write follows (`OpenReport`, `WriteReport`). The writer of two that overlap may leave its
  text or a mixture (`mixed`); a writer that dies leaves an empty file. A file that was unlinked meanwhile takes the text with it.
* `write_json` and `write_text_report` make the directory again if it was purged, so a late finalizer (`FinOpen`, `FinText`) brings back directory and files.
* The evaluation before a finalizer is `JobQueue`'s subject, so here a finalizer may start for any accepted job, and two
  may for the same one.
* `accepted`, `uploaded`, `asked`, `written`, `told` and `spoiled` are history: what the client was told and is meant to get.

## 3. Runs

| run | instance | shows |
|---|---|---|
| `job_queue` | 1 job, 2 threads, 1 GET handler, up to 2 personas and tasks | the safety of the queue with every handler and fault; refinement of `JobLife` |
| `job_queue_two_jobs` | 2 jobs, 2 threads, 1 persona each | jobs do not disturb each other; `VerdictInv`, the inductive invariant of the queue; refinement of `TaskQueue` |
| `job_queue_fair` | 1 job, 2 threads, no faults | `EveryJobSettles`, `CompletionIsAnnounced` |
| `worker_loop` | widths 0 to 3 clamped to 1..2, loop and `--once` of 2 rounds, 3 tasks, 2 jobs, 2 exceptions | drain, bounded work after a stop, stop, no starvation |
| `legacy_jobs` | 2 jobs, 2 workers, 1 fault | claims once, true announcements, settling, whatever is left uncommitted; refinement of `TaskQueue` |
| `notifications` | 3 rows, answers of 2 | shown once, only the new, only the limit skips |
| `validator_run` | 7 payloads, 25 indexes of up to 4 rows, 3 personas in batches of 2, 1 or 2 threads, 1 retry, 6 answers | the filter is kept, ages balanced, nobody lost, winner and quotes follow, no stale report, it ends |
| `job_files` | 2 jobs, 2 uploads, 3 forms of a request, 2 finalizers, 2 syntheses, 1 death, at most 4 of these together | images stay with their jobs, syntheses with their aggregations, announcements with what was written |

Disagreements between the code and what the repository says of it, each the only property of a run:

| run | said at | the code |
|---|---|---|
| `terminal_restarted` | `nemotron_ab/db.py:481-482` | `start_job_running` is called without the check its docstring asks for: a closed job becomes running again |
| `finalize_unfinished` | `nemotron_ab/job_tasks_worker.py:402`, `tests/unit/test_job_finalize.py:91` | a job is closed while a task of it is pending or running |
| `deleted_comes_back` | `backend/routers/jobs.py:186`, `ConfirmDeleteJobDialog.tsx:39` | rows or files of a deleted job appear again |
| `worker_loop_stop` | `nemotron_ab/queue_worker.py:92` | a draining worker claims and runs one more subprocess job |

A further one has no run of its own: `BrowserNotificationSettings.tsx:52` promises a notification for what comes while the tab is
open, and a burst larger than `FETCH_LIMIT` loses its oldest rows. `SkippedOnlyByLimit` shows that nothing else skips one.

The first two have the same root: tasks are committed one at a time while the job is still
`preparing`, and a thread that ends the last task *so far* closes the job. The properties that
hold (`FinalizerSeesAll`, `VerdictFitsTasks`, `VerdictIsFinal`) therefore carry the reservation
`j \notin early`: `early` remembers the jobs whose tasks were counted while the preparer was still
inserting. The runs show that this one window explains every wrong verdict of the queue.

Bounds, and why they are enough. Two threads and a GET handler are three concurrent finalizers;
two tasks give a first, a last and a pair that end at once, and the smallest enrolment that can be
overtaken. A third thread repeats the part of a second one (threads are symmetric). One
persona per job in the two-job instance is enough for what jobs can do to each other (ids interleaved,
`DELETE` of one while the other is closed). In `WorkerLoop` a width of 2 has a busy and a free slot; three tasks are
one more than slots, and two rounds of `--once` are one with work and one without. In `Notifications` three rows are one more than an answer holds. In
`LegacyJobs` two workers and two jobs have each claim contested and each loser something else to do; one fault is enough for each
way in which a write can raise, for a transaction that stays open in front of the others, and for the exceptions that it forces on them; only the
theorems are about several, such as the loss of the very worker whose commit had raised.
In `ValidatorRun` three personas in batches of two have a full and a short batch, and
two in one bucket with one asked for at first have a rest to sample from; the indexes of four rows have a bucket that runs out before the
others and a match on the last page of a scan that sees one row per page. In `JobFiles` two writers of each kind are every pair that can overlap
on a report; the three forms name different uploads, the same one for both arms, and one that the first form takes away; and a
clone is the second job. `MaxLoad` keeps jobs, finalizers and syntheses that ever start to four: two of each are never all there, any three
kinds are.

Deadlock is not checked where the system stops by design: when the bounded arrivals are used up,
or the worker has exited. `Notifications` never stops, and there it is checked.

Fairness. `JobQueue!FairSpec` excludes faults and gives each started handler and each thread weak
fairness: operating-system threads run, statements end, the worker polls for ever; no request has
to come. `WorkerLoop` gives it to the loop and to each pool thread (every wait has a timeout, a
task ends because its attempts are counted) and assumes that a subprocess ends, which the code
enforces only when `AB_VALIDATOR_SUBPROCESS_TIMEOUT_SEC` is set; exceptions and arrivals have
none. `LegacyJobs` gives it to handlers and workers, not to faults; a
statement that waits for the lock raises in the end, since `sqlite3.connect` has a timeout.
`ValidatorRun` gives it to the retrieval, to parent and child, since the call of the LLM has a time limit and attempts are counted; not to `ChildDies` and `Timeout`.
`JobFiles` states safety only. `Notifications` gives weak fairness to the
interval and strong fairness to answer and delivery: a poll can fail or be cut off by a reload
again and again, but not each one.

## 4. Theorems

Every safety property that a passing run checks is proved. TLC shows it on the instance of the run; the theorem is
about all values of the constants, of which only the named assumptions of the modules are used, and those say what the code
gives: bounds are natural numbers, "no job" is not a job, no thread is a GET handler, a finalizer is not a request for a
synthesis, limits are positive, rows of the index have an age between 19 and 59. `AnswerAssumption` says that a score given by
an answer is a number (otherwise `int()` raises and the answer is an odd one) and that the hashes of the mock lie between 30 and 100.

Each theorem has the same argument: an invariant `Inv` that holds initially (`...Init`), that each action keeps (`...Next`, a
step for every disjunct of `Next`), and that implies the property. What follows says why `Inv` must be more than the property.

**Job queue.**

* `TypeCorrect`: `Spec => []TypeOK`, which runs check as a part of `VerdictInv`. The invariant proved is `TypeInv`, which adds `Bookkeeping`: ids
  below `nextId` and no other belong to a job, an actor inside a handler has a job, and exactly the
  program counters between claim and end hold a task, one of the job the thread works on. Without it
  the steps that index `status` or `tstat` by a local variable would leave their types.
* `ClaimsAreExclusive`: `Spec => []ExclusiveClaim`. By `NextIsTaskStep` each action of each handler is,
  as far as `tstat` and `task` are concerned, one of seven kinds of step (`TaskStep`); the invariant
  `ClaimInv` then is checked for seven kinds instead of some forty actions. `ClaimInv` adds that a task given up by
  a dead thread is running or deleted, so that no claim can take it while another thread has it.
* `QueueIsImplemented`: `Spec => ImplementsTaskQueue`. The initial states map to initial states, and under
  `ClaimInv` each `TaskStep` is a step of `TaskQueue` or leaves it unchanged; that a thread only ends a task that is
  running, and only its own, is exactly `ClaimInv`.
* `RowsAreTasks`: `Spec => []RowsMatchTasks`. The invariant is `RowsInv`. It needs
  `DeletionInv` (a job without a row has no completed task, and no thread that could still complete one: otherwise
  `Purge` would take the line of a task that is there) and `LineInv` (tasks exist only after the preparer has
  unlinked the old file; a line names a task of its job; a thread's own line is there after it appended and not before).
  The proof works with the set of lines of a job and with `Unrepeated`; `RowsInvGives` and `RowsInvFrom` go there and back.
  Three kinds of steps (`Quiet`, `HandMoves`, `PrepMoves`) cover all actions but the seven that touch a task or a line.
* `VerdictAlways`: `Spec => []VerdictInv`, which is `RowsInv` and three more parts and is checked by `job_queue_two_jobs`. `EnrolledInv`: tasks disappear only with
  their job, and everything but a failure comes after the first task. `CountOf(a)`: what a finalizer has counted and read so
  far is still true. `VerdictOf(j)`: verdict, report and announcements are what the tasks call for. The heart is `EndedStays`:
  once the preparer is through and no task of a job is pending (or running), that stays so as long as the job is there. So a
  count read by one statement may be relied on by a later one, although every other actor moved in between, and a second or
  third finalizer writes the same verdict again. All of it holds for jobs outside of `early`; in `early` it is false, as the two runs that expect a
  violation show.
* From it `PendingJobsHaveTasks` (`PendingHasTasks`, which no run checks by itself: `VerdictInv` and `ImplementsJobLife` contain it),
  `FinalizersSeeAll` (`FinalizerSeesAll`), `VerdictsFit` (`VerdictFitsTasks`) and the action property `VerdictsAreFinal` (`VerdictIsFinal`).
* `JobLifeIsImplemented`: `Spec => ImplementsJobLife`. `PhaseOf` reads the phase off the row (a closed row) and off `early` (`overtaken`);
  what `JobLife` calls enrolling is a preparer before its `Offer`, and what is told are the announcements of a verdict. Some forty actions of
  threads, handlers, preparer and DELETE, with the reads between, become nine steps of one job. The difficult one is `Close`: `JobLife` looks at all
  tasks *in the step that closes*, the code counted them several statements earlier, and `EndedStays` bridges the two. `LifeInv` adds to
  `VerdictInv` that a job counted too early has a task, that a job without a row has a preparer that is through and only tasks that are gone, and that
  a note on its way agrees with the status. Mapped initial states are initial; each action is a step of `JobLife` or a stutter, one lemma for
  each actor (`PrepLife`, `DeleteLife`, `WorkerLife`, `FinalizerLife`).

**Worker loop.** `LoopTypeCorrect`, `DrainIsComplete` (`DrainsBeforeExit`) and `StopBoundsWork` (`StopBoundsTheWork`). `ModeInv` says which program
counters belong to which mode, `PoolInv` that a slot is busy only while there is a pool, and `CountInv` that a
task is stranded only by an exception of its own, which bounds their number. `LateInv` says why a stop bounds the work: a future that has not
claimed, and the free place that the loop is about to fill, belong to a slot that has taken nothing since the stop, and the loop passes the
places from which it reaches a task-less job with none begun.

**Subprocess jobs.** `LegacyTypeCorrect`, `JobsRunOnce` (`RunsOnce`), `AnnouncementsAreTrue` (`AnnouncementIsTrue`) and `JobsAreQueued` (`ImplementsTaskQueue`). `TxInv` ties the two views of
the tables together: they are the same when no transaction is open, and otherwise differ only in stray jobs and in the job whose worker is in its
`except` block with the transaction of the `try` still open.
`OwnerInv` says that a job has at most one worker
after its claim and was not run before it: this is where the `WHERE status = 'pending'` of the claim is needed.
`VerdictInv` says of both views what the status is at each step of that worker, unless POST has rejected the job under it or DELETE removed it, and
`AnnouncedInv` when they may hold a success beside a failed job: between the commit of `fail_job` and that of the error, or after the worker was lost there.
The refinement takes a claimed job for running until its worker leaves it: the statements after `complete_job` may still turn a completed job into
a failed one, so it ends with the announcement. A rejected job is off the queue whatever its worker does, and so is a stray one, whose row changes
when somebody else's claim is committed; in `TaskQueue` a worker that lets go of a task may lose it. Selection and claim being two statements,
the order needs `OrderInv`: a job with a smaller id than a selected one was posted before it and is not pending, and nothing is ever pending again
but a stray job whose claim was rolled back.

**Notifications.** `NotificationTypeCorrect`, `NothingIsShownTwice` (`ShownOnce`), `OnlyTheLimitSkips` (`SkippedOnlyByLimit`) and `OldStaysHidden` (`OldIsNotShown`).
`BehindInv` keeps all that was shown, and all that was there when notifications were turned on, behind the last id; `AnswerInv` relates an
answer under way to the table: what it lacks was missed for lack of room or is newer than each of its rows. That `MaxOf`
finds the greatest id is proved from `WFMin`, a least counterexample, because the induction theorems of the library cannot be used.

**Report and images.** `JobFilesTypeCorrect`, `SynthesesFitTheirReports`, `HeadlinesWereReported`, `ReportsAreReadable` and `UploadsAreShown`. `ImageInv` follows
an image from the upload to the place it is promoted to: `MeaningInv` (each reference means what was asked), `PromotedInv`, `ReferenceInv` (a place still to be
filled is empty and referred to by nobody, so a promotion overwrites nothing) and `PlaceInv` (a file is in one place).
`ReportInv` says of each writer's `copy` what the properties say of the report, and in `SharedInv` who shares an open report with whom.

**Run of the validator.**

* `PersonasAreAsAsked` (`RetrievedAsAsked`), `BucketsAreBalanced` (`Balanced`) and `DistrictsAreFound` (`DistrictIsFound`) rest on `RetrievalInv`: what a bucket's
  query left fits that bucket and hence no other one (`FitsOneBucket`), so that merging repeats nobody; the first `offset` rows of `Matching` were
  read and, while the result is empty, none of them passes (`Scanned`). Balance is a fact about one round robin,
  `MergeIsBalanced`: turns are numbers, a prefix of them has as many of every bucket as it has rounds, give or take one.
  `AscendingEnumerates` and `AtIs` say what the two operators give for any finite set of positions.
* `ValidatorTypeCorrect` (`TypeOK`) and `NobodyIsLost` (`EveryPersonaCounted`) rest on `ValidatorInv`, which adds `CountersType` and `ChildInv`. There are at most
  `max_personas` lines in `personas.jsonl` *because* `RowsAreKept`; therefore `sample_personas_by_bucket`, which cuts at the same number, cuts
  off nobody, whatever the shuffles do (`SampleIs`), and everybody has a bucket since the filter ends at 59 (`EveryAgeHasBucket`). `LinesFollow` says that the lines are those of the first personas of
  the sample and in the end of all. `ScoredIsOutcome` bounds what is kept of any valid answer, `ReportCounts` says that the age groups of a report partition its rows.
* `SummaryIsOfThisRun` (`ReportIsOfThisRun`) needs that exit code 0 comes only after the report was written (`ExitVouches`).
* `WinnersAreDefensible` (`WinnerIsDefensible`). The age groups partition the rows, so their totals add up to the overall ones
  (`SumOfParts`, `MeasureOfBuckets`), and a group that clearly prefers one draft contributes more to that draft than its
  number of rows (`ClearlyPreferred`); were all groups clear and the winner the other one, the overall total would contradict its rounded average
  (`RoundedBounds`, `RoundedOrder`).
* `QuotesAreStrongest` (`QuotesAreTheStrongest`). A row's `Place` is one more than the number of rows before it, and that no two share one makes `Ranked` a
  permutation of the rows in order of strength, whatever ties there are (`PlacesAre`, `RankedIs`). `QuotesSoFar` is the invariant of
  the loop over it: the quotes are as many as fit and are distinct, and what was passed over is weaker or repeats one.
* Both are about values that the code accumulates in a loop (`Sums`, `QuotedAfter`), written as recursive functions over `0..Len(rows)`.
  That their equations have a solution is `Iterates`; what holds of their values follows step by step. Both are inductions over the length, for which
  the library's theorems cannot be used; `LeastMissing` takes their place: a set of numbers with 0 and with the successor of each of its members
  lacks none up to the length, or it would lack a least one. It speaks of a set and not of an operator, so the provers can instantiate it.

Only model-checked:

* Liveness: `EveryJobSettles`, `CompletionIsAnnounced`, `JobsSettle`, `TasksAreTaken`, `LegacyIsRun`, `StopEndsTheWorker`, `NewIsShown`,
  `RunEnds`. Fairness and `ENABLED` are beyond the prover.
* What the four runs that expect a violation show.

## 5. Not modelled

Prompts and embeddings, HTTP details, the demo store, the scripts that build the index, the benchmarks, and the
pages; the list of components in `PROJECT.json` has a reason for each. Some limits of the models:

* `JobQueue` takes a retrieval for a number of rows and an evaluation for its outcome; `Retrieval` and `Scoring` say what is behind
  them, and `JobFiles` what becomes of the images, but no run has all of it at once: the product is out of reach.
* A synthesis reads job, result and report in one step. It looks at each once, and a job deleted between is caught by
  the missing file, as in the step.
* The pool of the queue parses an answer in `langchain_eval.py`, which does what `Invalid` and `Scored` say of `ab_validator.py`.
* The API and the preparer open the SQLite file whatever `DATABASE_URL` says, the worker follows it (`backend/deps.py:16` against
  `README.md:184`). A process chooses once, when it starts, so there is nothing to explore.
* The bell fetches a count again and again, so a late answer is corrected; the list of the notification page is fetched on a click
  only, and the late answer of an earlier click may leave a row unread on the screen.

## 6. Plan

1. A second tab of `Notifications`, which shares `localStorage` with the first.
2. The images of a job, its tasks and its report in one model of two jobs without races inside a handler, which TLC could explore.
