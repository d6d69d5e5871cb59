------------------------------ MODULE Synthesis ------------------------------
(***************************************************************************)
(* The report of a job: finalizers write it, POST /report/synthesize adds  *)
(* the analysis of an LLM to it (nemotron_ab/report_synthesis.py).         *)
(*                                                                         *)
(* A synthesis reads the report, calls a model for a minute or so, and     *)
(* writes report and summary back.  Two of them, or one and a finalizer    *)
(* that comes late (JobQueue has two finalizers of one job), overlap.      *)
(***************************************************************************)
EXTENDS Assets

CONSTANTS Finalizers,  \* bound: finalizers that ever run
          Requests,    \* bound: requests of a synthesis
          MaxLoad,     \* bound: jobs, finalizers and requests together
          NoOne

ASSUME SynthesisAssumption == Finalizers \cap Requests = {} /\ NoOne \notin Finalizers \cup Requests /\ MaxLoad \in Nat

Writers == Finalizers \cup Requests

VARIABLES report,   \* report.json: its state and, if whole, its contents
          md,       \* report.md: the aggregation and the synthesis in it
          summary,  \* summary_json of job_results
          open,     \* the writers that have report.json open
          mixed,    \* the writers of open that share it with another writer
          pc, job,  \* of every writer
          copy,     \* report_obj, or the summary, as the writer read it
          written,  \* history: requests whose synthesis was in report.json
          told,     \* history: requests whose completion was announced
          spoiled   \* history: jobs whose report.json had two writers at once, or one that died, and no clean write since

synthesisVars == <<report, md, summary, open, mixed, pc, job, copy, written, told, spoiled>>

\* What a report says: whose aggregation it has, whose synthesis (if any) and
\* of which aggregation that is, and whether the call had failed.
Contents == [agg: Finalizers \cup {NoOne}, syn: Requests \cup {NoOne}, basis: Finalizers \cup {NoOne}, ok: BOOLEAN]
Aggregated(f) == [agg |-> f, syn |-> NoOne, basis |-> NoOne, ok |-> TRUE]
Nothing == Aggregated(NoOne)

NoReport == [state |-> "none", text |-> Nothing]
Torn == [state |-> "torn", text |-> Nothing]
Whole(text) == [state |-> "whole", text |-> text]

SynthesisInit ==
  /\ report = [j \in Jobs |-> NoReport]
  /\ md = [j \in Jobs |-> Nothing]
  /\ summary = [j \in Jobs |-> Nothing]
  /\ open = [j \in Jobs |-> {}] /\ mixed = {}
  /\ pc = [w \in Writers |-> "idle"]
  /\ job = [w \in Writers |-> 0]
  /\ copy = [w \in Writers |-> Nothing]
  /\ written = {} /\ told = {} /\ spoiled = {}

\* The bound on what runs.
Load == Cardinality({j \in Jobs : row[j] # "unborn"}) + Cardinality({w \in Writers : pc[w] # "idle"})

Step(w, from, to) == pc[w] = from /\ pc' = [pc EXCEPT ![w] = to]

(***************************************************************************)
(* open(path, "w") and the write that follows                              *)
(***************************************************************************)
OpenReport(w, j) ==
  /\ report' = [report EXCEPT ![j] = Torn]
  /\ mixed' = IF open[j] = {} THEN mixed ELSE mixed \cup open[j] \cup {w}
  /\ open' = [open EXCEPT ![j] = @ \cup {w}]
  /\ spoiled' = IF open[j] = {} THEN spoiled ELSE spoiled \cup {j}

\* A writer that was alone leaves what it wrote; of two that overlap the rest
\* of one may follow the text of the other.  Writing to a file that was
\* removed meanwhile leaves no trace.
WriteReport(w, j, text) ==
  /\ report' \in IF w \notin open[j] THEN {report}
                 ELSE {[report EXCEPT ![j] = r] : r \in {Whole(text)} \cup (IF w \in mixed THEN {Torn} ELSE {})}
  /\ open' = [open EXCEPT ![j] = @ \ {w}]
  /\ mixed' = mixed \ {w}
  /\ spoiled' = IF w \in open[j] \ mixed THEN spoiled \ {j} ELSE spoiled

(***************************************************************************)
(* A finalizer, from the aggregation to the result row.  The evaluation    *)
(* before it is the subject of JobQueue.                                   *)
(***************************************************************************)
FinStart(f) ==
  /\ Step(f, "idle", "open") /\ Load < MaxLoad
  /\ \E j \in accepted : row[j] = "preparing" /\ job' = [job EXCEPT ![f] = j]
  /\ copy' = [copy EXCEPT ![f] = Aggregated(f)]
  /\ UNCHANGED <<assetsVars, report, md, summary, open, mixed, written, told, spoiled>>

\* Mutant: a job none of whose rows was scored is completed.
FinNotFails(f) ==
  /\ Step(f, "open", "done")
  /\ row' = [row EXCEPT ![job[f]] = IF @ = "deleted" THEN @ ELSE "completed"]
  /\ UNCHANGED <<payload, staging, dir, assets, handler, accepted, uploaded, asked, report, md, summary, open,
                 mixed, job, copy, written, told, spoiled>>

\* No row was scored, because of an unreadable image for example.
FinFails(f) ==
  /\ Step(f, "open", "done")
  /\ row' = [row EXCEPT ![job[f]] = IF @ = "deleted" THEN @ ELSE "failed"]
  /\ UNCHANGED <<payload, staging, dir, assets, handler, accepted, uploaded, asked, report, md, summary, open,
                 mixed, job, copy, written, told, spoiled>>

FinOpen(f) ==
  /\ Step(f, "open", "write")
  /\ dir' = dir \cup {job[f]}
  /\ OpenReport(f, job[f])
  /\ UNCHANGED <<row, payload, staging, assets, handler, accepted, uploaded, asked, md, summary, job, copy, written, told>>

FinWrite(f) ==
  /\ Step(f, "write", "md")
  /\ WriteReport(f, job[f], copy[f])
  /\ UNCHANGED <<assetsVars, md, summary, job, copy, written, told>>

\* Like write_json, write_text_report makes the directory again if it was purged.
FinText(f) ==
  /\ Step(f, "md", "complete")
  /\ dir' = dir \cup {job[f]}
  /\ md' = [md EXCEPT ![job[f]] = copy[f]]
  /\ UNCHANGED <<row, payload, staging, assets, handler, accepted, uploaded, asked, report, summary, open, mixed,
                 job, copy, written, told, spoiled>>

\* complete_job replaces a summary that is there.
FinComplete(f) ==
  /\ Step(f, "complete", "done")
  /\ row' = [row EXCEPT ![job[f]] = IF @ = "deleted" THEN @ ELSE "completed"]
  /\ summary' = [summary EXCEPT ![job[f]] = copy[f]]
  /\ UNCHANGED <<payload, staging, dir, assets, handler, accepted, uploaded, asked, report, md, open, mixed,
                 job, copy, written, told, spoiled>>

Finalize(f) == FinStart(f) \/ FinFails(f) \/ FinOpen(f) \/ FinWrite(f) \/ FinText(f) \/ FinComplete(f)

(***************************************************************************)
(* POST /jobs/{id}/report/synthesize                                       *)
(***************************************************************************)
\* Mutant: the summary is patched before the report is written.
PatchFirst(at) ==
  CASE at = "call" -> "select" [] at = "select" -> "patch" [] at = "patch" -> "open"
    [] at = "open" -> "write"  [] at = "write" -> "md"     [] at = "md" -> "notify" [] OTHER -> "done"

\* The order of the steps once the call has succeeded.
After(at) ==
  CASE at = "call" -> "open" [] at = "open" -> "write"   [] at = "write" -> "md"
    [] at = "md" -> "select" [] at = "select" -> "patch" [] at = "patch" -> "notify" [] OTHER -> "done"

\* Of a call that failed only the report is written, then the request is refused.
AfterOutcome(w, at) == IF copy[w].ok THEN After(at) ELSE IF at = "open" THEN "write" ELSE "done"

\* The job is completed, it has a result row, the report can be read and parsed.
\* Otherwise the request is refused (400 or, for a torn report, 400 as well).
SynRead(w) ==
  /\ Step(w, "idle", "call") /\ Load < MaxLoad
  /\ \E j \in Jobs : /\ row[j] = "completed" /\ summary[j] # Nothing /\ report[j].state = "whole"
                     /\ job' = [job EXCEPT ![w] = j]
                     /\ copy' = [copy EXCEPT ![w] = report[j].text]
  /\ UNCHANGED <<assetsVars, report, md, summary, open, mixed, written, told, spoiled>>

\* The call gets both images.  It fails when one is missing, when the model does
\* not answer twice, or when the answer has no JSON object; then the error is kept.
run_synthesis_llm(w) ==
  /\ pc[w] = "call"
  /\ \E ok \in BOOLEAN :
       /\ ok => readable(job[w])
       /\ copy' = [copy EXCEPT ![w] = [agg |-> @.agg, syn |-> w, basis |-> @.agg, ok |-> ok]]
       /\ pc' = [pc EXCEPT ![w] = IF ok THEN After("call") ELSE "open"]
  /\ UNCHANGED <<assetsVars, report, md, summary, open, mixed, job, written, told, spoiled>>

\* Mutant: the aggregation is read again before it is written.
SynOpenFresh(w) ==
  /\ Step(w, "open", AfterOutcome(w, "open"))
  /\ job[w] \in dir
  /\ OpenReport(w, job[w])
  /\ copy' = [copy EXCEPT ![w].agg = report[job[w]].text.agg]
  /\ UNCHANGED <<assetsVars, md, summary, job, written, told>>

\* write_text: the file is cut to nothing, then written.
SynOpen(w) ==
  /\ Step(w, "open", AfterOutcome(w, "open"))
  /\ job[w] \in dir
  /\ OpenReport(w, job[w])
  /\ UNCHANGED <<assetsVars, md, summary, job, copy, written, told>>

\* The directory was purged: FileNotFoundError.
SynOpenFails(w) ==
  /\ Step(w, "open", "done")
  /\ job[w] \notin dir
  /\ UNCHANGED <<assetsVars, report, md, summary, open, mixed, job, copy, written, told, spoiled>>

SynWrite(w) ==
  /\ Step(w, "write", AfterOutcome(w, "write"))
  /\ WriteReport(w, job[w], copy[w])
  /\ written' = written \cup {w}
  /\ UNCHANGED <<assetsVars, md, summary, job, copy, told>>

\* The synthesis replaces the one that the text has, below its aggregation.
append_synthesis_to_md(w) ==
  /\ Step(w, "md", After("md"))
  /\ md' = [md EXCEPT ![job[w]] = IF @ = Nothing THEN @ ELSE [copy[w] EXCEPT !.agg = md[job[w]].agg]]
  /\ UNCHANGED <<assetsVars, report, summary, open, mixed, job, copy, written, told, spoiled>>

\* patch_job_result_summary: SELECT, then UPDATE with the merged summary.
PatchRead(w) ==
  /\ Step(w, "select", IF summary[job[w]] = Nothing THEN "done" ELSE After("select"))
  /\ copy' = [copy EXCEPT ![w].agg = summary[job[w]].agg]
  /\ UNCHANGED <<assetsVars, report, md, summary, open, mixed, job, written, told, spoiled>>

PatchWrite(w) ==
  /\ Step(w, "patch", After("patch"))
  /\ summary' = [summary EXCEPT ![job[w]] = IF @ = Nothing THEN @ ELSE copy[w]]
  /\ UNCHANGED <<assetsVars, report, md, open, mixed, job, copy, written, told, spoiled>>

patch_job_result_summary(w) == PatchRead(w) \/ PatchWrite(w)

SynNotify(w) ==
  /\ Step(w, "notify", "done")
  /\ told' = told \cup {w}
  /\ UNCHANGED <<assetsVars, report, md, summary, open, mixed, job, copy, written, spoiled>>

synthesize_job_report(w) ==
  \/ SynRead(w) \/ run_synthesis_llm(w) \/ SynOpen(w) \/ SynOpenFails(w) \/ SynWrite(w)
  \/ append_synthesis_to_md(w) \/ patch_job_result_summary(w) \/ SynNotify(w)

\* GET /jobs/{id}/report: 404, a text that does not parse (500), or the report.
get_report(j) ==
  [code |-> IF summary[j] = Nothing \/ report[j].state = "none" THEN 404 ELSE IF report[j].state = "torn" THEN 500 ELSE 200,
   text |-> report[j].text]

SynthesisTypeOK ==
  /\ report \in [Jobs -> [state: {"none", "torn", "whole"}, text: Contents]]
  /\ md \in [Jobs -> Contents] /\ summary \in [Jobs -> Contents]
  /\ open \in [Jobs -> SUBSET Writers] /\ mixed \subseteq Writers
  /\ pc \in [Writers -> {"idle", "call", "open", "write", "md", "complete", "select", "patch", "notify", "done"}]
  /\ job \in [Writers -> 0..MaxJob] /\ copy \in [Writers -> Contents]
  /\ written \subseteq Requests /\ told \subseteq Requests /\ spoiled \subseteq Jobs
=============================================================================
