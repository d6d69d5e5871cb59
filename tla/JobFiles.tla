------------------------------- MODULE JobFiles -------------------------------
(***************************************************************************)
(* Rows and files of the jobs together: images (Assets), reports           *)
(* (Synthesis), DELETE, and the death of the API or of a finalizer.        *)
(***************************************************************************)
EXTENDS Synthesis

CONSTANT MaxDeaths    \* bound: processes that die

ASSUME DeathsAssumption == MaxDeaths \in Nat

VARIABLES deleting,   \* jobs whose rows are deleted and whose directory is not yet
          deaths

vars == <<assetsVars, synthesisVars, deleting, deaths>>

Init == AssetsInit /\ SynthesisInit /\ deleting = {} /\ deaths = 0

\* db.delete_job, one transaction
DeleteRows(j) ==
  /\ row[j] \in {"failed", "completed"}
  /\ row' = [row EXCEPT ![j] = "deleted"]
  /\ summary' = [summary EXCEPT ![j] = Nothing]
  /\ deleting' = deleting \cup {j}
  /\ UNCHANGED <<payload, staging, dir, assets, handler, accepted, uploaded, asked, report, md, open, mixed, pc, job,
                 copy, written, told, spoiled, deaths>>

\* The directory goes, with the images that clones may refer to.
purge_job_output_dir(j) ==
  /\ j \in deleting
  /\ deleting' = deleting \ {j}
  /\ dir' = dir \ {j}
  /\ assets' = [assets EXCEPT ![j] = [arm \in Arms |-> NoFile]]
  /\ report' = [report EXCEPT ![j] = NoReport] /\ md' = [md EXCEPT ![j] = Nothing]
  /\ open' = [open EXCEPT ![j] = {}] /\ mixed' = mixed \ open[j]
  /\ UNCHANGED <<row, payload, staging, handler, accepted, uploaded, asked, summary, pc, job, copy, written, told, spoiled, deaths>>

delete_job_endpoint(j) == DeleteRows(j) \/ purge_job_output_dir(j)

Stop(W) ==
  /\ deaths < MaxDeaths /\ deaths' = deaths + 1
  /\ pc' = [w \in Writers |-> IF w \in W THEN "done" ELSE pc[w]]
  /\ spoiled' = spoiled \cup {j \in Jobs : open[j] \cap W # {}}
  /\ open' = [j \in Jobs |-> open[j] \ W] /\ mixed' = mixed \ W
  /\ UNCHANGED <<row, payload, staging, dir, assets, accepted, uploaded, asked, report, md, summary, job, copy, written, told>>

\* With the API go the request on the event loop, all syntheses and all deletions.
ApiDies == Stop({w \in Requests : pc[w] # "idle"}) /\ handler' = Idle /\ deleting' = {}

FinalizerDies == \E f \in Finalizers : pc[f] \notin {"idle", "done"} /\ Stop({f}) /\ UNCHANGED <<handler, deleting>>

ImageRequests == (\E u \in Uploads : save_upload_to_staging(u)) \/ create_job \/ clone_job \/ finalize_payload_after_enqueue

Next ==
  \/ ImageRequests /\ UNCHANGED <<synthesisVars, deleting, deaths>>
  \/ (\E f \in Finalizers : Finalize(f)) /\ UNCHANGED <<deleting, deaths>>
  \/ (\E r \in Requests : synthesize_job_report(r)) /\ UNCHANGED <<deleting, deaths>>
  \/ \E j \in Jobs : delete_job_endpoint(j)
  \/ ApiDies \/ FinalizerDies

Spec == Init /\ [][Next]_vars

(***************************************************************************)
(* Properties                                                              *)
(***************************************************************************)
TypeOK == AssetsTypeOK /\ SynthesisTypeOK /\ deleting \subseteq Jobs /\ deaths \in 0..MaxDeaths

\* The page of an accepted job shows for each arm the image that was uploaded for
\* it, for a clone that of its original, unless the job whose directory holds it
\* was deleted; and an upload is in one place, lost only with a deleted job.
WhatWasUploaded ==
  /\ \A j \in accepted, arm \in Arms :
       LET ref == payload[j][arm]
           meant == asked[j][arm]
       IN  row[j] = "deleted"
           \/ (ref.type = "path" /\ row[ref.job] = "deleted")
           \/ get_job_variant_image(j, arm) = (CASE meant.type = "asset_ref" -> meant.upload
                                                 [] meant.type = "url"       -> "redirect"
                                                 [] OTHER                    -> "404")
  /\ \A u \in uploaded :
       LET kept == {p \in Jobs \X Arms : assets[p[1]][p[2]] = u}
       IN  /\ Cardinality(kept) + (IF u \in staging THEN 1 ELSE 0) <= 1
           /\ u \in staging \/ kept # {} \/ \E j \in Jobs, arm \in Arms : row[j] = "deleted" /\ asked[j][arm] = Staged(u)

\* The synthesis in a report is about the aggregation beside it, whatever other
\* syntheses and late finalizers wrote between its reading and its writing.
SynthesisFitsReport ==
  \A j \in Jobs : report[j].state = "whole" /\ report[j].text.syn # NoOne => report[j].text.basis = report[j].text.agg

\* No list and no notification speaks of a synthesis that the report never had,
\* or whose call failed, wherever the request was interrupted.
HeadlineWasReported ==
  /\ \A j \in Jobs : row[j] = "completed" /\ summary[j].syn # NoOne => summary[j].syn \in written /\ summary[j].ok
  /\ told \subseteq written

\* A completed job has a report that can be read whenever nobody has it open,
\* unless two writers had it open at once or a writer died at it.
ReportIsReadable ==
  \A j \in Jobs : row[j] = "completed" /\ open[j] = {} /\ j \notin spoiled => get_report(j).code = 200
=============================================================================
