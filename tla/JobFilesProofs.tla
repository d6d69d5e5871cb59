---------------------------- MODULE JobFilesProofs ----------------------------
(* Theorems about JobFiles, for any jobs, uploads, forms, finalizers and    *)
(* requests, and any number of deaths.                                      *)
EXTENDS JobFiles, FiniteSetTheorems, TLAPS

-----------------------------------------------------------------------------
(* Images.                                                                  *)

Born(j) == row[j] # "unborn"
Gone(j) == row[j] = "deleted"

\* The request is about to take the image of that arm.
Pending(arm) == handler.pc = "a" \/ (handler.pc = "b" /\ arm = "b")
Filling == handler.pc \in {"a", "b", "update"}

\* Ids are handed out in order; a job that is accepted, being deleted, or on the event
\* loop was born, and one that is not there yet has no image.
IdsInv ==
  /\ \E n \in 0..MaxJob : \A j \in Jobs : Born(j) <=> j <= n
  /\ handler.pc # "idle" => handler.job \in Jobs /\ Born(handler.job)
  /\ \A j \in Jobs : j \in accepted => Born(j)
  /\ \A j \in deleting : Gone(j)
  /\ \A j \in Jobs, arm \in Arms : ~Born(j) => assets[j][arm] = NoFile

\* The reference still means the image that was asked for.
Means(ref, meant) ==
  IF ref.type = "path"
    THEN meant.type = "asset_ref" /\ (Gone(ref.job) \/ assets[ref.job][ref.arm] = meant.upload)
    ELSE ref = meant

MeaningInv ==
  /\ \A j \in Jobs, arm \in Arms : Born(j) => Means(payload[j][arm], asked[j][arm])
  /\ \A arm \in Arms : handler.pc # "idle" => Means(handler.out[arm], asked[handler.job][arm])

\* What a request has promoted is no reference to the staging directory any more.
PromotedInv ==
  /\ \A arm \in Arms : Filling /\ ~Pending(arm) => handler.out[arm].type # "asset_ref"
  /\ \A j \in accepted, arm \in Arms : payload[j][arm].type # "asset_ref"

\* References are to files of jobs that were born, and a place that is still to be
\* filled is empty and referred to by nobody.
ReferenceInv ==
  /\ \A j \in Jobs, arm \in Arms : Born(j) /\ payload[j][arm].type = "path" => Born(payload[j][arm].job)
  /\ \A arm \in Arms : handler.pc # "idle" /\ handler.out[arm].type = "path" => Born(handler.out[arm].job)
  /\ \A arm \in Arms : Pending(arm) =>
       /\ assets[handler.job][arm] = NoFile
       /\ \A j \in Jobs, x \in Arms : Born(j) => payload[j][x] # Stored(handler.job, arm)
       /\ \A x \in Arms : handler.out[x] # Stored(handler.job, arm)

\* A file is in one place, the one it was uploaded for, unless its job was deleted.
PlaceInv ==
  /\ \A j \in Jobs, arm \in Arms : assets[j][arm] # NoFile =>
       /\ assets[j][arm] \in uploaded \ staging
       /\ asked[j][arm] = Staged(assets[j][arm])
       /\ \A k \in Jobs, x \in Arms : assets[k][x] = assets[j][arm] => k = j /\ x = arm
  /\ \A u \in uploaded \ staging :
       \E j \in Jobs, arm \in Arms : assets[j][arm] = u \/ (Gone(j) /\ asked[j][arm] = Staged(u))

\* Nobody else touches the job of a request before the request is through with it.
FillingInv ==
  /\ Filling => handler.job \notin accepted /\ row[handler.job] = "preparing"
  /\ \A f \in Finalizers : pc[f] \notin {"idle", "done"} => job[f] \in accepted

ImageInv == TypeOK /\ IdsInv /\ MeaningInv /\ PromotedInv /\ ReferenceInv /\ PlaceInv /\ FillingInv

-----------------------------------------------------------------------------
(* Reports.                                                                 *)

\* Finalizers and syntheses run their own steps, on a job that was born.
WriterInv ==
  /\ \A f \in Finalizers : pc[f] \in {"idle", "open", "write", "md", "complete", "done"}
  /\ \A r \in Requests : pc[r] # "complete"
  /\ \A w \in Writers : pc[w] \notin {"idle", "done"} => job[w] \in Jobs /\ Born(job[w])

\* What a finalizer holds is its aggregation; what a synthesis holds is about the
\* aggregation it read, from its reading until it has written.
CopyInv ==
  /\ \A f \in Finalizers : pc[f] \notin {"idle", "done"} => copy[f] = Aggregated(f)
  /\ \A r \in Requests : pc[r] \in {"call", "open", "write"} /\ copy[r].syn # NoOne => copy[r].basis = copy[r].agg

\* A synthesis that goes on after the report was written was written and had succeeded.
HeadlineInv ==
  /\ \A r \in Requests : pc[r] \in {"open", "write", "md", "select", "patch", "notify"} => copy[r].syn = r
  /\ \A r \in Requests : pc[r] \in {"md", "select", "patch", "notify"} => r \in written /\ copy[r].ok
  /\ \A j \in Jobs : summary[j].syn # NoOne => summary[j].syn \in written /\ summary[j].ok
  /\ told \subseteq written

\* A writer that has the report open is about to write it; writers that share it are
\* known as such, and a torn report that nobody has open is known as spoiled.
SharedInv ==
  /\ \A j \in Jobs : \A w \in open[j] : pc[w] = "write" /\ job[w] = j
  /\ \A w \in mixed : \E j \in Jobs : w \in open[j]
  /\ \A j \in Jobs : \A w \in open[j] : w \in mixed \/ open[j] = {w}
  /\ \A j \in Jobs : open[j] \cap mixed # {} => j \in spoiled
  /\ \A j \in Jobs : report[j].state = "torn" => open[j] # {} \/ j \in spoiled

\* No report and no summary disappears but with its job.
FileInv ==
  /\ \A j \in Jobs : row[j] = "completed" => report[j].state # "none" /\ summary[j].agg # NoOne
  /\ \A f \in Finalizers : pc[f] \in {"write", "md", "complete"} /\ ~Gone(job[f]) => report[job[f]].state # "none"
  /\ \A j \in Jobs : summary[j] # Nothing => summary[j].agg # NoOne
  /\ \A r \in Requests : pc[r] = "patch" => copy[r].agg # NoOne

ReportInv == WriterInv /\ CopyInv /\ HeadlineInv /\ SharedInv /\ FileInv /\ SynthesisFitsReport

Inv == ImageInv /\ ReportInv

-----------------------------------------------------------------------------
(* Types.                                                                   *)

LEMMA ImageTypes ==
  /\ NoImage \in Images /\ NoImages \in [Arms -> Images]
  /\ \A j \in Jobs, arm \in Arms : Stored(j, arm) \in Images
  /\ \A u \in Uploads : Staged(u) \in Images
  /\ \A refs \in Forms : refs \in [Arms -> Images]
  BY AssetsAssumption DEF Images, Sent, NoImages

LEMMA ReportTypes ==
  /\ Nothing \in Contents /\ \A f \in Finalizers : Aggregated(f) \in Contents
  /\ \A text \in Contents : Whole(text) \in [state: {"none", "torn", "whole"}, text: Contents]
  /\ NoReport \in [state: {"none", "torn", "whole"}, text: Contents]
  /\ Torn \in [state: {"none", "torn", "whole"}, text: Contents]
  BY DEF Nothing, Aggregated, Contents, Whole, NoReport, Torn

LEMMA TypeInit == Init => TypeOK
  <1> SUFFICES ASSUME Init PROVE TypeOK
    OBVIOUS
  <1>1. AssetsTypeOK
    BY ImageTypes, AssetsAssumption DEF Init, AssetsInit, AssetsTypeOK, Idle
  <1>2. SynthesisTypeOK
    BY ReportTypes, AssetsAssumption DEF Init, SynthesisInit, SynthesisTypeOK
  <1> QED BY <1>1, <1>2, DeathsAssumption DEF Init, TypeOK

LEMMA EnqueueTypes ==
  ASSUME AssetsTypeOK, NEW refs \in [Arms -> Images], NEW meant \in [Arms -> Images], enqueue_job(refs, meant)
  PROVE  AssetsTypeOK'
  <1> DEFINE n == NextId
  <1>1. n \in Jobs /\ n \in 0..MaxJob
    BY AssetsAssumption DEF enqueue_job, Jobs
  <1>2. /\ row' = [row EXCEPT ![n] = "preparing"]
        /\ payload' = [payload EXCEPT ![n] = refs]
        /\ asked' = [asked EXCEPT ![n] = meant]
        /\ handler' = [pc |-> "a", job |-> n, out |-> refs]
        /\ UNCHANGED <<staging, dir, assets, accepted, uploaded>>
    BY DEF enqueue_job
  <1> HIDE DEF n
  <1> QED BY <1>1, <1>2 DEF AssetsTypeOK

LEMMA ImageRequestsType == AssetsTypeOK /\ IdsInv /\ ImageRequests => AssetsTypeOK'
  <1> SUFFICES ASSUME AssetsTypeOK, IdsInv, ImageRequests PROVE AssetsTypeOK'
    OBVIOUS
  <1>0. Idle \in [pc: {"idle", "clone", "a", "b", "update"}, job: 0..MaxJob, out: [Arms -> Images]]
    BY ImageTypes, AssetsAssumption DEF Idle
  <1>1. ASSUME NEW u \in Uploads, save_upload_to_staging(u) PROVE AssetsTypeOK'
    BY <1>1 DEF save_upload_to_staging, AssetsTypeOK
  <1>2. CASE create_job
    BY <1>2, EnqueueTypes, ImageTypes DEF create_job
  <1>3. CASE CloneRead
    <2>1. PICK j \in Jobs : handler' = [pc |-> "clone", job |-> j, out |-> payload[j]]
      BY <1>3 DEF CloneRead
    <2>2. j \in 0..MaxJob /\ payload[j] \in [Arms -> Images]
      BY AssetsAssumption DEF Jobs, AssetsTypeOK
    <2> QED BY <1>3, <2>1, <2>2 DEF CloneRead, AssetsTypeOK
  <1>4. CASE CloneEnqueue
    <2>1. handler.job \in Jobs /\ handler.out \in [Arms -> Images] /\ asked[handler.job] \in [Arms -> Images]
      BY <1>4 DEF CloneEnqueue, IdsInv, AssetsTypeOK
    <2> QED BY <1>4, <2>1, EnqueueTypes DEF CloneEnqueue
  <1>5. ASSUME NEW arm \in Arms, Move(arm) PROVE AssetsTypeOK'
    <2> DEFINE ref == handler.out[arm]
               j == handler.job
    <2>1. j \in Jobs
      BY <1>5 DEF Move, IdsInv, Arms
    <2>2. ref.upload \in Uploads
      BY <1>5 DEF Move, exists, AssetsTypeOK
    <2>3. Stored(j, arm) \in Images
      BY <2>1, ImageTypes
    <2>4. assets' \in [Jobs -> [Arms -> Uploads \cup {NoFile}]]
      BY <1>5, <2>2 DEF Move, AssetsTypeOK
    <2>5. handler' \in [pc: {"idle", "clone", "a", "b", "update"}, job: 0..MaxJob, out: [Arms -> Images]]
      BY <1>5, <2>3 DEF Move, AssetsTypeOK
    <2>6. staging' \subseteq uploaded' /\ dir' \subseteq Jobs
      BY <1>5, <2>1 DEF Move, AssetsTypeOK
    <2> QED BY <1>5, <2>4, <2>5, <2>6 DEF Move, AssetsTypeOK
  <1>6. ASSUME NEW arm \in Arms, Keep(arm) PROVE AssetsTypeOK'
    BY <1>6 DEF Keep, AssetsTypeOK
  <1>7. ASSUME NEW arm \in Arms, Refuse(arm) PROVE AssetsTypeOK'
    BY <1>0, <1>7 DEF Refuse, AssetsTypeOK
  <1>8. CASE update_job_payload
    <2>1. handler.job \in Jobs /\ handler.out \in [Arms -> Images]
      BY <1>8 DEF update_job_payload, IdsInv, AssetsTypeOK
    <2> QED BY <1>0, <1>8, <2>1 DEF update_job_payload, AssetsTypeOK
  <1> QED
    BY <1>1, <1>2, <1>3, <1>4, <1>5, <1>6, <1>7, <1>8
    DEF ImageRequests, clone_job, finalize_payload_after_enqueue, promote_asset_to_job

\* What finalizers and syntheses leave of the images and of the life of a job.
WriterFrame ==
  /\ UNCHANGED <<payload, staging, assets, handler, accepted, uploaded, asked>>
  /\ \A j \in Jobs : (Born(j)' <=> Born(j)) /\ (Gone(j)' <=> Gone(j))

LEMMA FinalizerFrame ==
  ASSUME AssetsTypeOK, SynthesisTypeOK, WriterInv, NEW f \in Finalizers, Finalize(f)
  PROVE  WriterFrame /\ AssetsTypeOK'
  <1> USE DEF Born, Gone, AssetsTypeOK, WriterFrame, assetsVars, Step, Writers
  <1>0. pc[f] \notin {"idle", "done"} => job[f] \in Jobs /\ row[job[f]] # "unborn"
    BY DEF WriterInv
  <1>1. CASE FinStart(f)
    BY <1>1 DEF FinStart
  <1>2. CASE FinFails(f)
    <2>1. row' = [row EXCEPT ![job[f]] = IF @ = "deleted" THEN @ ELSE "failed"] /\ job[f] \in Jobs /\ row[job[f]] # "unborn"
      BY <1>0, <1>2 DEF FinFails
    <2> QED BY <1>2, <2>1 DEF FinFails
  <1>3. CASE FinOpen(f)
    BY <1>0, <1>3 DEF FinOpen
  <1>4. CASE FinWrite(f)
    BY <1>4 DEF FinWrite
  <1>5. CASE FinText(f)
    BY <1>0, <1>5 DEF FinText
  <1>6. CASE FinComplete(f)
    <2>1. row' = [row EXCEPT ![job[f]] = IF @ = "deleted" THEN @ ELSE "completed"] /\ job[f] \in Jobs /\ row[job[f]] # "unborn"
      BY <1>0, <1>6 DEF FinComplete
    <2> QED BY <1>6, <2>1 DEF FinComplete
  <1> QED BY <1>1, <1>2, <1>3, <1>4, <1>5, <1>6 DEF Finalize

LEMMA SynthesisFrame ==
  ASSUME AssetsTypeOK, NEW r \in Requests, synthesize_job_report(r)
  PROVE  WriterFrame /\ AssetsTypeOK' /\ UNCHANGED assetsVars
  <1>1. UNCHANGED assetsVars
    BY DEF synthesize_job_report, SynRead, run_synthesis_llm, SynOpen, SynOpenFails, SynWrite, append_synthesis_to_md,
           patch_job_result_summary, PatchRead, PatchWrite, SynNotify
  <1> QED BY <1>1 DEF assetsVars, WriterFrame, AssetsTypeOK, Born, Gone

LEMMA AssetsTypeNext == TypeOK /\ IdsInv /\ WriterInv /\ [Next]_vars => AssetsTypeOK'
  <1> SUFFICES ASSUME TypeOK, IdsInv, WriterInv, [Next]_vars PROVE AssetsTypeOK'
    OBVIOUS
  <1>0. AssetsTypeOK /\ SynthesisTypeOK
    BY DEF TypeOK
  <1>1. CASE ImageRequests
    BY <1>0, <1>1, ImageRequestsType
  <1>2. ASSUME NEW f \in Finalizers, Finalize(f) PROVE AssetsTypeOK'
    BY <1>0, <1>2, FinalizerFrame
  <1>3. ASSUME NEW r \in Requests, synthesize_job_report(r) PROVE AssetsTypeOK'
    BY <1>0, <1>3, SynthesisFrame
  <1>4. ASSUME NEW j \in Jobs, DeleteRows(j) PROVE AssetsTypeOK'
    BY <1>0, <1>4 DEF DeleteRows, AssetsTypeOK
  <1>5. ASSUME NEW j \in Jobs, purge_job_output_dir(j) PROVE AssetsTypeOK'
    BY <1>0, <1>5 DEF purge_job_output_dir, AssetsTypeOK
  <1>6. CASE ApiDies
    <2>1. Idle \in [pc: {"idle", "clone", "a", "b", "update"}, job: 0..MaxJob, out: [Arms -> Images]]
      BY ImageTypes, AssetsAssumption DEF Idle
    <2> QED BY <1>0, <1>6, <2>1 DEF ApiDies, Stop, AssetsTypeOK
  <1>7. CASE FinalizerDies
    BY <1>0, <1>7 DEF FinalizerDies, Stop, AssetsTypeOK
  <1>8. CASE UNCHANGED vars
    BY <1>0, <1>8 DEF vars, assetsVars, AssetsTypeOK
  <1> QED BY <1>1, <1>2, <1>3, <1>4, <1>5, <1>6, <1>7, <1>8 DEF Next, delete_job_endpoint

LEMMA PathsAreOfJobs == \A ref \in Images : ref.type = "path" => ref.job \in Jobs /\ ref.arm \in Arms
  BY DEF Images, Sent, NoImage, Url, Staged, Stored

LEMMA WriterFrameKeeps ==
  ASSUME ImageInv, WriterFrame, UNCHANGED deleting
  PROVE  IdsInv' /\ MeaningInv' /\ PromotedInv' /\ ReferenceInv' /\ PlaceInv'
  <1>1. /\ UNCHANGED <<payload, staging, assets, handler, accepted, uploaded, asked>>
        /\ \A j \in Jobs : (Born(j)' <=> Born(j)) /\ (Gone(j)' <=> Gone(j))
    BY DEF WriterFrame
  <1>2. deleting \subseteq Jobs /\ AssetsTypeOK
    BY DEF ImageInv, TypeOK
  <1>3. IdsInv'
    BY <1>1, <1>2 DEF ImageInv, IdsInv, AssetsTypeOK
  <1>4. MeaningInv'
    <2>1. \A ref, meant \in Images : Means(ref, meant) => Means(ref, meant)'
      BY <1>1, PathsAreOfJobs DEF Means
    <2> QED BY <1>1, <1>2, <2>1 DEF ImageInv, MeaningInv, IdsInv, AssetsTypeOK
  <1>5. PromotedInv'
    BY <1>1 DEF ImageInv, PromotedInv, Filling, Pending
  <1>6. ReferenceInv'
    BY <1>1, <1>2, PathsAreOfJobs DEF ImageInv, ReferenceInv, Pending, AssetsTypeOK
  <1>7. PlaceInv'
    BY <1>1 DEF ImageInv, PlaceInv
  <1> QED BY <1>3, <1>4, <1>5, <1>6, <1>7

LEMMA DeletionKeepsImages ==
  ASSUME ImageInv, NEW j \in Jobs, delete_job_endpoint(j)
  PROVE  IdsInv' /\ MeaningInv' /\ PromotedInv' /\ ReferenceInv' /\ PlaceInv'
  <1>0. AssetsTypeOK /\ deleting \subseteq Jobs
    BY DEF ImageInv, TypeOK
  <1>1. CASE DeleteRows(j)
    <2>1. /\ UNCHANGED <<payload, staging, assets, handler, accepted, uploaded, asked>>
          /\ deleting' = deleting \cup {j}
          /\ \A k \in Jobs : (Born(k)' <=> Born(k)) /\ (Gone(k)' <=> Gone(k) \/ k = j)
      BY <1>0, <1>1 DEF DeleteRows, Born, Gone, AssetsTypeOK
    <2>2. IdsInv'
      BY <1>0, <2>1 DEF ImageInv, IdsInv, AssetsTypeOK
    <2>3. MeaningInv'
      <3>1. \A ref, meant \in Images : Means(ref, meant) => Means(ref, meant)'
        BY <2>1, PathsAreOfJobs DEF Means
      <3> QED BY <1>0, <2>1, <3>1 DEF ImageInv, MeaningInv, IdsInv, AssetsTypeOK
    <2>4. PromotedInv'
      BY <2>1 DEF ImageInv, PromotedInv, Filling, Pending
    <2>5. ReferenceInv'
      BY <1>0, <2>1, PathsAreOfJobs DEF ImageInv, ReferenceInv, Pending, AssetsTypeOK
    <2>6. PlaceInv'
      BY <2>1 DEF ImageInv, PlaceInv
    <2> QED BY <2>2, <2>3, <2>4, <2>5, <2>6
  <1>2. CASE purge_job_output_dir(j)
    <2>1. /\ UNCHANGED <<row, payload, staging, handler, accepted, uploaded, asked>>
          /\ deleting' = deleting \ {j} /\ Gone(j)
          /\ assets' = [assets EXCEPT ![j] = [arm \in Arms |-> NoFile]]
      BY <1>2 DEF purge_job_output_dir, ImageInv, IdsInv
    <2>2. \A k \in Jobs, arm \in Arms : assets'[k][arm] = IF k = j THEN NoFile ELSE assets[k][arm]
      BY <1>0, <2>1 DEF AssetsTypeOK
    <2>3. IdsInv'
      BY <2>1, <2>2 DEF ImageInv, IdsInv, Born, Gone
    <2>4. MeaningInv'
      <3>1. \A ref, meant \in Images : Means(ref, meant) => Means(ref, meant)'
        BY <2>1, <2>2, PathsAreOfJobs DEF Means, Gone
      <3> QED BY <1>0, <2>1, <3>1 DEF ImageInv, MeaningInv, IdsInv, AssetsTypeOK, Born
    <2>5. PromotedInv'
      BY <2>1 DEF ImageInv, PromotedInv, Filling, Pending
    <2>6. ReferenceInv'
      BY <2>1, <2>2 DEF ImageInv, IdsInv, ReferenceInv, Pending, Born
    <2>7. PlaceInv'
      <3>1. \A k \in Jobs, arm \in Arms : assets'[k][arm] # NoFile => assets'[k][arm] = assets[k][arm] /\ k # j
        BY <2>2
      <3>2. ASSUME NEW k \in Jobs, NEW arm \in Arms, assets'[k][arm] # NoFile
            PROVE  /\ assets'[k][arm] \in uploaded' \ staging'
                   /\ asked'[k][arm] = Staged(assets'[k][arm])
                   /\ \A l \in Jobs, x \in Arms : assets'[l][x] = assets'[k][arm] => l = k /\ x = arm
        BY <2>1, <3>1, <3>2 DEF ImageInv, PlaceInv
      <3>3. ASSUME NEW u \in uploaded' \ staging'
            PROVE  \E k \in Jobs, arm \in Arms : assets'[k][arm] = u \/ (Gone(k)' /\ asked'[k][arm] = Staged(u))
        <4>1. PICK k \in Jobs, arm \in Arms : assets[k][arm] = u \/ (Gone(k) /\ asked[k][arm] = Staged(u))
          BY <2>1 DEF ImageInv, PlaceInv
        <4>2. u # NoFile
          BY <1>0, <2>1, AssetsAssumption DEF AssetsTypeOK
        <4>3. asked[k][arm] = Staged(u)
          BY <4>1, <4>2 DEF ImageInv, PlaceInv
        <4> QED BY <2>1, <2>2, <4>1, <4>3 DEF Gone
      <3> QED BY <3>2, <3>3 DEF PlaceInv
    <2> QED BY <2>3, <2>4, <2>5, <2>6, <2>7
  <1> QED BY <1>1, <1>2 DEF delete_job_endpoint

LEMMA DeathKeepsImages ==
  ASSUME ImageInv, ApiDies
  PROVE  IdsInv' /\ MeaningInv' /\ PromotedInv' /\ ReferenceInv' /\ PlaceInv'
  <1>1. /\ UNCHANGED <<row, payload, staging, assets, accepted, uploaded, asked>>
        /\ handler' = Idle /\ deleting' = {} /\ handler'.pc = "idle"
    BY DEF ApiDies, Stop, Idle
  <1>2. IdsInv'
    BY <1>1 DEF ImageInv, IdsInv, Born
  <1>3. MeaningInv'
    BY <1>1 DEF ImageInv, MeaningInv, Means, Born, Gone
  <1>4. PromotedInv'
    BY <1>1 DEF ImageInv, PromotedInv, Filling
  <1>5. ReferenceInv'
    BY <1>1 DEF ImageInv, ReferenceInv, Pending, Born
  <1>6. PlaceInv'
    BY <1>1 DEF ImageInv, PlaceInv, Gone
  <1> QED BY <1>2, <1>3, <1>4, <1>5, <1>6

LEMMA NextIdIsFresh ==
  ASSUME AssetsTypeOK, IdsInv, NextId \in Jobs
  PROVE  ~Born(NextId) /\ \A j \in Jobs : Born(j) \/ j = NextId <=> j <= NextId
  <1>1. PICK n \in 0..MaxJob : \A j \in Jobs : Born(j) <=> j <= n
    BY DEF IdsInv
  <1>2. {j \in Jobs : row[j] # "unborn"} = 1..n
    BY <1>1, AssetsAssumption DEF Born, Jobs
  <1>3. Cardinality(1..n) = n
    BY <1>1, AssetsAssumption, FS_Interval
  <1>4. NextId = n + 1
    BY <1>2, <1>3 DEF NextId
  <1> QED BY <1>1, <1>4, AssetsAssumption DEF Jobs

LEMMA EnqueueKeepsImages ==
  ASSUME ImageInv, NEW refs \in [Arms -> Images], NEW meant \in [Arms -> Images], enqueue_job(refs, meant),
         UNCHANGED deleting,
         \A arm \in Arms : Means(refs[arm], meant[arm]),
         \A arm \in Arms : refs[arm].type = "path" => Born(refs[arm].job)
  PROVE  IdsInv' /\ MeaningInv' /\ PromotedInv' /\ ReferenceInv' /\ PlaceInv'
  <1> DEFINE n == NextId
  <1>0. AssetsTypeOK /\ IdsInv /\ deleting \subseteq Jobs
    BY DEF ImageInv, TypeOK
  <1>1. n \in Jobs /\ n \in 0..MaxJob /\ ~Born(n) /\ \A j \in Jobs : Born(j) \/ j = n <=> j <= n
    BY <1>0, NextIdIsFresh, AssetsAssumption DEF enqueue_job, Jobs
  <1>2. /\ row' = [row EXCEPT ![n] = "preparing"]
        /\ payload' = [payload EXCEPT ![n] = refs]
        /\ asked' = [asked EXCEPT ![n] = meant]
        /\ handler' = [pc |-> "a", job |-> n, out |-> refs]
        /\ UNCHANGED <<staging, dir, assets, accepted, uploaded>>
    BY DEF enqueue_job
  <1> HIDE DEF n
  <1>3. \A j \in Jobs : (Born(j)' <=> Born(j) \/ j = n) /\ (Gone(j)' <=> Gone(j)) /\ (Gone(j) => j # n)
    BY <1>0, <1>1, <1>2 DEF Born, Gone, AssetsTypeOK
  <1>4. \A j \in Jobs : /\ payload'[j] = IF j = n THEN refs ELSE payload[j]
                        /\ asked'[j] = IF j = n THEN meant ELSE asked[j]
    BY <1>0, <1>2 DEF AssetsTypeOK
  <1>5. handler'.pc = "a" /\ handler'.job = n /\ handler'.out = refs
    BY <1>2
  <1>6. n \notin accepted /\ n \notin deleting /\ \A arm \in Arms : assets[n][arm] = NoFile
    BY <1>0, <1>1 DEF IdsInv, Born, Gone
  <1>7. \A ref, want \in Images : Means(ref, want) => Means(ref, want)'
    BY <1>2, <1>3, PathsAreOfJobs DEF Means
  <1>8. IdsInv'
    BY <1>0, <1>1, <1>2, <1>3, <1>5, <1>6 DEF IdsInv
  <1>9. MeaningInv'
    <2>1. \A j \in Jobs, arm \in Arms : Born(j) => Means(payload[j][arm], asked[j][arm])
      BY DEF ImageInv, MeaningInv
    <2>2. \A j \in Jobs, arm \in Arms : payload[j][arm] \in Images
      BY <1>0 DEF AssetsTypeOK
    <2>3. \A j \in Jobs, arm \in Arms : Born(j) => Means(payload[j][arm], asked[j][arm])'
      BY <1>1, <1>2, <1>3, <1>4, <2>1, <2>2, PathsAreOfJobs DEF Means, Gone, Born
    <2>4. \A j \in Jobs, arm \in Arms : j = n => Means(payload[j][arm], asked[j][arm])'
      BY <1>1, <1>2, <1>3, <1>4, PathsAreOfJobs DEF Means, Gone
    <2>5. \A arm \in Arms : Means(handler.out[arm], asked[handler.job][arm])'
      BY <1>1, <1>4, <1>5, <2>4 DEF Means, Gone
    <2> QED BY <1>3, <2>3, <2>4, <2>5 DEF MeaningInv, Means, Gone, Born
  <1>10. PromotedInv'
    <2>1. \A arm \in Arms : Pending(arm)'
      BY <1>5 DEF Pending
    <2>2. \A j \in accepted' : j \in Jobs /\ j # n /\ j \in accepted
      BY <1>0, <1>2, <1>6 DEF AssetsTypeOK
    <2> QED BY <1>4, <2>1, <2>2 DEF ImageInv, PromotedInv
  <1>11. ReferenceInv'
    <2>1. ASSUME NEW j \in Jobs, NEW arm \in Arms, Born(j)', payload'[j][arm].type = "path"
          PROVE  payload'[j][arm].job \in Jobs /\ Born(payload'[j][arm].job)
      <3>1. payload[j][arm] \in Images
        BY <1>0 DEF AssetsTypeOK
      <3>2. CASE j = n
        BY <1>4, <2>1, <3>2, PathsAreOfJobs
      <3>3. CASE j # n
        <4>1. payload'[j][arm] = payload[j][arm] /\ Born(j)
          BY <1>3, <1>4, <2>1, <3>3
        <4>2. Born(payload[j][arm].job)
          BY <2>1, <4>1 DEF ImageInv, ReferenceInv
        <4> QED BY <2>1, <3>1, <4>1, <4>2, PathsAreOfJobs
      <3> QED BY <3>2, <3>3
    <2>2. ASSUME NEW arm \in Arms, refs[arm].type = "path" PROVE refs[arm].job \in Jobs /\ Born(refs[arm].job)
      BY <2>2, PathsAreOfJobs
    <2>3. \A arm \in Arms : Stored(n, arm).type = "path" /\ Stored(n, arm).job = n
      BY DEF Stored
    <2>4. \A arm \in Arms : assets'[n][arm] = NoFile
      BY <1>2, <1>6
    <2> QED BY <1>1, <1>3, <1>5, <2>1, <2>2, <2>3, <2>4 DEF ReferenceInv
  <1>12. PlaceInv'
    <2>1. ASSUME NEW j \in Jobs, NEW arm \in Arms, assets'[j][arm] # NoFile
          PROVE  /\ assets'[j][arm] \in uploaded' \ staging'
                 /\ asked'[j][arm] = Staged(assets'[j][arm])
                 /\ \A k \in Jobs, x \in Arms : assets'[k][x] = assets'[j][arm] => k = j /\ x = arm
      BY <1>2, <1>4, <1>6, <2>1 DEF ImageInv, PlaceInv
    <2>2. ASSUME NEW u \in uploaded' \ staging'
          PROVE  \E j \in Jobs, arm \in Arms : assets'[j][arm] = u \/ (Gone(j)' /\ asked'[j][arm] = Staged(u))
      <3>1. PICK j \in Jobs, arm \in Arms : assets[j][arm] = u \/ (Gone(j) /\ asked[j][arm] = Staged(u))
        BY <1>2 DEF ImageInv, PlaceInv
      <3> QED BY <1>2, <1>3, <1>4, <3>1
    <2> QED BY <2>1, <2>2 DEF PlaceInv
  <1> QED BY <1>8, <1>9, <1>10, <1>11, <1>12

LEMMA MoveKeepsImages ==
  ASSUME ImageInv, NEW arm \in Arms, Move(arm), UNCHANGED deleting
  PROVE  IdsInv' /\ MeaningInv' /\ PromotedInv' /\ ReferenceInv' /\ PlaceInv'
  <1> DEFINE ref == handler.out[arm]
             n == handler.job
             u == ref.upload
  <1>0. AssetsTypeOK /\ IdsInv /\ deleting \subseteq Jobs
    BY DEF ImageInv, TypeOK
  <1>1. /\ handler.pc = arm /\ ref.type = "asset_ref" /\ u \in staging
        /\ staging' = staging \ {u}
        /\ assets' = [assets EXCEPT ![n][arm] = u]
        /\ handler'.pc = IF arm = "a" THEN "b" ELSE "update"
        /\ handler'.job = n
        /\ handler'.out = [handler.out EXCEPT ![arm] = Stored(n, arm)]
        /\ UNCHANGED <<row, payload, accepted, uploaded, asked>>
    BY <1>0 DEF Move, exists, AssetsTypeOK
  <1>2. n \in Jobs /\ Born(n) /\ handler.pc # "idle" /\ Filling /\ Pending(arm) /\ u \in uploaded /\ u # NoFile
    BY <1>0, <1>1, AssetsAssumption DEF IdsInv, Filling, Pending, Arms, AssetsTypeOK
  <1>3. asked[n][arm] = ref /\ ref = Staged(u)
    <2>1. ref \in Images
      BY <1>0 DEF AssetsTypeOK
    <2>2. ref = Staged(u)
      BY <1>1, <2>1 DEF Images, Sent, NoImage, Url, Staged, Stored
    <2> QED BY <1>1, <1>2, <2>2 DEF ImageInv, MeaningInv, Means
  <1> HIDE DEF ref, n, u
  <1>4. /\ assets[n][arm] = NoFile
        /\ \A j \in Jobs, x \in Arms : Born(j) => payload[j][x] # Stored(n, arm)
        /\ \A x \in Arms : handler.out[x] # Stored(n, arm)
    BY <1>2 DEF ImageInv, ReferenceInv, n
  <1>5. \A j \in Jobs, x \in Arms : assets'[j][x] = IF j = n /\ x = arm THEN u ELSE assets[j][x]
    BY <1>0, <1>1, <1>2 DEF AssetsTypeOK
  <1>6. \A x \in Arms : handler'.out[x] = IF x = arm THEN Stored(n, arm) ELSE handler.out[x]
    BY <1>0, <1>1 DEF AssetsTypeOK
  <1>7. \A j \in Jobs : (Born(j)' <=> Born(j)) /\ (Gone(j)' <=> Gone(j))
    BY <1>1 DEF Born, Gone
  <1>8. \A image \in Images : image.type = "path" /\ image.job = n /\ image.arm = arm => image = Stored(n, arm)
    BY DEF Images, Sent, NoImage, Url, Staged, Stored
  <1>9. \A image, meant \in Images : Means(image, meant) /\ image # Stored(n, arm) => Means(image, meant)'
    BY <1>5, <1>7, <1>8, PathsAreOfJobs DEF Means
  <1>10. IdsInv'
    BY <1>0, <1>1, <1>2, <1>5, <1>7 DEF IdsInv
  <1>11. MeaningInv'
    <2>1. ASSUME NEW j \in Jobs, NEW x \in Arms, Born(j) PROVE Means(payload[j][x], asked[j][x])'
      <3>1. payload[j][x] \in Images /\ asked[j][x] \in Images
        BY <1>0 DEF AssetsTypeOK
      <3>2. Means(payload[j][x], asked[j][x]) /\ payload[j][x] # Stored(n, arm)
        BY <1>4, <2>1 DEF ImageInv, MeaningInv
      <3> QED BY <1>1, <1>9, <3>1, <3>2 DEF Means, Gone
    <2>2. ASSUME NEW x \in Arms PROVE Means(handler.out[x], asked[handler.job][x])'
      <3>1. CASE x = arm
        <4>1. handler'.out[x] = Stored(n, arm) /\ asked'[handler'.job][x] = Staged(u) /\ assets'[n][arm] = u
          BY <1>1, <1>2, <1>3, <1>5, <1>6, <3>1
        <4> QED BY <4>1 DEF Means, Stored, Staged
      <3>2. CASE x # arm
        <4>1. handler.out[x] \in Images /\ asked[n][x] \in Images
          BY <1>0, <1>2 DEF AssetsTypeOK
        <4>2. Means(handler.out[x], asked[n][x]) /\ handler.out[x] # Stored(n, arm)
          BY <1>2, <1>4 DEF ImageInv, MeaningInv, n
        <4>3. handler'.out[x] = handler.out[x] /\ asked'[handler'.job][x] = asked[n][x]
          BY <1>1, <1>6, <3>2
        <4> QED BY <1>1, <1>9, <4>1, <4>2, <4>3 DEF Means, Gone
      <3> QED BY <3>1, <3>2
    <2> QED BY <1>7, <2>1, <2>2 DEF MeaningInv, Means, Gone, Born
  <1>12. PromotedInv'
    <2>1. \A x \in Arms : Filling' /\ ~Pending(x)' => x = arm \/ ~Pending(x)
      BY <1>1 DEF Filling, Pending, Arms
    <2>2. \A x \in Arms : Stored(n, x).type # "asset_ref"
      BY DEF Stored
    <2> QED BY <1>1, <1>2, <1>6, <2>1, <2>2 DEF ImageInv, PromotedInv
  <1>13. ReferenceInv'
    <2>1. \A x \in Arms : Pending(x)' => x # arm /\ Pending(x)
      BY <1>1 DEF Pending, Arms
    <2>2. \A x \in Arms : Stored(n, x).type = "path" /\ Stored(n, x).job = n /\ Stored(n, x).arm = x
      BY DEF Stored
    <2>3. \A j \in Jobs, x \in Arms : Born(j) /\ payload[j][x].type = "path" =>
            payload[j][x].job \in Jobs /\ Born(payload[j][x].job)
      BY <1>0, PathsAreOfJobs DEF ImageInv, ReferenceInv, AssetsTypeOK
    <2>4. \A x \in Arms : handler'.out[x].type = "path" => handler'.out[x].job \in Jobs /\ Born(handler'.out[x].job)
      BY <1>0, <1>2, <1>6, <2>2, PathsAreOfJobs DEF ImageInv, ReferenceInv, AssetsTypeOK
    <2>5. ASSUME NEW y \in Arms, Pending(y)'
          PROVE  /\ assets'[handler'.job][y] = NoFile
                 /\ \A j \in Jobs, x \in Arms : Born(j) => payload'[j][x] # Stored(handler'.job, y)
                 /\ \A x \in Arms : handler'.out[x] # Stored(handler'.job, y)
      <3>1. y # arm /\ Pending(y)
        BY <2>1, <2>5
      <3>2. /\ assets[n][y] = NoFile
            /\ \A j \in Jobs, x \in Arms : Born(j) => payload[j][x] # Stored(n, y)
            /\ \A x \in Arms : handler.out[x] # Stored(n, y)
        BY <3>1 DEF ImageInv, ReferenceInv, n
      <3>3. Stored(n, arm) # Stored(n, y)
        BY <2>2, <3>1
      <3> QED BY <1>1, <1>2, <1>5, <1>6, <3>1, <3>2, <3>3
    <2> QED BY <1>1, <1>7, <2>3, <2>4, <2>5 DEF ReferenceInv
  <1>14. PlaceInv'
    <2>1. \A j \in Jobs, x \in Arms : assets[j][x] # u
      BY <1>1, <1>2 DEF ImageInv, PlaceInv
    <2>2. ASSUME NEW j \in Jobs, NEW x \in Arms, assets'[j][x] # NoFile
          PROVE  /\ assets'[j][x] \in uploaded' \ staging'
                 /\ asked'[j][x] = Staged(assets'[j][x])
                 /\ \A k \in Jobs, y \in Arms : assets'[k][y] = assets'[j][x] => k = j /\ y = x
      <3>1. CASE j = n /\ x = arm
        BY <1>1, <1>2, <1>3, <1>5, <2>1, <3>1
      <3>2. CASE ~(j = n /\ x = arm)
        <4>1. assets'[j][x] = assets[j][x] /\ assets[j][x] # NoFile
          BY <1>5, <2>2, <3>2
        <4> QED BY <1>1, <1>5, <2>1, <4>1 DEF ImageInv, PlaceInv
      <3> QED BY <3>1, <3>2
    <2>3. ASSUME NEW v \in uploaded' \ staging'
          PROVE  \E j \in Jobs, x \in Arms : assets'[j][x] = v \/ (Gone(j)' /\ asked'[j][x] = Staged(v))
      <3>1. CASE v = u
        BY <1>2, <1>5, <3>1
      <3>2. CASE v # u
        <4>1. PICK j \in Jobs, x \in Arms : assets[j][x] = v \/ (Gone(j) /\ asked[j][x] = Staged(v))
          BY <1>1, <2>3, <3>2 DEF ImageInv, PlaceInv
        <4>2. v # NoFile
          BY <1>0, <1>1, AssetsAssumption DEF AssetsTypeOK
        <4> QED BY <1>1, <1>4, <1>5, <1>7, <4>1, <4>2
      <3> QED BY <3>1, <3>2
    <2> QED BY <2>2, <2>3 DEF PlaceInv
  <1> QED BY <1>10, <1>11, <1>12, <1>13, <1>14

LEMMA ImageRequestsKeepImages ==
  ASSUME ImageInv, ImageRequests, UNCHANGED deleting
  PROVE  IdsInv' /\ MeaningInv' /\ PromotedInv' /\ ReferenceInv' /\ PlaceInv'
  <1>0. AssetsTypeOK /\ IdsInv /\ deleting \subseteq Jobs
    BY DEF ImageInv, TypeOK
  <1>1. ASSUME NEW u \in Uploads, save_upload_to_staging(u)
        PROVE  IdsInv' /\ MeaningInv' /\ PromotedInv' /\ ReferenceInv' /\ PlaceInv'
    <2>1. /\ UNCHANGED <<row, payload, assets, handler, accepted, asked>>
          /\ u \notin uploaded /\ staging' = staging \cup {u} /\ uploaded' = uploaded \cup {u}
      BY <1>1 DEF save_upload_to_staging
    <2>2. IdsInv' /\ MeaningInv' /\ PromotedInv' /\ ReferenceInv'
      BY <2>1 DEF ImageInv, IdsInv, MeaningInv, Means, PromotedInv, ReferenceInv, Born, Gone, Filling, Pending
    <2>3. PlaceInv'
      BY <2>1 DEF ImageInv, PlaceInv, Gone
    <2> QED BY <2>2, <2>3
  <1>2. CASE create_job
    <2>1. PICK refs \in Forms : enqueue_job(refs, refs)
      BY <1>2 DEF create_job
    <2>2. refs \in [Arms -> Images] /\ \A arm \in Arms : refs[arm].type # "path"
      BY ImageTypes, AssetsAssumption DEF Sent, NoImage, Url, Staged
    <2>3. \A arm \in Arms : Means(refs[arm], refs[arm])
      BY <2>2 DEF Means
    <2> QED BY <2>1, <2>2, <2>3, EnqueueKeepsImages
  <1>3. CASE CloneRead
    <2>1. PICK j \in Jobs : Born(j) /\ handler' = [pc |-> "clone", job |-> j, out |-> payload[j]]
      BY <1>3 DEF CloneRead, Born
    <2>2. UNCHANGED <<row, payload, staging, assets, accepted, uploaded, asked>>
      BY <1>3 DEF CloneRead
    <2>3. handler'.pc = "clone" /\ handler'.job = j /\ handler'.out = payload[j]
      BY <2>1
    <2>4. IdsInv' /\ PromotedInv' /\ PlaceInv'
      BY <2>1, <2>2, <2>3 DEF ImageInv, IdsInv, PromotedInv, PlaceInv, Born, Gone, Filling, Pending
    <2>5. MeaningInv' /\ ReferenceInv'
      BY <2>1, <2>2, <2>3 DEF ImageInv, MeaningInv, Means, ReferenceInv, Born, Gone, Pending
    <2> QED BY <2>4, <2>5
  <1>4. CASE CloneEnqueue
    <2>1. handler.pc = "clone" /\ enqueue_job(handler.out, asked[handler.job])
      BY <1>4 DEF CloneEnqueue
    <2>2. handler.job \in Jobs /\ handler.out \in [Arms -> Images] /\ asked[handler.job] \in [Arms -> Images]
      BY <1>0, <2>1 DEF IdsInv, AssetsTypeOK
    <2>3. \A arm \in Arms : Means(handler.out[arm], asked[handler.job][arm])
      BY <2>1 DEF ImageInv, MeaningInv
    <2>4. \A arm \in Arms : handler.out[arm].type = "path" => Born(handler.out[arm].job)
      BY <2>1 DEF ImageInv, ReferenceInv
    <2> QED BY <2>1, <2>2, <2>3, <2>4, EnqueueKeepsImages
  <1>5. ASSUME NEW arm \in Arms, Move(arm)
        PROVE  IdsInv' /\ MeaningInv' /\ PromotedInv' /\ ReferenceInv' /\ PlaceInv'
    BY <1>5, MoveKeepsImages
  <1>6. ASSUME NEW arm \in Arms, Keep(arm)
        PROVE  IdsInv' /\ MeaningInv' /\ PromotedInv' /\ ReferenceInv' /\ PlaceInv'
    <2>1. /\ UNCHANGED <<row, payload, staging, assets, accepted, uploaded, asked>>
          /\ handler.pc = arm /\ handler.out[arm].type # "asset_ref"
          /\ handler'.pc = IF arm = "a" THEN "b" ELSE "update"
          /\ handler'.job = handler.job /\ handler'.out = handler.out
      BY <1>0, <1>6 DEF Keep, AssetsTypeOK
    <2>2. handler.pc # "idle" /\ Filling /\ \A x \in Arms : Pending(x)' <=> Pending(x) /\ x # arm
      BY <2>1 DEF Filling, Pending, Arms
    <2>3. IdsInv' /\ PlaceInv'
      BY <2>1, <2>2 DEF ImageInv, IdsInv, PlaceInv, Born, Gone
    <2>4. MeaningInv' /\ ReferenceInv'
      BY <2>1, <2>2 DEF ImageInv, MeaningInv, Means, ReferenceInv, Born, Gone
    <2>5. PromotedInv'
      BY <2>1, <2>2 DEF ImageInv, PromotedInv
    <2> QED BY <2>3, <2>4, <2>5
  <1>7. ASSUME NEW arm \in Arms, Refuse(arm)
        PROVE  IdsInv' /\ MeaningInv' /\ PromotedInv' /\ ReferenceInv' /\ PlaceInv'
    <2>1. Filling /\ handler.job \in Jobs /\ row[handler.job] = "preparing"
      BY <1>7 DEF Refuse, Arms, Filling, ImageInv, FillingInv, IdsInv
    <2>2. /\ UNCHANGED <<payload, staging, assets, accepted, uploaded, asked>>
          /\ row' = [row EXCEPT ![handler.job] = "failed"] /\ handler'.pc = "idle"
      BY <1>7 DEF Refuse, Idle
    <2>3. \A j \in Jobs : (Born(j)' <=> Born(j)) /\ (Gone(j)' <=> Gone(j))
      BY <1>0, <2>1, <2>2 DEF Born, Gone, AssetsTypeOK
    <2>4. IdsInv' /\ PlaceInv' /\ PromotedInv'
      <3>1. IdsInv'
        BY <1>0, <2>2, <2>3 DEF IdsInv, AssetsTypeOK
      <3>2. PlaceInv'
        BY <2>2, <2>3 DEF ImageInv, PlaceInv
      <3>3. PromotedInv'
        BY <2>2 DEF ImageInv, PromotedInv, Filling
      <3> QED BY <3>1, <3>2, <3>3
    <2>5. \A ref, meant \in Images : Means(ref, meant) => Means(ref, meant)'
      BY <2>2, <2>3, PathsAreOfJobs DEF Means
    <2>6. MeaningInv'
      BY <1>0, <2>2, <2>3, <2>5 DEF ImageInv, MeaningInv, AssetsTypeOK
    <2>7. ReferenceInv'
      BY <1>0, <2>2, <2>3, PathsAreOfJobs DEF ImageInv, ReferenceInv, Pending, AssetsTypeOK
    <2> QED BY <2>4, <2>6, <2>7
  <1>8. CASE update_job_payload
    <2> DEFINE n == handler.job
    <2>1. /\ UNCHANGED <<row, staging, assets, uploaded, asked>> /\ handler'.pc = "idle"
          /\ handler.pc = "update" /\ n \in Jobs /\ Born(n)
          /\ payload' = [payload EXCEPT ![n] = handler.out]
          /\ accepted' = accepted \cup {n}
      BY <1>0, <1>8 DEF update_job_payload, Idle, IdsInv
    <2>2. Filling /\ \A x \in Arms : ~Pending(x)
      BY <2>1 DEF Filling, Pending
    <2>3. \A j \in Jobs : payload'[j] = IF j = n THEN handler.out ELSE payload[j]
      BY <1>0, <2>1 DEF AssetsTypeOK
    <2> HIDE DEF n
    <2>4. IdsInv' /\ PlaceInv'
      BY <2>1 DEF ImageInv, IdsInv, PlaceInv, Born, Gone
    <2>5. \A x \in Arms : /\ Means(handler.out[x], asked[n][x]) /\ handler.out[x].type # "asset_ref"
                          /\ handler.out[x].type = "path" => Born(handler.out[x].job)
      BY <2>1, <2>2 DEF ImageInv, MeaningInv, PromotedInv, ReferenceInv, n
    <2>6. MeaningInv'
      BY <2>1, <2>3, <2>5 DEF ImageInv, MeaningInv, Means, Born, Gone
    <2>7. PromotedInv'
      BY <1>0, <2>1, <2>3, <2>5 DEF ImageInv, PromotedInv, Filling, AssetsTypeOK
    <2>8. ReferenceInv'
      BY <2>1, <2>3, <2>5 DEF ImageInv, ReferenceInv, Pending, Born
    <2> QED BY <2>4, <2>6, <2>7, <2>8
  <1> QED
    BY <1>1, <1>2, <1>3, <1>4, <1>5, <1>6, <1>7, <1>8
    DEF ImageRequests, clone_job, finalize_payload_after_enqueue, promote_asset_to_job

LEMMA FillingNext == ImageInv /\ WriterInv /\ [Next]_vars => FillingInv'
  <1> SUFFICES ASSUME ImageInv, WriterInv, [Next]_vars PROVE FillingInv'
    OBVIOUS
  <1>0. AssetsTypeOK /\ SynthesisTypeOK /\ IdsInv /\ FillingInv
    BY DEF ImageInv, TypeOK
  <1>1. CASE ImageRequests /\ UNCHANGED synthesisVars
    <2>0. UNCHANGED <<pc, job>> /\ accepted \subseteq Jobs
      BY <1>0, <1>1 DEF synthesisVars, AssetsTypeOK
    <2>1. ASSUME NEW u \in Uploads, save_upload_to_staging(u) PROVE FillingInv'
      BY <1>0, <2>0, <2>1 DEF save_upload_to_staging, FillingInv, Filling
    <2>2. ASSUME NEW refs, NEW meant, enqueue_job(refs, meant) PROVE FillingInv'
      <3>1. NextId \in Jobs /\ NextId \notin accepted
        BY <1>0, <2>2, NextIdIsFresh DEF enqueue_job, IdsInv
      <3>2. handler'.job = NextId /\ row'[NextId] = "preparing" /\ UNCHANGED accepted
        BY <1>0, <2>2, <3>1 DEF enqueue_job, AssetsTypeOK
      <3> QED BY <1>0, <2>0, <3>1, <3>2 DEF FillingInv
    <2>3. CASE CloneRead
      BY <1>0, <2>0, <2>3 DEF CloneRead, FillingInv, Filling
    <2>4. ASSUME NEW arm \in Arms, Move(arm) \/ Keep(arm) PROVE FillingInv'
      <3>1. Filling /\ UNCHANGED <<row, accepted>> /\ handler'.job = handler.job
        BY <1>0, <2>4 DEF Move, Keep, Filling, Arms, AssetsTypeOK
      <3> QED BY <1>0, <2>0, <3>1 DEF FillingInv
    <2>5. ASSUME NEW arm \in Arms, Refuse(arm) PROVE FillingInv'
      BY <1>0, <2>0, <2>5 DEF Refuse, Idle, FillingInv, Filling
    <2>6. CASE update_job_payload
      BY <1>0, <2>0, <2>6 DEF update_job_payload, Idle, FillingInv, Filling
    <2> QED
      BY <1>1, <2>1, <2>2, <2>3, <2>4, <2>5, <2>6
      DEF ImageRequests, create_job, clone_job, CloneEnqueue, finalize_payload_after_enqueue, promote_asset_to_job
  <1>2. ASSUME NEW f \in Finalizers, Finalize(f) PROVE FillingInv'
    <2>1. UNCHANGED <<handler, accepted>>
      BY <1>0, <1>2, FinalizerFrame DEF WriterFrame
    <2>2. \A g \in Finalizers : pc'[g] \notin {"idle", "done"} => job'[g] \in accepted
      BY <1>0, <1>2 DEF FillingInv, SynthesisTypeOK, Writers, Finalize, FinStart, FinFails, FinOpen, FinWrite, FinText,
                        FinComplete, Step
    <2>3. \A j \in Jobs : j \notin accepted => row'[j] = row[j]
      BY <1>0, <1>2 DEF AssetsTypeOK, FillingInv, Finalize, FinStart, FinFails, FinOpen, FinWrite, FinText,
                        FinComplete, Step, assetsVars
    <2> QED BY <1>0, <2>1, <2>2, <2>3 DEF FillingInv, Filling, IdsInv
  <1>3. ASSUME NEW r \in Requests, synthesize_job_report(r) PROVE FillingInv'
    <2>1. UNCHANGED <<handler, accepted, row>>
      BY <1>0, <1>3, SynthesisFrame DEF assetsVars
    <2>2. \A g \in Finalizers : pc'[g] = pc[g] /\ job'[g] = job[g]
      BY <1>0, <1>3, SynthesisAssumption
      DEF SynthesisTypeOK, Writers, synthesize_job_report, SynRead, run_synthesis_llm, SynOpen, SynOpenFails, SynWrite,
          append_synthesis_to_md, patch_job_result_summary, PatchRead, PatchWrite, SynNotify, Step
    <2> QED BY <1>0, <2>1, <2>2 DEF FillingInv, Filling
  <1>4. ASSUME NEW j \in Jobs, delete_job_endpoint(j) PROVE FillingInv'
    BY <1>0, <1>4 DEF delete_job_endpoint, DeleteRows, purge_job_output_dir, FillingInv, Filling, AssetsTypeOK, IdsInv
  <1>5. CASE ApiDies \/ FinalizerDies
    <2>1. UNCHANGED <<row, accepted, job>> /\ (handler' = handler \/ handler' = Idle)
      BY <1>5 DEF ApiDies, FinalizerDies, Stop
    <2>2. \A w \in Writers : pc'[w] \in {pc[w], "done"}
      BY <1>5 DEF ApiDies, FinalizerDies, Stop
    <2> QED BY <1>0, <2>1, <2>2 DEF FillingInv, Filling, Idle, Writers
  <1>6. CASE UNCHANGED vars
    BY <1>0, <1>6 DEF vars, assetsVars, synthesisVars, FillingInv, Filling
  <1> QED BY <1>1, <1>2, <1>3, <1>4, <1>5, <1>6 DEF Next

LEMMA ImageInit == Init => IdsInv /\ MeaningInv /\ PromotedInv /\ ReferenceInv /\ PlaceInv /\ FillingInv
  <1> SUFFICES ASSUME Init PROVE IdsInv /\ MeaningInv /\ PromotedInv /\ ReferenceInv /\ PlaceInv /\ FillingInv
    OBVIOUS
  <1> USE DEF Init, AssetsInit, SynthesisInit, Idle, Born, Gone
  <1>1. IdsInv
    <2>1. 0 \in 0..MaxJob /\ \A j \in Jobs : ~Born(j) /\ ~(j <= 0)
      BY AssetsAssumption DEF Jobs
    <2> QED BY <2>1 DEF IdsInv
  <1>2. MeaningInv /\ PromotedInv /\ ReferenceInv
    BY DEF MeaningInv, PromotedInv, ReferenceInv, Filling, Pending
  <1>3. PlaceInv /\ FillingInv
    BY DEF PlaceInv, FillingInv, Filling, Writers
  <1> QED BY <1>1, <1>2, <1>3

-----------------------------------------------------------------------------
(* Types of the reports, and what the two halves of writing a report keep. *)

Reports == [state: {"none", "torn", "whole"}, text: Contents]

LEMMA OpenTypes ==
  ASSUME SynthesisTypeOK, NEW w \in Writers, NEW j \in Jobs, OpenReport(w, j)
  PROVE  /\ report' \in [Jobs -> Reports] /\ open' \in [Jobs -> SUBSET Writers]
         /\ mixed' \subseteq Writers /\ spoiled' \subseteq Jobs
  <1>1. report' \in [Jobs -> Reports] /\ open' \in [Jobs -> SUBSET Writers]
    BY ReportTypes DEF OpenReport, SynthesisTypeOK, Reports
  <1>2. mixed' \subseteq Writers /\ spoiled' \subseteq Jobs
    <2>1. open[j] \subseteq Writers
      BY DEF SynthesisTypeOK
    <2> QED BY <2>1 DEF OpenReport, SynthesisTypeOK
  <1> QED BY <1>1, <1>2

LEMMA WriteTypes ==
  ASSUME SynthesisTypeOK, NEW w \in Writers, NEW j \in Jobs, NEW text \in Contents, WriteReport(w, j, text)
  PROVE  /\ report' \in [Jobs -> Reports] /\ open' \in [Jobs -> SUBSET Writers]
         /\ mixed' \subseteq Writers /\ spoiled' \subseteq Jobs
  <1>1. report' = report \/ \E r \in {Whole(text), Torn} : report' = [report EXCEPT ![j] = r]
    BY DEF WriteReport
  <1>2. report' \in [Jobs -> Reports]
    BY <1>1, ReportTypes DEF SynthesisTypeOK, Reports
  <1>3. open' \in [Jobs -> SUBSET Writers] /\ mixed' \subseteq Writers
    BY DEF WriteReport, SynthesisTypeOK
  <1>4. spoiled' \subseteq Jobs
    BY DEF WriteReport, SynthesisTypeOK
  <1> QED BY <1>2, <1>3, <1>4

LEMMA FinalizerTypes ==
  ASSUME AssetsTypeOK, SynthesisTypeOK, WriterInv, NEW f \in Finalizers, Finalize(f)
  PROVE  SynthesisTypeOK'
  <1>0. f \in Writers /\ copy[f] \in Contents /\ (pc[f] \notin {"idle", "done"} => job[f] \in Jobs)
    BY DEF Writers, SynthesisTypeOK, WriterInv
  <1>1. CASE FinStart(f)
    <2>1. PICK j \in accepted : job' = [job EXCEPT ![f] = j]
      BY <1>1 DEF FinStart
    <2>2. j \in 0..MaxJob
      BY AssetsAssumption DEF AssetsTypeOK, Jobs
    <2>3. Aggregated(f) \in Contents
      BY ReportTypes
    <2> QED BY <1>0, <1>1, <2>1, <2>2, <2>3 DEF FinStart, Step, SynthesisTypeOK
  <1>2. CASE FinFails(f)
    BY <1>2 DEF FinFails, Step, SynthesisTypeOK
  <1>3. CASE FinOpen(f)
    <2>1. job[f] \in Jobs /\ OpenReport(f, job[f])
      BY <1>0, <1>3 DEF FinOpen, Step
    <2> QED BY <1>0, <1>3, <2>1, OpenTypes DEF FinOpen, Step, SynthesisTypeOK, Reports
  <1>4. CASE FinWrite(f)
    <2>1. job[f] \in Jobs /\ WriteReport(f, job[f], copy[f])
      BY <1>0, <1>4 DEF FinWrite, Step
    <2> QED BY <1>0, <1>4, <2>1, WriteTypes DEF FinWrite, Step, SynthesisTypeOK, Reports
  <1>5. CASE FinText(f)
    BY <1>0, <1>5 DEF FinText, Step, SynthesisTypeOK
  <1>6. CASE FinComplete(f)
    BY <1>0, <1>6 DEF FinComplete, Step, SynthesisTypeOK
  <1> QED BY <1>1, <1>2, <1>3, <1>4, <1>5, <1>6 DEF Finalize

LEMMA RequestTypes ==
  ASSUME SynthesisTypeOK, WriterInv, NEW r \in Requests, synthesize_job_report(r)
  PROVE  SynthesisTypeOK'
  <1>0. r \in Writers /\ copy[r] \in Contents /\ (pc[r] \notin {"idle", "done"} => job[r] \in Jobs)
    BY DEF Writers, SynthesisTypeOK, WriterInv
  <1>1. CASE SynRead(r)
    <2>1. PICK j \in Jobs : job' = [job EXCEPT ![r] = j] /\ copy' = [copy EXCEPT ![r] = report[j].text]
      BY <1>1 DEF SynRead
    <2>2. j \in 0..MaxJob /\ report[j].text \in Contents
      BY AssetsAssumption DEF SynthesisTypeOK, Jobs
    <2> QED BY <1>0, <1>1, <2>1, <2>2 DEF SynRead, Step, SynthesisTypeOK
  <1>2. CASE run_synthesis_llm(r)
    <2>1. PICK ok \in BOOLEAN : /\ copy' = [copy EXCEPT ![r] = [agg |-> @.agg, syn |-> r, basis |-> @.agg, ok |-> ok]]
                                /\ pc' = [pc EXCEPT ![r] = IF ok THEN After("call") ELSE "open"]
      BY <1>2 DEF run_synthesis_llm
    <2>2. [agg |-> copy[r].agg, syn |-> r, basis |-> copy[r].agg, ok |-> ok] \in Contents
      BY <1>0 DEF Contents
    <2>3. After("call") = "open"
      BY DEF After
    <2>4. copy' \in [Writers -> Contents]
      BY <1>0, <2>1, <2>2 DEF SynthesisTypeOK
    <2> QED BY <1>0, <1>2, <2>1, <2>3, <2>4 DEF run_synthesis_llm, SynthesisTypeOK
  <1>3. CASE SynOpen(r)
    <2>1. job[r] \in Jobs /\ OpenReport(r, job[r])
      BY <1>0, <1>3 DEF SynOpen, Step
    <2> QED BY <1>0, <1>3, <2>1, OpenTypes DEF SynOpen, Step, AfterOutcome, After, SynthesisTypeOK, Reports
  <1>4. CASE SynOpenFails(r)
    BY <1>4 DEF SynOpenFails, Step, SynthesisTypeOK
  <1>5. CASE SynWrite(r)
    <2>1. job[r] \in Jobs /\ WriteReport(r, job[r], copy[r])
      BY <1>0, <1>5 DEF SynWrite, Step
    <2> QED BY <1>0, <1>5, <2>1, WriteTypes DEF SynWrite, Step, AfterOutcome, After, SynthesisTypeOK, Reports
  <1>6. CASE append_synthesis_to_md(r)
    <2>1. job[r] \in Jobs /\ md[job[r]].agg \in Finalizers \cup {NoOne}
      BY <1>0, <1>6 DEF append_synthesis_to_md, Step, SynthesisTypeOK, Contents
    <2>2. [copy[r] EXCEPT !.agg = md[job[r]].agg] \in Contents
      BY <1>0, <2>1 DEF Contents
    <2>3. md' \in [Jobs -> Contents]
      BY <1>6, <2>1, <2>2 DEF append_synthesis_to_md, SynthesisTypeOK
    <2> QED BY <1>6, <2>3 DEF append_synthesis_to_md, Step, After, SynthesisTypeOK
  <1>7. CASE PatchRead(r)
    <2>1. summary[job[r]].agg \in Finalizers \cup {NoOne}
      BY <1>0, <1>7 DEF PatchRead, Step, SynthesisTypeOK, Contents
    <2>2. [copy[r] EXCEPT !.agg = summary[job[r]].agg] \in Contents
      BY <1>0, <2>1 DEF Contents
    <2>3. copy' \in [Writers -> Contents]
      BY <1>0, <1>7, <2>2 DEF PatchRead, SynthesisTypeOK
    <2> QED BY <1>7, <2>3 DEF PatchRead, Step, After, SynthesisTypeOK
  <1>8. CASE PatchWrite(r)
    BY <1>0, <1>8 DEF PatchWrite, Step, After, SynthesisTypeOK
  <1>9. CASE SynNotify(r)
    BY <1>0, <1>9 DEF SynNotify, Step, SynthesisTypeOK
  <1> QED
    BY <1>1, <1>2, <1>3, <1>4, <1>5, <1>6, <1>7, <1>8, <1>9 DEF synthesize_job_report, patch_job_result_summary

LEMMA TypeNext == TypeOK /\ IdsInv /\ WriterInv /\ [Next]_vars => TypeOK'
  <1> SUFFICES ASSUME TypeOK, IdsInv, WriterInv, [Next]_vars PROVE TypeOK'
    OBVIOUS
  <1> USE AssetsTypeNext
  <1>0. AssetsTypeOK /\ SynthesisTypeOK /\ deleting \subseteq Jobs /\ deaths \in 0..MaxDeaths
    BY DEF TypeOK
  <1>1. CASE ImageRequests /\ UNCHANGED <<synthesisVars, deleting, deaths>>
    BY <1>0, <1>1 DEF TypeOK, SynthesisTypeOK, synthesisVars
  <1>2. ASSUME NEW f \in Finalizers, Finalize(f), UNCHANGED <<deleting, deaths>> PROVE TypeOK'
    BY <1>0, <1>2, FinalizerTypes DEF TypeOK
  <1>3. ASSUME NEW r \in Requests, synthesize_job_report(r), UNCHANGED <<deleting, deaths>> PROVE TypeOK'
    BY <1>0, <1>3, RequestTypes DEF TypeOK
  <1>4. ASSUME NEW j \in Jobs, DeleteRows(j) PROVE TypeOK'
    <2>1. SynthesisTypeOK'
      BY <1>0, <1>4, ReportTypes DEF DeleteRows, SynthesisTypeOK
    <2> QED BY <1>0, <1>4, <2>1 DEF DeleteRows, TypeOK
  <1>5. ASSUME NEW j \in Jobs, purge_job_output_dir(j) PROVE TypeOK'
    <2>1. SynthesisTypeOK'
      BY <1>0, <1>5, ReportTypes DEF purge_job_output_dir, SynthesisTypeOK
    <2> QED BY <1>0, <1>5, <2>1 DEF purge_job_output_dir, TypeOK
  <1>6. ASSUME NEW W, Stop(W), deleting' \subseteq deleting PROVE TypeOK'
    <2>1. SynthesisTypeOK'
      BY <1>0, <1>6 DEF Stop, SynthesisTypeOK
    <2> QED BY <1>0, <1>6, <2>1, DeathsAssumption DEF Stop, TypeOK
  <1>7. CASE UNCHANGED vars
    BY <1>0, <1>7 DEF vars, assetsVars, synthesisVars, TypeOK, SynthesisTypeOK
  <1> QED BY <1>1, <1>2, <1>3, <1>4, <1>5, <1>6, <1>7 DEF Next, delete_job_endpoint, ApiDies, FinalizerDies

LEMMA OpenKeepsShared ==
  ASSUME SynthesisTypeOK, SharedInv, NEW w \in Writers, NEW j \in Jobs, job[w] = j, OpenReport(w, j),
         Step(w, "open", "write"), UNCHANGED job
  PROVE  SharedInv'
  <1>1. \A v \in Writers : pc'[v] = (IF v = w THEN "write" ELSE pc[v]) /\ job'[v] = job[v]
    BY DEF Step, SynthesisTypeOK
  <1>2. w \notin mixed /\ \A k \in Jobs : w \notin open[k] /\ open[k] \subseteq Writers
    BY DEF SharedInv, Step, SynthesisTypeOK
  <1>3. \A k \in Jobs : open'[k] = IF k = j THEN open[j] \cup {w} ELSE open[k]
    BY DEF OpenReport, SynthesisTypeOK
  <1>4. \A k \in Jobs : report'[k].state = "torn" => report[k].state = "torn" \/ k = j
    BY DEF OpenReport, SynthesisTypeOK
  <1>5. mixed \subseteq Writers
    BY DEF SynthesisTypeOK
  <1>6. CASE open[j] = {}
    BY <1>1, <1>2, <1>3, <1>4, <1>5, <1>6 DEF OpenReport, SharedInv
  <1>7. CASE open[j] # {}
    <2>1. mixed' = mixed \cup open[j] \cup {w} /\ spoiled' = spoiled \cup {j}
      BY <1>7 DEF OpenReport
    <2>2. \A k \in Jobs : k # j => open[k] \cap mixed' = open[k] \cap mixed
      BY <1>2, <2>1 DEF SharedInv
    <2>3. \A k \in Jobs : \A v \in open'[k] : pc'[v] = "write" /\ job'[v] = k
      BY <1>1, <1>2, <1>3 DEF SharedInv
    <2>4. \A v \in mixed' : \E k \in Jobs : v \in open'[k]
      BY <1>3, <2>1 DEF SharedInv
    <2>5. \A k \in Jobs : \A v \in open'[k] : v \in mixed' \/ open'[k] = {v}
      BY <1>3, <2>1 DEF SharedInv
    <2>6. \A k \in Jobs : open'[k] \cap mixed' # {} => k \in spoiled'
      BY <1>3, <2>1, <2>2 DEF SharedInv
    <2>7. \A k \in Jobs : report'[k].state = "torn" => open'[k] # {} \/ k \in spoiled'
      BY <1>3, <1>4, <2>1 DEF SharedInv
    <2> QED BY <2>3, <2>4, <2>5, <2>6, <2>7 DEF SharedInv
  <1> QED BY <1>6, <1>7

LEMMA WriteKeepsShared ==
  ASSUME SynthesisTypeOK, SharedInv, NEW w \in Writers, NEW j \in Jobs, job[w] = j, NEW text, WriteReport(w, j, text),
         NEW to, Step(w, "write", to), UNCHANGED job
  PROVE  SharedInv'
  <1>1. \A v \in Writers : v # w => pc'[v] = pc[v] /\ job'[v] = job[v]
    BY DEF Step, SynthesisTypeOK
  <1>2. \A k \in Jobs : w \in open[k] => k = j
    BY DEF SharedInv
  <1>3. /\ \A k \in Jobs : open'[k] = open[k] \ {w} /\ open[k] \subseteq Writers
        /\ mixed' = mixed \ {w}
    <2>1. \A k \in Jobs : open'[k] = IF k = j THEN open[j] \ {w} ELSE open[k]
      BY DEF WriteReport, SynthesisTypeOK
    <2> QED BY <1>2, <2>1 DEF WriteReport, SynthesisTypeOK
  <1>4. \A k \in Jobs : report'[k].state = "torn" => report[k].state = "torn" \/ (k = j /\ w \in open[j] \cap mixed)
    <2>1. report' = report \/ \E r \in {Whole(text)} \cup (IF w \in mixed THEN {Torn} ELSE {}) : report' = [report EXCEPT ![j] = r]
      BY DEF WriteReport
    <2>2. w \notin open[j] => report' = report
      BY DEF WriteReport
    <2>3. Whole(text).state # "torn"
      BY DEF Whole
    <2> QED BY <2>1, <2>2, <2>3 DEF SynthesisTypeOK
  <1>5. \A k \in Jobs : \A v \in open'[k] : pc'[v] = "write" /\ job'[v] = k
    BY <1>1, <1>3 DEF SharedInv
  <1>6. \A v \in mixed' : \E k \in Jobs : v \in open'[k]
    BY <1>3 DEF SharedInv
  <1>7. \A k \in Jobs : \A v \in open'[k] : v \in mixed' \/ open'[k] = {v}
    BY <1>3 DEF SharedInv
  <1>8. CASE w \in open[j] \ mixed
    <2>1. open[j] = {w} /\ open'[j] = {} /\ spoiled' = spoiled \ {j}
      BY <1>3, <1>8 DEF SharedInv, WriteReport
    <2>2. report'[j].state # "torn"
      <3>1. report' = [report EXCEPT ![j] = Whole(text)]
        BY <1>8 DEF WriteReport
      <3> QED BY <3>1 DEF Whole, SynthesisTypeOK
    <2>3. \A k \in Jobs : open'[k] \cap mixed' # {} => k \in spoiled'
      BY <1>3, <2>1 DEF SharedInv
    <2>4. \A k \in Jobs : report'[k].state = "torn" => open'[k] # {} \/ k \in spoiled'
      <3>1. \A k \in Jobs : k # j => open'[k] = open[k]
        <4>1. \A k \in Jobs : k # j => w \notin open[k]
          BY <1>2
        <4>2. \A k \in Jobs : k # j => open[k] \ {w} = open[k]
          BY <4>1
        <4>3. \A k \in Jobs : open'[k] = open[k] \ {w}
          BY <1>3
        <4> QED BY <4>2, <4>3
      <3> QED BY <1>4, <2>1, <2>2, <3>1 DEF SharedInv
    <2> QED BY <1>5, <1>6, <1>7, <2>3, <2>4 DEF SharedInv
  <1>9. CASE w \notin open[j] \ mixed
    <2>1. spoiled' = spoiled
      BY <1>9 DEF WriteReport
    <2>2. \A k \in Jobs : open'[k] \cap mixed' # {} => k \in spoiled'
      BY <1>3, <2>1 DEF SharedInv
    <2>3. \A k \in Jobs : report'[k].state = "torn" => open'[k] # {} \/ k \in spoiled'
      <3>1. w \in open[j] => j \in spoiled
        BY <1>9 DEF SharedInv
      <3>2. \A k \in Jobs : open'[k] = open[k] \/ k \in spoiled
        <4>1. \A k \in Jobs : w \notin open[k] => open[k] \ {w} = open[k]
          OBVIOUS
        <4> QED BY <1>2, <1>3, <3>1, <4>1
      <3> QED BY <1>4, <2>1, <3>1, <3>2 DEF SharedInv
    <2> QED BY <1>5, <1>6, <1>7, <2>2, <2>3 DEF SharedInv
  <1> QED BY <1>8, <1>9

\* Steps that neither open nor write a report.
LEMMA OthersKeepShared ==
  ASSUME SynthesisTypeOK, SharedInv, UNCHANGED <<report, open, mixed, spoiled>>,
         \A w \in Writers : pc[w] = "write" => pc'[w] = "write" /\ job'[w] = job[w]
  PROVE  SharedInv'
  <1>1. \A j \in Jobs : open[j] \subseteq Writers
    BY DEF SynthesisTypeOK
  <1> QED BY <1>1 DEF SharedInv

LEMMA PurgeKeepsShared ==
  ASSUME SynthesisTypeOK, SharedInv, NEW j \in Jobs, purge_job_output_dir(j)
  PROVE  SharedInv'
  <1>1. /\ \A k \in Jobs : open'[k] = IF k = j THEN {} ELSE open[k]
        /\ \A k \in Jobs : report'[k] = IF k = j THEN NoReport ELSE report[k]
        /\ mixed' = mixed \ open[j] /\ UNCHANGED <<pc, job, spoiled>>
    BY DEF purge_job_output_dir, SynthesisTypeOK
  <1>2. NoReport.state # "torn"
    BY DEF NoReport
  <1> QED BY <1>1, <1>2 DEF SharedInv

LEMMA StopKeepsShared ==
  ASSUME SynthesisTypeOK, SharedInv, NEW W, Stop(W)
  PROVE  SharedInv'
  <1>1. /\ \A k \in Jobs : open'[k] = open[k] \ W /\ open[k] \subseteq Writers
        /\ mixed' = mixed \ W
        /\ \A w \in Writers : w \notin W => pc'[w] = pc[w]
        /\ UNCHANGED <<report, job>>
        /\ spoiled' = spoiled \cup {j \in Jobs : open[j] \cap W # {}}
    BY DEF Stop, SynthesisTypeOK
  <1>2. \A j \in Jobs : \A w \in open'[j] : pc'[w] = "write" /\ job'[w] = j
    BY <1>1 DEF SharedInv
  <1>3. \A w \in mixed' : \E j \in Jobs : w \in open'[j]
    BY <1>1 DEF SharedInv
  <1>4. \A j \in Jobs : \A w \in open'[j] : w \in mixed' \/ open'[j] = {w}
    BY <1>1 DEF SharedInv
  <1>5. \A j \in Jobs : open'[j] \cap mixed' # {} => j \in spoiled'
    BY <1>1 DEF SharedInv
  <1>6. \A j \in Jobs : report'[j].state = "torn" => open'[j] # {} \/ j \in spoiled'
    BY <1>1 DEF SharedInv
  <1> QED BY <1>2, <1>3, <1>4, <1>5, <1>6 DEF SharedInv

LEMMA BirthAndDeathStay ==
  ASSUME ImageInv, WriterInv, [Next]_vars
  PROVE  \A j \in Jobs : (Born(j) => Born(j)') /\ (Gone(j) => Gone(j)')
  <1>0. AssetsTypeOK /\ SynthesisTypeOK /\ IdsInv /\ FillingInv
    BY DEF ImageInv, TypeOK
  <1> USE DEF Born, Gone
  <1>1. CASE ImageRequests
    <2>1. ASSUME NEW refs, NEW meant, enqueue_job(refs, meant)
          PROVE  \A j \in Jobs : (Born(j) => Born(j)') /\ (Gone(j) => Gone(j)')
      <3>1. NextId \in Jobs /\ ~Born(NextId)
        BY <1>0, <2>1, NextIdIsFresh DEF enqueue_job
      <3> QED BY <1>0, <2>1, <3>1 DEF enqueue_job, AssetsTypeOK
    <2>2. ASSUME NEW arm \in Arms, Refuse(arm)
          PROVE  \A j \in Jobs : (Born(j) => Born(j)') /\ (Gone(j) => Gone(j)')
      <3>1. row[handler.job] = "preparing"
        BY <1>0, <2>2 DEF Refuse, Arms, Filling, FillingInv
      <3> QED BY <1>0, <2>2, <3>1 DEF Refuse, AssetsTypeOK
    <2>3. row' = row \/ (\E refs, meant : enqueue_job(refs, meant)) \/ \E arm \in Arms : Refuse(arm)
      BY <1>1 DEF ImageRequests, save_upload_to_staging, create_job, clone_job, CloneRead, CloneEnqueue,
                  finalize_payload_after_enqueue, promote_asset_to_job, Move, Keep, update_job_payload
    <2> QED BY <2>1, <2>2, <2>3
  <1>2. ASSUME NEW f \in Finalizers, Finalize(f) PROVE \A j \in Jobs : (Born(j) => Born(j)') /\ (Gone(j) => Gone(j)')
    BY <1>0, <1>2, FinalizerFrame DEF WriterFrame
  <1>3. ASSUME NEW r \in Requests, synthesize_job_report(r)
        PROVE  \A j \in Jobs : (Born(j) => Born(j)') /\ (Gone(j) => Gone(j)')
    BY <1>0, <1>3, SynthesisFrame DEF WriterFrame
  <1>4. ASSUME NEW j \in Jobs, delete_job_endpoint(j)
        PROVE  \A k \in Jobs : (Born(k) => Born(k)') /\ (Gone(k) => Gone(k)')
    BY <1>0, <1>4 DEF delete_job_endpoint, DeleteRows, purge_job_output_dir, AssetsTypeOK
  <1>5. CASE ApiDies \/ FinalizerDies \/ UNCHANGED vars
    BY <1>5 DEF ApiDies, FinalizerDies, Stop, vars, assetsVars
  <1> QED BY <1>1, <1>2, <1>3, <1>4, <1>5 DEF Next

LEMMA WriteLeavesReports ==
  ASSUME SynthesisTypeOK, NEW w \in Writers, NEW j \in Jobs, NEW text, WriteReport(w, j, text)
  PROVE  \A k \in Jobs : \/ report'[k] = report[k]
                         \/ report'[k].state = "torn"
                         \/ k = j /\ report'[k].state = "whole" /\ report'[k].text = text
  <1>1. report' = report \/ \E r \in {Whole(text), Torn} : report' = [report EXCEPT ![j] = r]
    BY DEF WriteReport
  <1>2. Whole(text).state = "whole" /\ Whole(text).text = text /\ Torn.state = "torn"
    BY DEF Whole, Torn
  <1> QED BY <1>1, <1>2 DEF SynthesisTypeOK

LEMMA OpenLeavesReports ==
  ASSUME SynthesisTypeOK, NEW w \in Writers, NEW j \in Jobs, OpenReport(w, j)
  PROVE  \A k \in Jobs : report'[k] = (IF k = j THEN Torn ELSE report[k])
  BY DEF OpenReport, SynthesisTypeOK

LEMMA FinalizerKeepsReports ==
  ASSUME ImageInv, ReportInv, NEW f \in Finalizers, Finalize(f)
  PROVE  ReportInv'
  <1>0. /\ AssetsTypeOK /\ SynthesisTypeOK /\ IdsInv
        /\ WriterInv /\ CopyInv /\ HeadlineInv /\ SharedInv /\ FileInv /\ SynthesisFitsReport
    BY DEF ImageInv, ReportInv, TypeOK
  <1>1. /\ f \in Writers /\ f \notin Requests /\ f # NoOne
        /\ (pc[f] \notin {"idle", "done"} => job[f] \in Jobs /\ Born(job[f]) /\ copy[f] = Aggregated(f))
    BY <1>0, SynthesisAssumption DEF Writers, WriterInv, CopyInv
  <1>2. Aggregated(f).syn = NoOne /\ Aggregated(f).agg = f /\ Torn.state = "torn" /\ Nothing.syn = NoOne
    BY DEF Aggregated, Torn, Nothing
  <1>3. \A j \in Jobs : (Born(j)' <=> Born(j)) /\ (Gone(j)' <=> Gone(j))
    BY <1>0, FinalizerFrame DEF WriterFrame
  <1>4. /\ \A v \in Writers : v # f => pc'[v] = pc[v] /\ job'[v] = job[v] /\ copy'[v] = copy[v]
        /\ pc'[f] \in {"open", "write", "md", "complete", "done"}
        /\ job'[f] \in Jobs /\ Born(job'[f]) /\ copy'[f] = Aggregated(f)
        /\ pc'[f] # "open" => pc[f] \notin {"idle", "done"} /\ job'[f] = job[f]
    <2>1. CASE FinStart(f)
      BY <1>0, <1>1, <2>1 DEF FinStart, Step, SynthesisTypeOK, AssetsTypeOK, IdsInv
    <2>2. CASE FinFails(f) \/ FinOpen(f)
      BY <1>0, <1>1, <2>2 DEF FinFails, FinOpen, Step, SynthesisTypeOK
    <2>3. CASE FinWrite(f) \/ FinText(f) \/ FinComplete(f)
      BY <1>0, <1>1, <2>3 DEF FinWrite, FinText, FinComplete, Step, SynthesisTypeOK
    <2> QED BY <2>1, <2>2, <2>3 DEF Finalize
  <1>5. \A r \in Requests : r \in Writers /\ r # f
    BY <1>1 DEF Writers
  <1>6. WriterInv'
    <2>1. \A w \in Writers : pc'[w] \notin {"idle", "done"} => job'[w] \in Jobs /\ Born(job'[w])
      BY <1>0, <1>4 DEF WriterInv
    <2>2. \A w \in Writers : pc'[w] \notin {"idle", "done"} => job'[w] \in Jobs /\ Born(job[w])'
      BY <1>3, <2>1 DEF Born
    <2>3. \A g \in Finalizers : g \in Writers
      BY DEF Writers
    <2> QED BY <1>0, <1>4, <1>5, <2>2, <2>3 DEF WriterInv
  <1>7. CopyInv'
    <2>1. \A g \in Finalizers : g \in Writers
      BY DEF Writers
    <2> QED BY <1>0, <1>4, <1>5, <2>1 DEF CopyInv
  <1>8. UNCHANGED summary \/ (FinComplete(f) /\ summary' = [summary EXCEPT ![job[f]] = Aggregated(f)])
    BY <1>1 DEF Finalize, FinStart, FinFails, FinOpen, FinWrite, FinText, FinComplete, Step
  <1>9. HeadlineInv'
    <2>1. UNCHANGED <<written, told>>
      BY DEF Finalize, FinStart, FinFails, FinOpen, FinWrite, FinText, FinComplete
    <2>2. \A j \in Jobs : summary'[j] = summary[j] \/ summary'[j].syn = NoOne
      BY <1>0, <1>2, <1>8 DEF SynthesisTypeOK
    <2> QED BY <1>0, <1>4, <1>5, <2>1, <2>2 DEF HeadlineInv
  <1>10. SharedInv'
    <2>1. CASE FinOpen(f)
      BY <1>0, <1>1, <2>1, OpenKeepsShared DEF FinOpen, Step
    <2>2. CASE FinWrite(f)
      BY <1>0, <1>1, <2>2, WriteKeepsShared DEF FinWrite, Step
    <2>3. CASE FinStart(f) \/ FinFails(f) \/ FinText(f) \/ FinComplete(f)
      <3>1. UNCHANGED <<report, open, mixed, spoiled>> /\ pc[f] # "write"
        BY <2>3 DEF FinStart, FinFails, FinText, FinComplete, Step
      <3> QED BY <1>0, <1>4, <3>1, OthersKeepShared
    <2> QED BY <2>1, <2>2, <2>3 DEF Finalize
  <1>11. \A j \in Jobs : \/ report'[j] = report[j] \/ report'[j].state = "torn"
                         \/ report'[j].state = "whole" /\ report'[j].text = Aggregated(f)
    <2>1. CASE FinOpen(f)
      BY <1>0, <1>1, <1>2, <2>1, OpenLeavesReports DEF FinOpen, Step
    <2>2. CASE FinWrite(f)
      BY <1>0, <1>1, <2>2, WriteLeavesReports DEF FinWrite, Step
    <2> QED BY <2>1, <2>2 DEF Finalize, FinStart, FinFails, FinText, FinComplete
  <1>12. SynthesisFitsReport'
    BY <1>0, <1>2, <1>11 DEF SynthesisFitsReport
  <1>13. FileInv'
    <2>1. \A j \in Jobs : report'[j].state = "none" => report[j].state = "none"
      BY <1>11
    <2>2. \A j \in Jobs : summary'[j] = summary[j] \/ summary'[j].agg = f
      BY <1>0, <1>2, <1>8 DEF SynthesisTypeOK
    <2>3. ASSUME NEW j \in Jobs, row'[j] = "completed" PROVE report'[j].state # "none" /\ summary'[j].agg # NoOne
      <3>1. CASE row[j] = "completed"
        BY <1>0, <1>1, <2>1, <2>2, <3>1 DEF FileInv
      <3>2. CASE row[j] # "completed"
        <4>1. FinComplete(f) /\ j = job[f] /\ ~Gone(j)
          BY <1>0, <2>3, <3>2 DEF Finalize, FinStart, FinFails, FinOpen, FinWrite, FinText, FinComplete, assetsVars,
                                  AssetsTypeOK, Gone
        <4>2. report[j].state # "none" /\ summary'[j] = Aggregated(f)
          BY <1>0, <1>1, <4>1 DEF FinComplete, Step, FileInv, SynthesisTypeOK
        <4> QED BY <1>1, <1>2, <2>1, <4>2
      <3> QED BY <3>1, <3>2
    <2>4. ASSUME NEW g \in Finalizers, pc'[g] \in {"write", "md", "complete"}, ~Gone(job'[g])
          PROVE  report'[job'[g]].state # "none"
      <3>0. g \in Writers
        BY DEF Writers
      <3>1. CASE g # f
        <4>1. pc[g] = pc'[g] /\ job'[g] = job[g] /\ job[g] \in Jobs
          BY <1>0, <1>4, <2>4, <3>0, <3>1 DEF WriterInv
        <4> QED BY <1>0, <2>1, <2>4, <4>1 DEF FileInv
      <3>2. CASE g = f
        <4>1. job'[f] = job[f] /\ job[f] \in Jobs
          BY <1>1, <1>4, <2>4, <3>2
        <4>2. CASE FinOpen(f)
          <5>1. report'[job[f]] = Torn
            BY <1>0, <1>1, <4>1, <4>2, OpenLeavesReports DEF FinOpen
          <5> QED BY <1>2, <3>2, <4>1, <5>1
        <4>3. CASE FinWrite(f) \/ FinText(f)
          BY <1>0, <2>1, <2>4, <3>2, <4>1, <4>3 DEF FinWrite, FinText, Step, FileInv
        <4>4. CASE FinStart(f) \/ FinFails(f) \/ FinComplete(f)
          BY <1>0, <1>1, <2>4, <3>2, <4>4 DEF FinStart, FinFails, FinComplete, Step, SynthesisTypeOK
        <4> QED BY <4>2, <4>3, <4>4 DEF Finalize
      <3> QED BY <3>1, <3>2
    <2>5. \A g \in Finalizers : pc'[g] \in {"write", "md", "complete"} => job'[g] \in Jobs
      BY <1>4, <1>6 DEF WriterInv, Writers
    <2>6. ASSUME NEW g \in Finalizers, pc'[g] \in {"write", "md", "complete"}, ~Gone(job[g])'
          PROVE  ~Gone(job'[g])
      BY <1>3, <2>5, <2>6 DEF Gone
    <2>7. \A j \in Jobs : summary'[j] # Nothing => summary'[j].agg # NoOne
      BY <1>0, <1>1, <2>2 DEF FileInv
    <2>8. \A r \in Requests : pc'[r] = "patch" => copy'[r].agg # NoOne
      BY <1>0, <1>4, <1>5 DEF FileInv
    <2> QED BY <2>3, <2>4, <2>6, <2>7, <2>8 DEF FileInv
  <1> QED BY <1>6, <1>7, <1>9, <1>10, <1>12, <1>13 DEF ReportInv

LEMMA RequestKeepsReports ==
  ASSUME ImageInv, ReportInv, NEW r \in Requests, synthesize_job_report(r)
  PROVE  ReportInv'
  <1>0. /\ AssetsTypeOK /\ SynthesisTypeOK /\ IdsInv
        /\ WriterInv /\ CopyInv /\ HeadlineInv /\ SharedInv /\ FileInv /\ SynthesisFitsReport
    BY DEF ImageInv, ReportInv, TypeOK
  <1>1. /\ r \in Writers /\ r \notin Finalizers /\ r # NoOne /\ \A w \in Finalizers \cup Requests : w \in Writers
        /\ (pc[r] \notin {"idle", "done"} => job[r] \in Jobs /\ Born(job[r]))
        /\ copy[r] \in Contents
    BY <1>0, SynthesisAssumption DEF Writers, WriterInv, SynthesisTypeOK
  <1>2. UNCHANGED row /\ \A j \in Jobs : (Born(j)' <=> Born(j)) /\ (Gone(j)' <=> Gone(j))
    BY <1>0, SynthesisFrame DEF WriterFrame, assetsVars
  <1>3. Nothing.syn = NoOne /\ Torn.state = "torn"
    BY DEF Nothing, Aggregated, Torn
  <1>4. /\ \A v \in Writers : v # r => pc'[v] = pc[v] /\ job'[v] = job[v] /\ copy'[v] = copy[v]
        /\ \A j \in Jobs : summary'[j] = summary[j] \/ (PatchWrite(r) /\ j = job[r] /\ summary'[j] = copy[r])
        /\ written \subseteq written' /\ told' \subseteq told \cup {w \in {r} : pc[r] = "notify"}
    BY <1>0, <1>1
    DEF synthesize_job_report, SynRead, run_synthesis_llm, SynOpen, SynOpenFails, SynWrite, append_synthesis_to_md,
        patch_job_result_summary, PatchRead, PatchWrite, SynNotify, Step, SynthesisTypeOK
  <1>5. /\ job'[r] \in Jobs /\ Born(job'[r])
        /\ pc'[r] \in {"call", "open", "write", "md", "select", "patch", "notify", "done"}
        /\ pc'[r] \in {"call", "open", "write"} /\ copy'[r].syn # NoOne => copy'[r].basis = copy'[r].agg
        /\ pc'[r] \in {"open", "write", "md", "select", "patch", "notify"} => copy'[r].syn = r
        /\ pc'[r] \in {"md", "select", "patch", "notify"} => r \in written' /\ copy'[r].ok
        /\ pc'[r] = "patch" => copy'[r].agg # NoOne
    <2>1. CASE SynRead(r)
      <3>1. PICK j \in Jobs : /\ row[j] = "completed" /\ report[j].state = "whole"
                              /\ job' = [job EXCEPT ![r] = j] /\ copy' = [copy EXCEPT ![r] = report[j].text]
        BY <2>1 DEF SynRead
      <3>2. pc'[r] = "call" /\ job'[r] = j /\ copy'[r] = report[j].text
        BY <1>0, <1>1, <2>1, <3>1 DEF SynRead, Step, SynthesisTypeOK
      <3> QED BY <1>0, <3>1, <3>2 DEF SynthesisFitsReport, Born
    <2>2. CASE run_synthesis_llm(r)
      <3>1. PICK ok \in BOOLEAN : /\ copy' = [copy EXCEPT ![r] = [agg |-> @.agg, syn |-> r, basis |-> @.agg, ok |-> ok]]
                                  /\ pc' = [pc EXCEPT ![r] = IF ok THEN After("call") ELSE "open"]
        BY <2>2 DEF run_synthesis_llm
      <3>2. pc[r] = "call" /\ UNCHANGED job /\ After("call") = "open"
        BY <2>2 DEF run_synthesis_llm, After
      <3>3. pc'[r] = "open" /\ job'[r] = job[r]
        BY <1>0, <1>1, <3>1, <3>2 DEF SynthesisTypeOK
      <3>4. copy'[r] = [agg |-> copy[r].agg, syn |-> r, basis |-> copy[r].agg, ok |-> ok]
        BY <1>0, <1>1, <3>1 DEF SynthesisTypeOK
      <3> QED BY <1>1, <3>2, <3>3, <3>4
    <2>3. CASE SynOpen(r)
      <3>1. pc[r] = "open" /\ pc'[r] = "write" /\ job'[r] = job[r] /\ copy'[r] = copy[r]
        BY <1>0, <1>1, <2>3 DEF SynOpen, Step, AfterOutcome, After, SynthesisTypeOK
      <3> QED BY <1>0, <1>1, <3>1 DEF CopyInv, HeadlineInv
    <2>4. CASE SynOpenFails(r)
      <3>1. pc[r] = "open" /\ pc'[r] = "done" /\ job'[r] = job[r]
        BY <1>0, <1>1, <2>4 DEF SynOpenFails, Step, SynthesisTypeOK
      <3> QED BY <1>1, <3>1
    <2>5. CASE SynWrite(r)
      <3>1. /\ pc[r] = "write" /\ pc'[r] = (IF copy[r].ok THEN "md" ELSE "done")
            /\ job'[r] = job[r] /\ copy'[r] = copy[r] /\ r \in written'
        BY <1>0, <1>1, <2>5 DEF SynWrite, Step, AfterOutcome, After, SynthesisTypeOK
      <3> QED BY <1>0, <1>1, <3>1 DEF HeadlineInv
    <2>6. CASE append_synthesis_to_md(r)
      <3>1. pc[r] = "md" /\ pc'[r] = "select" /\ job'[r] = job[r] /\ copy'[r] = copy[r]
        BY <1>0, <1>1, <2>6 DEF append_synthesis_to_md, Step, After, SynthesisTypeOK
      <3> QED BY <1>0, <1>1, <1>4, <3>1 DEF HeadlineInv
    <2>7. CASE PatchRead(r)
      <3>1. pc[r] = "select" /\ job'[r] = job[r] /\ copy'[r] = [copy[r] EXCEPT !.agg = summary[job[r]].agg]
        BY <1>0, <1>1, <2>7 DEF PatchRead, Step, SynthesisTypeOK
      <3>2. pc'[r] = (IF summary[job[r]] = Nothing THEN "done" ELSE "patch")
        BY <1>0, <1>1, <2>7 DEF PatchRead, Step, After, SynthesisTypeOK
      <3>3. copy'[r].syn = copy[r].syn /\ copy'[r].ok = copy[r].ok /\ copy'[r].agg = summary[job[r]].agg
        BY <1>1, <3>1 DEF Contents
      <3> QED BY <1>0, <1>1, <1>4, <3>1, <3>2, <3>3 DEF HeadlineInv, FileInv
    <2>8. CASE PatchWrite(r)
      <3>1. pc[r] = "patch" /\ pc'[r] = "notify" /\ job'[r] = job[r] /\ copy'[r] = copy[r]
        BY <1>0, <1>1, <2>8 DEF PatchWrite, Step, After, SynthesisTypeOK
      <3> QED BY <1>0, <1>1, <1>4, <3>1 DEF HeadlineInv
    <2>9. CASE SynNotify(r)
      <3>1. pc[r] = "notify" /\ pc'[r] = "done" /\ job'[r] = job[r]
        BY <1>0, <1>1, <2>9 DEF SynNotify, Step, SynthesisTypeOK
      <3> QED BY <1>1, <3>1
    <2> QED BY <2>1, <2>2, <2>3, <2>4, <2>5, <2>6, <2>7, <2>8, <2>9 DEF synthesize_job_report, patch_job_result_summary
  <1>6. WriterInv'
    <2>1. \A w \in Writers : pc'[w] \notin {"idle", "done"} => job'[w] \in Jobs /\ Born(job'[w])
      BY <1>0, <1>4, <1>5 DEF WriterInv
    <2>2. \A w \in Writers : pc'[w] \notin {"idle", "done"} => job'[w] \in Jobs /\ Born(job[w])'
      BY <1>2, <2>1 DEF Born
    <2> QED BY <1>0, <1>1, <1>4, <1>5, <2>2 DEF WriterInv
  <1>7. CopyInv'
    BY <1>0, <1>1, <1>4, <1>5 DEF CopyInv
  <1>8. HeadlineInv'
    <2>1. \A j \in Jobs : summary'[j].syn # NoOne => summary'[j].syn \in written' /\ summary'[j].ok
      <3>1. PatchWrite(r) => copy[r].syn = r /\ r \in written /\ copy[r].ok
        BY <1>0 DEF PatchWrite, Step, HeadlineInv
      <3> QED BY <1>0, <1>4, <3>1 DEF HeadlineInv
    <2>2. told' \subseteq written'
      BY <1>0, <1>4 DEF HeadlineInv
    <2> QED BY <1>0, <1>1, <1>4, <1>5, <2>1, <2>2 DEF HeadlineInv
  <1>9. SharedInv'
    <2>1. CASE SynOpen(r)
      <3>1. AfterOutcome(r, "open") = "write"
        BY DEF AfterOutcome, After
      <3> QED BY <1>0, <1>1, <2>1, <3>1, OpenKeepsShared DEF SynOpen, Step
    <2>2. CASE SynWrite(r)
      BY <1>0, <1>1, <2>2, WriteKeepsShared DEF SynWrite, Step
    <2>3. CASE ~SynOpen(r) /\ ~SynWrite(r)
      <3>1. UNCHANGED <<report, open, mixed, spoiled>> /\ pc[r] # "write"
        BY <2>3 DEF synthesize_job_report, SynRead, run_synthesis_llm, SynOpenFails, append_synthesis_to_md,
                    patch_job_result_summary, PatchRead, PatchWrite, SynNotify, Step
      <3> QED BY <1>0, <1>4, <3>1, OthersKeepShared
    <2> QED BY <2>1, <2>2, <2>3
  <1>10. \A j \in Jobs : \/ report'[j] = report[j] \/ report'[j].state = "torn"
                         \/ /\ report'[j].state = "whole" /\ report'[j].text = copy[r]
                            /\ copy[r].syn # NoOne => copy[r].basis = copy[r].agg
    <2>1. CASE SynOpen(r)
      BY <1>0, <1>1, <1>3, <2>1, OpenLeavesReports DEF SynOpen, Step
    <2>2. CASE SynWrite(r)
      <3>1. job[r] \in Jobs /\ WriteReport(r, job[r], copy[r]) /\ (copy[r].syn # NoOne => copy[r].basis = copy[r].agg)
        BY <1>0, <1>1, <2>2 DEF SynWrite, Step, CopyInv
      <3> QED BY <1>0, <1>1, <3>1, WriteLeavesReports
    <2> QED
      BY <2>1, <2>2
      DEF synthesize_job_report, SynRead, run_synthesis_llm, SynOpenFails, append_synthesis_to_md,
          patch_job_result_summary, PatchRead, PatchWrite, SynNotify
  <1>11. SynthesisFitsReport'
    BY <1>0, <1>10 DEF SynthesisFitsReport
  <1>12. FileInv'
    <2>1. \A j \in Jobs : report'[j].state = "none" => report[j].state = "none"
      BY <1>10
    <2>2. PatchWrite(r) => copy[r].agg # NoOne
      BY <1>0 DEF PatchWrite, Step, FileInv
    <2>3. \A f \in Finalizers : pc'[f] = pc[f] /\ job'[f] = job[f] /\ (pc[f] \notin {"idle", "done"} => job[f] \in Jobs)
      BY <1>0, <1>1, <1>4 DEF WriterInv
    <2>4. \A f \in Finalizers : pc'[f] \in {"write", "md", "complete"} /\ row'[job'[f]] # "deleted" =>
            report'[job'[f]].state # "none"
      BY <1>0, <1>2, <2>1, <2>3 DEF FileInv, Gone
    <2>5. \A j \in Jobs : row'[j] = "completed" => report'[j].state # "none" /\ summary'[j].agg # NoOne
      BY <1>0, <1>2, <1>4, <2>1, <2>2 DEF FileInv
    <2>6. \A j \in Jobs : summary'[j] # Nothing => summary'[j].agg # NoOne
      BY <1>0, <1>4, <2>2 DEF FileInv
    <2>7. \A q \in Requests : pc'[q] = "patch" => copy'[q].agg # NoOne
      BY <1>0, <1>1, <1>4, <1>5 DEF FileInv
    <2> QED BY <2>4, <2>5, <2>6, <2>7 DEF FileInv, Gone
  <1> QED BY <1>6, <1>7, <1>8, <1>9, <1>11, <1>12 DEF ReportInv

\* Steps of other actors: the writers and the reports stay as they are, no job is completed,
\* and births and deletions stay.
LEMMA OthersKeepReports ==
  ASSUME ImageInv, ReportInv, UNCHANGED synthesisVars,
         \A j \in Jobs : row'[j] = "completed" => row[j] = "completed",
         \A j \in Jobs : (Born(j) => Born(j)') /\ (Gone(j) => Gone(j)')
  PROVE  ReportInv'
  <1>0. /\ SynthesisTypeOK /\ WriterInv /\ CopyInv /\ HeadlineInv /\ SharedInv /\ FileInv /\ SynthesisFitsReport
        /\ UNCHANGED <<report, summary, open, mixed, pc, job, copy, written, told, spoiled>>
    BY DEF ImageInv, ReportInv, TypeOK, synthesisVars
  <1>1. WriterInv'
    BY <1>0 DEF WriterInv, Born
  <1>2. CopyInv' /\ HeadlineInv' /\ SynthesisFitsReport'
    BY <1>0 DEF CopyInv, HeadlineInv, SynthesisFitsReport
  <1>3. SharedInv'
    BY <1>0, OthersKeepShared
  <1>4. FileInv'
    <2>1. \A f \in Finalizers : pc[f] \in {"write", "md", "complete"} => job[f] \in Jobs
      BY <1>0 DEF WriterInv, Writers
    <2> QED BY <1>0, <2>1 DEF FileInv, Gone
  <1> QED BY <1>0, <1>1, <1>2, <1>3, <1>4 DEF ReportInv

LEMMA ImageRequestsKeepReports ==
  ASSUME ImageInv, ReportInv, [Next]_vars, ImageRequests, UNCHANGED synthesisVars
  PROVE  ReportInv'
  <1>0. AssetsTypeOK /\ WriterInv
    BY DEF ImageInv, TypeOK, ReportInv
  <1>1. \A j \in Jobs : row'[j] = "completed" => row[j] = "completed"
    BY <1>0 DEF ImageRequests, save_upload_to_staging, create_job, clone_job, CloneRead, CloneEnqueue, enqueue_job,
                finalize_payload_after_enqueue, promote_asset_to_job, Move, Keep, Refuse, update_job_payload, AssetsTypeOK
  <1> QED BY <1>0, <1>1, BirthAndDeathStay, OthersKeepReports

LEMMA DeletionKeepsReports ==
  ASSUME ImageInv, ReportInv, NEW j \in Jobs, delete_job_endpoint(j)
  PROVE  ReportInv'
  <1>0. /\ AssetsTypeOK /\ SynthesisTypeOK /\ IdsInv
        /\ WriterInv /\ CopyInv /\ HeadlineInv /\ SharedInv /\ FileInv /\ SynthesisFitsReport
    BY DEF ImageInv, ReportInv, TypeOK
  <1>1. UNCHANGED <<pc, job, copy, written, told, spoiled>>
    BY DEF delete_job_endpoint, DeleteRows, purge_job_output_dir
  <1>2. \A k \in Jobs : (Born(k) => Born(k)') /\ (Gone(k) => Gone(k)')
    BY <1>0 DEF delete_job_endpoint, DeleteRows, purge_job_output_dir, AssetsTypeOK, Born, Gone
  <1>3. WriterInv'
    BY <1>0, <1>1, <1>2 DEF WriterInv, Born
  <1>4. CopyInv'
    BY <1>0, <1>1 DEF CopyInv
  <1>5. \A f \in Finalizers : pc[f] \in {"write", "md", "complete"} => job[f] \in Jobs
    BY <1>0 DEF WriterInv, Writers
  <1>6. Nothing.syn = NoOne /\ Nothing.agg = NoOne /\ NoReport.state = "none"
    BY DEF Nothing, Aggregated, NoReport
  <1>7. CASE DeleteRows(j)
    <2>1. /\ \A k \in Jobs : row'[k] = IF k = j THEN "deleted" ELSE row[k]
          /\ \A k \in Jobs : summary'[k] = IF k = j THEN Nothing ELSE summary[k]
          /\ UNCHANGED <<report, open, mixed>>
      BY <1>0, <1>7 DEF DeleteRows, AssetsTypeOK, SynthesisTypeOK
    <2>2. HeadlineInv' /\ SynthesisFitsReport'
      BY <1>0, <1>1, <1>6, <2>1 DEF HeadlineInv, SynthesisFitsReport
    <2>3. SharedInv'
      BY <1>0, <1>1, <2>1, OthersKeepShared
    <2>4. FileInv'
      BY <1>0, <1>1, <1>2, <1>5, <2>1 DEF FileInv, Gone
    <2> QED BY <1>3, <1>4, <2>2, <2>3, <2>4 DEF ReportInv
  <1>8. CASE purge_job_output_dir(j)
    <2>1. /\ \A k \in Jobs : report'[k] = IF k = j THEN NoReport ELSE report[k]
          /\ UNCHANGED <<row, summary>> /\ Gone(j)
      BY <1>0, <1>8 DEF purge_job_output_dir, SynthesisTypeOK, IdsInv
    <2>2. HeadlineInv' /\ SynthesisFitsReport'
      BY <1>0, <1>1, <1>6, <2>1 DEF HeadlineInv, SynthesisFitsReport
    <2>3. SharedInv'
      BY <1>0, <1>8, PurgeKeepsShared
    <2>4. FileInv'
      BY <1>0, <1>1, <1>5, <2>1 DEF FileInv, Gone
    <2> QED BY <1>3, <1>4, <2>2, <2>3, <2>4 DEF ReportInv
  <1> QED BY <1>7, <1>8 DEF delete_job_endpoint

LEMMA DeathKeepsReports ==
  ASSUME ImageInv, ReportInv, NEW W, Stop(W)
  PROVE  ReportInv'
  <1>0. /\ SynthesisTypeOK /\ WriterInv /\ CopyInv /\ HeadlineInv /\ SharedInv /\ FileInv /\ SynthesisFitsReport
    BY DEF ImageInv, ReportInv, TypeOK
  <1>1. UNCHANGED <<row, report, summary, job, copy, written, told>> /\ \A w \in Writers : pc'[w] \in {pc[w], "done"}
    BY DEF Stop
  <1>2. \A w \in Finalizers \cup Requests : w \in Writers
    BY DEF Writers
  <1>3. WriterInv'
    BY <1>0, <1>1, <1>2 DEF WriterInv, Born
  <1>4. CopyInv' /\ HeadlineInv' /\ SynthesisFitsReport'
    BY <1>0, <1>1, <1>2 DEF CopyInv, HeadlineInv, SynthesisFitsReport
  <1>5. FileInv'
    BY <1>0, <1>1, <1>2 DEF FileInv, Gone
  <1> QED BY <1>0, <1>3, <1>4, <1>5, StopKeepsShared DEF ReportInv

-----------------------------------------------------------------------------
(* The inductive invariant, and the theorems. *)

LEMMA InvInit == Init => Inv
  <1> SUFFICES ASSUME Init PROVE Inv
    OBVIOUS
  <1>1. Nothing.syn = NoOne /\ Nothing.agg = NoOne /\ NoReport.state = "none"
    BY DEF Nothing, Aggregated, NoReport
  <1>2. /\ \A j \in Jobs : row[j] = "unborn" /\ report[j] = NoReport /\ summary[j] = Nothing /\ open[j] = {}
        /\ \A w \in Writers : pc[w] = "idle"
        /\ mixed = {} /\ told = {}
    BY DEF Init, AssetsInit, SynthesisInit
  <1>3. \A w \in Finalizers \cup Requests : w \in Writers
    BY DEF Writers
  <1>4. WriterInv /\ CopyInv /\ HeadlineInv
    BY <1>1, <1>2, <1>3 DEF WriterInv, CopyInv, HeadlineInv
  <1>5. SharedInv /\ FileInv /\ SynthesisFitsReport
    BY <1>1, <1>2, <1>3 DEF SharedInv, FileInv, SynthesisFitsReport
  <1> QED BY <1>4, <1>5, TypeInit, ImageInit DEF Inv, ImageInv, ReportInv

LEMMA InvNext == Inv /\ [Next]_vars => Inv'
  <1> SUFFICES ASSUME Inv, [Next]_vars PROVE Inv'
    OBVIOUS
  <1>0. ImageInv /\ ReportInv /\ TypeOK /\ IdsInv /\ WriterInv /\ AssetsTypeOK /\ SynthesisTypeOK
    BY DEF Inv, ImageInv, ReportInv, TypeOK
  <1>1. TypeOK' /\ FillingInv'
    BY <1>0, TypeNext, FillingNext
  <1> DEFINE ImagesStay == IdsInv' /\ MeaningInv' /\ PromotedInv' /\ ReferenceInv' /\ PlaceInv'
  <1>2. CASE ImageRequests /\ UNCHANGED <<synthesisVars, deleting, deaths>>
    <2>1. ImagesStay
      BY <1>0, <1>2, ImageRequestsKeepImages
    <2>2. ReportInv'
      BY <1>0, <1>2, ImageRequestsKeepReports
    <2> QED BY <1>1, <2>1, <2>2 DEF Inv, ImageInv
  <1>3. ASSUME NEW f \in Finalizers, Finalize(f), UNCHANGED deleting PROVE Inv'
    <2>1. ImagesStay
      BY <1>0, <1>3, FinalizerFrame, WriterFrameKeeps
    <2>2. ReportInv'
      BY <1>0, <1>3, FinalizerKeepsReports
    <2> QED BY <1>1, <2>1, <2>2 DEF Inv, ImageInv
  <1>4. ASSUME NEW r \in Requests, synthesize_job_report(r), UNCHANGED deleting PROVE Inv'
    <2>1. ImagesStay
      BY <1>0, <1>4, SynthesisFrame, WriterFrameKeeps
    <2>2. ReportInv'
      BY <1>0, <1>4, RequestKeepsReports
    <2> QED BY <1>1, <2>1, <2>2 DEF Inv, ImageInv
  <1>5. ASSUME NEW j \in Jobs, delete_job_endpoint(j) PROVE Inv'
    BY <1>0, <1>1, <1>5, DeletionKeepsImages, DeletionKeepsReports DEF Inv, ImageInv
  <1>6. CASE ApiDies
    <2>1. ReportInv'
      BY <1>0, <1>6, DeathKeepsReports DEF ApiDies
    <2> QED BY <1>0, <1>1, <1>6, <2>1, DeathKeepsImages DEF Inv, ImageInv
  <1>7. CASE FinalizerDies
    <2>1. ReportInv'
      BY <1>0, <1>7, DeathKeepsReports DEF FinalizerDies
    <2>2. WriterFrame /\ UNCHANGED deleting
      BY <1>7 DEF FinalizerDies, Stop, WriterFrame, Born, Gone
    <2> QED BY <1>0, <1>1, <2>1, <2>2, WriterFrameKeeps DEF Inv, ImageInv
  <1>8. CASE UNCHANGED vars
    <2>1. UNCHANGED synthesisVars /\ UNCHANGED row
      BY <1>8 DEF vars, assetsVars
    <2>2. WriterFrame /\ UNCHANGED deleting
      BY <1>8 DEF vars, assetsVars, WriterFrame, Born, Gone
    <2>3. ReportInv'
      BY <1>0, <2>1, OthersKeepReports DEF Born, Gone
    <2> QED BY <1>0, <1>1, <2>2, <2>3, WriterFrameKeeps DEF Inv, ImageInv
  <1> QED BY <1>2, <1>3, <1>4, <1>5, <1>6, <1>7, <1>8 DEF Next

\* The invariant holds in every state.
LEMMA Invariant == Spec => []Inv
  BY InvInit, InvNext, PTL DEF Spec

\* Jobs, images, reports and writers keep their types: every reference in a payload is to
\* nothing, a URL, an upload or a place in the directory of a job.
THEOREM JobFilesTypeCorrect == Spec => []TypeOK
  <1>1. Inv => TypeOK
    BY DEF Inv, ImageInv
  <1> QED BY <1>1, Invariant, PTL

\* A synthesis is about the aggregation beside it in the report, although the report may be
\* replaced between the reading and the writing: the request writes back what it read.
THEOREM SynthesesFitTheirReports == Spec => []SynthesisFitsReport
  <1>1. Inv => SynthesisFitsReport
    BY DEF Inv, ReportInv
  <1> QED BY <1>1, Invariant, PTL

\* No summary and no notification speaks of a synthesis that was not written to the report,
\* because summary and notification come after the write and only if the call succeeded.
THEOREM HeadlinesWereReported == Spec => []HeadlineWasReported
  <1>1. Inv => HeadlineWasReported
    BY DEF Inv, ReportInv, HeadlineInv, HeadlineWasReported
  <1> QED BY <1>1, Invariant, PTL

\* The report of a completed job can be read, but for writers that overlapped or died at it.
THEOREM ReportsAreReadable == Spec => []ReportIsReadable
  <1>1. ASSUME Inv, NEW j \in Jobs, row[j] = "completed", open[j] = {}, j \notin spoiled
        PROVE  get_report(j).code = 200
    <2>1. report[j].state \notin {"none", "torn"} /\ summary[j].agg # NoOne
      BY <1>1 DEF Inv, ReportInv, SharedInv, FileInv
    <2>2. summary[j] # Nothing
      BY <2>1 DEF Nothing, Aggregated
    <2> QED BY <2>1, <2>2 DEF get_report
  <1>2. Inv => ReportIsReadable
    BY <1>1 DEF ReportIsReadable
  <1> QED BY <1>2, Invariant, PTL

LEMMA AcceptedShowTheirImages ==
  ASSUME Inv, NEW j \in accepted, NEW arm \in Arms, row[j] # "deleted",
         ~(payload[j][arm].type = "path" /\ row[payload[j][arm].job] = "deleted")
  PROVE  get_job_variant_image(j, arm) = (CASE asked[j][arm].type = "asset_ref" -> asked[j][arm].upload
                                            [] asked[j][arm].type = "url"       -> "redirect"
                                            [] OTHER                            -> "404")
  <1> DEFINE ref == payload[j][arm]
             meant == asked[j][arm]
  <1>1. j \in Jobs /\ ref \in Images /\ meant \in Images
    BY DEF Inv, ImageInv, TypeOK, AssetsTypeOK
  <1>2. Means(ref, meant) /\ ref.type # "asset_ref"
    BY <1>1 DEF Inv, ImageInv, IdsInv, MeaningInv, PromotedInv
  <1>3. meant.type = "asset_ref" => meant.upload # NoFile
    BY <1>1, AssetsAssumption DEF Images, Sent, NoImage, Url, Staged, Stored
  <1>4. CASE ref.type = "path"
    <2>1. meant.type = "asset_ref" /\ assets[ref.job][ref.arm] = meant.upload
      BY <1>2, <1>4 DEF Means, Gone
    <2>2. exists(ref)
      BY <1>3, <1>4, <2>1 DEF exists
    <2> QED BY <1>4, <2>1, <2>2 DEF get_job_variant_image
  <1>5. CASE ref.type # "path"
    <2>1. meant = ref
      BY <1>2, <1>5 DEF Means
    <2> QED BY <1>2, <1>5, <2>1 DEF get_job_variant_image
  <1> QED BY <1>4, <1>5

LEMMA UploadsAreInOnePlace ==
  ASSUME Inv, NEW u \in uploaded
  PROVE  LET kept == {p \in Jobs \X Arms : assets[p[1]][p[2]] = u}
         IN  /\ Cardinality(kept) + (IF u \in staging THEN 1 ELSE 0) <= 1
             /\ u \in staging \/ kept # {} \/ \E j \in Jobs, arm \in Arms : row[j] = "deleted" /\ asked[j][arm] = Staged(u)
  <1> DEFINE kept == {p \in Jobs \X Arms : assets[p[1]][p[2]] = u}
  <1>1. u # NoFile
    BY AssetsAssumption DEF Inv, ImageInv, TypeOK, AssetsTypeOK
  <1>2. \A p, q \in kept : p = q
    BY <1>1 DEF Inv, ImageInv, PlaceInv
  <1>3. u \in staging => kept = {}
    BY <1>1 DEF Inv, ImageInv, PlaceInv
  <1>4. Cardinality(kept) \in {0, 1} /\ (kept = {} => Cardinality(kept) = 0)
    <2>1. CASE kept = {}
      BY <2>1, FS_EmptySet
    <2>2. ASSUME NEW p \in kept PROVE Cardinality(kept) = 1
      <3>1. kept = {p}
        BY <1>2
      <3> QED BY <3>1, FS_Singleton
    <2> QED BY <2>1, <2>2
  <1>5. u \in staging \/ kept # {} \/ \E j \in Jobs, arm \in Arms : row[j] = "deleted" /\ asked[j][arm] = Staged(u)
    <2>1. CASE u \notin staging
      <3>1. PICK j \in Jobs, arm \in Arms : assets[j][arm] = u \/ (Gone(j) /\ asked[j][arm] = Staged(u))
        BY <2>1 DEF Inv, ImageInv, PlaceInv
      <3>2. assets[j][arm] = u => <<j, arm>> \in kept
        OBVIOUS
      <3> QED BY <3>1, <3>2 DEF Gone
    <2> QED BY <2>1
  <1> HIDE DEF kept
  <1>6. Cardinality(kept) + (IF u \in staging THEN 1 ELSE 0) <= 1
    BY <1>3, <1>4
  <1> QED BY <1>5, <1>6 DEF kept

\* An accepted job shows, for each arm, the image that was uploaded for it or for the job it is
\* a clone of, until the job that holds the image is deleted, and no upload is in two places.
THEOREM UploadsAreShown == Spec => []WhatWasUploaded
  <1>1. Inv => WhatWasUploaded
    BY AcceptedShowTheirImages, UploadsAreInOnePlace DEF WhatWasUploaded
  <1> QED BY <1>1, Invariant, PTL

=============================================================================
