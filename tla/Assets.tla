-------------------------------- MODULE Assets --------------------------------
(***************************************************************************)
(* The images of a job (nemotron_ab/campaign_assets.py) and the requests   *)
(* that create jobs from them (backend/routers/jobs.py,                    *)
(* backend/services/job_enqueue.py).                                       *)
(*                                                                         *)
(* An upload lies in staging/ until a job takes it into its own directory. *)
(* POST and CLONE are coroutines without an await between enqueue and      *)
(* update, so the event loop runs one of them at a time; requests that run *)
(* in the thread pool (DELETE, synthesis) and the worker come in between.  *)
(***************************************************************************)
EXTENDS Naturals, FiniteSets

CONSTANTS MaxJob,    \* bound: ids that the jobs table hands out
          Uploads,   \* bound: files that are ever uploaded
          Forms,     \* bound: the images, per arm, of the requests that are sent
          NoFile     \* no image of that arm in the directory of a job

Jobs == 1..MaxJob
Arms == {"a", "b"}

\* The references of a payload.
NoImage == [type |-> "none"]
Url == [type |-> "url"]
Staged(u) == [type |-> "asset_ref", upload |-> u]
Stored(j, arm) == [type |-> "path", job |-> j, arm |-> arm]
Sent == {NoImage, Url} \cup {Staged(u) : u \in Uploads}
Images == Sent \cup {Stored(j, arm) : j \in Jobs, arm \in Arms}

ASSUME AssetsAssumption ==
  /\ MaxJob \in Nat \ {0}
  /\ NoFile \notin Uploads
  /\ Forms \subseteq [Arms -> Sent]

VARIABLES row,       \* jobs.status; the states before the verdict are one
          payload,   \* jobs.payload_json: the image of either arm
          staging,   \* outputs/staging
          dir,       \* the jobs whose directory exists
          assets,    \* outputs/jobs/job_<id>/assets
          handler,   \* the POST or CLONE on the event loop
          accepted,  \* history: jobs whose request was answered with 201
          uploaded,  \* history: the uploads that were answered with a reference
          asked      \* history: the image that the job is meant to have, per arm

assetsVars == <<row, payload, staging, dir, assets, handler, accepted, uploaded, asked>>

NoImages == [arm \in Arms |-> NoImage]
Idle == [pc |-> "idle", job |-> 0, out |-> NoImages]

exists(ref) ==
  CASE ref.type = "asset_ref" -> ref.upload \in staging
    [] ref.type = "path"      -> assets[ref.job][ref.arm] # NoFile
    [] OTHER                  -> TRUE

AssetsInit ==
  /\ row = [j \in Jobs |-> "unborn"]
  /\ payload = [j \in Jobs |-> NoImages]
  /\ staging = {} /\ dir = {}
  /\ assets = [j \in Jobs |-> [arm \in Arms |-> NoFile]]
  /\ handler = Idle
  /\ accepted = {} /\ uploaded = {}
  /\ asked = [j \in Jobs |-> NoImages]

(***************************************************************************)
(* POST /jobs/assets: every upload gets a name of its own.                 *)
(***************************************************************************)
save_upload_to_staging(u) ==
  /\ u \notin uploaded
  /\ staging' = staging \cup {u} /\ uploaded' = uploaded \cup {u}
  /\ UNCHANGED <<row, payload, dir, assets, handler, accepted, asked>>

(***************************************************************************)
(* POST /jobs and POST /jobs/{id}/clone                                    *)
(***************************************************************************)
\* AUTOINCREMENT: an id is never used again.
NextId == Cardinality({j \in Jobs : row[j] # "unborn"}) + 1

enqueue_job(refs, meant) ==
  /\ NextId \in Jobs
  /\ row' = [row EXCEPT ![NextId] = "preparing"]
  /\ payload' = [payload EXCEPT ![NextId] = refs]
  /\ asked' = [asked EXCEPT ![NextId] = meant]
  /\ handler' = [pc |-> "a", job |-> NextId, out |-> refs]
  /\ UNCHANGED <<staging, dir, assets, accepted, uploaded>>

\* A staged file must be there when the request is validated; both arms may name the same.
create_job ==
  /\ handler = Idle
  /\ \E refs \in Forms : (\A arm \in Arms : exists(refs[arm])) /\ enqueue_job(refs, refs)

CloneRead ==
  /\ handler = Idle
  /\ \E j \in Jobs :
       /\ row[j] \notin {"unborn", "deleted"}
       /\ handler' = [pc |-> "clone", job |-> j, out |-> payload[j]]
  /\ UNCHANGED <<row, payload, staging, dir, assets, accepted, uploaded, asked>>

CloneEnqueue == handler.pc = "clone" /\ enqueue_job(handler.out, asked[handler.job])

clone_job == CloneRead \/ CloneEnqueue

\* Mutant: both arms are moved to the same name.
PromoteToA(arm) ==
  LET ref == handler.out[arm]
      j == handler.job
  IN  /\ handler.pc = arm /\ ref.type = "asset_ref" /\ exists(ref)
      /\ staging' = staging \ {ref.upload}
      /\ dir' = dir \cup {j}
      /\ assets' = [assets EXCEPT ![j]["a"] = ref.upload]
      /\ handler' = [handler EXCEPT !.pc = IF arm = "a" THEN "b" ELSE "update", !.out[arm] = Stored(j, "a")]
      /\ UNCHANGED <<row, payload, accepted, uploaded, asked>>

\* promote_asset_to_job for a staged file: it is moved.
Move(arm) ==
  LET ref == handler.out[arm]
      j == handler.job
  IN  /\ handler.pc = arm /\ ref.type = "asset_ref" /\ exists(ref)
      /\ staging' = staging \ {ref.upload}
      /\ dir' = dir \cup {j}
      /\ assets' = [assets EXCEPT ![j][arm] = ref.upload]
      /\ handler' = [handler EXCEPT !.pc = IF arm = "a" THEN "b" ELSE "update", !.out[arm] = Stored(j, arm)]
      /\ UNCHANGED <<row, payload, accepted, uploaded, asked>>

\* No image, a URL, or a path as in a clone: the reference stays as it is.
Keep(arm) ==
  /\ handler.pc = arm /\ handler.out[arm].type # "asset_ref" /\ exists(handler.out[arm])
  /\ handler' = [handler EXCEPT !.pc = IF arm = "a" THEN "b" ELSE "update"]
  /\ UNCHANGED <<row, payload, staging, dir, assets, accepted, uploaded, asked>>

\* Mutant: a refused job gets a status that nothing else knows.
RefuseUnknown(arm) ==
  /\ handler.pc = arm /\ ~exists(handler.out[arm])
  /\ row' = [row EXCEPT ![handler.job] = "rejected"]
  /\ handler' = Idle
  /\ UNCHANGED <<payload, staging, dir, assets, accepted, uploaded, asked>>

\* The file is missing: the job fails, the client gets a 400, and what was
\* moved for the other arm stays where it is now.
Refuse(arm) ==
  /\ handler.pc = arm /\ ~exists(handler.out[arm])
  /\ row' = [row EXCEPT ![handler.job] = "failed"]
  /\ handler' = Idle
  /\ UNCHANGED <<payload, staging, dir, assets, accepted, uploaded, asked>>

promote_asset_to_job(arm) == Move(arm) \/ Keep(arm) \/ Refuse(arm)

update_job_payload ==
  /\ handler.pc = "update"
  /\ payload' = [payload EXCEPT ![handler.job] = handler.out]
  /\ accepted' = accepted \cup {handler.job}
  /\ handler' = Idle
  /\ UNCHANGED <<row, staging, dir, assets, uploaded, asked>>

finalize_payload_after_enqueue == (\E arm \in Arms : promote_asset_to_job(arm)) \/ update_job_payload

(***************************************************************************)
(* Readers of an image: the page of a job, and a call to a model.          *)
(***************************************************************************)
get_job_variant_image(j, arm) ==
  LET ref == payload[j][arm]
  IN  CASE ref.type = "path" /\ exists(ref) -> assets[ref.job][ref.arm]
        [] ref.type = "url"                 -> "redirect"
        [] OTHER                            -> "404"

readable(j) == \A arm \in Arms : exists(payload[j][arm])

AssetsTypeOK ==
  /\ row \in [Jobs -> {"unborn", "preparing", "failed", "completed", "deleted"}]
  /\ payload \in [Jobs -> [Arms -> Images]] /\ asked \in [Jobs -> [Arms -> Images]]
  /\ staging \subseteq uploaded /\ uploaded \subseteq Uploads
  /\ dir \subseteq Jobs /\ accepted \subseteq Jobs
  /\ assets \in [Jobs -> [Arms -> Uploads \cup {NoFile}]]
  /\ handler \in [pc: {"idle", "clone", "a", "b", "update"}, job: 0..MaxJob, out: [Arms -> Images]]
=============================================================================
