----------------------------- MODULE ValidatorRun -----------------------------
(***************************************************************************)
(* The subprocess job from its payload to its summary: run_validator       *)
(* (nemotron_ab/services/validator_runner.py) retrieves the personas,      *)
(* writes them to a file and runs scripts/ab_validator.py, which samples   *)
(* them, has them evaluated in batches by a pool of threads, aggregates    *)
(* the answers and writes a report that run_validator reads.               *)
(*                                                                         *)
(* LegacyJobs models the worker around run_validator.                      *)
(***************************************************************************)
EXTENDS Retrieval, Scoring

CONSTANTS Modes,         \* the combinations of evaluator, threads and images to consider
          Answers,       \* what the LLM may answer
          MockScores,    \* the scores that a hash may yield, per arm
          Retries,       \* --retries
          MinPerBucket,  \* min_per_bucket of the profile
          BatchSize      \* batch_size of the profile

ASSUME RunAssumption ==
  /\ Modes \subseteq [evaluator: {"mock", "ollama"}, eval_concurrency: 1..8, images: BOOLEAN]
  /\ Retries \in Nat
  /\ {MinPerBucket, BatchSize} \subseteq Nat \ {0}

\* A score that is given is a number, or int() would have made the answer an odd one;
\* the hashes of the mock are numbers between 30 and 100.
ASSUME AnswerAssumption ==
  /\ \A a \in Answers : a.form = "object" =>
       \A arm \in Arms \cap DOMAIN a.scores : \A m \in Metrics \cap DOMAIN a.scores[arm] : a.scores[arm][m] \in Int
  /\ \A s \in MockScores : \A arm \in Arms, m \in Metrics : s[arm][m] \in 30..100

VARIABLES mode,      \* evaluator, eval_concurrency and images of the payload
          personas,  \* personas.jsonl: for each line its number, which becomes the id, and the age
          sample,    \* the sampled personas, in the order they are evaluated
          busy,      \* the personas that a thread of the pool is asking about
          tries,     \* the attempts made for each of them
          result,    \* batch_results
          partial,   \* the lines of job_<id>.partial.jsonl
          file,      \* job_<id>.report.json
          summary    \* what run_validator returned

childVars == <<mode, personas, sample, busy, tries, result, partial>>
vars == <<retrievalVars, childVars, file, summary>>

campaign_has_images == mode.images
Pooled == mode.evaluator = "ollama" /\ mode.eval_concurrency > 1
Width == IF Pooled THEN mode.eval_concurrency ELSE 1
Size == Len(sample)
NoResult == [state |-> "none"]
ErrorResult == [state |-> "error"]
NoMode == [evaluator |-> "mock", eval_concurrency |-> 1, images |-> FALSE]

Init ==
  /\ RetrievalInit
  /\ mode = NoMode
  /\ personas = {} /\ sample = <<>> /\ busy = {} /\ tries = <<>> /\ result = <<>>
  /\ partial = <<>>
  \* outputs/ may hold the report of an earlier job of the same id
  /\ file \in {"absent", "old"}
  /\ summary = "none"

(***************************************************************************)
(* run_validator until the subprocess is started                           *)
(***************************************************************************)
RetrieveStep == Retrieve /\ UNCHANGED <<childVars, file, summary>>

\* The locals of the retrieval go out of scope.
ForgetRetrieval ==
  /\ index' = <<>> /\ bkt' = 1 /\ found' = [b \in Buckets |-> <<>>] /\ offset' = 0 /\ rows' = <<>>
  /\ req' = CHOOSE r \in Requests : TRUE

NobodyFound ==
  /\ pc = "retrieved" /\ rows = <<>>
  /\ summary' = "error" /\ pc' = "done"
  /\ ForgetRetrieval /\ UNCHANGED <<childVars, file>>

Spawn ==
  /\ pc = "retrieved" /\ rows # <<>>
  /\ personas' = {[id |-> k, age |-> index[rows[k]].age] : k \in DOMAIN rows}
  /\ mode' \in Modes
  /\ pc' = "sample"
  /\ ForgetRetrieval /\ UNCHANGED <<sample, busy, tries, result, partial, file, summary>>

(***************************************************************************)
(* ab_validator.main                                                       *)
(***************************************************************************)
bucket(p) == age_to_bucket(p.age)

normalize_personas == {p \in personas : bucket(p) # 0}

\* The first of a bucket, which is shuffled.
HeadOf(b) == {SubSeq(g, 1, Smaller(MinPerBucket, Len(g))) : g \in SetToSeqs({p \in normalize_personas : bucket(p) = b})}
Heads == {h1 \o h2 \o h3 \o h4 : h1 \in HeadOf(1), h2 \in HeadOf(2), h3 \in HeadOf(3), h4 \in HeadOf(4)}

\* Mutant: the remaining places are not filled.
SampleHeads == {FirstOf(h) : h \in Heads}

\* First up to MinPerBucket of every bucket, then of the rest, up to max_personas.
\* The rest is shuffled as well, so any order of it may come out.
sample_personas_by_bucket ==
  UNION {{FirstOf(h \o rest) : rest \in SetToSeqs(normalize_personas \ Range(h))} : h \in Heads}

\* An empty sample ends the program: main takes sampled[0] for a prompt.
Sample ==
  /\ pc = "sample"
  /\ sample' \in sample_personas_by_bucket
  /\ tries' = [i \in DOMAIN sample' |-> 0]
  /\ result' = [i \in DOMAIN sample' |-> NoResult]
  /\ pc' = IF sample' = <<>> THEN "failed" ELSE "batch"
  /\ UNCHANGED <<mode, personas, busy, partial, file, summary, req, index, bkt, found, offset, rows>>

(***************************************************************************)
(* run_campaign: the personas of a batch are taken in order, by one thread *)
(* or by several.  A line of the output is written when its whole batch is *)
(* done.                                                                   *)
(***************************************************************************)
Batch == (Len(partial) + 1)..Smaller(Len(partial) + BatchSize, Size)
Waiting == {i \in Batch : result[i] = NoResult /\ i \notin busy}

evaluationUnchanged == UNCHANGED <<mode, personas, sample, file, summary, req, index, bkt, found, offset, rows>>

Take ==
  /\ pc = "batch" /\ Cardinality(busy) < Width /\ Waiting # {}
  /\ busy' = busy \cup {Min(Waiting)}
  /\ UNCHANGED <<pc, tries, result, partial>> /\ evaluationUnchanged

End(i, outcome) ==
  /\ result' = [result EXCEPT ![i] = outcome]
  /\ busy' = busy \ {i}
  /\ tries' = [tries EXCEPT ![i] = 0]

\* evaluate_one, one attempt for persona i
MockAnswers(i) ==
  /\ mode.evaluator = "mock"
  /\ \E s \in MockScores : End(i, evaluate_with_mock(s, "mock"))
  /\ UNCHANGED pc

Answered(i) ==
  /\ mode.evaluator = "ollama" /\ ~campaign_has_images
  /\ \E a \in Answers : a.form = "object" /\ ~Invalid(a) /\ End(i, Scored(a))
  /\ UNCHANGED pc

\* ValueError, URLError or a timeout is tried again; images are refused with a ValueError.
AttemptFails(i) ==
  /\ mode.evaluator = "ollama"
  /\ campaign_has_images \/ \E a \in Answers : Invalid(a)
  /\ IF tries[i] < Retries
     THEN tries' = [tries EXCEPT ![i] = @ + 1] /\ UNCHANGED <<result, busy>>
     ELSE End(i, ErrorResult)
  /\ UNCHANGED pc

\* Any other exception leaves evaluate_one: the pool notes it for this persona,
\* without a pool it ends the program.
AttemptRaises(i) ==
  /\ mode.evaluator = "ollama" /\ ~campaign_has_images /\ \E a \in Answers : a.form = "odd"
  /\ End(i, ErrorResult)
  /\ pc' = IF Pooled THEN pc ELSE "failed"

Attempt(i) ==
  /\ pc = "batch"
  /\ MockAnswers(i) \/ Answered(i) \/ AttemptFails(i) \/ AttemptRaises(i)
  /\ UNCHANGED partial /\ evaluationUnchanged

Line(i) ==
  LET p == sample[i]
      r == result[i]
  IN  IF r = ErrorResult
      THEN [id |-> p.id, bucket |-> bucket(p), error |-> TRUE]
      ELSE [id |-> p.id, bucket |-> bucket(p), error |-> FALSE,
            winner |-> r.winner, A |-> r.A, B |-> r.B, confidence |-> r.confidence, reason |-> r.reason]

Evaluate == Take \/ \E i \in busy : Attempt(i)

EndBatch ==
  /\ pc = "batch" /\ \A i \in Batch : result[i] # NoResult
  /\ partial' = partial \o [k \in 1..Cardinality(Batch) |-> Line(Len(partial) + k)]
  /\ pc' = IF Len(partial') = Size THEN "aggregate" ELSE "batch"
  /\ result' = [i \in DOMAIN result |-> NoResult]
  /\ UNCHANGED <<busy, tries>> /\ evaluationUnchanged

\* run_campaign returns the rows without an error, which are aggregated.
Good == At(partial, {k \in DOMAIN partial : ~partial[k].error})
Report == aggregate_results(Good)

\* write_json truncates the file, then writes the report to it.
OpenReport ==
  /\ pc = "aggregate"
  /\ file' = "torn" /\ pc' = "write"
  /\ UNCHANGED <<childVars, summary, req, index, bkt, found, offset, rows>>

WriteReport ==
  /\ pc = "write"
  /\ file' = "new" /\ pc' = "text"
  /\ UNCHANGED <<childVars, summary, req, index, bkt, found, offset, rows>>

\* The same as text, for people; then the program ends with code 0.
WriteText ==
  /\ pc = "text"
  /\ pc' = "exited"
  /\ UNCHANGED <<childVars, file, summary, req, index, bkt, found, offset, rows>>

Running == pc \in {"sample", "batch", "aggregate", "write", "text"}

\* Memory, a full disk, a signal: the child ends with another code than 0.
ChildDies ==
  /\ Running
  /\ pc' = "failed" /\ busy' = {}
  /\ UNCHANGED <<mode, personas, sample, tries, result, partial, file, summary, req, index, bkt, found, offset, rows>>

(***************************************************************************)
(* run_validator after the subprocess                                      *)
(***************************************************************************)
\* subprocess.run kills the child at the time limit, if one is set, and raises.
Timeout ==
  /\ Running
  /\ pc' = "done" /\ summary' = "error" /\ busy' = {}
  /\ UNCHANGED <<mode, personas, sample, tries, result, partial, file, req, index, bkt, found, offset, rows>>

\* Mutant: the exit code is not looked at.
RaiseNot ==
  /\ pc = "failed"
  /\ pc' = "done" /\ summary' = IF file = "absent" THEN "error" ELSE file
  /\ UNCHANGED <<childVars, file, req, index, bkt, found, offset, rows>>

Raise ==
  /\ pc = "failed"
  /\ pc' = "done" /\ summary' = "error"
  /\ UNCHANGED <<childVars, file, req, index, bkt, found, offset, rows>>

\* Exit code 0: the report is looked for, read, and its parts returned.
Return ==
  /\ pc = "exited"
  /\ pc' = "done"
  /\ summary' = file
  /\ UNCHANGED <<childVars, file, req, index, bkt, found, offset, rows>>

run_validator == RetrieveStep \/ NobodyFound \/ Spawn \/ Timeout \/ Raise \/ Return

run_campaign == Evaluate \/ EndBatch

main == Sample \/ run_campaign \/ OpenReport \/ WriteReport \/ WriteText

Done == pc = "done" /\ UNCHANGED vars

Next == run_validator \/ main \/ ChildDies \/ Done

\* Parent and child run; the LLM answers, or the time limit of the call ends it.
\* Nothing promises that a child dies or is timed out.
Fairness ==
  /\ WF_vars(RetrieveStep) /\ WF_vars(NobodyFound \/ Spawn \/ Raise \/ Return)
  /\ WF_vars(Sample) /\ WF_vars(run_campaign) /\ WF_vars(OpenReport \/ WriteReport \/ WriteText)

Spec == Init /\ [][Next]_vars /\ Fairness

(***************************************************************************)
(* Properties                                                              *)
(***************************************************************************)
Files == {"absent", "old", "torn", "new"}
Reasons == {"mock"} \cup {a.reason : a \in {x \in Answers : x.form = "object"}}
Outcome == [winner: Arms, A: 0..FullScore, B: 0..FullScore, confidence: 0..FullScore, reason: Reasons]

\* Types; above all, whatever an LLM answers, a score that is kept lies between 0 and 100 points.
TypeOK ==
  /\ pc \in {"query", "page", "retrieved", "sample", "batch", "aggregate", "write", "text", "failed", "exited", "done"}
  /\ RetrievalTypeOK
  /\ sample \in Seq(personas)
  /\ busy \subseteq 1..Size /\ Cardinality(busy) <= Width
  /\ tries \in [1..Size -> 0..Retries]
  /\ \A i \in DOMAIN result : result[i] \in {NoResult, ErrorResult} \/ result[i] \in Outcome
  /\ Len(partial) <= Size
  /\ file \in Files
  /\ summary \in Files \cup {"none", "error"}

Reported == pc \in {"write", "text", "exited"}

\* From the retrieval to the report nobody is lost or counted twice: each persona
\* that was retrieved has one line in partial.jsonl, whatever the batches and the
\* order in which threads finished, and the report counts the lines without an
\* error, each in one bucket.
EveryPersonaCounted ==
  /\ pc \in {"aggregate", "write", "text", "exited"} =>
       /\ Len(partial) = Cardinality(personas)
       /\ {partial[k].id : k \in DOMAIN partial} = {p.id : p \in personas}
  /\ Reported =>
       /\ Report.overall.count = Len(Good)
       /\ LET count(b) == Report.summary_by_bucket[b].count
          IN  count(1) + count(2) + count(3) + count(4) = Len(Good)

\* The announced winner has the higher total, or as high a total and as many wins,
\* but for what rounding to four places can hide: nothing with less than 100 rows
\* (10000 for the wins); and the report never says that all age groups clearly
\* prefer the other.
WinnerIsDefensible ==
  Reported /\ Good # <<>> =>
    LET w == Report.final_winner
        total(arm) == Total(Good, arm)
        wins(arm) == Cardinality({k \in DOMAIN Good : Good[k].winner = arm})
        other == IF w = "A" THEN "B" ELSE "A"
    IN  /\ 100 * (total(other) - total(w)) <= Len(Good)
        /\ total(w) = total(other) => 10000 * (wins(other) - wins(w)) <= Len(Good)
        /\ \E b \in Buckets : Report.summary_by_bucket[b].count > 0 /\ b \notin Report.conditional

\* The quotes of the key reasons are the most decided rows: no text is repeated,
\* as many are given as fit, and a text left out belongs to rows no more decided
\* than any quoted one.
QuotesAreTheStrongest ==
  Reported =>
    LET q == Report.key_reasons.quotes
        texts == {q[k].reason : k \in DOMAIN q}
        given == {Good[k].reason : k \in DOMAIN Good} \ {""}
    IN  /\ Cardinality(texts) = Len(q)
        /\ Len(q) = Smaller(Larger(0, MaxItems - 2), Cardinality(given))
        /\ \A k \in DOMAIN Good : Good[k].reason \in given \ texts =>
             \A j \in DOMAIN q : quote_strength(q[j]) >= quote_strength(Good[k])

\* A summary is returned only from a report that this run wrote to its end: not
\* from one that an earlier job of the same id left, nor from a torn one.
ReportIsOfThisRun ==
  summary \in Files => summary = "new"

\* run_validator comes back: the scan of the fallback, the retries and the batches all end.
RunEnds == <>(pc = "done")
=============================================================================
