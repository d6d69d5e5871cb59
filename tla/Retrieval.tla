------------------------------ MODULE Retrieval ------------------------------
(***************************************************************************)
(* How a job's personas are picked from the vector index                   *)
(* (nemotron_ab/persona_retrieval.py, persona_where.py, chroma_langchain.py*)
(* and validator_runner._retrieve_filtered_personas).                      *)
(*                                                                         *)
(* The index is a sequence in the order collection.get returns it.  A      *)
(* similarity query returns any n of the rows its where clause matches, in *)
(* any order: embeddings are abstracted away.  A row has an age, a place   *)
(* relative to the asked province and district, whether its occupation     *)
(* contains the asked text, and whether it has the other asked fields.     *)
(***************************************************************************)
EXTENDS Rows, SequencesExt, FiniteSetsExt

CONSTANTS Indexes,       \* the contents of the vector index to consider
          Requests,      \* the payloads that POST lets through
          MaxPersonas,   \* max_personas of the payload
          KLow, KHigh, KDefault,   \* 20, 500 and 80: limits of the results per bucket
          ScanCap,       \* 2000: limit of the results of the single query
          Page           \* 1000: rows per collection.get of the fallback

Places == {"exact", "within", "province", "elsewhere"}
Row == [age: 19..59, place: Places, occ: BOOLEAN, fields: BOOLEAN]
Request == [age_min: 19..59, age_max: 19..59, province: BOOLEAN, district: {"", "name", "token"},
            occ: BOOLEAN, fields: 0..5, k: Nat, backend: {"chroma", "langchain"}, single: BOOLEAN]

ASSUME RetrievalAssumption ==
  /\ \A ix \in Indexes : ix \in Seq(Row)
  /\ Requests \subseteq Request
  /\ \A r \in Requests : r.age_min <= r.age_max
  /\ {MaxPersonas, KLow, KDefault, KHigh, ScanCap, Page} \subseteq Nat \ {0}
  /\ KLow <= KDefault /\ KDefault <= KHigh

VARIABLES pc,       \* program counter of run_validator
          req,      \* the payload: persona_filter, limits and backend
          index,    \* the index as this run sees it
          bkt,      \* the age bucket that is queried next
          found,    \* per_bucket: what the queries left after post filters and shuffle
          offset,   \* of the fallback scan
          rows      \* the personas picked so far, as positions in the index

retrievalVars == <<pc, req, index, bkt, found, offset, rows>>

(***************************************************************************)
(* Ages                                                                    *)
(***************************************************************************)
bucket_age_bounds == << [lo |-> 19, hi |-> 29], [lo |-> 30, hi |-> 39],
                        [lo |-> 40, hi |-> 49], [lo |-> 50, hi |-> 59] >>

\* 0 stands for None
age_to_bucket(age) ==
  CASE 19 <= age /\ age <= 29 -> 1
    [] 30 <= age /\ age <= 39 -> 2
    [] 40 <= age /\ age <= 49 -> 3
    [] 50 <= age /\ age <= 59 -> 4
    [] OTHER -> 0

\* The ages of the bucket that the filter asks for; lo > hi when there are none.
bucket_query_age_bounds(b, f) ==
  [lo |-> Larger(bucket_age_bounds[b].lo, f.age_min), hi |-> Smaller(bucket_age_bounds[b].hi, f.age_max)]

active(b, f) == bucket_query_age_bounds(b, f).lo <= bucket_query_age_bounds(b, f).hi

(***************************************************************************)
(* Limits                                                                  *)
(***************************************************************************)
clamp_retrieval_k_per_bucket(raw) ==
  Larger(KLow, Smaller(KHigh, IF raw = 0 THEN KDefault ELSE raw))

retrieval_fanout_multiplier(f) ==
  Larger(1, Smaller(35, (f.fields + (IF f.occ THEN 6 ELSE 0)) * 4 + 1))

single_query_limit(f) ==
  LET base == Larger(clamp_retrieval_k_per_bucket(f.k), Larger(MaxPersonas, KLow))
  IN  Smaller(ScanCap, Larger(base * retrieval_fanout_multiplier(f), base))

(***************************************************************************)
(* Conditions: the where clause is evaluated by the index, the post filter *)
(* on what the index returned.                                             *)
(***************************************************************************)
\* Only a full token ("Gyeonggi-Seongnam Bundang") can be matched by the index.
district_exact_token(f) == f.district = "token"

FieldsFit(r, f) ==
  /\ f.fields > 0 => r.fields
  /\ f.province => r.place # "elsewhere"
  /\ district_exact_token(f) => r.place = "exact"

chroma_where_for_bucket(r, f, b) ==
  LET bounds == bucket_query_age_bounds(b, f)
  IN  bounds.lo <= r.age /\ r.age <= bounds.hi /\ FieldsFit(r, f)

chroma_where_and(r, f) == f.age_min <= r.age /\ r.age <= f.age_max /\ FieldsFit(r, f)

\* Mutant: a keyword for a full token only.
KeywordOfTokens(f) == f.province /\ f.district = "token"

\* The keyword is empty unless the province is given as well.
district_prefix_keyword(f) == f.province /\ f.district # ""

row_passes_post_filters(r, f) ==
  /\ f.occ => r.occ
  /\ district_prefix_keyword(f) => r.place \in (IF f.district = "token" THEN {"exact"} ELSE {"exact", "within"})

\* What a similarity query may return: any n of the rows that match, in any order.
QueryResults(n, matching) ==
  UNION {SetToSeqs(S) : S \in kSubset(Smaller(n, Cardinality(matching)), matching)}

\* The rows of an answer that pass, in the order of the answer.
Passing(s) == At(s, {k \in DOMAIN s : row_passes_post_filters(index[s[k]], req)})

FirstOf(s) == SubSeq(s, 1, Smaller(Len(s), MaxPersonas))

\* Mutant: bucket after bucket.
MergeInOrder(per_bucket) == FirstOf(FlattenSeq(per_bucket))

\* The turns that a bucket takes: turn p is of one bucket after the other, round by round.
BucketOf(p) == (p % Len(AGE_BUCKETS)) + 1
RoundOf(p) == (p \div Len(AGE_BUCKETS)) + 1
Turns(per_bucket) ==
  LET Longest == Max({Len(per_bucket[b]) : b \in Buckets})
  IN  {p \in 0..(Len(AGE_BUCKETS) * Longest) : RoundOf(p) <= Len(per_bucket[BucketOf(p)])}

\* In each round one row of every bucket that still has one, up to the limit.
merge_rows_round_robin(per_bucket) ==
  LET turns == Ascending(Turns(per_bucket))
  IN  FirstOf([k \in DOMAIN turns |-> per_bucket[BucketOf(turns[k])][RoundOf(turns[k])]])

(***************************************************************************)
(* Steps                                                                   *)
(***************************************************************************)
RetrievalInit ==
  /\ pc = "query"
  /\ req \in Requests
  /\ index \in Indexes
  /\ bkt = 1
  /\ found = [b \in Buckets |-> <<>>]
  /\ offset = 0
  /\ rows = <<>>

\* One query per bucket, filtered and shuffled; a bucket outside of the filter is skipped.
QueryBucket ==
  /\ pc = "query" /\ ~req.single /\ bkt \in Buckets
  /\ LET result == QueryResults(clamp_retrieval_k_per_bucket(req.k),
                                {i \in DOMAIN index : chroma_where_for_bucket(index[i], req, bkt)})
     IN  \E s \in (IF active(bkt, req) THEN result ELSE {<<>>}) :
           found' = [found EXCEPT ![bkt] = Passing(s)]
  /\ bkt' = bkt + 1
  /\ UNCHANGED <<pc, req, index, offset, rows>>

\* Only Chroma falls back to a scan, and only when a district was asked and nobody found.
AfterQueries(picked) ==
  IF picked = <<>> /\ district_prefix_keyword(req) /\ req.backend = "chroma" THEN "page" ELSE "retrieved"

MergeBuckets ==
  /\ pc = "query" /\ ~req.single /\ bkt > Len(AGE_BUCKETS)
  /\ rows' = merge_rows_round_robin(found)
  /\ pc' = AfterQueries(rows')
  /\ UNCHANGED <<req, index, bkt, found, offset>>

\* PERSONA_RETRIEVE_LEGACY: one query over all ages.
SingleQuery ==
  /\ pc = "query" /\ req.single
  /\ \E s \in QueryResults(single_query_limit(req), {i \in DOMAIN index : chroma_where_and(index[i], req)}) :
       rows' = FirstOf(Passing(s))
  /\ pc' = AfterQueries(rows')
  /\ UNCHANGED <<req, index, bkt, found, offset>>

Matching == Ascending({i \in DOMAIN index : chroma_where_and(index[i], req)})
PageRead == SubSeq(Matching, offset + 1, Smaller(offset + Page, Len(Matching)))

\* Mutant: a page without a hit ends the scan.
ScanPageGivesUp ==
  /\ pc = "page"
  /\ rows' = FirstOf(rows \o Passing(PageRead))
  /\ IF Len(PageRead) < Page \/ rows' = rows \/ Len(rows') >= MaxPersonas
     THEN pc' = "retrieved" /\ UNCHANGED offset
     ELSE pc' = "page" /\ offset' = offset + Len(PageRead)
  /\ UNCHANGED <<req, index, bkt, found>>

\* Mutant: the offset counts the rows that were kept.
ScanPageStalls ==
  /\ pc = "page"
  /\ rows' = FirstOf(rows \o Passing(PageRead))
  /\ IF Len(PageRead) < Page \/ Len(rows') >= MaxPersonas
     THEN pc' = "retrieved" /\ UNCHANGED offset
     ELSE pc' = "page" /\ offset' = Len(rows')
  /\ UNCHANGED <<req, index, bkt, found>>

\* One page of the scan: it ends with an empty or short page, or when there are enough rows.
ScanPage ==
  /\ pc = "page"
  /\ rows' = FirstOf(rows \o Passing(PageRead))
  /\ IF Len(PageRead) < Page \/ Len(rows') >= MaxPersonas
     THEN pc' = "retrieved" /\ UNCHANGED offset
     ELSE pc' = "page" /\ offset' = offset + Len(PageRead)
  /\ UNCHANGED <<req, index, bkt, found>>

\* The four ways through these steps, and the choice between them.
retrieve_personas_balanced_chroma ==
  req.backend = "chroma" /\ ~req.single /\ (QueryBucket \/ MergeBuckets \/ ScanPage)

retrieve_personas_balanced_langchain ==
  req.backend = "langchain" /\ ~req.single /\ (QueryBucket \/ MergeBuckets)

retrieve_personas_chroma_single == req.backend = "chroma" /\ req.single /\ (SingleQuery \/ ScanPage)

retrieve_personas_langchain == req.backend = "langchain" /\ req.single /\ SingleQuery

Retrieve ==
  \/ retrieve_personas_balanced_chroma \/ retrieve_personas_balanced_langchain
  \/ retrieve_personas_chroma_single \/ retrieve_personas_langchain

(***************************************************************************)
(* Properties                                                              *)
(***************************************************************************)
RetrievalTypeOK ==
  /\ req \in Request
  /\ bkt \in 1..Len(AGE_BUCKETS) + 1
  /\ offset \in 0..Len(index)
  /\ found \in [Buckets -> Seq(DOMAIN index)]
  /\ rows \in Seq(DOMAIN index)

\* What the filter means.  A district without its province and without a hyphen
\* (as in "name") means nothing to this code.
Asked(r) ==
  /\ r.age \in req.age_min..req.age_max
  /\ (req.occ => r.occ) /\ (req.fields > 0 => r.fields)
  /\ req.province => r.place \in Places \ {"elsewhere"}
  /\ req.district = "token" => r.place = "exact"
  /\ req.district = "name" /\ req.province => r.place \in {"exact", "within"}

\* Whatever way a persona was found (bucket queries, single query, pages of the
\* scan), it is one that the filter asks for, no persona is picked twice, and no
\* more are picked than asked for.
RetrievedAsAsked ==
  /\ \A i \in Range(rows) : Asked(index[i])
  /\ Cardinality(Range(rows)) = Len(rows)
  /\ Len(rows) <= MaxPersonas

\* Round robin: a bucket is two or more behind another one only when all of its
\* candidates were taken, and a result is short only when every bucket is used up.
Balanced ==
  pc = "retrieved" /\ ~req.single /\ (\E b \in Buckets : found[b] # <<>>) =>
    LET taken(b) == Cardinality(Range(rows) \cap Range(found[b]))
    IN  /\ \A b, c \in Buckets : taken(b) + 1 < taken(c) => taken(b) = Len(found[b])
        /\ Len(rows) < MaxPersonas => \A b \in Buckets : taken(b) = Len(found[b])

\* With the Chroma backend a district that has a matching persona is never
\* reported as empty, however small the part of the index the queries saw: the
\* scan goes through all pages.
DistrictIsFound ==
  pc = "retrieved" /\ district_prefix_keyword(req) /\ req.backend = "chroma" =>
    (rows = <<>> => \A i \in DOMAIN index : ~Asked(index[i]))
=============================================================================
