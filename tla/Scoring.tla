------------------------------- MODULE Scoring -------------------------------
(***************************************************************************)
(* Scores of one persona and their aggregation over all of them            *)
(* (scripts/ab_validator.py and nemotron_ab/key_reasons.py).               *)
(*                                                                         *)
(* Numbers are integers: a weight is a percentage, a weighted score counts *)
(* hundredths of a point, an average or a rate counts its last decimal     *)
(* place (10^-4).                                                          *)
(***************************************************************************)
EXTENDS Rows, SequencesExt, FiniteSetsExt

CONSTANTS MaxItems      \* 10: the lines of key_reasons

ASSUME ScoringAssumption == MaxItems \in Nat \ {0}

Arms == {"A", "B"}
DEFAULT_METRIC_WEIGHTS == [interest |-> 25, click_intent |-> 25, purchase_intent |-> 35, trust |-> 15]
Metrics == DOMAIN DEFAULT_METRIC_WEIGHTS

\* 100 points
FullScore == 10000

Distance(x, y) == IF x >= y THEN x - y ELSE y - x

(***************************************************************************)
(* One answer                                                              *)
(*                                                                         *)
(* An answer of the model is a text without a JSON object, an object with  *)
(* a field of another type than expected, or a record with a winner, the   *)
(* scores it gives, per arm and metric, and a reason.                      *)
(***************************************************************************)
NoObject == [form |-> "text"]
OddType == [form |-> "odd"]

\* Mutant: no lower limit.
ClampHigh(s) == IF s > 100 THEN 100 ELSE s

clamp(s) == IF s < 0 THEN 0 ELSE IF s > 100 THEN 100 ELSE s

weighted_sum(score_map) ==
  LET w == DEFAULT_METRIC_WEIGHTS
  IN  w.interest * score_map.interest + w.click_intent * score_map.click_intent
      + w.purchase_intent * score_map.purchase_intent + w.trust * score_map.trust

confidence_from_margin(a, b) == Smaller(FullScore, Distance(a, b))

\* The answers whose defects evaluate_with_ollama reports as ValueError.
Invalid(answer) ==
  \/ answer.form = "text"
  \/ /\ answer.form = "object"
     /\ \/ answer.winner \notin Arms
        \/ ~(Arms \subseteq DOMAIN answer.scores)
        \/ \E arm \in Arms \cap DOMAIN answer.scores : ~(Metrics \subseteq DOMAIN answer.scores[arm])

\* What is kept of a valid answer: both weighted scores, and the winner that the
\* answer itself names, which need not be the arm it scores higher.
Scored(answer) ==
  LET total(arm) == weighted_sum([m \in Metrics |-> clamp(answer.scores[arm][m])])
  IN  [winner |-> answer.winner, A |-> total("A"), B |-> total("B"),
       confidence |-> confidence_from_margin(total("A"), total("B")), reason |-> answer.reason]

\* evaluate_with_mock: the scores are hashes between 30 and 100, the winner follows from them.
evaluate_with_mock(scores, reason) ==
  LET a == weighted_sum(scores.A)
      b == weighted_sum(scores.B)
  IN  [winner |-> IF a >= b THEN "A" ELSE "B", A |-> a, B |-> b,
       confidence |-> confidence_from_margin(a, b), reason |-> reason]

(***************************************************************************)
(* aggregate_results                                                       *)
(***************************************************************************)
\* round(): the nearest integer.  Exact halves do not occur with less than 8 rows.
Rounded(num, den) == (2 * num + den) \div (2 * den)

\* sum(): what the first k numbers add up to, for every k.
Sums(v) == LET sum[k \in 0..Len(v)] == IF k = 0 THEN 0 ELSE sum[k - 1] + v[k] IN sum

Total(s, field) == Sums([k \in 1..Len(s) |-> s[k][field]])[Len(s)]

summarize_rows(s) ==
  LET n == Len(s)
      wins_a == Cardinality({k \in DOMAIN s : s[k].winner = "A"})
      rate(wins) == Rounded(10000 * wins, n)
  IN  IF n = 0
      THEN [count |-> 0, win_rate |-> [A |-> 0, B |-> 0], avg_score |-> [A |-> 0, B |-> 0], avg_confidence |-> 0]
      ELSE [count |-> n,
            win_rate |-> [A |-> rate(wins_a), B |-> rate(n - wins_a)],
            avg_score |-> [A |-> Rounded(100 * Total(s, "A"), n),
                           B |-> Rounded(100 * Total(s, "B"), n)],
            avg_confidence |-> Rounded(Total(s, "confidence"), n)]

\* The arm that is ahead, A on a tie.
Ahead(pair) == IF pair.A >= pair.B THEN "A" ELSE "B"

\* Mutant: the win rate first.
WinnerByRate(overall) ==
  IF overall.win_rate.A = overall.win_rate.B THEN Ahead(overall.avg_score) ELSE Ahead(overall.win_rate)

\* Average score first, win rate on a tie, A when that is a tie as well.
final_winner(overall) ==
  IF overall.avg_score.A = overall.avg_score.B THEN Ahead(overall.win_rate) ELSE Ahead(overall.avg_score)

\* Buckets that clearly (3 points or more) prefer the other arm.
conditional_recommendation(by_bucket, winner) ==
  {b \in DOMAIN by_bucket :
     /\ by_bucket[b].count > 0
     /\ Ahead(by_bucket[b].avg_score) # winner
     /\ Distance(by_bucket[b].avg_score.A, by_bucket[b].avg_score.B) >= 30000}

(***************************************************************************)
(* key_reasons: a headline, a line on the buckets, and the reasons of the  *)
(* rows that are most decided, each text once.                             *)
(***************************************************************************)
quote_strength(r) == r.confidence * 10001 + Distance(r.A, r.B)

\* Mutant: the rows as they come.
Unranked(s) == s

\* sorted(..., reverse=True) keeps the order of equals
Ranked(s) ==
  LET Before(i, j) == \/ quote_strength(s[i]) > quote_strength(s[j])
                      \/ quote_strength(s[i]) = quote_strength(s[j]) /\ i < j
      place(i) == Cardinality({j \in DOMAIN s : Before(j, i)}) + 1
  IN  [k \in DOMAIN s |-> s[CHOOSE i \in DOMAIN s : place(i) = k]]

\* What the loop has quoted after each of the ranked rows.
QuotedAfter(ranked, max_quotes) ==
  LET Fits(out, r) == /\ Len(out) < max_quotes
                      /\ r.reason # "" /\ \A k \in DOMAIN out : out[k].reason # r.reason
      Quote(out, r) == IF Fits(out, r) THEN Append(out, r) ELSE out
      quoted[n \in 0..Len(ranked)] == IF n = 0 THEN <<>> ELSE Quote(quoted[n - 1], ranked[n])
  IN  quoted

quotes_from_all_rows(s, max_quotes) == QuotedAfter(Ranked(s), max_quotes)[Len(s)]

build_key_reasons(all_rows, overall, by_bucket, winner) ==
  IF overall.count = 0
  THEN [lead |-> "no rows", quotes |-> <<>>]
  ELSE [lead |-> IF Ahead(overall.win_rate) # Ahead(overall.avg_score) THEN "rate and score differ" ELSE "agree",
        \* the headline and the line on the buckets take two of the items
        quotes |-> quotes_from_all_rows(all_rows, IF MaxItems > 2 THEN MaxItems - 2 ELSE 0)]

aggregate_results(results) ==
  LET of(b) == At(results, {k \in DOMAIN results : results[k].bucket = b})
      by_bucket == [b \in Buckets |-> summarize_rows(of(b))]
      all_rows == of(1) \o of(2) \o of(3) \o of(4)
      overall == summarize_rows(all_rows)
      winner == final_winner(overall)
  IN  [overall |-> overall, summary_by_bucket |-> by_bucket, final_winner |-> winner,
       conditional |-> conditional_recommendation(by_bucket, winner),
       key_reasons |-> build_key_reasons(all_rows, overall, by_bucket, winner)]
=============================================================================
