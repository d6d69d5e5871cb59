--------------------------- MODULE MCValidatorRun ---------------------------
(* ValidatorRun with the inputs that TLC enumerates. *)
EXTENDS ValidatorRun

R(age, place, occ, fields) == [age |-> age, place |-> place, occ |-> occ, fields |-> fields]
Far == R(19, "elsewhere", TRUE, FALSE)
Here == R(29, "within", TRUE, TRUE)
Near == R(29, "province", FALSE, TRUE)
Exact == R(30, "exact", TRUE, TRUE)
Old == R(59, "within", FALSE, TRUE)
MCIndexes == UNION {[1..n -> {Far, Here, Near, Exact}] : n \in 0..2}
             \cup {<<Near, Near, Near, Here>>, <<Exact, Old, Exact, Here>>, <<Here, Here, Here>>, <<Near, Old, Near, Old>>}

Q(lo, hi, province, district, occ, fields, k, backend, single) ==
  [age_min |-> lo, age_max |-> hi, province |-> province, district |-> district, occ |-> occ,
   fields |-> fields, k |-> k, backend |-> backend, single |-> single]
MCRequests ==
  {Q(19, 59, FALSE, "", FALSE, 0, 2, "chroma", FALSE), Q(30, 59, FALSE, "", TRUE, 1, 0, "langchain", FALSE),
   Q(19, 59, TRUE, "name", FALSE, 0, 1, "chroma", FALSE), Q(19, 59, TRUE, "token", FALSE, 0, 1, "chroma", FALSE),
   Q(19, 59, FALSE, "name", FALSE, 0, 1, "chroma", FALSE), Q(19, 29, TRUE, "name", TRUE, 0, 1, "chroma", TRUE),
   Q(19, 59, TRUE, "name", FALSE, 0, 1, "langchain", TRUE)}

MCModes == {[evaluator |-> "mock", eval_concurrency |-> 2, images |-> TRUE],
            [evaluator |-> "ollama", eval_concurrency |-> 2, images |-> TRUE],
            [evaluator |-> "ollama", eval_concurrency |-> 1, images |-> FALSE],
            [evaluator |-> "ollama", eval_concurrency |-> 2, images |-> FALSE]}

S(n) == [m \in Metrics |-> n]
Answer(w, a, b, why) == [form |-> "object", winner |-> w, scores |-> [A |-> a, B |-> b], reason |-> why]
MCAnswers == {NoObject, OddType,
              [form |-> "object", winner |-> "A", scores |-> [A |-> S(1)], reason |-> ""],
              Answer("A", S(60), S(50), "r1"), Answer("A", S(50), [S(50) EXCEPT !.trust = 60], ""),
              Answer("B", S(-5), S(105), "r2")}
MCMockScores == {[A |-> S(30), B |-> S(30)], [A |-> S(100), B |-> [S(100) EXCEPT !.interest = 30]]}
=============================================================================
