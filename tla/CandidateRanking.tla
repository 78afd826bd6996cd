---------------------------- MODULE CandidateRanking ----------------------------
(****************************************************************************)
(* The score of a candidate for the queries of a search and what of a pool  *)
(* is shown (services/search/ranking, explore/canonical.py).  Weights,      *)
(* priorities and alignments are multiples of a twentieth, so a quality     *)
(* counts 8000ths; scores count hundredths and are rounded down where the   *)
(* code rounds floats.                                                      *)
(****************************************************************************)
EXTENDS CandidateAdmission

CONSTANT RelevanceCutoff    \* in hundredths of a point

\* The cutoff is a score.
ASSUME CutoffAssumption == RelevanceCutoff \in 0 .. 10000

LocationWeight ==
  [name |-> 20, description |-> 17, topic |-> 15, readme |-> 13, documentation |-> 11,
   code |-> 12, other |-> 5, metadata |-> 13]

\* The primary interpretation of a topic counts slightly more than the others.
QueryPriority(index) == IF index <= 4 THEN 21 - index ELSE 16

\* The quality of the best evidence for the query at this place of the plan.
QueryQuality(candidate, queries, index) ==
  LET current == {e \in candidate.evidence : e.query = queries[index]}
  IN Max({0} \cup {LocationWeight[e.location] * e.alignment * QueryPriority(index)
                     : e \in current})

StrongestQuality(candidate, queries) ==
  Max({0} \cup {QueryQuality(candidate, queries, i) : i \in DOMAIN queries})

\* What the support of the other queries leaves uncertain, in ten-thousandths.
Uncertainty(candidate, queries) ==
  LET strongest == StrongestQuality(candidate, queries)
      best == CHOOSE i \in DOMAIN queries :
                QueryQuality(candidate, queries, i) = strongest
      after[n \in 0 .. Len(queries)] ==
        IF n = 0 THEN 10000
        ELSE IF n = best THEN after[n - 1]
        ELSE (after[n - 1] * (strongest - QueryQuality(candidate, queries, n)))
               \div strongest
  IN IF strongest = 0 THEN 10000 ELSE after[Len(queries)]

Score(candidate, queries) ==
  (85 * StrongestQuality(candidate, queries)) \div 80
    + (1500 * (10000 - Uncertainty(candidate, queries))) \div 10000

QuerySet(queries) == {queries[i] : i \in DOMAIN queries}

\* select_canonical_candidates: what is admitted and reaches the cutoff.
Visible(pool, queries) ==
  {r \in Admitted(pool, QuerySet(queries)) :
     Score(pool[r], queries) >= RelevanceCutoff}
=============================================================================
