--------------------------- MODULE CandidateAdmission ---------------------------
(****************************************************************************)
(* Whether a candidate is shown at all (services/search/admission): facts   *)
(* read from its merged signal and provenance, the gate on the name of the  *)
(* repository, and the checks that keep or reject it.  Terms are words,     *)
(* grouped by what they suggest; the strength of a path is a property of    *)
(* the path.                                                                *)
(****************************************************************************)
EXTENDS CandidatePool

CONSTANTS
  RejectedNames,    \* repositories whose short name is a negative pattern
  SoftwareTerms, DataLikeTerms, PaperLikeTerms, CollectionTerms, EducationTerms,
  StrongPaths, DescriptivePaths, WeakPaths,
  AdmissionMode     \* "off" or "enforced"

\* read_matched_code_path and classify_path_strength.
PathStrength(path) ==
  IF path = NoPath THEN "none"
  ELSE IF path \in StrongPaths THEN "strong"
  ELSE IF path \in DescriptivePaths THEN "descriptive"
  ELSE IF path \in WeakPaths THEN "weak" ELSE "none"

CandidateFacts(candidate, queries) ==
  LET signal == candidate.signal
      text == signal.title \cup signal.text.words \cup signal.topics
  IN [codeSearch  |-> "code_search" \in Channels(candidate),
      matches     |-> CurrentMatches(candidate, queries),
      hits        |-> candidate.hits,
      language    |-> signal.language,
      software    |-> text \cap SoftwareTerms # {},
      dataLike    |-> text \cap DataLikeTerms # {},
      paperLike   |-> text \cap PaperLikeTerms # {},
      collection  |-> text \cap CollectionTerms # {},
      education   |-> text \cap EducationTerms # {},
      path        |-> PathStrength(signal.text.path)]

\* Found twice, by two queries or by two hits.
Corroborated(facts) == facts.matches >= 2 \/ facts.hits >= 2

StrongSoftwareEvidence(facts) ==
  \/ facts.path = "strong"
  \/ facts.codeSearch /\ (facts.language \/ facts.software)
  \/ facts.software /\ (facts.language \/ Corroborated(facts))

KeepBucket(facts) ==
  LET software == facts.language \/ facts.software
  IN IF facts.path = "strong" THEN "strong_code_keep"
     ELSE IF facts.path = "descriptive" /\ (software \/ Corroborated(facts))
          THEN "descriptive_path_keep"
     ELSE IF facts.codeSearch /\ (software \/ Corroborated(facts))
          THEN "code_search_keep"
     ELSE IF facts.software /\ (facts.language \/ Corroborated(facts))
          THEN "metadata_software_keep"
     ELSE IF facts.language /\ Corroborated(facts) THEN "language_overlap_keep"
     ELSE "none"

RejectBucket(facts) ==
  LET negative == \/ facts.dataLike \/ facts.paperLike
                  \/ facts.collection \/ facts.education
      software == facts.language \/ facts.software
  IN IF StrongSoftwareEvidence(facts) \/ ~negative THEN "none"
     ELSE IF facts.dataLike /\ ~facts.software THEN "data_like_reject"
     ELSE IF facts.paperLike /\ facts.collection THEN "paper_like_reject"
     ELSE IF facts.education /\ ~software /\ facts.path # "descriptive"
          THEN "education_like_reject"
     ELSE IF facts.path = "weak" /\ ~software THEN "weak_path_reject"
     ELSE "none"

NameGate(repository) == repository \in RejectedNames

\* The name gate comes first, a doubtful candidate is kept.
Bucket(repository, candidate, queries) ==
  LET facts == CandidateFacts(candidate, queries)
  IN IF AdmissionMode = "off" THEN "admission_disabled"
     ELSE IF NameGate(repository) THEN "repo_name_gate"
     ELSE IF KeepBucket(facts) # "none" THEN KeepBucket(facts)
     ELSE IF RejectBucket(facts) # "none" THEN RejectBucket(facts)
     ELSE "conservative_keep"

Rejects == {"repo_name_gate", "data_like_reject", "paper_like_reject",
            "education_like_reject", "weak_path_reject"}

\* run_repository_admission: the visible part of a pool.
Admitted(pool, queries) ==
  {r \in DOMAIN pool : Bucket(r, pool[r], queries) \notin Rejects}
=============================================================================
