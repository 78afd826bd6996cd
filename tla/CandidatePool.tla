----------------------------- MODULE CandidatePool -----------------------------
(****************************************************************************)
(* The candidate pool of a search: what a hit of a provider says about a    *)
(* repository (services/search/retrieval/evidence.py) and how hits and      *)
(* pools that name the same repository are merged (merge.py).               *)
(*                                                                          *)
(* Texts are sets of words.  A signal is a record                           *)
(*   [title, description, topics : sets of words, language : BOOLEAN,       *)
(*    stars : Nat, query, path, text : [words, path, length]]               *)
(* where `path' is the path in the payload and `text.path' the path named   *)
(* by a "Matched code path:" line of raw_text; the tuples of a candidate's  *)
(* provenance are sets.                                                     *)
(****************************************************************************)
EXTENDS Integers, FiniteSets, Sequences, FiniteSetsExt

CONSTANTS
  Words,        \* the words of a query that are not stop words
  QueryLength,  \* the number of characters of a query
  Readmes,      \* paths whose file name is a readme
  Documentation,\* paths inside a documentation directory
  CodeFiles,    \* paths with the extension of a programming language
  NoPath        \* no path was matched

\* The fields of a signal that a merge goes by.
IsSignal(signal) ==
  /\ {"title", "topics", "language", "stars", "query", "text"} \subseteq DOMAIN signal
  /\ signal.language \in BOOLEAN /\ signal.text.length \in Nat

-----------------------------------------------------------------------------
(* What one hit shows *)

Mentions(text, query) == Words[query] # {} /\ Words[query] \subseteq text

MetadataLocation(signal, query) ==
  IF Mentions(signal.title, query) THEN "name"
  ELSE IF Mentions(signal.description, query) THEN "description"
  ELSE IF Mentions(signal.topics, query) THEN "topic" ELSE "none"

PathLocation(path, channel) ==
  IF path \in Readmes THEN "readme"
  ELSE IF path \in Documentation THEN "documentation"
  ELSE IF path \in CodeFiles THEN "code"
  ELSE IF path # NoPath THEN "other"
  ELSE IF channel = "repository_search" THEN "metadata" ELSE "other"

Locate(hit) ==
  LET found == MetadataLocation(hit.signal, hit.query)
  IN IF found # "none" THEN found ELSE PathLocation(hit.signal.path, hit.channel)

\* A hit is [repository, channel, query, rank, signal]; alignment counts
\* twentieths.
Evidence(hit) ==
  [query |-> hit.query, location |-> Locate(hit), path |-> hit.signal.path,
   alignment |-> 20, channel |-> hit.channel, origin |-> "provider",
   rank |-> hit.rank]

-----------------------------------------------------------------------------
(* Two signals of one repository become one *)

Longer(existing, incoming) ==
  QueryLength[incoming.query] > QueryLength[existing.query]

\* Bug: the latest text replaces the one before.
LatestText(first, second) == second

\* A text that names a matched path wins, then the longer one.
RicherText(first, second) ==
  IF (first.path = NoPath) # (second.path = NoPath)
  THEN IF first.path # NoPath THEN first ELSE second
  ELSE IF second.length > first.length THEN second ELSE first

MergeSignals(existing, incoming) ==
  LET preferred == IF Longer(existing, incoming) THEN incoming ELSE existing
      secondary == IF Longer(existing, incoming) THEN existing ELSE incoming
  IN [preferred EXCEPT !.topics   = @ \cup secondary.topics,
                       !.language = @ \/ secondary.language,
                       !.stars    = IF secondary.stars > @ THEN secondary.stars
                                    ELSE @,
                       !.text     = RicherText(@, secondary.text)]

-----------------------------------------------------------------------------
(* Hits and pools: a pool maps each of its repositories to one candidate *)

NoPool == [repository \in {} |-> {}]

FromHit(hit) ==
  [signal   |-> hit.signal,
   queries  |-> {hit.query},
   ranks    |-> {<<hit.channel, hit.rank>>},
   hits     |-> 1,
   evidence |-> {Evidence(hit)},
   origins  |-> {"provider"}]

Channels(candidate) == {pair[1] : pair \in candidate.ranks}

\* The best rank of each channel of either side.
BestRanks(first, second) ==
  {pair \in first \cup second :
     \A other \in first \cup second : other[1] = pair[1] => pair[2] <= other[2]}

\* Bug: what is found again replaces what was known.
ReplaceCandidate(existing, incoming) == incoming

MergeCandidates(existing, incoming) ==
  [signal   |-> MergeSignals(existing.signal, incoming.signal),
   queries  |-> existing.queries \cup incoming.queries,
   ranks    |-> BestRanks(existing.ranks, incoming.ranks),
   hits     |-> existing.hits + incoming.hits,
   evidence |-> existing.evidence \cup incoming.evidence,
   origins  |-> existing.origins \cup incoming.origins]

\* merge_repository_candidates, of two pools.
MergePools(existing, incoming) ==
  [r \in DOMAIN existing \cup DOMAIN incoming |->
     IF r \notin DOMAIN incoming THEN existing[r]
     ELSE IF r \notin DOMAIN existing THEN incoming[r]
     ELSE MergeCandidates(existing[r], incoming[r])]

\* merge_retrieval_hits, in the order in which the hits arrived.
MergeHits(hits) ==
  LET pool[n \in 0 .. Len(hits)] ==
        IF n = 0 THEN NoPool
        ELSE MergePools(pool[n - 1], [r \in {hits[n].repository} |-> FromHit(hits[n])])
  IN pool[Len(hits)]

\* The queries of the current search that a candidate was found by.
CurrentMatches(candidate, queries) == Cardinality(candidate.queries \cap queries)
=============================================================================
