--------------------------- MODULE FeedPublication ---------------------------
(***************************************************************************)
(* How discovered activity becomes Feed events and immutable Feed cards.   *)
(*                                                                         *)
(*   backend/app/services/feed/publications.py   the grouping policy       *)
(*   backend/app/services/monitoring/releases.py release enrichment        *)
(*   backend/app/storage/feed/{events,groups}.py event and group rows      *)
(*                                                                         *)
(* An event identifier is derived from the watch and the provider item, so *)
(* it is that pair here; a card identifier is derived from the watch, the  *)
(* kind of card and a publication key.                                     *)
(***************************************************************************)
EXTENDS Naturals, FiniteSets

CONSTANTS
  Watches,   \* subscription identifiers
  Releases,  \* release items of the provider
  Commits    \* commit items of the provider

ASSUME FeedAssumptions == Releases \cap Commits = {}

Items   == Releases \cup Commits
Events  == Watches \X Items
CardIds == (Watches \X {"release"} \X Releases) \cup (Watches \X {"commits"} \X Nat)
Cards   == [id : CardIds, members : SUBSET Events]

IsRelease(e) == e[2] \in Releases

\* Commits that the comparison of a release confirmed, as references to facts
\* of the same watch; details maps every compared release to its commits.
References(e, details) ==
  IF IsRelease(e) THEN {<<e[1], c>> : c \in details[e[2]]} ELSE {}

\* Bug: references are stored without the facts they name.
NoSupplemental(events, fresh, details) == {}

\* Facts that only a comparison knows of.
Supplemental(events, fresh, details) ==
  (UNION {References(e, details) : e \in fresh}) \ events

\* The releases among the new events that claim a new commit.
Claimants(e, new, details) == {r \in new : e \in References(r, details)}

\* Bug: a commit claimed by several releases joins each of their cards.
NewCardsSharing(new, details, key) ==
  LET loose == {e \in new : ~IsRelease(e) /\ Claimants(e, new, details) = {}}
  IN  {[id |-> <<r[1], "release", r[2]>>,
        members |-> {r} \cup {e \in new : r \in Claimants(e, new, details)}]
         : r \in {e \in new : IsRelease(e)}}
      \cup {[id |-> <<w, "commits", key>>, members |-> {e \in loose : e[1] = w}]
              : w \in {e[1] : e \in loose}}

\* build_feed_update_groups: a card per new release with the commits that only it
\* claims, and a card per watch with the other new commits of the scan.
NewCards(new, details, key) ==
  LET loose == {e \in new : ~IsRelease(e) /\ Cardinality(Claimants(e, new, details)) # 1}
  IN  {[id |-> <<r[1], "release", r[2]>>,
        members |-> {r} \cup {e \in new : Claimants(e, new, details) = {r}}]
         : r \in {e \in new : IsRelease(e)}}
      \cup {[id |-> <<w, "commits", key>>, members |-> {e \in loose : e[1] = w}]
              : w \in {e[1] : e \in loose}}
=============================================================================
