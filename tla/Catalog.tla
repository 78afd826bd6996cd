--------------------------------- MODULE Catalog ---------------------------------
(****************************************************************************)
(* The repository catalog: profiles, search evidence and embeddings, in     *)
(* three tables that an ingestion writes in three transactions, one after   *)
(* the other (services/search/catalog.py and semantic.py, storage/          *)
(* repositories).  Beside ingestions run a repair of stored profiles        *)
(* (services/repositories.py), the insertion of a profile that a new        *)
(* subscription looked up, the refresh of a renamed repository by a scan of *)
(* the monitoring, and the retrieval of candidates.  Transactions are READ  *)
(* COMMITTED and take no lock before they flush: what one loads may be old  *)
(* when it is written.                                                      *)
(****************************************************************************)
EXTENDS CandidatePool, SequencesExt

CONSTANTS
  Repositories, Queries, Ingestions,
  Finds,       \* sequences of finds, what a search may hand to an ingestion
  Profiles,    \* repository |-> its profile at the provider, version by version
  MaxRounds,   \* bound on ingestions, repairs, lookups and retrievals begun
  MaxFailures  \* bound on failed calls, outages and crashes

\* A find: a candidate, and the query and rank of one piece of its evidence.
FindRecords == [repository : Repositories, query : Queries, rank : Nat \ {0}]

ASSUME CatalogAssumption ==
  /\ IsFiniteSet(Repositories) /\ IsFiniteSet(Queries)
  /\ Finds \subseteq Seq(FindRecords)

VARIABLES
  provider,       \* repository |-> the version of its profile at the provider
  rows,           \* repository |-> the columns of its profile, and its revision
  evidence,       \* <<repository, query>> |-> [hits, rank]
  profileVectors, \* embedded repository |-> the text that was embedded
  queryVectors,   \* the queries that were embedded
  ingestion,      \* the state of each ingestion
  repair, lookup, \* a profile repair, and the lookup of a new subscription
  retrieval,      \* a retrieval of candidates for one query
  rounds, failures,
  log, offered    \* history: profiles and pieces of evidence committed

tables == <<rows, evidence, profileVectors, queryVectors, log, offered>>
vars == <<provider, tables, ingestion, repair, lookup, retrieval, rounds, failures>>

\* The columns of a profile, and those that make its text.
TextColumns == {"title", "description", "topics", "language"}
Facts == TextColumns \cup {"stars", "updated"}
Text(profile) == profile.title \cup profile.description \cup profile.topics

Absent == [profile |-> [c \in {} |-> {}], revision |-> 0]
Stored == {r \in Repositories : rows[r].revision # 0}
Keys == Repositories \X Queries
NoEvidence == [hits |-> 0, rank |-> 0]
Evidenced == {k \in Keys : evidence[k] # NoEvidence}

\* documents: the profiles to store and embed; texts: the queries to embed.
Idle == [phase |-> "idle", finds |-> <<>>, documents |-> <<>>, texts |-> {},
         loaded |-> <<>>]
\* saw: how many profiles of the repository had been stored when the task read it.
AtRest == [phase |-> "idle", repository |-> "none", seen |-> Absent, saw |-> 0,
           fetched |-> Absent.profile]
NoRetrieval == [phase |-> "idle", query |-> "none", found |-> <<>>, pool |-> NoPool]

Init ==
  /\ provider = [r \in Repositories |-> 1]
  /\ rows = [r \in Repositories |-> Absent]
  /\ evidence = [k \in Keys |-> NoEvidence]
  /\ profileVectors = <<>> /\ queryVectors = {}
  /\ ingestion = [i \in Ingestions |-> Idle]
  /\ repair = AtRest /\ lookup = AtRest /\ retrieval = NoRetrieval
  /\ rounds = 0 /\ failures = 0
  /\ log = [r \in Repositories |-> <<>>] /\ offered = [k \in Keys |-> 0]

Another == rounds < MaxRounds /\ rounds' = rounds + 1

-----------------------------------------------------------------------------
(* Writing profiles and evidence: load them all, then flush *)

\* What the provider says of r now; `updated' is the time of its last edit, and
\* the text to search by is a column of its own.
Provided(r) ==
  LET profile == Profiles[r][provider[r]] IN
  [c \in Facts \cup {"search"} |-> CASE c = "updated" -> provider[r]
                                    [] c = "search" -> Text(profile)
                                    [] OTHER -> profile[c]]

Entry(by, saw, version, profile) ==
  [by |-> by, saw |-> saw, version |-> version, profile |-> profile]

\* Maintenance writes every column.
Store(r, task) ==
  /\ rows' = [rows EXCEPT ![r] = [profile |-> task.fetched, revision |-> @.revision + 1]]
  /\ log' = [log EXCEPT ![r] = Append(@, Entry("maintenance", task.saw, task.fetched.updated,
                                               task.fetched))]

Named(finds) == {finds[n].repository : n \in DOMAIN finds}
FindsOf(finds, r) == {n \in DOMAIN finds : finds[n].repository = r}

\* A row that is added twice, or that another transaction has inserted since,
\* breaks the primary key: nothing is flushed between the finds, so that a
\* pending row is not found by its key.
RowsConflict(job) ==
  \E r \in DOMAIN job.documents :
    /\ job.loaded[r].revision = 0
    /\ r \in Stored \/ Cardinality(FindsOf(job.finds, r)) > 1

\* A column that equals the one loaded is not in the UPDATE: what another
\* transaction has made of it since stays.
Rewritten(row, loaded, document) ==
  [profile  |-> IF loaded.revision = 0 THEN document
                ELSE [c \in DOMAIN document |->
                        IF loaded.profile[c] = document[c] THEN row.profile[c]
                        ELSE document[c]],
   revision |-> row.revision + 1]

FoundKeys(finds) == {<<finds[n].repository, finds[n].query>> : n \in DOMAIN finds}

FindsAt(finds, k) ==
  {n \in DOMAIN finds : <<finds[n].repository, finds[n].query>> = k}

EvidenceConflict(job) ==
  \E k \in FoundKeys(job.finds) :
    /\ job.loaded[k] = NoEvidence
    /\ k \in Evidenced \/ Cardinality(FindsAt(job.finds, k)) > 1

\* _best_rank; nought is no rank.
BestRank(first, second) ==
  IF first = 0 \/ (second # 0 /\ second < first) THEN second ELSE first

\* Bug: every find counts for every key.
CountsAllFinds(job, k) ==
  [hits |-> job.loaded[k].hits + Len(job.finds),
   rank |-> BestRank(job.loaded[k].rank,
                     Min({job.finds[n].rank : n \in FindsAt(job.finds, k)}))]

\* The counter is read when the row is loaded and written when it is flushed.
Counted(job, k) ==
  [hits |-> job.loaded[k].hits + Cardinality(FindsAt(job.finds, k)),
   rank |-> BestRank(job.loaded[k].rank,
                     Min({job.finds[n].rank : n \in FindsAt(job.finds, k)}))]

-----------------------------------------------------------------------------
(* An ingestion *)

\* Bug: the evidence is stored before the profiles it is about.
EvidenceFirst(phase) ==
  CASE phase = "found" -> "evidence"
    [] phase = "evidence" -> "profiles"
    [] phase = "profiles" -> "queries"
    [] phase = "queries" -> "vectors"

After(phase) ==
  CASE phase = "found" -> "profiles"
    [] phase = "profiles" -> "evidence"
    [] phase = "evidence" -> "queries"
    [] phase = "queries" -> "vectors"

GoOn(i, job) == ingestion' = [ingestion EXCEPT ![i] = job]
End(i) == GoOn(i, Idle)

Others(i) == UNCHANGED <<provider, repair, lookup, retrieval, failures>>

\* The admitted candidates of a stage, with the profiles their search was given.
Begin(i) ==
  /\ ingestion[i] = Idle /\ Another
  /\ \E finds \in Finds \ {<<>>} :
       GoOn(i, [phase |-> After("found"), finds |-> finds, loaded |-> <<>>,
                documents |-> [r \in Named(finds) |-> Provided(r)],
                texts |-> {k[2] : k \in FoundKeys(finds)}])
  /\ Others(i) /\ UNCHANGED tables

\* The backfill embeds all that is stored when it starts.
Backfill(i) ==
  /\ ingestion[i] = Idle /\ Stored # {} /\ Another
  /\ GoOn(i, [phase |-> After("evidence"), finds |-> <<>>, loaded |-> <<>>,
              documents |-> [r \in Stored |-> rows[r].profile],
              texts |-> {k[2] : k \in Evidenced}])
  /\ Others(i) /\ UNCHANGED tables

\* A scan found that the provider redirects: it asked for the profile and writes it
\* in the transaction of its publication, and nothing else of the catalog.
Refresh(i) ==
  /\ ingestion[i] = Idle /\ Another
  /\ \E r \in Stored :
       GoOn(i, [phase |-> "profiles", finds |-> <<>>, loaded |-> <<>>, texts |-> {},
                documents |-> [s \in {r} |-> Provided(s)]])
  /\ Others(i) /\ UNCHANGED tables

LoadProfiles(i) ==
  LET job == ingestion[i] IN
  /\ job.phase = "profiles"
  /\ GoOn(i, [job EXCEPT !.phase = "profiles loaded",
                         !.loaded = [r \in DOMAIN job.documents |-> rows[r]]])
  /\ Others(i) /\ UNCHANGED <<tables, rounds>>

\* A conflict is logged and ends the ingestion.
StoreProfiles(i) ==
  LET job == ingestion[i] IN
  /\ job.phase = "profiles loaded"
  /\ IF RowsConflict(job) THEN End(i) /\ UNCHANGED <<rows, log>>
     ELSE /\ rows' = [r \in Repositories |->
                        IF r \notin DOMAIN job.documents THEN rows[r]
                        ELSE Rewritten(rows[r], job.loaded[r], job.documents[r])]
          /\ log' = [r \in Repositories |->
                       IF r \notin DOMAIN job.documents THEN log[r]
                       ELSE Append(log[r], Entry("discovery", job.loaded[r].revision,
                                                 job.documents[r].updated, rows'[r].profile))]
          /\ IF job.finds = <<>> THEN End(i)
             ELSE GoOn(i, [job EXCEPT !.phase = After("profiles"), !.loaded = <<>>])
  /\ Others(i) /\ UNCHANGED <<evidence, profileVectors, queryVectors, offered, rounds>>

LoadEvidence(i) ==
  LET job == ingestion[i] IN
  /\ job.phase = "evidence"
  /\ GoOn(i, [job EXCEPT !.phase = "evidence loaded",
                         !.loaded = [k \in FoundKeys(job.finds) |-> evidence[k]]])
  /\ Others(i) /\ UNCHANGED <<tables, rounds>>

StoreEvidence(i) ==
  LET job == ingestion[i] IN
  /\ job.phase = "evidence loaded"
  /\ IF EvidenceConflict(job) THEN End(i) /\ UNCHANGED <<evidence, offered>>
     ELSE /\ evidence' = [k \in Keys |-> IF k \in FoundKeys(job.finds) THEN Counted(job, k)
                                         ELSE evidence[k]]
          /\ offered' = [k \in Keys |-> offered[k] + Cardinality(FindsAt(job.finds, k))]
          /\ GoOn(i, [job EXCEPT !.phase = After("evidence"), !.loaded = <<>>])
  /\ Others(i) /\ UNCHANGED <<rows, profileVectors, queryVectors, log, rounds>>

\* A query is its own document: it is embedded once and for all.
EmbedQueries(i) ==
  LET job == ingestion[i] IN
  /\ job.phase = "queries"
  /\ queryVectors' = queryVectors \cup job.texts
  /\ GoOn(i, [job EXCEPT !.phase = After("queries")])
  /\ Others(i) /\ UNCHANGED <<rows, evidence, profileVectors, log, offered, rounds>>

Embedded == DOMAIN profileVectors
Embeddable(profile) == [c \in TextColumns |-> profile[c]]

\* _filter_missing: the documents whose texts are not the ones embedded.
Missing(job) ==
  {r \in DOMAIN job.documents : r \in Embedded => profileVectors[r] # Embeddable(job.documents[r])}

FilterProfiles(i) ==
  LET job == ingestion[i] IN
  /\ job.phase = "vectors"
  /\ IF Missing(job) = {} THEN End(i)
     ELSE GoOn(i, [job EXCEPT !.phase = "embedded",
                     !.documents = [r \in Missing(job) |-> job.documents[r]]])
  /\ Others(i) /\ UNCHANGED <<tables, rounds>>

StoreVectors(i) ==
  LET job == ingestion[i] IN
  /\ job.phase = "embedded"
  /\ profileVectors' = [r \in Embedded \cup DOMAIN job.documents |->
                          IF r \in DOMAIN job.documents THEN Embeddable(job.documents[r])
                          ELSE profileVectors[r]]
  /\ End(i)
  /\ Others(i) /\ UNCHANGED <<rows, evidence, queryVectors, log, offered, rounds>>

\* An outage, a failed embedding or a crash of the worker: no transaction is open
\* for longer than a step, and nobody goes on with the rest.
Fail(i) ==
  /\ ingestion[i] # Idle /\ failures < MaxFailures
  /\ End(i) /\ failures' = failures + 1
  /\ UNCHANGED <<provider, tables, repair, lookup, retrieval, rounds>>

Ingest(i) ==
  \/ Begin(i) \/ Backfill(i) \/ Refresh(i) \/ LoadProfiles(i) \/ StoreProfiles(i) \/ LoadEvidence(i)
  \/ StoreEvidence(i) \/ EmbedQueries(i) \/ FilterProfiles(i) \/ StoreVectors(i)
  \/ Fail(i)

-----------------------------------------------------------------------------
(* Repairs of stored profiles and lookups of new ones *)

UnchangedByMaintenance ==
  UNCHANGED <<provider, evidence, profileVectors, queryVectors, offered, ingestion, retrieval>>

\* The profile is edited at its provider.
ProviderChanges(r) ==
  /\ provider[r] < Len(Profiles[r]) /\ provider' = [provider EXCEPT ![r] = @ + 1]
  /\ UNCHANGED <<tables, ingestion, repair, lookup, retrieval, rounds, failures>>

TakeSnapshot(r) ==
  /\ repair = AtRest /\ r \in Stored /\ Another
  /\ repair' = [AtRest EXCEPT !.phase = "snapshot", !.repository = r, !.seen = rows[r],
                              !.saw = Len(log[r])]
  /\ UnchangedByMaintenance /\ UNCHANGED <<rows, log, lookup, failures>>

\* What the provider says now, or the report that it could not be asked; an
\* equal profile is reported and left alone.
FetchForRepair ==
  /\ repair.phase = "snapshot"
  /\ \/ /\ repair' = LET now == Provided(repair.repository) IN
                     IF \A c \in Facts : now[c] = repair.seen.profile[c] THEN AtRest
                     ELSE [repair EXCEPT !.phase = "fetched", !.fetched = now]
        /\ UNCHANGED failures
     \/ failures < MaxFailures /\ failures' = failures + 1 /\ repair' = AtRest
  /\ UnchangedByMaintenance /\ UNCHANGED <<rows, log, lookup, rounds>>

\* Bug: the repair does not look at the revision.
ReplaceAlways(r) == TRUE

\* The revision that was seen is still the current one.
StillCurrent(r) == rows[r].revision = repair.seen.revision

Repair ==
  LET r == repair.repository IN
  /\ repair.phase = "fetched"
  /\ IF StillCurrent(r) THEN Store(r, repair) ELSE UNCHANGED <<rows, log>>
  /\ repair' = AtRest
  /\ UnchangedByMaintenance /\ UNCHANGED <<lookup, rounds, failures>>

\* A subscription to a repository that is not stored asks the provider for it.
LookUp(r) ==
  /\ lookup = AtRest /\ r \notin Stored /\ Another
  /\ \/ /\ lookup' = [AtRest EXCEPT !.phase = "fetched", !.repository = r,
                                    !.saw = Len(log[r]), !.fetched = Provided(r)]
        /\ UNCHANGED failures
     \/ failures < MaxFailures /\ failures' = failures + 1 /\ UNCHANGED lookup
  /\ UnchangedByMaintenance /\ UNCHANGED <<rows, log, repair>>

\* INSERT ... ON CONFLICT DO NOTHING.
InsertIfAbsent ==
  LET r == lookup.repository IN
  /\ lookup.phase = "fetched"
  /\ IF r \in Stored THEN UNCHANGED <<rows, log>> ELSE Store(r, lookup)
  /\ lookup' = AtRest
  /\ UnchangedByMaintenance /\ UNCHANGED <<repair, rounds, failures>>

Maintain ==
  \/ \E r \in Repositories : ProviderChanges(r) \/ TakeSnapshot(r) \/ LookUp(r)
  \/ FetchForRepair \/ Repair \/ InsertIfAbsent

-----------------------------------------------------------------------------
(* A retrieval: the rows that match the words of a query, the evidence they *)
(* have, and what is similar by its embedding.  Which texts are similar is  *)
(* not known: those that share a word are.  Their order is not known either *)

Covers(query, text) == Words[query] # {} /\ Words[query] \subseteq text
Similar(query, text) == Words[query] \cap text # {}

\* The signal of a stored profile.  A text is as long as it has words.
AsSignal(profile, query) ==
  [title |-> profile.title, description |-> profile.description, topics |-> profile.topics,
   language |-> profile.language, stars |-> profile.stars, query |-> query, path |-> NoPath,
   text |-> [words |-> Text(profile), path |-> NoPath, length |-> Cardinality(Text(profile))]]

\* The evidence of r whose query text matches the query.
EvidenceFor(query, r) ==
  {k \in Evidenced : k[1] = r /\ Covers(query, Words[k[2]])}

FromCatalog(query, location, rank, channel) ==
  [query |-> query, location |-> location, path |-> NoPath, alignment |-> 20,
   channel |-> channel, origin |-> "catalog", rank |-> rank]

\* Bug: a repository that only its words match has no evidence.
StoredEvidence(query, keys) ==
  {FromCatalog(query, "description", evidence[k].rank, "repository_search") : k \in keys}

\* A repository that only its words match is evidence of itself, of no rank.
LexicalEvidence(query, keys) ==
  IF keys = {} THEN {FromCatalog(query, "metadata", 0, "catalog")}
  ELSE {FromCatalog(query, "description", evidence[k].rank, "repository_search") : k \in keys}

Ranked(items) ==
  LET channels == {item.channel : item \in items}
      ranks(c) == {item.rank : item \in {i \in items : i.channel = c}} \ {0}
  IN {<<c, IF ranks(c) = {} THEN 1 ELSE Min(ranks(c))>> : c \in channels}

Candidate(query, profile, items, hits) ==
  [signal |-> AsSignal(profile, query), queries |-> {query},
   ranks |-> Ranked(items), hits |-> hits, evidence |-> items, origins |-> {"catalog"}]

Lexical(query, r, profile) ==
  LET keys == EvidenceFor(query, r)
      hits == MapThenSumSet(LAMBDA k : evidence[k].hits, keys)
  IN Candidate(query, profile, LexicalEvidence(query, keys), Max({1, hits}))

Semantic(query, r, items) ==
  Candidate(query, rows[r].profile, items, Cardinality(items))

UnchangedByRetrieval ==
  UNCHANGED <<provider, tables, ingestion, repair, lookup>>

Ask(query) ==
  /\ retrieval = NoRetrieval /\ Another
  /\ retrieval' = [NoRetrieval EXCEPT !.phase = "rows", !.query = query]
  /\ UnchangedByRetrieval /\ UNCHANGED failures

ReadRows ==
  LET q == retrieval.query
      found == {r \in Stored : Covers(q, rows[r].profile.search) \/ EvidenceFor(q, r) # {}}
  IN /\ retrieval.phase = "rows"
     /\ retrieval' = [retrieval EXCEPT !.phase = "evidence",
                        !.found = [r \in found |-> rows[r].profile]]
     /\ UnchangedByRetrieval /\ UNCHANGED <<rounds, failures>>

\* A row is judged again by the text that its other columns make.
ReadEvidence ==
  LET q == retrieval.query
      found == retrieval.found
      matches == {r \in DOMAIN found : Covers(q, Text(found[r])) \/ EvidenceFor(q, r) # {}}
  IN
  /\ retrieval.phase = "evidence"
  /\ retrieval' = [retrieval EXCEPT !.phase = "similar queries", !.found = {},
                                    !.pool = [r \in matches |-> Lexical(q, r, found[r])]]
  /\ UnchangedByRetrieval /\ UNCHANGED <<rounds, failures>>

\* The first query is at place one, and so on.
InOrder(keys, locate(_)) ==
  {<<SetToSeq(keys)[n][1],
     FromCatalog(retrieval.query, locate(SetToSeq(keys)[n]), n, "semantic_catalog")>>
   : n \in 1 .. Cardinality(keys)}

ReadSimilarQueries ==
  LET similar == {k \in Evidenced : k[2] \in queryVectors
                                    /\ Similar(retrieval.query, Words[k[2]])}
  IN /\ retrieval.phase = "similar queries"
     /\ retrieval' = [retrieval EXCEPT !.phase = "similar profiles",
                        !.found = InOrder(similar, LAMBDA k : "description")]
     /\ UnchangedByRetrieval /\ UNCHANGED <<rounds, failures>>

ReadSimilarProfiles ==
  LET similar == {r \in Embedded : Similar(retrieval.query, Text(profileVectors[r]))}
      places == {<<r, "profile">> : r \in similar}
  IN /\ retrieval.phase = "similar profiles"
     /\ retrieval' = [retrieval EXCEPT !.phase = "repositories",
                        !.found = @ \cup InOrder(places, LAMBDA k : "metadata")]
     /\ UnchangedByRetrieval /\ UNCHANGED <<rounds, failures>>

\* list_repositories_by_ids: what is not stored is left out.
ReadRepositories ==
  LET about == {pair[1] : pair \in retrieval.found} \cap Stored
      items(r) == {pair[2] : pair \in {p \in retrieval.found : p[1] = r}}
  IN /\ retrieval.phase = "repositories"
     /\ retrieval' = [retrieval EXCEPT !.phase = "answered", !.found = {},
          !.pool = MergePools(@, [r \in about |-> Semantic(retrieval.query, r, items(r))])]
     /\ UnchangedByRetrieval /\ UNCHANGED <<rounds, failures>>

\* Without the database nothing is found, without the embeddings what the words
\* found is the answer.
FailRetrieval ==
  /\ retrieval.phase \notin {"idle", "answered"} /\ failures < MaxFailures
  /\ retrieval' = [retrieval EXCEPT !.phase = "answered", !.found = {},
       !.pool = IF retrieval.phase \in {"rows", "evidence"} THEN NoPool ELSE @]
  /\ failures' = failures + 1
  /\ UnchangedByRetrieval /\ UNCHANGED rounds

TakeAnswer ==
  /\ retrieval.phase = "answered" /\ retrieval' = NoRetrieval
  /\ UnchangedByRetrieval /\ UNCHANGED <<rounds, failures>>

Retrieve ==
  \/ \E q \in Queries : Ask(q)
  \/ ReadRows \/ ReadEvidence \/ ReadSimilarQueries \/ ReadSimilarProfiles
  \/ ReadRepositories \/ FailRetrieval \/ TakeAnswer

Next == (\E i \in Ingestions : Ingest(i)) \/ Maintain \/ Retrieve

Spec == Init /\ [][Next]_vars

-----------------------------------------------------------------------------

\* Nothing in the catalog is about what is not there, wherever an ingestion was
\* cut off: evidence is about a stored repository, an embedding is of a text
\* every column of which was stored, an embedded query has evidence.  There is
\* no foreign key.
NothingDangles ==
  /\ \A k \in Evidenced : k[1] \in Stored
  /\ \A r \in Embedded : \A c \in TextColumns :
       \E n \in DOMAIN log[r] : log[r][n].profile[c] = profileVectors[r][c]
  /\ \A q \in queryVectors : \E k \in Evidenced : k[2] = q

\* Concurrent ingestions may lose hits of each other, they never invent one, and
\* the rank stays the rank of a find (upsert_repository_search_evidence).
HitsAreOffered ==
  \A k \in Evidenced :
    /\ evidence[k].hits >= 1 /\ evidence[k].hits <= offered[k]
    /\ \E finds \in Finds : \E n \in FindsAt(finds, k) : finds[n].rank = evidence[k].rank

\* What a retrieval answers can be shown and ranked: the repository is stored
\* and every candidate has hits, evidence of the query that was asked, a rank
\* for each channel of its evidence and only those.
AnswersAreReadable ==
  retrieval.phase = "answered" =>
    \A r \in DOMAIN retrieval.pool :
      LET c == retrieval.pool[r] IN
      /\ r \in Stored /\ c.hits >= 1 /\ c.evidence # {}
      /\ \A item \in c.evidence : item.query = retrieval.query
      /\ Channels(c) = {item.channel : item \in c.evidence}
      /\ \A pair \in c.ranks : pair[2] >= 1

\* Maintenance undoes nothing that is newer: whenever a repair or a lookup has
\* stored a profile, all that was stored before it had been stored when it read
\* the repository, and none of it was a later edit of the profile
\* (docs/operations/catalog-repair.md: "a concurrent catalog update is
\* preserved").
NothingNewerIsLost ==
  \A r \in Repositories : \A n \in DOMAIN log[r] :
    log[r][n].by = "maintenance" =>
      /\ log[r][n].saw = n - 1
      /\ \A m \in 1 .. n - 1 : log[r][m].version <= log[r][n].version

\* The catalog keeps what was admitted: an ingestion that ends while nothing
\* fails has stored its repositories (services/search/catalog.py: "Persist
\* admitted external candidates and their retrieval evidence").
AdmittedArePersisted ==
  [][\A i \in Ingestions :
       ingestion[i] # Idle /\ ingestion'[i] = Idle /\ failures' = failures =>
         Named(ingestion[i].finds) \subseteq Stored']_vars
=============================================================================
