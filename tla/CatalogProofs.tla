----------------------------- MODULE CatalogProofs -----------------------------
(****************************************************************************)
(* Theorems about Catalog for every set of repositories, queries and        *)
(* ingestions, whatever searches find and in whatever order transactions    *)
(* commit: that nothing dangles, that no hit is invented, that what a       *)
(* retrieval answers can be read, and that maintenance loses nothing newer. *)
(****************************************************************************)
EXTENDS Catalog, FiniteSetTheorems, SequenceTheorems, WellFoundedInduction, TLAPS

-----------------------------------------------------------------------------
(* The inductive invariant *)

EvidenceRecord == [hits : Nat, rank : Nat]

JobPhases == {"idle", "profiles", "profiles loaded", "evidence", "evidence loaded", "queries",
              "vectors", "embedded"}

\* The phases that still have something to store, and those whose profiles are stored.
Storing == {"profiles", "profiles loaded", "evidence", "evidence loaded"}
Profiled == {"evidence", "evidence loaded", "queries", "vectors", "embedded"}

Columns == Facts \cup {"search"}
IsProfile(profile) == DOMAIN profile = Columns

\* A profile as old as the provider's, or older.
IsDocument(r, profile) ==
  IsProfile(profile) /\ profile.updated \in Nat /\ profile.updated <= provider[r]

\* Columns that r has or had.
WasStored(r, profile) ==
  \A c \in Columns : \E n \in DOMAIN log[r] : log[r][n].profile[c] = profile[c]

\* What searches did offer.
Offered(k, e) ==
  e # NoEvidence =>
    /\ e.hits >= 1 /\ e.hits <= offered[k]
    /\ \E finds \in Finds : \E n \in FindsAt(finds, k) : finds[n].rank = e.rank

IsLog(s) == Len(s) \in Nat /\ s = [n \in 1 .. Len(s) |-> s[n]]

\* The part of NothingNewerIsLost that is about r.
KeepsNewer(r) ==
  \A n \in DOMAIN log[r] :
    log[r][n].by = "maintenance" =>
      /\ log[r][n].saw = n - 1
      /\ \A m \in 1 .. n - 1 : log[r][m].version <= log[r][n].version

\* The revision of a row is the number of profiles that were stored.
RowOK(r) ==
  /\ IsLog(log[r]) /\ rows[r].revision = Len(log[r])
  /\ \A n \in DOMAIN log[r] : log[r][n].version \in Nat /\ log[r][n].version <= provider[r]
  /\ r \in Stored => IsProfile(rows[r].profile) /\ WasStored(r, rows[r].profile)
  /\ KeepsNewer(r)

TablesOK ==
  /\ provider \in [Repositories -> Nat \ {0}]
  /\ DOMAIN rows = Repositories /\ DOMAIN log = Repositories
  /\ \A r \in Repositories : RowOK(r)
  /\ evidence \in [Keys -> EvidenceRecord] /\ offered \in [Keys -> Nat]
  /\ \A k \in Keys : Offered(k, evidence[k])
  /\ Embedded \subseteq Repositories

\* The job of an ingestion that stores, or that of a scan.
IsDiscovery(job) ==
  /\ job.texts = {k[2] : k \in FoundKeys(job.finds)}
  /\ \/ job.finds \in Finds /\ DOMAIN job.documents = Named(job.finds)
     \/ job.finds = <<>> /\ job.phase \in {"profiles", "profiles loaded"}

\* What was loaded may be old, but all of it was once true.
WasRow(r, row) ==
  row.revision # 0 => r \in Stored /\ WasStored(r, row.profile)

JobOK(i) ==
  LET job == ingestion[i] IN
  /\ DOMAIN job = DOMAIN Idle /\ job.phase \in JobPhases
  /\ job.phase # "idle" =>
       /\ DOMAIN job.documents \subseteq Repositories
       /\ \A r \in DOMAIN job.documents : IsProfile(job.documents[r])
  /\ job.phase \in Storing =>
       IsDiscovery(job) /\ \A r \in DOMAIN job.documents : IsDocument(r, job.documents[r])
  /\ job.phase = "profiles loaded" =>
       \A r \in DOMAIN job.documents : WasRow(r, job.loaded[r])
  /\ job.phase \in {"evidence", "evidence loaded"} => Named(job.finds) \subseteq Stored
  /\ job.phase = "evidence loaded" =>
       \A k \in FoundKeys(job.finds) :
         job.loaded[k] \in EvidenceRecord /\ Offered(k, job.loaded[k])
  /\ job.phase \in Profiled => \A r \in DOMAIN job.documents : WasStored(r, job.documents[r])
  /\ job.phase = "queries" => \A q \in job.texts : \E k \in Evidenced : k[2] = q

\* What was stored when a task read the repository is no later edit than the one
\* that it fetched since.
TaskOK(task) ==
  /\ DOMAIN task = DOMAIN AtRest /\ task.phase \in {"idle", "snapshot", "fetched"}
  /\ task.phase # "idle" =>
       /\ task.repository \in Repositories
       /\ task.saw \in Nat /\ task.saw <= Len(log[task.repository])
       /\ task.seen.revision = task.saw
  /\ task.phase = "fetched" =>
       /\ IsDocument(task.repository, task.fetched)
       /\ \A m \in 1 .. task.saw : log[task.repository][m].version <= task.fetched.updated

MaintenanceOK == TaskOK(repair) /\ TaskOK(lookup)

RetrievalPhases == {"idle", "rows", "evidence", "similar queries", "similar profiles",
                    "repositories", "answered"}

\* A candidate that can be shown and ranked.
ReadableCandidate(query, c) ==
  /\ c.hits \in Nat \ {0} /\ c.evidence # {}
  /\ \A item \in c.evidence : item.query = query
  /\ Channels(c) = {item.channel : item \in c.evidence}
  /\ \A pair \in c.ranks : pair[2] \in Nat \ {0}

ReadablePool(query, pool) ==
  \A r \in DOMAIN pool : r \in Stored /\ ReadableCandidate(query, pool[r])

\* What was found by its embedding, and where.
SimilarItems(query, found) ==
  /\ IsFiniteSet(found)
  /\ \A pair \in found : pair[2].query = query /\ pair[2].channel = "semantic_catalog"
                         /\ pair[2].rank \in Nat

RetrievalOK ==
  /\ DOMAIN retrieval = DOMAIN NoRetrieval /\ retrieval.phase \in RetrievalPhases
  /\ retrieval.phase = "evidence" => DOMAIN retrieval.found \subseteq Stored
  /\ retrieval.phase \in {"similar profiles", "repositories"} =>
       SimilarItems(retrieval.query, retrieval.found)
  /\ retrieval.phase \in {"similar queries", "similar profiles", "repositories", "answered"} =>
       ReadablePool(retrieval.query, retrieval.pool)

IndInv ==
  /\ TablesOK /\ NothingDangles
  /\ DOMAIN ingestion = Ingestions /\ \A i \in Ingestions : JobOK(i)
  /\ MaintenanceOK /\ RetrievalOK

-----------------------------------------------------------------------------
(* Naturals and finite sets *)

\* A set of naturals that is not empty has a least element.
LEMMA LeastNatural ==
  ASSUME NEW S \in SUBSET Nat, S # {}
  PROVE  \E x \in S : \A y \in S : x <= y
<1>1. PICK x \in S : \A y \in S : <<y, x>> \notin OpToRel(<, Nat)
  BY NatLessThanWellFounded, WFMin, Zenon
<1>2. \A y \in S : ~(y < x)
  BY <1>1 DEF OpToRel
<1>3. QED
  BY <1>2

LEMMA MinOfNaturals ==
  ASSUME NEW S \in SUBSET Nat, S # {}
  PROVE  Min(S) \in S
BY LeastNatural DEF Min

\* What a function maps a finite set to is a finite set.
LEMMA ImageIsFinite ==
  ASSUME NEW f, IsFiniteSet(DOMAIN f)
  PROVE  IsFiniteSet({f[x] : x \in DOMAIN f})
<1> DEFINE T == {f[x] : x \in DOMAIN f}
           g == [x \in DOMAIN f |-> f[x]]
<1>1. g \in Surjection(DOMAIN f, T)
  BY DEF Surjection
<1>2. QED
  BY <1>1, FS_Surjection

LEMMA KeysAreFinite ==
  \A S \in SUBSET Keys : IsFiniteSet(S) /\ Cardinality(S) \in Nat
<1>1. IsFiniteSet(Keys)
  BY CatalogAssumption, FS_Product DEF Keys
<1>2. QED
  BY <1>1, FS_Subset, FS_CardinalityType

-----------------------------------------------------------------------------
(* What a search found *)

LEMMA FindsFacts ==
  ASSUME NEW finds \in Finds
  PROVE  /\ Named(finds) \subseteq Repositories /\ FoundKeys(finds) \subseteq Keys
         /\ \A k \in FoundKeys(finds) : k[1] \in Named(finds) /\ k[2] \in Queries
         /\ \A k : Cardinality(FindsAt(finds, k)) \in Nat
         /\ \A k \in FoundKeys(finds) :
              /\ Cardinality(FindsAt(finds, k)) >= 1
              /\ \E n \in FindsAt(finds, k) :
                   finds[n].rank = Min({finds[m].rank : m \in FindsAt(finds, k)})
              /\ Min({finds[m].rank : m \in FindsAt(finds, k)}) \in Nat \ {0}
<1>1. finds \in Seq(FindRecords)
  BY CatalogAssumption
<1>2. /\ \A n \in DOMAIN finds : finds[n] \in FindRecords
      /\ DOMAIN finds = 1 .. Len(finds) /\ Len(finds) \in Nat
  BY <1>1
<1>3. \A n \in DOMAIN finds : /\ finds[n].repository \in Repositories
                              /\ finds[n].query \in Queries /\ finds[n].rank \in Nat \ {0}
  BY <1>2 DEF FindRecords
<1>4. /\ Named(finds) \subseteq Repositories /\ FoundKeys(finds) \subseteq Keys
      /\ \A k \in FoundKeys(finds) : k[1] \in Named(finds) /\ k[2] \in Queries
  BY <1>3 DEF Named, FoundKeys, Keys
<1>5. ASSUME NEW k
      PROVE  IsFiniteSet(FindsAt(finds, k)) /\ Cardinality(FindsAt(finds, k)) \in Nat
  <2>1. FindsAt(finds, k) \subseteq 1 .. Len(finds)
    BY <1>2 DEF FindsAt
  <2>2. IsFiniteSet(1 .. Len(finds))
    BY <1>2, FS_Interval
  <2>3. QED
    BY <2>1, <2>2, FS_Subset, FS_CardinalityType
<1>6. ASSUME NEW k \in FoundKeys(finds)
      PROVE  /\ Cardinality(FindsAt(finds, k)) >= 1
             /\ \E n \in FindsAt(finds, k) :
                  finds[n].rank = Min({finds[m].rank : m \in FindsAt(finds, k)})
             /\ Min({finds[m].rank : m \in FindsAt(finds, k)}) \in Nat \ {0}
  <2> DEFINE at == FindsAt(finds, k)
             ranks == {finds[m].rank : m \in at}
  <2>1. at # {} /\ at \subseteq DOMAIN finds
    BY DEF FoundKeys, FindsAt
  <2>2. Cardinality(at) # 0
    BY <1>5, <2>1, FS_EmptySet
  <2>3. ranks \in SUBSET (Nat \ {0}) /\ ranks # {}
    BY <1>3, <2>1
  <2>4. ranks \in SUBSET Nat
    BY <2>3
  <2> HIDE DEF ranks
  <2>5. Min(ranks) \in ranks
    BY <2>3, <2>4, MinOfNaturals
  <2>6. PICK n \in at : finds[n].rank = Min(ranks)
    BY <2>5 DEF ranks
  <2>7. Min(ranks) \in Nat \ {0}
    BY <2>3, <2>5
  <2>8. Cardinality(at) >= 1
    BY <1>5, <2>2
  <2>9. QED
    BY <2>6, <2>7, <2>8 DEF ranks
<1>7. QED
  BY <1>4, <1>5, <1>6

-----------------------------------------------------------------------------
(* The catalog only grows *)

LEMMA Appended ==
  ASSUME NEW s, IsLog(s), NEW e
  PROVE  /\ IsLog(Append(s, e)) /\ Len(Append(s, e)) = Len(s) + 1
         /\ DOMAIN s = 1 .. Len(s) /\ DOMAIN Append(s, e) = 1 .. Len(s) + 1
         /\ \A n \in 1 .. Len(s) : Append(s, e)[n] = s[n]
         /\ Append(s, e)[Len(s) + 1] = e
<1> DEFINE S == {s[n] : n \in 1 .. Len(s)} \cup {e}
<1>1. s \in [1 .. Len(s) -> S] /\ Len(s) \in Nat
  BY DEF IsLog
<1>2. s \in Seq(S) /\ e \in S
  BY <1>1
<1> HIDE DEF S
<1>3. /\ Append(s, e) \in Seq(S) /\ Len(Append(s, e)) = Len(s) + 1 /\ Len(s) \in Nat
      /\ DOMAIN s = 1 .. Len(s) /\ DOMAIN Append(s, e) = 1 .. Len(s) + 1
      /\ \A n \in 1 .. Len(s) : Append(s, e)[n] = s[n]
      /\ Append(s, e)[Len(s) + 1] = e
  BY <1>2
<1> DEFINE t == Append(s, e)
<1>4. Len(t) \in Nat /\ t \in [1 .. Len(t) -> S]
  BY <1>3, LenProperties
<1> HIDE DEF t
<1>5. t = [n \in 1 .. Len(t) |-> t[n]]
  BY <1>4
<1>6. QED
  BY <1>3, <1>4, <1>5 DEF IsLog, t

LongerLog(r) == \A n \in DOMAIN log[r] : n \in DOMAIN log'[r] /\ log'[r][n] = log[r][n]

Grows ==
  /\ Stored \subseteq Stored' /\ Evidenced \subseteq Evidenced'
  /\ \A r \in Repositories : LongerLog(r) /\ provider[r] <= provider'[r]
  /\ \A k \in Keys : offered[k] <= offered'[k]

LEMMA OfferedKept ==
  ASSUME TablesOK, TablesOK', Grows, NEW k \in Keys, NEW e \in EvidenceRecord, Offered(k, e)
  PROVE  Offered(k, e)'
BY DEF Offered, Grows, TablesOK, EvidenceRecord

LEMMA WasStoredKept ==
  ASSUME Grows, NEW r \in Repositories, NEW profile, WasStored(r, profile)
  PROVE  WasStored(r, profile)'
BY DEF WasStored, Grows, LongerLog

LEMMA WasRowKept ==
  ASSUME Grows, NEW r \in Repositories, NEW row, WasRow(r, row)
  PROVE  WasRow(r, row)'
<1>1. row.revision # 0 => r \in Stored' /\ WasStored(r, row.profile)'
  BY WasStoredKept DEF WasRow, Grows
<1>2. QED
  BY <1>1 DEF WasRow

LEMMA DocumentKept ==
  ASSUME TablesOK, TablesOK', Grows, NEW r \in Repositories, NEW profile, IsDocument(r, profile)
  PROVE  IsDocument(r, profile)'
<1>1. provider[r] \in Nat /\ provider'[r] \in Nat /\ provider[r] <= provider'[r]
  BY DEF TablesOK, Grows
<1>2. QED
  BY <1>1 DEF IsDocument

\* What an ingestion relies on stays true while others store.
LEMMA JobKept ==
  ASSUME TablesOK, TablesOK', Grows, NEW i \in Ingestions, JobOK(i), UNCHANGED ingestion[i]
  PROVE  JobOK(i)'
<1> DEFINE job == ingestion[i]
<1>1. job.phase \in {"evidence", "evidence loaded"} =>
        job.finds \in Finds /\ FoundKeys(job.finds) \subseteq Keys
  BY FindsFacts DEF JobOK, IsDiscovery, Storing
<1>2. job.phase # "idle" => DOMAIN job.documents \subseteq Repositories
  BY DEF JobOK
<1>3. job.phase = "profiles loaded" =>
        \A r \in DOMAIN job.documents : WasRow(r, job.loaded[r])'
  BY <1>2, WasRowKept DEF JobOK
<1>4. job.phase \in Storing => \A r \in DOMAIN job.documents : IsDocument(r, job.documents[r])'
  BY <1>2, DocumentKept DEF JobOK, Storing
<1>5. job.phase \in {"evidence", "evidence loaded"} => Named(job.finds) \subseteq Stored'
  BY DEF JobOK, Grows
<1>6. job.phase = "evidence loaded" =>
        \A k \in FoundKeys(job.finds) :
          job.loaded[k] \in EvidenceRecord /\ Offered(k, job.loaded[k])'
  BY <1>1, OfferedKept DEF JobOK
<1>7. job.phase \in Profiled => \A r \in DOMAIN job.documents : WasStored(r, job.documents[r])'
  BY <1>2, WasStoredKept DEF JobOK, Profiled
<1>8. job.phase = "queries" => \A q \in job.texts : \E k \in Evidenced' : k[2] = q
  BY DEF JobOK, Grows
<1>9. QED
  BY <1>3, <1>4, <1>5, <1>6, <1>7, <1>8 DEF JobOK

LEMMA TaskKept ==
  ASSUME TablesOK, TablesOK', Grows, NEW task, TaskOK(task)
  PROVE  TaskOK(task)'
<1> DEFINE r == task.repository
<1>1. CASE task.phase = "idle"
  BY <1>1 DEF TaskOK
<1>2. CASE task.phase # "idle"
  <2>1. r \in Repositories /\ task.saw \in Nat /\ task.saw <= Len(log[r])
        /\ task.seen.revision = task.saw
    BY <1>2 DEF TaskOK
  <2>2. IsLog(log[r]) /\ IsLog(log'[r])
    BY <2>1 DEF TablesOK, RowOK
  <2>3. /\ Len(log[r]) \in Nat /\ Len(log'[r]) \in Nat
        /\ DOMAIN log[r] = 1 .. Len(log[r]) /\ DOMAIN log'[r] = 1 .. Len(log'[r])
    BY <2>2 DEF IsLog
  <2>4. \A n \in 1 .. Len(log[r]) : n \in 1 .. Len(log'[r]) /\ log'[r][n] = log[r][n]
    BY <2>1, <2>3 DEF Grows, LongerLog
  <2>5. Len(log[r]) <= Len(log'[r])
    BY <2>3, <2>4
  <2>6. task.saw <= Len(log'[r])
    BY <2>1, <2>3, <2>5
  <2>7. task.phase = "fetched" => IsDocument(r, task.fetched)'
    BY <2>1, DocumentKept DEF TaskOK
  <2>8. task.phase = "fetched" =>
          \A m \in 1 .. task.saw : log'[r][m].version <= task.fetched.updated
    <3>1. \A m \in 1 .. task.saw : log'[r][m] = log[r][m]
      BY <2>1, <2>3, <2>4
    <3>2. QED
      BY <3>1 DEF TaskOK
  <2>9. QED
    BY <2>1, <2>6, <2>7, <2>8 DEF TaskOK
<1>3. QED
  BY <1>1, <1>2

LEMMA MaintenanceKept ==
  ASSUME TablesOK, TablesOK', Grows, MaintenanceOK, UNCHANGED <<repair, lookup>>
  PROVE  MaintenanceOK'
<1>1. TaskOK(repair)'
  BY TaskKept DEF MaintenanceOK
<1>2. TaskOK(lookup)'
  BY TaskKept DEF MaintenanceOK
<1>3. QED
  BY <1>1, <1>2 DEF MaintenanceOK

LEMMA RetrievalKept ==
  ASSUME Grows, RetrievalOK, UNCHANGED retrieval
  PROVE  RetrievalOK'
BY DEF Grows, RetrievalOK, ReadablePool

\* A step of one ingestion, as far as the others and the rest are concerned.
LEMMA OneJob ==
  ASSUME IndInv, NEW i \in Ingestions, NEW job, GoOn(i, job),
         TablesOK', Grows, NothingDangles', JobOK(i)', UNCHANGED <<repair, lookup, retrieval>>
  PROVE  IndInv'
<1>1. DOMAIN ingestion' = Ingestions
  BY DEF IndInv, GoOn
<1>2. \A j \in Ingestions : JobOK(j)'
  <2>1. ASSUME NEW j \in Ingestions, j # i PROVE JobOK(j)'
    <3>1. ingestion'[j] = ingestion[j]
      BY <2>1 DEF IndInv, GoOn
    <3>2. QED
      BY <3>1, JobKept DEF IndInv
  <2>2. QED
    BY <2>1
<1>3. MaintenanceOK'
  BY MaintenanceKept DEF IndInv
<1>4. RetrievalOK'
  BY RetrievalKept DEF IndInv
<1>5. QED
  BY <1>1, <1>2, <1>3, <1>4 DEF IndInv

LEMMA SameTables ==
  ASSUME TablesOK, UNCHANGED <<provider, tables>>
  PROVE  TablesOK' /\ Grows /\ (NothingDangles => NothingDangles')
<1>1. UNCHANGED <<Stored, Evidenced, Embedded>>
  BY DEF tables, Stored, Evidenced, Embedded
<1>2. /\ \A k \in Keys : offered[k] \in Nat
      /\ \A r \in Repositories : provider[r] \in Nat
  BY DEF TablesOK
<1>3. \A r \in Repositories : RowOK(r)'
  BY <1>1 DEF tables, TablesOK, RowOK, KeepsNewer, WasStored
<1>4. TablesOK'
  BY <1>1, <1>3 DEF tables, TablesOK, Offered
<1>5. Grows
  BY <1>1, <1>2 DEF tables, Grows, LongerLog
<1>6. NothingDangles => NothingDangles'
  BY <1>1 DEF tables, NothingDangles
<1>7. QED
  BY <1>4, <1>5, <1>6

\* One more profile of r.
LEMMA RowStored ==
  ASSUME TablesOK, NEW r \in Repositories, NEW by, NEW saw, NEW version \in Nat, NEW profile,
         IsProfile(profile), version <= provider[r], UNCHANGED provider,
         rows'[r].profile = profile, rows'[r].revision = rows[r].revision + 1,
         log'[r] = Append(log[r], Entry(by, saw, version, profile)),
         by = "maintenance" =>
           saw = Len(log[r]) /\ \A m \in 1 .. saw : log[r][m].version <= version
  PROVE  RowOK(r)' /\ LongerLog(r) /\ r \in Stored' /\ WasStored(r, profile)'
<1> DEFINE e == Entry(by, saw, version, profile)
           size == Len(log[r])
<1>1. IsLog(log[r]) /\ rows[r].revision = size
      /\ \A n \in DOMAIN log[r] : log[r][n].version \in Nat /\ log[r][n].version <= provider[r]
      /\ KeepsNewer(r)
  BY DEF TablesOK, RowOK
<1>2. /\ IsLog(log'[r]) /\ Len(log'[r]) = size + 1 /\ size \in Nat
      /\ DOMAIN log[r] = 1 .. size /\ DOMAIN log'[r] = 1 .. size + 1
      /\ \A n \in 1 .. size : log'[r][n] = log[r][n]
      /\ log'[r][size + 1] = e
  BY <1>1, Appended DEF IsLog
<1>3. e.by = by /\ e.saw = saw /\ e.version = version /\ e.profile = profile
  BY DEF Entry
<1> HIDE DEF e, size
<1>4. LongerLog(r)
  BY <1>2 DEF LongerLog
<1>5. r \in Stored' /\ rows'[r].revision = Len(log'[r])
  BY <1>1, <1>2 DEF Stored
<1>6. \A n \in DOMAIN log'[r] : log'[r][n].version \in Nat /\ log'[r][n].version <= provider[r]
  <2>1. \A n \in 1 .. size + 1 : n \in 1 .. size \/ n = size + 1
    BY <1>2
  <2>2. QED
    BY <1>1, <1>2, <1>3, <2>1
<1>7. WasStored(r, profile)'
  <2>1. size + 1 \in DOMAIN log'[r]
    BY <1>2
  <2>2. QED
    BY <1>2, <1>3, <2>1 DEF WasStored
<1>8. KeepsNewer(r)'
  <2> SUFFICES ASSUME NEW n \in DOMAIN log'[r], log'[r][n].by = "maintenance"
               PROVE  /\ log'[r][n].saw = n - 1
                      /\ \A m \in 1 .. n - 1 : log'[r][m].version <= log'[r][n].version
    BY DEF KeepsNewer
  <2>1. CASE n = size + 1
    <3>1. saw = size /\ \A m \in 1 .. size : log[r][m].version <= version
      BY <1>2, <1>3, <2>1 DEF size
    <3>2. n - 1 = size
      BY <1>2, <2>1
    <3>3. QED
      BY <1>2, <1>3, <2>1, <3>1, <3>2
  <2>2. CASE n \in 1 .. size
    <3>1. log'[r][n] = log[r][n] /\ \A m \in 1 .. n - 1 : log'[r][m] = log[r][m]
      BY <1>2, <2>2
    <3>2. QED
      BY <1>1, <1>2, <2>2, <3>1 DEF KeepsNewer
  <2>3. QED
    BY <1>2, <2>1, <2>2
<1>9. QED
  BY <1>2, <1>4, <1>5, <1>6, <1>7, <1>8 DEF RowOK

\* Profiles are stored, and nothing else.
LEMMA RowsStored ==
  ASSUME IndInv, NEW S \in SUBSET Repositories,
         DOMAIN rows' = Repositories, DOMAIN log' = Repositories,
         \A r \in S : RowOK(r)' /\ LongerLog(r) /\ r \in Stored',
         \A r \in Repositories \ S : rows'[r] = rows[r] /\ log'[r] = log[r],
         UNCHANGED <<provider, evidence, profileVectors, queryVectors, offered>>
  PROVE  TablesOK' /\ Grows /\ NothingDangles'
<1>1. \A r \in Repositories \ S : RowOK(r)' /\ LongerLog(r) /\ (r \in Stored => r \in Stored')
  <2> SUFFICES ASSUME NEW r \in Repositories \ S
               PROVE  RowOK(r)' /\ LongerLog(r) /\ (r \in Stored => r \in Stored')
    OBVIOUS
  <2>1. rows'[r] = rows[r] /\ log'[r] = log[r] /\ RowOK(r) /\ (r \in Stored <=> r \in Stored')
    BY DEF IndInv, TablesOK, Stored
  <2>2. KeepsNewer(r)' /\ LongerLog(r)
    BY <2>1 DEF RowOK, KeepsNewer, LongerLog
  <2>3. (r \in Stored => IsProfile(rows[r].profile) /\ WasStored(r, rows[r].profile))'
    BY <2>1 DEF RowOK, WasStored
  <2>4. QED
    BY <2>1, <2>2, <2>3 DEF RowOK, WasStored
<1>2. \A r \in Repositories : RowOK(r)' /\ LongerLog(r)
  BY <1>1
<1>3. Stored \subseteq Stored'
  BY <1>1 DEF Stored
<1>4. UNCHANGED <<Evidenced, Embedded>>
  BY DEF Evidenced, Embedded
<1>5. TablesOK'
  BY <1>2, <1>4 DEF IndInv, TablesOK, Offered
<1>6. Grows
  <2>1. /\ \A k \in Keys : offered[k] \in Nat
        /\ \A r \in Repositories : provider[r] \in Nat
    BY DEF IndInv, TablesOK
  <2>2. QED
    BY <1>2, <1>3, <1>4, <2>1 DEF Grows
<1>7. NothingDangles'
  <2>1. \A r \in Embedded : r \in Repositories
    BY DEF IndInv, TablesOK
  <2>2. \A k \in Evidenced' : k[1] \in Stored'
    BY <1>3, <1>4 DEF IndInv, NothingDangles
  <2>3. \A r \in Embedded' : \A c \in TextColumns :
          \E n \in DOMAIN log'[r] : log'[r][n].profile[c] = profileVectors'[r][c]
    BY <1>2, <1>4, <2>1 DEF IndInv, NothingDangles, LongerLog
  <2>4. QED
    BY <1>4, <2>2, <2>3 DEF IndInv, NothingDangles
<1>8. QED
  BY <1>5, <1>6, <1>7

\* Neither profiles nor evidence change.
LEMMA SameRows ==
  ASSUME TablesOK, UNCHANGED <<provider, rows, log, evidence, offered>>,
         Embedded' \subseteq Repositories
  PROVE  TablesOK' /\ Grows
<1>1. UNCHANGED <<Stored, Evidenced>>
  BY DEF Stored, Evidenced
<1>2. /\ \A k \in Keys : offered[k] \in Nat
      /\ \A r \in Repositories : provider[r] \in Nat
  BY DEF TablesOK
<1>3. \A r \in Repositories : RowOK(r)'
  BY <1>1 DEF TablesOK, RowOK, KeepsNewer, WasStored
<1>4. TablesOK'
  BY <1>3 DEF TablesOK, Offered
<1>5. QED
  BY <1>1, <1>2, <1>4 DEF Grows, LongerLog

-----------------------------------------------------------------------------
(* The steps of an ingestion *)

LEMMA EndKeeps ==
  ASSUME IndInv, NEW i \in Ingestions, End(i), TablesOK', Grows, NothingDangles',
         UNCHANGED <<repair, lookup, retrieval>>
  PROVE  IndInv'
<1>1. GoOn(i, Idle) /\ ingestion'[i] = Idle
  BY DEF End, GoOn, IndInv
<1>2. JobOK(i)'
  <2>1. ingestion'[i].phase = "idle" /\ DOMAIN ingestion'[i] = DOMAIN Idle
    BY <1>1 DEF Idle
  <2>2. QED
    BY <2>1 DEF JobOK, JobPhases, Storing, Profiled
<1>3. QED
  BY <1>1, <1>2, OneJob

\* The provider's profile of now is a document.
LEMMA ProvidedIsDocument ==
  ASSUME TablesOK, NEW r \in Repositories
  PROVE  IsDocument(r, Provided(r)) /\ Provided(r).updated = provider[r]
<1>1. DOMAIN Provided(r) = Columns /\ Provided(r).updated = provider[r]
  BY DEF Provided, Columns, Facts
<1>2. QED
  BY <1>1 DEF IsDocument, IsProfile, TablesOK

LEMMA BeginKeeps ==
  ASSUME IndInv, NEW i \in Ingestions, Begin(i)
  PROVE  IndInv'
<1>1. PICK finds \in Finds :
        GoOn(i, [phase |-> After("found"), finds |-> finds, loaded |-> <<>>,
                 documents |-> [r \in Named(finds) |-> Provided(r)],
                 texts |-> {k[2] : k \in FoundKeys(finds)}])
  BY DEF Begin
<1>2. TablesOK' /\ Grows /\ NothingDangles' /\ UNCHANGED <<provider, repair, lookup, retrieval>>
  BY SameTables DEF Begin, Others, IndInv
<1>3. /\ DOMAIN ingestion'[i] = DOMAIN Idle
      /\ ingestion'[i].phase = "profiles" /\ ingestion'[i].finds = finds
      /\ DOMAIN ingestion'[i].documents = Named(finds)
      /\ \A r \in Named(finds) : ingestion'[i].documents[r] = Provided(r)
      /\ ingestion'[i].texts = {k[2] : k \in FoundKeys(finds)}
  BY <1>1 DEF GoOn, IndInv, After, Idle
<1>4. Named(finds) \subseteq Repositories
      /\ \A r \in Named(finds) : IsDocument(r, Provided(r))
  BY FindsFacts, ProvidedIsDocument DEF IndInv
<1>5. \A r \in Named(finds) : IsDocument(r, ingestion[i].documents[r])'
  BY <1>2, <1>3, <1>4 DEF IsDocument
<1>6. JobOK(i)'
  BY <1>3, <1>4, <1>5 DEF JobOK, JobPhases, Storing, Profiled, IsDiscovery, IsDocument
<1>7. QED
  BY <1>1, <1>2, <1>6, OneJob

LEMMA BackfillKeeps ==
  ASSUME IndInv, NEW i \in Ingestions, Backfill(i)
  PROVE  IndInv'
<1> DEFINE job == [phase |-> After("evidence"), finds |-> <<>>, loaded |-> <<>>,
                   documents |-> [r \in Stored |-> rows[r].profile],
                   texts |-> {k[2] : k \in Evidenced}]
<1>1. GoOn(i, job)
  BY DEF Backfill
<1>2. TablesOK' /\ Grows /\ NothingDangles' /\ UNCHANGED <<repair, lookup, retrieval>>
  BY SameTables DEF Backfill, Others, IndInv
<1>3. UNCHANGED <<Stored, Evidenced, log>>
  BY DEF Backfill, tables, Stored, Evidenced
<1>4. /\ DOMAIN ingestion'[i] = DOMAIN Idle /\ ingestion'[i].phase = "queries"
      /\ ingestion'[i].documents = [r \in Stored |-> rows[r].profile]
      /\ ingestion'[i].texts = {k[2] : k \in Evidenced}
  BY <1>1 DEF GoOn, IndInv, After, Idle
<1>5. \A r \in Stored : /\ r \in Repositories /\ WasStored(r, rows[r].profile)
                        /\ IsProfile(rows[r].profile)
  BY DEF IndInv, TablesOK, RowOK, Stored
<1>6. \A q \in ingestion'[i].texts : \E k \in Evidenced' : k[2] = q
  BY <1>3, <1>4
<1>7. \A r \in DOMAIN ingestion'[i].documents :
        WasStored(r, ingestion[i].documents[r])' /\ IsProfile(ingestion'[i].documents[r])
  BY <1>3, <1>4, <1>5 DEF WasStored
<1>8. DOMAIN ingestion'[i].documents \subseteq Repositories
  BY <1>4, <1>5
<1>9. JobOK(i)'
  BY <1>4, <1>6, <1>7, <1>8 DEF JobOK, JobPhases, Storing, Profiled
<1>10. QED
  BY <1>1, <1>2, <1>9, OneJob

LEMMA RefreshKeeps ==
  ASSUME IndInv, NEW i \in Ingestions, Refresh(i)
  PROVE  IndInv'
<1>1. PICK r \in Stored :
        GoOn(i, [phase |-> "profiles", finds |-> <<>>, loaded |-> <<>>, texts |-> {},
                 documents |-> [s \in {r} |-> Provided(s)]])
  BY DEF Refresh
<1>2. TablesOK' /\ Grows /\ NothingDangles' /\ UNCHANGED <<provider, repair, lookup, retrieval>>
  BY SameTables DEF Refresh, Others, IndInv
<1>3. r \in Repositories /\ IsDocument(r, Provided(r))
  BY ProvidedIsDocument DEF Stored, IndInv
<1>4. /\ DOMAIN ingestion'[i] = DOMAIN Idle
      /\ ingestion'[i].phase = "profiles" /\ ingestion'[i].finds = <<>>
      /\ DOMAIN ingestion'[i].documents = {r} /\ ingestion'[i].documents[r] = Provided(r)
      /\ ingestion'[i].texts = {}
  BY <1>1 DEF GoOn, IndInv, Idle
<1>5. IsDocument(r, ingestion[i].documents[r])'
  BY <1>2, <1>3, <1>4 DEF IsDocument
<1>6. {k[2] : k \in FoundKeys(<<>>)} = {}
  BY DEF FoundKeys
<1>7. IsDiscovery(ingestion'[i])
  BY <1>4, <1>6 DEF IsDiscovery
<1>8. JobOK(i)'
  BY <1>3, <1>4, <1>5, <1>7 DEF JobOK, JobPhases, Storing, Profiled, IsDocument
<1>9. QED
  BY <1>1, <1>2, <1>8, OneJob

LEMMA LoadProfilesKeeps ==
  ASSUME IndInv, NEW i \in Ingestions, LoadProfiles(i)
  PROVE  IndInv'
<1> DEFINE job == ingestion[i]
<1>1. GoOn(i, [job EXCEPT !.phase = "profiles loaded",
                          !.loaded = [r \in DOMAIN job.documents |-> rows[r]]])
  BY DEF LoadProfiles
<1>2. TablesOK' /\ Grows /\ NothingDangles' /\ UNCHANGED <<provider, repair, lookup, retrieval>>
  BY SameTables DEF LoadProfiles, Others, IndInv
<1>3. /\ DOMAIN job = DOMAIN Idle /\ job.phase = "profiles" /\ IsDiscovery(job)
      /\ DOMAIN job.documents \subseteq Repositories
      /\ \A r \in DOMAIN job.documents : IsDocument(r, job.documents[r])
  BY DEF LoadProfiles, IndInv, JobOK, Storing
<1>4. /\ DOMAIN ingestion'[i] = DOMAIN Idle /\ ingestion'[i].phase = "profiles loaded"
      /\ ingestion'[i].finds = job.finds /\ ingestion'[i].documents = job.documents
      /\ ingestion'[i].texts = job.texts
      /\ ingestion'[i].loaded = [r \in DOMAIN job.documents |-> rows[r]]
  BY <1>1, <1>3 DEF GoOn, IndInv, Idle
<1> HIDE DEF job
<1>5. \A r \in DOMAIN job.documents : WasRow(r, ingestion[i].loaded[r])'
  <2>1. UNCHANGED <<rows, log, Stored>>
    BY DEF LoadProfiles, tables, Stored
  <2>2. \A r \in Repositories : WasRow(r, rows[r])
    BY DEF IndInv, TablesOK, RowOK, WasRow, Stored
  <2>3. ASSUME NEW r \in DOMAIN job.documents PROVE WasRow(r, ingestion[i].loaded[r])'
    <3>1. ingestion'[i].loaded[r] = rows[r] /\ WasRow(r, rows[r])
      BY <1>3, <1>4, <2>2
    <3>2. QED
      BY <2>1, <3>1 DEF WasRow, WasStored
  <2>4. QED
    BY <2>3
<1>6. \A r \in DOMAIN job.documents : IsDocument(r, ingestion[i].documents[r])'
  BY <1>2, <1>3, <1>4 DEF IsDocument
<1>7. IsDiscovery(ingestion'[i])
  BY <1>3, <1>4 DEF IsDiscovery
<1>8. JobOK(i)'
  BY <1>3, <1>4, <1>5, <1>6, <1>7 DEF JobOK, JobPhases, Storing, Profiled, IsDocument
<1>9. QED
  BY <1>1, <1>2, <1>8, OneJob

\* Columns that are not written are those that were loaded, or what others have
\* stored in their place.
LEMMA RewrittenIsProfile ==
  ASSUME NEW r, r \in Repositories, RowOK(r), NEW loaded, WasRow(r, loaded), NEW document,
         IsProfile(document)
  PROVE  LET row == Rewritten(rows[r], loaded, document) IN
         /\ IsProfile(row.profile) /\ row.revision = rows[r].revision + 1
         /\ \A c \in Columns : \/ row.profile[c] = document[c]
                               \/ \E n \in DOMAIN log[r] : log[r][n].profile[c] = document[c]
<1> DEFINE row == Rewritten(rows[r], loaded, document)
<1>1. row.revision = rows[r].revision + 1
  BY DEF Rewritten
<1>2. CASE loaded.revision = 0
  <2>1. row.profile = document
    BY <1>2 DEF Rewritten
  <2>2. QED
    BY <1>1, <2>1
<1>3. CASE loaded.revision # 0
  <2>1. row.profile = [c \in DOMAIN document |->
                         IF loaded.profile[c] = document[c] THEN rows[r].profile[c]
                         ELSE document[c]]
    BY <1>3 DEF Rewritten
  <2>2. DOMAIN row.profile = Columns
    BY <2>1 DEF IsProfile
  <2>3. \A c \in Columns : loaded.profile[c] # document[c] => row.profile[c] = document[c]
    BY <2>1 DEF IsProfile
  <2>4. \A c \in Columns : loaded.profile[c] = document[c] =>
          \E n \in DOMAIN log[r] : log[r][n].profile[c] = document[c]
    BY <1>3 DEF WasRow, WasStored
  <2> HIDE DEF row
  <2>5. QED
    BY <1>1, <2>2, <2>3, <2>4 DEF IsProfile, row
<1>4. QED
  BY <1>2, <1>3

\* A profile that is stored was admitted or stored before.
LEMMA StoreProfilesKeeps ==
  ASSUME IndInv, NEW i \in Ingestions, StoreProfiles(i)
  PROVE  IndInv'
<1> DEFINE job == ingestion[i]
           S == DOMAIN job.documents
<1>1. /\ DOMAIN job = DOMAIN Idle /\ job.phase = "profiles loaded" /\ IsDiscovery(job)
      /\ S \subseteq Repositories
      /\ \A r \in S : IsDocument(r, job.documents[r]) /\ WasRow(r, job.loaded[r])
  BY DEF StoreProfiles, IndInv, JobOK, Storing
<1>2. UNCHANGED <<provider, repair, lookup, retrieval, evidence, profileVectors, queryVectors, offered>>
  BY DEF StoreProfiles, Others
<1>3. CASE RowsConflict(job)
  <2>1. End(i) /\ UNCHANGED <<provider, tables>>
    BY <1>2, <1>3 DEF StoreProfiles, tables
  <2>2. QED
    BY <1>2, <2>1, SameTables, EndKeeps DEF IndInv
<1>4. CASE ~RowsConflict(job)
  <2>1. /\ rows' = [r \in Repositories |->
                      IF r \notin S THEN rows[r]
                      ELSE Rewritten(rows[r], job.loaded[r], job.documents[r])]
        /\ log' = [r \in Repositories |->
                     IF r \notin S THEN log[r]
                     ELSE Append(log[r], Entry("discovery", job.loaded[r].revision,
                                               job.documents[r].updated, rows'[r].profile))]
        /\ IF job.finds = <<>> THEN End(i)
           ELSE GoOn(i, [job EXCEPT !.phase = "evidence", !.loaded = <<>>])
    BY <1>4 DEF StoreProfiles, After
  <2>2. ASSUME NEW r \in S
        PROVE  /\ RowOK(r)' /\ LongerLog(r) /\ r \in Stored'
               /\ \E document : document = job.documents[r] /\ WasStored(r, document)'
    <3> DEFINE new == Rewritten(rows[r], job.loaded[r], job.documents[r])
    <3>1. r \in Repositories /\ RowOK(r) /\ IsDocument(r, job.documents[r])
          /\ WasRow(r, job.loaded[r])
      BY <1>1 DEF IndInv, TablesOK
    <3>2. /\ IsProfile(new.profile) /\ new.revision = rows[r].revision + 1
          /\ \A c \in Columns :
               \/ new.profile[c] = job.documents[r][c]
               \/ \E n \in DOMAIN log[r] : log[r][n].profile[c] = job.documents[r][c]
      BY <3>1, RewrittenIsProfile DEF IsDocument
    <3>3. /\ rows'[r] = new
          /\ log'[r] = Append(log[r], Entry("discovery", job.loaded[r].revision,
                                            job.documents[r].updated, rows'[r].profile))
      BY <2>1, <3>1
    <3> HIDE DEF new, S
    <3>4. PICK document, profile, saw :
            document = job.documents[r] /\ profile = new.profile /\ saw = job.loaded[r].revision
      OBVIOUS
    <3>5. document.updated \in Nat /\ document.updated <= provider[r]
      BY <3>1, <3>4 DEF IsDocument
    <3>6. /\ IsProfile(profile) /\ rows'[r].profile = profile
          /\ rows'[r].revision = rows[r].revision + 1
          /\ log'[r] = Append(log[r], Entry("discovery", saw, document.updated, profile))
      BY <3>2, <3>3, <3>4
    <3>7. "discovery" # "maintenance"
      OBVIOUS
    <3>8. UNCHANGED provider /\ TablesOK /\ r \in Repositories
      BY <1>2, <3>1 DEF IndInv
    <3>9. RowOK(r)' /\ LongerLog(r) /\ r \in Stored' /\ WasStored(r, profile)'
      BY <3>5, <3>6, <3>7, <3>8, RowStored, Zenon
    <3>10. \A c \in Columns :
             profile[c] = document[c] \/ \E n \in DOMAIN log[r] : log[r][n].profile[c] = document[c]
      BY <3>2, <3>4
    <3>11. WasStored(r, document)'
      BY <3>9, <3>10 DEF WasStored, LongerLog
    <3>12. QED
      BY <3>4, <3>9, <3>11
  <2>3. \A r \in Repositories \ S : rows'[r] = rows[r] /\ log'[r] = log[r]
    BY <2>1
  <2>4. DOMAIN rows' = Repositories /\ DOMAIN log' = Repositories
    BY <2>1
  <2>5. TablesOK' /\ Grows /\ NothingDangles'
    BY <1>1, <1>2, <2>2, <2>3, <2>4, RowsStored
  <2>6. CASE job.finds = <<>>
    BY <1>2, <2>1, <2>5, <2>6, EndKeeps
  <2>7. CASE job.finds # <<>>
    <3>1. /\ DOMAIN ingestion'[i] = DOMAIN Idle /\ ingestion'[i].phase = "evidence"
          /\ ingestion'[i].finds = job.finds /\ ingestion'[i].documents = job.documents
          /\ ingestion'[i].texts = job.texts
      <4>1. GoOn(i, [job EXCEPT !.phase = "evidence", !.loaded = <<>>])
        BY <2>1, <2>7
      <4>2. DOMAIN job = {"phase", "finds", "documents", "texts", "loaded"}
        BY <1>1 DEF Idle
      <4>3. QED
        BY <4>1, <4>2 DEF GoOn, IndInv, Idle
    <3>2. job.finds \in Finds /\ S = Named(job.finds)
      BY <1>1, <2>7 DEF IsDiscovery
    <3>3. Named(job.finds) \subseteq Stored'
      BY <2>2, <3>2
    <3>4. \A r \in S : IsDocument(r, ingestion[i].documents[r])'
                       /\ WasStored(r, ingestion[i].documents[r])'
      BY <1>1, <1>2, <2>2, <3>1 DEF IsDocument
    <3>5. IsDiscovery(ingestion'[i])
      BY <1>1, <3>1, <3>2 DEF IsDiscovery
    <3>6. /\ DOMAIN ingestion'[i].documents = S
          /\ \A r \in S : IsProfile(ingestion'[i].documents[r])
      BY <1>1, <3>1 DEF IsDocument
    <3>7. JobOK(i)'
      BY <1>1, <3>1, <3>3, <3>4, <3>5, <3>6 DEF JobOK, JobPhases, Storing, Profiled
    <3>8. QED
      BY <1>2, <2>1, <2>5, <2>7, <3>7, OneJob
  <2>8. QED
    BY <2>6, <2>7
<1>5. QED
  BY <1>3, <1>4

LEMMA LoadEvidenceKeeps ==
  ASSUME IndInv, NEW i \in Ingestions, LoadEvidence(i)
  PROVE  IndInv'
<1> DEFINE job == ingestion[i]
<1>1. GoOn(i, [job EXCEPT !.phase = "evidence loaded",
                          !.loaded = [k \in FoundKeys(job.finds) |-> evidence[k]]])
  BY DEF LoadEvidence
<1>2. TablesOK' /\ Grows /\ NothingDangles' /\ UNCHANGED <<provider, repair, lookup, retrieval>>
  BY SameTables DEF LoadEvidence, Others, IndInv
<1>3. /\ DOMAIN job = DOMAIN Idle /\ job.phase = "evidence" /\ IsDiscovery(job)
      /\ job.finds \in Finds
      /\ DOMAIN job.documents \subseteq Repositories
      /\ \A r \in DOMAIN job.documents : IsDocument(r, job.documents[r])
                                         /\ WasStored(r, job.documents[r])
      /\ Named(job.finds) \subseteq Stored
  BY DEF LoadEvidence, IndInv, JobOK, Storing, Profiled, IsDiscovery
<1>4. /\ DOMAIN ingestion'[i] = DOMAIN Idle /\ ingestion'[i].phase = "evidence loaded"
      /\ ingestion'[i].finds = job.finds /\ ingestion'[i].documents = job.documents
      /\ ingestion'[i].texts = job.texts
      /\ ingestion'[i].loaded = [k \in FoundKeys(job.finds) |-> evidence[k]]
  BY <1>1, <1>3 DEF GoOn, IndInv, Idle
<1> HIDE DEF job
<1>5. UNCHANGED <<evidence, offered, Stored, log>>
  BY DEF LoadEvidence, tables, Stored
<1>6. \A k \in FoundKeys(job.finds) : /\ ingestion'[i].loaded[k] \in EvidenceRecord
                                      /\ Offered(k, ingestion[i].loaded[k])'
  <2>1. FoundKeys(job.finds) \subseteq Keys
    BY <1>3, FindsFacts
  <2>2. \A k \in Keys : evidence[k] \in EvidenceRecord /\ Offered(k, evidence[k])
    BY DEF IndInv, TablesOK
  <2>3. ASSUME NEW k \in FoundKeys(job.finds)
        PROVE  ingestion'[i].loaded[k] \in EvidenceRecord /\ Offered(k, ingestion[i].loaded[k])'
    <3>1. ingestion'[i].loaded[k] = evidence[k]
      BY <1>4
    <3>2. k \in Keys /\ evidence[k] \in EvidenceRecord /\ Offered(k, evidence[k])
      BY <2>1, <2>2
    <3>3. QED
      BY <1>5, <3>1, <3>2 DEF Offered
  <2>4. QED
    BY <2>3
<1>7. \A r \in DOMAIN job.documents :
        IsDocument(r, ingestion[i].documents[r])' /\ WasStored(r, ingestion[i].documents[r])'
  <2>1. ASSUME NEW r \in DOMAIN job.documents
        PROVE  IsDocument(r, ingestion[i].documents[r])' /\ WasStored(r, ingestion[i].documents[r])'
    <3>1. /\ ingestion'[i].documents[r] = job.documents[r] /\ UNCHANGED <<provider, log>>
          /\ IsDocument(r, job.documents[r]) /\ WasStored(r, job.documents[r])
      BY <1>2, <1>3, <1>4, <1>5
    <3>2. IsDocument(r, ingestion[i].documents[r])'
      BY <3>1 DEF IsDocument
    <3>3. WasStored(r, ingestion[i].documents[r])'
      BY <3>1 DEF WasStored
    <3>4. QED
      BY <3>2, <3>3
  <2>2. QED
    BY <2>1
<1>8. IsDiscovery(ingestion'[i])
  BY <1>3, <1>4 DEF IsDiscovery
<1>9. JobOK(i)'
  BY <1>3, <1>4, <1>5, <1>6, <1>7, <1>8 DEF JobOK, JobPhases, Storing, Profiled, IsDocument
<1>10. QED
  BY <1>1, <1>2, <1>9, OneJob DEF job

\* What is counted was offered, and the rank is that of a find.
LEMMA CountedIsOffered ==
  ASSUME TablesOK, NEW finds \in Finds, NEW job, job.finds = finds, NEW k \in FoundKeys(finds),
         job.loaded[k] \in EvidenceRecord, Offered(k, job.loaded[k])
  PROVE  /\ Counted(job, k) \in EvidenceRecord /\ Counted(job, k) # NoEvidence
         /\ Counted(job, k).hits >= 1
         /\ Counted(job, k).hits <= offered[k] + Cardinality(FindsAt(finds, k))
         /\ \E f \in Finds : \E n \in FindsAt(f, k) : f[n].rank = Counted(job, k).rank
<1> DEFINE size == Cardinality(FindsAt(finds, k))
           best == Min({finds[m].rank : m \in FindsAt(finds, k)})
           old == job.loaded[k]
           new == Counted(job, k)
<1>1. k \in Keys /\ size \in Nat /\ size >= 1 /\ best \in Nat \ {0}
      /\ \E n \in FindsAt(finds, k) : finds[n].rank = best
  BY FindsFacts
<1>2. new.hits = old.hits + size /\ new.rank = BestRank(old.rank, best)
      /\ new = [hits |-> new.hits, rank |-> new.rank]
  BY DEF Counted
<1>3. offered[k] \in Nat
  BY <1>1 DEF TablesOK
<1> HIDE DEF size, best, old, new
<1>4. old.hits \in Nat /\ old.rank \in Nat /\ old \in EvidenceRecord /\ Offered(k, old)
  BY DEF EvidenceRecord, old
<1>5. old.hits <= offered[k]
  BY <1>3, <1>4 DEF Offered, NoEvidence
<1>6. new.hits \in Nat /\ new.hits >= 1 /\ new.hits <= offered[k] + size
  BY <1>1, <1>2, <1>3, <1>4, <1>5
<1>7. new.rank \in {old.rank, best} /\ (old.rank = 0 => new.rank = best)
  BY <1>2 DEF BestRank
<1>8. \E f \in Finds : \E n \in FindsAt(f, k) : f[n].rank = new.rank
  <2>1. CASE new.rank = best
    BY <1>1, <2>1
  <2>2. CASE new.rank = old.rank /\ old.rank # 0
    <3>1. old # NoEvidence
      BY <2>2 DEF NoEvidence
    <3>2. QED
      BY <1>4, <2>2, <3>1 DEF Offered
  <2>3. QED
    BY <1>7, <2>1, <2>2
<1>9. new \in EvidenceRecord /\ new # NoEvidence
  <2>1. new.rank \in Nat
    BY <1>1, <1>4, <1>7
  <2>2. new # NoEvidence
    BY <1>6 DEF NoEvidence
  <2>3. QED
    BY <1>2, <1>6, <2>1, <2>2 DEF EvidenceRecord
<1>10. QED
  BY <1>6, <1>8, <1>9 DEF new, size

LEMMA StoreEvidenceKeeps ==
  ASSUME IndInv, NEW i \in Ingestions, StoreEvidence(i)
  PROVE  IndInv'
<1> DEFINE job == ingestion[i]
           found == FoundKeys(job.finds)
           size(k) == Cardinality(FindsAt(job.finds, k))
<1>1. /\ DOMAIN job = DOMAIN Idle /\ job.phase = "evidence loaded" /\ job.finds \in Finds
      /\ DOMAIN job.documents \subseteq Repositories
      /\ \A r \in DOMAIN job.documents : IsProfile(job.documents[r])
                                         /\ WasStored(r, job.documents[r])
      /\ job.texts = {k[2] : k \in found}
      /\ Named(job.finds) \subseteq Stored
      /\ \A k \in found : job.loaded[k] \in EvidenceRecord /\ Offered(k, job.loaded[k])
  BY DEF StoreEvidence, IndInv, JobOK, Storing, Profiled, IsDiscovery
<1>2. UNCHANGED <<provider, repair, lookup, retrieval, rows, profileVectors, queryVectors, log>>
  BY DEF StoreEvidence, Others
<1>3. CASE EvidenceConflict(job)
  <2>1. End(i) /\ UNCHANGED <<provider, tables>>
    BY <1>2, <1>3 DEF StoreEvidence, tables
  <2>2. QED
    BY <1>2, <2>1, SameTables, EndKeeps DEF IndInv
<1>4. CASE ~EvidenceConflict(job)
  <2>1. /\ evidence' = [k \in Keys |-> IF k \in found THEN Counted(job, k) ELSE evidence[k]]
        /\ offered' = [k \in Keys |-> offered[k] + size(k)]
        /\ GoOn(i, [job EXCEPT !.phase = "queries", !.loaded = <<>>])
    BY <1>4 DEF StoreEvidence, After
  <2>2. /\ found \subseteq Keys /\ \A k : size(k) \in Nat
        /\ \A k \in found : k[1] \in Named(job.finds)
    BY <1>1, FindsFacts
  <2>3. evidence \in [Keys -> EvidenceRecord] /\ offered \in [Keys -> Nat]
        /\ \A k \in Keys : Offered(k, evidence[k])
    BY DEF IndInv, TablesOK
  <2>4. \A k \in found :
          /\ Counted(job, k) \in EvidenceRecord /\ Counted(job, k) # NoEvidence
          /\ Counted(job, k).hits >= 1 /\ Counted(job, k).hits <= offered[k] + size(k)
          /\ \E f \in Finds : \E n \in FindsAt(f, k) : f[n].rank = Counted(job, k).rank
    <3> SUFFICES ASSUME NEW k \in found
                 PROVE  /\ Counted(job, k) \in EvidenceRecord /\ Counted(job, k) # NoEvidence
                        /\ Counted(job, k).hits >= 1
                        /\ Counted(job, k).hits <= offered[k] + size(k)
                        /\ \E f \in Finds : \E n \in FindsAt(f, k) : f[n].rank = Counted(job, k).rank
      OBVIOUS
    <3>1. job.loaded[k] \in EvidenceRecord /\ Offered(k, job.loaded[k]) /\ TablesOK
      BY <1>1 DEF IndInv
    <3> HIDE DEF job
    <3>2. QED
      BY <1>1, <3>1, CountedIsOffered
  <2> HIDE DEF size, found, job
  <2>5. UNCHANGED <<Stored, Embedded>>
    BY <1>2 DEF Stored, Embedded
  <2>6. Evidenced \subseteq Evidenced' /\ Evidenced' = Evidenced \cup found
    BY <2>1, <2>2, <2>4 DEF Evidenced
  <2>7. Grows
    <3>1. \A k \in Keys : offered[k] <= offered'[k]
      BY <2>1, <2>2, <2>3
    <3>2. \A r \in Repositories : LongerLog(r) /\ provider[r] <= provider'[r]
      BY <1>2 DEF LongerLog, IndInv, TablesOK
    <3>3. QED
      BY <2>5, <2>6, <3>1, <3>2 DEF Grows
  <2>8. TablesOK'
    <3>1. evidence' \in [Keys -> EvidenceRecord] /\ offered' \in [Keys -> Nat]
      BY <2>1, <2>2, <2>3, <2>4
    <3>2. \A k \in Keys : Offered(k, evidence[k])'
      <4> SUFFICES ASSUME NEW k \in Keys PROVE Offered(k, evidence[k])'
        OBVIOUS
      <4>1. offered'[k] = offered[k] + size(k) /\ offered[k] \in Nat /\ size(k) \in Nat
        BY <2>1, <2>2, <2>3
      <4>2. CASE k \in found
        <5>1. evidence'[k] = Counted(job, k)
          BY <2>1, <4>2
        <5>2. QED
          BY <2>4, <4>1, <4>2, <5>1 DEF Offered
      <4>3. CASE k \notin found
        <5>1. evidence'[k] = evidence[k] /\ evidence[k].hits \in Nat
          BY <2>1, <2>3, <4>3 DEF EvidenceRecord
        <5>2. QED
          BY <2>3, <4>1, <5>1 DEF Offered
      <4>4. QED
        BY <4>2, <4>3
    <3>3. \A r \in Repositories : RowOK(r)'
      BY <1>2, <2>5 DEF IndInv, TablesOK, RowOK, KeepsNewer, WasStored
    <3>4. QED
      BY <1>2, <2>5, <3>1, <3>2, <3>3 DEF IndInv, TablesOK
  <2>9. NothingDangles'
    <3>1. \A k \in Evidenced' : k[1] \in Stored'
      BY <1>1, <2>2, <2>5, <2>6 DEF IndInv, NothingDangles
    <3>2. QED
      BY <1>2, <2>5, <2>6, <3>1 DEF IndInv, NothingDangles
  <2>10. /\ DOMAIN ingestion'[i] = DOMAIN Idle /\ ingestion'[i].phase = "queries"
         /\ ingestion'[i].documents = job.documents /\ ingestion'[i].texts = job.texts
    BY <1>1, <2>1 DEF GoOn, IndInv, Idle
  <2>11. \A q \in ingestion'[i].texts : \E k \in Evidenced' : k[2] = q
    BY <1>1, <2>6, <2>10
  <2>12. \A r \in DOMAIN job.documents : WasStored(r, ingestion[i].documents[r])'
    <3>1. ASSUME NEW r \in DOMAIN job.documents PROVE WasStored(r, ingestion[i].documents[r])'
      <4>1. /\ ingestion'[i].documents[r] = job.documents[r] /\ UNCHANGED log
            /\ WasStored(r, job.documents[r])
        BY <1>1, <1>2, <2>10
      <4>2. QED
        BY <4>1 DEF WasStored
    <3>2. QED
      BY <3>1
  <2>13. JobOK(i)'
    BY <1>1, <2>10, <2>11, <2>12 DEF JobOK, JobPhases, Storing, Profiled
  <2>14. QED
    BY <1>2, <2>1, <2>7, <2>8, <2>9, <2>13, OneJob
<1>5. QED
  BY <1>3, <1>4

\* A query is embedded when its evidence is stored.
LEMMA EmbedQueriesKeeps ==
  ASSUME IndInv, NEW i \in Ingestions, EmbedQueries(i)
  PROVE  IndInv'
<1> DEFINE job == ingestion[i]
<1>1. /\ GoOn(i, [job EXCEPT !.phase = "vectors"]) /\ queryVectors' = queryVectors \cup job.texts
      /\ UNCHANGED <<provider, repair, lookup, retrieval, rows, evidence, profileVectors, log, offered>>
  BY DEF EmbedQueries, After, Others
<1>2. /\ DOMAIN job = DOMAIN Idle /\ job.phase = "queries"
      /\ DOMAIN job.documents \subseteq Repositories
      /\ \A r \in DOMAIN job.documents : IsProfile(job.documents[r])
                                         /\ WasStored(r, job.documents[r])
      /\ \A q \in job.texts : \E k \in Evidenced : k[2] = q
  BY DEF EmbedQueries, IndInv, JobOK, Profiled
<1>3. UNCHANGED <<Stored, Evidenced, Embedded>>
  BY <1>1 DEF Stored, Evidenced, Embedded
<1>4. TablesOK' /\ Grows
  <2>1. Embedded' \subseteq Repositories /\ TablesOK
    BY <1>3 DEF IndInv, TablesOK
  <2>2. QED
    BY <1>1, <2>1, SameRows
<1>5. NothingDangles'
  BY <1>1, <1>2, <1>3 DEF IndInv, NothingDangles
<1>6. /\ DOMAIN ingestion'[i] = DOMAIN Idle /\ ingestion'[i].phase = "vectors"
      /\ ingestion'[i].documents = job.documents
  BY <1>1, <1>2 DEF GoOn, IndInv, Idle
<1> HIDE DEF job
<1>7. JobOK(i)'
  BY <1>1, <1>2, <1>6 DEF JobOK, JobPhases, Storing, Profiled, WasStored
<1>8. QED
  BY <1>1, <1>4, <1>5, <1>7, OneJob

LEMMA FilterProfilesKeeps ==
  ASSUME IndInv, NEW i \in Ingestions, FilterProfiles(i)
  PROVE  IndInv'
<1> DEFINE job == ingestion[i]
           missing == Missing(job)
<1>1. TablesOK' /\ Grows /\ NothingDangles' /\ UNCHANGED <<repair, lookup, retrieval, log>>
  BY SameTables DEF FilterProfiles, Others, IndInv, tables
<1>2. CASE missing = {}
  BY <1>1, <1>2, EndKeeps DEF FilterProfiles
<1>3. CASE missing # {}
  <2>1. GoOn(i, [job EXCEPT !.phase = "embedded",
                            !.documents = [r \in missing |-> job.documents[r]]])
    BY <1>3 DEF FilterProfiles
  <2>2. /\ DOMAIN job = DOMAIN Idle /\ job.phase = "vectors"
        /\ DOMAIN job.documents \subseteq Repositories
        /\ \A r \in DOMAIN job.documents : IsProfile(job.documents[r])
                                           /\ WasStored(r, job.documents[r])
    BY DEF FilterProfiles, IndInv, JobOK, Profiled
  <2>3. missing \subseteq DOMAIN job.documents
    BY DEF Missing
  <2> HIDE DEF missing
  <2>4. /\ DOMAIN ingestion'[i] = DOMAIN Idle /\ ingestion'[i].phase = "embedded"
        /\ ingestion'[i].documents = [r \in missing |-> job.documents[r]]
    BY <2>1, <2>2 DEF GoOn, IndInv, Idle
  <2> HIDE DEF job
  <2>5. JobOK(i)'
    BY <1>1, <2>2, <2>3, <2>4 DEF JobOK, JobPhases, Storing, Profiled, WasStored
  <2>6. QED
    BY <1>1, <2>1, <2>5, OneJob
<1>4. QED
  BY <1>2, <1>3

\* An embedding is of what was stored.
LEMMA StoreVectorsKeeps ==
  ASSUME IndInv, NEW i \in Ingestions, StoreVectors(i)
  PROVE  IndInv'
<1> DEFINE job == ingestion[i]
<1>1. /\ profileVectors' = [r \in Embedded \cup DOMAIN job.documents |->
                             IF r \in DOMAIN job.documents THEN Embeddable(job.documents[r])
                             ELSE profileVectors[r]]
      /\ End(i)
      /\ UNCHANGED <<provider, repair, lookup, retrieval, rows, evidence, queryVectors, log, offered>>
  BY DEF StoreVectors, Others
<1>2. /\ DOMAIN job.documents \subseteq Repositories
      /\ \A r \in DOMAIN job.documents : WasStored(r, job.documents[r])
  BY DEF StoreVectors, IndInv, JobOK, Profiled
<1>3. UNCHANGED <<Stored, Evidenced>> /\ Embedded' = Embedded \cup DOMAIN job.documents
  BY <1>1 DEF Stored, Evidenced, Embedded
<1> HIDE DEF job
<1>4. TablesOK' /\ Grows
  <2>1. Embedded' \subseteq Repositories
    BY <1>2, <1>3 DEF IndInv, TablesOK
  <2>2. QED
    BY <1>1, <2>1, SameRows DEF IndInv
<1>5. NothingDangles'
  <2>1. ASSUME NEW r \in Embedded', NEW c \in TextColumns
        PROVE  \E n \in DOMAIN log[r] : log[r][n].profile[c] = profileVectors'[r][c]
    <3>1. CASE r \in DOMAIN job.documents
      <4>1. profileVectors'[r][c] = job.documents[r][c]
        BY <1>1, <3>1 DEF Embeddable
      <4>2. QED
        BY <1>2, <3>1, <4>1 DEF WasStored, Columns, Facts
    <3>2. CASE r \notin DOMAIN job.documents
      <4>1. r \in Embedded /\ profileVectors'[r] = profileVectors[r]
        BY <1>1, <1>3, <3>2
      <4>2. QED
        BY <4>1 DEF IndInv, NothingDangles
    <3>3. QED
      BY <3>1, <3>2
  <2>2. \A r \in Embedded' : \A c \in TextColumns :
          \E n \in DOMAIN log'[r] : log'[r][n].profile[c] = profileVectors'[r][c]
    BY <1>1, <2>1
  <2>3. /\ \A k \in Evidenced : k[1] \in Stored
        /\ \A q \in queryVectors : \E k \in Evidenced : k[2] = q
    BY DEF IndInv, NothingDangles
  <2>4. QED
    BY <1>1, <1>3, <2>2, <2>3 DEF NothingDangles
<1>6. QED
  BY <1>1, <1>4, <1>5, EndKeeps

LEMMA IngestKeeps ==
  ASSUME IndInv, NEW i \in Ingestions, Ingest(i)
  PROVE  IndInv'
<1>1. CASE Fail(i)
  <2>1. TablesOK' /\ Grows /\ NothingDangles'
    BY <1>1, SameTables DEF Fail, IndInv
  <2>2. QED
    BY <1>1, <2>1, EndKeeps DEF Fail
<1>2. QED
  BY <1>1, BeginKeeps, BackfillKeeps, RefreshKeeps, LoadProfilesKeeps, StoreProfilesKeeps, LoadEvidenceKeeps,
     StoreEvidenceKeeps, EmbedQueriesKeeps, FilterProfilesKeeps, StoreVectorsKeeps DEF Ingest

-----------------------------------------------------------------------------
(* Maintenance *)

\* A step that is no ingestion's.
LEMMA NoJob ==
  ASSUME IndInv, TablesOK', Grows, NothingDangles', MaintenanceOK', RetrievalOK',
         UNCHANGED ingestion
  PROVE  IndInv'
BY JobKept DEF IndInv

\* A task of maintenance stores what it fetched, over what it saw.
LEMMA TaskStores ==
  ASSUME IndInv, NEW task, TaskOK(task), task.phase = "fetched",
         rows[task.repository].revision = task.seen.revision,
         Store(task.repository, task),
         UNCHANGED <<provider, evidence, profileVectors, queryVectors, offered>>
  PROVE  TablesOK' /\ Grows /\ NothingDangles'
<1> DEFINE r == task.repository
           e == Entry("maintenance", task.saw, task.fetched.updated, task.fetched)
           row == [profile |-> task.fetched, revision |-> rows[r].revision + 1]
<1>1. /\ r \in Repositories /\ task.seen.revision = task.saw
      /\ IsDocument(r, task.fetched)
      /\ \A m \in 1 .. task.saw : log[r][m].version <= task.fetched.updated
  BY DEF TaskOK
<1>2. DOMAIN rows = Repositories /\ DOMAIN log = Repositories /\ rows[r].revision = Len(log[r])
  BY <1>1 DEF IndInv, TablesOK, RowOK
<1>3. rows' = [rows EXCEPT ![r] = row] /\ log' = [log EXCEPT ![r] = Append(log[r], e)]
  BY DEF Store
<1>4. row.profile = task.fetched /\ row.revision = rows[r].revision + 1
  OBVIOUS
<1> HIDE DEF row, r
<1>5. /\ rows'[r] = row /\ log'[r] = Append(log[r], e)
      /\ \A s \in Repositories \ {r} : rows'[s] = rows[s] /\ log'[s] = log[s]
      /\ DOMAIN rows' = Repositories /\ DOMAIN log' = Repositories
  BY <1>1, <1>2, <1>3
<1>6. task.saw = Len(log[r])
  BY <1>1, <1>2 DEF r
<1>7. /\ IsProfile(task.fetched) /\ task.fetched.updated \in Nat
      /\ task.fetched.updated <= provider[r]
  BY <1>1 DEF IsDocument
<1> DEFINE saw == task.saw
           version == task.fetched.updated
           profile == task.fetched
<1>8. /\ version \in Nat /\ version <= provider[r] /\ IsProfile(profile)
      /\ rows'[r].profile = profile /\ rows'[r].revision = rows[r].revision + 1
      /\ log'[r] = Append(log[r], Entry("maintenance", saw, version, profile))
      /\ saw = Len(log[r]) /\ \A m \in 1 .. saw : log[r][m].version <= version
  BY <1>1, <1>4, <1>5, <1>6, <1>7 DEF r
<1> HIDE DEF saw, version, profile
<1>9. TablesOK /\ UNCHANGED provider /\ r \in Repositories
  BY <1>1 DEF IndInv
<1>10. RowOK(r)' /\ LongerLog(r) /\ r \in Stored'
  BY <1>8, <1>9, RowStored, Zenon
<1> DEFINE S == {r}
<1>11. /\ S \in SUBSET Repositories
       /\ \A s \in S : RowOK(s)' /\ LongerLog(s) /\ s \in Stored'
       /\ \A s \in Repositories \ S : rows'[s] = rows[s] /\ log'[s] = log[s]
  BY <1>5, <1>9, <1>10
<1> HIDE DEF S
<1>12. QED
  BY <1>5, <1>11, RowsStored

\* The task of a repository that its provider answers for.
LEMMA FetchedIsOK ==
  ASSUME IndInv, NEW r \in Repositories, NEW task, DOMAIN task = DOMAIN AtRest,
         task.phase = "fetched", task.repository = r, task.fetched = Provided(r),
         task.saw \in Nat, task.saw <= Len(log[r]), task.seen.revision = task.saw
  PROVE  TaskOK(task)
<1>1. IsDocument(r, Provided(r)) /\ Provided(r).updated = provider[r]
  BY ProvidedIsDocument DEF IndInv
<1>2. IsLog(log[r]) /\ \A n \in DOMAIN log[r] : log[r][n].version <= provider[r]
  BY DEF IndInv, TablesOK, RowOK
<1>3. Len(log[r]) \in Nat /\ DOMAIN log[r] = 1 .. Len(log[r])
  BY <1>2 DEF IsLog
<1>4. \A m \in 1 .. task.saw : m \in DOMAIN log[r]
  BY <1>3
<1>5. \A m \in 1 .. task.saw : log[r][m].version <= task.fetched.updated
  BY <1>1, <1>2, <1>4
<1>6. QED
  BY <1>1, <1>5 DEF TaskOK

\* A change at the provider makes its profile newer and nothing else.
LEMMA ProviderChangesKeeps ==
  ASSUME IndInv, NEW r \in Repositories, ProviderChanges(r)
  PROVE  TablesOK' /\ Grows /\ NothingDangles'
<1>1. /\ provider' = [provider EXCEPT ![r] = provider[r] + 1] /\ UNCHANGED tables
      /\ provider \in [Repositories -> Nat \ {0}]
  BY DEF ProviderChanges, IndInv, TablesOK
<1>2. /\ provider' \in [Repositories -> Nat \ {0}]
      /\ \A s \in Repositories : /\ provider[s] \in Nat /\ provider'[s] \in Nat
                                 /\ provider[s] <= provider'[s]
  BY <1>1
<1>3. UNCHANGED <<Stored, Evidenced, Embedded, rows, log, evidence, offered, profileVectors,
                  queryVectors>>
  BY <1>1 DEF tables, Stored, Evidenced, Embedded
<1>4. \A s \in Repositories : RowOK(s)'
  <2> SUFFICES ASSUME NEW s \in Repositories PROVE RowOK(s)'
    OBVIOUS
  <2>1. RowOK(s)
    BY DEF IndInv, TablesOK
  <2>2. \A n \in DOMAIN log[s] : log[s][n].version \in Nat /\ log[s][n].version <= provider'[s]
    BY <1>2, <2>1 DEF RowOK
  <2>3. QED
    BY <1>3, <2>1, <2>2 DEF RowOK, KeepsNewer, WasStored
<1>5. TablesOK'
  BY <1>2, <1>3, <1>4 DEF IndInv, TablesOK, Offered
<1>6. Grows
  BY <1>2, <1>3 DEF IndInv, TablesOK, Grows, LongerLog
<1>7. NothingDangles'
  BY <1>3 DEF IndInv, NothingDangles
<1>8. QED
  BY <1>5, <1>6, <1>7

LEMMA MaintainKeeps ==
  ASSUME IndInv, Maintain
  PROVE  IndInv'
<1>1. UNCHANGED <<evidence, profileVectors, queryVectors, offered, ingestion, retrieval>>
  BY DEF Maintain, ProviderChanges, TakeSnapshot, LookUp, FetchForRepair, Repair, InsertIfAbsent,
         UnchangedByMaintenance, tables
<1>2. TablesOK' /\ Grows /\ NothingDangles'
  <2>1. CASE UNCHANGED <<provider, tables>>
    BY <2>1, SameTables DEF IndInv
  <2>2. ASSUME Repair PROVE TablesOK' /\ Grows /\ NothingDangles'
    <3>1. UNCHANGED provider /\ repair.phase = "fetched" /\ TaskOK(repair)
      BY <2>2 DEF Repair, UnchangedByMaintenance, IndInv, MaintenanceOK
    <3>2. CASE StillCurrent(repair.repository)
      <4>1. Store(repair.repository, repair)
            /\ rows[repair.repository].revision = repair.seen.revision
        BY <2>2, <3>2 DEF Repair, StillCurrent
      <4>2. QED
        BY <1>1, <3>1, <4>1, TaskStores
    <3>3. CASE ~StillCurrent(repair.repository)
      BY <1>1, <2>1, <2>2, <3>1, <3>3 DEF Repair, tables
    <3>4. QED
      BY <3>2, <3>3
  <2>3. ASSUME InsertIfAbsent PROVE TablesOK' /\ Grows /\ NothingDangles'
    <3> DEFINE r == lookup.repository
    <3>1. UNCHANGED provider /\ lookup.phase = "fetched" /\ TaskOK(lookup)
      BY <2>3 DEF InsertIfAbsent, UnchangedByMaintenance, IndInv, MaintenanceOK
    <3>2. CASE r \notin Stored
      <4>1. /\ r \in Repositories /\ lookup.saw \in Nat /\ lookup.saw <= Len(log[r])
            /\ lookup.seen.revision = lookup.saw
        BY <3>1 DEF TaskOK
      <4>2. rows[r].revision = 0 /\ Len(log[r]) = 0
        BY <3>2, <4>1 DEF Stored, IndInv, TablesOK, RowOK
      <4>3. rows[r].revision = lookup.seen.revision
        BY <4>1, <4>2
      <4>4. Store(r, lookup)
        BY <2>3, <3>2 DEF InsertIfAbsent
      <4> HIDE DEF r
      <4>5. QED
        BY <1>1, <3>1, <4>3, <4>4, TaskStores DEF r
    <3>3. CASE r \in Stored
      BY <1>1, <2>1, <2>3, <3>1, <3>3 DEF InsertIfAbsent, tables
    <3>4. QED
      BY <3>2, <3>3
  <2>4. QED
    BY <1>1, <2>1, <2>2, <2>3, ProviderChangesKeeps
       DEF Maintain, TakeSnapshot, LookUp, FetchForRepair, UnchangedByMaintenance, tables
<1>3. DOMAIN AtRest = {"phase", "repository", "seen", "saw", "fetched"} /\ AtRest.phase = "idle"
      /\ AtRest.seen.revision = 0
  BY DEF AtRest, Absent
<1>4. TaskOK(AtRest)' /\ TaskOK(repair) /\ TaskOK(lookup)
  BY <1>3 DEF IndInv, MaintenanceOK, TaskOK
<1>5. TablesOK
  BY DEF IndInv
<1>6. TaskOK(repair)'
  <2>1. CASE repair' = AtRest
    BY <1>4, <2>1
  <2>2. CASE UNCHANGED repair
    BY <1>2, <1>4, <1>5, <2>2, TaskKept
  <2>3. ASSUME NEW r \in Repositories, TakeSnapshot(r) PROVE TaskOK(repair)'
    <3>1. /\ repair' = [AtRest EXCEPT !.phase = "snapshot", !.repository = r, !.seen = rows[r],
                                      !.saw = Len(log[r])]
          /\ UNCHANGED log
      BY <2>3 DEF TakeSnapshot
    <3>2. /\ DOMAIN repair' = DOMAIN AtRest /\ repair'.phase = "snapshot"
          /\ repair'.repository = r /\ repair'.seen = rows[r] /\ repair'.saw = Len(log[r])
      BY <1>3, <3>1
    <3>3. Len(log[r]) \in Nat /\ rows[r].revision = Len(log[r])
      BY DEF IndInv, TablesOK, RowOK, IsLog
    <3>4. QED
      BY <3>1, <3>2, <3>3 DEF TaskOK
  <2>4. ASSUME FetchForRepair, repair' # AtRest PROVE TaskOK(repair)'
    <3> DEFINE r == repair.repository
               task == [repair EXCEPT !.phase = "fetched", !.fetched = Provided(r)]
    <3>1. repair' = task /\ repair.phase = "snapshot" /\ UNCHANGED <<provider, log>>
      BY <2>4 DEF FetchForRepair, UnchangedByMaintenance
    <3>2. /\ r \in Repositories /\ DOMAIN repair = DOMAIN AtRest
          /\ repair.saw \in Nat /\ repair.saw <= Len(log[r]) /\ repair.seen.revision = repair.saw
      BY <1>4, <3>1 DEF TaskOK
    <3>3. /\ DOMAIN task = DOMAIN AtRest /\ task.phase = "fetched" /\ task.repository = r
          /\ task.fetched = Provided(r) /\ task.saw = repair.saw /\ task.seen = repair.seen
      BY <1>3, <3>2
    <3> HIDE DEF task, r
    <3>4. TaskOK(task)
      BY <3>2, <3>3, FetchedIsOK DEF r
    <3>5. QED
      BY <3>1, <3>4 DEF TaskOK, IsDocument
  <2>5. QED
    BY <2>1, <2>2, <2>3, <2>4 DEF Maintain, ProviderChanges, LookUp, Repair, InsertIfAbsent
<1>7. TaskOK(lookup)'
  <2>1. CASE lookup' = AtRest
    BY <1>4, <2>1
  <2>2. CASE UNCHANGED lookup
    BY <1>2, <1>4, <1>5, <2>2, TaskKept
  <2>3. ASSUME NEW r \in Repositories, LookUp(r), lookup' # lookup PROVE TaskOK(lookup)'
    <3> DEFINE task == [AtRest EXCEPT !.phase = "fetched", !.repository = r,
                                      !.saw = Len(log[r]), !.fetched = Provided(r)]
    <3>1. lookup' = task /\ UNCHANGED <<provider, log>> /\ r \notin Stored
      BY <2>3 DEF LookUp, UnchangedByMaintenance
    <3>2. /\ DOMAIN task = DOMAIN AtRest /\ task.phase = "fetched" /\ task.repository = r
          /\ task.fetched = Provided(r) /\ task.saw = Len(log[r]) /\ task.seen.revision = 0
      BY <1>3
    <3> HIDE DEF task
    <3>3. Len(log[r]) = 0
      BY <3>1 DEF Stored, IndInv, TablesOK, RowOK
    <3>4. TaskOK(task)
      BY <3>2, <3>3, FetchedIsOK
    <3>5. QED
      BY <3>1, <3>4 DEF TaskOK, IsDocument
  <2>4. QED
    BY <2>1, <2>2, <2>3 DEF Maintain, ProviderChanges, TakeSnapshot, FetchForRepair, Repair,
                            InsertIfAbsent
<1>8. MaintenanceOK'
  BY <1>6, <1>7 DEF MaintenanceOK
<1>9. RetrievalOK'
  BY <1>1, <1>2, RetrievalKept DEF IndInv
<1>10. QED
  BY <1>1, <1>2, <1>8, <1>9, NoJob

-----------------------------------------------------------------------------
(* Adding up hits *)

\* The value that the sum over s has, when f has those of the smaller sets.
SumStep(f, s) ==
  IF s = {} THEN 0 ELSE LET x == CHOOSE x \in s : TRUE IN evidence[x].hits + f[s \ {x}]

LEMMA SmallerSum ==
  ASSUME NEW K \in SUBSET Keys, NEW s \in SUBSET K, s # {}
  PROVE  LET x == CHOOSE x \in s : TRUE IN
         /\ x \in Keys /\ s \ {x} \in SUBSET K
         /\ Cardinality(s \ {x}) = Cardinality(s) - 1
<1> DEFINE x == CHOOSE x \in s : TRUE
<1>1. x \in s
  OBVIOUS
<1> HIDE DEF x
<1>2. s \in SUBSET Keys
  OBVIOUS
<1>3. Cardinality(s \ {x}) = Cardinality(s) - 1
  BY <1>1, <1>2, KeysAreFinite, FS_RemoveElement
<1>4. x \in Keys /\ s \ {x} \in SUBSET K
  BY <1>1
<1>5. QED
  BY <1>3, <1>4 DEF x

\* There is a function that adds up every subset.
LEMMA SumsExist ==
  ASSUME NEW K \in SUBSET Keys
  PROVE  \E f : f = [s \in SUBSET K |-> SumStep(f, s)]
<1> DEFINE Upto(f, n) == /\ f = [s \in SUBSET K |-> f[s]]
                         /\ \A s \in SUBSET K : Cardinality(s) <= n => f[s] = SumStep(f, s)
           fails == {n \in Nat : ~\E f : Upto(f, n)}
<1>1. \A s \in SUBSET K : Cardinality(s) \in Nat /\ (Cardinality(s) = 0 => s = {})
  BY KeysAreFinite, FS_EmptySet
<1>2. ASSUME NEW n \in fails PROVE n # 0
  <2> DEFINE f == [s \in SUBSET K |-> 0]
  <2>1. \A s \in SUBSET K : Cardinality(s) <= 0 => f[s] = SumStep(f, s)
    BY <1>1 DEF SumStep
  <2>2. Upto(f, 0)
    BY <2>1
  <2> HIDE DEF f, Upto
  <2>3. QED
    BY <2>2
<1>3. ASSUME NEW n \in Nat, NEW f, Upto(f, n)
      PROVE  \E g : Upto(g, n + 1)
  <2> DEFINE g == [s \in SUBSET K |-> IF Cardinality(s) <= n THEN f[s] ELSE SumStep(f, s)]
  <2>1. ASSUME NEW s \in SUBSET K, Cardinality(s) <= n + 1
        PROVE  SumStep(g, s) = SumStep(f, s)
    <3>1. CASE s = {}
      BY <3>1 DEF SumStep
    <3>2. CASE s # {}
      <4> DEFINE x == CHOOSE x \in s : TRUE
      <4>1. s \ {x} \in SUBSET K /\ Cardinality(s \ {x}) = Cardinality(s) - 1
        BY <3>2, SmallerSum
      <4>2. Cardinality(s \ {x}) <= n
        BY <1>1, <2>1, <4>1
      <4>3. g[s \ {x}] = f[s \ {x}]
        BY <4>1, <4>2
      <4> HIDE DEF g
      <4>4. QED
        BY <3>2, <4>3 DEF SumStep
    <3>3. QED
      BY <3>1, <3>2
  <2>2. ASSUME NEW s \in SUBSET K, Cardinality(s) <= n + 1
        PROVE  g[s] = SumStep(f, s)
    BY <1>3, <2>2
  <2>3. g = [s \in SUBSET K |-> g[s]]
    OBVIOUS
  <2> HIDE DEF g
  <2>4. Upto(g, n + 1)
    BY <2>1, <2>2, <2>3
  <2> HIDE DEF Upto
  <2>5. QED
    BY <2>4
<1>4. fails = {}
  <2> SUFFICES ASSUME fails # {} PROVE FALSE
    OBVIOUS
  <2>1. fails \in SUBSET Nat
    OBVIOUS
  <2> HIDE DEF fails
  <2>2. PICK n \in fails : \A m \in fails : n <= m
    BY <2>1, LeastNatural
  <2>3. n \in Nat \ {0}
    BY <1>2, <2>1
  <2>4. n - 1 \in Nat /\ n - 1 \notin fails /\ (n - 1) + 1 = n
    BY <2>2, <2>3
  <2> HIDE DEF Upto
  <2>5. PICK f : Upto(f, n - 1)
    BY <2>4 DEF fails
  <2>6. \E g : Upto(g, n)
    BY <1>3, <2>4, <2>5
  <2>7. QED
    BY <2>2, <2>6 DEF fails
<1>5. PICK f : Upto(f, Cardinality(K))
  BY <1>1, <1>4
<1>6. \A s \in SUBSET K : Cardinality(s) <= Cardinality(K)
  BY KeysAreFinite, FS_Subset
<1>7. \A s \in SUBSET K : f[s] = SumStep(f, s)
  BY <1>5, <1>6
<1>8. f = [s \in SUBSET K |-> SumStep(f, s)]
  BY <1>5, <1>7
<1>9. QED
  BY <1>8

LEMMA SumIsNatural ==
  ASSUME evidence \in [Keys -> EvidenceRecord], NEW K \in SUBSET Keys
  PROVE  MapThenSumSet(LAMBDA k : evidence[k].hits, K) \in Nat
<1> DEFINE F == CHOOSE f : f = [s \in SUBSET K |-> SumStep(f, s)]
           odd == {n \in Nat : \E s \in SUBSET K : Cardinality(s) = n /\ F[s] \notin Nat}
<1>1. F = [s \in SUBSET K |-> SumStep(F, s)]
  BY SumsExist
<1>2. MapThenSumSet(LAMBDA k : evidence[k].hits, K) = F[K]
  BY DEF MapThenSumSet, MapThenFoldSet, SumStep
<1> HIDE DEF F
<1>3. odd = {}
  <2> SUFFICES ASSUME odd # {} PROVE FALSE
    OBVIOUS
  <2>1. odd \in SUBSET Nat
    OBVIOUS
  <2> HIDE DEF odd
  <2>2. PICK n \in odd : \A m \in odd : n <= m
    BY <2>1, LeastNatural
  <2>3. PICK s \in SUBSET K : Cardinality(s) = n /\ F[s] \notin Nat
    BY DEF odd
  <2>4. F[s] = SumStep(F, s)
    BY <1>1
  <2>5. s # {}
    BY <2>3, <2>4 DEF SumStep
  <2> DEFINE x == CHOOSE x \in s : TRUE
  <2>6. x \in Keys /\ s \ {x} \in SUBSET K /\ Cardinality(s \ {x}) = n - 1
    BY <2>3, <2>5, SmallerSum
  <2>7. F[s] = evidence[x].hits + F[s \ {x}]
    BY <2>4, <2>5 DEF SumStep
  <2> HIDE DEF x
  <2>8. evidence[x].hits \in Nat
    BY <2>6 DEF EvidenceRecord
  <2>9. F[s \ {x}] \notin Nat
    BY <2>3, <2>7, <2>8
  <2>10. n - 1 \in Nat
    <3>1. s \ {x} \in SUBSET Keys
      BY <2>6
    <3>2. QED
      BY <2>6, <3>1, KeysAreFinite
  <2>11. n - 1 \in odd
    BY <2>6, <2>9, <2>10 DEF odd
  <2>12. QED
    BY <2>1, <2>2, <2>11
<1>4. Cardinality(K) \in Nat
  BY KeysAreFinite
<1>5. F[K] \in Nat
  BY <1>3, <1>4
<1>6. QED
  BY <1>2, <1>5

-----------------------------------------------------------------------------
(* Candidates that can be shown and ranked *)

LEMMA RankedIsReadable ==
  ASSUME NEW items, \A item \in items : item.rank \in Nat
  PROVE  /\ {pair[1] : pair \in Ranked(items)} = {item.channel : item \in items}
         /\ \A pair \in Ranked(items) : pair[2] \in Nat \ {0}
<1> DEFINE channels == {item.channel : item \in items}
           ranks(c) == {item.rank : item \in {i \in items : i.channel = c}} \ {0}
           best(c) == IF ranks(c) = {} THEN 1 ELSE Min(ranks(c))
<1>1. Ranked(items) = {<<c, best(c)>> : c \in channels}
  BY DEF Ranked
<1>2. ASSUME NEW c PROVE best(c) \in Nat \ {0}
  <2>1. ranks(c) \in SUBSET Nat /\ 0 \notin ranks(c)
    OBVIOUS
  <2> HIDE DEF ranks
  <2>2. ranks(c) # {} => Min(ranks(c)) \in ranks(c)
    BY <2>1, MinOfNaturals
  <2>3. QED
    BY <2>1, <2>2
<1> HIDE DEF best, channels
<1>3. \A pair \in Ranked(items) : \E c \in channels : pair = <<c, best(c)>>
  BY <1>1
<1>4. \A pair \in Ranked(items) : pair[2] \in Nat \ {0}
  BY <1>2, <1>3
<1>5. {pair[1] : pair \in Ranked(items)} = channels
  <2>1. \A c \in channels : <<c, best(c)>> \in Ranked(items) /\ <<c, best(c)>>[1] = c
    BY <1>1
  <2>2. \A pair \in Ranked(items) : pair[1] \in channels
    BY <1>3
  <2>3. channels \subseteq {pair[1] : pair \in Ranked(items)}
    BY <2>1
  <2>4. QED
    BY <2>2, <2>3
<1>6. QED
  BY <1>4, <1>5 DEF channels

LEMMA CandidateIsReadable ==
  ASSUME NEW query, NEW profile, NEW items, NEW hits \in Nat \ {0}, items # {},
         \A item \in items : item.rank \in Nat /\ item.query = query
  PROVE  ReadableCandidate(query, Candidate(query, profile, items, hits))
<1> DEFINE c == Candidate(query, profile, items, hits)
<1>1. c.ranks = Ranked(items) /\ c.hits = hits /\ c.evidence = items
  BY DEF Candidate
<1>2. /\ {pair[1] : pair \in Ranked(items)} = {item.channel : item \in items}
      /\ \A pair \in Ranked(items) : pair[2] \in Nat \ {0}
  BY RankedIsReadable
<1> HIDE DEF c
<1>3. QED
  BY <1>1, <1>2 DEF ReadableCandidate, Channels, c

\* What is merged keeps a rank for each channel.
LEMMA MergedIsReadable ==
  ASSUME NEW query, NEW c, NEW d, ReadableCandidate(query, c), ReadableCandidate(query, d)
  PROVE  ReadableCandidate(query, MergeCandidates(c, d))
<1> DEFINE m == MergeCandidates(c, d)
           all == c.ranks \cup d.ranks
<1>1. /\ m.hits = c.hits + d.hits /\ m.evidence = c.evidence \cup d.evidence
      /\ m.ranks = BestRanks(c.ranks, d.ranks)
  BY DEF MergeCandidates
<1>2. \A pair \in all : pair[2] \in Nat \ {0}
  BY DEF ReadableCandidate
<1>3. ASSUME NEW pair \in all
      PROVE  \E best \in m.ranks : best[1] = pair[1]
  <2> DEFINE same == {other \in all : other[1] = pair[1]}
             places == {other[2] : other \in same}
  <2>1. places \in SUBSET Nat /\ places # {}
    BY <1>2
  <2> HIDE DEF places
  <2>2. PICK n \in places : \A k \in places : n <= k
    BY <2>1, LeastNatural
  <2>3. PICK best \in same : best[2] = n
    BY DEF places
  <2>4. \A other \in all : other[1] = best[1] => best[2] <= other[2]
    BY <2>2, <2>3 DEF places
  <2>5. best \in m.ranks
    BY <1>1, <2>3, <2>4 DEF BestRanks
  <2>6. QED
    BY <2>3, <2>5
<1>4. m.ranks \subseteq all
  BY <1>1 DEF BestRanks
<1> HIDE DEF m
<1>5. Channels(m) = Channels(c) \cup Channels(d)
  BY <1>3, <1>4 DEF Channels
<1>6. Channels(m) = {item.channel : item \in m.evidence}
  BY <1>1, <1>5 DEF ReadableCandidate
<1>7. m.hits \in Nat \ {0} /\ m.evidence # {} /\ \A item \in m.evidence : item.query = query
  BY <1>1 DEF ReadableCandidate
<1>8. QED
  BY <1>2, <1>4, <1>6, <1>7 DEF ReadableCandidate, m

LEMMA MergedPoolIsReadable ==
  ASSUME NEW query, NEW first, NEW second, ReadablePool(query, first), ReadablePool(query, second)
  PROVE  ReadablePool(query, MergePools(first, second))
BY MergedIsReadable DEF ReadablePool, MergePools

\* A row that matched the words, with the evidence it had when that was read.
LEMMA LexicalIsReadable ==
  ASSUME TablesOK, NEW query, NEW r, NEW profile
  PROVE  ReadableCandidate(query, Lexical(query, r, profile))
<1> DEFINE keys == EvidenceFor(query, r)
           items == LexicalEvidence(query, keys)
           hits == MapThenSumSet(LAMBDA k : evidence[k].hits, keys)
<1>1. keys \in SUBSET Keys /\ evidence \in [Keys -> EvidenceRecord]
  BY DEF EvidenceFor, Evidenced, TablesOK
<1>2. \A k \in Keys : evidence[k].rank \in Nat
  BY <1>1 DEF EvidenceRecord
<1>3. items # {} /\ \A item \in items : item.rank \in Nat /\ item.query = query
  <2>1. ASSUME NEW location, NEW rank \in Nat, NEW channel
        PROVE  /\ FromCatalog(query, location, rank, channel).rank \in Nat
               /\ FromCatalog(query, location, rank, channel).query = query
    BY DEF FromCatalog
  <2>2. CASE keys = {}
    <3>1. items = {FromCatalog(query, "metadata", 0, "catalog")}
      BY <2>2 DEF LexicalEvidence
    <3>2. QED
      BY <2>1, <3>1
  <2>3. CASE keys # {}
    <3>1. items = {FromCatalog(query, "description", evidence[k].rank, "repository_search")
                     : k \in keys}
      BY <2>3 DEF LexicalEvidence
    <3>2. \A k \in keys : evidence[k].rank \in Nat
      BY <1>1, <1>2
    <3> HIDE DEF keys, items
    <3>3. QED
      BY <2>1, <2>3, <3>1, <3>2
  <2>4. QED
    BY <2>2, <2>3
<1>4. hits \in Nat
  BY <1>1, SumIsNatural
<1>5. Lexical(query, r, profile) = Candidate(query, profile, items, Max({1, hits}))
  BY DEF Lexical
<1> HIDE DEF hits, items, keys
<1>6. Max({1, hits}) \in Nat \ {0}
  <2> DEFINE x == IF hits >= 1 THEN hits ELSE 1
  <2>1. x \in {1, hits} /\ \A y \in {1, hits} : x >= y
    BY <1>4
  <2> HIDE DEF x
  <2>2. \E z \in {1, hits} : \A y \in {1, hits} : z >= y
    BY <2>1
  <2>3. Max({1, hits}) \in {1, hits} /\ \A y \in {1, hits} : Max({1, hits}) >= y
    BY <2>2 DEF Max
  <2>4. Max({1, hits}) >= 1
    BY <2>3
  <2>5. QED
    BY <1>4, <2>3, <2>4
<1>7. QED
  BY <1>3, <1>5, <1>6, CandidateIsReadable

\* What is similar, in any order.
LEMMA InOrderIsSimilar ==
  ASSUME NEW keys, IsFiniteSet(keys), NEW location, NEW seq
  PROVE  SimilarItems(retrieval.query,
           {<<seq[n][1], FromCatalog(retrieval.query, location, n, "semantic_catalog")>>
              : n \in 1 .. Cardinality(keys)})
<1> DEFINE found == {<<seq[n][1], FromCatalog(retrieval.query, location, n, "semantic_catalog")>>
                       : n \in 1 .. Cardinality(keys)}
           f == [n \in 1 .. Cardinality(keys) |->
                   <<seq[n][1], FromCatalog(retrieval.query, location, n, "semantic_catalog")>>]
<1>1. Cardinality(keys) \in Nat
  BY FS_CardinalityType
<1>2. IsFiniteSet(DOMAIN f)
  BY <1>1, FS_Interval
<1>3. found = {f[n] : n \in DOMAIN f}
  OBVIOUS
<1> HIDE DEF f
<1>4. IsFiniteSet(found)
  BY <1>2, <1>3, ImageIsFinite
<1>5. \A pair \in found : pair[2].query = retrieval.query /\ pair[2].channel = "semantic_catalog"
                          /\ pair[2].rank \in Nat
  BY <1>1 DEF FromCatalog
<1>6. QED
  BY <1>4, <1>5 DEF SimilarItems

LEMMA SemanticIsReadable ==
  ASSUME NEW query, NEW found, SimilarItems(query, found), NEW r,
         \E pair \in found : pair[1] = r
  PROVE  ReadableCandidate(query,
           Semantic(query, r, {pair[2] : pair \in {p \in found : p[1] = r}}))
<1> DEFINE own == {p \in found : p[1] = r}
           items == {pair[2] : pair \in own}
           f == [p \in own |-> p[2]]
<1>1. IsFiniteSet(DOMAIN f)
  <2>1. own \subseteq found
    OBVIOUS
  <2>2. QED
    BY <2>1, FS_Subset DEF SimilarItems
<1>2. items = {f[p] : p \in DOMAIN f}
  OBVIOUS
<1>3. items # {} /\ \A item \in items : item.rank \in Nat /\ item.query = query
  BY DEF SimilarItems
<1> HIDE DEF f, items
<1>4. IsFiniteSet(items)
  BY <1>1, <1>2, ImageIsFinite
<1>5. Cardinality(items) \in Nat \ {0}
  BY <1>3, <1>4, FS_CardinalityType, FS_EmptySet
<1>6. QED
  BY <1>3, <1>5, CandidateIsReadable DEF Semantic, items

-----------------------------------------------------------------------------
(* A retrieval *)

LEMMA RetrievalStepKeeps ==
  ASSUME IndInv, Retrieve
  PROVE  RetrievalOK'
<1>1. UNCHANGED Stored
  BY DEF Retrieve, Ask, ReadRows, ReadEvidence, ReadSimilarQueries, ReadSimilarProfiles,
         ReadRepositories, FailRetrieval, TakeAnswer, UnchangedByRetrieval, tables, Stored
<1>2. TablesOK /\ RetrievalOK
  BY DEF IndInv
<1>3. DOMAIN NoRetrieval = {"phase", "query", "found", "pool"} /\ NoRetrieval.phase = "idle"
  BY DEF NoRetrieval
<1>4. DOMAIN retrieval = {"phase", "query", "found", "pool"}
  BY <1>2, <1>3 DEF RetrievalOK
<1>5. ASSUME retrieval' = NoRetrieval PROVE RetrievalOK'
  BY <1>3, <1>5 DEF RetrievalOK, RetrievalPhases
<1>6. ASSUME NEW q, Ask(q) PROVE RetrievalOK'
  <2>1. retrieval' = [NoRetrieval EXCEPT !.phase = "rows", !.query = q]
    BY <1>6 DEF Ask
  <2>2. DOMAIN retrieval' = DOMAIN NoRetrieval /\ retrieval'.phase = "rows"
    BY <1>3, <2>1
  <2>3. QED
    BY <2>2 DEF RetrievalOK, RetrievalPhases
<1>7. ASSUME ReadRows PROVE RetrievalOK'
  <2>1. PICK S \in SUBSET Stored :
          retrieval' = [retrieval EXCEPT !.phase = "evidence",
                                         !.found = [r \in S |-> rows[r].profile]]
    BY <1>7 DEF ReadRows
  <2>2. /\ DOMAIN retrieval' = DOMAIN NoRetrieval /\ retrieval'.phase = "evidence"
        /\ DOMAIN retrieval'.found \subseteq Stored
    BY <1>3, <1>4, <2>1
  <2>3. QED
    BY <1>1, <2>2 DEF RetrievalOK, RetrievalPhases
<1>8. ASSUME ReadEvidence PROVE RetrievalOK'
  <2> DEFINE found == retrieval.found
             matches == {r \in DOMAIN found : \/ Covers(retrieval.query, Text(found[r]))
                                             \/ EvidenceFor(retrieval.query, r) # {}}
             pool == [r \in matches |-> Lexical(retrieval.query, r, found[r])]
  <2>1. /\ retrieval' = [retrieval EXCEPT !.phase = "similar queries", !.found = {}, !.pool = pool]
        /\ DOMAIN found \subseteq Stored
    BY <1>2, <1>8 DEF ReadEvidence, RetrievalOK
  <2>2. \A r \in DOMAIN pool : r \in Stored' /\ ReadableCandidate(retrieval.query, pool[r])
    BY <1>1, <1>2, <2>1, LexicalIsReadable
  <2> HIDE DEF pool
  <2>3. /\ DOMAIN retrieval' = DOMAIN NoRetrieval /\ retrieval'.phase = "similar queries"
        /\ retrieval'.query = retrieval.query /\ retrieval'.pool = pool
    BY <1>3, <1>4, <2>1
  <2>4. QED
    BY <2>2, <2>3 DEF RetrievalOK, RetrievalPhases, ReadablePool
<1>9. ASSUME ReadSimilarQueries PROVE RetrievalOK'
  <2> DEFINE similar == {k \in Evidenced : k[2] \in queryVectors
                                           /\ Similar(retrieval.query, Words[k[2]])}
             found == {<<SetToSeq(similar)[n][1],
                         FromCatalog(retrieval.query, "description", n, "semantic_catalog")>>
                         : n \in 1 .. Cardinality(similar)}
  <2>1. retrieval' = [retrieval EXCEPT !.phase = "similar profiles", !.found = found]
    BY <1>9 DEF ReadSimilarQueries, InOrder
  <2>2. similar \in SUBSET Keys
    BY DEF Evidenced
  <2> HIDE DEF similar
  <2>3. SimilarItems(retrieval.query, found)
    <3> DEFINE seq == SetToSeq(similar)
    <3> HIDE DEF seq
    <3>1. IsFiniteSet(similar)
      BY <2>2, KeysAreFinite
    <3>2. SimilarItems(retrieval.query,
            {<<seq[n][1], FromCatalog(retrieval.query, "description", n, "semantic_catalog")>>
               : n \in 1 .. Cardinality(similar)})
      BY <3>1, InOrderIsSimilar
    <3>3. QED
      BY <3>2 DEF seq
  <2> HIDE DEF found
  <2>4. /\ DOMAIN retrieval' = DOMAIN NoRetrieval /\ retrieval'.phase = "similar profiles"
        /\ retrieval'.query = retrieval.query /\ retrieval'.pool = retrieval.pool
        /\ retrieval'.found = found
    BY <1>3, <1>4, <2>1
  <2>5. ReadablePool(retrieval.query, retrieval.pool)
    BY <1>2, <1>9 DEF ReadSimilarQueries, RetrievalOK
  <2>6. QED
    BY <1>1, <2>3, <2>4, <2>5 DEF RetrievalOK, RetrievalPhases, ReadablePool
<1>10. ASSUME ReadSimilarProfiles PROVE RetrievalOK'
  <2> DEFINE similar == {r \in Embedded : Similar(retrieval.query, Text(profileVectors[r]))}
             f == [r \in similar |-> <<r, "profile">>]
             places == {<<r, "profile">> : r \in similar}
             found == {<<SetToSeq(places)[n][1],
                         FromCatalog(retrieval.query, "metadata", n, "semantic_catalog")>>
                         : n \in 1 .. Cardinality(places)}
  <2>1. retrieval' = [retrieval EXCEPT !.phase = "repositories", !.found = @ \cup found]
    BY <1>10 DEF ReadSimilarProfiles, InOrder
  <2>2. IsFiniteSet(DOMAIN f)
    <3>1. similar \subseteq Repositories
      BY <1>2 DEF TablesOK
    <3>2. QED
      BY <3>1, CatalogAssumption, FS_Subset
  <2>3. places = {f[r] : r \in DOMAIN f}
    OBVIOUS
  <2> HIDE DEF f, places
  <2>4. SimilarItems(retrieval.query, found)
    <3> DEFINE seq == SetToSeq(places)
    <3> HIDE DEF seq
    <3>1. IsFiniteSet(places)
      BY <2>2, <2>3, ImageIsFinite
    <3>2. SimilarItems(retrieval.query,
            {<<seq[n][1], FromCatalog(retrieval.query, "metadata", n, "semantic_catalog")>>
               : n \in 1 .. Cardinality(places)})
      BY <3>1, InOrderIsSimilar
    <3>3. QED
      BY <3>2 DEF seq
  <2> HIDE DEF found
  <2>5. SimilarItems(retrieval.query, retrieval.found) /\ ReadablePool(retrieval.query, retrieval.pool)
    BY <1>2, <1>10 DEF ReadSimilarProfiles, RetrievalOK
  <2>6. SimilarItems(retrieval.query, retrieval.found \cup found)
    BY <2>4, <2>5, FS_Union DEF SimilarItems
  <2>7. /\ DOMAIN retrieval' = DOMAIN NoRetrieval /\ retrieval'.phase = "repositories"
        /\ retrieval'.query = retrieval.query /\ retrieval'.pool = retrieval.pool
        /\ retrieval'.found = retrieval.found \cup found
    BY <1>3, <1>4, <2>1
  <2>8. QED
    BY <1>1, <2>5, <2>6, <2>7 DEF RetrievalOK, RetrievalPhases, ReadablePool
<1>11. ASSUME ReadRepositories PROVE RetrievalOK'
  <2> DEFINE query == retrieval.query
             about == {pair[1] : pair \in retrieval.found} \cap Stored
             items(r) == {pair[2] : pair \in {p \in retrieval.found : p[1] = r}}
             second == [r \in about |-> Semantic(query, r, items(r))]
  <2>1. retrieval' = [retrieval EXCEPT !.phase = "answered", !.found = {},
                                       !.pool = MergePools(retrieval.pool, second)]
    BY <1>11 DEF ReadRepositories
  <2>2. SimilarItems(query, retrieval.found) /\ ReadablePool(query, retrieval.pool)
    BY <1>2, <1>11 DEF ReadRepositories, RetrievalOK
  <2>3. \A r \in about : r \in Stored /\ ReadableCandidate(query, second[r])
    BY <2>2, SemanticIsReadable
  <2> HIDE DEF second
  <2>4. ReadablePool(query, second)
    BY <2>3 DEF ReadablePool, second
  <2>5. ReadablePool(query, MergePools(retrieval.pool, second))
    BY <2>2, <2>4, MergedPoolIsReadable
  <2>6. /\ DOMAIN retrieval' = DOMAIN NoRetrieval /\ retrieval'.phase = "answered"
        /\ retrieval'.query = query /\ retrieval'.pool = MergePools(retrieval.pool, second)
    BY <1>3, <1>4, <2>1
  <2>7. QED
    BY <1>1, <2>5, <2>6 DEF RetrievalOK, RetrievalPhases, ReadablePool
<1>12. ASSUME FailRetrieval PROVE RetrievalOK'
  <2> DEFINE pool == IF retrieval.phase \in {"rows", "evidence"} THEN NoPool ELSE retrieval.pool
  <2>1. retrieval' = [retrieval EXCEPT !.phase = "answered", !.found = {}, !.pool = pool]
    BY <1>12 DEF FailRetrieval
  <2>2. /\ DOMAIN retrieval' = DOMAIN NoRetrieval /\ retrieval'.phase = "answered"
        /\ retrieval'.query = retrieval.query /\ retrieval'.pool = pool
    BY <1>3, <1>4, <2>1
  <2>3. ReadablePool(retrieval.query, pool)
    <3>1. CASE retrieval.phase \in {"rows", "evidence"}
      BY <3>1 DEF ReadablePool, NoPool
    <3>2. CASE retrieval.phase \notin {"rows", "evidence"}
      BY <1>2, <1>12, <3>2 DEF FailRetrieval, RetrievalOK, RetrievalPhases
    <3>3. QED
      BY <3>1, <3>2
  <2>4. QED
    BY <1>1, <2>2, <2>3 DEF RetrievalOK, RetrievalPhases, ReadablePool
<1>13. QED
  BY <1>5, <1>6, <1>7, <1>8, <1>9, <1>10, <1>11, <1>12 DEF Retrieve, TakeAnswer

LEMMA RetrieveKeeps ==
  ASSUME IndInv, Retrieve
  PROVE  IndInv'
<1>1. UNCHANGED <<provider, tables, ingestion, repair, lookup>>
  BY DEF Retrieve, Ask, ReadRows, ReadEvidence, ReadSimilarQueries, ReadSimilarProfiles,
         ReadRepositories, FailRetrieval, TakeAnswer, UnchangedByRetrieval
<1>2. TablesOK' /\ Grows /\ NothingDangles'
  BY <1>1, SameTables DEF IndInv
<1>3. MaintenanceOK'
  BY <1>1, <1>2, MaintenanceKept DEF IndInv
<1>4. QED
  BY <1>1, <1>2, <1>3, RetrievalStepKeeps, NoJob

-----------------------------------------------------------------------------
(* The theorems *)

LEMMA NextKeeps ==
  ASSUME IndInv, [Next]_vars
  PROVE  IndInv'
<1>1. CASE UNCHANGED vars
  <2>1. UNCHANGED <<provider, tables, ingestion, repair, lookup, retrieval>>
    BY <1>1 DEF vars
  <2>2. TablesOK' /\ Grows /\ NothingDangles'
    BY <2>1, SameTables DEF IndInv
  <2>3. MaintenanceOK' /\ RetrievalOK'
    BY <2>1, <2>2, RetrievalKept, MaintenanceKept DEF IndInv
  <2>4. QED
    BY <2>1, <2>2, <2>3, NoJob
<1>2. QED
  BY <1>1, IngestKeeps, MaintainKeeps, RetrieveKeeps DEF Next

LEMMA InitInv == Init => IndInv
<1> SUFFICES ASSUME Init PROVE IndInv
  OBVIOUS
<1>1. Stored = {} /\ Evidenced = {} /\ Embedded = {}
  BY DEF Init, Stored, Evidenced, Embedded, Absent
<1>2. TablesOK
  <2>1. ASSUME NEW r \in Repositories PROVE RowOK(r)
    <3>1. log[r] = <<>> /\ rows[r].revision = 0 /\ Len(log[r]) = 0 /\ DOMAIN log[r] = {}
      BY DEF Init, Absent
    <3>2. IsLog(log[r])
      BY <3>1 DEF IsLog
    <3>3. QED
      BY <1>1, <3>1, <3>2 DEF RowOK, KeepsNewer
  <2>2. QED
    BY <1>1, <2>1 DEF Init, TablesOK, EvidenceRecord, NoEvidence, Offered
<1>3. NothingDangles
  BY <1>1 DEF Init, NothingDangles
<1>4. \A i \in Ingestions : JobOK(i)
  <2>1. Idle.phase = "idle"
    BY DEF Idle
  <2> SUFFICES ASSUME NEW i \in Ingestions PROVE JobOK(i)
    OBVIOUS
  <2>2. ingestion[i] = Idle
    BY DEF Init
  <2>3. QED
    BY <2>1, <2>2 DEF JobOK, JobPhases, Storing, Profiled
<1>5. MaintenanceOK
  BY DEF Init, MaintenanceOK, TaskOK, AtRest
<1>6. RetrievalOK
  BY DEF Init, RetrievalOK, RetrievalPhases, NoRetrieval
<1>7. QED
  BY <1>2, <1>3, <1>4, <1>5, <1>6 DEF Init, IndInv

\* Every reachable state satisfies the inductive invariant: tables and jobs only
\* hold what was once true.
THEOREM Invariance ==
  Spec => []IndInv
BY InitInv, NextKeeps, PTL DEF Spec

\* Wherever an ingestion is cut off, evidence is about a stored repository, an
\* embedding is of a profile that was stored, and an embedded query has evidence
\* (persist_catalog_candidates, persist_semantic_catalog_documents).
THEOREM CatalogHoldsTogether ==
  Spec => []NothingDangles
<1>1. IndInv => NothingDangles
  BY DEF IndInv
<1>2. QED
  BY <1>1, Invariance, PTL

\* Ingestions may overwrite each other's hits but never count one that no search
\* offered, and a rank is that of a find (upsert_repository_search_evidence).
THEOREM NoHitIsInvented ==
  Spec => []HitsAreOffered
<1>1. IndInv => HitsAreOffered
  BY DEF IndInv, TablesOK, HitsAreOffered, Offered, Evidenced
<1>2. QED
  BY <1>1, Invariance, PTL

\* Every candidate of an answer is stored, has hits, evidence of the query that
\* was asked, and a rank for each channel of its evidence and only those
\* (retrieve_catalog_candidates, retrieve_semantic_catalog_candidates).
THEOREM RetrievalsCanBeShown ==
  Spec => []AnswersAreReadable
<1>1. IndInv => AnswersAreReadable
  BY DEF IndInv, RetrievalOK, ReadablePool, ReadableCandidate, AnswersAreReadable
<1>2. QED
  BY <1>1, Invariance, PTL

\* Whatever ingestions, scans, repairs and lookups do in between, a repair or a
\* lookup that stores a profile has seen all that was stored before, and none of
\* it is a later edit than its own (replace_repository_profile_if_unchanged,
\* get_or_insert_repository).
THEOREM MaintenanceLosesNothingNewer ==
  Spec => []NothingNewerIsLost
<1>1. IndInv => NothingNewerIsLost
  BY DEF IndInv, TablesOK, RowOK, KeepsNewer, NothingNewerIsLost
<1>2. QED
  BY <1>1, Invariance, PTL
=============================================================================
