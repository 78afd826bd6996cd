--------------------------- MODULE ExploreStageProofs ---------------------------
(****************************************************************************)
(* Theorems about ExploreStage for every set of lanes and queries, whatever *)
(* providers and the catalog answer, in whatever order and however late:    *)
(* that a coordinator takes its own answers, what makes an attempt count as *)
(* timed out or partial, that what a stage leaves can be stored and read by *)
(* the next, that a search is refused as unavailable only when nothing was  *)
(* found, that the order of the answers leaves no trace in what is shown,   *)
(* that an expansion loses nothing of what was found, and that scores stay  *)
(* within their bounds.                                                     *)
(****************************************************************************)
EXTENDS ExploreStage, FiniteSetTheorems, WellFoundedInduction, TLAPS

-----------------------------------------------------------------------------
(* The inductive invariant *)

\* What lanes may answer.
Asked == [lane : Lanes, query : Queries]
Results == UNION {{LaneResult(a, d) : d \in Discoveries(a.lane, a.query)} : a \in Asked}
ResultHits == UNION {{Hits(r)[n] : n \in DOMAIN r.list} : r \in Results}

\* The lanes that were taken, and those that work for this attempt.
Taken == {o.lane : o \in outcomes}
Own == {t \in threads : t.serial = serial}

Failed(o) == o.code # NoStatus

\* The lanes that are at work, have answered or were taken are different lanes,
\* and together all of them.
LanesAreApart ==
  /\ waiting = Cardinality(Lanes \ Taken)
  /\ Cardinality(outcomes) + Len(queue) + Cardinality(Own) = Cardinality(Lanes)
  /\ \A t \in Own : t.query = query /\ t.lane \notin Taken
  /\ \A t \in Own, u \in Own : t.lane = u.lane => t = u
  /\ \A n \in DOMAIN queue :
       /\ queue[n].lane \notin Taken
       /\ \A t \in Own : t.lane # queue[n].lane
       /\ \A m \in DOMAIN queue : queue[m].lane = queue[n].lane => m = n
  /\ partial <=> \E o \in outcomes : Failed(o)

LanesAreOver == partial <=> Taken # Lanes \/ \E o \in outcomes : Failed(o)

WorkOK ==
  /\ serial \in Nat /\ waiting \in Nat
  /\ IsFiniteSet(threads) /\ threads \subseteq Threads
  /\ \A t \in threads : t.serial <= serial
  /\ queue \in Seq(Results) /\ \A n \in DOMAIN queue : queue[n].query = query

\* What was taken explains what is known.
TakenOK ==
  /\ IsFiniteSet(outcomes) /\ IsFiniteSet(successes)
  /\ candidates \in Seq(ResultHits) /\ \A n \in DOMAIN candidates : candidates[n].query = query
  /\ Taken \subseteq Lanes
  /\ \A o \in outcomes, p \in outcomes : o.lane = p.lane => o = p
  /\ DOMAIN statuses = Sources
  /\ \A s \in Sources : statuses[s] = "timed_out" => warned
  /\ \A o \in outcomes : statuses[o.lane.source] # NoStatus
  /\ outcomes = {} => \A s \in Sources : statuses[s] = NoStatus
  /\ warned <=> \E o \in outcomes : o.code = "timed_out"
  /\ successes = {} => candidates = <<>>

LanesInv ==
  /\ WorkOK /\ TakenOK
  /\ waiting > 0 => pc = "retrieving" /\ LanesAreApart
  /\ pc = "retrieving" /\ waiting = 0 => LanesAreOver

\* Pools that can be stored.
PoolOK(pool) ==
  \A r \in DOMAIN pool :
    /\ ReadableCandidate(pool[r])
    /\ \A p \in pool[r].ranks : p = <<p[1], p[2]>>

Attempts == [query : Queries, attempt : 1 .. MaxAttempts, status : {"completed", "timed_out"}]

StateOK(state) ==
  /\ PoolOK(state.pool) /\ state.executed \in Seq(Queries)
  /\ state.attempts \in Seq(Attempts) /\ state.sources \in Nat

PoolsInv ==
  /\ pc \in Phases
  /\ PoolOK(local) /\ StateOK(execution) /\ StateOK(staged)
  /\ pc \notin {"attempt", "retrieving", "evaluating"} => staged = Nothing
  /\ pc = "planning" => execution = Nothing
  /\ staged.sources = 0 => staged.pool = NoPool
  /\ execution = Nothing /\ heard =>
       staged.sources > 0 \/ (pc = "retrieving" /\ successes # {})
  /\ pc = "failed" /\ execution # Nothing => execution.pool = NoPool /\ ~heard

\* What the run has executed and tried, this stage included.
Executed == execution.executed \o staged.executed
Tried == execution.attempts \o staged.attempts

Firsts(tried) == {k \in DOMAIN tried : tried[k].attempt = 1}
Settled(a) == a.status = "completed" \/ a.attempt = MaxAttempts

\* Attempts follow each other as attempts at one query, then at the next.
InOrder(tried) ==
  \A k \in DOMAIN tried :
    IF tried[k].attempt = 1 THEN k > 1 => Settled(tried[k - 1])
    ELSE /\ k > 1 /\ tried[k - 1].status = "timed_out"
         /\ tried[k].attempt = tried[k - 1].attempt + 1
         /\ tried[k].query = tried[k - 1].query

LastSettled(tried) == tried # <<>> => Settled(tried[Len(tried)])
LastIs(tried, a) == tried # <<>> /\ tried[Len(tried)] = a

PlanInv ==
  /\ plan \in Seq(Queries)
  /\ Len(Executed) <= Len(plan) /\ Executed = SubSeq(plan, 1, Len(Executed))
  /\ pc \in {"attempt", "retrieving"} =>
       /\ Len(Executed) < Len(plan) /\ pending = SubSeq(plan, Len(Executed) + 1, Len(plan))
       /\ attempt \in 1 .. MaxAttempts
  /\ pc = "retrieving" => query = Head(pending)
  /\ pc = "evaluating" => Len(Executed) > 0

AttemptsInv ==
  /\ InOrder(Tried)
  /\ \A n \in DOMAIN Tried : \E k \in DOMAIN plan : plan[k] = Tried[n].query
  /\ IF pc \in {"attempt", "retrieving"} /\ attempt > 1
     THEN /\ Cardinality(Firsts(Tried)) = Len(Executed) + 1
          /\ LastIs(Tried, [query |-> Head(pending), attempt |-> attempt - 1,
                            status |-> "timed_out"])
     ELSE Cardinality(Firsts(Tried)) = Len(Executed) /\ LastSettled(Tried)

Stages == [n \in DOMAIN reports |-> reports[n].executed]

ReportsInv ==
  /\ reports \in Seq({reports[n] : n \in DOMAIN reports})
  /\ Stages \in Seq(Seq(Queries))
  /\ execution.executed = FlattenSeq(Stages)

IInv == LanesInv /\ PoolsInv /\ PlanInv /\ AttemptsInv /\ ReportsInv

-----------------------------------------------------------------------------
(* Pools and hits *)

LEMMA LeastNatural ==
  ASSUME NEW S \in SUBSET Nat, S # {}
  PROVE  \E x \in S : \A y \in S : x <= y
<1>1. PICK x \in S : \A y \in S : <<y, x>> \notin OpToRel(<, Nat)
  BY NatLessThanWellFounded, WFMin, Zenon
<1>2. \A y \in S : ~(y < x)
  BY <1>1 DEF OpToRel
<1>3. QED
  BY <1>2

\* A result names its lane and query and says what became of it.
LEMMA ResultFacts ==
  ASSUME NEW r \in Results
  PROVE  /\ r.lane \in Lanes /\ r.query \in Queries
         /\ r.status # NoStatus
         /\ Succeeded(r) <=> r.status = "ok"
         /\ r.list \in Seq(Items)
         /\ ~Succeeded(r) => r.list = <<>>
         /\ \A n \in DOMAIN r.list : r.list[n].signal.query = r.query
<1>1. PICK a \in Asked : \E d \in Discoveries(a.lane, a.query) : r = LaneResult(a, d)
  BY DEF Results
<1>2. PICK d \in Discoveries(a.lane, a.query) : r = LaneResult(a, d)
  BY <1>1
<1>3. a.lane \in Lanes /\ a.query \in Queries
  BY DEF Asked
<1> DEFINE listings == Listings[<<a.lane, a.query>>]
<1>4. /\ listings \subseteq Seq(Items)
      /\ \A list \in listings : \A n \in DOMAIN list : list[n].signal.query = a.query
  BY <1>3, LanesAssumption
<1>5. /\ Discoveries(a.lane, a.query) =
           {[kind |-> "listed", list |-> list, status |-> "ok"] : list \in listings}
           \cup {[kind |-> "failed", list |-> <<>>, status |-> s] : s \in SourceFailures}
           \cup {[kind |-> "crashed", list |-> <<>>, status |-> "error"]}
  BY DEF Discoveries
<1> HIDE DEF listings
<1>6. \/ d.kind = "listed" /\ d.list \in listings /\ d.status = "ok"
      \/ d.kind = "failed" /\ d.list = <<>> /\ d.status \in SourceFailures
      \/ d.kind = "crashed" /\ d.list = <<>> /\ d.status = "error"
  BY <1>5
<1>7. CASE d.kind = "listed" /\ d.list \in listings /\ d.status = "ok"
  <2>1. /\ r.lane = a.lane /\ r.query = a.query /\ r.list = d.list
        /\ r.status = d.status /\ r.completed = "all"
    BY <1>2, <1>7 DEF LaneResult
  <2>2. r.list \in Seq(Items)
    BY <1>4, <1>7, <2>1
  <2>3. \A n \in DOMAIN r.list : r.list[n].signal.query = r.query
    BY <1>4, <1>7, <2>1
  <2>4. QED
    BY <1>3, <1>7, <2>1, <2>2, <2>3 DEF Succeeded, NoStatus
<1>8. CASE d.kind \in {"failed", "crashed"} /\ d.list = <<>> /\ d.status \in SourceFailures \cup {"error"}
  <2>1. d.status # "ok" /\ d.status # "none"
    BY <1>8, LanesAssumption
  <2>2. /\ r.lane = a.lane /\ r.query = a.query /\ r.list = d.list
        /\ r.status = d.status /\ r.completed # "all"
    BY <1>2, <1>8, <2>1 DEF LaneResult
  <2>3. r.list \in Seq(Items) /\ DOMAIN r.list = {}
    BY <1>8, <2>2
  <2>4. QED
    BY <1>3, <1>8, <2>1, <2>2, <2>3 DEF Succeeded, NoStatus
<1>9. QED
  BY <1>6, <1>7, <1>8

LEMMA HitsFacts ==
  ASSUME NEW r \in Results
  PROVE  /\ Hits(r) \in Seq(ResultHits) /\ Len(Hits(r)) = Len(r.list)
         /\ \A n \in DOMAIN Hits(r) : Hits(r)[n].query = r.query
<1>1. r.list \in Seq(Items)
  BY ResultFacts
<1>2. Hits(r) = [n \in 1 .. Len(r.list) |-> Hits(r)[n]]
  BY <1>1 DEF Hits
<1>3. \A n \in 1 .. Len(r.list) : Hits(r)[n] \in ResultHits /\ n \in DOMAIN r.list
  BY <1>1 DEF ResultHits
<1>4. \A n \in 1 .. Len(r.list) : Hits(r)[n].query = r.list[n].signal.query
  BY <1>1 DEF Hits
<1>5. DOMAIN Hits(r) = 1 .. Len(r.list) /\ Hits(r) \in Seq(ResultHits)
  BY <1>1, <1>2, <1>3
<1>6. QED
  BY <1>1, <1>3, <1>4, <1>5, ResultFacts

LEMMA HitFacts ==
  ASSUME NEW h \in ResultHits
  PROVE  h.query \in Queries /\ h.rank \in Nat \ {0}
<1>1. PICK r \in Results : \E n \in DOMAIN r.list : h = Hits(r)[n]
  BY DEF ResultHits
<1>2. PICK n \in DOMAIN r.list : h = Hits(r)[n]
  BY <1>1
<1>3. r.list \in Seq(Items) /\ r.query \in Queries /\ r.list[n].signal.query = r.query
  BY ResultFacts
<1>4. n \in Nat \ {0}
  BY <1>3
<1>5. QED
  BY <1>2, <1>3, <1>4 DEF Hits

\* What a hit says of a repository can be stored.
LEMMA FromHitIsReadable ==
  ASSUME NEW h \in ResultHits
  PROVE  PoolOK([r \in {h.repository} |-> FromHit(h)])
<1> DEFINE c == FromHit(h)
<1>1. h.query \in Queries /\ h.rank \in Nat \ {0}
  BY HitFacts
<1>2. Locate(h) \in DOMAIN LocationWeight
  BY DEF Locate, MetadataLocation, PathLocation, LocationWeight
<1>3. ReadableEvidence(Evidence(h))
  BY <1>1, <1>2 DEF ReadableEvidence, Evidence, Origins
<1>4. /\ c.queries = {h.query} /\ c.hits = 1 /\ c.origins = {"provider"}
      /\ c.ranks = {<<h.channel, h.rank>>} /\ c.evidence = {Evidence(h)}
  BY DEF FromHit
<1> HIDE DEF c
<1>5. ReadableCandidate(c)
  BY <1>1, <1>3, <1>4 DEF ReadableCandidate, Origins
<1>6. QED
  BY <1>4, <1>5 DEF PoolOK, c

LEMMA MergedIsReadable ==
  ASSUME NEW c, NEW d, ReadableCandidate(c), ReadableCandidate(d),
         \A p \in c.ranks \cup d.ranks : p = <<p[1], p[2]>>
  PROVE  /\ ReadableCandidate(MergeCandidates(c, d))
         /\ \A p \in MergeCandidates(c, d).ranks : p = <<p[1], p[2]>>
<1> DEFINE m == MergeCandidates(c, d)
<1>1. /\ m.queries = c.queries \cup d.queries /\ m.hits = c.hits + d.hits
      /\ m.origins = c.origins \cup d.origins /\ m.evidence = c.evidence \cup d.evidence
      /\ m.ranks = BestRanks(c.ranks, d.ranks)
  BY DEF MergeCandidates
<1> HIDE DEF m
<1>2. m.queries \subseteq Queries /\ m.hits \in Nat /\ m.origins \subseteq Origins
      /\ \A e \in m.evidence : ReadableEvidence(e)
  BY <1>1 DEF ReadableCandidate
<1>3. m.ranks \subseteq c.ranks \cup d.ranks
  BY <1>1 DEF BestRanks
<1>4. \A p \in m.ranks : p[2] \in Nat \ {0} /\ p = <<p[1], p[2]>>
  BY <1>3 DEF ReadableCandidate
<1>5. ASSUME NEW p \in m.ranks, NEW o \in m.ranks, o[1] = p[1]
      PROVE  o = p
  <2>1. p[2] <= o[2] /\ o[2] <= p[2]
    BY <1>1, <1>3, <1>5 DEF BestRanks
  <2>2. p[2] = o[2]
    BY <1>4, <2>1
  <2>3. QED
    BY <1>4, <1>5, <2>2
<1>6. QED
  BY <1>2, <1>4, <1>5 DEF ReadableCandidate, m

LEMMA MergePoolsReadable ==
  ASSUME NEW a, NEW b, PoolOK(a), PoolOK(b)
  PROVE  PoolOK(MergePools(a, b))
<1>1. DOMAIN MergePools(a, b) = DOMAIN a \cup DOMAIN b
  BY DEF MergePools
<1>2. ASSUME NEW r \in DOMAIN a \cup DOMAIN b
      PROVE  /\ ReadableCandidate(MergePools(a, b)[r])
             /\ \A p \in MergePools(a, b)[r].ranks : p = <<p[1], p[2]>>
  <2>1. CASE r \notin DOMAIN b
    <3>1. MergePools(a, b)[r] = a[r]
      BY <2>1 DEF MergePools
    <3>2. QED
      BY <2>1, <3>1 DEF PoolOK
  <2>2. CASE r \notin DOMAIN a
    <3>1. MergePools(a, b)[r] = b[r]
      BY <2>2 DEF MergePools
    <3>2. QED
      BY <2>2, <3>1 DEF PoolOK
  <2>3. CASE r \in DOMAIN a /\ r \in DOMAIN b
    <3>1. MergePools(a, b)[r] = MergeCandidates(a[r], b[r])
      BY <2>3 DEF MergePools
    <3>2. ReadableCandidate(a[r]) /\ ReadableCandidate(b[r])
          /\ \A p \in a[r].ranks \cup b[r].ranks : p = <<p[1], p[2]>>
      BY <2>3 DEF PoolOK
    <3>3. QED
      BY <3>1, <3>2, MergedIsReadable
  <2>4. QED
    BY <2>1, <2>2, <2>3
<1>3. QED
  BY <1>1, <1>2 DEF PoolOK

LEMMA NoPoolFacts ==
  /\ DOMAIN NoPool = {} /\ PoolOK(NoPool) /\ MergePools(NoPool, NoPool) = NoPool
BY DEF NoPool, PoolOK, MergePools

-----------------------------------------------------------------------------
(* The pool of the first hits, hit by hit *)

PoolStep(hits, f, n) ==
  IF n = 0 THEN NoPool
  ELSE MergePools(f[n - 1], [r \in {hits[n].repository} |-> FromHit(hits[n])])

Pools(hits) == CHOOSE f : f = [n \in 0 .. Len(hits) |-> PoolStep(hits, f, n)]

LEMMA PoolsExist ==
  ASSUME NEW hits, NEW N \in Nat
  PROVE  \E f : f = [n \in 0 .. N |-> PoolStep(hits, f, n)]
<1> DEFINE Upto(f, n) == f = [m \in 0 .. n |-> PoolStep(hits, f, m)]
           fails == {n \in Nat : ~\E f : Upto(f, n)}
<1>1. 0 \notin fails
  <2> DEFINE f == [m \in 0 .. 0 |-> NoPool]
  <2>1. Upto(f, 0)
    BY DEF PoolStep
  <2> HIDE DEF f, Upto
  <2>2. QED
    BY <2>1
<1>2. ASSUME NEW n \in Nat, NEW f, Upto(f, n)
      PROVE  \E g : Upto(g, n + 1)
  <2> DEFINE g == [m \in 0 .. n + 1 |-> IF m <= n THEN f[m] ELSE PoolStep(hits, f, m)]
  <2>1. ASSUME NEW m \in 0 .. n + 1
        PROVE  g[m] = PoolStep(hits, g, m)
    <3>1. m # 0 => g[m - 1] = f[m - 1]
      OBVIOUS
    <3>2. PoolStep(hits, g, m) = PoolStep(hits, f, m)
      BY <3>1 DEF PoolStep
    <3>3. m <= n => f[m] = PoolStep(hits, f, m)
      BY <1>2
    <3>4. QED
      BY <3>2, <3>3
  <2>2. g = [m \in 0 .. n + 1 |-> g[m]]
    OBVIOUS
  <2> HIDE DEF g
  <2>3. Upto(g, n + 1)
    BY <2>1, <2>2
  <2> HIDE DEF Upto
  <2>4. QED
    BY <2>3
<1>3. fails = {}
  <2> SUFFICES ASSUME fails # {} PROVE FALSE
    OBVIOUS
  <2>1. fails \in SUBSET Nat
    OBVIOUS
  <2> HIDE DEF fails
  <2>2. PICK n \in fails : \A m \in fails : n <= m
    BY <2>1, LeastNatural
  <2>3. n \in Nat /\ n # 0
    BY <1>1, <2>1, <2>2
  <2>4. n - 1 \in Nat /\ n - 1 \notin fails
    BY <2>1, <2>2, <2>3
  <2>5. PICK f : Upto(f, n - 1)
    BY <2>4 DEF fails
  <2>6. \E g : Upto(g, (n - 1) + 1)
    BY <1>2, <2>4, <2>5
  <2>7. (n - 1) + 1 = n
    BY <2>3
  <2>8. n \notin fails
    BY <2>6, <2>7 DEF fails
  <2>9. QED
    BY <2>2, <2>8
<1>4. QED
  BY <1>3

LEMMA PoolsOfHits ==
  ASSUME NEW hits, Len(hits) \in Nat
  PROVE  /\ MergeHits(hits) = Pools(hits)[Len(hits)]
         /\ Pools(hits)[0] = NoPool
         /\ \A n \in 1 .. Len(hits) :
              Pools(hits)[n] = MergePools(Pools(hits)[n - 1],
                                          [r \in {hits[n].repository} |-> FromHit(hits[n])])
<1>1. Pools(hits) = [n \in 0 .. Len(hits) |-> PoolStep(hits, Pools(hits), n)]
  BY PoolsExist DEF Pools
<1>2. MergeHits(hits) = Pools(hits)[Len(hits)]
  BY DEF MergeHits, Pools, PoolStep
<1>3. \A n \in 0 .. Len(hits) : Pools(hits)[n] = PoolStep(hits, Pools(hits), n)
  BY <1>1
<1>4. Pools(hits)[0] = NoPool
  <2>1. 0 \in 0 .. Len(hits)
    OBVIOUS
  <2>2. Pools(hits)[0] = PoolStep(hits, Pools(hits), 0)
    BY <1>3, <2>1
  <2>3. QED
    BY <2>2 DEF PoolStep
<1>5. ASSUME NEW n \in 1 .. Len(hits)
      PROVE  Pools(hits)[n] = MergePools(Pools(hits)[n - 1],
                                         [r \in {hits[n].repository} |-> FromHit(hits[n])])
  <2>1. n \in 0 .. Len(hits) /\ n # 0
    OBVIOUS
  <2>2. Pools(hits)[n] = PoolStep(hits, Pools(hits), n)
    BY <1>3, <2>1
  <2>3. QED
    BY <2>1, <2>2 DEF PoolStep
<1>6. QED
  BY <1>2, <1>4, <1>5

LEMMA MergeHitsReadable ==
  ASSUME NEW hits \in Seq(ResultHits)
  PROVE  PoolOK(MergeHits(hits))
<1> DEFINE odd == {n \in 0 .. Len(hits) : ~PoolOK(Pools(hits)[n])}
<1>1. odd = {}
  <2> SUFFICES ASSUME odd # {} PROVE FALSE
    OBVIOUS
  <2>1. odd \in SUBSET Nat
    OBVIOUS
  <2> HIDE DEF odd
  <2>2. PICK n \in odd : \A m \in odd : n <= m
    BY <2>1, LeastNatural
  <2>3. n \in 0 .. Len(hits) /\ ~PoolOK(Pools(hits)[n])
    BY DEF odd
  <2>4. n # 0
    BY <2>3, PoolsOfHits, NoPoolFacts
  <2>5. hits[n] \in ResultHits /\ n - 1 \in 0 .. Len(hits)
    BY <2>3, <2>4
  <2>6. PoolOK(Pools(hits)[n - 1])
    BY <2>2, <2>5 DEF odd
  <2>7. PoolOK([r \in {hits[n].repository} |-> FromHit(hits[n])])
    BY <2>5, FromHitIsReadable
  <2>8. Pools(hits)[n] = MergePools(Pools(hits)[n - 1],
                                    [r \in {hits[n].repository} |-> FromHit(hits[n])])
    <3>1. Len(hits) \in Nat /\ n \in 1 .. Len(hits)
      BY <2>3, <2>4
    <3>2. QED
      BY <3>1, PoolsOfHits
  <2>9. QED
    BY <2>3, <2>6, <2>7, <2>8, MergePoolsReadable
<1>2. Len(hits) \in 0 .. Len(hits)
  OBVIOUS
<1>3. PoolOK(Pools(hits)[Len(hits)])
  BY <1>1, <1>2
<1>4. QED
  BY <1>3, PoolsOfHits

LEMMA NothingIsMerged == MergeHits(<<>>) = NoPool
BY PoolsOfHits

-----------------------------------------------------------------------------
(* One sequence after the other *)

FlatStep(ss, f, i) == IF i = 1 THEN ss[i] ELSE f[i - 1] \o ss[i]

Flats(ss) == CHOOSE f : f = [i \in 1 .. Len(ss) |-> FlatStep(ss, f, i)]

LEMMA FlatsExist ==
  ASSUME NEW ss, NEW N \in Nat
  PROVE  \E f : f = [i \in 1 .. N |-> FlatStep(ss, f, i)]
<1> DEFINE Upto(f, n) == f = [i \in 1 .. n |-> FlatStep(ss, f, i)]
           fails == {n \in Nat : ~\E f : Upto(f, n)}
<1>1. 0 \notin fails
  <2> DEFINE f == [i \in 1 .. 0 |-> <<>>]
  <2>1. Upto(f, 0)
    OBVIOUS
  <2> HIDE DEF f, Upto
  <2>2. QED
    BY <2>1
<1>2. ASSUME NEW n \in Nat, NEW f, Upto(f, n)
      PROVE  \E g : Upto(g, n + 1)
  <2> DEFINE g == [i \in 1 .. n + 1 |-> IF i <= n THEN f[i] ELSE FlatStep(ss, f, i)]
  <2>1. ASSUME NEW i \in 1 .. n + 1
        PROVE  g[i] = FlatStep(ss, g, i)
    <3>1. i # 1 => g[i - 1] = f[i - 1]
      OBVIOUS
    <3>2. FlatStep(ss, g, i) = FlatStep(ss, f, i)
      BY <3>1 DEF FlatStep
    <3>3. i <= n => f[i] = FlatStep(ss, f, i)
      BY <1>2
    <3>4. QED
      BY <3>2, <3>3
  <2>2. g = [i \in 1 .. n + 1 |-> g[i]]
    OBVIOUS
  <2> HIDE DEF g
  <2>3. Upto(g, n + 1)
    BY <2>1, <2>2
  <2> HIDE DEF Upto
  <2>4. QED
    BY <2>3
<1>3. fails = {}
  <2> SUFFICES ASSUME fails # {} PROVE FALSE
    OBVIOUS
  <2>1. fails \in SUBSET Nat
    OBVIOUS
  <2> HIDE DEF fails
  <2>2. PICK n \in fails : \A m \in fails : n <= m
    BY <2>1, LeastNatural
  <2>3. n \in Nat /\ n # 0
    BY <1>1, <2>1, <2>2
  <2>4. n - 1 \in Nat /\ n - 1 \notin fails
    BY <2>1, <2>2, <2>3
  <2>5. PICK f : Upto(f, n - 1)
    BY <2>4 DEF fails
  <2>6. \E g : Upto(g, (n - 1) + 1)
    BY <1>2, <2>4, <2>5
  <2>7. (n - 1) + 1 = n
    BY <2>3
  <2>8. n \notin fails
    BY <2>6, <2>7 DEF fails
  <2>9. QED
    BY <2>2, <2>8
<1>4. QED
  BY <1>3

LEMMA FlatsOfSequence ==
  ASSUME NEW ss, Len(ss) \in Nat
  PROVE  /\ FlattenSeq(ss) = IF Len(ss) = 0 THEN ss ELSE Flats(ss)[Len(ss)]
         /\ \A i \in 1 .. Len(ss) : Flats(ss)[i] = FlatStep(ss, Flats(ss), i)
<1>1. Flats(ss) = [i \in 1 .. Len(ss) |-> FlatStep(ss, Flats(ss), i)]
  BY FlatsExist DEF Flats
<1>2. FlattenSeq(ss) = IF Len(ss) = 0 THEN ss ELSE Flats(ss)[Len(ss)]
  BY DEF FlattenSeq, Flats, FlatStep
<1>3. \A i \in 1 .. Len(ss) : Flats(ss)[i] = FlatStep(ss, Flats(ss), i)
  BY <1>1
<1>4. QED
  BY <1>2, <1>3

LEMMA FlattenAppend ==
  ASSUME NEW S, NEW ss \in Seq(Seq(S)), NEW s \in Seq(S)
  PROVE  FlattenSeq(Append(ss, s)) = FlattenSeq(ss) \o s
<1> DEFINE tt == Append(ss, s)
           F == Flats(ss)
           G == Flats(tt)
           L == Len(ss)
<1>1. L \in Nat /\ tt \in Seq(Seq(S)) /\ Len(tt) = L + 1 /\ tt[L + 1] = s
      /\ \A i \in 1 .. L : tt[i] = ss[i]
  OBVIOUS
<1>2. /\ FlattenSeq(ss) = IF L = 0 THEN ss ELSE F[L]
      /\ \A i \in 1 .. L : F[i] = FlatStep(ss, F, i)
  BY <1>1, FlatsOfSequence
<1>3. /\ FlattenSeq(tt) = G[L + 1]
      /\ \A i \in 1 .. L + 1 : G[i] = FlatStep(tt, G, i)
  <2>1. Len(tt) \in Nat /\ Len(tt) # 0
    BY <1>1
  <2> HIDE DEF tt
  <2>2. QED
    BY <1>1, <2>1, FlatsOfSequence
<1> HIDE DEF tt, F, G
<1> DEFINE odd == {i \in 1 .. L : G[i] # F[i]}
<1>4. odd = {}
  <2> SUFFICES ASSUME odd # {} PROVE FALSE
    OBVIOUS
  <2>1. odd \in SUBSET Nat
    BY <1>1
  <2> HIDE DEF odd
  <2>2. PICK n \in odd : \A m \in odd : n <= m
    BY <2>1, LeastNatural
  <2>3. n \in 1 .. L /\ n \in 1 .. L + 1 /\ G[n] # F[n]
    BY <1>1 DEF odd
  <2>4. tt[n] = ss[n] /\ G[n] = FlatStep(tt, G, n) /\ F[n] = FlatStep(ss, F, n)
    BY <1>1, <1>2, <1>3, <2>3
  <2>5. n # 1
    BY <2>3, <2>4 DEF FlatStep
  <2>6. n - 1 \in 1 .. L
    BY <1>1, <2>3, <2>5
  <2>7. n - 1 \notin odd
    BY <1>1, <2>2, <2>3, <2>6
  <2>8. G[n - 1] = F[n - 1]
    BY <2>6, <2>7 DEF odd
  <2>9. QED
    BY <2>3, <2>4, <2>5, <2>8 DEF FlatStep
<1>5. G[L + 1] = FlatStep(tt, G, L + 1)
  BY <1>1, <1>3
<1>6. CASE L = 0
  <2>1. ss = <<>> /\ <<>> \o s = s
    BY <1>1, <1>6
  <2>2. G[L + 1] = s
    BY <1>1, <1>5, <1>6 DEF FlatStep
  <2>3. QED
    BY <1>2, <1>3, <1>6, <2>1, <2>2 DEF tt
<1>7. CASE L # 0
  <2>1. L \in 1 .. L /\ L + 1 # 1
    BY <1>1, <1>7
  <2>2. G[L] = F[L]
    BY <1>4, <2>1
  <2>3. G[L + 1] = G[L] \o s
    BY <1>1, <1>5, <2>1 DEF FlatStep
  <2>4. QED
    BY <1>2, <1>3, <1>7, <2>2, <2>3 DEF tt
<1>8. QED
  BY <1>6, <1>7

-----------------------------------------------------------------------------
(* The lanes of an attempt *)

LEMMA OwnIsFinite ==
  ASSUME WorkOK
  PROVE  IsFiniteSet(Own) /\ Cardinality(Own) \in Nat
<1>1. Own \in SUBSET threads
  BY DEF Own
<1>2. QED
  BY <1>1, FS_Subset, FS_CardinalityType DEF WorkOK

\* One thread is started for each lane.
Started(n, q) == {[serial |-> n, lane |-> l, query |-> q] : l \in Lanes}

LEMMA StartedLanes ==
  ASSUME NEW n, NEW q
  PROVE  IsFiniteSet(Started(n, q)) /\ Cardinality(Started(n, q)) = Cardinality(Lanes)
<1> DEFINE f == [l \in Lanes |-> [serial |-> n, lane |-> l, query |-> q]]
<1>1. f \in Injection(Lanes, Started(n, q))
  <2>1. f \in [Lanes -> Started(n, q)]
    BY DEF Started
  <2>2. \A l \in Lanes, m \in Lanes : f[l] = f[m] => l = m
    <3>1. \A l \in Lanes : f[l].lane = l
      OBVIOUS
    <3> HIDE DEF f
    <3>2. QED
      BY <3>1
  <2> HIDE DEF f
  <2>3. QED
    BY <2>1, <2>2 DEF Injection, IsInjective
<1>2. f \in Surjection(Lanes, Started(n, q))
  BY DEF Surjection, Started
<1> HIDE DEF f
<1>3. ExistsBijection(Lanes, Started(n, q))
  BY <1>1, <1>2 DEF ExistsBijection, Bijection
<1>4. QED
  BY <1>3, FS_Bijection, LanesAssumption

LEMMA LanesHoldAtFirst ==
  ASSUME Init
  PROVE  LanesInv
<1> USE DEF Init, LanesInit
<1>1. WorkOK
  BY FS_EmptySet DEF WorkOK
<1>2. Taken = {}
  BY DEF Taken
<1>3. TakenOK
  BY <1>2, FS_EmptySet DEF TakenOK, NoStatus
<1>4. QED
  BY <1>1, <1>3 DEF LanesInv

LEMMA StartKeepsLanes ==
  ASSUME LanesInv, NEW q \in Queries, StartLanes(q), pc' = "retrieving"
  PROVE  LanesInv'
<1> USE DEF StartLanes
<1>1. /\ serial \in Nat /\ IsFiniteSet(threads) /\ threads \subseteq Threads
      /\ \A t \in threads : t.serial <= serial
  BY DEF LanesInv, WorkOK
<1>2. Cardinality(Lanes) \in Nat \ {0}
  BY LanesAssumption, FS_CardinalityType, FS_EmptySet
<1>3. threads' = threads \cup Started(serial + 1, q)
  BY DEF Started
<1>4. Started(serial + 1, q) \subseteq Threads
  BY <1>1 DEF Started, Threads
<1>5. \A t \in Started(serial + 1, q) : t.serial = serial + 1 /\ t.query = q
  BY DEF Started
<1>6. \A t \in Started(serial + 1, q), u \in Started(serial + 1, q) : t.lane = u.lane => t = u
  BY DEF Started
<1>7. IsFiniteSet(threads')
  <2>1. IsFiniteSet(Started(serial + 1, q))
    BY StartedLanes
  <2>2. QED
    BY <1>1, <1>3, <2>1, FS_Union, ZenonT(40)
<1>8. WorkOK'
  <2>1. serial' \in Nat /\ waiting' \in Nat /\ queue' = <<>>
    BY <1>1, <1>2
  <2>2. threads' \subseteq Threads
    BY <1>1, <1>3, <1>4
  <2>3. \A t \in threads' : t.serial <= serial'
    BY <1>1, <1>3, <1>5 DEF Threads
  <2>4. queue' \in Seq(Results) /\ DOMAIN queue' = {}
    BY <2>1
  <2>5. QED
    BY <1>7, <2>1, <2>2, <2>3, <2>4 DEF WorkOK
<1>9. Taken' = {}
  BY DEF Taken
<1>10. TakenOK'
  BY <1>9, FS_EmptySet DEF TakenOK, NoStatus
<1>11. Own' = Started(serial + 1, q)
  BY <1>1, <1>3, <1>5 DEF Own, Threads
<1>12. LanesAreApart'
  <2>1. (Lanes \ Taken)' = Lanes
    BY <1>9
  <2>2. waiting' = Cardinality((Lanes \ Taken)')
    BY <2>1
  <2>3. Cardinality(outcomes') + Len(queue') + Cardinality(Own') = Cardinality(Lanes)
    BY <1>2, <1>11, StartedLanes, FS_EmptySet
  <2>4. \A t \in Own' : t.query = query' /\ t.lane \notin Taken'
    BY <1>5, <1>9, <1>11
  <2>5. \A t \in Own', u \in Own' : t.lane = u.lane => t = u
    BY <1>6, <1>11
  <2>6. QED
    BY <2>2, <2>3, <2>4, <2>5 DEF LanesAreApart
<1>13. QED
  BY <1>2, <1>8, <1>10, <1>12 DEF LanesInv

LEMMA AnAnswerIsAResult ==
  ASSUME NEW t \in Threads, NEW d \in Discoveries(t.lane, t.query)
  PROVE  /\ LaneResult(t, d) \in Results
         /\ LaneResult(t, d).lane = t.lane /\ LaneResult(t, d).query = t.query
<1> DEFINE a == [lane |-> t.lane, query |-> t.query]
<1>1. a \in Asked /\ a.lane = t.lane /\ a.query = t.query
  BY DEF Asked, Threads
<1>2. LaneResult(t, d) = LaneResult(a, d)
  BY <1>1 DEF LaneResult
<1>3. LaneResult(a, d) \in Results
  BY <1>1 DEF Results
<1>4. LaneResult(t, d).lane = t.lane /\ LaneResult(t, d).query = t.query
  BY DEF LaneResult
<1>5. QED
  BY <1>2, <1>3, <1>4

LEMMA AnswersKeepLanes ==
  ASSUME LanesInv, NEW t \in threads, LaneAnswers(t), pc' = pc
  PROVE  LanesInv'
<1> USE DEF LaneAnswers
<1>1. WorkOK /\ TakenOK
  BY DEF LanesInv
<1>2. IsFiniteSet(threads') /\ threads' \subseteq threads
  BY <1>1, FS_RemoveElement DEF WorkOK
<1>3. Taken' = Taken /\ TakenOK'
  BY <1>1 DEF TakenOK, Taken
<1>4. CASE Abandoned(t)
  <2>1. queue' = queue
    BY <1>4
  <2>2. WorkOK'
    BY <1>1, <1>2, <2>1 DEF WorkOK
  <2>3. ASSUME waiting > 0
        PROVE  LanesAreApart'
    <3>1. Own' = Own
      BY <1>4, <2>3 DEF Own, Abandoned
    <3>2. LanesAreApart
      BY <2>3 DEF LanesInv
    <3>3. QED
      BY <1>3, <2>1, <3>1, <3>2 DEF LanesAreApart
  <2>4. QED
    BY <1>3, <2>2, <2>3 DEF LanesInv, LanesAreOver
<1>5. CASE ~Abandoned(t)
  <2>1. waiting > 0 /\ t \in Own
    BY <1>1, <1>5 DEF Abandoned, Own, WorkOK
  <2>2. LanesAreApart /\ pc = "retrieving"
    BY <2>1 DEF LanesInv
  <2>3. PICK d \in Discoveries(t.lane, t.query) : queue' = Append(queue, LaneResult(t, d))
    BY <1>5
  <2> DEFINE r == LaneResult(t, d)
  <2>4. r \in Results /\ r.lane = t.lane /\ r.query = query
    BY <1>1, <2>1, <2>2, AnAnswerIsAResult DEF WorkOK, LanesAreApart
  <2> HIDE DEF r
  <2>5. /\ queue' \in Seq(Results) /\ Len(queue') = Len(queue) + 1
        /\ DOMAIN queue' = DOMAIN queue \cup {Len(queue) + 1}
        /\ Len(queue) + 1 \notin DOMAIN queue
        /\ queue'[Len(queue) + 1] = r /\ \A n \in DOMAIN queue : queue'[n] = queue[n]
    BY <1>1, <2>3, <2>4 DEF WorkOK, r
  <2>6. WorkOK'
    BY <1>1, <1>2, <2>4, <2>5 DEF WorkOK
  <2>7. Own' = Own \ {t}
    BY DEF Own
  <2>8. Cardinality(Own') = Cardinality(Own) - 1
    BY <1>1, <2>1, <2>7, OwnIsFinite, FS_RemoveElement
  <2>9. Cardinality(outcomes) \in Nat /\ Len(queue) \in Nat /\ Cardinality(Own) \in Nat
    BY <1>1, OwnIsFinite, FS_CardinalityType DEF TakenOK, WorkOK
  <2>10. Cardinality(outcomes') + Len(queue') + Cardinality(Own') = Cardinality(Lanes)
    BY <2>2, <2>5, <2>8, <2>9 DEF LanesAreApart
  <2>11. ASSUME NEW n \in DOMAIN queue'
         PROVE  /\ queue'[n].lane \notin Taken
                /\ \A u \in Own' : u.lane # queue'[n].lane
                /\ \A m \in DOMAIN queue' : queue'[m].lane = queue'[n].lane => m = n
    BY <2>1, <2>2, <2>4, <2>5, <2>7 DEF LanesAreApart
  <2>12. LanesAreApart'
    BY <1>3, <2>2, <2>7, <2>10, <2>11 DEF LanesAreApart
  <2>13. QED
    BY <1>3, <2>1, <2>2, <2>6, <2>12 DEF LanesInv
<1>6. QED
  BY <1>4, <1>5

LEMMA OutcomeFacts ==
  ASSUME NEW r \in Results
  PROVE  /\ LaneOutcome(r).lane = r.lane
         /\ Failed(LaneOutcome(r)) <=> ~Succeeded(r)
         /\ LaneOutcome(r).code = "timed_out" <=> r.status = "timed_out"
<1>1. LaneOutcome(r).code = IF Succeeded(r) THEN NoStatus ELSE r.status
  BY DEF LaneOutcome
<1>2. LaneOutcome(r).lane = r.lane
  BY DEF LaneOutcome
<1>3. r.status # NoStatus /\ (Succeeded(r) <=> r.status = "ok")
  BY ResultFacts
<1>4. QED
  BY <1>1, <1>2, <1>3 DEF Failed, NoStatus

\* Taking an answer: its lane was waited for, and is not any more.
LEMMA TakeKeepsTaken ==
  ASSUME WorkOK, TakenOK, Take, LanesAreApart
  PROVE  /\ Head(queue) \in Results /\ Head(queue).lane \in Lanes \ Taken
         /\ Taken' = Taken \cup {Head(queue).lane}
         /\ LaneOutcome(Head(queue)) \notin outcomes
         /\ TakenOK'
<1> DEFINE r == Head(queue)
           o == LaneOutcome(r)
<1>1. r \in Results /\ r = queue[1] /\ 1 \in DOMAIN queue
  BY DEF WorkOK, Take
<1>2. r.query = query /\ r.lane \notin Taken
  BY <1>1 DEF WorkOK, LanesAreApart
<1>3. /\ o.lane = r.lane /\ (Failed(o) <=> ~Succeeded(r))
      /\ (o.code = "timed_out" <=> r.status = "timed_out")
  BY <1>1, OutcomeFacts
<1>4. /\ r.lane \in Lanes /\ r.status # NoStatus /\ (Succeeded(r) <=> r.status = "ok")
      /\ (~Succeeded(r) => r.list = <<>>) /\ r.list \in Seq(Items)
  BY <1>1, ResultFacts
<1>5. /\ Hits(r) \in Seq(ResultHits) /\ Len(Hits(r)) = Len(r.list)
      /\ \A n \in DOMAIN Hits(r) : Hits(r)[n].query = query
  BY <1>1, <1>2, HitsFacts
<1>6. /\ candidates' = candidates \o Hits(r)
      /\ statuses' = [statuses EXCEPT ![r.lane.source] = MergeStatus(@, r.status)]
      /\ successes' = IF Succeeded(r) THEN successes \cup {r.lane.source} ELSE successes
      /\ warned' = (warned \/ r.status = "timed_out")
      /\ outcomes' = outcomes \cup {o} /\ query' = query
  BY DEF Take
<1> HIDE DEF r, o
<1>7. o \notin outcomes /\ Taken' = Taken \cup {r.lane}
  BY <1>2, <1>3, <1>6 DEF Taken
<1>8. IsFiniteSet(outcomes') /\ IsFiniteSet(successes')
  BY <1>6, FS_AddElement DEF TakenOK
<1>9. candidates' \in Seq(ResultHits) /\ \A n \in DOMAIN candidates' : candidates'[n].query = query
  BY <1>5, <1>6 DEF TakenOK
<1>10. \A p \in outcomes : p.lane \in Taken
  BY DEF Taken
<1>11. \A p \in outcomes', u \in outcomes' : p.lane = u.lane => p = u
  BY <1>2, <1>3, <1>6, <1>10 DEF TakenOK
<1>12. r.lane.source \in Sources /\ DOMAIN statuses = Sources
  BY <1>4 DEF Sources, TakenOK
<1>13. /\ DOMAIN statuses' = Sources
       /\ \A s \in Sources : s # r.lane.source => statuses'[s] = statuses[s]
       /\ statuses'[r.lane.source] = MergeStatus(statuses[r.lane.source], r.status)
  BY <1>6, <1>12
<1>14. \A s \in Sources : statuses'[s] = "timed_out" => warned'
  BY <1>6, <1>12, <1>13 DEF MergeStatus, TakenOK
<1>15. statuses'[r.lane.source] # NoStatus
  BY <1>4, <1>13 DEF MergeStatus, NoStatus
<1>16. \A p \in outcomes' : statuses'[p.lane.source] # NoStatus
  <2> SUFFICES ASSUME NEW p \in outcomes' PROVE statuses'[p.lane.source] # NoStatus
    OBVIOUS
  <2>1. p \in outcomes => p.lane.source \in Sources /\ statuses[p.lane.source] # NoStatus
    BY <1>10 DEF TakenOK, Sources
  <2>2. QED
    BY <1>3, <1>6, <1>13, <1>15, <2>1
<1>17. warned' <=> \E p \in outcomes' : p.code = "timed_out"
  BY <1>3, <1>6 DEF TakenOK
<1>18. successes' = {} => candidates' = <<>>
  <2> SUFFICES ASSUME successes' = {} PROVE candidates' = <<>>
    OBVIOUS
  <2>1. ~Succeeded(r) /\ candidates = <<>>
    BY <1>6 DEF TakenOK
  <2>2. Hits(r) = <<>>
    BY <1>4, <1>5, <2>1
  <2>3. QED
    BY <1>6, <2>1, <2>2
<1>19. Taken' \subseteq Lanes
  BY <1>4, <1>7 DEF TakenOK
<1>20. outcomes' # {}
  BY <1>6
<1>21. TakenOK'
  BY <1>6, <1>8, <1>9, <1>11, <1>13, <1>14, <1>16, <1>17, <1>18, <1>19, <1>20 DEF TakenOK
<1>22. QED
  BY <1>1, <1>2, <1>4, <1>7, <1>21 DEF r, o

LEMMA TakeKeepsLanes ==
  ASSUME LanesInv, Take, pc' = pc
  PROVE  LanesInv'
<1> DEFINE r == Head(queue)
           o == LaneOutcome(r)
<1>1. WorkOK /\ TakenOK /\ LanesAreApart /\ waiting > 0 /\ pc = "retrieving"
  BY DEF LanesInv, Take
<1>2. /\ r \in Results /\ r.lane \in Lanes \ Taken /\ Taken' = Taken \cup {r.lane}
      /\ o \notin outcomes /\ TakenOK'
  BY <1>1, TakeKeepsTaken
<1>3. Failed(o) <=> ~Succeeded(r)
  BY <1>2, OutcomeFacts
<1>4. /\ queue' = Tail(queue) /\ waiting' = waiting - 1 /\ outcomes' = outcomes \cup {o}
      /\ partial' = (partial \/ ~Succeeded(r))
      /\ UNCHANGED <<serial, query, threads>>
  BY DEF Take
<1>5. /\ r = queue[1] /\ 1 \in DOMAIN queue /\ queue' \in Seq(Results)
      /\ Len(queue') = Len(queue) - 1
      /\ \A n \in DOMAIN queue' : n + 1 \in DOMAIN queue /\ n + 1 # 1 /\ queue'[n] = queue[n + 1]
  BY <1>1, <1>4 DEF WorkOK, Take
<1> HIDE DEF r, o
<1>6. WorkOK'
  <2>1. \A n \in DOMAIN queue' : queue'[n].query = query
    BY <1>1, <1>5 DEF WorkOK
  <2>2. waiting' \in Nat
    BY <1>1, <1>4 DEF WorkOK
  <2>3. QED
    BY <1>1, <1>4, <1>5, <2>1, <2>2 DEF WorkOK
<1>7. Own' = Own
  BY <1>4 DEF Own
<1>8. IsFiniteSet(Lanes \ Taken) /\ IsFiniteSet(Lanes \ Taken')
  BY LanesAssumption, FS_Difference
<1>9. waiting' = Cardinality(Lanes \ Taken')
  <2>1. Lanes \ Taken' = (Lanes \ Taken) \ {r.lane}
    BY <1>2
  <2>2. Cardinality((Lanes \ Taken) \ {r.lane}) = Cardinality(Lanes \ Taken) - 1
    BY <1>2, <1>8, FS_RemoveElement
  <2>3. QED
    BY <1>1, <1>4, <2>1, <2>2 DEF LanesAreApart
<1>10. Cardinality(outcomes') + Len(queue') + Cardinality(Own') = Cardinality(Lanes)
  <2>1. Cardinality(outcomes') = Cardinality(outcomes) + 1 /\ Cardinality(outcomes) \in Nat
    BY <1>1, <1>2, <1>4, FS_AddElement, FS_CardinalityType DEF TakenOK
  <2>2. Len(queue) \in Nat /\ Cardinality(Own) \in Nat
    BY <1>1, OwnIsFinite DEF WorkOK
  <2>3. QED
    BY <1>1, <1>5, <1>7, <2>1, <2>2 DEF LanesAreApart
<1>11. \A t \in Own : t.query = query /\ t.lane \notin Taken'
  BY <1>1, <1>2, <1>5 DEF LanesAreApart
<1>12. ASSUME NEW n \in DOMAIN queue'
       PROVE  /\ queue'[n].lane \notin Taken'
              /\ \A t \in Own : t.lane # queue'[n].lane
              /\ \A m \in DOMAIN queue' : queue'[m].lane = queue'[n].lane => m = n
  <2>1. queue'[n].lane \notin Taken /\ queue'[n].lane # r.lane
    BY <1>1, <1>5 DEF LanesAreApart
  <2>2. \A t \in Own : t.lane # queue'[n].lane
    BY <1>1, <1>5 DEF LanesAreApart
  <2>3. ASSUME NEW m \in DOMAIN queue', queue'[m].lane = queue'[n].lane
        PROVE  m = n
    <3>1. m + 1 = n + 1
      BY <1>1, <1>5, <2>3 DEF LanesAreApart
    <3>2. m \in Nat /\ n \in Nat
      BY <1>5
    <3>3. QED
      BY <3>1, <3>2
  <2>4. QED
    BY <1>2, <2>1, <2>2, <2>3
<1>13. partial' <=> \E p \in outcomes' : Failed(p)
  BY <1>1, <1>3, <1>4 DEF LanesAreApart
<1>14. \A t \in Own, u \in Own : t.lane = u.lane => t = u
  BY <1>1 DEF LanesAreApart
<1>15. LanesAreApart'
  BY <1>4, <1>7, <1>9, <1>10, <1>11, <1>12, <1>13, <1>14 DEF LanesAreApart
<1>16. waiting' = 0 => LanesAreOver'
  <2> SUFFICES ASSUME waiting' = 0 PROVE LanesAreOver'
    OBVIOUS
  <2>1. Lanes \ Taken' = {}
    BY <1>8, <1>9, FS_EmptySet
  <2>2. Taken' = Lanes
    BY <1>2, <2>1 DEF TakenOK
  <2>3. QED
    BY <1>13, <2>2 DEF LanesAreOver
<1>17. QED
  BY <1>1, <1>2, <1>6, <1>15, <1>16 DEF LanesInv

LEMMA GivingUpKeepsLanes ==
  ASSUME LanesInv, GiveUp, pc' = pc
  PROVE  LanesInv'
<1> USE DEF GiveUp
<1>1. WorkOK /\ TakenOK /\ LanesAreApart /\ waiting > 0
  BY DEF LanesInv
<1>2. Taken' = Taken /\ WorkOK' /\ TakenOK'
  BY <1>1 DEF WorkOK, TakenOK, Taken
<1>3. Taken # Lanes
  <2>1. Cardinality(Lanes \ Taken) > 0
    BY <1>1 DEF LanesAreApart
  <2>2. Lanes \ Taken # {}
    BY <2>1, FS_EmptySet
  <2>3. QED
    BY <2>2
<1>4. LanesAreOver'
  BY <1>2, <1>3 DEF LanesAreOver
<1>5. QED
  BY <1>2, <1>4 DEF LanesInv

LEMMA EndKeepsLanes ==
  ASSUME LanesInv, LanesDone, waiting = 0, pc' # "retrieving"
  PROVE  LanesInv'
<1> USE DEF LanesDone
<1>1. WorkOK /\ TakenOK
  BY DEF LanesInv
<1>2. WorkOK'
  <2>1. queue' \in Seq(Results) /\ DOMAIN queue' = {}
    OBVIOUS
  <2>2. QED
    BY <1>1, <2>1 DEF WorkOK
<1>3. Taken' = {}
  BY DEF Taken
<1>4. TakenOK'
  BY <1>3, FS_EmptySet DEF TakenOK, NoStatus
<1>5. QED
  BY <1>2, <1>4 DEF LanesInv

LEMMA OthersKeepLanes ==
  ASSUME LanesInv, UNCHANGED <<serial, query, threads, queue, waiting, candidates, statuses,
                               successes, partial, warned, outcomes>>,
         \/ pc' = pc
         \/ pc # "retrieving" /\ pc' # "retrieving"
  PROVE  LanesInv'
<1>1. /\ WorkOK' = WorkOK /\ TakenOK' = TakenOK
      /\ LanesAreApart' = LanesAreApart /\ LanesAreOver' = LanesAreOver
  BY DEF WorkOK, TakenOK, LanesAreApart, LanesAreOver, Taken, Own
<1>2. QED
  BY <1>1 DEF LanesInv

-----------------------------------------------------------------------------
(* Attempts, one after the other *)

LEMMA OneMore ==
  ASSUME NEW S, NEW s \in Seq(S), NEW x \in S
  PROVE  /\ Append(s, x) \in Seq(S) /\ Len(Append(s, x)) = Len(s) + 1
         /\ DOMAIN Append(s, x) = DOMAIN s \cup {Len(s) + 1}
         /\ Len(s) + 1 \notin DOMAIN s
         /\ \A k \in DOMAIN s : Append(s, x)[k] = s[k]
         /\ Append(s, x)[Len(s) + 1] = x
OBVIOUS

LEMMA AppendOfConcat ==
  ASSUME NEW S, NEW r \in Seq(S), NEW s \in Seq(S), NEW x \in S
  PROVE  /\ r \o Append(s, x) = Append(r \o s, x)
         /\ r \o (s \o <<x>>) = Append(r \o s, x)
         /\ s \o <<x>> = Append(s, x)
<1>1. s \o <<x>> = Append(s, x)
  OBVIOUS
<1>2. r \o Append(s, x) = Append(r \o s, x)
  OBVIOUS
<1>3. QED
  BY <1>1, <1>2

LEMMA EmptyConcat ==
  ASSUME NEW S, NEW s \in Seq(S)
  PROVE  s \o <<>> = s /\ <<>> \o s = s
OBVIOUS

LEMMA FirstsAreFinite ==
  ASSUME NEW tried \in Seq(Attempts)
  PROVE  IsFiniteSet(Firsts(tried)) /\ Cardinality(Firsts(tried)) \in Nat
<1>1. DOMAIN tried = 1 .. Len(tried) /\ Len(tried) \in Nat
  OBVIOUS
<1>2. IsFiniteSet(1 .. Len(tried))
  BY <1>1, FS_Interval
<1>3. Firsts(tried) \in SUBSET (1 .. Len(tried))
  BY <1>1 DEF Firsts
<1>4. QED
  BY <1>2, <1>3, FS_Subset, FS_CardinalityType

LEMMA OneMoreAttempt ==
  ASSUME NEW tried \in Seq(Attempts), NEW a \in Attempts, InOrder(tried),
         IF a.attempt = 1 THEN LastSettled(tried)
         ELSE LastIs(tried, [query |-> a.query, attempt |-> a.attempt - 1,
                             status |-> "timed_out"])
  PROVE  /\ InOrder(Append(tried, a))
         /\ Cardinality(Firsts(Append(tried, a))) =
              Cardinality(Firsts(tried)) + (IF a.attempt = 1 THEN 1 ELSE 0)
         /\ Append(tried, a) # <<>> /\ Append(tried, a)[Len(Append(tried, a))] = a
<1> DEFINE more == Append(tried, a)
           last == Len(tried) + 1
<1>1. /\ more \in Seq(Attempts) /\ Len(more) = last
      /\ DOMAIN more = DOMAIN tried \cup {last} /\ last \notin DOMAIN tried
      /\ \A k \in DOMAIN tried : more[k] = tried[k]
      /\ more[last] = a
  BY OneMore
<1>2. /\ Len(tried) \in Nat /\ DOMAIN tried = 1 .. Len(tried)
      /\ (tried # <<>> => Len(tried) \in DOMAIN tried)
  OBVIOUS
<1>3. a.attempt \in Nat
  BY StageAssumption DEF Attempts
<1> HIDE DEF more
<1>4. ASSUME NEW k \in DOMAIN more
      PROVE  IF more[k].attempt = 1 THEN k > 1 => Settled(more[k - 1])
             ELSE /\ k > 1 /\ more[k - 1].status = "timed_out"
                  /\ more[k].attempt = more[k - 1].attempt + 1
                  /\ more[k].query = more[k - 1].query
  <2>1. CASE k \in DOMAIN tried
    <3>1. k > 1 => k - 1 \in DOMAIN tried
      BY <1>2, <2>1
    <3>2. more[k] = tried[k] /\ (k > 1 => more[k - 1] = tried[k - 1])
      BY <1>1, <2>1, <3>1
    <3>3. QED
      BY <2>1, <3>2 DEF InOrder
  <2>2. CASE k = last
    <3>1. more[k] = a /\ (k > 1 => tried # <<>> /\ more[k - 1] = tried[Len(tried)])
      BY <1>1, <1>2, <2>2
    <3>2. CASE a.attempt = 1
      BY <3>1, <3>2 DEF LastSettled
    <3>3. CASE a.attempt # 1
      <4>1. tried # <<>> /\ tried[Len(tried)] =
              [query |-> a.query, attempt |-> a.attempt - 1, status |-> "timed_out"]
        BY <3>3 DEF LastIs
      <4>2. k > 1
        BY <1>2, <2>2, <4>1
      <4>3. more[k - 1] = [query |-> a.query, attempt |-> a.attempt - 1,
                           status |-> "timed_out"]
        BY <3>1, <4>1, <4>2
      <4>4. QED
        BY <1>3, <3>1, <3>3, <4>2, <4>3
    <3>4. QED
      BY <3>2, <3>3
  <2>3. QED
    BY <1>1, <2>1, <2>2
<1>5. InOrder(more)
  BY <1>4 DEF InOrder
<1>6. Firsts(more) = IF a.attempt = 1 THEN Firsts(tried) \cup {last} ELSE Firsts(tried)
  BY <1>1 DEF Firsts
<1>7. last \notin Firsts(tried)
  BY <1>1 DEF Firsts
<1>8. Cardinality(Firsts(tried) \cup {last}) = Cardinality(Firsts(tried)) + 1
  BY <1>7, FirstsAreFinite, FS_AddElement
<1>9. Cardinality(Firsts(more)) = Cardinality(Firsts(tried)) + (IF a.attempt = 1 THEN 1 ELSE 0)
  BY <1>6, <1>8, FirstsAreFinite
<1>10. more # <<>> /\ more[Len(more)] = a
  BY <1>1, <1>2
<1>11. QED
  BY <1>5, <1>9, <1>10 DEF more

-----------------------------------------------------------------------------
(* States of an execution *)

LEMMA NothingIsOK ==
  /\ StateOK(Nothing) /\ Nothing.executed = <<>> /\ Nothing.attempts = <<>>
  /\ Nothing.sources = 0 /\ Nothing.pool = NoPool
BY NoPoolFacts DEF StateOK, Nothing

LEMMA JoinedIsOK ==
  ASSUME NEW a, NEW b, StateOK(a), StateOK(b)
  PROVE  /\ StateOK(Joined(a, b))
         /\ Joined(a, b).executed = a.executed \o b.executed
         /\ Joined(a, b).attempts = a.attempts \o b.attempts
         /\ Joined(a, b).sources = a.sources + b.sources
         /\ Joined(a, b).pool = MergePools(a.pool, b.pool)
<1> DEFINE j == Joined(a, b)
<1>1. /\ j.executed = a.executed \o b.executed /\ j.attempts = a.attempts \o b.attempts
      /\ j.sources = a.sources + b.sources /\ j.pool = MergePools(a.pool, b.pool)
  BY DEF Joined
<1> HIDE DEF j
<1>2. PoolOK(j.pool)
  BY <1>1, MergePoolsReadable DEF StateOK
<1>3. j.executed \in Seq(Queries) /\ j.attempts \in Seq(Attempts) /\ j.sources \in Nat
  BY <1>1 DEF StateOK
<1>4. StateOK(j)
  BY <1>2, <1>3 DEF StateOK
<1>5. QED
  BY <1>1, <1>4 DEF j

\* A state whose queries are the first of the plan can be stored.
LEMMA StateIsReadable ==
  ASSUME NEW state, StateOK(state), plan \in Seq(Queries),
         Len(state.executed) <= Len(plan),
         state.executed = SubSeq(plan, 1, Len(state.executed)),
         \A n \in DOMAIN state.attempts : \E k \in DOMAIN plan : plan[k] = state.attempts[n].query
  PROVE  Readable(state)
<1>1. state.executed \in Seq(Queries) /\ state.attempts \in Seq(Attempts)
  BY DEF StateOK
<1>2. SubSeq(state.executed, 1, Len(state.executed)) = state.executed
  BY <1>1
<1>3. IsPrefix(state.executed, plan)
  BY <1>2 DEF IsPrefix
<1>4. \A r \in DOMAIN state.pool : ReadableCandidate(state.pool[r])
  BY DEF StateOK, PoolOK
<1>5. ASSUME NEW n \in DOMAIN state.attempts
      PROVE  ReadableAttempt(state.attempts[n])
  <2>1. state.attempts[n] \in Attempts
    BY <1>1
  <2>2. QED
    BY <2>1, StageAssumption DEF Attempts, ReadableAttempt
<1>6. QED
  BY <1>3, <1>4, <1>5 DEF Readable

LEMMA Settling ==
  ASSUME PoolsInv, PlanInv, AttemptsInv
  PROVE  /\ Executed \in Seq(Queries) /\ Tried \in Seq(Attempts)
         /\ Readable(Joined(execution, staged))
         /\ execution = Nothing => /\ Readable(staged) /\ Executed = staged.executed
                                   /\ Tried = staged.attempts
         /\ staged = Nothing => Executed = execution.executed /\ Tried = execution.attempts
<1>1. StateOK(execution) /\ StateOK(staged) /\ StateOK(Joined(execution, staged))
      /\ Joined(execution, staged).executed = Executed
      /\ Joined(execution, staged).attempts = Tried
  BY JoinedIsOK DEF PoolsInv, Executed, Tried
<1>2. Executed \in Seq(Queries) /\ Tried \in Seq(Attempts)
  BY <1>1 DEF StateOK
<1>3. Readable(Joined(execution, staged))
  BY <1>1, StateIsReadable DEF PlanInv, AttemptsInv
<1>4. ASSUME execution = Nothing
      PROVE  Executed = staged.executed /\ Tried = staged.attempts
  <2>1. staged.executed \in Seq(Queries) /\ staged.attempts \in Seq(Attempts)
    BY <1>1 DEF StateOK
  <2>2. QED
    BY <1>4, <2>1, NothingIsOK, EmptyConcat DEF Executed, Tried
<1>5. execution = Nothing => Readable(staged)
  BY <1>1, <1>4, StateIsReadable DEF PlanInv, AttemptsInv
<1>6. ASSUME staged = Nothing
      PROVE  Executed = execution.executed /\ Tried = execution.attempts
  <2>1. execution.executed \in Seq(Queries) /\ execution.attempts \in Seq(Attempts)
    BY <1>1 DEF StateOK
  <2>2. QED
    BY <1>6, <2>1, NothingIsOK, EmptyConcat DEF Executed, Tried
<1>7. QED
  BY <1>2, <1>3, <1>4, <1>5, <1>6

\* The current query is the next of the plan.
LEMMA NextOfThePlan ==
  ASSUME PoolsInv, PlanInv, AttemptsInv, pc \in {"attempt", "retrieving"}
  PROVE  /\ Len(Executed) \in Nat /\ Len(Executed) + 1 \in DOMAIN plan
         /\ Head(pending) = plan[Len(Executed) + 1] /\ Head(pending) \in Queries
         /\ Len(pending) = Len(plan) - Len(Executed)
         /\ Tail(pending) = SubSeq(plan, Len(Executed) + 2, Len(plan))
<1> DEFINE n == Len(Executed)
<1>1. n \in Nat /\ plan \in Seq(Queries) /\ n < Len(plan)
      /\ pending = SubSeq(plan, n + 1, Len(plan))
  BY Settling DEF PlanInv
<1> HIDE DEF n
<1>2. n + 1 \in DOMAIN plan /\ plan[n + 1] \in Queries
  BY <1>1
<1>3. Len(pending) = Len(plan) - n /\ pending \in Seq(Queries)
      /\ \A i \in 1 .. Len(plan) - n : pending[i] = plan[n + i]
  BY <1>1
<1>4. Head(pending) = plan[n + 1]
  BY <1>1, <1>3
<1>5. Tail(pending) = SubSeq(plan, n + 2, Len(plan))
  BY <1>1, <1>3
<1>6. QED
  BY <1>1, <1>2, <1>3, <1>4, <1>5 DEF n

-----------------------------------------------------------------------------
(* The stages of a run *)

StageInv == PoolsInv /\ PlanInv /\ AttemptsInv /\ ReportsInv

LEMMA StageHoldsAtFirst ==
  ASSUME Init
  PROVE  StageInv
<1> USE DEF Init
<1>1. ~heard
  BY DEF LanesInit
<1>2. Executed = <<>> /\ Tried = <<>>
  BY NothingIsOK DEF Executed, Tried
<1>3. PoolsInv
  BY <1>1, NothingIsOK, NoPoolFacts DEF PoolsInv, Phases
<1>4. PlanInv
  BY <1>2 DEF PlanInv
<1>5. AttemptsInv
  <2>1. Firsts(<<>>) = {}
    BY DEF Firsts
  <2>2. Cardinality(Firsts(<<>>)) = 0
    BY <2>1, FS_EmptySet
  <2>3. InOrder(<<>>) /\ LastSettled(<<>>)
    BY DEF InOrder, LastSettled
  <2>4. QED
    BY <1>2, <2>2, <2>3 DEF AttemptsInv
<1>6. ReportsInv
  <2>1. Stages = <<>>
    BY DEF Stages
  <2>2. FlattenSeq(<<>>) = <<>>
    BY DEF FlattenSeq
  <2>3. QED
    BY <2>1, <2>2, NothingIsOK DEF ReportsInv
<1>7. QED
  BY <1>3, <1>4, <1>5, <1>6 DEF StageInv

\* What only lanes and the clock do leaves the stage as it is.
LEMMA OthersKeepStage ==
  ASSUME StageInv, UNCHANGED stageVars, query' = query,
         \/ UNCHANGED <<heard, successes>>
         \/ pc = "retrieving" /\ (heard' => heard \/ successes' # {})
                              /\ (successes # {} => successes' # {})
  PROVE  StageInv'
<1>1. /\ UNCHANGED <<pc, plan, pending, attempt, local, execution, staged, answer, reports>>
  BY DEF stageVars
<1>2. PoolsInv'
  BY <1>1 DEF StageInv, PoolsInv
<1>3. PlanInv' = PlanInv /\ AttemptsInv' = AttemptsInv /\ ReportsInv' = ReportsInv
  BY <1>1 DEF PlanInv, AttemptsInv, ReportsInv, Executed, Tried, Stages
<1>4. QED
  BY <1>2, <1>3 DEF StageInv

LEMMA TakeIsHeard ==
  ASSUME LanesInv, Take
  PROVE  (heard' => heard \/ successes' # {}) /\ (successes # {} => successes' # {})
<1>1. Head(queue) \in Results
  BY DEF LanesInv, WorkOK, Take
<1>2. Head(queue).status = "ok" => Succeeded(Head(queue))
  BY <1>1, ResultFacts
<1>3. QED
  BY <1>2 DEF Take

\* A stage begins with all of what is left of the plan.
LEMMA BeginningKeepsStage ==
  ASSUME StageInv, NEW p \in Seq(Queries), BeginStage(SubSeq(p, Len(Executed) + 1, Len(p))),
         pc \in {"planning", "answered"}, plan' = p, Len(Executed) < Len(p),
         Executed = SubSeq(p, 1, Len(Executed)),
         \A n \in DOMAIN Tried : \E k \in DOMAIN p : p[k] = Tried[n].query,
         UNCHANGED <<local, execution, reports, heard, successes>>
  PROVE  StageInv'
<1> USE DEF BeginStage
<1>1. PoolsInv /\ PlanInv /\ AttemptsInv /\ ReportsInv
  BY DEF StageInv
<1>2. staged = Nothing /\ staged' = Nothing /\ pc' = "attempt" /\ attempt' = 1
  BY <1>1 DEF PoolsInv
<1>3. Executed' = Executed /\ Tried' = Tried
  BY <1>2 DEF Executed, Tried
<1>4. PoolsInv'
  BY <1>1, <1>2 DEF PoolsInv, Phases
<1>5. PlanInv'
  BY <1>1, <1>2, <1>3, Settling, StageAssumption DEF PlanInv
<1>6. AttemptsInv'
  BY <1>1, <1>2, <1>3 DEF AttemptsInv
<1>7. ReportsInv'
  BY <1>1 DEF ReportsInv, Stages
<1>8. QED
  BY <1>4, <1>5, <1>6, <1>7 DEF StageInv

LEMMA PlanKeepsStage ==
  ASSUME StageInv, Plan
  PROVE  StageInv'
<1>1. PoolsInv /\ PlanInv /\ AttemptsInv /\ ReportsInv
  BY DEF StageInv
<1>2. /\ pc = "planning" /\ execution = Nothing /\ staged = Nothing
      /\ UNCHANGED <<local, execution, reports, heard, successes>>
  BY <1>1 DEF Plan, laneVars, PoolsInv
<1>3. Executed = <<>> /\ Tried = <<>>
  BY <1>1, <1>2, Settling, NothingIsOK
<1>4. PICK p \in Plans :
        /\ plan' = p
        /\ IF p = <<>> THEN pc' = "answered" /\ UNCHANGED <<pending, attempt, staged>>
           ELSE BeginStage(p)
  BY DEF Plan
<1>5. p \in Seq(Queries)
  BY StageAssumption
<1>6. CASE p = <<>>
  <2>1. Executed' = <<>> /\ Tried' = <<>>
    BY <1>2, <1>3, <1>4, <1>6 DEF Executed, Tried
  <2>2. PoolsInv'
    BY <1>1, <1>2, <1>4, <1>6, NothingIsOK DEF PoolsInv, Phases
  <2>3. PlanInv'
    BY <1>4, <1>6, <2>1 DEF PlanInv
  <2>4. AttemptsInv'
    BY <1>1, <1>2, <1>3, <1>4, <1>6, <2>1 DEF AttemptsInv
  <2>5. ReportsInv'
    BY <1>1, <1>2 DEF ReportsInv, Stages
  <2>6. QED
    BY <2>2, <2>3, <2>4, <2>5 DEF StageInv
<1>7. CASE p # <<>>
  <2>1. SubSeq(p, 1, Len(p)) = p /\ SubSeq(p, 1, 0) = <<>> /\ 0 < Len(p)
    BY <1>5, <1>7
  <2>2. BeginStage(SubSeq(p, Len(Executed) + 1, Len(p)))
    <3>1. Len(Executed) + 1 = 1
      BY <1>3
    <3>2. QED
      BY <1>4, <1>7, <2>1, <3>1
  <2>3. QED
    BY <1>2, <1>3, <1>4, <1>5, <2>1, <2>2, BeginningKeepsStage
<1>8. QED
  BY <1>6, <1>7

LEMMA ExpandKeepsStage ==
  ASSUME StageInv, Expand
  PROVE  StageInv'
<1>1. PoolsInv /\ PlanInv /\ AttemptsInv /\ ReportsInv
  BY DEF StageInv
<1>2. /\ pc = "answered" /\ staged = Nothing /\ plan' = plan
      /\ UNCHANGED <<local, execution, reports, heard, successes>>
  BY <1>1 DEF Expand, laneVars, PoolsInv
<1>3. Executed = execution.executed /\ Executed \in Seq(Queries) /\ plan \in Seq(Queries)
  BY <1>1, <1>2, Settling DEF PlanInv
<1>4. /\ BeginStage(SubSeq(plan, Len(Executed) + 1, Len(plan)))
      /\ SubSeq(plan, Len(Executed) + 1, Len(plan)) # <<>>
  BY <1>3 DEF Expand, PendingQueries
<1>5. Len(Executed) < Len(plan)
  <2> DEFINE n == Len(Executed)
  <2>1. n \in Nat /\ Len(plan) \in Nat /\ plan \in Seq(Queries)
    BY <1>3
  <2>2. SubSeq(plan, n + 1, Len(plan)) # <<>>
    BY <1>4
  <2> HIDE DEF n
  <2>3. n < Len(plan)
    BY <2>1, <2>2
  <2>4. QED
    BY <2>3 DEF n
<1>6. QED
  BY <1>1, <1>2, <1>3, <1>4, <1>5, BeginningKeepsStage DEF PlanInv, AttemptsInv

LEMMA FailedPlanningKeepsStage ==
  ASSUME StageInv, PlanningFails
  PROVE  StageInv'
<1> USE DEF PlanningFails
<1>1. PoolsInv /\ PlanInv /\ AttemptsInv /\ ReportsInv
  BY DEF StageInv
<1>2. UNCHANGED <<heard, successes>>
  BY DEF laneVars
<1>3. Executed' = Executed /\ Tried' = Tried
  BY DEF Executed, Tried
<1>4. PoolsInv'
  BY <1>1, <1>2 DEF PoolsInv, Phases
<1>5. PlanInv' /\ AttemptsInv'
  BY <1>1, <1>3 DEF PlanInv, AttemptsInv
<1>6. ReportsInv'
  BY <1>1 DEF ReportsInv, Stages
<1>7. QED
  BY <1>4, <1>5, <1>6 DEF StageInv

LEMMA BeginAttemptKeepsStage ==
  ASSUME StageInv, BeginAttempt
  PROVE  StageInv'
<1> USE DEF BeginAttempt
<1>1. PoolsInv /\ PlanInv /\ AttemptsInv /\ ReportsInv
  BY DEF StageInv
<1>2. Head(pending) \in Queries
  BY <1>1, NextOfThePlan
<1>3. PoolOK(local')
  BY <1>2, StageAssumption DEF PoolOK
<1>4. Executed' = Executed /\ Tried' = Tried
  BY DEF Executed, Tried
<1>5. heard' = heard /\ query' = Head(pending)
  BY DEF StartLanes
<1>6. PoolsInv'
  BY <1>1, <1>3, <1>5 DEF PoolsInv, Phases
<1>7. PlanInv'
  BY <1>1, <1>4, <1>5 DEF PlanInv
<1>8. AttemptsInv'
  BY <1>1, <1>4 DEF AttemptsInv
<1>9. ReportsInv'
  BY <1>1 DEF ReportsInv, Stages
<1>10. QED
  BY <1>6, <1>7, <1>8, <1>9 DEF StageInv

\* What an attempt comes to, as the sequence keeps it.
Attempted == [query |-> query, attempt |-> attempt,
              status |-> IF AttemptTimedOut THEN "timed_out" ELSE "completed"]

LEMMA OutcomeIsOK ==
  ASSUME LanesInv, StageInv, pc = "retrieving"
  PROVE  /\ Attempted \in Attempts /\ query = Head(pending)
         /\ StateOK(AttemptOutcome) /\ AttemptOutcome.executed = <<>>
         /\ AttemptOutcome.attempts = <<Attempted>>
         /\ AttemptOutcome.sources = 0 => AttemptOutcome.pool = NoPool /\ successes = {}
<1>1. PoolsInv /\ PlanInv /\ AttemptsInv /\ TakenOK
  BY DEF StageInv, LanesInv
<1>2. query = Head(pending) /\ query \in Queries /\ attempt \in 1 .. MaxAttempts
  BY <1>1, NextOfThePlan DEF PlanInv
<1>3. Attempted \in Attempts
  BY <1>2 DEF Attempted, Attempts
<1>4. /\ AttemptOutcome.executed = <<>> /\ AttemptOutcome.attempts = <<Attempted>>
      /\ AttemptOutcome.pool = MergePools(local, MergeHits(candidates))
      /\ AttemptOutcome.sources = Cardinality(successes) + (IF local # NoPool THEN 1 ELSE 0)
  BY DEF AttemptOutcome, Attempted
<1>5. Cardinality(successes) \in Nat /\ (Cardinality(successes) = 0 => successes = {})
  BY <1>1, FS_CardinalityType, FS_EmptySet DEF TakenOK
<1>6. PoolOK(AttemptOutcome.pool)
  BY <1>1, <1>4, MergeHitsReadable, MergePoolsReadable DEF TakenOK, PoolsInv
<1>7. AttemptOutcome.attempts \in Seq(Attempts) /\ AttemptOutcome.executed \in Seq(Queries)
  BY <1>3, <1>4
<1>8. AttemptOutcome.sources \in Nat
  BY <1>4, <1>5
<1>9. StateOK(AttemptOutcome)
  BY <1>6, <1>7, <1>8 DEF StateOK
<1>10. ASSUME AttemptOutcome.sources = 0
       PROVE  AttemptOutcome.pool = NoPool /\ successes = {}
  <2>1. successes = {} /\ local = NoPool
    BY <1>4, <1>5, <1>10
  <2>2. candidates = <<>>
    BY <1>1, <2>1 DEF TakenOK
  <2>3. QED
    BY <1>4, <2>1, <2>2, NothingIsMerged, NoPoolFacts
<1>11. QED
  BY <1>2, <1>3, <1>4, <1>9, <1>10

\* An attempt that ends adds itself to what was tried and, unless its query is
\* tried again, its query to what was executed.
LEMMA EndingAttempt ==
  ASSUME LanesInv, StageInv, EndAttempt
  PROVE  /\ Attempted \in Attempts
         /\ StateOK(staged') /\ (staged'.sources = 0 => staged'.pool = NoPool)
         /\ staged'.sources = 0 => staged.sources = 0 /\ successes = {}
         /\ Tried' = Append(Tried, Attempted)
         /\ Executed' = IF Retries THEN Executed ELSE Append(Executed, query)
<1> DEFINE more == Joined(staged, AttemptOutcome)
           next == [more EXCEPT !.executed = Append(@, query)]
<1>1. PoolsInv /\ PlanInv /\ AttemptsInv /\ pc = "retrieving"
  BY DEF StageInv, EndAttempt
<1>2. /\ Attempted \in Attempts /\ query = Head(pending) /\ query \in Queries
      /\ StateOK(AttemptOutcome) /\ AttemptOutcome.executed = <<>>
      /\ AttemptOutcome.attempts = <<Attempted>>
      /\ AttemptOutcome.sources = 0 => AttemptOutcome.pool = NoPool /\ successes = {}
  BY <1>1, OutcomeIsOK, NextOfThePlan
<1>3. StateOK(staged) /\ StateOK(execution) /\ (staged.sources = 0 => staged.pool = NoPool)
  BY <1>1 DEF PoolsInv
<1>4. /\ StateOK(more) /\ more.executed = staged.executed \o <<>>
      /\ more.attempts = staged.attempts \o <<Attempted>>
      /\ more.sources = staged.sources + AttemptOutcome.sources
      /\ more.pool = MergePools(staged.pool, AttemptOutcome.pool)
  BY <1>2, <1>3, JoinedIsOK
<1>5. /\ staged.executed \in Seq(Queries) /\ staged.attempts \in Seq(Attempts)
      /\ execution.executed \in Seq(Queries) /\ execution.attempts \in Seq(Attempts)
      /\ staged.sources \in Nat /\ AttemptOutcome.sources \in Nat
  BY <1>2, <1>3 DEF StateOK
<1>6. more.executed = staged.executed
  BY <1>4, <1>5, EmptyConcat
<1>7. /\ next.executed = Append(staged.executed, query) /\ next.attempts = more.attempts
      /\ next.sources = more.sources /\ next.pool = more.pool
  BY <1>6 DEF Joined
<1>8. /\ staged' = IF Retries THEN more ELSE next
      /\ execution' = execution
  BY DEF EndAttempt
<1> HIDE DEF more, next
<1>9. Append(staged.executed, query) \in Seq(Queries)
  BY <1>2, <1>5
<1>10. StateOK(staged')
  BY <1>4, <1>7, <1>8, <1>9 DEF StateOK
<1>11. staged'.sources = more.sources /\ staged'.pool = more.pool
       /\ staged'.attempts = more.attempts
  BY <1>7, <1>8
<1>12. more.sources = 0 => /\ staged.sources = 0 /\ successes = {}
                           /\ more.pool = NoPool
  BY <1>2, <1>3, <1>4, <1>5, NoPoolFacts
<1>13. Tried' = Append(Tried, Attempted)
  <2>1. staged'.attempts = staged.attempts \o <<Attempted>>
    BY <1>4, <1>11
  <2>2. execution.attempts \in Seq(Attempts) /\ staged.attempts \in Seq(Attempts)
    BY <1>5
  <2>3. Attempted \in Attempts
    BY <1>2
  <2>4. execution.attempts \o (staged.attempts \o <<Attempted>>)
          = Append(execution.attempts \o staged.attempts, Attempted)
    <3> DEFINE r == execution.attempts
               t == staged.attempts
               x == Attempted
    <3>1. r \in Seq(Attempts) /\ t \in Seq(Attempts) /\ x \in Attempts
      BY <2>2, <2>3
    <3> HIDE DEF r, t, x
    <3>2. r \o (t \o <<x>>) = Append(r \o t, x)
      BY <3>1, AppendOfConcat
    <3>3. QED
      BY <3>2 DEF r, t, x
  <2>5. QED
    BY <1>8, <2>1, <2>4 DEF Tried
<1>14. Executed' = IF Retries THEN Executed ELSE Append(Executed, query)
  <2>1. CASE Retries
    BY <1>6, <1>8, <2>1 DEF Executed
  <2>2. CASE ~Retries
    <3>1. staged'.executed = Append(staged.executed, query)
      BY <1>7, <1>8, <2>2
    <3>2. execution.executed \o Append(staged.executed, query)
            = Append(execution.executed \o staged.executed, query)
      <4>1. execution.executed \in Seq(Queries) /\ staged.executed \in Seq(Queries)
        BY <1>5
      <4>2. query \in Queries
        BY <1>2
      <4> DEFINE r == execution.executed
                 t == staged.executed
      <4>3. r \in Seq(Queries) /\ t \in Seq(Queries)
        BY <4>1
      <4> HIDE DEF r, t
      <4>4. r \o Append(t, query) = Append(r \o t, query)
        BY <4>2, <4>3, AppendOfConcat
      <4>5. QED
        BY <4>4 DEF r, t
    <3>3. QED
      BY <1>8, <2>2, <3>1, <3>2 DEF Executed
  <2>3. QED
    BY <2>1, <2>2
<1>15. QED
  BY <1>2, <1>10, <1>11, <1>12, <1>13, <1>14

LEMMA EndKeepsStage ==
  ASSUME LanesInv, StageInv, EndAttempt
  PROVE  StageInv'
<1> DEFINE n == Len(Executed)
           a == Attempted
<1>1. PoolsInv /\ PlanInv /\ AttemptsInv /\ ReportsInv /\ pc = "retrieving"
  BY DEF StageInv, EndAttempt
<1>2. /\ a \in Attempts /\ StateOK(staged') /\ (staged'.sources = 0 => staged'.pool = NoPool)
      /\ staged'.sources = 0 => staged.sources = 0 /\ successes = {}
      /\ Tried' = Append(Tried, a)
      /\ Executed' = IF Retries THEN Executed ELSE Append(Executed, query)
  BY EndingAttempt
<1>3. /\ n \in Nat /\ n + 1 \in DOMAIN plan /\ query = plan[n + 1] /\ query \in Queries
      /\ query = Head(pending) /\ Len(pending) = Len(plan) - n
      /\ Tail(pending) = SubSeq(plan, n + 2, Len(plan))
  BY <1>1, NextOfThePlan DEF PlanInv
<1>4. /\ plan \in Seq(Queries) /\ n < Len(plan) /\ Executed = SubSeq(plan, 1, n)
      /\ pending = SubSeq(plan, n + 1, Len(plan)) /\ attempt \in 1 .. MaxAttempts
  BY <1>1 DEF PlanInv
<1>5. Executed \in Seq(Queries) /\ Tried \in Seq(Attempts)
  BY <1>1, Settling
<1>6. /\ a.query = query /\ a.attempt = attempt
      /\ a.status = IF AttemptTimedOut THEN "timed_out" ELSE "completed"
  BY DEF Attempted
<1>7. UNCHANGED <<plan, execution, reports, heard>> /\ local' = NoPool
  BY DEF EndAttempt, LanesDone
<1>8. \/ Retries /\ pc' = "attempt" /\ attempt' = attempt + 1 /\ pending' = pending
      \/ /\ ~Retries /\ AttemptTimedOut /\ Len(pending) > 1
         /\ pc' = "attempt" /\ attempt' = 1 /\ pending' = Tail(pending)
      \/ ~Retries /\ pc' = "evaluating"
  BY DEF EndAttempt
<1>9. MaxAttempts \in Nat
  BY StageAssumption
<1> HIDE DEF n, a
<1>10. PoolsInv'
  <2>1. StateOK(execution)
    BY <1>1 DEF PoolsInv
  <2>2. execution = Nothing /\ heard => staged'.sources > 0
    <3>1. staged'.sources \in Nat
      BY <1>2 DEF StateOK
    <3>2. staged.sources = 0 /\ successes = {} => ~(execution = Nothing /\ heard)
      BY <1>1 DEF PoolsInv
    <3>3. QED
      BY <1>2, <3>1, <3>2
  <2>3. pc' \in {"attempt", "evaluating"}
    BY <1>8
  <2>4. QED
    BY <1>2, <1>7, <2>1, <2>2, <2>3, NoPoolFacts DEF PoolsInv, Phases
<1>11. ASSUME ~Retries
       PROVE  /\ Executed' = SubSeq(plan, 1, n + 1) /\ Len(Executed') = n + 1
  <2>1. Executed' = Append(Executed, query)
    BY <1>2, <1>11
  <2>2. Append(SubSeq(plan, 1, n), plan[n + 1]) = SubSeq(plan, 1, n + 1)
    BY <1>3, <1>4
  <2>3. Len(SubSeq(plan, 1, n + 1)) = n + 1
    BY <1>3, <1>4
  <2>4. QED
    BY <1>3, <1>4, <2>1, <2>2, <2>3
<1>12. Retries => Executed' = Executed
  BY <1>2
<1>13. PlanInv'
  <2>1. Len(Executed') <= Len(plan) /\ Executed' = SubSeq(plan, 1, Len(Executed'))
    BY <1>3, <1>4, <1>11, <1>12 DEF n
  <2>2. CASE Retries
    <3>1. attempt' \in 1 .. MaxAttempts
      BY <1>4, <1>8, <1>9, <2>2 DEF Retries
    <3>2. pc' = "attempt" /\ pending' = pending /\ Executed' = Executed
      BY <1>8, <1>12, <2>2
    <3>3. QED
      BY <1>4, <1>7, <2>1, <3>1, <3>2 DEF PlanInv, n
  <2>3. CASE ~Retries /\ pc' = "attempt"
    <3>1. Len(pending) > 1 /\ attempt' = 1 /\ pending' = Tail(pending)
      BY <1>8, <2>3
    <3>2. Len(Executed') = n + 1 /\ n + 1 < Len(plan)
      BY <1>3, <1>4, <1>11, <2>3, <3>1
    <3>3. pending' = SubSeq(plan, Len(Executed') + 1, Len(plan))
      <4>1. Len(Executed') + 1 = n + 2
        BY <1>3, <3>2
      <4>2. QED
        BY <1>3, <3>1, <4>1
    <3>4. attempt' \in 1 .. MaxAttempts
      BY <3>1, StageAssumption
    <3>5. QED
      BY <1>4, <1>7, <2>1, <2>3, <3>2, <3>3, <3>4 DEF PlanInv
  <2>4. CASE pc' = "evaluating"
    <3>1. Len(Executed') > 0
      BY <1>3, <1>8, <1>11, <2>4
    <3>2. QED
      BY <1>4, <1>7, <2>1, <2>4, <3>1 DEF PlanInv
  <2>5. QED
    BY <1>8, <2>2, <2>3, <2>4
<1>14. /\ IF a.attempt = 1 THEN LastSettled(Tried)
          ELSE LastIs(Tried, [query |-> a.query, attempt |-> a.attempt - 1,
                              status |-> "timed_out"])
       /\ Cardinality(Firsts(Tried)) = IF a.attempt = 1 THEN n ELSE n + 1
  <2>1. a.attempt = 1 <=> ~(attempt > 1)
    BY <1>4, <1>6, <1>9
  <2>2. QED
    BY <1>1, <1>3, <1>6, <2>1 DEF AttemptsInv, n
<1>15. /\ InOrder(Tried')
       /\ Cardinality(Firsts(Tried')) = n + 1
       /\ Tried' # <<>> /\ Tried'[Len(Tried')] = a
  <2>1. InOrder(Tried)
    BY <1>1 DEF AttemptsInv
  <2>2. /\ InOrder(Append(Tried, a))
        /\ Cardinality(Firsts(Append(Tried, a))) =
             Cardinality(Firsts(Tried)) + (IF a.attempt = 1 THEN 1 ELSE 0)
        /\ Append(Tried, a) # <<>> /\ Append(Tried, a)[Len(Append(Tried, a))] = a
    BY <1>2, <1>5, <1>14, <2>1, OneMoreAttempt
  <2>3. QED
    BY <1>2, <1>3, <1>14, <2>2
<1>16. \A m \in DOMAIN Tried' : \E k \in DOMAIN plan : plan[k] = Tried'[m].query
  <2>1. /\ DOMAIN Tried' = DOMAIN Tried \cup {Len(Tried) + 1}
        /\ \A m \in DOMAIN Tried : Tried'[m] = Tried[m]
        /\ Tried'[Len(Tried) + 1] = a
    BY <1>2, <1>5, OneMore
  <2>2. QED
    BY <1>1, <1>3, <1>6, <2>1 DEF AttemptsInv
<1>17. AttemptsInv'
  <2>1. CASE Retries
    <3>1. pc' = "attempt" /\ attempt' = attempt + 1 /\ pending' = pending /\ Executed' = Executed
      BY <1>8, <1>12, <2>1
    <3>2. a = [query |-> Head(pending), attempt |-> attempt' - 1, status |-> "timed_out"]
      BY <1>3, <1>4, <2>1, <3>1 DEF a, Attempted, Retries
    <3>3. attempt' > 1
      BY <1>4, <1>9, <3>1
    <3>4. QED
      BY <1>7, <1>15, <1>16, <3>1, <3>2, <3>3 DEF AttemptsInv, LastIs, n
  <2>2. CASE ~Retries
    <3>1. Settled(a)
      BY <1>4, <1>6, <1>9, <2>2 DEF Settled, Retries
    <3>2. LastSettled(Tried') /\ Cardinality(Firsts(Tried')) = Len(Executed')
      BY <1>11, <1>15, <2>2, <3>1 DEF LastSettled
    <3>3. ~(pc' \in {"attempt", "retrieving"} /\ attempt' > 1)
      BY <1>8, <2>2
    <3>4. QED
      BY <1>7, <1>15, <1>16, <3>2, <3>3 DEF AttemptsInv
  <2>3. QED
    BY <2>1, <2>2
<1>18. ReportsInv'
  BY <1>1, <1>7 DEF ReportsInv, Stages
<1>19. QED
  BY <1>10, <1>13, <1>17, <1>18 DEF StageInv

LEMMA OfItsElements ==
  ASSUME NEW S, NEW s \in Seq(S)
  PROVE  s \in Seq({s[n] : n \in DOMAIN s})
<1> DEFINE T == {s[n] : n \in DOMAIN s}
<1>1. Len(s) \in Nat /\ s \in [1 .. Len(s) -> S] /\ DOMAIN s = 1 .. Len(s)
  OBVIOUS
<1>2. \A n \in 1 .. Len(s) : s[n] \in T
  BY <1>1
<1> HIDE DEF T
<1>3. s \in [1 .. Len(s) -> T]
  BY <1>1, <1>2
<1>4. s \in Seq(T)
  BY <1>1, <1>3
<1>5. QED
  BY <1>4 DEF T

LEMMA OneMoreReport ==
  ASSUME ReportsInv, NEW report, reports' = Append(reports, report),
         report.executed \in Seq(Queries), execution'.executed = execution.executed \o report.executed
  PROVE  ReportsInv'
<1> DEFINE S == {reports[n] : n \in DOMAIN reports} \cup {report}
           q == report.executed
<1>1. reports \in Seq(S) /\ report \in S
  BY DEF ReportsInv
<1>2. /\ reports' \in Seq(S) /\ Len(reports') = Len(reports) + 1
      /\ DOMAIN reports' = DOMAIN reports \cup {Len(reports) + 1}
      /\ Len(reports) + 1 \notin DOMAIN reports
      /\ \A k \in DOMAIN reports : reports'[k] = reports[k]
      /\ reports'[Len(reports) + 1] = report
  BY <1>1, OneMore
<1> HIDE DEF S
<1>3. /\ DOMAIN reports = 1 .. Len(reports) /\ Len(reports) \in Nat
      /\ DOMAIN reports' = 1 .. Len(reports')
  BY <1>1, <1>2
<1>4. reports' \in Seq({reports'[n] : n \in DOMAIN reports'})
  <2> DEFINE r == reports'
  <2>1. r \in Seq(S)
    BY <1>2
  <2> HIDE DEF r
  <2>2. r \in Seq({r[n] : n \in DOMAIN r})
    BY <2>1, OfItsElements
  <2>3. QED
    BY <2>2 DEF r
<1>5. /\ Stages \in Seq(Seq(Queries)) /\ DOMAIN Stages = DOMAIN reports
      /\ Len(Stages) = Len(reports)
  BY <1>3 DEF ReportsInv, Stages
<1>6. Stages' = Append(Stages, q)
  <2>1. DOMAIN Stages' = DOMAIN reports' /\ Stages' = [n \in DOMAIN reports' |-> Stages'[n]]
    BY DEF Stages
  <2>2. /\ DOMAIN Append(Stages, q) = DOMAIN reports'
        /\ Append(Stages, q) = [n \in DOMAIN reports' |-> Append(Stages, q)[n]]
    BY <1>2, <1>3, <1>5
  <2>3. ASSUME NEW n \in DOMAIN reports'
        PROVE  Stages'[n] = Append(Stages, q)[n]
    <3>1. Stages'[n] = reports'[n].executed
      BY DEF Stages
    <3>2. n \in DOMAIN reports => Stages[n] = reports[n].executed
      BY DEF Stages
    <3>3. /\ n \in DOMAIN Stages => Append(Stages, q)[n] = Stages[n]
          /\ Append(Stages, q)[Len(Stages) + 1] = q
      <4> DEFINE s == Stages
      <4>1. s \in Seq(Seq(Queries)) /\ q \in Seq(Queries)
        BY <1>5
      <4> HIDE DEF s, q
      <4>2. /\ n \in DOMAIN s => Append(s, q)[n] = s[n]
            /\ Append(s, q)[Len(s) + 1] = q
        BY <4>1, OneMore
      <4>3. QED
        BY <4>2 DEF s
    <3>4. QED
      BY <1>2, <1>5, <3>1, <3>2, <3>3
  <2> HIDE DEF q
  <2>4. QED
    BY <2>1, <2>2, <2>3
<1>7. FlattenSeq(Append(Stages, q)) = FlattenSeq(Stages) \o q
  <2> DEFINE s == Stages
  <2>1. s \in Seq(Seq(Queries)) /\ q \in Seq(Queries)
    BY <1>5
  <2> HIDE DEF s, q
  <2>2. FlattenSeq(Append(s, q)) = FlattenSeq(s) \o q
    BY <2>1, FlattenAppend
  <2>3. QED
    BY <2>2 DEF s
<1>8. Stages' \in Seq(Seq(Queries))
  BY <1>5, <1>6
<1>9. execution'.executed = FlattenSeq(Stages')
  BY <1>6, <1>7 DEF ReportsInv
<1>10. QED
  BY <1>4, <1>8, <1>9 DEF ReportsInv

\* Recording what was executed and tried.
LEMMA RecordKeepsStage ==
  ASSUME StageInv, pc = "evaluating", pc' \in {"answered", "failed"},
         NEW state, StateOK(state), state.executed = Executed, state.attempts = Tried,
         Record(state), Evaluated
  PROVE  /\ PlanInv' /\ AttemptsInv' /\ ReportsInv'
         /\ execution' = state /\ staged' = Nothing
<1> USE DEF Record, Evaluated
<1>1. PoolsInv /\ PlanInv /\ AttemptsInv /\ ReportsInv
  BY DEF StageInv
<1>2. execution' = state /\ staged' = Nothing /\ plan' = plan
  OBVIOUS
<1>3. Executed' = Executed /\ Tried' = Tried
  <2> DEFINE e == Executed
             t == Tried
  <2>1. e \in Seq(Queries) /\ t \in Seq(Attempts)
    BY <1>1, Settling
  <2>2. Executed' = e \o <<>> /\ Tried' = t \o <<>>
    BY <1>2, NothingIsOK DEF Executed, Tried
  <2> HIDE DEF e, t
  <2>3. e \o <<>> = e /\ t \o <<>> = t
    BY <2>1, EmptyConcat
  <2>4. QED
    BY <2>2, <2>3 DEF e, t
<1>4. PlanInv'
  BY <1>1, <1>2, <1>3 DEF PlanInv
<1>5. AttemptsInv'
  BY <1>1, <1>2, <1>3 DEF AttemptsInv
<1>6. ReportsInv'
  <2>1. staged.executed \in Seq(Queries)
    BY <1>1 DEF PoolsInv, StateOK
  <2>2. StageReport(state, staged.executed).executed = staged.executed
    BY DEF StageReport
  <2>3. reports' = Append(reports, StageReport(state, staged.executed))
    OBVIOUS
  <2>4. execution'.executed = execution.executed \o staged.executed
    BY <1>2 DEF Executed
  <2>5. QED
    BY <1>1, <2>1, <2>2, <2>3, <2>4, OneMoreReport
<1>7. QED
  BY <1>2, <1>4, <1>5, <1>6

LEMMA SearchKeepsStage ==
  ASSUME StageInv, EvaluateSearch
  PROVE  StageInv'
<1>1. PoolsInv /\ PlanInv /\ AttemptsInv /\ ReportsInv
  BY DEF StageInv
<1>2. pc = "evaluating" /\ execution = Nothing /\ Evaluated
  BY DEF EvaluateSearch
<1>3. Readable(staged) /\ staged.executed = Executed /\ staged.attempts = Tried /\ StateOK(staged)
  BY <1>1, <1>2, Settling DEF PoolsInv
<1>4. /\ Record(staged)
      /\ IF staged.sources = 0 THEN pc' = "failed" ELSE pc' = "answered"
  BY <1>3 DEF EvaluateSearch
<1>5. PlanInv' /\ AttemptsInv' /\ ReportsInv' /\ execution' = staged /\ staged' = Nothing
  BY <1>2, <1>3, <1>4, RecordKeepsStage
<1>6. local' = local /\ heard' = heard
  BY <1>2 DEF Evaluated, laneVars
<1>7. PoolsInv'
  <2>1. staged.sources = 0 => staged.pool = NoPool /\ ~heard
    BY <1>1, <1>2 DEF PoolsInv
  <2>2. execution' = Nothing => ~heard'
    BY <1>5, <1>6, <2>1, NothingIsOK
  <2>3. pc' \in {"answered", "failed"} /\ (pc' = "failed" => execution'.pool = NoPool /\ ~heard')
    BY <1>4, <1>5, <1>6, <2>1
  <2>4. PoolOK(local') /\ StateOK(execution') /\ StateOK(staged')
    BY <1>1, <1>3, <1>5, <1>6, NothingIsOK DEF PoolsInv
  <2>5. QED
    BY <1>5, <2>2, <2>3, <2>4, NothingIsOK DEF PoolsInv, Phases
<1>8. QED
  BY <1>5, <1>7 DEF StageInv

LEMMA ExpansionKeepsStage ==
  ASSUME StageInv, EvaluateExpansion
  PROVE  StageInv'
<1> DEFINE state == Joined(execution, staged)
<1>1. PoolsInv /\ PlanInv /\ AttemptsInv /\ ReportsInv
  BY DEF StageInv
<1>2. pc = "evaluating" /\ Evaluated
  BY DEF EvaluateExpansion
<1>3. Readable(state) /\ StateOK(state) /\ state.executed = Executed /\ state.attempts = Tried
  BY <1>1, Settling, JoinedIsOK DEF PoolsInv, Executed, Tried
<1>4. Record(state) /\ pc' = "answered"
  BY <1>3 DEF EvaluateExpansion
<1> HIDE DEF state
<1>5. PlanInv' /\ AttemptsInv' /\ ReportsInv' /\ execution' = state /\ staged' = Nothing
  BY <1>2, <1>3, <1>4, RecordKeepsStage
<1>6. local' = local /\ heard' = heard
  BY <1>2 DEF Evaluated, laneVars
<1>7. execution' # Nothing
  <2>1. Len(state.executed) > 0
    BY <1>1, <1>2, <1>3 DEF PlanInv
  <2>2. state.executed # <<>>
    BY <2>1
  <2>3. QED
    BY <1>5, <2>2, NothingIsOK
<1>8. PoolsInv'
  BY <1>1, <1>3, <1>4, <1>5, <1>6, <1>7, NothingIsOK DEF PoolsInv, Phases
<1>9. QED
  BY <1>5, <1>8 DEF StageInv

-----------------------------------------------------------------------------
(* The invariant *)

LEMMA Preserved ==
  ASSUME IInv, [Next]_vars
  PROVE  IInv'
<1> SUFFICES LanesInv' /\ StageInv'
  BY DEF IInv, StageInv
<1>1. LanesInv /\ StageInv
  BY DEF IInv, StageInv
<1>2. waiting > 0 => pc = "retrieving"
  BY <1>1 DEF LanesInv
<1>3. CASE Plan
  <2>1. pc # "retrieving" /\ pc' # "retrieving" /\ UNCHANGED laneVars
    BY <1>3 DEF Plan, BeginStage
  <2>2. QED
    BY <1>1, <1>3, <2>1, OthersKeepLanes, PlanKeepsStage DEF laneVars
<1>4. CASE PlanningFails
  <2>1. pc # "retrieving" /\ pc' # "retrieving" /\ UNCHANGED laneVars
    BY <1>4 DEF PlanningFails
  <2>2. QED
    BY <1>1, <1>4, <2>1, OthersKeepLanes, FailedPlanningKeepsStage DEF laneVars
<1>5. CASE Expand
  <2>1. pc # "retrieving" /\ pc' # "retrieving" /\ UNCHANGED laneVars
    BY <1>5 DEF Expand, BeginStage
  <2>2. QED
    BY <1>1, <1>5, <2>1, OthersKeepLanes, ExpandKeepsStage DEF laneVars
<1>6. CASE BeginAttempt
  <2>1. Head(pending) \in Queries
    BY <1>1, <1>6, NextOfThePlan DEF StageInv, BeginAttempt
  <2>2. QED
    BY <1>1, <1>6, <2>1, StartKeepsLanes, BeginAttemptKeepsStage DEF BeginAttempt
<1>7. CASE Retrieve
  <2>1. pc = "retrieving" /\ pc' = pc /\ UNCHANGED stageVars /\ (Take \/ GiveUp)
    BY <1>7 DEF Retrieve, stageVars
  <2>2. CASE Take
    <3>1. query' = query
      BY <2>2 DEF Take
    <3>2. QED
      BY <1>1, <2>1, <2>2, <3>1, TakeKeepsLanes, TakeIsHeard, OthersKeepStage
  <2>3. CASE GiveUp
    <3>1. query' = query /\ UNCHANGED <<heard, successes>>
      BY <2>3 DEF GiveUp
    <3>2. QED
      BY <1>1, <2>1, <2>3, <3>1, GivingUpKeepsLanes, OthersKeepStage
  <2>4. QED
    BY <2>1, <2>2, <2>3
<1>8. CASE EndAttempt
  <2>1. LanesDone /\ waiting = 0 /\ pc' # "retrieving"
    BY <1>8 DEF EndAttempt
  <2>2. QED
    BY <1>1, <1>8, <2>1, EndKeepsLanes, EndKeepsStage
<1>9. CASE EvaluateSearch
  <2>1. pc # "retrieving" /\ pc' # "retrieving" /\ UNCHANGED laneVars
    BY <1>9 DEF EvaluateSearch, CannotRecord, Evaluated
  <2>2. QED
    BY <1>1, <1>9, <2>1, OthersKeepLanes, SearchKeepsStage DEF laneVars
<1>10. CASE EvaluateExpansion
  <2>1. pc # "retrieving" /\ pc' # "retrieving" /\ UNCHANGED laneVars
    BY <1>10 DEF EvaluateExpansion, CannotRecord, Evaluated
  <2>2. QED
    BY <1>1, <1>10, <2>1, OthersKeepLanes, ExpansionKeepsStage DEF laneVars
<1>11. CASE (\E t \in threads : LaneAnswers(t)) /\ UNCHANGED stageVars
  <2>1. PICK t \in threads : LaneAnswers(t)
    BY <1>11
  <2>2. query' = query /\ UNCHANGED <<heard, successes>> /\ pc' = pc
    BY <1>11, <2>1 DEF LaneAnswers, stageVars
  <2>3. QED
    BY <1>1, <1>11, <2>1, <2>2, AnswersKeepLanes, OthersKeepStage
<1>12. CASE Tick /\ UNCHANGED stageVars
  <2>1. /\ query' = query /\ UNCHANGED <<heard, successes>> /\ pc' = pc
        /\ UNCHANGED <<serial, query, threads, queue, waiting, candidates, statuses,
                       successes, partial, warned, outcomes>>
    BY <1>12 DEF Tick, stageVars
  <2>2. QED
    BY <1>1, <1>12, <2>1, OthersKeepLanes, OthersKeepStage
<1>13. CASE UNCHANGED vars
  <2>1. /\ UNCHANGED stageVars /\ query' = query /\ UNCHANGED <<heard, successes>> /\ pc' = pc
        /\ UNCHANGED <<serial, query, threads, queue, waiting, candidates, statuses,
                       successes, partial, warned, outcomes>>
    BY <1>13 DEF vars, laneVars, stageVars
  <2>2. QED
    BY <1>1, <2>1, OthersKeepLanes, OthersKeepStage
<1>14. QED
  BY <1>3, <1>4, <1>5, <1>6, <1>7, <1>8, <1>9, <1>10, <1>11, <1>12, <1>13 DEF Next

\* Every reachable state satisfies the inductive invariant: the lanes of an
\* attempt are apart, pools can be stored and the run follows its plan.
THEOREM Invariance == Spec => []IInv
<1>1. Init => IInv
  BY LanesHoldAtFirst, StageHoldsAtFirst DEF IInv, StageInv
<1>2. IInv /\ [Next]_vars => IInv'
  BY Preserved
<1>3. QED
  BY <1>1, <1>2, PTL DEF Spec

-----------------------------------------------------------------------------
(* Theorems *)

\* What a coordinator takes was asked for its own query, and every lane of the
\* attempt is at work, in the queue or taken, once (discovery.py).
THEOREM CoordinatorsTakeTheirOwn == Spec => []AnswersAreOwn
<1>1. ASSUME IInv PROVE AnswersAreOwn
  <2>1. ASSUME pc = "retrieving"
        PROVE  /\ \A n \in DOMAIN candidates : candidates[n].query = query
               /\ waiting = 0 \/ Cardinality(outcomes) + Len(queue) + Cardinality(Own)
                                   = Cardinality(Lanes)
    BY <1>1 DEF IInv, LanesInv, WorkOK, TakenOK, LanesAreApart
  <2>2. QED
    BY <2>1 DEF AnswersAreOwn, Own
<1>2. QED
  BY <1>1, Invariance, PTL

\* An attempt is timed out when nothing or a time-out was taken, and partial
\* unless every lane was taken without a failure, in whatever order the statuses
\* of a source were merged (lanes.py:merge_source_status).
THEOREM AttemptsExplained == Spec => []AttemptsAreExplained
<1>1. ASSUME IInv PROVE AttemptsAreExplained
  <2> SUFFICES ASSUME pc = "retrieving", waiting = 0
               PROVE  /\ AttemptTimedOut <=> \/ outcomes = {}
                                             \/ \E o \in outcomes : o.code = "timed_out"
                      /\ AttemptOutcome.partial <=>
                           {o.lane : o \in {x \in outcomes : x.code = NoStatus}} # Lanes
    BY DEF AttemptsAreExplained
  <2> DEFINE fine == {o.lane : o \in {x \in outcomes : x.code = NoStatus}}
  <2>1. TakenOK /\ LanesAreOver
    BY <1>1 DEF IInv, LanesInv
  <2>2. \A o \in outcomes : o.lane \in Taken /\ o.lane.source \in Sources
    BY <2>1 DEF Taken, TakenOK, Sources
  <2>3. HeardNothing <=> outcomes = {}
    BY <2>1, <2>2 DEF HeardNothing, TakenOK
  <2>4. outcomes = {} => partial
    BY <2>1, LanesAssumption DEF LanesAreOver, Taken
  <2>5. warned <=> \E o \in outcomes : o.code = "timed_out"
    BY <2>1 DEF TakenOK
  <2>6. (\E s \in Sources : statuses[s] = "timed_out") => warned
    BY <2>1 DEF TakenOK
  <2>7. AttemptTimedOut <=> outcomes = {} \/ \E o \in outcomes : o.code = "timed_out"
    BY <2>3, <2>4, <2>5, <2>6 DEF AttemptTimedOut
  <2>8. fine \subseteq Taken /\ Taken \subseteq Lanes
    BY <2>1, <2>2 DEF TakenOK
  <2>9. ASSUME partial PROVE fine # Lanes
    <3>1. CASE Taken # Lanes
      BY <2>8, <3>1
    <3>2. CASE \E o \in outcomes : Failed(o)
      <4>1. PICK o \in outcomes : Failed(o)
        BY <3>2
      <4>2. o.lane \notin fine
        BY <2>1, <4>1 DEF TakenOK, Failed
      <4>3. o.lane \in Lanes
        BY <2>2, <2>8
      <4>4. QED
        BY <4>2, <4>3
    <3>3. QED
      BY <2>1, <2>9, <3>1, <3>2 DEF LanesAreOver
  <2>10. ASSUME ~partial PROVE fine = Lanes
    <3>1. Taken = Lanes /\ \A o \in outcomes : o.code = NoStatus
      BY <2>1, <2>10 DEF LanesAreOver, Failed
    <3>2. fine = Taken
      BY <3>1 DEF Taken
    <3>3. QED
      BY <3>1, <3>2
  <2>11. AttemptOutcome.partial = partial
    BY DEF AttemptOutcome
  <2>12. AttemptOutcome.partial <=> fine # Lanes
    BY <2>9, <2>10, <2>11
  <2>13. QED
    BY <2>7, <2>12
<1>2. QED
  BY <1>1, Invariance, PTL

\* A search is refused as unavailable only when no lane answered it and the
\* catalog knew nothing (ExploreSearchUnavailableError).
THEOREM UnavailableOnlyWhenNothingWasHeard == Spec => []UnavailableIsTrue
<1>1. IInv => UnavailableIsTrue
  BY DEF IInv, PoolsInv, UnavailableIsTrue
<1>2. QED
  BY <1>1, Invariance, PTL

LEMMA CurrentFacts ==
  ASSUME PoolsInv, PlanInv, AttemptsInv
  PROVE  Readable(Current) /\ Current.executed = Executed /\ Current.attempts = Tried
<1>1. CASE pc \in {"attempt", "retrieving", "evaluating"}
  <2>1. Current = Joined(execution, staged)
    BY <1>1 DEF Current
  <2>2. /\ Joined(execution, staged).executed = Executed
        /\ Joined(execution, staged).attempts = Tried
    BY JoinedIsOK DEF PoolsInv, Executed, Tried
  <2>3. QED
    BY <2>1, <2>2, Settling
<1>2. CASE pc \notin {"attempt", "retrieving", "evaluating"}
  <2>1. Current = execution /\ staged = Nothing
    BY <1>2 DEF Current, PoolsInv
  <2>2. Executed = execution.executed /\ Tried = execution.attempts /\ StateOK(execution)
    BY <2>1, Settling DEF PoolsInv
  <2>3. Readable(execution)
    BY <2>2, StateIsReadable DEF PlanInv, AttemptsInv
  <2>4. QED
    BY <2>1, <2>2, <2>3
<1>3. QED
  BY <1>1, <1>2

\* What a stage leaves can be stored and read back, and the next stage goes on
\* from it: the executed queries begin the plan, each with its attempts in order,
\* the last of which completed or was the last allowed, and the reports account
\* for each executed query once (execution.py:serialize_execution).
THEOREM StagesReadBack == Spec => []ExecutionReadsBack
<1>1. ASSUME IInv PROVE ExecutionReadsBack
  <2> DEFINE c == Cardinality(Firsts(Tried))
             e == Len(Executed)
  <2>1. PoolsInv /\ PlanInv /\ AttemptsInv /\ ReportsInv
    BY <1>1 DEF IInv
  <2>2. Readable(Current) /\ Current.executed = Executed /\ Current.attempts = Tried
    BY <2>1, CurrentFacts
  <2>3. execution.executed = FlattenSeq([n \in DOMAIN reports |-> reports[n].executed])
    BY <2>1 DEF ReportsInv, Stages
  <2>4. Executed \in Seq(Queries) /\ Tried \in Seq(Attempts) /\ e \in Nat /\ c \in Nat
    BY <2>1, Settling, FirstsAreFinite
  <2>5. /\ c = e \/ (c = e + 1 /\ pc \in {"attempt", "retrieving"})
        /\ pc \in {"evaluating", "answered"} => LastSettled(Tried)
    BY <2>1 DEF AttemptsInv
  <2>6. InOrder(Tried)
    BY <2>1 DEF AttemptsInv
  <2> HIDE DEF c, e
  <2>7. c - e \in {0, 1} /\ (c > e => pc \in {"attempt", "retrieving"})
    BY <2>4, <2>5
  <2>8. ASSUME NEW k \in DOMAIN Tried \ Firsts(Tried)
        PROVE  /\ Tried[k - 1].status = "timed_out"
               /\ Tried[k] = [Tried[k - 1] EXCEPT !.attempt = @ + 1, !.status = Tried[k].status]
    <3>1. /\ k > 1 /\ Tried[k - 1].status = "timed_out"
          /\ Tried[k].attempt = Tried[k - 1].attempt + 1
          /\ Tried[k].query = Tried[k - 1].query
      BY <2>6 DEF InOrder, Firsts
    <3>2. k - 1 \in DOMAIN Tried
      BY <2>4, <3>1
    <3>3. Tried[k] \in Attempts /\ Tried[k - 1] \in Attempts
      BY <2>4, <3>2
    <3>4. QED
      BY <3>1, <3>3 DEF Attempts
  <2>9. ASSUME NEW k \in DOMAIN Tried,
               k + 1 \in Firsts(Tried) \/ k = Len(Tried),
               k < Len(Tried) \/ pc \in {"evaluating", "answered"}
        PROVE  Tried[k].status = "completed" \/ Tried[k].attempt = MaxAttempts
    <3>1. k \in Nat \ {0} /\ Len(Tried) \in Nat /\ Tried # <<>>
      BY <2>4
    <3>2. CASE k + 1 \in Firsts(Tried)
      <4>1. k + 1 \in DOMAIN Tried /\ Tried[k + 1].attempt = 1
        BY <3>2 DEF Firsts
      <4>2. k + 1 > 1 /\ (k + 1) - 1 = k
        BY <3>1
      <4>3. Settled(Tried[(k + 1) - 1])
        BY <2>6, <4>1, <4>2 DEF InOrder
      <4>4. Settled(Tried[k])
        BY <4>2, <4>3
      <4>5. QED
        BY <4>4 DEF Settled
    <3>3. CASE k = Len(Tried)
      <4>1. pc \in {"evaluating", "answered"}
        BY <2>9, <3>1, <3>3
      <4>2. Settled(Tried[k])
        BY <2>5, <3>1, <3>3, <4>1 DEF LastSettled
      <4>3. QED
        BY <4>2 DEF Settled
    <3>4. QED
      BY <2>9, <3>2, <3>3
  <2>10. Firsts(Tried) = {k \in DOMAIN Current.attempts : Current.attempts[k].attempt = 1}
    BY <2>2 DEF Firsts
  <2>11. QED
    BY <2>2, <2>3, <2>7, <2>8, <2>9, <2>10 DEF ExecutionReadsBack, c, e
<1>2. QED
  BY <1>1, Invariance, PTL

-----------------------------------------------------------------------------
(* What a pool says does not depend on the order of its hits *)

\* The score of a candidate is a score of its evidence.
LEMMA ScoreOfEvidence ==
  ASSUME NEW c, NEW d, NEW queries, c.evidence = d.evidence
  PROVE  Score(c, queries) = Score(d, queries)
<1>1. ASSUME NEW x, NEW ev, ev = x.evidence
      PROVE  Score(x, queries) = Score([evidence |-> ev], queries)
  BY <1>1 DEF Score, Uncertainty, StrongestQuality, QueryQuality
<1>2. Score(c, queries) = Score([evidence |-> c.evidence], queries)
  BY <1>1
<1>3. Score(d, queries) = Score([evidence |-> d.evidence], queries)
  BY <1>1
<1>4. QED
  BY <1>2, <1>3

Best(ranks) ==
  {p \in ranks : \A other \in ranks : other[1] = p[1] => p[2] <= other[2]}

LEMMA BestOfMore ==
  ASSUME NEW S, NEW x, \A p \in S \cup {x} : p[2] \in Nat
  PROVE  BestRanks(Best(S), {x}) = Best(S \cup {x})
<1>1. BestRanks(Best(S), {x}) = Best(Best(S) \cup {x})
  BY DEF BestRanks, Best
<1>2. Best(S) \subseteq S
  BY DEF Best
<1>3. ASSUME NEW o \in S
      PROVE  \E b \in Best(S) : b[1] = o[1] /\ b[2] <= o[2]
  <2> DEFINE same == {p[2] : p \in {q \in S : q[1] = o[1]}}
  <2>1. same \in SUBSET Nat /\ o[2] \in same
    OBVIOUS
  <2>2. PICK m \in same : \A y \in same : m <= y
    BY <2>1, LeastNatural
  <2>3. PICK b \in S : b[1] = o[1] /\ b[2] = m
    BY <2>2
  <2>4. \A q \in S : q[1] = o[1] => m <= q[2]
    BY <2>2
  <2>5. b \in Best(S)
    BY <2>3, <2>4 DEF Best
  <2>6. QED
    BY <2>3, <2>4, <2>5
<1>4. ASSUME NEW p \in Best(Best(S) \cup {x}), NEW o \in S \cup {x}, o[1] = p[1]
      PROVE  p[2] <= o[2]
  <2>1. p \in Best(S) \cup {x} /\ p[2] \in Nat
    BY <1>2 DEF Best
  <2>2. CASE o = x
    BY <1>4, <2>2 DEF Best
  <2>3. CASE o \in S
    <3>1. PICK b \in Best(S) : b[1] = o[1] /\ b[2] <= o[2]
      BY <1>3, <2>3
    <3>2. p[2] <= b[2]
      BY <1>4, <3>1 DEF Best
    <3>3. b[2] \in Nat /\ o[2] \in Nat
      BY <1>2, <2>3, <3>1
    <3>4. QED
      BY <2>1, <3>1, <3>2, <3>3
  <2>4. QED
    BY <2>2, <2>3
<1>5. Best(Best(S) \cup {x}) \subseteq Best(S \cup {x})
  <2> SUFFICES ASSUME NEW p \in Best(Best(S) \cup {x})
               PROVE  p \in Best(S \cup {x})
    OBVIOUS
  <2>1. p \in S \cup {x}
    BY <1>2 DEF Best
  <2>2. QED
    BY <1>4, <2>1 DEF Best
<1>6. Best(S \cup {x}) \subseteq Best(Best(S) \cup {x})
  BY <1>2 DEF Best
<1>7. QED
  BY <1>1, <1>5, <1>6

\* The places, among the first n, of the hits of r.
Of(hits, n, r) == {k \in 1 .. n : hits[k].repository = r}

RanksAt(hits, K) == {<<hits[k].channel, hits[k].rank>> : k \in K}

\* The pool that the first n hits make, whatever their order.
Describes(pool, hits, n) ==
  /\ DOMAIN pool = {hits[k].repository : k \in 1 .. n}
  /\ \A r \in DOMAIN pool :
       /\ pool[r].queries = {hits[k].query : k \in Of(hits, n, r)}
       /\ pool[r].evidence = {Evidence(hits[k]) : k \in Of(hits, n, r)}
       /\ pool[r].ranks = Best(RanksAt(hits, Of(hits, n, r)))
       /\ pool[r].origins = {"provider"}
       /\ pool[r].hits = Cardinality(Of(hits, n, r))

LEMMA MergedFields ==
  ASSUME NEW c, NEW d
  PROVE  /\ MergeCandidates(c, d).queries = c.queries \cup d.queries
         /\ MergeCandidates(c, d).evidence = c.evidence \cup d.evidence
         /\ MergeCandidates(c, d).ranks = BestRanks(c.ranks, d.ranks)
         /\ MergeCandidates(c, d).origins = c.origins \cup d.origins
         /\ MergeCandidates(c, d).hits = c.hits + d.hits
BY DEF MergeCandidates

LEMMA OneMoreHit ==
  ASSUME NEW hits \in Seq(ResultHits), NEW n \in Nat, n + 1 <= Len(hits),
         NEW pool, Describes(pool, hits, n)
  PROVE  Describes(MergePools(pool, [r \in {hits[n + 1].repository} |-> FromHit(hits[n + 1])]),
                   hits, n + 1)
<1> DEFINE h == hits[n + 1]
           R == h.repository
           single == [r \in {R} |-> FromHit(h)]
           more == MergePools(pool, single)
           x == <<h.channel, h.rank>>
<1>1. \A k \in 1 .. n + 1 : hits[k] \in ResultHits
  OBVIOUS
<1>2. 1 .. n + 1 = (1 .. n) \cup {n + 1} /\ n + 1 \notin 1 .. n
  OBVIOUS
<1>3. /\ Of(hits, n + 1, R) = Of(hits, n, R) \cup {n + 1} /\ n + 1 \notin Of(hits, n, R)
      /\ \A r : r # R => Of(hits, n + 1, r) = Of(hits, n, r)
  BY <1>2 DEF Of
<1>4. DOMAIN more = DOMAIN pool \cup {R} /\ DOMAIN single = {R} /\ single[R] = FromHit(h)
  BY DEF MergePools
<1>5. DOMAIN more = {hits[k].repository : k \in 1 .. n + 1}
  BY <1>2, <1>4 DEF Describes
<1>6. /\ FromHit(h).queries = {h.query} /\ FromHit(h).evidence = {Evidence(h)}
      /\ FromHit(h).ranks = {x} /\ FromHit(h).origins = {"provider"} /\ FromHit(h).hits = 1
  BY DEF FromHit
<1>7. \A k \in 1 .. n + 1 : hits[k].rank \in Nat
  BY <1>1, HitFacts
<1>8. \A r : IsFiniteSet(Of(hits, n, r)) /\ Cardinality(Of(hits, n, r)) \in Nat
  <2> SUFFICES ASSUME NEW r PROVE IsFiniteSet(Of(hits, n, r)) /\ Cardinality(Of(hits, n, r)) \in Nat
    OBVIOUS
  <2>1. IsFiniteSet(1 .. n) /\ Of(hits, n, r) \in SUBSET (1 .. n)
    BY FS_Interval DEF Of
  <2>2. QED
    BY <2>1, FS_Subset, FS_CardinalityType
<1>9. ASSUME NEW r \in DOMAIN pool, r # R
      PROVE  more[r] = pool[r] /\ Of(hits, n + 1, r) = Of(hits, n, r)
  BY <1>3, <1>4, <1>9 DEF MergePools
<1>10. CASE R \notin DOMAIN pool
  <2>1. more[R] = FromHit(h)
    BY <1>4, <1>10 DEF MergePools
  <2>2. Of(hits, n, R) = {} /\ Of(hits, n + 1, R) = {n + 1}
    BY <1>3, <1>10 DEF Describes, Of
  <2>3. Cardinality({n + 1}) = 1
    BY FS_Singleton
  <2>4. Best({x}) = {x}
    BY <1>7 DEF Best
  <2>5. RanksAt(hits, {n + 1}) = {x}
    BY DEF RanksAt
  <2>6. /\ {hits[k].query : k \in {n + 1}} = {h.query}
        /\ {Evidence(hits[k]) : k \in {n + 1}} = {Evidence(h)}
    OBVIOUS
  <2> HIDE DEF x, more, single, h
  <2>7. /\ more[R].queries = {hits[k].query : k \in Of(hits, n + 1, R)}
        /\ more[R].evidence = {Evidence(hits[k]) : k \in Of(hits, n + 1, R)}
        /\ more[R].ranks = Best(RanksAt(hits, Of(hits, n + 1, R)))
        /\ more[R].origins = {"provider"}
        /\ more[R].hits = Cardinality(Of(hits, n + 1, R))
    BY <1>6, <2>1, <2>2, <2>3, <2>4, <2>5, <2>6
  <2>8. QED
    BY <1>4, <1>5, <1>9, <2>7 DEF Describes, more, single, h
<1>11. CASE R \in DOMAIN pool
  <2> DEFINE K == Of(hits, n, R)
  <2>1. more[R] = MergeCandidates(pool[R], FromHit(h))
    BY <1>4, <1>11 DEF MergePools
  <2>2. /\ pool[R].queries = {hits[k].query : k \in K}
        /\ pool[R].evidence = {Evidence(hits[k]) : k \in K}
        /\ pool[R].ranks = Best(RanksAt(hits, K))
        /\ pool[R].origins = {"provider"} /\ pool[R].hits = Cardinality(K)
    BY <1>11 DEF Describes
  <2>3. /\ more[R].queries = pool[R].queries \cup {h.query}
        /\ more[R].evidence = pool[R].evidence \cup {Evidence(h)}
        /\ more[R].ranks = BestRanks(pool[R].ranks, {x})
        /\ more[R].origins = pool[R].origins \cup {"provider"}
        /\ more[R].hits = pool[R].hits + 1
    <3> DEFINE c == pool[R]
               d == FromHit(h)
    <3>1. /\ more[R].queries = c.queries \cup d.queries
          /\ more[R].evidence = c.evidence \cup d.evidence
          /\ more[R].ranks = BestRanks(c.ranks, d.ranks)
          /\ more[R].origins = c.origins \cup d.origins
          /\ more[R].hits = c.hits + d.hits
      BY <2>1, MergedFields
    <3> HIDE DEF more
    <3>2. QED
      BY <1>6, <3>1
  <2>4. RanksAt(hits, K \cup {n + 1}) = RanksAt(hits, K) \cup {x}
    BY DEF RanksAt
  <2>5. \A p \in RanksAt(hits, K) \cup {x} : p[2] \in Nat
    BY <1>2, <1>7 DEF RanksAt, Of
  <2>6. BestRanks(Best(RanksAt(hits, K)), {x}) = Best(RanksAt(hits, K) \cup {x})
    BY <2>5, BestOfMore
  <2>7. Cardinality(K \cup {n + 1}) = Cardinality(K) + 1
    BY <1>3, <1>8, FS_AddElement
  <2>8. Of(hits, n + 1, R) = K \cup {n + 1}
    BY <1>3
  <2>9. /\ {hits[k].query : k \in K \cup {n + 1}} = {hits[k].query : k \in K} \cup {h.query}
        /\ {Evidence(hits[k]) : k \in K \cup {n + 1}} = {Evidence(hits[k]) : k \in K} \cup {Evidence(h)}
    OBVIOUS
  <2> HIDE DEF x, more, single, K, h
  <2>10. /\ more[R].queries = {hits[k].query : k \in K \cup {n + 1}}
        /\ more[R].evidence = {Evidence(hits[k]) : k \in K \cup {n + 1}}
        /\ more[R].ranks = Best(RanksAt(hits, K \cup {n + 1}))
        /\ more[R].origins = {"provider"}
        /\ more[R].hits = Cardinality(K \cup {n + 1})
    BY <2>2, <2>3, <2>4, <2>6, <2>7, <2>9
  <2>11. QED
    BY <1>4, <1>5, <1>9, <2>8, <2>10 DEF Describes, more, single, h
<1>12. QED
  BY <1>10, <1>11

LEMMA HitsAreDescribed ==
  ASSUME NEW hits \in Seq(ResultHits)
  PROVE  Describes(MergeHits(hits), hits, Len(hits))
<1> DEFINE odd == {n \in 0 .. Len(hits) : ~Describes(Pools(hits)[n], hits, n)}
<1>1. odd = {}
  <2> SUFFICES ASSUME odd # {} PROVE FALSE
    OBVIOUS
  <2>1. odd \in SUBSET Nat
    OBVIOUS
  <2> HIDE DEF odd
  <2>2. PICK n \in odd : \A m \in odd : n <= m
    BY <2>1, LeastNatural
  <2>3. n \in 0 .. Len(hits) /\ ~Describes(Pools(hits)[n], hits, n) /\ Len(hits) \in Nat
    BY DEF odd
  <2>4. n # 0
    <3>1. Describes(NoPool, hits, 0)
      BY NoPoolFacts DEF Describes
    <3>2. QED
      BY <2>3, <3>1, PoolsOfHits
  <2>5. n - 1 \in 0 .. Len(hits) /\ n - 1 \in Nat /\ (n - 1) + 1 = n
    BY <2>3, <2>4
  <2>6. Describes(Pools(hits)[n - 1], hits, n - 1)
    BY <2>2, <2>5 DEF odd
  <2>7. Pools(hits)[n] = MergePools(Pools(hits)[n - 1],
                                    [r \in {hits[n].repository} |-> FromHit(hits[n])])
    <3>1. n \in 1 .. Len(hits)
      BY <2>3, <2>4
    <3>2. QED
      BY <2>3, <3>1, PoolsOfHits
  <2>8. (n - 1) + 1 <= Len(hits)
    BY <2>3, <2>5
  <2>9. Describes(MergePools(Pools(hits)[n - 1],
                             [r \in {hits[(n - 1) + 1].repository} |-> FromHit(hits[(n - 1) + 1])]),
                  hits, (n - 1) + 1)
    BY <2>5, <2>6, <2>8, OneMoreHit
  <2>10. QED
    BY <2>3, <2>5, <2>7, <2>9
<1>2. Len(hits) \in 0 .. Len(hits) /\ Len(hits) \in Nat
  OBVIOUS
<1>3. Describes(Pools(hits)[Len(hits)], hits, Len(hits))
  BY <1>1, <1>2
<1>4. QED
  BY <1>2, <1>3, PoolsOfHits

LEMMA ConcatenatedElements ==
  ASSUME NEW S, NEW s \in Seq(S), NEW t \in Seq(S)
  PROVE  s \o t \in Seq(S) /\ ToSet(s \o t) = ToSet(s) \cup ToSet(t)
<1> DEFINE st == s \o t
<1>1. /\ st \in Seq(S) /\ Len(st) = Len(s) + Len(t) /\ Len(s) \in Nat /\ Len(t) \in Nat
      /\ DOMAIN s = 1 .. Len(s) /\ DOMAIN t = 1 .. Len(t) /\ DOMAIN st = 1 .. Len(st)
      /\ \A i \in DOMAIN s : st[i] = s[i]
      /\ \A i \in DOMAIN t : st[Len(s) + i] = t[i]
  OBVIOUS
<1> HIDE DEF st
<1>2. \A i \in DOMAIN st : i \in DOMAIN s \/ (i - Len(s) \in DOMAIN t /\ i = Len(s) + (i - Len(s)))
  BY <1>1
<1>3. ToSet(st) \subseteq ToSet(s) \cup ToSet(t)
  BY <1>1, <1>2 DEF ToSet
<1>4. \A i \in DOMAIN t : Len(s) + i \in DOMAIN st
  BY <1>1
<1>5. \A i \in DOMAIN s : i \in DOMAIN st
  BY <1>1
<1>6. ToSet(s) \cup ToSet(t) \subseteq ToSet(st)
  BY <1>1, <1>4, <1>5 DEF ToSet
<1>7. QED
  BY <1>1, <1>3, <1>6 DEF st

\* What was found of r.
On(found, r) == {h \in found : h.repository = r}

\* The pool that these hits make, in whatever order they come.
MadeOf(pool, found) ==
  /\ DOMAIN pool = {h.repository : h \in found}
  /\ \A r \in DOMAIN pool :
       /\ pool[r].queries = {h.query : h \in On(found, r)}
       /\ pool[r].evidence = {Evidence(h) : h \in On(found, r)}
       /\ pool[r].ranks = Best({<<h.channel, h.rank>> : h \in On(found, r)})
       /\ pool[r].origins = {"provider"}

LEMMA PoolIsMadeOfItsHits ==
  ASSUME NEW hits \in Seq(ResultHits)
  PROVE  MadeOf(MergeHits(hits), ToSet(hits))
<1> DEFINE pool == MergeHits(hits)
           found == ToSet(hits)
<1>1. Describes(pool, hits, Len(hits)) /\ 1 .. Len(hits) = DOMAIN hits
  BY HitsAreDescribed
<1>2. found = {hits[k] : k \in DOMAIN hits}
  BY DEF ToSet
<1>3. {h.repository : h \in found} = {hits[k].repository : k \in DOMAIN hits}
  BY <1>2
<1>4. ASSUME NEW r
      PROVE  /\ {h.query : h \in On(found, r)} = {hits[k].query : k \in Of(hits, Len(hits), r)}
             /\ {Evidence(h) : h \in On(found, r)}
                  = {Evidence(hits[k]) : k \in Of(hits, Len(hits), r)}
             /\ {<<h.channel, h.rank>> : h \in On(found, r)}
                  = RanksAt(hits, Of(hits, Len(hits), r))
  <2>1. Of(hits, Len(hits), r) = {k \in DOMAIN hits : hits[k].repository = r}
    BY <1>1 DEF Of
  <2>2. On(found, r) = {hits[k] : k \in Of(hits, Len(hits), r)}
    BY <1>2, <2>1 DEF On
  <2>3. QED
    BY <2>2 DEF RanksAt
<1> HIDE DEF pool, found
<1>5. MadeOf(pool, found)
  BY <1>1, <1>3, <1>4 DEF Describes, MadeOf
<1>6. QED
  BY <1>5 DEF pool, found

LEMMA FlattenedElements ==
  ASSUME NEW S, NEW ss \in Seq(Seq(S))
  PROVE  /\ FlattenSeq(ss) \in Seq(S)
         /\ ToSet(FlattenSeq(ss)) = UNION {ToSet(ss[i]) : i \in DOMAIN ss}
<1> DEFINE F == Flats(ss)
           L == Len(ss)
           Good(n) == F[n] \in Seq(S) /\ ToSet(F[n]) = UNION {ToSet(ss[i]) : i \in 1 .. n}
           odd == {n \in 1 .. L : ~Good(n)}
<1>1. L \in Nat /\ DOMAIN ss = 1 .. L /\ \A i \in 1 .. L : ss[i] \in Seq(S)
  OBVIOUS
<1>2. /\ FlattenSeq(ss) = IF L = 0 THEN ss ELSE F[L]
      /\ \A i \in 1 .. L : F[i] = FlatStep(ss, F, i)
  BY <1>1, FlatsOfSequence
<1> HIDE DEF F, L
<1>3. odd = {}
  <2> SUFFICES ASSUME odd # {} PROVE FALSE
    OBVIOUS
  <2>1. odd \in SUBSET Nat
    BY <1>1
  <2> HIDE DEF odd
  <2>2. PICK n \in odd : \A m \in odd : n <= m
    BY <2>1, LeastNatural
  <2>3. n \in 1 .. L /\ ~Good(n)
    BY DEF odd
  <2>4. F[n] = FlatStep(ss, F, n) /\ ss[n] \in Seq(S)
    BY <1>1, <1>2, <2>3
  <2>5. CASE n = 1
    <3>1. F[n] = ss[1] /\ 1 .. n = {1}
      BY <2>4, <2>5 DEF FlatStep
    <3>2. UNION {ToSet(ss[i]) : i \in {1}} = ToSet(ss[1])
      OBVIOUS
    <3>3. QED
      BY <2>3, <2>4, <2>5, <3>1, <3>2
  <2>6. CASE n # 1
    <3>1. n - 1 \in 1 .. L /\ 1 .. n = (1 .. n - 1) \cup {n}
      BY <1>1, <2>3, <2>6
    <3>2. ~(n <= n - 1)
      BY <1>1, <2>3
    <3>3. Good(n - 1)
      BY <2>2, <3>1, <3>2 DEF odd
    <3>4. F[n] = F[n - 1] \o ss[n]
      BY <2>4, <2>6 DEF FlatStep
    <3>5. F[n] \in Seq(S) /\ ToSet(F[n]) = ToSet(F[n - 1]) \cup ToSet(ss[n])
      BY <2>4, <3>3, <3>4, ConcatenatedElements
    <3>6. UNION {ToSet(ss[i]) : i \in (1 .. n - 1) \cup {n}}
            = (UNION {ToSet(ss[i]) : i \in 1 .. n - 1}) \cup ToSet(ss[n])
      OBVIOUS
    <3>7. QED
      BY <2>3, <3>1, <3>3, <3>5, <3>6
  <2>7. QED
    BY <2>5, <2>6
<1>4. CASE L = 0
  <2>1. FlattenSeq(ss) = <<>> /\ DOMAIN ss = {}
    BY <1>1, <1>2, <1>4 DEF L
  <2>2. QED
    BY <2>1 DEF ToSet
<1>5. CASE L # 0
  <2>1. L \in 1 .. L
    BY <1>1, <1>5
  <2>2. Good(L)
    BY <1>3, <2>1
  <2>3. QED
    BY <1>1, <1>2, <1>5, <2>2
<1>6. QED
  BY <1>4, <1>5

-----------------------------------------------------------------------------
(* The order of the answers *)

\* What was taken is what the answers listed, each of them once.
OutcomesInv ==
  /\ \A o \in outcomes : Hits(o) \in Seq(ResultHits)
  /\ ToSet(candidates) = UNION {ToSet(Hits(o)) : o \in outcomes}

LEMMA NoOutcomes == outcomes = {} /\ candidates = <<>> => OutcomesInv
BY DEF OutcomesInv, ToSet

LEMMA TakenHits ==
  ASSUME LanesInv, Take, OutcomesInv
  PROVE  OutcomesInv'
<1> DEFINE r == Head(queue)
           o == LaneOutcome(r)
<1>1. WorkOK /\ TakenOK /\ r = queue[1] /\ 1 \in DOMAIN queue
  BY DEF LanesInv, WorkOK, Take
<1>2. r \in Results
  BY <1>1 DEF WorkOK
<1>3. Hits(o) = Hits(r)
  BY DEF Hits, LaneOutcome
<1>4. Hits(r) \in Seq(ResultHits)
  BY <1>2, HitsFacts
<1>5. candidates' = candidates \o Hits(r) /\ outcomes' = outcomes \cup {o}
  BY DEF Take
<1>6. candidates \in Seq(ResultHits)
  BY <1>1 DEF TakenOK
<1> HIDE DEF r, o
<1>7. ToSet(candidates') = ToSet(candidates) \cup ToSet(Hits(o))
  BY <1>3, <1>4, <1>5, <1>6, ConcatenatedElements
<1>8. UNION {ToSet(Hits(p)) : p \in outcomes \cup {o}}
        = (UNION {ToSet(Hits(p)) : p \in outcomes}) \cup ToSet(Hits(o))
  OBVIOUS
<1>9. ToSet(candidates)' = ToSet(candidates')
  BY DEF ToSet
<1>10. (UNION {ToSet(Hits(p)) : p \in outcomes})' = UNION {ToSet(Hits(p)) : p \in outcomes'}
  BY DEF ToSet, Hits
<1>11. \A p \in outcomes' : Hits(p) \in Seq(ResultHits)
  BY <1>3, <1>4, <1>5 DEF OutcomesInv
<1>12. QED
  BY <1>5, <1>7, <1>8, <1>9, <1>10, <1>11 DEF OutcomesInv

LEMMA OutcomesPreserved ==
  ASSUME LanesInv, [Next]_vars, OutcomesInv
  PROVE  OutcomesInv'
<1>1. CASE Take
  BY <1>1, TakenHits
<1>2. CASE outcomes' = {} /\ candidates' = <<>>
  BY <1>2 DEF OutcomesInv, ToSet
<1>3. CASE UNCHANGED <<outcomes, candidates>>
  BY <1>3 DEF OutcomesInv
<1>4. QED
  BY <1>1, <1>2, <1>3
     DEF Next, Plan, PlanningFails, Expand, BeginAttempt, StartLanes, Retrieve, GiveUp,
         EndAttempt, LanesDone, EvaluateSearch, EvaluateExpansion, Evaluated, LaneAnswers,
         Tick, Ended, vars, laneVars, stageVars

\* Every order of the answers replays the same hits.
LEMMA ReplayedHits ==
  ASSUME OutcomesInv, IsFiniteSet(outcomes), NEW order \in SetToSeqs(outcomes)
  PROVE  Replayed(order) \in Seq(ResultHits) /\ ToSet(Replayed(order)) = ToSet(candidates)
<1> DEFINE N == Cardinality(outcomes)
           lists == [n \in DOMAIN order |-> Hits(order[n])]
<1>1. N \in Nat
  BY FS_CardinalityType
<1>2. order \in [1 .. N -> outcomes] /\ \A i, j \in 1 .. N : i # j => order[i] # order[j]
  BY DEF SetToSeqs
<1>3. {order[n] : n \in 1 .. N} = outcomes
  <2>1. order \in Injection(1 .. N, outcomes)
    BY <1>2 DEF Injection, IsInjective
  <2>2. Cardinality(1 .. N) = N
    BY <1>1, FS_Interval
  <2>3. order \in Surjection(1 .. N, outcomes)
    BY <2>1, <2>2, FS_Injection
  <2>4. QED
    BY <1>2, <2>3 DEF Surjection
<1>4. lists \in Seq(Seq(ResultHits)) /\ DOMAIN lists = 1 .. N
  <2>1. \A n \in 1 .. N : Hits(order[n]) \in Seq(ResultHits)
    BY <1>2 DEF OutcomesInv
  <2>2. lists \in [1 .. N -> Seq(ResultHits)]
    BY <1>2, <2>1
  <2>3. QED
    BY <1>1, <2>2
<1>5. Replayed(order) = FlattenSeq(lists)
  BY DEF Replayed
<1>6. UNION {ToSet(lists[n]) : n \in DOMAIN lists} = UNION {ToSet(Hits(o)) : o \in outcomes}
  <2>1. \A n \in 1 .. N : lists[n] = Hits(order[n])
    BY <1>2
  <2> HIDE DEF lists
  <2>2. {ToSet(lists[n]) : n \in DOMAIN lists} = {ToSet(Hits(o)) : o \in outcomes}
    BY <1>3, <1>4, <2>1
  <2>3. QED
    BY <2>2
<1> HIDE DEF lists
<1>7. QED
  BY <1>4, <1>5, <1>6, FlattenedElements DEF OutcomesInv

\* Two pools that hold the same repositories with the same evidence.
SameEvidence(one, other) ==
  /\ DOMAIN one = DOMAIN other
  /\ \A r \in DOMAIN one :
       /\ one[r].queries = other[r].queries
       /\ one[r].evidence = other[r].evidence
       /\ one[r].ranks = other[r].ranks
       /\ one[r].origins = other[r].origins
       /\ Score(one[r], <<query>>) = Score(other[r], <<query>>)

OrderLeavesNoTrace ==
  pc = "retrieving" /\ waiting = 0 =>
    \A order \in SetToSeqs(outcomes) :
      SameEvidence(MergeHits(Replayed(order)), MergeHits(candidates))

\* In whatever order the lanes answered, an attempt finds the same repositories
\* by the same queries, with the same evidence, the same best ranks and the same
\* scores (merge.py:merge_retrieval_hits).
THEOREM OrderOfAnswersLeavesNoTrace == Spec => []OrderLeavesNoTrace
<1>1. Init => OutcomesInv
  BY NoOutcomes DEF Init, LanesInit
<1>2. IInv /\ OutcomesInv /\ [Next]_vars => OutcomesInv'
  BY OutcomesPreserved DEF IInv
<1>3. ASSUME IInv, OutcomesInv PROVE OrderLeavesNoTrace
  <2>1. IsFiniteSet(outcomes) /\ candidates \in Seq(ResultHits)
    BY <1>3 DEF IInv, LanesInv, TakenOK
  <2>2. ASSUME NEW order \in SetToSeqs(outcomes)
        PROVE  SameEvidence(MergeHits(Replayed(order)), MergeHits(candidates))
    <3> DEFINE one == MergeHits(Replayed(order))
               other == MergeHits(candidates)
               found == ToSet(candidates)
    <3>1. Replayed(order) \in Seq(ResultHits) /\ ToSet(Replayed(order)) = found
      BY <1>3, <2>1, ReplayedHits
    <3>2. MadeOf(one, found) /\ MadeOf(other, found)
      BY <2>1, <3>1, PoolIsMadeOfItsHits
    <3> HIDE DEF one, other, found
    <3>3. DOMAIN one = DOMAIN other
      BY <3>2 DEF MadeOf
    <3>4. ASSUME NEW r \in DOMAIN one
          PROVE  /\ one[r].queries = other[r].queries
                 /\ one[r].evidence = other[r].evidence
                 /\ one[r].ranks = other[r].ranks
                 /\ one[r].origins = other[r].origins
      BY <3>2, <3>3 DEF MadeOf
    <3>5. \A r \in DOMAIN one : Score(one[r], <<query>>) = Score(other[r], <<query>>)
      BY <3>4, ScoreOfEvidence
    <3>6. QED
      BY <3>3, <3>4, <3>5 DEF SameEvidence, one, other
  <2>3. QED
    BY <2>2 DEF OrderLeavesNoTrace
<1>4. QED
  BY <1>1, <1>2, <1>3, Invariance, PTL DEF Spec

-----------------------------------------------------------------------------
(* What a signal says after the hits were merged *)

\* A text that names a path, or a longer one of the same kind, is taken.
Over(text, other) ==
  \/ text.path # NoPath /\ other.path = NoPath
  \/ /\ (text.path = NoPath) <=> (other.path = NoPath)
     /\ text.length > other.length

LEMMA RicherIsOver ==
  ASSUME NEW first, NEW second
  PROVE  RicherText(first, second) = IF Over(second, first) THEN second ELSE first
BY DEF RicherText, Over

Preferred(s, t) == IF Longer(s, t) THEN t ELSE s
Secondary(s, t) == IF Longer(s, t) THEN s ELSE t

LEMMA MergedSignal ==
  ASSUME NEW s, NEW t, IsSignal(s), IsSignal(t)
  PROVE  LET m == MergeSignals(s, t)
             p == Preferred(s, t)
             o == Secondary(s, t)
         IN /\ IsSignal(m)
            /\ m.query = p.query /\ m.title = p.title
            /\ m.topics = p.topics \cup o.topics
            /\ m.language = (p.language \/ o.language)
            /\ m.text = RicherText(p.text, o.text)
<1> DEFINE m == MergeSignals(s, t)
           p == Preferred(s, t)
           o == Secondary(s, t)
           topics == p.topics \cup o.topics
           language == p.language \/ o.language
           stars == IF o.stars > p.stars THEN o.stars ELSE p.stars
           text == RicherText(p.text, o.text)
<1>1. m = [p EXCEPT !.topics = topics, !.language = language, !.stars = stars, !.text = text]
  BY DEF MergeSignals, Preferred, Secondary
<1>2. IsSignal(p) /\ IsSignal(o)
  BY DEF Preferred, Secondary
<1>3. language \in BOOLEAN
  OBVIOUS
<1>4. text.length \in Nat
  BY <1>2 DEF RicherText, IsSignal
<1> HIDE DEF m, p, o, topics, language, stars, text
<1>5. /\ m.query = p.query /\ m.title = p.title /\ m.topics = topics
      /\ m.language = language /\ m.text = text /\ DOMAIN m = DOMAIN p
  BY <1>1, <1>2 DEF IsSignal
<1>6. IsSignal(m)
  BY <1>2, <1>3, <1>4, <1>5 DEF IsSignal
<1>7. QED
  BY <1>5, <1>6 DEF m, p, o, topics, language, text

\* Signals that admission, ranking and a later merge cannot tell apart.
SameSignal(s, t) ==
  /\ s.query = t.query /\ s.title = t.title /\ s.topics = t.topics
  /\ s.language = t.language /\ s.text = t.text

LEMMA MergingSameSignals ==
  ASSUME NEW e, NEW s, NEW t, IsSignal(e), IsSignal(s), IsSignal(t), SameSignal(s, t)
  PROVE  SameSignal(MergeSignals(e, s), MergeSignals(e, t))
<1>1. Longer(e, s) <=> Longer(e, t)
  BY DEF Longer, SameSignal
<1> DEFINE m == MergeSignals(e, s)
           n == MergeSignals(e, t)
<1>2. /\ m.query = Preferred(e, s).query /\ m.title = Preferred(e, s).title
      /\ m.topics = Preferred(e, s).topics \cup Secondary(e, s).topics
      /\ m.language = (Preferred(e, s).language \/ Secondary(e, s).language)
      /\ m.text = RicherText(Preferred(e, s).text, Secondary(e, s).text)
  BY MergedSignal
<1>3. /\ n.query = Preferred(e, t).query /\ n.title = Preferred(e, t).title
      /\ n.topics = Preferred(e, t).topics \cup Secondary(e, t).topics
      /\ n.language = (Preferred(e, t).language \/ Secondary(e, t).language)
      /\ n.text = RicherText(Preferred(e, t).text, Secondary(e, t).text)
  BY MergedSignal
<1> HIDE DEF m, n
<1>4. CASE Longer(e, s)
  <2>1. /\ Preferred(e, s) = s /\ Secondary(e, s) = e
        /\ Preferred(e, t) = t /\ Secondary(e, t) = e
    BY <1>1, <1>4 DEF Preferred, Secondary
  <2>2. QED
    BY <1>2, <1>3, <2>1 DEF SameSignal, m, n
<1>5. CASE ~Longer(e, s)
  <2>1. /\ Preferred(e, s) = e /\ Secondary(e, s) = s
        /\ Preferred(e, t) = e /\ Secondary(e, t) = t
    BY <1>1, <1>5 DEF Preferred, Secondary
  <2>2. QED
    BY <1>2, <1>3, <2>1 DEF SameSignal, m, n
<1>6. QED
  BY <1>4, <1>5

\* Hits of one attempt: they answer the same query, and name a repository alike.
OfOneQuery(found) ==
  /\ \A h \in found : IsSignal(h.signal) /\ QueryLength[h.signal.query] \in Nat
  /\ \A g \in found, h \in found :
       /\ g.signal.query = h.signal.query
       /\ g.repository = h.repository => g.signal.title = h.signal.title

\* The text of the hit at k: the first of those that no other is over.
IsFirstOver(hits, K, k) ==
  \A j \in K :
    IF j < k THEN Over(hits[k].signal.text, hits[j].signal.text)
    ELSE ~Over(hits[j].signal.text, hits[k].signal.text)

\* The signals that the first n hits make.
Tells(pool, hits, n) ==
  \A r \in DOMAIN pool :
    /\ IsSignal(pool[r].signal)
    /\ \A k \in Of(hits, n, r) : /\ pool[r].signal.query = hits[k].signal.query
                                 /\ pool[r].signal.title = hits[k].signal.title
    /\ pool[r].signal.topics = UNION {hits[k].signal.topics : k \in Of(hits, n, r)}
    /\ pool[r].signal.language <=> \E k \in Of(hits, n, r) : hits[k].signal.language
    /\ \E k \in Of(hits, n, r) : /\ pool[r].signal.text = hits[k].signal.text
                                 /\ IsFirstOver(hits, Of(hits, n, r), k)

LEMMA OverIsAnOrder ==
  ASSUME NEW s, NEW t, NEW u,
         s.length \in Nat, t.length \in Nat, u.length \in Nat
  PROVE  /\ ~Over(s, s)
         /\ Over(s, t) /\ Over(t, u) => Over(s, u)
         /\ Over(s, t) /\ ~Over(u, t) => Over(s, u)
BY DEF Over

LEMMA OverIsAsymmetric ==
  ASSUME NEW s, NEW t, s.length \in Nat, t.length \in Nat
  PROVE  ~(Over(s, t) /\ Over(t, s))
BY DEF Over

\* The first text that is over all others stays so, or the next one takes its place.
LEMMA FirstOverOfMore ==
  ASSUME NEW hits, NEW n \in Nat, NEW K \in SUBSET (1 .. n), NEW k \in K,
         \A j \in K \cup {n + 1} : hits[j].signal.text.length \in Nat,
         IsFirstOver(hits, K, k)
  PROVE  IF Over(hits[n + 1].signal.text, hits[k].signal.text)
         THEN IsFirstOver(hits, K \cup {n + 1}, n + 1)
         ELSE IsFirstOver(hits, K \cup {n + 1}, k)
<1> DEFINE T(j) == hits[j].signal.text
<1>1. n + 1 > k /\ ~(n + 1 < k) /\ \A j \in K : j < n + 1 /\ j \in Nat
  OBVIOUS
<1>2. CASE Over(T(n + 1), T(k))
  <2>1. ASSUME NEW j \in K PROVE Over(T(n + 1), T(j))
    <3>1. T(j).length \in Nat /\ T(k).length \in Nat /\ T(n + 1).length \in Nat
      OBVIOUS
    <3>2. Over(T(k), T(j)) \/ ~Over(T(j), T(k))
      BY DEF IsFirstOver
    <3> HIDE DEF T
    <3>3. QED
      BY <1>2, <3>1, <3>2, OverIsAnOrder
  <2>2. ~Over(T(n + 1), T(n + 1))
    <3>1. T(n + 1).length \in Nat
      OBVIOUS
    <3> HIDE DEF T
    <3>2. QED
      BY <3>1, OverIsAnOrder
  <2>3. QED
    BY <1>1, <1>2, <2>1, <2>2 DEF IsFirstOver
<1>3. CASE ~Over(T(n + 1), T(k))
  BY <1>1, <1>3 DEF IsFirstOver
<1>4. QED
  BY <1>2, <1>3

LEMMA OneMoreSignal ==
  ASSUME NEW hits, NEW n \in Nat, NEW pool,
         OfOneQuery({hits[k] : k \in 1 .. n + 1}),
         DOMAIN pool = {hits[k].repository : k \in 1 .. n}, Tells(pool, hits, n)
  PROVE  Tells(MergePools(pool, [r \in {hits[n + 1].repository} |-> FromHit(hits[n + 1])]),
               hits, n + 1)
<1> DEFINE h == hits[n + 1]
           R == h.repository
           K == Of(hits, n, R)
           single == [r \in {R} |-> FromHit(h)]
           more == MergePools(pool, single)
           S(k) == hits[k].signal
<1>1. 1 .. n + 1 = (1 .. n) \cup {n + 1} /\ n + 1 \notin 1 .. n
  OBVIOUS
<1>2. /\ Of(hits, n + 1, R) = K \cup {n + 1} /\ K \in SUBSET (1 .. n)
      /\ \A r : r # R => Of(hits, n + 1, r) = Of(hits, n, r)
  BY <1>1 DEF Of
<1>3. DOMAIN more = DOMAIN pool \cup {R} /\ DOMAIN single = {R} /\ single[R] = FromHit(h)
  BY DEF MergePools
<1>4. ASSUME NEW r \in DOMAIN more, r # R
      PROVE  r \in DOMAIN pool /\ more[r] = pool[r] /\ Of(hits, n + 1, r) = Of(hits, n, r)
  BY <1>2, <1>3, <1>4 DEF MergePools
<1>5. \A k \in 1 .. n + 1 : IsSignal(S(k)) /\ QueryLength[S(k).query] \in Nat
                            /\ S(k).query = S(n + 1).query
  BY <1>1 DEF OfOneQuery
<1>6. \A k \in K : S(k).title = S(n + 1).title
  BY <1>1, <1>2 DEF OfOneQuery, Of
<1>7. FromHit(h).signal = S(n + 1)
  BY DEF FromHit
<1> DEFINE Good(s, L) ==
      /\ IsSignal(s)
      /\ \A k \in L : s.query = S(k).query /\ s.title = S(k).title
      /\ s.topics = UNION {S(k).topics : k \in L}
      /\ s.language <=> \E k \in L : S(k).language
      /\ \E k \in L : s.text = S(k).text /\ IsFirstOver(hits, L, k)
<1>8. ASSUME R \notin DOMAIN pool PROVE Good(more[R].signal, Of(hits, n + 1, R))
  <2>1. more[R].signal = S(n + 1)
    BY <1>3, <1>7, <1>8 DEF MergePools
  <2>2. K = {}
    BY <1>8 DEF Of
  <2>3. ~Over(S(n + 1).text, S(n + 1).text)
    BY <1>5 DEF IsSignal, Over
  <2>4. IsFirstOver(hits, {n + 1}, n + 1)
    BY <2>3 DEF IsFirstOver
  <2>5. UNION {S(k).topics : k \in {n + 1}} = S(n + 1).topics
    OBVIOUS
  <2>6. IsSignal(S(n + 1))
    BY <1>1, <1>5
  <2> HIDE DEF S, more, K
  <2>7. Good(more[R].signal, {n + 1})
    BY <2>1, <2>4, <2>5, <2>6
  <2>8. QED
    BY <1>2, <2>2, <2>7
<1>9. ASSUME R \in DOMAIN pool PROVE Good(more[R].signal, Of(hits, n + 1, R))
  <2> DEFINE s == pool[R].signal
             m == MergeSignals(s, S(n + 1))
  <2>1. more[R].signal = m
    BY <1>3, <1>7, <1>9 DEF MergePools, MergeCandidates
  <2>2. Good(s, K) /\ K # {}
    BY <1>9 DEF Tells, Of
  <2>3. s.query = S(n + 1).query /\ s.title = S(n + 1).title
    BY <1>1, <1>2, <1>5, <1>6, <2>2
  <2>4. IsSignal(S(n + 1)) /\ QueryLength[S(n + 1).query] \in Nat
    BY <1>1, <1>5
  <2>5. ~Longer(s, S(n + 1))
    BY <2>3, <2>4 DEF Longer
  <2>6. Preferred(s, S(n + 1)) = s /\ Secondary(s, S(n + 1)) = S(n + 1)
    BY <2>5 DEF Preferred, Secondary
  <2>7. /\ IsSignal(m) /\ m.query = s.query /\ m.title = s.title
        /\ m.topics = s.topics \cup S(n + 1).topics
        /\ m.language = (s.language \/ S(n + 1).language)
        /\ m.text = RicherText(s.text, S(n + 1).text)
    <3>1. IsSignal(s)
      BY <2>2
    <3> DEFINE t == S(n + 1)
    <3>2. IsSignal(t) /\ Preferred(s, t) = s /\ Secondary(s, t) = t
      BY <2>4, <2>6
    <3> HIDE DEF s, t, m
    <3>3. m = MergeSignals(s, t)
      BY DEF m, t
    <3>4. /\ IsSignal(m) /\ m.query = s.query /\ m.title = s.title
          /\ m.topics = s.topics \cup t.topics
          /\ m.language = (s.language \/ t.language)
          /\ m.text = RicherText(s.text, t.text)
      BY <3>1, <3>2, <3>3, MergedSignal
    <3>5. QED
      BY <3>4 DEF t
  <2>8. UNION {S(k).topics : k \in K \cup {n + 1}}
          = (UNION {S(k).topics : k \in K}) \cup S(n + 1).topics
    OBVIOUS
  <2>9. PICK k \in K : s.text = S(k).text /\ IsFirstOver(hits, K, k)
    BY <2>2
  <2>10. \A j \in K \cup {n + 1} : hits[j].signal.text.length \in Nat
    BY <1>1, <1>2, <1>5 DEF IsSignal
  <2> DEFINE best == IF Over(S(n + 1).text, S(k).text) THEN n + 1 ELSE k
  <2>11. IsFirstOver(hits, K \cup {n + 1}, best)
    <3>1. K \in SUBSET (1 .. n) /\ k \in K /\ IsFirstOver(hits, K, k)
      BY <1>2, <2>9
    <3> HIDE DEF K
    <3>2. IF Over(hits[n + 1].signal.text, hits[k].signal.text)
          THEN IsFirstOver(hits, K \cup {n + 1}, n + 1)
          ELSE IsFirstOver(hits, K \cup {n + 1}, k)
      BY <2>10, <3>1, FirstOverOfMore
    <3>3. QED
      BY <3>2
  <2>12. m.text = S(best).text /\ best \in K \cup {n + 1}
    <3> HIDE DEF m, K, s
    <3>1. m.text = RicherText(S(k).text, S(n + 1).text)
      BY <2>7, <2>9
    <3> HIDE DEF S
    <3>2. m.text = IF Over(S(n + 1).text, S(k).text) THEN S(n + 1).text ELSE S(k).text
      BY <3>1, RicherIsOver
    <3>3. QED
      BY <3>2
  <2> HIDE DEF S, m, more, K, s, best
  <2>13. Good(m, K \cup {n + 1})
    <3>1. \A j \in K \cup {n + 1} : m.query = S(j).query /\ m.title = S(j).title
      BY <2>2, <2>3, <2>7
    <3>2. m.topics = UNION {S(j).topics : j \in K \cup {n + 1}}
      BY <2>2, <2>7, <2>8
    <3>3. m.language <=> \E j \in K \cup {n + 1} : S(j).language
      BY <2>2, <2>7
    <3>4. QED
      BY <2>7, <2>11, <2>12, <3>1, <3>2, <3>3
  <2>14. QED
    BY <1>2, <2>1, <2>13
<1>10. Good(more[R].signal, Of(hits, n + 1, R))
  <2> HIDE DEF Good, more
  <2>1. QED
    BY <1>8, <1>9
<1>11. \A r \in DOMAIN pool : Good(pool[r].signal, Of(hits, n, r))
  BY DEF Tells
<1>12. \A r \in DOMAIN more : Good(more[r].signal, Of(hits, n + 1, r))
  <2> HIDE DEF Good, more
  <2>1. QED
    BY <1>4, <1>10, <1>11
<1>13. QED
  <2> HIDE DEF more
  <2>1. Tells(more, hits, n + 1)
    BY <1>12 DEF Tells
  <2>2. QED
    BY <2>1 DEF more

LEMMA SignalsAreTold ==
  ASSUME NEW hits \in Seq(ResultHits), OfOneQuery(ToSet(hits))
  PROVE  Tells(MergeHits(hits), hits, Len(hits))
<1> DEFINE Whole(n) == DOMAIN Pools(hits)[n] = {hits[k].repository : k \in 1 .. n}
           odd == {n \in 0 .. Len(hits) : ~(Whole(n) /\ Tells(Pools(hits)[n], hits, n))}
<1>1. odd = {}
  <2> SUFFICES ASSUME odd # {} PROVE FALSE
    OBVIOUS
  <2>1. odd \in SUBSET Nat
    OBVIOUS
  <2> HIDE DEF odd
  <2>2. PICK n \in odd : \A m \in odd : n <= m
    BY <2>1, LeastNatural
  <2>3. /\ n \in 0 .. Len(hits) /\ Len(hits) \in Nat
        /\ ~(Whole(n) /\ Tells(Pools(hits)[n], hits, n))
    BY DEF odd
  <2>4. n # 0
    <3>1. Tells(NoPool, hits, 0) /\ DOMAIN NoPool = {hits[k].repository : k \in 1 .. 0}
      BY NoPoolFacts DEF Tells
    <3>2. QED
      BY <2>3, <3>1, PoolsOfHits
  <2> DEFINE m == n - 1
  <2>5. m \in 0 .. Len(hits) /\ m \in Nat /\ m + 1 = n /\ ~(n <= m)
    BY <2>3, <2>4
  <2>6. Whole(m) /\ Tells(Pools(hits)[m], hits, m)
    BY <2>2, <2>5 DEF odd
  <2>7. Pools(hits)[n] = MergePools(Pools(hits)[m],
                                    [r \in {hits[n].repository} |-> FromHit(hits[n])])
    <3>1. n \in 1 .. Len(hits)
      BY <2>3, <2>4
    <3>2. QED
      BY <2>3, <3>1, PoolsOfHits
  <2> HIDE DEF m
  <2>8. OfOneQuery({hits[k] : k \in 1 .. m + 1})
    <3>1. \A k \in 1 .. m + 1 : hits[k] \in ToSet(hits)
      BY <2>3, <2>5 DEF ToSet
    <3>2. \A h \in {hits[k] : k \in 1 .. m + 1} : h \in ToSet(hits)
      BY <3>1
    <3>3. QED
      BY <3>2 DEF OfOneQuery
  <2>9. Tells(MergePools(Pools(hits)[m],
                         [r \in {hits[m + 1].repository} |-> FromHit(hits[m + 1])]), hits, m + 1)
    BY <2>5, <2>6, <2>8, OneMoreSignal
  <2>10. DOMAIN Pools(hits)[n] = DOMAIN Pools(hits)[m] \cup {hits[n].repository}
    BY <2>7 DEF MergePools
  <2>11. 1 .. n = (1 .. m) \cup {n}
    BY <2>3, <2>5
  <2>12. Whole(n)
    BY <2>6, <2>10, <2>11
  <2>13. QED
    BY <2>3, <2>5, <2>7, <2>9, <2>12
<1>2. Len(hits) \in 0 .. Len(hits) /\ Len(hits) \in Nat
  OBVIOUS
<1>3. Tells(Pools(hits)[Len(hits)], hits, Len(hits))
  BY <1>1, <1>2
<1>4. QED
  BY <1>2, <1>3, PoolsOfHits

\* Hits of one kind of lane at one repository.
Rivals(g, h) ==
  /\ g.repository = h.repository
  /\ (g.signal.text.path = NoPath) <=> (h.signal.text.path = NoPath)

\* Rivals come in the order of their ranks.
InOrderOfRank(hits) ==
  \A j \in DOMAIN hits, k \in DOMAIN hits :
    j < k /\ Rivals(hits[j], hits[k]) => hits[j].rank < hits[k].rank

LEMMA TextsComeFromOne ==
  ASSUME NEW one \in Seq(ResultHits), NEW other \in Seq(ResultHits), ToSet(one) = ToSet(other),
         OfOneQuery(ToSet(one)), InOrderOfRank(one), InOrderOfRank(other), NEW r,
         NEW j \in Of(one, Len(one), r), IsFirstOver(one, Of(one, Len(one), r), j),
         NEW k \in Of(other, Len(other), r), IsFirstOver(other, Of(other, Len(other), r), k)
  PROVE  one[j] = other[k]
<1> DEFINE g == one[j]
           h == other[k]
<1>1. /\ j \in DOMAIN one /\ g.repository = r /\ DOMAIN one = 1 .. Len(one)
      /\ k \in DOMAIN other /\ h.repository = r /\ DOMAIN other = 1 .. Len(other)
  BY DEF Of
<1>2. g \in ToSet(other) /\ h \in ToSet(one)
  BY <1>1 DEF ToSet
<1>3. PICK i \in DOMAIN one : one[i] = h
  BY <1>2 DEF ToSet
<1>4. PICK l \in DOMAIN other : other[l] = g
  BY <1>2 DEF ToSet
<1>5. i \in Of(one, Len(one), r) /\ l \in Of(other, Len(other), r)
  BY <1>1, <1>3, <1>4 DEF Of
<1>6. IF i < j THEN Over(g.signal.text, h.signal.text)
      ELSE ~Over(h.signal.text, g.signal.text)
  BY <1>3, <1>5 DEF IsFirstOver
<1>7. IF l < k THEN Over(h.signal.text, g.signal.text)
      ELSE ~Over(g.signal.text, h.signal.text)
  BY <1>4, <1>5 DEF IsFirstOver
<1>8. /\ g.signal.text.length \in Nat /\ h.signal.text.length \in Nat
      /\ g.rank \in Nat /\ h.rank \in Nat
  <2>1. g \in ToSet(one) /\ h \in ToSet(one) /\ g \in ResultHits /\ h \in ResultHits
    BY <1>1, <1>2 DEF ToSet
  <2>2. QED
    BY <2>1, HitFacts DEF OfOneQuery, IsSignal
<1>9. ~Over(g.signal.text, h.signal.text) /\ ~Over(h.signal.text, g.signal.text)
  <2>1. ~(Over(g.signal.text, h.signal.text) /\ Over(h.signal.text, g.signal.text))
    <3> HIDE DEF g, h
    <3>1. QED
      BY <1>8, OverIsAsymmetric
  <2> HIDE DEF g, h
  <2>2. QED
    BY <1>6, <1>7, <2>1
<1>10. Rivals(g, h) /\ Rivals(h, g)
  <2>1. g.repository = h.repository
    BY <1>1
  <2> HIDE DEF g, h
  <2>2. QED
    BY <1>9, <2>1 DEF Rivals, Over
<1>11. i >= j /\ l >= k /\ i \in Nat /\ j \in Nat /\ l \in Nat /\ k \in Nat
  BY <1>1, <1>3, <1>4, <1>6, <1>7, <1>9
<1>12. i = j \/ g.rank < h.rank
  BY <1>1, <1>3, <1>10, <1>11 DEF InOrderOfRank
<1>13. l = k \/ h.rank < g.rank
  BY <1>1, <1>4, <1>10, <1>11 DEF InOrderOfRank
<1>14. QED
  BY <1>3, <1>4, <1>8, <1>12, <1>13

\* Hits that are in order of rank are different hits.
LEMMA HitsAreCounted ==
  ASSUME NEW hits \in Seq(ResultHits), InOrderOfRank(hits), NEW r
  PROVE  Cardinality(Of(hits, Len(hits), r)) = Cardinality(On(ToSet(hits), r))
<1> DEFINE K == Of(hits, Len(hits), r)
           H == On(ToSet(hits), r)
           f == [k \in K |-> hits[k]]
<1>1. DOMAIN hits = 1 .. Len(hits) /\ Len(hits) \in Nat /\ K \in SUBSET (1 .. Len(hits))
  BY DEF Of
<1>2. IsFiniteSet(K)
  <2>1. IsFiniteSet(1 .. Len(hits))
    BY <1>1, FS_Interval
  <2>2. QED
    BY <1>1, <2>1, FS_Subset
<1>3. \A k \in K : hits[k] \in H
  BY <1>1 DEF Of, On, ToSet
<1>4. \A h \in H : \E k \in K : hits[k] = h
  BY <1>1 DEF Of, On, ToSet
<1>5. ASSUME NEW j \in K, NEW k \in K, hits[j] = hits[k] PROVE j = k
  <2>1. Rivals(hits[j], hits[k]) /\ Rivals(hits[k], hits[j])
    BY <1>5 DEF Rivals
  <2>2. hits[j].rank \in Nat /\ j \in DOMAIN hits /\ k \in DOMAIN hits /\ j \in Nat /\ k \in Nat
    BY <1>1, HitFacts
  <2>3. ~(j < k) /\ ~(k < j)
    BY <1>5, <2>1, <2>2 DEF InOrderOfRank
  <2>4. QED
    BY <2>2, <2>3
<1>6. f \in Bijection(K, H)
  <2>1. f \in [K -> H]
    BY <1>3
  <2>2. \A j \in K, k \in K : f[j] = f[k] => j = k
    BY <1>5
  <2>3. \A h \in H : \E k \in K : f[k] = h
    BY <1>4
  <2> HIDE DEF f, K, H
  <2>4. f \in Injection(K, H) /\ f \in Surjection(K, H)
    BY <2>1, <2>2, <2>3 DEF Injection, IsInjective, Surjection
  <2>5. QED
    BY <2>4 DEF Bijection
<1> HIDE DEF f
<1>7. ExistsBijection(K, H)
  BY <1>6 DEF ExistsBijection
<1> HIDE DEF K, H
<1>8. Cardinality(K) = Cardinality(H)
  BY <1>2, <1>7, FS_Bijection
<1>9. QED
  BY <1>8 DEF K, H

\* Candidates that admission, ranking and a later merge cannot tell apart.
Alike(c, d) ==
  /\ c.queries = d.queries /\ c.evidence = d.evidence /\ c.ranks = d.ranks
  /\ c.origins = d.origins /\ c.hits = d.hits
  /\ IsSignal(c.signal) /\ IsSignal(d.signal) /\ SameSignal(c.signal, d.signal)

LEMMA SameHitsAreAlike ==
  ASSUME NEW one \in Seq(ResultHits), NEW other \in Seq(ResultHits), ToSet(one) = ToSet(other),
         OfOneQuery(ToSet(one)), InOrderOfRank(one), InOrderOfRank(other)
  PROVE  /\ DOMAIN MergeHits(one) = DOMAIN MergeHits(other)
         /\ \A r \in DOMAIN MergeHits(one) : Alike(MergeHits(one)[r], MergeHits(other)[r])
<1> DEFINE pool == MergeHits(one)
           rest == MergeHits(other)
           found == ToSet(one)
<1>1. MadeOf(pool, found) /\ MadeOf(rest, found)
  BY PoolIsMadeOfItsHits
<1>2. Describes(pool, one, Len(one)) /\ Describes(rest, other, Len(other))
  BY HitsAreDescribed
<1>3. Tells(pool, one, Len(one)) /\ Tells(rest, other, Len(other))
  BY SignalsAreTold
<1> HIDE DEF pool, rest
<1>4. DOMAIN pool = DOMAIN rest
  BY <1>1 DEF MadeOf
<1>5. ASSUME NEW r \in DOMAIN pool
      PROVE  Alike(pool[r], rest[r])
  <2> DEFINE J == Of(one, Len(one), r)
             K == Of(other, Len(other), r)
             s == pool[r].signal
             t == rest[r].signal
  <2>1. /\ pool[r].queries = rest[r].queries /\ pool[r].evidence = rest[r].evidence
        /\ pool[r].ranks = rest[r].ranks /\ pool[r].origins = rest[r].origins
    BY <1>1, <1>4 DEF MadeOf
  <2>2. pool[r].hits = rest[r].hits
    <3>1. pool[r].hits = Cardinality(J) /\ rest[r].hits = Cardinality(K)
      BY <1>2, <1>4 DEF Describes
    <3>2. QED
      BY <3>1, HitsAreCounted
  <2>3. {one[j] : j \in J} = On(found, r) /\ {other[k] : k \in K} = On(found, r)
    <3>1. found = ToSet(one) /\ found = ToSet(other)
      OBVIOUS
    <3>2. DOMAIN one = 1 .. Len(one) /\ DOMAIN other = 1 .. Len(other)
      OBVIOUS
    <3>3. {one[j] : j \in J} = On(ToSet(one), r)
      BY <3>2 DEF Of, On, ToSet
    <3>4. {other[k] : k \in K} = On(ToSet(other), r)
      BY <3>2 DEF Of, On, ToSet
    <3> HIDE DEF J, K, found
    <3>5. QED
      BY <3>1, <3>3, <3>4
  <2>4. /\ IsSignal(s)
        /\ \A j \in J : s.query = one[j].signal.query /\ s.title = one[j].signal.title
        /\ s.topics = UNION {one[j].signal.topics : j \in J}
        /\ s.language <=> \E j \in J : one[j].signal.language
        /\ \E j \in J : s.text = one[j].signal.text /\ IsFirstOver(one, J, j)
    BY <1>3 DEF Tells
  <2>5. /\ IsSignal(t)
        /\ \A k \in K : t.query = other[k].signal.query /\ t.title = other[k].signal.title
        /\ t.topics = UNION {other[k].signal.topics : k \in K}
        /\ t.language <=> \E k \in K : other[k].signal.language
        /\ \E k \in K : t.text = other[k].signal.text /\ IsFirstOver(other, K, k)
    BY <1>3, <1>4 DEF Tells
  <2>6. PICK j \in J : s.text = one[j].signal.text /\ IsFirstOver(one, J, j)
    BY <2>4
  <2>7. PICK k \in K : t.text = other[k].signal.text /\ IsFirstOver(other, K, k)
    BY <2>5
  <2>8. one[j] = other[k]
    BY <2>6, <2>7, TextsComeFromOne
  <2>9. {one[i].signal.topics : i \in J} = {other[i].signal.topics : i \in K}
    <3>1. \A i \in J : \E l \in K : one[i] = other[l]
      BY <2>3
    <3>2. \A l \in K : \E i \in J : one[i] = other[l]
      BY <2>3
    <3> HIDE DEF J, K
    <3>3. QED
      BY <3>1, <3>2
  <2>10. (\E i \in J : one[i].signal.language) <=> (\E i \in K : other[i].signal.language)
    <3>1. \A i \in J : \E l \in K : one[i] = other[l]
      BY <2>3
    <3>2. \A l \in K : \E i \in J : one[i] = other[l]
      BY <2>3
    <3> HIDE DEF J, K
    <3>3. QED
      BY <3>1, <3>2
  <2>11. s.language = t.language
    BY <2>4, <2>5, <2>10 DEF IsSignal
  <2> HIDE DEF J, K, s, t
  <2>12. SameSignal(s, t)
    <3>1. s.query = t.query /\ s.title = t.title
      BY <2>4, <2>5, <2>8
    <3>2. s.topics = t.topics
      BY <2>4, <2>5, <2>9
    <3>3. s.text = t.text
      BY <2>6, <2>7, <2>8
    <3>4. QED
      BY <2>11, <3>1, <3>2, <3>3 DEF SameSignal
  <2>13. QED
    BY <2>1, <2>2, <2>4, <2>5, <2>12 DEF Alike, s, t
<1>6. QED
  BY <1>4, <1>5 DEF pool, rest

LEMMA AlikeCandidates ==
  ASSUME NEW c, NEW d, Alike(c, d), NEW queries, NEW r, NEW sequence
  PROVE  /\ CandidateFacts(c, queries) = CandidateFacts(d, queries)
         /\ Bucket(r, c, queries) = Bucket(r, d, queries)
         /\ Score(c, sequence) = Score(d, sequence)
<1>1. /\ c.queries = d.queries /\ c.hits = d.hits /\ c.ranks = d.ranks
      /\ c.signal.title = d.signal.title /\ c.signal.topics = d.signal.topics
      /\ c.signal.language = d.signal.language /\ c.signal.text = d.signal.text
      /\ c.evidence = d.evidence
  BY DEF Alike, SameSignal
<1>2. Channels(c) = Channels(d) /\ CurrentMatches(c, queries) = CurrentMatches(d, queries)
  BY <1>1 DEF Channels, CurrentMatches
<1>3. CandidateFacts(c, queries) = CandidateFacts(d, queries)
  BY <1>1, <1>2 DEF CandidateFacts
<1>4. Bucket(r, c, queries) = Bucket(r, d, queries)
  BY <1>3 DEF Bucket
<1>5. QED
  BY <1>1, <1>3, <1>4, ScoreOfEvidence

LEMMA MergeKeepsAlike ==
  ASSUME NEW e, NEW c, NEW d, IsSignal(e.signal), Alike(c, d)
  PROVE  Alike(MergeCandidates(e, c), MergeCandidates(e, d))
<1> DEFINE m == MergeCandidates(e, c)
           n == MergeCandidates(e, d)
<1>1. /\ m.signal = MergeSignals(e.signal, c.signal)
      /\ n.signal = MergeSignals(e.signal, d.signal)
  BY DEF MergeCandidates
<1>2. /\ m.queries = n.queries /\ m.evidence = n.evidence /\ m.ranks = n.ranks
      /\ m.origins = n.origins /\ m.hits = n.hits
  <2>1. /\ m.queries = e.queries \cup c.queries /\ m.evidence = e.evidence \cup c.evidence
        /\ m.ranks = BestRanks(e.ranks, c.ranks) /\ m.origins = e.origins \cup c.origins
        /\ m.hits = e.hits + c.hits
    BY MergedFields
  <2>2. /\ n.queries = e.queries \cup d.queries /\ n.evidence = e.evidence \cup d.evidence
        /\ n.ranks = BestRanks(e.ranks, d.ranks) /\ n.origins = e.origins \cup d.origins
        /\ n.hits = e.hits + d.hits
    BY MergedFields
  <2> HIDE DEF m, n
  <2>3. QED
    BY <2>1, <2>2 DEF Alike
<1>3. IsSignal(c.signal) /\ IsSignal(d.signal) /\ SameSignal(c.signal, d.signal)
  BY DEF Alike
<1> HIDE DEF m, n
<1>4. IsSignal(m.signal) /\ IsSignal(n.signal)
  BY <1>1, <1>3, MergedSignal
<1>5. SameSignal(m.signal, n.signal)
  BY <1>1, <1>3, MergingSameSignals
<1>6. Alike(m, n)
  BY <1>2, <1>4, <1>5 DEF Alike
<1>7. QED
  BY <1>6 DEF m, n

\* Pools of the same repositories, with candidates that cannot be told apart.
AlikePools(one, other) ==
  DOMAIN one = DOMAIN other /\ \A r \in DOMAIN one : Alike(one[r], other[r])

LEMMA AlikePoolsShowTheSame ==
  ASSUME NEW one, NEW other, AlikePools(one, other), NEW queries, NEW sequence
  PROVE  /\ Admitted(one, queries) = Admitted(other, queries)
         /\ Visible(one, sequence) = Visible(other, sequence)
<1>1. ASSUME NEW r \in DOMAIN one, NEW qs
      PROVE  /\ Bucket(r, one[r], qs) = Bucket(r, other[r], qs)
             /\ Score(one[r], sequence) = Score(other[r], sequence)
  <2>1. Alike(one[r], other[r])
    BY DEF AlikePools
  <2>2. QED
    BY <2>1, AlikeCandidates
<1>2. DOMAIN one = DOMAIN other
  BY DEF AlikePools
<1>3. ASSUME NEW qs PROVE Admitted(one, qs) = Admitted(other, qs)
  BY <1>1, <1>2 DEF Admitted
<1>4. Admitted(one, QuerySet(sequence)) \subseteq DOMAIN one
  BY DEF Admitted
<1>5. Visible(one, sequence) = Visible(other, sequence)
  BY <1>1, <1>3, <1>4 DEF Visible
<1>6. QED
  BY <1>3, <1>5

LEMMA MergedPoolsAreAlike ==
  ASSUME NEW pool, NEW one, NEW other, AlikePools(one, other),
         \A r \in DOMAIN pool : IsSignal(pool[r].signal)
  PROVE  AlikePools(MergePools(pool, one), MergePools(pool, other))
<1> DEFINE m == MergePools(pool, one)
           n == MergePools(pool, other)
<1>1. DOMAIN one = DOMAIN other /\ \A r \in DOMAIN one : Alike(one[r], other[r])
  BY DEF AlikePools
<1>2. DOMAIN m = DOMAIN pool \cup DOMAIN one /\ DOMAIN n = DOMAIN pool \cup DOMAIN one
  BY <1>1 DEF MergePools
<1>3. ASSUME NEW r \in DOMAIN m
      PROVE  Alike(m[r], n[r])
  <2>1. CASE r \notin DOMAIN one
    <3>1. m[r] = pool[r] /\ n[r] = pool[r] /\ r \in DOMAIN pool
      BY <1>1, <1>2, <2>1 DEF MergePools
    <3> HIDE DEF m, n
    <3>2. QED
      BY <3>1 DEF Alike, SameSignal
  <2>2. CASE r \in DOMAIN one /\ r \notin DOMAIN pool
    <3>1. m[r] = one[r] /\ n[r] = other[r]
      BY <1>1, <2>2 DEF MergePools
    <3> HIDE DEF m, n
    <3>2. QED
      BY <1>1, <2>2, <3>1
  <2>3. CASE r \in DOMAIN one /\ r \in DOMAIN pool
    <3>1. m[r] = MergeCandidates(pool[r], one[r]) /\ n[r] = MergeCandidates(pool[r], other[r])
      BY <1>1, <2>3 DEF MergePools
    <3> HIDE DEF m, n
    <3>2. QED
      BY <1>1, <2>3, <3>1, MergeKeepsAlike
  <2>4. QED
    BY <1>2, <2>1, <2>2, <2>3
<1> HIDE DEF m, n
<1>4. AlikePools(m, n)
  BY <1>2, <1>3 DEF AlikePools
<1>5. QED
  BY <1>4 DEF m, n

-----------------------------------------------------------------------------
(* Any order of the answers keeps the hits of each lane in their order *)

LEMMA ConcatenatedInOrder ==
  ASSUME NEW S, NEW s \in Seq(S), NEW t \in Seq(S), InOrderOfRank(s), InOrderOfRank(t),
         \A g \in ToSet(s), h \in ToSet(t) : ~Rivals(g, h)
  PROVE  InOrderOfRank(s \o t)
<1> DEFINE st == s \o t
<1>1. /\ Len(st) = Len(s) + Len(t) /\ Len(s) \in Nat /\ Len(t) \in Nat
      /\ DOMAIN s = 1 .. Len(s) /\ DOMAIN t = 1 .. Len(t) /\ DOMAIN st = 1 .. Len(st)
      /\ \A i \in DOMAIN s : st[i] = s[i]
      /\ \A i \in DOMAIN t : st[Len(s) + i] = t[i]
  OBVIOUS
<1> HIDE DEF st
<1>2. ASSUME NEW j \in DOMAIN st, NEW k \in DOMAIN st, j < k, Rivals(st[j], st[k])
      PROVE  st[j].rank < st[k].rank
  <2>1. CASE k <= Len(s)
    <3>1. j \in DOMAIN s /\ k \in DOMAIN s /\ st[j] = s[j] /\ st[k] = s[k]
      BY <1>1, <1>2, <2>1
    <3>2. QED
      BY <1>2, <3>1 DEF InOrderOfRank
  <2>2. CASE j > Len(s)
    <3> DEFINE i == j - Len(s)
               l == k - Len(s)
    <3>1. i \in DOMAIN t /\ l \in DOMAIN t /\ j = Len(s) + i /\ k = Len(s) + l /\ i < l
      BY <1>1, <1>2, <2>2
    <3> HIDE DEF i, l
    <3>2. st[j] = t[i] /\ st[k] = t[l]
      BY <1>1, <3>1
    <3>3. QED
      BY <1>2, <3>1, <3>2 DEF InOrderOfRank
  <2>3. CASE j <= Len(s) /\ k > Len(s)
    <3> DEFINE l == k - Len(s)
    <3>1. j \in DOMAIN s /\ l \in DOMAIN t /\ k = Len(s) + l
      BY <1>1, <1>2, <2>3
    <3> HIDE DEF l
    <3>2. st[j] = s[j] /\ st[k] = t[l]
      BY <1>1, <3>1
    <3>3. s[j] \in ToSet(s) /\ t[l] \in ToSet(t)
      BY <3>1 DEF ToSet
    <3>4. QED
      BY <1>2, <3>2, <3>3
  <2>4. QED
    BY <1>1, <1>2, <2>1, <2>2, <2>3
<1>3. QED
  BY <1>2 DEF InOrderOfRank, st

LEMMA FlattenedInOrder ==
  ASSUME NEW S, NEW ss \in Seq(Seq(S)), \A i \in DOMAIN ss : InOrderOfRank(ss[i]),
         \A i \in DOMAIN ss, j \in DOMAIN ss : i # j =>
           \A g \in ToSet(ss[i]), h \in ToSet(ss[j]) : ~Rivals(g, h)
  PROVE  InOrderOfRank(FlattenSeq(ss))
<1> DEFINE F == Flats(ss)
           L == Len(ss)
           Good(n) == /\ F[n] \in Seq(S) /\ InOrderOfRank(F[n])
                      /\ ToSet(F[n]) = UNION {ToSet(ss[i]) : i \in 1 .. n}
           odd == {n \in 1 .. L : ~Good(n)}
<1>1. L \in Nat /\ DOMAIN ss = 1 .. L /\ \A i \in 1 .. L : ss[i] \in Seq(S)
  OBVIOUS
<1>2. /\ FlattenSeq(ss) = IF L = 0 THEN ss ELSE F[L]
      /\ \A i \in 1 .. L : F[i] = FlatStep(ss, F, i)
  BY <1>1, FlatsOfSequence
<1> HIDE DEF F, L
<1>3. odd = {}
  <2> SUFFICES ASSUME odd # {} PROVE FALSE
    OBVIOUS
  <2>1. odd \in SUBSET Nat
    BY <1>1
  <2> HIDE DEF odd
  <2>2. PICK n \in odd : \A m \in odd : n <= m
    BY <2>1, LeastNatural
  <2>3. n \in 1 .. L /\ ~Good(n)
    BY DEF odd
  <2>4. F[n] = FlatStep(ss, F, n) /\ ss[n] \in Seq(S) /\ InOrderOfRank(ss[n])
    BY <1>1, <1>2, <2>3
  <2>5. CASE n = 1
    <3>1. F[n] = ss[1] /\ 1 .. n = {1}
      BY <2>4, <2>5 DEF FlatStep
    <3>2. UNION {ToSet(ss[i]) : i \in {1}} = ToSet(ss[1])
      OBVIOUS
    <3>3. QED
      BY <2>3, <2>4, <2>5, <3>1, <3>2
  <2>6. CASE n # 1
    <3>1. n - 1 \in 1 .. L /\ 1 .. n = (1 .. n - 1) \cup {n}
      BY <1>1, <2>3, <2>6
    <3>2. ~(n <= n - 1)
      BY <1>1, <2>3
    <3>3. Good(n - 1)
      BY <2>2, <3>1, <3>2 DEF odd
    <3>4. F[n] = F[n - 1] \o ss[n]
      BY <2>4, <2>6 DEF FlatStep
    <3>5. F[n] \in Seq(S) /\ ToSet(F[n]) = ToSet(F[n - 1]) \cup ToSet(ss[n])
      BY <2>4, <3>3, <3>4, ConcatenatedElements
    <3>6. UNION {ToSet(ss[i]) : i \in (1 .. n - 1) \cup {n}}
            = (UNION {ToSet(ss[i]) : i \in 1 .. n - 1}) \cup ToSet(ss[n])
      OBVIOUS
    <3>7. ASSUME NEW g \in ToSet(F[n - 1]), NEW h \in ToSet(ss[n])
          PROVE  ~Rivals(g, h)
      <4>1. PICK i \in 1 .. n - 1 : g \in ToSet(ss[i])
        BY <3>3
      <4>2. i \in DOMAIN ss /\ n \in DOMAIN ss /\ i # n
        BY <1>1, <2>3
      <4>3. QED
        BY <4>1, <4>2
    <3>8. InOrderOfRank(F[n])
      <4>1. F[n - 1] \in Seq(S) /\ InOrderOfRank(F[n - 1])
        BY <3>3
      <4>2. InOrderOfRank(F[n - 1] \o ss[n])
        BY <2>4, <3>7, <4>1, ConcatenatedInOrder
      <4>3. QED
        BY <3>4, <4>2
    <3>9. QED
      BY <2>3, <3>1, <3>3, <3>5, <3>6, <3>8
  <2>7. QED
    BY <2>5, <2>6
<1>4. CASE L = 0
  <2>1. FlattenSeq(ss) = <<>> /\ DOMAIN FlattenSeq(ss) = {}
    BY <1>1, <1>2, <1>4 DEF L
  <2>2. QED
    BY <2>1 DEF InOrderOfRank
<1>5. CASE L # 0
  <2>1. L \in 1 .. L
    BY <1>1, <1>5
  <2>2. Good(L)
    BY <1>3, <2>1
  <2>3. QED
    BY <1>1, <1>2, <1>5, <2>2
<1>6. QED
  BY <1>4, <1>5

\* An answer of a lane to this query.
AnswersTo(o, q) ==
  /\ o.lane \in Lanes
  /\ o.list = <<>> \/ (q \in Queries /\ o.list \in Listings[<<o.lane, q>>])

LEMMA ResultIsListed ==
  ASSUME NEW r \in Results
  PROVE  AnswersTo(r, r.query)
<1>1. PICK a \in Asked : \E d \in Discoveries(a.lane, a.query) : r = LaneResult(a, d)
  BY DEF Results
<1>2. PICK d \in Discoveries(a.lane, a.query) : r = LaneResult(a, d)
  BY <1>1
<1>3. a.lane \in Lanes /\ a.query \in Queries
  BY DEF Asked
<1>4. d.list = <<>> \/ d.list \in Listings[<<a.lane, a.query>>]
  BY DEF Discoveries
<1>5. r.lane = a.lane /\ r.query = a.query /\ r.list = d.list
  BY <1>2 DEF LaneResult
<1>6. QED
  BY <1>3, <1>4, <1>5 DEF AnswersTo

LEMMA AnsweredHits ==
  ASSUME NEW o, NEW q, AnswersTo(o, q)
  PROVE  /\ InOrderOfRank(Hits(o))
         /\ \A h \in ToSet(Hits(o)) :
              \E n \in DOMAIN o.list : /\ o.list \in Listings[<<o.lane, q>>] /\ q \in Queries
                                       /\ o.list[n] \in Items
                                       /\ h.repository = o.list[n].repository
                                       /\ h.signal = o.list[n].signal
<1>1. o.list \in Seq(Items)
  <2>1. CASE o.list = <<>>
    BY <2>1
  <2>2. CASE q \in Queries /\ o.list \in Listings[<<o.lane, q>>]
    BY <2>2, LanesAssumption DEF AnswersTo
  <2>3. QED
    BY <2>1, <2>2 DEF AnswersTo
<1>2. DOMAIN Hits(o) = DOMAIN o.list /\ DOMAIN o.list = 1 .. Len(o.list)
  BY <1>1 DEF Hits
<1>3. \A n \in DOMAIN o.list : /\ Hits(o)[n].repository = o.list[n].repository
                               /\ Hits(o)[n].signal = o.list[n].signal /\ Hits(o)[n].rank = n
                               /\ o.list[n] \in Items
  BY <1>1 DEF Hits
<1>4. InOrderOfRank(Hits(o))
  BY <1>2, <1>3 DEF InOrderOfRank
<1>5. ASSUME NEW h \in ToSet(Hits(o))
      PROVE  \E n \in DOMAIN o.list : /\ o.list \in Listings[<<o.lane, q>>] /\ q \in Queries
                                      /\ o.list[n] \in Items
                                      /\ h.repository = o.list[n].repository
                                      /\ h.signal = o.list[n].signal
  <2>1. PICK n \in DOMAIN o.list : h = Hits(o)[n]
    BY <1>2 DEF ToSet
  <2>2. o.list # <<>>
    BY <2>1
  <2>3. QED
    BY <1>3, <2>1, <2>2 DEF AnswersTo
<1>6. QED
  BY <1>4, <1>5

\* Two answers to one query name a repository alike, and are no rivals.
LEMMA AnswersAgree ==
  ASSUME NEW o, NEW p, NEW q, AnswersTo(o, q), AnswersTo(p, q),
         NEW g \in ToSet(Hits(o)), NEW h \in ToSet(Hits(p))
  PROVE  /\ IsSignal(g.signal) /\ QueryLength[g.signal.query] \in Nat
         /\ g.signal.query = h.signal.query
         /\ g.repository = h.repository => g.signal.title = h.signal.title
         /\ o.lane # p.lane => ~Rivals(g, h)
<1>1. PICK i \in DOMAIN o.list : /\ o.list \in Listings[<<o.lane, q>>] /\ q \in Queries
                                 /\ o.list[i] \in Items
                                 /\ g.repository = o.list[i].repository
                                 /\ g.signal = o.list[i].signal
  BY AnsweredHits
<1>2. PICK j \in DOMAIN p.list : /\ p.list \in Listings[<<p.lane, q>>] /\ q \in Queries
                                 /\ p.list[j] \in Items
                                 /\ h.repository = p.list[j].repository
                                 /\ h.signal = p.list[j].signal
  BY AnsweredHits
<1>3. o.lane \in Lanes /\ p.lane \in Lanes
  BY DEF AnswersTo
<1>4. g.signal.query = q /\ h.signal.query = q
  BY <1>1, <1>2, <1>3, LanesAssumption
<1>5. IsSignal(g.signal) /\ QueryLength[q] \in Nat
  BY <1>1, TextsAssumption
<1>6. g.repository = h.repository =>
        /\ g.signal.title = h.signal.title
        /\ o.lane # p.lane =>
             (g.signal.text.path = NoPath) # (h.signal.text.path = NoPath)
  <2> DEFINE one == o.list
             other == p.list
  <2>1. /\ one \in Listings[<<o.lane, q>>] /\ i \in DOMAIN one /\ q \in Queries
        /\ other \in Listings[<<p.lane, q>>] /\ j \in DOMAIN other
        /\ g.repository = one[i].repository /\ g.signal = one[i].signal
        /\ h.repository = other[j].repository /\ h.signal = other[j].signal
    BY <1>1, <1>2
  <2> HIDE DEF one, other
  <2>2. one[i].repository = other[j].repository =>
          /\ one[i].signal.title = other[j].signal.title
          /\ o.lane # p.lane => (one[i].signal.text.path = NoPath)
                                # (other[j].signal.text.path = NoPath)
    BY <1>3, <2>1, TextsAssumption
  <2>3. QED
    BY <2>1, <2>2
<1>7. QED
  BY <1>4, <1>5, <1>6 DEF Rivals

\* What was taken was listed for the query, and hits of one lane keep its order.
ListedInv ==
  /\ \A o \in outcomes : AnswersTo(o, query)
  /\ InOrderOfRank(candidates)
  /\ \A r \in DOMAIN local : IsSignal(local[r].signal)

LEMMA NothingListed ==
  ASSUME outcomes = {}, candidates = <<>>, \A r \in DOMAIN local : IsSignal(local[r].signal)
  PROVE  ListedInv
BY DEF ListedInv, InOrderOfRank

LEMMA TakingKeepsListed ==
  ASSUME LanesInv, Take, OutcomesInv, ListedInv, UNCHANGED local
  PROVE  ListedInv'
<1> DEFINE r == Head(queue)
           o == LaneOutcome(r)
<1>1. WorkOK /\ TakenOK /\ LanesAreApart /\ r = queue[1] /\ 1 \in DOMAIN queue
  BY DEF LanesInv, WorkOK, Take
<1>2. r \in Results /\ r.query = query /\ r.lane \notin Taken
  BY <1>1 DEF WorkOK, LanesAreApart
<1>3. o.lane = r.lane /\ o.list = r.list /\ Hits(o) = Hits(r)
  BY DEF Hits, LaneOutcome
<1>4. candidates' = candidates \o Hits(r) /\ outcomes' = outcomes \cup {o} /\ query' = query
  BY DEF Take
<1>5. AnswersTo(r, query)
  BY <1>2, ResultIsListed
<1>6. candidates \in Seq(ResultHits) /\ Hits(r) \in Seq(ResultHits)
  BY <1>1, <1>2, HitsFacts DEF TakenOK
<1> HIDE DEF r, o
<1>7. ASSUME NEW g \in ToSet(candidates), NEW h \in ToSet(Hits(r))
      PROVE  ~Rivals(g, h)
  <2>1. PICK p \in outcomes : g \in ToSet(Hits(p))
    BY DEF OutcomesInv
  <2>2. p.lane # r.lane
    BY <1>2, <2>1 DEF Taken
  <2>3. AnswersTo(p, query)
    BY <2>1 DEF ListedInv
  <2>4. QED
    BY <1>5, <2>1, <2>2, <2>3, AnswersAgree
<1>8. InOrderOfRank(Hits(r))
  BY <1>5, AnsweredHits
<1>9. InOrderOfRank(candidates \o Hits(r))
  BY <1>6, <1>7, <1>8, ConcatenatedInOrder DEF ListedInv
<1>10. InOrderOfRank(candidates)'
  BY <1>4, <1>9 DEF InOrderOfRank, Rivals
<1>11. \A p \in outcomes' : AnswersTo(p, query')
  BY <1>3, <1>4, <1>5 DEF ListedInv, AnswersTo
<1>12. \A k \in DOMAIN local' : IsSignal(local'[k].signal)
  BY DEF ListedInv
<1>13. QED
  BY <1>10, <1>11, <1>12 DEF ListedInv, AnswersTo, IsSignal

LEMMA ListedPreserved ==
  ASSUME LanesInv, [Next]_vars, OutcomesInv, ListedInv, StageInv
  PROVE  ListedInv'
<1> DEFINE Signals(pool) == \A r \in DOMAIN pool : IsSignal(pool[r].signal)
<1>1. CASE Retrieve /\ Take
  BY <1>1, TakingKeepsListed DEF Retrieve, stageVars
<1>2. CASE BeginAttempt
  <2>1. pc = "attempt"
    BY <1>2 DEF BeginAttempt
  <2>2. Head(pending) \in Queries
    BY <2>1, NextOfThePlan DEF StageInv
  <2>3. Signals(local')
    BY <1>2, <2>2, StageAssumption DEF BeginAttempt
  <2>4. outcomes' = {} /\ candidates' = <<>>
    BY <1>2 DEF BeginAttempt, StartLanes
  <2>5. QED
    BY <2>3, <2>4 DEF ListedInv, InOrderOfRank, IsSignal
<1>3. CASE EndAttempt
  <2>1. outcomes' = {} /\ candidates' = <<>> /\ DOMAIN local' = {}
    BY <1>3 DEF EndAttempt, LanesDone, NoPool
  <2>2. QED
    BY <2>1 DEF ListedInv, InOrderOfRank
<1>4. CASE UNCHANGED <<outcomes, candidates, query, local>>
  BY <1>4 DEF ListedInv, InOrderOfRank, Rivals, AnswersTo, IsSignal
<1>5. QED
  BY <1>1, <1>2, <1>3, <1>4
     DEF Next, Plan, PlanningFails, Expand, Retrieve, GiveUp, EvaluateSearch,
         EvaluateExpansion, Evaluated, LaneAnswers, Tick, Ended, vars, laneVars, stageVars

\* Every order of the answers keeps the hits of each lane in their order.
LEMMA ReplayedInOrder ==
  ASSUME OutcomesInv, ListedInv, IsFiniteSet(outcomes),
         \A o \in outcomes, p \in outcomes : o.lane = p.lane => o = p,
         NEW order \in SetToSeqs(outcomes)
  PROVE  InOrderOfRank(Replayed(order))
<1> DEFINE N == Cardinality(outcomes)
           lists == [n \in DOMAIN order |-> Hits(order[n])]
<1>1. N \in Nat
  BY FS_CardinalityType
<1>2. order \in [1 .. N -> outcomes] /\ \A i, j \in 1 .. N : i # j => order[i] # order[j]
  BY DEF SetToSeqs
<1>3. DOMAIN lists = 1 .. N /\ \A n \in 1 .. N : lists[n] = Hits(order[n])
  BY <1>2
<1>4. lists \in Seq(Seq(ResultHits))
  <2>1. \A n \in 1 .. N : Hits(order[n]) \in Seq(ResultHits)
    BY <1>2 DEF OutcomesInv
  <2>2. lists \in [1 .. N -> Seq(ResultHits)]
    BY <1>2, <2>1
  <2>3. QED
    BY <1>1, <2>2
<1>5. Replayed(order) = FlattenSeq(lists)
  BY DEF Replayed
<1> HIDE DEF lists, N
<1>6. \A n \in 1 .. N : order[n] \in outcomes /\ AnswersTo(order[n], query)
  BY <1>2 DEF ListedInv
<1>7. \A n \in DOMAIN lists : InOrderOfRank(lists[n])
  <2>1. ASSUME NEW n \in DOMAIN lists PROVE InOrderOfRank(lists[n])
    <3>1. AnswersTo(order[n], query) /\ lists[n] = Hits(order[n])
      BY <1>3, <1>6
    <3>2. InOrderOfRank(Hits(order[n]))
      BY <3>1, AnsweredHits
    <3>3. QED
      BY <3>1, <3>2
  <2>2. QED
    BY <2>1
<1>8. ASSUME NEW i \in DOMAIN lists, NEW j \in DOMAIN lists, i # j,
             NEW g \in ToSet(lists[i]), NEW h \in ToSet(lists[j])
      PROVE  ~Rivals(g, h)
  <2>1. order[i] \in outcomes /\ order[j] \in outcomes /\ order[i].lane # order[j].lane
    BY <1>2, <1>3, <1>6, <1>8
  <2>2. g \in ToSet(Hits(order[i])) /\ h \in ToSet(Hits(order[j]))
    BY <1>3
  <2>3. AnswersTo(order[i], query) /\ AnswersTo(order[j], query)
    BY <1>3, <1>6
  <2>4. QED
    BY <2>1, <2>2, <2>3, AnswersAgree
<1>9. InOrderOfRank(FlattenSeq(lists))
  BY <1>4, <1>7, <1>8, FlattenedInOrder
<1>10. QED
  BY <1>5, <1>9

LEMMA ReplaysAreAlike ==
  ASSUME LanesInv, OutcomesInv, ListedInv, NEW order \in SetToSeqs(outcomes)
  PROVE  AlikePools(MergeHits(Replayed(order)), MergeHits(candidates))
<1> DEFINE one == Replayed(order)
           found == ToSet(candidates)
<1>1. /\ IsFiniteSet(outcomes) /\ candidates \in Seq(ResultHits)
      /\ \A o \in outcomes, p \in outcomes : o.lane = p.lane => o = p
  BY DEF LanesInv, TakenOK
<1>2. one \in Seq(ResultHits) /\ ToSet(one) = found
  BY <1>1, ReplayedHits
<1>3. InOrderOfRank(one) /\ InOrderOfRank(candidates)
  BY <1>1, ReplayedInOrder DEF ListedInv
<1>4. OfOneQuery(found)
  <2>1. ASSUME NEW g \in found, NEW h \in found
        PROVE  /\ IsSignal(g.signal) /\ QueryLength[g.signal.query] \in Nat
               /\ g.signal.query = h.signal.query
               /\ g.repository = h.repository => g.signal.title = h.signal.title
    <3>1. PICK o \in outcomes : g \in ToSet(Hits(o))
      BY DEF OutcomesInv
    <3>2. PICK p \in outcomes : h \in ToSet(Hits(p))
      BY DEF OutcomesInv
    <3>3. AnswersTo(o, query) /\ AnswersTo(p, query)
      BY DEF ListedInv
    <3>4. QED
      BY <3>1, <3>2, <3>3, AnswersAgree
  <2> HIDE DEF found
  <2>2. QED
    BY <2>1 DEF OfOneQuery
<1> HIDE DEF one
<1>5. /\ DOMAIN MergeHits(one) = DOMAIN MergeHits(candidates)
      /\ \A r \in DOMAIN MergeHits(one) : Alike(MergeHits(one)[r], MergeHits(candidates)[r])
  BY <1>1, <1>2, <1>3, <1>4, SameHitsAreAlike
<1>6. AlikePools(MergeHits(one), MergeHits(candidates))
  BY <1>5 DEF AlikePools
<1>7. QED
  BY <1>6 DEF one

LEMMA ListedHoldsAtFirst == Init => OutcomesInv /\ ListedInv
<1> SUFFICES ASSUME Init PROVE OutcomesInv /\ ListedInv
  OBVIOUS
<1>1. outcomes = {} /\ candidates = <<>> /\ DOMAIN local = {}
  BY DEF Init, LanesInit, NoPool
<1>2. QED
  BY <1>1, NoOutcomes, NothingListed

\* The answers of the lanes in one order and in any other show the same
\* repositories while the attempt goes on, and leave the same scores, the same
\* evidence and the same facts for admission (merge.py:merge_retrieval_hits), when of
\* two lanes that list a repository one names a path and the other does not.
THEOREM ArrivalOrderDoesNotMatter == Spec => []ArrivalOrderIsIrrelevant
<1>1. Init => OutcomesInv /\ ListedInv
  BY ListedHoldsAtFirst
<1>2. IInv /\ OutcomesInv /\ ListedInv /\ [Next]_vars => OutcomesInv' /\ ListedInv'
  BY OutcomesPreserved, ListedPreserved DEF IInv, StageInv
<1>3. ASSUME IInv, OutcomesInv, ListedInv PROVE ArrivalOrderIsIrrelevant
  <2> DEFINE pool == MergeHits(candidates)
  <2>1. ASSUME NEW order \in SetToSeqs(outcomes)
        PROVE  LET other == MergeHits(Replayed(order))
               IN /\ Progress(Replayed(order)) = Progress(candidates)
                  /\ Admitted(other, {query}) = Admitted(pool, {query})
                  /\ \A r \in DOMAIN pool :
                       /\ Score(other[r], <<query>>) = Score(pool[r], <<query>>)
                       /\ other[r].evidence = pool[r].evidence
                       /\ CandidateFacts(other[r], {query}) = CandidateFacts(pool[r], {query})
    <3> DEFINE other == MergeHits(Replayed(order))
    <3>1. AlikePools(other, pool)
      BY <1>3, ReplaysAreAlike DEF IInv
    <3>2. Progress(Replayed(order)) = Visible(MergePools(local, other), <<query>>)
          /\ Progress(candidates) = Visible(MergePools(local, pool), <<query>>)
      BY DEF Progress
    <3> HIDE DEF other, pool
    <3>3. \A r \in DOMAIN local : IsSignal(local[r].signal)
      BY <1>3 DEF ListedInv
    <3>4. AlikePools(MergePools(local, other), MergePools(local, pool))
      BY <3>1, <3>3, MergedPoolsAreAlike
    <3>5. Visible(MergePools(local, other), <<query>>) = Visible(MergePools(local, pool), <<query>>)
      BY <3>4, AlikePoolsShowTheSame
    <3>6. Admitted(other, {query}) = Admitted(pool, {query})
      BY <3>1, AlikePoolsShowTheSame
    <3>7. ASSUME NEW r \in DOMAIN pool
          PROVE  /\ Score(other[r], <<query>>) = Score(pool[r], <<query>>)
                 /\ other[r].evidence = pool[r].evidence
                 /\ CandidateFacts(other[r], {query}) = CandidateFacts(pool[r], {query})
      <4>1. Alike(other[r], pool[r])
        BY <3>1 DEF AlikePools
      <4>2. QED
        BY <4>1, AlikeCandidates DEF Alike
    <3>8. QED
      BY <3>2, <3>5, <3>6, <3>7 DEF other
  <2>2. QED
    BY <2>1 DEF ArrivalOrderIsIrrelevant
<1>4. QED
  BY <1>1, <1>2, <1>3, Invariance, PTL DEF Spec

-----------------------------------------------------------------------------
(* The execution state only grows *)

SignalsOK(pool) == \A r \in DOMAIN pool : IsSignal(pool[r].signal)

LEMMA MergedSignalsAreOK ==
  ASSUME NEW a, NEW b, SignalsOK(a), SignalsOK(b)
  PROVE  SignalsOK(MergePools(a, b))
<1> DEFINE m == MergePools(a, b)
<1>1. DOMAIN m = DOMAIN a \cup DOMAIN b
  BY DEF MergePools
<1>2. ASSUME NEW r \in DOMAIN m PROVE IsSignal(m[r].signal)
  <2>1. CASE r \notin DOMAIN b
    BY <1>1, <2>1 DEF MergePools, SignalsOK
  <2>2. CASE r \notin DOMAIN a
    BY <1>1, <2>2 DEF MergePools, SignalsOK
  <2>3. CASE r \in DOMAIN a /\ r \in DOMAIN b
    <3>1. m[r].signal = MergeSignals(a[r].signal, b[r].signal)
      BY <2>3 DEF MergePools, MergeCandidates
    <3>2. IsSignal(a[r].signal) /\ IsSignal(b[r].signal)
      BY <2>3 DEF SignalsOK
    <3>3. QED
      BY <3>1, <3>2, MergedSignal
  <2>4. QED
    BY <2>1, <2>2, <2>3
<1>3. QED
  BY <1>2 DEF SignalsOK

LEMMA HitsSignalsAreOK ==
  ASSUME NEW hits \in Seq(ResultHits)
  PROVE  SignalsOK(MergeHits(hits))
<1> DEFINE odd == {n \in 0 .. Len(hits) : ~SignalsOK(Pools(hits)[n])}
<1>1. odd = {}
  <2> SUFFICES ASSUME odd # {} PROVE FALSE
    OBVIOUS
  <2>1. odd \in SUBSET Nat
    OBVIOUS
  <2> HIDE DEF odd
  <2>2. PICK n \in odd : \A m \in odd : n <= m
    BY <2>1, LeastNatural
  <2>3. n \in 0 .. Len(hits) /\ ~SignalsOK(Pools(hits)[n])
    BY DEF odd
  <2>4. n # 0
    BY <2>3, PoolsOfHits, NoPoolFacts DEF SignalsOK
  <2>5. hits[n] \in ResultHits /\ n - 1 \in 0 .. Len(hits)
    BY <2>3, <2>4
  <2>6. SignalsOK(Pools(hits)[n - 1])
    BY <2>2, <2>5 DEF odd
  <2>7. SignalsOK([r \in {hits[n].repository} |-> FromHit(hits[n])])
    <3>1. PICK o \in Results : \E k \in DOMAIN o.list : hits[n] = Hits(o)[k]
      BY <2>5 DEF ResultHits
    <3>2. PICK k \in DOMAIN o.list : hits[n] = Hits(o)[k]
      BY <3>1
    <3>3. o.list \in Seq(Items)
      BY ResultFacts
    <3>4. o.list[k] \in Items /\ hits[n].signal = o.list[k].signal
      BY <3>2, <3>3 DEF Hits
    <3>5. IsSignal(hits[n].signal)
      BY <3>4, TextsAssumption
    <3>6. FromHit(hits[n]).signal = hits[n].signal
      BY DEF FromHit
    <3>7. QED
      BY <3>5, <3>6 DEF SignalsOK
  <2>8. Pools(hits)[n] = MergePools(Pools(hits)[n - 1],
                                    [r \in {hits[n].repository} |-> FromHit(hits[n])])
    <3>1. Len(hits) \in Nat /\ n \in 1 .. Len(hits)
      BY <2>3, <2>4
    <3>2. QED
      BY <3>1, PoolsOfHits
  <2>9. QED
    BY <2>3, <2>6, <2>7, <2>8, MergedSignalsAreOK
<1>2. Len(hits) \in 0 .. Len(hits)
  OBVIOUS
<1>3. SignalsOK(Pools(hits)[Len(hits)])
  BY <1>1, <1>2
<1>4. QED
  BY <1>3, PoolsOfHits

SignalsInv == SignalsOK(local) /\ SignalsOK(execution.pool) /\ SignalsOK(staged.pool)

LEMMA SignalsHoldAtFirst == Init => SignalsInv
BY NothingIsOK, NoPoolFacts DEF Init, SignalsInv, SignalsOK

LEMMA SignalsPreserved ==
  ASSUME IInv, [Next]_vars, SignalsInv
  PROVE  SignalsInv'
<1>1. SignalsOK(local') /\ SignalsOK(execution'.pool) /\ SignalsOK(staged'.pool) => SignalsInv'
  BY DEF SignalsInv, SignalsOK, IsSignal
<1>2. SignalsOK(Nothing.pool) /\ SignalsOK(NoPool)
  BY NothingIsOK, NoPoolFacts DEF SignalsOK
<1>3. SignalsOK(local) /\ SignalsOK(execution.pool) /\ SignalsOK(staged.pool)
  BY DEF SignalsInv
<1>4. CASE BeginAttempt
  <2>1. pc = "attempt"
    BY <1>4 DEF BeginAttempt
  <2>2. Head(pending) \in Queries
    BY <2>1, NextOfThePlan DEF IInv
  <2>3. SignalsOK(local')
    BY <1>4, <2>2, StageAssumption DEF BeginAttempt, SignalsOK
  <2>4. QED
    BY <1>1, <1>3, <1>4, <2>3 DEF BeginAttempt
<1>5. CASE EndAttempt
  <2> DEFINE more == Joined(staged, AttemptOutcome)
  <2>1. candidates \in Seq(ResultHits)
    BY DEF IInv, LanesInv, TakenOK
  <2>2. AttemptOutcome.pool = MergePools(local, MergeHits(candidates))
    BY DEF AttemptOutcome
  <2>3. SignalsOK(AttemptOutcome.pool)
    BY <1>3, <2>1, <2>2, HitsSignalsAreOK, MergedSignalsAreOK
  <2>4. more.pool = MergePools(staged.pool, AttemptOutcome.pool)
    BY DEF Joined
  <2>5. SignalsOK(more.pool)
    BY <1>3, <2>3, <2>4, MergedSignalsAreOK
  <2>6. staged' = more \/ staged' = [more EXCEPT !.executed = Append(@, query)]
    BY <1>5 DEF EndAttempt
  <2>7. "pool" \in DOMAIN more
    BY DEF Joined
  <2> HIDE DEF more
  <2>8. staged'.pool = more.pool
    BY <2>6, <2>7
  <2>9. local' = NoPool /\ execution' = execution
    BY <1>5 DEF EndAttempt
  <2>10. QED
    BY <1>1, <1>2, <1>3, <2>5, <2>8, <2>9
<1>6. CASE EvaluateSearch
  BY <1>1, <1>2, <1>3, <1>6 DEF EvaluateSearch, CannotRecord, Record, Evaluated
<1>7. CASE EvaluateExpansion
  <2> DEFINE state == Joined(execution, staged)
  <2>1. state.pool = MergePools(execution.pool, staged.pool)
    BY DEF Joined
  <2>2. SignalsOK(state.pool)
    BY <1>3, <2>1, MergedSignalsAreOK
  <2>3. execution' \in {execution, state} /\ local' = local /\ staged' = Nothing
    BY <1>7 DEF EvaluateExpansion, CannotRecord, Record, Evaluated
  <2> HIDE DEF state
  <2>4. QED
    BY <1>1, <1>2, <1>3, <2>2, <2>3
<1>8. CASE UNCHANGED <<local, execution>> /\ staged' \in {staged, Nothing}
  BY <1>1, <1>2, <1>3, <1>8
<1>9. QED
  BY <1>4, <1>5, <1>6, <1>7, <1>8
     DEF Next, Plan, BeginStage, PlanningFails, Expand, Retrieve, LaneAnswers, Tick, Ended,
         vars, laneVars, stageVars

LEMMA BoundedMax ==
  ASSUME NEW S, S # {}, NEW N \in Nat, \A x \in S : x \in Nat /\ x <= N
  PROVE  Max(S) \in S /\ \A x \in S : Max(S) >= x
<1> DEFINE left == {N - x : x \in S}
<1>1. left \in SUBSET Nat /\ left # {}
  <2>1. \A x \in S : N - x \in Nat
    OBVIOUS
  <2>2. PICK x \in S : TRUE
    OBVIOUS
  <2>3. N - x \in left
    BY <2>2
  <2>4. QED
    BY <2>1, <2>3, Zenon
<1>2. PICK m \in left : \A y \in left : m <= y
  <2> HIDE DEF left
  <2>1. QED
    BY <1>1, LeastNatural
<1>3. PICK x \in S : m = N - x
  OBVIOUS
<1>4. \A y \in S : N - x <= N - y
  BY <1>2, <1>3
<1>5. \A y \in S : x >= y
  <2>1. x \in Nat /\ \A y \in S : y \in Nat /\ N - x <= N - y
    BY <1>4
  <2>2. QED
    BY <2>1
<1>6. QED
  BY <1>5 DEF Max

Small(x) == x \in Nat /\ x <= 8000

LEMMA ProductOfTwenties ==
  ASSUME NEW a \in 0 .. 20, NEW b \in 0 .. 20, NEW c \in 0 .. 20
  PROVE  Small(a * b * c)
<1> DEFINE p == a * b
           Is(n) == n \in 0 .. 400
<1>1. \A k \in 0 .. 20 : Is(a * k)
  OBVIOUS
<1>2. Is(p)
  BY <1>1
<1>3. \A n : Is(n) => Small(n * c)
  BY DEF Small
<1> HIDE DEF p, Is
<1>4. Small(p * c)
  BY <1>2, <1>3, Zenon
<1>5. QED
  BY <1>4 DEF p

\* The qualities of evidence for one query, at one place of the plan.
Qualities(candidate, q, i) ==
  {0} \cup {LocationWeight[e.location] * e.alignment * QueryPriority(i)
              : e \in {x \in candidate.evidence : x.query = q}}

LEMMA QualitiesAreSmall ==
  ASSUME NEW c, \A e \in c.evidence : ReadableEvidence(e), NEW q, NEW i \in Nat \ {0}
  PROVE  \A x \in Qualities(c, q, i) : Small(x)
<1>1. QueryPriority(i) \in 0 .. 20
  BY DEF QueryPriority
<1>2. \A l \in DOMAIN LocationWeight : LocationWeight[l] \in 0 .. 20
  BY DEF LocationWeight
<1>3. ASSUME NEW e \in c.evidence
      PROVE  Small(LocationWeight[e.location] * e.alignment * QueryPriority(i))
  <2>1. LocationWeight[e.location] \in 0 .. 20 /\ e.alignment \in 0 .. 20
    BY <1>2 DEF ReadableEvidence
  <2> DEFINE w == LocationWeight[e.location]
             a == e.alignment
             p == QueryPriority(i)
  <2>2. w \in 0 .. 20 /\ a \in 0 .. 20 /\ p \in 0 .. 20
    BY <1>1, <2>1
  <2> HIDE DEF w, a, p
  <2>3. Small(w * a * p)
    BY <2>2, ProductOfTwenties, Zenon
  <2>4. QED
    BY <2>3 DEF w, a, p
<1>4. Small(0)
  BY DEF Small
<1>5. QED
  BY <1>3, <1>4, Zenon DEF Qualities

LEMMA SmallMax ==
  ASSUME NEW S, S # {}, \A x \in S : Small(x)
  PROVE  Max(S) \in S /\ Small(Max(S)) /\ \A x \in S : x <= Max(S)
<1>1. 8000 \in Nat /\ \A x \in S : x \in Nat /\ x <= 8000
  BY DEF Small
<1>2. Max(S) \in S /\ \A x \in S : Max(S) >= x
  BY <1>1, BoundedMax
<1>3. QED
  BY <1>1, <1>2 DEF Small

\* When each of some small numbers is below one of others, so is the greatest.
LEMMA MaxOfMore ==
  ASSUME NEW S, NEW T, S # {}, T # {}, \A x \in S : Small(x), \A x \in T : Small(x),
         \A x \in S : \E y \in T : x <= y
  PROVE  Small(Max(S)) /\ Small(Max(T)) /\ Max(S) <= Max(T)
<1>1. Max(S) \in S /\ Small(Max(S))
  BY SmallMax
<1>2. Small(Max(T)) /\ \A y \in T : y <= Max(T)
  BY SmallMax
<1>3. PICK y \in T : Max(S) <= y
  BY <1>1
<1>4. Small(y) /\ y <= Max(T)
  BY <1>2
<1> DEFINE s == Max(S)
           t == Max(T)
<1>5. Small(s) /\ Small(t) /\ Small(y) /\ s <= y /\ y <= t
  BY <1>1, <1>2, <1>3, <1>4
<1> HIDE DEF s, t
<1>6. s <= t
  BY <1>5 DEF Small
<1>7. QED
  BY <1>5, <1>6 DEF s, t

\* More evidence never counts for less.
LEMMA MoreEvidenceCounts ==
  ASSUME NEW c, NEW d, c.evidence \subseteq d.evidence,
         \A e \in d.evidence : ReadableEvidence(e),
         NEW qs, NEW qt, NEW i \in Nat \ {0}, qs[i] = qt[i]
  PROVE  /\ Small(QueryQuality(c, qs, i)) /\ Small(QueryQuality(d, qt, i))
         /\ QueryQuality(c, qs, i) <= QueryQuality(d, qt, i)
<1> DEFINE S == Qualities(c, qs[i], i)
           T == Qualities(d, qt[i], i)
<1>1. QueryQuality(c, qs, i) = Max(S) /\ QueryQuality(d, qt, i) = Max(T)
  BY DEF QueryQuality, Qualities
<1>2. (\A x \in S : Small(x)) /\ (\A x \in T : Small(x))
  <2>1. \A e \in c.evidence : ReadableEvidence(e)
    OBVIOUS
  <2>2. QED
    BY <2>1, QualitiesAreSmall
<1>3. S \subseteq T /\ 0 \in S
  BY Zenon DEF Qualities
<1>4. \A x \in S : Small(x) => x <= x
  BY DEF Small
<1> HIDE DEF S, T
<1>5. S # {} /\ T # {} /\ \A x \in S : \E y \in T : x <= y
  BY <1>2, <1>3, <1>4, Zenon
<1>6. Small(Max(S)) /\ Small(Max(T)) /\ Max(S) <= Max(T)
  BY <1>2, <1>5, MaxOfMore
<1>7. QED
  BY <1>1, <1>6, Zenon

LEMMA MoreEvidenceIsStronger ==
  ASSUME NEW c, NEW d, c.evidence \subseteq d.evidence,
         \A e \in d.evidence : ReadableEvidence(e),
         NEW qs \in Seq(Queries), NEW qt \in Seq(Queries), Len(qs) <= Len(qt),
         \A i \in DOMAIN qs : qs[i] = qt[i]
  PROVE  StrongestQuality(c, qs) <= StrongestQuality(d, qt)
<1> DEFINE S == {0} \cup {QueryQuality(c, qs, i) : i \in DOMAIN qs}
           T == {0} \cup {QueryQuality(d, qt, i) : i \in DOMAIN qt}
<1>1. StrongestQuality(c, qs) = Max(S) /\ StrongestQuality(d, qt) = Max(T)
  BY DEF StrongestQuality
<1>2. DOMAIN qs \subseteq DOMAIN qt /\ \A i \in DOMAIN qt : i \in Nat \ {0}
  OBVIOUS
<1>3. ASSUME NEW i \in DOMAIN qs
      PROVE  /\ Small(QueryQuality(c, qs, i))
             /\ QueryQuality(c, qs, i) <= QueryQuality(d, qt, i)
  <2>1. i \in Nat \ {0} /\ qs[i] = qt[i]
    BY <1>2
  <2>2. QED
    BY <2>1, MoreEvidenceCounts
<1>4. ASSUME NEW i \in DOMAIN qt PROVE Small(QueryQuality(d, qt, i))
  <2>1. d.evidence \subseteq d.evidence /\ qt[i] = qt[i] /\ i \in Nat \ {0}
    BY <1>2
  <2>2. QED
    BY <2>1, MoreEvidenceCounts
<1>5. Small(0) /\ 0 <= 0
  BY DEF Small
<1>6. (\A x \in S : Small(x)) /\ (\A x \in T : Small(x))
  BY <1>3, <1>4, <1>5, Zenon
<1>7. \A x \in S : \E y \in T : x <= y
  BY <1>2, <1>3, <1>5, Zenon
<1>8. S # {} /\ T # {}
  OBVIOUS
<1> HIDE DEF S, T
<1>9. Max(S) <= Max(T)
  BY <1>6, <1>7, <1>8, MaxOfMore
<1>10. QED
  BY <1>1, <1>9, Zenon

-----------------------------------------------------------------------------
(* A stage adds to what the run has *)

\* A candidate knows at least what it knew.
Outgrows(d, c) ==
  /\ c.queries \subseteq d.queries /\ c.evidence \subseteq d.evidence
  /\ c.origins \subseteq d.origins /\ c.hits <= d.hits
  /\ \A p \in c.ranks : \E q \in d.ranks : q[1] = p[1] /\ q[2] <= p[2]
  /\ c.signal.topics \subseteq d.signal.topics
  /\ c.signal.language => d.signal.language
  /\ ~Over(c.signal.text, d.signal.text)

\* The best ranks of two sets of ranks leave none of them out.
LEMMA SomeRankIsBest ==
  ASSUME NEW S, NEW T, \A p \in S \cup T : p[2] \in Nat, NEW o \in S \cup T
  PROVE  \E b \in BestRanks(S, T) : b[1] = o[1] /\ b[2] <= o[2]
<1> DEFINE same == {p[2] : p \in {q \in S \cup T : q[1] = o[1]}}
<1>1. same \in SUBSET Nat /\ o[2] \in same
  OBVIOUS
<1>2. PICK m \in same : \A y \in same : m <= y
  BY <1>1, LeastNatural
<1>3. PICK b \in S \cup T : b[1] = o[1] /\ b[2] = m
  BY <1>2
<1>4. \A q \in S \cup T : q[1] = o[1] => m <= q[2]
  BY <1>2
<1>5. b \in BestRanks(S, T)
  BY <1>3, <1>4 DEF BestRanks
<1>6. QED
  BY <1>3, <1>4, <1>5

LEMMA OutgrowsItself ==
  ASSUME NEW c, ReadableCandidate(c), IsSignal(c.signal)
  PROVE  Outgrows(c, c)
<1>1. c.hits \in Nat /\ \A p \in c.ranks : p[2] \in Nat
  BY DEF ReadableCandidate
<1>2. ~Over(c.signal.text, c.signal.text)
  BY OverIsAnOrder DEF IsSignal
<1>3. QED
  BY <1>1, <1>2 DEF Outgrows

LEMMA MergingGrows ==
  ASSUME NEW c, NEW d, ReadableCandidate(c), ReadableCandidate(d),
         IsSignal(c.signal), IsSignal(d.signal)
  PROVE  Outgrows(MergeCandidates(c, d), c)
<1> DEFINE m == MergeCandidates(c, d)
           p == Preferred(c.signal, d.signal)
           o == Secondary(c.signal, d.signal)
<1>1. /\ m.queries = c.queries \cup d.queries /\ m.evidence = c.evidence \cup d.evidence
      /\ m.ranks = BestRanks(c.ranks, d.ranks) /\ m.origins = c.origins \cup d.origins
      /\ m.hits = c.hits + d.hits /\ m.signal = MergeSignals(c.signal, d.signal)
  BY MergedFields DEF MergeCandidates
<1>2. /\ m.signal.topics = p.topics \cup o.topics
      /\ m.signal.language = (p.language \/ o.language)
      /\ m.signal.text = RicherText(p.text, o.text)
  BY <1>1, MergedSignal
<1>3. {p, o} = {c.signal, d.signal}
  BY DEF Preferred, Secondary
<1> HIDE DEF m, p, o
<1>4. c.hits \in Nat /\ d.hits \in Nat
  BY DEF ReadableCandidate
<1>5. \A x \in c.ranks : \E y \in m.ranks : y[1] = x[1] /\ y[2] <= x[2]
  <2>1. \A x \in c.ranks \cup d.ranks : x[2] \in Nat
    BY DEF ReadableCandidate
  <2>2. QED
    BY <1>1, <2>1, SomeRankIsBest
<1>6. ~Over(c.signal.text, m.signal.text)
  <2>1. p.text.length \in Nat /\ o.text.length \in Nat
    BY <1>3 DEF IsSignal
  <2>2. ~Over(p.text, m.signal.text) /\ ~Over(o.text, m.signal.text)
    BY <1>2, <2>1, RicherIsOver, OverIsAnOrder, OverIsAsymmetric
  <2>3. c.signal = p \/ c.signal = o
    BY <1>3
  <2>4. QED
    BY <2>2, <2>3
<1>7. c.signal.topics \subseteq m.signal.topics /\ (c.signal.language => m.signal.language)
  BY <1>2, <1>3
<1>8. m.hits >= c.hits
  BY <1>1, <1>4
<1>9. QED
  BY <1>1, <1>4, <1>5, <1>6, <1>7, <1>8 DEF Outgrows, m

\* What the next stages of a run may do to what it has: they forget no
\* repository, no evidence, no query and no topic of one, make no rank worse and
\* no text poorer, and its evidence counts for no less, for each query that was
\* executed and for the best of them.
NothingIsLost ==
  /\ DOMAIN execution.pool \subseteq DOMAIN execution'.pool
  /\ Len(execution.executed) <= Len(execution'.executed)
  /\ \A r \in DOMAIN execution.pool :
       LET c == execution.pool[r]
           d == execution'.pool[r]
       IN /\ Outgrows(d, c)
          /\ StrongestQuality(c, execution.executed) <= StrongestQuality(d, execution'.executed)
          /\ \A i \in DOMAIN execution.executed :
               /\ execution'.executed[i] = execution.executed[i]
               /\ QueryQuality(c, execution.executed, i) <= QueryQuality(d, execution'.executed, i)

\* A candidate that outgrew itself is as strong, for a plan that goes on.
LEMMA OutgrownIsAsStrong ==
  ASSUME NEW c, NEW d, Outgrows(d, c), ReadableCandidate(d),
         NEW qs \in Seq(Queries), NEW qt \in Seq(Queries), Len(qs) <= Len(qt),
         \A i \in DOMAIN qs : qs[i] = qt[i]
  PROVE  /\ StrongestQuality(c, qs) <= StrongestQuality(d, qt)
         /\ \A i \in DOMAIN qs : QueryQuality(c, qs, i) <= QueryQuality(d, qt, i)
<1>1. c.evidence \subseteq d.evidence /\ \A e \in d.evidence : ReadableEvidence(e)
  BY DEF Outgrows, ReadableCandidate
<1>2. \A i \in DOMAIN qs : i \in Nat \ {0}
  OBVIOUS
<1>3. StrongestQuality(c, qs) <= StrongestQuality(d, qt)
  BY <1>1, MoreEvidenceIsStronger
<1>4. ASSUME NEW i \in DOMAIN qs
      PROVE  QueryQuality(c, qs, i) <= QueryQuality(d, qt, i)
  <2>1. i \in Nat \ {0} /\ qs[i] = qt[i]
    BY <1>2
  <2>2. QED
    BY <1>1, <2>1, MoreEvidenceCounts
<1>5. QED
  BY <1>3, <1>4

\* An execution state and one that goes on from it.
LEMMA GoingOnLosesNothing ==
  ASSUME StateOK(execution), StateOK(execution'),
         Len(execution.executed) <= Len(execution'.executed),
         \A i \in DOMAIN execution.executed : execution'.executed[i] = execution.executed[i],
         DOMAIN execution.pool \subseteq DOMAIN execution'.pool,
         \A r \in DOMAIN execution.pool : Outgrows(execution'.pool[r], execution.pool[r])
  PROVE  NothingIsLost
<1> DEFINE qs == execution.executed
           qt == execution'.executed
<1>1. qs \in Seq(Queries) /\ qt \in Seq(Queries)
  BY DEF StateOK
<1>2. Len(qs) <= Len(qt) /\ \A i \in DOMAIN qs : qs[i] = qt[i]
  OBVIOUS
<1>3. ASSUME NEW r \in DOMAIN execution.pool
      PROVE  /\ StrongestQuality(execution.pool[r], qs) <= StrongestQuality(execution'.pool[r], qt)
             /\ \A i \in DOMAIN qs : QueryQuality(execution.pool[r], qs, i)
                                       <= QueryQuality(execution'.pool[r], qt, i)
  <2> DEFINE c == execution.pool[r]
             d == execution'.pool[r]
  <2>1. Outgrows(d, c)
    OBVIOUS
  <2>2. ReadableCandidate(d)
    BY DEF StateOK, PoolOK
  <2> HIDE DEF qs, qt, c, d
  <2>3. /\ StrongestQuality(c, qs) <= StrongestQuality(d, qt)
        /\ \A i \in DOMAIN qs : QueryQuality(c, qs, i) <= QueryQuality(d, qt, i)
    BY <1>1, <1>2, <2>1, <2>2, OutgrownIsAsStrong
  <2>4. QED
    BY <2>3 DEF c, d
<1>4. QED
  BY <1>2, <1>3 DEF NothingIsLost

LEMMA ExpansionLosesNothing ==
  ASSUME IInv, IInv', SignalsInv, EvaluateExpansion
  PROVE  NothingIsLost
<1> DEFINE state == Joined(execution, staged)
<1>1. StateOK(execution) /\ StateOK(staged) /\ StateOK(execution')
  BY DEF IInv, PoolsInv
<1>2. StateOK(state) /\ state.pool = MergePools(execution.pool, staged.pool)
      /\ state.executed = execution.executed \o staged.executed
  BY <1>1, JoinedIsOK
<1>3. execution' \in {execution, state}
  BY DEF EvaluateExpansion, CannotRecord, Record
<1> HIDE DEF state
<1>4. execution.executed \in Seq(Queries) /\ staged.executed \in Seq(Queries)
  BY <1>1 DEF StateOK
<1>5. /\ Len(execution.executed) <= Len(execution'.executed)
      /\ \A i \in DOMAIN execution.executed : execution'.executed[i] = execution.executed[i]
  <2> DEFINE qs == execution.executed
             more == staged.executed
  <2>1. qs \in Seq(Queries) /\ more \in Seq(Queries)
    BY <1>4
  <2>2. execution'.executed \in {qs, qs \o more}
    BY <1>2, <1>3
  <2> HIDE DEF qs, more
  <2>3. Len(qs) <= Len(qs \o more) /\ \A i \in DOMAIN qs : (qs \o more)[i] = qs[i]
    BY <2>1
  <2>4. Len(qs) <= Len(qs)
    BY <2>1
  <2>5. QED
    BY <2>2, <2>3, <2>4 DEF qs
<1>6. DOMAIN state.pool = DOMAIN execution.pool \cup DOMAIN staged.pool
  BY <1>2 DEF MergePools
<1>7. ASSUME NEW r \in DOMAIN execution.pool
      PROVE  Outgrows(execution'.pool[r], execution.pool[r])
  <2>1. ReadableCandidate(execution.pool[r]) /\ IsSignal(execution.pool[r].signal)
    BY <1>1 DEF StateOK, PoolOK, SignalsInv, SignalsOK
  <2>2. Outgrows(execution.pool[r], execution.pool[r])
    BY <2>1, OutgrowsItself
  <2>3. Outgrows(state.pool[r], execution.pool[r])
    <3>1. CASE r \notin DOMAIN staged.pool
      <4>1. state.pool[r] = execution.pool[r]
        BY <1>2, <3>1 DEF MergePools
      <4>2. QED
        BY <2>2, <4>1
    <3>2. CASE r \in DOMAIN staged.pool
      <4>1. state.pool[r] = MergeCandidates(execution.pool[r], staged.pool[r])
        BY <1>2, <3>2 DEF MergePools
      <4>2. ReadableCandidate(staged.pool[r]) /\ IsSignal(staged.pool[r].signal)
        BY <1>1, <3>2 DEF StateOK, PoolOK, SignalsInv, SignalsOK
      <4>3. QED
        BY <2>1, <4>1, <4>2, MergingGrows
    <3>3. QED
      BY <3>1, <3>2
  <2>4. QED
    BY <1>3, <2>2, <2>3
<1>8. DOMAIN execution.pool \subseteq DOMAIN execution'.pool
  BY <1>3, <1>6
<1>9. QED
  BY <1>1, <1>5, <1>7, <1>8, GoingOnLosesNothing

LEMMA StepsLoseNothing ==
  ASSUME IInv, IInv', SignalsInv, [Next]_vars
  PROVE  NothingIsLost
<1>1. StateOK(execution) /\ StateOK(execution')
  BY DEF IInv, PoolsInv
<1>2. execution.executed \in Seq(Queries) /\ execution'.executed \in Seq(Queries)
  BY <1>1 DEF StateOK
<1>3. CASE EvaluateExpansion
  BY <1>3, ExpansionLosesNothing
<1>4. CASE EvaluateSearch
  <2>1. execution = Nothing
    BY <1>4 DEF EvaluateSearch
  <2>2. DOMAIN execution.pool = {} /\ execution.executed = <<>>
    BY <2>1, NothingIsOK, NoPoolFacts
  <2>3. QED
    BY <1>1, <1>2, <2>2, GoingOnLosesNothing
<1>5. CASE UNCHANGED execution
  <2>1. ASSUME NEW r \in DOMAIN execution.pool
        PROVE  Outgrows(execution'.pool[r], execution.pool[r])
    <3>1. ReadableCandidate(execution.pool[r]) /\ IsSignal(execution.pool[r].signal)
      BY <1>1 DEF StateOK, PoolOK, SignalsInv, SignalsOK
    <3>2. QED
      BY <1>5, <3>1, OutgrowsItself
  <2>2. Len(execution.executed) \in Nat
    BY <1>2
  <2>3. QED
    BY <1>1, <1>5, <2>1, <2>2, GoingOnLosesNothing
<1>6. QED
  BY <1>3, <1>4, <1>5
     DEF Next, Plan, BeginStage, PlanningFails, Expand, BeginAttempt, Retrieve, EndAttempt,
         LaneAnswers, Tick, Ended, vars, stageVars

\* An expansion of a run adds to what its earlier stages found: whatever lanes
\* and the catalog answer, merging them loses nothing that was known of a
\* repository, and its evidence counts for no less than before.
THEOREM ExpansionsLoseNothing == Spec => [][NothingIsLost]_vars
<1>1. Init => SignalsInv
  BY SignalsHoldAtFirst
<1>2. IInv /\ SignalsInv /\ [Next]_vars => SignalsInv'
  BY SignalsPreserved
<1>3. IInv /\ IInv' /\ SignalsInv /\ [Next]_vars => [NothingIsLost]_vars
  BY StepsLoseNothing
<1>4. QED
  BY <1>1, <1>2, <1>3, Invariance, PTL DEF Spec

-----------------------------------------------------------------------------
(* Scores *)

LEMMA Quotient ==
  ASSUME NEW x \in Nat, NEW s \in Nat \ {0}, NEW a \in Nat, x <= a * s
  PROVE  x \div s \in Nat /\ x \div s <= a
<1> DEFINE k == x \div s
<1>1. k \in Nat /\ k * s <= x
  OBVIOUS
<1>2. QED
  BY <1>1

\* A part of a number is no more than the number.
LEMMA PartOfWhole ==
  ASSUME NEW a \in Nat, NEW s \in Nat \ {0}, NEW d \in Nat, d <= s
  PROVE  (a * d) \div s \in Nat /\ (a * d) \div s <= a
<1>1. a * d \in Nat /\ a * d <= a * s
  OBVIOUS
<1>2. QED
  BY <1>1, Quotient

\* What is left uncertain after the first n queries.
BestIndex(c, queries) ==
  CHOOSE i \in DOMAIN queries : QueryQuality(c, queries, i) = StrongestQuality(c, queries)

DoubtStep(c, queries, f, n) ==
  IF n = 0 THEN 10000
  ELSE IF n = BestIndex(c, queries) THEN f[n - 1]
  ELSE (f[n - 1] * (StrongestQuality(c, queries) - QueryQuality(c, queries, n)))
         \div StrongestQuality(c, queries)

Doubts(c, queries) ==
  CHOOSE f : f = [n \in 0 .. Len(queries) |-> DoubtStep(c, queries, f, n)]

LEMMA DoubtsExist ==
  ASSUME NEW c, NEW queries, NEW N \in Nat
  PROVE  \E f : f = [n \in 0 .. N |-> DoubtStep(c, queries, f, n)]
<1> DEFINE Upto(f, n) == f = [m \in 0 .. n |-> DoubtStep(c, queries, f, m)]
           fails == {n \in Nat : ~\E f : Upto(f, n)}
<1>1. 0 \notin fails
  <2> DEFINE f == [m \in 0 .. 0 |-> 10000]
  <2>1. Upto(f, 0)
    BY DEF DoubtStep
  <2> HIDE DEF f, Upto
  <2>2. QED
    BY <2>1
<1>2. ASSUME NEW n \in Nat, NEW f, Upto(f, n)
      PROVE  \E g : Upto(g, n + 1)
  <2> DEFINE g == [m \in 0 .. n + 1 |-> IF m <= n THEN f[m] ELSE DoubtStep(c, queries, f, m)]
  <2>1. ASSUME NEW m \in 0 .. n + 1
        PROVE  g[m] = DoubtStep(c, queries, g, m)
    <3>1. m # 0 => g[m - 1] = f[m - 1]
      OBVIOUS
    <3>2. DoubtStep(c, queries, g, m) = DoubtStep(c, queries, f, m)
      <4> HIDE DEF g
      <4> DEFINE before == g[m - 1]
      <4>1. m # 0 => before = f[m - 1]
        BY <3>1
      <4>2. DoubtStep(c, queries, g, m)
              = IF m = 0 THEN 10000
                ELSE IF m = BestIndex(c, queries) THEN before
                ELSE (before * (StrongestQuality(c, queries) - QueryQuality(c, queries, m)))
                       \div StrongestQuality(c, queries)
        BY DEF DoubtStep
      <4> HIDE DEF before
      <4>3. QED
        BY <4>1, <4>2 DEF DoubtStep
    <3>3. m <= n => f[m] = DoubtStep(c, queries, f, m)
      BY <1>2
    <3>4. QED
      BY <3>2, <3>3
  <2>2. g = [m \in 0 .. n + 1 |-> g[m]]
    OBVIOUS
  <2> HIDE DEF g
  <2>3. Upto(g, n + 1)
    BY <2>1, <2>2
  <2> HIDE DEF Upto
  <2>4. QED
    BY <2>3
<1>3. fails = {}
  <2> SUFFICES ASSUME fails # {} PROVE FALSE
    OBVIOUS
  <2>1. fails \in SUBSET Nat
    OBVIOUS
  <2> HIDE DEF fails
  <2>2. PICK n \in fails : \A m \in fails : n <= m
    BY <2>1, LeastNatural
  <2>3. n \in Nat /\ n # 0
    BY <1>1, <2>1, <2>2
  <2>4. n - 1 \in Nat /\ n - 1 \notin fails
    BY <2>1, <2>2, <2>3
  <2>5. PICK f : Upto(f, n - 1)
    BY <2>4 DEF fails
  <2>6. \E g : Upto(g, (n - 1) + 1)
    BY <1>2, <2>4, <2>5
  <2>7. (n - 1) + 1 = n
    BY <2>3
  <2>8. n \notin fails
    BY <2>6, <2>7 DEF fails
  <2>9. QED
    BY <2>2, <2>8
<1>4. QED
  BY <1>3

\* Each query has a small quality, and the strongest is one of them or nought.
LEMMA StrongestIsAQuality ==
  ASSUME NEW c, ReadableCandidate(c), NEW queries \in Seq(Queries)
  PROVE  /\ Small(StrongestQuality(c, queries))
         /\ \A i \in DOMAIN queries : /\ Small(QueryQuality(c, queries, i))
                                      /\ QueryQuality(c, queries, i) <= StrongestQuality(c, queries)
<1> DEFINE S == {0} \cup {QueryQuality(c, queries, i) : i \in DOMAIN queries}
<1>1. StrongestQuality(c, queries) = Max(S)
  BY DEF StrongestQuality
<1>2. ASSUME NEW i \in DOMAIN queries PROVE Small(QueryQuality(c, queries, i))
  <2>1. /\ c.evidence \subseteq c.evidence /\ \A e \in c.evidence : ReadableEvidence(e)
        /\ i \in Nat \ {0} /\ queries[i] = queries[i]
    BY DEF ReadableCandidate
  <2>2. QED
    BY <2>1, MoreEvidenceCounts
<1>3. Small(0)
  BY DEF Small
<1>4. (\A x \in S : Small(x)) /\ S # {}
  BY <1>2, <1>3, Zenon
<1>5. \A i \in DOMAIN queries : QueryQuality(c, queries, i) \in S
  OBVIOUS
<1> HIDE DEF S
<1>6. Small(Max(S)) /\ \A x \in S : x <= Max(S)
  BY <1>4, SmallMax
<1>7. QED
  BY <1>1, <1>2, <1>5, <1>6, Zenon

Share(x) == x \in Nat /\ x <= 10000

LEMMA UncertaintyIsAShare ==
  ASSUME NEW c, ReadableCandidate(c), NEW queries \in Seq(Queries)
  PROVE  Share(Uncertainty(c, queries))
<1> DEFINE s == StrongestQuality(c, queries)
           D == Doubts(c, queries)
           odd == {n \in 0 .. Len(queries) : ~Share(D[n])}
<1>1. Small(s) /\ \A i \in DOMAIN queries : /\ Small(QueryQuality(c, queries, i))
                                            /\ QueryQuality(c, queries, i) <= s
  BY StrongestIsAQuality
<1>2. Len(queries) \in Nat /\ DOMAIN queries = 1 .. Len(queries)
  OBVIOUS
<1>3. D = [n \in 0 .. Len(queries) |-> DoubtStep(c, queries, D, n)]
  BY <1>2, DoubtsExist DEF Doubts
<1>4. Uncertainty(c, queries) = IF s = 0 THEN 10000 ELSE D[Len(queries)]
  BY DEF Uncertainty, Doubts, DoubtStep, BestIndex
<1>5. Share(10000)
  BY DEF Share
<1> HIDE DEF s, D
<1>6. \A n \in 0 .. Len(queries) : D[n] = DoubtStep(c, queries, D, n)
  BY <1>3
<1>7. ASSUME s # 0 PROVE odd = {}
  <2> SUFFICES ASSUME odd # {} PROVE FALSE
    OBVIOUS
  <2>1. odd \in SUBSET Nat
    OBVIOUS
  <2> HIDE DEF odd
  <2>2. PICK n \in odd : \A m \in odd : n <= m
    BY <2>1, LeastNatural
  <2>3. n \in 0 .. Len(queries) /\ ~Share(D[n])
    BY DEF odd
  <2>4. n # 0
    BY <1>5, <1>6, <2>3 DEF DoubtStep
  <2>5. n \in 1 .. Len(queries) /\ n - 1 \in 0 .. Len(queries) /\ n - 1 < n
    BY <1>2, <2>3, <2>4
  <2>6. Share(D[n - 1])
    BY <2>1, <2>2, <2>5 DEF odd
  <2> DEFINE a == D[n - 1]
             q == QueryQuality(c, queries, n)
  <2>7. Small(q) /\ q <= s
    BY <1>1, <1>2, <2>5
  <2>8. D[n] = a \/ D[n] = (a * (s - q)) \div s
    BY <1>6, <2>3, <2>4 DEF DoubtStep, s
  <2>9. Share(a) /\ Small(s)
    BY <1>1, <2>6
  <2> HIDE DEF a, q
  <2>10. a \in Nat /\ s \in Nat \ {0} /\ s - q \in Nat /\ s - q <= s
    BY <1>7, <2>7, <2>9 DEF Share, Small
  <2> DEFINE d == s - q
             part == (a * d) \div s
  <2>11. part \in Nat /\ part <= a
    <3> HIDE DEF d
    <3>1. d \in Nat /\ d <= s
      BY <2>10 DEF d
    <3>2. QED
      BY <2>10, <3>1, PartOfWhole
  <2>12. D[n] = a \/ D[n] = part
    BY <2>8
  <2> HIDE DEF part, d
  <2>13. Share(part)
    BY <2>9, <2>11 DEF Share
  <2>14. QED
    BY <2>3, <2>9, <2>12, <2>13, Zenon
<1>8. CASE s = 0
  BY <1>4, <1>5, <1>8
<1>9. CASE s # 0
  <2>1. Len(queries) \in 0 .. Len(queries)
    BY <1>2
  <2>2. Share(D[Len(queries)])
    BY <1>7, <1>9, <2>1
  <2>3. QED
    BY <1>4, <1>9, <2>2
<1>10. QED
  BY <1>8, <1>9

\* The points of the best evidence; those of the other queries come on top.
Points(c, queries) == (85 * StrongestQuality(c, queries)) \div 80

LEMMA ScoreIsBounded ==
  ASSUME NEW c, ReadableCandidate(c), NEW queries \in Seq(Queries)
  PROVE  /\ Points(c, queries) \in Nat /\ Share(Score(c, queries))
         /\ Points(c, queries) <= Score(c, queries)
         /\ Score(c, queries) <= Points(c, queries) + 1500
<1> DEFINE s == StrongestQuality(c, queries)
           u == Uncertainty(c, queries)
<1>1. Small(s) /\ Share(u)
  BY StrongestIsAQuality, UncertaintyIsAShare
<1>2. /\ Points(c, queries) = (85 * s) \div 80
      /\ Score(c, queries) = (85 * s) \div 80 + (1500 * (10000 - u)) \div 10000
  BY DEF Points, Score
<1> HIDE DEF s, u
<1>3. s \in Nat /\ s <= 8000 /\ u \in Nat /\ u <= 10000
  BY <1>1 DEF Small, Share
<1> DEFINE p == (85 * s) \div 80
           o == (1500 * (10000 - u)) \div 10000
<1>4. p \in Nat /\ p <= 8500
  <2> DEFINE x == 85 * s
  <2>1. x \in Nat /\ x <= 8500 * 80
    BY <1>3
  <2> HIDE DEF x
  <2>2. x \div 80 \in Nat /\ x \div 80 <= 8500
    BY <2>1, Quotient
  <2>3. QED
    BY <2>2 DEF x
<1>5. o \in Nat /\ o <= 1500
  <2> DEFINE x == 1500 * (10000 - u)
  <2>1. x \in Nat /\ x <= 1500 * 10000
    BY <1>3
  <2> HIDE DEF x
  <2>2. x \div 10000 \in Nat /\ x \div 10000 <= 1500
    BY <2>1, Quotient
  <2>3. QED
    BY <2>2 DEF x
<1>6. Points(c, queries) = p /\ Score(c, queries) = p + o
  BY <1>2
<1> HIDE DEF p, o
<1>7. p \in Nat /\ p + o \in Nat /\ p <= p + o /\ p + o <= p + 1500 /\ p + o <= 10000
  BY <1>4, <1>5
<1>8. QED
  BY <1>6, <1>7 DEF Share

LEMMA PointsGrow ==
  ASSUME NEW c, NEW d, ReadableCandidate(c), ReadableCandidate(d),
         NEW qs \in Seq(Queries), NEW qt \in Seq(Queries),
         StrongestQuality(c, qs) <= StrongestQuality(d, qt)
  PROVE  Points(c, qs) <= Points(d, qt)
<1> DEFINE s == StrongestQuality(c, qs)
           t == StrongestQuality(d, qt)
<1>1. Small(s) /\ Small(t) /\ s <= t
  BY StrongestIsAQuality
<1>2. Points(c, qs) = (85 * s) \div 80 /\ Points(d, qt) = (85 * t) \div 80
  BY DEF Points
<1> HIDE DEF s, t
<1>3. s \in Nat /\ t \in Nat
  BY <1>1 DEF Small
<1>4. (85 * s) \div 80 <= (85 * t) \div 80
  BY <1>1, <1>3
<1>5. QED
  BY <1>2, <1>4

\* What a report says of a candidate is a score that the clamp of score.py:15
\* leaves as it is.
ScoresInv ==
  \A n \in DOMAIN reports : \A r \in DOMAIN reports[n].ranking :
    Share(reports[n].ranking[r].score)

LEMMA RowsAreBounded ==
  ASSUME NEW state, StateOK(state)
  PROVE  \A r \in DOMAIN RankingRows(state) : Share(RankingRows(state)[r].score)
<1> SUFFICES ASSUME NEW r \in DOMAIN RankingRows(state)
             PROVE  Share(RankingRows(state)[r].score)
  OBVIOUS
<1>1. r \in DOMAIN state.pool
      /\ RankingRows(state)[r].score = Score(state.pool[r], state.executed)
  BY DEF RankingRows
<1>2. ReadableCandidate(state.pool[r]) /\ state.executed \in Seq(Queries)
  BY <1>1 DEF StateOK, PoolOK
<1>3. Share(Score(state.pool[r], state.executed))
  BY <1>2, ScoreIsBounded
<1>4. QED
  BY <1>1, <1>3, Zenon

LEMMA RecordKeepsScores ==
  ASSUME IInv, ScoresInv, NEW state, StateOK(state), Record(state)
  PROVE  ScoresInv'
<1> DEFINE report == StageReport(state, staged.executed)
<1>1. report.ranking = RankingRows(state)
  BY DEF StageReport
<1>2. \A r \in DOMAIN report.ranking : Share(report.ranking[r].score)
  BY <1>1, RowsAreBounded
<1>3. reports' = Append(reports, report)
  BY DEF Record
<1>4. reports \in Seq({reports[n] : n \in DOMAIN reports})
  BY DEF IInv, ReportsInv
<1> HIDE DEF report
<1>5. ASSUME NEW n \in DOMAIN reports'
      PROVE  \A r \in DOMAIN reports'[n].ranking : Share(reports'[n].ranking[r].score)
  <2>1. CASE n = Len(reports) + 1
    <3>1. reports'[n] = report
      BY <1>3, <1>4, <2>1
    <3>2. QED
      BY <1>2, <3>1
  <2>2. CASE n # Len(reports) + 1
    <3>1. n \in DOMAIN reports /\ reports'[n] = reports[n]
      BY <1>3, <1>4, <2>2
    <3>2. QED
      BY <3>1 DEF ScoresInv
  <2>3. QED
    BY <2>1, <2>2
<1>6. QED
  BY <1>5 DEF ScoresInv

LEMMA ScoresPreserved ==
  ASSUME IInv, ScoresInv, [Next]_vars
  PROVE  ScoresInv'
<1>1. StateOK(execution) /\ StateOK(staged)
  BY DEF IInv, PoolsInv
<1>2. StateOK(Joined(execution, staged))
  BY <1>1, JoinedIsOK, Zenon
<1>3. CASE UNCHANGED reports
  BY <1>3 DEF ScoresInv
<1>4. CASE EvaluateSearch
  <2>1. UNCHANGED reports \/ Record(staged)
    BY <1>4 DEF EvaluateSearch, CannotRecord
  <2>2. QED
    BY <1>1, <1>3, <2>1, RecordKeepsScores
<1>5. CASE EvaluateExpansion
  <2>1. UNCHANGED reports \/ Record(Joined(execution, staged))
    BY <1>5 DEF EvaluateExpansion, CannotRecord
  <2>2. QED
    BY <1>2, <1>3, <2>1, RecordKeepsScores
<1>6. QED
  BY <1>3, <1>4, <1>5
     DEF Next, Plan, BeginStage, PlanningFails, Expand, BeginAttempt, Retrieve, EndAttempt,
         LaneAnswers, Tick, Ended, vars, stageVars

\* Every score that a stage reports is between nought and a hundred points, so
\* the clamp that score.py:15 puts around it never changes one; ExploreStage
\* has no clamp.
THEOREM ScoresNeedNoClamp == Spec => []ScoresInv
<1>1. Init => ScoresInv
  BY DEF Init, ScoresInv
<1>2. IInv /\ ScoresInv /\ [Next]_vars => ScoresInv'
  BY ScoresPreserved
<1>3. QED
  BY <1>1, <1>2, Invariance, PTL DEF Spec

\* A repository whose best evidence alone reaches the cutoff.
StandsAlone(state, r) == Points(state.pool[r], state.executed) >= RelevanceCutoff

\* Such a repository stands alone in every later state of the run, and is shown
\* whenever it is admitted.
StrongStaysShown ==
  \A r \in DOMAIN execution.pool :
    StandsAlone(execution, r) =>
      /\ r \in DOMAIN execution'.pool /\ StandsAlone(execution', r)
      /\ r \in Admitted(execution'.pool, QuerySet(execution'.executed))
           => r \in Visible(execution'.pool, execution'.executed)

LEMMA StepsKeepTheStrong ==
  ASSUME IInv, IInv', SignalsInv, [Next]_vars
  PROVE  StrongStaysShown
<1>1. StateOK(execution) /\ StateOK(execution')
  BY DEF IInv, PoolsInv
<1>2. NothingIsLost
  BY StepsLoseNothing
<1>3. ASSUME NEW r \in DOMAIN execution.pool, StandsAlone(execution, r)
      PROVE  /\ r \in DOMAIN execution'.pool /\ StandsAlone(execution', r)
             /\ Score(execution'.pool[r], execution'.executed) >= RelevanceCutoff
  <2> DEFINE c == execution.pool[r]
             d == execution'.pool[r]
             qs == execution.executed
             qt == execution'.executed
  <2>1. r \in DOMAIN execution'.pool /\ StrongestQuality(c, qs) <= StrongestQuality(d, qt)
    BY <1>2 DEF NothingIsLost
  <2>2. ReadableCandidate(c) /\ ReadableCandidate(d)
    BY <1>1, <2>1 DEF StateOK, PoolOK
  <2>3. qs \in Seq(Queries) /\ qt \in Seq(Queries)
    BY <1>1 DEF StateOK
  <2>4. Points(c, qs) >= RelevanceCutoff
    BY <1>3 DEF StandsAlone
  <2> HIDE DEF c, d, qs, qt
  <2>5. Points(c, qs) <= Points(d, qt)
    BY <2>1, <2>2, <2>3, PointsGrow
  <2>6. /\ Points(c, qs) \in Nat /\ Points(d, qt) \in Nat /\ Share(Score(d, qt))
        /\ Points(d, qt) <= Score(d, qt)
    BY <2>2, <2>3, ScoreIsBounded
  <2>7. Points(d, qt) >= RelevanceCutoff /\ Score(d, qt) >= RelevanceCutoff
    BY <2>4, <2>5, <2>6, CutoffAssumption DEF Share
  <2>8. QED
    BY <2>1, <2>7 DEF StandsAlone, d, qt
<1>4. QED
  BY <1>3 DEF StrongStaysShown, Visible

\* A repository whose best evidence alone reaches the cutoff is in every later
\* answer of the run, unless admission turns it down: no expansion can bring its
\* score below the cutoff, although the support of other queries may count for less.
THEOREM StrongEvidenceStaysShown == Spec => [][StrongStaysShown]_vars
<1>1. Init => SignalsInv
  BY SignalsHoldAtFirst
<1>2. IInv /\ SignalsInv /\ [Next]_vars => SignalsInv'
  BY SignalsPreserved
<1>3. IInv /\ IInv' /\ SignalsInv /\ [Next]_vars => [StrongStaysShown]_vars
  BY StepsKeepTheStrong
<1>4. QED
  BY <1>1, <1>2, <1>3, Invariance, PTL DEF Spec
=============================================================================
