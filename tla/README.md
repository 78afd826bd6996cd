# SciScope in TLA+

SciScope searches scientific repositories (Explore), lets users watch
repositories, and turns releases and commits of watched repositories into a
personal Feed. Three kinds of processes share one PostgreSQL database and
nothing else: the HTTP API, the Explore worker
(`backend/app/jobs/process_search_runs.py`) and the repository monitoring scan
(`backend/app/jobs/scan_subscriptions.py`, started by a schedule). Everything
that is hard in this system happens between those processes: claims that expire
while their holder still works, requests that were checked before a lock and act
after it, checkpoints shared by users who come and go. The modules here model
that, TLC checks them on small instances, and TLAPS proves part of it for every
instance.

Paths below are relative to `src/backend/app/` unless they start with `src/`.

## 1. Inventory

| Part | State | Operations | Interacts with | Where it is modelled |
|---|---|---|---|---|
| Explore run queue: `storage/search_runs.py`, `jobs/process_search_runs.py`, `services/search/explore/jobs.py` | `search_runs`, `search_run_operations`, `search_run_stages`; per worker an attempt, a heartbeat thread and two events | create run, expand run, claim, start, execute, finish, renew, release | API and workers through rows and row locks | `SearchRunQueue`, abstractly `RunLifecycle` |
| Explore admission: `services/search/access`, `storage/search_admission.py` | `search_access_events`, the row of the admission lock; per request its visitor and tier | classify, verify a challenge, lock, decide, record | the queue (schedules in the same transaction), account deletion | `ExploreAdmission` |
| Explore service: `services/search/explore` | execution state of a run (plan, executed queries, attempts, candidates) | plan, execute the next queries, retry on timeout, merge answers, admit, rank | retrieval, AI planner, catalog, queue | `ExploreStage`; inside a worker: `SearchRunQueue` |
| Retrieval lanes: `services/search/retrieval` | threads, deadlines, a queue per attempt, statuses per source | start lanes, wait, take, give up | provider clients | `RetrievalLanes` |
| Candidates: `retrieval/merge.py`, `services/search/admission`, `services/search/ranking` | pools of candidates with their provenance | merge, admit, score | pure | `CandidatePool`, `CandidateAdmission`, `CandidateRanking` |
| Catalog: `services/search/catalog.py`, `semantic.py`, `services/repositories.py`, `storage/repositories` | profiles, search evidence, embeddings | ingest, refresh a renamed repository, backfill, repair, insert a looked-up profile, retrieve | Explore, subscriptions, scans, operators' scripts | `Catalog` |
| Monitoring: `jobs/scan_subscriptions.py`, `services/monitoring`, `storage/monitoring/state.py` | lease row, checkpoints per repository, runs, checks; per process what it has read | acquire, renew, release, read, publish, record, finish | provider, watches, Feed tables | `MonitoringScan` |
| Feed: `services/feed`, `storage/feed` | events, groups, members, read times | publish, list by page, mark read | monitoring, accounts | publication: `FeedPublication` in `MonitoringScan`; reading: `FeedReading` |
| Provider monitors: `integrations/repositories/{github,gitlab}/monitor.py` | none | page through releases and commits, compare releases | HTTP | their results are the complete and partial streams of `MonitoringScan` |
| Watches: `storage/subscriptions`, `services/subscriptions` | `repository_subscriptions` | create (idempotent), delete | scan, accounts, catalog | `MonitoringScan` beside scans, `FeedReading` beside deletions, `Catalog` for the profile |
| Accounts: `services/auth`, `storage/auth`, `api/routes/auth.py` | users, identities, sessions, cookies | sign in, log out, authenticate, delete account | every table with a `user_id` | `Accounts`, in `FeedReading`; deletion beside scans: `MonitoringScan` |
| Frontend: `src/frontend` | a polled run, optimistic Feed state | poll, expand, mark read | API | not modelled, section 12 |
| Token cache, provider clients, AI planner, Turnstile, configuration, migrations | small or pure | | | not modelled, section 12 |

What makes each part correct:

- *Queue.* Only the newest unexpired claim of an operation publishes; result,
  replay baseline, stage report and lifecycle of one attempt are stored
  together; a run has at most one live operation whatever requests race; no
  query of a plan is skipped or reported twice across crashes; every operation
  ends.
- *Monitoring.* One scan at a time has an effect; a checkpoint never goes back
  and never passes activity that a watch has not received; a run recorded as
  succeeded has caught up; every release reaches the Feed.
- *Feed.* Every event is on exactly one card, cards and the references of a
  release never change, references resolve.
- *Admission.* However requests race, no visitor exceeds its quota or breaks its
  cooldown, and all together stay within the capacity; a denied visitor is told
  how long to wait.
- *Explore.* A late lane neither blocks nor changes an answer that was given; the
  order in which lanes answer does not matter; an expansion hides nothing that
  was shown; what a stage stores, the next one can read; a search ends.
- *Catalog.* Nothing in it is about what is not there, wherever an ingestion was
  cut off; maintenance never overwrites what is newer.
- *Accounts.* A sign-in ends in a session of the user its identity is linked to,
  and what a cut-off sign-in left never keeps its owner out.
- *Reading.* Paging covers what stays where it is, once; what was read stays so.

`PROJECT.json` lists the same parts with their files and, under "hazards", the
lines where these can go wrong.

## 2. Plan

1. `SearchRunQueue` with `RunLifecycle`: the durable queue. Done.
2. `SearchRunQueueProofs`: type correctness, one live operation, claim
   discipline, fenced publication, no resurrection. Done.
3. `FeedPublication`, `MonitoringScan`: lease, checkpoints, publication, watches,
   account deletion. Done.
4. `ExploreAdmission`: quota windows, cooldowns and capacity under the admission
   lock. Done.
5. `CandidatePool`, `CandidateAdmission`, `CandidateRanking`, `RetrievalLanes`,
   `ExploreStage`: one search from its plan to its answers. Done.
6. `Catalog`: ingestion, maintenance and retrieval over three tables. Done.
7. `Accounts`, `FeedReading`: concurrent sign-ins, sessions, deletion, paging and
   read marks. Done.
8. `FeedReadingProofs`: types, whose session a sign-in ends in, why one fails,
   what a deletion leaves, that what was read stays read, and that paging shows
   what stays in its place once. Done.
9. `SearchRunReplayProofs`: what a replay may store and the refinement of
   `RunLifecycle`; in `SearchRunQueueProofs`, that only faults cause retries. Done.
10. `ExploreAdmissionProofs`: quota, capacity and cooldown in every window. Done.
11. `MonitoringScanProofs`, `MonitoringCheckpointProofs`: types, cards, references,
    checkpoints and succeeded runs. Done.
12. `CatalogProofs`: every property of the catalog. Done.
13. `ExploreStageProofs`: whose answers a coordinator takes, what makes an attempt
    time out, what a stage leaves, that the order of answers changes nothing that is
    shown, that expansions lose nothing, and the bounds of scores. Done.
14. Left: provider paging; `ExploreAdmission` composed with the queue; the parts of
    `ExpansionOnlyAdds` that no theorem states (section 10).

Which module uses which: `RetrievalLanes` extends `CandidateRanking`, that
`CandidateAdmission`, that `CandidatePool`, and `ExploreStage` extends
`RetrievalLanes`; `Catalog` extends `CandidatePool`, because a retrieval answers
with a pool of candidates; `FeedReading` extends `Accounts`; `MonitoringScan`
extends `FeedPublication`; `SearchRunQueue` instantiates `RunLifecycle` under its
refinement mapping. An `MC` module gives constants their values and, where the
code reaches an interesting past only after many steps, initial states that are
such pasts.

## 3. The queue: `SearchRunQueue`

State: `run` and `op` are the rows; `attempt[w]` is what worker `w` holds in
memory, with `pc` for its main thread, `hb` and `lost` for its heartbeat thread;
`asked[c]` is a request between the unlocked pre-check and the locked commit of
`expand_explore_search_run`; `scheduled` orders `queued_at`; `nextToken` stands
for `uuid4`.

| Action | Code |
|---|---|
| `CreateRun`, `PrecheckExpand`, `CommitExpand`, `RefuseExpand` | `create_explore_search_run`, `expand_explore_search_run`, `storage/search_admission.py` |
| `Claim` | `claim_next_search_run_operation` (`FOR UPDATE SKIP LOCKED`, oldest first) |
| `BeginStart`/`CommitStart`, `BeginFinish`/`CommitFinish`, `RollBack` | `start_…`, `finish_search_run_operation` inside `_owned_operation_session` |
| `Execute` | `run_explore_search`, `expand_explore_search`: any outcome they can leave behind |
| `Discard`, `Release` | `ensure_lease`, the worker's `finally` |
| `BeginRenew`, `CommitRenew`, `HeartbeatFails` | `_renew_lease_until_finished`, `renew_search_run_operation_lease` |
| `PersistenceFails`, `Crash`, `Tick` | the error path of the worker, a killed process, database time |

Modelling decisions:

- A transaction is one step unless time matters inside it. An owned transaction
  checks its lease twice, at its opening and before its commit, and the lease may
  run out in between; so it is two steps, the row lock held from one to the other.
- The remaining lease is a number of ticks. The heartbeat renews only after an
  interval, so only when a tick has passed; an attended lease that nevertheless
  runs out (the process or the database was too slow) is a fault.
- Faults (crash, `PersistenceError`, failing or late heartbeat) share the budget
  `MaxFaults`; nothing else bounds when they happen.
- Plans and executed queries are their lengths; a stage report is the interval
  of the plan it executed. Texts, timings, error fields and planner identity are
  left out. The branch for a run that is already terminal when an operation
  starts is kept although no behaviour reaches it.
- Under contention `SKIP LOCKED` relaxes the claim order: the oldest *unlocked*
  claimable operation is taken, as in the code.

Properties. `OneLiveOperation`, `ClaimDiscipline`, `StageLedger`,
`CanExpandIsHonest`, `RetriesNeedFaults` (invariants); `FencedPublication`,
`ExpiredClaimIsDead` (actions); `EveryOperationEnds` (liveness);
`RefinesLifecycle`, `RefinesFairLifecycle`: the queue implements `RunLifecycle`,
the life of a run as API clients are promised it, under the mapping of each run's
row to its status and state.

Fairness. A worker keeps working and is restarted by its supervisor:
`SF_vars(Work(w))`, strong because a worker may wait again and again for a row
lock that its own heartbeat takes, and PostgreSQL queues lock waiters. A renewal
statement ends, time passes. Requests and faults are not fair.

## 4. Monitoring: `FeedPublication`, `MonitoringScan`

`FeedPublication` holds the pure policy: which facts a comparison adds
(`Supplemental`), which commits a release card may claim (`Claimants`), and the
cards of one publication (`NewCards`). `MonitoringScan` is the system around it:

| Variable | Code |
|---|---|
| `lease` | `monitoring_job_leases`; one key stands for holder and token |
| `cursor` | three checkpoints of a repository: release time, commit time, commit SHA |
| `watch`, `account` | `repository_subscriptions`, `users` |
| `scanner` | what a process holds: listed watches, repositories to do, what it has read |
| `runRow` | the last monitoring run of each process |
| `events`, `refs`, `cards` | Feed events, comparison references of releases, groups with members |
| `released`, `branch`, `date` | the provider: releases with their times, the default branch, commit dates |

| Action | Code |
|---|---|
| `Acquire`, `Renew`, `Release` | `acquire_`, `renew_`, `release_monitoring_job_lease`, the heartbeat |
| `Start` | `create_monitoring_run`, then the list of watches |
| `Read` | `_scan_repository` up to the provider's answer: two streams, complete or partial |
| `Persist` | `enrich_release_events`, `persist_repository_monitoring_result`, all in one transaction |
| `RecordCheck`, `Finish`, `RunFails`, `RepositoryFails`, `Discard` | the loop of `scan_repository_subscriptions` and its error paths |
| `Subscribe`, `Unsubscribe`, `DeleteAccount` | `create_subscription`, `delete_subscription_for_user`, `delete_user_account` |
| `PublishRelease`, `Push`, `Rewrite` | the provider |

Modelling decisions:

- An owned transaction locks the lease row, so nobody else can change what it
  reads between its two lease checks; it is decided by the last one and is one
  step here. The comparison of releases before it only reads, and nobody else
  inserts events under a live claim, so it is merged into the same step.
- Time is whole seconds, as releases and watches carry them, and stops at
  `MaxTime`; a lease tick takes at least a second of it. A release may be
  published in the second in which a watch is created or a scan reads.
- A release carries the time at which it becomes visible. Releases that a
  provider dates back, and checkpoints of an older format without a commit SHA,
  are not modelled. Commits may be older than their push.
- A comparison confirms any set of pushed commits. At most two releases are
  compared in a scan, so the limit of five comparisons is never reached: a
  release that is not compared is one that confirms nothing.
- Keys are reused once nothing refers to them, which keeps the state space
  finite without limiting the number of scans.
- `base` and `raced` in a watch row are history: the checkpoint when the watch
  appeared, and whether a scan was in progress that had listed the watches and not
  yet published this repository (`Unpublished`; the scan may be busy with other
  repositories). No action reads them.
- Account deletion is one step. The refresh of a redirected repository profile is
  left out; that it fails is `RepositoryFails`.

`MCMonitoringCards` begins with a repository whose past is over: either one member
whose activity is all to come (the other member has come and gone), or two members
whose only coming release is the second, the commit and the faults being behind
them. Both are states the program reaches; beginning there leaves the steps of the
bounded run to what the cards are about.

Properties. `CheckpointsSkipNothing`, `CardsPartitionEvents`, `ReferencesResolve`,
`SucceededRunsCaughtUp` (invariants); `CheckpointsOnlyAdvance`, `PublishedIsFinal`
(actions); `EveryReleaseArrives` (liveness). `CardsPartitionEvents` implies that
the conflict branch of `write_feed_update_groups` is out of reach of any scan.
`CheckpointsSkipNothing` is claimed for the watches that did not appear in the
middle of a scan; section 11 shows why.

Fairness. The schedule keeps starting scans, provider calls have timeouts and
statements end: `WF` on each process's steps and on its heartbeat, and time
passes. Users, the provider and faults are not fair.

## 5. Admission: `ExploreAdmission`

`clock` counts ticks of `TicksPerSecond`, because decisions compare microseconds
and announce whole seconds. `lock` is the holder of the one row of
`search_access_lock`; `request[q]` is what an API request holds; `events` are the
committed audit rows, each named after the request that wrote it; `erased` is
what an open account deletion has deleted and not committed.

| Action | Code |
|---|---|
| `Arrive`, `Verified`, `VerificationFails` | `prepare_explore_admission`: visitor, tier and challenge, before any lock |
| `Lock`, `Consider`, `Commit`, `RollBack` | `explore_admission_transaction` around `record_explore_admission` |
| `BeginDelete`, `CommitDelete` | `delete_user_account` |
| `Tick`, `Idle` | time; no request in progress |

Modelling decisions:

- The transaction is three steps because time passes between taking the lock,
  reading clock and usage, and the commit. The four statements of `read_usage` are
  one step: only an account deletion can commit between them.
- A request is answered once; `Requests` bounds how many there are. Limits are
  positive, as `config.py` enforces; the 60 seconds of a suspicious visitor are a
  constant.
- An admitted request of an account that is deleted meanwhile may commit or not. A
  direct search (`POST /api/explore/search`) commits its audit row alone, which has no
  foreign key to `users`. A search that is scheduled rolls back (`RollBack`): the run
  refers to the account, and the run it expands is no longer the visitor's.
- The run and the operation that commit with an admission are in
  `SearchRunQueue`; there admission is a yes or a no.

Properties. `QuotaHolds`, `CapacityHolds`, `CooldownHolds` speak of every window
that ends with an admitted search, not of the reading a decision was based on. A
guest may change its tier between two searches, so its limits are the most
generous ones of a guest. No fairness: nothing is claimed about a request that
the server stops working on.

## 6. A search: `ExploreStage` and the modules below it

`CandidatePool` is the merge of hits and pools (`retrieval/merge.py`,
`evidence.py`), `CandidateAdmission` and `CandidateRanking` the verdict and the
score of a candidate, all of them operators. `RetrievalLanes` is one attempt:

| Variable | Code |
|---|---|
| `serial`, `queue` | the attempt, and the `Queue` that its lane threads were given |
| `threads` | lane threads at work, those of earlier attempts included: they are daemons |
| `elapsed` | time since `attempt_started_at`, against the soft and the hard deadline |
| `waiting`, `candidates`, `statuses`, `successes`, `partial`, `warned`, `outcomes` | the locals of `discover_candidates_across_sources` |

`StartLanes`, `LaneAnswers`, `Take`, `GiveUp` and `Tick` are `start_lane_worker`,
`_run_lane_worker`, `consume_lane_result`, the branch `except Empty` and the clock.
`ExploreStage` is the coordinator around it: `Plan`, `PlanningFails`,
`BeginAttempt`, `EndAttempt` (retry, the next query, or evaluate),
`EvaluateSearch`, `Expand`, `EvaluateExpansion`; `execution` is what
`execution.py` stores between two stages.

Modelling decisions:

- A text is the set of its words, with its length where merging compares lengths;
  the lists of words, names and paths that scoring looks for are constants.
- A lane lists, fails with the status of a `RepositorySourceError`, crashes, or
  never answers. What it lists is one of `Listings`.
- An answer that is in the queue is taken even after the deadline: that is what
  `Queue.get` does with the remaining timeout.
- Ranks begin at one, as `execution.py` demands of a stored candidate; a piece of
  evidence without a rank (`None` in the code) has rank nought.
- Where the code compares only the first of two equal values, the model keeps the
  first; `ArrivalOrderIsIrrelevant` says what may not depend on it: what is shown,
  scores, evidence and the facts that admission looks at. The text that is
  displayed may.
- `TextsAssumption` says what the order may not matter for: who lists a repository
  gives its full name as the title (`repositories/common/factories.py`), and of two
  lanes that list it for one query exactly one names a path. A source has at most
  two lanes (`composition/search.py`): its code search writes the line "Matched code
  path:", its repository search does not, and identifiers of repositories belong to
  one source. Two things are taken from the providers here: a code search never
  answers with an empty path, and a repository is not renamed between two requests of
  one attempt.
- The score has no clamp to 0..100 although `score.py` has one; `ScoresNeedNoClamp`
  (section 10) is why. `CutoffAssumption` (0 to 100 points) is what `config.py` and
  `ranking/service.py` demand of the cutoff.

Fairness. `WF` on the coordinator's moves and on time, none on lanes: they may
hang for ever, and `SearchEnds` holds all the same.

## 7. The catalog: `Catalog`

`rows`, `evidence`, `profileVectors` and `queryVectors` are the three tables and
the two kinds of embedding. An ingestion is the sequence of the transactions of
`persist_catalog_candidates` and `persist_semantic_catalog_documents`, each split
where it has loaded rows and not yet flushed them: `LoadProfiles`,
`StoreProfiles`, `LoadEvidence`, `StoreEvidence`, `EmbedQueries`,
`FilterProfiles`, `StoreVectors`; `Backfill` enters at the embeddings. A scan that
found a repository renamed writes its profile in the same way and nothing else
(`Refresh`). `Fail` cuts a writer off anywhere. Beside them run the profile repair (`TakeSnapshot`,
`FetchForRepair`, `Repair`), the lookup of a new subscription (`LookUp`,
`InsertIfAbsent`), the edits of a profile at its provider, and a retrieval
(`Ask`, `ReadRows`, `ReadEvidence`, `ReadSimilarQueries`, `ReadSimilarProfiles`,
`ReadRepositories`) whose reads are separate transactions.

Modelling decisions:

- READ COMMITTED without row locks: what was loaded may be old when it is
  flushed. SQLAlchemy writes the columns that differ from what it loaded, hence
  `Rewritten`, column by column: two writers that loaded one row may leave one with
  columns of both, and a text to search by (`search`, a column of its own) that is
  not the text of the other columns. A repair and a lookup write every column in one
  statement (`Store`). A counter is the loaded one plus its increment, hence `Counted`.
- The session does not flush before a query (`autoflush=False`), so a pending row
  is not found by its key: `RowsConflict`, `EvidenceConflict`.
- A profile has the columns that a retrieval reads and `updated`, the number of its
  last edit, for the provider's time; `revision` stands for `updated_at`, which every
  writer sets. An embedding is the text columns that were embedded. Texts are similar
  when they share a word. A find names one repository, one query and a rank from one
  on.
- `log` and `offered` are history: for each repository what was stored, by whom,
  how much of it the writer had seen and of which edit it was, in the order of the
  commits; and the pieces of evidence committed. No action reads them.

`HitsAreOffered` allows the hits that two concurrent ingestions lose, as the code
does, and no invented one. `NothingNewerIsLost` is about the log, not about the
revision that a repair compares: whatever maintenance stored had been preceded only
by profiles it had seen when it read the repository, and by no later edit. It holds
because every writer changes the revision and because maintenance reads the table
before it asks the provider. Ingestions and scans give no such promise: a slow one
may store an older edit over a newer one.

## 8. Members: `Accounts`, `FeedReading`

A sign-in is a flow through `Begin`, `Callback` and the transactions of
`upsert_google_user` (`LookUpLink`, `LookUpEmail`, `RefreshUser` or `CreateUser`,
`RefreshLink` or `CreateLink`) to `CreateSession`; the number of a flow is its
state, its nonce and the token of its session. `jar` holds the cookies of a
browser, `request` the user that the browser's request was authenticated as: a
request is two steps, because authentication is a transaction of its own and
nothing looks at the account again. `FeedReading` adds `StartWalk` and `NextPage`
(one page of the events, of the cards, or of the commits of a card), `LoadMark`
and `StoreMark` (one event, read and then written unlocked), `MarkAll`,
`MarkCard`, `Watch`, `Unwatch`, the statements of an account deletion
(`StartDeletion`, `DeleteCards`, `DeleteEvents`, `DeleteWatches`, `CommitDeletion`,
`AbortDeletion`), and the scans as far as they change a Feed (`Publish`, `Refresh`).

Modelling decisions:

- An account deletion is one transaction, but READ COMMITTED: each of its statements
  sees what is committed when it runs. `deletions` holds which tables it has passed
  and the rows it has deleted, which others see until `CommitDeletion` and wait for
  when they would change them (`LockedCards`, `LockedEvents`, `LockedWatch`). A rival
  deletion of the same account waits likewise. `AbortDeletion` is a crash, an outage,
  or a deadlock that the database breaks.
- A scan that publishes between the deletion of the cards and that of the events
  leaves cards without members, which the reader is never shown (`husks`): events take
  their rows in `feed_update_group_members` with them, not the card.
- A page of the commits of a card is one step, although
  `get_feed_group_detail_payload` reads the card and its commits in two transactions.
  Of the first the second uses the kind and the references of the card, which never
  change while there is a card; when it was deleted in between the page is empty.
- A member creates the watch once; a watch that is created again is a new row, and
  is in `MonitoringScan`.
- A cursor is the position of the last row shown; ties are broken by numbers. A
  walk records (`due`, `moved`) what was listed when it began and what has changed
  its place since: history for `PagesCoverOnce`.
- `disturbed` in a flow is history: another flow or a deletion wrote, or something
  broke, since it came back from Google.
- `late` is history: the tables in which something was stored for an account after
  its deletion had passed them, before or after its commit. That this happens at all is
  the finding of `monitoring_erasure`; `ErasureIsWhole` says of each table that nothing
  else remains.
- `MCFeedReading` begins with two browsers that nobody has signed in, without a
  Feed to read, or with two devices signed in to one account.

## 9. Runs

| Run | Instance | What it shows |
|---|---|---|
| `queue_safety` | 2 workers, 2 expansion requests, 1 run with 3 operations, plan of 3, lease of 2 ticks, 1 fault | all safety properties of the queue and the refinement |
| `queue_liveness` | 1 worker, 1 client, 2 runs, 2 operations, plan of 2, 1 fault, fair | every operation ends, every run starts and ends |
| `monitoring_lease` | 2 scanners, 1 watch, 2 releases, lease of 2 ticks, 1 fault | takeovers: checkpoints do not go back, succeeded runs have caught up |
| `monitoring_cards` | 1 scanner, 2 members with a watch each, 2 releases, 1 commit, 1 fault, two pasts | cards partition events, references resolve, publications are final, checkpoints skip nothing |
| `monitoring_liveness` | 1 scanner, 1 watch, 2 releases, lease of 1 tick, 2 faults, fair | every release arrives |
| `admission` | 4 requests, half-second ticks, a window of 4 ticks in a time of 6, a user, an internal user, a guest that may become suspicious | quotas, cooldowns and capacity hold in every window |
| `explore` | 2 queries, 2 lanes of one source, 2 attempts each, 2 repositories, a catalog that knows one of them or none, an expansion | the properties of section 6 |
| `catalog` | 2 ingestions, 2 repositories, one edited twice at its provider, 2 queries, 3 jobs begun in all, 1 failure | the properties of section 7 |
| `members` | 2 browsers, 1 identity, 2 addresses, 3 facts on 2 cards, 1 watch, pages of one, 1 failure, 1 edit, deletions from both browsers | the properties of section 8 |
| `monitoring_served`, `monitoring_erasure`, `catalog_retries` | smallest that show it | the three findings of section 11 |

Why the bounds are enough. The hazards of the queue need two attempts of one
operation, a third claim to see whether the second was protected, an expansion
after a completed run and a rival request: two workers, three operations and two
clients give every one of them. One fault takes the first claim from its worker, and
a worker that then comes late is no further fault; the third query lets an attempt
advance by one or by two. An operation that fails for ever needs endless faults
and is in no run. A monitoring takeover needs two processes and
one fault; a shared checkpoint needs two watches; two releases or commits give
order, equal times and a commit claimed twice; three seconds give a before, a
same and an after. A quota or cooldown is broken by two requests after the one or
two that use it up, so four requests suffice, and a clock two ticks longer than the
window lets the first search leave it and its visitor be admitted again. A search needs two lanes of one source, so
that statuses merge and answers overtake each other, two queries, so that a stage
goes on after a timeout and an expansion has something left, and a second attempt,
so that a thread of the first is late. Two ingestions or scans race for one row; a third
job is the repair, lookup or retrieval beside them, and two edits let a writer come
with the middle one of three versions. Two browsers race in one sign-in, or in the
deletion of one account, and a page of one turns three events into three requests
between which everything else happens.

Deadlock is checked in every run of the queue, of monitoring, of admission and of
a search: idle workers poll (`PollEmpty`), the API waits for requests (`Idle`), the
schedule always has a scan to start, a search that is over stays so (`Ended`).
`Catalog` and `FeedReading` really stop when their bounds are used up.

Every property has a mutant in `PROJECT.json`: a definition changed as a
plausible bug would (`Bug:` in the modules), under which TLC finds the property
violated.

## 10. Proofs

`SearchRunQueueProofs` proves, for every number of workers, clients, runs and
operations, every plan length, lease duration and fault budget:

| Theorem | Statement |
|---|---|
| `TypeCorrectness` | `Spec => []TypeOK` |
| `OneLiveOperationHolds` | `Spec => []OneLiveOperation` |
| `ClaimDisciplineHolds` | `Spec => []ClaimDiscipline` |
| `FencedPublicationHolds` | `Spec => FencedPublication` |
| `ExpiredClaimIsDeadHolds` | `Spec => ExpiredClaimIsDead` |

Assumptions: `QueueAssumptions` only (NULL is no identifier, finitely many
operations, positive bounds).

The invariant is `IndInv`, the conjunction of `TypeOK`, `References` (an
operation that exists belongs to a run that exists), `OneLiveOperation`,
`ClaimDiscipline` and `ResultReady` (an attempt that is about to publish carries
a terminal result). None of the properties is inductive alone: that finishing an
operation leaves its run without a live one needs `OneLiveOperation` for the
other operations and a terminal outcome from `ResultReady`; that a commit acts on
a live operation needs the claim that `ClaimDiscipline` says a row lock protects;
and that a fresh token is unique needs its bound by `nextToken`. Each part has a
lemma with one step per action; the theorems combine them.

`SearchRunReplayProofs` and the last part of `SearchRunQueueProofs` build on it, for
the same instances and under the same assumptions:

| Theorem | Module | Statement |
|---|---|---|
| `StageLedgerHolds` | `SearchRunReplayProofs` | `Spec => []StageLedger` |
| `CanExpandIsHonestHolds` | `SearchRunReplayProofs` | `Spec => []CanExpandIsHonest` |
| `LifecycleRefined` | `SearchRunReplayProofs` | `Spec => RefinesLifecycle` |
| `RetriesNeedFaultsHolds` | `SearchRunQueueProofs` | `Spec => []RetriesNeedFaults` |

What a commit stores is right only if the attempt worked from what is stored now.
So `ReplayInv` adds to `IndInv` that a run whose first search has not ended has
nothing stored and that an expansion is in progress only on a running run with
pending queries (`FreshRuns`), and that the owner of a claim it has started holds
the stored state or an outcome produced from it (`Baselines`). A worker that was
superseded is not constrained: its commit is refused. Claim and takeover keep
`Baselines` because whoever claims has not started, the commit of the owner because
no other worker owns the operation or any other operation of a live run
(`OneLiveOperation`). The refinement then has one case for each action that changes
a row of `search_runs`; all others are stutters of `RunLifecycle`.

`RetriesNeedFaults` counts, and an inductive invariant has to count what may still
happen: `Exposed` are the running operations whose lease has run out or that no
attempt covers any more, the ones another worker may come to claim. `Budget` says
that the claims given out and the exposed operations together are no more than the
operations ever claimed and the faults so far. Only a fault exposes an operation, a
claim takes it from the exposed or from the queued, and an ended heartbeat stays
ended (`LostIsOff`).

`ExploreAdmissionProofs` proves, for every set of requests and visitors, every
limit, cooldown, window and resolution of the clock:

| Theorem | Statement |
|---|---|
| `TypeCorrect` | `Spec => []TypeOK` |
| `QuotaAlwaysHolds` | `Spec => []QuotaHolds` |
| `CapacityAlwaysHolds` | `Spec => []CapacityHolds` |
| `CooldownAlwaysHolds` | `Spec => []CooldownHolds` |

Assumptions: `AdmissionAssumptions`, of which the proofs need that limits are
positive and that a suspicious guest's cooldown is no shorter than a guest's.

The limits speak of the times of decisions, and rows are committed later. The
invariant therefore says of a decision that has not committed (`Room`) that
everything admitted so far is no younger than it, and that it still fits: fewer
admissions in its window than the limits, and the last one a cooldown ago. That
stays true until its commit because only the holder of the lock adds an admission
(`Locking`) and an account deletion only takes some away (`FitsShrink`); at the
commit the new row is the latest, so the only windows that change are those that
end at its time (`LimitsGrow`). Usage that was counted for the tier of a guest is
compared with the limits of any guest (`LimitsType`).

`FeedReadingProofs` proves, for every number of browsers, subjects, addresses,
flows, users, facts, cards and scans, every page size, every lifetime of cookies
and sessions, and every number of failures and edits:

| Theorem | Statement |
|---|---|
| `TypesHold` | `Spec => []TypeOK` |
| `SignInsAreOwn` | `Spec => SignInIsOwn` |
| `FailuresHaveReasons` | `Spec => FailuresAreExplained` |
| `DeletionsErase` | `Spec => []ErasureIsWhole` |
| `ReadsLast` | `Spec => ReadIsForever` |
| `PagesCover` | `Spec => []PagesCoverOnce` |

Assumptions: `AccountsAssumption` and `FeedReadingAssumption` (positive bounds,
what the functions of a Feed map to what, numbers for facts and cards, which are
finitely many, no address that is NULL). `Spec` begins
without accounts; the run also begins with two devices of one member.

The invariant is again called `IndInv`. For the accounts it says, beside the
types: what a flow knows in each phase (`FlowsKnow`), that flows begin in their
order and the cookies of a browser are those of its latest one (`FlowsInOrder`,
which is why a mismatch means another flow), that the link of a flow that is about
to store its session is still there while its user is (`LinksLast`, which is why
the session is its own: links are only taken away with their user, and users never
come back under their number), and that what a flow has read is still so while
nobody has written since (`ReadsHold`, which is why a flow that fails was
disturbed). For the Feed, `FeedsKnow` says that an identifier which was not given
away has neither a watch nor a Feed, so that a new account begins with an empty
one. `DeletionsSee` is about deletions under way: what is in a table that one has
passed it has deleted, or it has missed something there. So at its commit only a table
in which it missed something still has rows, and that is what `late` records; a rival
deletion of the same account that commits first only takes rows away. Each action has a
lemma that it keeps the invariant, and where a property asks for it one that says
what the action does to the state.

Paging has an invariant of its own, `PagesInv`. What was due or seen and did not
move is listed at its place, before the cursor when it was seen and after it when it
was not (`Kept`). That rests on the order of the rows being total (`BeforeIsAnOrder`:
times, and numbers among equal times), on what a page is (`PageShows`: the first
`Limit` rows behind the cursor, the last of them becoming the cursor when there are
more, whose existence is a fact about finite orders, `NthPlace`), and on what other
actions may do to a row between two pages: leave it in its place or put it into
`moved`.

`MonitoringScanProofs` and `MonitoringCheckpointProofs` prove, for every number of scan processes, members, watches, repositories,
releases and commits, every lease duration, time bound and fault budget:

| Theorem | Module | Statement |
|---|---|---|
| `TypeCorrect` | `MonitoringScanProofs` | `Spec => []TypeOK` |
| `CardsAlwaysPartitionEvents` | `MonitoringScanProofs` | `Spec => []CardsPartitionEvents` |
| `ReferencesAlwaysResolve` | `MonitoringScanProofs` | `Spec => []ReferencesResolve` |
| `PublicationsStayFinal` | `MonitoringScanProofs` | `Spec => PublishedIsFinal` |
| `CheckpointsGoForward` | `MonitoringScanProofs` | `Spec => CheckpointsOnlyAdvance` |
| `CheckpointsNeverSkip` | `MonitoringCheckpointProofs` | `Spec => []CheckpointsSkipNothing` |
| `SucceededRunsAreCaughtUp` | `MonitoringCheckpointProofs` | `Spec => []SucceededRunsCaughtUp` |

Assumptions: `FeedAssumptions` (no item is a release and a commit) and
`ScanAssumptions` (NULL and the root commit are nothing else, finitely many
processes, watches and items, positive bounds). Finiteness is needed for a fresh
identifier to exist and for the events of a scan to be counted.

The proofs build on each other in four layers, each an inductive invariant under
the ones before.

- *Working and Publications* (`MonitoringScanProofs`). A watch that exists has a
  repository, a process reads what it has listed, every process in progress has an
  identifier of its own, and a card of commits that carries a process's identifier
  is of a repository that this process has published (`Names`): so its next
  publication cannot collide with an earlier one, and the cards partition the
  events. What a process does is first classified (`Move`), so that the invariants
  need one case for each kind of step and not for each action.
- *Ordered* (`MonitoringScanProofs`, its last part). A branch holds each commit once, and what
  the holder of the lease has read begins at the checkpoints as they are *now*
  (`Fenced`). This stays true because only the holder moves checkpoints and an
  identifier is never given to a second process: whoever lost the lease is not
  constrained, its publication is refused.
- *Complete* (`MonitoringCheckpointProofs`). Three facts meet at a publication: the
  list of the process has every watch that did not appear since the listing
  (`Listing`), its read has everything from its boundary on, but for releases that
  came later and commits beyond its HEAD (`ReleasesSought`, `CommitsSought`), and
  the boundary is the checkpoint or no later than any listed watch (`Begun`). Then
  what the new checkpoints have passed is in the Feed (`Served`). A force push only
  ever shortens what is owed (`KeptPlaces`).
- *Runs*. A process that has ticked a repository off without a failure has left
  nothing behind that was released before its run (`Swept`), because a complete
  read has it (`Prompt`) or the checkpoint it began at had passed it.

The proof of `CheckpointsSkipNothing` corrected the model: `raced` once covered
only the repository that a scan was reading, and the attempt to prove `Listing` for
several repositories failed in the state between two of them. It is the race of
`EveryWatchIsServed` (section 11), which is longer than one read: it lasts from the
listing to the publication of the repository, the scans of all others in between.

`CatalogProofs` proves, for every finite set of repositories and queries, whatever
searches find, and every number of ingestions, jobs, edits and failures:

| Theorem | Statement |
|---|---|
| `CatalogHoldsTogether` | `Spec => []NothingDangles` |
| `NoHitIsInvented` | `Spec => []HitsAreOffered` |
| `RetrievalsCanBeShown` | `Spec => []AnswersAreReadable` |
| `MaintenanceLosesNothingNewer` | `Spec => []NothingNewerIsLost` |

Assumptions: `CatalogAssumption` (finitely many repositories and queries, and finds
that name one of each with a rank from one on).

The tables are written from what was loaded some steps before, so the invariant
says what a job holds: not what is stored now, since another job may have replaced
it, but what was once stored or offered (`JobOK`). Each column of a profile in memory
is one that the `log` has for its repository (of a row with columns of two writers no
more can be said), a loaded counter is no more than what was offered by then, and
offers only grow. Rows are never deleted, which is why evidence that is stored
two transactions after its profile still has it. An answer is readable because each
of the five reads of a retrieval keeps a pool of stored repositories readable
(`RetrievalOK`), whatever the tables became between the reads; the best ranks of two
readable pools name the channels of both. The hits of an ingestion are a sum over
its finds, and `HitsAreOffered` needs that a sum with one more find is no less.

`MaintenanceLosesNothingNewer` needs that the revision of a row counts its log
(`RowOK`), so that a revision that is still the one seen means that nothing was stored
since; that nothing stored is of an edit the provider has not made yet; and that a
task which has fetched holds an edit no earlier than all it had seen (`TaskOK`),
because the provider only goes forward.

`ExploreStageProofs` proves, for every finite set of lanes, every set of queries,
plans, listings, failures and contents of the catalog, every deadline and number of
attempts:

| Theorem | Statement |
|---|---|
| `CoordinatorsTakeTheirOwn` | `Spec => []AnswersAreOwn` |
| `AttemptsExplained` | `Spec => []AttemptsAreExplained` |
| `UnavailableOnlyWhenNothingWasHeard` | `Spec => []UnavailableIsTrue` |
| `StagesReadBack` | `Spec => []ExecutionReadsBack` |
| `OrderOfAnswersLeavesNoTrace` | `Spec => []OrderLeavesNoTrace` |
| `ArrivalOrderDoesNotMatter` | `Spec => []ArrivalOrderIsIrrelevant` |
| `ExpansionsLoseNothing` | `Spec => [][NothingIsLost]_vars` |
| `ScoresNeedNoClamp` | `Spec => []ScoresInv` |
| `StrongEvidenceStaysShown` | `Spec => [][StrongStaysShown]_vars` |

Assumptions: `TimeoutAssumption`, `LanesAssumption` (there are lanes, what a lane
lists names the query it was asked, a provider's failure is not called `ok` or
`none`) and `StageAssumption` (plans are sequences of queries, and what the catalog
knows can be stored). `ArrivalOrderDoesNotMatter`, `ExpansionsLoseNothing` and
`StrongEvidenceStaysShown` also need what `TextsAssumption` says of the fields of a
signal, the first of them what it says of titles and paths (section 6), the last that
the cutoff is a score (`CutoffAssumption`).

The invariant has five parts.

- `LanesInv`: the lanes at work for this attempt, those whose answers are queued and
  those whose answers were taken are different lanes and together all of them
  (`LanesAreApart`). Threads of earlier attempts carry a smaller number and never
  reach this queue. What is known (`statuses`, `warned`, `partial`, `successes`) is
  a function of the set of answers taken (`TakenOK`): a time-out that a later success
  of its source hides is still in `warned`.
- `PoolsInv`: every pool can be stored, and a pool that is not empty has a source.
- `PlanInv`: what was executed begins the plan and what is pending is the rest.
- `AttemptsInv`: in the sequence of attempts each is the first at its query, after
  one that settled the query before, or the next at the same query after a time-out;
  there are as many firsts as executed queries, and one more while a query is tried
  again.
- `ReportsInv`: the executed queries are those of the reports, one after the other.

`OrderOfAnswersLeavesNoTrace` is the part of `ArrivalOrderIsIrrelevant` that holds
whatever lanes list. A pool merged from hits in some order is described by the set
of these hits (`HitsAreDescribed`, `PoolIsMadeOfItsHits`: best ranks are a minimum,
evidence and queries are unions), and every order of the answers replays the same set
(`OutcomesInv`, `ReplayedHits`).

`ArrivalOrderDoesNotMatter` is the whole of it. What is left over is the signal a
candidate keeps, where merging prefers one side. The hits of an attempt have one
query, so the first signal stays the preferred one; its topics are the union and its
language flag the disjunction over the hits, whatever their order (`Tells`,
`SignalsAreTold`). The text is that of the first hit whose text is over all others
(`IsFirstOver`, `FirstOverOfMore`); two lanes cannot tie, because one of them names a
path and the other does not (`TextsComeFromOne`), and the hits of one lane come in the
order of its list in every replay, for which `ListedInv` keeps the order of what was
taken (`ReplayedInOrder`, `ReplaysAreAlike`). Pools that differ in nothing that
admission and ranking read (`Alike`) stay so when the pool of the catalog is merged
with them (`MergedPoolsAreAlike`) and show the same (`AlikePoolsShowTheSame`).

`ExpansionsLoseNothing` is about every step, and an expansion is the one that changes
something: its pool is the old one merged with what the stage found. Merging grows a
candidate (`MergingGrows`): of the ranks of a channel the least remains
(`SomeRankIsBest`), the text that is over the other remains (`OverIsAnOrder`), the
rest are unions. That the quality of each executed query and the strongest one do not
fall is then a matter of greatest elements (`MaxOfMore`), which exist because a quality
is a product of three numbers up to 20 (`QualitiesAreSmall`). The invariant it needs
beside `IInv` is `SignalsInv`: every pool has signals that a merge can read.

The bounds of a score follow from the same numbers and from `UncertaintyIsAShare`: what
the support of the other queries leaves uncertain is a product in which no factor
exceeds one. So the points of the best evidence are a lower bound of the score, they do
not fall (`PointsGrow`), and a repository that they alone bring to the cutoff stays
relevant for the rest of the run: `StrongEvidenceStaysShown`. For one that needs the
support of other queries that is not so, see below.

What recursive functions compute is proved by least counterexamples: a set of numbers
that is not empty has a least one (`LeastNatural`, from the well-foundedness of the
naturals), so a step that carries a fact from n to n + 1 leaves no number without it.
The sum of `Catalog`, the merge of hits and the concatenation of stages
(`FlattenSeq`) are treated in this way; that such a function exists at all is the
first use of it.

Only model-checked:

- `ExpansionOnlyAdds`, beyond what `ExpansionsLoseNothing` and
  `StrongEvidenceStaysShown` say: it is about the words, weights and cutoff of an
  instance. A score does not only grow with the evidence: a new strongest query makes
  the support of the others count for less, so a repository known by two pieces of
  evidence of alignment near zero may lose points to a third of alignment 0.2. That
  is far below any score that is shown, and it is why the property is no theorem. Nor
  is it one that a repository stays admitted: a text that names a path replaces the
  one admission went by.
- Liveness under fairness (`EveryOperationEnds`, `RefinesFairLifecycle`,
  `EveryReleaseArrives`, `SearchEnds`), which is out of the prover's reach.

## 11. Where code and documents disagree

- *A watch created during a scan misses a release.* A scan lists all watches,
  then reads the provider, then moves the checkpoint all watches of a repository
  share (`services/monitoring/scan.py:65`, `162`, `190`). A watch created after the
  listing is not served by this scan, and the next one starts at the checkpoint;
  a release published after the watch and before the read never reaches it. The
  README promises a card for each new release (`src/README.md:34`). Run
  `monitoring_served`, property `EveryWatchIsServed`.
- *A scan outlives an account.* The publication transaction checks the lease but
  neither watch nor owner, and `user_feed_events` has no foreign key to `users`
  (`storage/monitoring/state.py:222`). A scan that listed a watch before its owner
  deleted the account stores events and cards afterwards, and nothing removes
  them; `src/docs/contracts/feed-update-groups.md:44` says that account deletion
  removes the owner's groups and events. Run `monitoring_erasure`, property
  `DeletedAccountsAreEmpty`.
- *A repository found twice loses a whole ingestion.* `write_repositories` looks each
  repository up with `session.get` and adds it when it is not there
  (`storage/repositories/repositories.py:50`); the session does not flush by itself
  (`database/session.py:62`), so a repository that is new and comes twice is added
  twice, and the commit breaks the primary key. It comes twice when a query is asked
  again after a timeout: the candidates of both attempts are handed to one ingestion
  (`services/search/explore/service.py:686`, `594`). The whole transaction is rolled
  back and only logged (`services/search/catalog.py:172`), so that none of the
  repositories is stored, although "Admitted external discoveries update the shared
  repository catalog." (`src/backend/README.md:102`). Run `catalog_retries`, property
  `AdmittedArePersisted`.

Met while modelling, without a run of its own: the wait that a denied visitor is
told is rounded down to whole seconds (`services/search/access/service.py:119`), so
that a search after exactly that wait may be denied again; and two requests that
both loaded an event as unread both write a read time, although
`src/docs/contracts/feed-update-groups.md` says that read timestamps are preserved
(`ReadIsForever` allows exactly this).

## 12. Not modelled, and why

- Provider clients, AI planner, embeddings, Turnstile: transport and parsing of
  one call each; their answers enter the models as arbitrary results.
- Provider paging (`integrations/repositories/{github,gitlab}/monitor.py`): a read
  that is reported complete is taken as complete. A release that is deleted at the
  provider between two pages shifts the pages, and a read reported complete may
  lack another one; `MonitoringScan` does not contain that.
- The GitHub token cache: one value behind one lock, with a refresh margin longer
  than a call.
- Retention of old Feed events (`storage/feed/retention.py`): "intentionally unused
  for now", as its docstring says.
- Similarity of embeddings, query planning, wording of answers: abstract.
- The browser's own state (polling, optimistic updates), rendering, configuration,
  routing and composition: no shared state; what a polling client may observe of a
  run is `RunLifecycle`.
- Schema migrations: run while the system is stopped.
