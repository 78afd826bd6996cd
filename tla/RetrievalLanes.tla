------------------------------ MODULE RetrievalLanes ------------------------------
(****************************************************************************)
(* One retrieval attempt for one query (services/search/retrieval): a       *)
(* thread for each lane, a queue they answer to, and a coordinator that     *)
(* takes answers until all are in or its time is over.  The threads are     *)
(* daemons: one that is late goes on working, for a queue that nobody reads *)
(* any more.                                                                *)
(****************************************************************************)
EXTENDS CandidateRanking

CONSTANTS
  Queries, Repositories,
  Lanes,           \* records [source, channel]
  SourceFailures,  \* statuses of a RepositorySourceError
  Items,           \* what a provider may list for a query: [repository, signal]
  Listings,        \* <<lane, query>> |-> the sequences of items it may return
  SoftTimeout,     \* time after which the coordinator gives up
  HardTimeout      \* the same, for a search that may not go on

ASSUME TimeoutAssumption ==
  /\ SoftTimeout \in Nat \ {0} /\ HardTimeout \in Nat
  /\ SoftTimeout <= HardTimeout

\* There is a lane; an integration names the query it was asked in whatever it
\* lists, and its errors have statuses of their own.
ASSUME LanesAssumption ==
  /\ IsFiniteSet(Lanes) /\ Lanes # {}
  /\ {"ok", "none"} \cap SourceFailures = {}
  /\ \A lane \in Lanes, q \in Queries :
       /\ Listings[<<lane, q>>] \subseteq Seq(Items)
       /\ \A list \in Listings[<<lane, q>>] : \A n \in DOMAIN list :
            list[n].signal.query = q

\* Whoever lists a repository for a query gives its full name as the title.  Of two
\* lanes that list it one searches code and names the path of the file it found, the
\* other searches repositories and names none (common/factories.py).
ASSUME TextsAssumption ==
  /\ \A q \in Queries : QueryLength[q] \in Nat
  /\ \A item \in Items : IsSignal(item.signal)
  /\ \A l \in Lanes, m \in Lanes, q \in Queries :
       \A one \in Listings[<<l, q>>], other \in Listings[<<m, q>>] :
         \A i \in DOMAIN one, j \in DOMAIN other :
           one[i].repository = other[j].repository =>
             /\ one[i].signal.title = other[j].signal.title
             /\ l # m => (one[i].signal.text.path = NoPath)
                          # (other[j].signal.text.path = NoPath)

VARIABLES
  serial,    \* which attempt the coordinator works on; the queue belongs to it
  query,     \* the query of this attempt
  elapsed,   \* time since the attempt began
  threads,   \* the lanes still at work, of this and of earlier attempts
  queue,     \* answers that arrived and were not taken
  waiting,   \* how many lanes the coordinator still expects
  candidates, \* the hits of what it has taken, in order
  statuses,  \* source |-> what is known of it in this attempt
  successes, \* the sources that answered
  partial, warned,
  outcomes,  \* lane_outcomes of this attempt, one record for each answer taken
  heard      \* history: some lane of the run has answered without a failure

laneVars == <<serial, query, elapsed, threads, queue, waiting, candidates, statuses,
              successes, partial, warned, outcomes, heard>>

Sources == {lane.source : lane \in Lanes}
NoStatus == "none"
NoQuery == "none"

-----------------------------------------------------------------------------
(* A lane and what it answers *)

Threads == [serial : Nat, lane : Lanes, query : Queries]

\* What the provider client of a lane may do with one query.
Discoveries(lane, q) ==
  {[kind |-> "listed", list |-> list, status |-> "ok"] : list \in Listings[<<lane, q>>]}
  \cup {[kind |-> "failed", list |-> <<>>, status |-> s] : s \in SourceFailures}
  \cup {[kind |-> "crashed", list |-> <<>>, status |-> "error"]}

\* A code-search lane keeps a failed query beside the completed ones and so
\* answers; the other lanes pass the failure on.
LaneResult(thread, discovery) ==
  LET base == [lane |-> thread.lane, query |-> thread.query, list |-> discovery.list,
               status |-> discovery.status, completed |-> "all"]
  IN IF discovery.kind = "failed" /\ thread.lane.channel = "code_search"
     THEN [base EXCEPT !.completed = "none"]
     ELSE IF discovery.kind = "listed" THEN base
     ELSE [base EXCEPT !.completed = discovery.kind]

-----------------------------------------------------------------------------
(* The coordinator takes an answer *)

\* merge_source_status: a success outlives every failure, else the latest counts.
MergeStatus(old, incoming) ==
  IF old = "ok" THEN old ELSE incoming

Succeeded(result) == result.completed = "all"

\* The hits of an answer, ranked by their place in it.
Hits(result) ==
  [n \in DOMAIN result.list |->
     [repository |-> result.list[n].repository, channel |-> result.lane.channel,
      query |-> result.list[n].signal.query, rank |-> n,
      signal |-> result.list[n].signal]]

\* build_lane_outcome: a failed query of a code-search lane makes it partial.
LaneOutcome(result) ==
  [lane |-> result.lane, query |-> query, list |-> result.list,
   status |-> IF result.completed = "none" THEN "partial" ELSE result.status,
   code |-> IF Succeeded(result) THEN NoStatus ELSE result.status]

-----------------------------------------------------------------------------
(* Actions *)

LanesInit ==
  /\ serial = 0 /\ query = NoQuery /\ elapsed = 0
  /\ threads = {} /\ queue = <<>> /\ waiting = 0
  /\ candidates = <<>> /\ statuses = [s \in Sources |-> NoStatus]
  /\ successes = {} /\ partial = FALSE /\ warned = FALSE /\ outcomes = {}
  /\ heard = FALSE

\* Starts the lanes of an attempt.  Its clock runs since before the catalog was
\* asked, so the first ticks may be the catalog's.
StartLanes(q) ==
  /\ serial' = serial + 1 /\ query' = q
  /\ elapsed' = 0
  /\ threads' = threads \cup {[serial |-> serial + 1, lane |-> l, query |-> q]
                                : l \in Lanes}
  /\ queue' = <<>> /\ waiting' = Cardinality(Lanes)
  /\ candidates' = <<>> /\ statuses' = [s \in Sources |-> NoStatus]
  /\ successes' = {} /\ partial' = FALSE /\ warned' = FALSE
  /\ outcomes' = {} /\ UNCHANGED heard

\* Bug: one queue serves all attempts.
SharedQueue(thread) == waiting = 0

\* The queue that a thread was started with belongs to an attempt that is over,
\* and nobody takes from it any more.
Abandoned(thread) == thread.serial # serial \/ waiting = 0

LaneAnswers(thread) ==
  /\ threads' = threads \ {thread}
  /\ IF Abandoned(thread) THEN UNCHANGED queue
     ELSE \E d \in Discoveries(thread.lane, thread.query) :
            queue' = Append(queue, LaneResult(thread, d))
  /\ UNCHANGED <<serial, query, elapsed, waiting, candidates, statuses, successes,
                 partial, warned, outcomes, heard>>

\* consume_lane_result.
Take ==
  /\ waiting > 0 /\ queue # <<>>
  /\ waiting' = waiting - 1 /\ queue' = Tail(queue)
  /\ LET result == Head(queue)
         source == result.lane.source
     IN /\ candidates' = candidates \o Hits(result)
        /\ statuses' = [statuses EXCEPT ![source] = MergeStatus(@, result.status)]
        /\ successes' = IF Succeeded(result) THEN successes \cup {source}
                        ELSE successes
        /\ partial' = (partial \/ ~Succeeded(result))
        /\ warned' = (warned \/ result.status = "timed_out")
        /\ outcomes' = outcomes \cup {LaneOutcome(result)}
        /\ heard' = (heard \/ result.status = "ok")
  /\ UNCHANGED <<serial, query, elapsed, threads>>

\* Bug: waits for an answer without a timeout.
WaitsForEver == FALSE

\* read_wait_timeout_seconds: an answer that is there is taken even after it.
TimeIsOver == elapsed >= SoftTimeout \/ elapsed >= HardTimeout

\* The warning of this does not say "timed out", so it alone is no timeout.
GiveUp ==
  /\ waiting > 0 /\ queue = <<>> /\ TimeIsOver
  /\ partial' = TRUE /\ waiting' = 0
  /\ UNCHANGED <<serial, query, elapsed, threads, queue, candidates, statuses,
                 successes, warned, outcomes, heard>>

Tick ==
  /\ waiting > 0 /\ elapsed < HardTimeout
  /\ elapsed' = elapsed + 1
  /\ UNCHANGED <<serial, query, threads, queue, waiting, candidates, statuses,
                 successes, partial, warned, outcomes, heard>>

\* The coordinator returns.
LanesDone ==
  /\ elapsed' = 0 /\ queue' = <<>> /\ candidates' = <<>>
  /\ statuses' = [s \in Sources |-> NoStatus] /\ successes' = {}
  /\ partial' = FALSE /\ warned' = FALSE /\ outcomes' = {}
  /\ UNCHANGED <<serial, query, threads, waiting, heard>>

-----------------------------------------------------------------------------
(* What an attempt comes to *)

\* discover_candidates_across_sources reports the search itself as timed out
\* when it has heard of no source at all.
HeardNothing == \A s \in Sources : statuses[s] = NoStatus

\* Bug: looks at the merged statuses only.
StatusTimedOut ==
  \/ \E s \in Sources : statuses[s] = "timed_out"
  \/ HeardNothing /\ partial

\* _query_attempt_timed_out: by a status, or by the warning of a lane.
AttemptTimedOut ==
  \/ \E s \in Sources : statuses[s] = "timed_out"
  \/ warned
  \/ HeardNothing /\ partial
=============================================================================
