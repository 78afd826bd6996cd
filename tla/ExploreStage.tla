------------------------------- MODULE ExploreStage -------------------------------
(****************************************************************************)
(* What a search does with its lanes (services/search/explore/service.py):  *)
(* it plans queries, retrieves one of them, again when it timed out and the *)
(* next one when it kept timing out, merges what it found into the          *)
(* execution state of the run, admits, ranks and answers; an expansion goes *)
(* on with the pending queries of the plan.  The execution state is what    *)
(* execution.py stores and reads back between two stages.                   *)
(****************************************************************************)
EXTENDS RetrievalLanes, SequencesExt

CONSTANTS
  Plans,        \* the plans the planner may return, sequences of queries
  MaxAttempts,  \* MAX_TIMEOUT_ATTEMPTS_PER_QUERY
  CatalogPools  \* query |-> what the local catalog may know of it

VARIABLES
  pc,         \* planning, attempt, retrieving, evaluating, answered, failed
  plan,
  pending,    \* the queries of this stage that are left, the current one first
  attempt,    \* the number of the attempt for the current query
  local,      \* the pool that the catalog gave this attempt
  execution,  \* the durable execution state after the last stage
  staged,     \* what this stage adds to it
  answer,     \* the visible repositories of the last answer, and canExpand
  reports     \* the reports of the stages

stageVars == <<pc, plan, pending, attempt, local, execution, staged, answer, reports>>
vars == <<laneVars, stageVars>>

Nothing == [pool |-> NoPool, executed |-> <<>>, attempts |-> <<>>, sources |-> 0,
            partial |-> FALSE]

\* Bug: an expansion begins with the query that was executed last.
FromTheLastQuery(state) == SubSeq(plan, Len(state.executed), Len(plan))

\* Pending queries of the execution state.
PendingQueries(state) ==
  SubSeq(plan, Len(state.executed) + 1, Len(plan))

\* Bug: the sources of the last attempt count alone.
JoinedLatest(first, second) ==
  [pool     |-> MergePools(first.pool, second.pool),
   executed |-> first.executed \o second.executed,
   attempts |-> first.attempts \o second.attempts,
   sources  |-> second.sources,
   partial  |-> first.partial \/ second.partial]

\* _merge_retrieved_candidates, and the sequences kept beside it.
Joined(first, second) ==
  [pool     |-> MergePools(first.pool, second.pool),
   executed |-> first.executed \o second.executed,
   attempts |-> first.attempts \o second.attempts,
   sources  |-> first.sources + second.sources,
   partial  |-> first.partial \/ second.partial]

EmptyAnswer == [items |-> {}, canExpand |-> FALSE]

Init ==
  /\ LanesInit
  /\ pc = "planning" /\ plan = <<>> /\ pending = <<>> /\ attempt = 0
  /\ local = NoPool /\ execution = Nothing /\ staged = Nothing
  /\ answer = EmptyAnswer /\ reports = <<>>

-----------------------------------------------------------------------------
(* What the durable form of an execution state requires; it is asked when the
   state is stored and again when the next stage reads it. *)

Origins == {"catalog", "provider", "unknown"}

ReadableEvidence(e) ==
  /\ e.location \in DOMAIN LocationWeight /\ e.origin \in Origins
  /\ e.alignment \in 0 .. 20 /\ e.rank \in Nat  \* nought is no rank

ReadableCandidate(c) ==
  /\ c.queries \subseteq Queries /\ c.hits \in Nat /\ c.origins \subseteq Origins
  /\ \A p \in c.ranks : p[2] \in Nat \ {0} /\ \A other \in c.ranks : other[1] = p[1] => other = p
  /\ \A e \in c.evidence : ReadableEvidence(e)

\* The planner answers with queries, and what the catalog knows can be read.
ASSUME StageAssumption ==
  /\ Plans \subseteq Seq(Queries) /\ MaxAttempts \in Nat \ {0}
  /\ \A q \in Queries : \A pool \in CatalogPools[q] : \A r \in DOMAIN pool :
       /\ ReadableCandidate(pool[r]) /\ IsSignal(pool[r].signal)
       /\ \A p \in pool[r].ranks : p = <<p[1], p[2]>>

ReadableAttempt(a) == a.attempt > 0 /\ a.status \in {"completed", "timed_out"}

Readable(state) ==
  /\ IsPrefix(state.executed, plan)
  /\ \A r \in DOMAIN state.pool : ReadableCandidate(state.pool[r])
  /\ \A n \in DOMAIN state.attempts :
       /\ ReadableAttempt(state.attempts[n])
       /\ \E k \in DOMAIN plan : plan[k] = state.attempts[n].query

-----------------------------------------------------------------------------
(* A stage *)

BeginStage(queries) ==
  /\ pc' = "attempt" /\ pending' = queries /\ attempt' = 1 /\ staged' = Nothing

\* The planner answers; an empty plan is an empty answer, without any state.
Plan ==
  /\ pc = "planning"
  /\ \E p \in Plans :
       /\ plan' = p
       /\ IF p = <<>> THEN /\ pc' = "answered"
                           /\ UNCHANGED <<pending, attempt, staged>>
          ELSE BeginStage(p)
  /\ UNCHANGED <<laneVars, local, execution, answer, reports>>

PlanningFails ==
  /\ pc = "planning" /\ pc' = "failed"
  /\ UNCHANGED <<laneVars, plan, pending, attempt, local, execution, staged, answer,
                 reports>>

Expand ==
  /\ pc = "answered" /\ execution # Nothing /\ PendingQueries(execution) # <<>>
  /\ BeginStage(PendingQueries(execution))
  /\ UNCHANGED <<laneVars, plan, local, execution, answer, reports>>

\* Asks the catalog, then the lanes.
BeginAttempt ==
  /\ pc = "attempt" /\ pc' = "retrieving"
  /\ local' \in CatalogPools[Head(pending)]
  /\ StartLanes(Head(pending))
  /\ UNCHANGED <<plan, pending, attempt, execution, staged, answer, reports>>

Retrieve ==
  /\ pc = "retrieving"
  /\ Take \/ GiveUp
  /\ UNCHANGED stageVars

\* What is shown of the first attempt while it goes on, after each answer.
Progress(hits) == Visible(MergePools(local, MergeHits(hits)), <<query>>)

AttemptOutcome ==
  [pool     |-> MergePools(local, MergeHits(candidates)),
   executed |-> <<>>,
   attempts |-> <<[query |-> query, attempt |-> attempt,
                   status |-> IF AttemptTimedOut THEN "timed_out" ELSE "completed"]>>,
   sources  |-> Cardinality(successes) + (IF local # NoPool THEN 1 ELSE 0),
   partial  |-> partial]

Retries == AttemptTimedOut /\ attempt < MaxAttempts

\* A query has been executed when it completed or timed out for the last time.
EndAttempt ==
  /\ pc = "retrieving" /\ waiting = 0
  /\ LET more == Joined(staged, AttemptOutcome)
         next == [more EXCEPT !.executed = Append(@, query)]
     IN IF Retries
        THEN /\ pc' = "attempt" /\ attempt' = attempt + 1
             /\ staged' = more /\ UNCHANGED pending
        ELSE IF AttemptTimedOut /\ Len(pending) > 1
        THEN /\ pc' = "attempt" /\ attempt' = 1
             /\ staged' = next /\ pending' = Tail(pending)
        ELSE /\ pc' = "evaluating" /\ attempt' = 0 /\ pending' = <<>>
             /\ staged' = next
  /\ LanesDone /\ local' = NoPool
  /\ UNCHANGED <<plan, execution, answer, reports>>

\* One row for each candidate, shown or not.
RankingRows(state) ==
  [r \in DOMAIN state.pool |->
     [score  |-> Score(state.pool[r], state.executed),
      bucket |-> Bucket(r, state.pool[r], QuerySet(state.executed)),
      hits   |-> state.pool[r].hits]]

\* The report of a stage that executed these queries.
StageReport(state, queries) ==
  [executed |-> queries,
   admitted |-> Admitted(state.pool, QuerySet(state.executed)),
   visible  |-> Visible(state.pool, state.executed),
   ranking  |-> RankingRows(state)]

Answer(state) ==
  [items     |-> Visible(state.pool, state.executed),
   canExpand |-> PendingQueries(state) # <<>>]

\* The callbacks store the execution state and then the report of the stage.
Record(state) ==
  /\ execution' = state
  /\ reports' = Append(reports, StageReport(state, staged.executed))

CannotRecord == pc' = "failed" /\ UNCHANGED <<execution, answer, reports>>

Evaluated ==
  /\ staged' = Nothing
  /\ UNCHANGED <<laneVars, plan, pending, attempt, local>>

\* What was found without any source is recorded before the search is given up.
EvaluateSearch ==
  /\ pc = "evaluating" /\ execution = Nothing
  /\ IF ~Readable(staged) THEN CannotRecord
     ELSE /\ Record(staged)
          /\ IF staged.sources = 0 THEN pc' = "failed" /\ UNCHANGED answer
             ELSE pc' = "answered" /\ answer' = Answer(staged)
  /\ Evaluated

\* An expansion without any source answers with what the run had.
EvaluateExpansion ==
  /\ pc = "evaluating" /\ execution # Nothing
  /\ LET state == Joined(execution, staged)
     IN IF ~Readable(state) THEN CannotRecord
        ELSE Record(state) /\ pc' = "answered" /\ answer' = Answer(state)
  /\ Evaluated

-----------------------------------------------------------------------------

Ended == threads = {} /\ pc \in {"answered", "failed"}

Next ==
  \/ Plan \/ PlanningFails \/ Expand
  \/ BeginAttempt \/ Retrieve \/ EndAttempt \/ EvaluateSearch \/ EvaluateExpansion
  \/ (\E t \in threads : LaneAnswers(t)) /\ UNCHANGED stageVars
  \/ Tick /\ UNCHANGED stageVars
  \/ Ended /\ UNCHANGED vars

Spec == Init /\ [][Next]_vars

\* When the coordinator has a step to take.  Each of its steps, and no step of
\* another, changes pc or waiting then.
Phases == {"planning", "attempt", "retrieving", "evaluating", "answered", "failed"}
CanMove ==
  \/ pc \in {"planning", "attempt", "evaluating"}
  \/ pc = "retrieving" /\ (waiting = 0 \/ queue # <<>> \/ TimeIsOver)
Moves == CanMove /\ pc' \in Phases /\ waiting' \in 0 .. Cardinality(Lanes)

\* The search goes on and time passes; a lane may hang for ever.
FairSpec ==
  /\ Spec
  /\ WF_<<pc, waiting>>(Moves)
  /\ WF_vars(Tick /\ UNCHANGED stageVars)

-----------------------------------------------------------------------------
(* Properties *)

\* The execution state as it would be if the stage ended now.
Current ==
  IF pc \in {"attempt", "retrieving", "evaluating"} THEN Joined(execution, staged)
  ELSE execution

\* What a coordinator takes was asked of its own lanes: each of them answers an
\* attempt once at most, and one that is late for an earlier attempt answers no
\* later one (the queue of discovery.py belongs to one attempt).
AnswersAreOwn ==
  pc = "retrieving" =>
    /\ \A n \in DOMAIN candidates : candidates[n].query = query
    /\ waiting = 0 \/ Cardinality(outcomes) + Len(queue)
                        + Cardinality({t \in threads : t.serial = serial})
                        = Cardinality(Lanes)

\* Whether an attempt counts as timed out, and whether it counts as partial,
\* depends on what its lanes answered and never on the order in which their
\* statuses were merged (lanes.py:merge_source_status).
AttemptsAreExplained ==
  pc = "retrieving" /\ waiting = 0 =>
    /\ AttemptTimedOut <=> \/ outcomes = {}
                           \/ \E o \in outcomes : o.code = "timed_out"
    /\ AttemptOutcome.partial <=>
         {o.lane : o \in {x \in outcomes : x.code = NoStatus}} # Lanes

\* What a stage leaves can be stored, and is a state that the next stage goes on
\* from: the executed queries are the beginning of the plan, each with its
\* attempts in order, and a query is left only when it completed or timed out for
\* the last time (execution.py:serialize_execution fails the run otherwise).  The
\* reports of its stages account for each executed query once.
ExecutionReadsBack ==
  LET state == Current
      first == {k \in DOMAIN state.attempts : state.attempts[k].attempt = 1}
      Ends(k) == k + 1 \in first \/ k = Len(state.attempts)
  IN /\ Readable(state)
     /\ execution.executed = FlattenSeq([n \in DOMAIN reports |-> reports[n].executed])
     /\ Cardinality(first) - Len(state.executed) \in {0, 1}
     /\ Cardinality(first) > Len(state.executed) => pc \in {"attempt", "retrieving"}
     /\ \A k \in DOMAIN state.attempts \ first :
          /\ state.attempts[k - 1].status = "timed_out"
          /\ state.attempts[k] = [state.attempts[k - 1] EXCEPT !.attempt = @ + 1,
                                    !.status = state.attempts[k].status]
     /\ \A k \in DOMAIN state.attempts :
          Ends(k) /\ (k < Len(state.attempts) \/ pc \in {"evaluating", "answered"})
            => \/ state.attempts[k].status = "completed"
               \/ state.attempts[k].attempt = MaxAttempts

\* A search is refused as unavailable only when no lane answered it and the
\* catalog knew nothing (explore/service.py: ExploreSearchUnavailableError).
UnavailableIsTrue ==
  pc = "failed" /\ execution # Nothing =>
    execution.pool = NoPool /\ ~heard

\* The answers of the lanes in one order and in any other show the same
\* repositories, with the same scores, the same evidence and the same facts for
\* admission (merge.py:merge_retrieval_hits).
Replayed(order) == FlattenSeq([n \in DOMAIN order |-> Hits(order[n])])

ArrivalOrderIsIrrelevant ==
  pc = "retrieving" /\ waiting = 0 =>
    LET pool == MergeHits(candidates)
    IN \A order \in SetToSeqs(outcomes) :
         LET other == MergeHits(Replayed(order))
         IN /\ Progress(Replayed(order)) = Progress(candidates)
            /\ Admitted(other, {query}) = Admitted(pool, {query})
            /\ \A r \in DOMAIN pool :
                 /\ Score(other[r], <<query>>) = Score(pool[r], <<query>>)
                 /\ other[r].evidence = pool[r].evidence
                 /\ CandidateFacts(other[r], {query}) = CandidateFacts(pool[r], {query})

\* An expansion adds to an answer: it hides no repository that was shown and
\* lowers no score, although it merges texts, counts and evidence anew.
ExpansionOnlyAdds ==
  [][pc = "evaluating" /\ pc' = "answered" =>
       /\ answer.items \subseteq answer'.items
       /\ \A r \in DOMAIN execution.pool :
            Score(execution.pool[r], execution.executed)
              <= Score(execution'.pool[r], execution'.executed)]_vars

\* A search or an expansion that began ends, even if its lanes never do.
SearchEnds == pc = "attempt" ~> pc \in {"answered", "failed"}
=============================================================================
