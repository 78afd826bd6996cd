--------------------------- MODULE SearchRunQueue ---------------------------
(***************************************************************************)
(* The durable queue of Explore search runs: API requests that create and  *)
(* expand runs, worker processes that claim operations under a lease, the  *)
(* heartbeat thread of each worker, and database time.                     *)
(*                                                                         *)
(*   backend/app/storage/search_runs.py          rows, claims, fencing     *)
(*   backend/app/storage/search_admission.py     scheduling                *)
(*   backend/app/services/search/explore/jobs.py execution and expansion   *)
(*   backend/app/jobs/process_search_runs.py     worker and heartbeat      *)
(*                                                                         *)
(* A database transaction is one step when nothing can happen inside it    *)
(* that another session could observe.  An owned transaction checks the    *)
(* lease twice and time may pass in between, so it is two steps: Begin...  *)
(* takes the row lock and makes the first check, Commit... makes the       *)
(* second one and commits or rolls back.  The run row is locked only       *)
(* inside such a transaction and read and written at its commit.           *)
(***************************************************************************)
EXTENDS Integers, FiniteSets, Sequences

CONSTANTS
  Workers,     \* worker processes (a restarted worker keeps its name here)
  Clients,     \* API requests that may ask for an expansion
  Runs,        \* run identifiers
  Ops,         \* operation identifiers
  None,        \* the SQL NULL of references to runs and operations
  MaxPlan,     \* bound: queries in a plan
  LeaseTicks,  \* lease duration in ticks
  MaxFaults    \* bound: crashes, failed statements and missed heartbeats

ASSUME QueueAssumptions ==
  /\ None \notin Runs /\ None \notin Ops
  /\ IsFiniteSet(Ops)
  /\ MaxPlan \in Nat \ {0}
  /\ LeaseTicks \in Nat \ {0}
  /\ MaxFaults \in Nat

VARIABLES
  run,        \* search_runs
  op,         \* search_run_operations
  attempt,    \* what each worker process holds in memory
  asked,      \* run for which a request passed the unlocked pre-check
  scheduled,  \* the clock that stamps queued_at
  nextToken,  \* fencing tokens handed out (uuid4 in the code)
  faults      \* faults that have happened

vars == <<run, op, attempt, asked, scheduled, nextToken, faults>>

-----------------------------------------------------------------------------
(* Rows and attempts. *)

Completed == {"completed", "completed_partial"}
Terminal  == Completed \cup {"failed", "interrupted"}
Live      == {"queued", "running"}

\* Execution state: length of the plan and of its executed prefix.
\* An empty plan is never stored, so <<0, 0>> is the SQL NULL.
States  == [plan : 0..MaxPlan, done : 0..MaxPlan]
NoState == [plan |-> 0, done |-> 0]

\* A stage report: the operation and the interval of the plan it executed.
Stages == [op : Ops, first : 0..MaxPlan, last : 0..MaxPlan]

\* Response payload: absent, with canExpand, without it, or source statuses only.
Responses == {"none", "more", "last", "unavailable"}

RunRows == [status : {"absent"} \cup Live \cup Terminal, state : States,
            response : Responses, stages : Seq(Stages)]
OpRows  == [status : {"absent"} \cup Live \cup Terminal, run : Runs \cup {None},
            kind : {"initial", "expansion"}, queuedAt : Nat, token : Nat,
            left : 0..LeaseTicks]

\* first = 0 means that no stage report was collected, response = "none"
\* that there is no payload; both leave the stored value alone.
\* Between start and execution the record holds the run as it was read.
Outcome == [status : Terminal \cup Live, state : States, first : 0..MaxPlan,
            last : 0..MaxPlan, response : Responses]
NoOutcome == [status |-> "failed", state |-> NoState, first |-> 0, last |-> 0,
              response |-> "none"]

Attempts == [pc : {"idle", "claimed", "starting", "started", "executed",
                   "finishing", "release"},
             hb : {"off", "on", "renewing"}, lost : BOOLEAN,
             op : Ops \cup {None}, token : Nat, outcome : Outcome]
Idle == [pc |-> "idle", hb |-> "off", lost |-> FALSE, op |-> None, token |-> 0,
         outcome |-> NoOutcome]

TypeOK ==
  /\ run \in [Runs -> RunRows]
  /\ op \in [Ops -> OpRows]
  /\ attempt \in [Workers -> Attempts]
  /\ asked \in [Clients -> Runs \cup {None}]
  /\ scheduled \in Nat /\ nextToken \in Nat /\ faults \in 0..MaxFaults

Init ==
  /\ run = [r \in Runs |-> [status |-> "absent", state |-> NoState,
                            response |-> "none", stages |-> <<>>]]
  /\ op = [o \in Ops |-> [status |-> "absent", run |-> None, kind |-> "initial",
                          queuedAt |-> 0, token |-> 0, left |-> 0]]
  /\ attempt = [w \in Workers |-> Idle]
  /\ asked = [c \in Clients |-> None]
  /\ scheduled = 0 /\ nextToken = 0 /\ faults = 0

-----------------------------------------------------------------------------
(* API requests. *)

QueuedOperation(r, kind) ==
  [status |-> "queued", run |-> r, kind |-> kind, queuedAt |-> scheduled,
   token |-> 0, left |-> 0]

\* create_explore_search_run: the run and its initial operation, one transaction.
CreateRun(r, o) ==
  /\ run[r].status = "absent" /\ op[o].status = "absent"
  /\ run' = [run EXCEPT ![r].status = "queued"]
  /\ op' = [op EXCEPT ![o] = QueuedOperation(r, "initial")]
  /\ scheduled' = scheduled + 1
  /\ UNCHANGED <<attempt, asked, nextToken, faults>>

\* Bug: the status test is forgotten.
ExpandableWhilePending(r) == run[r].state.done < run[r].state.plan

\* The status test and the pending-query test; a missing state has nothing pending.
Expandable(r) ==
  /\ run[r].status \in Completed
  /\ run[r].state.done < run[r].state.plan

\* expand_explore_search_run up to prepare_admission: a read without a lock.
PrecheckExpand(c, r) ==
  /\ asked[c] = None
  /\ Expandable(r)
  /\ asked' = [asked EXCEPT ![c] = r]
  /\ UNCHANGED <<run, op, attempt, scheduled, nextToken, faults>>

\* Bug: the locked transaction trusts the pre-check.
CommitExpandUnchecked(c, o) ==
  /\ asked[c] # None /\ op[o].status = "absent"
  /\ run' = [run EXCEPT ![asked[c]].status = "running"]
  /\ op' = [op EXCEPT ![o] = QueuedOperation(asked[c], "expansion")]
  /\ scheduled' = scheduled + 1
  /\ asked' = [asked EXCEPT ![c] = None]
  /\ UNCHANGED <<attempt, nextToken, faults>>

\* The locked transaction re-checks the run, then schedules one expansion.
CommitExpand(c, o) ==
  /\ asked[c] # None /\ Expandable(asked[c]) /\ op[o].status = "absent"
  /\ run' = [run EXCEPT ![asked[c]].status = "running"]
  /\ op' = [op EXCEPT ![o] = QueuedOperation(asked[c], "expansion")]
  /\ scheduled' = scheduled + 1
  /\ asked' = [asked EXCEPT ![c] = None]
  /\ UNCHANGED <<attempt, nextToken, faults>>

\* The re-check raises, verification fails or admission denies: nothing is scheduled.
RefuseExpand(c) ==
  /\ asked[c] # None
  /\ asked' = [asked EXCEPT ![c] = None]
  /\ UNCHANGED <<run, op, attempt, scheduled, nextToken, faults>>

-----------------------------------------------------------------------------
(* Claims and ownership. *)

\* The row lock of an operation is held by a main thread or by a heartbeat.
InTransaction(w) == attempt[w].pc \in {"starting", "finishing"}
Locked(o) == \E w \in Workers : /\ attempt[w].op = o
                                /\ InTransaction(w) \/ attempt[w].hb = "renewing"

\* Bugs: running operations are never claimed again, or only when released.
ClaimableQueued(o) == op[o].status = "queued"
ClaimableReleased(o) == \/ op[o].status = "queued"
                        \/ op[o].status = "running" /\ op[o].token = 0

Claimable(o) == \/ op[o].status = "queued"
                \/ op[o].status = "running" /\ op[o].left = 0

\* FOR UPDATE SKIP LOCKED, oldest first; every claim gets a fresh token.
Claim(w) ==
  /\ attempt[w].pc = "idle"
  /\ \E o \in Ops :
       /\ Claimable(o) /\ ~Locked(o)
       /\ \A p \in Ops : Claimable(p) /\ ~Locked(p) => op[o].queuedAt <= op[p].queuedAt
       /\ op' = [op EXCEPT ![o] = [@ EXCEPT !.status = "running", !.token = nextToken + 1,
                                            !.left = LeaseTicks]]
       /\ attempt' = [attempt EXCEPT ![w] = [Idle EXCEPT !.pc = "claimed", !.hb = "on",
                                             !.op = o, !.token = nextToken + 1]]
  /\ nextToken' = nextToken + 1
  /\ UNCHANGED <<run, asked, scheduled, faults>>

\* Bug: the fencing token is not compared.
OwnsByStatus(w) == op[attempt[w].op].status = "running"

\* The credential comparison and the status test of an owned transaction.
Owns(w) == /\ op[attempt[w].op].token = attempt[w].token
           /\ op[attempt[w].op].status = "running"

Unexpired(w) == op[attempt[w].op].left > 0

\* ensure_lease, then the opening of an owned transaction; SearchRunLeaseLostError
\* ends the attempt.  A row locked by the worker's own heartbeat is waited for.
EnterOwned(w, inside) ==
  /\ ~attempt[w].lost
  /\ Owns(w) => ~Locked(attempt[w].op)
  /\ attempt' = [attempt EXCEPT ![w].pc =
                   IF Owns(w) /\ Unexpired(w) THEN inside ELSE "release"]
  /\ UNCHANGED <<run, op, asked, scheduled, nextToken, faults>>

-----------------------------------------------------------------------------
(* One attempt of a worker: execute_search_run_operation and its caller. *)

BeginStart(w) == attempt[w].pc = "claimed" /\ EnterOwned(w, "starting")

\* An owned transaction that finds its lease expired rolls back.
RollBack(w) ==
  /\ InTransaction(w) /\ ~Unexpired(w)
  /\ attempt' = [attempt EXCEPT ![w].pc = "release"]
  /\ UNCHANGED <<run, op, asked, scheduled, nextToken, faults>>

\* start_search_run_operation: publish the running state, read the baseline.
CommitStart(w) ==
  LET r == op[attempt[w].op].run
      status == IF run[r].status \in Live THEN "running" ELSE run[r].status
  IN  /\ attempt[w].pc = "starting" /\ Unexpired(w)
      /\ run' = [run EXCEPT ![r].status = status]
      /\ attempt' = [attempt EXCEPT ![w] =
           [@ EXCEPT !.pc = "started",
                     !.outcome = [NoOutcome EXCEPT !.status = status,
                                                   !.state = run[r].state]]]
      /\ UNCHANGED <<op, asked, scheduled, nextToken, faults>>

\* States one attempt can reach: a longer executed prefix, for an expansion of the same plan.
Advances(kind, base) ==
  {s \in States : /\ base.done < s.done /\ s.done <= s.plan
                  /\ kind = "expansion" => s.plan = base.plan}

Report(status, base, s, answer) ==
  [status |-> status, state |-> s, first |-> base.done + 1, last |-> s.done,
   response |-> answer]

\* What run_explore_search and expand_explore_search can leave behind: an answer;
\* an error before or after the execution state was collected; and, for a first
\* search, an empty plan or a plan that no provider answered.
Answers(kind, base) ==
  {Report(t, base, s, IF s.done < s.plan THEN "more" ELSE "last")
     : t \in Completed, s \in Advances(kind, base)}
Errors(kind, base) ==
  {[NoOutcome EXCEPT !.state = s] : s \in {NoState} \cup Advances(kind, base)}
NothingFound(kind, base) ==
  {[NoOutcome EXCEPT !.status = "completed", !.response = "last"]}
  \cup {Report("failed", base, s, a) : s \in Advances(kind, base), a \in {"none", "unavailable"}}

Outcomes(kind, base) ==
  Answers(kind, base) \cup Errors(kind, base)
  \cup IF kind = "initial" THEN NothingFound(kind, base) ELSE {}

\* Bug: the execution callback stores the new baseline at once.
ExecuteAdvancingBaseline(w) ==
  LET o == attempt[w].op
      r == op[o].run
  IN  /\ attempt[w].pc = "started" /\ ~attempt[w].lost
      /\ \E result \in Outcomes(op[o].kind, attempt[w].outcome.state) :
           /\ attempt' = [attempt EXCEPT ![w] = [@ EXCEPT !.pc = "executed",
                                                          !.outcome = result]]
           /\ run' = [run EXCEPT ![r].state = IF result.state = NoState THEN @
                                              ELSE result.state]
      /\ UNCHANGED <<op, asked, scheduled, nextToken, faults>>

\* The provider work of one attempt; everything it produces is local to it.
\* A run found terminal is only echoed.
Execute(w) ==
  LET read == attempt[w].outcome IN
  /\ attempt[w].pc = "started" /\ ~attempt[w].lost
  /\ \E result \in IF read.status \in Terminal
                   THEN {[NoOutcome EXCEPT !.status = read.status]}
                   ELSE Outcomes(op[attempt[w].op].kind, read.state) :
       attempt' = [attempt EXCEPT ![w] = [@ EXCEPT !.pc = "executed", !.outcome = result]]
  /\ UNCHANGED <<run, op, asked, scheduled, nextToken, faults>>

BeginFinish(w) == attempt[w].pc = "executed" /\ EnterOwned(w, "finishing")

\* The number of an operation's stage: the one it has, else the next.
StageNumber(stages, o) ==
  LET own == {i \in DOMAIN stages : stages[i].op = o}
  IN  IF own = {} THEN Len(stages) + 1 ELSE CHOOSE i \in own : TRUE

WithStage(stages, o, result) ==
  IF result.first = 0 THEN stages
  ELSE LET n == StageNumber(stages, o)
           stage == [op |-> o, first |-> result.first, last |-> result.last]
       IN  [i \in DOMAIN stages \cup {n} |-> IF i = n THEN stage ELSE stages[i]]

\* Bug: the response is stored without the execution state it was built from.
PublishResponseOnly(row, o, result) ==
  [row EXCEPT !.status = result.status,
              !.response = IF result.response = "none" THEN @ ELSE result.response,
              !.stages = WithStage(@, o, result)]

\* The run as finish_search_run_operation leaves it; absent values keep the old ones.
Publish(row, o, result) ==
  [row EXCEPT !.status = result.status,
              !.state = IF result.state = NoState THEN @ ELSE result.state,
              !.response = IF result.response = "none" THEN @ ELSE result.response,
              !.stages = WithStage(@, o, result)]

\* finish_search_run_operation: result, baseline, report and lifecycle together.
CommitFinish(w) ==
  LET o == attempt[w].op
      r == op[o].run
      result == attempt[w].outcome
  IN  /\ attempt[w].pc = "finishing" /\ Unexpired(w)
      /\ op' = [op EXCEPT ![o].status = result.status]
      /\ run' = [run EXCEPT ![r] = Publish(@, o, result)]
      /\ attempt' = [attempt EXCEPT ![w].pc = "release"]
      /\ UNCHANGED <<asked, scheduled, nextToken, faults>>

\* ensure_lease finds the heartbeat's flag: SearchRunLeaseLostError.
Discard(w) ==
  /\ attempt[w].pc \in {"claimed", "started", "executed"} /\ attempt[w].lost
  /\ attempt' = [attempt EXCEPT ![w].pc = "release"]
  /\ UNCHANGED <<run, op, asked, scheduled, nextToken, faults>>

\* Bug: the release does not compare the token.
ReleaseAnyClaim(w) ==
  LET o == attempt[w].op IN
  /\ attempt[w].pc = "release" /\ attempt[w].hb # "renewing"
  /\ op' = [op EXCEPT ![o] = [@ EXCEPT !.token = 0, !.left = 0]]
  /\ attempt' = [attempt EXCEPT ![w] = Idle]
  /\ UNCHANGED <<run, asked, scheduled, nextToken, faults>>

\* finally: the heartbeat is stopped, exactly this claim is released.
Release(w) ==
  LET o == attempt[w].op IN
  /\ attempt[w].pc = "release" /\ attempt[w].hb # "renewing"
  /\ op' = IF op[o].token = attempt[w].token
           THEN [op EXCEPT ![o] = [@ EXCEPT !.token = 0, !.left = 0]] ELSE op
  /\ attempt' = [attempt EXCEPT ![w] = Idle]
  /\ UNCHANGED <<run, asked, scheduled, nextToken, faults>>

-----------------------------------------------------------------------------
(* The heartbeat thread, _renew_lease_until_finished. *)

LoseLease(w) == attempt' = [attempt EXCEPT ![w] = [@ EXCEPT !.hb = "off", !.lost = TRUE]]

\* An interval has passed since the claim or the last renewal.
BeginRenew(w) ==
  /\ attempt[w].hb = "on" /\ attempt[w].pc \notin {"idle", "release"}
  /\ Owns(w) => op[attempt[w].op].left < LeaseTicks /\ ~Locked(attempt[w].op)
  /\ IF Owns(w) /\ Unexpired(w)
     THEN attempt' = [attempt EXCEPT ![w].hb = "renewing"]
     ELSE LoseLease(w)
  /\ UNCHANGED <<run, op, asked, scheduled, nextToken, faults>>

\* Bug: the lease is not checked again before the commit.
CommitRenewUnchecked(w) ==
  /\ attempt[w].hb = "renewing"
  /\ op' = [op EXCEPT ![attempt[w].op].left = LeaseTicks]
  /\ attempt' = [attempt EXCEPT ![w].hb = "on"]
  /\ UNCHANGED <<run, asked, scheduled, nextToken, faults>>

\* Bug: the lease is extended from its old expiry instead of from now.
CommitRenewFromExpiry(w) ==
  /\ attempt[w].hb = "renewing"
  /\ IF Unexpired(w)
     THEN /\ op' = [op EXCEPT ![attempt[w].op].left = @ + LeaseTicks]
          /\ attempt' = [attempt EXCEPT ![w].hb = "on"]
     ELSE LoseLease(w) /\ op' = op
  /\ UNCHANGED <<run, asked, scheduled, nextToken, faults>>

\* renew_search_run_operation_lease ends: the lease is extended if it is still live.
CommitRenew(w) ==
  /\ attempt[w].hb = "renewing"
  /\ IF Unexpired(w)
     THEN /\ op' = [op EXCEPT ![attempt[w].op].left = LeaseTicks]
          /\ attempt' = [attempt EXCEPT ![w].hb = "on"]
     ELSE LoseLease(w) /\ op' = op
  /\ UNCHANGED <<run, asked, scheduled, nextToken, faults>>

-----------------------------------------------------------------------------
(* Faults and time. *)

Fault == faults < MaxFaults /\ faults' = faults + 1

\* The renewal raises: the thread sets the flag and ends.
HeartbeatFails(w) ==
  /\ attempt[w].hb # "off" /\ attempt[w].pc # "release" /\ Fault
  /\ LoseLease(w)
  /\ UNCHANGED <<run, op, asked, scheduled, nextToken>>

\* A PersistenceError leaves the main thread, which releases and then exits.
PersistenceFails(w) ==
  /\ attempt[w].pc \notin {"idle", "release"} /\ Fault
  /\ attempt' = [attempt EXCEPT ![w].pc = "release"]
  /\ UNCHANGED <<run, op, asked, scheduled, nextToken>>

\* The process is killed; open transactions roll back, a supervisor restarts it.
Crash(w) ==
  /\ attempt[w].pc # "idle" /\ Fault
  /\ attempt' = [attempt EXCEPT ![w] = Idle]
  /\ UNCHANGED <<run, op, asked, scheduled, nextToken>>

\* The claim of o is being renewed by the heartbeat of an attempt in progress.
Attended(o) ==
  \E w \in Workers : /\ attempt[w].op = o /\ attempt[w].token = op[o].token
                     /\ attempt[w].hb # "off" /\ attempt[w].pc # "release"

\* Part of the lease time passes.  That an attended lease runs out, because
\* the process or the database was too slow to renew it, is a fault.
Tick ==
  LET missed == {o \in Ops : op[o].status = "running" /\ op[o].left = 1 /\ Attended(o)} IN
  /\ \E o \in Ops : op[o].left > 0
  /\ faults + Cardinality(missed) <= MaxFaults
  /\ op' = [o \in Ops |-> [op[o] EXCEPT !.left = IF @ > 0 THEN @ - 1 ELSE 0]]
  /\ faults' = faults + Cardinality(missed)
  /\ UNCHANGED <<run, attempt, asked, scheduled, nextToken>>

\* Every worker is idle and its poll finds nothing to claim.
PollEmpty ==
  /\ \A w \in Workers : attempt[w].pc = "idle"
  /\ \A o \in Ops : ~Claimable(o)
  /\ UNCHANGED vars

-----------------------------------------------------------------------------
Request == \/ \E r \in Runs, o \in Ops : CreateRun(r, o)
           \/ \E c \in Clients, r \in Runs : PrecheckExpand(c, r)
           \/ \E c \in Clients, o \in Ops : CommitExpand(c, o)
           \/ \E c \in Clients : RefuseExpand(c)

Work(w) == \/ Claim(w) \/ BeginStart(w) \/ CommitStart(w) \/ Execute(w)
           \/ BeginFinish(w) \/ CommitFinish(w) \/ RollBack(w) \/ Discard(w)
           \/ Release(w)

Heartbeat(w) == BeginRenew(w) \/ CommitRenew(w)

WorkerFails(w) == HeartbeatFails(w) \/ PersistenceFails(w) \/ Crash(w)

Next == \/ Request \/ Tick \/ PollEmpty
        \/ \E w \in Workers : Work(w) \/ Heartbeat(w) \/ WorkerFails(w)

Spec == Init /\ [][Next]_vars

\* Workers are supervised and keep polling; PostgreSQL grants a row lock to a
\* statement that keeps waiting for it (hence SF); heartbeat statements end and
\* time passes.  Requests are not fair, and faults are not.
Fairness == /\ WF_vars(Tick)
            /\ \A w \in Workers : SF_vars(Work(w)) /\ WF_vars(CommitRenew(w))

FairSpec == Spec /\ Fairness

-----------------------------------------------------------------------------
(* Properties. *)

\* A run is queued or running exactly while one of its operations is, and never
\* two: a second expansion that passed the same unlocked pre-check schedules nothing.
LiveOperation(r, o) == op[o].run = r /\ op[o].status \in Live
OneLiveOperation ==
  \A r \in Runs :
    /\ run[r].status \in Live <=> \E o \in Ops : LiveOperation(r, o)
    /\ \A o, p \in Ops : LiveOperation(r, o) /\ LiveOperation(r, p) => o = p

\* The row lock of an operation has one holder, which still has the claim it
\* began with; no two attempts share a credential, and a credential is never
\* reused.  What fencing rests on while transactions are open.
ClaimDiscipline ==
  /\ \A w \in Workers :
       LET a == attempt[w] IN
       /\ InTransaction(w) \/ a.hb = "renewing" => a.op \in Ops /\ Owns(w)
       /\ ~(InTransaction(w) /\ a.hb = "renewing")
       /\ a.pc # "idle" => a.op \in Ops /\ a.token \in 1..nextToken
       /\ a.pc = "idle" => a = Idle
       /\ \A v \in Workers : a.pc # "idle" /\ a.token = attempt[v].token => v = w
  /\ \A o \in Ops : op[o].token <= nextToken

\* The committed stages of a run report consecutive parts of its plan, each by
\* another terminal operation of the run, and up to the stored state unless the
\* run failed: after any replay no query is skipped and none is reported twice.
StageLedger ==
  \A r \in Runs :
    LET s == run[r].stages
        reported == IF s = <<>> THEN 0 ELSE s[Len(s)].last
    IN  /\ \A i \in DOMAIN s :
             /\ s[i].first = (IF i = 1 THEN 1 ELSE s[i - 1].last + 1)
             /\ s[i].first <= s[i].last
             /\ op[s[i].op].run = r /\ op[s[i].op].status \in Terminal
             /\ \A j \in DOMAIN s : s[i].op = s[j].op => i = j
        /\ reported <= run[r].state.done
        /\ run[r].status # "failed" => reported = run[r].state.done

\* A completed run offers another expansion to the browser exactly when the
\* server would accept one: response and replay baseline never come from
\* different attempts.
CanExpandIsHonest ==
  \A r \in Runs : run[r].status \in Completed =>
                    (run[r].response = "more" <=> Expandable(r))

\* "Expired/superseded attempts cannot publish results" (docs/architecture.md):
\* an operation ends only by the worker that holds its newest token, unexpired.
FencedPublication ==
  [][\A o \in Ops :
       op[o].status \notin Terminal /\ op'[o].status \in Terminal =>
         \E w \in Workers : /\ attempt[w].pc = "finishing" /\ attempt[w].op = o
                            /\ attempt[w].token = op[o].token /\ op[o].left > 0]_vars

\* "an expired owner cannot resurrect its lease" (search_runs.py:193): once a
\* claim has run out, its operation and run stay as they are until a new claim.
ExpiredClaimIsDead ==
  [][\A o \in Ops :
       op[o].status = "running" /\ op[o].left = 0 /\ op'[o].token = op[o].token =>
         /\ op'[o] = op[o]
         /\ run'[op[o].run] = run[op[o].run]]_vars

\* An operation is executed again only because of a fault: without one every
\* operation is claimed once, and every fault costs at most one more claim.
RetriesNeedFaults ==
  nextToken <= Cardinality({o \in Ops : op[o].status \notin {"absent", "queued"}}) + faults

\* Whatever crashes, every scheduled operation ends once faults cease.
EveryOperationEnds ==
  \A o \in Ops : op[o].status = "queued" ~> op[o].status \in Terminal

-----------------------------------------------------------------------------
(* The life of a run that API clients observe. *)

Lifecycle == INSTANCE RunLifecycle
               WITH status <- [r \in Runs |-> run[r].status],
                    state <- [r \in Runs |-> run[r].state]

RefinesLifecycle == Lifecycle!Spec
RefinesFairLifecycle == Lifecycle!FairSpec

=============================================================================
