------------------------ MODULE SearchRunQueueProofs ------------------------
(***************************************************************************)
(* Theorems about SearchRunQueue for every number of workers, clients,     *)
(* runs and operations, every plan bound, lease and fault budget: its      *)
(* types, that claims are exclusive, and that every additional claim of an *)
(* operation is paid for by a fault.                                       *)
(***************************************************************************)
EXTENDS SearchRunQueue, FiniteSetTheorems, SequenceTheorems, TLAPS

-----------------------------------------------------------------------------
(* Type correctness. *)

\* What an attempt can produce is an outcome record.
LEMMA OutcomesType ==
  ASSUME NEW kind \in {"initial", "expansion"}, NEW base \in States,
         NEW result \in Outcomes(kind, base)
  PROVE  result \in Outcome
<1> USE QueueAssumptions DEF Outcome, States, Responses, Terminal, Completed, Live
<1>1. ASSUME NEW t \in Terminal, NEW s \in Advances(kind, base), NEW a \in Responses
      PROVE  Report(t, base, s, a) \in Outcome
  BY <1>1 DEF Report, Advances
<1>2. NoOutcome \in Outcome /\ NoState \in States
  BY DEF NoOutcome, NoState
<1>3. CASE result \in Answers(kind, base)
  <2>1. PICK t \in Completed, s \in Advances(kind, base) :
          result = Report(t, base, s, IF s.done < s.plan THEN "more" ELSE "last")
    BY <1>3 DEF Answers
  <2>2. QED
    BY <1>1, <2>1
<1>4. CASE result \in Errors(kind, base)
  BY <1>2, <1>4 DEF Errors, Advances
<1>5. CASE result \in NothingFound(kind, base)
  <2>1. [NoOutcome EXCEPT !.status = "completed", !.response = "last"] \in Outcome
    BY <1>2
  <2>2. \A s \in Advances(kind, base), a \in {"none", "unavailable"} :
          Report("failed", base, s, a) \in Outcome
    BY <1>1
  <2>3. QED
    <3>1. CASE result \in {[NoOutcome EXCEPT !.status = "completed", !.response = "last"]}
      BY <2>1, <3>1
    <3>2. CASE result \in {Report("failed", base, s, a) :
                             s \in Advances(kind, base), a \in {"none", "unavailable"}}
      BY <2>2, <3>2
    <3>3. QED
      BY <1>5, <3>1, <3>2 DEF NothingFound
<1>6. QED
  BY <1>3, <1>4, <1>5 DEF Outcomes

\* Storing a stage report appends a stage or replaces one.
LEMMA WithStageType ==
  ASSUME NEW stages \in Seq(Stages), NEW o \in Ops, NEW result \in Outcome
  PROVE  WithStage(stages, o, result) \in Seq(Stages)
<1> DEFINE n == StageNumber(stages, o)
           stage == [op |-> o, first |-> result.first, last |-> result.last]
<1>1. stage \in Stages
  BY DEF Stages, Outcome
<1>2. n \in DOMAIN stages \cup {Len(stages) + 1}
  <2> DEFINE own == {i \in DOMAIN stages : stages[i].op = o}
  <2>1. CASE own = {}
    BY <2>1 DEF StageNumber
  <2>2. CASE own # {}
    <3>1. (CHOOSE i \in own : TRUE) \in own
      BY <2>2
    <3>2. QED
      BY <2>2, <3>1 DEF StageNumber
  <2>3. QED
    BY <2>1, <2>2
<1>3. DOMAIN stages \cup {n} \in {1..Len(stages), 1..(Len(stages) + 1)}
  BY <1>2
<1>4. CASE result.first = 0
  BY <1>4 DEF WithStage
<1>5. CASE result.first # 0
  <2> DEFINE s == [i \in DOMAIN stages \cup {n} |-> IF i = n THEN stage ELSE stages[i]]
  <2>1. \A i \in DOMAIN stages \cup {n} : s[i] \in Stages
    BY <1>1
  <2>2. s \in Seq(Stages)
    <3>1. PICK k \in Nat : DOMAIN stages \cup {n} = 1..k
      BY <1>3
    <3>2. s \in [1..k -> Stages]
      BY <2>1, <3>1
    <3>3. QED
      BY <3>2, SeqDef
  <2>3. WithStage(stages, o, result) = s
    BY <1>5 DEF WithStage
  <2>4. QED
    BY <2>2, <2>3
<1>6. QED
  BY <1>4, <1>5

-----------------------------------------------------------------------------
(* The inductive invariant. *)

\* Rows refer to each other: an operation in the table has a run in the table.
References ==
  \A o \in Ops :
    /\ op[o].status = "absent" <=> op[o].run = None
    /\ op[o].run # None => run[op[o].run].status # "absent"

\* What an attempt is about to publish is a terminal outcome.
ResultReady == \A w \in Workers : attempt[w].pc \in {"executed", "finishing"} =>
                                   attempt[w].outcome.status \in Terminal

IndInv == TypeOK /\ References /\ ResultReady /\ ClaimDiscipline /\ OneLiveOperation

\* An attempt in progress has an operation, which has a run.
LEMMA AttemptRow ==
  ASSUME IndInv, NEW w \in Workers, attempt[w].pc # "idle"
  PROVE  /\ attempt[w].op \in Ops /\ attempt[w].op # None
         /\ Owns(w) => op[attempt[w].op].run \in Runs
<1> USE QueueAssumptions DEF IndInv
<1>1. attempt[w].op \in Ops /\ attempt[w].op # None
  BY DEF ClaimDiscipline
<1>2. ASSUME Owns(w) PROVE op[attempt[w].op].run \in Runs
  BY <1>1, <1>2 DEF Owns, References, TypeOK, OpRows
<1>3. QED
  BY <1>1, <1>2

\* The empty result and the empty state are values of their types.
LEMMA NoOutcomeType == NoOutcome \in Outcome /\ NoState \in States
  BY QueueAssumptions DEF NoOutcome, NoState, Outcome, States, Responses, Terminal

\* Updating the lease of an operation, the flags, or the result of an attempt.
LEMMA OperationUpdate ==
  ASSUME NEW row \in OpRows, NEW status \in Live \cup Terminal, NEW t \in Nat,
         NEW l \in 0..LeaseTicks
  PROVE  /\ [row EXCEPT !.token = t, !.left = l] \in OpRows
         /\ [row EXCEPT !.status = status, !.token = t, !.left = l] \in OpRows
  BY DEF OpRows

LEMMA AttemptUpdate ==
  ASSUME NEW row \in Attempts, NEW result \in Outcome,
         NEW step \in {"started", "executed"}
  PROVE  /\ [row EXCEPT !.hb = "off", !.lost = TRUE] \in Attempts
         /\ [row EXCEPT !.pc = step, !.outcome = result] \in Attempts
  BY DEF Attempts

\* An idle worker and a fresh claim are attempt records.
LEMMA NewAttempt ==
  ASSUME NEW o \in Ops, NEW t \in Nat
  PROVE  /\ Idle \in Attempts
         /\ [Idle EXCEPT !.pc = "claimed", !.hb = "on", !.op = o, !.token = t] \in Attempts
  BY NoOutcomeType DEF Idle, Attempts

\* Every step keeps the column types of both tables and of the attempts.
LEMMA TypeStep ==
  ASSUME IndInv, [Next]_vars
  PROVE  TypeOK'
<1> USE QueueAssumptions DEF IndInv
<1>1. ASSUME NEW r \in Runs, NEW o \in Ops, CreateRun(r, o)
      PROVE  TypeOK'
  <2>1. QueuedOperation(r, "initial") \in OpRows
    BY DEF QueuedOperation, OpRows, TypeOK, Live
  <2>2. run' \in [Runs -> RunRows]
    BY <1>1 DEF TypeOK, CreateRun, RunRows, Live
  <2>3. QED
    BY <1>1, <2>1, <2>2 DEF TypeOK, CreateRun
<1>2. ASSUME NEW c \in Clients, NEW r \in Runs, PrecheckExpand(c, r)
      PROVE  TypeOK'
  BY <1>2 DEF TypeOK, PrecheckExpand
<1>3. ASSUME NEW c \in Clients, NEW o \in Ops, CommitExpand(c, o)
      PROVE  TypeOK'
  <2>1. asked[c] \in Runs /\ QueuedOperation(asked[c], "expansion") \in OpRows
    BY <1>3 DEF CommitExpand, QueuedOperation, OpRows, TypeOK, Live
  <2>2. run' \in [Runs -> RunRows]
    BY <1>3 DEF TypeOK, CommitExpand, RunRows, Live
  <2>3. QED
    BY <1>3, <2>1, <2>2 DEF TypeOK, CommitExpand
<1>4. ASSUME NEW c \in Clients, RefuseExpand(c)
      PROVE  TypeOK'
  BY <1>4 DEF TypeOK, RefuseExpand
<1>5. ASSUME NEW w \in Workers, Claim(w)
      PROVE  TypeOK'
  <2>1. PICK o \in Ops :
          /\ op' = [op EXCEPT ![o] = [@ EXCEPT !.status = "running",
                                              !.token = nextToken + 1, !.left = LeaseTicks]]
          /\ attempt' = [attempt EXCEPT ![w] = [Idle EXCEPT !.pc = "claimed", !.hb = "on",
                                                   !.op = o, !.token = nextToken + 1]]
    BY <1>5 DEF Claim
  <2>2. [op[o] EXCEPT !.status = "running", !.token = nextToken + 1, !.left = LeaseTicks]
          \in OpRows
    <3>1. /\ op[o] \in OpRows /\ nextToken + 1 \in Nat
          /\ LeaseTicks \in 0..LeaseTicks /\ "running" \in Live \cup Terminal
      BY DEF TypeOK, Live
    <3>2. QED
      BY <3>1, OperationUpdate
  <2>3. [Idle EXCEPT !.pc = "claimed", !.hb = "on", !.op = o, !.token = nextToken + 1]
          \in Attempts
    <3>1. nextToken + 1 \in Nat
      BY DEF TypeOK
    <3>2. QED
      BY <3>1, NewAttempt
  <2>4. QED
    BY <1>5, <2>1, <2>2, <2>3 DEF TypeOK, Claim
<1>6. ASSUME NEW w \in Workers, NEW inside \in {"starting", "finishing"},
             EnterOwned(w, inside)
      PROVE  TypeOK'
  BY <1>6 DEF TypeOK, EnterOwned, Attempts
<1>7. ASSUME NEW w \in Workers, CommitStart(w)
      PROVE  TypeOK'
  <2> DEFINE r == op[attempt[w].op].run
             status == IF run[r].status \in Live THEN "running" ELSE run[r].status
  <2>1. r \in Runs
    BY <1>7, AttemptRow DEF CommitStart, ClaimDiscipline, InTransaction
  <2>2. status \in Live \cup Terminal
    BY <2>1, <1>7, AttemptRow DEF CommitStart, ClaimDiscipline, InTransaction,
       References, TypeOK, RunRows, Live
  <2>3. [NoOutcome EXCEPT !.status = status, !.state = run[r].state] \in Outcome
    BY <2>1, <2>2, NoOutcomeType DEF Outcome, TypeOK, RunRows
  <2>4. attempt' \in [Workers -> Attempts]
    BY <1>7, <2>3, AttemptUpdate DEF CommitStart, TypeOK
  <2>5. run' \in [Runs -> RunRows]
    BY <1>7, <2>1, <2>2, ZenonT(40) DEF CommitStart, TypeOK, RunRows
  <2>6. QED
    BY <1>7, <2>4, <2>5 DEF CommitStart, TypeOK
<1>8. ASSUME NEW w \in Workers, Execute(w)
      PROVE  TypeOK'
  <2>1. PICK result : /\ result \in IF attempt[w].outcome.status \in Terminal
                           THEN {[NoOutcome EXCEPT !.status = attempt[w].outcome.status]}
                           ELSE Outcomes(op[attempt[w].op].kind, attempt[w].outcome.state)
                      /\ attempt' = [attempt EXCEPT ![w] =
                                       [@ EXCEPT !.pc = "executed", !.outcome = result]]
    BY <1>8 DEF Execute
  <2>2. /\ op[attempt[w].op].kind \in {"initial", "expansion"}
        /\ attempt[w].outcome \in Outcome /\ attempt[w].outcome.state \in States
    BY <1>8, AttemptRow DEF Execute, TypeOK, OpRows, Attempts, Outcome
  <2>3. result \in Outcome
    <3>1. CASE attempt[w].outcome.status \in Terminal
      BY <2>1, <3>1, NoOutcomeType DEF Outcome
    <3>2. CASE attempt[w].outcome.status \notin Terminal
      BY <2>1, <2>2, <3>2, OutcomesType
    <3>3. QED
      BY <3>1, <3>2
  <2>4. QED
    BY <1>8, <2>1, <2>3, AttemptUpdate DEF Execute, TypeOK
<1>9. ASSUME NEW w \in Workers, CommitFinish(w)
      PROVE  TypeOK'
  <2> DEFINE o == attempt[w].op
             r == op[o].run
  <2>1. o \in Ops /\ r \in Runs /\ attempt[w].outcome \in Outcome
    BY <1>9, AttemptRow DEF CommitFinish, ClaimDiscipline, InTransaction, TypeOK, Attempts
  <2>2. WithStage(run[r].stages, o, attempt[w].outcome) \in Seq(Stages)
    BY <2>1, WithStageType DEF TypeOK, RunRows
  <2>3. Publish(run[r], o, attempt[w].outcome) \in RunRows
    BY <2>1, <2>2, ZenonT(40) DEF Publish, TypeOK, RunRows, Outcome
  <2>4. op' \in [Ops -> OpRows]
    BY <1>9, <2>1 DEF CommitFinish, TypeOK, OpRows, Outcome
  <2>5. attempt' \in [Workers -> Attempts]
    BY <1>9 DEF CommitFinish, TypeOK, Attempts
  <2>6. run' \in [Runs -> RunRows]
    BY <1>9, <2>1, <2>3 DEF CommitFinish, TypeOK
  <2>7. QED
    BY <1>9, <2>4, <2>5, <2>6 DEF CommitFinish, TypeOK
<1>10. ASSUME NEW w \in Workers, RollBack(w) \/ Discard(w)
       PROVE  TypeOK'
  BY <1>10 DEF TypeOK, RollBack, Discard, Attempts
<1>11. ASSUME NEW w \in Workers, Release(w)
       PROVE  TypeOK'
  <2>1. Idle \in Attempts
    BY NoOutcomeType DEF Idle, Attempts
  <2>2. \A o \in Ops : [op[o] EXCEPT !.token = 0, !.left = 0] \in OpRows
    <3>1. \A o \in Ops : op[o] \in OpRows
      BY DEF TypeOK
    <3>2. 0 \in Nat /\ 0 \in 0..LeaseTicks /\ "running" \in Live \cup Terminal
      BY DEF Live
    <3>3. QED
      BY <3>1, <3>2, OperationUpdate
  <2>3. QED
    BY <1>11, <2>1, <2>2 DEF TypeOK, Release
<1>12. ASSUME NEW w \in Workers, BeginRenew(w)
       PROVE  TypeOK'
  <2>1. CASE LoseLease(w)
    BY <1>12, <2>1, NoOutcomeType, AttemptUpdate DEF TypeOK, BeginRenew, LoseLease
  <2>2. CASE attempt' = [attempt EXCEPT ![w].hb = "renewing"]
    BY <1>12, <2>2 DEF TypeOK, BeginRenew, Attempts
  <2>3. QED
    BY <1>12, <2>1, <2>2 DEF BeginRenew
<1>13. ASSUME NEW w \in Workers, CommitRenew(w)
       PROVE  TypeOK'
  <2>1. op' \in [Ops -> OpRows]
    BY <1>13 DEF TypeOK, CommitRenew, OpRows
  <2>2. attempt' \in [Workers -> Attempts]
    <3>1. CASE LoseLease(w)
      BY <3>1, NoOutcomeType, AttemptUpdate DEF TypeOK, LoseLease
    <3>2. CASE attempt' = [attempt EXCEPT ![w].hb = "on"]
      BY <3>2 DEF TypeOK, Attempts
    <3>3. QED
      BY <1>13, <3>1, <3>2 DEF CommitRenew
  <2>3. QED
    BY <1>13, <2>1, <2>2 DEF TypeOK, CommitRenew
<1>14. ASSUME NEW w \in Workers, WorkerFails(w)
       PROVE  TypeOK'
  <2>1. Idle \in Attempts
    BY NoOutcomeType DEF Idle, Attempts
  <2>2. attempt' \in [Workers -> Attempts]
    <3>1. CASE LoseLease(w)
      BY <3>1, NoOutcomeType, AttemptUpdate DEF TypeOK, LoseLease
    <3>2. CASE attempt' = [attempt EXCEPT ![w].pc = "release"]
      BY <3>2 DEF TypeOK, Attempts
    <3>3. CASE attempt' = [attempt EXCEPT ![w] = Idle]
      BY <2>1, <3>3 DEF TypeOK
    <3>4. QED
      BY <1>14, <3>1, <3>2, <3>3 DEF WorkerFails, HeartbeatFails, PersistenceFails, Crash
  <2>3. faults' \in 0..MaxFaults
    BY <1>14 DEF TypeOK, WorkerFails, HeartbeatFails, PersistenceFails, Crash, Fault
  <2>4. QED
    BY <1>14, <2>2, <2>3
    DEF TypeOK, WorkerFails, HeartbeatFails, PersistenceFails, Crash
<1>15. ASSUME Tick
       PROVE  TypeOK'
  <2> DEFINE missed == {o \in Ops : op[o].status = "running" /\ op[o].left = 1
                                    /\ Attended(o)}
  <2>1. Cardinality(missed) \in Nat
    BY FS_Subset, FS_CardinalityType
  <2>2. \A o \in Ops : [op[o] EXCEPT !.left = IF @ > 0 THEN @ - 1 ELSE 0] \in OpRows
    BY DEF TypeOK, OpRows
  <2>3. QED
    BY <1>15, <2>1, <2>2 DEF Tick, TypeOK
<1>16. ASSUME UNCHANGED vars
       PROVE  TypeOK'
  BY <1>16 DEF vars, TypeOK
<1>17. QED
  BY <1>1, <1>2, <1>3, <1>4, <1>5, <1>6, <1>7, <1>8, <1>9, <1>10, <1>11, <1>12, <1>13,
     <1>14, <1>15, <1>16
  DEF Next, Request, Work, Heartbeat, BeginStart, BeginFinish, PollEmpty

-----------------------------------------------------------------------------
(* Runs and operations agree. *)

\* Steps that leave the lifecycle columns of both tables alone.
SameLifecycle ==
  /\ \A o \in Ops : op'[o].status = op[o].status /\ op'[o].run = op[o].run
  /\ \A r \in Runs : run'[r].status = run[r].status

\* Such a step keeps the agreement of both tables.
LEMMA SameLifecycleStep ==
  ASSUME IndInv, SameLifecycle
  PROVE  References' /\ OneLiveOperation'
<1>1. References'
  BY DEF IndInv, TypeOK, OpRows, References, SameLifecycle
<1>2. OneLiveOperation'
  BY DEF IndInv, OneLiveOperation, LiveOperation, SameLifecycle
<1>3. QED
  BY <1>1, <1>2

\* Only five actions write a lifecycle column: create, expand, claim, start, finish.
LEMMA QuietStep ==
  ASSUME IndInv, [Next]_vars,
         \A r \in Runs, o \in Ops : ~CreateRun(r, o),
         \A c \in Clients, o \in Ops : ~CommitExpand(c, o),
         \A w \in Workers : ~Claim(w) /\ ~CommitStart(w) /\ ~CommitFinish(w)
  PROVE  SameLifecycle
<1> USE DEF IndInv
<1>1. CASE run' = run /\ op' = op
  BY <1>1 DEF SameLifecycle
<1>2. ASSUME NEW w \in Workers, Release(w)
      PROVE  SameLifecycle
  BY <1>2 DEF Release, SameLifecycle, TypeOK, OpRows
<1>3. ASSUME NEW w \in Workers, CommitRenew(w)
      PROVE  SameLifecycle
  BY <1>3 DEF CommitRenew, SameLifecycle, TypeOK, OpRows
<1>4. CASE Tick
  <2>1. \A o \in Ops : op'[o] = [op[o] EXCEPT !.left = IF @ > 0 THEN @ - 1 ELSE 0]
    BY <1>4 DEF Tick
  <2>2. QED
    BY <1>4, <2>1 DEF Tick, SameLifecycle, TypeOK, OpRows
<1>5. QED
  BY <1>1, <1>2, <1>3, <1>4
  DEF Next, Request, Work, Heartbeat, WorkerFails, BeginStart, BeginFinish, EnterOwned,
      PollEmpty, vars, PrecheckExpand, RefuseExpand, RollBack, Execute, Discard,
      BeginRenew, HeartbeatFails, PersistenceFails, Crash

\* Every step keeps the agreement of runs and operations.
LEMMA LifecycleStep ==
  ASSUME IndInv, [Next]_vars
  PROVE  References' /\ OneLiveOperation'
<1> USE QueueAssumptions DEF IndInv
<1>1. ASSUME NEW r \in Runs, NEW o \in Ops, CreateRun(r, o)
      PROVE  References' /\ OneLiveOperation'
  <2>1. /\ op[o].status = "absent" /\ op[o].run = None /\ run[r].status = "absent"
        /\ \A p \in Ops : op[p].run # r
    BY <1>1 DEF CreateRun, References
  <2>2. /\ op'[o].status = "queued" /\ op'[o].run = r
        /\ \A p \in Ops \ {o} : op'[p] = op[p]
    BY <1>1 DEF CreateRun, QueuedOperation, TypeOK
  <2>3. run'[r].status = "queued" /\ \A q \in Runs \ {r} : run'[q] = run[q]
    BY <1>1 DEF CreateRun, TypeOK, RunRows
  <2>4. References'
    BY <2>1, <2>2, <2>3 DEF References, TypeOK, OpRows
  <2>5. OneLiveOperation'
    BY <2>1, <2>2, <2>3 DEF OneLiveOperation, LiveOperation, Live
  <2>6. QED
    BY <2>4, <2>5
<1>2. ASSUME NEW c \in Clients, NEW o \in Ops, CommitExpand(c, o)
      PROVE  References' /\ OneLiveOperation'
  <2> DEFINE r == asked[c]
  <2>1. /\ r \in Runs /\ op[o].status = "absent" /\ op[o].run = None
        /\ run[r].status \notin Live
    BY <1>2 DEF CommitExpand, Expandable, References, TypeOK, Live, Completed
  <2>2. /\ op'[o].status = "queued" /\ op'[o].run = r
        /\ \A p \in Ops \ {o} : op'[p] = op[p]
    BY <1>2 DEF CommitExpand, QueuedOperation, TypeOK
  <2>3. run'[r].status = "running" /\ \A q \in Runs \ {r} : run'[q] = run[q]
    BY <1>2, <2>1 DEF CommitExpand, TypeOK, RunRows
  <2>4. References'
    BY <2>1, <2>2, <2>3 DEF References, TypeOK, OpRows
  <2>5. OneLiveOperation'
    BY <2>1, <2>2, <2>3 DEF OneLiveOperation, LiveOperation, Live
  <2>6. QED
    BY <2>4, <2>5
<1>3. ASSUME NEW w \in Workers, Claim(w)
      PROVE  References' /\ OneLiveOperation'
  <2>1. PICK o \in Ops :
          /\ Claimable(o)
          /\ op' = [op EXCEPT ![o] = [@ EXCEPT !.status = "running",
                                              !.token = nextToken + 1, !.left = LeaseTicks]]
    BY <1>3 DEF Claim
  <2>2. /\ op[o].status \in Live /\ op'[o].status = "running" /\ op'[o].run = op[o].run
        /\ \A p \in Ops \ {o} : op'[p] = op[p]
        /\ run' = run
    <3>1. op[o] \in OpRows /\ op[o].status \in Live /\ run' = run
      BY <1>3, <2>1 DEF Claim, Claimable, Live, TypeOK
    <3>2. /\ op'[o] = [op[o] EXCEPT !.status = "running", !.token = nextToken + 1,
                                    !.left = LeaseTicks]
          /\ \A p \in Ops \ {o} : op'[p] = op[p]
      BY <2>1 DEF TypeOK
    <3>3. QED
      BY <3>1, <3>2 DEF OpRows
  <2>3. References'
    BY <2>2 DEF References, Live, TypeOK, OpRows
  <2>4. OneLiveOperation'
    BY <2>2 DEF OneLiveOperation, LiveOperation, Live
  <2>5. QED
    BY <2>3, <2>4
<1>4. ASSUME NEW w \in Workers, CommitStart(w)
      PROVE  References' /\ OneLiveOperation'
  <2> DEFINE o == attempt[w].op
             r == op[o].run
  <2>1. o \in Ops /\ r \in Runs /\ op[o].status = "running"
    BY <1>4, AttemptRow DEF CommitStart, ClaimDiscipline, InTransaction, Owns
  <2>2. run[r].status \in Live
    BY <2>1 DEF OneLiveOperation, LiveOperation, Live
  <2>3. /\ run'[r].status = "running" /\ \A q \in Runs \ {r} : run'[q] = run[q]
        /\ op' = op
    BY <1>4, <2>1, <2>2 DEF CommitStart, TypeOK, RunRows
  <2>4. References'
    BY <2>1, <2>3 DEF References, TypeOK, OpRows
  <2>5. OneLiveOperation'
    BY <2>2, <2>3 DEF OneLiveOperation, LiveOperation, Live
  <2>6. QED
    BY <2>4, <2>5
<1>5. ASSUME NEW w \in Workers, CommitFinish(w)
      PROVE  References' /\ OneLiveOperation'
  <2> DEFINE o == attempt[w].op
             r == op[o].run
             status == attempt[w].outcome.status
  <2>1. o \in Ops /\ r \in Runs /\ op[o].status = "running"
    BY <1>5, AttemptRow DEF CommitFinish, ClaimDiscipline, InTransaction, Owns
  <2>2. status \in Terminal
    BY <1>5 DEF CommitFinish, ResultReady
  <2>3. /\ op'[o].status = status /\ op'[o].run = r
        /\ \A p \in Ops \ {o} : op'[p] = op[p]
    BY <1>5, <2>1 DEF CommitFinish, TypeOK, OpRows
  <2>4. run'[r].status = status /\ \A q \in Runs \ {r} : run'[q] = run[q]
    BY <1>5, <2>1 DEF CommitFinish, Publish, TypeOK, RunRows
  <2>5. LiveOperation(r, o) /\ \A p \in Ops \ {o} : ~LiveOperation(r, p)
    BY <2>1 DEF OneLiveOperation, LiveOperation, Live
  <2>6. References'
    BY <2>1, <2>2, <2>3, <2>4 DEF References, TypeOK, OpRows, Terminal, Completed
  <2>7. OneLiveOperation'
    BY <2>1, <2>2, <2>3, <2>4, <2>5
    DEF OneLiveOperation, LiveOperation, Live, Terminal, Completed
  <2>8. QED
    BY <2>6, <2>7
<1>6. QED
  BY <1>1, <1>2, <1>3, <1>4, <1>5, QuietStep, SameLifecycleStep

-----------------------------------------------------------------------------
(* Claims are exclusive. *)

\* Every step keeps the outcomes about to be published terminal.
LEMMA ResultReadyStep ==
  ASSUME IndInv, [Next]_vars
  PROVE  ResultReady'
<1> USE DEF IndInv
<1>1. ASSUME NEW w \in Workers, Execute(w)
      PROVE  ResultReady'
  <2>1. ASSUME NEW kind, NEW base, NEW x \in Outcomes(kind, base)
        PROVE  x.status \in Terminal
    <3> USE DEF Report, NoOutcome, Terminal, Completed
    <3>1. CASE x \in Answers(kind, base)
      BY <3>1 DEF Answers
    <3>2. CASE x \in Errors(kind, base)
      BY <3>2 DEF Errors
    <3>3. CASE x \in {[NoOutcome EXCEPT !.status = "completed", !.response = "last"]}
      BY <3>3
    <3>4. CASE x \in {Report("failed", base, s, a) :
                        s \in Advances(kind, base), a \in {"none", "unavailable"}}
      BY <3>4
    <3>5. QED
      BY <3>1, <3>2, <3>3, <3>4 DEF Outcomes, NothingFound
  <2>2. PICK result : /\ result.status \in Terminal
                      /\ attempt' = [attempt EXCEPT ![w] =
                                       [@ EXCEPT !.pc = "executed", !.outcome = result]]
    BY <1>1, <2>1 DEF Execute, NoOutcome
  <2>3. QED
    BY <2>2 DEF ResultReady, TypeOK, Attempts
<1>2. ASSUME NEW w \in Workers, Claim(w) \/ Release(w) \/ Crash(w)
      PROVE  ResultReady'
  <2>1. attempt'[w].pc \notin {"executed", "finishing"}
        /\ \A v \in Workers \ {w} : attempt'[v] = attempt[v]
    <3>1. CASE Claim(w)
      BY <3>1 DEF Claim, Idle, TypeOK
    <3>2. CASE Release(w) \/ Crash(w)
      BY <3>2 DEF Release, Crash, Idle, TypeOK
    <3>3. QED
      BY <1>2, <3>1, <3>2
  <2>2. QED
    BY <2>1 DEF ResultReady
<1>3. ASSUME NEW w \in Workers, CommitStart(w)
      PROVE  ResultReady'
  BY <1>3 DEF CommitStart, ResultReady, TypeOK, Attempts
<1>4. ASSUME NEW w \in Workers, BeginStart(w) \/ BeginFinish(w)
      PROVE  ResultReady'
  BY <1>4 DEF BeginStart, BeginFinish, EnterOwned, ResultReady, TypeOK, Attempts
<1>5. ASSUME NEW w \in Workers,
             CommitFinish(w) \/ RollBack(w) \/ Discard(w) \/ PersistenceFails(w)
      PROVE  ResultReady'
  BY <1>5 DEF CommitFinish, RollBack, Discard, PersistenceFails, ResultReady, TypeOK, Attempts
<1>6. ASSUME NEW w \in Workers, Heartbeat(w) \/ HeartbeatFails(w)
      PROVE  ResultReady'
  BY <1>6, ZenonT(40) DEF Heartbeat, BeginRenew, CommitRenew, HeartbeatFails, LoseLease, ResultReady,
     TypeOK, Attempts
<1>7. CASE Request \/ Tick \/ PollEmpty \/ UNCHANGED vars
  BY <1>7 DEF Request, CreateRun, PrecheckExpand, CommitExpand, RefuseExpand, Tick,
     PollEmpty, vars, ResultReady
<1>8. QED
  BY <1>1, <1>2, <1>3, <1>4, <1>5, <1>6, <1>7 DEF Next, Work, WorkerFails

\* Steps of worker w that touch no operation and keep its credential.
LEMMA DisciplineOfAttempt ==
  ASSUME IndInv, NEW w \in Workers, op' = op, nextToken' = nextToken,
         \A v \in Workers \ {w} : attempt'[v] = attempt[v],
         attempt[w].pc # "idle", attempt'[w].pc # "idle",
         attempt'[w].op = attempt[w].op, attempt'[w].token = attempt[w].token,
         InTransaction(w)' \/ attempt'[w].hb = "renewing" => Owns(w),
         ~(InTransaction(w)' /\ attempt'[w].hb = "renewing")
  PROVE  ClaimDiscipline'
  BY DEF IndInv, ClaimDiscipline, InTransaction, Owns

\* Every step keeps row locks and credentials exclusive.
LEMMA ClaimDisciplineStep ==
  ASSUME IndInv, [Next]_vars
  PROVE  ClaimDiscipline'
<1> USE QueueAssumptions DEF IndInv
<1>1. ASSUME op' = op, attempt' = attempt, nextToken' = nextToken
      PROVE  ClaimDiscipline'
  BY <1>1 DEF ClaimDiscipline, InTransaction, Owns
<1>2. ASSUME NEW w \in Workers, BeginStart(w) \/ BeginFinish(w)
      PROVE  ClaimDiscipline'
  <2>1. /\ attempt[w].pc # "idle" /\ attempt'[w] = [attempt[w] EXCEPT !.pc = attempt'[w].pc]
        /\ attempt'[w].pc \in {"starting", "finishing", "release"}
        /\ InTransaction(w)' => Owns(w)
        /\ Owns(w) => attempt[w].hb # "renewing"
    BY <1>2, AttemptRow
    DEF BeginStart, BeginFinish, EnterOwned, InTransaction, Locked, TypeOK, Attempts
  <2>2. QED
    BY <1>2, <2>1, DisciplineOfAttempt
    DEF BeginStart, BeginFinish, EnterOwned, ClaimDiscipline, TypeOK, Attempts
<1>3. ASSUME NEW w \in Workers,
             CommitStart(w) \/ Execute(w) \/ RollBack(w) \/ Discard(w) \/ PersistenceFails(w)
      PROVE  ClaimDiscipline'
  <2>1. /\ attempt[w].pc # "idle" /\ attempt'[w].pc \in {"started", "executed", "release"}
        /\ attempt'[w].hb = attempt[w].hb /\ attempt'[w].op = attempt[w].op
        /\ attempt'[w].token = attempt[w].token
        /\ \A v \in Workers \ {w} : attempt'[v] = attempt[v]
    <3> USE DEF TypeOK, Attempts, InTransaction
    <3>1. CASE CommitStart(w)
      BY <3>1 DEF CommitStart
    <3>2. CASE Execute(w)
      BY <3>2 DEF Execute
    <3>3. CASE RollBack(w) \/ Discard(w) \/ PersistenceFails(w)
      BY <3>3 DEF RollBack, Discard, PersistenceFails
    <3>4. QED
      BY <1>3, <3>1, <3>2, <3>3
  <2>2. QED
    BY <1>3, <2>1, DisciplineOfAttempt
    DEF CommitStart, Execute, RollBack, Discard, PersistenceFails, InTransaction,
        ClaimDiscipline
<1>4. ASSUME NEW w \in Workers, BeginRenew(w) \/ HeartbeatFails(w)
      PROVE  ClaimDiscipline'
  <2>1. /\ attempt[w].pc # "idle" /\ attempt'[w].pc = attempt[w].pc
        /\ attempt'[w].op = attempt[w].op /\ attempt'[w].token = attempt[w].token
        /\ \A v \in Workers \ {w} : attempt'[v] = attempt[v]
        /\ op' = op /\ nextToken' = nextToken
    <3>1. /\ attempt[w].hb # "off" /\ op' = op /\ nextToken' = nextToken
          /\ LoseLease(w) \/ attempt' = [attempt EXCEPT ![w].hb = "renewing"]
      BY <1>4 DEF BeginRenew, HeartbeatFails
    <3>2. attempt[w].pc # "idle"
      BY <3>1 DEF ClaimDiscipline, Idle
    <3>3. CASE LoseLease(w)
      BY <3>1, <3>2, <3>3 DEF LoseLease, TypeOK, Attempts
    <3>4. CASE attempt' = [attempt EXCEPT ![w].hb = "renewing"]
      BY <3>1, <3>2, <3>4 DEF TypeOK, Attempts
    <3>5. QED
      BY <3>1, <3>3, <3>4
  <2>2. attempt'[w].hb = "renewing" => Owns(w) /\ ~InTransaction(w)
    <3>1. CASE LoseLease(w)
      BY <3>1 DEF LoseLease, TypeOK, Attempts
    <3>2. CASE ~LoseLease(w)
      BY <1>4, <2>1, <3>2, AttemptRow DEF BeginRenew, HeartbeatFails, Locked
    <3>3. QED
      BY <3>1, <3>2
  <2>3. InTransaction(w)' <=> InTransaction(w)
    BY <2>1 DEF InTransaction
  <2>4. QED
    BY <2>1, <2>2, <2>3, DisciplineOfAttempt DEF ClaimDiscipline
<1>5. ASSUME NEW w \in Workers, CommitRenew(w)
      PROVE  ClaimDiscipline'
  <2>1. /\ attempt[w].pc # "idle" /\ attempt'[w].pc = attempt[w].pc
        /\ attempt'[w].op = attempt[w].op /\ attempt'[w].token = attempt[w].token
        /\ attempt'[w].hb # "renewing"
        /\ \A v \in Workers \ {w} : attempt'[v] = attempt[v]
        /\ nextToken' = nextToken
    <3>1. /\ attempt[w].hb # "off" /\ nextToken' = nextToken
          /\ LoseLease(w) \/ attempt' = [attempt EXCEPT ![w].hb = "on"]
      BY <1>5 DEF CommitRenew
    <3>2. attempt[w].pc # "idle"
      BY <3>1 DEF ClaimDiscipline, Idle
    <3>3. CASE LoseLease(w)
      BY <3>1, <3>2, <3>3 DEF LoseLease, TypeOK, Attempts
    <3>4. CASE attempt' = [attempt EXCEPT ![w].hb = "on"]
      BY <3>1, <3>2, <3>4 DEF TypeOK, Attempts
    <3>5. QED
      BY <3>1, <3>3, <3>4
  <2>2. \A o \in Ops : op'[o].status = op[o].status /\ op'[o].token = op[o].token
    BY <1>5 DEF CommitRenew, TypeOK, OpRows
  <2>3. QED
    BY <2>1, <2>2 DEF ClaimDiscipline, InTransaction, Owns
<1>6. CASE Tick
  <2>1. \A o \in Ops : op'[o].status = op[o].status /\ op'[o].token = op[o].token
    BY <1>6 DEF Tick, TypeOK, OpRows
  <2>2. attempt' = attempt /\ nextToken' = nextToken
    BY <1>6 DEF Tick
  <2>3. QED
    BY <2>1, <2>2 DEF ClaimDiscipline, InTransaction, Owns
<1>7. ASSUME NEW w \in Workers, Crash(w)
      PROVE  ClaimDiscipline'
  <2>1. /\ attempt'[w] = Idle /\ \A v \in Workers \ {w} : attempt'[v] = attempt[v]
        /\ op' = op /\ nextToken' = nextToken
    BY <1>7 DEF Crash, TypeOK
  <2>2. Idle.pc = "idle" /\ Idle.hb = "off" /\ Idle.token = 0
    BY DEF Idle
  <2>3. \A v \in Workers : attempt[v].token \in Nat
    BY DEF TypeOK, Attempts
  <2>4. QED
    BY <2>1, <2>2, <2>3 DEF ClaimDiscipline, InTransaction, Owns
<1>8. ASSUME NEW w \in Workers, Release(w)
      PROVE  ClaimDiscipline'
  <2> DEFINE o == attempt[w].op
  <2>1. /\ attempt'[w] = Idle /\ \A v \in Workers \ {w} : attempt'[v] = attempt[v]
        /\ nextToken' = nextToken /\ attempt[w].pc # "idle"
    BY <1>8 DEF Release, TypeOK
  <2>2. \A p \in Ops : /\ op'[p].status = op[p].status
                       /\ \/ op'[p].token = op[p].token
                          \/ op'[p].token = 0 /\ op[p].token = attempt[w].token
    BY <1>8 DEF Release, TypeOK, OpRows
  <2>3. \A v \in Workers \ {w} : attempt[v].pc # "idle" => attempt[v].token # attempt[w].token
    BY DEF ClaimDiscipline
  <2>4. Idle.pc = "idle" /\ Idle.hb = "off" /\ Idle.token = 0 /\ nextToken \in Nat
    BY DEF Idle, TypeOK
  <2>5. \A v \in Workers : attempt[v].token \in Nat
    BY DEF TypeOK, Attempts
  <2>6. QED
    BY <2>1, <2>2, <2>3, <2>4, <2>5 DEF ClaimDiscipline, InTransaction, Owns
<1>9. ASSUME NEW w \in Workers, CommitFinish(w)
      PROVE  ClaimDiscipline'
  <2> DEFINE o == attempt[w].op
  <2>1. /\ attempt[w].pc = "finishing" /\ attempt'[w].pc = "release"
        /\ attempt'[w].hb = attempt[w].hb /\ attempt'[w].token = attempt[w].token
        /\ attempt'[w].op = o /\ nextToken' = nextToken
        /\ \A v \in Workers \ {w} : attempt'[v] = attempt[v]
    BY <1>9 DEF CommitFinish, TypeOK, Attempts
  <2>2. /\ \A p \in Ops \ {o} : op'[p] = op[p]
        /\ \A p \in Ops : op'[p].token = op[p].token
    BY <1>9 DEF CommitFinish, TypeOK, OpRows
  <2>3. attempt[w].hb # "renewing" /\ op[o].token = attempt[w].token /\ o \in Ops
    BY <2>1 DEF ClaimDiscipline, InTransaction, Owns
  <2>4. \A v \in Workers \ {w} : InTransaction(v) \/ attempt[v].hb = "renewing" =>
                                   attempt[v].op # o
    BY <2>1, <2>3 DEF ClaimDiscipline, Owns
  <2>5. QED
    BY <2>1, <2>2, <2>3, <2>4 DEF ClaimDiscipline, InTransaction, Owns
<1>10. ASSUME NEW w \in Workers, Claim(w)
       PROVE  ClaimDiscipline'
  <2>1. PICK o \in Ops :
          /\ ~Locked(o)
          /\ op' = [op EXCEPT ![o] = [@ EXCEPT !.status = "running",
                                              !.token = nextToken + 1, !.left = LeaseTicks]]
          /\ attempt' = [attempt EXCEPT ![w] = [Idle EXCEPT !.pc = "claimed", !.hb = "on",
                                                   !.op = o, !.token = nextToken + 1]]
    BY <1>10 DEF Claim
  <2>2. /\ attempt'[w].pc = "claimed" /\ attempt'[w].hb = "on" /\ attempt'[w].op = o
        /\ attempt'[w].token = nextToken + 1 /\ nextToken' = nextToken + 1
        /\ nextToken \in Nat
        /\ \A v \in Workers \ {w} : attempt'[v] = attempt[v]
    BY <1>10, <2>1 DEF Claim, Idle, TypeOK
  <2>3. /\ \A p \in Ops \ {o} : op'[p] = op[p]
        /\ op'[o].token = nextToken + 1
    BY <2>1 DEF TypeOK, OpRows
  <2>4. \A v \in Workers \ {w} : InTransaction(v) \/ attempt[v].hb = "renewing" =>
                                   attempt[v].op # o
    BY <2>1 DEF Locked
  <2>5. \A v \in Workers : attempt[v].token <= nextToken /\ attempt[v].token \in Nat
    BY DEF ClaimDiscipline, Idle, TypeOK, Attempts
  <2>6. QED
    BY <2>2, <2>3, <2>4, <2>5 DEF ClaimDiscipline, InTransaction, Owns, TypeOK, OpRows
<1>11. ASSUME NEW o \in Ops, op[o].status = "absent", op'[o].token = 0,
              \A p \in Ops \ {o} : op'[p] = op[p],
              attempt' = attempt, nextToken' = nextToken
       PROVE  ClaimDiscipline'
  BY <1>11 DEF ClaimDiscipline, InTransaction, Owns, TypeOK
<1>12. ASSUME NEW r \in Runs, NEW o \in Ops, CreateRun(r, o)
       PROVE  ClaimDiscipline'
  BY <1>11, <1>12 DEF CreateRun, QueuedOperation, TypeOK
<1>13. ASSUME NEW c \in Clients, NEW o \in Ops, CommitExpand(c, o)
       PROVE  ClaimDiscipline'
  BY <1>11, <1>13 DEF CommitExpand, QueuedOperation, TypeOK
<1>14. QED
  BY <1>1, <1>2, <1>3, <1>4, <1>5, <1>6, <1>7, <1>8, <1>9, <1>10, <1>12, <1>13
  DEF Next, Request, Work, Heartbeat, WorkerFails, PollEmpty, PrecheckExpand, RefuseExpand, vars

-----------------------------------------------------------------------------
(* The theorems. *)

\* The empty database satisfies the invariant.
LEMMA IndInvInit == Init => IndInv
<1> USE QueueAssumptions DEF Init
<1>1. Init => TypeOK
  BY NoOutcomeType DEF TypeOK, RunRows, OpRows, Attempts, Idle, Responses, Outcome
<1>2. Init => References /\ OneLiveOperation
  BY DEF References, OneLiveOperation, LiveOperation, Live
<1>3. Init => ResultReady /\ ClaimDiscipline
  BY DEF ResultReady, ClaimDiscipline, Idle, InTransaction
<1>4. QED
  BY <1>1, <1>2, <1>3 DEF IndInv

\* The inductive invariant holds in every reachable state.
THEOREM Invariance == Spec => []IndInv
<1>1. IndInv /\ [Next]_vars => IndInv'
  BY TypeStep, LifecycleStep, ResultReadyStep, ClaimDisciplineStep DEF IndInv
<1>2. QED
  BY <1>1, IndInvInit, PTL DEF Spec

\* Rows and attempts keep their types.
THEOREM TypeCorrectness == Spec => []TypeOK
<1>1. IndInv => TypeOK
  BY DEF IndInv
<1>2. QED
  BY <1>1, Invariance, PTL

\* A run is queued or running exactly while one of its operations is: expansion
\* requests that raced through the unlocked pre-check never double an operation.
THEOREM OneLiveOperationHolds == Spec => []OneLiveOperation
<1>1. IndInv => OneLiveOperation
  BY DEF IndInv
<1>2. QED
  BY <1>1, Invariance, PTL

\* Row locks and credentials are exclusive, and no credential is reused.
THEOREM ClaimDisciplineHolds == Spec => []ClaimDiscipline
<1>1. IndInv => ClaimDiscipline
  BY DEF IndInv
<1>2. QED
  BY <1>1, Invariance, PTL

\* An operation ends only in the commit of the worker that holds its claim.
LEMMA FencedStep ==
  ASSUME IndInv, [Next]_vars, NEW o \in Ops,
         op[o].status \notin Terminal, op'[o].status \in Terminal
  PROVE  \E w \in Workers : /\ attempt[w].pc = "finishing" /\ attempt[w].op = o
                            /\ attempt[w].token = op[o].token /\ op[o].left > 0
<1> USE DEF IndInv
<1>1. ASSUME NEW w \in Workers, CommitFinish(w)
      PROVE  /\ attempt[w].pc = "finishing" /\ attempt[w].op = o
             /\ attempt[w].token = op[o].token /\ op[o].left > 0
  <2>1. attempt[w].pc = "finishing" /\ Unexpired(w) /\ Owns(w)
    BY <1>1 DEF CommitFinish, ClaimDiscipline, InTransaction
  <2>2. attempt[w].op = o
    BY <1>1 DEF CommitFinish, TypeOK
  <2>3. QED
    BY <2>1, <2>2 DEF Owns, Unexpired
<1>2. ~SameLifecycle
  BY DEF SameLifecycle
<1>3. \A r \in Runs, p \in Ops : ~CreateRun(r, p)
  BY DEF CreateRun, QueuedOperation, TypeOK, Terminal, Completed
<1>4. \A c \in Clients, p \in Ops : ~CommitExpand(c, p)
  BY DEF CommitExpand, QueuedOperation, TypeOK, Terminal, Completed
<1>5. \A w \in Workers : ~Claim(w)
  <2>1. ASSUME NEW w \in Workers, Claim(w), NEW p \in Ops,
               op' = [op EXCEPT ![p] = [@ EXCEPT !.status = "running",
                                                 !.token = nextToken + 1, !.left = LeaseTicks]]
        PROVE  op'[o].status = op[o].status \/ op'[o].status = "running"
    <3>1. op[p] \in OpRows
      BY DEF TypeOK
    <3>2. [op[p] EXCEPT !.status = "running", !.token = nextToken + 1,
                        !.left = LeaseTicks].status = "running"
      BY <3>1 DEF OpRows
    <3>3. CASE p = o
      BY <2>1, <3>2, <3>3 DEF TypeOK
    <3>4. CASE p # o
      BY <2>1, <3>4 DEF TypeOK
    <3>5. QED
      BY <3>3, <3>4
  <2>2. QED
    BY <2>1 DEF Claim, Terminal, Completed
<1>6. \A w \in Workers : ~CommitStart(w)
  BY DEF CommitStart
<1>7. QED
  BY <1>1, <1>2, <1>3, <1>4, <1>5, <1>6, QuietStep

\* A worker whose lease expired or was taken over publishes nothing.
THEOREM FencedPublicationHolds == Spec => FencedPublication
<1>1. IndInv /\ [Next]_vars =>
        [\A o \in Ops : op[o].status \notin Terminal /\ op'[o].status \in Terminal =>
           \E w \in Workers : /\ attempt[w].pc = "finishing" /\ attempt[w].op = o
                              /\ attempt[w].token = op[o].token /\ op[o].left > 0]_vars
  BY FencedStep
<1>2. QED
  BY <1>1, Invariance, PTL DEF FencedPublication, Spec

\* What may still happen to a running operation whose lease has run out.
Untouched(o) == /\ op'[o] = op[o]
                /\ run'[op[o].run] = run[op[o].run]

\* Only a new claim moves a running operation with an expired lease.
LEMMA ExpiredStep ==
  ASSUME IndInv, [Next]_vars, NEW o \in Ops,
         op[o].status = "running", op[o].left = 0, op'[o].token = op[o].token
  PROVE  Untouched(o)
<1> USE QueueAssumptions DEF IndInv
<1> DEFINE r == op[o].run
<1>1. r \in Runs /\ run[r].status \in Live /\ LiveOperation(r, o)
  BY DEF References, OneLiveOperation, LiveOperation, Live, TypeOK, OpRows
<1>2. ASSUME NEW q \in Runs, NEW p \in Ops, CreateRun(q, p)
      PROVE  Untouched(o)
  BY <1>1, <1>2 DEF CreateRun, TypeOK, Live, Untouched
<1>3. ASSUME NEW c \in Clients, NEW p \in Ops, CommitExpand(c, p)
      PROVE  Untouched(o)
  BY <1>1, <1>3 DEF CommitExpand, Expandable, TypeOK, Live, Completed, Untouched
<1>4. ASSUME NEW w \in Workers, InTransaction(w), Unexpired(w)
      PROVE  attempt[w].op \in Ops \ {o} /\ op[attempt[w].op].run # r
  <2>1. attempt[w].op \in Ops \ {o} /\ op[attempt[w].op].status = "running"
    BY <1>4 DEF ClaimDiscipline, Owns, Unexpired
  <2>2. QED
    BY <1>1, <2>1 DEF OneLiveOperation, LiveOperation, Live
<1>5. ASSUME NEW w \in Workers, CommitStart(w) \/ CommitFinish(w)
      PROVE  Untouched(o)
  <2> DEFINE p == attempt[w].op
             q == op[p].run
  <2>1. p # o /\ q # r
    BY <1>4, <1>5 DEF CommitStart, CommitFinish, InTransaction
  <2>2. op'[o] = op[o]
    BY <1>5, <2>1 DEF CommitStart, CommitFinish, TypeOK
  <2>3. run'[r] = run[r]
    <3>1. CASE CommitStart(w)
      BY <1>1, <2>1, <3>1 DEF CommitStart, TypeOK
    <3>2. CASE CommitFinish(w)
      BY <1>1, <2>1, <3>2 DEF CommitFinish, TypeOK
    <3>3. QED
      BY <1>5, <3>1, <3>2
  <2>4. QED
    BY <2>2, <2>3 DEF Untouched
<1>6. ASSUME NEW w \in Workers, Claim(w)
      PROVE  Untouched(o)
  <2>1. PICK p \in Ops :
          op' = [op EXCEPT ![p] = [@ EXCEPT !.status = "running",
                                            !.token = nextToken + 1, !.left = LeaseTicks]]
    BY <1>6 DEF Claim
  <2>2. op[p] \in OpRows /\ op[o].token <= nextToken /\ nextToken \in Nat
    BY DEF TypeOK, ClaimDiscipline
  <2>3. [op[p] EXCEPT !.status = "running", !.token = nextToken + 1,
                      !.left = LeaseTicks].token = nextToken + 1
    BY <2>2 DEF OpRows
  <2>4. p # o
    BY <2>1, <2>2, <2>3 DEF TypeOK
  <2>5. QED
    BY <1>6, <2>1, <2>4 DEF Claim, TypeOK, Untouched
<1>7. ASSUME NEW w \in Workers, Release(w)
      PROVE  Untouched(o)
  <2>1. attempt[w].token # 0
    BY <1>7 DEF Release, ClaimDiscipline
  <2>2. CASE attempt[w].op = o /\ op[o].token = attempt[w].token
    <3>1. op'[o].token = 0
      BY <1>7, <2>2 DEF Release, TypeOK, OpRows
    <3>2. QED
      BY <2>1, <2>2, <3>1
  <2>3. CASE ~(attempt[w].op = o /\ op[o].token = attempt[w].token)
    BY <1>7, <2>3 DEF Release, TypeOK, Untouched
  <2>4. QED
    BY <2>2, <2>3
<1>8. ASSUME NEW w \in Workers, CommitRenew(w)
      PROVE  Untouched(o)
  BY <1>8 DEF CommitRenew, Unexpired, TypeOK, Untouched
<1>9. CASE Tick
  <2>1. op'[o] = [op[o] EXCEPT !.left = 0] /\ run' = run
    BY <1>9 DEF Tick
  <2>2. QED
    BY <2>1 DEF TypeOK, OpRows, Untouched
<1>10. CASE run' = run /\ op' = op
  BY <1>10 DEF Untouched
<1>11. QED
  BY <1>2, <1>3, <1>5, <1>6, <1>7, <1>8, <1>9, <1>10
  DEF Next, Request, Work, Heartbeat, WorkerFails, BeginStart, BeginFinish, EnterOwned,
      PollEmpty, vars, PrecheckExpand, RefuseExpand, RollBack, Execute, Discard,
      BeginRenew, HeartbeatFails, PersistenceFails, Crash

\* An expired owner cannot resurrect its lease, nor start or finish its operation.
THEOREM ExpiredClaimIsDeadHolds == Spec => ExpiredClaimIsDead
<1>1. IndInv /\ [Next]_vars =>
        [\A o \in Ops :
           op[o].status = "running" /\ op[o].left = 0 /\ op'[o].token = op[o].token =>
             /\ op'[o] = op[o]
             /\ run'[op[o].run] = run[op[o].run]]_vars
  BY ExpiredStep DEF Untouched
<1>2. QED
  BY <1>1, Invariance, PTL DEF ExpiredClaimIsDead, Spec

-----------------------------------------------------------------------------
(* Claims and what pays for them. *)

\* Operations that were claimed at least once.
Claimed == {o \in Ops : op[o].status \notin {"absent", "queued"}}

\* The attempt of v covers the claim of o: it renews it and has not given it up.
Covers(v, o) == /\ attempt[v].op = o /\ attempt[v].token = op[o].token
                /\ attempt[v].hb # "off" /\ attempt[v].pc # "release"

\* Running operations that another worker may come to claim.
Exposed == {o \in Ops : op[o].status = "running" /\ (op[o].left = 0 \/ ~Attended(o))}

\* A heartbeat that has raised its flag has ended.
LostIsOff == \A w \in Workers : attempt[w].lost => attempt[w].hb = "off"

\* Claims so far and claims to come are paid for: one by each operation, the
\* others by faults.
Budget == nextToken + Cardinality(Exposed) <= Cardinality(Claimed) + faults

RetryInv == IndInv /\ LostIsOff /\ Budget

\* The sets counted are finite.
LEMMA CountsType ==
  ASSUME IndInv
  PROVE  /\ IsFiniteSet(Claimed) /\ IsFiniteSet(Exposed)
         /\ Cardinality(Claimed) \in Nat /\ Cardinality(Exposed) \in Nat
         /\ nextToken \in Nat /\ faults \in Nat
<1>1. \A S \in SUBSET Ops : IsFiniteSet(S) /\ Cardinality(S) \in Nat
  BY QueueAssumptions, FS_Subset, FS_CardinalityType
<1>2. Claimed \in SUBSET Ops /\ Exposed \in SUBSET Ops
  BY DEF Claimed, Exposed
<1>3. nextToken \in Nat /\ faults \in Nat
  BY QueueAssumptions DEF IndInv, TypeOK
<1>4. QED
  BY <1>1, <1>2, <1>3

\* A step that claims nothing stays in the budget when faults pay for the
\* operations it newly exposes.
LEMMA PaidStep ==
  ASSUME RetryInv, IndInv', NEW S \in SUBSET Ops,
         Claimed \subseteq Claimed', Exposed' \subseteq Exposed \cup S,
         nextToken' = nextToken, faults' = faults + Cardinality(S)
  PROVE  Budget'
<1>1. IsFiniteSet(S) /\ Cardinality(S) \in Nat
  BY QueueAssumptions, FS_Subset, FS_CardinalityType
<1>2. Cardinality(Claimed) <= Cardinality(Claimed') /\ Cardinality(Claimed') \in Nat
  <2>1. Claimed' \in SUBSET Ops /\ Claimed \in SUBSET Claimed'
    BY DEF Claimed
  <2>2. IsFiniteSet(Claimed')
    BY <2>1, QueueAssumptions, FS_Subset
  <2>3. QED
    BY <2>1, <2>2, FS_Subset, FS_CardinalityType
<1>3. Cardinality(Exposed') <= Cardinality(Exposed) + Cardinality(S)
  <2>1. /\ IsFiniteSet(Exposed \cup S) /\ IsFiniteSet(Exposed \cap S)
        /\ Cardinality(Exposed \cup S) =
             Cardinality(Exposed) + Cardinality(S) - Cardinality(Exposed \cap S)
    BY <1>1, CountsType, FS_Union, FS_Subset DEF RetryInv
  <2>2. Cardinality(Exposed') <= Cardinality(Exposed \cup S)
    BY <2>1, FS_Subset
  <2>3. Cardinality(Exposed \cap S) \in Nat
    BY <2>1, FS_CardinalityType
  <2>4. Cardinality(Exposed') \in Nat /\ Cardinality(Exposed \cup S) \in Nat
    BY <2>1, CountsType, FS_CardinalityType, FS_Subset
  <2>5. QED
    BY <1>1, <2>1, <2>2, <2>3, <2>4, CountsType DEF RetryInv
<1>4. Cardinality(Exposed') \in Nat
  BY <1>1, CountsType, FS_Subset, FS_CardinalityType, FS_Union DEF RetryInv
<1>5. Budget
  BY DEF RetryInv
<1>6. nextToken' + Cardinality(Exposed') <= Cardinality(Claimed') + faults'
  BY <1>1, <1>2, <1>3, <1>4, <1>5, CountsType DEF Budget, RetryInv
<1>7. QED
  BY <1>6 DEF Budget

\* A step without a fault that claims nothing exposes nothing: who covers the
\* live claim of an operation that stays running still does.
LEMMA CoveredStep ==
  ASSUME RetryInv, IndInv', Claimed \subseteq Claimed',
         \A o \in Ops : op'[o].status = "running" => op[o].status = "running",
         \A o \in Ops, v \in Workers :
           op'[o].status = "running" /\ op[o].left # 0 /\ Covers(v, o) =>
             op'[o].left # 0 /\ Covers(v, o)',
         nextToken' = nextToken, faults' = faults
  PROVE  Budget'
<1>1. ASSUME NEW o \in Ops, o \in Exposed'
      PROVE  o \in Exposed
  <2>1. op'[o].status = "running" /\ op[o].status = "running"
    BY <1>1 DEF Exposed
  <2>2. op'[o].left = 0 \/ ~Attended(o)'
    BY <1>1 DEF Exposed
  <2>3. ASSUME op[o].left # 0, Attended(o) PROVE FALSE
    <3>1. PICK v \in Workers : Covers(v, o)
      BY <2>3 DEF Attended, Covers
    <3>2. op'[o].left # 0 /\ Covers(v, o)'
      BY <2>1, <2>3, <3>1
    <3>3. Attended(o)'
      BY <3>2 DEF Attended, Covers
    <3>4. QED
      BY <2>2, <3>2, <3>3
  <2>4. QED
    BY <2>1, <2>3 DEF Exposed
<1>2. Exposed' \subseteq Exposed \cup {}
  BY <1>1 DEF Exposed
<1>3. Cardinality({}) = 0 /\ faults \in Nat
  BY FS_EmptySet, CountsType DEF RetryInv
<1>4. QED
  BY <1>2, <1>3, PaidStep

-----------------------------------------------------------------------------
(* What the steps of the queue pay. *)

\* Steps of worker w that keep the tables and the attempts of the others, and
\* after which w still covers the live claim that it covered.
LEMMA OwnStep ==
  ASSUME RetryInv, IndInv', NEW w \in Workers,
         op' = op, nextToken' = nextToken, faults' = faults,
         \A v \in Workers \ {w} : attempt'[v] = attempt[v],
         \A o \in Ops : op[o].status = "running" /\ op[o].left # 0 /\ Covers(w, o) =>
                          Covers(w, o)'
  PROVE  Budget'
<1>1. ASSUME NEW o \in Ops, NEW v \in Workers,
             op'[o].status = "running", op[o].left # 0, Covers(v, o)
      PROVE  op'[o].left # 0 /\ Covers(v, o)'
  <2>1. CASE v = w
    BY <1>1, <2>1
  <2>2. CASE v # w
    BY <1>1, <2>2 DEF Covers
  <2>3. QED
    BY <2>1, <2>2
<1>2. Claimed \subseteq Claimed'
  BY DEF Claimed
<1>3. QED
  BY <1>1, <1>2, CoveredStep

\* Steps of a worker's main thread and heartbeat other than claims.
LEMMA WorkStep ==
  ASSUME RetryInv, IndInv', NEW w \in Workers,
         \/ BeginStart(w) \/ CommitStart(w) \/ Execute(w) \/ BeginFinish(w)
         \/ CommitFinish(w) \/ RollBack(w) \/ Discard(w) \/ Release(w) \/ Heartbeat(w)
  PROVE  Budget' /\ LostIsOff'
<1> USE QueueAssumptions DEF RetryInv, IndInv
<1> DEFINE mine == attempt[w].op
<1>a. \A v \in Workers : attempt[v] \in Attempts
  BY DEF TypeOK
<1>b. \A o \in Ops : op[o] \in OpRows
  BY DEF TypeOK
<1>1. ASSUME NEW step \in {"starting", "finishing"}, EnterOwned(w, step),
             attempt[w].pc # "release"
      PROVE  Budget' /\ LostIsOff'
  <2>1. /\ op' = op /\ nextToken' = nextToken /\ faults' = faults
        /\ \A v \in Workers \ {w} : attempt'[v] = attempt[v]
        /\ attempt'[w] = [attempt[w] EXCEPT !.pc =
                            IF Owns(w) /\ Unexpired(w) THEN step ELSE "release"]
    BY <1>1 DEF EnterOwned, TypeOK
  <2>2. ASSUME NEW o \in Ops, op[o].status = "running", op[o].left # 0, Covers(w, o)
        PROVE  Covers(w, o)'
    <3>1. Owns(w) /\ Unexpired(w)
      BY <1>b, <2>2 DEF Covers, Owns, Unexpired, OpRows
    <3>2. QED
      BY <1>a, <2>1, <2>2, <3>1 DEF Covers, Attempts
  <2>3. LostIsOff'
    BY <1>a, <2>1 DEF LostIsOff, Attempts
  <2>4. QED
    BY <2>1, <2>2, <2>3, OwnStep
<1>2. CASE CommitStart(w) \/ Execute(w)
  <2>1. /\ op' = op /\ nextToken' = nextToken /\ faults' = faults
        /\ \A v \in Workers \ {w} : attempt'[v] = attempt[v]
        /\ attempt'[w].op = attempt[w].op /\ attempt'[w].token = attempt[w].token
        /\ attempt'[w].hb = attempt[w].hb /\ attempt'[w].lost = attempt[w].lost
        /\ attempt'[w].pc \in {"started", "executed"}
    <3> DEFINE After(step, result) ==
                 attempt' = [attempt EXCEPT ![w] = [@ EXCEPT !.pc = step, !.outcome = result]]
    <3>1. ASSUME NEW step \in {"started", "executed"}, NEW result, After(step, result)
          PROVE  /\ \A v \in Workers \ {w} : attempt'[v] = attempt[v]
                 /\ attempt'[w].op = attempt[w].op /\ attempt'[w].token = attempt[w].token
                 /\ attempt'[w].hb = attempt[w].hb /\ attempt'[w].lost = attempt[w].lost
                 /\ attempt'[w].pc \in {"started", "executed"}
      BY <1>a, <3>1 DEF TypeOK, Attempts
    <3>2. op' = op /\ nextToken' = nextToken /\ faults' = faults
      BY <1>2 DEF CommitStart, Execute
    <3>3. CASE CommitStart(w)
      <4>1. \E result : After("started", result)
        BY <3>3 DEF CommitStart
      <4>2. QED
        BY <3>1, <3>2, <4>1
    <3>4. CASE Execute(w)
      <4>1. \E result : After("executed", result)
        BY <3>4 DEF Execute
      <4>2. QED
        BY <3>1, <3>2, <4>1
    <3>5. QED
      BY <1>2, <3>3, <3>4
  <2>2. \A o \in Ops : Covers(w, o) => Covers(w, o)'
    BY <2>1 DEF Covers
  <2>3. LostIsOff'
    BY <2>1 DEF LostIsOff
  <2>4. QED
    BY <2>1, <2>2, <2>3, OwnStep
<1>3. CASE RollBack(w) \/ Discard(w)
  <2>1. /\ op' = op /\ nextToken' = nextToken /\ faults' = faults
        /\ \A v \in Workers \ {w} : attempt'[v] = attempt[v]
        /\ attempt'[w].hb = attempt[w].hb /\ attempt'[w].lost = attempt[w].lost
    BY <1>3, <1>a DEF RollBack, Discard, TypeOK, Attempts
  <2>2. ASSUME NEW o \in Ops, op[o].left # 0, Covers(w, o)
        PROVE  FALSE
    <3>1. CASE RollBack(w)
      BY <1>b, <2>2, <3>1 DEF RollBack, Unexpired, Covers, OpRows
    <3>2. CASE Discard(w)
      BY <2>2, <3>2 DEF Discard, LostIsOff, Covers
    <3>3. QED
      BY <1>3, <3>1, <3>2
  <2>3. LostIsOff'
    BY <2>1 DEF LostIsOff
  <2>4. QED
    BY <2>1, <2>2, <2>3, OwnStep
<1>4. CASE CommitFinish(w)
  <2>1. /\ nextToken' = nextToken /\ faults' = faults /\ mine \in Ops
        /\ \A o \in Ops \ {mine} : op'[o] = op[o]
        /\ op'[mine].status \in Terminal
        /\ \A v \in Workers \ {w} : attempt'[v] = attempt[v]
        /\ attempt'[w].hb = attempt[w].hb /\ attempt'[w].lost = attempt[w].lost
    BY <1>4, <1>a, <1>b, AttemptRow DEF CommitFinish, ResultReady, TypeOK, Attempts, OpRows
  <2>2. "running" \notin Terminal /\ "queued" \notin Terminal /\ "absent" \notin Terminal
    BY DEF Terminal, Completed
  <2>3. Claimed \subseteq Claimed'
    BY <2>1, <2>2 DEF Claimed
  <2>4. ASSUME NEW o \in Ops, NEW v \in Workers, op'[o].status = "running", Covers(v, o)
        PROVE  op'[o] = op[o] /\ Covers(v, o)'
    <3>1. o # mine
      BY <2>1, <2>2, <2>4
    <3>2. v # w
      BY <2>4, <3>1 DEF Covers
    <3>3. QED
      BY <2>1, <2>4, <3>1, <3>2 DEF Covers
  <2>5. \A o \in Ops : op'[o].status = "running" => op[o].status = "running"
    BY <2>1, <2>2
  <2>6. LostIsOff'
    BY <2>1 DEF LostIsOff
  <2>7. QED
    BY <2>1, <2>3, <2>4, <2>5, <2>6, CoveredStep
<1>5. CASE Release(w)
  <2>1. /\ nextToken' = nextToken /\ faults' = faults
        /\ attempt'[w] = Idle /\ \A v \in Workers \ {w} : attempt'[v] = attempt[v]
        /\ attempt[w].pc = "release"
    BY <1>5 DEF Release, TypeOK
  <2>2. \A o \in Ops : /\ op'[o].status = op[o].status
                       /\ op'[o] = op[o] \/ op[o].token = attempt[w].token
    BY <1>5, <1>b DEF Release, TypeOK, OpRows
  <2>3. ASSUME NEW o \in Ops, NEW v \in Workers, op[o].left # 0, Covers(v, o)
        PROVE  op'[o].left # 0 /\ Covers(v, o)'
    <3>1. v # w
      BY <2>1, <2>3 DEF Covers
    <3>2. op[o].token # attempt[w].token
      BY <2>1, <2>3, <3>1 DEF Covers, ClaimDiscipline
    <3>3. QED
      BY <2>1, <2>2, <2>3, <3>1, <3>2 DEF Covers
  <2>4. Claimed \subseteq Claimed'
    BY <2>2 DEF Claimed
  <2>5. LostIsOff'
    BY <2>1 DEF LostIsOff, Idle
  <2>6. QED
    BY <2>1, <2>2, <2>3, <2>4, <2>5, CoveredStep
<1>6. CASE BeginRenew(w)
  <2>1. /\ op' = op /\ nextToken' = nextToken /\ faults' = faults
        /\ \A v \in Workers \ {w} : attempt'[v] = attempt[v]
        /\ attempt[w].pc # "release"
        /\ \/ Owns(w) /\ Unexpired(w) /\ attempt'[w] = [attempt[w] EXCEPT !.hb = "renewing"]
           \/ /\ ~(Owns(w) /\ Unexpired(w))
              /\ attempt'[w] = [attempt[w] EXCEPT !.hb = "off", !.lost = TRUE]
    BY <1>6 DEF BeginRenew, LoseLease, TypeOK
  <2>2. ASSUME NEW o \in Ops, op[o].status = "running", op[o].left # 0, Covers(w, o)
        PROVE  Covers(w, o)'
    <3>1. Owns(w) /\ Unexpired(w)
      BY <1>b, <2>2 DEF Covers, Owns, Unexpired, OpRows
    <3>2. QED
      BY <1>a, <2>1, <2>2, <3>1 DEF Covers, Attempts
  <2>3. LostIsOff'
    <3>1. attempt[w].hb = "on"
      BY <1>6 DEF BeginRenew
    <3>2. attempt'[w].hb = "off" \/ attempt'[w].lost = attempt[w].lost
      BY <1>a, <2>1 DEF Attempts
    <3>3. QED
      BY <2>1, <3>1, <3>2 DEF LostIsOff
  <2>4. QED
    BY <2>1, <2>2, <2>3, OwnStep
<1>7. CASE CommitRenew(w)
  <2>1. /\ nextToken' = nextToken /\ faults' = faults
        /\ \A v \in Workers \ {w} : attempt'[v] = attempt[v]
        /\ attempt[w].hb = "renewing" /\ mine \in Ops
    BY <1>7 DEF CommitRenew, LoseLease, TypeOK, ClaimDiscipline
  <2>2. \/ /\ Unexpired(w) /\ attempt'[w] = [attempt[w] EXCEPT !.hb = "on"]
           /\ op' = [op EXCEPT ![mine].left = LeaseTicks]
        \/ /\ ~Unexpired(w) /\ op' = op
           /\ attempt'[w] = [attempt[w] EXCEPT !.hb = "off", !.lost = TRUE]
    BY <1>7 DEF CommitRenew, LoseLease, TypeOK
  <2>3. \A o \in Ops : /\ op'[o].status = op[o].status /\ op'[o].token = op[o].token
                       /\ op'[o].left = op[o].left \/ op'[o].left # 0
    BY <1>b, <2>2 DEF TypeOK, OpRows
  <2>4. ASSUME NEW o \in Ops, NEW v \in Workers, op[o].left # 0, Covers(v, o)
        PROVE  Covers(v, o)'
    <3>1. CASE v = w
      <4>1. Unexpired(w)
        BY <1>b, <2>4, <3>1 DEF Covers, Unexpired, OpRows
      <4>2. QED
        BY <1>a, <2>2, <2>3, <2>4, <3>1, <4>1 DEF Covers, Attempts
    <3>2. CASE v # w
      BY <2>1, <2>3, <2>4, <3>2 DEF Covers
    <3>3. QED
      BY <3>1, <3>2
  <2>5. Claimed \subseteq Claimed'
    BY <2>3 DEF Claimed
  <2>6. LostIsOff'
    <3>1. attempt'[w].hb = "off" \/ attempt'[w].lost = attempt[w].lost
      BY <1>a, <2>2 DEF Attempts
    <3>2. QED
      BY <2>1, <3>1 DEF LostIsOff
  <2>7. QED
    BY <2>1, <2>3, <2>4, <2>5, <2>6, CoveredStep
<1>8. QED
  BY <1>1, <1>2, <1>3, <1>4, <1>5, <1>6, <1>7 DEF BeginStart, BeginFinish, Heartbeat

\* A claim spends the budget of the operation's first claim or of the fault
\* that exposed it.
LEMMA ClaimIsPaid ==
  ASSUME RetryInv, IndInv', NEW w \in Workers, Claim(w)
  PROVE  Budget' /\ LostIsOff'
<1> USE QueueAssumptions DEF RetryInv, IndInv
<1>1. PICK o \in Ops :
        /\ Claimable(o)
        /\ op' = [op EXCEPT ![o] = [@ EXCEPT !.status = "running",
                                            !.token = nextToken + 1, !.left = LeaseTicks]]
        /\ attempt' = [attempt EXCEPT ![w] = [Idle EXCEPT !.pc = "claimed", !.hb = "on",
                                                 !.op = o, !.token = nextToken + 1]]
  BY DEF Claim
<1>2. /\ op'[o].status = "running" /\ op'[o].token = nextToken + 1 /\ op'[o].left # 0
      /\ \A p \in Ops \ {o} : op'[p] = op[p]
  <2>1. op[o] \in OpRows
    BY DEF TypeOK
  <2>2. /\ op'[o] = [op[o] EXCEPT !.status = "running", !.token = nextToken + 1,
                                  !.left = LeaseTicks]
        /\ \A p \in Ops \ {o} : op'[p] = op[p]
    BY <1>1 DEF TypeOK
  <2>3. QED
    BY <2>1, <2>2 DEF OpRows
<1>3. /\ attempt'[w].op = o /\ attempt'[w].token = nextToken + 1
      /\ attempt'[w].hb = "on" /\ attempt'[w].pc = "claimed" /\ attempt'[w].lost = FALSE
      /\ \A v \in Workers \ {w} : attempt'[v] = attempt[v]
      /\ attempt[w].hb = "off" /\ nextToken' = nextToken + 1 /\ faults' = faults
  <2>1. attempt'[w] = [Idle EXCEPT !.pc = "claimed", !.hb = "on", !.op = o,
                                   !.token = nextToken + 1]
    BY <1>1 DEF TypeOK
  <2>2. \A v \in Workers \ {w} : attempt'[v] = attempt[v]
    BY <1>1 DEF TypeOK
  <2>3. attempt[w].hb = "off"
    BY DEF Claim, ClaimDiscipline, Idle
  <2>4. nextToken' = nextToken + 1 /\ faults' = faults
    BY DEF Claim
  <2>5. /\ attempt'[w].op = o /\ attempt'[w].token = nextToken + 1
        /\ attempt'[w].hb = "on" /\ attempt'[w].pc = "claimed" /\ attempt'[w].lost = FALSE
    BY <2>1 DEF Idle
  <2>6. QED
    BY <2>2, <2>3, <2>4, <2>5
<1>4. Covers(w, o)' /\ ~(o \in Exposed)'
  BY <1>2, <1>3 DEF Covers, Exposed, Attended
<1>5. ASSUME NEW p \in Exposed'
      PROVE  p \in Exposed \ {o}
  <2>1. p \in Ops \ {o} /\ op'[p] = op[p] /\ op[p].status = "running"
    BY <1>2, <1>4, <1>5 DEF Exposed
  <2>2. ASSUME op[p].left # 0, NEW v \in Workers, Covers(v, p) PROVE FALSE
    <3>1. Covers(v, p)'
      BY <1>3, <2>1, <2>2 DEF Covers
    <3>2. QED
      BY <1>5, <2>1, <2>2, <3>1 DEF Covers, Exposed, Attended
  <2>3. QED
    BY <2>1, <2>2 DEF Covers, Exposed, Attended
<1>6. Claimed' = Claimed \cup {o}
  BY <1>2 DEF Claimed
<1>7. /\ IsFiniteSet(Exposed \ {o}) /\ Cardinality(Exposed') <= Cardinality(Exposed \ {o})
      /\ Cardinality(Exposed') \in Nat
  <2>1. Exposed' \in SUBSET (Exposed \ {o}) /\ IsFiniteSet(Exposed \ {o})
    BY <1>5, CountsType, FS_RemoveElement
  <2>2. QED
    BY <2>1, FS_Subset, FS_CardinalityType
<1>8. Cardinality(Exposed \ {o}) + 1 + Cardinality(Claimed)
        <= Cardinality(Exposed) + Cardinality(Claimed')
  <2>1. CASE op[o].status = "queued"
    <3>1. o \notin Claimed /\ o \notin Exposed
      BY <2>1 DEF Claimed, Exposed
    <3>2. /\ Cardinality(Claimed') = Cardinality(Claimed) + 1
          /\ Cardinality(Exposed \ {o}) = Cardinality(Exposed)
      BY <1>6, <3>1, CountsType, FS_AddElement, FS_RemoveElement
    <3>3. QED
      BY <3>2, CountsType
  <2>2. CASE op[o].status = "running" /\ op[o].left = 0
    <3>1. o \in Claimed /\ o \in Exposed
      BY <2>2 DEF Claimed, Exposed
    <3>2. /\ Cardinality(Claimed') = Cardinality(Claimed)
          /\ Cardinality(Exposed \ {o}) = Cardinality(Exposed) - 1
      BY <1>6, <3>1, CountsType, FS_AddElement, FS_RemoveElement
    <3>3. QED
      BY <3>2, CountsType
  <2>3. QED
    BY <1>1, <2>1, <2>2 DEF Claimable
<1>9. Cardinality(Claimed') \in Nat /\ Cardinality(Exposed \ {o}) \in Nat
  BY <1>6, <1>7, CountsType, FS_AddElement, FS_CardinalityType
<1>10. Budget'
  <2>1. nextToken' + Cardinality(Exposed') <= Cardinality(Claimed') + faults'
    BY <1>3, <1>7, <1>8, <1>9, CountsType DEF Budget
  <2>2. QED
    BY <2>1 DEF Budget
<1>11. LostIsOff'
  BY <1>3 DEF LostIsOff
<1>12. QED
  BY <1>10, <1>11

\* A failing worker exposes at most the operation it had claimed.
LEMMA FailureStep ==
  ASSUME RetryInv, IndInv', NEW w \in Workers, WorkerFails(w)
  PROVE  Budget' /\ LostIsOff'
<1> USE DEF RetryInv, IndInv
<1>1. /\ attempt[w].op \in Ops /\ op' = op /\ nextToken' = nextToken
      /\ faults' = faults + 1
      /\ \A v \in Workers \ {w} : attempt'[v] = attempt[v]
  <2>1. attempt[w].pc # "idle"
    BY DEF WorkerFails, HeartbeatFails, PersistenceFails, Crash, ClaimDiscipline, Idle
  <2>2. QED
    BY <2>1, AttemptRow DEF WorkerFails, HeartbeatFails, PersistenceFails, Crash, Fault,
       LoseLease, TypeOK
<1>2. ASSUME NEW o \in Exposed', o # attempt[w].op
      PROVE  o \in Exposed
  <2>1. o \in Ops /\ op[o].status = "running"
    BY <1>1, <1>2 DEF Exposed
  <2>2. ASSUME op[o].left # 0, NEW v \in Workers, Covers(v, o) PROVE FALSE
    <3>1. v # w
      BY <1>2, <2>2 DEF Covers
    <3>2. Covers(v, o)'
      BY <1>1, <2>2, <3>1 DEF Covers
    <3>3. QED
      BY <1>1, <1>2, <2>2, <3>2 DEF Covers, Exposed, Attended
  <2>3. QED
    BY <2>1, <2>2 DEF Covers, Exposed, Attended
<1>3. Cardinality({attempt[w].op}) = 1
  BY FS_Singleton
<1>4. Budget'
  <2>1. Exposed' \subseteq Exposed \cup {attempt[w].op} /\ {attempt[w].op} \in SUBSET Ops
    BY <1>1, <1>2
  <2>2. Claimed \subseteq Claimed'
    BY <1>1 DEF Claimed
  <2>3. QED
    BY <1>1, <1>3, <2>1, <2>2, PaidStep
<1>5. LostIsOff'
  <2>1. attempt'[w].hb = "off" \/ (attempt'[w].hb = attempt[w].hb
                                   /\ attempt'[w].lost = attempt[w].lost)
    <3>1. attempt[w] \in Attempts
      BY DEF TypeOK
    <3>2. CASE HeartbeatFails(w)
      BY <3>1, <3>2 DEF HeartbeatFails, LoseLease, TypeOK, Attempts
    <3>3. CASE PersistenceFails(w)
      BY <3>1, <3>3 DEF PersistenceFails, TypeOK, Attempts
    <3>4. CASE Crash(w)
      BY <3>1, <3>4 DEF Crash, TypeOK, Idle
    <3>5. QED
      BY <3>2, <3>3, <3>4 DEF WorkerFails
  <2>2. QED
    BY <1>1, <2>1 DEF LostIsOff
<1>6. QED
  BY <1>4, <1>5

\* Time exposes the operations whose renewal was missed, each for one fault.
LEMMA TickStep ==
  ASSUME RetryInv, IndInv', Tick
  PROVE  Budget' /\ LostIsOff'
<1> USE QueueAssumptions DEF RetryInv, IndInv
<1> DEFINE missed == {o \in Ops : op[o].status = "running" /\ op[o].left = 1 /\ Attended(o)}
<1>1. /\ \A o \in Ops : op'[o] = [op[o] EXCEPT !.left = IF @ > 0 THEN @ - 1 ELSE 0]
      /\ attempt' = attempt /\ nextToken' = nextToken
      /\ faults' = faults + Cardinality(missed)
  BY DEF Tick
<1>2. \A o \in Ops : /\ op'[o].status = op[o].status /\ op'[o].token = op[o].token
                     /\ op'[o].left = 0 => op[o].left \in {0, 1}
  BY <1>1 DEF TypeOK, OpRows
<1>3. \A o \in Ops : Attended(o) => Attended(o)'
  BY <1>1, <1>2 DEF Attended
<1>4. Exposed' \subseteq Exposed \cup missed
  BY <1>2, <1>3 DEF Exposed
<1>5. Claimed \subseteq Claimed'
  BY <1>2 DEF Claimed
<1>6. missed \in SUBSET Ops
  OBVIOUS
<1>7. Budget'
  <2> HIDE DEF missed
  <2>1. QED
    BY <1>1, <1>4, <1>5, <1>6, PaidStep
<1>8. LostIsOff'
  BY <1>1 DEF LostIsOff
<1>9. QED
  BY <1>7, <1>8

\* Requests, the idle poll and stuttering change no claim.
LEMMA OtherStep ==
  ASSUME RetryInv, IndInv', Request \/ PollEmpty \/ UNCHANGED vars
  PROVE  Budget' /\ LostIsOff'
<1> USE DEF RetryInv, IndInv
<1>1. attempt' = attempt /\ nextToken' = nextToken /\ faults' = faults
  BY DEF Request, CreateRun, PrecheckExpand, CommitExpand, RefuseExpand, PollEmpty, vars
<1>2. \A o \in Ops : op'[o] = op[o] \/ (op[o].status = "absent" /\ op'[o].status = "queued")
  <2>1. ASSUME NEW p \in Ops, NEW row, op[p].status = "absent", row.status = "queued",
               op' = [op EXCEPT ![p] = row]
        PROVE  \A o \in Ops : \/ op'[o] = op[o]
                              \/ op[o].status = "absent" /\ op'[o].status = "queued"
    BY <2>1 DEF TypeOK
  <2>2. ASSUME NEW r \in Runs, NEW p \in Ops, CreateRun(r, p)
        PROVE  \A o \in Ops : \/ op'[o] = op[o]
                              \/ op[o].status = "absent" /\ op'[o].status = "queued"
    BY <2>1, <2>2 DEF CreateRun, QueuedOperation
  <2>3. ASSUME NEW c \in Clients, NEW p \in Ops, CommitExpand(c, p)
        PROVE  \A o \in Ops : \/ op'[o] = op[o]
                              \/ op[o].status = "absent" /\ op'[o].status = "queued"
    BY <2>1, <2>3 DEF CommitExpand, QueuedOperation
  <2>4. \/ op' = op \/ \E r \in Runs, p \in Ops : CreateRun(r, p)
        \/ \E c \in Clients, p \in Ops : CommitExpand(c, p)
    BY DEF Request, PrecheckExpand, RefuseExpand, PollEmpty, vars
  <2>5. QED
    BY <2>2, <2>3, <2>4
<1>3. /\ Claimed \subseteq Claimed'
      /\ \A o \in Ops : op'[o].status = "running" => op'[o] = op[o]
  BY <1>2 DEF Claimed
<1>4. \A o \in Ops, v \in Workers :
        op'[o].status = "running" /\ Covers(v, o) => Covers(v, o)'
  BY <1>1, <1>3 DEF Covers
<1>5. Budget'
  BY <1>1, <1>3, <1>4, CoveredStep
<1>6. LostIsOff'
  BY <1>1 DEF LostIsOff
<1>7. QED
  BY <1>5, <1>6

-----------------------------------------------------------------------------
(* The theorem about retries. *)

\* Before the first claim the budget is empty.
LEMMA BudgetInit == Init => LostIsOff /\ Budget
<1>1. ASSUME Init PROVE Exposed = {} /\ Claimed = {}
  BY <1>1 DEF Init, Exposed, Claimed
<1>2. ASSUME Init PROVE LostIsOff
  BY <1>2 DEF Init, LostIsOff, Idle
<1>3. ASSUME Init PROVE Budget
  <2>1. Cardinality(Exposed) = 0 /\ Cardinality(Claimed) = 0
    BY <1>1, <1>3, FS_EmptySet
  <2>2. nextToken = 0 /\ faults = 0
    BY <1>3 DEF Init
  <2>3. QED
    BY <2>1, <2>2 DEF Budget
<1>4. QED
  BY <1>2, <1>3

\* An operation is executed again only because of a fault, however claims,
\* renewals, rollbacks and crashes of the workers interleave.
THEOREM RetriesNeedFaultsHolds == Spec => []RetriesNeedFaults
<1>1. RetryInv /\ IndInv' /\ [Next]_vars => Budget' /\ LostIsOff'
  BY WorkStep, ClaimIsPaid, FailureStep, TickStep, OtherStep DEF Next, Work
<1>2. RetryInv => RetriesNeedFaults
  <2>1. ASSUME RetryInv PROVE nextToken <= Cardinality(Claimed) + faults
    BY <2>1, CountsType DEF RetryInv, Budget
  <2>2. QED
    BY <2>1 DEF Claimed, RetriesNeedFaults
<1>3. Init => RetryInv
  BY IndInvInit, BudgetInit DEF RetryInv
<1>4. RetryInv => IndInv
  BY DEF RetryInv
<1>5. LostIsOff /\ Budget /\ IndInv => RetryInv
  BY DEF RetryInv
<1>6. QED
  BY <1>1, <1>2, <1>3, <1>4, <1>5, Invariance, PTL DEF Spec
=============================================================================
