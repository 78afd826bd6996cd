------------------------ MODULE SearchRunReplayProofs -----------------------
(***************************************************************************)
(* What a replayed operation may store: the stage ledger, the promise of   *)
(* another expansion and the lifecycle that API clients observe, for every *)
(* number of workers, clients, runs and operations.                        *)
(***************************************************************************)
EXTENDS SearchRunQueueProofs

-----------------------------------------------------------------------------
(* The inductive invariant. *)

\* Nothing is stored before the first search ends; an expansion is in progress
\* only on a running run with pending queries.
FreshRuns ==
  \A r \in Runs :
    /\ run[r].status = "absent" \/ (\E o \in Ops : LiveOperation(r, o) /\ op[o].kind = "initial")
         => run[r].state = NoState /\ run[r].response = "none" /\ run[r].stages = <<>>
    /\ \A o \in Ops : LiveOperation(r, o) /\ op[o].kind = "expansion" =>
                        run[r].status = "running" /\ run[r].state.done < run[r].state.plan

\* The owner of a claim that was started works on a running run and on the state
\* that it still has; what it is about to publish was produced from that state.
Baseline(w) ==
  LET o == attempt[w].op
      base == run[op[o].run].state
  IN  attempt[w].pc # "idle" /\ Owns(w) =>
        /\ attempt[w].pc \in {"started", "executed", "finishing"} =>
             run[op[o].run].status = "running"
        /\ attempt[w].pc = "started" => /\ attempt[w].outcome.status = "running"
                                        /\ attempt[w].outcome.state = base
        /\ attempt[w].pc \in {"executed", "finishing"} =>
             attempt[w].outcome \in Outcomes(op[o].kind, base)
Baselines == \A w \in Workers : Baseline(w)

Stored == FreshRuns /\ StageLedger /\ CanExpandIsHonest

ReplayInv == IndInv /\ Stored /\ Baselines

-----------------------------------------------------------------------------
(* What an attempt can produce. *)

\* An outcome is an answer that advances the state, an error with or without an
\* advanced state, a failed search, or an empty plan.
LEMMA OutcomeCases ==
  ASSUME NEW kind, NEW base \in States, NEW result \in Outcomes(kind, base)
  PROVE  \/ /\ result.status \in Completed /\ result.state \in Advances(kind, base)
            /\ result.first = base.done + 1 /\ result.last = result.state.done
            /\ result.response = IF result.state.done < result.state.plan
                                 THEN "more" ELSE "last"
         \/ /\ result.status = "failed" /\ result.first = 0
            /\ result.state = NoState \/ result.state \in Advances(kind, base)
         \/ /\ result.status = "failed" /\ result.state \in Advances(kind, base)
            /\ result.first = base.done + 1 /\ result.last = result.state.done
         \/ /\ kind = "initial" /\ result.status = "completed" /\ result.first = 0
            /\ result.state = NoState /\ result.response = "last"
<1> USE DEF Report, NoOutcome
<1>1. CASE result \in Answers(kind, base)
  <2>1. PICK t \in Completed, s \in Advances(kind, base) :
          result = Report(t, base, s, IF s.done < s.plan THEN "more" ELSE "last")
    BY <1>1 DEF Answers
  <2>2. QED
    BY <2>1
<1>2. CASE result \in Errors(kind, base)
  <2>1. PICK s \in {NoState} \cup Advances(kind, base) :
          result = [NoOutcome EXCEPT !.state = s]
    BY <1>2 DEF Errors
  <2>2. result.status = "failed" /\ result.first = 0 /\ result.state = s
    BY <2>1
  <2>3. QED
    BY <2>1, <2>2
<1>3. CASE kind = "initial" /\ result \in NothingFound(kind, base)
  <2>1. CASE result \in {[NoOutcome EXCEPT !.status = "completed", !.response = "last"]}
    BY <1>3, <2>1
  <2>2. CASE result \in {Report("failed", base, s, a) :
                           s \in Advances(kind, base), a \in {"none", "unavailable"}}
    <3>1. PICK s \in Advances(kind, base), a \in {"none", "unavailable"} :
            result = Report("failed", base, s, a)
      BY <2>2
    <3>2. QED
      BY <3>1
  <2>3. QED
    BY <1>3, <2>1, <2>2 DEF NothingFound
<1>4. QED
  BY <1>1, <1>2, <1>3 DEF Outcomes

\* A state that advances is longer, fits its plan and is not the SQL NULL.
LEMMA AdvanceFacts ==
  ASSUME NEW kind, NEW base \in States, NEW s \in Advances(kind, base)
  PROVE  /\ s \in States /\ s # NoState
         /\ base.done < s.done /\ s.done <= s.plan
         /\ kind = "expansion" => s.plan = base.plan
  BY DEF Advances, States, NoState

\* The stages of a run name operations.
LEMMA StageOperations ==
  ASSUME NEW stages \in Seq(Stages)
  PROVE  \A i \in DOMAIN stages : stages[i] \in Stages /\ stages[i].op \in Ops
<1>1. stages \in [1..Len(stages) -> Stages]
  BY LenProperties
<1>2. QED
  BY <1>1 DEF Stages

\* A stage of an operation that has none yet is appended.
LEMMA StageAppended ==
  ASSUME NEW stages \in Seq(Stages), NEW o \in Ops, NEW result \in Outcome,
         result.first # 0, \A i \in DOMAIN stages : stages[i].op # o
  PROVE  LET t == WithStage(stages, o, result) IN
         /\ DOMAIN t = 1..(Len(stages) + 1) /\ Len(t) = Len(stages) + 1
         /\ \A i \in DOMAIN stages : t[i] = stages[i]
         /\ t[Len(stages) + 1] = [op |-> o, first |-> result.first, last |-> result.last]
<1> DEFINE stage == [op |-> o, first |-> result.first, last |-> result.last]
           n == Len(stages) + 1
           t == [i \in DOMAIN stages \cup {n} |-> IF i = n THEN stage ELSE stages[i]]
<1>1. StageNumber(stages, o) = n
  BY DEF StageNumber
<1>2. WithStage(stages, o, result) = t
  BY <1>1 DEF WithStage
<1>3. DOMAIN stages = 1..Len(stages) /\ Len(stages) \in Nat
  OBVIOUS
<1>4. DOMAIN stages \cup {n} = 1..n
  BY <1>3
<1>5. t \in Seq(Stages) /\ Len(t) = n
  <2>1. stage \in Stages
    BY DEF Stages, Outcome
  <2>2. t \in [1..n -> Stages]
    BY <1>3, <1>4, <2>1
  <2>3. n \in Nat /\ t \in Seq(Stages)
    BY <1>3, <2>2, SeqDef
  <2>4. DOMAIN t = 1..n
    BY <1>4
  <2>5. Len(t) \in Nat /\ DOMAIN t = 1..Len(t)
    BY <2>3, LenProperties
  <2>6. \A k, m \in Nat : 1..k = 1..m => k = m
    <3>1. ASSUME NEW k \in Nat, NEW m \in Nat, k < m PROVE m \in 1..m /\ m \notin 1..k
      BY <3>1
    <3>2. QED
      BY <3>1
  <2> HIDE DEF t
  <2>7. Len(t) = n
    BY <2>3, <2>4, <2>5, <2>6
  <2>8. QED
    BY <2>3, <2>7
<1>6. QED
  BY <1>2, <1>3, <1>4, <1>5

-----------------------------------------------------------------------------
(* Steps that store nothing. *)

\* The content of both tables is kept; live rows may begin to run.
SameContent ==
  /\ \A r \in Runs :
       /\ run'[r].state = run[r].state /\ run'[r].response = run[r].response
       /\ run'[r].stages = run[r].stages
       /\ \/ run'[r].status = run[r].status
          \/ run[r].status \in Live /\ run'[r].status = "running"
  /\ \A o \in Ops :
       /\ op'[o].run = op[o].run /\ op'[o].kind = op[o].kind
       /\ \/ op'[o].status = op[o].status
          \/ op[o].status \in Live /\ op'[o].status = "running"

\* Only requests for work and the end of an operation change the content.
LEMMA ContentStep ==
  ASSUME IndInv, [Next]_vars,
         \A r \in Runs, o \in Ops : ~CreateRun(r, o),
         \A c \in Clients, o \in Ops : ~CommitExpand(c, o),
         \A w \in Workers : ~CommitFinish(w)
  PROVE  SameContent
<1> USE QueueAssumptions DEF IndInv
<1>1. CASE run' = run /\ op' = op
  BY <1>1 DEF SameContent
<1>2. ASSUME NEW w \in Workers, Release(w)
      PROVE  SameContent
  BY <1>2 DEF Release, SameContent, TypeOK, OpRows
<1>3. ASSUME NEW w \in Workers, CommitRenew(w)
      PROVE  SameContent
  BY <1>3 DEF CommitRenew, SameContent, TypeOK, OpRows
<1>4. CASE Tick
  <2>1. \A o \in Ops : op'[o] = [op[o] EXCEPT !.left = IF @ > 0 THEN @ - 1 ELSE 0]
    BY <1>4 DEF Tick
  <2>2. QED
    BY <1>4, <2>1 DEF Tick, SameContent, TypeOK, OpRows
<1>5. ASSUME NEW w \in Workers, Claim(w)
      PROVE  SameContent
  <2>1. PICK o \in Ops :
          /\ Claimable(o)
          /\ op' = [op EXCEPT ![o] = [@ EXCEPT !.status = "running",
                                              !.token = nextToken + 1, !.left = LeaseTicks]]
    BY <1>5 DEF Claim
  <2>2. /\ op'[o] = [op[o] EXCEPT !.status = "running", !.token = nextToken + 1,
                                  !.left = LeaseTicks]
        /\ \A p \in Ops \ {o} : op'[p] = op[p]
        /\ op[o] \in OpRows
    BY <2>1 DEF TypeOK
  <2>3. /\ op'[o].run = op[o].run /\ op'[o].kind = op[o].kind
        /\ op'[o].status = "running" /\ op[o].status \in Live
    <3>1. op[o].status \in Live
      BY <2>1 DEF Claimable, Live
    <3>2. QED
      BY <2>2, <3>1 DEF OpRows
  <2>4. run' = run
    BY <1>5 DEF Claim
  <2>5. QED
    BY <2>2, <2>3, <2>4 DEF SameContent
<1>6. ASSUME NEW w \in Workers, CommitStart(w)
      PROVE  SameContent
  <2> DEFINE r == op[attempt[w].op].run
  <2>1. r \in Runs /\ run[r] \in RunRows
    BY <1>6, AttemptRow DEF CommitStart, ClaimDiscipline, InTransaction, TypeOK
  <2>2. op' = op /\ \A q \in Runs \ {r} : run'[q] = run[q]
    BY <1>6 DEF CommitStart, TypeOK
  <2>3. run'[r] = [run[r] EXCEPT !.status = IF @ \in Live THEN "running" ELSE @]
    BY <1>6, <2>1 DEF CommitStart, TypeOK
  <2>4. QED
    BY <2>1, <2>2, <2>3 DEF SameContent, RunRows
<1>7. QED
  BY <1>1, <1>2, <1>3, <1>4, <1>5, <1>6
  DEF Next, Request, Work, Heartbeat, WorkerFails, BeginStart, BeginFinish, EnterOwned,
      PollEmpty, vars, PrecheckExpand, RefuseExpand, RollBack, Execute, Discard,
      BeginRenew, HeartbeatFails, PersistenceFails, Crash

\* The ledger of one run.
LedgerOf(r) ==
  LET s == run[r].stages
      reported == IF s = <<>> THEN 0 ELSE s[Len(s)].last
  IN  /\ \A i \in DOMAIN s :
           /\ s[i].first = (IF i = 1 THEN 1 ELSE s[i - 1].last + 1)
           /\ s[i].first <= s[i].last
           /\ op[s[i].op].run = r /\ op[s[i].op].status \in Terminal
           /\ \A j \in DOMAIN s : s[i].op = s[j].op => i = j
      /\ reported <= run[r].state.done
      /\ run[r].status # "failed" => reported = run[r].state.done

LEMMA LedgerParts == StageLedger <=> \A r \in Runs : LedgerOf(r)
  BY DEF StageLedger, LedgerOf

\* Terminal operations stay what they are, so a kept ledger stays right.
LEMMA LedgerKept ==
  ASSUME IndInv, NEW r \in Runs, LedgerOf(r),
         run'[r].stages = run[r].stages, run'[r].state = run[r].state,
         run[r].status = "failed" => run'[r].status = "failed",
         \A o \in Ops : op[o].status \in Terminal =>
                          op'[o].run = op[o].run /\ op'[o].status \in Terminal
  PROVE  LedgerOf(r)'
<1>1. \A i \in DOMAIN run[r].stages : run[r].stages[i].op \in Ops
  BY StageOperations DEF IndInv, TypeOK, RunRows
<1>2. QED
  BY <1>1 DEF LedgerOf

\* What is stored stays right when nothing is stored.
LEMMA ContentKept ==
  ASSUME IndInv, Stored, SameContent
  PROVE  Stored'
<1> USE DEF Stored
<1>1. /\ \A r \in Runs, o \in Ops : LiveOperation(r, o)' <=> LiveOperation(r, o)
      /\ \A o \in Ops : op'[o].status \in Terminal <=> op[o].status \in Terminal
  BY DEF SameContent, LiveOperation, Live, Terminal, Completed
<1>2. FreshRuns'
  BY <1>1 DEF FreshRuns, SameContent, Live
<1>3. StageLedger'
  <2>1. \A r \in Runs : run[r].status = "failed" => run'[r].status = "failed"
    BY DEF SameContent, Live
  <2>2. \A r \in Runs : LedgerOf(r)'
    BY <1>1, <2>1, LedgerParts, LedgerKept DEF SameContent
  <2>3. QED
    BY <2>2 DEF StageLedger, LedgerOf
<1>4. CanExpandIsHonest'
  <2>1. \A r \in Runs : run'[r].status \in Completed => run'[r].status = run[r].status
    BY DEF SameContent, Completed
  <2>2. QED
    BY <2>1 DEF CanExpandIsHonest, Expandable, SameContent
<1>5. QED
  BY <1>2, <1>3, <1>4

-----------------------------------------------------------------------------
(* Steps that store. *)

\* A new run has stored nothing.
LEMMA CreateRunStores ==
  ASSUME IndInv, Stored, NEW r \in Runs, NEW o \in Ops, CreateRun(r, o)
  PROVE  Stored'
<1> USE QueueAssumptions DEF IndInv, Stored
<1>1. /\ op[o].status = "absent" /\ run[r].status = "absent"
      /\ op'[o].status = "queued" /\ op'[o].run = r /\ op'[o].kind = "initial"
      /\ \A p \in Ops \ {o} : op'[p] = op[p]
  BY DEF CreateRun, QueuedOperation, TypeOK
<1>2. /\ run'[r].status = "queued" /\ run'[r].state = run[r].state
      /\ run'[r].response = run[r].response /\ run'[r].stages = run[r].stages
      /\ \A q \in Runs \ {r} : run'[q] = run[q]
  BY DEF CreateRun, TypeOK, RunRows
<1>3. \A p \in Ops : op[p].run # r
  BY <1>1 DEF References
<1>4. FreshRuns'
  BY <1>1, <1>2, <1>3 DEF FreshRuns, LiveOperation, Live
<1>5. StageLedger'
  <2>1. \A p \in Ops : op[p].status \in Terminal => op'[p] = op[p]
    BY <1>1 DEF Terminal, Completed
  <2>2. \A q \in Runs : LedgerOf(q)'
    BY <1>1, <1>2, <2>1, LedgerParts, LedgerKept
  <2>3. QED
    BY <2>2 DEF StageLedger, LedgerOf
<1>6. CanExpandIsHonest'
  BY <1>2 DEF CanExpandIsHonest, Expandable, Completed
<1>7. QED
  BY <1>4, <1>5, <1>6

\* An accepted expansion keeps what its completed run had stored.
LEMMA CommitExpandStores ==
  ASSUME IndInv, Stored, NEW c \in Clients, NEW o \in Ops, CommitExpand(c, o)
  PROVE  Stored'
<1> USE QueueAssumptions DEF IndInv, Stored
<1> DEFINE r == asked[c]
<1>1. /\ op[o].status = "absent" /\ r \in Runs
      /\ run[r].status \in Completed /\ run[r].state.done < run[r].state.plan
      /\ op'[o].status = "queued" /\ op'[o].run = r /\ op'[o].kind = "expansion"
      /\ \A p \in Ops \ {o} : op'[p] = op[p]
  BY DEF CommitExpand, Expandable, QueuedOperation, TypeOK
<1>2. /\ run'[r].status = "running" /\ run'[r].state = run[r].state
      /\ run'[r].response = run[r].response /\ run'[r].stages = run[r].stages
      /\ \A q \in Runs \ {r} : run'[q] = run[q]
  BY <1>1 DEF CommitExpand, TypeOK, RunRows
<1>3. \A p \in Ops : ~LiveOperation(r, p)
  BY <1>1 DEF OneLiveOperation, Live, Completed
<1>4. FreshRuns'
  BY <1>1, <1>2, <1>3 DEF FreshRuns, LiveOperation, Live
<1>5. StageLedger'
  <2>1. \A p \in Ops : op[p].status \in Terminal => op'[p] = op[p]
    BY <1>1 DEF Terminal, Completed
  <2>2. \A q \in Runs : run[q].status = "failed" => run'[q].status = "failed"
    BY <1>1, <1>2 DEF Completed
  <2>3. \A q \in Runs : LedgerOf(q)'
    BY <1>1, <1>2, <2>1, <2>2, LedgerParts, LedgerKept
  <2>4. QED
    BY <2>3 DEF StageLedger, LedgerOf
<1>6. CanExpandIsHonest'
  BY <1>2 DEF CanExpandIsHonest, Expandable, Completed
<1>7. QED
  BY <1>4, <1>5, <1>6

\* The rows an operation is finished from and to.
LEMMA FinishFacts ==
  ASSUME ReplayInv, NEW w \in Workers, CommitFinish(w)
  PROVE  LET o == attempt[w].op
             r == op[o].run
             result == attempt[w].outcome
         IN  /\ o \in Ops /\ r \in Runs /\ op[o].status = "running"
             /\ run[r].status = "running" /\ result \in Outcome
             /\ result \in Outcomes(op[o].kind, run[r].state)
             /\ result.status \in Terminal
             /\ op'[o].status = result.status /\ op'[o].run = r /\ op'[o].kind = op[o].kind
             /\ \A p \in Ops \ {o} : op'[p] = op[p] /\ ~LiveOperation(r, p)
             /\ run'[r] = Publish(run[r], o, result)
             /\ \A q \in Runs \ {r} : run'[q] = run[q]
<1> USE DEF ReplayInv, IndInv
<1> DEFINE o == attempt[w].op
           r == op[o].run
           result == attempt[w].outcome
<1>1. /\ attempt[w].pc = "finishing" /\ Owns(w)
      /\ o \in Ops /\ r \in Runs /\ op[o].status = "running"
  BY AttemptRow DEF CommitFinish, ClaimDiscipline, InTransaction, Owns
<1>2. LiveOperation(r, o) /\ run[r].status = "running" /\ \A p \in Ops \ {o} : ~LiveOperation(r, p)
  BY <1>1 DEF OneLiveOperation, LiveOperation, Live, Baselines, Baseline
<1>3. /\ result \in Outcome /\ result.status \in Terminal
      /\ result \in Outcomes(op[o].kind, run[r].state)
  <2>1. attempt[w] \in Attempts
    BY DEF TypeOK
  <2>2. result \in Outcome
    BY <2>1 DEF Attempts
  <2>3. result.status \in Terminal
    BY <1>1 DEF ResultReady
  <2>4. result \in Outcomes(op[o].kind, run[r].state)
    BY <1>1 DEF Baselines, Baseline
  <2>5. QED
    BY <2>2, <2>3, <2>4
<1>4. /\ op'[o].status = result.status /\ op'[o].run = r /\ op'[o].kind = op[o].kind
      /\ \A p \in Ops \ {o} : op'[p] = op[p]
  BY <1>1 DEF CommitFinish, TypeOK, OpRows
<1>5. run'[r] = Publish(run[r], o, result) /\ \A q \in Runs \ {r} : run'[q] = run[q]
  BY <1>1 DEF CommitFinish, TypeOK
<1>6. QED
  BY <1>1, <1>2, <1>3, <1>4, <1>5

\* The columns that finishing writes.
LEMMA PublishedColumns ==
  ASSUME NEW row \in RunRows, NEW o \in Ops, NEW result \in Outcome
  PROVE  LET new == Publish(row, o, result) IN
         /\ new.status = result.status
         /\ new.state = IF result.state = NoState THEN row.state ELSE result.state
         /\ new.response = IF result.response = "none" THEN row.response ELSE result.response
         /\ new.stages = WithStage(row.stages, o, result)
  BY DEF Publish, RunRows

\* The ledger that a finished operation leaves: as it was, or with one more
\* stage that begins where the reported part of the plan ended.
LEMMA FinishedLedger ==
  ASSUME ReplayInv, NEW w \in Workers, CommitFinish(w),
         NEW r \in Runs, r = op[attempt[w].op].run
  PROVE  LedgerOf(r)'
<1> DEFINE o == attempt[w].op
           result == attempt[w].outcome
           s == run[r].stages
           t == run'[r].stages
           base == run[r].state
<1>1. /\ o \in Ops /\ op[o].run = r /\ op[o].status = "running"
      /\ run[r].status = "running" /\ result \in Outcome
      /\ result \in Outcomes(op[o].kind, base)
      /\ result.status \in Terminal
      /\ op'[o].status = result.status /\ op'[o].run = r
      /\ \A p \in Ops \ {o} : op'[p] = op[p]
      /\ run'[r] = Publish(run[r], o, result)
  BY FinishFacts
<1>2. run[r] \in RunRows /\ s \in Seq(Stages) /\ base \in States
  BY <1>1 DEF ReplayInv, IndInv, TypeOK, RunRows
<1>3. /\ run'[r].status = result.status
      /\ run'[r].state = IF result.state = NoState THEN base ELSE result.state
      /\ t = WithStage(s, o, result)
  BY <1>1, <1>2, PublishedColumns
<1>4. /\ \A i \in DOMAIN s :
           /\ s[i].first = (IF i = 1 THEN 1 ELSE s[i - 1].last + 1)
           /\ s[i].first <= s[i].last
           /\ op[s[i].op].run = r /\ op[s[i].op].status \in Terminal
           /\ \A j \in DOMAIN s : s[i].op = s[j].op => i = j
      /\ base.done = IF s = <<>> THEN 0 ELSE s[Len(s)].last
  <2>1. LedgerOf(r) /\ run[r].status # "failed"
    BY <1>1, LedgerParts DEF ReplayInv, Stored, Live
  <2>2. QED
    BY <2>1 DEF LedgerOf
<1>5. \A i \in DOMAIN s : s[i].op \in Ops \ {o} /\ op'[s[i].op] = op[s[i].op]
  BY <1>1, <1>2, <1>4, StageOperations DEF Terminal, Completed
<1> DEFINE reported == IF t = <<>> THEN 0 ELSE t[Len(t)].last
<1> SUFFICES /\ \A i \in DOMAIN t :
                  /\ t[i].first = (IF i = 1 THEN 1 ELSE t[i - 1].last + 1)
                  /\ t[i].first <= t[i].last
                  /\ op'[t[i].op].run = r /\ op'[t[i].op].status \in Terminal
                  /\ \A j \in DOMAIN t : t[i].op = t[j].op => i = j
             /\ reported <= run'[r].state.done
             /\ run'[r].status # "failed" => reported = run'[r].state.done
  BY Zenon DEF LedgerOf
<1> HIDE DEF o, result, s, t, base
<1>6. CASE result.first = 0
  <2>1. t = s
    BY <1>3, <1>6 DEF WithStage
  <2>2. /\ run'[r].state.done >= base.done
        /\ run'[r].status # "failed" => run'[r].state = base
    BY <1>1, <1>2, <1>3, <1>6, OutcomeCases, AdvanceFacts DEF States, Completed, NoState
  <2>3. base.done \in Nat /\ run'[r].state.done \in Nat
    BY <1>1, <1>2, <1>3 DEF States, Outcome
  <2>4. QED
    BY <1>4, <1>5, <2>1, <2>2, <2>3
<1>7. CASE result.first # 0
  <2> DEFINE n == Len(s)
  <2>1. /\ DOMAIN t = 1..(n + 1) /\ Len(t) = n + 1
        /\ \A i \in DOMAIN s : t[i] = s[i]
        /\ t[n + 1] = [op |-> o, first |-> result.first, last |-> result.last]
    BY <1>1, <1>2, <1>3, <1>5, <1>7, StageAppended
  <2>2. /\ result.first = base.done + 1 /\ result.last = result.state.done
        /\ base.done < result.state.done /\ run'[r].state = result.state
    BY <1>1, <1>2, <1>3, <1>7, OutcomeCases, AdvanceFacts
  <2>3. n \in Nat /\ DOMAIN s = 1..n /\ base.done \in Nat /\ result.state.done \in Nat
    BY <1>1, <1>2 DEF States, Outcome
  <2>4. /\ t[n + 1].first = base.done + 1 /\ t[n + 1].last = result.state.done
        /\ t[n + 1].op = o
    BY <2>1, <2>2
  <2>5. n = 0 <=> s = <<>>
    BY <1>2
  <2> HIDE DEF n
  <2>6. ASSUME NEW i \in 1..(n + 1)
        PROVE  /\ t[i].first = (IF i = 1 THEN 1 ELSE t[i - 1].last + 1)
               /\ t[i].first <= t[i].last
               /\ op'[t[i].op].run = r /\ op'[t[i].op].status \in Terminal
               /\ \A j \in 1..(n + 1) : t[i].op = t[j].op => i = j
    <3>1. CASE i = n + 1
      <4>1. t[i].first = (IF i = 1 THEN 1 ELSE t[i - 1].last + 1)
        <5>1. CASE n = 0
          BY <1>4, <2>3, <2>4, <2>5, <3>1, <5>1
        <5>2. CASE n # 0
          <6>1. n \in DOMAIN s /\ i - 1 = n /\ i # 1
            BY <2>3, <3>1, <5>2
          <6>2. t[n].last = s[n].last /\ base.done = s[n].last
            BY <1>4, <2>1, <2>5, <5>2, <6>1 DEF n
          <6>3. QED
            BY <2>4, <3>1, <6>1, <6>2
        <5>3. QED
          BY <5>1, <5>2
      <4>2. t[i].first <= t[i].last
        BY <2>2, <2>3, <2>4, <3>1
      <4>3. op'[t[i].op].run = r /\ op'[t[i].op].status \in Terminal
        BY <1>1, <2>4, <3>1
      <4>4. \A j \in 1..(n + 1) : t[i].op = t[j].op => i = j
        <5>1. \A j \in 1..n : t[j].op # o
          BY <1>5, <2>1, <2>3
        <5>2. QED
          BY <2>3, <2>4, <3>1, <5>1
      <4>5. QED
        BY <4>1, <4>2, <4>3, <4>4
    <3>2. CASE i # n + 1
      <4>1. i \in DOMAIN s /\ t[i] = s[i] /\ (i # 1 => i - 1 \in DOMAIN s)
        BY <2>1, <2>3, <3>2
      <4>2. i # 1 => t[i - 1] = s[i - 1]
        BY <2>1, <4>1
      <4>3. \A j \in 1..(n + 1) : t[i].op = t[j].op => i = j
        <5>1. t[i].op # o
          BY <1>5, <4>1
        <5>2. \A j \in 1..n : t[j] = s[j] /\ j \in DOMAIN s
          BY <2>1, <2>3
        <5>3. \A j \in 1..n : t[i].op = t[j].op => i = j
          BY <1>4, <4>1, <5>2
        <5>4. QED
          BY <2>3, <2>4, <5>1, <5>3
      <4>4. QED
        BY <1>4, <1>5, <4>1, <4>2, <4>3
    <3>3. QED
      BY <3>1, <3>2
  <2>7. /\ t # <<>> /\ t[Len(t)].last = run'[r].state.done
        /\ run'[r].state.done \in Nat
    BY <2>1, <2>2, <2>3, <2>4
  <2>8. QED
    BY <2>1, <2>6, <2>7
<1>8. QED
  BY <1>6, <1>7

\* A finished operation leaves its run with an honest offer and ledger.
LEMMA FinishStores ==
  ASSUME ReplayInv, NEW w \in Workers, CommitFinish(w)
  PROVE  Stored'
<1> DEFINE o == attempt[w].op
           r == op[o].run
           result == attempt[w].outcome
           base == run[r].state
<1>1. /\ o \in Ops /\ r \in Runs /\ op[o].status = "running"
      /\ run[r].status = "running" /\ result \in Outcome
      /\ result \in Outcomes(op[o].kind, base)
      /\ result.status \in Terminal
      /\ op'[o].status = result.status /\ op'[o].run = r
      /\ \A p \in Ops \ {o} : op'[p] = op[p] /\ ~LiveOperation(r, p)
      /\ run'[r] = Publish(run[r], o, result)
      /\ \A q \in Runs \ {r} : run'[q] = run[q]
  BY FinishFacts
<1>2. run[r] \in RunRows /\ base \in States /\ FreshRuns /\ CanExpandIsHonest
  BY <1>1 DEF ReplayInv, IndInv, Stored, TypeOK, RunRows
<1>3. /\ run'[r].status = result.status
      /\ run'[r].state = IF result.state = NoState THEN base ELSE result.state
      /\ run'[r].response = IF result.response = "none" THEN run[r].response
                            ELSE result.response
  BY <1>1, <1>2, PublishedColumns
<1>4. LiveOperation(r, o) /\ op[o].kind \in {"initial", "expansion"}
  BY <1>1 DEF ReplayInv, IndInv, TypeOK, OpRows, LiveOperation, Live
<1>5. \A p \in Ops : op[p].status \in Terminal => op'[p] = op[p]
  BY <1>1 DEF Terminal, Completed
<1>6. StageLedger'
  <2>1. \A q \in Runs \ {r} : LedgerOf(q)'
    BY <1>1, <1>5, LedgerParts, LedgerKept DEF ReplayInv, Stored
  <2>2. \A q \in Runs : q = r => LedgerOf(q)'
    BY FinishedLedger
  <2>3. \A q \in Runs : LedgerOf(q)'
    BY <2>1, <2>2
  <2>4. QED
    BY <2>3 DEF StageLedger, LedgerOf
<1> HIDE DEF o, r, result, base
<1>7. FreshRuns'
  <2>1. run'[r].status \notin Live /\ run'[r].status # "absent" /\ op'[o].status \notin Live
    BY <1>1, <1>3 DEF Terminal, Completed, Live
  <2>2. \A q \in Runs, p \in Ops : q = r => ~LiveOperation(q, p)'
    <3>1. \A p \in Ops \ {o} : ~(op[p].run = r /\ op[p].status \in Live)
      BY <1>1 DEF LiveOperation
    <3>2. QED
      BY <1>1, <2>1, <3>1 DEF LiveOperation
  <2>3. \A q \in Runs \ {r}, p \in Ops :
          /\ LiveOperation(q, p)' => LiveOperation(q, p) /\ op'[p] = op[p]
          /\ run'[q] = run[q]
    BY <1>1, <2>1 DEF LiveOperation
  <2>4. ASSUME NEW q \in Runs
        PROVE  /\ run'[q].status = "absent"
                    \/ (\E p \in Ops : LiveOperation(q, p)' /\ op'[p].kind = "initial")
                  => /\ run'[q].state = NoState /\ run'[q].response = "none"
                     /\ run'[q].stages = <<>>
               /\ \A p \in Ops : LiveOperation(q, p)' /\ op'[p].kind = "expansion" =>
                    run'[q].status = "running" /\ run'[q].state.done < run'[q].state.plan
    <3>1. CASE q = r
      BY <2>1, <2>2, <3>1
    <3>2. CASE q # r
      <4>1. run'[q] = run[q]
        BY <1>1, <3>2
      <4>2. QED
        BY <1>2, <2>3, <3>2, <4>1 DEF FreshRuns
    <3>3. QED
      BY <3>1, <3>2
  <2>5. QED
    BY <2>4 DEF FreshRuns
<1>8. CanExpandIsHonest'
  <2>1. ASSUME run'[r].status \in Completed
        PROVE  run'[r].response = "more" <=> run'[r].state.done < run'[r].state.plan
    <3>1. result.status \in Completed /\ result.status # "failed"
      BY <1>3, <2>1 DEF Completed
    <3>2. CASE result.state \in Advances(op[o].kind, base)
      <4>1. result.response = IF result.state.done < result.state.plan
                              THEN "more" ELSE "last"
        BY <1>1, <1>2, <3>1, <3>2, OutcomeCases, AdvanceFacts
      <4>2. run'[r].state = result.state /\ run'[r].response = result.response
        BY <1>2, <1>3, <3>2, <4>1, AdvanceFacts
      <4>3. QED
        BY <4>1, <4>2
    <3>3. CASE result.state \notin Advances(op[o].kind, base)
      <4>1. /\ op[o].kind = "initial" /\ result.state = NoState
            /\ result.response = "last"
        BY <1>1, <1>2, <3>1, <3>3, OutcomeCases
      <4>2. base = NoState
        BY <1>1, <1>2, <1>4, <4>1 DEF FreshRuns, base
      <4>3. run'[r].response = "last" /\ run'[r].state = NoState
        BY <1>3, <4>1, <4>2
      <4>4. QED
        BY <4>3 DEF NoState
    <3>4. QED
      BY <3>2, <3>3
  <2>2. QED
    BY <1>1, <1>2, <2>1 DEF CanExpandIsHonest, Expandable
<1>9. QED
  BY <1>6, <1>7, <1>8 DEF Stored

-----------------------------------------------------------------------------
(* Steps of attempts. *)

\* The row of a run in progress keeps its baseline.
RowGoesOn(r) == /\ run'[r].state = run[r].state
                /\ run[r].status = "running" => run'[r].status = "running"

\* An attempt that keeps its claim, its result and its phase keeps its
\* baseline while its run and the kind of its operation stay the same.
LEMMA BaselineKept ==
  ASSUME IndInv, NEW w \in Workers, Baseline(w),
         attempt'[w].op = attempt[w].op, attempt'[w].outcome = attempt[w].outcome,
         \/ attempt'[w].pc = attempt[w].pc
         \/ attempt'[w].pc \notin {"started", "executed", "finishing"}
         \/ attempt'[w].pc = "finishing" /\ attempt[w].pc = "executed",
         \A o \in Ops : o = attempt[w].op /\ attempt[w].pc # "idle" /\ Owns(w)' =>
            /\ Owns(w) /\ op'[o].kind = op[o].kind /\ op'[o].run = op[o].run
            /\ \A r \in Runs : r = op[o].run => RowGoesOn(r)
  PROVE  Baseline(w)'
<1> USE DEF IndInv
<1>1. SUFFICES ASSUME attempt'[w].pc \in {"started", "executed", "finishing"}, Owns(w)'
               PROVE  Baseline(w)'
  BY DEF Baseline
<1>2. attempt[w].pc # "idle"
  BY <1>1
<1>3. attempt[w].op \in Ops
  BY <1>2, AttemptRow
<1>4. /\ Owns(w) /\ op'[attempt[w].op].kind = op[attempt[w].op].kind
      /\ op'[attempt[w].op].run = op[attempt[w].op].run
  BY <1>1, <1>2, <1>3
<1>5. op[attempt[w].op].run \in Runs
  BY <1>2, <1>4, AttemptRow
<1>6. RowGoesOn(op[attempt[w].op].run)
  BY <1>1, <1>2, <1>3, <1>5
<1>7. QED
  BY <1>1, <1>2, <1>4, <1>6 DEF Baseline, RowGoesOn

\* So do the attempts that a step leaves alone.
LEMMA BystandersKept ==
  ASSUME IndInv, Baselines, NEW S \in SUBSET Workers,
         \A v \in S : attempt'[v] = attempt[v],
         \A v \in S, o \in Ops : o = attempt[v].op /\ attempt[v].pc # "idle" /\ Owns(v)' =>
            /\ Owns(v) /\ op'[o].kind = op[o].kind /\ op'[o].run = op[o].run
            /\ \A r \in Runs : r = op[o].run => RowGoesOn(r)
  PROVE  \A v \in S : Baseline(v)'
  BY BaselineKept DEF Baselines

\* Steps of attempts that touch neither table.
LEMMA AttemptStep ==
  ASSUME IndInv, Baselines, NEW w \in Workers,
         \/ BeginStart(w) \/ BeginFinish(w) \/ RollBack(w) \/ Discard(w)
         \/ BeginRenew(w) \/ HeartbeatFails(w) \/ PersistenceFails(w)
  PROVE  Baselines'
<1> USE DEF IndInv
<1>1. /\ run' = run /\ op' = op /\ \A v \in Workers \ {w} : attempt'[v] = attempt[v]
  BY DEF BeginStart, BeginFinish, EnterOwned, RollBack, Discard, BeginRenew, HeartbeatFails,
     PersistenceFails, LoseLease, TypeOK
<1>2. /\ attempt'[w].op = attempt[w].op /\ attempt'[w].outcome = attempt[w].outcome
      /\ attempt'[w].token = attempt[w].token
      /\ \/ attempt'[w].pc = attempt[w].pc
         \/ attempt'[w].pc \notin {"started", "executed", "finishing"}
         \/ attempt'[w].pc = "finishing" /\ attempt[w].pc = "executed"
  <2> USE DEF TypeOK, Attempts
  <2>1. CASE BeginStart(w) \/ BeginFinish(w)
    BY <2>1 DEF BeginStart, BeginFinish, EnterOwned
  <2>2. CASE RollBack(w) \/ Discard(w) \/ PersistenceFails(w)
    BY <2>2 DEF RollBack, Discard, PersistenceFails
  <2>3. CASE BeginRenew(w) \/ HeartbeatFails(w)
    <3>1. CASE LoseLease(w)
      BY <3>1 DEF LoseLease
    <3>2. CASE attempt' = [attempt EXCEPT ![w].hb = "renewing"]
      BY <3>2
    <3>3. QED
      BY <2>3, <3>1, <3>2 DEF BeginRenew, HeartbeatFails
  <2>4. QED
    BY <2>1, <2>2, <2>3
<1>3. Baseline(w)'
  BY <1>1, <1>2, BaselineKept DEF Baselines, Owns, RowGoesOn
<1>4. \A v \in Workers \ {w} : Baseline(v)'
  <2>1. \A v \in Workers \ {w} : Owns(v)' => Owns(v)
    BY <1>1 DEF Owns
  <2>2. QED
    BY <1>1, <2>1, BystandersKept DEF RowGoesOn
<1>5. QED
  BY <1>3, <1>4 DEF Baselines

\* Steps that keep every attempt.
LEMMA TableStep ==
  ASSUME IndInv, Baselines, Request \/ Tick \/ PollEmpty \/ UNCHANGED vars
  PROVE  Baselines'
<1> USE DEF IndInv
<1>1. attempt' = attempt
  BY DEF Request, CreateRun, PrecheckExpand, CommitExpand, RefuseExpand, Tick, PollEmpty, vars
<1>2. \A o \in Ops : \/ /\ op'[o].status = op[o].status /\ op'[o].token = op[o].token
                        /\ op'[o].run = op[o].run /\ op'[o].kind = op[o].kind
                     \/ op'[o].status = "queued"
  <2>1. ASSUME NEW r \in Runs, NEW p \in Ops, CreateRun(r, p)
        PROVE  op'[p].status = "queued" /\ \A o \in Ops \ {p} : op'[o] = op[o]
    BY <2>1 DEF CreateRun, QueuedOperation, TypeOK
  <2>2. ASSUME NEW c \in Clients, NEW p \in Ops, CommitExpand(c, p)
        PROVE  op'[p].status = "queued" /\ \A o \in Ops \ {p} : op'[o] = op[o]
    BY <2>2 DEF CommitExpand, QueuedOperation, TypeOK
  <2>3. ASSUME Tick, NEW o \in Ops
        PROVE  /\ op'[o].status = op[o].status /\ op'[o].token = op[o].token
               /\ op'[o].run = op[o].run /\ op'[o].kind = op[o].kind
    BY <2>3 DEF Tick, TypeOK, OpRows
  <2>4. QED
    BY <2>1, <2>2, <2>3 DEF Request, PrecheckExpand, RefuseExpand, PollEmpty, vars
<1>3. \A r \in Runs : RowGoesOn(r)
  <2>1. ASSUME NEW r \in Runs, NEW p \in Ops, CreateRun(r, p)
        PROVE  \A q \in Runs : RowGoesOn(q)
    BY <2>1 DEF CreateRun, TypeOK, RunRows, RowGoesOn
  <2>2. ASSUME NEW c \in Clients, NEW p \in Ops, CommitExpand(c, p)
        PROVE  \A q \in Runs : RowGoesOn(q)
    BY <2>2 DEF CommitExpand, TypeOK, RunRows, RowGoesOn
  <2>3. ASSUME run' = run
        PROVE  \A q \in Runs : RowGoesOn(q)
    BY <2>3 DEF RowGoesOn
  <2>4. QED
    BY <2>1, <2>2, <2>3 DEF Request, PrecheckExpand, RefuseExpand, Tick, PollEmpty, vars
<1>4. ASSUME NEW v \in Workers, NEW o \in Ops,
             o = attempt[v].op, Owns(v)'
      PROVE  Owns(v) /\ op'[o].kind = op[o].kind /\ op'[o].run = op[o].run
  BY <1>1, <1>2, <1>4 DEF Owns
<1>5. QED
  BY <1>1, <1>3, <1>4, BystandersKept DEF Baselines

\* Starting reads the baseline.
LEMMA StartStep ==
  ASSUME IndInv, Baselines, NEW w \in Workers, CommitStart(w)
  PROVE  Baselines'
<1> USE DEF IndInv
<1> DEFINE o == attempt[w].op
           r == op[o].run
           status == IF run[r].status \in Live THEN "running" ELSE run[r].status
<1>1. /\ Owns(w) /\ o \in Ops /\ r \in Runs /\ op[o].status = "running"
  BY AttemptRow DEF CommitStart, ClaimDiscipline, InTransaction, Owns
<1>2. run[r].status \in Live
  BY <1>1 DEF OneLiveOperation, LiveOperation, Live
<1>3. op' = op /\ run'[r].status = "running" /\ \A q \in Runs : RowGoesOn(q)
  BY <1>1, <1>2 DEF CommitStart, TypeOK, RunRows, RowGoesOn, Live
<1>4. /\ \A v \in Workers \ {w} : attempt'[v] = attempt[v]
      /\ attempt'[w] = [attempt[w] EXCEPT !.pc = "started",
           !.outcome = [NoOutcome EXCEPT !.status = status, !.state = run[r].state]]
  BY DEF CommitStart, TypeOK
<1>5. /\ attempt'[w].op = o /\ attempt'[w].pc = "started"
      /\ attempt'[w].outcome.status = "running" /\ attempt'[w].outcome.state = run[r].state
  <2>1. attempt[w] \in Attempts
    BY DEF TypeOK
  <2>2. attempt'[w].op = o /\ attempt'[w].pc = "started"
        /\ attempt'[w].outcome = [NoOutcome EXCEPT !.status = status, !.state = run[r].state]
    BY <1>4, <2>1 DEF Attempts
  <2>3. QED
    BY <1>2, <2>2 DEF NoOutcome
<1>6. Baseline(w)'
  <2>1. /\ run'[op'[attempt'[w].op].run].state = run[r].state
        /\ run'[op'[attempt'[w].op].run].status = "running"
    BY <1>1, <1>3, <1>5 DEF RowGoesOn
  <2>2. QED
    BY <1>5, <2>1 DEF Baseline
<1>7. \A v \in Workers \ {w} : Baseline(v)'
  <2>1. \A v \in Workers \ {w} : Owns(v)' => Owns(v)
    BY <1>3, <1>4 DEF Owns
  <2>2. QED
    BY <1>3, <1>4, <2>1, BystandersKept
<1>8. QED
  BY <1>6, <1>7 DEF Baselines

\* Executing works on the baseline that was read.
LEMMA ExecuteStep ==
  ASSUME IndInv, Baselines, NEW w \in Workers, Execute(w)
  PROVE  Baselines'
<1> USE DEF IndInv
<1> DEFINE read == attempt[w].outcome
<1>1. PICK result : /\ result \in IF read.status \in Terminal
                           THEN {[NoOutcome EXCEPT !.status = read.status]}
                           ELSE Outcomes(op[attempt[w].op].kind, read.state)
                    /\ attempt' = [attempt EXCEPT ![w] =
                                     [@ EXCEPT !.pc = "executed", !.outcome = result]]
  BY DEF Execute
<1>2. run' = run /\ op' = op /\ attempt[w].pc = "started"
  BY DEF Execute
<1>3. /\ \A v \in Workers \ {w} : attempt'[v] = attempt[v]
      /\ attempt'[w].op = attempt[w].op /\ attempt'[w].token = attempt[w].token
      /\ attempt'[w].pc = "executed" /\ attempt'[w].outcome = result
  <2>1. attempt[w] \in Attempts
    BY DEF TypeOK
  <2>2. /\ \A v \in Workers \ {w} : attempt'[v] = attempt[v]
        /\ attempt'[w] = [attempt[w] EXCEPT !.pc = "executed", !.outcome = result]
    BY <1>1 DEF TypeOK
  <2>3. QED
    BY <2>1, <2>2 DEF Attempts
<1>4. Baseline(w)'
  <2>1. SUFFICES ASSUME Owns(w)'
                 PROVE  /\ run[op[attempt[w].op].run].status = "running"
                        /\ result \in Outcomes(op[attempt[w].op].kind,
                                               run[op[attempt[w].op].run].state)
    BY <1>2, <1>3 DEF Baseline
  <2>2. Owns(w)
    BY <1>2, <1>3, <2>1 DEF Owns
  <2>3. /\ read.status = "running" /\ read.state = run[op[attempt[w].op].run].state
        /\ run[op[attempt[w].op].run].status = "running"
    BY <1>2, <2>2 DEF Baselines, Baseline
  <2>4. read.status \notin Terminal
    BY <2>3 DEF Terminal, Completed
  <2>5. QED
    BY <1>1, <2>3, <2>4
<1>5. \A v \in Workers \ {w} : Baseline(v)'
  <2>1. \A v \in Workers \ {w} : Owns(v)' => Owns(v)
    BY <1>2, <1>3 DEF Owns
  <2>2. QED
    BY <1>2, <1>3, <2>1, BystandersKept DEF RowGoesOn
<1>6. QED
  BY <1>4, <1>5 DEF Baselines

\* Claims, renewals, the end of attempts and of operations leave the baselines
\* of the other owners alone.
LEMMA ClaimStep ==
  ASSUME ReplayInv, NEW w \in Workers,
         Claim(w) \/ CommitRenew(w) \/ CommitFinish(w) \/ Release(w) \/ Crash(w)
  PROVE  Baselines'
<1> USE DEF ReplayInv, IndInv
<1> DEFINE Aside == \A v \in Workers \ {w} : Baseline(v)'
<1>a. \A v \in Workers : attempt[v] \in Attempts
  BY DEF TypeOK
<1>b. \A v \in Workers : attempt[v].pc # "idle" => attempt[v].token \in 1..nextToken
  BY DEF ClaimDiscipline
<1>1. CASE Claim(w)
  <2>1. PICK o \in Ops :
          /\ op' = [op EXCEPT ![o] = [@ EXCEPT !.status = "running",
                                              !.token = nextToken + 1, !.left = LeaseTicks]]
          /\ attempt' = [attempt EXCEPT ![w] = [Idle EXCEPT !.pc = "claimed", !.hb = "on",
                                                   !.op = o, !.token = nextToken + 1]]
    BY <1>1 DEF Claim
  <2>2. op'[o].token = nextToken + 1 /\ \A p \in Ops \ {o} : op'[p] = op[p]
    <3>1. op[o] \in OpRows /\ \A p \in Ops \ {o} : op'[p] = op[p]
      BY <2>1 DEF TypeOK
    <3>2. op'[o] = [op[o] EXCEPT !.status = "running", !.token = nextToken + 1,
                                 !.left = LeaseTicks]
      BY <2>1 DEF TypeOK
    <3>3. QED
      BY <3>1, <3>2 DEF OpRows
  <2>3. /\ attempt'[w].pc = "claimed" /\ run' = run
        /\ \A v \in Workers \ {w} : attempt'[v] = attempt[v]
    BY <1>1, <2>1 DEF Claim, Idle, TypeOK
  <2>4. ASSUME NEW v \in Workers \ {w}, NEW p \in Ops,
               p = attempt[v].op, attempt[v].pc # "idle", Owns(v)'
        PROVE  Owns(v) /\ op'[p] = op[p]
    <3>1. attempt[v].token # nextToken + 1
      BY <1>b, <2>4 DEF TypeOK
    <3>2. p # o
      BY <2>2, <2>3, <2>4, <3>1 DEF Owns
    <3>3. QED
      BY <2>2, <2>3, <2>4, <3>2 DEF Owns
  <2>5. Aside
    BY <2>3, <2>4, BystandersKept DEF RowGoesOn
  <2>6. Baseline(w)'
    BY <2>3 DEF Baseline
  <2>7. QED
    BY <2>5, <2>6 DEF Baselines
<1>2. CASE CommitRenew(w)
  <2>1. \A o \in Ops : /\ op'[o].status = op[o].status /\ op'[o].token = op[o].token
                       /\ op'[o].run = op[o].run /\ op'[o].kind = op[o].kind
    BY <1>2 DEF CommitRenew, TypeOK, OpRows
  <2>2. /\ run' = run /\ \A v \in Workers \ {w} : attempt'[v] = attempt[v]
        /\ attempt[w].hb = "renewing"
    BY <1>2 DEF CommitRenew, LoseLease, TypeOK
  <2>3. /\ attempt'[w].op = attempt[w].op /\ attempt'[w].outcome = attempt[w].outcome
        /\ attempt'[w].pc = attempt[w].pc /\ attempt'[w].token = attempt[w].token
    <3>1. CASE LoseLease(w)
      BY <1>a, <3>1 DEF LoseLease, TypeOK, Attempts
    <3>2. CASE attempt' = [attempt EXCEPT ![w].hb = "on"]
      BY <1>a, <3>2 DEF TypeOK, Attempts
    <3>3. QED
      BY <1>2, <3>1, <3>2 DEF CommitRenew
  <2>4. \A v \in Workers, o \in Ops : o = attempt[v].op /\ Owns(v)' => Owns(v)
    <3>1. \A v \in Workers : attempt'[v].op = attempt[v].op /\ attempt'[v].token = attempt[v].token
      BY <2>2, <2>3
    <3>2. QED
      BY <2>1, <3>1 DEF Owns
  <2>5. Aside
    BY <2>1, <2>2, <2>4, BystandersKept DEF RowGoesOn
  <2>6. Baseline(w)'
    BY <2>1, <2>2, <2>3, <2>4, BaselineKept DEF Baselines, RowGoesOn
  <2>7. QED
    BY <2>5, <2>6 DEF Baselines
<1>3. CASE CommitFinish(w)
  <2> DEFINE o == attempt[w].op
             r == op[o].run
  <2>1. /\ o \in Ops /\ r \in Runs /\ op'[o].status \in Terminal
        /\ \A p \in Ops \ {o} : op'[p] = op[p] /\ ~LiveOperation(r, p)
        /\ \A q \in Runs \ {r} : run'[q] = run[q]
    BY <1>3, FinishFacts
  <2>2. /\ attempt'[w].pc = "release"
        /\ \A v \in Workers \ {w} : attempt'[v] = attempt[v]
    BY <1>3, <1>a DEF CommitFinish, TypeOK, Attempts
  <2>3. ASSUME NEW v \in Workers \ {w}, NEW p \in Ops, p = attempt[v].op, Owns(v)'
        PROVE  /\ Owns(v) /\ op'[p] = op[p]
               /\ \A q \in Runs : q = op[p].run => run'[q] = run[q]
    <3>1. op'[p].status = "running"
      BY <2>2, <2>3 DEF Owns
    <3>2. p # o
      BY <2>1, <3>1 DEF Terminal, Completed
    <3>3. Owns(v) /\ op'[p] = op[p]
      BY <2>1, <2>2, <2>3, <3>2 DEF Owns
    <3>4. op[p].run # r
      BY <2>1, <3>1, <3>2, <3>3 DEF LiveOperation, Live
    <3>5. QED
      BY <2>1, <3>3, <3>4
  <2>4. Aside
    BY <2>2, <2>3, BystandersKept DEF RowGoesOn
  <2>5. Baseline(w)'
    BY <2>2 DEF Baseline
  <2>6. QED
    BY <2>4, <2>5 DEF Baselines
<1>4. CASE Release(w) \/ Crash(w)
  <2>1. /\ attempt'[w].pc = "idle" /\ run' = run
        /\ \A v \in Workers \ {w} : attempt'[v] = attempt[v]
    BY <1>4 DEF Release, Crash, Idle, TypeOK
  <2>2. \A o \in Ops : /\ op'[o].status = op[o].status
                       /\ op'[o].run = op[o].run /\ op'[o].kind = op[o].kind
                       /\ op'[o].token = op[o].token \/ op'[o].token = 0
    <3>1. CASE Release(w)
      BY <3>1 DEF Release, TypeOK, OpRows
    <3>2. CASE Crash(w)
      BY <3>2 DEF Crash
    <3>3. QED
      BY <1>4, <3>1, <3>2
  <2>3. ASSUME NEW v \in Workers \ {w}, NEW p \in Ops,
               p = attempt[v].op, attempt[v].pc # "idle", Owns(v)'
        PROVE  Owns(v)
    BY <1>b, <2>1, <2>2, <2>3 DEF Owns
  <2>4. Aside
    BY <2>1, <2>2, <2>3, BystandersKept DEF RowGoesOn
  <2>5. Baseline(w)'
    BY <2>1 DEF Baseline
  <2>6. QED
    BY <2>4, <2>5 DEF Baselines
<1>5. QED
  BY <1>1, <1>2, <1>3, <1>4

-----------------------------------------------------------------------------
(* The theorems. *)

\* The empty database has stored nothing.
LEMMA ReplayInit == Init => Stored /\ Baselines
<1> SUFFICES ASSUME Init PROVE Stored /\ Baselines
  OBVIOUS
<1>1. /\ \A r \in Runs : run[r] = [status |-> "absent", state |-> NoState,
                                   response |-> "none", stages |-> <<>>]
      /\ \A o \in Ops : op[o].status = "absent"
      /\ \A w \in Workers : attempt[w].pc = "idle"
  BY DEF Init, Idle
<1>2. FreshRuns
  BY <1>1 DEF FreshRuns, LiveOperation, Live
<1>3. StageLedger
  <2>1. \A r \in Runs : LedgerOf(r)
    BY <1>1 DEF LedgerOf, NoState
  <2>2. QED
    BY <2>1, LedgerParts
<1>4. CanExpandIsHonest
  BY <1>1 DEF CanExpandIsHonest, Completed
<1>5. Baselines
  BY <1>1 DEF Baselines, Baseline
<1>6. QED
  BY <1>2, <1>3, <1>4, <1>5 DEF Stored

\* Every step keeps what is stored and what is about to be stored right.
LEMMA ReplayStep ==
  ASSUME ReplayInv, [Next]_vars
  PROVE  Stored' /\ Baselines'
<1> USE DEF ReplayInv
<1>1. Stored'
  BY ContentStep, ContentKept, CreateRunStores, CommitExpandStores, FinishStores
<1>2. Baselines'
  BY AttemptStep, TableStep, StartStep, ExecuteStep, ClaimStep
  DEF Next, Work, Heartbeat, WorkerFails
<1>3. QED
  BY <1>1, <1>2

\* The invariant of replays holds in every reachable state.
THEOREM ReplayInvariance == Spec => []ReplayInv
<1>1. Init => ReplayInv
  BY IndInvInit, ReplayInit DEF ReplayInv
<1>2. ReplayInv /\ IndInv' /\ [Next]_vars => ReplayInv'
  BY ReplayStep DEF ReplayInv
<1>3. QED
  BY <1>1, <1>2, Invariance, PTL DEF Spec

\* After any crash, takeover and replay no query of a plan is skipped and none
\* is reported twice, and only a failed run has an unreported part.
THEOREM StageLedgerHolds == Spec => []StageLedger
<1>1. ReplayInv => StageLedger
  BY DEF ReplayInv, Stored
<1>2. QED
  BY <1>1, ReplayInvariance, PTL

\* A completed run offers an expansion exactly when the server accepts one.
THEOREM CanExpandIsHonestHolds == Spec => []CanExpandIsHonest
<1>1. ReplayInv => CanExpandIsHonest
  BY DEF ReplayInv, Stored
<1>2. QED
  BY <1>1, ReplayInvariance, PTL

-----------------------------------------------------------------------------
(* The queue implements the lifecycle that API clients observe. *)

\* The columns of one run as the lifecycle sees them after a step on it alone.
LEMMA MappedRow ==
  ASSUME NEW r \in Runs, \A q \in Runs \ {r} : run'[q] = run[q]
  PROVE  /\ [q \in Runs |-> run'[q].status] =
              [[q \in Runs |-> run[q].status] EXCEPT ![r] = run'[r].status]
         /\ [q \in Runs |-> run'[q].state] =
              [[q \in Runs |-> run[q].state] EXCEPT ![r] = run'[r].state]
  OBVIOUS

\* An advanced state is a longer one of the same plan, or the first one.
LEMMA AdvanceIsLonger ==
  ASSUME NEW kind \in {"initial", "expansion"}, NEW base \in States,
         NEW s \in Advances(kind, base), kind = "initial" => base = NoState
  PROVE  s \in Lifecycle!Longer(base)
<1>1. /\ s \in States /\ base.done < s.done /\ s.done <= s.plan
      /\ base # NoState => s.plan = base.plan
  BY AdvanceFacts
<1>2. s \in [plan : 1..MaxPlan, done : 1..MaxPlan]
  BY <1>1, QueueAssumptions DEF States
<1>3. Lifecycle!NoState = NoState
  BY DEF Lifecycle!NoState, NoState
<1>4. QED
  BY <1>1, <1>2, <1>3 DEF Lifecycle!Longer

\* Every step of the queue is a step of the lifecycle or none.
LEMMA LifecycleMapping ==
  ASSUME ReplayInv, [Next]_vars
  PROVE  [Lifecycle!Next]_Lifecycle!vars
<1> USE DEF ReplayInv, IndInv
<1> DEFINE status == [r \in Runs |-> run[r].status]
           state == [r \in Runs |-> run[r].state]
<1>1. ASSUME NEW r \in Runs, NEW o \in Ops, CreateRun(r, o)
      PROVE  Lifecycle!Admit(r)
  <2>1. /\ run[r].status = "absent" /\ run'[r].status = "queued"
        /\ run'[r].state = run[r].state /\ \A q \in Runs \ {r} : run'[q] = run[q]
    BY <1>1 DEF CreateRun, TypeOK, RunRows
  <2>2. status' = [status EXCEPT ![r] = "queued"] /\ state' = state
    BY <2>1
  <2>3. QED
    BY <2>1, <2>2 DEF Lifecycle!Admit
<1>2. ASSUME NEW c \in Clients, NEW o \in Ops, CommitExpand(c, o)
      PROVE  \E r \in Runs : Lifecycle!Expand(r)
  <2> DEFINE r == asked[c]
  <2>1. /\ r \in Runs /\ run[r].status \in Completed
        /\ run[r].state.done < run[r].state.plan
    BY <1>2 DEF CommitExpand, Expandable, TypeOK
  <2>2. /\ run'[r].status = "running" /\ run'[r].state = run[r].state
        /\ \A q \in Runs \ {r} : run'[q] = run[q]
    BY <1>2, <2>1 DEF CommitExpand, TypeOK, RunRows
  <2> HIDE DEF r
  <2>3. status' = [status EXCEPT ![r] = "running"] /\ state' = state
    BY <2>1, <2>2
  <2>4. QED
    BY <2>1, <2>3 DEF Lifecycle!Expand, Completed
<1>3. ASSUME NEW w \in Workers, CommitFinish(w)
      PROVE  \E r \in Runs : Lifecycle!Complete(r) \/ Lifecycle!Fail(r)
  <2> DEFINE o == attempt[w].op
             r == op[o].run
             result == attempt[w].outcome
             base == run[r].state
  <2>1. /\ o \in Ops /\ r \in Runs /\ op[o].status = "running"
        /\ run[r].status = "running" /\ result \in Outcome
        /\ result \in Outcomes(op[o].kind, base)
        /\ run'[r] = Publish(run[r], o, result)
        /\ \A q \in Runs \ {r} : run'[q] = run[q]
    BY <1>3, FinishFacts
  <2>2. /\ run[r] \in RunRows /\ base \in States
        /\ op[o].kind \in {"initial", "expansion"} /\ LiveOperation(r, o)
    BY <2>1 DEF TypeOK, RunRows, OpRows, LiveOperation, Live
  <2>3. /\ run'[r].status = result.status
        /\ run'[r].state = IF result.state = NoState THEN base ELSE result.state
    BY <2>1, <2>2, PublishedColumns
  <2>4. op[o].kind = "initial" => base = NoState
    BY <2>1, <2>2 DEF Stored, FreshRuns
  <2> HIDE DEF o, r, result, base
  <2>5. CASE result.state \in Advances(op[o].kind, base)
    <3>1. result.state \in Lifecycle!Longer(base) /\ result.state # NoState
      BY <2>2, <2>4, <2>5, AdvanceIsLonger, AdvanceFacts
    <3>2. /\ status' = [status EXCEPT ![r] = result.status]
          /\ state' = [state EXCEPT ![r] = result.state]
      BY <2>1, <2>3, <3>1
    <3>3. result.status \in Completed \cup {"failed"}
      BY <2>1, <2>2, OutcomeCases DEF Completed
    <3>4. state[r] = base /\ status[r] = "running"
      BY <2>1 DEF base
    <3>5. CASE result.status \in Completed
      <4>1. \E outcome \in {"completed", "completed_partial"}, s \in Lifecycle!Longer(state[r]) :
              /\ status' = [status EXCEPT ![r] = outcome]
              /\ state' = [state EXCEPT ![r] = s]
        <5>1. /\ result.status \in {"completed", "completed_partial"}
              /\ result.state \in Lifecycle!Longer(state[r])
          BY <3>1, <3>4, <3>5 DEF Completed
        <5>2. QED
          BY <3>2, <5>1
      <4>2. QED
        BY Zenon, <2>1, <3>4, <4>1 DEF Lifecycle!Complete
    <3>6. CASE result.status = "failed"
      BY <2>1, <3>1, <3>2, <3>4, <3>6 DEF Lifecycle!Fail
    <3>7. QED
      BY <3>3, <3>5, <3>6
  <2>6. CASE result.state = NoState /\ result.status = "failed"
    <3>1. /\ status' = [status EXCEPT ![r] = "failed"]
          /\ state' = [state EXCEPT ![r] = base]
      BY <2>1, <2>3, <2>6
    <3>2. state[r] = base /\ status[r] = "running"
      BY <2>1 DEF base
    <3>3. QED
      BY <2>1, <3>1, <3>2 DEF Lifecycle!Fail
  <2>7. CASE op[o].kind = "initial" /\ result.state = NoState /\ result.status = "completed"
    <3>1. base = Lifecycle!NoState
      BY <2>4, <2>7 DEF Lifecycle!NoState, NoState
    <3>2. state[r] = base /\ status[r] = "running"
      BY <2>1 DEF base
    <3>3. /\ status' = [status EXCEPT ![r] = "completed"]
          /\ state' = state
      BY <2>1, <2>3, <2>7 DEF base
    <3>4. QED
      BY <2>1, <3>1, <3>2, <3>3 DEF Lifecycle!Complete
  <2>8. QED
    BY <2>1, <2>2, <2>5, <2>6, <2>7, OutcomeCases
<1>4. ASSUME NEW w \in Workers, CommitStart(w)
      PROVE  (\E r \in Runs : Lifecycle!Begin(r)) \/ UNCHANGED Lifecycle!vars
  <2> DEFINE r == op[attempt[w].op].run
  <2>1. /\ r \in Runs /\ op[attempt[w].op].status = "running" /\ attempt[w].op \in Ops
    BY <1>4, AttemptRow DEF CommitStart, ClaimDiscipline, InTransaction, Owns
  <2>2. run[r].status \in Live
    BY <2>1 DEF OneLiveOperation, LiveOperation, Live
  <2>3. /\ run'[r].status = "running" /\ run'[r].state = run[r].state
        /\ \A q \in Runs \ {r} : run'[q] = run[q]
    BY <1>4, <2>1, <2>2 DEF CommitStart, TypeOK, RunRows
  <2> HIDE DEF r
  <2>4. status' = [status EXCEPT ![r] = "running"] /\ state' = state
    BY <2>1, <2>3
  <2>5. CASE run[r].status = "queued"
    BY <2>1, <2>4, <2>5 DEF Lifecycle!Begin
  <2>6. CASE run[r].status = "running"
    <3>1. status' = status
      BY <2>3, <2>6
    <3>2. QED
      BY <2>4, <3>1 DEF Lifecycle!vars
  <2>7. QED
    BY <2>2, <2>5, <2>6 DEF Live
<1>5. ASSUME \A r \in Runs : run'[r].status = run[r].status /\ run'[r].state = run[r].state
      PROVE  UNCHANGED Lifecycle!vars
  <2>1. status' = status /\ state' = state
    BY <1>5
  <2>2. QED
    BY <2>1 DEF Lifecycle!vars
<1>6. ASSUME \A w \in Workers : ~CommitStart(w),
             \A w \in Workers : ~CommitFinish(w),
             \A r \in Runs, o \in Ops : ~CreateRun(r, o),
             \A c \in Clients, o \in Ops : ~CommitExpand(c, o)
      PROVE  UNCHANGED Lifecycle!vars
  <2>1. run' = run
    BY <1>6 DEF Next, Request, PrecheckExpand, RefuseExpand, Tick, PollEmpty, vars, Work, Claim,
       BeginStart, Execute, BeginFinish, EnterOwned, RollBack, Discard, Release, Heartbeat,
       BeginRenew, CommitRenew, WorkerFails, HeartbeatFails, PersistenceFails, Crash
  <2>2. QED
    BY <1>5, <2>1
<1>7. QED
  BY <1>1, <1>2, <1>3, <1>4, <1>6 DEF Lifecycle!Next

\* A client sees every run queued once, running, and ended with a longer
\* executed prefix of the plan of its first state, whatever workers and lease
\* takeovers do in between.
THEOREM LifecycleRefined == Spec => RefinesLifecycle
<1>1. Init => Lifecycle!Init
  BY DEF Init, Lifecycle!Init, Lifecycle!NoState, NoState
<1>2. ReplayInv /\ [Next]_vars => [Lifecycle!Next]_Lifecycle!vars
  BY LifecycleMapping
<1>3. QED
  BY <1>1, <1>2, ReplayInvariance, PTL DEF Spec, RefinesLifecycle, Lifecycle!Spec
=============================================================================
