---------------------------- MODULE RunLifecycle ----------------------------
(***************************************************************************)
(* What the API promises about an Explore run (docs/architecture.md,       *)
(* docs/contracts/explore-execution-state.md): it is queued, runs and      *)
(* ends; its execution state is the replay baseline and changes only when  *)
(* the run ends, with a longer executed prefix of the same plan; a         *)
(* completed run with pending queries can be expanded, a failed run is     *)
(* final.                                                                  *)
(***************************************************************************)
EXTENDS Naturals

CONSTANTS Runs, MaxPlan

VARIABLES status,  \* status shown to the client
          state    \* [plan, done]: length of the plan and of its executed prefix

vars == <<status, state>>

NoState == [plan |-> 0, done |-> 0]

Init == /\ status = [r \in Runs |-> "absent"]
        /\ state = [r \in Runs |-> NoState]

Admit(r) == /\ status[r] = "absent"
            /\ status' = [status EXCEPT ![r] = "queued"]
            /\ UNCHANGED state

Begin(r) == /\ status[r] = "queued"
            /\ status' = [status EXCEPT ![r] = "running"]
            /\ UNCHANGED state

\* The plan is fixed by the first state that is stored.
Longer(old) == {new \in [plan : 1..MaxPlan, done : 1..MaxPlan] :
                  /\ old.done < new.done /\ new.done <= new.plan
                  /\ old # NoState => new.plan = old.plan}

\* A successful run has made progress, unless its plan is empty.
Complete(r) ==
  /\ status[r] = "running"
  /\ \/ \E outcome \in {"completed", "completed_partial"}, s \in Longer(state[r]) :
          /\ status' = [status EXCEPT ![r] = outcome]
          /\ state' = [state EXCEPT ![r] = s]
     \/ /\ state[r] = NoState
        /\ status' = [status EXCEPT ![r] = "completed"]
        /\ UNCHANGED state

Fail(r) ==
  /\ status[r] = "running"
  /\ status' = [status EXCEPT ![r] = "failed"]
  /\ \E s \in {state[r]} \cup Longer(state[r]) : state' = [state EXCEPT ![r] = s]

Expand(r) ==
  /\ status[r] \in {"completed", "completed_partial"}
  /\ state[r].done < state[r].plan
  /\ status' = [status EXCEPT ![r] = "running"]
  /\ UNCHANGED state

Next == \E r \in Runs : Admit(r) \/ Begin(r) \/ Complete(r) \/ Fail(r) \/ Expand(r)

Spec == Init /\ [][Next]_vars

\* An admitted run does not stay queued and does not run for ever.
FairSpec == Spec /\ \A r \in Runs : WF_vars(Begin(r)) /\ WF_vars(Complete(r) \/ Fail(r))
=============================================================================
