---------------------------- MODULE JobLifecycle ----------------------------
(***************************************************************************)
(* What a worker job promises, whatever queue, lease or sweep carries it:  *)
(* it is asked for once, claimed, retried within a budget of attempts and  *)
(* ends completed or failed for good.  Detection jobs and the jobs of      *)
(* captures both implement this with their own tables.                     *)
(***************************************************************************)
EXTENDS Integers

CONSTANTS
  Jobs,
  MaxAttempts     \* attempts before a job is given up

\* Assumed of the constants by the theorems and by every instance.
BudgetAssumption == MaxAttempts \in Nat \ {0}

VARIABLES state, attempts

jobVars == <<state, attempts>>

Finished == {"completed", "failed"}
States == {"none", "pending", "running"} \union Finished

JobsTypeOK ==
  /\ state \in [Jobs -> States]
  /\ attempts \in [Jobs -> 0 .. MaxAttempts]

JobsInit ==
  /\ state = [j \in Jobs |-> "none"]
  /\ attempts = [j \in Jobs |-> 0]

\* An attempt is over without a result: another one while the budget lasts.
Tried(j) ==
  /\ attempts'[j] = attempts[j] + 1
  /\ \/ state'[j] = "failed"
     \/ state'[j] = "pending" /\ attempts'[j] < MaxAttempts

Moves(j) ==
  \/ state[j] = "none" /\ state'[j] = "pending" /\ attempts'[j] = attempts[j]
  \/ state[j] = "pending" /\ state'[j] = "running" /\ attempts'[j] = attempts[j]
  \/ state[j] = "running" /\ state'[j] = "completed" /\ attempts'[j] = attempts[j]
  \/ state[j] \in {"pending", "running"} /\ Tried(j)

\* One transaction may move several jobs.
JobsNext ==
  /\ state' \in [Jobs -> States]
  /\ attempts' \in [Jobs -> 0 .. MaxAttempts + 1]
  /\ \A j \in Jobs : \/ state'[j] = state[j] /\ attempts'[j] = attempts[j]
                     \/ Moves(j)

JobsSpec == JobsInit /\ [][JobsNext]_jobVars

-----------------------------------------------------------------------------

\* A job that still waits or runs has an attempt left, so that whoever retries
\* it never hands out one more attempt than the settings allow.
BudgetLeft ==
  \A j \in Jobs : state[j] \in {"pending", "running"} => attempts[j] < MaxAttempts

\* A completed or failed job never changes again.
FinishedIsFinal ==
  [][\A j \in Jobs : state[j] \in Finished =>
       state'[j] = state[j] /\ attempts'[j] = attempts[j]]_jobVars
=============================================================================
