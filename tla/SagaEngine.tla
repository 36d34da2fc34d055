------------------------------ MODULE SagaEngine ------------------------------
(***************************************************************************)
(* One execution of a saga: SagaEngine.execute, the orchestrator that runs *)
(* its steps layer by layer, the compensator that undoes them, the record  *)
(* of the execution in the persistence port, and the recovery service that *)
(* marks a stale record failed.  The names are prefixed where another      *)
(* engine has the same ones, so that the modules can be extended together. *)
(***************************************************************************)
EXTENDS Naturals, Sequences, FiniteSets, SequencesExt

CONSTANTS Steps,               \* the steps of the saga
          Deps,                \* depends_on of each step
          Undoable,            \* the steps that have a compensation method
          MaxAttempts,         \* max(retry, 1) of every step
          Limits,              \* the values of layer_concurrency: 0 is no limit
          CompensationRetry,   \* compensation_retry
          BreakerThreshold,    \* _CIRCUIT_BREAKER_THRESHOLD
          Policies             \* the compensation policies a behaviour may use

(* Kahn's layers: Reached[n] are the steps of the first n of them. *)
Reached[n \in Nat] ==
  IF n = 0 THEN {} ELSE {s \in Steps : Deps[s] \subseteq Reached[n - 1]}

Layer(n) == Reached[n] \ Reached[n - 1]

LayerCount == CHOOSE n \in 1..Cardinality(Steps) :
                Reached[n] = Steps /\ Reached[n - 1] # Steps

ASSUME SagaAssumption ==
  /\ IsFiniteSet(Steps) /\ Steps # {} /\ Undoable \subseteq Steps
  /\ Deps \in [Steps -> SUBSET Steps]
  /\ Reached[Cardinality(Steps)] = Steps         \* the graph has no cycle
  /\ MaxAttempts \in Nat \ {0} /\ CompensationRetry \in Nat \ {0}
  /\ Limits \subseteq Nat /\ Limits # {} /\ BreakerThreshold \in Nat \ {0}
  /\ Policies \subseteq {"STRICT_SEQUENTIAL", "GROUPED_PARALLEL",
       "RETRY_WITH_BACKOFF", "CIRCUIT_BREAKER", "BEST_EFFORT_PARALLEL"}

VARIABLES
  limit,       \* layer_concurrency of this saga
  policy,      \* the compensation policy, chosen when the first reader needs it
  stage,       \* where SagaEngine.execute is
  orch,        \* what _run_layer waits for: running, failing, cancelling
  layer,       \* the layer that runs
  task,        \* each step's task, in the layer that runs
  request,     \* each task's cancellation: none, pending, delivered
  attempt,     \* the attempt each task is at
  status,      \* ctx.step_statuses
  committed,   \* ctx.committed_steps
  failed,      \* layer.failure is set
  result,      \* what the execution came to: success, error, cancelled
  groups,      \* the groups of steps still to compensate, the first at work
  comp,        \* each step's compensation
  tries,       \* compensations of the group at work: its retries
  streak,      \* consecutive_failures of the CIRCUIT_BREAKER policy
  effect,      \* ghost: how many times each step's work was committed
  undone,      \* ghost: how many times each step's compensation took effect
  record,      \* status of the persisted execution
  recovering   \* recover_stale: disabled, or whether it read the record, marked it

execVars == <<orch, layer, task, request, attempt, status, committed, failed>>
compVars == <<groups, comp, tries, streak, undone>>
sagaVars == <<limit, policy, stage, execVars, result, compVars, effect, record, recovering>>

Stages == {"new", "executing", "compensating", "finishing", "ended"}
TaskStates == {"unborn", "waiting", "trying", "pausing", "telling", "reporting",
               "ok", "failed", "cancelled", "over"}
CompStates == {"no", "undoing", "telling", "undone", "error", "cancelled"}
Ended == {"ok", "failed", "cancelled"}
Holding == {"trying", "pausing", "telling", "reporting"}

SagaTypeOK ==
  /\ limit \in Limits /\ policy \in Policies \cup {"unread"} /\ stage \in Stages
  /\ orch \in {"running", "failing", "cancelling"}
  /\ layer \in 0..LayerCount
  /\ task \in [Steps -> TaskStates]
  /\ request \in [Steps -> {"none", "pending", "delivered"}]
  /\ attempt \in [Steps -> 0..MaxAttempts]
  /\ status \in [Steps -> {"PENDING", "RUNNING", "DONE", "FAILED", "COMPENSATED"}]
  /\ committed \in Seq(Steps) /\ failed \in BOOLEAN
  /\ result \in {"none", "success", "error", "cancelled"}
  /\ groups \in Seq(SUBSET Steps) /\ comp \in [Steps -> CompStates]
  /\ tries \in 0..CompensationRetry /\ streak \in 0..BreakerThreshold
  /\ effect \in [Steps -> Nat] /\ undone \in [Steps -> Nat]
  /\ record \in {"absent", "IN_FLIGHT", "COMPLETED", "FAILED"}
  /\ recovering \in {"off", "no", "read", "marked"}

SagaInit ==
  /\ policy = "unread" /\ limit \in Limits
  /\ stage = "new" /\ orch = "running" /\ layer = 0 /\ failed = FALSE
  /\ task = [s \in Steps |-> "unborn"] /\ request = [s \in Steps |-> "none"]
  /\ attempt = [s \in Steps |-> 0] /\ status = [s \in Steps |-> "PENDING"]
  /\ committed = <<>> /\ result = "none"
  /\ groups = <<>> /\ comp = [s \in Steps |-> "no"] /\ tries = 0 /\ streak = 0
  /\ effect = [s \in Steps |-> 0] /\ undone = [s \in Steps |-> 0]
  /\ record = "absent" /\ recovering \in {"off", "no"}

-------------------------------------------------------------------------------
(* The engine begins: on_start and persist_state. *)

(* The tasks and the locals of the layer that has settled are gone. *)
LeaveLayer ==
  /\ request' = [s \in Steps |-> "none"] /\ attempt' = [s \in Steps |-> 0]
  /\ orch' = "running" /\ failed' = FALSE

Left(t) == IF t \in Ended THEN "over" ELSE t

BeginLayer(n) ==
  /\ layer' = n /\ LeaveLayer
  /\ task' = [s \in Steps |-> IF s \in Layer(n) THEN "waiting" ELSE Left(task[s])]

SagaStarts ==
  /\ stage = "new" /\ stage' = "executing"
  /\ record' = "IN_FLIGHT"
  /\ BeginLayer(1)
  /\ UNCHANGED <<policy, status, committed, result, compVars, effect, recovering>>

(* One of the two calls fails, or the caller cancels it: nothing runs, though *)
(* the record may have been written.                                          *)
SagaRefused ==
  /\ stage = "new" /\ stage' = "ended"
  /\ result' \in {"error", "cancelled"}
  /\ record' \in {"absent", "IN_FLIGHT"}
  /\ UNCHANGED <<policy, execVars, compVars, effect, recovering>>

-------------------------------------------------------------------------------
(* The steps of the layer. *)

Free == limit = 0 \/ Cardinality({s \in Steps : task[s] \in Holding}) < limit

EndsAs(s, how) == task' = [task EXCEPT ![s] = how]
Heard(s) == request' = [request EXCEPT ![s] = IF @ = "pending" THEN "delivered" ELSE @]
Noted(s, yes) ==
  committed' = IF yes /\ ~Contains(committed, s) THEN Append(committed, s) ELSE committed
Status(s, st) == status' = [status EXCEPT ![s] = st]
Took(s, yes) == effect' = [effect EXCEPT ![s] = @ + (IF yes THEN 1 ELSE 0)]
OnlySteps == UNCHANGED <<policy, stage, orch, layer, result, compVars, record, recovering>>

StepBegins(s) ==
  /\ task[s] = "waiting" /\ request[s] = "none" /\ Free
  /\ IF failed
     THEN EndsAs(s, "ok") /\ UNCHANGED <<attempt, status>>
     ELSE /\ EndsAs(s, "trying")
          /\ attempt' = [attempt EXCEPT ![s] = 1] /\ Status(s, "RUNNING")
  /\ UNCHANGED <<request, committed, failed, effect>> /\ OnlySteps

StepNeverBegins(s) ==
  /\ task[s] = "waiting" /\ request[s] = "pending"
  /\ EndsAs(s, "cancelled") /\ Heard(s)
  /\ UNCHANGED <<attempt, status, committed, failed, effect>> /\ OnlySteps

StepSucceeds(s) ==
  /\ task[s] = "trying"
  /\ Took(s, TRUE) /\ Status(s, "DONE") /\ Noted(s, TRUE)
  /\ EndsAs(s, "telling") /\ Heard(s)
  /\ UNCHANGED <<attempt, failed>> /\ OnlySteps

\* Mutant: an attempt that may have committed is retried.
RetriesWhatCommitted(s, seen) == attempt[s] < MaxAttempts /\ ~failed
Retries(s, seen) == ~seen /\ attempt[s] < MaxAttempts /\ ~failed

(* The attempt raises (an exception, its timeout, a CancelledError nobody     *)
(* requested).  took: its work was committed; seen: the tracker reports so,   *)
(* or cannot tell.                                                            *)
StepFails(s, took, seen) ==
  /\ task[s] = "trying" /\ (took => seen)
  /\ Took(s, took) /\ Heard(s)
  /\ IF Retries(s, seen)
     THEN EndsAs(s, "pausing") /\ UNCHANGED <<status, committed>>
     ELSE EndsAs(s, "reporting") /\ Status(s, "FAILED") /\ Noted(s, seen)
  /\ UNCHANGED <<attempt, failed>> /\ OnlySteps

\* Mutant: a cancelled attempt that may have committed is not noted.
CancelledForgotten(s, took, seen) ==
  /\ task[s] = "trying" /\ request[s] # "none" /\ (took => seen)
  /\ Took(s, took) /\ Heard(s)
  /\ EndsAs(s, "cancelled") /\ Status(s, "FAILED")
  /\ UNCHANGED <<attempt, committed, failed>> /\ OnlySteps

StepCancelled(s, took, seen) ==
  /\ task[s] = "trying" /\ request[s] # "none" /\ (took => seen)
  /\ Took(s, took) /\ Heard(s)
  /\ EndsAs(s, "cancelled") /\ Status(s, "FAILED") /\ Noted(s, seen)
  /\ UNCHANGED <<attempt, failed>> /\ OnlySteps

(* The step's own code cancels its task. *)
StepCancelsItself(s) ==
  /\ task[s] = "trying" /\ request[s] = "none"
  /\ request' = [request EXCEPT ![s] = "pending"]
  /\ UNCHANGED <<task, attempt, status, committed, failed, effect>> /\ OnlySteps

(* The backoff ends: its time is over, or a step of the layer failed. *)
PauseEnds(s) ==
  /\ task[s] = "pausing" /\ request[s] # "pending"
  /\ IF failed
     THEN EndsAs(s, "reporting") /\ Status(s, "FAILED") /\ UNCHANGED attempt
     ELSE /\ EndsAs(s, "trying") /\ Status(s, "RUNNING")
          /\ attempt' = [attempt EXCEPT ![s] = @ + 1]
  /\ UNCHANGED <<request, committed, failed, effect>> /\ OnlySteps

PauseCancelled(s) ==
  /\ task[s] = "pausing" /\ request[s] = "pending"
  /\ EndsAs(s, "cancelled") /\ Heard(s)
  /\ UNCHANGED <<attempt, status, committed, failed, effect>> /\ OnlySteps

(* on_step_success returns, raises, or is cancelled. *)
StepTold(s) ==
  /\ task[s] = "telling" /\ Heard(s)
  /\ \/ EndsAs(s, "ok") /\ UNCHANGED failed
     \/ EndsAs(s, "failed") /\ failed' = TRUE
     \/ request[s] # "none" /\ EndsAs(s, "cancelled") /\ UNCHANGED failed
  /\ UNCHANGED <<attempt, status, committed, effect>> /\ OnlySteps

(* on_step_failed returns or raises, or is cancelled. *)
StepReported(s) ==
  /\ task[s] = "reporting" /\ Heard(s)
  /\ \/ EndsAs(s, "failed") /\ failed' = TRUE
     \/ request[s] # "none" /\ EndsAs(s, "cancelled") /\ UNCHANGED failed
  /\ UNCHANGED <<attempt, status, committed, effect>> /\ OnlySteps

StepMoves(s) ==
  \/ StepBegins(s) \/ StepNeverBegins(s) \/ StepSucceeds(s)
  \/ \E took, seen \in BOOLEAN : StepFails(s, took, seen) \/ StepCancelled(s, took, seen)
  \/ PauseEnds(s) \/ PauseCancelled(s) \/ StepTold(s) \/ StepReported(s)

-------------------------------------------------------------------------------
(* The orchestrator waits for the layer, and the engine for the orchestrator. *)

Members == Layer(layer)
\* Mutant: the layer waits for its steps to succeed or to fail.
CancelledNeverEnds == \A s \in Members : task[s] \in {"ok", "failed"}
AllEnded == \A s \in Members : task[s] \in Ended
Asked(which) ==
  request' = [s \in Steps |-> IF s \in which THEN "pending" ELSE request[s]]

(* The first failure: the steps that have not started are cancelled. *)
LayerFails ==
  /\ stage = "executing" /\ orch = "running" /\ ~AllEnded
  /\ \E s \in Members : task[s] = "failed"
  /\ orch' = "failing"
  /\ Asked({s \in Members : task[s] = "waiting"})
  /\ UNCHANGED <<policy, stage, layer, task, attempt, status, committed, failed, result,
                 compVars, effect, record, recovering>>

(* The steps to undo, newest first, in the groups the policy undoes them in. *)
\* Mutant: a step that failed after its commit is not undone.
OnlyTheDone == SelectSeq(committed, LAMBDA s : status[s] = "DONE")
ToUndo ==
  committed \o SetToSeq({s \in Steps : status[s] = "DONE"} \ ToSet(committed))

\* Mutant: the steps are undone in the order they were committed.
OldestFirst(p) ==
  LET undo == ToSet(ToUndo) \cap Undoable
  IN  CASE p = "BEST_EFFORT_PARALLEL" -> <<undo>>
        [] p = "GROUPED_PARALLEL" -> [n \in 1..LayerCount |-> Layer(n) \cap undo]
        [] OTHER -> [i \in 1..Len(ToUndo) |-> {ToUndo[i]} \cap undo]

Groups(p) ==
  LET undo == ToSet(ToUndo) \cap Undoable
  IN  CASE p = "BEST_EFFORT_PARALLEL" -> <<undo>>
        [] p = "GROUPED_PARALLEL" -> [n \in 1..LayerCount |-> Layer(LayerCount + 1 - n) \cap undo]
        [] OTHER -> [i \in 1..Len(ToUndo) |-> {Reverse(ToUndo)[i]} \cap undo]

(* The first group of gs with something to undo goes to work, or nothing is   *)
(* left to undo.                                                              *)
Undoing(gs) ==
  \/ /\ \A i \in 1..Len(gs) : gs[i] = {}
     /\ groups' = <<>> /\ stage' = "finishing" /\ UNCHANGED comp
  \/ \E i \in 1..Len(gs) :
       /\ gs[i] # {} /\ \A j \in 1..(i - 1) : gs[j] = {}
       /\ groups' = SubSeq(gs, i, Len(gs)) /\ stage' = "compensating"
       /\ comp' = [s \in Steps |-> IF s \in gs[i] THEN "undoing" ELSE comp[s]]

ExecutionFails(how) ==
  /\ result' = how /\ LeaveLayer
  /\ task' = [s \in Steps |-> Left(task[s])]
  /\ policy' \in Policies /\ Undoing(Groups(policy')) /\ tries' = 1
  /\ UNCHANGED <<layer, status, committed, streak>>

\* Mutant: a layer with a cancelled step has succeeded.
TakesCancelledForDone == failed
LayerFailed == failed \/ \E s \in Members : task[s] = "cancelled"

LayerSettles ==
  /\ stage = "executing" /\ orch # "cancelling" /\ AllEnded
  /\ \/ LayerFailed /\ ExecutionFails("error")
     \/ /\ ~LayerFailed /\ layer < LayerCount
        /\ BeginLayer(layer + 1)
        /\ UNCHANGED <<policy, stage, status, committed, result, groups, comp, tries, streak>>
     \/ /\ ~LayerFailed /\ layer = LayerCount
        /\ stage' = "finishing" /\ result' = "success"
        /\ UNCHANGED <<policy, execVars, groups, comp, tries, streak>>
  /\ UNCHANGED <<undone, effect, record, recovering>>

CallerCancels ==
  /\ stage = "executing" /\ orch # "cancelling"
  /\ orch' = "cancelling"
  /\ Asked({s \in Members : task[s] \notin Ended})
  /\ UNCHANGED <<policy, stage, layer, task, attempt, status, committed, failed, result,
                 compVars, effect, record, recovering>>

CancelledLayerSettles ==
  /\ stage = "executing" /\ orch = "cancelling" /\ AllEnded
  /\ ExecutionFails("cancelled")
  /\ UNCHANGED <<undone, effect, record, recovering>>

-------------------------------------------------------------------------------
(* The compensations. *)

OnlyComp == UNCHANGED <<policy, stage, orch, layer, task, request, attempt, committed,
                        failed, result, groups, tries, streak, effect, record, recovering>>
CompEnds(s, how) == comp' = [comp EXCEPT ![s] = how]
Undid(s, yes) == undone' = [undone EXCEPT ![s] = @ + (IF yes THEN 1 ELSE 0)]

CompSucceeds(s) ==
  /\ comp[s] = "undoing"
  /\ CompEnds(s, "telling") /\ Undid(s, TRUE) /\ Status(s, "COMPENSATED") /\ OnlyComp

(* It raises, committed or not; or it ends in a CancelledError of its own. *)
CompFails(s, took) ==
  /\ comp[s] = "undoing"
  /\ CompEnds(s, "error") \/ CompEnds(s, "cancelled")
  /\ Undid(s, took) /\ UNCHANGED status /\ OnlyComp

(* on_compensated returns, or raises: the compensation counts as failed. *)
CompTold(s) ==
  /\ comp[s] = "telling"
  /\ CompEnds(s, "undone") \/ CompEnds(s, "error") \/ CompEnds(s, "cancelled")
  /\ UNCHANGED <<undone, status>> /\ OnlyComp

CompMoves(s) ==
  CompSucceeds(s) \/ (\E took \in BOOLEAN : CompFails(s, took)) \/ CompTold(s)

OnlyGroups == UNCHANGED <<policy, execVars, result, undone, effect, record, recovering>>
Ends(how) == \E s \in Head(groups) : comp[s] = how
GroupEnded == \A s \in Head(groups) : comp[s] \in {"undone", "error", "cancelled"}

GroupSucceeds ==
  /\ stage = "compensating" /\ \A s \in Head(groups) : comp[s] = "undone"
  /\ Undoing(Tail(groups)) /\ tries' = 1 /\ streak' = 0
  /\ OnlyGroups

(* An error does not stop a compensation of the parallel best effort, nor,    *)
(* before the threshold, those of the circuit breaker.                        *)
ErrorPassed ==
  /\ stage = "compensating" /\ GroupEnded
  /\ \/ /\ policy = "BEST_EFFORT_PARALLEL" /\ (Ends("error") \/ Ends("cancelled"))
        /\ Undoing(Tail(groups)) /\ UNCHANGED streak
     \/ /\ policy = "CIRCUIT_BREAKER" /\ Ends("error")
        /\ streak' = streak + 1
        /\ Undoing(IF streak' >= BreakerThreshold THEN <<>> ELSE Tail(groups))
  /\ tries' = 1 /\ OnlyGroups

\* Mutant: every policy retries a compensation.
RetriedUnderAnyPolicy ==
  /\ stage = "compensating" /\ Ends("error")
  /\ tries < CompensationRetry
  /\ tries' = tries + 1 /\ Undoing(groups) /\ UNCHANGED streak /\ OnlyGroups

\* Mutant: the retries are not counted.
RetriedForever ==
  /\ stage = "compensating" /\ policy = "RETRY_WITH_BACKOFF" /\ Ends("error")
  /\ tries' = tries + 1 /\ Undoing(groups) /\ UNCHANGED streak /\ OnlyGroups

CompRetried ==
  /\ stage = "compensating" /\ policy = "RETRY_WITH_BACKOFF" /\ Ends("error")
  /\ tries < CompensationRetry
  /\ tries' = tries + 1 /\ Undoing(groups) /\ UNCHANGED streak /\ OnlyGroups

(* The error, or a CancelledError, ends the compensation: of the rest of the  *)
(* group what is at work goes on by itself, and nothing waits for it.         *)
\* Mutant: an error stops the parallel best effort.
StopsBestEffortToo ==
  /\ stage = "compensating"
  /\ \/ Ends("error") /\ policy \notin {"RETRY_WITH_BACKOFF", "CIRCUIT_BREAKER"}
     \/ Ends("error") /\ policy = "RETRY_WITH_BACKOFF" /\ tries = CompensationRetry
     \/ Ends("cancelled")
  /\ Undoing(<<>>) /\ UNCHANGED <<tries, streak>> /\ OnlyGroups

CompensationStops ==
  /\ stage = "compensating"
  /\ \/ Ends("error") /\ policy \in {"STRICT_SEQUENTIAL", "GROUPED_PARALLEL"}
     \/ Ends("error") /\ policy = "RETRY_WITH_BACKOFF" /\ tries = CompensationRetry
     \/ Ends("cancelled") /\ policy # "BEST_EFFORT_PARALLEL"
  /\ Undoing(<<>>) /\ UNCHANGED <<tries, streak>> /\ OnlyGroups

-------------------------------------------------------------------------------
(* on_completed and mark_completed.  result is what the execution came to; what *)
(* execute then raises is not modelled: a cancellation of _finish alone raises *)
(* a CancelledError out of a saga that succeeded, with nothing compensated,    *)
(* against the docstring of execute (saga_engine.py:97).                       *)

MarksAs(r) ==
  /\ stage = "finishing" /\ stage' = "ended" /\ record' = r
  /\ UNCHANGED <<policy, execVars, result, compVars, effect, recovering>>

\* Mutant: a cancelled execution is recorded as completed.
CancelledIsCompleted == MarksAs(IF result # "error" THEN "COMPLETED" ELSE "FAILED")
SagaFinishes == MarksAs(IF result = "success" THEN "COMPLETED" ELSE "FAILED")

(* on_completed raises and mark_completed is not called, or it fails unwritten. *)
FinishFails == MarksAs(record)

-------------------------------------------------------------------------------
(* recover_stale, in this process or another, finds the record in flight past *)
(* the threshold, and then marks it.  A process that dies is a behaviour in   *)
(* which the engine takes no further step: recover_stale acts alone.          *)

OnlyRecovery == UNCHANGED <<policy, stage, execVars, result, compVars, effect>>

RecoveryReads ==
  /\ record = "IN_FLIGHT" /\ recovering = "no" /\ recovering' = "read"
  /\ UNCHANGED record /\ OnlyRecovery

RecoveryMarks ==
  /\ recovering = "read" /\ recovering' = "marked" /\ record' = "FAILED"
  /\ OnlyRecovery

-------------------------------------------------------------------------------

(* What the engine does by itself, once the bodies it awaits return. *)
SagaStep ==
  \/ SagaStarts
  \/ stage = "executing" /\ \E s \in Steps : StepMoves(s)
  \/ LayerFails \/ LayerSettles \/ CancelledLayerSettles
  \/ \E s \in Steps : CompMoves(s)
  \/ GroupSucceeds \/ ErrorPassed \/ CompRetried \/ CompensationStops
  \/ SagaFinishes \/ FinishFails

SagaNext ==
  /\ \/ SagaStep
     \/ SagaRefused \/ CallerCancels
     \/ stage = "executing" /\ \E s \in Steps : StepCancelsItself(s)
     \/ RecoveryReads \/ RecoveryMarks
  /\ UNCHANGED limit

SagaSpec == SagaInit /\ [][SagaNext]_sagaVars

-------------------------------------------------------------------------------
(* Properties. *)

Failing == result \in {"error", "cancelled"}
Owing(s) == effect[s] > 0 /\ s \in Undoable
Stopped(s) == comp[s] \in {"error", "cancelled"}

(* A step's work is committed once at most: an attempt that may have          *)
(* committed is never retried, whatever timed out or was cancelled around its *)
(* commit (_attempts).                                                        *)
CommittedOnce == \A s \in Steps : effect[s] <= 1

(* A step runs only on work that is there: everything it depends on was       *)
(* committed, and none of it is being undone while the step's task lives      *)
(* (compute_layers, and the wait of _run_layer for the whole layer).          *)
RunsOnItsDependencies ==
  \A s \in Steps : task[s] \in Holding =>
    \A d \in Deps[s] : effect[d] = 1 /\ status[d] = "DONE" /\ comp[d] = "no"

(* Once the execution has failed or was cancelled, no task of a step lives on *)
(* to commit afterwards, and every step whose work was committed is listed    *)
(* for compensation, whether it succeeded, failed or was cancelled.           *)
CompensationSeesAll ==
  Failing => \A s \in Steps : /\ task[s] \in {"unborn", "over"}
                              /\ effect[s] > 0 => Contains(committed, s)

(* What a step built on is undone after the step: unless everything is undone *)
(* at once, the compensation of a step begins only when those of the steps    *)
(* that depend on it have ended, and, but for the circuit breaker, succeeded. *)
UndoneInOrder ==
  policy # "BEST_EFFORT_PARALLEL" =>
    \A s \in Steps : \A d \in Deps[s] :
      comp[d] # "no" /\ Owing(s) =>
        comp[s] = "undone" \/ (policy = "CIRCUIT_BREAKER" /\ comp[s] = "error")

(* A compensation takes effect once, except where the policy retries it: then *)
(* it may run again although it succeeded, for on_compensated failed after    *)
(* it, up to compensation_retry times.                                        *)
UndoneOnce ==
  \A s \in Steps :
    undone[s] <= IF policy = "RETRY_WITH_BACKOFF" THEN CompensationRetry ELSE 1

(* However attempts and compensations are retried, what a step did is done    *)
(* once and undone once.                                                      *)
WorkOnce == CommittedOnce /\ UndoneOnce

(* Forward and backward, the order of the saga's dependencies is kept.        *)
DependenciesKept == RunsOnItsDependencies /\ UndoneInOrder

(* A failed execution undoes the committed work of every step that can be     *)
(* undone, unless a compensation ended in an error: its own, or one its       *)
(* policy stops at.  The best effort loses no other step to an error.         *)
FailedSagaUndone ==
  stage = "ended" /\ Failing =>
    \A s \in Steps : Owing(s) =>
      \/ undone[s] > 0 \/ Stopped(s)
      \/ /\ policy # "BEST_EFFORT_PARALLEL" /\ \E t \in Steps : Stopped(t)
         /\ policy = "CIRCUIT_BREAKER" =>
              \/ \E t \in Steps : comp[t] = "cancelled"
              \/ Cardinality({t \in Steps : comp[t] = "error"}) >= BreakerThreshold
      \/ policy = "GROUPED_PARALLEL" /\ comp[s] # "no"

(* When an execution is recorded its compensations have ended.  Only one that *)
(* was at work beside a failed one, in a layer compensated in parallel, may   *)
(* still be (asyncio.gather leaves it to run on).                             *)
SettledBeforeEnd ==
  stage \in {"finishing", "ended"} =>
    \A s \in Steps : comp[s] \in {"undoing", "telling"} =>
      policy = "GROUPED_PARALLEL" /\ \E t \in Steps : Stopped(t)

(* What was to be undone is, and is by the end.                               *)
CompensationComplete == FailedSagaUndone /\ SettledBeforeEnd

(* The record COMPLETED is true: every step is done, and none was undone.     *)
(* FAILED is true unless recover_stale wrote it, which may overrule the       *)
(* engine by marking an execution that still ran when it was read.            *)
RecordHonest ==
  /\ record = "COMPLETED" => \A s \in Steps : effect[s] = 1 /\ undone[s] = 0
  /\ record = "FAILED" /\ recovering # "marked" => Failing /\ groups = <<>>

(* An execution that began ends, as long as the bodies and the ports it       *)
(* awaits return: no task waits for another forever.                          *)
SagaSettles == (stage = "executing") ~> (stage = "ended")

===============================================================================
