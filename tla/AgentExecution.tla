--------------------------- MODULE AgentExecution ---------------------------
(***************************************************************************)
(* The execution engine (intelligence/agent_runtime/execution) composed    *)
(* with the scheduler and the lifecycle engine.                            *)
(*                                                                         *)
(* execute() looks the task up, runs the behavior callback, and then asks  *)
(* the scheduler to complete or fail the task it looked up BEFORE the      *)
(* callback.  While the callback runs anything may happen: the callback    *)
(* itself, or somebody it waits for, may cancel the task, suspend or shut  *)
(* down its agent, or execute the same task again.  So a call is two       *)
(* steps.  A call of the scheduler itself runs to its end: it calls        *)
(* nothing back but the audit sink.                                        *)
(***************************************************************************)
EXTENDS AgentScheduler

CONSTANT Calls       \* bound: the calls of execute() that are ever made

VARIABLES
  call,              \* "idle", "behavior" (in the callback) or "done"
  callTask,          \* the task a call looked up; NoTask when idle
  outcome            \* what a done call gave its caller

executionVars == <<call, callTask, outcome>>
vars == <<identity, tasks, available, trail, call, callTask, outcome>>

NoTask == -1

Outcomes == {"none", "completed", "failed", "error"}

(* The fields of an ExecutionRequest that execute() compares.              *)
ExecutionRequest ==
  [task_id : TaskIds, agent_id : Agents, resource_units : ResourceUnits]

-----------------------------------------------------------------------------
(* execute, up to the callback.  A request that _require_running_task      *)
(* refuses raises ExecutionRejectedError and changes nothing.              *)
Execute(c, request) ==
  /\ call[c] = "idle"
  /\ request.task_id \in DOMAIN tasks
  /\ tasks[request.task_id].agent_id = request.agent_id
  /\ tasks[request.task_id].status = "running"
  /\ tasks[request.task_id].resource_units = request.resource_units
  /\ call' = [call EXCEPT ![c] = "behavior"]
  /\ callTask' = [callTask EXCEPT ![c] = request.task_id]
  /\ UNCHANGED <<outcome, schedulerVars>>

BehaviorEnds_SlipLate(c, status) ==  \* the result does not need the scheduler
  /\ call[c] = "behavior"
  /\ call' = [call EXCEPT ![c] = "done"]
  /\ outcome' = [outcome EXCEPT ![c] = status]
  /\ UNCHANGED callTask
  /\ \/ Finish(callTask[c], status)
     \/ /\ tasks[callTask[c]].status # "running"
        /\ UNCHANGED <<tasks, available, trail>>

BehaviorEnds_SlipAgain(c, status) == \* finishing twice alike is no error
  /\ call[c] = "behavior"
  /\ call' = [call EXCEPT ![c] = "done"]
  /\ UNCHANGED callTask
  /\ \/ /\ Finish(callTask[c], status)
        /\ outcome' = [outcome EXCEPT ![c] = status]
     \/ /\ tasks[callTask[c]].status = status
        /\ outcome' = [outcome EXCEPT ![c] = status]
        /\ UNCHANGED <<tasks, available, trail>>

BehaviorEnds_SlipWaits(c, status) == \* waits for the task to be running
  /\ call[c] = "behavior"
  /\ Finish(callTask[c], status)
  /\ call' = [call EXCEPT ![c] = "done"]
  /\ outcome' = [outcome EXCEPT ![c] = status]
  /\ UNCHANGED callTask

(* execute, after the callback returned (status "completed") or raised     *)
(* (status "failed"): _complete and _fail.  If the task is not running any *)
(* more the scheduler audits the refusal and its ValueError leaves execute *)
(* in place of a result.                                                   *)
BehaviorEnds(c, status) ==
  /\ call[c] = "behavior"
  /\ call' = [call EXCEPT ![c] = "done"]
  /\ UNCHANGED callTask
  /\ \/ /\ Finish(callTask[c], status)
        /\ outcome' = [outcome EXCEPT ![c] = status]
     \/ /\ tasks[callTask[c]].status # "running"
        /\ Audit(callTask[c], "failed")
        /\ outcome' = [outcome EXCEPT ![c] = "error"]
        /\ UNCHANGED <<tasks, available>>

BehaviorReturns(c) == BehaviorEnds(c, "completed")

BehaviorRaises(c) == BehaviorEnds(c, "failed")

ExecutionNext ==
  \E c \in Calls :
    \/ \E request \in ExecutionRequest : Execute(c, request)
    \/ BehaviorReturns(c)
    \/ BehaviorRaises(c)

-----------------------------------------------------------------------------
Init ==
  /\ LifecycleInit
  /\ SchedulerInit
  /\ call = [c \in Calls |-> "idle"]
  /\ callTask = [c \in Calls |-> NoTask]
  /\ outcome = [c \in Calls |-> "none"]

Next ==
  \/ LifecycleNext /\ UNCHANGED <<schedulerVars, executionVars>>
  \/ SchedulerNext /\ UNCHANGED <<identity, executionVars>>
  \/ ExecutionNext /\ UNCHANGED identity

Spec == Init /\ [][Next]_vars

(* A callback that was entered ends: the only fairness assumed, and it is  *)
(* the behavior's own; clients are under no obligation.                    *)
BehaviorStep(c) ==
  (BehaviorReturns(c) \/ BehaviorRaises(c)) /\ UNCHANGED identity

FairSpec == Spec /\ \A c \in Calls : WF_vars(BehaviorStep(c))

-----------------------------------------------------------------------------
(* The types of all variables.  In particular 0 <= available <= Capacity,  *)
(* which SchedulerResources validates only when it is constructed:         *)
(* start() and _finish() use model_copy, which validates nothing.          *)
TypeOK ==
  /\ LifecycleTypeOK
  /\ DOMAIN tasks \subseteq TaskIds
  /\ \A t \in DOMAIN tasks : tasks[t] \in AgentTask
  /\ available \in 0..Capacity
  /\ trail \in [TaskIds -> [AuditAction -> Nat]]
  /\ call \in [Calls -> {"idle", "behavior", "done"}]
  /\ callTask \in [Calls -> TaskIds \cup {NoTask}]
  /\ outcome \in [Calls -> Outcomes]

(* The units the running tasks hold, one element per unit.                 *)
HeldUnits == UNION {{t} \X (1..tasks[t].resource_units) : t \in Tasks("running")}

(* No interleaving of submissions, starts, finishes, cancellations,        *)
(* lifecycle changes and late execution results creates or loses a         *)
(* resource unit: what is available and what the running tasks hold add up *)
(* to what the scheduler was built with.  start() and _finish() each       *)
(* update the counter on their own; nothing in the code compares the two.  *)
UnitsConserved == available + Cardinality(HeldUnits) = InitialAvailable

(* _finish's "Scheduler resource accounting overflow", which would leave   *)
(* the task running for ever and write no audit record, never happens.     *)
FinishNeverOverflows ==
  \A t \in Tasks("running") : available + tasks[t].resource_units <= Capacity

(* The audit trail tells what happened to a task: one REQUESTED record for *)
(* its admission, a second for its start, one COMPLETED record exactly     *)
(* when it was completed or cancelled, and a failed task has a FAILED one. *)
TrailMatchesTasks ==
  \A t \in TaskIds :
    LET status == IF t \in DOMAIN tasks THEN tasks[t].status ELSE "none"
    IN  /\ trail[t]["requested"] = CASE status = "none"   -> 0
                                     [] status = "queued" -> 1
                                     [] OTHER             -> 2
        /\ trail[t]["completed"] =
             IF status \in {"completed", "cancelled"} THEN 1 ELSE 0
        /\ status = "failed" => trail[t]["failed"] > 0

(* An ExecutionResult is never contradicted by the scheduler: a call that  *)
(* returned COMPLETED (FAILED) did so for a task whose status is now       *)
(* completed (failed), whatever raced with its callback.                   *)
ResultMatchesTask ==
  \A c \in Calls :
    outcome[c] \in {"completed", "failed"} =>
      /\ callTask[c] \in DOMAIN tasks
      /\ tasks[callTask[c]].status = outcome[c]

(* execute() does not mark a task as being executed, so two calls may run  *)
(* the behavior of one task at once; still only one of them gets a result. *)
OneResultPerTask ==
  \A c, d \in Calls :
    /\ outcome[c] \in {"completed", "failed"}
    /\ outcome[d] \in {"completed", "failed"}
    /\ callTask[c] = callTask[d]
    => c = d

(* Finished tasks stay as they are: no late complete(), fail() or cancel() *)
(* and no second submission of the id changes the recorded end of a task.  *)
FinalStatusIsFinal ==
  [][\A t \in DOMAIN tasks :
       tasks[t].status \in {"completed", "failed", "cancelled"} =>
         t \in DOMAIN tasks' /\ tasks'[t] = tasks[t]]_vars

(* From the moment its agent is terminated no task acquires units: the     *)
(* units held for a terminated agent only ever shrink.                     *)
HeldFor(a) == {u \in HeldUnits : tasks[u[1]].agent_id = a}
TerminatedOnlyReleases ==
  [][\A a \in Agents :
       identity[a] = "terminated" => HeldFor(a)' \subseteq HeldFor(a)]_vars

(* Head-of-line blocking: a queued task whose agent was terminated can     *)
(* neither start nor be cancelled, so while next_task() answers with it,   *)
(* only a more urgent submission changes the answer.                       *)
StrandedHeadStays ==
  [][\A t \in NextTask :
       identity[tasks[t].agent_id] = "terminated" =>
         \/ t \in NextTask'
         \/ \E u \in DOMAIN tasks' \ DOMAIN tasks : u \in NextTask']_vars

(* A task whose behavior was entered gives its units back: the call's own  *)
(* completion or somebody's cancellation ends it, whatever happens to its  *)
(* agent meanwhile.                                                        *)
ExecutedTaskReleases ==
  \A c \in Calls :
    call[c] = "behavior" ~> /\ call[c] = "done"
                            /\ callTask[c] \notin Tasks("running")

=============================================================================
