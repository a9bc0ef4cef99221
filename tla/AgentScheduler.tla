--------------------------- MODULE AgentScheduler ---------------------------
(***************************************************************************)
(* The scheduler of the agent control plane                                *)
(* (intelligence/agent_control_plane/scheduler), on top of the registry    *)
(* and the lifecycle engine it consults, writing to the audit sink.        *)
(*                                                                         *)
(* A task is the frozen AgentTask record; the dictionary _tasks maps the   *)
(* ids that were admitted to their current record.  Ids are naturals       *)
(* because next_task compares them.  A priority is its rank in _PRIORITY   *)
(* (0 is CRITICAL, 3 is LOW).  The audit sink is write-only and the        *)
(* records of one task differ only in their action, so the trail of a task *)
(* is the number of its records of each action.                            *)
(*                                                                         *)
(* A definition whose name contains "_Slip" is a plausible slip in the     *)
(* code behind the definition that follows it.  No specification uses it;  *)
(* put in the place of that definition it must break a property.           *)
(***************************************************************************)
EXTENDS AgentLifecycle, Integers, FiniteSets

CONSTANTS
  TaskIds,            \* the task ids clients use
  Priorities,         \* the ranks they use
  ResourceUnits,      \* the sizes they ask for
  Capacity,           \* SchedulerResources.capacity
  InitialAvailable,   \* SchedulerResources.available at construction
  MaxRejections       \* bound: audited rejections of client calls, per task

ASSUME TaskIdsAssumption == TaskIds \subseteq Nat
ASSUME PrioritiesAssumption == Priorities \subseteq 0..3
ASSUME UnitsAssumption == ResourceUnits \subseteq Nat \ {0}
ASSUME ResourcesAssumption ==
  /\ Capacity \in Nat \ {0}
  /\ InitialAvailable \in 0..Capacity
ASSUME RejectionsAssumption == MaxRejections \in Nat

VARIABLES
  tasks,              \* _tasks: admitted task ids to their AgentTask record
  available,          \* _resources.available
  trail               \* the audit records of every task id, counted by action

schedulerVars == <<tasks, available, trail>>

TaskStatus == {"queued", "running", "completed", "failed", "cancelled"}

AgentTask ==
  [agent_id : Agents, priority : Priorities,
   resource_units : ResourceUnits, status : TaskStatus]

Tasks(status) == {t \in DOMAIN tasks : tasks[t].status = status}

-----------------------------------------------------------------------------
(* _audit: one more record of an action in the trail of task t.            *)
Audit(t, action) ==
  trail' = [trail EXCEPT ![t][action] = @ + 1]

(* A refused call leaves one FAILED record and nothing else (the exception *)
(* it raises is the caller's).  Clients may repeat it; the bound does not. *)
AuditRejection(t) ==
  /\ trail[t]["failed"] < MaxRejections
  /\ Audit(t, "failed")
  /\ UNCHANGED <<tasks, available>>

Admissible_SlipReuse(t, task) ==     \* a finished task's id may be reused
  /\ t \in DOMAIN tasks => tasks[t].status \notin {"queued", "running"}
  /\ task.status = "queued"
  /\ Schedulable(task.agent_id)
  /\ task.resource_units <= Capacity

Admissible(t, task) ==
  /\ t \notin DOMAIN tasks
  /\ task.status = "queued"
  /\ Schedulable(task.agent_id)
  /\ task.resource_units <= Capacity

Submit(t, task) ==
  /\ Admissible(t, task)
  /\ tasks' = [i \in DOMAIN tasks \cup {t} |->
                 IF i = t THEN task ELSE tasks[i]]
  /\ Audit(t, "requested")
  /\ UNCHANGED available

(* Some submission under id t is one that is refused.                      *)
SubmitRejected(t) ==
  /\ ~ \A task \in AgentTask : Admissible(t, task)
  /\ AuditRejection(t)

(* next_task: the queued task with the least (priority, task_id).          *)
Precedes(t, u) ==
  \/ tasks[t].priority < tasks[u].priority
  \/ tasks[t].priority = tasks[u].priority /\ t <= u

NextTask == {t \in Tasks("queued") : \A u \in Tasks("queued") : Precedes(t, u)}

Startable_SlipAgent(t) ==            \* trusts the check made by submit()
  /\ tasks[t].status = "queued"
  /\ tasks[t].resource_units <= available

Startable(t) ==
  /\ tasks[t].status = "queued"
  /\ Schedulable(tasks[t].agent_id)
  /\ tasks[t].resource_units <= available

Start_SlipOneUnit(t) ==              \* takes one unit whatever the size
  /\ t \in DOMAIN tasks
  /\ Startable(t)
  /\ available' = available - 1
  /\ tasks' = [tasks EXCEPT ![t].status = "running"]
  /\ Audit(t, "requested")

Start(t) ==
  /\ t \in DOMAIN tasks
  /\ Startable(t)
  /\ available' = available - tasks[t].resource_units
  /\ tasks' = [tasks EXCEPT ![t].status = "running"]
  /\ Audit(t, "requested")

StartRejected(t) == t \in DOMAIN tasks /\ ~Startable(t) /\ AuditRejection(t)

Finish_SlipCancelKeeps(t, status) == \* a cancelled task keeps its units
  /\ t \in Tasks("running")
  /\ available' = IF status = "cancelled"
                  THEN available
                  ELSE available + tasks[t].resource_units
  /\ tasks' = [tasks EXCEPT ![t].status = status]
  /\ Audit(t, IF status = "failed" THEN "failed" ELSE "completed")

Finish_SlipAudit(t, status) ==       \* only a completed task is a success
  /\ t \in Tasks("running")
  /\ available + tasks[t].resource_units <= Capacity
  /\ available' = available + tasks[t].resource_units
  /\ tasks' = [tasks EXCEPT ![t].status = status]
  /\ Audit(t, IF status = "completed" THEN "completed" ELSE "failed")

(* _finish: release the units, set the final status, write the record.  If *)
(* the units did not fit back the code would raise without any change.     *)
Finish(t, status) ==
  /\ t \in Tasks("running")
  /\ available + tasks[t].resource_units <= Capacity
  /\ available' = available + tasks[t].resource_units
  /\ tasks' = [tasks EXCEPT ![t].status = status]
  /\ Audit(t, IF status = "failed" THEN "failed" ELSE "completed")

Complete(t) == Finish(t, "completed")

Fail(t) == Finish(t, "failed")

Cancel_SlipQueued(t) ==              \* a queued task can be cancelled too
  \/ Finish(t, "cancelled")
  \/ /\ t \in Tasks("queued")
     /\ tasks' = [tasks EXCEPT ![t].status = "cancelled"]
     /\ Audit(t, "completed")
     /\ UNCHANGED available

Cancel(t) == Finish(t, "cancelled")

FinishRejected(t) ==
  /\ t \in DOMAIN tasks \ Tasks("running")
  /\ AuditRejection(t)

-----------------------------------------------------------------------------
SchedulerInit ==
  /\ tasks = [t \in {} |-> {}]
  /\ available = InitialAvailable
  /\ trail = [t \in TaskIds |-> [action \in AuditAction |-> 0]]

SchedulerNext ==
  \E t \in TaskIds :
    \/ \E task \in AgentTask : Submit(t, task)
    \/ SubmitRejected(t)
    \/ Start(t)
    \/ StartRejected(t)
    \/ Complete(t)
    \/ Fail(t)
    \/ Cancel(t)
    \/ FinishRejected(t)

=============================================================================
