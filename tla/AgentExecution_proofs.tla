------------------------ MODULE AgentExecution_proofs ------------------------
(***************************************************************************)
(* Proofs about the scheduler and the execution engine, for any agents,    *)
(* task ids, sizes, capacity and number of calls, and about the            *)
(* communication engine, for any agents, message ids and number of sends.  *)
(***************************************************************************)
EXTENDS AgentExecution, AgentCommunication, FiniteSetTheorems, TLAPS

FinalStatus == {"completed", "failed", "cancelled"}

(* A step leaves the tasks and the counter alone and audits at most a      *)
(* refusal, or is one of the three operations of the scheduler that change *)
(* them.                                                                   *)
LEMMA TaskSteps ==
  ASSUME TypeOK, [Next]_vars
  PROVE  \/ /\ UNCHANGED <<tasks, available>>
            /\ UNCHANGED trail \/ \E t : Audit(t, "failed")
         \/ \E t \in TaskIds, task \in AgentTask : Submit(t, task) /\ UNCHANGED identity
         \/ \E t \in TaskIds : Start(t) /\ UNCHANGED identity
         \/ \E t \in TaskIds, s \in FinalStatus : Finish(t, s) /\ UNCHANGED identity
  <1>1. CASE LifecycleNext /\ UNCHANGED <<schedulerVars, executionVars>>
    BY <1>1 DEF schedulerVars
  <1>2. CASE SchedulerNext /\ UNCHANGED <<identity, executionVars>>
    BY <1>2 DEF SchedulerNext, SubmitRejected, StartRejected, FinishRejected,
                AuditRejection, Complete, Fail, Cancel, FinalStatus
  <1>3. CASE ExecutionNext /\ UNCHANGED identity
    <2>1. PICK c \in Calls :
            \/ \E request \in ExecutionRequest : Execute(c, request)
            \/ \E s \in {"completed", "failed"} : BehaviorEnds(c, s)
      BY <1>3 DEF ExecutionNext, BehaviorReturns, BehaviorRaises
    <2>2. CASE \E request \in ExecutionRequest : Execute(c, request)
      BY <2>2 DEF Execute, schedulerVars
    <2>3. CASE \E s \in {"completed", "failed"} : BehaviorEnds(c, s)
      <3>1. PICK s \in {"completed", "failed"} : BehaviorEnds(c, s)
        BY <2>3
      <3>2. CASE Finish(callTask[c], s)
        BY <1>3, <3>2 DEF Finish, Tasks, TypeOK, FinalStatus
      <3>3. CASE ~Finish(callTask[c], s)
        BY <3>1, <3>3 DEF BehaviorEnds
      <3>4. QED
        BY <3>2, <3>3
    <2>4. QED
      BY <2>1, <2>2, <2>3
  <1>4. CASE UNCHANGED vars
    BY <1>4 DEF vars
  <1>5. QED
    BY <1>1, <1>2, <1>3, <1>4 DEF Next

(* The lifecycle engine keeps statuses: nothing becomes "created", and a   *)
(* terminated agent stays terminated.                                      *)
LEMMA LifecycleStep ==
  ASSUME LifecycleTypeOK, LifecycleNext
  PROVE  /\ LifecycleTypeOK'
         /\ \A a \in Agents : identity[a] = "terminated" =>
                                identity'[a] = "terminated"
  <1>1. PICK a \in Agents, s \in AgentStatus \ {"created"} :
          /\ identity' = [identity EXCEPT ![a] = s]
          /\ identity[a] # "terminated"
    BY DEF LifecycleNext, Register, Transition, Startup, Suspend, Resume,
           Shutdown, Transitions, AgentStatus, NotRegistered
  <1>2. QED
    BY <1>1 DEF LifecycleTypeOK

-----------------------------------------------------------------------------
(* The tasks and the counter keep their types, whoever changes them.       *)
LEMMA TaskTypes ==
  ASSUME TypeOK, [Next]_vars
  PROVE  /\ DOMAIN tasks' \subseteq TaskIds
         /\ \A t \in DOMAIN tasks' : tasks'[t] \in AgentTask
         /\ available' \in 0..Capacity
  <1> DEFINE Typed == /\ DOMAIN tasks' \subseteq TaskIds
                      /\ \A t \in DOMAIN tasks' : tasks'[t] \in AgentTask
                      /\ available' \in 0..Capacity
  <1> USE UnitsAssumption, ResourcesAssumption
  <1>1. CASE UNCHANGED <<tasks, available>>
    BY <1>1 DEF TypeOK
  <1>2. ASSUME NEW t \in TaskIds, NEW task \in AgentTask, Submit(t, task)
        PROVE  Typed
    BY <1>2 DEF TypeOK, Submit
  <1>3. ASSUME NEW t \in TaskIds, Start(t)
        PROVE  Typed
    BY <1>3 DEF TypeOK, Start, Startable, AgentTask, TaskStatus
  <1>4. ASSUME NEW t \in TaskIds, NEW s \in FinalStatus, Finish(t, s)
        PROVE  Typed
    BY <1>4 DEF TypeOK, Finish, Tasks, AgentTask, TaskStatus, FinalStatus
  <1>5. QED
    BY <1>1, <1>2, <1>3, <1>4, TaskSteps

(* Every variable keeps its type in every behaviour of the composed        *)
(* control plane; in particular the available units stay within            *)
(* 0..Capacity although start() and _finish() validate nothing.            *)
THEOREM TypeCorrect == Spec => []TypeOK
  <1>1. Init => TypeOK
    BY ResourcesAssumption
    DEF Init, LifecycleInit, SchedulerInit, TypeOK, LifecycleTypeOK, Outcomes
  <1>2. TypeOK /\ [Next]_vars => TypeOK'
    <2> SUFFICES ASSUME TypeOK, [Next]_vars PROVE TypeOK'
      OBVIOUS
    <2> DEFINE Trails == [TaskIds -> [AuditAction -> Nat]]
    <2>1. ASSUME NEW t, NEW action \in AuditAction, Audit(t, action)
          PROVE  trail' \in Trails
      <3>1. CASE t \in TaskIds
        BY <2>1, <3>1 DEF Audit, TypeOK
      <3>2. CASE t \notin TaskIds
        <4>1. trail' = trail
          BY <2>1, <3>2 DEF Audit, TypeOK
        <4>2. QED
          BY <4>1 DEF TypeOK
      <3>3. QED
        BY <3>1, <3>2
    <2>2. CASE LifecycleNext /\ UNCHANGED <<schedulerVars, executionVars>>
      BY <2>2, LifecycleStep DEF TypeOK, schedulerVars, executionVars
    <2>3. CASE SchedulerNext /\ UNCHANGED <<identity, executionVars>>
      <3>1. PICK t \in TaskIds, action \in AuditAction : Audit(t, action)
        BY <2>3 DEF SchedulerNext, Submit, SubmitRejected, Start, StartRejected,
             Complete, Fail, Cancel, Finish, FinishRejected, AuditRejection,
             AuditAction
      <3>2. QED
        BY <2>1, <2>3, <3>1, TaskTypes
        DEF TypeOK, LifecycleTypeOK, executionVars
    <2>4. CASE ExecutionNext /\ UNCHANGED identity
      <3>1. ASSUME NEW c \in Calls, NEW request \in ExecutionRequest,
                   Execute(c, request)
            PROVE  TypeOK'
        BY <2>4, <3>1
        DEF Execute, ExecutionRequest, schedulerVars, TypeOK, LifecycleTypeOK
      <3>2. ASSUME NEW c \in Calls, NEW s \in {"completed", "failed"},
                   BehaviorEnds(c, s)
            PROVE  TypeOK'
        <4>1. PICK action \in AuditAction : Audit(callTask[c], action)
          BY <3>2 DEF BehaviorEnds, Finish, AuditAction
        <4>2. /\ call' \in [Calls -> {"idle", "behavior", "done"}]
              /\ outcome' \in [Calls -> Outcomes]
              /\ callTask' = callTask
          BY <3>2 DEF BehaviorEnds, TypeOK, Outcomes
        <4>3. QED
          BY <2>1, <2>4, <4>1, <4>2, TaskTypes DEF TypeOK, LifecycleTypeOK
      <3>3. QED
        BY <2>4, <3>1, <3>2 DEF ExecutionNext, BehaviorReturns, BehaviorRaises
    <2>5. CASE UNCHANGED vars
      BY <2>5 DEF vars, TypeOK, LifecycleTypeOK
    <2>6. QED
      BY <2>2, <2>3, <2>4, <2>5 DEF Next
  <1>3. QED
    BY <1>1, <1>2, PTL DEF Spec

-----------------------------------------------------------------------------
(* The units of one task, as a set, are as many as its resource_units.     *)
LEMMA UnitsOfOneTask ==
  ASSUME NEW t, NEW n \in Nat
  PROVE  /\ IsFiniteSet({t} \X (1..n))
         /\ Cardinality({t} \X (1..n)) = n
  <1>1. IsFiniteSet({t}) /\ Cardinality({t}) = 1
    BY FS_Singleton
  <1>2. IsFiniteSet(1..n) /\ Cardinality(1..n) = n
    BY FS_Interval
  <1>3. /\ IsFiniteSet({t} \X (1..n))
        /\ Cardinality({t} \X (1..n)) = Cardinality({t}) * Cardinality(1..n)
    BY ONLY <1>1, <1>2, FS_Product, Zenon
  <1>4. QED
    BY <1>1, <1>2, <1>3

Units(t) == {t} \X (1..tasks[t].resource_units)

(* A held unit is a unit of some running task, before a step ...           *)
LEMMA InHeldUnits ==
  \A u : u \in HeldUnits <=> \E t \in Tasks("running") : u \in Units(t)
  BY DEF HeldUnits, Units

(* ... and after it.                                                       *)
LEMMA InHeldUnitsNext ==
  \A u : u \in HeldUnits' <=> \E t \in Tasks("running")' : u \in Units(t)'
  BY DEF HeldUnits, Units

(* start() adds the units of its task, none of which was held before.      *)
LEMMA HeldAfterStart ==
  ASSUME TypeOK, NEW t \in TaskIds, Start(t)
  PROVE  /\ HeldUnits' = HeldUnits \cup Units(t)
         /\ HeldUnits \cap Units(t) = {}
  <1>1. Tasks("running")' = Tasks("running") \cup {t} /\ t \notin Tasks("running")
    BY DEF Start, Startable, Tasks, TypeOK, AgentTask
  <1>2. \A i \in DOMAIN tasks : Units(i)' = Units(i)
    BY DEF Start, Units, TypeOK, AgentTask
  <1>3. Tasks("running")' \subseteq DOMAIN tasks
    BY DEF Start, Tasks
  <1>4. \A i \in Tasks("running") : Units(i) \cap Units(t) = {}
    BY <1>1 DEF Units
  <1>5. HeldUnits' = HeldUnits \cup Units(t)
    BY <1>1, <1>2, <1>3, InHeldUnits, InHeldUnitsNext
  <1>6. QED
    BY <1>4, <1>5, InHeldUnits

(* _finish() takes the units of its task away, all of which were held.     *)
LEMMA HeldAfterFinish ==
  ASSUME TypeOK, NEW t \in TaskIds, NEW s \in FinalStatus, Finish(t, s)
  PROVE  /\ HeldUnits' = HeldUnits \ Units(t)
         /\ Units(t) \subseteq HeldUnits
  <1>1. Tasks("running")' = Tasks("running") \ {t} /\ t \in Tasks("running")
    BY DEF Finish, FinalStatus, Tasks, TypeOK, AgentTask
  <1>2. \A i \in DOMAIN tasks : Units(i)' = Units(i)
    BY DEF Finish, Units, TypeOK, AgentTask
  <1>3. Tasks("running") \subseteq DOMAIN tasks
    BY DEF Tasks
  <1>4. \A i \in Tasks("running") \ {t} : Units(i) \cap Units(t) = {}
    BY DEF Units
  <1>5. HeldUnits' = HeldUnits \ Units(t)
    BY <1>1, <1>2, <1>3, <1>4, InHeldUnits, InHeldUnitsNext
  <1>6. QED
    BY <1>1, <1>5, InHeldUnits

(* The inductive form of conservation: the held units are also finitely    *)
(* many, without which counting them means nothing.                        *)
UnitsInv == IsFiniteSet(HeldUnits) /\ UnitsConserved

(* Every step keeps the account: submit() changes no running task, start() *)
(* moves as many units out of the counter as _finish() moves back.         *)
LEMMA UnitsInvStep ==
  ASSUME TypeOK, UnitsInv, [Next]_vars
  PROVE  UnitsInv'
  <1> USE UnitsAssumption, ResourcesAssumption
  <1>1. CASE UNCHANGED <<tasks, available>>
    BY <1>1 DEF UnitsInv, UnitsConserved, HeldUnits, Tasks
  <1>2. ASSUME NEW t \in TaskIds, NEW task \in AgentTask, Submit(t, task)
        PROVE  UnitsInv'
    <2>1. Tasks("running")' = Tasks("running")
      BY <1>2 DEF Submit, Admissible, Tasks
    <2>2. \A i \in Tasks("running") : tasks'[i] = tasks[i]
      BY <1>2 DEF Submit, Admissible, Tasks
    <2>3. \A i \in Tasks("running") : Units(i)' = Units(i)
      BY <2>2 DEF Units
    <2>4. HeldUnits' = HeldUnits
      BY <2>1, <2>3, InHeldUnits, InHeldUnitsNext
    <2>5. QED
      BY <1>2, <2>4 DEF UnitsInv, UnitsConserved, Submit
  <1>3. ASSUME NEW t \in TaskIds, Start(t)
        PROVE  UnitsInv'
    <2> DEFINE n == tasks[t].resource_units
    <2>1. n \in Nat /\ available' = available - n
      BY <1>3 DEF Start, TypeOK, AgentTask
    <2>2. IsFiniteSet(Units(t)) /\ Cardinality(Units(t)) = n
      BY <2>1, UnitsOfOneTask DEF Units
    <2>3. IsFiniteSet(HeldUnits)
      BY DEF UnitsInv
    <2>4. /\ IsFiniteSet(HeldUnits \cup Units(t))
          /\ Cardinality(HeldUnits \cup Units(t)) =
               Cardinality(HeldUnits) + Cardinality(Units(t))
                 - Cardinality(HeldUnits \cap Units(t))
      BY ONLY <2>2, <2>3, FS_Union, Zenon
    <2>5. /\ IsFiniteSet(HeldUnits')
          /\ Cardinality(HeldUnits') = Cardinality(HeldUnits) + n - Cardinality({})
      BY <1>3, <2>2, <2>4, HeldAfterStart
    <2>6. Cardinality(HeldUnits) \in Nat /\ Cardinality({}) = 0
      BY <2>3, FS_CardinalityType, FS_EmptySet
    <2>7. QED
      BY <2>1, <2>5, <2>6 DEF UnitsInv, UnitsConserved, TypeOK
  <1>4. ASSUME NEW t \in TaskIds, NEW s \in FinalStatus, Finish(t, s)
        PROVE  UnitsInv'
    <2> DEFINE n == tasks[t].resource_units
    <2>1. n \in Nat /\ available' = available + n
      BY <1>4 DEF Finish, Tasks, TypeOK, AgentTask
    <2>2. IsFiniteSet(Units(t)) /\ Cardinality(Units(t)) = n
      BY <2>1, UnitsOfOneTask DEF Units
    <2>3. IsFiniteSet(HeldUnits)
      BY DEF UnitsInv
    <2>4. HeldUnits \cap Units(t) = Units(t)
      BY <1>4, HeldAfterFinish
    <2>5. /\ IsFiniteSet(HeldUnits')
          /\ Cardinality(HeldUnits') = Cardinality(HeldUnits) - n
      BY <1>4, <2>2, <2>3, <2>4, HeldAfterFinish, FS_Difference
    <2>6. Cardinality(HeldUnits) \in Nat
      BY <2>3, FS_CardinalityType
    <2>7. QED
      BY <2>1, <2>5, <2>6 DEF UnitsInv, UnitsConserved, TypeOK
  <1>5. QED
    BY <1>1, <1>2, <1>3, <1>4, TaskSteps

(* The strengthened account holds in every behaviour.                      *)
LEMMA UnitsAlways == Spec => []UnitsInv
  <1>1. Init => UnitsInv
    <2> SUFFICES ASSUME Init PROVE UnitsInv
      OBVIOUS
    <2>1. HeldUnits = {}
      BY InHeldUnits DEF Init, SchedulerInit, Tasks
    <2>2. QED
      BY <2>1, FS_EmptySet, ResourcesAssumption
      DEF UnitsInv, UnitsConserved, Init, SchedulerInit
  <1>2. TypeOK /\ UnitsInv /\ [Next]_vars => UnitsInv'
    BY UnitsInvStep
  <1>3. QED
    BY <1>1, <1>2, TypeCorrect, PTL DEF Spec

(* Resource conservation, for any number of agents, tasks and calls: the   *)
(* available units and those of the running tasks always add up to the     *)
(* units the scheduler was built with.                                     *)
THEOREM Conservation == Spec => []UnitsConserved
  <1>1. UnitsInv => UnitsConserved
    BY DEF UnitsInv
  <1>2. QED
    BY <1>1, UnitsAlways, PTL

(* _finish() can always give the units of a running task back: its         *)
(* overflow exception is unreachable for every choice of the constants.    *)
THEOREM NoOverflow == Spec => []FinishNeverOverflows
  <1>1. TypeOK /\ UnitsInv => FinishNeverOverflows
    <2> SUFFICES ASSUME TypeOK, UnitsInv, NEW t \in Tasks("running")
                 PROVE  available + tasks[t].resource_units <= Capacity
      BY DEF FinishNeverOverflows
    <2> DEFINE n == tasks[t].resource_units
    <2>1. n \in Nat
      BY UnitsAssumption DEF TypeOK, Tasks, AgentTask
    <2>2. Units(t) \in SUBSET HeldUnits
      BY InHeldUnits
    <2>3. IsFiniteSet(Units(t)) /\ Cardinality(Units(t)) = n
      BY <2>1, UnitsOfOneTask DEF Units
    <2>4. IsFiniteSet(HeldUnits)
      BY DEF UnitsInv
    <2>5. Cardinality(Units(t)) <= Cardinality(HeldUnits)
      BY ONLY <2>2, <2>4, FS_Subset, Zenon
    <2>6. Cardinality(HeldUnits) \in Nat
      BY <2>4, FS_CardinalityType
    <2>7. QED
      BY <2>1, <2>3, <2>5, <2>6, ResourcesAssumption
      DEF UnitsInv, UnitsConserved, TypeOK
  <1>2. QED
    BY <1>1, TypeCorrect, UnitsAlways, PTL

-----------------------------------------------------------------------------
(* No operation of the scheduler touches a task that has ended: submit()   *)
(* takes new ids only, start() queued and _finish() unfinished tasks.      *)
LEMMA FinalityStep ==
  ASSUME TypeOK, [Next]_vars
  PROVE  \A t \in DOMAIN tasks :
           tasks[t].status \in FinalStatus =>
             t \in DOMAIN tasks' /\ tasks'[t] = tasks[t]
  <1> DEFINE Step == \A t \in DOMAIN tasks :
                       tasks[t].status \in FinalStatus =>
                         t \in DOMAIN tasks' /\ tasks'[t] = tasks[t]
  <1>1. CASE UNCHANGED tasks
    BY <1>1
  <1>2. ASSUME NEW t \in TaskIds, NEW task \in AgentTask, Submit(t, task)
        PROVE  Step
    BY <1>2 DEF Submit, Admissible
  <1>3. ASSUME NEW t \in TaskIds, Start(t)
        PROVE  Step
    BY <1>3 DEF Start, Startable, FinalStatus
  <1>4. ASSUME NEW t \in TaskIds, NEW s \in FinalStatus, Finish(t, s)
        PROVE  Step
    BY <1>4 DEF Finish, Tasks, FinalStatus
  <1>5. QED
    BY <1>1, <1>2, <1>3, <1>4, TaskSteps

(* The recorded end of a task never changes again.                         *)
THEOREM Finality == Spec => FinalStatusIsFinal
  <1> DEFINE Step == \A t \in DOMAIN tasks :
                       tasks[t].status \in {"completed", "failed", "cancelled"} =>
                         t \in DOMAIN tasks' /\ tasks'[t] = tasks[t]
  <1>1. TypeOK /\ [Next]_vars => [Step]_vars
    BY FinalityStep DEF FinalStatus
  <1>2. QED
    BY <1>1, TypeCorrect, PTL DEF Spec, FinalStatusIsFinal

(* From its termination on an agent only gives units back.                 *)
THEOREM TerminatedReleases == Spec => TerminatedOnlyReleases
  <1> DEFINE Step == \A a \in Agents : identity[a] = "terminated" =>
                       HeldFor(a)' \subseteq HeldFor(a)
  <1>1. TypeOK /\ [Next]_vars => [Step]_vars
    <2> SUFFICES ASSUME TypeOK, [Next]_vars PROVE Step
      OBVIOUS
    <2>1. CASE UNCHANGED tasks
      BY <2>1 DEF HeldFor, HeldUnits, Tasks
    <2>2. ASSUME NEW t \in TaskIds, NEW task \in AgentTask, Submit(t, task)
          PROVE  Step
      <3>1. /\ Tasks("running")' = Tasks("running")
            /\ \A i \in Tasks("running") : tasks'[i] = tasks[i]
        BY <2>2 DEF Submit, Admissible, Tasks
      <3>2. HeldUnits' = HeldUnits /\ \A u \in HeldUnits : u[1] \in Tasks("running")
        BY <3>1 DEF HeldUnits
      <3>3. QED
        BY <3>1, <3>2 DEF HeldFor
    <2>3. ASSUME NEW t \in TaskIds, Start(t), UNCHANGED identity
          PROVE  Step
      <3>1. \A u \in Units(t) : u[1] = t
        BY DEF Units
      <3>2. identity[tasks[t].agent_id] # "terminated"
        BY <2>3 DEF Start, Startable, Schedulable
      <3>3. \A u \in HeldUnits : u[1] \in DOMAIN tasks
        BY DEF HeldUnits, Tasks
      <3>4. \A i \in DOMAIN tasks : tasks'[i].agent_id = tasks[i].agent_id
        BY <2>3 DEF Start, TypeOK, AgentTask
      <3>5. t \in DOMAIN tasks
        BY <2>3 DEF Start
      <3>6. QED
        BY <2>3, <3>1, <3>2, <3>3, <3>4, <3>5, HeldAfterStart DEF HeldFor
    <2>4. ASSUME NEW t \in TaskIds, NEW s \in FinalStatus, Finish(t, s)
          PROVE  Step
      <3>1. \A u \in HeldUnits : u[1] \in DOMAIN tasks
        BY DEF HeldUnits, Tasks
      <3>2. \A i \in DOMAIN tasks : tasks'[i].agent_id = tasks[i].agent_id
        BY <2>4 DEF Finish, TypeOK, AgentTask
      <3>3. QED
        BY <2>4, <3>1, <3>2, HeldAfterFinish DEF HeldFor
    <2>5. QED
      BY <2>1, <2>2, <2>3, <2>4, TaskSteps
  <1>2. QED
    BY <1>1, TypeCorrect, PTL DEF Spec, TerminatedOnlyReleases

-----------------------------------------------------------------------------
(* The head of the queue is only overtaken: a queued task whose agent was  *)
(* terminated can neither start nor be cancelled, so next_task() goes on   *)
(* answering with it until a more urgent task is submitted.                *)
THEOREM StrandedHead == Spec => StrandedHeadStays
  <1>. DEFINE Step == \A t \in NextTask :
                        identity[tasks[t].agent_id] = "terminated" =>
                          \/ t \in NextTask'
                          \/ \E u \in DOMAIN tasks' \ DOMAIN tasks : u \in NextTask'
  <1>1. TypeOK /\ TypeOK' /\ [Next]_vars => [Step]_vars
    <2>. SUFFICES ASSUME TypeOK, TypeOK', [Next]_vars, NEW t \in NextTask,
                         identity[tasks[t].agent_id] = "terminated"
                  PROVE  \/ t \in NextTask'
                         \/ \E u \in DOMAIN tasks' \ DOMAIN tasks : u \in NextTask'
      OBVIOUS
    <2>1. /\ t \in DOMAIN tasks /\ tasks[t].status = "queued"
          /\ \A u \in DOMAIN tasks : tasks[u].status = "queued" => Precedes(t, u)
      BY DEF NextTask, Tasks
    <2>2. CASE UNCHANGED tasks
      BY <2>2 DEF NextTask, Tasks, Precedes
    <2>3. ASSUME NEW u \in TaskIds, NEW task \in AgentTask, Submit(u, task)
          PROVE  t \in NextTask' \/ \E w \in DOMAIN tasks' \ DOMAIN tasks : w \in NextTask'
      <3>1. /\ DOMAIN tasks' = DOMAIN tasks \cup {u} /\ u \notin DOMAIN tasks
            /\ \A i \in DOMAIN tasks : tasks'[i] = tasks[i]
        BY <2>3 DEF Submit, Admissible
      <3>2. \A i \in DOMAIN tasks' : i = u \/ (i \in DOMAIN tasks /\ tasks'[i] = tasks[i])
        BY <3>1
      <3>3. t \in Tasks("queued")' /\ t # u
        BY <2>1, <3>1 DEF Tasks
      <3>4. \A i \in Tasks("queued")' : i = u \/ Precedes(t, i)'
        BY <2>1, <3>1, <3>2 DEF Tasks, Precedes
      <3>5. CASE u \notin Tasks("queued")' \/ Precedes(t, u)'
        BY <3>3, <3>4, <3>5 DEF NextTask
      <3>6. CASE u \in Tasks("queued")' /\ ~Precedes(t, u)'
        <4>1. t \in DOMAIN tasks' /\ u \in DOMAIN tasks'
          BY <3>1, <3>3 DEF Tasks
        <4>2. ASSUME NEW i \in Tasks("queued")' PROVE Precedes(u, i)'
          <5>1. i \in DOMAIN tasks' /\ (i = u \/ Precedes(t, i)')
            BY <3>4 DEF Tasks
          <5>2. LET P(a, b) == \/ tasks'[a].priority < tasks'[b].priority
                               \/ tasks'[a].priority = tasks'[b].priority /\ a <= b
                IN  P(u, u) /\ (P(t, i) /\ ~P(u, i) => P(t, u))
            <6>1. \A j \in {t, u, i} : j \in Nat /\ tasks'[j].priority \in 0..3
              <7>1. \A j \in DOMAIN tasks' : tasks'[j].priority \in Priorities
                BY DEF TypeOK, AgentTask
              <7>2. DOMAIN tasks' \subseteq Nat
                BY TaskIdsAssumption DEF TypeOK
              <7>3. QED
                BY <4>1, <5>1, <7>1, <7>2, PrioritiesAssumption
            <6>2. PICK p \in Nat, q \in Nat, r \in Nat :
                    p = tasks'[t].priority /\ q = tasks'[u].priority /\ r = tasks'[i].priority
              BY <6>1
            <6>3. QED
              BY <6>1, <6>2
          <5>3. QED
            BY <3>6, <5>1, <5>2 DEF Precedes
        <4>3. u \in NextTask'
          BY <3>6, <4>2 DEF NextTask
        <4>4. QED
          BY <3>1, <4>1, <4>3
      <3>7. QED
        BY <3>5, <3>6
    <2>4. ASSUME NEW u \in TaskIds, NEW s \in TaskStatus \ {"queued"}, u \in DOMAIN tasks, u # t,
                 tasks' = [tasks EXCEPT ![u].status = s]
          PROVE  t \in NextTask'
      <3>1. /\ DOMAIN tasks' = DOMAIN tasks
            /\ \A i \in DOMAIN tasks : i # u => tasks'[i] = tasks[i]
        BY <2>4
      <3>2. tasks'[u].status # "queued"
        BY <2>4 DEF TypeOK, AgentTask
      <3>3. t \in Tasks("queued")'
        BY <2>1, <2>4, <3>1 DEF Tasks
      <3>4. \A i \in Tasks("queued")' : Precedes(t, i)'
        BY <2>1, <2>4, <3>1, <3>2 DEF Tasks, Precedes
      <3>5. QED
        BY <3>3, <3>4 DEF NextTask
    <2>5. ASSUME NEW u \in TaskIds, Start(u) PROVE t \in NextTask'
      <3>1. u # t
        BY <2>5 DEF Start, Startable, Schedulable
      <3>2. QED
        BY <2>4, <2>5, <3>1 DEF Start, TaskStatus
    <2>6. ASSUME NEW u \in TaskIds, NEW s \in FinalStatus, Finish(u, s) PROVE t \in NextTask'
      <3>1. u \in DOMAIN tasks /\ u # t
        BY <2>1, <2>6 DEF Finish, Tasks
      <3>2. QED
        BY <2>4, <2>6, <3>1 DEF Finish, TaskStatus, FinalStatus
    <2>7. QED
      BY <2>2, <2>3, <2>5, <2>6, TaskSteps
  <1>2. QED
    BY <1>1, TypeCorrect, PTL DEF Spec, StrandedHeadStays

-----------------------------------------------------------------------------
HasResult(c) == outcome[c] \in {"completed", "failed"}

(* The two properties of results are inductive together with the fact that *)
(* a call has no outcome before it is done.                                *)
ResultsInv ==
  /\ ResultMatchesTask
  /\ OneResultPerTask
  /\ \A c \in Calls : call[c] # "done" => outcome[c] = "none"

(* Every step keeps the results: a call that ends takes its outcome from   *)
(* the very status it gives its running task, which is final from then on. *)
LEMMA ResultsInvStep ==
  ASSUME TypeOK, ResultsInv, [Next]_vars
  PROVE  ResultsInv'
  <1>1. \A c \in Calls : HasResult(c) =>
          /\ callTask[c] \in DOMAIN tasks
          /\ tasks[callTask[c]].status \in FinalStatus
          /\ tasks[callTask[c]].status = outcome[c]
    BY DEF ResultsInv, ResultMatchesTask, HasResult, FinalStatus
  <1>2. \A c \in Calls : HasResult(c) =>
          /\ callTask[c] \in DOMAIN tasks'
          /\ tasks'[callTask[c]] = tasks[callTask[c]]
    BY <1>1, FinalityStep
  <1>3. CASE UNCHANGED executionVars
    BY <1>1, <1>2, <1>3 DEF ResultsInv, ResultMatchesTask, OneResultPerTask,
                            HasResult, executionVars
  <1>4. ASSUME NEW c \in Calls, NEW request \in ExecutionRequest,
               Execute(c, request)
        PROVE  ResultsInv'
    <2>1. /\ outcome' = outcome
          /\ outcome[c] = "none"
          /\ \A d \in Calls : call'[d] # "done" => call[d] # "done"
          /\ \A d \in Calls \ {c} : callTask'[d] = callTask[d]
      BY <1>4 DEF Execute, ResultsInv, TypeOK
    <2>2. QED
      BY <1>1, <1>2, <2>1 DEF ResultsInv, ResultMatchesTask, OneResultPerTask,
                              HasResult
  <1>5. ASSUME NEW c \in Calls, NEW s \in {"completed", "failed"},
               BehaviorEnds(c, s)
        PROVE  ResultsInv'
    <2>1. /\ callTask' = callTask
          /\ \A d \in Calls \ {c} : outcome'[d] = outcome[d] /\ call'[d] = call[d]
          /\ call'[c] = "done"
      BY <1>5 DEF BehaviorEnds, TypeOK
    <2>2. CASE Finish(callTask[c], s) /\ outcome'[c] = s
      <3>1. /\ callTask[c] \in DOMAIN tasks'
            /\ tasks'[callTask[c]].status = s
            /\ tasks[callTask[c]].status = "running"
        BY <2>2 DEF Finish, Tasks, TypeOK, AgentTask
      <3>2. \A d \in Calls \ {c} : HasResult(d) => callTask[d] # callTask[c]
        BY <1>1, <3>1 DEF FinalStatus
      <3>3. QED
        BY <1>1, <1>2, <2>1, <2>2, <3>1, <3>2
        DEF ResultsInv, ResultMatchesTask, OneResultPerTask, HasResult
    <2>3. CASE outcome'[c] = "error"
      BY <1>1, <1>2, <2>1, <2>3
      DEF ResultsInv, ResultMatchesTask, OneResultPerTask, HasResult
    <2>4. QED
      BY <1>5, <2>2, <2>3 DEF BehaviorEnds, TypeOK
  <1>6. QED
    BY <1>3, <1>4, <1>5 DEF Next, vars, executionVars, ExecutionNext,
                            BehaviorReturns, BehaviorRaises

(* The strengthened invariant of the results holds in every behaviour.     *)
LEMMA ResultsAlways == Spec => []ResultsInv
  <1>1. Init => ResultsInv
    BY DEF Init, ResultsInv, ResultMatchesTask, OneResultPerTask
  <1>2. TypeOK /\ ResultsInv /\ [Next]_vars => ResultsInv'
    BY ResultsInvStep
  <1>3. QED
    BY <1>1, <1>2, TypeCorrect, PTL DEF Spec

(* What execute() returned agrees with the scheduler for ever, whatever    *)
(* happened to the task while the behavior ran.                            *)
THEOREM ResultsAreTrue == Spec => []ResultMatchesTask
  <1>1. ResultsInv => ResultMatchesTask
    BY DEF ResultsInv
  <1>2. QED
    BY <1>1, ResultsAlways, PTL

(* However many calls execute a task at once, at most one gets a result.   *)
THEOREM ResultsAreUnique == Spec => []OneResultPerTask
  <1>1. ResultsInv => OneResultPerTask
    BY DEF ResultsInv
  <1>2. QED
    BY <1>1, ResultsAlways, PTL

-----------------------------------------------------------------------------
StatusOf(t) == IF t \in DOMAIN tasks THEN tasks[t].status ELSE "none"

(* The trail of one task, as TrailMatchesTasks has it.                     *)
TrailOf(t) ==
  /\ StatusOf(t) = "none" => trail[t]["requested"] = 0
  /\ StatusOf(t) = "queued" => trail[t]["requested"] = 1
  /\ StatusOf(t) \notin {"none", "queued"} => trail[t]["requested"] = 2
  /\ StatusOf(t) \in {"completed", "cancelled"} => trail[t]["completed"] = 1
  /\ StatusOf(t) \notin {"completed", "cancelled"} => trail[t]["completed"] = 0
  /\ StatusOf(t) = "failed" => trail[t]["failed"] > 0

(* The trail can be checked task by task.                                  *)
LEMMA TrailByTask == TrailMatchesTasks <=> \A t \in TaskIds : TrailOf(t)
  BY DEF TrailMatchesTasks, TrailOf, StatusOf

(* Every step keeps the trail of every task: what the scheduler does to a  *)
(* task and what it writes about it happen in one operation.               *)
LEMMA TrailStep ==
  ASSUME TypeOK, [Next]_vars, NEW i \in TaskIds, TrailOf(i)
  PROVE  TrailOf(i)'
  <1>1. CASE UNCHANGED tasks /\ UNCHANGED trail
    BY <1>1 DEF TrailOf, StatusOf
  <1>2. ASSUME NEW t, Audit(t, "failed"), UNCHANGED tasks
        PROVE  TrailOf(i)'
    <2>1. /\ trail'[i]["requested"] = trail[i]["requested"]
          /\ trail'[i]["completed"] = trail[i]["completed"]
          /\ trail'[i]["failed"] \in {trail[i]["failed"], trail[i]["failed"] + 1}
          /\ trail[i]["failed"] \in Nat
      BY <1>2 DEF Audit, TypeOK, AuditAction
    <2>2. StatusOf(i)' = StatusOf(i)
      BY <1>2 DEF StatusOf
    <2>3. QED
      BY <2>1, <2>2 DEF TrailOf
  <1>3. ASSUME NEW t \in TaskIds, NEW task \in AgentTask, Submit(t, task)
        PROVE  TrailOf(i)'
    BY <1>3 DEF Submit, Admissible, Audit, TrailOf, StatusOf, TypeOK, AuditAction
  <1>4. ASSUME NEW t \in TaskIds, Start(t)
        PROVE  TrailOf(i)'
    BY <1>4 DEF Start, Startable, Audit, TrailOf, StatusOf, TypeOK, AuditAction,
                AgentTask
  <1>5. ASSUME NEW t \in TaskIds, NEW s \in FinalStatus, Finish(t, s)
        PROVE  TrailOf(i)'
    BY <1>5 DEF Finish, Tasks, Audit, TrailOf, StatusOf, TypeOK, AuditAction,
                AgentTask, FinalStatus
  <1>6. QED
    BY <1>1, <1>2, <1>3, <1>4, <1>5, TaskSteps

(* The audit trail of every task matches what the scheduler did with it.   *)
THEOREM TrailIsFaithful == Spec => []TrailMatchesTasks
  <1>1. Init => TrailMatchesTasks
    BY TrailByTask DEF Init, SchedulerInit, TrailOf, StatusOf, AuditAction
  <1>2. TypeOK /\ TrailMatchesTasks /\ [Next]_vars => TrailMatchesTasks'
    <2> SUFFICES ASSUME TypeOK, TrailMatchesTasks, [Next]_vars,
                        NEW i \in TaskIds
                 PROVE  TrailOf(i)'
      BY DEF TrailMatchesTasks, TrailOf, StatusOf
    <2>1. QED
      BY TrailByTask, TrailStep
  <1>3. QED
    BY <1>1, <1>2, TypeCorrect, PTL DEF Spec

-----------------------------------------------------------------------------
(* The communication engine, which shares the registry with the scheduler. *)
CommunicationInv ==
  CommunicationTypeOK /\ DeliveredOnce /\ TrailBalanced

(* What one call adds to the records of its message.                       *)
LEMMA RecordsOfOne ==
  ASSUME CommunicationTypeOK, NEW m \in MessageIds, NEW first \in AuditAction
  PROVE  Audit1(m, first) =>
           /\ events' \in [MessageIds -> [AuditAction -> Nat]]
           /\ rows' \in [MessageIds -> AuditAction \cup {"none"}]
           /\ \A i \in MessageIds, a \in AuditAction :
                events'[i][a] = IF i = m /\ a = first THEN events[i][a] + 1 ELSE events[i][a]
  <1>. SUFFICES ASSUME Audit1(m, first)
                PROVE  /\ events' \in [MessageIds -> [AuditAction -> Nat]]
                       /\ rows' \in [MessageIds -> AuditAction \cup {"none"}]
                       /\ \A i \in MessageIds, a \in AuditAction :
                            events'[i][a] = IF i = m /\ a = first THEN events[i][a] + 1 ELSE events[i][a]
    OBVIOUS
  <1>1. events \in [MessageIds -> [AuditAction -> Nat]] /\ rows \in [MessageIds -> AuditAction \cup {"none"}]
    BY DEF CommunicationTypeOK, AuditAction
  <1>2. events' = [events EXCEPT ![m][first] = @ + 1]
    BY DEF Audit1
  <1>3. PICK row \in Insert(rows[m], first) : rows' = [rows EXCEPT ![m] = row]
    BY DEF Audit1
  <1>4. row \in AuditAction \cup {"none"}
    BY <1>1, <1>3 DEF Insert
  <1>5. QED
    BY <1>1, <1>2, <1>3, <1>4

LEMMA RecordsOfTwo ==
  ASSUME CommunicationTypeOK, NEW m \in MessageIds, NEW first \in AuditAction,
         NEW second \in AuditAction, first # second
  PROVE  Audit2(m, first, second) =>
           /\ events' \in [MessageIds -> [AuditAction -> Nat]]
           /\ rows' \in [MessageIds -> AuditAction \cup {"none"}]
           /\ \A i \in MessageIds, a \in AuditAction :
                events'[i][a] = IF i = m /\ a \in {first, second} THEN events[i][a] + 1 ELSE events[i][a]
  <1>. SUFFICES ASSUME Audit2(m, first, second)
                PROVE  /\ events' \in [MessageIds -> [AuditAction -> Nat]]
                       /\ rows' \in [MessageIds -> AuditAction \cup {"none"}]
                       /\ \A i \in MessageIds, a \in AuditAction :
                            events'[i][a] = IF i = m /\ a \in {first, second}
                                            THEN events[i][a] + 1 ELSE events[i][a]
    OBVIOUS
  <1>1. events \in [MessageIds -> [AuditAction -> Nat]] /\ rows \in [MessageIds -> AuditAction \cup {"none"}]
    BY DEF CommunicationTypeOK, AuditAction
  <1>2. events' = [events EXCEPT ![m][first] = @ + 1, ![m][second] = @ + 1]
    BY DEF Audit2
  <1>3. PICK row \in Insert(rows[m], first) :
          \E row2 \in Insert(row, second) : rows' = [rows EXCEPT ![m] = row2]
    BY DEF Audit2
  <1>4. row \in AuditAction \cup {"none"}
    BY <1>1, <1>3 DEF Insert
  <1>5. PICK row2 \in AuditAction \cup {"none"} : rows' = [rows EXCEPT ![m] = row2]
    BY <1>3, <1>4 DEF Insert
  <1>6. QED
    BY <1>1, <1>2, <1>5

(* Delivered and Rejected: what the engine's dictionary says of a message. *)
Delivered(m) == m \in DOMAIN messages /\ messages[m].status = "delivered"
Rejected(m) == m \in DOMAIN messages /\ messages[m].status = "rejected"

Balanced(m) ==
  /\ events[m]["completed"] = (IF Delivered(m) THEN 1 ELSE 0)
  /\ events[m]["requested"] + (IF Rejected(m) THEN 1 ELSE 0)
       = events[m]["completed"] + events[m]["failed"]

LEMMA ByMessage ==
  DeliveredOnce /\ TrailBalanced <=> \A m \in MessageIds : Balanced(m)
  BY DEF DeliveredOnce, TrailBalanced, Registered,
         Balanced, Delivered, Rejected

EachMessage ==
  (\A m \in MessageIds : Balanced(m)) => DeliveredOnce /\ TrailBalanced

LEMMA LaterByMessage == EachMessage'
  <1>1. EachMessage
    BY ByMessage DEF EachMessage
  <1>2. QED
    BY <1>1, PTL

LEMMA PutOne ==
  ASSUME CommunicationTypeOK, NEW m \in MessageIds, NEW message \in AgentMessage,
         Put(m, message)
  PROVE  /\ DOMAIN messages' \subseteq MessageIds
         /\ \A i \in DOMAIN messages' : messages'[i] \in AgentMessage
         /\ m \in DOMAIN messages' /\ messages'[m] = message
         /\ \A i \in MessageIds : i # m =>
              /\ i \in DOMAIN messages' <=> i \in DOMAIN messages
              /\ messages'[i] = messages[i] \/ i \notin DOMAIN messages
  <1>1. messages' = [i \in DOMAIN messages \cup {m} |-> IF i = m THEN message ELSE messages[i]]
    BY DEF Put, Registered
  <1>2. DOMAIN messages \subseteq MessageIds /\ \A i \in DOMAIN messages : messages[i] \in AgentMessage
    BY DEF CommunicationTypeOK, Registered
  <1>3. QED
    BY <1>1, <1>2

(* The types after a call that keeps the policy and the registry.          *)
LEMMA CommunicationTypes ==
  ASSUME CommunicationTypeOK, UNCHANGED <<policy, identity>>,
         DOMAIN messages' \subseteq MessageIds,
         \A i \in DOMAIN messages' : messages'[i] \in AgentMessage,
         events' \in [MessageIds -> [AuditAction -> Nat]],
         rows' \in [MessageIds -> AuditAction \cup {"none"}],
         requestedAs' \in [MessageIds -> SUBSET MessageStatus]
  PROVE  CommunicationTypeOK'
  BY DEF CommunicationTypeOK, Registered, LifecycleTypeOK,
         AuditAction

LEMMA TransmitStep ==
  ASSUME CommunicationInv, NEW m \in MessageIds, NEW message \in AgentMessage,
         ~Delivered(m), ~Rejected(m), Transmit(m, message), UNCHANGED identity
  PROVE  CommunicationInv'
  <1>1. CommunicationTypeOK /\ \A i \in MessageIds : Balanced(i)
    BY ByMessage DEF CommunicationInv
  <1>2. requestedAs' \in [MessageIds -> SUBSET MessageStatus] /\ UNCHANGED policy
    BY <1>1 DEF Transmit, CommunicationTypeOK, AgentMessage
  <1>3. events \in [MessageIds -> [AuditAction -> Nat]]
    BY <1>1 DEF CommunicationTypeOK, AuditAction
  <1>4. "requested" \in AuditAction /\ "completed" \in AuditAction /\ "failed" \in AuditAction
    BY DEF AuditAction
  <1>5. CASE /\ Put(m, [message EXCEPT !.status = "delivered"])
             /\ Audit2(m, "requested", "completed")
    <2>. DEFINE sent == [message EXCEPT !.status = "delivered"]
    <2>1. sent \in AgentMessage /\ sent.status = "delivered"
      BY DEF AgentMessage, MessageStatus
    <2>. HIDE DEF sent
    <2>2. /\ DOMAIN messages' \subseteq MessageIds
          /\ \A i \in DOMAIN messages' : messages'[i] \in AgentMessage
          /\ m \in DOMAIN messages' /\ messages'[m] = sent
          /\ \A i \in MessageIds : i # m =>
               /\ i \in DOMAIN messages' <=> i \in DOMAIN messages
               /\ messages'[i] = messages[i] \/ i \notin DOMAIN messages
      BY <1>1, <1>5, <2>1, PutOne DEF sent
    <2>3. /\ events' \in [MessageIds -> [AuditAction -> Nat]]
          /\ rows' \in [MessageIds -> AuditAction \cup {"none"}]
          /\ \A i \in MessageIds, a \in AuditAction :
               events'[i][a] = IF i = m /\ a \in {"requested", "completed"}
                               THEN events[i][a] + 1 ELSE events[i][a]
      BY <1>1, <1>4, <1>5, RecordsOfTwo
    <2>4. CommunicationTypeOK'
      BY <1>1, <1>2, <2>2, <2>3, CommunicationTypes
    <2>5. ASSUME NEW i \in MessageIds PROVE Balanced(i)'
      <3>1. Balanced(i)
        BY <1>1
      <3>2. CASE i = m
        <4>1. Delivered(i)' /\ ~Rejected(i)' /\ ~Delivered(i) /\ ~Rejected(i)
          BY <2>1, <2>2, <3>2 DEF Delivered, Rejected
        <4>2. /\ events'[i]["requested"] = events[i]["requested"] + 1
              /\ events'[i]["completed"] = events[i]["completed"] + 1
              /\ events'[i]["failed"] = events[i]["failed"]
          BY <1>4, <2>3, <3>2
        <4>3. /\ events[i]["requested"] \in Nat /\ events[i]["completed"] \in Nat
              /\ events[i]["failed"] \in Nat
          BY <1>3, <1>4
        <4>4. QED
          BY <3>1, <4>1, <4>2, <4>3 DEF Balanced
      <3>3. CASE i # m
        <4>1. (Delivered(i)' <=> Delivered(i)) /\ (Rejected(i)' <=> Rejected(i))
          BY <2>2, <3>3 DEF Delivered, Rejected
        <4>2. \A a \in AuditAction : events'[i][a] = events[i][a]
          BY <2>3, <3>3
        <4>3. QED
          BY <1>4, <3>1, <4>1, <4>2 DEF Balanced
      <3>4. QED
        BY <3>2, <3>3
    <2>6. QED
      BY <2>4, <2>5, LaterByMessage DEF CommunicationInv, EachMessage
  <1>6. CASE Audit2(m, "requested", "failed") /\ UNCHANGED messages
    <2>1. /\ events' \in [MessageIds -> [AuditAction -> Nat]]
          /\ rows' \in [MessageIds -> AuditAction \cup {"none"}]
          /\ \A i \in MessageIds, a \in AuditAction :
               events'[i][a] = IF i = m /\ a \in {"requested", "failed"}
                               THEN events[i][a] + 1 ELSE events[i][a]
      BY <1>1, <1>4, <1>6, RecordsOfTwo
    <2>2. CommunicationTypeOK'
      <3>1. /\ DOMAIN messages' \subseteq MessageIds
            /\ \A i \in DOMAIN messages' : messages'[i] \in AgentMessage
        BY <1>1, <1>6 DEF CommunicationTypeOK, Registered
      <3>2. QED
        BY <1>1, <1>2, <2>1, <3>1, CommunicationTypes
    <2>3. ASSUME NEW i \in MessageIds PROVE Balanced(i)'
      <3>1. Balanced(i) /\ (Delivered(i)' <=> Delivered(i)) /\ (Rejected(i)' <=> Rejected(i))
        BY <1>1, <1>6 DEF Delivered, Rejected
      <3>2. CASE i = m
        <4>1. /\ events'[i]["requested"] = events[i]["requested"] + 1
              /\ events'[i]["completed"] = events[i]["completed"]
              /\ events'[i]["failed"] = events[i]["failed"] + 1
          BY <1>4, <2>1, <3>2
        <4>2. /\ events[i]["requested"] \in Nat /\ events[i]["completed"] \in Nat
              /\ events[i]["failed"] \in Nat
          BY <1>3, <1>4
        <4>3. QED
          BY <3>1, <4>1, <4>2 DEF Balanced
      <3>3. CASE i # m
        <4>1. \A a \in AuditAction : events'[i][a] = events[i][a]
          BY <2>1, <3>3
        <4>2. QED
          BY <1>4, <3>1, <4>1 DEF Balanced
      <3>4. QED
        BY <3>2, <3>3
    <2>4. QED
      BY <2>2, <2>3, LaterByMessage DEF CommunicationInv, EachMessage
  <1>7. QED
    BY <1>5, <1>6 DEF Transmit

LEMMA CreateMessage ==
  ASSUME CommunicationInv, NEW m \in MessageIds, NEW message \in AgentMessage,
         Create(m, message), UNCHANGED identity
  PROVE  CommunicationInv'
  <1>1. CommunicationTypeOK /\ \A i \in MessageIds : Balanced(i)
    BY ByMessage DEF CommunicationInv
  <1>2. /\ m \notin DOMAIN messages /\ message.status = "created" /\ Put(m, message)
        /\ UNCHANGED <<policy, events, requestedAs, rows>>
    BY DEF Create, Registered
  <1>3. /\ DOMAIN messages' \subseteq MessageIds
        /\ \A i \in DOMAIN messages' : messages'[i] \in AgentMessage
        /\ m \in DOMAIN messages' /\ messages'[m] = message
        /\ \A i \in MessageIds : i # m =>
             /\ i \in DOMAIN messages' <=> i \in DOMAIN messages
             /\ messages'[i] = messages[i] \/ i \notin DOMAIN messages
    BY <1>1, <1>2, PutOne
  <1>4. CommunicationTypeOK'
    <2>1. /\ events \in [MessageIds -> [AuditAction -> Nat]]
          /\ rows \in [MessageIds -> AuditAction \cup {"none"}]
          /\ requestedAs \in [MessageIds -> SUBSET MessageStatus]
      BY <1>1 DEF CommunicationTypeOK, AuditAction
    <2>2. QED
      BY <1>1, <1>2, <1>3, <2>1, CommunicationTypes
  <1>5. ASSUME NEW i \in MessageIds PROVE Balanced(i)'
    <2>1. (Delivered(i)' <=> Delivered(i)) /\ (Rejected(i)' <=> Rejected(i))
      BY <1>2, <1>3 DEF Delivered, Rejected
    <2>2. QED
      BY <1>1, <1>2, <2>1 DEF Balanced
  <1>6. QED
    BY <1>4, <1>5, LaterByMessage DEF CommunicationInv, EachMessage

LEMMA RejectMessage ==
  ASSUME CommunicationInv, NEW m \in MessageIds, Reject(m), UNCHANGED identity
  PROVE  CommunicationInv'
  <1>. DEFINE message == [messages[m] EXCEPT !.status = "rejected"]
  <1>1. CommunicationTypeOK /\ \A i \in MessageIds : Balanced(i)
    BY ByMessage DEF CommunicationInv
  <1>2. /\ m \in DOMAIN messages /\ messages[m].status = "created" /\ Put(m, message)
        /\ Audit1(m, "failed") /\ UNCHANGED <<policy, requestedAs>>
    BY DEF Reject, Registered
  <1>3. message \in AgentMessage /\ message.status = "rejected"
    BY <1>1, <1>2 DEF CommunicationTypeOK, Registered, AgentMessage,
                      MessageStatus
  <1>. HIDE DEF message
  <1>4. "requested" \in AuditAction /\ "completed" \in AuditAction /\ "failed" \in AuditAction
    BY DEF AuditAction
  <1>5. /\ DOMAIN messages' \subseteq MessageIds
        /\ \A i \in DOMAIN messages' : messages'[i] \in AgentMessage
        /\ m \in DOMAIN messages' /\ messages'[m] = message
        /\ \A i \in MessageIds : i # m =>
             /\ i \in DOMAIN messages' <=> i \in DOMAIN messages
             /\ messages'[i] = messages[i] \/ i \notin DOMAIN messages
    BY <1>1, <1>2, <1>3, PutOne
  <1>6. /\ events' \in [MessageIds -> [AuditAction -> Nat]]
        /\ rows' \in [MessageIds -> AuditAction \cup {"none"}]
        /\ \A i \in MessageIds, a \in AuditAction :
             events'[i][a] = IF i = m /\ a = "failed" THEN events[i][a] + 1 ELSE events[i][a]
    BY <1>1, <1>2, <1>4, RecordsOfOne
  <1>7. /\ events \in [MessageIds -> [AuditAction -> Nat]]
        /\ requestedAs \in [MessageIds -> SUBSET MessageStatus]
    BY <1>1 DEF CommunicationTypeOK, AuditAction
  <1>8. CommunicationTypeOK'
    BY <1>1, <1>2, <1>5, <1>6, <1>7, CommunicationTypes
  <1>9. ASSUME NEW i \in MessageIds PROVE Balanced(i)'
    <2>1. Balanced(i)
      BY <1>1
    <2>2. CASE i = m
      <3>1. ~Delivered(i)' /\ Rejected(i)' /\ ~Delivered(i) /\ ~Rejected(i)
        BY <1>2, <1>3, <1>5, <2>2 DEF Delivered, Rejected
      <3>2. /\ events'[i]["requested"] = events[i]["requested"]
            /\ events'[i]["completed"] = events[i]["completed"]
            /\ events'[i]["failed"] = events[i]["failed"] + 1
        BY <1>4, <1>6, <2>2
      <3>3. /\ events[i]["requested"] \in Nat /\ events[i]["completed"] \in Nat
            /\ events[i]["failed"] \in Nat
        BY <1>4, <1>7
      <3>4. QED
        BY <2>1, <3>1, <3>2, <3>3 DEF Balanced
    <2>3. CASE i # m
      <3>1. (Delivered(i)' <=> Delivered(i)) /\ (Rejected(i)' <=> Rejected(i))
        BY <1>5, <2>3 DEF Delivered, Rejected
      <3>2. \A a \in AuditAction : events'[i][a] = events[i][a]
        BY <1>6, <2>3
      <3>3. QED
        BY <1>4, <2>1, <3>1, <3>2 DEF Balanced
    <2>4. QED
      BY <2>2, <2>3
  <1>10. QED
    BY <1>8, <1>9, LaterByMessage DEF CommunicationInv, EachMessage

LEMMA CommunicationSteps == CommunicationInv /\ [CommunicationNext]_(communicationVars) => CommunicationInv'
  <1>. SUFFICES ASSUME CommunicationInv, [CommunicationNext]_(communicationVars)
                PROVE  CommunicationInv'
    OBVIOUS
  <1>1. CASE LifecycleNext /\ UNCHANGED engineVars
    <2>1. UNCHANGED <<policy, messages, events, requestedAs, rows>>
      BY <1>1 DEF engineVars
    <2>2. LifecycleTypeOK /\ LifecycleNext
      BY <1>1 DEF CommunicationInv, CommunicationTypeOK,
         LifecycleTypeOK, LifecycleTypeOK, AgentStatus, AgentStatus,
         NotRegistered, NotRegistered,
         LifecycleNext, LifecycleNext, Register, Register,
         Transition, Transition, Startup, Startup,
         Suspend, Suspend, Resume, Resume,
         Shutdown, Shutdown, Transitions, Transitions
    <2>3. LifecycleTypeOK'
      BY <2>2, LifecycleStep
    <2>4. LifecycleTypeOK'
      BY <2>3 DEF LifecycleTypeOK, LifecycleTypeOK, AgentStatus, AgentStatus,
         NotRegistered, NotRegistered
    <2>5. QED
      BY <2>1, <2>4 DEF CommunicationInv, CommunicationTypeOK, Registered,
         DeliveredOnce, TrailBalanced
  <1>2. ASSUME NEW m \in MessageIds, NEW message \in AgentMessage,
               Create(m, message), UNCHANGED identity
        PROVE  CommunicationInv'
    BY <1>2, CreateMessage
  <1>3. ASSUME NEW m \in MessageIds, NEW message \in AgentMessage,
               SendObject(m, message), UNCHANGED identity
        PROVE  CommunicationInv'
    <2>1. ~Delivered(m) /\ ~Rejected(m) /\ Transmit(m, message)
      BY <1>3 DEF SendObject, Registered, Delivered, Rejected
    <2>2. QED
      BY <1>3, <2>1, TransmitStep
  <1>4. ASSUME NEW m \in MessageIds, SendRegistered(m), UNCHANGED identity
        PROVE  CommunicationInv'
    <2>1. /\ ~Delivered(m) /\ ~Rejected(m) /\ Transmit(m, messages[m])
          /\ m \in DOMAIN messages
      BY <1>4 DEF SendRegistered, Registered, Delivered, Rejected
    <2>2. messages[m] \in AgentMessage
      BY <2>1 DEF CommunicationInv, CommunicationTypeOK, Registered
    <2>3. QED
      BY <1>4, <2>1, <2>2, TransmitStep
  <1>5. ASSUME NEW m \in MessageIds, Reject(m), UNCHANGED identity
        PROVE  CommunicationInv'
    BY <1>5, RejectMessage
  <1>6. CASE UNCHANGED communicationVars
    BY <1>6 DEF communicationVars, CommunicationInv, CommunicationTypeOK, Registered,
       DeliveredOnce, TrailBalanced, LifecycleTypeOK
  <1>7. QED
    BY <1>1, <1>2, <1>3, <1>4, <1>5, <1>6 DEF CommunicationNext, CommunicationStep

LEMMA CommunicationInitially == CommunicationInit => CommunicationInv
  <1>. SUFFICES ASSUME CommunicationInit PROVE CommunicationInv
    OBVIOUS
  <1>1. messages = [m \in {} |-> {}] /\ DOMAIN messages = {}
    BY DEF CommunicationInit
  <1>2. CommunicationTypeOK
    BY <1>1 DEF CommunicationInit, CommunicationTypeOK, LifecycleInit,
       LifecycleTypeOK, Registered, AuditAction
  <1>3. \A m \in MessageIds : Balanced(m)
    BY <1>1 DEF CommunicationInit, AuditAction, Balanced, Delivered, Rejected
  <1>4. QED
    BY <1>2, <1>3, ByMessage DEF CommunicationInv

LEMMA CommunicationInvariant == CommunicationSpec => []CommunicationInv
  <1>1. QED
    BY CommunicationInitially, CommunicationSteps, PTL DEF CommunicationSpec

(* A message id is delivered at most once and exactly when the engine says *)
(* so, however send() is given its message, for any number of calls and    *)
(* any losses of the database sink.                                        *)
THEOREM NeverDeliveredTwice == CommunicationSpec => []DeliveredOnce
  <1>1. QED
    BY CommunicationInvariant, PTL DEF CommunicationInv

(* Every REQUESTED record of send() has its COMPLETED or FAILED one, and   *)
(* the only other FAILED record is that of reject().                       *)
THEOREM EverySendHasAnEnd == CommunicationSpec => []TrailBalanced
  <1>1. QED
    BY CommunicationInvariant, PTL DEF CommunicationInv
=============================================================================
