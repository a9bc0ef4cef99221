----------------------------- MODULE Deployment -----------------------------
(***************************************************************************)
(* DeploymentEngine.deploy (atlas_agent/deployment.py): back the target    *)
(* up, copy the artifact over it, validate the copy, and undo on failure.  *)
(*                                                                         *)
(* A call is a sequence of file operations, each a step here: any of them  *)
(* may raise, leaving a copy's destination untouched or torn, and so may   *)
(* the write to the audit log, after the entry is already in memory.  The  *)
(* first exception goes to the handler of deploy, one raised there         *)
(* escapes.  The process may die between two steps or in the midst of one. *)
(***************************************************************************)
EXTENDS Integers, Sequences, SequencesExt

CONSTANTS
  Paths,
  Good,              \* contents that parse
  Bad,               \* contents that do not
  Empty, Torn,       \* an empty file, and a copy that was cut off
  Absent,            \* no such file
  NoBackup           \* backup_path is None

ASSUME ContentsAssumption ==
  /\ Good \cap Bad = {}
  /\ {Empty, Torn, Absent, NoBackup} \cap (Good \cup Bad) = {}
  /\ Empty # Torn /\ Absent \notin {Empty, Torn} /\ NoBackup \notin {Empty, Torn}

VARIABLES
  disk,              \* the content of every path
  dep,               \* the call of deploy that is running, or the last one
  audit_logs         \* GovernanceEngine.audit_logs

deploymentVars == <<disk, dep, audit_logs>>

Contents == Good \cup Bad \cup {Empty, Torn}
Languages == {"python", "go", "rust", "other"}
ApprovalStatus ==
  {"pending", "approved", "rejected", "deployed", "deploy_failed", "rolled_back"}

AuditActions ==
  {"pipeline_start", "pipeline_failed", "pipeline_success", "pipeline_rejected",
   "human_approval", "human_rejection", "deployment_success", "deployment_failure",
   "deployment_failed", "deployment_complete"}

Running == {"backup", "install", "validate", "succeed", "rollback", "fail"}
Stages == Running \cup {"idle", "returned", "raised", "died"}

(* What a call of deploy holds: its arguments, backup_path as the content  *)
(* of that file, whether its exception handler was entered and the status  *)
(* of the record it returned.  before is what the target held at the call. *)
Deployment ==
  [stage: Stages, artifact: Paths, target: Paths, language: Languages,
   before: Contents \cup {Absent}, source: Contents \cup {Absent},
   backup: Contents \cup {NoBackup}, handling: BOOLEAN, status: ApprovalStatus]

DeploymentInit ==
  /\ disk \in [Paths -> Good \cup Bad \cup {Absent}]
  /\ audit_logs = <<>>
  /\ LET p == CHOOSE q \in Paths : TRUE
     IN  dep = [stage |-> "idle", artifact |-> p, target |-> p, language |-> "python",
                before |-> Absent, source |-> Absent, backup |-> NoBackup,
                handling |-> FALSE, status |-> "pending"]

-----------------------------------------------------------------------------
Reach(stage) == dep' = [dep EXCEPT !.stage = stage]

Raise ==
  dep' = IF dep.handling THEN [dep EXCEPT !.stage = "raised"]
         ELSE [dep EXCEPT !.stage = "rollback", !.handling = TRUE]

LogAudit(action, status) ==
  audit_logs' = Append(audit_logs, [action |-> action, status |-> status])

(* shutil.copy2 of content c to the target, and what it may leave there    *)
(* when it fails.                                                          *)
Copied(c) == disk' = [disk EXCEPT ![dep.target] = c]
CopyCutOff == \/ UNCHANGED disk
              \/ Copied(Torn)

Deploy(artifact, target, language) ==
  /\ dep.stage \notin Running
  /\ dep' = [stage |-> IF disk[artifact] = Absent THEN "fail"
                       ELSE IF disk[target] # Absent THEN "backup" ELSE "install",
             artifact |-> artifact, target |-> target, language |-> language,
             before |-> disk[target], source |-> disk[artifact],
             backup |-> NoBackup, handling |-> FALSE, status |-> "pending"]
  /\ UNCHANGED <<disk, audit_logs>>

CreateBackup_SlipAfter ==
  /\ dep.stage = "backup"
  /\ Copied(disk[dep.artifact])
  /\ dep' = [dep EXCEPT !.stage = "install", !.backup = disk'[dep.target]]
  /\ UNCHANGED audit_logs

CreateBackup ==
  /\ dep.stage = "backup"
  /\ \/ dep' = [dep EXCEPT !.stage = "install", !.backup = disk[dep.target]]
     \/ Raise
  /\ UNCHANGED <<disk, audit_logs>>

Install ==
  /\ dep.stage = "install"
  /\ \/ /\ IF dep.artifact = dep.target THEN UNCHANGED disk
                                        ELSE Copied(disk[dep.artifact])
        /\ Reach("validate")
     \/ /\ IF dep.artifact = dep.target THEN UNCHANGED disk ELSE CopyCutOff
        /\ Raise
  /\ UNCHANGED audit_logs

(* The results _validate_deployment may come to.  A file that cannot be    *)
(* read, or its size, counts as one that is not valid.                     *)
Judgements(c, language) ==
  CASE c = Absent -> {FALSE}
    [] language = "other" -> {TRUE}
    [] c = Torn -> BOOLEAN
    [] language = "python" -> {FALSE, c \notin Bad}
    [] OTHER -> {FALSE, c # Empty}

ValidateDeployment ==
  /\ dep.stage = "validate"
  /\ \E valid \in Judgements(disk[dep.target], dep.language) :
       Reach(IF valid THEN "succeed" ELSE "rollback")
  /\ UNCHANGED <<disk, audit_logs>>

Rollback_SlipOnlyBackup ==
  /\ dep.stage = "rollback"
  /\ IF dep.backup # NoBackup THEN Copied(dep.backup) ELSE UNCHANGED disk
  /\ Reach("fail")
  /\ UNCHANGED audit_logs

Rollback ==
  /\ dep.stage = "rollback"
  /\ \/ /\ Copied(IF dep.backup # NoBackup THEN dep.backup ELSE Absent)
        /\ Reach("fail")
     \/ /\ IF dep.backup # NoBackup THEN CopyCutOff ELSE UNCHANGED disk
        /\ Raise
  /\ UNCHANGED audit_logs

(* Both ends of a call write the audit entry of the record they return.    *)
EndWith(action, status) ==
  /\ LogAudit(action, status)
  /\ \/ dep' = [dep EXCEPT !.stage = "returned", !.status = status]
     \/ Raise
  /\ UNCHANGED disk

RecordFailure_SlipOnce ==
  /\ dep.stage = "fail"
  /\ LET status == IF dep.backup # NoBackup THEN "rolled_back" ELSE "deploy_failed"
     IN IF dep.handling
          THEN /\ dep' = [dep EXCEPT !.stage = "returned", !.status = status]
               /\ UNCHANGED <<disk, audit_logs>>
          ELSE EndWith("deployment_failure", status)

RecordFailure ==
  /\ dep.stage = "fail"
  /\ EndWith("deployment_failure",
             IF dep.backup # NoBackup THEN "rolled_back" ELSE "deploy_failed")

Succeed ==
  /\ dep.stage = "succeed"
  /\ EndWith("deployment_success", "deployed")

(* The process dies: the trail in memory is gone, the files stay.          *)
Died ==
  /\ dep.stage \in Running
  /\ Reach("died")
  /\ \/ UNCHANGED disk
     \/ /\ \/ dep.stage = "install" /\ dep.artifact # dep.target
           \/ dep.stage = "rollback" /\ dep.backup # NoBackup
        /\ Copied(Torn)
  /\ audit_logs' = <<>>

DeploymentStep ==
  \/ CreateBackup
  \/ Install
  \/ ValidateDeployment
  \/ Rollback
  \/ RecordFailure
  \/ Succeed

(* Between two calls others write and replace files.                       *)
AuthorWrites(p, c) ==
  /\ dep.stage \notin Running
  /\ disk' = [disk EXCEPT ![p] = c]
  /\ Reach("idle")
  /\ UNCHANGED audit_logs

DeploymentNext ==
  \/ \E artifact, target \in Paths, language \in Languages :
       Deploy(artifact, target, language)
  \/ DeploymentStep
  \/ Died
  \/ \E p \in Paths, c \in Contents \ {Torn} : AuthorWrites(p, c)

(* The engine on its own, called again and again.                          *)
DeploymentSpec == DeploymentInit /\ [][DeploymentNext]_deploymentVars

-----------------------------------------------------------------------------
(* The types of all variables: a path holds a content or nothing, never    *)
(* the None that stands for a missing backup.                              *)
DeploymentTypeOK ==
  /\ disk \in [Paths -> Contents \cup {Absent}]
  /\ dep \in Deployment
  /\ audit_logs \in Seq([action: AuditActions, status: ApprovalStatus])

(* What the record deploy returns says is what the target holds: deployed, *)
(* the artifact, and it validates; rolled back, what it held before; and a *)
(* failed deployment to a path that was free leaves it free.  Any of the   *)
(* steps may have raised on the way.                                       *)
RecordIsTrue ==
  dep.stage = "returned" =>
    /\ dep.status = "deployed" =>
         disk[dep.target] = dep.source /\ TRUE \in Judgements(dep.source, dep.language)
    /\ dep.status = "rolled_back" => disk[dep.target] = dep.before
    /\ dep.before = Absent /\ dep.status = "deploy_failed" => disk[dep.target] = Absent

(* The target is overwritten only once what it held is in a backup, so     *)
(* that the previous version can be recovered wherever the call stops.     *)
OverwrittenIsBackedUp ==
  dep.stage # "idle" /\ disk[dep.target] \notin {dep.before, Absent} /\ dep.before # Absent
    => dep.backup = dep.before

(* The last audit entry is that of the record returned, also when an       *)
(* earlier entry of the same call reported a success that was then undone. *)
LastEntryIsTheRecord ==
  dep.stage = "returned" => audit_logs # <<>> /\ Last(audit_logs).status = dep.status

(* What the comment in _rollback takes for granted, "No backup means file  *)
(* didn't exist before": a target that was there is not removed.           *)
OldVersionSurvives ==
  dep.stage = "returned" /\ dep.before # Absent => disk[dep.target] # Absent
=============================================================================
