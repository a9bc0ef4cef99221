----------------------- MODULE CodegenPipeline_proofs -----------------------
(***************************************************************************)
(* Proofs about the deployment engine and the code generation pipeline,    *)
(* for any paths, contents, project, language, settings and bounds.        *)
(***************************************************************************)
EXTENDS CodegenPipeline, SequenceTheorems, TLAPS

-----------------------------------------------------------------------------
(* The deployment engine on its own.  What a call of deploy knows at each  *)
(* of its stages; a stage is left towards the handler from many places, so *)
(* of "rollback" only OverwrittenIsBackedUp is known.                      *)
BackupIsBefore == dep.backup # NoBackup => dep.backup = dep.before

AtStage ==
  /\ dep.stage \in {"backup", "install"} =>
       disk[dep.target] = dep.before /\ disk[dep.artifact] = dep.source
  /\ dep.stage \in {"backup", "install", "validate", "succeed"} => dep.source # Absent
  /\ dep.stage = "backup" => dep.before # Absent
  /\ dep.stage \in {"install", "validate", "succeed"} /\ dep.before # Absent =>
       dep.backup = dep.before
  /\ dep.stage \in {"validate", "succeed"} => disk[dep.target] = dep.source
  /\ dep.stage = "succeed" => TRUE \in Judgements(dep.source, dep.language)
  /\ dep.stage = "fail" =>
       /\ dep.backup # NoBackup => disk[dep.target] = dep.before
       /\ dep.before = Absent => disk[dep.target] = Absent

DeploymentInv ==
  /\ DeploymentTypeOK
  /\ BackupIsBefore
  /\ AtStage
  /\ RecordIsTrue
  /\ OverwrittenIsBackedUp
  /\ LastEntryIsTheRecord

(* The handler is entered, or the exception escapes; nothing else changes. *)
LEMMA RaiseMoves ==
  ASSUME dep \in Deployment, Raise
  PROVE  /\ dep' \in Deployment
         /\ dep'.stage \in {"raised", "rollback"}
         /\ dep'.target = dep.target /\ dep'.before = dep.before /\ dep'.backup = dep.backup
  <1>1. dep.handling \in BOOLEAN
    BY DEF Deployment
  <1>2. CASE dep.handling = TRUE
    BY <1>2 DEF Raise, Deployment, Stages, Running
  <1>3. CASE dep.handling = FALSE
    BY <1>3 DEF Raise, Deployment, Stages, Running
  <1>4. QED
    BY <1>1, <1>2, <1>3

LEMMA ReachMoves ==
  ASSUME dep \in Deployment, NEW s \in Stages, Reach(s)
  PROVE  /\ dep' \in Deployment
         /\ dep'.stage = s
         /\ dep'.target = dep.target /\ dep'.before = dep.before /\ dep'.backup = dep.backup
         /\ dep'.artifact = dep.artifact /\ dep'.source = dep.source
         /\ dep'.language = dep.language /\ dep'.status = dep.status
  BY DEF Reach, Deployment

LEMMA CopyMoves ==
  ASSUME DeploymentTypeOK, NEW c \in Contents \cup {Absent}, Copied(c)
  PROVE  /\ disk' \in [Paths -> Contents \cup {Absent}]
         /\ disk'[dep.target] = c
  BY DEF Copied, Deployment, DeploymentTypeOK

(* A step into the handler keeps the invariant when the target still holds *)
(* what it held, or there is a backup, or there was nothing before.        *)
LEMMA HandlerPreserves ==
  ASSUME DeploymentInv, Raise, audit_logs' \in Seq([action: AuditActions, status: ApprovalStatus]),
         disk' \in [Paths -> Contents \cup {Absent}],
         \/ disk'[dep.target] \in {disk[dep.target], dep.before, Absent}
         \/ dep.before # Absent => dep.backup = dep.before,
         dep.stage # "idle"
  PROVE  DeploymentInv'
  <1>1. dep \in Deployment
    BY DEF DeploymentInv, DeploymentTypeOK
  <1>2. DeploymentTypeOK' /\ BackupIsBefore'
    BY <1>1, RaiseMoves DEF DeploymentInv, DeploymentTypeOK, BackupIsBefore
  <1>3. AtStage' /\ RecordIsTrue' /\ LastEntryIsTheRecord'
    BY <1>1, RaiseMoves DEF AtStage, RecordIsTrue, LastEntryIsTheRecord
  <1>4. OverwrittenIsBackedUp'
    BY <1>1, RaiseMoves DEF DeploymentInv, OverwrittenIsBackedUp
  <1>5. QED
    BY <1>2, <1>3, <1>4 DEF DeploymentInv

(* A step that keeps the target's content and goes on to another stage.    *)
LEMMA StagePreserves ==
  ASSUME DeploymentInv, DeploymentTypeOK', BackupIsBefore', AtStage',
         dep'.target = dep.target, dep'.before = dep.before, dep'.backup = dep.backup,
         dep.stage # "idle", dep'.stage # "returned", UNCHANGED disk
  PROVE  DeploymentInv'
  BY DEF DeploymentInv, OverwrittenIsBackedUp, RecordIsTrue, LastEntryIsTheRecord

LEMMA CreateBackupPreserves == DeploymentInv /\ CreateBackup => DeploymentInv'
  <1>. SUFFICES ASSUME DeploymentInv, CreateBackup PROVE DeploymentInv'
    OBVIOUS
  <1>1. DeploymentTypeOK /\ dep \in Deployment /\ dep.stage = "backup" /\ UNCHANGED <<disk, audit_logs>>
    BY DEF DeploymentInv, DeploymentTypeOK, CreateBackup
  <1>2. CASE Raise
    BY <1>1, <1>2, HandlerPreserves DEF DeploymentTypeOK
  <1>3. CASE dep' = [dep EXCEPT !.stage = "install", !.backup = disk[dep.target]]
    <2>1. disk[dep.target] = dep.before /\ dep.before # Absent /\ dep.before \in Contents
      BY <1>1 DEF DeploymentInv, AtStage, Deployment
    <2>2. dep' \in Deployment
      BY <1>1, <1>3, <2>1 DEF Deployment, Stages, Running
    <2>3. /\ dep'.stage = "install" /\ dep'.backup = dep.before /\ dep'.before = dep.before
          /\ dep'.target = dep.target /\ dep'.artifact = dep.artifact /\ dep'.source = dep.source
      BY <1>1, <1>3, <2>1 DEF Deployment
    <2>4. DeploymentTypeOK' /\ BackupIsBefore'
      BY <1>1, <2>2, <2>3 DEF DeploymentTypeOK, BackupIsBefore
    <2>5. AtStage'
      BY <1>1, <2>1, <2>3 DEF DeploymentInv, AtStage
    <2>6. QED
      BY <1>1, <2>3, <2>4, <2>5
      DEF DeploymentInv, OverwrittenIsBackedUp, RecordIsTrue, LastEntryIsTheRecord
  <1>4. QED
    BY <1>2, <1>3 DEF CreateBackup

LEMMA InstallPreserves == DeploymentInv /\ Install => DeploymentInv'
  <1>. SUFFICES ASSUME DeploymentInv, Install PROVE DeploymentInv'
    OBVIOUS
  <1>1. DeploymentTypeOK /\ dep \in Deployment /\ dep.stage = "install" /\ UNCHANGED audit_logs
    BY DEF DeploymentInv, DeploymentTypeOK, Install
  <1>2. /\ disk[dep.target] = dep.before /\ disk[dep.artifact] = dep.source /\ dep.source # Absent
        /\ dep.before # Absent => dep.backup = dep.before
        /\ dep.source \in Contents /\ dep.target \in Paths /\ Torn \in Contents
        /\ disk \in [Paths -> Contents \cup {Absent}]
    BY <1>1 DEF DeploymentInv, AtStage, Deployment, DeploymentTypeOK, Contents
  <1>3. CASE /\ IF dep.artifact = dep.target THEN UNCHANGED disk ELSE CopyCutOff
             /\ Raise
    <2>1. disk' \in [Paths -> Contents \cup {Absent}]
      BY <1>1, <1>2, <1>3, CopyMoves DEF CopyCutOff
    <2>2. QED
      BY <1>1, <1>2, <1>3, <2>1, HandlerPreserves DEF DeploymentTypeOK
  <1>4. CASE /\ IF dep.artifact = dep.target THEN UNCHANGED disk ELSE Copied(disk[dep.artifact])
             /\ Reach("validate")
    <2>1. disk' \in [Paths -> Contents \cup {Absent}] /\ disk'[dep.target] = dep.source
      BY <1>1, <1>2, <1>4, CopyMoves
    <2>2. /\ dep' \in Deployment /\ dep'.stage = "validate"
          /\ dep'.target = dep.target /\ dep'.before = dep.before /\ dep'.backup = dep.backup
          /\ dep'.source = dep.source
      BY <1>1, <1>4, ReachMoves DEF Stages, Running
    <2>3. DeploymentTypeOK' /\ BackupIsBefore' /\ AtStage'
      BY <1>1, <1>2, <2>1, <2>2 DEF DeploymentInv, DeploymentTypeOK, BackupIsBefore, AtStage
    <2>4. QED
      BY <1>2, <2>1, <2>2, <2>3
      DEF DeploymentInv, OverwrittenIsBackedUp, RecordIsTrue, LastEntryIsTheRecord
  <1>5. QED
    BY <1>3, <1>4 DEF Install

LEMMA ValidateDeploymentPreserves == DeploymentInv /\ ValidateDeployment => DeploymentInv'
  <1>. SUFFICES ASSUME DeploymentInv, ValidateDeployment PROVE DeploymentInv'
    OBVIOUS
  <1>1. /\ DeploymentTypeOK /\ dep \in Deployment /\ dep.stage = "validate"
        /\ UNCHANGED <<disk, audit_logs>>
    BY DEF DeploymentInv, DeploymentTypeOK, ValidateDeployment
  <1>2. disk[dep.target] = dep.source /\ dep.source # Absent
    BY <1>1 DEF DeploymentInv, AtStage
  <1>3. PICK valid \in Judgements(dep.source, dep.language) :
               Reach(IF valid THEN "succeed" ELSE "rollback")
    BY <1>2 DEF ValidateDeployment
  <1>4. valid \in BOOLEAN
    BY <1>3, <1>2 DEF Judgements
  <1>5. CASE valid = TRUE
    <2>1. Reach("succeed")
      BY <1>3, <1>5
    <2>2. /\ dep' \in Deployment /\ dep'.stage = "succeed"
          /\ dep'.target = dep.target /\ dep'.before = dep.before /\ dep'.backup = dep.backup
          /\ dep'.source = dep.source /\ dep'.language = dep.language
      BY <1>1, <2>1, ReachMoves DEF Stages, Running
    <2>3. TRUE \in Judgements(dep'.source, dep'.language)
      BY <1>3, <1>5, <2>2
    <2>4. DeploymentTypeOK' /\ BackupIsBefore' /\ AtStage'
      BY <1>1, <1>2, <2>2, <2>3 DEF DeploymentInv, DeploymentTypeOK, BackupIsBefore, AtStage
    <2>5. QED
      BY <1>1, <2>2, <2>4, StagePreserves
  <1>6. CASE valid = FALSE
    <2>1. Reach("rollback")
      BY <1>3, <1>6
    <2>2. /\ dep' \in Deployment /\ dep'.stage = "rollback"
          /\ dep'.target = dep.target /\ dep'.before = dep.before /\ dep'.backup = dep.backup
      BY <1>1, <2>1, ReachMoves DEF Stages, Running
    <2>3. DeploymentTypeOK' /\ BackupIsBefore' /\ AtStage'
      BY <1>1, <2>2 DEF DeploymentInv, DeploymentTypeOK, BackupIsBefore, AtStage
    <2>4. QED
      BY <1>1, <2>2, <2>3, StagePreserves
  <1>7. QED
    BY <1>4, <1>5, <1>6

LEMMA RollbackPreserves == DeploymentInv /\ Rollback => DeploymentInv'
  <1>. SUFFICES ASSUME DeploymentInv, Rollback PROVE DeploymentInv'
    OBVIOUS
  <1>1. /\ DeploymentTypeOK /\ dep \in Deployment /\ dep.stage = "rollback" /\ UNCHANGED audit_logs
        /\ disk \in [Paths -> Contents \cup {Absent}] /\ Torn \in Contents
        /\ dep.backup # NoBackup => dep.backup = dep.before /\ dep.backup \in Contents
        /\ dep.target \in Paths
    BY DEF DeploymentInv, DeploymentTypeOK, Rollback, BackupIsBefore, Deployment, Contents
  <1>2. CASE /\ IF dep.backup # NoBackup THEN CopyCutOff ELSE UNCHANGED disk
             /\ Raise
    <2>1. disk' \in [Paths -> Contents \cup {Absent}]
      BY <1>1, <1>2, CopyMoves DEF CopyCutOff
    <2>2. QED
      BY <1>1, <1>2, <2>1, HandlerPreserves DEF DeploymentTypeOK
  <1>3. CASE /\ Copied(IF dep.backup # NoBackup THEN dep.backup ELSE Absent)
             /\ Reach("fail")
    <2>1. /\ disk' \in [Paths -> Contents \cup {Absent}]
          /\ dep.backup # NoBackup => disk'[dep.target] = dep.before
          /\ dep.backup = NoBackup => disk'[dep.target] = Absent
      BY <1>1, <1>3, CopyMoves
    <2>2. /\ dep' \in Deployment /\ dep'.stage = "fail"
          /\ dep'.target = dep.target /\ dep'.before = dep.before /\ dep'.backup = dep.backup
      BY <1>1, <1>3, ReachMoves DEF Stages, Running
    <2>3. DeploymentTypeOK' /\ BackupIsBefore' /\ AtStage'
      BY <1>1, <2>1, <2>2 DEF DeploymentTypeOK, BackupIsBefore, AtStage
    <2>4. QED
      BY <2>1, <2>2, <2>3
      DEF DeploymentInv, OverwrittenIsBackedUp, RecordIsTrue, LastEntryIsTheRecord
  <1>4. QED
    BY <1>2, <1>3 DEF Rollback

(* Both ends: the record is returned, or the write of its entry raises.    *)
LEMMA EndPreserves ==
  ASSUME DeploymentInv, NEW action \in AuditActions, NEW status \in ApprovalStatus,
         EndWith(action, status), dep.stage \in {"succeed", "fail"},
         status = "deployed" => dep.stage = "succeed",
         status = "rolled_back" => disk[dep.target] = dep.before,
         status = "deploy_failed" => dep.stage = "fail"
  PROVE  DeploymentInv'
  <1>1. /\ DeploymentTypeOK /\ dep \in Deployment /\ UNCHANGED disk
        /\ audit_logs \in Seq([action: AuditActions, status: ApprovalStatus])
    BY DEF DeploymentInv, DeploymentTypeOK, EndWith
  <1>. DEFINE entry == [action |-> action, status |-> status]
  <1>2. /\ audit_logs' \in Seq([action: AuditActions, status: ApprovalStatus])
        /\ audit_logs' # <<>> /\ Last(audit_logs').status = status
    <2>1. audit_logs' = Append(audit_logs, entry) /\ entry \in [action: AuditActions, status: ApprovalStatus]
      BY DEF EndWith, LogAudit
    <2>2. entry.status = status
      OBVIOUS
    <2>. HIDE DEF entry
    <2>3. QED
      BY <1>1, <2>1, <2>2 DEF Last
  <1>3. CASE Raise
    BY <1>1, <1>2, <1>3, HandlerPreserves DEF DeploymentTypeOK
  <1>4. CASE dep' = [dep EXCEPT !.stage = "returned", !.status = status]
    <2>1. /\ dep' \in Deployment /\ dep'.stage = "returned" /\ dep'.status = status
          /\ dep'.target = dep.target /\ dep'.before = dep.before /\ dep'.backup = dep.backup
          /\ dep'.source = dep.source /\ dep'.language = dep.language
      BY <1>1, <1>4 DEF Deployment, Stages
    <2>2. DeploymentTypeOK' /\ BackupIsBefore' /\ AtStage' /\ OverwrittenIsBackedUp'
      BY <1>1, <1>2, <2>1
      DEF DeploymentInv, DeploymentTypeOK, BackupIsBefore, AtStage, OverwrittenIsBackedUp
    <2>3. RecordIsTrue'
      BY <1>1, <2>1 DEF DeploymentInv, AtStage, RecordIsTrue
    <2>4. QED
      BY <1>2, <2>1, <2>2, <2>3 DEF DeploymentInv, LastEntryIsTheRecord
  <1>5. QED
    BY <1>3, <1>4 DEF EndWith

LEMMA StepPreserves == DeploymentInv /\ DeploymentStep => DeploymentInv'
  <1>. SUFFICES ASSUME DeploymentInv, DeploymentStep PROVE DeploymentInv'
    OBVIOUS
  <1>1. CASE RecordFailure
    <2>. DEFINE status == IF dep.backup # NoBackup THEN "rolled_back" ELSE "deploy_failed"
    <2>1. dep.stage = "fail" /\ EndWith("deployment_failure", status)
      BY <1>1 DEF RecordFailure
    <2>2. status \in ApprovalStatus /\ "deployment_failure" \in AuditActions
      BY DEF ApprovalStatus, AuditActions
    <2>3. /\ status # "deployed"
          /\ status = "rolled_back" => disk[dep.target] = dep.before
      BY <2>1 DEF DeploymentInv, AtStage
    <2>. HIDE DEF status
    <2>4. QED
      BY <2>1, <2>2, <2>3, EndPreserves
  <1>2. CASE Succeed
    BY <1>2, EndPreserves DEF Succeed, ApprovalStatus, AuditActions
  <1>3. QED
    BY <1>1, <1>2, CreateBackupPreserves, InstallPreserves, ValidateDeploymentPreserves,
       RollbackPreserves DEF DeploymentStep

LEMMA DeployPreserves ==
  ASSUME DeploymentInv, NEW artifact \in Paths, NEW target \in Paths, NEW language \in Languages,
         Deploy(artifact, target, language)
  PROVE  DeploymentInv'
  <1>1. /\ disk \in [Paths -> Contents \cup {Absent}] /\ UNCHANGED <<disk, audit_logs>>
        /\ audit_logs \in Seq([action: AuditActions, status: ApprovalStatus])
    BY DEF DeploymentInv, DeploymentTypeOK, Deploy
  <1>2. /\ dep'.artifact = artifact /\ dep'.target = target /\ dep'.language = language
        /\ dep'.before = disk[target] /\ dep'.source = disk[artifact] /\ dep'.backup = NoBackup
        /\ dep'.stage = IF disk[artifact] = Absent THEN "fail"
                        ELSE IF disk[target] # Absent THEN "backup" ELSE "install"
        /\ dep' \in Deployment
    BY <1>1 DEF Deploy, Deployment, Stages, Running, ApprovalStatus
  <1>3. DeploymentTypeOK' /\ BackupIsBefore'
    BY <1>1, <1>2 DEF DeploymentTypeOK, BackupIsBefore
  <1>4. AtStage'
    BY <1>1, <1>2 DEF AtStage
  <1>5. QED
    BY <1>1, <1>2, <1>3, <1>4
    DEF DeploymentInv, OverwrittenIsBackedUp, RecordIsTrue, LastEntryIsTheRecord

LEMMA DiedPreserves == DeploymentInv /\ Died => DeploymentInv'
  <1>. SUFFICES ASSUME DeploymentInv, Died PROVE DeploymentInv'
    OBVIOUS
  <1>1. /\ DeploymentTypeOK /\ dep \in Deployment /\ dep.stage \in Running /\ audit_logs' = <<>>
        /\ disk \in [Paths -> Contents \cup {Absent}] /\ Torn \in Contents
    BY DEF DeploymentInv, DeploymentTypeOK, Died, Contents
  <1>2. /\ dep' \in Deployment /\ dep'.stage = "died"
        /\ dep'.target = dep.target /\ dep'.before = dep.before /\ dep'.backup = dep.backup
    BY <1>1, ReachMoves DEF Died, Stages
  <1>3. disk' \in [Paths -> Contents \cup {Absent}]
    BY <1>1, CopyMoves DEF Died
  <1>4. OverwrittenIsBackedUp'
    <2>1. CASE UNCHANGED disk
      BY <1>1, <1>2, <2>1 DEF DeploymentInv, OverwrittenIsBackedUp, Running
    <2>2. CASE dep.stage = "install"
      BY <1>2, <2>2 DEF DeploymentInv, AtStage, OverwrittenIsBackedUp
    <2>3. CASE dep.backup # NoBackup
      BY <1>2, <2>3 DEF DeploymentInv, BackupIsBefore, OverwrittenIsBackedUp
    <2>4. QED
      BY <2>1, <2>2, <2>3 DEF Died
  <1>5. QED
    BY <1>1, <1>2, <1>3, <1>4
    DEF DeploymentInv, DeploymentTypeOK, BackupIsBefore, AtStage, RecordIsTrue, LastEntryIsTheRecord

LEMMA AuthorPreserves ==
  ASSUME DeploymentInv, NEW p \in Paths, NEW c \in Contents, AuthorWrites(p, c)
  PROVE  DeploymentInv'
  <1>1. /\ dep \in Deployment /\ disk \in [Paths -> Contents \cup {Absent}] /\ UNCHANGED audit_logs
        /\ disk' = [disk EXCEPT ![p] = c]
    BY DEF DeploymentInv, DeploymentTypeOK, AuthorWrites
  <1>2. /\ dep' \in Deployment /\ dep'.stage = "idle"
        /\ dep'.before = dep.before /\ dep'.backup = dep.backup
    BY <1>1, ReachMoves DEF AuthorWrites, Stages
  <1>3. QED
    BY <1>1, <1>2
    DEF DeploymentInv, DeploymentTypeOK, BackupIsBefore, AtStage, RecordIsTrue,
        OverwrittenIsBackedUp, LastEntryIsTheRecord

LEMMA InitDeployment == DeploymentInit => DeploymentInv
  <1>. SUFFICES ASSUME DeploymentInit PROVE DeploymentInv
    OBVIOUS
  <1>. DEFINE p == CHOOSE q \in Paths : TRUE
  <1>1. p \in Paths
    BY ModulesAssumption
  <1>2. dep = [stage |-> "idle", artifact |-> p, target |-> p, language |-> "python",
               before |-> Absent, source |-> Absent, backup |-> NoBackup,
               handling |-> FALSE, status |-> "pending"]
    BY DEF DeploymentInit
  <1>. HIDE DEF p
  <1>3. dep \in Deployment /\ dep.stage = "idle" /\ dep.backup = NoBackup
    BY <1>1, <1>2 DEF Deployment, Stages, Running, Languages, ApprovalStatus
  <1>4. disk \in [Paths -> Contents \cup {Absent}] /\ audit_logs = <<>>
    BY DEF DeploymentInit, Contents
  <1>5. QED
    BY <1>3, <1>4
    DEF DeploymentInv, DeploymentTypeOK, BackupIsBefore, AtStage, RecordIsTrue,
        OverwrittenIsBackedUp, LastEntryIsTheRecord

LEMMA DeploymentInvariance == DeploymentSpec => []DeploymentInv
  <1>1. DeploymentInv /\ [DeploymentNext]_deploymentVars => DeploymentInv'
    <2>. SUFFICES ASSUME DeploymentInv, [DeploymentNext]_deploymentVars PROVE DeploymentInv'
      OBVIOUS
    <2>1. CASE UNCHANGED deploymentVars
      BY <2>1 DEF deploymentVars, DeploymentInv, DeploymentTypeOK, BackupIsBefore, AtStage,
                  RecordIsTrue, OverwrittenIsBackedUp, LastEntryIsTheRecord
    <2>2. CASE \E artifact, target \in Paths, language \in Languages :
                 Deploy(artifact, target, language)
      BY <2>2, DeployPreserves
    <2>3. CASE \E p \in Paths, c \in Contents \ {Torn} : AuthorWrites(p, c)
      BY <2>3, AuthorPreserves
    <2>4. QED
      BY <2>1, <2>2, <2>3, StepPreserves, DiedPreserves DEF DeploymentNext
  <1>2. QED
    BY <1>1, InitDeployment, PTL DEF DeploymentSpec

(* Whatever raises and wherever, the record deploy returns is true of the  *)
(* target: for any paths, contents and number of calls.                    *)
THEOREM RecordCorrect == DeploymentSpec => []RecordIsTrue
  <1>1. DeploymentInv => RecordIsTrue
    BY DEF DeploymentInv
  <1>2. QED
    BY <1>1, DeploymentInvariance, PTL

(* The target is overwritten only once its old content is backed up, at    *)
(* every point where the call may raise or the process die.                *)
THEOREM BackedUpFirst == DeploymentSpec => []OverwrittenIsBackedUp
  <1>1. DeploymentInv => OverwrittenIsBackedUp
    BY DEF DeploymentInv
  <1>2. QED
    BY <1>1, DeploymentInvariance, PTL

(* The last audit entry is that of the record returned, also after one     *)
(* that reported a success and was undone.                                 *)
THEOREM TrailEndsWithRecord == DeploymentSpec => []LastEntryIsTheRecord
  <1>1. DeploymentInv => LastEntryIsTheRecord
    BY DEF DeploymentInv
  <1>2. QED
    BY <1>1, DeploymentInvariance, PTL

-----------------------------------------------------------------------------
(* The pipeline.  First what generate_project works through: the manifest  *)
(* is the only job of its kind and no other file shares its path.          *)
Job == [kind: {"module", "test", "manifest"}, path: Paths]

JobIsPlain(job) ==
  /\ job.kind = "manifest" => job.path = Manifest
  /\ job.kind # "manifest" => job.path # Manifest
  /\ job.kind = "module" => job.path \in Range(Modules)

LEMMA JobsOfOneKind ==
  ASSUME NEW kind \in {"module", "test", "manifest"}, NEW paths \in Seq(Paths),
         NEW jobs, jobs = [i \in DOMAIN paths |-> [kind |-> kind, path |-> paths[i]]],
         \A i \in DOMAIN paths :
           /\ kind = "manifest" <=> paths[i] = Manifest
           /\ kind = "module" => paths[i] \in Range(Modules)
  PROVE  jobs \in Seq(Job) /\ \A i \in DOMAIN jobs : JobIsPlain(jobs[i])
  <1>1. \A i \in DOMAIN paths : paths[i] \in Paths
    BY ElementOfSeq, LenProperties
  <1>2. \A i \in DOMAIN jobs : jobs[i] = [kind |-> kind, path |-> paths[i]]
    OBVIOUS
  <1>3. jobs \in [1 .. Len(paths) -> Job]
    BY <1>1, LenProperties DEF Job
  <1>4. jobs \in Seq(Job)
    BY <1>3, LenProperties, IsASeq
  <1>5. QED
    BY <1>2, <1>4 DEF JobIsPlain

(* Appending jobs to jobs.                                                 *)
LEMMA JobsConcat ==
  ASSUME NEW s \in Seq(Job), NEW t \in Seq(Job),
         \A i \in DOMAIN s : JobIsPlain(s[i]), \A i \in DOMAIN t : JobIsPlain(t[i])
  PROVE  s \o t \in Seq(Job) /\ \A i \in DOMAIN (s \o t) : JobIsPlain((s \o t)[i])
  <1>. DEFINE u == s \o t
  <1>1. /\ u \in Seq(Job) /\ Len(u) = Len(s) + Len(t)
        /\ \A i \in 1 .. Len(s) + Len(t) : u[i] = IF i <= Len(s) THEN s[i] ELSE t[i - Len(s)]
    BY ConcatProperties
  <1>. HIDE DEF u
  <1>2. /\ Len(s) \in Nat /\ Len(t) \in Nat /\ DOMAIN s = 1 .. Len(s) /\ DOMAIN t = 1 .. Len(t)
        /\ DOMAIN u = 1 .. Len(u)
    BY <1>1, LenProperties
  <1>3. \A i \in DOMAIN u : JobIsPlain(u[i])
    <2>. SUFFICES ASSUME NEW i \in DOMAIN u PROVE JobIsPlain(u[i])
      OBVIOUS
    <2>1. CASE i <= Len(s)
      BY <1>1, <1>2, <2>1
    <2>2. CASE ~(i <= Len(s))
      <3>1. i - Len(s) \in DOMAIN t
        BY <1>1, <1>2, <2>2
      <3>2. QED
        BY <1>1, <1>2, <2>2, <3>1
    <2>3. QED
      BY <2>1, <2>2
  <1>4. QED
    BY <1>1, <1>3 DEF u

LEMMA WorkProperties ==
  /\ Work \in Seq(Job)
  /\ \A i \in DOMAIN Work : JobIsPlain(Work[i])
  <1>. DEFINE tests == [i \in DOMAIN Modules |-> TestOf[Modules[i]]]
              all == Modules \o tests \o <<Manifest>>
              n == Len(Modules)
  <1>1. /\ Modules \in Seq(Paths) /\ Manifest \in Paths /\ TestOf \in [Range(Modules) -> Paths]
        /\ IsInjective(all)
    BY ModulesAssumption
  <1>2. n \in Nat /\ DOMAIN Modules = 1 .. n /\ \A i \in 1 .. n : Modules[i] \in Range(Modules)
    BY <1>1, LenProperties DEF Range
  <1>3. tests \in Seq(Paths) /\ Len(tests) = n /\ DOMAIN tests = 1 .. n
    <2>1. tests \in [1 .. n -> Paths]
      BY <1>1, <1>2
    <2>. HIDE DEF tests
    <2>2. tests \in Seq(Paths)
      BY <1>2, <2>1, IsASeq
    <2>3. QED
      BY <1>2, <2>1, <2>2, LenProperties
  <1>4. \A i \in 1 .. n : tests[i] = TestOf[Modules[i]]
    BY <1>2
  <1>. HIDE DEF tests
  <1>5. /\ DOMAIN all = 1 .. n + n + 1 /\ all[n + n + 1] = Manifest
        /\ \A i \in 1 .. n : all[i] = Modules[i]
        /\ \A i \in 1 .. n : all[n + i] = tests[i]
    <2>. DEFINE both == Modules \o tests
                last == <<Manifest>>
    <2>a. both \in Seq(Paths) /\ Len(both) = Len(Modules) + Len(tests)
      BY <1>1, <1>3, ConcatProperties
    <2>1. both \in Seq(Paths) /\ Len(both) = n + n
      BY <2>a, <1>3
    <2>2. \A i \in 1 .. n + n : both[i] = IF i <= n THEN Modules[i] ELSE tests[i - n]
      BY <1>1, <1>2, <1>3, ConcatProperties
    <2>3. last \in Seq(Paths) /\ Len(last) = 1 /\ last[1] = Manifest
      BY <1>1
    <2>. HIDE DEF both, last
    <2>. DEFINE three == both \o last
    <2>b. three \in Seq(Paths) /\ Len(three) = Len(both) + Len(last)
      BY <2>1, <2>3, ConcatProperties
    <2>4. three \in Seq(Paths) /\ Len(three) = n + n + 1
      BY <2>b, <2>1, <2>3
    <2>5. \A i \in 1 .. n + n + 1 : three[i] = IF i <= n + n THEN both[i] ELSE last[i - (n + n)]
      BY <1>2, <2>1, <2>3, ConcatProperties
    <2>6. all = three
      BY DEF both, last
    <2>. HIDE DEF three, all
    <2>7. DOMAIN all = 1 .. n + n + 1
      BY <2>4, <2>6, LenProperties
    <2>8. \A i \in 1 .. n : all[i] = Modules[i] /\ all[n + i] = tests[i]
      <3>. SUFFICES ASSUME NEW i \in 1 .. n PROVE all[i] = Modules[i] /\ all[n + i] = tests[i]
        OBVIOUS
      <3>1. i \in 1 .. n + n /\ n + i \in 1 .. n + n /\ i <= n /\ ~(n + i <= n) /\ (n + i) - n = i
        BY <1>2
      <3>2. all[i] = both[i] /\ all[n + i] = both[n + i]
        BY <1>2, <2>5, <2>6, <3>1
      <3>3. QED
        BY <2>2, <3>1, <3>2
    <2>9. all[n + n + 1] = Manifest
      BY <1>2, <2>3, <2>5, <2>6
    <2>10. QED
      BY <2>7, <2>8, <2>9
  <1>. HIDE DEF all
  <1>6. \A i \in 1 .. n : Modules[i] # Manifest /\ tests[i] # Manifest
    <2>. SUFFICES ASSUME NEW i \in 1 .. n PROVE Modules[i] # Manifest /\ tests[i] # Manifest
      OBVIOUS
    <2>1. i \in DOMAIN all /\ n + i \in DOMAIN all /\ n + n + 1 \in DOMAIN all
          /\ i # n + n + 1 /\ n + i # n + n + 1
      BY <1>2, <1>5
    <2>2. \A a, b \in DOMAIN all : all[a] = all[b] => a = b
      BY <1>1 DEF IsInjective
    <2>3. QED
      BY <1>5, <2>1, <2>2
  <1>. DEFINE Jobs(kind, paths) == [i \in DOMAIN paths |-> [kind |-> kind, path |-> paths[i]]]
              a == Jobs("module", Modules)
              b == IF Language = "go" THEN Jobs("test", tests) ELSE <<>>
              c == IF Language \in {"go", "rust"} THEN Jobs("manifest", <<Manifest>>) ELSE <<>>
  <1>7. a \in Seq(Job) /\ \A i \in DOMAIN a : JobIsPlain(a[i])
    BY <1>1, <1>2, <1>6, JobsOfOneKind
  <1>8. b \in Seq(Job) /\ \A i \in DOMAIN b : JobIsPlain(b[i])
    <2>1. CASE Language = "go"
      BY <1>3, <1>6, <2>1, JobsOfOneKind
    <2>2. CASE Language # "go"
      BY <2>2
    <2>3. QED
      BY <2>1, <2>2
  <1>9. c \in Seq(Job) /\ \A i \in DOMAIN c : JobIsPlain(c[i])
    <2>. DEFINE m == <<Manifest>>
    <2>1. m \in Seq(Paths) /\ \A i \in DOMAIN m : m[i] = Manifest
      BY <1>1
    <2>2. CASE Language \in {"go", "rust"}
      <3>. HIDE DEF m
      <3>1. Jobs("manifest", m) \in Seq(Job)
            /\ \A i \in DOMAIN Jobs("manifest", m) : JobIsPlain(Jobs("manifest", m)[i])
        BY <2>1, JobsOfOneKind
      <3>2. QED
        BY <2>2, <3>1 DEF m
    <2>3. CASE Language \notin {"go", "rust"}
      BY <2>3
    <2>4. QED
      BY <2>2, <2>3
  <1>10. Work = a \o b \o c
    BY DEF Work, tests
  <1>. HIDE DEF a, b, c
  <1>11. a \o b \in Seq(Job) /\ \A i \in DOMAIN (a \o b) : JobIsPlain((a \o b)[i])
    BY <1>7, <1>8, JobsConcat
  <1>12. QED
    BY <1>9, <1>10, <1>11, JobsConcat

LEMMA WorkFacts ==
  /\ Len(Work) \in Nat /\ DOMAIN Work = 1 .. Len(Work)
  /\ Project \subseteq Paths
  /\ \A i \in 1 .. Len(Work) : Work[i].path \in Project
  /\ \A i \in 1 .. Len(Work) : JobIsPlain(Work[i])
  <1>1. Len(Work) \in Nat /\ DOMAIN Work = 1 .. Len(Work)
    BY WorkProperties, LenProperties
  <1>a. \A i \in 1 .. Len(Work) : Work[i] \in Job
    BY WorkProperties, ElementOfSeq
  <1>2. \A i \in 1 .. Len(Work) : Work[i].path \in Paths
    BY <1>a DEF Job
  <1>3. QED
    BY <1>1, <1>2, WorkProperties DEF Project

(* The inductive invariant of the pipeline.                                *)
Counted ==
  /\ run.stage \in Busy => runs >= 1
  /\ Len(run.generated) <= Len(Work)
  /\ run.stage = "generate" => Len(run.generated) < run.job

(* Files are deployed onto themselves, and only in the deployment stage.   *)
OntoItself ==
  /\ dep.stage \in Running =>
       run.stage = "deploy" /\ run.job > 1 /\ dep.artifact = dep.target
  /\ dep.stage = "backup" => disk[dep.target] # Absent

(* The pipeline writes no empty file.                                      *)
NeverEmpty ==
  /\ \A p \in Paths : disk[p] # Empty
  /\ dep.backup # Empty

(* Until a deployment fails, the folder is the one that was judged.        *)
Ended == run.stage = "returned" /\ run.status = "deployed"

NothingFailed ==
  \/ run.stage = "approval"
  \/ run.stage = "deploy" /\ run.job = 1
  \/ run.stage = "deploy" /\ LastDeployed
  \/ dep.stage \in {"backup", "install", "validate", "succeed"}
  \/ Ended

FolderAsJudged == NothingFailed => Folder = run.judged

(* What the generator listed is in the folder.                             *)
ListedIsWritten ==
  run.stage \in {"generate", "validate"} =>
    /\ \A f \in Range(run.generated) \ {Manifest} : disk[f] \in Good \cup Bad
    /\ Manifest \in Range(run.generated) => disk[Manifest] # Absent

JudgedIsGood ==
  run.stage \in {"approval", "deploy"} \/ Ended =>
    /\ \A f \in Range(run.generated) \ {Manifest} : run.judged[f] \in Good
    /\ Language = "go" /\ Manifest \in Range(run.generated) =>
         run.judged[Manifest] \in Good \cup {Torn}

Approved == run.stage = "deploy" /\ RequireHumanApproval => run.answered = "yes"

AllFresh == Range(run.generated) \subseteq run.fresh \cup {Manifest}

PipelineInv ==
  /\ TypeOK
  /\ Counted
  /\ OntoItself
  /\ NeverEmpty
  /\ FolderAsJudged
  /\ ListedIsWritten
  /\ JudgedIsGood
  /\ Approved
  /\ AllFresh

LEMMA FolderType == TypeOK => Folder \in [Project -> Contents \cup {Absent}]
  BY WorkFacts DEF TypeOK, DeploymentTypeOK, Folder

LEMMA InitPipeline == Init => PipelineInv
  <1>. SUFFICES ASSUME Init PROVE PipelineInv
    OBVIOUS
  <1>1. DeploymentTypeOK /\ dep.stage = "idle" /\ dep.backup = NoBackup
    BY InitDeployment DEF DeploymentInv, Init, DeploymentInit
  <1>2. NoFile \in [Project -> Contents \cup {Absent}]
    BY DEF NoFile
  <1>3. run.generated = <<>> /\ run.stage = "idle" /\ Range(run.generated) = {} /\ Len(run.generated) = 0
    BY DEF Init, Range
  <1>4. run \in Run
    BY <1>2, WorkFacts, AttemptsAssumption DEF Init, Run, ApprovalStatus
  <1>5. TypeOK
    BY <1>1, <1>4, AttemptsAssumption DEF TypeOK, Init
  <1>6. Counted /\ OntoItself /\ FolderAsJudged
    BY <1>1, <1>3, WorkFacts DEF Counted, OntoItself, FolderAsJudged, NothingFailed, Ended, Busy, Running
  <1>7. NeverEmpty
    BY <1>1, ContentsAssumption DEF NeverEmpty, Init, DeploymentInit
  <1>8. ListedIsWritten /\ JudgedIsGood /\ Approved /\ AllFresh
    BY <1>3 DEF ListedIsWritten, JudgedIsGood, Approved, AllFresh, Ended
  <1>9. QED
    BY <1>5, <1>6, <1>7, <1>8 DEF PipelineInv

(* Steps that leave the files and the deployment alone.  run' is given by  *)
(* the fields the invariant is about.                                      *)
LEMMA LogAuditType ==
  ASSUME TypeOK, NEW action \in AuditActions, NEW status \in ApprovalStatus, LogAudit(action, status)
  PROVE  audit_logs' \in Seq([action: AuditActions, status: ApprovalStatus])
  BY DEF TypeOK, DeploymentTypeOK, LogAudit

LEMMA LogBothType ==
  ASSUME TypeOK, NEW first \in AuditActions, NEW second \in AuditActions,
         NEW status \in ApprovalStatus, LogBoth(first, second, status)
  PROVE  audit_logs' \in Seq([action: AuditActions, status: ApprovalStatus])
  BY DEF TypeOK, DeploymentTypeOK, LogBoth

LEMMA RaisedPreserves ==
  ASSUME PipelineInv, Raised, UNCHANGED <<dep, llm_model, experiences>>, dep.stage \notin Running,
         runs' \in 0 .. MaxRuns, disk' \in [Paths -> Contents \cup {Absent}],
         \A p \in Paths : disk'[p] # Empty,
         audit_logs' \in Seq([action: AuditActions, status: ApprovalStatus])
  PROVE  PipelineInv'
  <1>1. TypeOK /\ run \in Run
    BY DEF PipelineInv, TypeOK
  <1>2. /\ run' \in Run /\ run'.stage = "raised"
        /\ run'.generated = run.generated /\ run'.fresh = run.fresh
    BY <1>1 DEF Raised, Run
  <1>3. TypeOK'
    BY <1>1, <1>2 DEF TypeOK, DeploymentTypeOK, Raised
  <1>4. QED
    BY <1>2, <1>3
    DEF PipelineInv, Counted, OntoItself, NeverEmpty, FolderAsJudged, NothingFailed, ListedIsWritten,
        JudgedIsGood, Approved, AllFresh, Ended, Busy, Running

LEMMA RunPipelinePreserves ==
  ASSUME PipelineInv, NEW specified \in BOOLEAN, RunPipeline(specified) PROVE PipelineInv'
  <1>1. /\ TypeOK /\ run \in Run /\ dep.stage \notin Running /\ runs' = runs + 1
        /\ UNCHANGED <<disk, dep, llm_model, experiences>>
    BY DEF PipelineInv, TypeOK, RunPipeline, OntoItself, Busy
  <1>2. runs' \in 1 .. MaxRuns
    BY <1>1, AttemptsAssumption DEF TypeOK, RunPipeline
  <1>3. CASE specified = FALSE
    <2>1. /\ Raised
          /\ \/ LogAudit("pipeline_start", "pending")
             \/ LogBoth("pipeline_start", "pipeline_failed", "pending")
      BY <1>3 DEF RunPipeline
    <2>2. audit_logs' \in Seq([action: AuditActions, status: ApprovalStatus])
      BY <1>1, <2>1, LogAuditType, LogBothType DEF AuditActions, ApprovalStatus
    <2>3. QED
      BY <1>1, <1>2, <2>1, <2>2, RaisedPreserves
      DEF PipelineInv, NeverEmpty, TypeOK, DeploymentTypeOK
  <1>4. CASE specified = TRUE /\ Raised
    <2>1. LogAudit("pipeline_start", "pending")
      BY <1>4 DEF RunPipeline
    <2>2. audit_logs' \in Seq([action: AuditActions, status: ApprovalStatus])
      BY <1>1, <2>1, LogAuditType DEF AuditActions, ApprovalStatus
    <2>3. QED
      BY <1>1, <1>2, <1>4, <2>2, RaisedPreserves
      DEF PipelineInv, NeverEmpty, TypeOK, DeploymentTypeOK
  <1>5. CASE specified = TRUE /\ ~Raised
    <2>1. /\ run' = [run EXCEPT !.stage = "attempt", !.attempt = 1, !.job = 1,
                       !.generated = <<>>, !.fresh = {}, !.answered = "none", !.status = "pending",
                       !.judged = NoFile, !.previous = Folder]
          /\ exit' = -1
          /\ LogAudit("pipeline_start", "pending")
      BY <1>5 DEF RunPipeline
    <2>2. audit_logs' \in Seq([action: AuditActions, status: ApprovalStatus])
      BY <1>1, <2>1, LogAuditType DEF AuditActions, ApprovalStatus
    <2>3. NoFile \in [Project -> Contents \cup {Absent}]
      BY DEF NoFile
    <2>a. /\ 1 \in 1 .. Len(Work) + 1 /\ <<>> \in Seq(Project) /\ {} \in SUBSET Project
          /\ 1 \in 0 .. MAX_ATTEMPTS /\ Folder \in [Project -> Contents \cup {Absent}]
      BY <1>1, FolderType, WorkFacts, AttemptsAssumption
    <2>4. /\ run' \in Run /\ run'.stage = "attempt" /\ run'.generated = <<>>
      BY <1>1, <2>1, <2>3, <2>a DEF Run, Busy, ApprovalStatus
    <2>5. Range(run'.generated) = {} /\ Len(run'.generated) = 0
      BY <2>4 DEF Range
    <2>6. TypeOK'
      BY <1>1, <1>2, <2>1, <2>2, <2>4 DEF TypeOK, DeploymentTypeOK
    <2>7. QED
      BY <1>1, <1>2, <2>4, <2>5, <2>6, WorkFacts
      DEF PipelineInv, Counted, OntoItself, NeverEmpty, FolderAsJudged, NothingFailed, ListedIsWritten,
        JudgedIsGood, Approved, AllFresh, Ended, Busy, Running
  <1>6. QED
    BY <1>3, <1>4, <1>5

LEMMA BeginAttemptPreserves == PipelineInv /\ BeginAttempt => PipelineInv'
  <1>. SUFFICES ASSUME PipelineInv, BeginAttempt PROVE PipelineInv'
    OBVIOUS
  <1>1. /\ TypeOK /\ run \in Run /\ run.stage = "attempt"
        /\ UNCHANGED <<disk, dep, audit_logs, experiences, runs, exit>>
        /\ run' = [run EXCEPT !.stage = "generate", !.job = 1, !.generated = <<>>,
                    !.fresh = {}, !.original = llm_model]
    BY DEF PipelineInv, TypeOK, BeginAttempt
  <1>2. llm_model \in {Primary, Fallback} /\ llm_model' \in {Primary, Fallback}
    BY DEF PipelineInv, TypeOK, BeginAttempt
  <1>a. 1 \in 1 .. Len(Work) + 1 /\ <<>> \in Seq(Project) /\ {} \in SUBSET Project
    BY WorkFacts
  <1>b. run' \in Run /\ run'.stage = "generate" /\ run'.generated = <<>> /\ run'.job = 1
    BY <1>1, <1>2, <1>a DEF Run, Busy
  <1>3. /\ run' \in Run /\ run'.stage = "generate" /\ run'.generated = <<>> /\ run'.job = 1
        /\ Range(run'.generated) = {} /\ Len(run'.generated) = 0
    BY <1>b DEF Range
  <1>4. TypeOK'
    BY <1>1, <1>2, <1>3 DEF TypeOK, DeploymentTypeOK
  <1>5. QED
    BY <1>1, <1>3, <1>4, WorkFacts
    DEF PipelineInv, Counted, OntoItself, NeverEmpty, FolderAsJudged, NothingFailed, ListedIsWritten,
        JudgedIsGood, Approved, AllFresh, Ended, Busy, Running

(* A job of the generator: what path is, and what Listed does.             *)
LEMMA JobFacts ==
  ASSUME PipelineInv, run.stage = "generate", run.job <= Len(Work)
  PROVE  /\ run.job \in 1 .. Len(Work) /\ path \in Project /\ path \in Paths
         /\ Work[run.job].kind = "manifest" => path = Manifest
         /\ Work[run.job].kind # "manifest" => path # Manifest
         /\ Work[run.job].kind = "module" => path \in Range(Modules)
         /\ dep.stage \notin Running
  <1>1. run.job \in 1 .. Len(Work)
    BY WorkFacts DEF PipelineInv, TypeOK, Run
  <1>2. QED
    BY <1>1, WorkFacts DEF path, JobIsPlain, PipelineInv, OntoItself

LEMMA WrittenFacts ==
  ASSUME TypeOK, path \in Paths, NEW c \in Contents, Written(c)
  PROVE  /\ disk' \in [Paths -> Contents \cup {Absent}]
         /\ disk'[path] = c
         /\ \A p \in Paths : p # path => disk'[p] = disk[p]
  BY DEF Written, TypeOK, DeploymentTypeOK

LEMMA ListedFacts ==
  ASSUME PipelineInv, run.stage = "generate", run.job <= Len(Work), Listed
  PROVE  /\ run' \in Run /\ run'.stage = "generate" /\ run'.job = run.job + 1
         /\ Range(run'.generated) = Range(run.generated) \cup {path}
         /\ Len(run'.generated) = Len(run.generated) + 1
         /\ run.fresh \subseteq run'.fresh
         /\ path # Manifest => path \in run'.fresh
  <1>1. run \in Run /\ path \in Project /\ run.job \in 1 .. Len(Work)
    BY JobFacts DEF PipelineInv, TypeOK
  <1>2. run.generated \in Seq(Project) /\ run.fresh \in SUBSET Project
    BY <1>1 DEF Run
  <1>. DEFINE fresh == IF disk' # disk \/ Work[run.job].kind # "manifest"
                       THEN run.fresh \cup {path} ELSE run.fresh
              generated == Append(run.generated, path)
  <1>3. run' = [run EXCEPT !.job = run.job + 1, !.generated = generated, !.fresh = fresh]
    BY <1>1 DEF Listed, Run
  <1>4. /\ fresh \in SUBSET Project /\ run.fresh \subseteq fresh
        /\ path # Manifest => path \in fresh
    BY <1>1, <1>2, JobFacts
  <1>5. /\ generated \in Seq(Project) /\ Len(generated) = Len(run.generated) + 1
        /\ Range(generated) = Range(run.generated) \cup {path}
    <2>1. generated \in Seq(Project) /\ Len(generated) = Len(run.generated) + 1
      BY <1>1, <1>2
    <2>2. /\ generated[Len(run.generated) + 1] = path
          /\ \A i \in 1 .. Len(run.generated) : generated[i] = run.generated[i]
      BY <1>1, <1>2
    <2>3. /\ DOMAIN generated = 1 .. Len(run.generated) + 1 /\ Len(run.generated) \in Nat
          /\ DOMAIN run.generated = 1 .. Len(run.generated)
      BY <1>2, <2>1, LenProperties
    <2>. HIDE DEF generated
    <2>4. QED
      BY <2>1, <2>2, <2>3 DEF Range
  <1>. HIDE DEF fresh, generated
  <1>6. /\ run'.job = run.job + 1 /\ run'.generated = generated /\ run'.fresh = fresh
        /\ run'.stage = "generate" /\ run' \in Run
    <2>1. run.job + 1 \in 1 .. Len(Work) + 1
      BY <1>1, WorkFacts
    <2>2. QED
      BY <1>1, <1>3, <1>4, <1>5, <2>1 DEF Run
  <1>7. QED
    BY <1>4, <1>5, <1>6

(* A file is written and listed, or the manifest is listed.                *)
LEMMA GenerateStepPreserves ==
  ASSUME PipelineInv, run.stage = "generate", run.job <= Len(Work), Listed,
         UNCHANGED <<dep, audit_logs, llm_model, runs, exit>>,
         experiences' \subseteq [run: 1 .. MaxRuns, file: Range(Modules),
           model: {Primary, Fallback}, human_decision: {"approved", "rejected"}],
         disk' \in [Paths -> Contents \cup {Absent}],
         disk'[path] # Empty, disk'[path] # Absent,
         path # Manifest => disk'[path] \in Good \cup Bad,
         \A p \in Paths : p # path => disk'[p] = disk[p]
  PROVE  PipelineInv'
  <1>1. /\ TypeOK /\ path \in Project /\ path \in Paths /\ dep.stage \notin Running
        /\ dep' = dep /\ runs' = runs
    BY JobFacts DEF PipelineInv
  <1>2. TypeOK'
    BY <1>1, ListedFacts DEF TypeOK, DeploymentTypeOK
  <1>3. Counted'
    BY <1>1, ListedFacts, WorkFacts DEF PipelineInv, TypeOK, Run, Counted, Busy
  <1>4. OntoItself' /\ FolderAsJudged' /\ JudgedIsGood' /\ Approved'
    BY <1>1, ListedFacts DEF OntoItself, FolderAsJudged, NothingFailed, JudgedIsGood, Approved, Ended, Running
  <1>5. NeverEmpty'
    BY <1>1 DEF PipelineInv, NeverEmpty
  <1>6. ListedIsWritten'
    <2>1. Range(run.generated) \subseteq Paths /\ Manifest \in Paths
      <3>1. run.generated \in Seq(Project)
        BY DEF PipelineInv, TypeOK, Run
      <3>2. Range(run.generated) \subseteq Project
        BY <3>1, LenProperties, ElementOfSeq DEF Range
      <3>3. QED
        BY <3>2, WorkFacts, ModulesAssumption
    <2>2. /\ \A f \in Range(run.generated) \ {Manifest} : disk[f] \in Good \cup Bad
          /\ Manifest \in Range(run.generated) => disk[Manifest] # Absent
      BY DEF PipelineInv, ListedIsWritten
    <2>3. QED
      BY <1>1, <2>1, <2>2, ListedFacts DEF ListedIsWritten
  <1>7. AllFresh'
    BY ListedFacts DEF PipelineInv, AllFresh
  <1>8. QED
    BY <1>2, <1>3, <1>4, <1>5, <1>6, <1>7 DEF PipelineInv

LEMMA GenerateModulePreserves ==
  ASSUME PipelineInv, NEW c \in Good \cup Bad, GenerateModule(c) PROVE PipelineInv'
  <1>1. /\ TypeOK /\ run.stage = "generate" /\ run.job <= Len(Work) /\ Work[run.job].kind = "module"
        /\ Written(c) /\ Listed /\ record("approved")
        /\ UNCHANGED <<dep, audit_logs, llm_model, runs, exit>>
    BY DEF GenerateModule, Generating, PipelineInv
  <1>2. c \in Contents /\ c # Empty /\ c # Absent
    BY ContentsAssumption DEF Contents
  <1>3. path \in Range(Modules) /\ path \in Paths
    BY <1>1, JobFacts
  <1>4. runs \in 1 .. MaxRuns /\ llm_model \in {Primary, Fallback}
    BY <1>1, AttemptsAssumption DEF PipelineInv, TypeOK, Counted, Busy
  <1>5. experiences' \subseteq [run: 1 .. MaxRuns, file: Range(Modules),
           model: {Primary, Fallback}, human_decision: {"approved", "rejected"}]
    BY <1>1, <1>3, <1>4 DEF record, TypeOK
  <1>6. QED
    BY <1>1, <1>2, <1>3, <1>5, WrittenFacts, GenerateStepPreserves

LEMMA GenerateTestPreserves ==
  ASSUME PipelineInv, NEW c \in Good \cup Bad, GenerateTest(c) PROVE PipelineInv'
  <1>1. /\ TypeOK /\ run.stage = "generate" /\ run.job <= Len(Work)
        /\ Written(c) /\ Listed
        /\ UNCHANGED <<dep, audit_logs, llm_model, experiences, runs, exit>>
    BY DEF GenerateTest, Generating, PipelineInv
  <1>2. c \in Contents /\ c # Empty /\ c # Absent
    BY ContentsAssumption DEF Contents
  <1>3. path \in Paths
    BY <1>1, JobFacts
  <1>4. experiences' \subseteq [run: 1 .. MaxRuns, file: Range(Modules),
           model: {Primary, Fallback}, human_decision: {"approved", "rejected"}]
    BY <1>1 DEF TypeOK
  <1>5. QED
    BY <1>1, <1>2, <1>3, <1>4, WrittenFacts, GenerateStepPreserves

LEMMA WriteManifestPreserves == PipelineInv /\ WriteManifest => PipelineInv'
  <1>. SUFFICES ASSUME PipelineInv, WriteManifest PROVE PipelineInv'
    OBVIOUS
  <1>1. /\ TypeOK /\ run.stage = "generate" /\ run.job <= Len(Work) /\ Work[run.job].kind = "manifest"
        /\ IF disk[path] = Absent THEN Written(ManifestText) ELSE UNCHANGED disk
        /\ Listed
        /\ UNCHANGED <<dep, audit_logs, llm_model, experiences, runs, exit>>
    BY DEF WriteManifest, Generating, PipelineInv
  <1>2. ManifestText \in Contents /\ ManifestText # Empty /\ ManifestText # Absent
    BY ContentsAssumption, ModulesAssumption DEF Contents
  <1>3. path \in Paths /\ path = Manifest
    BY <1>1, JobFacts
  <1>4. /\ experiences' \subseteq [run: 1 .. MaxRuns, file: Range(Modules),
              model: {Primary, Fallback}, human_decision: {"approved", "rejected"}]
        /\ disk \in [Paths -> Contents \cup {Absent}] /\ disk[path] # Empty
    BY <1>1, <1>3 DEF PipelineInv, NeverEmpty, TypeOK, DeploymentTypeOK
  <1>5. CASE disk[path] = Absent
    BY <1>1, <1>2, <1>3, <1>4, <1>5, WrittenFacts, GenerateStepPreserves
  <1>6. CASE disk[path] # Absent
    BY <1>1, <1>3, <1>4, <1>6, GenerateStepPreserves
  <1>7. QED
    BY <1>5, <1>6

LEMMA SkipTestPreserves == PipelineInv /\ SkipTest => PipelineInv'
  <1>. SUFFICES ASSUME PipelineInv, SkipTest PROVE PipelineInv'
    OBVIOUS
  <1>1. /\ TypeOK /\ run \in Run /\ run.stage = "generate" /\ run.job <= Len(Work)
        /\ run' = [run EXCEPT !.job = run.job + 1]
        /\ UNCHANGED <<disk, dep, audit_logs, llm_model, experiences, runs, exit>>
    BY DEF SkipTest, Generating, PipelineInv, TypeOK, Run
  <1>2. run.job + 1 \in 1 .. Len(Work) + 1 /\ run.job \in Nat
    BY <1>1, JobFacts, WorkFacts
  <1>3. /\ run' \in Run /\ run'.stage = "generate" /\ run'.job = run.job + 1
        /\ run'.generated = run.generated /\ run'.fresh = run.fresh
    BY <1>1, <1>2 DEF Run
  <1>4. TypeOK'
    BY <1>1, <1>3 DEF TypeOK, DeploymentTypeOK
  <1>5. Len(run.generated) \in Nat
    BY <1>1, LenProperties DEF Run
  <1>6. QED
    BY <1>1, <1>2, <1>3, <1>4, <1>5
    DEF PipelineInv, Counted, OntoItself, NeverEmpty, FolderAsJudged, NothingFailed, ListedIsWritten,
        JudgedIsGood, Approved, AllFresh, Ended, Busy, Running

LEMMA GenerateRaisesPreserves == PipelineInv /\ GenerateRaises => PipelineInv'
  <1>. SUFFICES ASSUME PipelineInv, GenerateRaises PROVE PipelineInv'
    OBVIOUS
  <1>1. /\ TypeOK /\ run.stage = "generate" /\ run.job <= Len(Work) /\ Raised
        /\ UNCHANGED <<dep, audit_logs, llm_model, experiences, runs>>
    BY DEF GenerateRaises, PipelineInv
  <1>2. path \in Paths /\ dep.stage \notin Running
    BY <1>1, JobFacts
  <1>3. UNCHANGED disk \/ \E c \in Good \cup Bad \cup {Torn} : Written(c)
    BY DEF GenerateRaises
  <1>4. disk' \in [Paths -> Contents \cup {Absent}] /\ \A p \in Paths : disk'[p] # Empty
    <2>1. CASE UNCHANGED disk
      BY <1>1, <2>1 DEF TypeOK, DeploymentTypeOK, PipelineInv, NeverEmpty
    <2>2. ASSUME NEW c \in Good \cup Bad \cup {Torn}, Written(c)
          PROVE  disk' \in [Paths -> Contents \cup {Absent}] /\ \A p \in Paths : disk'[p] # Empty
      <3>1. c \in Contents /\ c # Empty
        BY ContentsAssumption DEF Contents
      <3>2. QED
        BY <1>1, <1>2, <2>2, <3>1, WrittenFacts DEF PipelineInv, NeverEmpty
    <2>3. QED
      BY <1>3, <2>1, <2>2
  <1>5. QED
    BY <1>1, <1>2, <1>4, RaisedPreserves DEF TypeOK, DeploymentTypeOK

LEMMA GenerateReturnsPreserves == PipelineInv /\ GenerateReturns => PipelineInv'
  <1>. SUFFICES ASSUME PipelineInv, GenerateReturns PROVE PipelineInv'
    OBVIOUS
  <1>1. /\ TypeOK /\ run \in Run /\ run.stage = "generate"
        /\ run' = [run EXCEPT !.stage = "validate"] /\ llm_model' = run.original
        /\ UNCHANGED <<disk, dep, audit_logs, experiences, runs, exit>>
    BY DEF GenerateReturns, PipelineInv, TypeOK
  <1>2. /\ run' \in Run /\ run'.stage = "validate" /\ llm_model' \in {Primary, Fallback}
        /\ run'.generated = run.generated /\ run'.fresh = run.fresh
    BY <1>1 DEF Run, Busy
  <1>3. TypeOK'
    BY <1>1, <1>2 DEF TypeOK, DeploymentTypeOK
  <1>4. QED
    BY <1>1, <1>2, <1>3
    DEF PipelineInv, Counted, OntoItself, NeverEmpty, FolderAsJudged, NothingFailed, ListedIsWritten,
        JudgedIsGood, Approved, AllFresh, Ended, Busy, Running

LEMMA RunRaisesPreserves == PipelineInv /\ RunRaises => PipelineInv'
  BY RaisedPreserves DEF RunRaises, PipelineInv, TypeOK, DeploymentTypeOK, NeverEmpty, OntoItself

(* The validator: a candidate that passes has no file that does not parse. *)
LEMMA ValidatePreserves == PipelineInv /\ Validate => PipelineInv'
  <1>. SUFFICES ASSUME PipelineInv, Validate PROVE PipelineInv'
    OBVIOUS
  <1>1. PICK syntax_passed \in SyntaxResults, findings \in Findings : Judge(syntax_passed, findings)
    BY DEF Validate
  <1>2. /\ TypeOK /\ run \in Run /\ run.stage = "validate" /\ dep.stage \notin Running
        /\ UNCHANGED <<disk, dep, llm_model, experiences, runs>>
    BY <1>1 DEF Judge, PipelineInv, TypeOK, OntoItself
  <1>3. syntax_passed \in BOOLEAN
    BY <1>1 DEF SyntaxResults
  <1>4. CASE Passes(syntax_passed, findings) /\ Raised
    <2>1. LogAudit("pipeline_success", "pending")
      BY <1>1, <1>4 DEF Judge, ToHumanGate
    <2>2. audit_logs' \in Seq([action: AuditActions, status: ApprovalStatus])
      BY <1>2, <2>1, LogAuditType DEF AuditActions, ApprovalStatus
    <2>3. QED
      BY <1>2, <1>4, <2>2, RaisedPreserves DEF PipelineInv, TypeOK, DeploymentTypeOK, NeverEmpty
  <1>5. CASE Passes(syntax_passed, findings) /\ ~Raised
    <2>1. syntax_passed = TRUE
      BY <1>3, <1>5 DEF Passes, validate_artifact
    <2>2. \A f \in Checked : disk[f] \notin Bad
      BY <1>1, <2>1 DEF SyntaxResults
    <2>3. /\ run' = [run EXCEPT !.stage = "approval", !.judged = Folder]
          /\ LogAudit("pipeline_success", "pending") /\ UNCHANGED exit
      BY <1>1, <1>5 DEF Judge, ToHumanGate
    <2>4. audit_logs' \in Seq([action: AuditActions, status: ApprovalStatus])
      BY <1>2, <2>3, LogAuditType DEF AuditActions, ApprovalStatus
    <2>5. /\ run' \in Run /\ run'.stage = "approval" /\ run'.judged = Folder
          /\ run'.generated = run.generated /\ run'.fresh = run.fresh
      BY <1>2, <2>3, FolderType DEF Run, Busy
    <2>6. TypeOK'
      BY <1>2, <2>3, <2>4, <2>5 DEF TypeOK, DeploymentTypeOK
    <2>7. JudgedIsGood'
      <3>1. Range(run.generated) \subseteq Project
        <4>1. run.generated \in Seq(Project)
          BY <1>2 DEF Run
        <4>2. QED
          BY <4>1, LenProperties, ElementOfSeq DEF Range
      <3>2. \A f \in Range(run.generated) : Folder[f] = disk[f]
        BY <3>1 DEF Folder
      <3>3. \A f \in Range(run.generated) \ {Manifest} : disk[f] \in Good
        BY <1>2, <2>2, <3>1 DEF Checked, PipelineInv, ListedIsWritten
      <3>4. ASSUME Language = "go", Manifest \in Range(run.generated)
            PROVE  disk[Manifest] \in Good \cup {Torn}
        <4>1. disk[Manifest] \notin Bad /\ disk[Manifest] # Absent
          BY <1>2, <2>2, <3>1, <3>4 DEF Checked, PipelineInv, ListedIsWritten
        <4>2. disk[Manifest] \in Contents \cup {Absent} /\ disk[Manifest] # Empty
          BY <1>2, ModulesAssumption DEF TypeOK, DeploymentTypeOK, PipelineInv, NeverEmpty
        <4>3. QED
          BY <4>1, <4>2 DEF Contents
      <3>5. QED
        BY <2>5, <3>2, <3>3, <3>4 DEF JudgedIsGood
    <2>8. Folder' = run'.judged
      BY <1>2, <2>5 DEF Folder
    <2>9. QED
      BY <1>2, <2>5, <2>6, <2>7, <2>8
      DEF PipelineInv, Counted, OntoItself, NeverEmpty, FolderAsJudged, NothingFailed, Ended, ListedIsWritten,
          Approved, AllFresh, Busy
  <1>6. CASE ~Passes(syntax_passed, findings) /\ run.attempt = MAX_ATTEMPTS
    <2>1. Raised /\ LogAudit("pipeline_failed", "pending")
      BY <1>1, <1>6 DEF Judge, LoopExhausted
    <2>2. audit_logs' \in Seq([action: AuditActions, status: ApprovalStatus])
      BY <1>2, <2>1, LogAuditType DEF AuditActions, ApprovalStatus
    <2>3. QED
      BY <1>2, <2>1, <2>2, RaisedPreserves DEF PipelineInv, TypeOK, DeploymentTypeOK, NeverEmpty
  <1>7. CASE ~Passes(syntax_passed, findings) /\ run.attempt # MAX_ATTEMPTS
    <2>1. run' = [run EXCEPT !.stage = "attempt", !.attempt = run.attempt + 1]
          /\ UNCHANGED <<audit_logs, exit>>
      BY <1>1, <1>2, <1>7 DEF Judge, NextAttempt, Run
    <2>2. run.attempt + 1 \in 0 .. MAX_ATTEMPTS
      BY <1>2, <1>7, AttemptsAssumption DEF Run
    <2>3. /\ run' \in Run /\ run'.stage = "attempt"
          /\ run'.generated = run.generated /\ run'.fresh = run.fresh
      BY <1>2, <2>1, <2>2 DEF Run, Busy
    <2>4. TypeOK'
      BY <1>2, <2>1, <2>3 DEF TypeOK, DeploymentTypeOK
    <2>5. QED
      BY <1>2, <2>3, <2>4
      DEF PipelineInv, Counted, OntoItself, NeverEmpty, FolderAsJudged, NothingFailed, ListedIsWritten,
        JudgedIsGood, Approved, AllFresh, Ended, Busy, Running
  <1>8. QED
    BY <1>4, <1>5, <1>6, <1>7

LEMMA HumanGatePreserves ==
  ASSUME PipelineInv, NEW answer \in {"yes", "no", "eof"}, HumanGate(answer) PROVE PipelineInv'
  <1>1. /\ TypeOK /\ run \in Run /\ run.stage = "approval" /\ dep.stage \notin Running
        /\ UNCHANGED <<disk, dep, llm_model, experiences, runs>>
    BY DEF HumanGate, PipelineInv, TypeOK, OntoItself
  <1>2. CASE Raised
    <2>1. audit_logs' \in Seq([action: AuditActions, status: ApprovalStatus])
      <3>1. CASE Approve(answer)
        BY <1>1, <3>1, LogAuditType DEF Approve, AuditActions, ApprovalStatus, TypeOK, DeploymentTypeOK
      <3>2. CASE Reject(answer)
        BY <1>1, <3>2, LogAuditType, LogBothType DEF Reject, AuditActions, ApprovalStatus
      <3>3. QED
        BY <3>1, <3>2 DEF HumanGate
    <2>2. QED
      BY <1>1, <1>2, <2>1, RaisedPreserves DEF PipelineInv, TypeOK, DeploymentTypeOK, NeverEmpty
  <1>3. CASE ~Raised /\ (answer = "yes" \/ ~RequireHumanApproval)
    <2>. DEFINE status == IF RequireHumanApproval THEN "approved" ELSE run.status
    <2>1. Approve(answer)
      BY <1>3 DEF HumanGate
    <2>2. /\ run' = [run EXCEPT !.stage = "deploy", !.job = 1, !.answered = answer, !.status = status]
          /\ UNCHANGED exit
      BY <1>1, <1>3, <2>1 DEF Approve, Run
    <2>3. audit_logs' \in Seq([action: AuditActions, status: ApprovalStatus])
      <3>1. CASE RequireHumanApproval
        BY <1>1, <2>1, <3>1, LogAuditType DEF Approve, AuditActions, ApprovalStatus
      <3>2. CASE ~RequireHumanApproval
        BY <1>1, <2>1, <3>2 DEF Approve, TypeOK, DeploymentTypeOK
      <3>3. QED
        BY <3>1, <3>2
    <2>4. status \in ApprovalStatus
      BY <1>1 DEF Run, ApprovalStatus
    <2>5. 1 \in 1 .. Len(Work) + 1
      BY WorkFacts
    <2>. HIDE DEF status
    <2>6. /\ run' \in Run /\ run'.stage = "deploy" /\ run'.judged = run.judged /\ run'.job = 1
          /\ run'.generated = run.generated /\ run'.fresh = run.fresh /\ run'.answered = answer
      BY <1>1, <2>2, <2>4, <2>5 DEF Run, Busy
    <2>7. TypeOK'
      BY <1>1, <2>2, <2>3, <2>6 DEF TypeOK, DeploymentTypeOK
    <2>8. Folder' = Folder
      BY <1>1 DEF Folder
    <2>9. QED
      BY <1>1, <1>3, <2>6, <2>7, <2>8
      DEF PipelineInv, Counted, OntoItself, NeverEmpty, FolderAsJudged, NothingFailed, ListedIsWritten,
        JudgedIsGood, Approved, AllFresh, Ended, Busy, Running
  <1>4. CASE ~Raised /\ ~(answer = "yes" \/ ~RequireHumanApproval)
    <2>1. Reject(answer)
      BY <1>4 DEF HumanGate
    <2>2. /\ run' = [run EXCEPT !.stage = "returned", !.answered = answer, !.status = "rejected"]
          /\ exit' \in {-1, 0, 1}
      BY <1>4, <2>1 DEF Reject, ExitStatus
    <2>3. audit_logs' \in Seq([action: AuditActions, status: ApprovalStatus])
      BY <1>1, <2>1, LogAuditType, LogBothType DEF Reject, AuditActions, ApprovalStatus
    <2>4. /\ run' \in Run /\ run'.stage = "returned" /\ run'.status = "rejected"
          /\ run'.generated = run.generated /\ run'.fresh = run.fresh
      BY <1>1, <2>2 DEF Run, ApprovalStatus
    <2>5. TypeOK'
      BY <1>1, <2>2, <2>3, <2>4 DEF TypeOK, DeploymentTypeOK
    <2>6. QED
      BY <1>1, <2>4, <2>5
      DEF PipelineInv, Counted, OntoItself, NeverEmpty, FolderAsJudged, NothingFailed, ListedIsWritten,
        JudgedIsGood, Approved, AllFresh, Ended, Busy, Running
  <1>5. QED
    BY <1>2, <1>3, <1>4

LEMMA DeployFilePreserves == PipelineInv /\ DeployFile => PipelineInv'
  <1>. SUFFICES ASSUME PipelineInv, DeployFile PROVE PipelineInv'
    OBVIOUS
  <1>. DEFINE file == run.generated[run.job]
  <1>1. /\ TypeOK /\ run \in Run /\ run.stage = "deploy" /\ run.job <= Len(run.generated)
        /\ run.job = 1 \/ LastDeployed
        /\ run' = [run EXCEPT !.job = run.job + 1]
        /\ UNCHANGED <<llm_model, experiences, runs, exit>>
    BY DEF DeployFile, PipelineInv, TypeOK, Run
  <1>2. run.job \in Nat /\ run.job >= 1 /\ Len(run.generated) <= Len(Work) /\ Len(run.generated) \in Nat
    BY <1>1, WorkFacts, LenProperties DEF Run, PipelineInv, Counted
  <1>3. file \in Paths
    <2>1. run.generated \in Seq(Project) /\ run.job \in 1 .. Len(run.generated)
      BY <1>1, <1>2 DEF Run
    <2>2. file \in Project
      BY <2>1, ElementOfSeq
    <2>3. QED
      BY <2>2, WorkFacts
  <1>4. Deploy(file, file, Language)
    BY DEF DeployFile
  <1>. HIDE DEF file
  <1>5. disk \in [Paths -> Contents \cup {Absent}] /\ UNCHANGED <<disk, audit_logs>>
    BY <1>1, <1>4 DEF Deploy, TypeOK, DeploymentTypeOK
  <1>6. /\ dep' \in Deployment /\ dep'.artifact = file /\ dep'.target = file /\ dep'.backup = NoBackup
        /\ dep'.stage = IF disk[file] = Absent THEN "fail"
                        ELSE IF disk[file] # Absent THEN "backup" ELSE "install"
    BY <1>3, <1>4, <1>5, SettingsAssumption DEF Deploy, Deployment, Stages, Running, ApprovalStatus
  <1>7. run.job + 1 \in 1 .. Len(Work) + 1
    BY <1>1, <1>2, WorkFacts
  <1>8. /\ run' \in Run /\ run'.stage = "deploy" /\ run'.judged = run.judged /\ run'.job = run.job + 1
        /\ run'.generated = run.generated /\ run'.fresh = run.fresh /\ run'.answered = run.answered
    BY <1>1, <1>7 DEF Run
  <1>9. Folder' = Folder /\ Folder = run.judged
    BY <1>1, <1>5 DEF Folder, PipelineInv, FolderAsJudged, NothingFailed
  <1>10. TypeOK'
    BY <1>1, <1>5, <1>6, <1>8 DEF TypeOK, DeploymentTypeOK
  <1>11. Counted' /\ OntoItself'
    BY <1>1, <1>2, <1>5, <1>6, <1>8 DEF PipelineInv, Counted, OntoItself
  <1>12. NeverEmpty'
    BY <1>5, <1>6, ContentsAssumption DEF PipelineInv, NeverEmpty
  <1>13. FolderAsJudged' /\ ListedIsWritten' /\ JudgedIsGood' /\ Approved' /\ AllFresh'
    BY <1>1, <1>8, <1>9
    DEF PipelineInv, FolderAsJudged, NothingFailed, ListedIsWritten, JudgedIsGood, Approved, AllFresh, Ended
  <1>14. QED
    BY <1>10, <1>11, <1>12, <1>13 DEF PipelineInv

(* A run that returns from the deployment stage.                           *)
LEMMA ReturnPreserves ==
  ASSUME PipelineInv, NEW status \in ApprovalStatus, Return(status),
         audit_logs' \in Seq([action: AuditActions, status: ApprovalStatus]),
         run.stage = "deploy", dep.stage \notin Running, status = "deployed" => LastDeployed,
         UNCHANGED <<disk, dep, llm_model, experiences, runs>>
  PROVE  PipelineInv'
  <1>1. /\ TypeOK /\ run \in Run
        /\ run' = [run EXCEPT !.stage = "returned", !.status = status] /\ exit' \in {-1, 0, 1}
    BY DEF PipelineInv, TypeOK, Return, ExitStatus
  <1>2. /\ run' \in Run /\ run'.stage = "returned" /\ run'.judged = run.judged /\ run'.status = status
        /\ run'.generated = run.generated /\ run'.fresh = run.fresh
    BY <1>1 DEF Run
  <1>3. TypeOK'
    BY <1>1, <1>2 DEF TypeOK, DeploymentTypeOK
  <1>4. Folder' = Folder
    BY DEF Folder
  <1>5. QED
    BY <1>2, <1>3, <1>4
    DEF PipelineInv, Counted, OntoItself, NeverEmpty, FolderAsJudged, NothingFailed, ListedIsWritten,
        JudgedIsGood, Approved, AllFresh, Ended, Busy, Running

LEMMA DeploymentFailsPreserves == PipelineInv /\ DeploymentFails => PipelineInv'
  <1>. SUFFICES ASSUME PipelineInv, DeploymentFails PROVE PipelineInv'
    OBVIOUS
  <1>1. /\ TypeOK /\ dep.status \in ApprovalStatus /\ run.stage = "deploy"
        /\ UNCHANGED <<disk, dep, llm_model, experiences, runs>>
    BY DEF PipelineInv, TypeOK, DeploymentTypeOK, Deployment, DeploymentFails
  <1>2. CASE dep.stage = "raised"
    <2>1. Raised /\ UNCHANGED audit_logs /\ dep.stage \notin Running
      BY <1>2 DEF DeploymentFails, Running
    <2>2. QED
      BY <1>1, <2>1, RaisedPreserves DEF PipelineInv, TypeOK, DeploymentTypeOK, NeverEmpty
  <1>3. CASE dep.stage # "raised"
    <2>1. /\ dep.stage = "returned" /\ dep.status # "deployed" /\ dep.stage \notin Running
          /\ LogAudit("deployment_failed", dep.status) /\ (Return(dep.status) \/ Raised)
      BY <1>3 DEF DeploymentFails, Running
    <2>2. audit_logs' \in Seq([action: AuditActions, status: ApprovalStatus])
      BY <1>1, <2>1, LogAuditType DEF AuditActions
    <2>3. CASE Return(dep.status)
      BY <1>1, <2>1, <2>2, <2>3, ReturnPreserves
    <2>4. CASE Raised
      BY <1>1, <2>1, <2>2, <2>4, RaisedPreserves DEF PipelineInv, TypeOK, DeploymentTypeOK, NeverEmpty
    <2>5. QED
      BY <2>1, <2>3, <2>4
  <1>4. QED
    BY <1>2, <1>3

LEMMA DeploymentCompletePreserves == PipelineInv /\ DeploymentComplete => PipelineInv'
  <1>. SUFFICES ASSUME PipelineInv, DeploymentComplete PROVE PipelineInv'
    OBVIOUS
  <1>1. /\ TypeOK /\ run.stage = "deploy" /\ LastDeployed /\ dep.stage \notin Running
        /\ UNCHANGED <<disk, dep, llm_model, experiences, runs>>
        /\ Return("deployed") \/ Raised
    BY DEF PipelineInv, DeploymentComplete, LastDeployed, Running
  <1>2. audit_logs' \in Seq([action: AuditActions, status: ApprovalStatus])
    BY <1>1, LogAuditType, LogBothType DEF DeploymentComplete, AuditActions, ApprovalStatus
  <1>3. CASE Return("deployed")
    BY <1>1, <1>2, <1>3, ReturnPreserves DEF ApprovalStatus
  <1>4. CASE Raised
    BY <1>1, <1>2, <1>4, RaisedPreserves DEF PipelineInv, TypeOK, DeploymentTypeOK, NeverEmpty
  <1>5. QED
    BY <1>1, <1>3, <1>4

(* One step of a deployment of a file onto itself changes no file as long  *)
(* as it does not fail.                                                    *)
LEMMA DeployStepFacts ==
  ASSUME PipelineInv, DeploymentStep
  PROVE  /\ DeploymentTypeOK' /\ NeverEmpty'
         /\ dep.stage \in Running /\ dep'.artifact = dep'.target
         /\ dep'.stage # "backup"
         /\ (\/ dep'.stage \in {"install", "validate", "succeed"}
             \/ dep'.stage = "returned" /\ dep'.status = "deployed")
              => UNCHANGED disk /\ dep.stage \in {"backup", "install", "validate", "succeed"}
  <1>1. /\ DeploymentTypeOK /\ dep \in Deployment /\ disk \in [Paths -> Contents \cup {Absent}]
        /\ \A p \in Paths : disk[p] # Empty
        /\ dep.backup # Empty /\ dep.target \in Paths /\ Torn \in Contents /\ Torn # Empty /\ Absent # Empty
    BY ContentsAssumption DEF PipelineInv, TypeOK, DeploymentTypeOK, NeverEmpty, Deployment, Contents
  <1>2. dep.stage \in Running /\ dep.artifact = dep.target
    BY DEF PipelineInv, OntoItself, DeploymentStep, CreateBackup, Install, ValidateDeployment,
           Rollback, RecordFailure, Succeed, Running
  <1>3. ASSUME Raise, disk' \in [Paths -> Contents \cup {Absent}], \A p \in Paths : disk'[p] # Empty,
               audit_logs' \in Seq([action: AuditActions, status: ApprovalStatus])
        PROVE  /\ DeploymentTypeOK' /\ NeverEmpty' /\ dep'.artifact = dep'.target
               /\ dep'.stage \in {"raised", "rollback"}
    <2>1. dep'.artifact = dep.artifact
      <3>1. CASE dep.handling = TRUE
        BY <1>1, <1>3, <3>1 DEF Raise, Deployment
      <3>2. CASE dep.handling = FALSE
        BY <1>1, <1>3, <3>2 DEF Raise, Deployment
      <3>3. QED
        BY <1>1, <3>1, <3>2 DEF Deployment
    <2>2. QED
      BY <1>1, <1>2, <1>3, <2>1, RaiseMoves DEF DeploymentTypeOK, NeverEmpty
  <1>4. ASSUME NEW c \in Contents \cup {Absent}, c # Empty, Copied(c)
        PROVE  disk' \in [Paths -> Contents \cup {Absent}] /\ \A p \in Paths : disk'[p] # Empty
    BY <1>1, <1>4 DEF Copied
  <1>5. CASE CreateBackup
    <2>1. dep.stage = "backup" /\ UNCHANGED <<disk, audit_logs>>
      BY <1>5 DEF CreateBackup
    <2>2. CASE Raise
      BY <1>1, <1>2, <1>3, <2>1, <2>2 DEF DeploymentTypeOK
    <2>3. CASE dep' = [dep EXCEPT !.stage = "install", !.backup = disk[dep.target]]
      <3>1. disk[dep.target] \in Contents /\ disk[dep.target] # Empty
        BY <1>1, <2>1 DEF PipelineInv, OntoItself
      <3>2. /\ dep' \in Deployment /\ dep'.stage = "install" /\ dep'.backup = disk[dep.target]
            /\ dep'.artifact = dep.artifact /\ dep'.target = dep.target
        BY <1>1, <2>3, <3>1 DEF Deployment, Stages, Running
      <3>3. QED
        BY <1>1, <1>2, <2>1, <3>1, <3>2 DEF DeploymentTypeOK, NeverEmpty
    <2>4. QED
      BY <1>5, <2>2, <2>3 DEF CreateBackup
  <1>6. CASE Install
    <2>1. dep.stage = "install" /\ UNCHANGED <<disk, audit_logs>> /\ (Reach("validate") \/ Raise)
      BY <1>2, <1>6 DEF Install
    <2>2. CASE Raise
      BY <1>1, <1>2, <1>3, <2>1, <2>2 DEF DeploymentTypeOK
    <2>3. CASE Reach("validate")
      <3>1. /\ dep' \in Deployment /\ dep'.stage = "validate" /\ dep'.backup = dep.backup
            /\ dep'.artifact = dep.artifact /\ dep'.target = dep.target
        BY <1>1, <2>3, ReachMoves DEF Stages, Running
      <3>2. QED
        BY <1>1, <1>2, <2>1, <3>1 DEF DeploymentTypeOK, NeverEmpty
    <2>4. QED
      BY <2>1, <2>2, <2>3
  <1>7. CASE ValidateDeployment
    <2>1. dep.stage = "validate" /\ UNCHANGED <<disk, audit_logs>>
      BY <1>7 DEF ValidateDeployment
    <2>2. Reach("succeed") \/ Reach("rollback")
      BY <1>7 DEF ValidateDeployment
    <2>3. /\ dep' \in Deployment /\ dep'.stage \in {"succeed", "rollback"} /\ dep'.backup = dep.backup
          /\ dep'.artifact = dep.artifact /\ dep'.target = dep.target
      BY <1>1, <2>2, ReachMoves DEF Stages, Running
    <2>4. QED
      BY <1>1, <1>2, <2>1, <2>3 DEF DeploymentTypeOK, NeverEmpty
  <1>8. CASE Rollback
    <2>. DEFINE c == IF dep.backup # NoBackup THEN dep.backup ELSE Absent
    <2>1. dep.stage = "rollback" /\ UNCHANGED audit_logs /\ c \in Contents \cup {Absent} /\ c # Empty
      BY <1>1, <1>8 DEF Rollback, Deployment
    <2>2. CASE Copied(c) /\ Reach("fail")
      <3>1. /\ dep' \in Deployment /\ dep'.stage = "fail" /\ dep'.backup = dep.backup
            /\ dep'.artifact = dep.artifact /\ dep'.target = dep.target
        BY <1>1, <2>2, ReachMoves DEF Stages, Running
      <3>. HIDE DEF c
      <3>2. QED
        BY <1>1, <1>2, <1>4, <2>1, <2>2, <3>1 DEF DeploymentTypeOK, NeverEmpty
    <2>3. CASE Raise /\ (UNCHANGED disk \/ Copied(Torn))
      <3>1. disk' \in [Paths -> Contents \cup {Absent}] /\ \A p \in Paths : disk'[p] # Empty
        BY <1>1, <1>4, <2>3
      <3>2. QED
        BY <1>1, <1>2, <1>3, <2>1, <2>3, <3>1 DEF DeploymentTypeOK
    <2>4. QED
      BY <1>8, <2>2, <2>3 DEF Rollback, CopyCutOff
  <1>9. ASSUME NEW action \in AuditActions, NEW status \in ApprovalStatus, EndWith(action, status),
               dep.stage \in {"succeed", "fail"}, status = "deployed" => dep.stage = "succeed"
        PROVE  /\ DeploymentTypeOK' /\ NeverEmpty' /\ dep'.artifact = dep'.target
               /\ dep'.stage \in {"raised", "rollback", "returned"}
               /\ dep'.stage = "returned" /\ dep'.status = "deployed" =>
                    UNCHANGED disk /\ dep.stage = "succeed"
    <2>1. /\ audit_logs' \in Seq([action: AuditActions, status: ApprovalStatus]) /\ UNCHANGED disk
      BY <1>9, LogAuditType DEF EndWith, PipelineInv
    <2>2. CASE Raise
      BY <1>1, <1>2, <1>3, <2>1, <2>2
    <2>3. CASE dep' = [dep EXCEPT !.stage = "returned", !.status = status]
      <3>1. /\ dep' \in Deployment /\ dep'.stage = "returned" /\ dep'.backup = dep.backup
            /\ dep'.artifact = dep.artifact /\ dep'.target = dep.target /\ dep'.status = status
        BY <1>1, <2>3 DEF Deployment, Stages
      <3>2. QED
        BY <1>1, <1>2, <1>9, <2>1, <3>1 DEF DeploymentTypeOK, NeverEmpty
    <2>4. QED
      BY <1>9, <2>2, <2>3 DEF EndWith
  <1>10. CASE RecordFailure
    <2>. DEFINE status == IF dep.backup # NoBackup THEN "rolled_back" ELSE "deploy_failed"
    <2>1. dep.stage = "fail" /\ EndWith("deployment_failure", status)
      BY <1>10 DEF RecordFailure
    <2>2. status \in ApprovalStatus /\ "deployment_failure" \in AuditActions /\ status # "deployed"
      BY DEF ApprovalStatus, AuditActions
    <2>. HIDE DEF status
    <2>3. QED
      BY <1>2, <1>9, <2>1, <2>2
  <1>11. CASE Succeed
    <2>1. dep.stage = "succeed" /\ EndWith("deployment_success", "deployed")
      BY <1>11 DEF Succeed
    <2>2. "deployed" \in ApprovalStatus /\ "deployment_success" \in AuditActions
      BY DEF ApprovalStatus, AuditActions
    <2>3. QED
      BY <1>2, <1>9, <2>1, <2>2
  <1>12. QED
    BY <1>5, <1>6, <1>7, <1>8, <1>10, <1>11 DEF DeploymentStep

LEMMA DeployStepPreserves == PipelineInv /\ DeployStep => PipelineInv'
  <1>. SUFFICES ASSUME PipelineInv, DeployStep PROVE PipelineInv'
    OBVIOUS
  <1>1. DeploymentStep /\ UNCHANGED <<run, llm_model, experiences, runs, exit>>
    BY DEF DeployStep, pipelineVars
  <1>2. dep.stage \in Running /\ run.stage = "deploy" /\ run.job > 1
    BY <1>1, DeployStepFacts DEF PipelineInv, OntoItself
  <1>3. TypeOK' /\ Counted' /\ OntoItself' /\ NeverEmpty'
    BY <1>1, <1>2, DeployStepFacts DEF PipelineInv, TypeOK, Counted, OntoItself
  <1>4. FolderAsJudged'
    <2>. SUFFICES ASSUME \/ dep'.stage \in {"backup", "install", "validate", "succeed"}
                         \/ dep'.stage = "returned" /\ dep'.status = "deployed"
                  PROVE  Folder' = run'.judged
      BY <1>1, <1>2 DEF FolderAsJudged, NothingFailed, Ended, LastDeployed, PipelineInv, TypeOK, Run
    <2>1. UNCHANGED disk /\ dep.stage \in {"backup", "install", "validate", "succeed"}
      BY <1>1, DeployStepFacts
    <2>2. QED
      BY <1>1, <2>1 DEF Folder, PipelineInv, FolderAsJudged, NothingFailed
  <1>5. ListedIsWritten' /\ JudgedIsGood' /\ Approved' /\ AllFresh'
    BY <1>1, <1>2 DEF PipelineInv, ListedIsWritten, JudgedIsGood, Approved, AllFresh, Ended
  <1>6. QED
    BY <1>3, <1>4, <1>5 DEF PipelineInv

LEMMA PipelineInvariance == Spec => []PipelineInv
  <1>1. PipelineInv /\ [Next]_vars => PipelineInv'
    <2>. SUFFICES ASSUME PipelineInv, [Next]_vars PROVE PipelineInv'
      OBVIOUS
    <2>1. CASE UNCHANGED vars
      BY <2>1 DEF vars, PipelineInv, TypeOK, DeploymentTypeOK, Counted, OntoItself, NeverEmpty, FolderAsJudged, NothingFailed, ListedIsWritten,
        JudgedIsGood, Approved, AllFresh, Ended, Busy, Running,
                  LastDeployed, Folder
    <2>2. CASE Start
      BY <2>2, RunPipelinePreserves DEF Start
    <2>3. CASE RunStep
      BY <2>3, BeginAttemptPreserves, GenerateModulePreserves, GenerateTestPreserves,
         SkipTestPreserves, WriteManifestPreserves, GenerateRaisesPreserves,
         GenerateReturnsPreserves, ValidatePreserves, RunRaisesPreserves, DeployFilePreserves,
         DeploymentFailsPreserves, DeploymentCompletePreserves, DeployStepPreserves
      DEF RunStep, Generate
    <2>4. CASE HumanAnswers
      BY <2>4, HumanGatePreserves DEF HumanAnswers
    <2>5. CASE Finished
      BY <2>1, <2>5 DEF Finished
    <2>6. QED
      BY <2>1, <2>2, <2>3, <2>4, <2>5 DEF Next
  <1>2. QED
    BY <1>1, InitPipeline, PTL DEF Spec

(* Every variable keeps its type: the attempts stay within MAX_ATTEMPTS    *)
(* and the loop over the files within the list.                            *)
THEOREM TypeCorrect == Spec => []TypeOK
  <1>1. PipelineInv => TypeOK
    BY DEF PipelineInv
  <1>2. QED
    BY <1>1, PipelineInvariance, PTL

(* A run that ends as deployed leaves the files the validator judged, and  *)
(* they are well formed: whatever raised in any attempt or earlier run.    *)
THEOREM DeployedWasJudged == Spec => []DeployedAsJudged
  <1>1. PipelineInv => DeployedAsJudged
    BY DEF PipelineInv, FolderAsJudged, NothingFailed, JudgedIsGood, Ended, DeployedAsJudged
  <1>2. QED
    BY <1>1, PipelineInvariance, PTL

(* Every file up for approval and deployment was written by the attempt    *)
(* that passed, but for a manifest that was there.                         *)
THEOREM ListIsOfThisAttempt == Spec => []ListedIsFresh
  <1>1. PipelineInv => ListedIsFresh
    BY DEF PipelineInv, AllFresh, ListedIsFresh
  <1>2. QED
    BY <1>1, PipelineInvariance, PTL

(* Where the settings ask for a human, no deployment runs before the yes.  *)
THEOREM ApprovedFirst == Spec => []DeployedAfterApproval
  <1>1. PipelineInv => DeployedAfterApproval
    BY DEF PipelineInv, OntoItself, Approved, DeployedAfterApproval
  <1>2. QED
    BY <1>1, PipelineInvariance, PTL
=============================================================================
