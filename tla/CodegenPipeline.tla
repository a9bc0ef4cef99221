-------------------------- MODULE CodegenPipeline ---------------------------
(***************************************************************************)
(* The code generation pipeline of atlas_agent: Orchestrator.run_pipeline  *)
(* with the generator, the validator, the self-correcting loop, the human  *)
(* gate and the deployment of every file, and the exit of the command line *)
(* that calls it.                                                          *)
(*                                                                         *)
(* The generator writes straight into the target folder, where a previous  *)
(* version of the files may be: the modules, for Go their tests, and for   *)
(* Go and Rust a manifest.  The artifact the human is asked about, and the *)
(* one deployed, are those same files, as far as generate_project listed   *)
(* them.  One Orchestrator serves one run after another and keeps its LLM  *)
(* client and learning memory.                                             *)
(***************************************************************************)
EXTENDS Deployment

CONSTANTS
  Modules,               \* the paths of the modules, in order
  TestOf,                \* the path of every module's _test.go
  Manifest,              \* the path of go.mod or Cargo.toml
  ManifestText,          \* what is written there
  Language,              \* requirement.language
  RequireHumanApproval,  \* settings.require_human_approval
  MAX_ATTEMPTS,
  Primary, Fallback,     \* LLMClient.model at first, and fallback_model
  MaxRuns                \* bound on the runs of one orchestrator

ASSUME ModulesAssumption ==
  /\ Modules \in Seq(Paths) /\ Modules # <<>> /\ IsInjective(Modules)
  /\ TestOf \in [Range(Modules) -> Paths] /\ Manifest \in Paths
  /\ IsInjective(Modules \o [i \in DOMAIN Modules |-> TestOf[Modules[i]]] \o <<Manifest>>)
  /\ ManifestText \in Good
ASSUME AttemptsAssumption == MAX_ATTEMPTS \in Nat \ {0} /\ MaxRuns \in Nat \ {0}
ASSUME ModelsAssumption == Primary # Fallback
ASSUME SettingsAssumption == Language \in Languages /\ RequireHumanApproval \in BOOLEAN

VARIABLES
  run,               \* the run of run_pipeline: stage, attempt, file, ...
  llm_model,         \* generator.llm.model
  experiences,       \* LearningMemory: what every module was recorded as
  runs,              \* how many runs were started
  exit               \* the exit status of the command line: -1 while it runs

pipelineVars == <<run, llm_model, experiences, runs, exit>>
vars == <<disk, dep, audit_logs, run, llm_model, experiences, runs, exit>>

Busy == {"attempt", "generate", "validate", "approval", "deploy"}
Severities == {"medium", "high", "critical"}

(* What generate_project produces, in order.                               *)
Work ==
  LET Jobs(kind, paths) == [i \in DOMAIN paths |-> [kind |-> kind, path |-> paths[i]]]
  IN  Jobs("module", Modules)
        \o (IF Language = "go"
            THEN Jobs("test", [i \in DOMAIN Modules |-> TestOf[Modules[i]]]) ELSE <<>>)
        \o (IF Language \in {"go", "rust"} THEN Jobs("manifest", <<Manifest>>) ELSE <<>>)

Project == {Work[i].path : i \in DOMAIN Work}
NoFile == [f \in Project |-> Absent]

(* job counts through Work and then through generated, the files listed    *)
(* for deployment; fresh are those this attempt wrote.  original is the    *)
(* model saved at the start of an attempt, judged the files as the         *)
(* validator saw them, previous those the run began with.                  *)
Run ==
  [stage: Busy \cup {"idle", "returned", "raised"}, attempt: 0 .. MAX_ATTEMPTS,
   job: 1 .. Len(Work) + 1, generated: Seq(Project), fresh: SUBSET Project,
   original: {Primary, Fallback},
   answered: {"none", "yes", "no", "eof"}, status: ApprovalStatus,
   judged: [Project -> Contents \cup {Absent}],
   previous: [Project -> Contents \cup {Absent}]]

Folder == [f \in Project |-> disk[f]]

Init ==
  /\ DeploymentInit
  /\ run = [stage |-> "idle", attempt |-> 0, job |-> 1, generated |-> <<>>,
            fresh |-> {}, original |-> Primary,
            answered |-> "none", status |-> "pending", judged |-> NoFile,
            previous |-> NoFile]
  /\ llm_model = Primary
  /\ experiences = {}
  /\ runs = 0
  /\ exit = -1

-----------------------------------------------------------------------------
(* cli.main: the exit status is 0 when the status returned is "approved".  *)
ExitStatus(status) == IF status = "approved" THEN 0 ELSE 1

Return(status) ==
  /\ run' = [run EXCEPT !.stage = "returned", !.status = status]
  /\ exit' = ExitStatus(status)

Raised ==
  /\ run' = [run EXCEPT !.stage = "raised"]
  /\ exit' = 1

(* Two audit entries in a row.  Any entry may be the last of its run:      *)
(* log_audit keeps it in memory before it opens audit.log, which may       *)
(* raise.                                                                  *)
LogBoth(first, second, status) ==
  audit_logs' = audit_logs \o <<[action |-> first, status |-> status],
                                [action |-> second, status |-> status]>>

(* run_pipeline up to the loop: specified says whether the specification   *)
(* has an architecture and modules.                                        *)
RunPipeline(specified) ==
  /\ run.stage \notin Busy
  /\ runs < MaxRuns
  /\ runs' = runs + 1
  /\ IF specified
       THEN /\ LogAudit("pipeline_start", "pending")
            /\ \/ /\ run' = [run EXCEPT !.stage = "attempt", !.attempt = 1, !.job = 1,
                               !.generated = <<>>, !.fresh = {}, !.answered = "none",
                               !.status = "pending", !.judged = NoFile, !.previous = Folder]
                  /\ exit' = -1
               \/ Raised
       ELSE /\ \/ LogAudit("pipeline_start", "pending")
               \/ LogBoth("pipeline_start", "pipeline_failed", "pending")
            /\ Raised
  /\ UNCHANGED <<disk, dep, llm_model, experiences>>

should_escalate_model(attempt) == attempt >= 3

BeginAttempt_SlipKeepsList ==           \* generated_files outlives the attempt
  /\ run.stage = "attempt"
  /\ run' = [run EXCEPT !.stage = "generate", !.job = 1, !.fresh = {},
               !.original = llm_model]
  /\ llm_model' = IF should_escalate_model(run.attempt) THEN Fallback ELSE llm_model
  /\ UNCHANGED <<disk, dep, audit_logs, experiences, runs, exit>>

BeginAttempt ==
  /\ run.stage = "attempt"
  /\ run' = [run EXCEPT !.stage = "generate", !.job = 1, !.generated = <<>>,
               !.fresh = {}, !.original = llm_model]
  /\ llm_model' = IF should_escalate_model(run.attempt) THEN Fallback ELSE llm_model
  /\ UNCHANGED <<disk, dep, audit_logs, experiences, runs, exit>>

(* generate_project: the next job is of this kind.                         *)
Generating(kind) ==
  /\ run.stage = "generate" /\ run.job <= Len(Work)
  /\ Work[run.job].kind = kind

path == Work[run.job].path

Written(c) == disk' = [disk EXCEPT ![path] = c]
Listed == run' = [run EXCEPT !.job = @ + 1, !.generated = Append(@, path),
                    !.fresh = IF disk' # disk \/ Work[run.job].kind # "manifest"
                              THEN @ \cup {path} ELSE @]

(* LearningMemory.record, as the generator calls it.                       *)
record(decision) ==
  experiences' = experiences \cup
    {[run |-> runs, file |-> path, model |-> llm_model, human_decision |-> decision]}

(* A module: write the file, then record it in the learning memory as      *)
(* approved.                                                               *)
GenerateModule(c) ==
  /\ Generating("module")
  /\ Written(c)
  /\ record("approved")
  /\ Listed
  /\ UNCHANGED <<dep, audit_logs, llm_model, runs, exit>>

(* The tests of a Go module, as the model answers; when the client raises  *)
(* a RuntimeError they are left out, and what an earlier attempt or run    *)
(* left at their path stays.                                               *)
GenerateTest(c) ==
  /\ Generating("test")
  /\ Written(c)
  /\ Listed
  /\ UNCHANGED <<dep, audit_logs, llm_model, experiences, runs, exit>>

SkipTest ==
  /\ Generating("test")
  /\ run' = [run EXCEPT !.job = @ + 1]
  /\ UNCHANGED <<disk, dep, audit_logs, llm_model, experiences, runs, exit>>

(* The manifest is written once, and listed every time.                    *)
WriteManifest ==
  /\ Generating("manifest")
  /\ IF disk[path] = Absent THEN Written(ManifestText) ELSE UNCHANGED disk
  /\ Listed
  /\ UNCHANGED <<dep, audit_logs, llm_model, experiences, runs, exit>>

(* The LLM call, the write of the file or that of the experience raises,   *)
(* and generate_project with it.                                           *)
GenerateRaises ==
  /\ run.stage = "generate" /\ run.job <= Len(Work)
  /\ \/ UNCHANGED disk
     \/ ~Generating("manifest") /\ \E c \in Good \cup Bad \cup {Torn} : Written(c)
     \/ Generating("manifest") /\ disk[path] = Absent /\ Written(Torn)
  /\ Raised
  /\ UNCHANGED <<dep, audit_logs, llm_model, experiences, runs>>

GenerateReturns ==
  /\ run.stage = "generate" /\ run.job > Len(Work)
  /\ llm_model' = run.original
  /\ run' = [run EXCEPT !.stage = "validate"]
  /\ UNCHANGED <<disk, dep, audit_logs, experiences, runs, exit>>

-----------------------------------------------------------------------------
(* check_syntax: the parser for Python, the tools for the others, which    *)
(* may also find fault with files that parse, or fail themselves.  The Go  *)
(* tools take whatever is in the folder, tests of an earlier attempt and   *)
(* the manifest included; the others are given the listed source files.    *)
Checked == IF Language = "go" THEN Project ELSE Range(run.generated) \ {Manifest}

SyntaxResults ==
  IF \E f \in Checked : disk[f] \in Bad THEN {FALSE}
  ELSE IF Language = "python" THEN {TRUE} ELSE BOOLEAN

(* run_security_scan: the severities of the findings it may return.        *)
Findings == IF Language = "python" THEN {{}, {"medium"}} ELSE {{}, {"high"}}

(* compute_quality_score in hundredths; completeness and style are full.   *)
Score(syntax_passed, findings) ==
  LET security == IF "critical" \in findings THEN 0
                  ELSE IF "high" \in findings THEN 15 ELSE 30
  IN  (IF syntax_passed THEN 35 ELSE 0) + security + 20 + 15

PASS_THRESHOLD == 80

validate_artifact(syntax_passed, findings) ==
  "critical" \notin findings /\ syntax_passed

Passes(syntax_passed, findings) ==
  /\ Score(syntax_passed, findings) >= PASS_THRESHOLD
  /\ validate_artifact(syntax_passed, findings)

ToHumanGate ==
  /\ LogAudit("pipeline_success", "pending")
  /\ \/ /\ run' = [run EXCEPT !.stage = "approval", !.judged = Folder]
        /\ UNCHANGED exit
     \/ Raised

NextAttempt ==
  /\ run' = [run EXCEPT !.stage = "attempt", !.attempt = @ + 1]
  /\ UNCHANGED <<audit_logs, exit>>

(* The end of the loop without the raise: the last attempt falls through.  *)
LoopExhausted_SlipFallsThrough ==
  /\ run' = [run EXCEPT !.stage = "approval", !.judged = Folder]
  /\ LogAudit("pipeline_failed", "pending")
  /\ UNCHANGED exit

LoopExhausted == Raised /\ LogAudit("pipeline_failed", "pending")

Judge_SlipSameAttempt(syntax_passed, findings) ==
  /\ run.stage = "validate"
  /\ IF Passes(syntax_passed, findings) THEN ToHumanGate
     ELSE run' = [run EXCEPT !.stage = "attempt"] /\ UNCHANGED <<audit_logs, exit>>
  /\ UNCHANGED <<disk, dep, llm_model, experiences, runs>>

(* The end of an attempt: on to the human gate, out with LOOP_EXHAUSTED,   *)
(* or to the next attempt.                                                 *)
Judge(syntax_passed, findings) ==
  /\ run.stage = "validate"
  /\ IF Passes(syntax_passed, findings) THEN ToHumanGate
     ELSE IF run.attempt = MAX_ATTEMPTS THEN LoopExhausted ELSE NextAttempt
  /\ UNCHANGED <<disk, dep, llm_model, experiences, runs>>

Validate ==
  \E syntax_passed \in SyntaxResults, findings \in Findings :
    Judge(syntax_passed, findings)

(* A scanner is missing or times out.                                      *)
RunRaises ==
  /\ run.stage = "validate"
  /\ Raised
  /\ UNCHANGED <<disk, dep, audit_logs, llm_model, experiences, runs>>

-----------------------------------------------------------------------------
(* require_human_approval: the end of the input counts as a no.            *)
Approve(answer) ==
  /\ IF RequireHumanApproval THEN LogAudit("human_approval", "approved")
                             ELSE UNCHANGED audit_logs
  /\ \/ /\ run' = [run EXCEPT !.stage = "deploy", !.job = 1, !.answered = answer,
                     !.status = IF RequireHumanApproval THEN "approved" ELSE @]
        /\ UNCHANGED exit
     \/ RequireHumanApproval /\ Raised

Reject(answer) ==
  \/ /\ answer # "eof"
     /\ LogAudit("human_rejection", "rejected")
     /\ Raised
  \/ /\ IF answer = "eof" THEN LogAudit("pipeline_rejected", "rejected")
        ELSE LogBoth("human_rejection", "pipeline_rejected", "rejected")
     /\ \/ /\ run' = [run EXCEPT !.stage = "returned", !.answered = answer, !.status = "rejected"]
           /\ exit' = ExitStatus("rejected")
        \/ Raised

HumanGate_SlipEof(answer) ==
  /\ run.stage = "approval"
  /\ IF answer # "no" \/ ~RequireHumanApproval THEN Approve(answer) ELSE Reject(answer)
  /\ UNCHANGED <<disk, dep, llm_model, experiences, runs>>

HumanGate(answer) ==
  /\ run.stage = "approval"
  /\ IF answer = "yes" \/ ~RequireHumanApproval THEN Approve(answer) ELSE Reject(answer)
  /\ UNCHANGED <<disk, dep, llm_model, experiences, runs>>

(* The deployment stage: one file after another, each onto itself.         *)
LastDeployed == dep.stage = "returned" /\ dep.status = "deployed"

DeployFile ==
  /\ run.stage = "deploy" /\ run.job <= Len(run.generated)
  /\ run.job = 1 \/ LastDeployed
  /\ Deploy(run.generated[run.job], run.generated[run.job], Language)
  /\ run' = [run EXCEPT !.job = @ + 1]
  /\ UNCHANGED <<llm_model, experiences, runs, exit>>

DeploymentFails ==
  /\ run.stage = "deploy" /\ run.job > 1
  /\ \/ /\ dep.stage = "returned" /\ dep.status # "deployed"
        /\ LogAudit("deployment_failed", dep.status)
        /\ Return(dep.status) \/ Raised
     \/ /\ dep.stage = "raised"
        /\ Raised
        /\ UNCHANGED audit_logs
  /\ UNCHANGED <<disk, dep, llm_model, experiences, runs>>

DeploymentComplete ==
  /\ run.stage = "deploy" /\ run.job > Len(run.generated)
  /\ LastDeployed
  /\ \/ LogAudit("deployment_complete", "deployed") /\ Raised
     \/ /\ LogBoth("deployment_complete", "pipeline_success", "deployed")
        /\ Return("deployed") \/ Raised
  /\ UNCHANGED <<disk, dep, llm_model, experiences, runs>>

DeployStep == DeploymentStep /\ UNCHANGED pipelineVars

Start == \E specified \in BOOLEAN : RunPipeline(specified)
Generate == \E c \in Good \cup Bad : GenerateModule(c) \/ GenerateTest(c)
HumanAnswers == \E answer \in {"yes", "no", "eof"} : HumanGate(answer)

RunStep ==
  \/ BeginAttempt
  \/ Generate
  \/ SkipTest
  \/ WriteManifest
  \/ GenerateRaises
  \/ GenerateReturns
  \/ Validate
  \/ RunRaises
  \/ DeployFile
  \/ DeploymentFails
  \/ DeploymentComplete
  \/ DeployStep

(* Every run has been made.                                                *)
Finished ==
  /\ runs = MaxRuns /\ run.stage \in {"returned", "raised"}
  /\ UNCHANGED vars

Next == Start \/ RunStep \/ HumanAnswers \/ Finished

Spec == Init /\ [][Next]_vars

(* run_pipeline is one thread that never waits but for the human.          *)
Fairness == WF_vars(RunStep)

FairSpec == Spec /\ Fairness

-----------------------------------------------------------------------------
(* The types of all variables; the loop makes at most MAX_ATTEMPTS.        *)
TypeOK ==
  /\ DeploymentTypeOK
  /\ run \in Run
  /\ llm_model \in {Primary, Fallback}
  /\ experiences \subseteq [run: 1 .. MaxRuns, file: Range(Modules),
       model: {Primary, Fallback}, human_decision: {"approved", "rejected"}]
  /\ runs \in 0 .. MaxRuns
  /\ exit \in {-1, 0, 1}

(* A run that ends as deployed leaves in the folder the very files the     *)
(* validator judged, and those it deployed are well formed: what came      *)
(* between, the human gate and the backup, validation and rollback of      *)
(* every file, changed none of them.  A manifest that is there already is  *)
(* never written again: Go's tools may take one that an earlier run left   *)
(* half written, and Rust's are not given it.                              *)
DeployedAsJudged ==
  run.stage = "returned" /\ run.status = "deployed" =>
    /\ Folder = run.judged
    /\ \A f \in Range(run.generated) \ {Manifest} : run.judged[f] \in Good
    /\ Language = "go" /\ Manifest \in Range(run.generated) =>
         run.judged[Manifest] \in Good \cup {Torn}

(* Every file up for approval and deployment was written by the very       *)
(* attempt that passed, but for a manifest that was there: the tests of a  *)
(* failed attempt, still in the folder, are not among them.                *)
ListedIsFresh ==
  run.stage \in {"approval", "deploy", "returned"} =>
    Range(run.generated) \subseteq run.fresh \cup {Manifest}

(* No deployment of a run starts, and no file of it is backed up or put    *)
(* into place, before a human said yes, where the settings ask for one.    *)
DeployedAfterApproval ==
  RequireHumanApproval /\ dep.stage \in Running => run.answered = "yes"

(* A run ends, or stands at the human gate.                                *)
RunEnds == (run.stage = "attempt") ~> (run.stage \in {"returned", "raised", "approval"})

(* What the comment in run_pipeline says, "Restore primary model": between *)
(* runs the client is back on the model it was given.                      *)
ModelIsRestored == run.stage \in {"returned", "raised"} => llm_model = Primary

(* What deployment.py's header promises, "Backup existing files before     *)
(* overwrite": the version of a file that a run found is still there, on   *)
(* its path or in the backup, when a rejected run ends.                    *)
PreviousVersionSurvives ==
  run.stage = "returned" /\ run.status = "rejected" =>
    \A f \in Project : run.previous[f] \in {Absent, disk[f]}

(* What the generator's comment says of an experience it records,          *)
(* "Tentative - orchestrator updates after human gate".                    *)
ExperiencesFollowTheDecision ==
  run.stage = "returned" /\ run.status = "rejected" =>
    \A e \in experiences : e.run = runs => e.human_decision = "rejected"

(* The command line reports the run that deployed everything as a success. *)
DeployedExitsWithZero ==
  run.stage = "returned" /\ run.status = "deployed" => exit = 0
=============================================================================
