-------------------------- MODULE WorkflowExecution --------------------------
(***************************************************************************)
(* A run executed from a workflow file that its author goes on editing:    *)
(* the validation of the file (workflow_validation.py) before every        *)
(* execution and every decision, the run's cursor into whatever list of    *)
(* steps the file then holds, and the router (ModelRouter) that asks the   *)
(* models each step names.                                                 *)
(*                                                                         *)
(* A file is what validation tells apart: how it parses, whether fields    *)
(* are missing or unknown, and its steps with names from small sets, each  *)
(* with some that are not in the catalog, on disk or well formed.          *)
(***************************************************************************)
EXTENDS ModelRouter

CONSTANTS
    Files,          \* documents an author may save under the workflow's id
    Requests,       \* requests with the run's modes
    WorkflowId,     \* the id they are asked for by
    Identifiers,    \* names that match IDENTIFIER
    Agents,         \* active agents of the catalog
    InactiveAgents, \* agents with active: false
    Contracts,      \* output schemas
    Resources,      \* prompts, with their version, and skills on disk
    MaxEdits        \* bound

ASSUME EditsAssumption == MaxEdits \in Nat
ASSUME FilesAssumption == \A d \in Files : d.steps \in Seq({d.steps[i] : i \in DOMAIN d.steps})
ASSUME IdentifiersAssumption == "" \notin Identifiers

VARIABLES
    file,       \* the document on disk
    edits,      \* edits made
    request,    \* runs.request and modes, fixed when the run is created
    run,        \* status, cursor, and the wait: step, what its result declares
    steps,      \* the steps this execution holds in memory
    decided     \* history: the step decided on last, and whether the file was
                \* edited since

executionVars == <<file, edits, request, run, steps, decided>>
allVars == <<vars, executionVars>>

-----------------------------------------------------------------------------
(* Validation, as the set of codes of the issues.                          *)

Absent == [syntax |-> "absent", fields |-> "", id |-> "", iterations |-> 0, steps |-> <<>>]

SomeStep(d, Bad(_)) == \E i \in DOMAIN d.steps : Bad(d.steps[i])

(* The codes whose condition holds. *)
Codes(conditions) == {code \in DOMAIN conditions : conditions[code]}

FieldIssues(d) ==
    Codes([missing_field |-> d.fields = "missing", unknown_field |-> d.fields = "unknown",
           invalid_steps |-> d.steps = <<>>])

Duplicated(d) == \E i, j \in DOMAIN d.steps : i # j /\ d.steps[i].id = d.steps[j].id

(* Values of the wrong type are members of none of these sets. *)
StructuralIssues(d) ==
    LET BadName(s) == "" \in {s.agent, s.contract, s.preferred, s.fallback}
        NoPreferred(s) == s.preferred = NoModel
        BadId(s) == s.id \notin Identifiers
        BadReference(s) == s.resource = ""
        BadWeb(s) == s.web \notin {"true", "false", "from_request"}
        BadWhen(s) == s.when \notin {"always", "requires_web", "not_requires_web"}
        BadCheckpoint(s) == s.checkpoint \notin {"true", "false"}
    IN  Codes([invalid_identifier |-> d.id \notin Identifiers \/ SomeStep(d, BadId),
               invalid_value |-> \/ d.iterations < 0
                                 \/ SomeStep(d, BadName) \/ SomeStep(d, BadWeb),
               duplicate_step_id |-> Duplicated(d),
               invalid_reference |-> SomeStep(d, BadReference),
               unsupported_condition |-> SomeStep(d, BadWhen),
               invalid_type |-> SomeStep(d, NoPreferred) \/ SomeStep(d, BadCheckpoint)])

(* Missing fields and malformed steps keep the definition from being built, *)
(* unknown ones are reported with the rest.                                 *)
ParseIssues(d) ==
    IF d.syntax = "invalid" THEN {"yaml_invalid"}
    ELSE IF d.syntax = "list" THEN {"root_not_mapping"}
    ELSE IF d.fields = "missing" \/ d.steps = <<>> THEN FieldIssues(d)
    ELSE FieldIssues(d) \cup StructuralIssues(d)
         \cup Codes([workflow_id_mismatch |-> d.id # WorkflowId])

(* Faulty: only the first model of a step is looked up.                     *)
ReferenceIssuesOfPreferred(d) ==
    LET Unfit(s) == \/ s.preferred \notin Structured
                    \/ s.web = "true" /\ s.preferred \notin WebModels
    IN  Codes([model_incompatible |-> SomeStep(d, Unfit)])

ReferenceIssues(d) ==
    LET Named(s) == {s.preferred, s.fallback} \ {NoModel}
        UnknownAgent(s) == s.agent \notin Agents \cup InactiveAgents
        Inactive(s) == s.agent \in InactiveAgents
        UnknownContract(s) == s.contract \notin Contracts
        UnknownModel(s) == ~(Named(s) \subseteq Models)
        Unfit(s) == \E m \in Named(s) \cap Models :
                        m \notin Structured \/ (s.web = "true" /\ m \notin WebModels)
        NotFound(s) == s.resource \notin Resources
    IN  Codes([unknown_agent |-> SomeStep(d, UnknownAgent),
               inactive_agent |-> SomeStep(d, Inactive),
               unknown_contract |-> SomeStep(d, UnknownContract),
               unknown_model |-> SomeStep(d, UnknownModel),
               model_incompatible |-> SomeStep(d, Unfit),
               prompt_not_found |-> SomeStep(d, NotFound)])

(* preflight: load, then resolve the references of what loaded. *)
PreflightIssues(d) ==
    IF d = Absent THEN {"not_found"}
    ELSE IF ParseIssues(d) # {} THEN ParseIssues(d)
    ELSE ReferenceIssues(d)

(* Faulty: only the range of the cursor is compared.                        *)
ResumeIssuesInRange(list, cursor, saved) ==
    Codes([resume_cursor_out_of_range |-> cursor \notin 0 .. Len(list) - 1])

(* validate_resume_point, for what the run stored when it paused. *)
ResumeIssues(list, cursor, saved) ==
    IF cursor \notin 0 .. Len(list) - 1 THEN {"resume_cursor_out_of_range"}
    ELSE LET s == list[cursor + 1]
         IN  IF s.id # saved.step THEN {"resume_step_mismatch"}
             ELSE Codes([resume_contract_mismatch |-> s.contract # saved.contract])

-----------------------------------------------------------------------------
(* Execution.                                                              *)

Holds(when) == CASE when = "always" -> TRUE
                 [] when = "requires_web" -> request.web
                 [] when = "not_requires_web" -> ~request.web

(* What the router is asked for a step under a request. *)
TaskOf(s, q) ==
    [mode |-> IF s.id \in q.human THEN "human" ELSE q.mode,
     research |-> IF s.id = "research" THEN q.research ELSE "",
     web |-> IF s.web = "from_request" THEN q.web ELSE s.web = "true",
     sensitive |-> q.sensitive, long |-> q.long,
     preferred |-> s.preferred, fallback |-> s.fallback]

(* No step of a document that passes preflight is left out of the router's  *)
(* tasks, whatever models it names.                                         *)
ASSUME StepsAreTasks ==
    \A d \in Files, q \in Requests :
        PreflightIssues(d) = {} => \A i \in DOMAIN d.steps : TaskOf(d.steps[i], q) \in Tasks

NoWait == [step |-> "", contract |-> "", resource |-> ""]
WaitOn(s) == [step |-> s.id, contract |-> s.contract, resource |-> s.resource]

Is(status) == run.status = status
Step == steps[run.cursor + 1]
InLoop == Is("running") /\ At("idle") /\ run.cursor < Len(steps)

Leave(status) ==
    /\ run' = [run EXCEPT !.status = status]
    /\ steps' = <<>>

(* The worker picks the run up: the cancellation, the file, the cursor. *)
PickUp ==
    /\ Is("queued")
    /\ CASE cancel -> Leave("cancelled")
         [] ~cancel /\ \/ PreflightIssues(file) # {}
                       \/ run.cursor > Len(file.steps) -> Leave("failed")
         [] OTHER -> run' = [run EXCEPT !.status = "running"] /\ steps' = file.steps
    /\ UNCHANGED <<vars, file, edits, request, decided>>

Skip ==
    /\ InLoop /\ ~cancel
    /\ ~Holds(Step.when)
    /\ run' = [run EXCEPT !.cursor = @ + 1]
    /\ UNCHANGED <<vars, file, edits, request, steps, decided>>

(* An enabled step asks the router, or waits for a human to execute it. *)
ExecuteStep ==
    /\ InLoop
    /\ Holds(Step.when) \/ cancel
    /\ Ask
    /\ task' = TaskOf(Step, request)
    /\ IF r'.pc = "idle"
       THEN /\ run' = [run EXCEPT !.status = "human", !.wait = WaitOn(Step)]
            /\ steps' = <<>>
       ELSE UNCHANGED <<run, steps>>
    /\ UNCHANGED <<file, edits, request, decided>>

Asking ==
    /\ \/ PassOver \/ TryCandidate \/ GiveUp \/ BeforeCall
       \/ AdapterRefuses \/ ProviderAnswers \/ ValidateResponse
    /\ UNCHANGED executionVars

(* The step is stored; the run waits for its review or goes on. *)
Stored ==
    /\ Returned
    /\ CASE r'.pc # "idle" -> UNCHANGED <<run, steps>>
         [] r'.pc = "idle" /\ Step.checkpoint = "true" ->
                /\ run' = [run EXCEPT !.status = "review", !.wait = WaitOn(Step)]
                /\ steps' = <<>>
         [] OTHER -> run' = [run EXCEPT !.cursor = @ + 1] /\ UNCHANGED steps
    /\ UNCHANGED <<file, edits, request, decided>>

Complete ==
    /\ Is("running") /\ At("idle") /\ run.cursor = Len(steps)
    /\ Leave("completed")
    /\ UNCHANGED <<vars, file, edits, request, decided>>

Stop ==
    /\ Is("running")
    /\ \/ At("cancelled") /\ Leave("cancelled")
       \/ At("budget") /\ Leave("budget")
       \/ At("fail") /\ Leave("failed")
    /\ UNCHANGED <<vars, file, edits, request, decided>>

-----------------------------------------------------------------------------
(* Decisions: the file must still hold the paused step at the cursor.      *)

(* preflight, then validate_waiting_step. *)
WaitFits ==
    /\ ~cancel
    /\ PreflightIssues(file) = {}
    /\ ResumeIssues(file.steps, run.cursor, run.wait) = {}
    /\ LET s == file.steps[run.cursor + 1]
       IN  s.resource = run.wait.resource /\ Holds(s.when)

Resume(status, cursor) ==
    run' = [run EXCEPT !.status = status, !.cursor = cursor, !.wait = NoWait]

Decide(step) == decided' = [step |-> step, edited |-> FALSE]

Approve ==
    /\ Is("review") /\ WaitFits
    /\ LET next == run.cursor + 1
       IN  Resume(IF next = Len(file.steps) THEN "completed" ELSE "queued", next)
    /\ Decide(run.wait.step)
    /\ UNCHANGED <<vars, file, edits, request, steps>>

(* The same step again; MaxTasks stands for max_iterations. *)
RequestChanges ==
    /\ Is("review") /\ WaitFits
    /\ Resume("queued", run.cursor)
    /\ Decide("")
    /\ UNCHANGED <<vars, file, edits, request, steps>>

(* A human answers the step; the review, if there is one, is of that step. *)
Submit ==
    /\ Is("human") /\ WaitFits
    /\ IF file.steps[run.cursor + 1].checkpoint = "true"
       THEN run' = [run EXCEPT !.status = "review"] /\ UNCHANGED decided
       ELSE Resume("queued", run.cursor + 1) /\ Decide(run.wait.step)
    /\ UNCHANGED <<vars, file, edits, request, steps>>

(* An author saves the file, or removes it.  It is read when the run is     *)
(* queued or waits; an edit during an execution is as one right after it.   *)
Edit(d) ==
    /\ run.status \in {"queued", "review", "human"}
    /\ edits < MaxEdits /\ d # file
    /\ file' = d
    /\ edits' = edits + 1
    /\ decided' = [decided EXCEPT !.edited = @ \/ Is("queued")]
    /\ UNCHANGED <<vars, request, run, steps>>

CancelRun ==
    /\ run.status \in {"queued", "running", "review", "human"}
    /\ Cancel
    /\ run' = IF run.status \in {"review", "human"} THEN [run EXCEPT !.status = "cancelled"] ELSE run
    /\ UNCHANGED <<file, edits, request, steps, decided>>

(* create_run accepts a request for a file that passes preflight.           *)
InitExecution ==
    /\ Init
    /\ request \in Requests
    /\ file \in {d \in Files : PreflightIssues(d) = {}}
    /\ task = TaskOf(file.steps[1], request)
    /\ edits = 0
    /\ run = [status |-> "queued", cursor |-> 0, wait |-> NoWait]
    /\ steps = <<>>
    /\ decided = [step |-> "", edited |-> FALSE]

NextExecution ==
    \/ PickUp \/ Skip \/ ExecuteStep \/ Asking \/ Stored \/ Complete \/ Stop
    \/ Approve \/ RequestChanges \/ Submit \/ CancelRun
    \/ \E d \in Files \cup {Absent} : Edit(d)

ExecutionSpec == InitExecution /\ [][NextExecution]_allVars

-----------------------------------------------------------------------------

(* A model named by a step that passed validation with requires_web written *)
(* in the file is never found unfit when the router tries it: what          *)
(* validate_workflow_definition accepts, _validate_compat accepts.          *)
AcceptedModelsFit ==
    At("candidate") /\ r.cand <= Len(Candidates) /\ Step.web # "from_request"
        /\ Candidate \in {Step.preferred, Step.fallback}
    => Candidate \in Structured /\ (NeedsWeb(task) => Candidate \in WebModels)

(* The step a human approved or answered is not executed again next, unless *)
(* the file was edited after that decision: an edit before it that moved    *)
(* the step away from the cursor makes the decision be refused.             *)
DecidedIsNotRepeated ==
    [][left' < left /\ ~decided.edited => Step.id # decided.step]_allVars
=============================================================================
