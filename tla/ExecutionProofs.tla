---------------------------- MODULE ExecutionProofs ----------------------------
(***************************************************************************)
(* What holds of every execution of a workflow file, whatever documents an *)
(* author saves and however often.  An execution is one of the router, so  *)
(* that what RouterProofs shows holds of it; ExecutionInv relates the      *)
(* cursor to the list of steps it counts in.                               *)
(***************************************************************************)
EXTENDS WorkflowExecution, RouterProofs

(* Steps of the execution that leave the router alone.                      *)
RouterRests ==
    \/ PickUp \/ Skip \/ Complete \/ Stop \/ Approve \/ RequestChanges \/ Submit
    \/ \E d \in Files \cup {Absent} : Edit(d)

LEMMA RestsIsSilent == RouterRests => UNCHANGED vars
BY DEF RouterRests, PickUp, Skip, Complete, Stop, Approve, RequestChanges, Submit, Edit

LEMMA ExecutionStep == [NextExecution]_allVars => [Next]_vars
<1> SUFFICES ASSUME [NextExecution]_allVars PROVE [Next]_vars
    OBVIOUS
<1>1. CASE RouterRests
    BY <1>1, RestsIsSilent
<1>2. CASE UNCHANGED allVars
    BY <1>2 DEF allVars
<1>3. CASE ExecuteStep \/ Asking \/ Stored \/ CancelRun
    BY <1>3 DEF ExecuteStep, Asking, Stored, CancelRun, Next, Execute
<1>4. QED
    BY <1>1, <1>2, <1>3 DEF NextExecution, RouterRests

(* Every execution is a behaviour of the router, which asks what the steps  *)
(* of the files make of the run's settings.                                 *)
THEOREM ExecutionUsesRouter == ExecutionSpec => Spec
<1>1. InitExecution => Init
    BY DEF InitExecution
<1>2. [NextExecution]_allVars => [Next]_vars
    BY ExecutionStep
<1>3. QED
    BY <1>1, <1>2, PTL DEF ExecutionSpec, Spec

(* What RouterProofs shows of the router holds of every execution: whatever *)
(* models the steps of an accepted document name, also one model twice.     *)
THEOREM ExecutionIsSafe ==
    ExecutionSpec => /\ []SensitiveStaysLocal
                     /\ []OneCallAfterCancel
                     /\ []RetriesRepair
                     /\ []FailuresAreRecorded
                     /\ []WebIsGrounded
                     /\ KeepsCallBudget
BY ExecutionUsesRouter, Privacy, CancellationStops, RetriesAreRepairs, FailuresRecorded,
   Grounding, RouterKeepsBudget, PTL

-----------------------------------------------------------------------------
(* What validation leaves.                                                 *)

Accepted(list) == \E d \in Files : PreflightIssues(d) = {} /\ list = d.steps

LEMMA AcceptedIssues ==
    ASSUME NEW d, PreflightIssues(d) = {}
    PROVE  d # Absent /\ ParseIssues(d) = {} /\ ReferenceIssues(d) = {}
BY DEF PreflightIssues

LEMMA ParsedIssues ==
    ASSUME NEW d, ParseIssues(d) = {}
    PROVE  StructuralIssues(d) = {}
<1>1. CASE d.syntax = "invalid" \/ d.syntax = "list"
    BY <1>1 DEF ParseIssues
<1>2. CASE d.syntax \notin {"invalid", "list"} /\ (d.fields = "missing" \/ d.steps = <<>>)
  <2>1. FieldIssues(d) = {}
      BY <1>2 DEF ParseIssues
  <2>2. "missing_field" \in FieldIssues(d) \/ "invalid_steps" \in FieldIssues(d)
      BY <1>2 DEF FieldIssues, Codes
  <2>3. QED
      BY <2>1, <2>2
<1>3. CASE d.syntax \notin {"invalid", "list"} /\ ~(d.fields = "missing" \/ d.steps = <<>>)
  <2> DEFINE rest == Codes([workflow_id_mismatch |-> d.id # WorkflowId])
  <2>1. FieldIssues(d) \cup StructuralIssues(d) \cup rest = {}
      BY <1>3 DEF ParseIssues
  <2> HIDE DEF rest
  <2>2. QED
      BY <2>1
<1>4. QED
    BY <1>1, <1>2, <1>3

LEMMA UniqueSteps ==
    ASSUME NEW d, StructuralIssues(d) = {}
    PROVE  /\ \A i \in DOMAIN d.steps : d.steps[i].id \in Identifiers
           /\ \A i, j \in DOMAIN d.steps : d.steps[i].id = d.steps[j].id => i = j
<1>1. "invalid_identifier" \notin StructuralIssues(d) /\ "duplicate_step_id" \notin StructuralIssues(d)
    OBVIOUS
<1>2. \A i \in DOMAIN d.steps : d.steps[i].id \in Identifiers
    BY <1>1 DEF StructuralIssues, Codes, SomeStep
<1>3. ~Duplicated(d)
    BY <1>1 DEF StructuralIssues, Codes
<1>4. QED
    BY <1>2, <1>3 DEF Duplicated

LEMMA FitModels ==
    ASSUME NEW d, ReferenceIssues(d) = {}, NEW i \in DOMAIN d.steps,
           NEW m \in {d.steps[i].preferred, d.steps[i].fallback} \ {NoModel}
    PROVE  m \in Models /\ m \in Structured /\ (d.steps[i].web = "true" => m \in WebModels)
<1>1. "unknown_model" \notin ReferenceIssues(d) /\ "model_incompatible" \notin ReferenceIssues(d)
    OBVIOUS
<1>2. m \in Models
    BY <1>1 DEF ReferenceIssues, Codes, SomeStep
<1>3. m \in Structured /\ (d.steps[i].web = "true" => m \in WebModels)
    BY <1>1, <1>2 DEF ReferenceIssues, Codes, SomeStep
<1>4. QED
    BY <1>2, <1>3

(* What StepsAreTasks asks of the constants is what the code provides: each *)
(* step of a document that passes preflight is a task of the router's type, *)
(* also one whose fallback is its preferred model.  No execution is left    *)
(* out of the theorems for the models its file names.                       *)
THEOREM AcceptedStepsAreTasks ==
    ASSUME NEW d, PreflightIssues(d) = {}, NEW i \in DOMAIN d.steps,
           NEW q, q.mode \in {"auto", "local", "cloud", "human"},
           q.research \in {"", "human_bridge", "gemini_grounded", "none"},
           q.web \in BOOLEAN, q.sensitive \in BOOLEAN, q.long \in BOOLEAN
    PROVE  TaskOf(d.steps[i], q) \in TaskType
<1> DEFINE s == d.steps[i]
           mode == IF s.id \in q.human THEN "human" ELSE q.mode
           research == IF s.id = "research" THEN q.research ELSE ""
           web == IF s.web = "from_request" THEN q.web ELSE s.web = "true"
<1>1. StructuralIssues(d) = {} /\ ReferenceIssues(d) = {}
    BY AcceptedIssues, ParsedIssues
<1>2. s.preferred # NoModel
  <2>1. "invalid_type" \notin StructuralIssues(d)
      BY <1>1
  <2>2. QED
      BY <2>1 DEF StructuralIssues, Codes, SomeStep
<1>3. s.preferred \in Models /\ s.fallback \in Models \cup {NoModel}
    BY <1>1, <1>2, FitModels
<1>4. /\ mode \in {"auto", "local", "cloud", "human"}
      /\ research \in {"", "human_bridge", "gemini_grounded", "none"}
    OBVIOUS
<1>5. web \in BOOLEAN
  <2>1. (s.web = "true") \in BOOLEAN
      BY Zenon
  <2>2. QED
      BY <2>1
<1>6. TaskOf(s, q) = [mode |-> mode, research |-> research, web |-> web,
                      sensitive |-> q.sensitive, long |-> q.long,
                      preferred |-> s.preferred, fallback |-> s.fallback]
    BY Zenon DEF TaskOf
<1> DEFINE sensitive == q.sensitive
           long == q.long
           preferred == s.preferred
           fallback == s.fallback
<1>7. /\ sensitive \in BOOLEAN /\ long \in BOOLEAN
      /\ preferred \in Models /\ fallback \in Models \cup {NoModel}
    BY <1>3
<1> HIDE DEF mode, research, web, sensitive, long, preferred, fallback
<1>8. [mode |-> mode, research |-> research, web |-> web, sensitive |-> sensitive,
       long |-> long, preferred |-> preferred, fallback |-> fallback] \in TaskType
    BY <1>4, <1>5, <1>7 DEF TaskType
<1>9. QED
    BY <1>6, <1>8, Zenon DEF sensitive, long, preferred, fallback

-----------------------------------------------------------------------------
(* The cursor.                                                             *)

Shapes ==
    /\ run = [status |-> run.status, cursor |-> run.cursor, wait |-> run.wait]
    /\ run.cursor \in Nat
    /\ decided = [step |-> decided.step, edited |-> decided.edited]
    /\ file \in Files \cup {Absent}

(* A run in execution holds a list that passed validation and counts in it; *)
(* the router has been asked for the step at the cursor.                    *)
Held == run.status = "running" => Accepted(steps) /\ run.cursor <= Len(steps)

Asked ==
    r.pc \in {"candidate"} \cup Trying =>
        run.status = "running" /\ run.cursor < Len(steps) /\ task = TaskOf(Step, request)

(* The step last decided on lies behind the cursor, in the file while the   *)
(* run is queued and nobody edited it, and in the list held from then on.   *)
Passed(list) == \E k \in 1 .. run.cursor : k <= Len(list) /\ list[k].id = decided.step

Behind ==
    ~decided.edited /\ decided.step # "" =>
        /\ run.status = "queued" => Passed(file.steps)
        /\ run.status = "running" => Passed(steps)

ExecutionInv == RouterInv /\ Shapes /\ Held /\ Asked /\ Behind

LEMMA AcceptedSteps ==
    ASSUME NEW list, Accepted(list)
    PROVE  /\ Len(list) \in Nat /\ DOMAIN list = 1 .. Len(list)
           /\ \A i \in 1 .. Len(list) : list[i].id \in Identifiers
           /\ \A i, j \in 1 .. Len(list) : list[i].id = list[j].id => i = j
           /\ \A i \in 1 .. Len(list) : \A m \in {list[i].preferred, list[i].fallback} \ {NoModel} :
                  m \in Structured /\ (list[i].web = "true" => m \in WebModels)
<1>1. PICK d \in Files : PreflightIssues(d) = {} /\ list = d.steps
    BY DEF Accepted
<1>2. Len(list) \in Nat /\ DOMAIN list = 1 .. Len(list)
    BY <1>1, FilesAssumption
<1>3. StructuralIssues(d) = {} /\ ReferenceIssues(d) = {}
    BY <1>1, AcceptedIssues, ParsedIssues
<1>4. /\ \A i \in DOMAIN list : list[i].id \in Identifiers
      /\ \A i, j \in DOMAIN list : list[i].id = list[j].id => i = j
    BY <1>1, <1>3, UniqueSteps
<1>5. \A i \in DOMAIN list : \A m \in {list[i].preferred, list[i].fallback} \ {NoModel} :
          m \in Structured /\ (list[i].web = "true" => m \in WebModels)
    BY <1>1, <1>3, FitModels
<1>6. QED
    BY <1>2, <1>4, <1>5

(* A decision moves the cursor to the paused step or past it.               *)
DecidesOn(step, next) == step = "" \/ (next = run.cursor + 1 /\ step = run.wait.step)

LEMMA DecisionKeeps ==
    ASSUME Shapes, r.pc \notin {"candidate"} \cup Trying, UNCHANGED <<r, task, file>>,
           NEW status \in {"queued", "completed"}, NEW next, next = run.cursor \/ next = run.cursor + 1,
           NEW step, Resume(status, next), Decide(step), WaitFits,
           DecidesOn(step, next)
    PROVE  Shapes' /\ Held' /\ Asked' /\ Behind'
<1>1. /\ run' = [status |-> status, cursor |-> next, wait |-> NoWait]
      /\ decided' = [step |-> step, edited |-> FALSE]
  <2>1. run' = [run EXCEPT !.status = status, !.cursor = next, !.wait = NoWait]
      BY DEF Resume
  <2>2. QED
      BY <2>1 DEF Shapes, Decide
<1>2. run.cursor \in Nat /\ next \in Nat
  <2>1. run.cursor \in Nat
      BY DEF Shapes
  <2>2. QED
      BY <2>1
<1>3. Shapes' /\ Held' /\ Asked'
    BY <1>1, <1>2 DEF Shapes, Held, Asked
<1>4. ASSUME step # ""
      PROVE  run.cursor + 1 \in 1 .. next /\ run.cursor + 1 <= Len(file.steps)
             /\ file.steps[run.cursor + 1].id = step
  <2>1. file \in Files
      BY AcceptedIssues DEF WaitFits, Shapes
  <2>2. Len(file.steps) \in Nat
      BY <2>1, FilesAssumption
  <2>3. ResumeIssues(file.steps, run.cursor, run.wait) = {}
      BY DEF WaitFits
  <2>4. run.cursor \in 0 .. Len(file.steps) - 1
      BY <2>3 DEF ResumeIssues
  <2>5. file.steps[run.cursor + 1].id = run.wait.step
      BY <2>3, <2>4 DEF ResumeIssues
  <2>6. run.cursor + 1 \in 1 .. next /\ run.cursor + 1 <= Len(file.steps)
    <3>1. next = run.cursor + 1
        BY <1>4 DEF DecidesOn
    <3>2. QED
        BY <3>1, <1>2, <2>2, <2>4
  <2>7. QED
      BY <1>4, <2>5, <2>6 DEF DecidesOn
<1>5. Behind'
    BY <1>1, <1>4 DEF Behind, Passed
<1>6. QED
    BY <1>3, <1>5
(* The run stops, waits or ends: it holds no list and counts in none.       *)
LEMMA LeavingKeeps ==
    ASSUME Shapes, UNCHANGED <<file, decided>>,
           NEW status \in {"cancelled", "failed", "completed", "budget", "human", "review"},
           NEW wait, run' = [status |-> status, cursor |-> run.cursor, wait |-> wait]
    PROVE  Shapes' /\ Held' /\ Behind'
<1>1. run'.status = status /\ run'.cursor = run.cursor /\ run'.wait = wait
    OBVIOUS
<1>2. Shapes'
    BY <1>1 DEF Shapes
<1>3. Held' /\ Behind'
    BY <1>1 DEF Held, Behind
<1>4. QED
    BY <1>2, <1>3

(* The cursor passes a step of the list held.                               *)
LEMMA AdvancingKeeps ==
    ASSUME Shapes, Held, Behind, UNCHANGED <<file, decided, steps>>,
           run.status = "running", run.cursor < Len(steps), run' = [run EXCEPT !.cursor = @ + 1]
    PROVE  Shapes' /\ Held' /\ Behind'
<1>1. run.cursor \in Nat /\ Accepted(steps) /\ Len(steps) \in Nat
    BY AcceptedSteps DEF Shapes, Held
<1>2. run' = [status |-> "running", cursor |-> run.cursor + 1, wait |-> run.wait]
    BY DEF Shapes
<1>3. run'.status = "running" /\ run'.cursor = run.cursor + 1 /\ run'.wait = run.wait
    BY <1>2
<1>4. Shapes'
    BY <1>1, <1>2, <1>3 DEF Shapes
<1>5. run.cursor + 1 <= Len(steps)
    BY <1>1
<1>6. Held'
    BY <1>1, <1>3, <1>5 DEF Held, Accepted
<1>7. \A k \in 1 .. run.cursor : k \in 1 .. run.cursor + 1
    BY <1>1
<1>8. Behind'
  <2> SUFFICES ASSUME ~decided.edited, decided.step # ""
               PROVE  \E k \in 1 .. run.cursor + 1 : k <= Len(steps) /\ steps[k].id = decided.step
      BY <1>3 DEF Behind, Passed
  <2>1. \E k \in 1 .. run.cursor : k <= Len(steps) /\ steps[k].id = decided.step
      BY DEF Behind, Passed
  <2>2. QED
      BY <2>1, <1>7
<1>9. QED
    BY <1>4, <1>6, <1>8

(* Nothing the execution keeps changes but what the router holds.           *)
LEMMA RestingKeeps ==
    ASSUME Shapes, Held, Behind, UNCHANGED <<file, decided, steps, run>>
    PROVE  Shapes' /\ Held' /\ Behind'
BY DEF Shapes, Held, Behind, Passed, Accepted

LEMMA PickUpKeeps == ExecutionInv /\ PickUp => Shapes' /\ Held' /\ Asked' /\ Behind'
<1> SUFFICES ASSUME ExecutionInv, PickUp PROVE Shapes' /\ Held' /\ Asked' /\ Behind'
    OBVIOUS
<1>0. /\ Shapes /\ run.status = "queued" /\ run.cursor \in Nat
      /\ UNCHANGED <<r, task, file, decided>>
    BY DEF ExecutionInv, Shapes, PickUp, Is, vars
<1>1. Asked'
  <2>1. r'.pc \notin {"candidate"} \cup Trying
      BY <1>0 DEF ExecutionInv, Asked
  <2>2. QED
      BY <2>1 DEF Asked
<1>2. CASE \E status \in {"cancelled", "failed"} : Leave(status)
  <2>1. PICK status \in {"cancelled", "failed"} : run' = [run EXCEPT !.status = status]
      BY <1>2 DEF Leave
  <2>2. run' = [status |-> status, cursor |-> run.cursor, wait |-> run.wait]
      BY <2>1, <1>0 DEF Shapes
  <2>3. QED
      BY <1>0, <1>1, <2>2, LeavingKeeps
<1>3. CASE /\ PreflightIssues(file) = {} /\ ~(run.cursor > Len(file.steps))
           /\ run' = [run EXCEPT !.status = "running"] /\ steps' = file.steps
  <2>1. file \in Files /\ Accepted(file.steps)
      BY <1>0, <1>3, AcceptedIssues DEF Shapes, Accepted
  <2>2. Len(file.steps) \in Nat
      BY <2>1, AcceptedSteps
  <2>3. run' = [status |-> "running", cursor |-> run.cursor, wait |-> run.wait]
      BY <1>0, <1>3 DEF Shapes
  <2>4. run'.status = "running" /\ run'.cursor = run.cursor /\ run'.wait = run.wait
      BY <2>3
  <2>5. Shapes'
      BY <1>0, <2>3, <2>4 DEF Shapes
  <2>6. run.cursor <= Len(file.steps)
      BY <1>0, <1>3, <2>2
  <2>7. Held'
      BY <1>3, <2>1, <2>4, <2>6 DEF Held, Accepted
  <2>8. Behind'
      BY <1>0, <1>3, <2>4 DEF ExecutionInv, Behind, Passed
  <2>9. QED
      BY <1>1, <2>5, <2>7, <2>8
<1>4. QED
  <2>1. CASE cancel
      BY <2>1, <1>2 DEF PickUp
  <2>2. CASE ~cancel /\ (PreflightIssues(file) # {} \/ run.cursor > Len(file.steps))
      BY <2>2, <1>2 DEF PickUp
  <2>3. CASE ~cancel /\ PreflightIssues(file) = {} /\ ~(run.cursor > Len(file.steps))
      BY <2>3, <1>3 DEF PickUp
  <2>4. QED
      BY <2>1, <2>2, <2>3

LEMMA ExecuteKeeps == ExecutionInv /\ ExecuteStep => Shapes' /\ Held' /\ Asked' /\ Behind'
<1> SUFFICES ASSUME ExecutionInv, ExecuteStep PROVE Shapes' /\ Held' /\ Asked' /\ Behind'
    OBVIOUS
<1>0. /\ Shapes /\ Held /\ Behind /\ run.status = "running" /\ run.cursor < Len(steps)
      /\ UNCHANGED <<file, request, decided>> /\ task' = TaskOf(Step, request)
      /\ r'.pc \in {"idle", "cancelled", "budget", "fail", "candidate"}
  <2>1. r \in RouterState /\ Ask
      BY DEF ExecutionInv, RouterInv, TypeOK, ExecuteStep
  <2>2. r'.pc \in {"idle", "cancelled", "budget", "fail", "candidate"}
      BY <2>1, AskStarts
  <2>3. QED
      BY <2>2 DEF ExecutionInv, ExecuteStep, InLoop, Is
<1>1. CASE r'.pc = "idle"
  <2>1. run' = [run EXCEPT !.status = "human", !.wait = WaitOn(Step)]
      BY <1>1 DEF ExecuteStep
  <2>2. run' = [status |-> "human", cursor |-> run.cursor, wait |-> WaitOn(Step)]
      BY <2>1, <1>0 DEF Shapes
  <2>3. Shapes' /\ Held' /\ Behind'
      BY <1>0, <2>2, LeavingKeeps
  <2>4. Asked'
      BY <1>1 DEF Asked, Trying
  <2>5. QED
      BY <2>3, <2>4
<1>2. CASE r'.pc # "idle"
  <2>1. UNCHANGED <<run, steps>>
      BY <1>2 DEF ExecuteStep
  <2>2. Asked'
      BY <1>0, <2>1 DEF Asked, Step, TaskOf
  <2>3. QED
      BY <1>0, <2>1, <2>2, RestingKeeps
<1>3. QED
    BY <1>1, <1>2

LEMMA AskingKeeps == ExecutionInv /\ Asking => Shapes' /\ Held' /\ Asked' /\ Behind'
<1> SUFFICES ASSUME ExecutionInv, Asking PROVE Shapes' /\ Held' /\ Asked' /\ Behind'
    OBVIOUS
<1>1. UNCHANGED <<file, request, run, steps, decided, task>>
    BY DEF Asking, executionVars, PassOver, TryCandidate, GiveUp, BeforeCall, AdapterRefuses,
           ProviderAnswers, ValidateResponse
<1>2. r.pc \in {"candidate"} \cup Trying
    BY DEF Asking, Trying, At, PassOver, TryCandidate, GiveUp, BeforeCall, AdapterRefuses,
           ProviderAnswers, ValidateResponse
<1>3. Asked'
    BY <1>1, <1>2 DEF ExecutionInv, Asked, Step, TaskOf
<1>4. QED
    BY <1>1, <1>3, RestingKeeps DEF ExecutionInv

LEMMA StoredKeeps == ExecutionInv /\ Stored => Shapes' /\ Held' /\ Asked' /\ Behind'
<1> SUFFICES ASSUME ExecutionInv, Stored PROVE Shapes' /\ Held' /\ Asked' /\ Behind'
    OBVIOUS
<1>0. /\ Shapes /\ Held /\ Behind /\ run.status = "running" /\ run.cursor < Len(steps)
      /\ UNCHANGED <<file, request, decided>>
    BY DEF ExecutionInv, Asked, Trying, Stored, Returned, At
<1>1. Asked'
  <2>1. r \in RouterState /\ \E q \in {"cancelled", "idle"} : r' = [r EXCEPT !.pc = q]
      BY DEF Stored, Returned, Goto, ExecutionInv, RouterInv, TypeOK
  <2>2. r'.pc \in {"cancelled", "idle"}
      BY <2>1 DEF RouterState
  <2>3. QED
      BY <2>2 DEF Asked, Trying
<1>2. CASE UNCHANGED <<run, steps>>
    BY <1>0, <1>1, <1>2, RestingKeeps
<1>3. CASE run' = [run EXCEPT !.status = "review", !.wait = WaitOn(Step)]
  <2>1. run' = [status |-> "review", cursor |-> run.cursor, wait |-> WaitOn(Step)]
      BY <1>3, <1>0 DEF Shapes
  <2>2. QED
      BY <1>0, <1>1, <2>1, LeavingKeeps
<1>4. CASE run' = [run EXCEPT !.cursor = @ + 1] /\ UNCHANGED steps
    BY <1>0, <1>1, <1>4, AdvancingKeeps
<1>5. QED
  <2>1. CASE r'.pc # "idle"
      BY <2>1, <1>2 DEF Stored
  <2>2. CASE r'.pc = "idle" /\ Step.checkpoint = "true"
      BY <2>2, <1>3 DEF Stored
  <2>3. CASE r'.pc = "idle" /\ Step.checkpoint # "true"
      BY <2>3, <1>4 DEF Stored
  <2>4. QED
      BY <2>1, <2>2, <2>3

LEMMA SkipOrEndKeeps ==
    ExecutionInv /\ (Skip \/ Complete \/ Stop) => Shapes' /\ Held' /\ Asked' /\ Behind'
<1> SUFFICES ASSUME ExecutionInv, Skip \/ Complete \/ Stop PROVE Shapes' /\ Held' /\ Asked' /\ Behind'
    OBVIOUS
<1>0. /\ Shapes /\ Held /\ Behind /\ r'.pc \notin {"candidate"} \cup Trying
      /\ UNCHANGED <<file, decided>>
    BY DEF ExecutionInv, Trying, Skip, Complete, Stop, InLoop, At, vars
<1>1. Asked'
    BY <1>0 DEF Asked
<1>2. CASE Skip
  <2>1. /\ run.status = "running" /\ run.cursor < Len(steps) /\ UNCHANGED steps
        /\ run' = [run EXCEPT !.cursor = @ + 1]
      BY <1>2 DEF Skip, InLoop, Is
  <2>2. QED
      BY <1>0, <1>1, <2>1, AdvancingKeeps
<1>3. CASE Complete \/ Stop
  <2>1. PICK status \in {"completed", "cancelled", "budget", "failed"} :
            run' = [run EXCEPT !.status = status]
      BY <1>3 DEF Complete, Stop, Leave
  <2>2. run' = [status |-> status, cursor |-> run.cursor, wait |-> run.wait]
      BY <2>1, <1>0 DEF Shapes
  <2>3. QED
      BY <1>0, <1>1, <2>2, LeavingKeeps
<1>4. QED
    BY <1>2, <1>3

LEMMA WaitingKeeps ==
    ExecutionInv /\ (Approve \/ RequestChanges \/ Submit) => Shapes' /\ Held' /\ Asked' /\ Behind'
<1> SUFFICES ASSUME ExecutionInv, Approve \/ RequestChanges \/ Submit
             PROVE  Shapes' /\ Held' /\ Asked' /\ Behind'
    OBVIOUS
<1>0. /\ Shapes /\ WaitFits /\ run.status \in {"review", "human"}
      /\ UNCHANGED <<r, task, file>>
    BY DEF ExecutionInv, Approve, RequestChanges, Submit, Is, vars
<1>1. r.pc \notin {"candidate"} \cup Trying
    BY <1>0 DEF ExecutionInv, Asked
<1>2. CASE Approve
  <2>1. PICK status \in {"queued", "completed"} : Resume(status, run.cursor + 1)
      BY <1>2 DEF Approve
  <2>2. Decide(run.wait.step) /\ DecidesOn(run.wait.step, run.cursor + 1)
      BY <1>2 DEF Approve, DecidesOn
  <2>3. QED
      BY <1>0, <1>1, <2>1, <2>2, DecisionKeeps
<1>3. CASE RequestChanges
  <2>1. Resume("queued", run.cursor) /\ Decide("") /\ DecidesOn("", run.cursor)
      BY <1>3 DEF RequestChanges, DecidesOn
  <2>2. QED
      BY <1>0, <1>1, <2>1, DecisionKeeps
<1>4. CASE Submit /\ Resume("queued", run.cursor + 1) /\ Decide(run.wait.step)
  <2>1. DecidesOn(run.wait.step, run.cursor + 1)
      BY DEF DecidesOn
  <2>2. QED
      BY <1>0, <1>1, <1>4, <2>1, DecisionKeeps
<1>5. CASE run' = [run EXCEPT !.status = "review"] /\ UNCHANGED decided
  <2>1. run' = [status |-> "review", cursor |-> run.cursor, wait |-> run.wait]
      BY <1>5, <1>0 DEF Shapes
  <2>2. Asked'
      BY <1>0, <1>1 DEF Asked
  <2>3. QED
      BY <1>0, <1>5, <2>1, <2>2, LeavingKeeps
<1>6. QED
    BY <1>2, <1>3, <1>4, <1>5 DEF Submit

LEMMA EditKeeps ==
    ASSUME ExecutionInv, NEW d \in Files \cup {Absent}, Edit(d)
    PROVE  Shapes' /\ Held' /\ Asked' /\ Behind'
<1>0. /\ Shapes /\ run.status \in {"queued", "review", "human"}
      /\ UNCHANGED <<r, task, run, steps>> /\ file' = d
      /\ decided' = [decided EXCEPT !.edited = @ \/ Is("queued")]
    BY DEF ExecutionInv, Edit, vars
<1>1. decided' = [step |-> decided.step, edited |-> decided.edited \/ Is("queued")]
    BY <1>0 DEF Shapes
<1>2. decided'.step = decided.step /\ decided'.edited = (decided.edited \/ Is("queued"))
    BY <1>1
<1>3. Shapes'
    BY <1>0, <1>1, <1>2 DEF Shapes
<1>4. Held' /\ Asked'
    BY <1>0 DEF ExecutionInv, Held, Asked
<1>5. Behind'
    BY <1>0, <1>2 DEF Behind, Is
<1>6. QED
    BY <1>3, <1>4, <1>5

LEMMA CancelKeeps == ExecutionInv /\ CancelRun => Shapes' /\ Held' /\ Asked' /\ Behind'
<1> SUFFICES ASSUME ExecutionInv, CancelRun PROVE Shapes' /\ Held' /\ Asked' /\ Behind'
    OBVIOUS
<1>0. Shapes /\ Held /\ Behind /\ UNCHANGED <<file, request, steps, decided, r, task>>
    BY DEF ExecutionInv, CancelRun, Cancel
<1>1. CASE run.status \in {"review", "human"}
  <2>1. run' = [run EXCEPT !.status = "cancelled"]
      BY <1>1 DEF CancelRun
  <2>2. run' = [status |-> "cancelled", cursor |-> run.cursor, wait |-> run.wait]
      BY <2>1, <1>0 DEF Shapes
  <2>3. Asked'
      BY <1>0, <1>1 DEF ExecutionInv, Asked
  <2>4. QED
      BY <1>0, <2>2, <2>3, LeavingKeeps
<1>2. CASE run.status \notin {"review", "human"}
  <2>1. run' = run
      BY <1>2 DEF CancelRun
  <2>2. Asked'
      BY <1>0, <2>1 DEF ExecutionInv, Asked, Step, TaskOf
  <2>3. QED
      BY <1>0, <2>1, <2>2, RestingKeeps
<1>3. QED
    BY <1>1, <1>2

LEMMA ExecutionKeeps == ExecutionInv /\ [NextExecution]_allVars => ExecutionInv'
<1> SUFFICES ASSUME ExecutionInv, [NextExecution]_allVars PROVE ExecutionInv'
    OBVIOUS
<1>1. RouterInv'
    BY ExecutionStep, RouterKeeps DEF ExecutionInv
<1>2. CASE UNCHANGED allVars
  <2>1. UNCHANGED <<file, request, run, steps, decided, r, task>>
      BY <1>2 DEF allVars, vars, executionVars
  <2>2. Asked'
      BY <2>1 DEF ExecutionInv, Asked, Step, TaskOf
  <2>3. QED
      BY <1>1, <2>1, <2>2, RestingKeeps DEF ExecutionInv
<1>3. CASE NextExecution
  <2>1. Shapes' /\ Held' /\ Asked' /\ Behind'
      BY <1>3, PickUpKeeps, ExecuteKeeps, AskingKeeps, StoredKeeps, SkipOrEndKeeps, WaitingKeeps,
         EditKeeps, CancelKeeps DEF NextExecution
  <2>2. QED
      BY <1>1, <2>1 DEF ExecutionInv
<1>4. QED
    BY <1>2, <1>3

LEMMA ExecutionAlways == ExecutionSpec => []ExecutionInv
<1>1. InitExecution => ExecutionInv
  <2> SUFFICES ASSUME InitExecution PROVE ExecutionInv
      OBVIOUS
  <2>1. RouterInv /\ r.pc = "idle"
      BY RouterInitial DEF InitExecution, Init, Fresh
  <2>2. /\ run = [status |-> "queued", cursor |-> 0, wait |-> NoWait]
        /\ decided = [step |-> "", edited |-> FALSE] /\ file \in Files
      BY DEF InitExecution
  <2>3. Shapes /\ Held /\ Behind
      BY <2>2 DEF Shapes, Held, Behind
  <2>4. QED
      BY <2>1, <2>3 DEF ExecutionInv, Asked, Trying
<1>2. ExecutionInv /\ [NextExecution]_allVars => ExecutionInv'
    BY ExecutionKeeps
<1>3. QED
    BY <1>1, <1>2, PTL DEF ExecutionSpec

-----------------------------------------------------------------------------

(* A model a validated step names is fit for what the router then asks of   *)
(* it: validate_workflow_definition leaves nothing for _validate_compat to  *)
(* find, however the file is edited between two executions.                 *)
THEOREM ValidatedModelsFit == ExecutionSpec => []AcceptedModelsFit
<1>1. ExecutionInv => AcceptedModelsFit
  <2> SUFFICES ASSUME ExecutionInv, At("candidate"), r.cand <= Len(Candidates),
                      Step.web # "from_request", Candidate \in {Step.preferred, Step.fallback}
               PROVE  Candidate \in Structured /\ (NeedsWeb(task) => Candidate \in WebModels)
      BY DEF AcceptedModelsFit
  <2>1. /\ TypeOK /\ Accepted(steps) /\ run.cursor \in Nat /\ run.cursor < Len(steps)
        /\ task = TaskOf(Step, request)
      BY DEF ExecutionInv, RouterInv, Shapes, Held, Asked, At
  <2>2. Candidate # NoModel
      BY <2>1, CandidateModel, CatalogAssumption
  <2>3. run.cursor + 1 \in 1 .. Len(steps)
      BY <2>1, AcceptedSteps
  <2>4. Candidate \in Structured /\ (Step.web = "true" => Candidate \in WebModels)
      BY <2>1, <2>2, <2>3, AcceptedSteps DEF Step
  <2>5. NeedsWeb(task) => Step.web = "true"
      BY <2>1 DEF NeedsWeb, TaskOf
  <2>6. QED
      BY <2>4, <2>5
<1>2. QED
    BY ExecutionAlways, <1>1, PTL

(* A step a human approved or answered is not the next one executed unless  *)
(* the file was edited since: validate_resume_point and the unique ids of a *)
(* valid file keep it behind the cursor.                                    *)
THEOREM DecisionsStand == ExecutionSpec => DecidedIsNotRepeated
<1>1. ExecutionInv /\ [NextExecution]_allVars
          => [left' < left /\ ~decided.edited => Step.id # decided.step]_allVars
  <2> SUFFICES ASSUME ExecutionInv, NextExecution, left' < left, ~decided.edited
               PROVE  Step.id # decided.step
      OBVIOUS
  <2>1. ExecuteStep
    <3>1. left \in Nat
        BY LimitsAssumption DEF ExecutionInv, RouterInv, TypeOK
    <3>2. CASE RouterRests \/ Asking \/ Stored \/ CancelRun
      <4>1. left' = left
          BY <3>2, RestsIsSilent
             DEF vars, Asking, Stored, Returned, CancelRun, Cancel, PassOver, TryCandidate, GiveUp,
                 BeforeCall, AdapterRefuses, ProviderAnswers, ValidateResponse
      <4>2. QED
          BY <3>1, <4>1
    <3>3. QED
        BY <3>2 DEF NextExecution, RouterRests
  <2>2. /\ run.status = "running" /\ run.cursor \in Nat /\ run.cursor < Len(steps)
        /\ Accepted(steps)
      BY <2>1 DEF ExecuteStep, InLoop, Is, ExecutionInv, Shapes, Held
  <2>3. /\ run.cursor + 1 \in 1 .. Len(steps)
        /\ \A k \in 1 .. run.cursor : k \in 1 .. Len(steps) /\ k # run.cursor + 1
      BY <2>2, AcceptedSteps
  <2>4. CASE decided.step = ""
    <3>1. Step.id \in Identifiers
        BY <2>2, <2>3, AcceptedSteps DEF Step
    <3>2. QED
        BY <2>4, <3>1, IdentifiersAssumption
  <2>5. CASE decided.step # ""
    <3>1. PICK k \in 1 .. run.cursor : steps[k].id = decided.step
        BY <2>2, <2>5 DEF ExecutionInv, Behind, Passed
    <3>2. steps[k].id # steps[run.cursor + 1].id
        BY <2>2, <2>3, AcceptedSteps
    <3>3. QED
        BY <3>1, <3>2 DEF Step
  <2>6. QED
      BY <2>4, <2>5
<1>2. QED
    BY ExecutionAlways, <1>1, PTL DEF ExecutionSpec, DecidedIsNotRepeated
=============================================================================
