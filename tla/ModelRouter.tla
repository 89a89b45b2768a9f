----------------------------- MODULE ModelRouter -----------------------------
(***************************************************************************)
(* The answers one run asks of language models: the route of each step     *)
(* (WorkflowEngine._routing_for_step), ModelRouter.execute over the bound  *)
(* models, the adapters, and the callbacks the engine gives the router:    *)
(* consume_llm_call, validate_response and record_failed_attempt.          *)
(*                                                                         *)
(* A model is a model value, an answer is valid or not; what an adapter    *)
(* reports is its kind of error, of which the router only tells a badly    *)
(* structured answer from the rest.  Each callback that touches the store  *)
(* is an action, so that a cancellation comes between any two of them.     *)
(***************************************************************************)
EXTENDS Integers, Sequences, FiniteSets

CONSTANTS
    Ollama, Gemini, OpenAI, \* the catalog's models by provider
    WebModels,      \* those with web: true in the catalog
    Structured,     \* those with structured_output: true
    Served,         \* those whose provider has an adapter
    LocalModel,     \* local_default and local_reasoning
    CloudModel,     \* cloud_fast and cloud_advanced
    GroundedModel,  \* gemini_grounded
    Fixture,        \* the fake adapter's model
    NoModel,        \* no fallback
    Tasks,          \* the model steps of the workflow, with the run's settings
    MaxRetries,     \* ModelBinding.max_retries
    MaxLLM,         \* runs.max_llm_calls
    MaxTasks        \* bound: steps executed

Models == Ollama \cup Gemini \cup OpenAI
Cloud == Gemini \cup OpenAI

(* A model step under its run's settings: the execution mode of the run or  *)
(* of step_modes, and for the step named research the run's research_mode.  *)
TaskType == [mode: {"auto", "local", "cloud", "human"},
             research: {"", "human_bridge", "gemini_grounded", "none"},
             web: BOOLEAN, sensitive: BOOLEAN, long: BOOLEAN,
             preferred: Models, fallback: Models \cup {NoModel}]

ASSUME CatalogAssumption ==
    /\ Ollama \cap Cloud = {}
    /\ LocalModel \in Ollama
    /\ CloudModel \in Cloud
    /\ GroundedModel \in Gemini
    /\ {Fixture, NoModel} \cap Models = {}
    /\ Fixture # NoModel
(* Nothing keeps a step from naming its preferred model as fallback too.   *)
ASSUME TasksAssumption == Tasks \subseteq TaskType
ASSUME LimitsAssumption == MaxRetries \in Nat /\ MaxLLM \in Nat /\ MaxTasks \in Nat

VARIABLES
    dry,        \* ModelRouter.dry_run
    cancel,     \* runs.cancel_requested
    llmCalls,   \* runs.llm_calls
    task,       \* the step being executed
    left,       \* steps that may still be executed
    r,          \* ModelRouter.execute: position, candidate, retry, calls made
    attempts,   \* the list `attempts` of this execution
    usage,      \* telemetry rows, one per record that could be written
    lost,       \* records of this execution that could not be written
    sent,       \* history: the prompts given to a provider
    late        \* history: prompts sent since the cancellation

vars == <<dry, cancel, llmCalls, task, left, r, attempts, usage, lost, sent, late>>

Whys == {"ok", "structured", "other"}
Attempt == [model: Models \cup {Fixture}, retry: 0 .. MaxRetries, why: Whys]
UsageRow == [task: 0 .. MaxTasks, model: Models \cup {Fixture}, ok: BOOLEAN]
RouterState == [pc: {"idle", "candidate", "call", "infer", "validate", "returned",
                     "fail", "budget", "cancelled"},
                cand: 1 .. 3, retry: 0 .. MaxRetries, tries: 0 .. MaxRetries + 2]

TypeOK ==
    /\ dry \in BOOLEAN /\ cancel \in BOOLEAN
    /\ llmCalls \in 0 .. MaxLLM
    /\ task \in Tasks
    /\ left \in 0 .. MaxTasks
    /\ r \in RouterState
    /\ attempts \in Seq(Attempt)
    /\ usage \in Seq(UsageRow)
    /\ lost \in Nat
    /\ sent \subseteq [model: Models \cup {Fixture}, sensitive: BOOLEAN]
    /\ late \in Nat

-----------------------------------------------------------------------------
(* Routing.                                                                *)

(* The mode of the step: research on the web has a mode of its own.         *)
Mode(t) == CASE t.web /\ t.research = "human_bridge" -> "human"
             [] t.web /\ t.research = "gemini_grounded" -> "cloud"
             [] OTHER -> t.mode

(* Faulty: privacy is looked at only where cloud is asked for.              *)
BindingIgnoringPrivacy(t) ==
    CASE Mode(t) = "local" -> <<LocalModel>>
      [] Mode(t) = "cloud" -> <<IF t.web THEN GroundedModel ELSE CloudModel>>
      [] OTHER -> IF t.fallback = NoModel THEN <<t.preferred>>
                                          ELSE <<t.preferred, t.fallback>>

(* The models a step may use, in order. *)
Binding(t) ==
    CASE Mode(t) = "local" \/ (Mode(t) = "auto" /\ t.sensitive) -> <<LocalModel>>
      [] Mode(t) = "cloud" -> <<IF t.web THEN GroundedModel ELSE CloudModel>>
      [] OTHER -> IF t.fallback = NoModel THEN <<t.preferred>>
                                          ELSE <<t.preferred, t.fallback>>

(* ValidationFailed: web research without a research mode, or sensitive     *)
(* content in the cloud.                                                    *)
Refused(t) == \/ t.web /\ t.research = "none"
              \/ Mode(t) = "cloud" /\ t.sensitive

(* TaskRequirements.requires_web: dropped where the route is local. *)
NeedsWeb(t) == t.web /\ Mode(t) # "local" /\ ~(Mode(t) = "auto" /\ t.sensitive)

Candidates == IF dry THEN <<Fixture>> ELSE Binding(task)
Candidate == Candidates[r.cand]

(* Faulty: a model without web access passes for one with it.               *)
UsableUnlessWeb(m) == dry \/ (m \in Structured /\ m \in Served)

(* _validate_compat, then the lookup of the provider's adapter. *)
Usable(m) ==
    dry \/ /\ NeedsWeb(task) => m \in WebModels
           /\ m \in Structured
           /\ m \in Served

(* What the adapters refuse before they contact their provider: web in the  *)
(* local runtime and in OpenAI, a prompt over the local context limit.      *)
RefusedByAdapter(m) ==
    \/ m \in Ollama /\ (NeedsWeb(task) \/ task.long)
    \/ m \in OpenAI /\ NeedsWeb(task)

-----------------------------------------------------------------------------
At(pc) == r.pc = pc
Goto(pc) == r' = [r EXCEPT !.pc = pc]
Fresh == [pc |-> "idle", cand |-> 1, retry |-> 0, tries |-> 0]
TaskNo == MaxTasks - left

(* process_run up to router.execute.  The budget is compared before the     *)
(* research mode is looked at; a human step asks no model.                  *)
Ask ==
    /\ At("idle") /\ left > 0
    /\ left' = left - 1
    /\ task' \in {t \in Tasks : t.sensitive = task.sensitive}  \* a setting of the run
    /\ LET pc == IF cancel THEN "cancelled"
                 ELSE IF llmCalls >= MaxLLM /\ task'.mode # "human" THEN "budget"
                 ELSE IF Refused(task') THEN "fail"
                 ELSE IF Mode(task') = "human" THEN "idle" ELSE "candidate"
       IN  r' = IF pc = "idle" THEN r ELSE [Fresh EXCEPT !.pc = pc]
    /\ attempts' = <<>> /\ lost' = 0
    /\ UNCHANGED <<dry, cancel, llmCalls, usage, sent, late>>

(* UsageRecorder.record never raises: the row is written or it is lost.     *)
Record(m, ok) ==
    \/ /\ usage' = Append(usage, [task |-> TaskNo, model |-> m, ok |-> ok])
       /\ UNCHANGED lost
    \/ lost' = lost + 1 /\ UNCHANGED usage

NextCandidate == [r EXCEPT !.pc = "candidate", !.cand = @ + 1, !.retry = 0]

(* Faulty: any failure is tried again.                                      *)
AfterAnyFailure(why) ==
    IF r.cand = 1 /\ r.retry < MaxRetries
    THEN [r EXCEPT !.pc = "call", !.retry = @ + 1]
    ELSE NextCandidate

(* Only the primary model is tried again, and only for a badly structured   *)
(* answer.                                                                  *)
AfterFailure(why) ==
    IF why = "structured" /\ r.cand = 1 /\ r.retry < MaxRetries
    THEN [r EXCEPT !.pc = "call", !.retry = @ + 1]
    ELSE NextCandidate

(* The except clause for routable errors, which a dry run does not have.    *)
Failed(why) ==
    /\ ~dry
    /\ attempts' = Append(attempts, [model |-> Candidate, retry |-> r.retry, why |-> why])
    /\ Record(Candidate, FALSE)
    /\ r' = AfterFailure(why)

Raised == Goto("fail") /\ UNCHANGED <<attempts, usage, lost>>

(* Faulty: a candidate passed over leaves no record.                        *)
PassOverSilently ==
    /\ At("candidate")
    /\ r.cand <= Len(Candidates)
    /\ ~Usable(Candidate)
    /\ attempts' = Append(attempts, [model |-> Candidate, retry |-> 0, why |-> "other"])
    /\ r' = NextCandidate
    /\ UNCHANGED <<dry, cancel, llmCalls, task, left, usage, lost, sent, late>>

(* The head of the loop over candidates: a model that does not fit, or has  *)
(* no adapter, is passed over without a call.                               *)
PassOver ==
    /\ At("candidate")
    /\ r.cand <= Len(Candidates)
    /\ ~Usable(Candidate)
    /\ attempts' = Append(attempts, [model |-> Candidate, retry |-> 0, why |-> "other"])
    /\ Record(Candidate, FALSE)
    /\ r' = NextCandidate
    /\ UNCHANGED <<dry, cancel, llmCalls, task, left, sent, late>>

TryCandidate ==
    /\ At("candidate")
    /\ r.cand <= Len(Candidates)
    /\ Usable(Candidate)
    /\ Goto("call")
    /\ UNCHANGED <<dry, cancel, llmCalls, task, left, attempts, usage, lost, sent, late>>

(* raise last_exc *)
GiveUp ==
    /\ At("candidate")
    /\ r.cand > Len(Candidates)
    /\ Goto("fail")
    /\ UNCHANGED <<dry, cancel, llmCalls, task, left, attempts, usage, lost, sent, late>>

(* Faulty: only the first call of an execution looks at the cancellation.   *)
BeforeFirstCall ==
    /\ At("call")
    /\ IF llmCalls >= MaxLLM THEN Goto("budget") /\ UNCHANGED llmCalls
       ELSE IF cancel /\ r.tries = 0 THEN Goto("cancelled") /\ UNCHANGED llmCalls
       ELSE /\ llmCalls' = llmCalls + 1
            /\ r' = [r EXCEPT !.pc = "infer", !.tries = @ + 1]
    /\ UNCHANGED <<dry, cancel, task, left, attempts, usage, lost, sent, late>>

(* Faulty: the budget is compared with a call already added to it.          *)
BeforeCallOverBudget ==
    /\ At("call")
    /\ IF llmCalls > MaxLLM THEN Goto("budget") /\ UNCHANGED llmCalls
       ELSE IF cancel THEN Goto("cancelled") /\ UNCHANGED llmCalls
       ELSE /\ llmCalls' = llmCalls + 1
            /\ r' = [r EXCEPT !.pc = "infer", !.tries = @ + 1]
    /\ UNCHANGED <<dry, cancel, task, left, attempts, usage, lost, sent, late>>

(* before_call is consume_llm_call; what it raises leaves the router.  Only *)
(* the worker writes llm_calls, so its check and increment are one action.  *)
BeforeCall ==
    /\ At("call")
    /\ IF llmCalls >= MaxLLM THEN Goto("budget") /\ UNCHANGED llmCalls
       ELSE IF cancel THEN Goto("cancelled") /\ UNCHANGED llmCalls
       ELSE /\ llmCalls' = llmCalls + 1
            /\ r' = [r EXCEPT !.pc = "infer", !.tries = @ + 1]
    /\ UNCHANGED <<dry, cancel, task, left, attempts, usage, lost, sent, late>>

(* The adapter refuses before it contacts anyone.                           *)
AdapterRefuses ==
    /\ At("infer")
    /\ RefusedByAdapter(Candidate) \/ Candidate \in Cloud  \* no key, no package
    /\ Failed("other")
    /\ UNCHANGED <<dry, cancel, llmCalls, task, left, sent, late>>

(* The provider answers, answers badly, fails, or makes the adapter raise   *)
(* what the router does not route.                                          *)
ProviderAnswers ==
    /\ At("infer")
    /\ ~RefusedByAdapter(Candidate)
    /\ sent' = sent \cup {[model |-> Candidate, sensitive |-> task.sensitive]}
    /\ late' = IF cancel THEN late + 1 ELSE late
    /\ \/ Goto("validate") /\ UNCHANGED <<attempts, usage, lost>>
       \/ \E why \in {"structured", "other"} : Failed(why)
       \/ Raised
    /\ UNCHANGED <<dry, cancel, llmCalls, task, left>>

(* validate_response: a semantically invalid answer is a structured error.  *)
ValidateResponse ==
    /\ At("validate")
    /\ \/ Failed("structured")
       \/ dry /\ Raised
       \/ /\ attempts' = Append(attempts, [model |-> Candidate, retry |-> r.retry, why |-> "ok"])
          /\ Goto("returned")
          /\ UNCHANGED <<usage, lost>>
    /\ UNCHANGED <<dry, cancel, llmCalls, task, left, sent, late>>

(* Back in process_run: the cancel check discards the answer; otherwise the *)
(* step is completed and its usage recorded.                                *)
Returned ==
    /\ At("returned")
    /\ IF cancel THEN Goto("cancelled") /\ UNCHANGED <<usage, lost>>
       ELSE Record(Candidate, TRUE) /\ Goto("idle")
    /\ UNCHANGED <<dry, cancel, llmCalls, task, left, attempts, sent, late>>

Cancel ==
    /\ ~cancel
    /\ cancel' = TRUE
    /\ UNCHANGED <<dry, llmCalls, task, left, r, attempts, usage, lost, sent, late>>

Init ==
    /\ dry \in BOOLEAN
    /\ cancel = FALSE
    /\ llmCalls = 0
    /\ task \in Tasks
    /\ left = MaxTasks
    /\ r = Fresh
    /\ attempts = <<>> /\ usage = <<>> /\ lost = 0
    /\ sent = {} /\ late = 0

Execute ==
    \/ Ask \/ PassOver \/ TryCandidate \/ GiveUp \/ BeforeCall
    \/ AdapterRefuses \/ ProviderAnswers \/ ValidateResponse \/ Returned

Next == Execute \/ Cancel

Spec == Init /\ [][Next]_vars

-----------------------------------------------------------------------------
(* Properties.                                                             *)

(* Content marked sensitive is never put into a prompt that goes to a cloud *)
(* provider, whatever the modes, the bindings and the failures of models.   *)
SensitiveStaysLocal == \A p \in sent : p.sensitive => p.model \notin Cloud

(* After a cancellation at most the call already paid for is made: retries, *)
(* the fallback and later steps make no other.                              *)
OneCallAfterCancel == late <= 1

(* The first n attempts are tries of the primary, one after the other, each *)
(* because the answer before it was badly structured.                       *)
Repairs(n) ==
    \A i \in 1 .. n :
        /\ attempts[i].model = Candidates[1] /\ attempts[i].retry = i - 1
        /\ i < n => attempts[i].why = "structured"

(* What one execution tries is the primary, again only to repair a badly    *)
(* structured answer, and then at most once the fallback, and nobody after  *)
(* an answer.  A step whose fallback is its preferred model gets one more   *)
(* try of it, whatever the last failure was, but as the fallback: never a   *)
(* retry beyond max_retries.                                                *)
RetriesRepair ==
    LET n == Len(attempts)
    IN  /\ \A i \in 1 .. n - 1 : attempts[i].why # "ok"
        /\ \/ Repairs(n)
           \/ /\ Len(Candidates) = 2 /\ n > 1 /\ Repairs(n - 1)
              /\ attempts[n].model = Candidates[2] /\ attempts[n].retry = 0

(* Every failed attempt of the step, one passed over without a call         *)
(* included, is a row of its usage or a write that failed.                  *)
FailuresAreRecorded ==
    LET failures == {i \in DOMAIN attempts : attempts[i].why # "ok"}
        rows == {i \in DOMAIN usage : usage[i].task = TaskNo /\ ~usage[i].ok}
    IN  r.pc \in {"candidate", "call", "infer", "validate", "returned"} =>
            Cardinality(failures) = Cardinality(rows) + lost

(* An answer to a step that needs the web comes from a Gemini model with    *)
(* web access, the one adapter that searches, unless the run is dry.        *)
WebIsGrounded ==
    At("returned") /\ NeedsWeb(task) /\ ~dry => Candidate \in Gemini \cap WebModels

(* The router keeps to what the engine relies on (CallBudget).  A candidate *)
(* about to be tried is a call to come if a model that can be asked is left. *)
Phase == CASE At("candidate") ->
                 IF \E i \in DOMAIN Candidates : i >= r.cand /\ Usable(Candidates[i])
                 THEN "call" ELSE "fail"
           [] At("validate") -> "infer"
           [] OTHER -> r.pc
Budget == INSTANCE CallBudget WITH phase <- Phase, tries <- r.tries,
                                   MaxTries <- MaxRetries + 2
KeepsCallBudget == Budget!Spec
=============================================================================
