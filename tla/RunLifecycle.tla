---------------------------- MODULE RunLifecycle ----------------------------
(***************************************************************************)
(* One workflow run: its row in the `runs` table, the rows that hang from  *)
(* it (run_steps, artifacts, human_step_requests), the worker thread that  *)
(* executes it (WorkflowEngine.process_run under LocalWorker) and the      *)
(* operators that decide about it (RunService and submit_human_step).      *)
(*                                                                         *)
(* The grain of an action is one store transaction.  The store opens a     *)
(* connection per call, so between two calls of the engine any other       *)
(* thread, or process, may read or write the same rows; only finish_review *)
(* and fail_active_run re-check what they read inside their transaction.   *)
(* A read is merged with a neighbouring write only where the two commute   *)
(* with everything another actor can do in between; each merge is argued   *)
(* at its action.                                                          *)
(*                                                                         *)
(* Abstracted: step contents (an output is the model's or one client's),   *)
(* prompts, events, telemetry, files written under runs/, heartbeats, the  *)
(* retry order of the router (module ModelRouter of the plan) and the      *)
(* active-time budget, which may run out at any iteration of the loop.     *)
(***************************************************************************)
EXTENDS Integers, Sequences, FiniteSets

CONSTANTS
    NSteps,         \* number of steps of the workflow definition
    EnabledSteps,   \* steps whose `when` condition holds for this request
    Checkpoints,    \* steps with checkpoint_after
    HumanSteps,     \* steps whose execution mode is human_guided
    MaxIterations,  \* max_iterations of the definition
    MaxLLM,         \* max_llm_calls of the run
    MaxTries,       \* calls one router.execute may make (1 + retries + fallback)
    Clients,        \* callers of the run operations (UI tabs, CLI, API)
    Forcing,        \* those who may cancel with --force
    MaxCrashes,     \* bound on process restarts
    Model, Revised, \* a model's output, without and with review feedback in its prompt
    NoOutput        \* no row

Steps == 0 .. NSteps - 1
Attempts == 1 .. MaxIterations + 1

ASSUME StepsAssumption ==
    /\ NSteps \in Nat \ {0}
    /\ EnabledSteps \subseteq Steps
    /\ Checkpoints \subseteq Steps
    /\ HumanSteps \subseteq Steps
ASSUME BoundsAssumption ==
    /\ MaxIterations \in Nat
    /\ MaxLLM \in Nat
    /\ MaxTries \in Nat \ {0}
    /\ MaxCrashes \in Nat
ASSUME ClientsAssumption == Forcing \subseteq Clients
ASSUME AuthorsAssumption ==
    /\ Model # Revised /\ Model # NoOutput /\ Revised # NoOutput
    /\ {Model, Revised, NoOutput} \cap Clients = {}

VARIABLES
    run,        \* the run row: what the decisions are taken from
    llmCalls,   \* runs.llm_calls
    okCalls,    \* runs.successful_llm_calls
    output,     \* run_steps: step -> attempt -> who made output_json, or NoOutput
    artifacts,  \* artifacts rows in rowid order
    requests,   \* human_step_requests rows in creation order
    decision,   \* run_events: the newest human_approved or human_revision row
    w,          \* the worker thread: its position in process_run and its locals
    cl,         \* each client: its position in an operation and what it read
    crashes     \* process restarts so far

calls == <<llmCalls, okCalls>>
rows == <<output, artifacts, requests, decision>>
db == <<run, calls, rows>>
vars == <<db, w, cl, crashes>>

-----------------------------------------------------------------------------
(* Types.                                                                  *)

Statuses == {"queued", "running", "waiting_human", "completed", "rejected",
             "cancelled", "failed"}
Reasons == {"", "review", "execute_step", "budget_exhausted"}
Outputs == Clients \cup {Model, Revised}
NoStep == -1

RunRow == [status: Statuses, cursor: 0 .. NSteps, cancel: BOOLEAN, budget: BOOLEAN,
           reason: Reasons, wstep: Steps \cup {NoStep}, watt: Attempts \cup {0},
           feedback: BOOLEAN]
ArtifactRow == [step: Steps, att: Attempts, data: Outputs, approved: BOOLEAN]
RequestRow == [step: Steps, att: Attempts, pending: BOOLEAN]
Decision == [kind: {"none", "approve", "revise", "regenerate"}, step: Steps \cup {NoStep}]

WorkerPcs == {"idle", "begin", "start", "loop", "pause", "wait", "call", "infer",
              "returned", "record", "artifact", "persisted", "advance", "complete",
              "cancelled", "budget", "fail", "down"}
WorkerState == [pc: WorkerPcs, idx: 0 .. NSteps, att: Attempts, tries: 0 .. MaxTries,
                revising: BOOLEAN]

ClientPcs == {"idle", "finish", "reject", "cancel", "soft_cancel", "save", "record",
              "find_artifact", "add_artifact", "settle", "conclude"}
ClientState == [pc: ClientPcs, seen: RunRow, row: Nat, approve: BOOLEAN,
                marked: BOOLEAN, feedback: BOOLEAN]

TypeOK ==
    /\ run \in RunRow
    /\ llmCalls \in Nat
    /\ okCalls \in Nat
    /\ output \in [Steps -> [Attempts -> Outputs \cup {NoOutput}]]
    /\ artifacts \in Seq(ArtifactRow)
    /\ requests \in Seq(RequestRow)
    /\ decision \in Decision
    /\ w \in WorkerState
    /\ cl \in [Clients -> ClientState]
    /\ crashes \in 0 .. MaxCrashes

-----------------------------------------------------------------------------
(* The store's queries and the parts of a run row they write.              *)

(* A run as create_run inserts it. *)
NewRun == [status |-> "queued", cursor |-> 0, cancel |-> FALSE, budget |-> FALSE,
           reason |-> "", wstep |-> NoStep, watt |-> 0, feedback |-> FALSE]

NoWait(r) == [r EXCEPT !.reason = "", !.wstep = NoStep, !.watt = 0]
Status(r, s) == [r EXCEPT !.status = s]
WaitFor(r, why, s, a) ==
    [r EXCEPT !.status = "waiting_human", !.reason = why, !.wstep = s, !.watt = a]

(* Store.latest_step_attempt is this maximum, or 0: an attempt is taken once *)
(* it has a completed row or a human request.                                *)
Taken(s) == {a \in Attempts : \/ output[s][a] # NoOutput
                              \/ \E i \in DOMAIN requests :
                                     requests[i].step = s /\ requests[i].att = a}
IsLatest(s, a) == a \in Taken(s) /\ \A b \in Taken(s) : b <= a

(* Faulty: the latest attempt is taken again instead of the next one.       *)
RepeatedAttempt(s, a) == IF Taken(s) = {} THEN a = 1 ELSE IsLatest(s, a)

(* The attempt process_run computes, one past the latest. *)
NextAttempt(s, a) ==
    /\ \A b \in Taken(s) : b < a
    /\ a = 1 \/ a - 1 \in Taken(s)

(* Store.pending_human_step: the newest pending request. *)
NewestPending(i) ==
    /\ i \in DOMAIN requests
    /\ requests[i].pending
    /\ \A j \in DOMAIN requests : requests[j].pending => j <= i

(* Store.review_artifact for a step and attempt: artifacts JOIN run_steps. *)
ReviewRows(s, a) ==
    {i \in DOMAIN artifacts : /\ artifacts[i].step = s /\ artifacts[i].att = a
                              /\ output[artifacts[i].step][artifacts[i].att] # NoOutput}

Row(s, a, author) == [step |-> s, att |-> a, data |-> author, approved |-> FALSE]

-----------------------------------------------------------------------------
(* The worker thread: LocalWorker._loop and WorkflowEngine.process_run.    *)

At(pc) == w.pc = pc
Goto(pc) == w' = [w EXCEPT !.pc = pc]
Rest == [pc |-> "idle", idx |-> 0, att |-> 1, tries |-> 0, revising |-> FALSE]

(* next_queued_run selects the run, process_run reads it again and keeps    *)
(* its cursor.  One action: a status change between the two reads makes     *)
(* process_run return, a cancel flag is seen by the check of WBegin.        *)
WPickUp ==
    /\ At("idle")
    /\ run.status = "queued"
    /\ ~run.cancel
    /\ w' = [Rest EXCEPT !.pc = "begin", !.idx = run.cursor]
    /\ UNCHANGED <<db, cl, crashes>>

(* The first _check_cancel, then preflight of a definition that may have    *)
(* been edited since the run was created.                                   *)
WBegin ==
    /\ At("begin")
    /\ IF run.cancel THEN Goto("cancelled") ELSE Goto("start") \/ Goto("fail")
    /\ UNCHANGED <<db, cl, crashes>>

(* Faulty: starting a run also clears its feedback.                         *)
WStartClearsFeedback ==
    /\ At("start")
    /\ run' = [NoWait(Status(run, "running")) EXCEPT !.feedback = FALSE]
    /\ Goto("loop")
    /\ UNCHANGED <<calls, rows, cl, crashes>>

WStart ==
    /\ At("start")
    /\ run' = NoWait(Status(run, "running"))
    /\ Goto("loop")
    /\ UNCHANGED <<calls, rows, cl, crashes>>

(* Faulty: the loop bound is off by one.                                    *)
WSkipPastEnd ==
    /\ At("loop")
    /\ w.idx \notin EnabledSteps
    /\ ~run.cancel
    /\ run' = [run EXCEPT !.cursor = w.idx + 1]
    /\ w' = [w EXCEPT !.idx = w.idx + 1]
    /\ UNCHANGED <<calls, rows, cl, crashes>>

(* Faulty: the cursor of a skipped step is not saved.                       *)
WSkipUnsaved ==
    /\ At("loop")
    /\ w.idx \in Steps \ EnabledSteps
    /\ ~run.cancel
    /\ w' = [w EXCEPT !.idx = w.idx + 1]
    /\ UNCHANGED <<db, cl, crashes>>

(* A step whose condition is false.  The cancel check and the cursor write  *)
(* are one action: no cancellation reads or writes the cursor.              *)
WSkip ==
    /\ At("loop")
    /\ w.idx \in Steps \ EnabledSteps
    /\ ~run.cancel
    /\ run' = [run EXCEPT !.cursor = w.idx + 1]
    /\ w' = [w EXCEPT !.idx = w.idx + 1]
    /\ UNCHANGED <<calls, rows, cl, crashes>>

(* The head of the loop for an enabled step: attempt number, iteration and  *)
(* call budgets, feedback, execution mode.  The attempt and both counters read here   *)
(* are changed by no one else while the worker is in this step.  Routing or *)
(* prompt rendering may raise.                                              *)
WTakeStep ==
    /\ At("loop")
    /\ w.idx \in EnabledSteps
    /\ ~run.cancel
    /\ \E a \in Attempts :
         /\ NextAttempt(w.idx, a)
         /\ w.idx \in HumanSteps \/ llmCalls < MaxLLM
         /\ \E pc \in {IF w.idx \in HumanSteps THEN "pause" ELSE "call", "fail"} :
              w' = [w EXCEPT !.pc = pc, !.att = a, !.tries = 0,
                             !.revising = run.feedback]
    /\ UNCHANGED <<db, cl, crashes>>

WLoopCancelled ==
    /\ At("loop")
    /\ w.idx \in Steps
    /\ run.cancel
    /\ Goto("cancelled")
    /\ UNCHANGED <<db, cl, crashes>>

(* BudgetExceeded at the head of the loop: no attempt or no call left, or   *)
(* the active time is used up, which can be so at any iteration.            *)
WLoopBudget ==
    /\ At("loop")
    /\ w.idx \in Steps
    /\ ~run.cancel
    /\ Goto("budget")
    /\ UNCHANGED <<db, cl, crashes>>

WLoopExit ==
    /\ At("loop")
    /\ w.idx = NSteps
    /\ Goto("complete")
    /\ UNCHANGED <<db, cl, crashes>>

(* _pause_for_human: create_human_step_request keeps an existing row ...    *)
WPause ==
    /\ At("pause")
    /\ requests' = IF \E i \in DOMAIN requests :
                          requests[i].step = w.idx /\ requests[i].att = w.att
                   THEN requests
                   ELSE Append(requests, [step |-> w.idx, att |-> w.att, pending |-> TRUE])
    /\ Goto("wait")
    /\ UNCHANGED <<run, calls, output, artifacts, decision, cl, crashes>>

(* ... and the wait is written by a second call, without the cursor.        *)
WWait ==
    /\ At("wait")
    /\ run' = WaitFor(run, "execute_step", w.idx, w.att)
    /\ w' = Rest
    /\ UNCHANGED <<calls, rows, cl, crashes>>

(* Faulty: a retry or fallback does not look at the budget.                 *)
WCallUnchecked ==
    /\ At("call")
    /\ IF run.cancel
       THEN Goto("cancelled") /\ UNCHANGED llmCalls
       ELSE /\ llmCalls' = llmCalls + 1
            /\ w' = [w EXCEPT !.pc = "infer", !.tries = w.tries + 1]
    /\ UNCHANGED <<run, okCalls, rows, cl, crashes>>

(* consume_llm_call, before every call of the router.  Only the worker      *)
(* writes llm_calls, so check and increment are one action.                 *)
WCall ==
    /\ At("call")
    /\ IF llmCalls >= MaxLLM
       THEN Goto("budget") /\ UNCHANGED llmCalls
       ELSE IF run.cancel
       THEN Goto("cancelled") /\ UNCHANGED llmCalls
       ELSE /\ llmCalls' = llmCalls + 1
            /\ w' = [w EXCEPT !.pc = "infer", !.tries = w.tries + 1]
    /\ UNCHANGED <<run, okCalls, rows, cl, crashes>>

(* The provider answers, or fails: the router tries again or gives up.      *)
WInfer ==
    /\ At("infer")
    /\ \/ Goto("returned")
       \/ w.tries < MaxTries /\ Goto("call")
       \/ Goto("fail")
    /\ UNCHANGED <<db, cl, crashes>>

(* The check that discards a result produced after a cancellation request,  *)
(* and the count of successful calls, which only the worker writes.         *)
WReturned ==
    /\ At("returned")
    /\ IF run.cancel
       THEN Goto("cancelled") /\ UNCHANGED okCalls
       ELSE Goto("record") /\ okCalls' = okCalls + 1
    /\ UNCHANGED <<run, llmCalls, rows, cl, crashes>>

(* _persist_completed_step: record_step, then add_artifact.                 *)
Made == IF w.revising THEN Revised ELSE Model

(* The attempt is recorded as completed with its output, before the file    *)
(* and the artifact: a crash in between leaves it without an artifact.      *)
WRecord ==
    /\ At("record")
    /\ output' = [output EXCEPT ![w.idx][w.att] = Made]
    /\ Goto("artifact")
    /\ UNCHANGED <<run, calls, artifacts, requests, decision, cl, crashes>>

(* Store.add_artifact: its SELECT and INSERT are one action here, since the *)
(* worker alone stores artifacts of the attempt it executes (FreshAttempt). *)
WArtifact ==
    /\ At("artifact")
    /\ artifacts' = IF \E i \in DOMAIN artifacts :
                           artifacts[i].step = w.idx /\ artifacts[i].att = w.att
                    THEN artifacts
                    ELSE Append(artifacts, Row(w.idx, w.att, Made))
    /\ Goto("persisted")
    /\ UNCHANGED <<run, calls, output, requests, decision, cl, crashes>>

(* The check after persisting, then the feedback is cleared: a cancellation *)
(* between the two reads or writes no feedback.                             *)
WPersisted ==
    /\ At("persisted")
    /\ IF run.cancel
       THEN Goto("cancelled") /\ UNCHANGED run
       ELSE Goto("advance") /\ run' = [run EXCEPT !.feedback = FALSE]
    /\ UNCHANGED <<calls, rows, cl, crashes>>

(* A checkpoint pauses for review; any other step moves the cursor on.      *)
WAdvance ==
    /\ At("advance")
    /\ \/ /\ w.idx \in Checkpoints
          /\ run' = WaitFor([run EXCEPT !.cursor = w.idx], "review", w.idx, w.att)
          /\ w' = Rest
       \/ /\ w.idx \notin Checkpoints
          /\ run' = [run EXCEPT !.cursor = w.idx + 1]
          /\ w' = [w EXCEPT !.pc = "loop", !.idx = w.idx + 1]
    /\ UNCHANGED <<calls, rows, cl, crashes>>

(* After the loop: no check of the cancel flag comes before this write.     *)
WComplete ==
    /\ At("complete")
    /\ run' = NoWait(Status(run, "completed"))
    /\ w' = Rest
    /\ UNCHANGED <<calls, rows, cl, crashes>>

(* The handler of _CancelledSignal. *)
WCancelled ==
    /\ At("cancelled")
    /\ run' = NoWait(Status(run, "cancelled"))
    /\ w' = Rest
    /\ UNCHANGED <<calls, rows, cl, crashes>>

(* Faulty: a review is asked for without looking whether anything was saved. *)
WBudgetUncounted ==
    /\ At("budget")
    /\ run' = LET saved == artifacts # <<>>
              IN  WaitFor([run EXCEPT !.budget = TRUE], "budget_exhausted",
                          IF saved THEN artifacts[Len(artifacts)].step ELSE NoStep,
                          IF saved THEN artifacts[Len(artifacts)].att ELSE 0)
    /\ w' = Rest
    /\ UNCHANGED <<calls, rows, cl, crashes>>

(* The handler of BudgetExceeded: the last saved result is offered for      *)
(* review; without one the run fails, whatever its status is by now.  The   *)
(* row read and the wait written are one action: a client that adds an      *)
(* artifact in between touches no field written here.                       *)
WBudget ==
    /\ At("budget")
    /\ run' = LET stopped == [run EXCEPT !.budget = TRUE]
                  last == artifacts[Len(artifacts)]
              IN  IF artifacts = <<>> THEN Status(stopped, "failed")
                  ELSE WaitFor(stopped, "budget_exhausted", last.step, last.att)
    /\ w' = Rest
    /\ UNCHANGED <<calls, rows, cl, crashes>>

(* Faulty: only one of the two active statuses can fail.                    *)
FailQueued(r) == IF r.status = "queued" THEN NoWait(Status(r, "failed")) ELSE r
FailRunning(r) == IF r.status = "running" THEN NoWait(Status(r, "failed")) ELSE r

(* Store.fail_active_run: one transaction, a settled status is kept.        *)
FailActive(r) == IF r.status \in {"queued", "running"} THEN NoWait(Status(r, "failed")) ELSE r

WFail ==
    /\ At("fail")
    /\ run' = FailActive(run)
    /\ w' = Rest
    /\ UNCHANGED <<calls, rows, cl, crashes>>

Worker ==
    \/ WPickUp \/ WBegin \/ WStart
    \/ WSkip \/ WTakeStep \/ WLoopCancelled \/ WLoopBudget \/ WLoopExit
    \/ WPause \/ WWait
    \/ WCall \/ WInfer \/ WReturned \/ WRecord \/ WArtifact \/ WPersisted \/ WAdvance
    \/ WComplete \/ WCancelled \/ WBudget \/ WFail

-----------------------------------------------------------------------------
(* The operators: RunService and WorkflowEngine.submit_human_step.  Each    *)
(* operation reads the run, decides, and writes later; `seen` is what it    *)
(* keeps of the row it read, which never includes the feedback.             *)

Idle == [pc |-> "idle", seen |-> NewRun, row |-> 0, approve |-> FALSE,
         marked |-> FALSE, feedback |-> FALSE]
Serving == w.pc # "down"
Doing(c, pc) == cl[c].pc = pc
Goes(c, pc) == cl' = [cl EXCEPT ![c].pc = pc]
Done(c) == cl' = [cl EXCEPT ![c] = Idle]
Begins(c, pc) == cl' = [cl EXCEPT ![c] = [Idle EXCEPT !.pc = pc]]

Seen(r) == [r EXCEPT !.feedback = FALSE]

BudgetStop(r) == r.budget \/ r.reason = "budget_exhausted"

(* A decision is for the latest attempt of its step, not approved yet; a    *)
(* budget stop offers whatever was saved last.                              *)
CurrentAttempt(r, item) ==
    BudgetStop(r) \/ (~item.approved /\ IsLatest(item.step, item.att))

(* review_point: the one completed row of the wait, at the cursor unless    *)
(* the budget stopped the run.                                              *)
ReviewPoint(r, i) ==
    /\ ReviewRows(r.wstep, r.watt) = {i}
    /\ BudgetStop(r) \/ r.cursor = artifacts[i].step
    /\ artifacts[i].step \in EnabledSteps
    /\ CurrentAttempt(r, artifacts[i])

(* approve, changes and regenerate up to finish_review.  The artifact is    *)
(* read after the run; everything read is compared again by the commit.     *)
ReadReview(c) ==
    /\ Serving /\ Doing(c, "idle")
    /\ run.status = "waiting_human"
    /\ run.reason \in {"review", "budget_exhausted"}
    /\ \E i \in DOMAIN artifacts, approve \in BOOLEAN, feedback \in BOOLEAN :
         /\ ReviewPoint(run, i)
         /\ approve => ~feedback
         /\ ~approve => ~BudgetStop(run)
         /\ cl' = [cl EXCEPT ![c] = [pc |-> "finish", seen |-> Seen(run), row |-> i,
                                     approve |-> approve, marked |-> artifacts[i].approved,
                                     feedback |-> feedback]]
    /\ UNCHANGED <<db, w, crashes>>

(* Faulty: the row under decision is trusted without comparing the wait.    *)
ReviewableRow(c) ==
    /\ run.status = "waiting_human"
    /\ ~run.cancel
    /\ artifacts[cl[c].row].approved = cl[c].marked

(* What finish_review compares inside its transaction.                      *)
StillReviewable(c) ==
    /\ run.status = "waiting_human"
    /\ ~run.cancel
    /\ Seen(run) = cl[c].seen
    /\ artifacts[cl[c].row].approved = cl[c].marked
    /\ CurrentAttempt(run, artifacts[cl[c].row])

(* Faulty: requested changes move the run on like an approval.              *)
DecidedAsApproved(r, approve, feedback) ==
    LET completed == BudgetStop(r) \/ r.cursor + 1 = NSteps
    IN  [NoWait(Status(r, IF completed THEN "completed" ELSE "queued")) EXCEPT
            !.cursor = IF completed THEN NSteps ELSE @ + 1,
            !.feedback = feedback]

Decided(r, approve, feedback) ==
    LET completed == approve /\ (BudgetStop(r) \/ r.cursor + 1 = NSteps)
    IN  [NoWait(Status(r, IF completed THEN "completed" ELSE "queued")) EXCEPT
            !.cursor = IF completed THEN NSteps ELSE IF approve THEN @ + 1 ELSE @,
            !.feedback = feedback]

FinishReview(c) ==
    /\ Doing(c, "finish")
    /\ IF StillReviewable(c)
       THEN /\ run' = Decided(run, cl[c].approve, cl[c].feedback)
            /\ artifacts' = [artifacts EXCEPT ![cl[c].row].approved = @ \/ cl[c].approve]
            /\ decision' = [kind |-> IF cl[c].approve THEN "approve"
                                     ELSE IF cl[c].feedback THEN "revise" ELSE "regenerate",
                            step |-> artifacts[cl[c].row].step]
       ELSE UNCHANGED <<run, artifacts, decision>>
    /\ Done(c)
    /\ UNCHANGED <<calls, output, requests, w, crashes>>

(* reject reads the status in one call and writes it in another.            *)
ReadReject(c) ==
    /\ Serving /\ Doing(c, "idle")
    /\ run.status = "waiting_human"
    /\ Begins(c, "reject")
    /\ UNCHANGED <<db, w, crashes>>

WriteReject(c) ==
    /\ Doing(c, "reject")
    /\ \E feedback \in BOOLEAN :
         run' = [NoWait(Status(run, "rejected")) EXCEPT !.feedback = feedback]
    /\ Done(c)
    /\ UNCHANGED <<calls, rows, w, crashes>>

(* cancel: a run that nobody executes is cancelled at once, as is any run   *)
(* with --force; a running one is only flagged.  A failed run is flagged.   *)
ReadCancel(c) ==
    /\ Serving /\ Doing(c, "idle")
    /\ run.status \notin {"completed", "rejected", "cancelled"}
    /\ \/ /\ c \in Forcing \/ run.status \in {"queued", "waiting_human"}
          /\ Begins(c, "cancel")
       \/ run.status \notin {"queued", "waiting_human"} /\ Begins(c, "soft_cancel")
    /\ UNCHANGED <<db, w, crashes>>

WriteCancel(c) ==
    /\ Doing(c, "cancel")
    /\ run' = [NoWait(Status(run, "cancelled")) EXCEPT !.cancel = TRUE]
    /\ Done(c)
    /\ UNCHANGED <<calls, rows, w, crashes>>

WriteSoftCancel(c) ==
    /\ Doing(c, "soft_cancel")
    /\ run' = [run EXCEPT !.cancel = TRUE]
    /\ Done(c)
    /\ UNCHANGED <<calls, rows, w, crashes>>

(* submit_human_step up to its first write; a response that fails its       *)
(* contract leaves no trace but an event.  The request and its attempt are  *)
(* read after the run: whatever differs from the wait is refused.           *)
SubmitPoint(i) ==
    /\ run.status = "waiting_human"
    /\ run.reason = "execute_step"
    /\ NewestPending(i)
    /\ requests[i].step = run.cursor
    /\ requests[i].step \in EnabledSteps
    /\ ~run.cancel
    /\ run.wstep = requests[i].step
    /\ run.watt = requests[i].att
    /\ IsLatest(requests[i].step, requests[i].att)

ReadSubmit(c) ==
    /\ Serving /\ Doing(c, "idle")
    /\ \E i \in DOMAIN requests :
         /\ SubmitPoint(i)
         /\ cl' = [cl EXCEPT ![c] = [Idle EXCEPT !.pc = "save", !.seen = Seen(run), !.row = i]]
    /\ UNCHANGED <<db, w, crashes>>

(* save_human_submission closes the request without looking at its status.  *)
SaveSubmission(c) ==
    /\ Doing(c, "save")
    /\ requests' = [requests EXCEPT ![cl[c].row].pending = FALSE]
    /\ Goes(c, "record")
    /\ UNCHANGED <<run, calls, output, artifacts, decision, w, crashes>>

(* record_step: INSERT OR REPLACE.                                          *)
RecordSubmission(c) ==
    /\ Doing(c, "record")
    /\ output' = [output EXCEPT ![cl[c].seen.wstep][cl[c].seen.watt] = c]
    /\ Goes(c, "find_artifact")
    /\ UNCHANGED <<run, calls, artifacts, requests, decision, w, crashes>>

(* add_artifact: the SELECT and the INSERT are two statements, and no index *)
(* makes (run, step, attempt) unique.                                       *)
FindArtifact(c) ==
    /\ Doing(c, "find_artifact")
    /\ Goes(c, IF \E i \in DOMAIN artifacts : /\ artifacts[i].step = cl[c].seen.wstep
                                                /\ artifacts[i].att = cl[c].seen.watt
                  THEN "settle" ELSE "add_artifact")
    /\ UNCHANGED <<db, w, crashes>>

AddArtifact(c) ==
    /\ Doing(c, "add_artifact")
    /\ artifacts' = Append(artifacts, Row(cl[c].seen.wstep, cl[c].seen.watt, c))
    /\ Goes(c, "settle")
    /\ UNCHANGED <<run, calls, output, requests, decision, w, crashes>>

(* The feedback is cleared, then the cancel flag read: a cancellation in    *)
(* between writes no feedback.  A set flag raises out of the operation.     *)
SettleSubmission(c) ==
    /\ Doing(c, "settle")
    /\ run' = [run EXCEPT !.feedback = FALSE]
    /\ IF run.cancel THEN Done(c) ELSE Goes(c, "conclude")
    /\ UNCHANGED <<calls, rows, w, crashes>>

ConcludeSubmission(c) ==
    /\ Doing(c, "conclude")
    /\ LET seen == cl[c].seen
       IN  run' = IF seen.wstep \in Checkpoints
                  THEN WaitFor(run, "review", seen.wstep, seen.watt)
                  ELSE [NoWait(Status(run, "queued")) EXCEPT !.cursor = seen.cursor + 1]
    /\ Done(c)
    /\ UNCHANGED <<calls, rows, w, crashes>>

Call(c) == ReadReview(c) \/ ReadReject(c) \/ ReadCancel(c) \/ ReadSubmit(c)
Proceed(c) ==
    \/ FinishReview(c) \/ WriteReject(c) \/ WriteCancel(c) \/ WriteSoftCancel(c)
    \/ SaveSubmission(c) \/ RecordSubmission(c) \/ FindArtifact(c) \/ AddArtifact(c)
    \/ SettleSubmission(c) \/ ConcludeSubmission(c)

-----------------------------------------------------------------------------
(* The process ends at any point, with the worker and the operations it     *)
(* serves; what was committed stays.                                        *)
Crash ==
    /\ Serving
    /\ crashes < MaxCrashes
    /\ w' = [Rest EXCEPT !.pc = "down"]
    /\ cl' = [c \in Clients |-> Idle]
    /\ crashes' = crashes + 1
    /\ UNCHANGED db

(* Faulty: recovery starts over, or resumes after the interrupted step.     *)
RecoveredFromStart(r) ==
    IF r.status # "running" THEN r ELSE [Status(r, "queued") EXCEPT !.cursor = 0]
RecoveredAtNext(r) ==
    IF r.status # "running" \/ r.cursor = NSteps THEN r
    ELSE [Status(r, "queued") EXCEPT !.cursor = @ + 1]

(* Faulty: whatever is not over is taken for interrupted, also a failed run. *)
RecoveredUnlessOver(r) ==
    IF r.status \in {"completed", "rejected", "cancelled"} THEN r
    ELSE IF r.cancel THEN NoWait(Status(r, "cancelled"))
    ELSE Status(r, "queued")

(* LocalWorker.start recovers before its thread and the API serve anything. *)
Recovered(r) ==
    IF r.status # "running" THEN r
    ELSE IF r.cancel THEN NoWait(Status(r, "cancelled"))
    ELSE Status(r, "queued")

Restart ==
    /\ At("down")
    /\ run' = Recovered(run)
    /\ w' = Rest
    /\ UNCHANGED <<calls, rows, cl, crashes>>

Init ==
    /\ run = NewRun
    /\ llmCalls = 0
    /\ okCalls = 0
    /\ output = [s \in Steps |-> [a \in Attempts |-> NoOutput]]
    /\ artifacts = <<>>
    /\ requests = <<>>
    /\ decision = [kind |-> "none", step |-> NoStep]
    /\ w = Rest
    /\ cl = [c \in Clients |-> Idle]
    /\ crashes = 0

Next == Worker \/ (\E c \in Clients : Call(c) \/ Proceed(c)) \/ Crash \/ Restart

Spec == Init /\ [][Next]_vars

(* The worker thread polls for ever and each of its calls returns, a        *)
(* stopped process is started again, and an operation once begun runs to    *)
(* its end.  Operators owe the system no call.                              *)
FairSpec == /\ Spec
            /\ WF_vars(Worker) /\ WF_vars(Restart)
            /\ \A c \in Clients : WF_vars(Proceed(c))

=============================================================================
