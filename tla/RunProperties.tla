--------------------------- MODULE RunProperties ---------------------------
(***************************************************************************)
(* What a run promises: the properties the runs check of RunLifecycle and  *)
(* the theorems of RunLifecycleProofs are about.                           *)
(***************************************************************************)
EXTENDS RunLifecycle

ResultOf(i, s) ==
    artifacts[i].step = s /\ output[artifacts[i].step][artifacts[i].att] # NoOutput
HasResult(s) == \E i \in DOMAIN artifacts : ResultOf(i, s)
HasApproval(s) == \E i \in DOMAIN artifacts : ResultOf(i, s) /\ artifacts[i].approved

(* Step s may be left behind: it has a saved result, approved by an         *)
(* operator when the step is a checkpoint.                                  *)
Settled(s) == HasResult(s) /\ (s \in Checkpoints => HasApproval(s))
Passed(n) == \A s \in EnabledSteps : s < n => Settled(s)

Executing == w.pc \notin {"idle", "down"}

(* Human review gates the workflow: unless the budget stopped the run, its  *)
(* cursor, and the step the worker executes, have behind them only steps    *)
(* with a saved result, and checkpoints only with an approved one.  It must *)
(* survive crashes between any two writes, recovery, late submissions and   *)
(* decisions taken from stale reads.                                        *)
HumanGate ==
    ~run.budget => Passed(run.cursor) /\ (Executing => Passed(w.idx))

(* A run is completed without its budget being exhausted only when every    *)
(* enabled step has a result and every checkpoint was approved: neither the *)
(* end of the worker's loop nor an approval of the last step completes a    *)
(* run with work or a review missing.                                       *)
CompletedMeansReviewed ==
    run.status = "completed" /\ ~run.budget => Passed(NSteps)

(* An operator who is asked for a review has something to review: the wait  *)
(* names a step and attempt with a saved artifact and a completed row, also *)
(* when the budget handler chose the artifact and when a late submission    *)
(* moved the run back to a review.                                          *)
WaitHasResult ==
    run.status = "waiting_human" /\ run.reason \in {"review", "budget_exhausted"}
        => ReviewRows(run.wstep, run.watt) # {}

(* Every artifact a model made was paid for: artifacts by models, counted   *)
(* successes and counted calls stay in that order under the call budget,    *)
(* through crashes that repeat a step.                                      *)
PaidFor ==
    /\ Cardinality({i \in DOMAIN artifacts : artifacts[i].data \in {Model, Revised}}) <= okCalls
    /\ okCalls <= llmCalls
    /\ llmCalls <= MaxLLM

(* While the worker executes an attempt nothing of that attempt is stored   *)
(* yet, so neither a step repeated after a crash nor a late submission      *)
(* shares its number, and record_step replaces no result of a model.        *)
FreshAttempt ==
    w.pc \in {"pause", "call", "infer", "returned", "record"} => w.att \notin Taken(w.idx)

(* An artifact becomes approved only while the run waits, not cancelled, on *)
(* exactly that step and attempt, the latest of its step unless the budget  *)
(* stopped the run: whatever happened since the operator read the run.      *)
ApprovalMatchesWait ==
    [][\A i \in DOMAIN artifacts :
         ~artifacts[i].approved /\ artifacts'[i].approved =>
            /\ run.status = "waiting_human" /\ ~run.cancel
            /\ run.wstep = artifacts[i].step /\ run.watt = artifacts[i].att
            /\ run.budget \/ IsLatest(artifacts[i].step, artifacts[i].att)]_vars

-----------------------------------------------------------------------------
(* The inductive invariant: what an operation in progress may rely on.     *)

InStep == {"pause", "wait", "call", "infer", "returned", "record", "artifact",
           "persisted", "advance"}
Submitting == {"save", "record", "find_artifact", "add_artifact", "settle", "conclude"}

(* The worker is inside an enabled step and within its number of calls.     *)
WorkerInFlight ==
    /\ w.pc \in InStep => w.idx \in EnabledSteps
    /\ w.pc = "call" => w.tries < MaxTries
    /\ w.pc = "complete" => w.idx = NSteps

(* A decision still names the artifact it read; a submission the request.   *)
ReviewInFlight(c) ==
    LET op == cl[c]
    IN  /\ op.row \in DOMAIN artifacts
        /\ op.seen.wstep = artifacts[op.row].step
        /\ op.seen.watt = artifacts[op.row].att
        /\ BudgetStop(op.seen) \/ op.seen.cursor = artifacts[op.row].step
        /\ op.approve \/ ~BudgetStop(op.seen)
SubmissionInFlight(c) ==
    LET op == cl[c]
    IN  /\ op.row \in DOMAIN requests
        /\ op.seen.wstep = requests[op.row].step
        /\ op.seen.watt = requests[op.row].att
        /\ op.seen.wstep \in EnabledSteps
        /\ op.seen.cursor = op.seen.wstep
InFlight ==
    /\ WorkerInFlight
    /\ \A c \in Clients : /\ Doing(c, "finish") => ReviewInFlight(c)
                          /\ cl[c].pc \in Submitting => SubmissionInFlight(c)

(* Results are saved in order: a row, then its artifact, then the wait.     *)
Backed == \A i \in DOMAIN artifacts : output[artifacts[i].step][artifacts[i].att] # NoOutput
Recorded(s, a) == output[s][a] # NoOutput
Saved(s, a) == \E i \in DOMAIN artifacts : artifacts[i].step = s /\ artifacts[i].att = a
SavedInOrder ==
    /\ Backed
    /\ w.pc = "artifact" => Recorded(w.idx, w.att)
    /\ w.pc \in {"persisted", "advance"} => Saved(w.idx, w.att)
    /\ \A c \in Clients : LET seen == cl[c].seen
         IN  /\ cl[c].pc \in {"find_artifact", "add_artifact"} => Recorded(seen.wstep, seen.watt)
             /\ cl[c].pc \in {"settle", "conclude"} => Saved(seen.wstep, seen.watt)
    /\ run.status = "waiting_human" /\ run.reason \in {"review", "budget_exhausted"}
         => Saved(run.wstep, run.watt)

(* A submission in progress moves the run on from a step already reached.   *)
SubmissionsGated ==
    \A c \in Clients : cl[c].pc \in Submitting /\ ~run.budget => Passed(cl[c].seen.cursor)

(* A run that waits because of its budget has the flag of the budget.       *)
BudgetFlagged == run.reason = "budget_exhausted" => run.budget

IInv == TypeOK /\ InFlight /\ SavedInOrder /\ BudgetFlagged
GateInv == IInv /\ HumanGate /\ CompletedMeansReviewed /\ SubmissionsGated

-----------------------------------------------------------------------------
(* With one operator at a time.                                            *)

(* The artifact an operator reviews is the output later steps receive: each *)
(* attempt has one artifact, equal to its run_steps row, across crashes     *)
(* between record_step and add_artifact.                                    *)
ArtifactShowsOutput ==
    \A i \in DOMAIN artifacts :
        /\ artifacts[i].data = output[artifacts[i].step][artifacts[i].att]
        /\ ReviewRows(artifacts[i].step, artifacts[i].att) = {i}

(* Finished steps are not executed again: the cursor never moves back, in   *)
(* crashes and restarts included.                                           *)
CursorNeverRewinds == [][run'.cursor >= run.cursor]_vars

(* A run that waits for its operator can go on: unless it is flagged for    *)
(* cancellation, the wait accepts a review or a submission.  It holds until *)
(* the process is restarted (see RestartKeepsWait).                         *)
Actionable == (\E i \in DOMAIN requests : SubmitPoint(i))
              \/ (/\ run.reason \in {"review", "budget_exhausted"}
                  /\ \E i \in DOMAIN artifacts : ReviewPoint(run, i))
WaitsOnOperator == /\ run.status = "waiting_human" /\ ~run.cancel
                   /\ \A c \in Clients : Doing(c, "idle")
WaitIsActionable == crashes = 0 /\ WaitsOnOperator => Actionable

(* Requested changes reach the model: a step that comes back for review     *)
(* after changes were requested shows a result made with the feedback in    *)
(* its prompt.  A restart may lose the feedback, which is cleared before    *)
(* the review is written; until then it holds.                              *)
FeedbackHonoured ==
    /\ crashes = 0
    /\ run.status = "waiting_human" /\ run.reason = "review"
    /\ run.wstep \notin HumanSteps
    /\ decision = [kind |-> "revise", step |-> run.wstep]
    => output[run.wstep][run.watt] = Revised

(* A run the worker holds is let go: it reaches a wait, a final status or   *)
(* the queue, also when the process is restarted in the middle.             *)
RunningSettles == run.status = "running" ~> run.status # "running"

(* A queued run that nobody cancels is taken from the queue.                *)
QueuedIsTaken == run.status = "queued" /\ ~run.cancel ~> run.status # "queued" \/ run.cancel

-----------------------------------------------------------------------------
(* The detailed run keeps to the status protocol: whatever its steps,       *)
(* crashes and late decisions do, statuses change as RunStatus says.        *)
WorkerStatus == CASE w.pc = "idle" -> "free"
                  [] w.pc = "down" -> "down"
                  [] OTHER -> "held"
BeingSubmitted == \E c \in Clients : cl[c].pc \in Submitting
Protocol == INSTANCE RunStatus
                WITH status <- run.status, cancel <- run.cancel,
                     worker <- WorkerStatus, submitting <- BeingSubmitted
KeepsProtocol == Protocol!Spec

-----------------------------------------------------------------------------
(* What the user interface and the documents say, and the code does not.   *)

(* "Cancelling stops this run. This cannot be undone.": a cancelled run     *)
(* takes no other outcome.                                                  *)
CancelIsFinal ==
    [][run.status = "cancelled" => run'.status \in {"cancelled", "running"}]_vars

(* "Rejecting ends the run with status rejected. This cannot be undone.": a *)
(* rejected run is not resumed, nor completed.                              *)
RejectIsFinal ==
    [][run.status = "rejected" => run'.status \in {"rejected", "cancelled"}]_vars

(* A running run flagged for cancellation "becomes cancelled when the       *)
(* worker notices": in the end it is settled.                               *)
CancelTakesEffect ==
    run.cancel /\ run.status = "running" ~> run.status \in {"cancelled", "completed", "rejected", "failed"}

(* Runs are "durable, resumable" through restarts: also after a restart a   *)
(* run that waits for its operator can go on.                               *)
RestartKeepsWait == WaitsOnOperator => Actionable

=============================================================================
