------------------------- MODULE RunOperatorProofs -------------------------
(***************************************************************************)
(* What an operator may rely on, for every workflow, budget and number of  *)
(* crashes: attempts, approvals and paid calls with any number of clients; *)
(* the cursor, the reviewed output, actionable waits and feedback when one *)
(* operator drives the run (OneOperator).                                  *)
(***************************************************************************)
EXTENDS RunLifecycleProofs, FiniteSetTheorems

USE DEF At, Doing, Goto, Goes, Done, Begins, calls, rows, db, Serving
-----------------------------------------------------------------------------
(* Who writes what: an output is a worker's or a submission's, a request    *)
(* the worker's.                                                            *)
OutputWritten(s, a) ==
    \/ WRecord /\ s = w.idx /\ a = w.att /\ output'[s][a] = Made
    \/ \E c \in Clients : /\ RecordSubmission(c) /\ output'[s][a] = c
                          /\ s = cl[c].seen.wstep /\ a = cl[c].seen.watt

LEMMA OutputOrigin ==
    ASSUME TypeOK, InFlight, [Next]_vars, NEW s \in Steps, NEW a \in Attempts
    PROVE  output'[s][a] = output[s][a] \/ OutputWritten(s, a)
<1>0. output \in [Steps -> [Attempts -> Outputs \cup {NoOutput}]]
    BY DEF TypeOK
<1>1. CASE WRecord
  <2>1. output' = [output EXCEPT ![w.idx][w.att] = Made]
      BY <1>1 DEF WRecord
  <2>2. QED
      BY <1>0, <1>1, <2>1 DEF OutputWritten
<1>2. ASSUME NEW c \in Clients, RecordSubmission(c)
      PROVE  output'[s][a] = output[s][a] \/ OutputWritten(s, a)
  <2>1. output' = [output EXCEPT ![cl[c].seen.wstep][cl[c].seen.watt] = c]
      BY <1>2 DEF RecordSubmission
  <2>2. QED
      BY <1>0, <1>2, <2>1 DEF OutputWritten
<1>3. CASE Worker
    BY <1>1, <1>3 DEF Worker, WPickUp, WBegin, WStart, WSkip, WTakeStep, WLoopCancelled,
       WLoopBudget, WLoopExit, WPause, WWait, WCall, WInfer, WReturned, WArtifact, WPersisted,
       WAdvance, WComplete, WCancelled, WBudget, WFail
<1>4. ASSUME NEW c \in Clients, Call(c) \/ Proceed(c), ~RecordSubmission(c)
      PROVE  output' = output
    BY <1>4 DEF Call, Proceed, ReadReview, ReadReject, ReadCancel, ReadSubmit, FinishReview,
       WriteReject, WriteCancel, WriteSoftCancel, SaveSubmission, FindArtifact, AddArtifact,
       SettleSubmission, ConcludeSubmission
<1>5. CASE Crash \/ Restart \/ UNCHANGED vars
    BY <1>5 DEF Crash, Restart, vars
<1>6. QED
    BY <1>2, <1>3, <1>4, <1>5 DEF Next

NewRequest == [step |-> w.idx, att |-> w.att, pending |-> TRUE]

LEMMA RequestOrigin ==
    ASSUME TypeOK, [Next]_vars
    PROVE  \/ requests' = requests
           \/ /\ WPause /\ requests' = Append(requests, NewRequest)
              /\ \A i \in DOMAIN requests : ~(requests[i].step = w.idx /\ requests[i].att = w.att)
           \/ \E c \in Clients : /\ SaveSubmission(c)
                                 /\ requests' = [requests EXCEPT ![cl[c].row].pending = FALSE]
<1>1. CASE WPause
    BY <1>1 DEF WPause, NewRequest
<1>2. CASE Worker /\ ~WPause
    BY <1>2 DEF Worker, WPickUp, WBegin, WStart, WSkip, WTakeStep, WLoopCancelled,
       WLoopBudget, WLoopExit, WWait, WCall, WInfer, WReturned, WRecord, WArtifact, WPersisted,
       WAdvance, WComplete, WCancelled, WBudget, WFail
<1>3. ASSUME NEW c \in Clients, SaveSubmission(c)
      PROVE  requests' = [requests EXCEPT ![cl[c].row].pending = FALSE]
    BY <1>3 DEF SaveSubmission
<1>4. ASSUME NEW c \in Clients, Call(c) \/ Proceed(c), ~SaveSubmission(c)
      PROVE  requests' = requests
    BY <1>4 DEF Call, Proceed, ReadReview, ReadReject, ReadCancel, ReadSubmit, FinishReview,
       WriteReject, WriteCancel, WriteSoftCancel, RecordSubmission, FindArtifact, AddArtifact,
       SettleSubmission, ConcludeSubmission
<1>5. CASE Crash \/ Restart \/ UNCHANGED vars
    BY <1>5 DEF Crash, Restart, vars
<1>6. QED
    BY <1>1, <1>2, <1>3, <1>4, <1>5 DEF Next

(* A request found after a step was there before, or the worker made it.    *)
LEMMA RequestFound ==
    ASSUME TypeOK, [Next]_vars, NEW i \in DOMAIN requests'
    PROVE  \/ /\ i \in DOMAIN requests /\ requests'[i].step = requests[i].step
              /\ requests'[i].att = requests[i].att
              /\ requests'[i].pending => requests[i].pending
           \/ /\ WPause /\ i = Len(requests) + 1 /\ requests'[i] = NewRequest
              /\ \A j \in DOMAIN requests : ~(requests[j].step = w.idx /\ requests[j].att = w.att)
<1>0. requests \in Seq(RequestRow) /\ \A j \in DOMAIN requests : requests[j] \in RequestRow
    BY SeqRows DEF TypeOK
<1>1. CASE /\ WPause /\ requests' = Append(requests, NewRequest)
           /\ \A j \in DOMAIN requests : ~(requests[j].step = w.idx /\ requests[j].att = w.att)
  <2>1. Len(requests) \in Nat /\ DOMAIN requests = 1 .. Len(requests)
      BY <1>0
  <2>2. /\ DOMAIN requests' = 1 .. Len(requests) + 1
        /\ \A j \in DOMAIN requests : requests'[j] = requests[j]
        /\ requests'[Len(requests) + 1] = NewRequest
      BY <1>0, <1>1
  <2>3. CASE i \in DOMAIN requests
      BY <2>2, <2>3
  <2>4. CASE i = Len(requests) + 1
      BY <1>1, <2>2, <2>4
  <2>5. QED
      BY <2>1, <2>2, <2>3, <2>4
<1>2. ASSUME NEW c \in Clients, requests' = [requests EXCEPT ![cl[c].row].pending = FALSE]
      PROVE  /\ i \in DOMAIN requests /\ requests'[i].step = requests[i].step
             /\ requests'[i].att = requests[i].att
             /\ requests'[i].pending => requests[i].pending
    BY <1>0, <1>2 DEF RequestRow
<1>3. QED
    BY <1>1, <1>2, RequestOrigin

(* An attempt taken by a step of the system is the one the worker executes. *)
LEMMA TakenOrigin ==
    ASSUME TypeOK, InFlight, [Next]_vars, NEW s \in Steps, NEW a \in Attempts, a \in Taken(s)'
    PROVE  a \in Taken(s) \/ (s = w.idx /\ a = w.att /\ (WPause \/ WRecord))
<1>1. CASE output'[s][a] # NoOutput
  <2>1. ASSUME NEW c \in Clients, RecordSubmission(c), s = cl[c].seen.wstep, a = cl[c].seen.watt
        PROVE  a \in Taken(s)
    <3>1. cl[c].pc \in Submitting
        BY <2>1 DEF RecordSubmission, Submitting
    <3>2. /\ cl[c].row \in DOMAIN requests /\ requests[cl[c].row].step = s
          /\ requests[cl[c].row].att = a
        BY <2>1, <3>1, SubmissionType
    <3>3. QED
        BY <3>2 DEF Taken
  <2>2. output[s][a] # NoOutput => a \in Taken(s)
      BY DEF Taken
  <2>3. QED
      BY <1>1, <2>1, <2>2, OutputOrigin DEF OutputWritten
<1>2. CASE output'[s][a] = NoOutput
  <2>1. PICK i \in DOMAIN requests' : requests'[i].step = s /\ requests'[i].att = a
      BY <1>2 DEF Taken
  <2>2. QED
      BY <2>1, RequestFound DEF Taken, NewRequest
<1>3. QED
    BY <1>1, <1>2

-----------------------------------------------------------------------------
(* The attempt under execution is one past all attempts taken, and no       *)
(* request is made for it once a model executes it.                         *)
LatestAttempt == w.pc \in InStep => \A a \in Taken(w.idx) : a <= w.att
Unrequested ==
    w.pc \in {"call", "infer", "returned", "record", "artifact", "persisted", "advance"}
        => \A i \in DOMAIN requests : ~(requests[i].step = w.idx /\ requests[i].att = w.att)
AttemptInv == FreshAttempt /\ LatestAttempt /\ Unrequested

(* Steps that leave the worker where it is.                                 *)
LEMMA AttemptKept ==
    ASSUME IInv, AttemptInv, [Next]_vars, w' = w, ~WPause, ~WRecord
    PROVE  AttemptInv'
<1>0. TypeOK /\ InFlight /\ w \in WorkerState
    BY DEF IInv, TypeOK
<1>1. w.pc \in InStep => w.idx \in Steps /\ w.att \in Attempts
    BY <1>0, StepsAssumption DEF WorkerState, InFlight, WorkerInFlight
<1>2. ASSUME w.pc \in InStep, NEW a, a \in Taken(w.idx)'
      PROVE  a \in Taken(w.idx)
  <2>1. a \in Attempts
      BY <1>2 DEF Taken
  <2>2. QED
      BY <1>0, <1>1, <1>2, <2>1, TakenOrigin
<1>3. FreshAttempt'
    BY <1>2 DEF AttemptInv, FreshAttempt, InStep
<1>4. LatestAttempt'
    BY <1>2 DEF AttemptInv, LatestAttempt
<1>5. Unrequested'
    BY <1>0, RequestFound DEF AttemptInv, Unrequested
<1>6. QED
    BY <1>3, <1>4, <1>5 DEF AttemptInv

LEMMA AttemptStep == IInv /\ AttemptInv /\ [Next]_vars => AttemptInv'
<1> SUFFICES ASSUME IInv, AttemptInv, [Next]_vars PROVE AttemptInv'
    OBVIOUS
<1>0. /\ TypeOK /\ InFlight /\ w \in WorkerState /\ w.att \in Attempts /\ w.att \in Nat
      /\ w.pc \in InStep => w.idx \in Steps
    BY StepsAssumption, BoundsAssumption
    DEF IInv, TypeOK, WorkerState, InFlight, WorkerInFlight, Attempts
<1>1. CASE w'.pc \notin InStep
    BY <1>1 DEF AttemptInv, FreshAttempt, LatestAttempt, Unrequested, InStep
<1>2. CASE w' = w
  <2>1. ~WPause /\ ~WRecord
      BY <1>0, <1>2 DEF WPause, WRecord, WorkerState
  <2>2. QED
      BY <1>2, <2>1, AttemptKept
<1>3. CASE WTakeStep
  <2>1. PICK a \in Attempts : /\ NextAttempt(w.idx, a)
                              /\ w'.att = a /\ w'.idx = w.idx /\ w'.pc \in {"pause", "call", "fail"}
    <3>1. PICK a \in Attempts :
              /\ NextAttempt(w.idx, a)
              /\ \E pc \in {IF w.idx \in HumanSteps THEN "pause" ELSE "call", "fail"} :
                   w' = [w EXCEPT !.pc = pc, !.att = a, !.tries = 0, !.revising = run.feedback]
        BY <1>3 DEF WTakeStep
    <3>2. QED
        BY <1>0, <3>1 DEF WorkerState
  <2>2. Taken(w.idx)' = Taken(w.idx) /\ requests' = requests
      BY <1>3 DEF WTakeStep, Taken
  <2>3. \A b \in Taken(w.idx) : b < a /\ b \in Nat
      BY <2>1, BoundsAssumption DEF NextAttempt, Taken, Attempts
  <2>4. a \in Nat /\ a \notin Taken(w.idx) /\ \A b \in Taken(w.idx) : b <= a
      BY <2>1, <2>3, BoundsAssumption DEF Attempts
  <2>5. \A i \in DOMAIN requests : ~(requests[i].step = w.idx /\ requests[i].att = a)
      BY <2>1, <2>4 DEF Taken
  <2>6. QED
      BY <2>1, <2>2, <2>4, <2>5 DEF AttemptInv, FreshAttempt, LatestAttempt, Unrequested
<1>4. CASE WCall \/ WInfer \/ WReturned
  <2>1. /\ UNCHANGED rows /\ w'.idx = w.idx /\ w'.att = w.att
        /\ w.pc \in {"call", "infer", "returned"}
        /\ w'.pc \in {"budget", "cancelled", "infer", "returned", "call", "fail", "record"}
      BY <1>0, <1>4 DEF WCall, WInfer, WReturned, WorkerState
  <2>2. QED
      BY <2>1 DEF AttemptInv, FreshAttempt, LatestAttempt, Unrequested, Taken, InStep
<1>5. CASE WPause \/ WRecord
  <2>1. /\ w'.idx = w.idx /\ w'.att = w.att /\ w.pc \in InStep
        /\ w'.pc = IF WPause THEN "wait" ELSE "artifact"
        /\ WPause \/ requests' = requests
      BY <1>0, <1>5 DEF WPause, WRecord, WorkerState, InStep
  <2>2. \A a \in Taken(w.idx)' : a \in Attempts /\ (a \in Taken(w.idx) \/ a = w.att)
      BY <1>0, <2>1, TakenOrigin DEF Taken
  <2>3. \A a \in Taken(w.idx)' : a <= w.att
      BY <1>0, <2>1, <2>2 DEF AttemptInv, LatestAttempt
  <2>4. ~WPause => w.pc = "record"
      BY <1>5 DEF WRecord
  <2>5. QED
      BY <2>1, <2>3, <2>4 DEF AttemptInv, FreshAttempt, LatestAttempt, Unrequested
<1>6. CASE WArtifact \/ WPersisted
  <2>1. /\ UNCHANGED <<output, requests>> /\ w'.idx = w.idx /\ w'.att = w.att
        /\ w.pc \in {"artifact", "persisted"} /\ w'.pc \in {"persisted", "cancelled", "advance"}
      BY <1>0, <1>6 DEF WArtifact, WPersisted, WorkerState
  <2>2. QED
      BY <2>1 DEF AttemptInv, FreshAttempt, LatestAttempt, Unrequested, Taken, InStep
<1>7. CASE Worker
  <2>1. CASE WPickUp \/ WBegin \/ WStart \/ WSkip \/ WLoopCancelled \/ WLoopBudget \/ WLoopExit
    <3>1. w'.pc \in {"begin", "cancelled", "start", "fail", "loop", "budget", "complete"}
        BY <1>0, <2>1 DEF WPickUp, WBegin, WStart, WSkip, WLoopCancelled, WLoopBudget, WLoopExit,
           WorkerState, Rest
    <3>2. QED
        BY <3>1, <1>1 DEF InStep
  <2>2. CASE WWait \/ WAdvance \/ WComplete \/ WCancelled \/ WBudget \/ WFail
    <3>1. w' = Rest \/ w' = [w EXCEPT !.pc = "loop", !.idx = w.idx + 1]
        BY <2>2 DEF WAdvance, WWait, WComplete, WCancelled, WBudget, WFail
    <3>2. Rest.pc = "idle" /\ [w EXCEPT !.pc = "loop", !.idx = w.idx + 1].pc = "loop"
        BY <1>0 DEF Rest, WorkerState
    <3>3. QED
        BY <3>1, <3>2, <1>1 DEF InStep
  <2>3. QED
      BY <1>3, <1>4, <1>5, <1>6, <1>7, <2>1, <2>2 DEF Worker
<1>8. ASSUME NEW c \in Clients, Call(c) \/ Proceed(c) PROVE w' = w
    BY <1>8 DEF Call, Proceed, ReadReview, ReadReject, ReadCancel, ReadSubmit, FinishReview,
       WriteReject, WriteCancel, WriteSoftCancel, SaveSubmission, RecordSubmission,
       FindArtifact, AddArtifact, SettleSubmission, ConcludeSubmission
<1>9. CASE Crash \/ Restart
    BY <1>9, <1>1 DEF Crash, Restart, Rest, InStep
<1>10. QED
    BY <1>2, <1>7, <1>8, <1>9 DEF Next, vars

LEMMA InitAttempt == Init => AttemptInv
    BY DEF Init, AttemptInv, FreshAttempt, LatestAttempt, Unrequested, Rest, InStep

LEMMA Attempt == Spec => [](IInv /\ AttemptInv)
    BY InitInvariant, InvariantStep, InitAttempt, AttemptStep, PTL DEF Spec

(* While the worker executes an attempt nothing of it is stored yet, however*)
(* often the step was repeated after crashes and whatever submissions end   *)
(* late: record_step replaces no result.                                    *)
THEOREM AttemptsAreFresh == Spec => []FreshAttempt
<1>1. AttemptInv => FreshAttempt
    BY DEF AttemptInv
<1>2. QED
    BY <1>1, Attempt, PTL

-----------------------------------------------------------------------------
(* What artifacts keep and who approves them.                               *)

LEMMA ArtifactKept ==
    ASSUME TypeOK, [Next]_vars, NEW i \in DOMAIN artifacts
    PROVE  /\ i \in DOMAIN artifacts' /\ artifacts'[i].data = artifacts[i].data
           /\ \/ artifacts'[i].approved = artifacts[i].approved
              \/ \E c \in Clients : FinishReview(c) /\ StillReviewable(c) /\ i = cl[c].row
<1>0. artifacts \in Seq(ArtifactRow) /\ \A j \in DOMAIN artifacts : artifacts[j] \in ArtifactRow
    BY SeqRows DEF TypeOK
<1> DEFINE Goal == /\ i \in DOMAIN artifacts' /\ artifacts'[i].data = artifacts[i].data
                   /\ \/ artifacts'[i].approved = artifacts[i].approved
                      \/ \E c \in Clients : FinishReview(c) /\ StillReviewable(c) /\ i = cl[c].row
<1>1. CASE artifacts' = artifacts
    BY <1>1
<1>2. ASSUME NEW e, artifacts' = Append(artifacts, e)
      PROVE  Goal
    BY <1>0, <1>2
<1>3. ASSUME NEW c \in Clients, FinishReview(c)
      PROVE  Goal
  <2>1. CASE StillReviewable(c)
    <3>1. artifacts' = [artifacts EXCEPT ![cl[c].row].approved = @ \/ cl[c].approve]
        BY <1>3, <2>1 DEF FinishReview
    <3>2. i \in DOMAIN artifacts'
        BY <1>0, <3>1
    <3>3. CASE i = cl[c].row
      <4>1. artifacts'[i] = [artifacts[i] EXCEPT !.approved = @ \/ cl[c].approve]
          BY <1>0, <3>1, <3>3
      <4>2. artifacts'[i].data = artifacts[i].data
          BY <1>0, <4>1 DEF ArtifactRow
      <4>3. QED
          BY <1>3, <2>1, <3>2, <3>3, <4>2
    <3>4. CASE i # cl[c].row
      <4>1. artifacts'[i] = artifacts[i]
          BY <1>0, <3>1, <3>4
      <4>2. QED
          BY <3>2, <4>1
    <3>5. QED
        BY <3>3, <3>4
  <2>2. CASE ~StillReviewable(c)
      BY <1>1, <1>3, <2>2 DEF FinishReview
  <2>3. QED
      BY <2>1, <2>2
<1>4. CASE Worker
    BY <1>4, <1>1, <1>2 DEF Worker, WPickUp, WBegin, WStart, WSkip, WTakeStep, WLoopCancelled,
       WLoopBudget, WLoopExit, WPause, WWait, WCall, WInfer, WReturned, WRecord, WArtifact,
       WPersisted, WAdvance, WComplete, WCancelled, WBudget, WFail
<1>5. ASSUME NEW c \in Clients, Call(c) \/ Proceed(c)
      PROVE  Goal
    BY <1>1, <1>2, <1>3, <1>5 DEF Call, Proceed, ReadReview, ReadReject, ReadCancel, ReadSubmit,
       WriteReject, WriteCancel, WriteSoftCancel, SaveSubmission, RecordSubmission, FindArtifact,
       AddArtifact, SettleSubmission, ConcludeSubmission
<1>6. CASE Crash \/ Restart \/ UNCHANGED vars
    BY <1>6, <1>1 DEF Crash, Restart, vars
<1>7. QED
    BY <1>4, <1>5, <1>6 DEF Next

(* An artifact is approved by a decision that still matches the wait.       *)
LEMMA ApprovedByReview ==
    ASSUME IInv, [Next]_vars, NEW i \in DOMAIN artifacts,
           ~artifacts[i].approved, artifacts'[i].approved
    PROVE  /\ run.status = "waiting_human" /\ ~run.cancel
           /\ run.wstep = artifacts[i].step /\ run.watt = artifacts[i].att
           /\ run.budget \/ IsLatest(artifacts[i].step, artifacts[i].att)
<1>1. TypeOK /\ InFlight /\ BudgetFlagged /\ run \in RunRow
    BY DEF IInv, TypeOK
<1>2. PICK c \in Clients : FinishReview(c) /\ StillReviewable(c) /\ i = cl[c].row
    BY <1>1, ArtifactKept
<1>3. ReviewInFlight(c)
    BY <1>1, <1>2 DEF InFlight, FinishReview
<1>4. Seen(run).wstep = run.wstep /\ Seen(run).watt = run.watt
    BY <1>1 DEF Seen, RunRow
<1>5. run.wstep = artifacts[i].step /\ run.watt = artifacts[i].att
    BY <1>2, <1>3, <1>4 DEF ReviewInFlight, StillReviewable
<1>6. run.budget \/ IsLatest(artifacts[i].step, artifacts[i].att)
    BY <1>1, <1>2 DEF StillReviewable, CurrentAttempt, BudgetStop, BudgetFlagged
<1>7. QED
    BY <1>2, <1>5, <1>6 DEF StillReviewable

(* Whatever happened since an operator read the run, an approval is for the *)
(* step and attempt the run waits on, not cancelled, and for the latest     *)
(* attempt of the step unless the budget stopped the run.                   *)
THEOREM ApprovalsMatchWaits == Spec => ApprovalMatchesWait
<1>1. IInv /\ [Next]_vars => [\A i \in DOMAIN artifacts :
         ~artifacts[i].approved /\ artifacts'[i].approved =>
            /\ run.status = "waiting_human" /\ ~run.cancel
            /\ run.wstep = artifacts[i].step /\ run.watt = artifacts[i].att
            /\ run.budget \/ IsLatest(artifacts[i].step, artifacts[i].att)]_vars
    BY ApprovedByReview
<1>2. QED
    BY <1>1, Invariant, PTL DEF Spec, ApprovalMatchesWait

-----------------------------------------------------------------------------
(* Paid calls.                                                              *)

ByModels == {i \in DOMAIN artifacts : artifacts[i].data \in {Model, Revised}}

(* Calls in progress are counted before their result is.                    *)
PaidInv ==
    /\ okCalls <= llmCalls /\ llmCalls <= MaxLLM
    /\ w.pc \in {"infer", "returned"} => okCalls < llmCalls
    /\ Cardinality(ByModels) <= okCalls
    /\ w.pc \in {"record", "artifact"} => Cardinality(ByModels) < okCalls

LEMMA ByModelsFinite ==
    ASSUME TypeOK
    PROVE  /\ IsFiniteSet(ByModels) /\ Cardinality(ByModels) \in Nat
           /\ ByModels \subseteq 1 .. Len(artifacts) /\ Len(artifacts) \in Nat
<1>1. Len(artifacts) \in Nat /\ DOMAIN artifacts = 1 .. Len(artifacts)
    BY SeqRows DEF TypeOK
<1>2. IsFiniteSet(1 .. Len(artifacts))
    BY <1>1, FS_Interval
<1>3. ByModels \subseteq 1 .. Len(artifacts)
    BY <1>1 DEF ByModels
<1>4. QED
    BY <1>1, <1>2, <1>3, FS_Subset, FS_CardinalityType

(* An artifact of a model more is one the worker stored.                    *)
LEMMA ByModelsStep ==
    ASSUME TypeOK, [Next]_vars
    PROVE  \/ ByModels' = ByModels
           \/ WArtifact /\ ByModels' = ByModels \cup {Len(artifacts) + 1}
<1>0. artifacts \in Seq(ArtifactRow)
    BY DEF TypeOK
<1>1. \A i \in ByModels : i \in ByModels'
    BY ArtifactKept DEF ByModels
<1>2. CASE WArtifact /\ artifacts' = Append(artifacts, Row(w.idx, w.att, Made))
  <2>1. DOMAIN artifacts' = DOMAIN artifacts \cup {Len(artifacts) + 1}
      BY <1>0, <1>2
  <2>2. \A i \in DOMAIN artifacts : artifacts'[i] = artifacts[i]
      BY <1>0, <1>2
  <2>3. artifacts'[Len(artifacts) + 1].data \in {Model, Revised}
    <3>1. artifacts'[Len(artifacts) + 1] = Row(w.idx, w.att, Made)
        BY <1>0, <1>2
    <3>2. QED
        BY <3>1 DEF Row, Made
  <2>4. QED
      BY <1>2, <2>1, <2>2, <2>3 DEF ByModels
<1>3. CASE artifacts' = artifacts
    BY <1>3 DEF ByModels
<1>4. CASE ~WArtifact
  <2>1. ASSUME NEW i \in ByModels' PROVE i \in ByModels
    <3>1. i \in DOMAIN artifacts' /\ artifacts'[i].data \in {Model, Revised}
        BY DEF ByModels
    <3>2. ASSUME NEW c \in Clients, artifacts'[i] = Row(cl[c].seen.wstep, cl[c].seen.watt, c)
          PROVE  FALSE
        BY <3>1, <3>2, AuthorsAssumption DEF Row
    <3>3. i \in DOMAIN artifacts
        BY <1>4, <3>1, <3>2, ArtifactOrigin
    <3>4. QED
        BY <3>1, <3>3, ArtifactKept DEF ByModels
  <2>2. QED
      BY <1>1, <2>1
<1>5. QED
    BY <1>2, <1>3, <1>4 DEF WArtifact

LEMMA PaidStep == TypeOK /\ PaidInv /\ [Next]_vars => PaidInv'
<1> SUFFICES ASSUME TypeOK, PaidInv, [Next]_vars PROVE PaidInv'
    OBVIOUS
<1>0. /\ okCalls \in Nat /\ llmCalls \in Nat /\ MaxLLM \in Nat /\ w \in WorkerState
      /\ IsFiniteSet(ByModels) /\ Cardinality(ByModels) \in Nat /\ Len(artifacts) + 1 \notin ByModels
    BY BoundsAssumption, ByModelsFinite DEF TypeOK
<1>1. CASE /\ ByModels' = ByModels /\ UNCHANGED calls
           /\ \/ w'.pc \notin {"infer", "returned", "record", "artifact"}
              \/ w'.pc = w.pc
              \/ w.pc \in {"infer", "returned"} /\ w'.pc \in {"infer", "returned"}
              \/ w.pc \in {"record", "artifact"} /\ w'.pc \in {"record", "artifact"}
    BY <1>1 DEF PaidInv
<1>2. CASE WArtifact
  <2>1. w.pc = "artifact" /\ w'.pc = "persisted" /\ UNCHANGED calls
      BY <1>0, <1>2 DEF WArtifact, WorkerState
  <2>2. Cardinality(ByModels \cup {Len(artifacts) + 1}) = Cardinality(ByModels) + 1
      BY <1>0, FS_AddElement
  <2>3. Cardinality(ByModels') = Cardinality(ByModels) \/ Cardinality(ByModels') = Cardinality(ByModels) + 1
      BY <2>2, ByModelsStep
  <2>4. Cardinality(ByModels)' <= okCalls
      BY <1>0, <2>1, <2>3 DEF PaidInv
  <2>5. QED
      BY <2>1, <2>4 DEF PaidInv
<1>3. CASE WCall
  <2>1. ByModels' = ByModels /\ okCalls' = okCalls
      BY <1>3 DEF WCall, ByModels
  <2>2. CASE llmCalls' = llmCalls /\ w'.pc \in {"budget", "cancelled"}
      BY <1>1, <2>1, <2>2
  <2>3. CASE llmCalls' = llmCalls + 1 /\ w'.pc = "infer" /\ llmCalls < MaxLLM
      BY <1>0, <2>1, <2>3 DEF PaidInv
  <2>4. QED
    <3>1. \A pc : [w EXCEPT !.pc = pc].pc = pc
        BY <1>0 DEF WorkerState
    <3>2. [w EXCEPT !.pc = "infer", !.tries = w.tries + 1].pc = "infer"
        BY <1>0 DEF WorkerState
    <3>3. CASE llmCalls >= MaxLLM \/ run.cancel
        BY <1>3, <2>2, <3>1, <3>3 DEF WCall
    <3>4. CASE llmCalls < MaxLLM /\ ~run.cancel
      <4>1. llmCalls' = llmCalls + 1 /\ w' = [w EXCEPT !.pc = "infer", !.tries = w.tries + 1]
          BY <1>0, <1>3, <3>4 DEF WCall
      <4>2. QED
          BY <2>3, <3>2, <3>4, <4>1
    <3>5. QED
        BY <1>0, <3>3, <3>4
<1>4. CASE WReturned
  <2>1. ByModels' = ByModels /\ llmCalls' = llmCalls /\ w.pc = "returned"
      BY <1>4 DEF WReturned, ByModels
  <2>2. CASE okCalls' = okCalls /\ w'.pc = "cancelled"
      BY <1>1, <2>1, <2>2
  <2>3. CASE okCalls' = okCalls + 1 /\ w'.pc = "record"
      BY <1>0, <2>1, <2>3 DEF PaidInv
  <2>4. QED
      BY <1>0, <1>4, <2>2, <2>3 DEF WReturned, WorkerState
<1>5. CASE Worker /\ ~WArtifact /\ ~WCall /\ ~WReturned
  <2>1. ByModels' = ByModels /\ UNCHANGED calls
      BY <1>5 DEF Worker, WPickUp, WBegin, WStart, WSkip, WTakeStep, WLoopCancelled, WLoopBudget,
         WLoopExit, WPause, WWait, WInfer, WRecord, WPersisted, WAdvance, WComplete, WCancelled,
         WBudget, WFail, ByModels
  <2>2. CASE WInfer \/ WRecord
      BY <1>0, <1>1, <2>1, <2>2 DEF WInfer, WRecord, WorkerState
  <2>3. CASE WPickUp \/ WBegin \/ WStart \/ WSkip \/ WLoopCancelled \/ WLoopBudget \/ WLoopExit
             \/ WPause \/ WPersisted
    <3>1. w'.pc \in {"begin", "cancelled", "start", "fail", "loop", "budget", "complete", "wait", "advance"}
        BY <1>0, <2>3 DEF WPickUp, WBegin, WStart, WSkip, WLoopCancelled, WLoopBudget, WLoopExit,
           WPause, WPersisted, WorkerState, Rest
    <3>2. QED
        BY <3>1, <2>1, <1>1
  <2>4. CASE WWait \/ WAdvance \/ WComplete \/ WCancelled \/ WBudget \/ WFail
    <3>1. w' = Rest \/ w' = [w EXCEPT !.pc = "loop", !.idx = w.idx + 1]
        BY <2>4 DEF WAdvance, WWait, WComplete, WCancelled, WBudget, WFail
    <3>2. Rest.pc = "idle" /\ [w EXCEPT !.pc = "loop", !.idx = w.idx + 1].pc = "loop"
        BY <1>0 DEF Rest, WorkerState
    <3>3. QED
        BY <3>1, <3>2, <2>1, <1>1
  <2>5. CASE WTakeStep
    <3>1. PICK a \in Attempts :
              \E pc \in {IF w.idx \in HumanSteps THEN "pause" ELSE "call", "fail"} :
                 w' = [w EXCEPT !.pc = pc, !.att = a, !.tries = 0, !.revising = run.feedback]
        BY <2>5 DEF WTakeStep
    <3>2. w'.pc \in {"pause", "call", "fail"}
        BY <1>0, <3>1 DEF WorkerState
    <3>3. QED
        BY <3>2, <2>1, <1>1
  <2>6. QED
      BY <1>5, <2>2, <2>3, <2>4, <2>5 DEF Worker
<1>6. ASSUME NEW c \in Clients, Call(c) \/ Proceed(c)
      PROVE  w' = w /\ UNCHANGED calls /\ ~WArtifact
  <2>1. w' = w /\ UNCHANGED calls
      BY <1>6 DEF Call, Proceed, ReadReview, ReadReject, ReadCancel, ReadSubmit, FinishReview,
         WriteReject, WriteCancel, WriteSoftCancel, SaveSubmission, RecordSubmission,
         FindArtifact, AddArtifact, SettleSubmission, ConcludeSubmission
  <2>2. QED
      BY <1>0, <2>1 DEF WArtifact, WorkerState
<1>7. CASE Crash \/ Restart \/ UNCHANGED vars
  <2>1. ByModels' = ByModels /\ UNCHANGED calls
      BY <1>7 DEF Crash, Restart, vars, ByModels
  <2>2. w'.pc \notin {"infer", "returned", "record", "artifact"} \/ w' = w
      BY <1>7 DEF Crash, Restart, vars, Rest
  <2>3. QED
      BY <2>1, <2>2, <1>1
<1>8. QED
    BY <1>1, <1>2, <1>3, <1>4, <1>5, <1>6, <1>7, ByModelsStep DEF Next

LEMMA InitPaid == Init => PaidInv
<1> SUFFICES ASSUME Init PROVE PaidInv
    OBVIOUS
<1>1. ByModels = {}
  <2>1. artifacts = <<>>
      BY DEF Init
  <2>2. QED
      BY <2>1 DEF ByModels
<1>2. Cardinality(ByModels) = 0
    BY <1>1, FS_EmptySet
<1>3. QED
    BY <1>2, BoundsAssumption DEF Init, PaidInv, Rest

(* No result of a model is stored that was not paid for, and no more calls  *)
(* are paid than the budget allows, through any number of crashes.          *)
THEOREM ModelsArePaid == Spec => []PaidFor
<1>1. Init => IInv /\ PaidInv
    BY InitInvariant, InitPaid
<1>2. IInv /\ PaidInv /\ [Next]_vars => (IInv /\ PaidInv)'
    BY InvariantStep, PaidStep DEF IInv
<1>3. PaidInv => PaidFor
    BY DEF PaidInv, PaidFor, ByModels
<1>4. QED
    BY <1>1, <1>2, <1>3, PTL DEF Spec

-----------------------------------------------------------------------------
(* One operator.                                                            *)
OneOperator == \A c, d \in Clients : c = d

(* What a step writes in the run row; the request to cancel stays.          *)
Turns(q, r, status, cursor, reason, feedback) ==
    /\ q.status = status /\ q.cursor = cursor /\ q.reason = reason /\ q.feedback = feedback
    /\ q.cancel = r.cancel
Writes(status, cursor, reason, feedback) == Turns(run', run, status, cursor, reason, feedback)
WaitsAt(s, a) == run'.wstep = s /\ run'.watt = a

(* The worker takes the run, works inside a step, moves on to the next step *)
(* or lets the run go.                                                      *)
Takes == WPickUp /\ run' = run /\ w'.pc = "begin" /\ w'.idx = run.cursor /\ run.status = "queued"
StaysInside ==
    /\ Executing /\ Executing' /\ w'.idx = w.idx
    /\ \/ run' = run
       \/ WStart /\ Writes("running", run.cursor, "", run.feedback)
       \/ WPersisted /\ Writes(run.status, run.cursor, run.reason, FALSE)
MovesOn ==
    /\ Executing /\ Executing' /\ (WSkip \/ (WAdvance /\ w.idx \notin Checkpoints))
    /\ w'.pc = "loop" /\ w'.idx = w.idx + 1
    /\ Writes(run.status, w.idx + 1, run.reason, run.feedback)
Pauses ==
    \/ WWait /\ Writes("waiting_human", run.cursor, "execute_step", run.feedback)
       /\ WaitsAt(w.idx, w.att)
    \/ WAdvance /\ Writes("waiting_human", w.idx, "review", run.feedback) /\ WaitsAt(w.idx, w.att)
    \/ WBudget /\ Writes("waiting_human", run.cursor, "budget_exhausted", run.feedback)
       /\ \E i \in DOMAIN artifacts : WaitsAt(artifacts[i].step, artifacts[i].att)
Ends ==
    \E s \in {"completed", "cancelled", "failed"}, why \in Reasons :
        Writes(s, run.cursor, why, run.feedback)
LetsGo ==
    /\ Executing /\ w' = Rest
    /\ \/ Pauses
       \/ Ends
       \/ WFail /\ run' = run /\ run.status \notin {"queued", "running"}

LEMMA Written ==
    \A s, n, why, f : Writes(s, n, why, f) =>
        /\ run'.status = s /\ run'.cursor = n /\ run'.reason = why /\ run'.feedback = f
        /\ run'.cancel = run.cancel
    BY DEF Writes, Turns

(* The rows the worker writes.                                              *)
LEMMA WorkerRows ==
    ASSUME TypeOK
    PROVE  /\ WStart => Writes("running", run.cursor, "", run.feedback)
           /\ WSkip => Writes(run.status, w.idx + 1, run.reason, run.feedback)
           /\ WPersisted => \/ run' = run
                            \/ Writes(run.status, run.cursor, run.reason, FALSE)
           /\ WAdvance /\ w.idx \in Checkpoints =>
                  /\ w' = Rest /\ Writes("waiting_human", w.idx, "review", run.feedback)
                  /\ WaitsAt(w.idx, w.att)
           /\ WAdvance /\ w.idx \notin Checkpoints =>
                  /\ w' = [w EXCEPT !.pc = "loop", !.idx = w.idx + 1]
                  /\ Writes(run.status, w.idx + 1, run.reason, run.feedback)
           /\ WWait => /\ Writes("waiting_human", run.cursor, "execute_step", run.feedback)
                       /\ WaitsAt(w.idx, w.att)
           /\ WComplete => Writes("completed", run.cursor, "", run.feedback)
           /\ WCancelled => Writes("cancelled", run.cursor, "", run.feedback)
           /\ WFail => \/ run' = run /\ run.status \notin {"queued", "running"}
                       \/ Writes("failed", run.cursor, "", run.feedback)
           /\ WBudget => \/ Writes("failed", run.cursor, run.reason, run.feedback)
                         \/ /\ Writes("waiting_human", run.cursor, "budget_exhausted", run.feedback)
                            /\ \E i \in DOMAIN artifacts : WaitsAt(artifacts[i].step, artifacts[i].att)
<1>0. run \in RunRow
    BY DEF TypeOK
<1>1. WStart => Writes("running", run.cursor, "", run.feedback)
  <2>1. WStart => run' = NoWait(Status(run, "running"))
      BY DEF WStart
  <2>2. QED
      BY <1>0, <2>1 DEF Writes, Turns, WaitsAt, NoWait, Status, WaitFor, RunRow
<1>2. WSkip => Writes(run.status, w.idx + 1, run.reason, run.feedback)
  <2>1. WSkip => run' = [run EXCEPT !.cursor = w.idx + 1]
      BY DEF WSkip
  <2>2. QED
      BY <1>0, <2>1 DEF Writes, Turns, WaitsAt, NoWait, Status, WaitFor, RunRow
<1>3. WPersisted => \/ run' = run
                    \/ Writes(run.status, run.cursor, run.reason, FALSE)
  <2>1. WPersisted => run' = run \/ run' = [run EXCEPT !.feedback = FALSE]
      BY DEF WPersisted
  <2>2. QED
      BY <1>0, <2>1 DEF Writes, Turns, WaitsAt, NoWait, Status, WaitFor, RunRow
<1>4. WAdvance /\ w.idx \in Checkpoints =>
          /\ w' = Rest /\ Writes("waiting_human", w.idx, "review", run.feedback)
          /\ WaitsAt(w.idx, w.att)
  <2>1. WAdvance /\ w.idx \in Checkpoints =>
            w' = Rest /\ run' = WaitFor([run EXCEPT !.cursor = w.idx], "review", w.idx, w.att)
      BY DEF WAdvance
  <2>2. QED
      BY <1>0, <2>1 DEF Writes, Turns, WaitsAt, NoWait, Status, WaitFor, RunRow
<1>5. WAdvance /\ w.idx \notin Checkpoints =>
          /\ w' = [w EXCEPT !.pc = "loop", !.idx = w.idx + 1]
          /\ Writes(run.status, w.idx + 1, run.reason, run.feedback)
  <2>1. WAdvance /\ w.idx \notin Checkpoints =>
            /\ w' = [w EXCEPT !.pc = "loop", !.idx = w.idx + 1]
            /\ run' = [run EXCEPT !.cursor = w.idx + 1]
      BY DEF WAdvance
  <2>2. QED
      BY <1>0, <2>1 DEF Writes, Turns, WaitsAt, NoWait, Status, WaitFor, RunRow
<1>6. WWait => /\ Writes("waiting_human", run.cursor, "execute_step", run.feedback)
               /\ WaitsAt(w.idx, w.att)
  <2>1. WWait => run' = WaitFor(run, "execute_step", w.idx, w.att)
      BY DEF WWait
  <2>2. QED
      BY <1>0, <2>1 DEF Writes, Turns, WaitsAt, NoWait, Status, WaitFor, RunRow
<1>7. /\ WComplete => Writes("completed", run.cursor, "", run.feedback)
      /\ WCancelled => Writes("cancelled", run.cursor, "", run.feedback)
  <2>1. /\ WComplete => run' = NoWait(Status(run, "completed"))
        /\ WCancelled => run' = NoWait(Status(run, "cancelled"))
      BY DEF WComplete, WCancelled
  <2>2. QED
      BY <1>0, <2>1 DEF Writes, Turns, WaitsAt, NoWait, Status, WaitFor, RunRow
<1>8. WFail => \/ run' = run /\ run.status \notin {"queued", "running"}
               \/ Writes("failed", run.cursor, "", run.feedback)
  <2>1. WFail => \/ run' = run /\ run.status \notin {"queued", "running"}
                 \/ run' = NoWait(Status(run, "failed"))
      BY DEF WFail, FailActive
  <2>2. QED
      BY <1>0, <2>1 DEF Writes, Turns, WaitsAt, NoWait, Status, WaitFor, RunRow
<1>9. WBudget => \/ Writes("failed", run.cursor, run.reason, run.feedback)
                 \/ /\ Writes("waiting_human", run.cursor, "budget_exhausted", run.feedback)
                    /\ \E i \in DOMAIN artifacts : WaitsAt(artifacts[i].step, artifacts[i].att)
  <2>1. CASE artifacts = <<>>
    <3>1. WBudget => run' = Status([run EXCEPT !.budget = TRUE], "failed")
        BY <2>1 DEF WBudget
    <3>2. QED
        BY <1>0, <3>1 DEF Writes, Turns, WaitsAt, NoWait, Status, WaitFor, RunRow
  <2>2. CASE artifacts # <<>>
    <3>1. Len(artifacts) \in DOMAIN artifacts
        BY <2>2 DEF TypeOK
    <3>2. WBudget => run' = WaitFor([run EXCEPT !.budget = TRUE], "budget_exhausted",
                               artifacts[Len(artifacts)].step, artifacts[Len(artifacts)].att)
        BY <2>2 DEF WBudget
    <3>3. QED
        BY <1>0, <3>1, <3>2 DEF Writes, Turns, WaitsAt, NoWait, Status, WaitFor, RunRow
  <2>3. QED
      BY <2>1, <2>2
<1>10. QED
    BY <1>1, <1>2, <1>3, <1>4, <1>5, <1>6, <1>7, <1>8, <1>9

LEMMA WorkerMoves ==
    ASSUME TypeOK, Worker
    PROVE  cl' = cl /\ crashes' = crashes /\ (Takes \/ StaysInside \/ MovesOn \/ LetsGo)
<1>0. w \in WorkerState /\ run.reason \in Reasons
    BY DEF TypeOK, RunRow
<1>1. cl' = cl /\ crashes' = crashes
    BY DEF Worker, WPickUp, WBegin, WStart, WSkip, WTakeStep, WLoopCancelled, WLoopBudget,
       WLoopExit, WPause, WWait, WCall, WInfer, WReturned, WRecord, WArtifact, WPersisted, WAdvance,
       WComplete, WCancelled, WBudget, WFail
<1>2. CASE WPickUp
  <2>1. w' = [Rest EXCEPT !.pc = "begin", !.idx = run.cursor]
      BY <1>2 DEF WPickUp
  <2>2. w'.pc = "begin" /\ w'.idx = run.cursor
      BY <2>1 DEF Rest
  <2>3. QED
      BY <1>1, <1>2, <2>2 DEF WPickUp, Takes
<1>3. CASE WBegin \/ WStart \/ WLoopCancelled \/ WLoopBudget \/ WLoopExit \/ WPause
  <2>1. Executing /\ Executing' /\ w'.idx = w.idx
      BY <1>0, <1>3 DEF WBegin, WStart, WLoopCancelled, WLoopBudget, WLoopExit, WPause,
         WorkerState, Executing
  <2>2. QED
      BY <1>1, <1>3, <2>1, WorkerRows DEF WBegin, WLoopCancelled, WLoopBudget, WLoopExit, WPause,
         StaysInside
<1>4. CASE WCall \/ WInfer \/ WReturned \/ WRecord \/ WArtifact \/ WPersisted
  <2>1. Executing /\ Executing' /\ w'.idx = w.idx
    <3>1. \A pc : [w EXCEPT !.pc = pc].pc = pc /\ [w EXCEPT !.pc = pc].idx = w.idx
        BY <1>0 DEF WorkerState
    <3>2. [w EXCEPT !.pc = "infer", !.tries = w.tries + 1].pc = "infer"
          /\ [w EXCEPT !.pc = "infer", !.tries = w.tries + 1].idx = w.idx
        BY <1>0 DEF WorkerState
    <3>3. CASE WCall
      <4>1. \/ \E pc \in {"budget", "cancelled"} : w' = [w EXCEPT !.pc = pc]
            \/ w' = [w EXCEPT !.pc = "infer", !.tries = w.tries + 1]
          BY <3>3 DEF WCall
      <4>2. w.pc = "call" /\ w'.pc \in {"budget", "cancelled", "infer"} /\ w'.idx = w.idx
          BY <3>1, <3>2, <3>3, <4>1 DEF WCall
      <4>3. QED
          BY <4>2 DEF Executing
    <3>4. CASE WInfer \/ WReturned \/ WRecord \/ WArtifact \/ WPersisted
        BY <3>1, <3>4 DEF WInfer, WReturned, WRecord, WArtifact, WPersisted, Executing
    <3>5. QED
        BY <1>4, <3>3, <3>4
  <2>2. QED
      BY <1>1, <1>4, <2>1, WorkerRows DEF WCall, WInfer, WReturned, WRecord, WArtifact, StaysInside
<1>5. CASE WTakeStep
  <2>1. PICK a \in Attempts :
            \E pc \in {IF w.idx \in HumanSteps THEN "pause" ELSE "call", "fail"} :
               w' = [w EXCEPT !.pc = pc, !.att = a, !.tries = 0, !.revising = run.feedback]
      BY <1>5 DEF WTakeStep
  <2>2. w'.idx = w.idx /\ Executing /\ Executing'
      BY <1>0, <1>5, <2>1 DEF WTakeStep, WorkerState, Executing
  <2>3. QED
      BY <1>1, <1>5, <2>2 DEF WTakeStep, StaysInside
<1>6. CASE WSkip
  <2>1. w'.idx = w.idx + 1 /\ w'.pc = "loop" /\ Executing
      BY <1>0, <1>6 DEF WSkip, WorkerState, Executing
  <2>2. QED
      BY <1>1, <1>6, <2>1, WorkerRows DEF MovesOn, Executing
<1>7. CASE WAdvance
  <2>1. Executing
      BY <1>7 DEF WAdvance, Executing
  <2>2. LET v == [w EXCEPT !.pc = "loop", !.idx = w.idx + 1]
        IN  v.pc = "loop" /\ v.idx = w.idx + 1
      BY <1>0 DEF WorkerState
  <2>3. CASE w.idx \in Checkpoints
      BY <1>1, <1>7, <2>1, <2>3, WorkerRows DEF LetsGo, Pauses
  <2>4. CASE w.idx \notin Checkpoints
      BY <1>1, <1>7, <2>1, <2>2, <2>4, WorkerRows DEF MovesOn, Executing
  <2>5. QED
      BY <2>3, <2>4
<1>8. CASE WWait \/ WComplete \/ WCancelled \/ WFail \/ WBudget
  <2>1. Executing /\ w' = Rest
      BY <1>8 DEF WWait, WComplete, WCancelled, WFail, WBudget, Executing
  <2>2. WComplete \/ WCancelled => Ends
      BY WorkerRows DEF Ends, Reasons
  <2>3. WWait => Pauses
      BY WorkerRows DEF Pauses
  <2>4. WFail => Ends \/ (run' = run /\ run.status \notin {"queued", "running"})
      BY WorkerRows DEF Ends, Reasons
  <2>5. WBudget => Ends \/ Pauses
      BY <1>0, WorkerRows DEF Ends, Pauses
  <2>6. QED
      BY <1>1, <1>8, <2>1, <2>2, <2>3, <2>4, <2>5 DEF LetsGo
<1>9. QED
    BY <1>1, <1>2, <1>3, <1>4, <1>5, <1>6, <1>7, <1>8 DEF Worker

(* What an operator's step does to the run.                                 *)
Begun(c) == Call(c) /\ run' = run
Decides(c) ==
    /\ FinishReview(c) /\ StillReviewable(c)
    /\ \/ /\ cl[c].approve /\ (BudgetStop(run) \/ run.cursor + 1 = NSteps)
          /\ Writes("completed", NSteps, "", cl[c].feedback)
       \/ /\ cl[c].approve /\ ~BudgetStop(run)
          /\ Writes("queued", run.cursor + 1, "", cl[c].feedback)
       \/ ~cl[c].approve /\ Writes("queued", run.cursor, "", cl[c].feedback)
Reviewed(c) ==
    /\ FinishReview(c) /\ cl'[c] = Idle
    /\ Decides(c) \/ (run' = run /\ decision' = decision /\ artifacts' = artifacts)
Rejected(c) ==
    /\ WriteReject(c) /\ cl'[c] = Idle
    /\ \E f \in BOOLEAN : Writes("rejected", run.cursor, "", f)
Cancelled(c) ==
    /\ WriteCancel(c) \/ WriteSoftCancel(c)
    /\ cl'[c] = Idle
    /\ run'.cancel /\ run'.cursor = run.cursor /\ run'.feedback = run.feedback
    /\ \/ run'.status = "cancelled"
       \/ /\ run'.status = run.status /\ run'.reason = run.reason
          /\ WaitsAt(run.wstep, run.watt)
StaysSubmitting(c) ==
    /\ SaveSubmission(c) \/ RecordSubmission(c) \/ FindArtifact(c) \/ AddArtifact(c)
    /\ run' = run /\ cl'[c].seen = cl[c].seen /\ cl'[c].row = cl[c].row
    /\ cl[c].pc \in Submitting /\ cl'[c].pc \in Submitting
SettlesSubmission(c) ==
    /\ SettleSubmission(c) /\ cl[c].pc = "settle"
    /\ Writes(run.status, run.cursor, run.reason, FALSE) /\ WaitsAt(run.wstep, run.watt)
    /\ \/ run.cancel /\ cl'[c] = Idle
       \/ /\ ~run.cancel /\ cl'[c].pc = "conclude" /\ cl'[c].seen = cl[c].seen
          /\ cl'[c].row = cl[c].row
ConcludesSubmission(c) ==
    /\ ConcludeSubmission(c) /\ cl'[c] = Idle /\ cl[c].pc = "conclude"
    /\ \/ /\ cl[c].seen.wstep \in Checkpoints
          /\ Writes("waiting_human", run.cursor, "review", run.feedback)
          /\ WaitsAt(cl[c].seen.wstep, cl[c].seen.watt)
       \/ /\ cl[c].seen.wstep \notin Checkpoints
          /\ Writes("queued", cl[c].seen.cursor + 1, "", run.feedback)

LEMMA DecidedRow ==
    ASSUME TypeOK, NEW c \in Clients, FinishReview(c), StillReviewable(c)
    PROVE  Decides(c)
<1>0. run \in RunRow /\ cl[c] \in ClientState
    BY DEF TypeOK
<1>1. run' = Decided(run, cl[c].approve, cl[c].feedback)
    BY DEF FinishReview
<1>2. CASE cl[c].approve /\ (BudgetStop(run) \/ run.cursor + 1 = NSteps)
  <2>1. run' = [NoWait(Status(run, "completed")) EXCEPT !.cursor = NSteps, !.feedback = cl[c].feedback]
      BY <1>1, <1>2 DEF Decided
  <2>2. Writes("completed", NSteps, "", cl[c].feedback)
      BY <1>0, <2>1 DEF Writes, Turns, NoWait, Status, RunRow
  <2>3. QED
      BY <1>2, <2>2 DEF Decides
<1>3. CASE cl[c].approve /\ ~(BudgetStop(run) \/ run.cursor + 1 = NSteps)
  <2>1. run' = [NoWait(Status(run, "queued")) EXCEPT !.cursor = @ + 1, !.feedback = cl[c].feedback]
      BY <1>1, <1>3 DEF Decided
  <2>2. Writes("queued", run.cursor + 1, "", cl[c].feedback)
      BY <1>0, <2>1 DEF Writes, Turns, NoWait, Status, RunRow
  <2>3. QED
      BY <1>3, <2>2 DEF Decides
<1>4. CASE ~cl[c].approve
  <2>1. run' = [NoWait(Status(run, "queued")) EXCEPT !.cursor = @, !.feedback = cl[c].feedback]
      BY <1>1, <1>4 DEF Decided
  <2>2. Writes("queued", run.cursor, "", cl[c].feedback)
      BY <1>0, <2>1 DEF Writes, Turns, NoWait, Status, RunRow
  <2>3. QED
      BY <1>4, <2>2 DEF Decides
<1>5. QED
    BY <1>2, <1>3, <1>4

(* A client's step moves its own operation and nothing of the worker.       *)
LEMMA ClientMoves ==
    ASSUME TypeOK, NEW c \in Clients, Call(c) \/ Proceed(c)
    PROVE  /\ w' = w /\ crashes' = crashes
           /\ \A d \in Clients : d # c => cl'[d] = cl[d]
           /\ \/ Begun(c) \/ Reviewed(c) \/ Rejected(c) \/ Cancelled(c)
              \/ StaysSubmitting(c) \/ SettlesSubmission(c) \/ ConcludesSubmission(c)
<1>0. cl \in [Clients -> ClientState] /\ cl[c] \in ClientState /\ run \in RunRow
    BY DEF TypeOK
<1>1. /\ w' = w /\ crashes' = crashes
      /\ \A d \in Clients : d # c => cl'[d] = cl[d]
    BY <1>0 DEF Call, Proceed, ReadReview, ReadReject, ReadCancel, ReadSubmit, FinishReview,
       WriteReject, WriteCancel, WriteSoftCancel, SaveSubmission, RecordSubmission, FindArtifact,
       AddArtifact, SettleSubmission, ConcludeSubmission
<1>2. Call(c) => Begun(c)
    BY DEF Begun, Call, ReadReview, ReadReject, ReadCancel, ReadSubmit
<1>3. /\ [cl EXCEPT ![c] = Idle][c] = Idle
      /\ \A pc : /\ [cl EXCEPT ![c].pc = pc][c].seen = cl[c].seen
                 /\ [cl EXCEPT ![c].pc = pc][c].row = cl[c].row
                 /\ [cl EXCEPT ![c].pc = pc][c].pc = pc
    BY <1>0 DEF ClientState
<1>4. CASE SaveSubmission(c) \/ RecordSubmission(c) \/ FindArtifact(c) \/ AddArtifact(c)
  <2>1. /\ run' = run /\ cl[c].pc \in Submitting
        /\ \E pc \in Submitting : cl' = [cl EXCEPT ![c].pc = pc]
      BY <1>4 DEF SaveSubmission, RecordSubmission, FindArtifact, AddArtifact, Submitting
  <2>2. PICK pc \in Submitting : cl' = [cl EXCEPT ![c].pc = pc]
      BY <2>1
  <2>3. cl'[c].seen = cl[c].seen /\ cl'[c].row = cl[c].row /\ cl'[c].pc \in Submitting
      BY <1>3, <2>2
  <2>4. StaysSubmitting(c)
      BY <1>4, <2>1, <2>3 DEF StaysSubmitting
  <2>5. QED
      BY <1>1, <2>4
<1>5. SettleSubmission(c) => SettlesSubmission(c)
  <2>1. ASSUME SettleSubmission(c)
        PROVE  /\ cl[c].pc = "settle" /\ run' = [run EXCEPT !.feedback = FALSE]
               /\ \/ run.cancel /\ cl' = [cl EXCEPT ![c] = Idle]
                  \/ ~run.cancel /\ cl' = [cl EXCEPT ![c].pc = "conclude"]
      BY <2>1 DEF SettleSubmission
  <2>2. ASSUME SettleSubmission(c), run.cancel PROVE cl'[c] = Idle
      BY <1>3, <2>1, <2>2
  <2>3. ASSUME SettleSubmission(c), ~run.cancel
        PROVE  cl'[c].pc = "conclude" /\ cl'[c].seen = cl[c].seen /\ cl'[c].row = cl[c].row
    <3>1. cl' = [cl EXCEPT ![c].pc = "conclude"]
        BY <2>1, <2>3
    <3>2. cl'[c] = [cl[c] EXCEPT !.pc = "conclude"]
        BY <1>0, <3>1
    <3>3. QED
        BY <1>0, <3>2 DEF ClientState
  <2>4. SettleSubmission(c) => /\ Writes(run.status, run.cursor, run.reason, FALSE)
                               /\ WaitsAt(run.wstep, run.watt)
      BY <1>0, <2>1 DEF Writes, Turns, WaitsAt, RunRow
  <2>5. QED
      BY <2>1, <2>2, <2>3, <2>4 DEF SettlesSubmission
<1>6. ConcludeSubmission(c) => ConcludesSubmission(c)
  <2>1. ConcludeSubmission(c) /\ cl[c].seen.wstep \in Checkpoints =>
            run' = WaitFor(run, "review", cl[c].seen.wstep, cl[c].seen.watt)
      BY DEF ConcludeSubmission
  <2>2. ConcludeSubmission(c) /\ cl[c].seen.wstep \notin Checkpoints =>
            run' = [NoWait(Status(run, "queued")) EXCEPT !.cursor = cl[c].seen.cursor + 1]
      BY DEF ConcludeSubmission
  <2>3. ConcludeSubmission(c) /\ cl[c].seen.wstep \in Checkpoints =>
            /\ Writes("waiting_human", run.cursor, "review", run.feedback)
            /\ WaitsAt(cl[c].seen.wstep, cl[c].seen.watt)
      BY <1>0, <2>1 DEF Writes, Turns, WaitsAt, WaitFor, RunRow
  <2>4. ConcludeSubmission(c) /\ cl[c].seen.wstep \notin Checkpoints =>
            Writes("queued", cl[c].seen.cursor + 1, "", run.feedback)
      BY <1>0, <2>2 DEF Writes, Turns, NoWait, Status, RunRow
  <2>5. ConcludeSubmission(c) => cl'[c] = Idle /\ cl[c].pc = "conclude"
      BY <1>3 DEF ConcludeSubmission
  <2>6. QED
      BY <2>3, <2>4, <2>5 DEF ConcludesSubmission
<1>7. FinishReview(c) => Reviewed(c)
  <2>1. FinishReview(c) => cl'[c] = Idle
      BY <1>3 DEF FinishReview
  <2>2. FinishReview(c) /\ ~StillReviewable(c) =>
            run' = run /\ decision' = decision /\ artifacts' = artifacts
      BY DEF FinishReview
  <2>3. QED
      BY <2>1, <2>2, DecidedRow DEF Reviewed
<1>8. WriteReject(c) => Rejected(c)
  <2>1. WriteReject(c) => /\ cl'[c] = Idle
                          /\ \E f \in BOOLEAN :
                                 run' = [NoWait(Status(run, "rejected")) EXCEPT !.feedback = f]
      BY <1>3 DEF WriteReject
  <2>2. ASSUME WriteReject(c) PROVE \E f \in BOOLEAN : Writes("rejected", run.cursor, "", f)
    <3>1. PICK f \in BOOLEAN : run' = [NoWait(Status(run, "rejected")) EXCEPT !.feedback = f]
        BY <2>1, <2>2
    <3>2. Writes("rejected", run.cursor, "", f)
        BY <1>0, <3>1 DEF Writes, Turns, NoWait, Status, RunRow
    <3>3. QED
        BY <3>2
  <2>3. QED
      BY <2>1, <2>2 DEF Rejected
<1>9. WriteCancel(c) \/ WriteSoftCancel(c) => Cancelled(c)
  <2>1. WriteCancel(c) => /\ cl'[c] = Idle
                          /\ run' = [NoWait(Status(run, "cancelled")) EXCEPT !.cancel = TRUE]
      BY <1>3 DEF WriteCancel
  <2>2. WriteSoftCancel(c) => cl'[c] = Idle /\ run' = [run EXCEPT !.cancel = TRUE]
      BY <1>3 DEF WriteSoftCancel
  <2>3. WriteCancel(c) => /\ run'.cancel /\ run'.cursor = run.cursor /\ run'.feedback = run.feedback
                          /\ run'.status = "cancelled"
      BY <1>0, <2>1 DEF NoWait, Status, RunRow
  <2>4. WriteSoftCancel(c) =>
            /\ run'.cancel /\ run'.cursor = run.cursor /\ run'.feedback = run.feedback
            /\ run'.status = run.status /\ run'.reason = run.reason
            /\ WaitsAt(run.wstep, run.watt)
      BY <1>0, <2>2 DEF WaitsAt, RunRow
  <2>5. QED
      BY <2>1, <2>2, <2>3, <2>4 DEF Cancelled
<1>10. QED
    BY <1>1, <1>2, <1>4, <1>5, <1>6, <1>7, <1>8, <1>9 DEF Proceed

(* The operations that begin, and where they begin.                         *)
LEMMA CallBegins ==
    ASSUME TypeOK, NEW c \in Clients, Call(c)
    PROVE  \/ /\ ReadReview(c) /\ cl'[c].pc = "finish" /\ cl'[c].seen = Seen(run)
              /\ run.status = "waiting_human" /\ run.reason \in {"review", "budget_exhausted"}
           \/ ReadReject(c) /\ cl'[c].pc = "reject" /\ run.status = "waiting_human"
           \/ ReadCancel(c) /\ cl'[c].pc \in {"cancel", "soft_cancel"}
           \/ /\ ReadSubmit(c) /\ cl'[c].pc = "save" /\ cl'[c].seen = Seen(run)
              /\ SubmitPoint(cl'[c].row)
<1>0. cl \in [Clients -> ClientState]
    BY DEF TypeOK
<1>1. CASE ReadReview(c)
  <2>1. PICK i \in DOMAIN artifacts, approve \in BOOLEAN, feedback \in BOOLEAN :
            cl' = [cl EXCEPT ![c] = [pc |-> "finish", seen |-> Seen(run), row |-> i,
                                     approve |-> approve, marked |-> artifacts[i].approved,
                                     feedback |-> feedback]]
      BY <1>1 DEF ReadReview
  <2>2. cl'[c].pc = "finish" /\ cl'[c].seen = Seen(run)
      BY <1>0, <2>1
  <2>3. QED
      BY <1>1, <2>2 DEF ReadReview
<1>2. CASE ReadReject(c) \/ ReadCancel(c)
    BY <1>0, <1>2 DEF ReadReject, ReadCancel, Idle
<1>3. CASE ReadSubmit(c)
  <2>1. PICK i \in DOMAIN requests :
            /\ SubmitPoint(i)
            /\ cl' = [cl EXCEPT ![c] = [Idle EXCEPT !.pc = "save", !.seen = Seen(run), !.row = i]]
      BY <1>3 DEF ReadSubmit
  <2>2. cl'[c].pc = "save" /\ cl'[c].seen = Seen(run) /\ cl'[c].row = i
      BY <1>0, <2>1 DEF Idle
  <2>3. QED
      BY <1>3, <2>1, <2>2
<1>4. QED
    BY <1>1, <1>2, <1>3 DEF Call

-----------------------------------------------------------------------------
(* Whose turn it is: while the worker executes nobody waits, and an         *)
(* operator who submits or rejects does so while the run waits.             *)
WorkersTurn ==
    Executing => /\ run.status \notin {"waiting_human", "rejected"}
                 /\ w.idx = run.cursor
OperatorsTurn ==
    \A c \in Clients :
        /\ cl[c].pc \in Submitting \cup {"reject"} => run.status = "waiting_human"
        /\ cl[c].pc \in Submitting => run.cursor = cl[c].seen.cursor
TurnInv == WorkersTurn /\ OperatorsTurn

LEMMA TurnStep ==
    ASSUME OneOperator, IInv, TurnInv, [Next]_vars
    PROVE  TurnInv' /\ run'.cursor >= run.cursor
<1>0. /\ TypeOK /\ InFlight /\ run \in RunRow /\ w \in WorkerState
      /\ run.cursor \in Int /\ run.cursor <= NSteps /\ NSteps \in Int
    BY StepsAssumption DEF IInv, TypeOK, RunRow
<1>1. CASE Worker
  <2>1. cl' = cl
      BY <1>0, <1>1, WorkerMoves
  <2>2. CASE Takes
      BY <1>0, <2>1, <2>2 DEF Takes, TurnInv, WorkersTurn, OperatorsTurn
  <2>3. CASE Executing
    <3>1. \A c \in Clients : cl[c].pc \notin Submitting \cup {"reject"}
        BY <2>3 DEF TurnInv, WorkersTurn, OperatorsTurn
    <3>2. OperatorsTurn'
        BY <2>1, <3>1 DEF OperatorsTurn
    <3>3. run.status \notin {"waiting_human", "rejected"} /\ w.idx = run.cursor
        BY <2>3 DEF TurnInv, WorkersTurn
    <3>4. CASE StaysInside
      <4>1. run'.cursor = run.cursor /\ run'.status \in {run.status, "running"}
          BY <3>4 DEF StaysInside, Writes, Turns
      <4>2. w'.idx = w.idx
          BY <3>4 DEF StaysInside
      <4>3. WorkersTurn'
          BY <3>3, <4>1, <4>2 DEF WorkersTurn
      <4>4. QED
          BY <1>0, <3>2, <4>1, <4>3 DEF TurnInv
    <3>5. CASE MovesOn
        BY <1>0, <3>2, <3>3, <3>5 DEF MovesOn, Writes, Turns, TurnInv, WorkersTurn
    <3>6. CASE LetsGo
      <4>1. WorkersTurn'
          BY <3>6 DEF LetsGo, WorkersTurn, Executing, Rest
      <4>2. run'.cursor = run.cursor
          BY <3>3, <3>6 DEF LetsGo, Pauses, Ends, Writes, Turns
      <4>3. QED
          BY <1>0, <3>2, <4>1, <4>2 DEF TurnInv
    <3>7. QED
        BY <1>0, <1>1, <2>2, <3>4, <3>5, <3>6, WorkerMoves
  <2>4. QED
      BY <1>0, <1>1, <2>2, <2>3, WorkerMoves DEF StaysInside, MovesOn, LetsGo
<1>2. ASSUME NEW c \in Clients, Call(c) \/ Proceed(c)
      PROVE  TurnInv' /\ run'.cursor >= run.cursor
  <2>1. /\ w' = w /\ \A d \in Clients : d = c
        /\ \/ Begun(c) \/ Reviewed(c) \/ Rejected(c) \/ Cancelled(c)
           \/ StaysSubmitting(c) \/ SettlesSubmission(c) \/ ConcludesSubmission(c)
      BY <1>0, <1>2, ClientMoves DEF OneOperator
  <2>2. Idle.pc \notin Submitting \cup {"reject"}
      BY DEF Idle, Submitting
  <2>3. CASE run' = run
    <3>1. WorkersTurn'
        BY <2>1, <2>3 DEF TurnInv, WorkersTurn, Executing
    <3>2. CASE Begun(c)
      <4>1. Seen(run).cursor = run.cursor
          BY <1>0 DEF Seen, RunRow
      <4>2. OperatorsTurn'
          BY <1>0, <2>1, <2>3, <3>2, <4>1, CallBegins DEF Begun, OperatorsTurn, SubmitPoint, Submitting
      <4>3. QED
          BY <1>0, <2>3, <3>1, <4>2 DEF TurnInv
    <3>3. CASE StaysSubmitting(c)
      <4>1. OperatorsTurn'
          BY <2>1, <2>3, <3>3 DEF StaysSubmitting, TurnInv, OperatorsTurn, Submitting
      <4>2. QED
          BY <1>0, <2>3, <3>1, <4>1 DEF TurnInv
    <3>4. CASE cl'[c] = Idle
      <4>1. OperatorsTurn'
          BY <2>1, <2>2, <3>4 DEF OperatorsTurn
      <4>2. QED
          BY <1>0, <2>3, <3>1, <4>1 DEF TurnInv
    <3>5. CASE SettlesSubmission(c) /\ cl'[c] # Idle
      <4>1. OperatorsTurn'
          BY <2>1, <2>3, <3>5 DEF SettlesSubmission, TurnInv, OperatorsTurn, Submitting
      <4>2. QED
          BY <1>0, <2>3, <3>1, <4>1 DEF TurnInv
    <3>6. QED
        BY <2>1, <3>2, <3>3, <3>4, <3>5 DEF Reviewed, Rejected, Cancelled, ConcludesSubmission
  <2>4. CASE cl'[c] = Idle /\ ~Executing
    <3>1. TurnInv'
        BY <2>1, <2>2, <2>4 DEF TurnInv, WorkersTurn, OperatorsTurn, Executing
    <3>2. ConcludesSubmission(c) => cl[c].seen.cursor = run.cursor
        BY <2>1 DEF ConcludesSubmission, TurnInv, OperatorsTurn, Submitting
    <3>3. run'.cursor >= run.cursor
      <4>1. CASE Decides(c)
        <5>1. run'.cursor \in {NSteps, run.cursor + 1, run.cursor}
            BY <4>1, Written DEF Decides
        <5>2. QED
            BY <1>0, <5>1
      <4>2. CASE ConcludesSubmission(c)
        <5>1. run'.cursor \in {run.cursor, run.cursor + 1}
            BY <3>2, <4>2, Written DEF ConcludesSubmission
        <5>2. QED
            BY <1>0, <5>1
      <4>3. CASE Rejected(c) \/ SettlesSubmission(c)
        <5>1. run'.cursor = run.cursor
            BY <4>3, Written DEF Rejected, SettlesSubmission
        <5>2. QED
            BY <1>0, <5>1
      <4>4. CASE Cancelled(c) \/ run' = run
          BY <1>0, <4>4 DEF Cancelled
      <4>5. QED
          BY <2>1, <4>1, <4>2, <4>3, <4>4 DEF Begun, Reviewed, StaysSubmitting
    <3>4. QED
        BY <3>1, <3>3
  <2>5. CASE Executing
    <3>1. cl[c].pc \notin Submitting \cup {"reject"} /\ run.status # "waiting_human"
        BY <2>5 DEF TurnInv, WorkersTurn, OperatorsTurn
    <3>2. Begun(c) \/ Cancelled(c) \/ (Reviewed(c) /\ run' = run)
      <4>1. ~Rejected(c) /\ ~StaysSubmitting(c) /\ ~SettlesSubmission(c) /\ ~ConcludesSubmission(c)
          BY <3>1 DEF Rejected, WriteReject, StaysSubmitting, SettlesSubmission, ConcludesSubmission,
             Submitting
      <4>2. ~Decides(c)
          BY <3>1 DEF Decides, StillReviewable
      <4>3. QED
          BY <2>1, <4>1, <4>2 DEF Reviewed
    <3>3. CASE Cancelled(c) /\ run' # run
      <4>1. OperatorsTurn'
          BY <2>1, <2>2, <3>3 DEF OperatorsTurn, Cancelled
      <4>2. WorkersTurn'
          BY <2>1, <2>5, <3>3 DEF TurnInv, WorkersTurn, Executing, Cancelled
      <4>3. QED
          BY <1>0, <3>3, <4>1, <4>2 DEF TurnInv, Cancelled
    <3>4. QED
        BY <2>3, <3>2, <3>3 DEF Begun
  <2>6. CASE SettlesSubmission(c) /\ cl'[c] # Idle
    <3>1. cl[c].pc \in Submitting /\ cl'[c].seen = cl[c].seen /\ cl'[c].pc = "conclude"
        BY <2>6 DEF SettlesSubmission, Submitting
    <3>2. run'.status = run.status /\ run'.cursor = run.cursor
        BY <2>6 DEF SettlesSubmission, Writes, Turns
    <3>3. OperatorsTurn' /\ WorkersTurn'
        BY <2>1, <3>1, <3>2 DEF TurnInv, OperatorsTurn, WorkersTurn, Executing, Submitting
    <3>4. QED
        BY <1>0, <3>2, <3>3 DEF TurnInv
  <2>7. QED
      BY <2>1, <2>3, <2>4, <2>5, <2>6 DEF Begun, Reviewed, Rejected, Cancelled, StaysSubmitting,
         SettlesSubmission, ConcludesSubmission
<1>3. CASE Crash
  <2>1. run' = run /\ w'.pc = "down" /\ \A c \in Clients : cl'[c].pc = "idle"
      BY <1>3 DEF Crash, Rest, Idle
  <2>2. QED
      BY <1>0, <2>1 DEF TurnInv, WorkersTurn, OperatorsTurn, Executing, Submitting
<1>4. CASE Restart
  <2>1. w'.pc = "idle" /\ cl' = cl
      BY <1>4 DEF Restart, Rest
  <2>2. run'.cursor = run.cursor
      BY <1>0, <1>4 DEF Restart, Recovered, Status, NoWait, RunRow
  <2>3. run.status = "waiting_human" => run' = run
      BY <1>4 DEF Restart, Recovered
  <2>4. QED
      BY <1>0, <2>1, <2>2, <2>3 DEF TurnInv, WorkersTurn, OperatorsTurn, Executing
<1>5. CASE UNCHANGED vars
  <2>1. run' = run /\ w' = w /\ cl' = cl
      BY <1>5 DEF vars
  <2>2. QED
      BY <1>0, <2>1 DEF TurnInv, WorkersTurn, OperatorsTurn, Executing
<1>6. QED
    BY <1>1, <1>2, <1>3, <1>4, <1>5 DEF Next

LEMMA InitTurn == Init => TurnInv
    BY DEF Init, TurnInv, WorkersTurn, OperatorsTurn, Executing, Rest, Idle, Submitting

LEMMA Turn == ASSUME OneOperator PROVE Spec => [](IInv /\ TurnInv)
<1>1. IInv /\ TurnInv /\ [Next]_vars => (IInv /\ TurnInv)'
    BY InvariantStep, TurnStep
<1>2. QED
    BY <1>1, InitInvariant, InitTurn, PTL DEF Spec

(* With one operator no finished step is executed again: the cursor never   *)
(* moves back, through crashes, restarts and recovery.                      *)
THEOREM CursorOnlyAdvances == ASSUME OneOperator PROVE Spec => CursorNeverRewinds
<1>1. IInv /\ TurnInv /\ [Next]_vars => [run'.cursor >= run.cursor]_vars
    BY TurnStep
<1>2. QED
    BY <1>1, Turn, PTL DEF Spec, CursorNeverRewinds

-----------------------------------------------------------------------------
(* Results.  An attempt has at most one request and one artifact; a request *)
(* is open until its attempt has an output, and an artifact shows it.       *)
OneRequest == \A i, j \in DOMAIN requests :
    requests[i].step = requests[j].step /\ requests[i].att = requests[j].att => i = j
OneArtifact == \A i, j \in DOMAIN artifacts :
    artifacts[i].step = artifacts[j].step /\ artifacts[i].att = artifacts[j].att => i = j
ShowsOutput == \A i \in DOMAIN artifacts :
    artifacts[i].data = output[artifacts[i].step][artifacts[i].att]
OpenRequests == \A i \in DOMAIN requests :
    requests[i].pending => output[requests[i].step][requests[i].att] = NoOutput
WorkersResult == w.pc = "artifact" => output[w.idx][w.att] = Made
OperatorResult(c) ==
    /\ cl[c].pc = "save" => requests[cl[c].row].pending
    /\ cl[c].pc \in Submitting \ {"save"} => ~requests[cl[c].row].pending
    /\ cl[c].pc = "record" => output[cl[c].seen.wstep][cl[c].seen.watt] = NoOutput
    /\ cl[c].pc \in {"find_artifact", "add_artifact"} =>
          output[cl[c].seen.wstep][cl[c].seen.watt] = c
    /\ cl[c].pc = "add_artifact" => ~Saved(cl[c].seen.wstep, cl[c].seen.watt)
OperatorsResult == \A c \in Clients : OperatorResult(c)
ResultInv == /\ OneRequest /\ OneArtifact /\ ShowsOutput
             /\ OpenRequests /\ WorkersResult /\ OperatorsResult

(* An artifact found after a step was there before, or is the new one.      *)
LEMMA ArtifactFound ==
    ASSUME TypeOK, [Next]_vars, NEW i \in DOMAIN artifacts'
    PROVE  \/ /\ i \in DOMAIN artifacts /\ artifacts'[i].step = artifacts[i].step
              /\ artifacts'[i].att = artifacts[i].att /\ artifacts'[i].data = artifacts[i].data
           \/ /\ i = Len(artifacts) + 1
              /\ \/ /\ WArtifact /\ artifacts'[i] = Row(w.idx, w.att, Made) /\ ~Saved(w.idx, w.att)
                 \/ \E c \in Clients : /\ AddArtifact(c)
                                       /\ artifacts'[i] = Row(cl[c].seen.wstep, cl[c].seen.watt, c)
<1>0. artifacts \in Seq(ArtifactRow)
    BY DEF TypeOK
<1>1. CASE i \in DOMAIN artifacts
  <2>1. artifacts'[i].data = artifacts[i].data
      BY <1>1, ArtifactKept
  <2>2. artifacts'[i].step = artifacts[i].step /\ artifacts'[i].att = artifacts[i].att
    <3>1. CASE WArtifact
        BY <1>0, <1>1, <3>1 DEF WArtifact
    <3>2. ASSUME NEW c \in Clients, AddArtifact(c)
          PROVE  artifacts'[i].step = artifacts[i].step /\ artifacts'[i].att = artifacts[i].att
        BY <1>0, <1>1, <3>2 DEF AddArtifact
    <3>3. QED
        BY <3>1, <3>2, ArtifactOrigin
  <2>3. QED
      BY <1>1, <2>1, <2>2
<1>2. CASE i \notin DOMAIN artifacts
  <2>1. CASE WArtifact
    <3>1. /\ artifacts' = Append(artifacts, Row(w.idx, w.att, Made))
          /\ ~Saved(w.idx, w.att)
        BY <1>2, <2>1 DEF WArtifact, Saved
    <3>2. i = Len(artifacts) + 1 /\ artifacts'[i] = Row(w.idx, w.att, Made)
        BY <1>0, <1>2, <3>1
    <3>3. QED
        BY <2>1, <3>1, <3>2
  <2>2. ASSUME NEW c \in Clients, AddArtifact(c)
        PROVE  i = Len(artifacts) + 1 /\ artifacts'[i] = Row(cl[c].seen.wstep, cl[c].seen.watt, c)
    <3>1. artifacts' = Append(artifacts, Row(cl[c].seen.wstep, cl[c].seen.watt, c))
        BY <2>2 DEF AddArtifact
    <3>2. QED
        BY <1>0, <1>2, <3>1
  <2>3. QED
      BY <1>2, <2>1, <2>2, ArtifactOrigin
<1>3. QED
    BY <1>1, <1>2

LEMMA OneRequestStep ==
    ASSUME TypeOK, OneRequest, [Next]_vars
    PROVE  OneRequest'
<1> SUFFICES ASSUME NEW i \in DOMAIN requests', NEW j \in DOMAIN requests',
                    requests'[i].step = requests'[j].step, requests'[i].att = requests'[j].att
             PROVE  i = j
    BY DEF OneRequest
<1>1. QED
    BY RequestFound DEF OneRequest, NewRequest

LEMMA OneArtifactStep ==
    ASSUME TypeOK, OneArtifact, OperatorsResult, [Next]_vars
    PROVE  OneArtifact'
<1> SUFFICES ASSUME NEW i \in DOMAIN artifacts', NEW j \in DOMAIN artifacts',
                    artifacts'[i].step = artifacts'[j].step, artifacts'[i].att = artifacts'[j].att
             PROVE  i = j
    BY DEF OneArtifact
<1>1. \A k \in DOMAIN artifacts' :
        \/ k \in DOMAIN artifacts /\ artifacts'[k].step = artifacts[k].step
           /\ artifacts'[k].att = artifacts[k].att
        \/ k = Len(artifacts) + 1 /\ ~Saved(artifacts'[k].step, artifacts'[k].att)
  <2> SUFFICES ASSUME NEW k \in DOMAIN artifacts', k \notin DOMAIN artifacts
               PROVE  k = Len(artifacts) + 1 /\ ~Saved(artifacts'[k].step, artifacts'[k].att)
      BY ArtifactFound
  <2>1. CASE WArtifact
      BY <2>1, ArtifactFound DEF Row, WArtifact, AddArtifact, Saved
  <2>2. ASSUME NEW c \in Clients, AddArtifact(c),
               artifacts'[k] = Row(cl[c].seen.wstep, cl[c].seen.watt, c)
        PROVE  ~Saved(artifacts'[k].step, artifacts'[k].att)
    <3>1. ~Saved(cl[c].seen.wstep, cl[c].seen.watt)
        BY <2>2 DEF OperatorsResult, OperatorResult, AddArtifact
    <3>2. QED
        BY <2>2, <3>1 DEF Row
  <2>3. QED
      BY <2>1, <2>2, ArtifactFound
<1>2. CASE i \in DOMAIN artifacts /\ j \in DOMAIN artifacts
    BY <1>1, <1>2, ArtifactFound DEF OneArtifact, Saved
<1>3. QED
    BY <1>1, <1>2, ArtifactFound DEF Saved

(* How the worker comes to be inside a step, or goes on inside it.          *)
StepBegins ==
    /\ WTakeStep /\ w'.idx = w.idx /\ w'.att \in Attempts /\ NextAttempt(w.idx, w'.att)
    /\ w.idx \in EnabledSteps /\ w'.revising = run.feedback
    /\ w'.pc = IF w.idx \in HumanSteps THEN "pause" ELSE "call"
StepGoesOn ==
    /\ w'.idx = w.idx /\ w'.att = w.att /\ w'.revising = w.revising
    /\ \/ WPause /\ w.pc = "pause" /\ w'.pc = "wait"
       \/ /\ WCall \/ WInfer \/ WReturned
          /\ w.pc \in {"call", "infer", "returned"} /\ w'.pc \in {"call", "infer", "returned", "record"}
       \/ WRecord /\ w.pc = "record" /\ w'.pc = "artifact"
       \/ WArtifact /\ w.pc = "artifact" /\ w'.pc = "persisted"
       \/ WPersisted /\ w.pc = "persisted" /\ w'.pc = "advance"

LEMMA StaysInStep ==
    ASSUME TypeOK, Worker, w'.pc \in InStep
    PROVE  StepBegins \/ StepGoesOn
<1>0. w \in WorkerState
    BY DEF TypeOK
<1>1. CASE WCall
  <2>1. ~(w' = [w EXCEPT !.pc = "budget"]) /\ ~(w' = [w EXCEPT !.pc = "cancelled"])
      BY <1>0 DEF WorkerState, InStep
  <2>2. w' = [w EXCEPT !.pc = "infer", !.tries = w.tries + 1] /\ w.pc = "call"
      BY <1>1, <2>1 DEF WCall
  <2>3. /\ [w EXCEPT !.pc = "infer", !.tries = w.tries + 1].pc = "infer"
        /\ [w EXCEPT !.pc = "infer", !.tries = w.tries + 1].idx = w.idx
        /\ [w EXCEPT !.pc = "infer", !.tries = w.tries + 1].att = w.att
        /\ [w EXCEPT !.pc = "infer", !.tries = w.tries + 1].revising = w.revising
      BY <1>0 DEF WorkerState
  <2>4. QED
      BY <1>1, <2>2, <2>3 DEF StepGoesOn
<1>2. CASE WInfer \/ WReturned
    BY <1>0, <1>2 DEF WInfer, WReturned, WorkerState, InStep, StepGoesOn
<1>3. CASE WPause \/ WRecord \/ WArtifact \/ WPersisted
    BY <1>0, <1>3 DEF WPause, WRecord, WArtifact, WPersisted, WorkerState, InStep, StepGoesOn
<1>4. CASE WPickUp \/ WBegin \/ WStart \/ WSkip \/ WLoopCancelled \/ WLoopBudget \/ WLoopExit
  <2>1. w'.pc \in {"begin", "cancelled", "start", "fail", "loop", "budget", "complete"}
      BY <1>0, <1>4 DEF WPickUp, WBegin, WStart, WSkip, WLoopCancelled, WLoopBudget, WLoopExit,
         WorkerState, Rest
  <2>2. QED
      BY <2>1 DEF InStep
<1>5. CASE WWait \/ WAdvance \/ WComplete \/ WCancelled \/ WBudget \/ WFail
  <2>1. w' = Rest \/ w' = [w EXCEPT !.pc = "loop", !.idx = w.idx + 1]
      BY <1>5 DEF WAdvance, WWait, WComplete, WCancelled, WBudget, WFail
  <2>2. Rest.pc = "idle" /\ [w EXCEPT !.pc = "loop", !.idx = w.idx + 1].pc = "loop"
      BY <1>0 DEF Rest, WorkerState
  <2>3. QED
      BY <2>1, <2>2 DEF InStep
<1>6. CASE WTakeStep
  <2>1. PICK a \in Attempts :
            /\ NextAttempt(w.idx, a)
            /\ \E pc \in {IF w.idx \in HumanSteps THEN "pause" ELSE "call", "fail"} :
                  w' = [w EXCEPT !.pc = pc, !.att = a, !.tries = 0, !.revising = run.feedback]
      BY <1>6 DEF WTakeStep
  <2>2. PICK pc \in {IF w.idx \in HumanSteps THEN "pause" ELSE "call", "fail"} :
            w' = [w EXCEPT !.pc = pc, !.att = a, !.tries = 0, !.revising = run.feedback]
      BY <2>1
  <2>3. w'.pc = pc /\ w'.idx = w.idx /\ w'.att = a /\ w'.revising = run.feedback
      BY <1>0, <2>2 DEF WorkerState
  <2>4. w.idx \in EnabledSteps /\ pc # "fail"
      BY <1>6, <2>3 DEF WTakeStep, InStep
  <2>5. QED
      BY <1>6, <2>1, <2>2, <2>3, <2>4 DEF StepBegins
<1>7. QED
    BY <1>1, <1>2, <1>3, <1>4, <1>5, <1>6 DEF Worker

(* An output is written where there was none, and once its request is       *)
(* closed.                                                                  *)
LEMMA WrittenOnce ==
    ASSUME IInv, AttemptInv, ResultInv, NEW s \in Steps, NEW a \in Attempts, OutputWritten(s, a)
    PROVE  /\ output[s][a] = NoOutput
           /\ \A i \in DOMAIN requests :
                  requests[i].step = s /\ requests[i].att = a => ~requests[i].pending
<1>1. CASE WRecord /\ s = w.idx /\ a = w.att
    BY <1>1 DEF WRecord, AttemptInv, FreshAttempt, Taken
<1>2. ASSUME NEW c \in Clients, RecordSubmission(c), s = cl[c].seen.wstep, a = cl[c].seen.watt
      PROVE  /\ output[s][a] = NoOutput
             /\ \A i \in DOMAIN requests :
                    requests[i].step = s /\ requests[i].att = a => ~requests[i].pending
  <2>1. cl[c].pc = "record" /\ cl[c].pc \in Submitting \ {"save"}
      BY <1>2 DEF RecordSubmission, Submitting
  <2>2. /\ cl[c].row \in DOMAIN requests /\ requests[cl[c].row].step = s
        /\ requests[cl[c].row].att = a
      BY <1>2, <2>1, SubmissionType DEF IInv
  <2>3. output[s][a] = NoOutput /\ ~requests[cl[c].row].pending
      BY <1>2, <2>1 DEF ResultInv, OperatorsResult, OperatorResult
  <2>4. QED
      BY <2>2, <2>3 DEF ResultInv, OneRequest
<1>3. QED
    BY <1>1, <1>2 DEF OutputWritten

LEMMA ShowsOutputStep ==
    ASSUME IInv, AttemptInv, ResultInv, [Next]_vars
    PROVE  ShowsOutput'
<1> SUFFICES ASSUME NEW i \in DOMAIN artifacts'
             PROVE  artifacts'[i].data = output'[artifacts'[i].step][artifacts'[i].att]
    BY DEF ShowsOutput
<1>0. TypeOK /\ InFlight /\ Backed /\ \A j \in DOMAIN artifacts : artifacts[j] \in ArtifactRow
    BY SeqRows DEF IInv, TypeOK, SavedInOrder
<1>1. CASE /\ i \in DOMAIN artifacts /\ artifacts'[i].step = artifacts[i].step
           /\ artifacts'[i].att = artifacts[i].att /\ artifacts'[i].data = artifacts[i].data
  <2>1. artifacts[i].step \in Steps /\ artifacts[i].att \in Attempts
      BY <1>0, <1>1 DEF ArtifactRow
  <2>2. output[artifacts[i].step][artifacts[i].att] # NoOutput
      BY <1>0, <1>1 DEF Backed
  <2>3. output'[artifacts[i].step][artifacts[i].att] = output[artifacts[i].step][artifacts[i].att]
      BY <1>0, <2>1, <2>2, OutputOrigin, WrittenOnce
  <2>4. QED
      BY <1>1, <2>3 DEF ResultInv, ShowsOutput
<1>2. CASE WArtifact /\ artifacts'[i] = Row(w.idx, w.att, Made)
    BY <1>2 DEF WArtifact, Row, ResultInv, WorkersResult
<1>3. ASSUME NEW c \in Clients, AddArtifact(c),
             artifacts'[i] = Row(cl[c].seen.wstep, cl[c].seen.watt, c)
      PROVE  artifacts'[i].data = output'[artifacts'[i].step][artifacts'[i].att]
    BY <1>3 DEF AddArtifact, Row, ResultInv, OperatorsResult, OperatorResult
<1>4. QED
    BY <1>0, <1>1, <1>2, <1>3, ArtifactFound

LEMMA OpenRequestsStep ==
    ASSUME IInv, AttemptInv, ResultInv, [Next]_vars
    PROVE  OpenRequests'
<1> SUFFICES ASSUME NEW i \in DOMAIN requests', requests'[i].pending
             PROVE  output'[requests'[i].step][requests'[i].att] = NoOutput
    BY DEF OpenRequests
<1>0. TypeOK /\ InFlight /\ \A j \in DOMAIN requests : requests[j] \in RequestRow
    BY SeqRows DEF IInv, TypeOK
<1>1. CASE /\ i \in DOMAIN requests /\ requests'[i].step = requests[i].step
           /\ requests'[i].att = requests[i].att /\ requests[i].pending
  <2>1. requests[i].step \in Steps /\ requests[i].att \in Attempts
      BY <1>0, <1>1 DEF RequestRow
  <2>2. ~OutputWritten(requests[i].step, requests[i].att)
      BY <1>1, <2>1, WrittenOnce
  <2>3. QED
      BY <1>0, <1>1, <2>1, <2>2, OutputOrigin DEF ResultInv, OpenRequests
<1>2. CASE WPause /\ requests'[i] = NewRequest
  <2>1. w.idx \in Steps /\ w.att \in Attempts
      BY <1>0, <1>2, StepsAssumption DEF WPause, TypeOK, WorkerState, InFlight, WorkerInFlight, InStep
  <2>2. output' = output /\ w.att \notin Taken(w.idx)
      BY <1>2 DEF WPause, AttemptInv, FreshAttempt
  <2>3. QED
      BY <1>2, <2>1, <2>2 DEF NewRequest, Taken
<1>3. QED
    BY <1>0, <1>1, <1>2, RequestFound

LEMMA WorkersResultStep ==
    ASSUME IInv, AttemptInv, ResultInv, [Next]_vars
    PROVE  WorkersResult'
<1> SUFFICES ASSUME w'.pc = "artifact"
             PROVE  output'[w'.idx][w'.att] = Made'
    BY DEF WorkersResult
<1>0. /\ TypeOK /\ InFlight /\ w \in WorkerState
      /\ output \in [Steps -> [Attempts -> Outputs \cup {NoOutput}]]
      /\ w.pc \in InStep => w.idx \in Steps /\ w.att \in Attempts
    BY StepsAssumption DEF IInv, TypeOK, WorkerState, InFlight, WorkerInFlight
<1>1. CASE w' = w
  <2>1. w.idx \in Steps /\ w.att \in Attempts /\ w.pc = "artifact"
      BY <1>0, <1>1 DEF InStep
  <2>2. output[w.idx][w.att] = Made /\ Made # NoOutput
      BY <2>1, AuthorsAssumption DEF ResultInv, WorkersResult, Made
  <2>3. output'[w.idx][w.att] = output[w.idx][w.att]
      BY <1>0, <2>1, <2>2, OutputOrigin, WrittenOnce
  <2>4. QED
      BY <1>1, <2>2, <2>3 DEF Made
<1>2. CASE WRecord
  <2>1. /\ w'.idx = w.idx /\ w'.att = w.att /\ w'.revising = w.revising /\ w.pc \in InStep
        /\ output' = [output EXCEPT ![w.idx][w.att] = Made]
      BY <1>0, <1>2 DEF WRecord, WorkerState, InStep
  <2>2. output'[w.idx][w.att] = Made
      BY <1>0, <2>1
  <2>3. QED
      BY <2>1, <2>2 DEF Made
<1>3. CASE Worker /\ ~WRecord
    BY <1>0, <1>3, StaysInStep DEF InStep, StepBegins, StepGoesOn
<1>4. ASSUME NEW c \in Clients, Call(c) \/ Proceed(c) PROVE w' = w
    BY <1>0, <1>4, ClientMoves
<1>5. CASE Crash \/ Restart \/ UNCHANGED vars
  <2>1. w' = w \/ w'.pc \in {"idle", "down"}
      BY <1>5 DEF Crash, Restart, Rest, vars
  <2>2. QED
      BY <1>1, <2>1
<1>6. QED
    BY <1>1, <1>2, <1>3, <1>4, <1>5 DEF Next

(* While an operator submits, the worker has nothing to execute.            *)
LEMMA WorkerRests ==
    ASSUME IInv, TurnInv, Worker, NEW c \in Clients
    PROVE  cl[c].pc \notin Submitting
<1>1. TypeOK
    BY DEF IInv
<1>2. Executing \/ run.status = "queued"
    BY <1>1, WorkerMoves DEF Takes, StaysInside, MovesOn, LetsGo
<1>3. QED
    BY <1>2 DEF TurnInv, WorkersTurn, OperatorsTurn

LEMMA OperatorsResultStep ==
    ASSUME OneOperator, IInv, TurnInv, AttemptInv, ResultInv, [Next]_vars
    PROVE  OperatorsResult'
<1> SUFFICES ASSUME NEW c \in Clients, cl'[c].pc \in Submitting
             PROVE  OperatorResult(c)'
    BY DEF OperatorsResult, OperatorResult, Submitting
<1>r. OperatorResult(c)
    BY DEF ResultInv, OperatorsResult
<1>0. /\ TypeOK /\ InFlight /\ cl \in [Clients -> ClientState] /\ cl[c] \in ClientState
      /\ output \in [Steps -> [Attempts -> Outputs \cup {NoOutput}]]
      /\ \A i \in DOMAIN requests : requests[i] \in RequestRow
    BY SeqRows DEF IInv, TypeOK
<1>1. CASE cl' = cl /\ rows' = rows
    BY <1>1, <1>r DEF OperatorResult, Saved
<1>2. CASE Worker
    BY <1>0, <1>2, WorkerRests, WorkerMoves
<1>3. ASSUME NEW d \in Clients, Call(d) \/ Proceed(d)
      PROVE  Call(c) \/ Proceed(c)
    BY <1>3 DEF OneOperator
<1>4. CASE Call(c)
  <2>1. ReadSubmit(c) /\ cl'[c].pc = "save" /\ SubmitPoint(cl'[c].row)
      BY <1>0, <1>4, CallBegins DEF Submitting
  <2>2. requests' = requests /\ requests[cl'[c].row].pending
      BY <2>1 DEF ReadSubmit, SubmitPoint, NewestPending
  <2>3. QED
      BY <2>1, <2>2 DEF OperatorResult
<1>5. CASE Proceed(c) /\ ~Call(c)
  <2>1. /\ StaysSubmitting(c) \/ (SettlesSubmission(c) /\ cl'[c].pc = "conclude")
        /\ cl'[c].seen = cl[c].seen /\ cl'[c].row = cl[c].row /\ cl[c].pc \in Submitting
    <3>1. cl'[c] # Idle
        BY DEF Idle, Submitting
    <3>2. CASE StaysSubmitting(c)
        BY <3>2 DEF StaysSubmitting
    <3>3. CASE SettlesSubmission(c)
        BY <3>1, <3>3 DEF SettlesSubmission, Submitting
    <3>4. QED
        BY <1>0, <1>4, <1>5, <3>1, <3>2, <3>3, ClientMoves
        DEF Begun, Reviewed, Rejected, Cancelled, ConcludesSubmission
  <2>2. /\ cl[c].row \in DOMAIN requests /\ cl[c].seen.wstep \in Steps
        /\ cl[c].seen.watt \in Attempts
        /\ requests[cl[c].row].step = cl[c].seen.wstep
        /\ requests[cl[c].row].att = cl[c].seen.watt
      BY <1>0, <2>1, SubmissionType
  <2>3. \A pc : [cl EXCEPT ![c].pc = pc][c].pc = pc
    <3>1. \A pc : [cl EXCEPT ![c].pc = pc][c] = [cl[c] EXCEPT !.pc = pc]
        BY <1>0
    <3>2. QED
        BY <1>0, <3>1 DEF ClientState
  <2>4. CASE SaveSubmission(c)
    <3>1. /\ cl[c].pc = "save" /\ output' = output
          /\ requests' = [requests EXCEPT ![cl[c].row].pending = FALSE]
          /\ cl' = [cl EXCEPT ![c].pc = "record"]
        BY <2>4 DEF SaveSubmission
    <3>2. cl'[c].pc = "record"
        BY <2>3, <3>1
    <3>3. ~requests'[cl[c].row].pending
        BY <1>0, <2>2, <3>1 DEF RequestRow
    <3>4. output[cl[c].seen.wstep][cl[c].seen.watt] = NoOutput
        BY <1>r, <2>2, <3>1 DEF ResultInv, OperatorResult, OpenRequests
    <3>5. QED
        BY <2>1, <3>1, <3>2, <3>3, <3>4 DEF OperatorResult
  <2>5. CASE RecordSubmission(c)
    <3>1. /\ cl[c].pc = "record" /\ requests' = requests
          /\ output' = [output EXCEPT ![cl[c].seen.wstep][cl[c].seen.watt] = c]
          /\ cl' = [cl EXCEPT ![c].pc = "find_artifact"]
        BY <2>5 DEF RecordSubmission
    <3>2. cl'[c].pc = "find_artifact"
        BY <2>3, <3>1
    <3>3. output'[cl[c].seen.wstep][cl[c].seen.watt] = c
        BY <1>0, <2>2, <3>1
    <3>4. ~requests[cl[c].row].pending
        BY <1>r, <3>1 DEF OperatorResult, Submitting
    <3>5. QED
        BY <2>1, <3>1, <3>2, <3>3, <3>4 DEF OperatorResult
  <2>6. CASE FindArtifact(c)
    <3>1. /\ cl[c].pc = "find_artifact" /\ UNCHANGED rows
          /\ cl' = [cl EXCEPT ![c].pc = IF Saved(cl[c].seen.wstep, cl[c].seen.watt)
                                        THEN "settle" ELSE "add_artifact"]
        BY <2>6 DEF FindArtifact, Saved
    <3>2. cl'[c].pc = IF Saved(cl[c].seen.wstep, cl[c].seen.watt) THEN "settle" ELSE "add_artifact"
        BY <2>3, <3>1
    <3>3. /\ ~requests[cl[c].row].pending
          /\ output[cl[c].seen.wstep][cl[c].seen.watt] = c
        BY <1>r, <3>1 DEF OperatorResult, Submitting
    <3>4. QED
        BY <2>1, <3>1, <3>2, <3>3 DEF OperatorResult, Saved
  <2>7. CASE AddArtifact(c) \/ (SettlesSubmission(c) /\ cl'[c].pc = "conclude")
    <3>1. /\ cl[c].pc \in {"add_artifact", "settle"} /\ UNCHANGED <<output, requests>>
          /\ cl'[c].pc \in {"settle", "conclude"}
      <4>1. CASE AddArtifact(c)
        <5>1. /\ cl[c].pc = "add_artifact" /\ UNCHANGED <<output, requests>>
              /\ cl' = [cl EXCEPT ![c].pc = "settle"]
            BY <4>1 DEF AddArtifact
        <5>2. QED
            BY <2>3, <5>1
      <4>2. CASE SettlesSubmission(c) /\ cl'[c].pc = "conclude"
          BY <4>2 DEF SettlesSubmission, SettleSubmission
      <4>3. QED
          BY <2>7, <4>1, <4>2
    <3>2. ~requests[cl[c].row].pending
        BY <1>r, <3>1 DEF OperatorResult, Submitting
    <3>3. QED
        BY <2>1, <3>1, <3>2 DEF OperatorResult
  <2>8. QED
      BY <2>1, <2>4, <2>5, <2>6, <2>7 DEF StaysSubmitting
<1>6. CASE Crash \/ Restart \/ UNCHANGED vars
  <2>1. cl' = cl \/ cl'[c].pc = "idle"
      BY <1>6 DEF Crash, Restart, vars, Idle
  <2>2. rows' = rows
      BY <1>6 DEF Crash, Restart, vars
  <2>3. QED
      BY <1>1, <2>1, <2>2 DEF Submitting
<1>7. QED
    BY <1>2, <1>3, <1>4, <1>5, <1>6 DEF Next

LEMMA ResultStep ==
    ASSUME OneOperator, IInv, TurnInv, AttemptInv, ResultInv, [Next]_vars
    PROVE  ResultInv'
<1>1. TypeOK /\ OneRequest /\ OneArtifact /\ OperatorsResult
    BY DEF IInv, ResultInv
<1>2. OneRequest' /\ OneArtifact'
    BY <1>1, OneRequestStep, OneArtifactStep
<1>3. QED
    BY <1>2, ShowsOutputStep, OpenRequestsStep, WorkersResultStep, OperatorsResultStep DEF ResultInv

LEMMA InitResult == Init => ResultInv
    BY DEF Init, ResultInv, OneRequest, OneArtifact, ShowsOutput, OpenRequests, WorkersResult,
       OperatorsResult, OperatorResult, Rest, Idle, Submitting

SoloInv == IInv /\ AttemptInv /\ TurnInv /\ ResultInv

LEMMA InitSolo == Init => SoloInv
    BY InitInvariant, InitAttempt, InitTurn, InitResult DEF SoloInv

LEMMA SoloStep ==
    ASSUME OneOperator
    PROVE  SoloInv /\ [Next]_vars => SoloInv'
    BY InvariantStep, AttemptStep, TurnStep, ResultStep DEF SoloInv

LEMMA Solo == ASSUME OneOperator PROVE Spec => []SoloInv
    BY InitSolo, SoloStep, PTL DEF Spec

LEMMA ShownOutput ==
    ASSUME SoloInv
    PROVE  ArtifactShowsOutput
<1> SUFFICES ASSUME NEW i \in DOMAIN artifacts
             PROVE  /\ artifacts[i].data = output[artifacts[i].step][artifacts[i].att]
                    /\ ReviewRows(artifacts[i].step, artifacts[i].att) = {i}
    BY DEF ArtifactShowsOutput
<1>1. artifacts[i].data = output[artifacts[i].step][artifacts[i].att]
    BY DEF SoloInv, ResultInv, ShowsOutput
<1>2. i \in ReviewRows(artifacts[i].step, artifacts[i].att)
    BY DEF SoloInv, IInv, SavedInOrder, Backed, ReviewRows
<1>3. \A j \in ReviewRows(artifacts[i].step, artifacts[i].att) : j = i
    BY DEF SoloInv, ResultInv, OneArtifact, ReviewRows
<1>4. QED
    BY <1>1, <1>2, <1>3

(* With one operator, what is reviewed is what later steps receive: each    *)
(* attempt has one artifact, equal to the output recorded for it, although  *)
(* a crash may come between the two writes and an interrupted step is done  *)
(* again.                                                                   *)
THEOREM ReviewsShowOutput == ASSUME OneOperator PROVE Spec => []ArtifactShowsOutput
<1>1. SoloInv => ArtifactShowsOutput
    BY ShownOutput
<1>2. QED
    BY <1>1, Solo, PTL

-----------------------------------------------------------------------------
(* Rows a wait relies on.  The worker saves the artifact of an attempt once *)
(* and nobody approves it before the run waits for its review; a submission *)
(* is for the wait it read.                                                 *)
Unapproved(s, a) == \E i \in DOMAIN artifacts :
    artifacts[i].step = s /\ artifacts[i].att = a /\ ~artifacts[i].approved
Requested(s, a) == \E i \in DOMAIN requests :
    requests[i].step = s /\ requests[i].att = a /\ requests[i].pending
EnabledRows ==
    /\ \A i \in DOMAIN artifacts : artifacts[i].step \in EnabledSteps
    /\ \A i \in DOMAIN requests : requests[i].step \in EnabledSteps
WorkersRows ==
    /\ w.pc = "wait" => Requested(w.idx, w.att)
    /\ w.pc = "artifact" => ~Saved(w.idx, w.att)
    /\ w.pc \in {"persisted", "advance"} => Unapproved(w.idx, w.att)
OperatorRows(c) ==
    /\ cl[c].pc = "finish" => cl[c].seen.reason \in {"review", "budget_exhausted"}
    /\ cl[c].pc = "find_artifact" => ~Saved(cl[c].seen.wstep, cl[c].seen.watt)
    /\ cl[c].pc \in {"settle", "conclude"} => Unapproved(cl[c].seen.wstep, cl[c].seen.watt)
    /\ cl[c].pc \in Submitting =>
          /\ run.reason = "execute_step"
          /\ run.wstep = cl[c].seen.wstep /\ run.watt = cl[c].seen.watt
          /\ IsLatest(cl[c].seen.wstep, cl[c].seen.watt)
RowsInv == EnabledRows /\ WorkersRows /\ \A c \in Clients : OperatorRows(c)

(* Only a worker's new attempt changes which attempt is the latest.         *)
LEMMA LatestStays ==
    ASSUME TypeOK, InFlight, [Next]_vars, ~WPause, ~WRecord,
           NEW s \in Steps, NEW a \in Attempts, IsLatest(s, a)
    PROVE  IsLatest(s, a)'
<1>1. \A b \in Taken(s)' : b \in Taken(s)
    BY TakenOrigin DEF Taken
<1>2. Kept
    BY StepKeeps
<1>3. a \in Taken(s)'
    BY <1>2 DEF IsLatest, Taken, Kept, Recorded
<1>4. QED
    BY <1>1, <1>3 DEF IsLatest

(* Only a decision approves.                                                *)
LEMMA UnapprovedStays ==
    ASSUME TypeOK, InFlight, [Next]_vars, \A c \in Clients : ~Decides(c),
           NEW s, NEW a, Unapproved(s, a)
    PROVE  Unapproved(s, a)'
<1>1. PICK i \in DOMAIN artifacts :
          artifacts[i].step = s /\ artifacts[i].att = a /\ ~artifacts[i].approved
    BY DEF Unapproved
<1>2. /\ i \in DOMAIN artifacts' /\ artifacts'[i].step = s /\ artifacts'[i].att = a
    BY <1>1, StepKeeps DEF Kept
<1>3. artifacts'[i].approved = artifacts[i].approved
    BY <1>1, ArtifactKept, DecidedRow
<1>4. QED
    BY <1>1, <1>2, <1>3 DEF Unapproved

LEMMA EnabledRowsStep ==
    ASSUME IInv, EnabledRows, [Next]_vars
    PROVE  EnabledRows'
<1>0. TypeOK /\ InFlight
    BY DEF IInv
<1>1. ASSUME NEW i \in DOMAIN artifacts' PROVE artifacts'[i].step \in EnabledSteps
  <2>1. CASE WArtifact /\ artifacts'[i] = Row(w.idx, w.att, Made)
      BY <1>0, <2>1 DEF WArtifact, Row, InFlight, WorkerInFlight, InStep
  <2>2. ASSUME NEW c \in Clients, AddArtifact(c),
               artifacts'[i] = Row(cl[c].seen.wstep, cl[c].seen.watt, c)
        PROVE  artifacts'[i].step \in EnabledSteps
      BY <1>0, <2>2 DEF AddArtifact, Row, InFlight, SubmissionInFlight, Submitting
  <2>3. QED
      BY <1>0, <1>1, <2>1, <2>2, ArtifactFound DEF EnabledRows
<1>2. ASSUME NEW i \in DOMAIN requests' PROVE requests'[i].step \in EnabledSteps
  <2>1. CASE WPause /\ requests'[i] = NewRequest
      BY <1>0, <2>1 DEF WPause, NewRequest, InFlight, WorkerInFlight, InStep
  <2>2. QED
      BY <1>0, <1>2, <2>1, RequestFound DEF EnabledRows
<1>3. QED
    BY <1>1, <1>2 DEF EnabledRows

LEMMA SubmissionsWait ==
    ASSUME SoloInv, Executing, NEW c \in Clients
    PROVE  cl[c].pc \notin Submitting /\ ~Decides(c)
BY DEF SoloInv, TurnInv, WorkersTurn, OperatorsTurn, Decides, StillReviewable

(* Nothing disturbs the rows of the attempt the worker executes.            *)
LEMMA WorkersRowsKept ==
    ASSUME OneOperator, SoloInv, WorkersRows, [Next]_vars, w' = w, ~WPause, ~WArtifact
    PROVE  WorkersRows'
<1>0. TypeOK /\ InFlight
    BY DEF SoloInv, IInv
<1>1. CASE w.pc = "wait"
  <2>1. PICK i \in DOMAIN requests :
            requests[i].step = w.idx /\ requests[i].att = w.att /\ requests[i].pending
      BY <1>1 DEF WorkersRows, Requested
  <2>2. \A c \in Clients : ~SaveSubmission(c)
      BY <1>1, SubmissionsWait DEF SaveSubmission, Submitting, Executing
  <2>3. requests' = requests
      BY <1>0, <2>2, RequestOrigin
  <2>4. QED
      BY <1>1, <2>1, <2>3 DEF WorkersRows, Requested
<1>2. CASE w.pc = "artifact"
  <2>1. \A c \in Clients : ~AddArtifact(c)
      BY <1>2, SubmissionsWait DEF AddArtifact, Submitting, Executing
  <2>2. ~Saved(w.idx, w.att)
      BY <1>2 DEF WorkersRows
  <2>3. ASSUME NEW i \in DOMAIN artifacts', artifacts'[i].step = w.idx, artifacts'[i].att = w.att
        PROVE  FALSE
      BY <1>0, <2>1, <2>2, <2>3, ArtifactFound DEF Saved
  <2>4. QED
      BY <1>2, <2>3 DEF WorkersRows, Saved
<1>3. CASE w.pc \in {"persisted", "advance"}
  <2>1. \A c \in Clients : ~Decides(c)
      BY <1>3, SubmissionsWait DEF Executing
  <2>2. Unapproved(w.idx, w.att)
      BY <1>3 DEF WorkersRows
  <2>3. \A s, a : Unapproved(s, a) => Unapproved(s, a)'
      BY <1>0, <2>1, UnapprovedStays
  <2>4. QED
      BY <1>3, <2>2, <2>3 DEF WorkersRows, Unapproved
<1>4. CASE w.pc \notin {"wait", "artifact", "persisted", "advance"}
    BY <1>4 DEF WorkersRows
<1>5. QED
    BY <1>1, <1>2, <1>3, <1>4

LEMMA WorkersRowsStep ==
    ASSUME OneOperator, SoloInv, WorkersRows, [Next]_vars
    PROVE  WorkersRows'
<1>0. TypeOK /\ InFlight /\ w \in WorkerState /\ artifacts \in Seq(ArtifactRow)
      /\ requests \in Seq(RequestRow)
    BY DEF SoloInv, IInv, TypeOK
<1>1. CASE w'.pc \notin {"wait", "artifact", "persisted", "advance"}
    BY <1>1 DEF WorkersRows
<1>2. CASE WPause /\ w'.pc = "wait"
  <2>1. \A i \in DOMAIN requests : ~(requests[i].step = w.idx /\ requests[i].att = w.att)
      BY <1>0, <1>2 DEF WPause, SoloInv, AttemptInv, FreshAttempt, Taken, WorkerState
  <2>2. requests' = Append(requests, NewRequest)
      BY <1>2, <2>1 DEF WPause, NewRequest
  <2>3. Len(requests) + 1 \in DOMAIN requests' /\ requests'[Len(requests) + 1] = NewRequest
      BY <1>0, <2>2
  <2>4. w'.idx = w.idx /\ w'.att = w.att
      BY <1>0, <1>2 DEF WPause, WorkerState
  <2>5. QED
      BY <1>2, <2>3, <2>4 DEF WorkersRows, Requested, NewRequest
<1>3. CASE WRecord
  <2>1. /\ w'.pc = "artifact" /\ w'.idx = w.idx /\ w'.att = w.att /\ artifacts' = artifacts
        /\ w.pc = "record"
      BY <1>0, <1>3 DEF WRecord, WorkerState
  <2>2. output[w.idx][w.att] = NoOutput
    <3>1. w.idx \in Steps /\ w.att \in Attempts
        BY <1>0, <2>1, StepsAssumption DEF WorkerState, InFlight, WorkerInFlight, InStep
    <3>2. QED
        BY <2>1, <3>1 DEF SoloInv, AttemptInv, FreshAttempt, Taken
  <2>3. ~Saved(w.idx, w.att)
      BY <2>2 DEF SoloInv, IInv, SavedInOrder, Backed, Saved
  <2>4. QED
      BY <2>1, <2>3 DEF WorkersRows, Saved
<1>4. CASE WArtifact
  <2>1. /\ w'.pc = "persisted" /\ w'.idx = w.idx /\ w'.att = w.att /\ w.pc = "artifact"
      BY <1>0, <1>4 DEF WArtifact, WorkerState
  <2>2. artifacts' = Append(artifacts, Row(w.idx, w.att, Made))
      BY <1>4, <2>1 DEF WArtifact, WorkersRows, Saved
  <2>3. Len(artifacts) + 1 \in DOMAIN artifacts' /\ artifacts'[Len(artifacts) + 1] = Row(w.idx, w.att, Made)
      BY <1>0, <2>2
  <2>4. QED
      BY <2>1, <2>3 DEF WorkersRows, Unapproved, Row
<1>5. CASE WPersisted /\ w'.pc = "advance"
  <2>1. /\ w'.idx = w.idx /\ w'.att = w.att /\ artifacts' = artifacts /\ w.pc = "persisted"
      BY <1>0, <1>5 DEF WPersisted, WorkerState
  <2>2. QED
      BY <1>5, <2>1 DEF WorkersRows, Unapproved
<1>6. CASE Worker
  <2>1. w'.pc \in InStep \/ w'.pc \notin {"wait", "artifact", "persisted", "advance"}
      BY DEF InStep
  <2>2. CASE w'.pc \in InStep
      BY <1>0, <1>1, <1>2, <1>3, <1>4, <1>5, <1>6, <2>2, StaysInStep DEF StepBegins, StepGoesOn
  <2>3. QED
      BY <1>1, <2>1, <2>2
<1>7. ASSUME NEW c \in Clients, Call(c) \/ Proceed(c)
      PROVE  w' = w /\ ~WPause /\ ~WArtifact
  <2>1. w' = w
      BY <1>0, <1>7, ClientMoves
  <2>2. QED
      BY <1>0, <2>1 DEF WPause, WArtifact, WorkerState
<1>8. CASE Crash \/ Restart \/ UNCHANGED vars
  <2>1. w'.pc \in {"idle", "down"} \/ (w' = w /\ rows' = rows)
      BY <1>8 DEF Crash, Restart, vars, Rest
  <2>2. QED
      BY <1>1, <2>1 DEF WorkersRows, Requested, Saved, Unapproved
<1>9. QED
    BY <1>6, <1>7, <1>8, WorkersRowsKept DEF Next

(* An operator's operation goes on where it is.                             *)
LEMMA OperatorRowsKept ==
    ASSUME OneOperator, SoloInv, NEW c \in Clients, OperatorRows(c), [Next]_vars,
           cl'[c].pc = cl[c].pc, cl'[c].seen = cl[c].seen,
           UNCHANGED <<rows, run>> \/ cl[c].pc \notin Submitting
    PROVE  OperatorRows(c)'
<1>1. CASE cl[c].pc \notin Submitting
    BY <1>1 DEF OperatorRows, Submitting
<1>2. CASE UNCHANGED <<rows, run>>
    BY <1>2 DEF OperatorRows, Saved, Unapproved, IsLatest, Taken
<1>3. QED
    BY <1>1, <1>2

LEMMA OperatorRowsStep ==
    ASSUME OneOperator, SoloInv, RowsInv, [Next]_vars, NEW c \in Clients
    PROVE  OperatorRows(c)'
<1>0. /\ TypeOK /\ InFlight /\ cl \in [Clients -> ClientState] /\ cl[c] \in ClientState
      /\ run \in RunRow /\ artifacts \in Seq(ArtifactRow)
    BY DEF SoloInv, IInv, TypeOK
<1>r. OperatorRows(c)
    BY DEF RowsInv
<1>1. CASE Worker
  <2>1. cl' = cl /\ cl[c].pc \notin Submitting
      BY <1>0, <1>1, WorkerMoves, WorkerRests DEF SoloInv
  <2>2. QED
      BY <1>r, <2>1, OperatorRowsKept
<1>2. ASSUME NEW d \in Clients, Call(d) \/ Proceed(d)
      PROVE  Call(c) \/ Proceed(c)
    BY <1>2 DEF OneOperator
<1>3. CASE Call(c)
  <2>1. Seen(run).reason = run.reason /\ Seen(run).wstep = run.wstep /\ Seen(run).watt = run.watt
      BY <1>0 DEF Seen, RunRow
  <2>2. run' = run /\ UNCHANGED rows
      BY <1>3 DEF Call, ReadReview, ReadReject, ReadCancel, ReadSubmit
  <2>3. CASE cl'[c].pc = "finish" /\ cl'[c].seen = Seen(run)
             /\ run.reason \in {"review", "budget_exhausted"}
      BY <2>1, <2>3 DEF OperatorRows, Submitting
  <2>4. CASE cl'[c].pc \in {"reject", "cancel", "soft_cancel"}
      BY <2>4 DEF OperatorRows, Submitting
  <2>5. CASE cl'[c].pc = "save" /\ cl'[c].seen = Seen(run) /\ SubmitPoint(cl'[c].row)
    <3>1. /\ run.reason = "execute_step" /\ IsLatest(run.wstep, run.watt)
        BY <2>5 DEF SubmitPoint
    <3>2. IsLatest(run.wstep, run.watt)'
        BY <2>2, <3>1 DEF IsLatest, Taken
    <3>3. run'.wstep = cl'[c].seen.wstep /\ run'.watt = cl'[c].seen.watt
        BY <2>1, <2>2, <2>5
    <3>4. QED
        BY <2>2, <2>5, <3>1, <3>2, <3>3 DEF OperatorRows, IsLatest, Taken
  <2>6. QED
      BY <1>0, <1>3, <2>3, <2>4, <2>5, CallBegins
<1>4. CASE Proceed(c) /\ ~Call(c)
  <2>1. CASE cl'[c] = Idle
      BY <2>1 DEF OperatorRows, Idle, Submitting
  <2>2. CASE cl'[c] # Idle
    <3>1. StaysSubmitting(c) \/ (SettlesSubmission(c) /\ cl'[c].pc = "conclude")
        BY <1>0, <1>4, <2>2, ClientMoves
        DEF Begun, Reviewed, Rejected, Cancelled, SettlesSubmission, ConcludesSubmission
    <3>2. /\ cl'[c].seen = cl[c].seen /\ cl[c].pc \in Submitting /\ cl'[c].pc \in Submitting
          /\ run'.reason = run.reason /\ run'.wstep = run.wstep /\ run'.watt = run.watt
        BY <2>2, <3>1 DEF StaysSubmitting, SettlesSubmission, Submitting, Writes, Turns, WaitsAt
    <3>3. cl[c].seen.wstep \in Steps /\ cl[c].seen.watt \in Attempts
        BY <1>0, <3>2, SubmissionType
    <3>4. ~WPause /\ ~WRecord
      <4>1. w' = w /\ w \in WorkerState
          BY <1>0, <1>4, ClientMoves DEF TypeOK
      <4>2. QED
          BY <4>1 DEF WPause, WRecord, WorkerState
    <3>5. PICK s \in Steps, a \in Attempts : s = cl[c].seen.wstep /\ a = cl[c].seen.watt
        BY <3>3
    <3>6. IsLatest(s, a)'
        BY <1>0, <1>r, <3>2, <3>4, <3>5, LatestStays DEF OperatorRows
    <3>7. s = cl'[c].seen.wstep /\ a = cl'[c].seen.watt
        BY <3>2, <3>5
    <3>8. IsLatest(cl[c].seen.wstep, cl[c].seen.watt)'
        BY <3>6, <3>7 DEF IsLatest, Taken
    <3>9. /\ cl'[c].pc # "finish"
          /\ run'.reason = "execute_step"
          /\ run'.wstep = cl'[c].seen.wstep /\ run'.watt = cl'[c].seen.watt
        BY <1>r, <3>2 DEF OperatorRows, Submitting
    <3>10. /\ cl'[c].pc = "find_artifact" => ~Saved(s, a)'
           /\ cl'[c].pc \in {"settle", "conclude"} => Unapproved(s, a)'
      <4>1. \A pc : [cl EXCEPT ![c].pc = pc][c].pc = pc
        <5>1. \A pc : [cl EXCEPT ![c].pc = pc][c] = [cl[c] EXCEPT !.pc = pc]
            BY <1>0
        <5>2. QED
            BY <1>0, <5>1 DEF ClientState
      <4>2. OperatorResult(c)
          BY DEF SoloInv, ResultInv, OperatorsResult
      <4>3. CASE SaveSubmission(c)
        <5>1. cl' = [cl EXCEPT ![c].pc = "record"]
            BY <4>3 DEF SaveSubmission
        <5>2. QED
            BY <4>1, <5>1
      <4>4. CASE RecordSubmission(c)
        <5>1. /\ cl' = [cl EXCEPT ![c].pc = "find_artifact"] /\ artifacts' = artifacts
              /\ cl[c].pc = "record"
            BY <4>4 DEF RecordSubmission
        <5>2. output[s][a] = NoOutput
            BY <3>5, <4>2, <5>1 DEF OperatorResult
        <5>3. ~Saved(s, a)
            BY <5>2 DEF SoloInv, IInv, SavedInOrder, Backed, Saved
        <5>4. QED
            BY <4>1, <5>1, <5>3 DEF Saved
      <4>5. CASE FindArtifact(c)
        <5>1. cl[c].pc = "find_artifact"
            BY <4>5 DEF FindArtifact
        <5>2. ~Saved(cl[c].seen.wstep, cl[c].seen.watt)
            BY <1>r, <5>1 DEF OperatorRows
        <5>3. cl' = [cl EXCEPT ![c].pc = "add_artifact"]
            BY <4>5, <5>2 DEF FindArtifact, Saved
        <5>4. QED
            BY <4>1, <5>3
      <4>6. CASE AddArtifact(c)
        <5>1. /\ cl' = [cl EXCEPT ![c].pc = "settle"]
              /\ artifacts' = Append(artifacts, Row(s, a, c))
            BY <3>5, <4>6 DEF AddArtifact
        <5>2. /\ Len(artifacts) + 1 \in DOMAIN artifacts'
              /\ artifacts'[Len(artifacts) + 1] = Row(s, a, c)
            BY <1>0, <5>1
        <5>3. Unapproved(s, a)'
            BY <5>2 DEF Unapproved, Row
        <5>4. cl'[c].pc = "settle"
            BY <4>1, <5>1
        <5>5. QED
            BY <5>3, <5>4
      <4>7. CASE SettlesSubmission(c) /\ cl'[c].pc = "conclude"
        <5>1. artifacts' = artifacts /\ cl[c].pc = "settle"
            BY <4>7 DEF SettlesSubmission, SettleSubmission
        <5>2. Unapproved(cl[c].seen.wstep, cl[c].seen.watt)
            BY <1>r, <5>1 DEF OperatorRows
        <5>3. QED
            BY <3>5, <4>7, <5>1, <5>2 DEF Unapproved
      <4>8. QED
          BY <3>1, <4>3, <4>4, <4>5, <4>6, <4>7 DEF StaysSubmitting
    <3>11. /\ cl'[c].pc = "find_artifact" => ~Saved(cl[c].seen.wstep, cl[c].seen.watt)'
           /\ cl'[c].pc \in {"settle", "conclude"} =>
                  Unapproved(cl[c].seen.wstep, cl[c].seen.watt)'
        BY <3>7, <3>10 DEF Saved, Unapproved
    <3>12. QED
        BY <3>8, <3>9, <3>11 DEF OperatorRows
  <2>3. QED
      BY <2>1, <2>2
<1>5. CASE Crash \/ Restart \/ UNCHANGED vars
  <2>1. CASE cl'[c] = Idle
      BY <2>1 DEF OperatorRows, Idle, Submitting
  <2>2. CASE Restart
    <3>1. cl' = cl /\ UNCHANGED rows /\ w.pc = "down"
        BY <2>2 DEF Restart
    <3>2. cl[c].pc \in Submitting => run.status = "waiting_human"
        BY DEF SoloInv, TurnInv, OperatorsTurn
    <3>3. run.status = "waiting_human" => run' = run
        BY <2>2 DEF Restart, Recovered
    <3>4. QED
        BY <1>r, <3>1, <3>2, <3>3, OperatorRowsKept
  <2>3. CASE UNCHANGED vars
      BY <1>r, <2>3, OperatorRowsKept DEF vars
  <2>4. QED
      BY <1>5, <2>1, <2>2, <2>3 DEF Crash
<1>6. QED
    BY <1>1, <1>2, <1>3, <1>4, <1>5 DEF Next

LEMMA RowsStep ==
    ASSUME OneOperator, SoloInv, RowsInv, [Next]_vars
    PROVE  RowsInv'
<1>1. EnabledRows'
    BY EnabledRowsStep DEF SoloInv, RowsInv
<1>2. WorkersRows'
    BY WorkersRowsStep DEF RowsInv
<1>3. \A c \in Clients : OperatorRows(c)'
    BY OperatorRowsStep
<1>4. QED
    BY <1>1, <1>2, <1>3 DEF RowsInv

-----------------------------------------------------------------------------
(* Waits.  Until a restart, a request is open only for the submission the   *)
(* run waits for, or is about to; a wait for a review names the latest      *)
(* attempt of the step at the cursor, a wait for a submission an open       *)
(* request, unless its submission is in progress.                           *)
OpenForWait == \A i \in DOMAIN requests :
    requests[i].pending /\ run.status # "rejected" /\ ~run.cancel =>
        \/ w.pc = "wait" /\ requests[i].step = w.idx /\ requests[i].att = w.att
        \/ /\ run.status = "waiting_human" /\ run.reason = "execute_step"
           /\ requests[i].step = run.wstep /\ requests[i].att = run.watt
AtCursor == /\ run.wstep = run.cursor /\ run.wstep \in EnabledSteps /\ run.watt \in Attempts
            /\ IsLatest(run.wstep, run.watt)
ReviewWait == run.reason = "review" /\ AtCursor /\ Unapproved(run.wstep, run.watt)
SubmitWait == /\ run.reason = "execute_step" /\ AtCursor
              /\ Requested(run.wstep, run.watt) \/ BeingSubmitted
WellFormedWait ==
    run.status = "waiting_human" /\ ~run.cancel
        => ReviewWait \/ SubmitWait \/ run.reason = "budget_exhausted"
WaitInv == crashes = 0 => w.pc # "down" /\ OpenForWait /\ WellFormedWait

LEMMA OpenForWaitStep ==
    ASSUME OneOperator, SoloInv, RowsInv, WaitInv, crashes = 0, [Next]_vars, ~Crash
    PROVE  OpenForWait'
<1> SUFFICES ASSUME NEW i \in DOMAIN requests', requests'[i].pending,
                    run'.status # "rejected", ~run'.cancel
             PROVE  \/ w'.pc = "wait" /\ requests'[i].step = w'.idx /\ requests'[i].att = w'.att
                    \/ /\ run'.status = "waiting_human" /\ run'.reason = "execute_step"
                       /\ requests'[i].step = run'.wstep /\ requests'[i].att = run'.watt
    BY DEF OpenForWait
<1>0. TypeOK /\ InFlight /\ IInv /\ TurnInv /\ OpenForWait /\ w.pc # "down"
    BY DEF SoloInv, IInv, WaitInv
<1>1. CASE WPause
  <2>1. w'.pc = "wait" /\ w'.idx = w.idx /\ w'.att = w.att /\ w.pc = "pause" /\ run' = run
      BY <1>0, <1>1 DEF WPause, TypeOK, WorkerState
  <2>2. run.status \notin {"waiting_human", "rejected"}
      BY <1>0, <2>1 DEF TurnInv, WorkersTurn, Executing
  <2>3. QED
      BY <1>0, <2>1, <2>2, RequestFound DEF OpenForWait, NewRequest
<1>2. ASSUME ~WPause
      PROVE  /\ i \in DOMAIN requests /\ requests'[i].step = requests[i].step
             /\ requests'[i].att = requests[i].att /\ requests[i].pending
    BY <1>0, <1>2, RequestFound
<1>3. CASE Worker /\ ~WPause
  <2>1. requests[i].pending /\ i \in DOMAIN requests
      BY <1>2, <1>3
  <2>2. CASE WWait
    <3>1. w.pc = "wait"
        BY <2>2 DEF WWait
    <3>2. run.status \notin {"waiting_human", "rejected"}
        BY <1>0, <3>1 DEF TurnInv, WorkersTurn, Executing
    <3>3. /\ run'.status = "waiting_human" /\ run'.reason = "execute_step"
          /\ run'.wstep = w.idx /\ run'.watt = w.att /\ run'.cancel = run.cancel
      <4>1. /\ Writes("waiting_human", run.cursor, "execute_step", run.feedback)
            /\ WaitsAt(w.idx, w.att)
          BY <1>0, <2>2, WorkerRows
      <4>2. QED
          BY <4>1 DEF Writes, Turns, WaitsAt
    <3>4. requests[i].step = w.idx /\ requests[i].att = w.att
        BY <1>0, <2>1, <3>2, <3>3 DEF OpenForWait
    <3>5. QED
        BY <1>2, <1>3, <3>3, <3>4
  <2>3. CASE ~WWait
    <3>1. w.pc # "wait"
        BY <1>3, <2>3 DEF Worker, WPickUp, WBegin, WStart, WSkip, WTakeStep, WLoopCancelled,
           WLoopBudget, WLoopExit, WPause, WCall, WInfer, WReturned, WRecord, WArtifact,
           WPersisted, WAdvance, WComplete, WCancelled, WBudget, WFail
    <3>2. Executing \/ (Takes /\ run.status = "queued")
        BY <1>0, <1>3, WorkerMoves DEF Takes, StaysInside, MovesOn, LetsGo
    <3>3. run.status \notin {"waiting_human", "rejected"}
        BY <1>0, <3>2 DEF TurnInv, WorkersTurn
    <3>4. run.cancel
        BY <1>0, <2>1, <3>1, <3>3 DEF OpenForWait
    <3>5. run'.cancel = run.cancel
        BY <1>0, <1>3, WorkerMoves, Written DEF Takes, StaysInside, MovesOn, LetsGo, Pauses, Ends
    <3>6. QED
        BY <3>4, <3>5
  <2>4. QED
      BY <2>2, <2>3
<1>4. ASSUME NEW c \in Clients, Call(c) \/ Proceed(c)
      PROVE  \/ w'.pc = "wait" /\ requests'[i].step = w'.idx /\ requests'[i].att = w'.att
             \/ /\ run'.status = "waiting_human" /\ run'.reason = "execute_step"
                /\ requests'[i].step = run'.wstep /\ requests'[i].att = run'.watt
  <2>1. w' = w /\ ~WPause
    <3>1. w' = w /\ w \in WorkerState
        BY <1>0, <1>4, ClientMoves DEF TypeOK
    <3>2. QED
        BY <3>1 DEF WPause, WorkerState
  <2>2. /\ i \in DOMAIN requests /\ requests'[i].step = requests[i].step
        /\ requests'[i].att = requests[i].att /\ requests[i].pending
      BY <1>2, <2>1
  <2>3. CASE run' = run
      BY <1>0, <2>1, <2>2, <2>3 DEF OpenForWait
  <2>4. CASE Decides(c)
    <3>1. cl[c].seen.reason \in {"review", "budget_exhausted"} /\ run.status = "waiting_human"
          /\ Seen(run) = cl[c].seen /\ ~run.cancel
      <4>1. cl[c].pc = "finish"
          BY <2>4 DEF Decides, FinishReview
      <4>2. QED
          BY <2>4, <4>1 DEF Decides, StillReviewable, RowsInv, OperatorRows
    <3>2. run.reason # "execute_step"
        BY <1>0, <3>1 DEF Seen, TypeOK, RunRow
    <3>3. w.pc # "wait"
        BY <1>0, <3>1 DEF TurnInv, WorkersTurn, Executing
    <3>4. QED
        BY <1>0, <2>2, <3>1, <3>2, <3>3 DEF OpenForWait
  <2>5. CASE Rejected(c) \/ Cancelled(c)
      BY <2>5, Written DEF Rejected, Cancelled
  <2>6. CASE SettlesSubmission(c)
    <3>1. /\ run'.status = run.status /\ run'.reason = run.reason /\ run'.cancel = run.cancel
          /\ run'.wstep = run.wstep /\ run'.watt = run.watt
        BY <2>6, Written DEF SettlesSubmission, WaitsAt
    <3>2. QED
        BY <1>0, <2>1, <2>2, <3>1 DEF OpenForWait
  <2>7. CASE ConcludesSubmission(c)
    <3>1. cl[c].pc = "conclude" /\ cl[c].pc \in Submitting \ {"save"} /\ cl[c].pc \in Submitting
        BY <2>7 DEF ConcludesSubmission, Submitting
    <3>2. /\ cl[c].row \in DOMAIN requests
          /\ requests[cl[c].row].step = cl[c].seen.wstep
          /\ requests[cl[c].row].att = cl[c].seen.watt
        BY <1>0, <3>1, SubmissionType
    <3>3. ~requests[cl[c].row].pending
        BY <3>1 DEF SoloInv, ResultInv, OperatorsResult, OperatorResult
    <3>4. run.wstep = cl[c].seen.wstep /\ run.watt = cl[c].seen.watt /\ run.status = "waiting_human"
        BY <1>0, <3>1 DEF RowsInv, OperatorRows, TurnInv, OperatorsTurn
    <3>5. run'.cancel = run.cancel
        BY <2>7, Written DEF ConcludesSubmission
    <3>6. requests[i].step = run.wstep /\ requests[i].att = run.watt
        BY <1>0, <2>2, <3>4, <3>5 DEF OpenForWait, TurnInv, WorkersTurn, Executing
    <3>7. QED
        BY <2>2, <3>2, <3>3, <3>4, <3>6 DEF SoloInv, ResultInv, OneRequest
  <2>8. QED
      BY <1>0, <1>4, <2>3, <2>4, <2>5, <2>6, <2>7, ClientMoves DEF Begun, Reviewed, StaysSubmitting
<1>5. CASE UNCHANGED vars
    BY <1>0, <1>5 DEF OpenForWait, vars
<1>6. QED
    BY <1>0, <1>1, <1>3, <1>4, <1>5 DEF Next, Restart

(* The attempt the worker lets go of is the latest of its step.             *)
LEMMA WorkersLatest ==
    ASSUME SoloInv, w.pc \in InStep, Requested(w.idx, w.att) \/ Saved(w.idx, w.att)
    PROVE  /\ IsLatest(w.idx, w.att)
           /\ w.idx \in EnabledSteps /\ w.att \in Attempts
<1>1. w.idx \in EnabledSteps /\ w.att \in Attempts
    BY DEF SoloInv, IInv, TypeOK, WorkerState, InFlight, WorkerInFlight
<1>2. w.att \in Taken(w.idx)
    BY <1>1 DEF SoloInv, IInv, SavedInOrder, Backed, Saved, Requested, Taken
<1>3. QED
    BY <1>1, <1>2 DEF SoloInv, AttemptInv, LatestAttempt, IsLatest

(* A wait stays as it is while the fields and rows it relies on do.         *)
LEMMA WaitKept ==
    ASSUME TypeOK, InFlight, [Next]_vars, ~WPause, ~WRecord, AtCursor,
           run'.cursor = run.cursor, run'.wstep = run.wstep, run'.watt = run.watt
    PROVE  /\ AtCursor'
           /\ (\A c \in Clients : ~Decides(c)) /\ Unapproved(run.wstep, run.watt)
                 => Unapproved(run.wstep, run.watt)'
<1>1. PICK s \in EnabledSteps, a \in Attempts : s = run.wstep /\ a = run.watt /\ s \in Steps
    BY StepsAssumption DEF AtCursor
<1>2. IsLatest(s, a)'
    BY <1>1, LatestStays DEF AtCursor
<1>3. s = run'.wstep /\ a = run'.watt
    BY <1>1
<1>4. IsLatest(run.wstep, run.watt)'
    BY <1>2, <1>3 DEF IsLatest, Taken
<1>5. AtCursor'
    BY <1>1, <1>4 DEF AtCursor
<1>6. (\A c \in Clients : ~Decides(c)) /\ Unapproved(s, a) => Unapproved(s, a)'
    BY UnapprovedStays
<1>7. QED
    BY <1>1, <1>3, <1>5, <1>6 DEF Unapproved

LEMMA WellFormedWaitStep ==
    ASSUME OneOperator, SoloInv, RowsInv, WaitInv, crashes = 0, [Next]_vars, ~Crash
    PROVE  WellFormedWait'
<1> SUFFICES ASSUME run'.status = "waiting_human", ~run'.cancel
             PROVE  ReviewWait' \/ SubmitWait' \/ run'.reason = "budget_exhausted"
    BY DEF WellFormedWait
<1>0. /\ TypeOK /\ InFlight /\ IInv /\ TurnInv /\ WellFormedWait /\ w.pc # "down" /\ w \in WorkerState
    BY DEF SoloInv, IInv, TypeOK, WaitInv
<1>1. CASE Worker
  <2>1. Executing /\ Pauses /\ w.idx = run.cursor
    <3>1. CASE Takes
        BY <3>1 DEF Takes
    <3>2. CASE Executing
      <4>1. run.status # "waiting_human" /\ w.idx = run.cursor
          BY <1>0, <3>2 DEF TurnInv, WorkersTurn
      <4>2. ~StaysInside /\ ~MovesOn
          BY <4>1, Written DEF StaysInside, MovesOn
      <4>3. ~Ends
          BY Written DEF Ends
      <4>4. QED
          BY <1>0, <1>1, <3>1, <3>2, <4>1, <4>2, <4>3, WorkerMoves DEF LetsGo
    <3>3. QED
        BY <1>0, <1>1, <3>1, <3>2, WorkerMoves DEF StaysInside, MovesOn, LetsGo
  <2>2. CASE WWait /\ Writes("waiting_human", run.cursor, "execute_step", run.feedback)
             /\ WaitsAt(w.idx, w.att)
    <3>1. w.pc = "wait" /\ UNCHANGED rows
        BY <2>2 DEF WWait
    <3>2. Requested(w.idx, w.att)
        BY <3>1 DEF RowsInv, WorkersRows
    <3>3. /\ run'.cursor = w.idx /\ run'.reason = "execute_step" /\ run'.wstep = w.idx
          /\ run'.watt = w.att
        BY <2>1, <2>2 DEF Writes, Turns, WaitsAt
    <3>4. IsLatest(w.idx, w.att) /\ w.idx \in EnabledSteps /\ w.att \in Attempts
        BY <3>1, <3>2, WorkersLatest DEF InStep
    <3>5. SubmitWait'
        BY <3>1, <3>2, <3>3, <3>4 DEF SubmitWait, AtCursor, IsLatest, Taken, Requested
    <3>6. QED
        BY <3>5
  <2>3. CASE WAdvance /\ Writes("waiting_human", w.idx, "review", run.feedback)
             /\ WaitsAt(w.idx, w.att)
    <3>1. w.pc = "advance" /\ UNCHANGED rows
        BY <2>3 DEF WAdvance
    <3>2. Unapproved(w.idx, w.att) /\ Saved(w.idx, w.att)
        BY <3>1 DEF RowsInv, WorkersRows, Unapproved, Saved
    <3>3. /\ run'.cursor = w.idx /\ run'.reason = "review" /\ run'.wstep = w.idx
          /\ run'.watt = w.att
        BY <2>3 DEF Writes, Turns, WaitsAt
    <3>4. IsLatest(w.idx, w.att) /\ w.idx \in EnabledSteps /\ w.att \in Attempts
        BY <3>1, <3>2, WorkersLatest DEF InStep
    <3>5. ReviewWait'
        BY <3>1, <3>2, <3>3, <3>4 DEF ReviewWait, AtCursor, IsLatest, Taken, Unapproved
    <3>6. QED
        BY <3>5
  <2>4. CASE WBudget /\ Writes("waiting_human", run.cursor, "budget_exhausted", run.feedback)
      BY <2>4 DEF Writes, Turns
  <2>5. QED
      BY <2>1, <2>2, <2>3, <2>4 DEF Pauses
<1>2. ASSUME NEW c \in Clients, Call(c) \/ Proceed(c)
      PROVE  ReviewWait' \/ SubmitWait' \/ run'.reason = "budget_exhausted"
  <2>1. /\ ~WPause /\ ~WRecord /\ \A d \in Clients : d = c
    <3>1. w' = w
        BY <1>0, <1>2, ClientMoves
    <3>2. QED
        BY <1>0, <3>1 DEF WPause, WRecord, WorkerState, OneOperator
  <2>2. ~Decides(c) /\ ~Rejected(c) /\ ~Cancelled(c)
    <3>1. ~Decides(c)
        BY DEF Decides, Writes, Turns
    <3>2. ~Rejected(c)
        BY DEF Rejected, Writes, Turns
    <3>3. QED
        BY <3>1, <3>2 DEF Cancelled
  <2>3. \A d \in Clients : ~Decides(d)
      BY <2>1, <2>2
  <2>4. ASSUME run'.status = run.status, run'.cancel = run.cancel, run'.reason = run.reason,
               run'.cursor = run.cursor, run'.wstep = run.wstep, run'.watt = run.watt,
               BeingSubmitted' \/ (requests' = requests /\ ~BeingSubmitted)
        PROVE  ReviewWait' \/ SubmitWait' \/ run'.reason = "budget_exhausted"
    <3>1. ReviewWait \/ SubmitWait \/ run.reason = "budget_exhausted"
        BY <1>0, <2>4 DEF WellFormedWait
    <3>2. CASE ReviewWait
        BY <1>0, <2>1, <2>3, <2>4, <3>2, WaitKept DEF ReviewWait
    <3>3. CASE SubmitWait
      <4>1. AtCursor'
          BY <1>0, <2>1, <2>4, <3>3, WaitKept DEF SubmitWait
      <4>2. Requested(run.wstep, run.watt)' \/ BeingSubmitted'
          BY <2>4, <3>3 DEF SubmitWait, Requested
      <4>3. SubmitWait'
          BY <2>4, <3>3, <4>1, <4>2 DEF SubmitWait
      <4>4. QED
          BY <4>3
    <3>4. QED
        BY <2>4, <3>1, <3>2, <3>3
  <2>5. CASE Begun(c) \/ Reviewed(c)
    <3>1. run' = run
        BY <2>2, <2>5 DEF Begun, Reviewed
    <3>2. requests' = requests /\ cl[c].pc \notin Submitting
        BY <2>5 DEF Begun, Reviewed, Call, ReadReview, ReadReject, ReadCancel, ReadSubmit,
           FinishReview, Submitting
    <3>3. ~BeingSubmitted
        BY <2>1, <3>2 DEF BeingSubmitted
    <3>4. QED
        BY <2>4, <3>1, <3>2, <3>3
  <2>6. CASE StaysSubmitting(c)
    <3>1. BeingSubmitted' /\ run' = run
        BY <2>6 DEF StaysSubmitting, BeingSubmitted
    <3>2. QED
        BY <2>4, <3>1
  <2>7. CASE SettlesSubmission(c)
    <3>1. /\ run'.status = run.status /\ run'.reason = run.reason /\ run'.cancel = run.cancel
          /\ run'.cursor = run.cursor /\ run'.wstep = run.wstep /\ run'.watt = run.watt
        BY <2>7 DEF SettlesSubmission, Writes, Turns, WaitsAt
    <3>2. cl'[c].pc = "conclude"
        BY <2>7, <3>1 DEF SettlesSubmission
    <3>3. BeingSubmitted'
        BY <3>2 DEF BeingSubmitted, Submitting
    <3>4. QED
        BY <2>4, <3>1, <3>3
  <2>8. CASE ConcludesSubmission(c)
    <3>1. cl[c].pc = "conclude" /\ cl[c].pc \in Submitting /\ UNCHANGED rows
        BY <2>8 DEF ConcludesSubmission, ConcludeSubmission, Submitting
    <3>2. /\ Unapproved(cl[c].seen.wstep, cl[c].seen.watt)
          /\ IsLatest(cl[c].seen.wstep, cl[c].seen.watt)
        BY <3>1 DEF RowsInv, OperatorRows
    <3>3. /\ cl[c].seen.wstep \in EnabledSteps /\ cl[c].seen.watt \in Attempts
          /\ run.cursor = cl[c].seen.wstep
        BY <1>0, <3>1, SubmissionType DEF InFlight, SubmissionInFlight, TurnInv, OperatorsTurn
    <3>4. /\ run'.reason = "review" /\ run'.cursor = run.cursor
          /\ run'.wstep = cl[c].seen.wstep /\ run'.watt = cl[c].seen.watt
        BY <2>8 DEF ConcludesSubmission, Writes, Turns, WaitsAt
    <3>5. ReviewWait'
        BY <3>1, <3>2, <3>3, <3>4 DEF ReviewWait, AtCursor, IsLatest, Taken, Unapproved
    <3>6. QED
        BY <3>5
  <2>9. QED
      BY <1>0, <1>2, <2>2, <2>5, <2>6, <2>7, <2>8, ClientMoves
<1>3. CASE UNCHANGED vars
  <2>1. WellFormedWait'
      BY <1>0, <1>3 DEF vars, WellFormedWait, ReviewWait, SubmitWait, AtCursor, BeingSubmitted,
         IsLatest, Taken, Unapproved, Requested
  <2>2. QED
      BY <2>1 DEF WellFormedWait
<1>4. QED
    BY <1>0, <1>1, <1>2, <1>3 DEF Next, Restart

LEMMA WaitStep ==
    ASSUME OneOperator, SoloInv, RowsInv, WaitInv, [Next]_vars
    PROVE  WaitInv'
<1>0. TypeOK /\ crashes \in Nat
    BY BoundsAssumption DEF SoloInv, IInv, TypeOK
<1>1. CASE Crash
  <2>1. crashes' # 0
      BY <1>0, <1>1 DEF Crash
  <2>2. QED
      BY <2>1 DEF WaitInv
<1>2. CASE crashes' = 0 /\ ~Crash
  <2>1. crashes = 0
    <3>1. \A c \in Clients : Call(c) \/ Proceed(c) => crashes' = crashes
        BY <1>0, ClientMoves
    <3>2. Worker => crashes' = crashes
        BY <1>0, WorkerMoves
    <3>3. QED
        BY <1>2, <3>1, <3>2 DEF Next, Restart, vars
  <2>2. w'.pc # "down"
    <3>1. \A c \in Clients : Call(c) \/ Proceed(c) => w' = w
        BY <1>0, ClientMoves
    <3>2. /\ Takes \/ MovesOn \/ LetsGo => w'.pc # "down"
          /\ StaysInside => w'.pc # "down"
      <4>1. Takes \/ MovesOn => w'.pc # "down"
          BY DEF Takes, MovesOn
      <4>2. LetsGo => w'.pc # "down"
          BY DEF LetsGo, Rest
      <4>3. StaysInside => w'.pc # "down"
          BY DEF StaysInside, Executing
      <4>4. QED
          BY <4>1, <4>2, <4>3
    <3>3. QED
        BY <1>0, <1>2, <2>1, <3>1, <3>2, WorkerMoves DEF Next, Restart, vars, WaitInv
  <2>3. QED
      BY <1>2, <2>1, <2>2, OpenForWaitStep, WellFormedWaitStep DEF WaitInv
<1>3. QED
    BY <1>1, <1>2 DEF WaitInv

LEMMA InitWait == Init => RowsInv /\ WaitInv
<1> SUFFICES ASSUME Init PROVE RowsInv /\ WaitInv
    OBVIOUS
<1>1. run.status = "queued" /\ w.pc = "idle" /\ \A c \in Clients : cl[c].pc = "idle"
    BY DEF Init, NewRun, Rest, Idle
<1>2. DOMAIN artifacts = {} /\ DOMAIN requests = {}
    BY DEF Init
<1>3. QED
    BY <1>1, <1>2 DEF RowsInv, EnabledRows, WorkersRows, OperatorRows, WaitInv, OpenForWait,
       WellFormedWait, Submitting

LEMMA WaitIsReady ==
    ASSUME OneOperator, SoloInv, RowsInv, WaitInv, ArtifactShowsOutput, crashes = 0, WaitsOnOperator
    PROVE  Actionable
<1>1. /\ run.status = "waiting_human" /\ ~run.cancel /\ OpenForWait
      /\ ReviewWait \/ SubmitWait \/ run.reason = "budget_exhausted"
    BY DEF WaitsOnOperator, WaitInv, WellFormedWait
<1>2. ~BeingSubmitted
    BY DEF WaitsOnOperator, BeingSubmitted, Submitting
<1>3. CASE ReviewWait
  <2>1. PICK i \in DOMAIN artifacts : /\ artifacts[i].step = run.wstep /\ artifacts[i].att = run.watt
                                      /\ ~artifacts[i].approved
      BY <1>3 DEF ReviewWait, Unapproved
  <2>2. ReviewRows(run.wstep, run.watt) = {i}
      BY <2>1 DEF ArtifactShowsOutput
  <2>3. ReviewPoint(run, i)
      BY <1>3, <2>1, <2>2 DEF ReviewPoint, ReviewWait, AtCursor, CurrentAttempt
  <2>4. QED
      BY <1>3, <2>3 DEF Actionable, ReviewWait
<1>4. CASE SubmitWait
  <2>1. PICK i \in DOMAIN requests : /\ requests[i].step = run.wstep /\ requests[i].att = run.watt
                                     /\ requests[i].pending
      BY <1>2, <1>4 DEF SubmitWait, Requested
  <2>2. w.pc # "wait"
      BY <1>1 DEF SoloInv, TurnInv, WorkersTurn, Executing
  <2>3. \A j \in DOMAIN requests : requests[j].pending => j = i
      BY <1>1, <2>1, <2>2 DEF OpenForWait, SoloInv, ResultInv, OneRequest
  <2>4. i \in Nat
      BY SeqRows DEF SoloInv, IInv, TypeOK
  <2>5. NewestPending(i)
      BY <2>1, <2>3, <2>4 DEF NewestPending
  <2>6. SubmitPoint(i)
      BY <1>1, <1>4, <2>1, <2>5 DEF SubmitPoint, SubmitWait, AtCursor
  <2>7. QED
      BY <2>6 DEF Actionable
<1>5. CASE run.reason = "budget_exhausted"
  <2>1. PICK i \in DOMAIN artifacts : artifacts[i].step = run.wstep /\ artifacts[i].att = run.watt
      BY <1>1, <1>5 DEF SoloInv, IInv, SavedInOrder, Saved
  <2>2. ReviewRows(run.wstep, run.watt) = {i}
      BY <2>1 DEF ArtifactShowsOutput
  <2>3. ReviewPoint(run, i)
      BY <1>5, <2>1, <2>2 DEF ReviewPoint, CurrentAttempt, BudgetStop, RowsInv, EnabledRows
  <2>4. QED
      BY <1>5, <2>3 DEF Actionable
<1>6. QED
    BY <1>1, <1>3, <1>4, <1>5

(* With one operator, and until the process is restarted, a run that waits  *)
(* can go on: its wait accepts a review or a submission, after any          *)
(* sequence of reviews, submissions, retries and budget stops.              *)
THEOREM WaitsAreActionable == ASSUME OneOperator PROVE Spec => []WaitIsActionable
<1>1. Init => SoloInv /\ RowsInv /\ WaitInv
    BY InitSolo, InitWait
<1>2. SoloInv /\ RowsInv /\ WaitInv /\ [Next]_vars => (SoloInv /\ RowsInv /\ WaitInv)'
    BY SoloStep, RowsStep, WaitStep
<1>3. SoloInv /\ RowsInv /\ WaitInv => WaitIsActionable
    BY ShownOutput, WaitIsReady DEF WaitIsActionable
<1>4. QED
    BY <1>1, <1>2, <1>3, PTL DEF Spec

-----------------------------------------------------------------------------
(* Feedback.  Only guided steps are submitted.  After changes were asked    *)
(* for step s, and until a restart, the feedback is on the run row while    *)
(* the step is to be executed, then in the worker's prompt, then in the     *)
(* output it makes, which is the one the run waits with.                    *)
HumanRows ==
    /\ \A i \in DOMAIN requests : requests[i].step \in HumanSteps
    /\ w.pc \in {"pause", "wait"} => w.idx \in HumanSteps
FeedbackQueued(s) == run.status = "queued" /\ run.cursor = s /\ ~Executing => run.feedback
FeedbackTaken(s) ==
    w.idx = s => /\ w.pc \in {"begin", "start", "loop"} => run.feedback
                 /\ w.pc \in {"call", "infer", "returned", "record"} => w.revising
FeedbackMade(s) ==
    w.idx = s /\ w.pc \in {"artifact", "persisted", "advance"} => output[s][w.att] = Revised
FeedbackShown(s) ==
    run.status = "waiting_human" /\ run.reason = "review" /\ run.wstep = s
        => output[s][run.watt] = Revised
ChangesAsked(s) == crashes = 0 /\ decision = [kind |-> "revise", step |-> s]
FeedbackFor(s) == /\ s <= run.cursor /\ FeedbackQueued(s)
                  /\ FeedbackTaken(s) /\ FeedbackMade(s) /\ FeedbackShown(s)
FeedbackInv == HumanRows /\ \A s \in Steps \ HumanSteps : ChangesAsked(s) => FeedbackFor(s)

LEMMA HumanRowsStep ==
    ASSUME TypeOK, HumanRows, [Next]_vars
    PROVE  HumanRows'
<1>1. ASSUME NEW i \in DOMAIN requests' PROVE requests'[i].step \in HumanSteps
  <2>1. CASE WPause /\ requests'[i] = NewRequest
      BY <2>1 DEF WPause, NewRequest, HumanRows
  <2>2. QED
      BY <1>1, <2>1, RequestFound DEF HumanRows
<1>2. ASSUME w'.pc \in {"pause", "wait"} PROVE w'.idx \in HumanSteps
  <2>1. CASE w' = w
      BY <1>2, <2>1 DEF HumanRows
  <2>2. CASE Worker
      BY <1>2, <2>2, StaysInStep DEF InStep, StepBegins, StepGoesOn, HumanRows
  <2>3. ASSUME NEW c \in Clients, Call(c) \/ Proceed(c) PROVE w' = w
      BY <2>3, ClientMoves
  <2>4. CASE Crash \/ Restart
      BY <1>2, <2>4 DEF Crash, Restart, Rest
  <2>5. QED
      BY <2>1, <2>2, <2>3, <2>4 DEF Next, vars
<1>3. QED
    BY <1>1, <1>2 DEF HumanRows

(* What an attempt shows stays what it was.                                 *)
LEMMA OutputKept ==
    ASSUME SoloInv, [Next]_vars, NEW s \in Steps, NEW a \in Attempts, output[s][a] = Revised
    PROVE  output'[s][a] = Revised
<1>1. TypeOK /\ InFlight /\ output[s][a] # NoOutput
    BY AuthorsAssumption DEF SoloInv, IInv
<1>2. QED
    BY <1>1, OutputOrigin, WrittenOnce DEF SoloInv

LEMMA ShownAttempt ==
    ASSUME IInv, run.status = "waiting_human", run.reason = "review"
    PROVE  run.watt \in Attempts
<1>1. PICK i \in DOMAIN artifacts : artifacts[i].att = run.watt
    BY DEF IInv, SavedInOrder, Saved
<1>2. artifacts[i] \in ArtifactRow
    BY SeqRows DEF IInv, TypeOK
<1>3. QED
    BY <1>1, <1>2 DEF ArtifactRow

(* A decision made now: the feedback is on the run row, the step queued.    *)
LEMMA JustAsked ==
    ASSUME SoloInv, NEW c \in Clients, Decides(c), [Next]_vars, w' = w,
           NEW s \in Steps, decision' = [kind |-> "revise", step |-> s]
    PROVE  FeedbackFor(s)'
<1>0. /\ TypeOK /\ InFlight /\ run \in RunRow
      /\ StillReviewable(c) /\ cl[c].pc = "finish" /\ ReviewInFlight(c)
    BY DEF SoloInv, IInv, TypeOK, InFlight, Decides, FinishReview
<1>1. /\ ~cl[c].approve /\ cl[c].feedback /\ artifacts[cl[c].row].step = s
  <2>1. decision' = [kind |-> IF cl[c].approve THEN "approve"
                              ELSE IF cl[c].feedback THEN "revise" ELSE "regenerate",
                     step |-> artifacts[cl[c].row].step]
      BY <1>0 DEF Decides, FinishReview
  <2>2. decision'.kind = "revise" /\ decision'.step = s
      OBVIOUS
  <2>3. QED
      BY <2>1, <2>2
<1>2. run.cursor = s
  <2>1. Seen(run) = cl[c].seen /\ cl[c].seen.cursor = s
      BY <1>0, <1>1 DEF StillReviewable, ReviewInFlight
  <2>2. Seen(run).cursor = run.cursor
      BY <1>0 DEF Seen, RunRow
  <2>3. QED
      BY <2>1, <2>2
<1>3. run'.status = "queued" /\ run'.cursor = s /\ run'.feedback
    BY <1>1, <1>2, Written DEF Decides
<1>4. ~Executing
    BY <1>0 DEF StillReviewable, SoloInv, TurnInv, WorkersTurn
<1>5. s <= run'.cursor
    BY <1>3 DEF Steps
<1>6. FeedbackQueued(s)' /\ FeedbackShown(s)'
    BY <1>3 DEF FeedbackQueued, FeedbackShown
<1>7. FeedbackTaken(s)' /\ FeedbackMade(s)'
    BY <1>4 DEF FeedbackTaken, FeedbackMade, Executing
<1>8. QED
    BY <1>5, <1>6, <1>7 DEF FeedbackFor

(* The worker carries the feedback from the run row to the output.          *)
LEMMA StaysBefore ==
    ASSUME TypeOK, Worker, StaysInside, w'.pc \in {"begin", "start", "loop"}
    PROVE  w.pc \in {"begin", "start"} /\ run'.feedback = run.feedback
<1>0. w \in WorkerState /\ w.idx \in Int
    BY StepsAssumption DEF TypeOK, WorkerState
<1>1. \A pc : [w EXCEPT !.pc = pc].pc = pc
    BY <1>0 DEF WorkerState
<1>2. CASE WBegin
    BY <1>2 DEF WBegin
<1>3. CASE WStart
  <2>1. Writes("running", run.cursor, "", run.feedback)
      BY <1>3, WorkerRows
  <2>2. run'.feedback = run.feedback
      BY <2>1 DEF Writes, Turns
  <2>3. QED
      BY <1>3, <2>2 DEF WStart
<1>4. CASE WPickUp \/ WComplete \/ WWait \/ WCancelled \/ WBudget \/ WFail
  <2>1. CASE WPickUp
      BY <2>1 DEF WPickUp, StaysInside, Executing
  <2>2. CASE w' = Rest
      BY <2>2 DEF Rest
  <2>3. QED
      BY <1>4, <2>1, <2>2 DEF WComplete, WWait, WCancelled, WBudget, WFail
<1>5. CASE WSkip \/ WAdvance
  <2>1. w'.idx = w.idx + 1 \/ w' = Rest
      BY <1>0, <1>5 DEF WSkip, WAdvance, WorkerState
  <2>2. w'.idx = w.idx /\ w'.pc # "idle"
      BY DEF StaysInside, Executing
  <2>3. w' # Rest /\ w'.idx # w.idx + 1
      BY <1>0, <2>2 DEF Rest
  <2>4. QED
      BY <2>1, <2>3
<1>6. CASE WTakeStep
    BY <1>0, <1>6 DEF WTakeStep, WorkerState
<1>7. CASE WCall
  <2>1. w'.pc \in {"budget", "cancelled", "infer"}
      BY <1>0, <1>7 DEF WCall, WorkerState
  <2>2. QED
      BY <2>1
<1>8. CASE WLoopCancelled \/ WLoopBudget \/ WLoopExit \/ WPause \/ WInfer \/ WReturned \/ WRecord
           \/ WArtifact \/ WPersisted
    BY <1>1, <1>8 DEF WLoopCancelled, WLoopBudget, WLoopExit, WPause, WInfer, WReturned, WRecord,
       WArtifact, WPersisted
<1>9. QED
    BY <1>2, <1>3, <1>4, <1>5, <1>6, <1>7, <1>8 DEF Worker

LEMMA CarriedInside ==
    ASSUME SoloInv, Worker, [Next]_vars, StaysInside, NEW s \in Steps \ HumanSteps, FeedbackFor(s)
    PROVE  FeedbackFor(s)'
<1>0. TypeOK /\ w \in WorkerState /\ Executing /\ Executing' /\ w'.idx = w.idx
    BY DEF SoloInv, IInv, TypeOK, StaysInside
<1>1. /\ run.status # "waiting_human" /\ run'.cursor = run.cursor
      /\ run'.status \in {run.status, "running"}
    BY <1>0 DEF SoloInv, TurnInv, WorkersTurn, StaysInside, Writes, Turns
<1>2. s <= run'.cursor /\ FeedbackQueued(s)' /\ FeedbackShown(s)'
    BY <1>0, <1>1 DEF FeedbackFor, FeedbackQueued, FeedbackShown
<1>3. FeedbackTaken(s)'
  <2> SUFFICES ASSUME w.idx = s
               PROVE  /\ w'.pc \in {"begin", "start", "loop"} => run'.feedback
                      /\ w'.pc \in {"call", "infer", "returned", "record"} => w'.revising
      BY <1>0 DEF FeedbackTaken
  <2>1. w'.pc \in {"begin", "start", "loop"} => run'.feedback
      BY <1>0, StaysBefore DEF FeedbackFor, FeedbackTaken
  <2>2. ASSUME w'.pc \in {"call", "infer", "returned", "record"} PROVE w'.revising
    <3>1. StepBegins \/ StepGoesOn
        BY <1>0, <2>2, StaysInStep DEF InStep
    <3>2. CASE StepBegins
        BY <3>2 DEF StepBegins, WTakeStep, FeedbackFor, FeedbackTaken
    <3>3. CASE StepGoesOn
      <4>1. w.pc \in {"call", "infer", "returned"} /\ w'.revising = w.revising
          BY <2>2, <3>3 DEF StepGoesOn
      <4>2. QED
          BY <4>1 DEF FeedbackFor, FeedbackTaken
    <3>4. QED
        BY <3>1, <3>2, <3>3
  <2>3. QED
      BY <2>1, <2>2
<1>4. FeedbackMade(s)'
  <2> SUFFICES ASSUME w.idx = s, w'.pc \in {"artifact", "persisted", "advance"}
               PROVE  output'[s][w'.att] = Revised
      BY <1>0 DEF FeedbackMade
  <2>1. StepGoesOn
      BY <1>0, StaysInStep DEF InStep, StepBegins
  <2>2. w'.att = w.att /\ w.att \in Attempts /\ w.idx \in Steps
      BY <1>0, <2>1 DEF StepGoesOn, WorkerState
  <2>3. CASE WRecord /\ w.pc = "record"
    <3>1. output' = [output EXCEPT ![w.idx][w.att] = Revised]
        BY <2>3 DEF WRecord, Made, FeedbackFor, FeedbackTaken
    <3>2. QED
        BY <1>0, <2>2, <3>1 DEF TypeOK
  <2>4. CASE w.pc \in {"artifact", "persisted"}
    <3>1. output[s][w.att] = Revised
        BY <2>4 DEF FeedbackFor, FeedbackMade
    <3>2. QED
        BY <2>2, <3>1, OutputKept
  <2>5. QED
      BY <2>1, <2>3, <2>4 DEF StepGoesOn
<1>5. QED
    BY <1>2, <1>3, <1>4 DEF FeedbackFor

LEMMA CarriedByWorker ==
    ASSUME SoloInv, Worker, [Next]_vars, NEW s \in Steps \ HumanSteps, FeedbackFor(s)
    PROVE  FeedbackFor(s)'
<1>0. /\ TypeOK /\ w \in WorkerState /\ run.cursor \in Int /\ s \in Int
      /\ Takes \/ StaysInside \/ MovesOn \/ LetsGo
    BY WorkerMoves, StepsAssumption DEF SoloInv, IInv, TypeOK, RunRow, Steps
<1>1. CASE Takes
  <2>1. run' = run /\ w'.pc = "begin" /\ w'.idx = run.cursor /\ run.status = "queued" /\ ~Executing
      BY <1>1 DEF Takes, WPickUp, Executing
  <2>2. s <= run'.cursor /\ FeedbackQueued(s)' /\ FeedbackShown(s)'
      BY <2>1 DEF FeedbackFor, FeedbackQueued, FeedbackShown, Executing
  <2>3. FeedbackTaken(s)' /\ FeedbackMade(s)'
      BY <2>1 DEF FeedbackFor, FeedbackQueued, FeedbackTaken, FeedbackMade
  <2>4. QED
      BY <2>2, <2>3 DEF FeedbackFor
<1>2. CASE StaysInside
    BY <1>2, CarriedInside
<1>3. ASSUME Executing
      PROVE  run.status # "waiting_human" /\ w.idx = run.cursor /\ s <= run.cursor
    BY <1>3 DEF SoloInv, TurnInv, WorkersTurn, FeedbackFor
<1>4. CASE MovesOn
  <2>1. /\ Executing' /\ w'.idx = w.idx + 1 /\ run'.cursor = w.idx + 1
        /\ run'.status = run.status /\ run.status # "waiting_human" /\ s < w.idx + 1
    <3>1. Executing /\ Executing' /\ w'.idx = w.idx + 1
          /\ Writes(run.status, w.idx + 1, run.reason, run.feedback)
        BY <1>4 DEF MovesOn
    <3>2. run'.cursor = w.idx + 1 /\ run'.status = run.status
        BY <3>1, Written
    <3>3. s < w.idx + 1
        BY <1>0, <1>3, <3>1
    <3>4. QED
        BY <1>3, <3>1, <3>2, <3>3
  <2>2. s <= run'.cursor /\ FeedbackQueued(s)' /\ FeedbackShown(s)'
    <3>1. s <= w.idx + 1
        BY <1>0, <1>3, <1>4, <2>1 DEF MovesOn
    <3>2. QED
        BY <2>1, <3>1 DEF FeedbackQueued, FeedbackShown
  <2>3. w'.idx # s
      BY <1>0, <1>3, <1>4, <2>1 DEF MovesOn
  <2>4. FeedbackTaken(s)' /\ FeedbackMade(s)'
      BY <2>3 DEF FeedbackTaken, FeedbackMade
  <2>5. QED
      BY <2>2, <2>4 DEF FeedbackFor
<1>5. CASE LetsGo
  <2>1. Executing /\ w'.pc = "idle"
      BY <1>5 DEF LetsGo, Rest
  <2>2. FeedbackTaken(s)' /\ FeedbackMade(s)'
      BY <2>1 DEF FeedbackTaken, FeedbackMade
  <2>3. run'.cursor = run.cursor /\ run'.status # "queued"
    <3>1. Pauses => run'.cursor = run.cursor /\ run'.status = "waiting_human"
        BY <1>3, <2>1, Written DEF Pauses
    <3>2. Ends => run'.cursor = run.cursor /\ run'.status \in {"completed", "cancelled", "failed"}
        BY Written DEF Ends
    <3>3. QED
        BY <1>5, <3>1, <3>2 DEF LetsGo
  <2>4. s <= run'.cursor /\ FeedbackQueued(s)'
      BY <1>3, <2>1, <2>3 DEF FeedbackQueued
  <2>5. FeedbackShown(s)'
    <3> SUFFICES ASSUME run'.status = "waiting_human", run'.reason = "review", run'.wstep = s
                 PROVE  output'[s][run'.watt] = Revised
        BY DEF FeedbackShown
    <3>1. Pauses
      <4>1. ~Ends
          BY Written DEF Ends
      <4>2. QED
          BY <1>3, <1>5, <2>1, <4>1 DEF LetsGo
    <3>2. w.pc = "advance" /\ w.idx = s /\ run'.watt = w.att
      <4>1. WAdvance /\ WaitsAt(w.idx, w.att)
          BY <3>1, Written DEF Pauses
      <4>2. QED
          BY <4>1 DEF WAdvance, WaitsAt
    <3>3. output[s][w.att] = Revised /\ w.att \in Attempts
        BY <1>0, <3>2 DEF FeedbackFor, FeedbackMade, WorkerState
    <3>4. QED
        BY <3>2, <3>3, OutputKept
  <2>6. QED
      BY <2>2, <2>4, <2>5 DEF FeedbackFor
<1>6. QED
    BY <1>0, <1>1, <1>2, <1>4, <1>5

(* The operator's steps: without a decision the feedback stays while the    *)
(* step is to be executed.                                                  *)
LEMMA CarriedUnread ==
    ASSUME SoloInv, [Next]_vars, w' = w, NEW s \in Steps \ HumanSteps, FeedbackFor(s),
           run'.cursor = run.cursor, run'.feedback = run.feedback,
           run'.status \in {run.status, "cancelled"},
           run'.status = "waiting_human" =>
               run'.reason = run.reason /\ run'.wstep = run.wstep /\ run'.watt = run.watt
    PROVE  FeedbackFor(s)'
<1>0. TypeOK /\ IInv /\ w \in WorkerState
    BY DEF SoloInv, IInv, TypeOK
<1>1. s <= run'.cursor /\ FeedbackQueued(s)' /\ FeedbackTaken(s)'
    BY DEF FeedbackFor, FeedbackQueued, FeedbackTaken, Executing
<1>2. FeedbackMade(s)'
    BY <1>0, OutputKept DEF FeedbackFor, FeedbackMade, WorkerState
<1>3. FeedbackShown(s)'
    BY <1>0, OutputKept, ShownAttempt DEF FeedbackFor, FeedbackShown
<1>4. QED
    BY <1>1, <1>2, <1>3 DEF FeedbackFor

LEMMA CarriedUnqueued ==
    ASSUME SoloInv, w' = w, ~Executing, NEW s \in Steps, s <= run'.cursor,
           ~(run'.status = "queued" /\ run'.cursor = s), FeedbackShown(s)'
    PROVE  FeedbackFor(s)'
<1>1. FeedbackQueued(s)' /\ FeedbackTaken(s)' /\ FeedbackMade(s)'
    BY DEF FeedbackQueued, FeedbackTaken, FeedbackMade, Executing
<1>2. QED
    BY <1>1 DEF FeedbackFor

LEMMA CarriedByOperator ==
    ASSUME SoloInv, HumanRows, [Next]_vars, NEW c \in Clients, Call(c) \/ Proceed(c),
           ~Decides(c), NEW s \in Steps \ HumanSteps, FeedbackFor(s)
    PROVE  FeedbackFor(s)'
<1>0. /\ TypeOK /\ IInv /\ InFlight /\ run.cursor \in Int /\ s \in Int /\ w' = w
      /\ \/ Begun(c) \/ Reviewed(c) \/ Rejected(c) \/ Cancelled(c)
         \/ StaysSubmitting(c) \/ SettlesSubmission(c) \/ ConcludesSubmission(c)
    BY ClientMoves, StepsAssumption DEF SoloInv, IInv, TypeOK, RunRow, Steps
<1>1. CASE run' = run
    BY <1>0, <1>1, CarriedUnread
<1>2. CASE Cancelled(c)
  <2>1. /\ run'.cursor = run.cursor /\ run'.feedback = run.feedback
        /\ run'.status \in {run.status, "cancelled"}
      BY <1>2 DEF Cancelled
  <2>2. run'.status = "waiting_human" =>
            run'.reason = run.reason /\ run'.wstep = run.wstep /\ run'.watt = run.watt
      BY <1>2 DEF Cancelled, WaitsAt
  <2>3. QED
      BY <1>0, <2>1, <2>2, CarriedUnread
<1>3. CASE Rejected(c)
  <2>1. run'.status = "rejected" /\ run'.cursor = run.cursor
      BY <1>3, Written DEF Rejected
  <2>2. ~Executing
    <3>1. cl[c].pc = "reject"
        BY <1>3 DEF Rejected, WriteReject
    <3>2. QED
        BY <3>1 DEF SoloInv, TurnInv, WorkersTurn, OperatorsTurn
  <2>3. FeedbackShown(s)' /\ s <= run'.cursor
      BY <2>1 DEF FeedbackShown, FeedbackFor
  <2>4. QED
      BY <1>0, <2>1, <2>2, <2>3, CarriedUnqueued
<1>4. ASSUME cl[c].pc \in Submitting
      PROVE  ~Executing /\ run.status = "waiting_human" /\ run.cursor = cl[c].seen.cursor
    BY <1>4 DEF SoloInv, TurnInv, WorkersTurn, OperatorsTurn
<1>5. CASE SettlesSubmission(c)
  <2>1. /\ run'.status = run.status /\ run'.cursor = run.cursor /\ run'.reason = run.reason
        /\ run'.wstep = run.wstep /\ run'.watt = run.watt
      BY <1>5, Written DEF SettlesSubmission, WaitsAt
  <2>2. ~Executing /\ run.status = "waiting_human"
      BY <1>4, <1>5 DEF SettlesSubmission, Submitting
  <2>3. FeedbackShown(s)' /\ s <= run'.cursor
      BY <1>0, <2>1, OutputKept, ShownAttempt DEF FeedbackFor, FeedbackShown
  <2>4. QED
      BY <1>0, <2>1, <2>2, <2>3, CarriedUnqueued
<1>6. CASE ConcludesSubmission(c)
  <2>1. cl[c].pc \in Submitting
      BY <1>6 DEF ConcludesSubmission, Submitting
  <2>2. cl[c].seen.wstep # s
      BY <1>0, <2>1, SubmissionType DEF HumanRows
  <2>3. ~Executing /\ run.cursor = cl[c].seen.cursor /\ s <= run.cursor
      BY <1>4, <2>1 DEF FeedbackFor
  <2>4. CASE cl[c].seen.wstep \in Checkpoints
    <3>1. run'.status = "waiting_human" /\ run'.cursor = run.cursor /\ run'.wstep # s
        BY <1>6, <2>2, <2>4, Written DEF ConcludesSubmission, WaitsAt
    <3>2. QED
        BY <1>0, <2>3, <3>1, CarriedUnqueued DEF FeedbackShown
  <2>5. CASE cl[c].seen.wstep \notin Checkpoints
    <3>1. run'.status = "queued" /\ run'.cursor = run.cursor + 1
        BY <1>6, <2>3, <2>5, Written DEF ConcludesSubmission
    <3>2. s <= run'.cursor /\ run'.cursor # s
        BY <1>0, <2>3, <3>1
    <3>3. QED
        BY <1>0, <2>3, <3>1, <3>2, CarriedUnqueued DEF FeedbackShown
  <2>6. QED
      BY <2>4, <2>5
<1>7. QED
    BY <1>0, <1>1, <1>2, <1>3, <1>5, <1>6 DEF Begun, Reviewed, StaysSubmitting

LEMMA FeedbackStep ==
    ASSUME OneOperator, SoloInv, WaitInv, FeedbackInv, [Next]_vars
    PROVE  FeedbackInv'
<1>0. TypeOK /\ crashes \in Nat /\ HumanRows
    BY BoundsAssumption DEF SoloInv, IInv, TypeOK, FeedbackInv
<1>1. ASSUME NEW s \in Steps \ HumanSteps, ChangesAsked(s)' PROVE FeedbackFor(s)'
  <2>1. ASSUME NEW c \in Clients, Call(c) \/ Proceed(c) PROVE FeedbackFor(s)'
    <3>1. w' = w /\ crashes' = crashes
        BY <1>0, <2>1, ClientMoves
    <3>2. CASE Decides(c)
        BY <1>1, <3>1, <3>2, JustAsked DEF ChangesAsked
    <3>3. CASE ~Decides(c)
      <4>1. decision' = decision
        <5>1. CASE FinishReview(c)
            BY <1>0, <3>3, <5>1, DecidedRow DEF FinishReview
        <5>2. CASE ~FinishReview(c)
            BY <2>1, <5>2 DEF Call, Proceed, ReadReview, ReadReject, ReadCancel, ReadSubmit,
               WriteReject, WriteCancel, WriteSoftCancel, SaveSubmission, RecordSubmission,
               FindArtifact, AddArtifact, SettleSubmission, ConcludeSubmission
        <5>3. QED
            BY <5>1, <5>2
      <4>2. ChangesAsked(s)
          BY <1>1, <3>1, <4>1 DEF ChangesAsked
      <4>3. QED
          BY <1>0, <2>1, <3>3, <4>2, CarriedByOperator DEF FeedbackInv
    <3>4. QED
        BY <3>2, <3>3
  <2>2. CASE Worker
    <3>1. crashes' = crashes
        BY <1>0, <2>2, WorkerMoves
    <3>2. decision' = decision
        BY <2>2 DEF Worker, WPickUp, WBegin, WStart, WSkip, WTakeStep, WLoopCancelled, WLoopBudget,
           WLoopExit, WPause, WWait, WCall, WInfer, WReturned, WRecord, WArtifact, WPersisted,
           WAdvance, WComplete, WCancelled, WBudget, WFail
    <3>3. QED
        BY <1>1, <2>2, <3>1, <3>2, CarriedByWorker DEF ChangesAsked, FeedbackInv
  <2>3. CASE Crash \/ Restart
    <3>1. crashes' = 0
        BY <1>1 DEF ChangesAsked
    <3>2. ~Crash
        BY <1>0, <3>1 DEF Crash
    <3>3. ~Restart
        BY <3>1 DEF Restart, WaitInv
    <3>4. QED
        BY <2>3, <3>2, <3>3
  <2>4. CASE UNCHANGED vars
    <3>1. ChangesAsked(s) /\ w' = w /\ run' = run
        BY <1>1, <2>4 DEF ChangesAsked, vars
    <3>2. QED
        BY <3>1, CarriedUnread DEF FeedbackInv
  <2>5. QED
      BY <2>1, <2>2, <2>3, <2>4 DEF Next
<1>2. QED
    BY <1>0, <1>1, HumanRowsStep DEF FeedbackInv

LEMMA InitFeedback == Init => FeedbackInv
<1> SUFFICES ASSUME Init PROVE FeedbackInv
    OBVIOUS
<1>1. HumanRows
    BY DEF Init, HumanRows, Rest
<1>2. decision.kind = "none"
    BY DEF Init
<1>3. \A s : ~ChangesAsked(s)
    BY <1>2 DEF ChangesAsked
<1>4. QED
    BY <1>1, <1>3 DEF FeedbackInv

LEMMA FeedbackIsShown ==
    ASSUME IInv, FeedbackInv
    PROVE  FeedbackHonoured
<1> SUFFICES ASSUME crashes = 0, run.status = "waiting_human", run.reason = "review",
                    run.wstep \notin HumanSteps,
                    decision = [kind |-> "revise", step |-> run.wstep]
             PROVE  output[run.wstep][run.watt] = Revised
    BY DEF FeedbackHonoured
<1>1. PICK i \in DOMAIN artifacts : artifacts[i].step = run.wstep
    BY DEF IInv, SavedInOrder, Saved
<1>2. run.wstep \in Steps
  <2>1. artifacts[i] \in ArtifactRow
      BY <1>1, SeqRows DEF IInv, TypeOK
  <2>2. QED
      BY <1>1, <2>1 DEF ArtifactRow
<1>3. QED
    BY <1>2 DEF FeedbackInv, FeedbackFor, FeedbackShown, ChangesAsked

(* With one operator, and until the process is restarted, a step that comes *)
(* back for review after changes were requested shows a result made with    *)
(* the feedback in its prompt.                                              *)
THEOREM ChangesReachTheModel == ASSUME OneOperator PROVE Spec => []FeedbackHonoured
<1>1. Init => SoloInv /\ RowsInv /\ WaitInv /\ FeedbackInv
    BY InitSolo, InitWait, InitFeedback
<1>2. SoloInv /\ RowsInv /\ WaitInv /\ FeedbackInv /\ [Next]_vars
          => (SoloInv /\ RowsInv /\ WaitInv /\ FeedbackInv)'
    BY SoloStep, RowsStep, WaitStep, FeedbackStep
<1>3. SoloInv /\ FeedbackInv => FeedbackHonoured
    BY FeedbackIsShown DEF SoloInv
<1>4. QED
    BY <1>1, <1>2, <1>3, PTL DEF Spec
=============================================================================
