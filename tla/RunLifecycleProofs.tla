------------------------- MODULE RunLifecycleProofs -------------------------
(***************************************************************************)
(* Theorems about RunLifecycle, for every workflow, number of clients,     *)
(* budget and number of crashes.                                           *)
(***************************************************************************)
EXTENDS RunProperties, TLAPS

(* Rows of a table are found by their position, appended and rewritten.     *)
LEMMA SeqRows ==
    ASSUME NEW S, NEW q \in Seq(S)
    PROVE  /\ Len(q) \in Nat
           /\ DOMAIN q = 1 .. Len(q)
           /\ \A i \in DOMAIN q : i \in Nat /\ q[i] \in S
    OBVIOUS

LEMMA SeqAppend ==
    ASSUME NEW S, NEW q \in Seq(S), NEW e \in S
    PROVE  /\ Append(q, e) \in Seq(S)
           /\ DOMAIN Append(q, e) = 1 .. Len(q) + 1
           /\ \A i \in DOMAIN q : i \in DOMAIN Append(q, e) /\ Append(q, e)[i] = q[i]
           /\ Append(q, e)[Len(q) + 1] = e
    OBVIOUS

LEMMA SeqRewrite ==
    ASSUME NEW S, NEW q \in Seq(S), NEW n \in DOMAIN q, NEW e \in S
    PROVE  [q EXCEPT ![n] = e] \in Seq(S)
    OBVIOUS

(* The rewritings of a run row stay run rows.                               *)
LEMMA RowTypes ==
    ASSUME NEW r \in RunRow
    PROVE  /\ NoWait(r) \in RunRow
           /\ Seen(r) \in RunRow
           /\ \A s \in Statuses : Status(r, s) \in RunRow
           /\ \A why \in Reasons, s \in Steps, a \in Attempts : WaitFor(r, why, s, a) \in RunRow
    BY DEF NoWait, Seen, Status, WaitFor, RunRow, Statuses, Reasons

LEMMA NewRunType == NewRun \in RunRow
    BY StepsAssumption DEF NewRun, RunRow, Statuses, Reasons, NoStep

LEMMA SmallValues == 0 \in 0 .. NSteps /\ 1 \in Attempts /\ 0 \in 0 .. MaxTries
    BY StepsAssumption, BoundsAssumption DEF Attempts

LEMMA RestType ==
    /\ Rest \in WorkerState
    /\ \A pc \in WorkerPcs : [Rest EXCEPT !.pc = pc] \in WorkerState
<1>1. Rest \in WorkerState
    BY SmallValues DEF Rest, WorkerState, WorkerPcs
<1>2. QED
    BY <1>1 DEF WorkerState

LEMMA IdleType ==
    /\ Idle \in ClientState
    /\ \A pc \in ClientPcs : [Idle EXCEPT !.pc = pc] \in ClientState
    BY NewRunType DEF Idle, ClientState, ClientPcs

LEMMA InitType == Init => TypeOK
    BY NewRunType, RestType, IdleType, BoundsAssumption
    DEF Init, TypeOK, Decision, NoStep

-----------------------------------------------------------------------------
(* Type correctness, one lemma per group of actions.                       *)

USE DEF At, Doing, Goto, Goes, Done, Begins, calls, rows, db, Serving

LEMMA WorkerType == TypeOK /\ WorkerInFlight /\ Worker => TypeOK'
<1> SUFFICES ASSUME TypeOK, WorkerInFlight, Worker PROVE TypeOK'
    OBVIOUS
<1>0. /\ run \in RunRow /\ w \in WorkerState /\ w.idx \in 0 .. NSteps /\ w.att \in Attempts
      /\ NSteps \in Nat
    BY StepsAssumption DEF TypeOK, WorkerState
<1>g. \A pc \in WorkerPcs : [w EXCEPT !.pc = pc] \in WorkerState
    BY <1>0 DEF WorkerState
<1>w. w.pc \in InStep => w.idx \in Steps
    BY StepsAssumption DEF WorkerInFlight
<1>n. /\ NoWait(run) \in RunRow
      /\ \A s \in Statuses : Status(run, s) \in RunRow /\ NoWait(Status(run, s)) \in RunRow
      /\ \A why \in Reasons, s \in Steps, a \in Attempts : WaitFor(run, why, s, a) \in RunRow
    BY <1>0, RowTypes
<1>1. CASE WPickUp
  <2>1. w' = [pc |-> "begin", idx |-> run.cursor, att |-> 1, tries |-> 0, revising |-> FALSE]
      BY <1>1 DEF WPickUp, Rest
  <2>2. w' \in WorkerState
      BY <2>1, <1>0, SmallValues DEF WorkerState, WorkerPcs, RunRow
  <2>3. QED
      BY <1>1, <2>2 DEF WPickUp, TypeOK
<1>2. CASE WBegin
    BY <1>2, <1>g DEF WBegin, TypeOK, WorkerPcs
<1>3. CASE WStart
    BY <1>3, <1>g, <1>n DEF WStart, TypeOK, WorkerPcs, Statuses
<1>4. CASE WSkip
  <2>1. w.idx + 1 \in 0 .. NSteps
      BY <1>4, <1>0 DEF WSkip, Steps
  <2>2. run' \in RunRow /\ w' \in WorkerState
      BY <1>4, <2>1, <1>0 DEF WSkip, RunRow, WorkerState
  <2>3. QED
      BY <1>4, <2>2 DEF WSkip, TypeOK
<1>5. CASE WTakeStep
  <2>1. \E a \in Attempts, pc \in {"pause", "call", "fail"} :
            w' = [w EXCEPT !.pc = pc, !.att = a, !.tries = 0, !.revising = run.feedback]
    <3>1. PICK a \in Attempts :
              \E pc \in {IF w.idx \in HumanSteps THEN "pause" ELSE "call", "fail"} :
                 w' = [w EXCEPT !.pc = pc, !.att = a, !.tries = 0, !.revising = run.feedback]
        BY <1>5 DEF WTakeStep
    <3>2. QED
        BY <3>1
  <2>2. w' \in WorkerState
      BY <2>1, <1>0, SmallValues DEF WorkerState, WorkerPcs, RunRow
  <2>3. QED
      BY <1>5, <2>2 DEF WTakeStep, TypeOK
<1>6. CASE WLoopCancelled \/ WLoopBudget \/ WLoopExit \/ WInfer
    BY <1>6, <1>g DEF WLoopCancelled, WLoopBudget, WLoopExit, WInfer, TypeOK, WorkerPcs

<1>7. CASE WPause
  <2>1. [step |-> w.idx, att |-> w.att, pending |-> TRUE] \in RequestRow
      BY <1>0, <1>w, <1>7 DEF WPause, RequestRow, InStep
  <2>2. requests' \in Seq(RequestRow)
      BY <1>7, <2>1 DEF WPause, TypeOK
  <2>3. QED
      BY <1>7, <2>2, <1>g DEF WPause, TypeOK, WorkerPcs
<1>8. CASE WWait
    BY <1>8, <1>0, <1>w, <1>n, RestType DEF WWait, TypeOK, Reasons, InStep
<1>9. CASE WCall
  <2>1. CASE w' = [w EXCEPT !.pc = "infer", !.tries = w.tries + 1] /\ llmCalls' = llmCalls + 1
    <3>1. w.tries + 1 \in 0 .. MaxTries
        BY <1>9, BoundsAssumption DEF WCall, WorkerInFlight, TypeOK, WorkerState
    <3>2. w' \in WorkerState
        BY <2>1, <3>1, <1>0 DEF WorkerState, WorkerPcs
    <3>3. QED
        BY <2>1, <3>2, <1>9 DEF WCall, TypeOK
  <2>2. QED
      BY <2>1, <1>9, <1>g DEF WCall, TypeOK, WorkerPcs
<1>10. CASE WReturned
  <2>1. w' \in WorkerState
      BY <1>10, <1>g DEF WReturned, WorkerPcs
  <2>2. okCalls' \in Nat
      BY <1>10 DEF WReturned, TypeOK
  <2>3. QED
      BY <1>10, <2>1, <2>2 DEF WReturned, TypeOK
<1>11. CASE WRecord
    BY <1>11, <1>0, <1>w, <1>g DEF WRecord, TypeOK, WorkerPcs, Made, Outputs, InStep
<1>12. CASE WArtifact
  <2>1. Row(w.idx, w.att, Made) \in ArtifactRow
      BY <1>0, <1>w, <1>12 DEF WArtifact, ArtifactRow, Row, Made, Outputs, InStep
  <2>2. artifacts' \in Seq(ArtifactRow)
      BY <1>12, <2>1 DEF WArtifact, TypeOK
  <2>3. QED
      BY <1>12, <2>2, <1>g DEF WArtifact, TypeOK, WorkerPcs
<1>13. CASE WPersisted
    BY <1>13, <1>g, <1>0 DEF WPersisted, TypeOK, WorkerPcs, RunRow
<1>14. CASE WAdvance
  <2>0. w.idx \in Steps /\ w.idx + 1 \in 0 .. NSteps
      BY <1>14, <1>w, <1>0 DEF WAdvance, InStep, Steps
  <2>1. [run EXCEPT !.cursor = w.idx] \in RunRow /\ [run EXCEPT !.cursor = w.idx + 1] \in RunRow
      BY <2>0, <1>0 DEF RunRow
  <2>2. WaitFor([run EXCEPT !.cursor = w.idx], "review", w.idx, w.att) \in RunRow
      BY <2>0, <2>1, <1>0, RowTypes DEF Reasons
  <2>3. [w EXCEPT !.pc = "loop", !.idx = w.idx + 1] \in WorkerState
      BY <2>0, <1>0 DEF WorkerState, WorkerPcs
  <2>4. QED
      BY <1>14, <2>1, <2>2, <2>3, RestType DEF WAdvance, TypeOK
<1>15. CASE WComplete
    BY <1>15, <1>n, RestType DEF WComplete, TypeOK, Statuses
<1>16. CASE WCancelled
    BY <1>16, <1>n, RestType DEF WCancelled, TypeOK, Statuses
<1>17. CASE WBudget
  <2>1. [run EXCEPT !.budget = TRUE] \in RunRow
      BY <1>0 DEF RunRow
  <2>2. artifacts # <<>> => artifacts[Len(artifacts)] \in ArtifactRow
      BY DEF TypeOK
  <2>3. run' \in RunRow
      BY <1>17, <2>1, <2>2, RowTypes DEF WBudget, ArtifactRow, Statuses, Reasons
  <2>4. QED
      BY <1>17, <2>3, RestType DEF WBudget, TypeOK
<1>18. CASE WFail
    BY <1>18, <1>0, <1>n, RestType DEF WFail, FailActive, TypeOK, Statuses
<1>19. QED
    BY <1>1, <1>2, <1>3, <1>4, <1>5, <1>6, <1>7, <1>8, <1>9, <1>10, <1>11, <1>12, <1>13,
       <1>14, <1>15, <1>16, <1>17, <1>18 DEF Worker

LEMMA CallType == TypeOK /\ (\E c \in Clients : Call(c)) => TypeOK'
<1> SUFFICES ASSUME TypeOK, NEW c \in Clients, Call(c) PROVE TypeOK'
    OBVIOUS
<1>1. cl \in [Clients -> ClientState] /\ Seen(run) \in RunRow
    BY RowTypes DEF TypeOK
<1>2. CASE ReadReview(c)
  <2>1. \E i \in Nat, approve \in BOOLEAN, marked \in BOOLEAN, feedback \in BOOLEAN :
            cl' = [cl EXCEPT ![c] = [pc |-> "finish", seen |-> Seen(run), row |-> i,
                                     approve |-> approve, marked |-> marked,
                                     feedback |-> feedback]]
    <3>1. PICK i \in DOMAIN artifacts, approve \in BOOLEAN, feedback \in BOOLEAN :
              cl' = [cl EXCEPT ![c] = [pc |-> "finish", seen |-> Seen(run), row |-> i,
                                       approve |-> approve, marked |-> artifacts[i].approved,
                                       feedback |-> feedback]]
        BY <1>2 DEF ReadReview
    <3>2. i \in Nat /\ artifacts[i].approved \in BOOLEAN
      <4>1. i \in Nat /\ artifacts[i] \in ArtifactRow
          BY <3>1, SeqRows DEF TypeOK
      <4>2. QED
          BY <4>1 DEF ArtifactRow
    <3>3. QED
        BY <3>1, <3>2
  <2>2. cl' \in [Clients -> ClientState]
      BY <2>1, <1>1 DEF ClientState, ClientPcs
  <2>3. QED
      BY <1>2, <2>2 DEF ReadReview, TypeOK
<1>3. CASE ReadReject(c)
    BY <1>3, <1>1, IdleType DEF ReadReject, TypeOK, ClientPcs
<1>4. CASE ReadCancel(c)
    BY <1>4, <1>1, IdleType DEF ReadCancel, TypeOK, ClientPcs
<1>5. CASE ReadSubmit(c)
  <2>1. \E i \in Nat : cl' = [cl EXCEPT ![c] = [Idle EXCEPT !.pc = "save", !.seen = Seen(run), !.row = i]]
    <3>1. PICK i \in DOMAIN requests :
              cl' = [cl EXCEPT ![c] = [Idle EXCEPT !.pc = "save", !.seen = Seen(run), !.row = i]]
        BY <1>5 DEF ReadSubmit
    <3>2. i \in Nat
        BY <3>1, SeqRows DEF TypeOK
    <3>3. QED
        BY <3>1, <3>2
  <2>2. \A i \in Nat : [Idle EXCEPT !.pc = "save", !.seen = Seen(run), !.row = i] \in ClientState
      BY <1>1 DEF Idle, ClientState, ClientPcs
  <2>3. QED
      BY <1>5, <2>1, <2>2, <1>1 DEF ReadSubmit, TypeOK
<1>6. QED
    BY <1>2, <1>3, <1>4, <1>5 DEF Call

(* A decision stays inside the workflow: the step under review exists, so   *)
(* the cursor past it is at most NSteps.                                    *)
LEMMA DecidedType ==
    ASSUME NEW r \in RunRow, NEW approve \in BOOLEAN, NEW feedback \in BOOLEAN,
           approve => BudgetStop(r) \/ r.cursor \in Steps
    PROVE  Decided(r, approve, feedback) \in RunRow
<1> DEFINE completed == approve /\ (BudgetStop(r) \/ r.cursor + 1 = NSteps)
           past == IF completed THEN NSteps ELSE IF approve THEN r.cursor + 1 ELSE r.cursor
           status == IF completed THEN "completed" ELSE "queued"
<1>1. past \in 0 .. NSteps
    BY StepsAssumption DEF RunRow, Steps
<1>2. NoWait(Status(r, status)) \in RunRow /\ NoWait(Status(r, status)).cursor = r.cursor
  <2>1. status \in Statuses
      BY DEF Statuses
  <2> HIDE DEF status
  <2>2. Status(r, status) \in RunRow /\ Status(r, status).cursor = r.cursor
    <3>1. Status(r, status) \in RunRow
        BY <2>1, RowTypes
    <3>2. Status(r, status).cursor = r.cursor
        BY DEF Status, RunRow
    <3>3. QED
        BY <3>1, <3>2
  <2>3. \A q \in RunRow : NoWait(q) \in RunRow /\ NoWait(q).cursor = q.cursor
    <3>1. \A q \in RunRow : NoWait(q) \in RunRow
        BY RowTypes
    <3>2. \A q \in RunRow : NoWait(q).cursor = q.cursor
        BY DEF NoWait, RunRow
    <3>3. QED
        BY <3>1, <3>2
  <2>4. QED
      BY <2>2, <2>3
<1>3. Decided(r, approve, feedback) = [NoWait(Status(r, status)) EXCEPT !.cursor = past, !.feedback = feedback]
    BY <1>2 DEF Decided, NoWait, Status, RunRow
<1>4. QED
    BY <1>1, <1>2, <1>3 DEF RunRow

(* A submission is for a request, whose step and attempt it keeps.          *)
LEMMA SubmissionType ==
    ASSUME TypeOK, InFlight, NEW c \in Clients, cl[c].pc \in Submitting
    PROVE  /\ cl[c].row \in DOMAIN requests
           /\ cl[c].seen.wstep \in Steps
           /\ cl[c].seen.watt \in Attempts
           /\ cl[c].seen.cursor = cl[c].seen.wstep
           /\ requests[cl[c].row].step = cl[c].seen.wstep
           /\ requests[cl[c].row].att = cl[c].seen.watt
<1>1. SubmissionInFlight(c)
    BY DEF InFlight
<1>2. requests[cl[c].row] \in RequestRow
    BY <1>1, SeqRows DEF SubmissionInFlight, TypeOK
<1>3. QED
    BY <1>1, <1>2 DEF SubmissionInFlight, RequestRow

LEMMA ProceedType == TypeOK /\ InFlight /\ (\E c \in Clients : Proceed(c)) => TypeOK'
<1> SUFFICES ASSUME TypeOK, InFlight, NEW c \in Clients, Proceed(c) PROVE TypeOK'
    OBVIOUS
<1>1. cl \in [Clients -> ClientState] /\ cl[c] \in ClientState /\ run \in RunRow
    BY DEF TypeOK
<1>i. [cl EXCEPT ![c] = Idle] \in [Clients -> ClientState]
    BY <1>1, IdleType
<1>g. \A pc \in ClientPcs : [cl EXCEPT ![c].pc = pc] \in [Clients -> ClientState]
    BY <1>1 DEF ClientState
<1>n. \A s \in Statuses : NoWait(Status(run, s)) \in RunRow
    BY <1>1, RowTypes
<1>s. cl[c].pc \in Submitting =>
          /\ cl[c].row \in DOMAIN requests
          /\ cl[c].seen.wstep \in Steps
          /\ cl[c].seen.watt \in Attempts
          /\ cl[c].seen.cursor = cl[c].seen.wstep
    BY SubmissionType
<1>2. CASE FinishReview(c)
  <2>1. CASE StillReviewable(c)
    <3>1. /\ ReviewInFlight(c)
          /\ cl[c].row \in DOMAIN artifacts
          /\ artifacts[cl[c].row] \in ArtifactRow
          /\ cl[c].approve \in BOOLEAN /\ cl[c].feedback \in BOOLEAN
      <4>1. ReviewInFlight(c)
          BY <1>2 DEF FinishReview, InFlight
      <4>2. QED
          BY <4>1, <1>1, SeqRows DEF ReviewInFlight, TypeOK, ClientState
    <3>2. BudgetStop(run) \/ run.cursor \in Steps
      <4>1. /\ run.cursor = cl[c].seen.cursor
            /\ BudgetStop(run) = BudgetStop(cl[c].seen)
          BY <2>1, <1>1 DEF StillReviewable, Seen, BudgetStop, RunRow
      <4>2. QED
          BY <4>1, <3>1 DEF ReviewInFlight, ArtifactRow
    <3>3. run' \in RunRow
        BY <1>2, <2>1, <1>1, <3>1, <3>2, DecidedType DEF FinishReview
    <3>4. artifacts' \in Seq(ArtifactRow)
      <4>1. [artifacts[cl[c].row] EXCEPT !.approved = artifacts[cl[c].row].approved \/ cl[c].approve]
              \in ArtifactRow
          BY <3>1 DEF ArtifactRow
      <4>2. artifacts' = [artifacts EXCEPT ![cl[c].row] =
               [artifacts[cl[c].row] EXCEPT !.approved = artifacts[cl[c].row].approved \/ cl[c].approve]]
          BY <1>2, <2>1, <3>1 DEF FinishReview, TypeOK
      <4>3. QED
          BY <4>1, <4>2, <3>1 DEF TypeOK
    <3>5. decision' \in Decision
        BY <1>2, <2>1, <3>1 DEF FinishReview, Decision, ArtifactRow
    <3>6. QED
        BY <1>2, <3>3, <3>4, <3>5, <1>i DEF FinishReview, TypeOK
  <2>2. CASE ~StillReviewable(c)
      BY <1>2, <2>2, <1>i DEF FinishReview, TypeOK
  <2>3. QED
      BY <2>1, <2>2
<1>3. CASE WriteReject(c)
  <2>1. PICK feedback \in BOOLEAN : run' = [NoWait(Status(run, "rejected")) EXCEPT !.feedback = feedback]
      BY <1>3 DEF WriteReject
  <2>2. NoWait(Status(run, "rejected")) \in RunRow
      BY <1>n DEF Statuses
  <2>3. run' \in RunRow
      BY <2>1, <2>2 DEF RunRow
  <2>4. QED
      BY <1>3, <2>3, <1>i DEF WriteReject, TypeOK
<1>4. CASE WriteCancel(c)
  <2>1. NoWait(Status(run, "cancelled")) \in RunRow
      BY <1>n DEF Statuses
  <2>2. run' \in RunRow
      BY <1>4, <2>1 DEF WriteCancel, RunRow
  <2>3. QED
      BY <1>4, <2>2, <1>i DEF WriteCancel, TypeOK
<1>5. CASE WriteSoftCancel(c)
  <2>1. run' \in RunRow
      BY <1>5, <1>1 DEF WriteSoftCancel, RunRow
  <2>2. QED
      BY <1>5, <2>1, <1>i DEF WriteSoftCancel, TypeOK
<1>6. CASE SaveSubmission(c)
  <2>1. cl[c].row \in DOMAIN requests /\ requests[cl[c].row] \in RequestRow
      BY <1>6, <1>s, SeqRows DEF SaveSubmission, Submitting, TypeOK
  <2>2. requests' = [requests EXCEPT ![cl[c].row] = [requests[cl[c].row] EXCEPT !.pending = FALSE]]
      BY <1>6 DEF SaveSubmission
  <2>3. requests' \in Seq(RequestRow)
    <3>1. [requests[cl[c].row] EXCEPT !.pending = FALSE] \in RequestRow
        BY <2>1 DEF RequestRow
    <3>2. QED
        BY <2>1, <2>2, <3>1, SeqRewrite DEF TypeOK
  <2>4. QED
      BY <1>6, <2>3, <1>g DEF SaveSubmission, TypeOK, ClientPcs
<1>7. CASE RecordSubmission(c)
    BY <1>7, <1>s, <1>g DEF RecordSubmission, TypeOK, ClientPcs, Submitting, Outputs
<1>8. CASE FindArtifact(c)
    BY <1>8, <1>g DEF FindArtifact, TypeOK, ClientPcs
<1>9. CASE AddArtifact(c)
  <2>1. Row(cl[c].seen.wstep, cl[c].seen.watt, c) \in ArtifactRow
      BY <1>9, <1>s DEF AddArtifact, Row, ArtifactRow, Outputs, Submitting
  <2>2. QED
      BY <1>9, <2>1, <1>g DEF AddArtifact, TypeOK, ClientPcs
<1>10. CASE SettleSubmission(c)
  <2>1. run' \in RunRow
      BY <1>10, <1>1 DEF SettleSubmission, RunRow
  <2>2. cl' \in [Clients -> ClientState]
      BY <1>10, <1>i, <1>g DEF SettleSubmission, ClientPcs
  <2>3. QED
      BY <1>10, <2>1, <2>2 DEF SettleSubmission, TypeOK
<1>11. CASE ConcludeSubmission(c)
  <2>1. /\ cl[c].seen.wstep \in Steps /\ cl[c].seen.watt \in Attempts
        /\ cl[c].seen.cursor + 1 \in 0 .. NSteps
      BY <1>11, <1>s, StepsAssumption DEF ConcludeSubmission, Submitting, Steps
  <2>2. WaitFor(run, "review", cl[c].seen.wstep, cl[c].seen.watt) \in RunRow
      BY <2>1, <1>1, RowTypes DEF Reasons
  <2>3. [NoWait(Status(run, "queued")) EXCEPT !.cursor = cl[c].seen.cursor + 1] \in RunRow
    <3>1. NoWait(Status(run, "queued")) \in RunRow
        BY <1>n DEF Statuses
    <3>2. QED
        BY <3>1, <2>1 DEF RunRow
  <2>4. QED
      BY <1>11, <2>2, <2>3, <1>i DEF ConcludeSubmission, TypeOK
<1>12. QED
    BY <1>2, <1>3, <1>4, <1>5, <1>6, <1>7, <1>8, <1>9, <1>10, <1>11 DEF Proceed

LEMMA ProcessType == TypeOK /\ (Crash \/ Restart) => TypeOK'
<1> SUFFICES ASSUME TypeOK, Crash \/ Restart PROVE TypeOK'
    OBVIOUS
<1>1. CASE Crash
  <2>1. crashes' \in 0 .. MaxCrashes
      BY <1>1, BoundsAssumption DEF Crash, TypeOK
  <2>2. w' \in WorkerState /\ cl' \in [Clients -> ClientState]
      BY <1>1, RestType, IdleType DEF Crash, WorkerPcs
  <2>3. QED
      BY <1>1, <2>1, <2>2 DEF Crash, TypeOK
<1>2. CASE Restart
  <2>1. run' \in RunRow
      BY <1>2, RowTypes DEF Restart, Recovered, TypeOK, Statuses
  <2>2. QED
      BY <1>2, <2>1, RestType DEF Restart, TypeOK
<1>3. QED
    BY <1>1, <1>2

-----------------------------------------------------------------------------
(* What the store keeps: rows are found at the same position, with the same *)
(* step and attempt; results and approvals do not disappear.                *)
Kept ==
    /\ \A i \in DOMAIN artifacts :
          /\ i \in DOMAIN artifacts'
          /\ artifacts'[i].step = artifacts[i].step
          /\ artifacts'[i].att = artifacts[i].att
          /\ artifacts[i].approved => artifacts'[i].approved
    /\ \A i \in DOMAIN requests :
          /\ i \in DOMAIN requests'
          /\ requests'[i].step = requests[i].step
          /\ requests'[i].att = requests[i].att
    /\ \A s \in Steps, a \in Attempts : Recorded(s, a) => Recorded(s, a)'

LEMMA StepKeeps == TypeOK /\ InFlight /\ [Next]_vars => Kept
<1> SUFFICES ASSUME TypeOK, InFlight, [Next]_vars PROVE Kept
    OBVIOUS
<1>0. /\ artifacts \in Seq(ArtifactRow) /\ requests \in Seq(RequestRow)
      /\ \A i \in DOMAIN artifacts : artifacts[i] \in ArtifactRow
      /\ \A i \in DOMAIN requests : requests[i] \in RequestRow
    BY SeqRows DEF TypeOK
<1>1. CASE rows' = rows
    BY <1>1 DEF Kept, Recorded
<1>2. CASE WPause
  <2>1. UNCHANGED <<output, artifacts>>
      BY <1>2 DEF WPause
  <2>2. requests' = requests \/ \E e : requests' = Append(requests, e)
      BY <1>2 DEF WPause
  <2>3. \A i \in DOMAIN requests : i \in DOMAIN requests' /\ requests'[i] = requests[i]
      BY <2>2, <1>0
  <2>4. QED
      BY <2>1, <2>3 DEF Kept, Recorded
<1>3. CASE WRecord
  <2>1. Made # NoOutput
      BY AuthorsAssumption DEF Made
  <2>2. UNCHANGED <<artifacts, requests>> /\ output' = [output EXCEPT ![w.idx][w.att] = Made]
      BY <1>3 DEF WRecord
  <2>3. QED
      BY <2>1, <2>2 DEF Kept, Recorded, TypeOK
<1>4. CASE WArtifact \/ (\E c \in Clients : AddArtifact(c))
  <2>1. UNCHANGED <<output, requests>>
      BY <1>4 DEF WArtifact, AddArtifact
  <2>2. artifacts' = artifacts \/ \E e : artifacts' = Append(artifacts, e)
      BY <1>4 DEF WArtifact, AddArtifact
  <2>3. \A i \in DOMAIN artifacts : i \in DOMAIN artifacts' /\ artifacts'[i] = artifacts[i]
      BY <2>2, <1>0
  <2>4. QED
      BY <2>1, <2>3 DEF Kept, Recorded
<1>5. ASSUME NEW c \in Clients, FinishReview(c) PROVE Kept
  <2>1. UNCHANGED <<output, requests>>
      BY <1>5 DEF FinishReview
  <2>2. CASE StillReviewable(c)
    <3>1. artifacts' = [artifacts EXCEPT ![cl[c].row].approved = @ \/ cl[c].approve]
        BY <1>5, <2>2 DEF FinishReview
    <3>2. QED
        BY <2>1, <3>1, <1>0 DEF Kept, Recorded, ArtifactRow
  <2>3. CASE ~StillReviewable(c)
      BY <2>1, <2>3, <1>5 DEF Kept, Recorded, FinishReview
  <2>4. QED
      BY <2>2, <2>3
<1>6. ASSUME NEW c \in Clients, SaveSubmission(c) PROVE Kept
  <2>1. UNCHANGED <<output, artifacts>>
        /\ requests' = [requests EXCEPT ![cl[c].row].pending = FALSE]
      BY <1>6 DEF SaveSubmission
  <2>2. QED
      BY <2>1, <1>0 DEF Kept, Recorded, RequestRow
<1>7. ASSUME NEW c \in Clients, RecordSubmission(c) PROVE Kept
  <2>1. c # NoOutput
      BY AuthorsAssumption
  <2>2. UNCHANGED <<artifacts, requests>>
        /\ output' = [output EXCEPT ![cl[c].seen.wstep][cl[c].seen.watt] = c]
      BY <1>7 DEF RecordSubmission
  <2>3. QED
      BY <2>1, <2>2 DEF Kept, Recorded, TypeOK
<1>8. QED
  <2>1. CASE Worker
      BY <2>1, <1>1, <1>2, <1>3, <1>4 DEF Worker, WPickUp, WBegin, WStart, WSkip, WTakeStep,
         WLoopCancelled, WLoopBudget, WLoopExit, WWait, WCall, WInfer, WReturned, WPersisted,
         WAdvance, WComplete, WCancelled, WBudget, WFail
  <2>2. ASSUME NEW c \in Clients, Call(c) \/ Proceed(c) PROVE Kept
      BY <2>2, <1>1, <1>4, <1>5, <1>6, <1>7 DEF Call, Proceed, ReadReview, ReadReject,
         ReadCancel, ReadSubmit, WriteReject, WriteCancel, WriteSoftCancel, FindArtifact,
         SettleSubmission, ConcludeSubmission
  <2>3. CASE Crash \/ Restart \/ UNCHANGED vars
      BY <2>3, <1>1 DEF Crash, Restart, vars
  <2>4. QED
      BY <2>1, <2>2, <2>3 DEF Next

-----------------------------------------------------------------------------
(* What an operation in progress relies on.                                 *)

LEMMA WorkerStaysInFlight == TypeOK /\ WorkerInFlight /\ [Next]_vars => WorkerInFlight'
<1> SUFFICES ASSUME TypeOK, WorkerInFlight, [Next]_vars PROVE WorkerInFlight'
    OBVIOUS
<1>0. w \in WorkerState /\ MaxTries \in Nat \ {0}
    BY BoundsAssumption DEF TypeOK
<1>1. CASE w' = w
    BY <1>1 DEF WorkerInFlight
<1>2. CASE w' = Rest \/ w' = [Rest EXCEPT !.pc = "down"]
    BY <1>2 DEF WorkerInFlight, Rest, InStep
<1>3. CASE WPickUp
    BY <1>3 DEF WPickUp, WorkerInFlight, Rest, InStep
<1>4. CASE WBegin \/ WStart \/ WSkip \/ WLoopCancelled \/ WLoopBudget \/ WLoopExit
    BY <1>4, <1>0 DEF WBegin, WStart, WSkip, WLoopCancelled, WLoopBudget, WLoopExit,
       WorkerInFlight, WorkerState, InStep
<1>5. CASE WTakeStep
  <2>1. /\ w.idx \in EnabledSteps
        /\ \E a \in Attempts, pc \in {"pause", "call", "fail"} :
              w' = [w EXCEPT !.pc = pc, !.att = a, !.tries = 0, !.revising = run.feedback]
    <3>1. PICK a \in Attempts :
              \E pc \in {IF w.idx \in HumanSteps THEN "pause" ELSE "call", "fail"} :
                 w' = [w EXCEPT !.pc = pc, !.att = a, !.tries = 0, !.revising = run.feedback]
        BY <1>5 DEF WTakeStep
    <3>2. QED
        BY <1>5, <3>1 DEF WTakeStep
  <2>2. QED
      BY <2>1, <1>0 DEF WorkerInFlight, WorkerState, InStep
<1>6. CASE WPause \/ WCall \/ WInfer \/ WReturned \/ WRecord \/ WArtifact \/ WPersisted
    BY <1>6, <1>0 DEF WPause, WCall, WInfer, WReturned, WRecord, WArtifact, WPersisted,
       WorkerInFlight, WorkerState, InStep
<1>7. CASE WAdvance
    BY <1>7, <1>2, <1>0 DEF WAdvance, WorkerInFlight, WorkerState, InStep
<1>8. CASE Worker
    BY <1>8, <1>2, <1>3, <1>4, <1>5, <1>6, <1>7
    DEF Worker, WWait, WComplete, WCancelled, WBudget, WFail
<1>9. ASSUME NEW c \in Clients, Call(c) \/ Proceed(c) PROVE w' = w
    BY <1>9 DEF Call, Proceed, ReadReview, ReadReject, ReadCancel, ReadSubmit, FinishReview,
       WriteReject, WriteCancel, WriteSoftCancel, SaveSubmission, RecordSubmission,
       FindArtifact, AddArtifact, SettleSubmission, ConcludeSubmission
<1>10. QED
    BY <1>1, <1>2, <1>8, <1>9 DEF Next, Crash, Restart, vars

OpInFlight(c) ==
    /\ Doing(c, "finish") => ReviewInFlight(c)
    /\ cl[c].pc \in Submitting => SubmissionInFlight(c)

(* An operation that takes no step keeps what it read.                      *)
LEMMA OpKept ==
    ASSUME TypeOK, TypeOK', Kept, NEW c \in Clients, OpInFlight(c),
           \/ cl'[c] = cl[c]
           \/ cl[c].pc \in Submitting /\ \E pc \in Submitting : cl'[c] = [cl[c] EXCEPT !.pc = pc]
    PROVE  OpInFlight(c)'
<1>1. cl[c] \in ClientState
    BY DEF TypeOK
<1>2. /\ cl'[c].row = cl[c].row /\ cl'[c].seen = cl[c].seen /\ cl'[c].approve = cl[c].approve
      /\ cl'[c].pc = "finish" => cl[c].pc = "finish"
      /\ cl'[c].pc \in Submitting => cl[c].pc \in Submitting
    BY <1>1 DEF ClientState, Submitting
<1>3. ReviewInFlight(c) => ReviewInFlight(c)'
    BY <1>2 DEF ReviewInFlight, Kept, BudgetStop
<1>4. SubmissionInFlight(c) => SubmissionInFlight(c)'
    BY <1>2 DEF SubmissionInFlight, Kept
<1>5. QED
    BY <1>2, <1>3, <1>4 DEF OpInFlight

LEMMA ClientsStayInFlight ==
    TypeOK /\ TypeOK' /\ InFlight /\ [Next]_vars => \A c \in Clients : OpInFlight(c)'
<1> SUFFICES ASSUME TypeOK, TypeOK', InFlight, [Next]_vars, NEW d \in Clients
             PROVE  OpInFlight(d)'
    OBVIOUS
<1>0. cl \in [Clients -> ClientState] /\ cl[d] \in ClientState
    BY DEF TypeOK
<1>k. Kept
    BY StepKeeps
<1>o. OpInFlight(d)
    BY DEF InFlight, OpInFlight
<1>1. CASE cl'[d] = cl[d]
    BY <1>0, <1>1, <1>k, <1>o, OpKept
<1>2. CASE cl'[d].pc \notin Submitting \cup {"finish"}
    BY <1>2 DEF OpInFlight
<1>3. ASSUME NEW c \in Clients, Call(c) \/ Proceed(c) PROVE OpInFlight(d)'
  <2>1. CASE c # d
    <3>1. cl'[d] = cl[d]
        BY <1>3, <2>1, <1>0 DEF Call, Proceed, ReadReview, ReadReject, ReadCancel, ReadSubmit,
           FinishReview, WriteReject, WriteCancel, WriteSoftCancel, SaveSubmission,
           RecordSubmission, FindArtifact, AddArtifact, SettleSubmission, ConcludeSubmission
    <3>2. QED
        BY <3>1, <1>1
  <2>2. CASE ReadReview(d)
    <3>1. PICK i \in DOMAIN artifacts, approve \in BOOLEAN, feedback \in BOOLEAN :
            /\ ReviewPoint(run, i)
            /\ ~approve => ~BudgetStop(run)
            /\ cl' = [cl EXCEPT ![d] = [pc |-> "finish", seen |-> Seen(run), row |-> i,
                                        approve |-> approve, marked |-> artifacts[i].approved,
                                        feedback |-> feedback]]
        BY <2>2 DEF ReadReview
    <3>2. /\ cl'[d].pc = "finish" /\ cl'[d].row = i /\ cl'[d].approve = approve
          /\ cl'[d].seen = Seen(run)
        BY <3>1, <1>0
    <3>3. artifacts' = artifacts
        BY <2>2 DEF ReadReview
    <3>4. i \in ReviewRows(run.wstep, run.watt)
        BY <3>1 DEF ReviewPoint
    <3>5. run.wstep = artifacts[i].step /\ run.watt = artifacts[i].att
        BY <3>4 DEF ReviewRows
    <3>6. /\ Seen(run).wstep = run.wstep /\ Seen(run).watt = run.watt
          /\ Seen(run).cursor = run.cursor /\ BudgetStop(Seen(run)) = BudgetStop(run)
        BY DEF Seen, BudgetStop, TypeOK, RunRow
    <3>7. ReviewInFlight(d)'
        BY <3>1, <3>2, <3>3, <3>5, <3>6 DEF ReviewInFlight, ReviewPoint, BudgetStop
    <3>8. QED
        BY <3>2, <3>7 DEF OpInFlight, Submitting
  <2>3. CASE ReadSubmit(d)
    <3>1. PICK i \in DOMAIN requests :
            /\ SubmitPoint(i)
            /\ cl' = [cl EXCEPT ![d] = [Idle EXCEPT !.pc = "save", !.seen = Seen(run), !.row = i]]
        BY <2>3 DEF ReadSubmit
    <3>2. cl'[d].pc = "save" /\ cl'[d].row = i /\ cl'[d].seen = Seen(run)
        BY <3>1, <1>0 DEF Idle
    <3>3. requests' = requests
        BY <2>3 DEF ReadSubmit
    <3>4. /\ Seen(run).wstep = run.wstep /\ Seen(run).watt = run.watt
          /\ Seen(run).cursor = run.cursor
        BY DEF Seen, TypeOK, RunRow
    <3>5. SubmissionInFlight(d)'
        BY <3>1, <3>2, <3>3, <3>4 DEF SubmissionInFlight, SubmitPoint
    <3>6. QED
        BY <3>2, <3>5 DEF OpInFlight
  <2>4. CASE ReadReject(d) \/ ReadCancel(d)
    <3>1. cl'[d].pc \in {"reject", "cancel", "soft_cancel"}
        BY <2>4, <1>0 DEF ReadReject, ReadCancel, Idle
    <3>2. QED
        BY <3>1, <1>2 DEF Submitting
  <2>5. CASE /\ cl[d].pc \in Submitting
             /\ \E pc \in Submitting : cl'[d] = [cl[d] EXCEPT !.pc = pc]
      BY <2>5, <1>k, <1>o, OpKept
  <2>6. CASE SaveSubmission(d) \/ RecordSubmission(d) \/ FindArtifact(d) \/ AddArtifact(d)
      BY <2>5, <2>6, <1>0
      DEF SaveSubmission, RecordSubmission, FindArtifact, AddArtifact, Submitting
  <2>7. CASE cl' = [cl EXCEPT ![d] = Idle]
    <3>1. cl'[d].pc = "idle"
        BY <2>7, <1>0 DEF Idle
    <3>2. QED
        BY <3>1, <1>2 DEF Submitting
  <2>8. CASE SettleSubmission(d)
      BY <2>5, <2>7, <2>8, <1>0 DEF SettleSubmission, Submitting
  <2>9. QED
      BY <1>3, <2>1, <2>2, <2>3, <2>4, <2>6, <2>7, <2>8 DEF Call, Proceed, FinishReview,
         WriteReject, WriteCancel, WriteSoftCancel, ConcludeSubmission
<1>4. CASE Worker \/ Restart \/ UNCHANGED vars
  <2>1. cl' = cl
      BY <1>4 DEF Worker, Restart, vars, WPickUp, WBegin, WStart, WSkip, WTakeStep,
         WLoopCancelled, WLoopBudget, WLoopExit, WPause, WWait, WCall, WInfer, WReturned,
         WRecord, WArtifact, WPersisted, WAdvance, WComplete, WCancelled, WBudget, WFail
  <2>2. QED
      BY <2>1, <1>1
<1>5. CASE Crash
  <2>1. cl'[d].pc = "idle"
      BY <1>5 DEF Crash, Idle
  <2>2. QED
      BY <2>1, <1>2 DEF Submitting
<1>6. QED
    BY <1>3, <1>4, <1>5 DEF Next

LEMMA InFlightStep == TypeOK /\ TypeOK' /\ InFlight /\ [Next]_vars => InFlight'
<1> SUFFICES ASSUME TypeOK, TypeOK', InFlight, [Next]_vars PROVE InFlight'
    OBVIOUS
<1>1. WorkerInFlight'
    BY WorkerStaysInFlight DEF InFlight
<1>2. \A c \in Clients : OpInFlight(c)'
    BY ClientsStayInFlight
<1>3. QED
    BY <1>1, <1>2 DEF InFlight, OpInFlight

LEMMA TypeStep == TypeOK /\ InFlight /\ [Next]_vars => TypeOK'
<1> SUFFICES ASSUME TypeOK, InFlight, [Next]_vars PROVE TypeOK'
    OBVIOUS
<1>1. CASE Next
    BY <1>1, WorkerType, CallType, ProceedType, ProcessType DEF Next, InFlight
<1>2. CASE UNCHANGED vars
    BY <1>2 DEF vars, TypeOK
<1>3. QED
    BY <1>1, <1>2

LEMMA InitInFlight == Init => InFlight
    BY DEF Init, InFlight, WorkerInFlight, Rest, Idle, InStep, Submitting

(* The rows, the worker and every operation keep their types: the cursor    *)
(* stays within the workflow, attempts within the iterations of the         *)
(* definition and router calls within MaxTries, for any number of clients.  *)
THEOREM TypeCorrect == Spec => []TypeOK
<1>1. Init => TypeOK /\ InFlight
    BY InitType, InitInFlight
<1>2. TypeOK /\ InFlight /\ [Next]_vars => (TypeOK /\ InFlight)'
    BY TypeStep, InFlightStep
<1>3. QED
    BY <1>1, <1>2, PTL DEF Spec

-----------------------------------------------------------------------------
(***************************************************************************)
(* Human review gates a run.  IInv strengthens the type invariant with the *)
(* order in which results are saved; GateInv is inductive relative to it.  *)
(***************************************************************************)
(* Where an artifact comes from: it was there, the worker stored its own    *)
(* attempt or a submission its request's.                                   *)
LEMMA ArtifactOrigin ==
    ASSUME TypeOK, [Next]_vars, NEW i \in DOMAIN artifacts'
    PROVE  \/ /\ i \in DOMAIN artifacts
              /\ artifacts'[i].step = artifacts[i].step
              /\ artifacts'[i].att = artifacts[i].att
           \/ WArtifact /\ artifacts'[i] = Row(w.idx, w.att, Made)
           \/ \E c \in Clients : /\ AddArtifact(c)
                                /\ artifacts'[i] = Row(cl[c].seen.wstep, cl[c].seen.watt, c)
<1>0. artifacts \in Seq(ArtifactRow) /\ \A j \in DOMAIN artifacts : artifacts[j] \in ArtifactRow
    BY SeqRows DEF TypeOK
<1>1. CASE artifacts' = artifacts
    BY <1>1
<1>2. CASE WArtifact
  <2>1. CASE artifacts' = Append(artifacts, Row(w.idx, w.att, Made))
      BY <1>2, <2>1, <1>0
  <2>2. QED
      BY <1>1, <1>2, <2>1 DEF WArtifact
<1>3. ASSUME NEW c \in Clients, AddArtifact(c)
      PROVE  \/ /\ i \in DOMAIN artifacts
                /\ artifacts'[i].step = artifacts[i].step
                /\ artifacts'[i].att = artifacts[i].att
             \/ artifacts'[i] = Row(cl[c].seen.wstep, cl[c].seen.watt, c)
  <2>1. artifacts' = Append(artifacts, Row(cl[c].seen.wstep, cl[c].seen.watt, c))
      BY <1>3 DEF AddArtifact
  <2>2. QED
      BY <2>1, <1>0
<1>4. ASSUME NEW c \in Clients, FinishReview(c)
      PROVE  /\ i \in DOMAIN artifacts
             /\ artifacts'[i].step = artifacts[i].step
             /\ artifacts'[i].att = artifacts[i].att
  <2>1. CASE artifacts' = [artifacts EXCEPT ![cl[c].row].approved = @ \/ cl[c].approve]
      BY <2>1, <1>0 DEF ArtifactRow
  <2>2. QED
      BY <1>4, <2>1 DEF FinishReview
<1>5. CASE Worker
    BY <1>5, <1>1, <1>2 DEF Worker, WPickUp, WBegin, WStart, WSkip, WTakeStep, WLoopCancelled,
       WLoopBudget, WLoopExit, WPause, WWait, WCall, WInfer, WReturned, WRecord, WPersisted,
       WAdvance, WComplete, WCancelled, WBudget, WFail
<1>6. ASSUME NEW c \in Clients, Call(c) \/ Proceed(c), ~FinishReview(c), ~AddArtifact(c)
      PROVE  artifacts' = artifacts
    BY <1>6 DEF Call, Proceed, ReadReview, ReadReject, ReadCancel, ReadSubmit, WriteReject,
       WriteCancel, WriteSoftCancel, SaveSubmission, RecordSubmission, FindArtifact,
       SettleSubmission, ConcludeSubmission
<1>7. CASE Crash \/ Restart \/ UNCHANGED vars
    BY <1>7, <1>1 DEF Crash, Restart, vars
<1>8. QED
    BY <1>1, <1>3, <1>4, <1>5, <1>6, <1>7 DEF Next

LEMMA SavedStays ==
    ASSUME Kept, NEW s, NEW a, Saved(s, a)
    PROVE  Saved(s, a)'
    BY DEF Saved, Kept

LEMMA BackedStep == TypeOK /\ InFlight /\ SavedInOrder /\ [Next]_vars => Backed'
<1> SUFFICES ASSUME TypeOK, InFlight, SavedInOrder, [Next]_vars, NEW i \in DOMAIN artifacts'
             PROVE  Recorded(artifacts[i].step, artifacts[i].att)'
    BY DEF Backed, Recorded
<1>k. Kept
    BY StepKeeps
<1>1. CASE /\ i \in DOMAIN artifacts
           /\ artifacts'[i].step = artifacts[i].step
           /\ artifacts'[i].att = artifacts[i].att
  <2>1. artifacts[i] \in ArtifactRow
      BY <1>1, SeqRows DEF TypeOK
  <2>2. Recorded(artifacts[i].step, artifacts[i].att)
      BY <1>1 DEF SavedInOrder, Backed, Recorded
  <2>3. QED
      BY <1>1, <2>1, <2>2, <1>k DEF Kept, ArtifactRow, Recorded
<1>2. CASE WArtifact /\ artifacts'[i] = Row(w.idx, w.att, Made)
  <2>1. Recorded(w.idx, w.att) /\ output' = output
      BY <1>2 DEF SavedInOrder, WArtifact
  <2>2. QED
      BY <1>2, <2>1 DEF Row, Recorded
<1>3. ASSUME NEW c \in Clients, AddArtifact(c),
             artifacts'[i] = Row(cl[c].seen.wstep, cl[c].seen.watt, c)
      PROVE  Recorded(artifacts[i].step, artifacts[i].att)'
  <2>1. Recorded(cl[c].seen.wstep, cl[c].seen.watt) /\ output' = output
      BY <1>3 DEF SavedInOrder, AddArtifact
  <2>2. QED
      BY <1>3, <2>1 DEF Row, Recorded
<1>4. QED
    BY <1>1, <1>2, <1>3, ArtifactOrigin

(* The worker's part of the order: a row, then its artifact.                *)
WorkerSaved ==
    /\ w.pc = "artifact" => Recorded(w.idx, w.att)
    /\ w.pc \in {"persisted", "advance"} => Saved(w.idx, w.att)

LEMMA WorkerSavedStep == TypeOK /\ InFlight /\ SavedInOrder /\ [Next]_vars => WorkerSaved'
<1> SUFFICES ASSUME TypeOK, InFlight, SavedInOrder, [Next]_vars PROVE WorkerSaved'
    OBVIOUS
<1>k. Kept
    BY StepKeeps
<1>0. w \in WorkerState /\ (w.pc \in InStep => w.idx \in Steps) /\ w.att \in Attempts
    BY StepsAssumption DEF TypeOK, WorkerState, InFlight, WorkerInFlight
<1>1. CASE w' = w
  <2>1. w.pc = "artifact" => Recorded(w.idx, w.att)'
      BY <1>1, <1>k, <1>0 DEF SavedInOrder, Kept, Recorded, InStep
  <2>2. w.pc \in {"persisted", "advance"} => Saved(w.idx, w.att)'
      BY <1>1, <1>k, SavedStays DEF SavedInOrder, Saved
  <2>3. QED
      BY <1>1, <2>1, <2>2 DEF WorkerSaved
<1>2. CASE w'.pc \notin {"artifact", "persisted", "advance"}
    BY <1>2 DEF WorkerSaved
<1>3. CASE WRecord
  <2>1. w' = [w EXCEPT !.pc = "artifact"] /\ output' = [output EXCEPT ![w.idx][w.att] = Made]
      BY <1>3 DEF WRecord
  <2>2. Made # NoOutput /\ w.idx \in Steps
      BY <1>3, <1>0, AuthorsAssumption DEF Made, WRecord, InStep
  <2>3. Recorded(w.idx, w.att)' /\ w'.pc = "artifact"
      BY <2>1, <2>2, <1>0 DEF Recorded, TypeOK, WorkerState
  <2>4. QED
      BY <2>3 DEF WorkerSaved
<1>4. CASE WArtifact
  <2>1. w'.pc = "persisted" /\ w'.idx = w.idx /\ w'.att = w.att
      BY <1>4, <1>0 DEF WArtifact, WorkerState
  <2>2. \E i \in DOMAIN artifacts' : artifacts'[i].step = w.idx /\ artifacts'[i].att = w.att
    <3>1. CASE artifacts' = Append(artifacts, Row(w.idx, w.att, Made))
      <4>1. artifacts'[Len(artifacts) + 1] = Row(w.idx, w.att, Made)
            /\ Len(artifacts) + 1 \in DOMAIN artifacts'
          BY <3>1 DEF TypeOK
      <4>2. QED
          BY <4>1 DEF Row
    <3>2. QED
        BY <1>4, <3>1 DEF WArtifact
  <2>3. QED
      BY <2>1, <2>2 DEF WorkerSaved, Saved
<1>5. CASE WPersisted
  <2>1. Saved(w.idx, w.att) /\ artifacts' = artifacts
      BY <1>5 DEF WPersisted, SavedInOrder
  <2>2. /\ w'.pc \in {"cancelled", "advance"}
        /\ w'.idx = w.idx /\ w'.att = w.att
      BY <1>5, <1>0 DEF WPersisted, WorkerState
  <2>3. QED
      BY <2>1, <2>2 DEF WorkerSaved, Saved
<1>6. CASE WPickUp \/ WTakeStep
  <2>1. w'.pc \in {"begin", "pause", "call", "fail"}
    <3>1. CASE WPickUp
        BY <3>1 DEF WPickUp, Rest
    <3>2. CASE WTakeStep
      <4>1. PICK a \in Attempts :
                \E pc \in {IF w.idx \in HumanSteps THEN "pause" ELSE "call", "fail"} :
                   w' = [w EXCEPT !.pc = pc, !.att = a, !.tries = 0, !.revising = run.feedback]
          BY <3>2 DEF WTakeStep
      <4>2. QED
          BY <4>1, <1>0 DEF WorkerState
    <3>3. QED
        BY <1>6, <3>1, <3>2
  <2>2. QED
      BY <2>1, <1>2
<1>7. CASE Worker
  <2>1. CASE WBegin \/ WStart \/ WSkip \/ WLoopCancelled \/ WLoopBudget \/ WLoopExit \/ WPause
      BY <2>1, <1>0, <1>2 DEF WBegin, WStart, WSkip, WLoopCancelled, WLoopBudget, WLoopExit,
         WPause, WorkerState
  <2>2. CASE WCall \/ WInfer \/ WReturned
      BY <2>2, <1>0, <1>2 DEF WCall, WInfer, WReturned, WorkerState
  <2>3. CASE WAdvance \/ WWait \/ WComplete \/ WCancelled \/ WBudget \/ WFail
    <3>1. w' = Rest \/ w' = [w EXCEPT !.pc = "loop", !.idx = w.idx + 1]
        BY <2>3 DEF WAdvance, WWait, WComplete, WCancelled, WBudget, WFail
    <3>2. Rest.pc = "idle" /\ [w EXCEPT !.pc = "loop", !.idx = w.idx + 1].pc = "loop"
        BY <1>0 DEF Rest, WorkerState
    <3>3. QED
        BY <3>1, <3>2, <1>2
  <2>4. QED
      BY <1>7, <1>3, <1>4, <1>5, <1>6, <2>1, <2>2, <2>3 DEF Worker
<1>8. ASSUME NEW c \in Clients, Call(c) \/ Proceed(c) PROVE w' = w
    BY <1>8 DEF Call, Proceed, ReadReview, ReadReject, ReadCancel, ReadSubmit, FinishReview,
       WriteReject, WriteCancel, WriteSoftCancel, SaveSubmission, RecordSubmission,
       FindArtifact, AddArtifact, SettleSubmission, ConcludeSubmission
<1>9. QED
    BY <1>1, <1>2, <1>7, <1>8 DEF Next, Crash, Restart, vars, Rest

(* The submissions' part of the order.                                      *)
OpSaved(c) ==
    /\ cl[c].pc \in {"find_artifact", "add_artifact"} => Recorded(cl[c].seen.wstep, cl[c].seen.watt)
    /\ cl[c].pc \in {"settle", "conclude"} => Saved(cl[c].seen.wstep, cl[c].seen.watt)

LEMMA OpSavedStep ==
    TypeOK /\ InFlight /\ SavedInOrder /\ [Next]_vars => \A c \in Clients : OpSaved(c)'
<1> SUFFICES ASSUME TypeOK, InFlight, SavedInOrder, [Next]_vars, NEW d \in Clients
             PROVE  OpSaved(d)'
    OBVIOUS
<1>k. Kept
    BY StepKeeps
<1>0. cl \in [Clients -> ClientState] /\ cl[d] \in ClientState
    BY DEF TypeOK
<1>o. OpSaved(d)
    BY DEF SavedInOrder, OpSaved
<1>s. cl[d].pc \in Submitting => cl[d].seen.wstep \in Steps /\ cl[d].seen.watt \in Attempts
    BY SubmissionType
<1>1. CASE cl'[d] = cl[d]
  <2>1. cl[d].pc \in {"find_artifact", "add_artifact"} => Recorded(cl[d].seen.wstep, cl[d].seen.watt)'
      BY <1>1, <1>k, <1>o, <1>s DEF OpSaved, Kept, Recorded, Submitting
  <2>2. cl[d].pc \in {"settle", "conclude"} => Saved(cl[d].seen.wstep, cl[d].seen.watt)'
      BY <1>1, <1>k, <1>o DEF OpSaved, Kept, Saved
  <2>3. QED
      BY <1>1, <2>1, <2>2 DEF OpSaved
<1>2. CASE cl'[d].pc \notin {"find_artifact", "add_artifact", "settle", "conclude"}
    BY <1>2 DEF OpSaved
<1>3. ASSUME NEW c \in Clients, Call(c) \/ Proceed(c) PROVE OpSaved(d)'
  <2>1. CASE c # d
    <3>1. cl'[d] = cl[d]
        BY <1>3, <2>1, <1>0 DEF Call, Proceed, ReadReview, ReadReject, ReadCancel, ReadSubmit,
           FinishReview, WriteReject, WriteCancel, WriteSoftCancel, SaveSubmission,
           RecordSubmission, FindArtifact, AddArtifact, SettleSubmission, ConcludeSubmission
    <3>2. QED
        BY <3>1, <1>1
  <2>2. CASE Call(d)
    <3>1. CASE ReadReview(d)
      <4>1. cl'[d].pc = "finish"
          BY <3>1, <1>0 DEF ReadReview
      <4>2. QED
          BY <4>1, <1>2
    <3>2. CASE ReadReject(d) \/ ReadCancel(d) \/ ReadSubmit(d)
      <4>1. cl'[d].pc \in {"reject", "cancel", "soft_cancel", "save"}
          BY <3>2, <1>0 DEF ReadReject, ReadCancel, ReadSubmit, Idle
      <4>2. QED
          BY <4>1, <1>2
    <3>3. QED
        BY <2>2, <3>1, <3>2 DEF Call
  <2>3. CASE cl' = [cl EXCEPT ![d] = Idle]
    <3>1. cl'[d].pc = "idle"
        BY <2>3, <1>0 DEF Idle
    <3>2. QED
        BY <3>1, <1>2
  <2>4. CASE SaveSubmission(d)
    <3>1. cl'[d].pc = "record"
        BY <2>4, <1>0 DEF SaveSubmission, ClientState
    <3>2. QED
        BY <3>1, <1>2
  <2>5. CASE RecordSubmission(d)
    <3>1. /\ cl'[d].pc = "find_artifact" /\ cl'[d].seen = cl[d].seen
          /\ output' = [output EXCEPT ![cl[d].seen.wstep][cl[d].seen.watt] = d]
        BY <2>5, <1>0 DEF RecordSubmission, ClientState
    <3>2. d # NoOutput
        BY AuthorsAssumption
    <3>3. Recorded(cl[d].seen.wstep, cl[d].seen.watt)'
        BY <2>5, <3>1, <3>2, <1>s DEF Recorded, TypeOK, RecordSubmission, Submitting
    <3>4. QED
        BY <3>1, <3>3 DEF OpSaved
  <2>6. CASE FindArtifact(d)
    <3>1. /\ cl'[d].pc = IF Saved(cl[d].seen.wstep, cl[d].seen.watt) THEN "settle" ELSE "add_artifact"
          /\ cl'[d].seen = cl[d].seen
          /\ output' = output /\ artifacts' = artifacts
        BY <2>6, <1>0 DEF FindArtifact, ClientState, Saved
    <3>2. Recorded(cl[d].seen.wstep, cl[d].seen.watt)
        BY <2>6, <1>o DEF FindArtifact, OpSaved
    <3>3. QED
        BY <3>1, <3>2 DEF OpSaved, Recorded, Saved
  <2>7. CASE AddArtifact(d)
    <3>1. /\ cl'[d].pc = "settle" /\ cl'[d].seen = cl[d].seen
          /\ artifacts' = Append(artifacts, Row(cl[d].seen.wstep, cl[d].seen.watt, d))
        BY <2>7, <1>0 DEF AddArtifact, ClientState
    <3>2. /\ artifacts'[Len(artifacts) + 1] = Row(cl[d].seen.wstep, cl[d].seen.watt, d)
          /\ Len(artifacts) + 1 \in DOMAIN artifacts'
        BY <3>1 DEF TypeOK
    <3>3. Saved(cl[d].seen.wstep, cl[d].seen.watt)'
        BY <3>1, <3>2 DEF Saved, Row
    <3>4. QED
        BY <3>1, <3>3 DEF OpSaved
  <2>8. CASE SettleSubmission(d)
    <3>1. /\ cl'[d].pc \in {"idle", "conclude"}
          /\ cl'[d].pc = "conclude" => cl'[d].seen = cl[d].seen
          /\ artifacts' = artifacts
        BY <2>8, <1>0 DEF SettleSubmission, ClientState, Idle
    <3>2. QED
        BY <3>1, <2>8, <1>o DEF OpSaved, Saved, SettleSubmission
  <2>9. QED
      BY <1>3, <2>1, <2>2, <2>3, <2>4, <2>5, <2>6, <2>7, <2>8 DEF Proceed, FinishReview,
         WriteReject, WriteCancel, WriteSoftCancel, ConcludeSubmission
<1>4. CASE Worker \/ Restart \/ UNCHANGED vars
  <2>1. cl' = cl
      BY <1>4 DEF Worker, Restart, vars, WPickUp, WBegin, WStart, WSkip, WTakeStep,
         WLoopCancelled, WLoopBudget, WLoopExit, WPause, WWait, WCall, WInfer, WReturned,
         WRecord, WArtifact, WPersisted, WAdvance, WComplete, WCancelled, WBudget, WFail
  <2>2. QED
      BY <2>1, <1>1
<1>5. CASE Crash
    BY <1>5, <1>2 DEF Crash, Idle
<1>6. QED
    BY <1>3, <1>4, <1>5 DEF Next

(* The wait's part of the order, and its flag.                              *)
WaitSaved ==
    run.status = "waiting_human" /\ run.reason \in {"review", "budget_exhausted"}
        => Saved(run.wstep, run.watt)

(* A run that leaves its wait waits for no saved result.                    *)
LEMMA NoWaitSaved ==
    ASSUME run' \in RunRow, run'.reason = "" \/ run'.status # "waiting_human"
    PROVE  WaitSaved'
    BY DEF WaitSaved

LEMMA WaitSavedStep ==
    IInv /\ TypeOK' /\ [Next]_vars => WaitSaved' /\ BudgetFlagged' /\ (run.budget => run'.budget)
<1> DEFINE Goal == WaitSaved' /\ BudgetFlagged' /\ (run.budget => run'.budget)
<1> SUFFICES ASSUME IInv, TypeOK', [Next]_vars PROVE Goal
    OBVIOUS
<1>k. Kept
    BY StepKeeps DEF IInv
<1>0. /\ run \in RunRow /\ run' \in RunRow /\ w \in WorkerState
      /\ WaitSaved /\ BudgetFlagged
    BY DEF IInv, TypeOK, SavedInOrder, WaitSaved
<1>1. ASSUME run'.status = run.status, run'.reason = run.reason, run'.budget = run.budget,
             run'.wstep = run.wstep, run'.watt = run.watt
      PROVE  Goal
    BY <1>1, <1>0, <1>k DEF WaitSaved, BudgetFlagged, Kept, Saved
<1>2. ASSUME run'.status # "waiting_human" \/ run'.reason = "",
             run'.reason = run.reason \/ run'.reason = "", run'.budget = run.budget
      PROVE  Goal
    BY <1>2, <1>0 DEF WaitSaved, BudgetFlagged
<1>3. CASE run' = run
    BY <1>3, <1>1
<1>4. CASE WStart \/ WComplete \/ WCancelled
  <2>1. \E s \in Statuses : run' = NoWait(Status(run, s))
      BY <1>4 DEF WStart, WComplete, WCancelled, Statuses
  <2>2. run'.reason = "" /\ run'.budget = run.budget
      BY <2>1, <1>0 DEF NoWait, Status, RunRow
  <2>3. QED
      BY <2>2, <1>2
<1>5. CASE WFail
  <2>1. run' = run \/ run' = NoWait(Status(run, "failed"))
      BY <1>5 DEF WFail, FailActive
  <2>2. CASE run' = NoWait(Status(run, "failed"))
    <3>1. run'.reason = "" /\ run'.budget = run.budget
        BY <2>2, <1>0 DEF NoWait, Status, RunRow
    <3>2. QED
        BY <3>1, <1>2
  <2>3. QED
      BY <2>1, <2>2, <1>3
<1>6. CASE WSkip \/ WPersisted
  <2>1. run' = run \/ run' = [run EXCEPT !.cursor = w.idx + 1] \/ run' = [run EXCEPT !.feedback = FALSE]
      BY <1>6 DEF WSkip, WPersisted
  <2>2. QED
      BY <2>1, <1>1, <1>0 DEF RunRow
<1>7. CASE WWait
  <2>1. run' = WaitFor(run, "execute_step", w.idx, w.att)
      BY <1>7 DEF WWait
  <2>2. QED
      BY <2>1, <1>0 DEF WaitFor, RunRow, WaitSaved, BudgetFlagged
<1>8. CASE WAdvance
  <2>1. CASE run' = WaitFor([run EXCEPT !.cursor = w.idx], "review", w.idx, w.att)
    <3>1. Saved(w.idx, w.att) /\ artifacts' = artifacts
        BY <1>8 DEF WAdvance, IInv, SavedInOrder
    <3>2. run'.reason = "review" /\ run'.wstep = w.idx /\ run'.watt = w.att /\ run'.budget = run.budget
        BY <2>1, <1>0 DEF WaitFor, RunRow
    <3>3. QED
        BY <3>1, <3>2, <1>0 DEF WaitSaved, BudgetFlagged, Saved
  <2>2. CASE run' = [run EXCEPT !.cursor = w.idx + 1]
      BY <2>2, <1>1, <1>0 DEF RunRow
  <2>3. QED
      BY <1>8, <2>1, <2>2 DEF WAdvance
<1>9. CASE WBudget
  <2>1. artifacts' = artifacts
      BY <1>9 DEF WBudget
  <2>2. CASE artifacts = <<>>
    <3>1. run' = Status([run EXCEPT !.budget = TRUE], "failed")
        BY <1>9, <2>2 DEF WBudget
    <3>2. run'.status = "failed" /\ run'.budget = TRUE
        BY <3>1, <1>0 DEF Status, RunRow
    <3>3. QED
        BY <3>2 DEF WaitSaved, BudgetFlagged
  <2>3. CASE artifacts # <<>>
    <3>1. Len(artifacts) \in DOMAIN artifacts
        BY <2>3 DEF IInv, TypeOK
    <3>2. run' = WaitFor([run EXCEPT !.budget = TRUE], "budget_exhausted",
                         artifacts[Len(artifacts)].step, artifacts[Len(artifacts)].att)
        BY <1>9, <2>3 DEF WBudget
    <3>3. /\ run'.budget = TRUE /\ run'.wstep = artifacts[Len(artifacts)].step
          /\ run'.watt = artifacts[Len(artifacts)].att
        BY <3>2, <1>0 DEF WaitFor, RunRow
    <3>4. QED
        BY <3>1, <3>3, <2>1 DEF WaitSaved, BudgetFlagged, Saved
  <2>4. QED
      BY <2>2, <2>3
<1>10. CASE Worker
    BY <1>10, <1>3, <1>4, <1>5, <1>6, <1>7, <1>8, <1>9 DEF Worker, WPickUp, WBegin,
       WTakeStep, WLoopCancelled, WLoopBudget, WLoopExit, WPause, WCall, WInfer, WReturned,
       WRecord, WArtifact
<1>11. ASSUME NEW c \in Clients, FinishReview(c) PROVE Goal
  <2>1. CASE run' = Decided(run, cl[c].approve, cl[c].feedback)
    <3>1. run'.reason = "" /\ run'.budget = run.budget
        BY <2>1, <1>0 DEF Decided, NoWait, Status, RunRow
    <3>2. QED
        BY <3>1, <1>2
  <2>2. QED
      BY <1>11, <2>1, <1>3 DEF FinishReview
<1>12. ASSUME NEW c \in Clients, WriteReject(c) \/ WriteCancel(c) PROVE Goal
  <2>1. \/ \E f \in BOOLEAN : run' = [NoWait(Status(run, "rejected")) EXCEPT !.feedback = f]
        \/ run' = [NoWait(Status(run, "cancelled")) EXCEPT !.cancel = TRUE]
      BY <1>12 DEF WriteReject, WriteCancel
  <2>2. run'.reason = "" /\ run'.budget = run.budget
      BY <2>1, <1>0 DEF NoWait, Status, RunRow
  <2>3. QED
      BY <2>2, <1>2
<1>13. ASSUME NEW c \in Clients, WriteSoftCancel(c) \/ SettleSubmission(c) PROVE Goal
  <2>1. run' = [run EXCEPT !.cancel = TRUE] \/ run' = [run EXCEPT !.feedback = FALSE]
      BY <1>13 DEF WriteSoftCancel, SettleSubmission
  <2>2. QED
      BY <2>1, <1>1, <1>0 DEF RunRow
<1>14. ASSUME NEW c \in Clients, ConcludeSubmission(c) PROVE Goal
  <2>1. CASE run' = WaitFor(run, "review", cl[c].seen.wstep, cl[c].seen.watt)
    <3>1. Saved(cl[c].seen.wstep, cl[c].seen.watt) /\ artifacts' = artifacts
        BY <1>14 DEF ConcludeSubmission, IInv, SavedInOrder
    <3>2. /\ run'.reason = "review" /\ run'.wstep = cl[c].seen.wstep
          /\ run'.watt = cl[c].seen.watt /\ run'.budget = run.budget
        BY <2>1, <1>0 DEF WaitFor, RunRow
    <3>3. QED
        BY <3>1, <3>2, <1>0 DEF WaitSaved, BudgetFlagged, Saved
  <2>2. CASE run' = [NoWait(Status(run, "queued")) EXCEPT !.cursor = cl[c].seen.cursor + 1]
    <3>1. run'.reason = "" /\ run'.budget = run.budget
        BY <2>2, <1>0 DEF NoWait, Status, RunRow
    <3>2. QED
        BY <3>1, <1>2
  <2>3. QED
      BY <1>14, <2>1, <2>2 DEF ConcludeSubmission
<1>15. ASSUME NEW c \in Clients, Call(c) \/ Proceed(c) PROVE Goal
    BY <1>15, <1>3, <1>11, <1>12, <1>13, <1>14 DEF Call, Proceed, ReadReview, ReadReject,
       ReadCancel, ReadSubmit, SaveSubmission, RecordSubmission, FindArtifact, AddArtifact
<1>16. CASE Restart
  <2>1. run' = run \/ run' = NoWait(Status(run, "cancelled")) \/ run' = Status(run, "queued")
      BY <1>16 DEF Restart, Recovered
  <2>2. CASE run' = NoWait(Status(run, "cancelled"))
    <3>1. run'.reason = "" /\ run'.budget = run.budget
        BY <2>2, <1>0 DEF NoWait, Status, RunRow
    <3>2. QED
        BY <3>1, <1>2
  <2>3. CASE run' = Status(run, "queued")
    <3>1. run'.status = "queued" /\ run'.reason = run.reason /\ run'.budget = run.budget
        BY <2>3, <1>0 DEF Status, RunRow
    <3>2. QED
        BY <3>1, <1>2
  <2>4. QED
      BY <2>1, <2>2, <2>3, <1>3
<1>17. QED
    BY <1>3, <1>10, <1>15, <1>16 DEF Next, Crash, vars

LEMMA InvariantStep == IInv /\ [Next]_vars => IInv'
<1> SUFFICES ASSUME IInv, [Next]_vars PROVE IInv'
    OBVIOUS
<1>1. TypeOK' /\ InFlight'
    BY TypeStep, InFlightStep DEF IInv
<1>2. Backed' /\ WorkerSaved' /\ \A c \in Clients : OpSaved(c)'
    BY BackedStep, WorkerSavedStep, OpSavedStep DEF IInv
<1>3. WaitSaved' /\ BudgetFlagged'
    BY <1>1, WaitSavedStep
<1>4. SavedInOrder'
    BY <1>2, <1>3 DEF SavedInOrder, WorkerSaved, OpSaved, WaitSaved
<1>5. QED
    BY <1>1, <1>3, <1>4 DEF IInv

LEMMA InitInvariant == Init => IInv
<1> SUFFICES ASSUME Init PROVE IInv
    OBVIOUS
<1>1. TypeOK /\ InFlight
    BY InitType, InitInFlight
<1>2. /\ w.pc = "idle" /\ artifacts = <<>> /\ run.status = "queued" /\ run.reason = ""
      /\ \A c \in Clients : cl[c].pc = "idle"
    BY DEF Init, Rest, Idle, NewRun
<1>3. Backed
  <2>1. Len(artifacts) = 0 /\ DOMAIN artifacts = 1 .. Len(artifacts)
      BY <1>1, <1>2, SeqRows DEF TypeOK
  <2>2. QED
      BY <2>1 DEF Backed
<1>4. SavedInOrder /\ BudgetFlagged
    BY <1>2, <1>3 DEF SavedInOrder, BudgetFlagged
<1>5. QED
    BY <1>1, <1>4 DEF IInv

LEMMA Invariant == Spec => []IInv
    BY InitInvariant, InvariantStep, PTL DEF Spec

(* An operator asked for a review always finds a saved result under the     *)
(* wait, whichever of the worker, its budget handler or a submission wrote  *)
(* the wait.                                                                *)
THEOREM WaitsHaveResults == Spec => []WaitHasResult
<1>1. IInv => WaitHasResult
  <2> SUFFICES ASSUME IInv, run.status = "waiting_human",
                      run.reason \in {"review", "budget_exhausted"}
               PROVE  ReviewRows(run.wstep, run.watt) # {}
      BY DEF WaitHasResult
  <2>1. PICK i \in DOMAIN artifacts : artifacts[i].step = run.wstep /\ artifacts[i].att = run.watt
      BY DEF IInv, SavedInOrder, Saved
  <2>2. i \in ReviewRows(run.wstep, run.watt)
      BY <2>1 DEF ReviewRows, IInv, SavedInOrder, Backed
  <2>3. QED
      BY <2>2
<1>2. QED
    BY <1>1, Invariant, PTL

-----------------------------------------------------------------------------
(* The gate: steps left behind are settled, and stay settled.               *)

LEMMA SettledStays ==
    ASSUME TypeOK, Kept, NEW s, Settled(s)
    PROVE  Settled(s)'
<1>1. ASSUME NEW i \in DOMAIN artifacts, ResultOf(i, s)
      PROVE  /\ i \in DOMAIN artifacts' /\ ResultOf(i, s)'
             /\ artifacts[i].approved => artifacts'[i].approved
  <2>1. artifacts[i] \in ArtifactRow
      BY SeqRows DEF TypeOK
  <2>2. /\ i \in DOMAIN artifacts' /\ artifacts'[i].step = artifacts[i].step
        /\ artifacts'[i].att = artifacts[i].att
        /\ artifacts[i].approved => artifacts'[i].approved
      BY DEF Kept
  <2>3. Recorded(artifacts[i].step, artifacts[i].att) => output'[artifacts[i].step][artifacts[i].att] # NoOutput
      BY <2>1 DEF Kept, Recorded, ArtifactRow
  <2>4. QED
      BY <1>1, <2>2, <2>3 DEF ResultOf, Recorded
<1>2. HasResult(s)'
    BY <1>1 DEF Settled, HasResult
<1>3. HasApproval(s) => HasApproval(s)'
    BY <1>1 DEF HasApproval
<1>4. QED
    BY <1>2, <1>3 DEF Settled

LEMMA SettledBySaving ==
    ASSUME Backed', NEW i \in DOMAIN artifacts', NEW s, artifacts'[i].step = s,
           s \in Checkpoints => artifacts'[i].approved
    PROVE  Settled(s)'
    BY DEF Backed, Settled, HasResult, HasApproval, ResultOf

(* An approval settles the step under the cursor.                           *)
LEMMA ApprovalSettles ==
    ASSUME GateInv, NEW c \in Clients, FinishReview(c), StillReviewable(c), cl[c].approve,
           ~run.budget, Kept, Backed', NEW s, s = run.cursor
    PROVE  Settled(s)'
<1>1. /\ ReviewInFlight(c) /\ cl[c] \in ClientState /\ run \in RunRow
      /\ BudgetFlagged /\ artifacts \in Seq(ArtifactRow)
    BY DEF FinishReview, GateInv, IInv, InFlight, TypeOK
<1>2. /\ run.cursor = cl[c].seen.cursor
      /\ BudgetStop(run) = BudgetStop(cl[c].seen)
    BY <1>1 DEF StillReviewable, Seen, BudgetStop, RunRow
<1>3. ~BudgetStop(run)
    BY <1>1 DEF BudgetStop, BudgetFlagged
<1>4. cl[c].row \in DOMAIN artifacts /\ artifacts[cl[c].row].step = s
    BY <1>1, <1>2, <1>3 DEF ReviewInFlight
<1>5. artifacts'[cl[c].row].approved
  <2>1. artifacts' = [artifacts EXCEPT ![cl[c].row].approved = @ \/ cl[c].approve]
      BY DEF FinishReview
  <2>2. artifacts[cl[c].row] \in ArtifactRow
      BY <1>1, <1>4, SeqRows
  <2>3. QED
      BY <2>1, <2>2, <1>4 DEF ArtifactRow
<1>6. cl[c].row \in DOMAIN artifacts' /\ artifacts'[cl[c].row].step = s
    BY <1>4 DEF Kept
<1>7. QED
    BY <1>5, <1>6, SettledBySaving

(* What every step of the system may rely on below.                         *)
LEMMA GateFacts ==
    ASSUME GateInv, [Next]_vars, ~run'.budget
    PROVE  /\ ~run.budget /\ Kept /\ Backed'
           /\ \A s \in EnabledSteps : s \in Nat /\ s < NSteps
           /\ \A s \in EnabledSteps : Settled(s) => Settled(s)'
           /\ \A s \in EnabledSteps : s < run.cursor => Settled(s)
           /\ Executing => \A s \in EnabledSteps : s < w.idx => Settled(s)
           /\ run \in RunRow /\ w \in WorkerState /\ NSteps \in Nat
<1>1. Kept /\ IInv' /\ (run.budget => run'.budget)
    BY StepKeeps, InvariantStep, WaitSavedStep DEF GateInv, IInv
<1>2. ~run.budget /\ Backed'
    BY <1>1 DEF IInv, SavedInOrder
<1>3. \A s \in EnabledSteps : s \in Nat /\ s < NSteps
    BY StepsAssumption DEF Steps
<1>4. \A s \in EnabledSteps : Settled(s) => Settled(s)'
    BY <1>1, SettledStays DEF GateInv, IInv
<1>5. HumanGate /\ TypeOK
    BY DEF GateInv, IInv
<1>6. QED
    BY <1>1, <1>2, <1>3, <1>4, <1>5, StepsAssumption DEF HumanGate, Passed, TypeOK

LEMMA AdvanceSettles ==
    ASSUME GateInv, WAdvance, w.idx \notin Checkpoints, Kept, Backed', NEW s, s = w.idx
    PROVE  Settled(s)'
<1>1. PICK i \in DOMAIN artifacts : artifacts[i].step = w.idx
    BY DEF WAdvance, GateInv, IInv, SavedInOrder, Saved
<1>2. i \in DOMAIN artifacts' /\ artifacts'[i].step = s
    BY <1>1 DEF Kept
<1>3. QED
    BY <1>2, SettledBySaving

LEMMA CursorGate ==
    ASSUME GateInv, [Next]_vars, ~run'.budget
    PROVE  \A s \in EnabledSteps : s < run'.cursor => Settled(s)'
<1> DEFINE Goal == \A s \in EnabledSteps : s < run'.cursor => Settled(s)'
<1>f. /\ ~run.budget /\ Kept /\ Backed'
      /\ \A s \in EnabledSteps : s \in Nat /\ s < NSteps
      /\ \A s \in EnabledSteps : Settled(s) => Settled(s)'
      /\ \A s \in EnabledSteps : s < run.cursor => Settled(s)
      /\ Executing => \A s \in EnabledSteps : s < w.idx => Settled(s)
      /\ run \in RunRow /\ w \in WorkerState /\ NSteps \in Nat
    BY GateFacts
<1>0. run.cursor \in Nat /\ w.idx \in Nat
    BY <1>f DEF RunRow, WorkerState
<1>1. CASE run'.cursor = run.cursor
    BY <1>1, <1>f
<1>2. CASE WSkip
  <2>1. run'.cursor = w.idx + 1 /\ w.idx \notin EnabledSteps /\ Executing
      BY <1>2, <1>f DEF WSkip, RunRow, Executing
  <2>2. QED
      BY <2>1, <1>f, <1>0
<1>3. CASE WAdvance
  <2>1. Executing
      BY <1>3 DEF WAdvance, Executing
  <2>2. CASE run' = WaitFor([run EXCEPT !.cursor = w.idx], "review", w.idx, w.att)
    <3>1. run'.cursor = w.idx
        BY <2>2, <1>f DEF WaitFor, RunRow
    <3>2. QED
        BY <2>1, <3>1, <1>f
  <2>3. CASE run' = [run EXCEPT !.cursor = w.idx + 1] /\ w.idx \notin Checkpoints
    <3>1. run'.cursor = w.idx + 1
        BY <2>3, <1>f DEF RunRow
    <3>2. \A s : s = w.idx => Settled(s)'
        BY <1>3, <2>3, <1>f, AdvanceSettles
    <3>3. QED
        BY <2>1, <3>1, <3>2, <1>f, <1>0
  <2>4. QED
      BY <1>3, <2>2, <2>3 DEF WAdvance
<1>4. ASSUME NEW c \in Clients, FinishReview(c) PROVE Goal
  <2>1. CASE ~StillReviewable(c) \/ ~cl[c].approve
    <3>1. run' = run \/ run' = Decided(run, cl[c].approve, cl[c].feedback)
        BY <1>4 DEF FinishReview
    <3>2. run'.cursor = run.cursor
        BY <1>4, <2>1, <3>1, <1>f DEF FinishReview, Decided, NoWait, Status, RunRow
    <3>3. QED
        BY <3>2, <1>1
  <2>2. CASE StillReviewable(c) /\ cl[c].approve
    <3>1. ~BudgetStop(run)
        BY <1>f DEF BudgetStop, GateInv, IInv, BudgetFlagged
    <3>2. run' = Decided(run, cl[c].approve, cl[c].feedback)
        BY <1>4, <2>2 DEF FinishReview
    <3>3. run'.cursor = run.cursor + 1
        BY <2>2, <3>1, <3>2, <1>f DEF Decided, NoWait, Status, RunRow
    <3>4. \A s : s = run.cursor => Settled(s)'
        BY <1>4, <2>2, <1>f, ApprovalSettles
    <3>5. QED
        BY <3>3, <3>4, <1>f, <1>0
  <2>3. QED
      BY <2>1, <2>2
<1>5. ASSUME NEW c \in Clients, ConcludeSubmission(c) PROVE Goal
  <2>1. CASE run' = WaitFor(run, "review", cl[c].seen.wstep, cl[c].seen.watt)
    <3>1. run'.cursor = run.cursor
        BY <2>1, <1>f DEF WaitFor, RunRow
    <3>2. QED
        BY <3>1, <1>1
  <2>2. CASE /\ run' = [NoWait(Status(run, "queued")) EXCEPT !.cursor = cl[c].seen.cursor + 1]
             /\ cl[c].seen.wstep \notin Checkpoints
    <3>1. run'.cursor = cl[c].seen.cursor + 1
        BY <2>2, <1>f DEF NoWait, Status, RunRow
    <3>2. cl[c].seen.cursor = cl[c].seen.wstep /\ cl[c].seen.cursor \in Nat
        BY <1>5, SubmissionType DEF ConcludeSubmission, Submitting, GateInv, IInv, Steps
    <3>3. \A s \in EnabledSteps : s < cl[c].seen.cursor => Settled(s)
        BY <1>5, <1>f DEF ConcludeSubmission, Submitting, GateInv, SubmissionsGated, Passed
    <3>4. PICK i \in DOMAIN artifacts : artifacts[i].step = cl[c].seen.wstep
        BY <1>5 DEF ConcludeSubmission, GateInv, IInv, SavedInOrder, Saved
    <3>5. i \in DOMAIN artifacts' /\ artifacts'[i].step = cl[c].seen.wstep
        BY <3>4, <1>f DEF Kept
    <3>6. \A s : s = cl[c].seen.wstep => Settled(s)'
        BY <2>2, <3>5, <1>f, SettledBySaving
    <3>7. QED
        BY <3>1, <3>2, <3>3, <3>6, <1>f
  <2>3. QED
      BY <1>5, <2>1, <2>2 DEF ConcludeSubmission
<1>6. CASE Worker
  <2>1. CASE ~WSkip /\ ~WAdvance
    <3>1. \/ run' = run
          \/ \E s \in Statuses : run' = NoWait(Status(run, s))
          \/ \E s \in Statuses : run' = Status([run EXCEPT !.budget = TRUE], s)
          \/ \E s, a : run' = WaitFor(run, "execute_step", s, a)
          \/ \E s, a : run' = WaitFor([run EXCEPT !.budget = TRUE], "budget_exhausted", s, a)
          \/ run' = [run EXCEPT !.feedback = FALSE]
        BY <1>6, <2>1 DEF Worker, WPickUp, WBegin, WStart, WTakeStep, WLoopCancelled,
           WLoopBudget, WLoopExit, WPause, WWait, WCall, WInfer, WReturned, WRecord, WArtifact,
           WPersisted, WComplete, WCancelled, WBudget, WFail, FailActive, Statuses
    <3>2. run'.cursor = run.cursor
        BY <3>1, <1>f DEF NoWait, Status, WaitFor, RunRow
    <3>3. QED
        BY <3>2, <1>1
  <2>2. QED
      BY <1>2, <1>3, <2>1
<1>7. ASSUME NEW c \in Clients, Call(c) \/ Proceed(c), ~FinishReview(c), ~ConcludeSubmission(c)
      PROVE  Goal
  <2>1. \/ run' = run
        \/ \E f \in BOOLEAN : run' = [NoWait(Status(run, "rejected")) EXCEPT !.feedback = f]
        \/ run' = [NoWait(Status(run, "cancelled")) EXCEPT !.cancel = TRUE]
        \/ run' = [run EXCEPT !.cancel = TRUE]
        \/ run' = [run EXCEPT !.feedback = FALSE]
      BY <1>7 DEF Call, Proceed, ReadReview, ReadReject, ReadCancel, ReadSubmit, WriteReject,
         WriteCancel, WriteSoftCancel, SaveSubmission, RecordSubmission, FindArtifact,
         AddArtifact, SettleSubmission
  <2>2. run'.cursor = run.cursor
      BY <2>1, <1>f DEF NoWait, Status, RunRow
  <2>3. QED
      BY <2>2, <1>1
<1>8. CASE Restart
  <2>1. run' = run \/ run' = NoWait(Status(run, "cancelled")) \/ run' = Status(run, "queued")
      BY <1>8 DEF Restart, Recovered
  <2>2. run'.cursor = run.cursor
      BY <2>1, <1>f DEF NoWait, Status, RunRow
  <2>3. QED
      BY <2>2, <1>1
<1>9. CASE Crash \/ UNCHANGED vars
  <2>1. run' = run
      BY <1>9 DEF Crash, vars
  <2>2. QED
      BY <2>1, <1>1
<1>10. QED
    BY <1>4, <1>5, <1>6, <1>7, <1>8, <1>9 DEF Next

LEMMA WorkerGate ==
    ASSUME GateInv, [Next]_vars, ~run'.budget, Executing'
    PROVE  \A s \in EnabledSteps : s < w'.idx => Settled(s)'
<1> DEFINE Goal == \A s \in EnabledSteps : s < w'.idx => Settled(s)'
<1>f. /\ ~run.budget /\ Kept /\ Backed'
      /\ \A s \in EnabledSteps : s \in Nat /\ s < NSteps
      /\ \A s \in EnabledSteps : Settled(s) => Settled(s)'
      /\ \A s \in EnabledSteps : s < run.cursor => Settled(s)
      /\ Executing => \A s \in EnabledSteps : s < w.idx => Settled(s)
      /\ run \in RunRow /\ w \in WorkerState /\ NSteps \in Nat
    BY GateFacts
<1>0. w.idx \in Nat
    BY <1>f DEF WorkerState
<1>1. CASE w'.idx = w.idx /\ Executing
    BY <1>1, <1>f
<1>2. CASE WPickUp
  <2>1. w'.idx = run.cursor
      BY <1>2 DEF WPickUp, Rest
  <2>2. QED
      BY <2>1, <1>f
<1>3. CASE WSkip
  <2>1. w'.idx = w.idx + 1 /\ w.idx \notin EnabledSteps /\ Executing
      BY <1>3, <1>f DEF WSkip, WorkerState, Executing
  <2>2. QED
      BY <2>1, <1>f, <1>0
<1>4. CASE WAdvance
  <2>1. CASE w' = Rest
      BY <2>1 DEF Rest, Executing
  <2>2. CASE w' = [w EXCEPT !.pc = "loop", !.idx = w.idx + 1] /\ w.idx \notin Checkpoints
    <3>1. w'.idx = w.idx + 1 /\ Executing
        BY <1>4, <2>2, <1>f DEF WAdvance, WorkerState, Executing
    <3>2. \A s : s = w.idx => Settled(s)'
        BY <1>4, <2>2, <1>f, AdvanceSettles
    <3>3. QED
        BY <3>1, <3>2, <1>f, <1>0
  <2>3. QED
      BY <1>4, <2>1, <2>2 DEF WAdvance
<1>5. CASE WTakeStep
  <2>1. PICK a \in Attempts :
            \E pc \in {IF w.idx \in HumanSteps THEN "pause" ELSE "call", "fail"} :
               w' = [w EXCEPT !.pc = pc, !.att = a, !.tries = 0, !.revising = run.feedback]
      BY <1>5 DEF WTakeStep
  <2>2. w'.idx = w.idx /\ Executing
      BY <1>5, <2>1, <1>f DEF WTakeStep, WorkerState, Executing
  <2>3. QED
      BY <2>2, <1>1
<1>6. CASE WBegin \/ WStart \/ WLoopCancelled \/ WLoopBudget \/ WLoopExit \/ WPause
  <2>1. Executing /\ \E pc : w' = [w EXCEPT !.pc = pc]
      BY <1>6 DEF WBegin, WStart, WLoopCancelled, WLoopBudget, WLoopExit, WPause, Executing
  <2>2. QED
      BY <2>1, <1>1, <1>f DEF WorkerState
<1>7. CASE WCall \/ WInfer \/ WReturned \/ WRecord \/ WArtifact \/ WPersisted
  <2>1. /\ Executing
        /\ \/ \E pc : w' = [w EXCEPT !.pc = pc]
           \/ w' = [w EXCEPT !.pc = "infer", !.tries = w.tries + 1]
      BY <1>7 DEF WCall, WInfer, WReturned, WRecord, WArtifact, WPersisted, Executing
  <2>2. QED
      BY <2>1, <1>1, <1>f DEF WorkerState
<1>8. CASE w' = Rest \/ w' = [Rest EXCEPT !.pc = "down"]
    BY <1>8 DEF Rest, Executing
<1>9. CASE Worker
    BY <1>9, <1>2, <1>3, <1>4, <1>5, <1>6, <1>7, <1>8
    DEF Worker, WWait, WComplete, WCancelled, WBudget, WFail
<1>10. CASE w' = w
    BY <1>10, <1>1 DEF Executing
<1>11. ASSUME NEW c \in Clients, Call(c) \/ Proceed(c) PROVE w' = w
    BY <1>11 DEF Call, Proceed, ReadReview, ReadReject, ReadCancel, ReadSubmit, FinishReview,
       WriteReject, WriteCancel, WriteSoftCancel, SaveSubmission, RecordSubmission,
       FindArtifact, AddArtifact, SettleSubmission, ConcludeSubmission
<1>12. QED
    BY <1>8, <1>9, <1>10, <1>11 DEF Next, Crash, Restart, vars

LEMMA CompletionGate ==
    ASSUME GateInv, [Next]_vars, ~run'.budget, run'.status = "completed"
    PROVE  \A s \in EnabledSteps : Settled(s)'
<1> DEFINE Goal == \A s \in EnabledSteps : Settled(s)'
<1>f. /\ ~run.budget
      /\ \A s \in EnabledSteps : s \in Nat /\ s < NSteps
      /\ \A s \in EnabledSteps : Settled(s) => Settled(s)'
      /\ Executing => \A s \in EnabledSteps : s < w.idx => Settled(s)
      /\ run \in RunRow
    BY GateFacts
<1>1. CASE run.status = "completed"
    BY <1>1, <1>f DEF GateInv, CompletedMeansReviewed, Passed
<1>2. CASE WComplete
  <2>1. w.idx = NSteps /\ Executing
      BY <1>2 DEF WComplete, GateInv, IInv, InFlight, WorkerInFlight, Executing
  <2>2. QED
      BY <2>1, <1>f
<1>3. ASSUME NEW c \in Clients, FinishReview(c) PROVE Goal
  <2>1. CASE ~StillReviewable(c)
      BY <1>3, <1>1, <2>1 DEF FinishReview
  <2>2. CASE StillReviewable(c)
    <3>1. run' = Decided(run, cl[c].approve, cl[c].feedback)
        BY <1>3, <2>2 DEF FinishReview
    <3>2. run'.cursor = NSteps
        BY <3>1, <1>f DEF Decided, NoWait, Status, RunRow
    <3>3. QED
        BY <3>2, <1>f, CursorGate
  <2>3. QED
      BY <2>1, <2>2
<1>4. CASE Worker
  <2>1. CASE ~WComplete
    <3>1. \/ run'.status = run.status
          \/ \E s \in {"running", "cancelled", "failed"} : run' = NoWait(Status(run, s))
          \/ run' = Status([run EXCEPT !.budget = TRUE], "failed")
          \/ \E r, why, s, a : run' = WaitFor(r, why, s, a) /\ r \in RunRow
      <4>1. CASE WAdvance
        <5>1. run' = [run EXCEPT !.cursor = w.idx + 1] => run'.status = run.status
            BY <1>f DEF RunRow
        <5>2. [run EXCEPT !.cursor = w.idx] \in RunRow
            BY <4>1, <1>f, StepsAssumption DEF WAdvance, GateInv, IInv, InFlight, WorkerInFlight,
               InStep, RunRow, Steps
        <5>3. QED
            BY <4>1, <5>1, <5>2 DEF WAdvance
      <4>2. CASE WBudget
        <5>1. [run EXCEPT !.budget = TRUE] \in RunRow
            BY <1>f DEF RunRow
        <5>2. QED
            BY <4>2, <5>1 DEF WBudget
      <4>3. CASE WSkip \/ WPersisted
          BY <4>3, <1>f DEF WSkip, WPersisted, RunRow
      <4>4. QED
          BY <1>4, <2>1, <4>1, <4>2, <4>3, <1>f DEF Worker, WPickUp, WBegin, WStart, WTakeStep,
             WLoopCancelled, WLoopBudget, WLoopExit, WPause, WWait, WCall, WInfer, WReturned,
             WRecord, WArtifact, WCancelled, WFail, FailActive
    <3>2. run'.status = run.status
        BY <3>1, <1>f DEF NoWait, Status, WaitFor, RunRow
    <3>3. QED
        BY <3>2, <1>1
  <2>2. QED
      BY <1>2, <2>1
<1>5. ASSUME NEW c \in Clients, Call(c) \/ Proceed(c), ~FinishReview(c) PROVE Goal
  <2>1. \/ run' = run
        \/ \E f \in BOOLEAN : run' = [NoWait(Status(run, "rejected")) EXCEPT !.feedback = f]
        \/ run' = [NoWait(Status(run, "cancelled")) EXCEPT !.cancel = TRUE]
        \/ run' = [run EXCEPT !.cancel = TRUE]
        \/ run' = [run EXCEPT !.feedback = FALSE]
        \/ \E s, a : run' = WaitFor(run, "review", s, a)
        \/ \E n : run' = [NoWait(Status(run, "queued")) EXCEPT !.cursor = n]
      BY <1>5 DEF Call, Proceed, ReadReview, ReadReject, ReadCancel, ReadSubmit, WriteReject,
         WriteCancel, WriteSoftCancel, SaveSubmission, RecordSubmission, FindArtifact,
         AddArtifact, SettleSubmission, ConcludeSubmission
  <2>2. run'.status = run.status
      BY <2>1, <1>f DEF NoWait, Status, WaitFor, RunRow
  <2>3. QED
      BY <2>2, <1>1
<1>6. CASE Restart
  <2>1. run' = run \/ run' = NoWait(Status(run, "cancelled")) \/ run' = Status(run, "queued")
      BY <1>6 DEF Restart, Recovered
  <2>2. run'.status = run.status
      BY <2>1, <1>f DEF NoWait, Status, RunRow
  <2>3. QED
      BY <2>2, <1>1
<1>7. CASE Crash \/ UNCHANGED vars
    BY <1>7, <1>1 DEF Crash, vars
<1>8. QED
    BY <1>3, <1>4, <1>5, <1>6, <1>7 DEF Next

LEMMA SubmissionGate ==
    ASSUME GateInv, [Next]_vars, ~run'.budget, NEW d \in Clients, cl'[d].pc \in Submitting
    PROVE  \A s \in EnabledSteps : s < cl'[d].seen.cursor => Settled(s)'
<1> DEFINE Goal == \A s \in EnabledSteps : s < cl'[d].seen.cursor => Settled(s)'
<1>f. /\ ~run.budget
      /\ \A s \in EnabledSteps : Settled(s) => Settled(s)'
      /\ \A s \in EnabledSteps : s < run.cursor => Settled(s)
      /\ run \in RunRow
    BY GateFacts
<1>0. cl \in [Clients -> ClientState] /\ cl[d] \in ClientState
    BY DEF GateInv, IInv, TypeOK
<1>1. CASE cl[d].pc \in Submitting /\ cl'[d].seen = cl[d].seen
    BY <1>1, <1>f DEF GateInv, SubmissionsGated, Passed
<1>2. CASE cl'[d] = cl[d]
    BY <1>1, <1>2
<1>3. ASSUME NEW c \in Clients, Call(c) \/ Proceed(c) PROVE Goal
  <2>1. CASE c # d
    <3>1. cl'[d] = cl[d]
        BY <1>3, <2>1, <1>0 DEF Call, Proceed, ReadReview, ReadReject, ReadCancel, ReadSubmit,
           FinishReview, WriteReject, WriteCancel, WriteSoftCancel, SaveSubmission,
           RecordSubmission, FindArtifact, AddArtifact, SettleSubmission, ConcludeSubmission
    <3>2. QED
        BY <3>1, <1>2
  <2>2. CASE ReadSubmit(d)
    <3>1. cl'[d].seen = Seen(run)
        BY <2>2, <1>0 DEF ReadSubmit, Idle
    <3>2. Seen(run).cursor = run.cursor
        BY <1>f DEF Seen, RunRow
    <3>3. QED
        BY <3>1, <3>2, <1>f
  <2>3. CASE ReadReview(d)
    <3>1. cl'[d].pc = "finish"
        BY <2>3, <1>0 DEF ReadReview
    <3>2. QED
        BY <3>1 DEF Submitting
  <2>4. CASE ReadReject(d) \/ ReadCancel(d)
    <3>1. cl'[d].pc \in {"reject", "cancel", "soft_cancel"}
        BY <2>4, <1>0 DEF ReadReject, ReadCancel, Idle
    <3>2. QED
        BY <3>1 DEF Submitting
  <2>5. CASE cl' = [cl EXCEPT ![d] = Idle]
    <3>1. cl'[d].pc = "idle"
        BY <2>5, <1>0 DEF Idle
    <3>2. QED
        BY <3>1 DEF Submitting
  <2>6. CASE SaveSubmission(d) \/ RecordSubmission(d) \/ FindArtifact(d) \/ AddArtifact(d)
    <3>1. cl[d].pc \in Submitting /\ \E pc : cl' = [cl EXCEPT ![d].pc = pc]
        BY <2>6 DEF SaveSubmission, RecordSubmission, FindArtifact, AddArtifact, Submitting
    <3>2. QED
        BY <3>1, <1>0, <1>1 DEF ClientState
  <2>7. CASE SettleSubmission(d)
    <3>1. /\ cl[d].pc \in Submitting
          /\ cl' = [cl EXCEPT ![d] = Idle] \/ cl' = [cl EXCEPT ![d].pc = "conclude"]
        BY <2>7 DEF SettleSubmission, Submitting
    <3>2. QED
        BY <3>1, <2>5, <1>0, <1>1 DEF ClientState
  <2>8. QED
      BY <1>3, <2>1, <2>2, <2>3, <2>4, <2>5, <2>6, <2>7 DEF Call, Proceed, FinishReview,
         WriteReject, WriteCancel, WriteSoftCancel, ConcludeSubmission
<1>4. CASE Worker \/ Restart \/ UNCHANGED vars
  <2>1. cl' = cl
      BY <1>4 DEF Worker, Restart, vars, WPickUp, WBegin, WStart, WSkip, WTakeStep,
         WLoopCancelled, WLoopBudget, WLoopExit, WPause, WWait, WCall, WInfer, WReturned,
         WRecord, WArtifact, WPersisted, WAdvance, WComplete, WCancelled, WBudget, WFail
  <2>2. QED
      BY <2>1, <1>2
<1>5. CASE Crash
  <2>1. cl'[d].pc = "idle"
      BY <1>5 DEF Crash, Idle
  <2>2. QED
      BY <2>1 DEF Submitting
<1>6. QED
    BY <1>3, <1>4, <1>5 DEF Next

LEMMA GateStep == GateInv /\ [Next]_vars => GateInv'
<1> SUFFICES ASSUME GateInv, [Next]_vars PROVE GateInv'
    OBVIOUS
<1>1. IInv'
    BY InvariantStep DEF GateInv
<1>2. HumanGate'
    BY CursorGate, WorkerGate DEF HumanGate, Passed
<1>3. CompletedMeansReviewed'
    BY CompletionGate DEF CompletedMeansReviewed, Passed
<1>4. SubmissionsGated'
    BY SubmissionGate DEF SubmissionsGated, Passed
<1>5. QED
    BY <1>1, <1>2, <1>3, <1>4 DEF GateInv

LEMMA InitGate == Init => GateInv
<1> SUFFICES ASSUME Init PROVE GateInv
    OBVIOUS
<1>1. IInv
    BY InitInvariant
<1>2. /\ w.pc = "idle" /\ run.status = "queued" /\ run.cursor = 0
      /\ \A c \in Clients : cl[c].pc = "idle"
    BY DEF Init, Rest, Idle, NewRun
<1>3. \A s \in EnabledSteps : ~(s < 0)
    BY StepsAssumption DEF Steps
<1>4. HumanGate /\ CompletedMeansReviewed /\ SubmissionsGated
    BY <1>2, <1>3 DEF HumanGate, CompletedMeansReviewed, SubmissionsGated, Passed, Executing, Submitting
<1>5. QED
    BY <1>1, <1>4 DEF GateInv

LEMMA Gate == Spec => []GateInv
    BY InitGate, GateStep, PTL DEF Spec

(* Human review gates the workflow, whatever the workflow, the operators    *)
(* and their stale reads, the interleaving and the crashes: as long as the  *)
(* budget did not stop the run, every checkpoint behind the cursor and      *)
(* behind the worker was approved.                                          *)
THEOREM ReviewGates == Spec => []HumanGate
<1>1. GateInv => HumanGate
    BY DEF GateInv
<1>2. QED
    BY <1>1, Gate, PTL

(* A run completed within its budget has all its results and approvals.     *)
THEOREM CompletionIsReviewed == Spec => []CompletedMeansReviewed
<1>1. GateInv => CompletedMeansReviewed
    BY DEF GateInv
<1>2. QED
    BY <1>1, Gate, PTL

-----------------------------------------------------------------------------
(***************************************************************************)
(* RunLifecycle implements RunStatus: each step of the detailed run is a   *)
(* step of the status protocol, or leaves status, flag, worker and         *)
(* submission alone.                                                       *)
(***************************************************************************)
HIDE DEF At, Doing, Goto, Goes, Done, Begins, calls, rows, db, Serving

ProtocolStep == [Protocol!Next]_(Protocol!vars)

(* The parts of a row that its rewritings change, and those they keep.      *)
LEMMA RowFields ==
    ASSUME NEW r \in RunRow
    PROVE  /\ \A s : /\ NoWait(Status(r, s)).status = s
                     /\ NoWait(Status(r, s)).cancel = r.cancel
                     /\ Status(r, s).status = s
                     /\ Status(r, s).cancel = r.cancel
           /\ \A why, s, a : /\ WaitFor(r, why, s, a).status = "waiting_human"
                             /\ WaitFor(r, why, s, a).cancel = r.cancel
           /\ \A e : /\ [r EXCEPT !.cursor = e].status = r.status
                     /\ [r EXCEPT !.cursor = e].cancel = r.cancel
                     /\ [r EXCEPT !.feedback = e].status = r.status
                     /\ [r EXCEPT !.feedback = e].cancel = r.cancel
                     /\ [r EXCEPT !.cancel = e].status = r.status
                     /\ [r EXCEPT !.cancel = e].cancel = e
    BY DEF NoWait, Status, WaitFor, RunRow, Statuses

(* Where no operation moves, nothing is submitted that was not before.      *)
LEMMA OthersSubmit ==
    ASSUME TypeOK, NEW c \in Clients, NEW op, cl' = [cl EXCEPT ![c] = op]
    PROVE  (cl[c].pc \in Submitting <=> op.pc \in Submitting)
               => BeingSubmitted' = BeingSubmitted
    BY DEF TypeOK, BeingSubmitted

(* Steps of the worker that write no status, and the taking of the run.     *)
LEMMA WorkerQuiet ==
    ASSUME TypeOK, cl' = cl,
           WPickUp \/ WBegin \/ WSkip \/ WTakeStep \/ WLoopCancelled \/ WLoopBudget
           \/ WLoopExit \/ WPause \/ WCall \/ WInfer \/ WReturned \/ WRecord \/ WArtifact
           \/ WPersisted
    PROVE  ProtocolStep
<1>0. BeingSubmitted' = BeingSubmitted /\ w \in WorkerState /\ run \in RunRow
    BY DEF BeingSubmitted, TypeOK
<1>1. CASE WPickUp
  <2>1. run' = run /\ w.pc = "idle" /\ w'.pc = "begin"
        /\ run.status = "queued" /\ ~run.cancel
      BY <1>1 DEF WPickUp, At, Rest, db
  <2>2. Protocol!Take
      BY <2>1, <1>0 DEF Protocol!Take, WorkerStatus
  <2>3. QED
      BY <2>2 DEF ProtocolStep, Protocol!Next
<1>2. CASE ~WPickUp
  <2>0. \/ run' = run
        \/ \E e : run' = [run EXCEPT !.cursor = e] \/ run' = [run EXCEPT !.feedback = e]
      BY <1>2
         DEF WBegin, WSkip, WTakeStep, WLoopCancelled, WLoopBudget, WLoopExit, WPause, WCall,
             WInfer, WReturned, WRecord, WArtifact, WPersisted, db
  <2>1. run'.status = run.status /\ run'.cancel = run.cancel
      BY <2>0, <1>0 DEF RunRow
  <2>2. w.pc \notin {"idle", "down"} /\ w'.pc \notin {"idle", "down"}
      BY <1>2, <1>0
         DEF WBegin, WSkip, WTakeStep, WLoopCancelled, WLoopBudget, WLoopExit, WPause, WCall,
             WInfer, WReturned, WRecord, WArtifact, WPersisted, At, Goto, WorkerState
  <2>3. WorkerStatus' = WorkerStatus
      BY <2>2 DEF WorkerStatus
  <2>4. QED
      BY <1>0, <2>1, <2>3 DEF ProtocolStep, Protocol!vars
<1>3. QED
    BY <1>1, <1>2

(* The worker makes the run running, keeps it so, or lets it go.            *)
LEMMA WorkerWrites ==
    ASSUME TypeOK, cl' = cl,
           WStart \/ WWait \/ WAdvance \/ WComplete \/ WCancelled \/ WBudget \/ WFail
    PROVE  ProtocolStep
<1>0. BeingSubmitted' = BeingSubmitted /\ w \in WorkerState /\ run \in RunRow
    BY DEF BeingSubmitted, TypeOK
<1>1. CASE WStart
  <2>1. w.pc = "start" /\ w'.pc = "loop"
      BY <1>1, <1>0 DEF WStart, At, Goto, WorkerState
  <2>2. run'.status = "running" /\ run'.cancel = run.cancel
      BY <1>1, <1>0, RowFields DEF WStart
  <2>3. Protocol!Begin
      BY <1>0, <2>1, <2>2 DEF Protocol!Begin, WorkerStatus
  <2>4. QED
      BY <2>3 DEF ProtocolStep, Protocol!Next
<1>2. CASE w.pc = "advance" /\ WAdvance /\ w.idx \notin Checkpoints
  <2>0. run' = [run EXCEPT !.cursor = w.idx + 1]
        /\ w' = [w EXCEPT !.pc = "loop", !.idx = w.idx + 1]
      BY <1>2 DEF WAdvance
  <2>1. run'.status = run.status /\ run'.cancel = run.cancel /\ w'.pc = "loop"
      BY <2>0, <1>0 DEF RunRow, WorkerState
  <2>2. QED
      BY <1>0, <1>2, <2>1 DEF ProtocolStep, Protocol!vars, WorkerStatus
<1>3. ASSUME w.pc \notin {"idle", "down"}, w' = Rest, run'.cancel = run.cancel,
             \/ run'.status \in {"waiting_human", "completed", "cancelled", "failed"}
             \/ run.status \notin {"queued", "running"} /\ run'.status = run.status
      PROVE  ProtocolStep
  <2>1. w'.pc = "idle"
      BY <1>3 DEF Rest
  <2>2. Protocol!Leave
      BY <1>0, <1>3, <2>1 DEF Protocol!Leave, Protocol!Settled, Protocol!Active, WorkerStatus
  <2>3. QED
      BY <2>2 DEF ProtocolStep, Protocol!Next
<1>4. CASE WWait
  <2>1. w.pc = "wait" /\ w' = Rest /\ run' = WaitFor(run, "execute_step", w.idx, w.att)
      BY <1>4 DEF WWait, At
  <2>2. QED
      BY <2>1, <1>0, <1>3, RowFields
<1>5. CASE WAdvance /\ w.idx \in Checkpoints
  <2>1. w.pc = "advance" /\ w' = Rest
        /\ run' = WaitFor([run EXCEPT !.cursor = w.idx], "review", w.idx, w.att)
      BY <1>5 DEF WAdvance, At
  <2>2. run'.status = "waiting_human" /\ run'.cancel = run.cancel
      BY <2>1, <1>0 DEF RunRow, WaitFor
  <2>3. QED
      BY <2>1, <2>2, <1>3
<1>6. CASE WComplete \/ WCancelled
  <2>1. w.pc \in {"complete", "cancelled"} /\ w' = Rest
        /\ run' = NoWait(Status(run, IF WComplete THEN "completed" ELSE "cancelled"))
      BY <1>6 DEF WComplete, WCancelled, At
  <2>2. QED
      BY <2>1, <1>0, <1>3, RowFields
<1>7. CASE WBudget
  <2>1. [run EXCEPT !.budget = TRUE] \in RunRow
        /\ [run EXCEPT !.budget = TRUE].cancel = run.cancel
      BY <1>0 DEF RunRow
  <2>2. w.pc = "budget" /\ w' = Rest
      BY <1>7 DEF WBudget, At
  <2>3. \/ run' = Status([run EXCEPT !.budget = TRUE], "failed")
        \/ \E s, a : run' = WaitFor([run EXCEPT !.budget = TRUE], "budget_exhausted", s, a)
      <3>1. CASE artifacts = <<>>
          BY <1>7, <3>1 DEF WBudget
      <3>2. CASE artifacts # <<>>
        <4>1. run' = WaitFor([run EXCEPT !.budget = TRUE], "budget_exhausted",
                             artifacts[Len(artifacts)].step, artifacts[Len(artifacts)].att)
            BY <1>7, <3>2 DEF WBudget
        <4>2. QED
            BY <4>1
      <3>3. QED
          BY <3>1, <3>2
  <2>4. run'.status \in {"waiting_human", "failed"} /\ run'.cancel = run.cancel
    <3> DEFINE stopped == [run EXCEPT !.budget = TRUE]
    <3>1. stopped \in RunRow /\ stopped.cancel = run.cancel
        BY <2>1
    <3>2. run' = Status(stopped, "failed")
          \/ \E s, a : run' = WaitFor(stopped, "budget_exhausted", s, a)
        BY <2>3
    <3> HIDE DEF stopped
    <3>3. QED
        BY <3>1, <3>2, RowFields
  <2>5. QED
      BY <2>2, <2>4, <1>3
<1>8. CASE WFail
  <2>1. w.pc = "fail" /\ w' = Rest /\ run' = FailActive(run)
      BY <1>8 DEF WFail, At
  <2>2. QED
      BY <2>1, <1>0, <1>3, RowFields DEF FailActive
<1>9. QED
    BY <1>1, <1>2, <1>4, <1>5, <1>6, <1>7, <1>8 DEF WAdvance, At

LEMMA WorkerImplements == TypeOK /\ Worker => ProtocolStep
<1> SUFFICES ASSUME TypeOK, Worker PROVE ProtocolStep
    OBVIOUS
<1>1. cl' = cl
    BY DEF Worker, WPickUp, WBegin, WStart, WSkip, WTakeStep, WLoopCancelled, WLoopBudget,
       WLoopExit, WPause, WWait, WCall, WInfer, WReturned, WRecord, WArtifact, WPersisted,
       WAdvance, WComplete, WCancelled, WBudget, WFail
<1>2. QED
    BY <1>1, WorkerQuiet, WorkerWrites DEF Worker

(* The first half of an operation writes nothing; a submission begins while *)
(* the run waits for it.                                                    *)
LEMMA CallImplements == TypeOK /\ (\E c \in Clients : Call(c)) => ProtocolStep
<1> SUFFICES ASSUME TypeOK, NEW c \in Clients, Call(c) PROVE ProtocolStep
    OBVIOUS
<1>1. run' = run /\ w' = w /\ WorkerStatus' = WorkerStatus
    BY DEF Call, ReadReview, ReadReject, ReadCancel, ReadSubmit, db, WorkerStatus
<1>2. CASE ReadSubmit(c)
  <2>1. PICK i : SubmitPoint(i)
                 /\ cl' = [cl EXCEPT ![c] = [Idle EXCEPT !.pc = "save", !.seen = Seen(run),
                                                         !.row = i]]
      BY <1>2 DEF ReadSubmit
  <2>2. cl'[c].pc = "save"
      BY <2>1 DEF Idle, TypeOK
  <2>3. BeingSubmitted' /\ run.status = "waiting_human" /\ ~run.cancel
      BY <2>1, <2>2 DEF BeingSubmitted, SubmitPoint, Submitting
  <2>4. Protocol!Submit
      BY <1>1, <2>3 DEF Protocol!Submit
  <2>5. QED
      BY <2>4 DEF ProtocolStep, Protocol!Next
<1>3. CASE ~ReadSubmit(c)
  <2>1. cl[c].pc = "idle"
      BY <1>3 DEF Call, ReadReview, ReadReject, ReadCancel, Doing
  <2>2. ASSUME ReadReview(c) PROVE BeingSubmitted' = BeingSubmitted
    <3>1. PICK i \in DOMAIN artifacts, approve \in BOOLEAN, feedback \in BOOLEAN :
              cl' = [cl EXCEPT ![c] = [pc |-> "finish", seen |-> Seen(run), row |-> i,
                                       approve |-> approve, marked |-> artifacts[i].approved,
                                       feedback |-> feedback]]
        BY <2>2 DEF ReadReview
    <3> DEFINE op == [pc |-> "finish", seen |-> Seen(run), row |-> i, approve |-> approve,
                      marked |-> artifacts[i].approved, feedback |-> feedback]
    <3>2. op.pc \notin Submitting
        BY DEF Submitting
    <3>3. cl[c].pc \notin Submitting /\ cl' = [cl EXCEPT ![c] = op]
        BY <3>1, <2>1 DEF Submitting
    <3> HIDE DEF op
    <3>4. QED
        BY <3>2, <3>3, OthersSubmit
  <2>3. ASSUME ReadReject(c) \/ ReadCancel(c) PROVE BeingSubmitted' = BeingSubmitted
    <3>1. PICK pc \in {"reject", "cancel", "soft_cancel"} :
              cl' = [cl EXCEPT ![c] = [Idle EXCEPT !.pc = pc]]
        BY <2>3 DEF ReadReject, ReadCancel, Begins
    <3> DEFINE op == [Idle EXCEPT !.pc = pc]
    <3>2. op.pc \notin Submitting
        BY DEF Idle, Submitting
    <3>3. cl[c].pc \notin Submitting /\ cl' = [cl EXCEPT ![c] = op]
        BY <3>1, <2>1 DEF Submitting
    <3> HIDE DEF op
    <3>4. QED
        BY <3>2, <3>3, OthersSubmit
  <2>4. BeingSubmitted' = BeingSubmitted
      BY <1>3, <2>2, <2>3 DEF Call
  <2>5. QED
      BY <1>1, <2>4 DEF ProtocolStep, Protocol!vars
<1>4. QED
    BY <1>2, <1>3

(* The second half of an operation on the run row.                          *)
LEMMA DecisionImplements ==
    ASSUME TypeOK, NEW c \in Clients,
           FinishReview(c) \/ WriteReject(c) \/ WriteCancel(c) \/ WriteSoftCancel(c)
    PROVE  ProtocolStep
<1>0. run \in RunRow /\ w' = w /\ WorkerStatus' = WorkerStatus
    BY DEF TypeOK, FinishReview, WriteReject, WriteCancel, WriteSoftCancel, WorkerStatus
<1>1. BeingSubmitted' = BeingSubmitted
  <2>1. cl[c].pc \in {"finish", "reject", "cancel", "soft_cancel"} /\ cl' = [cl EXCEPT ![c] = Idle]
      BY DEF FinishReview, WriteReject, WriteCancel, WriteSoftCancel, Done, Doing
  <2>2. Idle.pc \notin Submitting /\ cl[c].pc \notin Submitting
      BY <2>1 DEF Idle, Submitting
  <2>3. QED
      BY <2>1, <2>2, OthersSubmit
<1>2. CASE FinishReview(c) /\ StillReviewable(c)
  <2>1. run' = Decided(run, cl[c].approve, cl[c].feedback)
        /\ run.status = "waiting_human" /\ ~run.cancel
      BY <1>2 DEF FinishReview, StillReviewable
  <2>2. run'.status \in {"queued", "completed"} /\ run'.cancel = run.cancel
      BY <2>1, <1>0 DEF Decided, NoWait, Status, RunRow
  <2>3. Protocol!Decide
      BY <1>0, <1>1, <2>1, <2>2 DEF Protocol!Decide
  <2>4. QED
      BY <2>3 DEF ProtocolStep, Protocol!Next
<1>3. CASE FinishReview(c) /\ ~StillReviewable(c)
  <2>1. run' = run
      BY <1>3 DEF FinishReview
  <2>2. QED
      BY <2>1, <1>0, <1>1 DEF ProtocolStep, Protocol!vars
<1>4. ASSUME run'.status \in {run.status, "rejected", "cancelled"}, run.cancel => run'.cancel
      PROVE  ProtocolStep
  <2>1. Protocol!Operate
      BY <1>0, <1>1, <1>4 DEF Protocol!Operate
  <2>2. QED
      BY <2>1 DEF ProtocolStep, Protocol!Next
<1>5. CASE WriteReject(c)
  <2>1. PICK feedback : run' = [NoWait(Status(run, "rejected")) EXCEPT !.feedback = feedback]
      BY <1>5 DEF WriteReject
  <2>2. run'.status = "rejected" /\ run'.cancel = run.cancel
      BY <2>1, <1>0 DEF NoWait, Status, RunRow
  <2>3. QED
      BY <2>2, <1>4
<1>6. CASE WriteCancel(c)
  <2>1. run' = [NoWait(Status(run, "cancelled")) EXCEPT !.cancel = TRUE]
      BY <1>6 DEF WriteCancel
  <2>2. run'.status = "cancelled" /\ run'.cancel
      BY <2>1, <1>0 DEF NoWait, Status, RunRow
  <2>3. QED
      BY <2>2, <1>4
<1>7. CASE WriteSoftCancel(c)
  <2>1. run' = [run EXCEPT !.cancel = TRUE]
      BY <1>7 DEF WriteSoftCancel
  <2>2. run'.status = run.status /\ run'.cancel
      BY <2>1, <1>0 DEF RunRow
  <2>3. QED
      BY <2>2, <1>4
<1>8. QED
    BY <1>2, <1>3, <1>5, <1>6, <1>7

(* A submission writes its rows, and in the end a review or the queue.      *)
LEMMA SubmissionImplements ==
    ASSUME TypeOK, NEW c \in Clients,
           SaveSubmission(c) \/ RecordSubmission(c) \/ FindArtifact(c) \/ AddArtifact(c)
           \/ SettleSubmission(c) \/ ConcludeSubmission(c)
    PROVE  ProtocolStep
<1>0. run \in RunRow /\ w' = w /\ WorkerStatus' = WorkerStatus
    BY DEF TypeOK, SaveSubmission, RecordSubmission, FindArtifact, AddArtifact,
           SettleSubmission, ConcludeSubmission, WorkerStatus
<1>1. BeingSubmitted
    BY DEF SaveSubmission, RecordSubmission, FindArtifact, AddArtifact,
           SettleSubmission, ConcludeSubmission, Doing, BeingSubmitted, Submitting
<1>2. BeingSubmitted' \in BOOLEAN
    BY DEF BeingSubmitted
<1>3. ASSUME run'.status \in {run.status, "waiting_human", "queued"}, run'.cancel = run.cancel
      PROVE  ProtocolStep
  <2>1. Protocol!Conclude
      BY <1>0, <1>1, <1>2, <1>3 DEF Protocol!Conclude
  <2>2. QED
      BY <2>1 DEF ProtocolStep, Protocol!Next
<1>4. CASE ~SettleSubmission(c) /\ ~ConcludeSubmission(c)
  <2>1. run' = run
      BY <1>4 DEF SaveSubmission, RecordSubmission, FindArtifact, AddArtifact, db
  <2>2. QED
      BY <2>1, <1>3
<1>5. CASE SettleSubmission(c)
  <2>1. run' = [run EXCEPT !.feedback = FALSE]
      BY <1>5 DEF SettleSubmission
  <2>2. QED
      BY <2>1, <1>0, <1>3, RowFields
<1>6. CASE ConcludeSubmission(c)
  <2>1. \/ \E s, a : run' = WaitFor(run, "review", s, a)
        \/ \E n : run' = [NoWait(Status(run, "queued")) EXCEPT !.cursor = n]
    <3>1. CASE cl[c].seen.wstep \in Checkpoints
        BY <1>6, <3>1 DEF ConcludeSubmission
    <3>2. CASE cl[c].seen.wstep \notin Checkpoints
        BY <1>6, <3>2 DEF ConcludeSubmission
    <3>3. QED
        BY <3>1, <3>2
  <2>2. run'.status \in {"waiting_human", "queued"} /\ run'.cancel = run.cancel
      BY <2>1, <1>0 DEF WaitFor, NoWait, Status, RunRow
  <2>3. QED
      BY <2>2, <1>3
<1>7. QED
    BY <1>4, <1>5, <1>6

(* The process ends with everything it serves; recovery starts it again.    *)
LEMMA ProcessImplements == TypeOK /\ (Crash \/ Restart) => ProtocolStep
<1> SUFFICES ASSUME TypeOK, Crash \/ Restart PROVE ProtocolStep
    OBVIOUS
<1>0. run \in RunRow
    BY DEF TypeOK
<1>1. CASE Crash
  <2>1. run' = run /\ w'.pc = "down" /\ cl' = [c \in Clients |-> Idle]
      BY <1>1 DEF Crash, db, Rest
  <2>2. BeingSubmitted' = FALSE
      BY <2>1 DEF BeingSubmitted, Idle, Submitting
  <2>3. WorkerStatus' = "down"
      BY <2>1 DEF WorkerStatus
  <2>4. Protocol!Stop
      BY <2>1, <2>2, <2>3 DEF Protocol!Stop
  <2>5. QED
      BY <2>4 DEF ProtocolStep, Protocol!Next
<1>2. CASE Restart
  <2>1. w.pc = "down" /\ w'.pc = "idle" /\ run' = Recovered(run)
        /\ BeingSubmitted' = BeingSubmitted
      BY <1>2 DEF Restart, At, Rest, BeingSubmitted
  <2>2. \/ run'.status = run.status
        \/ run.status = "running" /\ run'.status \in {"queued", "cancelled"}
      BY <2>1, <1>0, RowFields DEF Recovered
  <2>3. run'.cancel = run.cancel
      BY <2>1, <1>0, RowFields DEF Recovered
  <2>4. Protocol!Recover
      BY <2>1, <2>2, <2>3 DEF Protocol!Recover, WorkerStatus
  <2>5. QED
      BY <2>4 DEF ProtocolStep, Protocol!Next
<1>3. QED
    BY <1>1, <1>2

(* Whatever its steps, reviews, races and crashes, a run changes status     *)
(* only as the protocol allows: it is executed only after it was queued,    *)
(* only its worker makes it running, completes or fails it outside of a     *)
(* decision, and no cancellation is taken back.                             *)
THEOREM RunImplementsProtocol == Spec => KeepsProtocol
<1>1. Init => Protocol!Init
  <2> SUFFICES ASSUME Init PROVE Protocol!Init
      OBVIOUS
  <2>1. run.status = "queued" /\ run.cancel = FALSE
      BY DEF Init, NewRun
  <2>2. WorkerStatus = "free"
      BY DEF Init, Rest, WorkerStatus
  <2>3. BeingSubmitted = FALSE
      BY DEF Init, Idle, BeingSubmitted, Submitting
  <2>4. QED
      BY <2>1, <2>2, <2>3 DEF Protocol!Init
<1>2. TypeOK /\ [Next]_vars => ProtocolStep
  <2> SUFFICES ASSUME TypeOK, [Next]_vars PROVE ProtocolStep
      OBVIOUS
  <2>1. ASSUME NEW c \in Clients, Proceed(c) PROVE ProtocolStep
      BY <2>1, DecisionImplements, SubmissionImplements DEF Proceed
  <2>2. CASE UNCHANGED vars
      BY <2>2 DEF vars, db, ProtocolStep, Protocol!vars, WorkerStatus, BeingSubmitted
  <2>3. QED
      BY <2>1, <2>2, WorkerImplements, CallImplements, ProcessImplements DEF Next
<1>3. QED
    BY <1>1, <1>2, TypeCorrect, PTL DEF Spec, KeepsProtocol, Protocol!Spec, ProtocolStep
=============================================================================
