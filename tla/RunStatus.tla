------------------------------ MODULE RunStatus ------------------------------
(***************************************************************************)
(* The status protocol of one run, with no detail of its steps: who may    *)
(* write which value of runs.status, and when.  RunLifecycle (one run with *)
(* its steps, reviews and races) and WorkerQueue (many runs, threads,      *)
(* runtimes and recovery) both implement it.                               *)
(*                                                                         *)
(* An operator reads a run before writing it, so that what is written may  *)
(* be late: only a decision on a review is compared again when committed.  *)
(***************************************************************************)

VARIABLES
    status,     \* runs.status
    cancel,     \* runs.cancel_requested
    worker,     \* "free", "held" (a thread has the run) or "down"
    submitting  \* whether a submission for the run is being written

vars == <<status, cancel, worker, submitting>>

Active == {"queued", "running"}
Settled == {"waiting_human", "completed", "cancelled", "failed"}

Init ==
    /\ status = "queued" /\ cancel = FALSE
    /\ worker \in {"free", "down"} /\ submitting = FALSE

(* A run is executed only after it was queued and not cancelled.            *)
Take ==
    /\ worker = "free" /\ status = "queued" /\ ~cancel
    /\ worker' = "held"
    /\ UNCHANGED <<status, cancel, submitting>>

(* Only the thread that has the run makes it running, ...                   *)
Begin ==
    /\ worker = "held"
    /\ status' = "running"
    /\ UNCHANGED <<cancel, worker, submitting>>

(* ... and leaves it with an outcome, or as it found it settled.            *)
Leave ==
    /\ worker = "held"
    /\ status' \in Settled \/ (status \notin Active /\ status' = status)
    /\ worker' = "free"
    /\ UNCHANGED <<cancel, submitting>>

(* A decision on a review commits only while the run waits for it.          *)
Decide ==
    /\ status = "waiting_human" /\ ~cancel
    /\ status' \in {"queued", "completed"}
    /\ UNCHANGED <<cancel, worker, submitting>>

(* Rejections and cancellations write without comparing; a cancellation is  *)
(* never taken back.                                                        *)
Operate ==
    /\ status' \in {status, "rejected", "cancelled"}
    /\ cancel => cancel'
    /\ UNCHANGED <<worker, submitting>>

(* A submission starts while the run waits for it, ...                      *)
Submit ==
    /\ status = "waiting_human" /\ ~cancel
    /\ submitting' = TRUE
    /\ UNCHANGED <<status, cancel, worker>>

(* ... and ends in a review, the queue or nothing, whatever happened since. *)
Conclude ==
    /\ submitting
    /\ status' \in {status, "waiting_human", "queued"}
    /\ submitting' \in BOOLEAN
    /\ UNCHANGED <<cancel, worker>>

(* The process, with what it serves, or only its worker thread ends.        *)
Stop ==
    /\ worker' = "down"
    /\ submitting' \in {submitting, FALSE}
    /\ UNCHANGED <<status, cancel>>

(* Recovery writes what it found running, once more if it was cancelled     *)
(* after it was found.                                                      *)
Recover ==
    /\ worker = "down"
    /\ \/ UNCHANGED status
       \/ status \in {"running", "cancelled"} /\ status' \in {"queued", "cancelled"}
    /\ worker' \in {"down", "free"}
    /\ UNCHANGED <<cancel, submitting>>

Next == \/ Take \/ Begin \/ Leave \/ Decide \/ Operate
        \/ Submit \/ Conclude \/ Stop \/ Recover

Spec == Init /\ [][Next]_vars
=============================================================================
