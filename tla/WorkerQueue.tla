----------------------------- MODULE WorkerQueue -----------------------------
(***************************************************************************)
(* Who executes runs: LocalWorker objects and their threads, the queue     *)
(* each takes its runs from, recovery when a worker starts, and the        *)
(* runtimes of bundles that the service facade opens on demand under its   *)
(* lock.  The system's worker is started and stopped by its owner (the     *)
(* API's lifespan or a Python host).                                       *)
(*                                                                         *)
(* Abstracted: what a run does while it is executed, and how decisions     *)
(* race with it (RunLifecycle).  Both keep to RunStatus.                   *)
(***************************************************************************)
EXTENDS Integers, FiniteSets

CONSTANTS
    Bundles,        \* registered bundles, each with a store of its own
    System,         \* the system's store
    Runs,           \* runs in the order of created_at: a set of naturals
    StoreOf,        \* run -> its store
    Workers,        \* LocalWorker objects
    SystemWorker,   \* the system's
    Threads,
    Requests,       \* threads that ask for the runtime of a bundle
    Host,           \* the owner of the system's worker
    None,
    MaxReturns,     \* bound on decisions that queue a run again
    MaxCrashes      \* bound on restarts of the process

Stores == Bundles \cup {System}
Callers == Requests \cup {Host}
ASSUME NamesAssumption ==
    /\ System \notin Bundles
    /\ Host \notin Requests
    /\ SystemWorker \in Workers
    /\ Runs \subseteq Nat
    /\ StoreOf \in [Runs -> Stores]
    /\ None \notin Stores \cup Callers \cup Workers \cup Threads
ASSUME CapsAssumption == MaxReturns \in Nat /\ MaxCrashes \in Nat

VARIABLES
    row,        \* each run's status ("absent" before it is created) and flag
    obj,        \* each LocalWorker: its store, _stop, _thread
    th,         \* each thread: position, its worker object, its run
    runtime,    \* _bundle_runtimes, and the system's runtime
    lock,       \* holder of the facade's lock
    call,       \* each caller of LocalWorker.start: position, object, recovered rows
    owed,       \* history: stores with a worker that start() set to work
    returns, crashes

objects == <<obj, th, runtime, lock, call>>
vars == <<row, objects, owed, returns, crashes>>

NoObject == [store |-> None, stop |-> FALSE, thread |-> None]
NoThread == [pc |-> "none", obj |-> None, run |-> None]
NoCall == [pc |-> "idle", store |-> None, obj |-> None, rows |-> {}]

(* A name for a new object or thread: which one does not matter.            *)
NewWorker == LET unused == {w \in Workers : obj[w].store = None}
             IN  IF unused = {} THEN {} ELSE {CHOOSE w \in unused : TRUE}
NewThread == LET unused == {t \in Threads : th[t].pc = "none"}
             IN  IF unused = {} THEN {} ELSE {CHOOSE t \in unused : TRUE}

Executing == {"picked", "checked", "running"}
ThreadsOf(s) == {t \in Threads : th[t].pc # "none" /\ obj[th[t].obj].store = s}
Holders(r) == {t \in Threads : th[t].pc \in Executing /\ th[t].run = r}

-----------------------------------------------------------------------------
(* Operators, through the facade: a run's store is asked once it is open.   *)

Reachable(r) == runtime[StoreOf[r]] # None
Sets(r, status, cancel) == row' = [row EXCEPT ![r] = [status |-> status, cancel |-> cancel]]

Create(r) ==
    /\ row[r].status = "absent" /\ Reachable(r)
    /\ \A older \in Runs : older < r => row[older].status # "absent"
    /\ Sets(r, "queued", FALSE)
    /\ UNCHANGED <<objects, owed, returns, crashes>>

(* An approval, requested changes or a submission.                          *)
Decide(r) ==
    /\ row[r].status = "waiting_human" /\ ~row[r].cancel /\ Reachable(r)
    /\ \/ Sets(r, "queued", FALSE) /\ returns < MaxReturns /\ returns' = returns + 1
       \/ Sets(r, "completed", FALSE) /\ UNCHANGED returns
    /\ UNCHANGED <<objects, owed, crashes>>

(* A running run is only flagged, unless the cancellation is forced.        *)
Cancel(r) ==
    /\ row[r].status \in {"queued", "running", "waiting_human"} /\ Reachable(r)
    /\ \/ Sets(r, "cancelled", TRUE)
       \/ row[r].status = "running" /\ Sets(r, "running", TRUE)
    /\ UNCHANGED <<objects, owed, returns, crashes>>

-----------------------------------------------------------------------------
(* Starting a worker.                                                      *)

Calls(c, pc) == call' = [call EXCEPT ![c].pc = pc]
Ends(c) == call' = [call EXCEPT ![c] = NoCall]
Unlock(c) == lock' = IF lock = c THEN None ELSE lock

(* Faulty: the facade opens runtimes without its lock.                      *)
OpenUnlocked(q, s) ==
    /\ call[q].pc = "idle"
    /\ call' = [call EXCEPT ![q] = [NoCall EXCEPT !.pc = "lookup", !.store = s]]
    /\ UNCHANGED <<row, obj, th, runtime, lock, owed, returns, crashes>>

(* _bundle_runtime takes the lock ...                                       *)
Open(q, s) ==
    /\ call[q].pc = "idle" /\ lock = None
    /\ lock' = q
    /\ call' = [call EXCEPT ![q] = [NoCall EXCEPT !.pc = "lookup", !.store = s]]
    /\ UNCHANGED <<row, obj, th, runtime, owed, returns, crashes>>

(* ... and finds the runtime, no store to open (create=False), a bundle     *)
(* that does not load, or makes a worker and starts it.                     *)
Lookup(q) ==
    /\ call[q].pc = "lookup"
    /\ \/ Ends(q) /\ Unlock(q) /\ UNCHANGED obj
       \/ /\ runtime[call[q].store] = None
          /\ \E w \in NewWorker :
               /\ obj' = [obj EXCEPT ![w].store = call[q].store]
               /\ call' = [call EXCEPT ![q].pc = "start", ![q].obj = w]
          /\ UNCHANGED lock
    /\ UNCHANGED <<row, th, runtime, owed, returns, crashes>>

HostStart ==
    /\ call[Host].pc = "idle"
    /\ call' = [call EXCEPT ![Host] = [pc |-> "start", store |-> System,
                                       obj |-> SystemWorker, rows |-> {}]]
    /\ UNCHANGED <<row, obj, th, runtime, lock, owed, returns, crashes>>

(* Its last thread lives, and a name was not given to a later thread.       *)
Alive(w) == /\ obj[w].thread # None
            /\ th[obj[w].thread].pc # "none" /\ th[obj[w].thread].obj = w

(* Faulty: start does not look for a living thread.                         *)
StartAgain(c) ==
    /\ call[c].pc = "start"
    /\ call' = [call EXCEPT ![c].pc = "recover",
                   ![c].rows = {<<r, row[r].cancel>> : r \in
                                  {q \in Runs : StoreOf[q] = call[c].store
                                                /\ row[q].status = "running"}}]
    /\ UNCHANGED <<row, obj, th, runtime, lock, owed, returns, crashes>>

(* start returns at once while its last thread lives, also one that was     *)
(* told to stop; otherwise recover_running_runs selects the running rows.   *)
Start(c) ==
    /\ call[c].pc = "start"
    /\ IF Alive(call[c].obj) THEN Ends(c)
       ELSE call' = [call EXCEPT ![c].pc = "recover",
                        ![c].rows = {<<r, row[r].cancel>> : r \in
                                       {q \in Runs : StoreOf[q] = call[c].store
                                                     /\ row[q].status = "running"}}]
    /\ UNCHANGED <<row, obj, th, runtime, lock, owed, returns, crashes>>

(* Faulty: rows flagged for cancellation are left as they are.              *)
RecoverUncancelled(c) ==
    /\ call[c].pc = "recover"
    /\ \E found \in call[c].rows :
         /\ IF found[2] THEN UNCHANGED row ELSE Sets(found[1], "queued", row[found[1]].cancel)
         /\ call' = [call EXCEPT ![c].rows = @ \ {found}]
    /\ UNCHANGED <<obj, th, runtime, lock, owed, returns, crashes>>

(* Each row is written as it was selected; its flag stays what it is.       *)
RecoverRow(c) ==
    /\ call[c].pc = "recover"
    /\ \E found \in call[c].rows :
         /\ Sets(found[1], IF found[2] THEN "cancelled" ELSE "queued", row[found[1]].cancel)
         /\ call' = [call EXCEPT ![c].rows = @ \ {found}]
    /\ UNCHANGED <<obj, th, runtime, lock, owed, returns, crashes>>

(* Faulty: the new thread finds the flag of the last stop still set.        *)
LaunchStopped(c) ==
    /\ call[c].pc = "recover" /\ call[c].rows = {}
    /\ \E t \in NewThread :
         /\ th' = [th EXCEPT ![t] = [pc |-> "loop", obj |-> call[c].obj, run |-> None]]
         /\ obj' = [obj EXCEPT ![call[c].obj].thread = t]
    /\ runtime' = [runtime EXCEPT ![call[c].store] = call[c].obj]
    /\ owed' = owed \cup {call[c].store}
    /\ Ends(c) /\ Unlock(c)
    /\ UNCHANGED <<row, returns, crashes>>

(* The flag of an earlier stop is cleared, the thread started and a bundle's *)
(* runtime kept for later requests.                                         *)
Launch(c) ==
    /\ call[c].pc = "recover" /\ call[c].rows = {}
    /\ \E t \in NewThread :
         /\ th' = [th EXCEPT ![t] = [pc |-> "loop", obj |-> call[c].obj, run |-> None]]
         /\ obj' = [obj EXCEPT ![call[c].obj].thread = t, ![call[c].obj].stop = FALSE]
    /\ runtime' = [runtime EXCEPT ![call[c].store] = call[c].obj]
    /\ owed' = owed \cup {call[c].store}
    /\ Ends(c) /\ Unlock(c)
    /\ UNCHANGED <<row, returns, crashes>>

(* An error of the database during recovery leaves start, with the rows     *)
(* recovered so far; an object nothing refers to any more is gone.          *)
StartRaises(c) ==
    /\ call[c].pc = "recover"
    /\ obj' = IF c = Host THEN obj ELSE [obj EXCEPT ![call[c].obj] = NoObject]
    /\ Ends(c) /\ Unlock(c)
    /\ UNCHANGED <<row, th, runtime, owed, returns, crashes>>

(* stop sets the flag and waits for three seconds: the thread may go on     *)
(* for longer.                                                              *)
HostStop ==
    /\ call[Host].pc = "idle"
    /\ obj' = [obj EXCEPT ![SystemWorker].stop = TRUE]
    /\ owed' = owed \ {System}
    /\ UNCHANGED <<row, th, runtime, lock, call, returns, crashes>>

(* close stops the workers of bundles under the lock; their runtimes stay.  *)
Close ==
    /\ call[Host].pc = "idle" /\ lock = None
    /\ obj' = [w \in Workers |-> [obj[w] EXCEPT
                  !.stop = @ \/ \E b \in Bundles : runtime[b] = w]]
    /\ owed' = owed \ Bundles
    /\ UNCHANGED <<row, th, runtime, lock, call, returns, crashes>>

-----------------------------------------------------------------------------
(* The threads: LocalWorker._loop and _process.                            *)

Moves(t, pc) == th' = [th EXCEPT ![t].pc = pc]
Loops(t) == th' = [th EXCEPT ![t].pc = "loop", ![t].run = None]

Exit(t) ==
    /\ th[t].pc = "loop" /\ obj[th[t].obj].stop
    /\ th' = [th EXCEPT ![t] = NoThread]
    /\ UNCHANGED <<row, obj, runtime, lock, call, owed, returns, crashes>>

(* next_queued_run: the oldest queued run of the store, not cancelled.      *)
Queue(s) == {r \in Runs : StoreOf[r] = s /\ row[r].status = "queued" /\ ~row[r].cancel}

Pick(t) ==
    /\ th[t].pc = "loop" /\ ~obj[th[t].obj].stop
    /\ \E r \in Queue(obj[th[t].obj].store) :
         /\ \A q \in Queue(obj[th[t].obj].store) : r <= q
         /\ th' = [th EXCEPT ![t].pc = "picked", ![t].run = r]
    /\ UNCHANGED <<row, obj, runtime, lock, call, owed, returns, crashes>>

(* process_run reads the run again and checks its flag.                     *)
Check(t) ==
    /\ th[t].pc = "picked"
    /\ LET r == th[t].run
       IN  CASE row[r].status # "queued" -> Loops(t) /\ UNCHANGED row
             [] row[r].status = "queued" /\ row[r].cancel ->
                    Loops(t) /\ Sets(r, "cancelled", TRUE)
             [] OTHER -> Moves(t, "checked") /\ UNCHANGED row
    /\ UNCHANGED <<obj, runtime, lock, call, owed, returns, crashes>>

(* The run is made running, whatever its status is by now, or its           *)
(* preflight fails it.                                                      *)
Execute(t) ==
    /\ th[t].pc = "checked"
    /\ LET r == th[t].run
       IN  \/ Moves(t, "running") /\ Sets(r, "running", row[r].cancel)
           \/ /\ Loops(t)
              /\ IF row[r].status = "queued" THEN Sets(r, "failed", row[r].cancel)
                 ELSE UNCHANGED row
    /\ UNCHANGED <<obj, runtime, lock, call, owed, returns, crashes>>

(* process_run ends, or raises and is failed by _process.                   *)
Finish(t) ==
    /\ th[t].pc = "running"
    /\ Loops(t)
    /\ LET r == th[t].run
       IN  \/ \E outcome \in {"waiting_human", "completed", "failed"} :
                Sets(r, outcome, row[r].cancel)
           \/ row[r].cancel /\ Sets(r, "cancelled", TRUE)
           \/ row[r].status # "running" /\ UNCHANGED row
    /\ UNCHANGED <<obj, runtime, lock, call, owed, returns, crashes>>

(* An error of the database in next_queued_run, or in fail_active_run of    *)
(* the handler, ends the thread; nobody starts another.                     *)
Die(t) ==
    /\ th[t].pc # "none"
    /\ th' = [th EXCEPT ![t] = NoThread]
    /\ owed' = owed \ {obj[th[t].obj].store}
    /\ UNCHANGED <<row, obj, runtime, lock, call, returns, crashes>>

Works(t) == Exit(t) \/ Pick(t) \/ Check(t) \/ Execute(t) \/ Finish(t)

(* What a process begins with: the system's worker object, not started.     *)
NewObjects == [[w \in Workers |-> NoObject] EXCEPT ![SystemWorker].store = System]
NewRuntimes == [[s \in Stores |-> None] EXCEPT ![System] = SystemWorker]
NoThreads == [t \in Threads |-> NoThread]
NoCalls == [c \in Callers |-> NoCall]

(* The process ends and is started again: rows stay, objects do not.        *)
Crash ==
    /\ crashes < MaxCrashes
    /\ crashes' = crashes + 1
    /\ obj' = NewObjects /\ runtime' = NewRuntimes /\ lock' = None
    /\ th' = NoThreads /\ call' = NoCalls /\ owed' = {}
    /\ UNCHANGED <<row, returns>>

Init ==
    /\ row = [r \in Runs |-> [status |-> "absent", cancel |-> FALSE]]
    /\ obj = NewObjects /\ runtime = NewRuntimes /\ lock = None
    /\ th = NoThreads /\ call = NoCalls /\ owed = {}
    /\ returns = 0 /\ crashes = 0

Next ==
    \/ \E r \in Runs : Create(r) \/ Decide(r) \/ Cancel(r)
    \/ \E q \in Requests : Lookup(q) \/ \E b \in Bundles : Open(q, b)
    \/ \E c \in Callers : Start(c) \/ RecoverRow(c) \/ Launch(c) \/ StartRaises(c)
    \/ HostStart \/ HostStop \/ Close
    \/ \E t \in Threads : Works(t) \/ Die(t)
    \/ Crash

Spec == Init /\ [][Next]_vars

(* A thread goes on unless it dies or the process ends; nobody has to start *)
(* anything.                                                                *)
FairSpec == Spec /\ \A t \in Threads : WF_vars(Works(t))

-----------------------------------------------------------------------------
(* Properties.                                                             *)

(* "Single local worker": no two threads execute runs of one store at once, *)
(* though a stopped worker's thread may outlive the stop and any number of  *)
(* requests may open a bundle's runtime together.                           *)
OneExecutor ==
    \A s \in Stores : Cardinality({t \in ThreadsOf(s) : th[t].pc \in Executing}) <= 1

(* Once a store has a worker thread, each of its running runs is the one    *)
(* that thread executes: no crash, dead thread or half-done recovery leaves *)
(* a run running that nobody will ever settle.                              *)
NoOrphans ==
    \A r \in Runs : row[r].status = "running" /\ ThreadsOf(StoreOf[r]) # {}
        => \E t \in Holders(r) : th[t].pc = "running"

(* While a worker that start() set to work is neither stopped nor dead, a   *)
(* queued run is taken in the end, whatever is queued before it again.  A   *)
(* start() that finds the old thread alive sets nothing to work.            *)
QueueIsServed ==
    \A r \in Runs :
        r \in Queue(StoreOf[r]) /\ StoreOf[r] \in owed
            ~> r \notin Queue(StoreOf[r]) \/ StoreOf[r] \notin owed

(* Every run keeps to the status protocol, whatever the other runs, the     *)
(* threads and the recoveries of its store do.                              *)
StatusIn(r) == IF row[r].status = "absent" THEN "queued" ELSE row[r].status
WorkerOf(r) == CASE Holders(r) # {} -> "held"
                 [] Holders(r) = {} /\ ThreadsOf(StoreOf[r]) # {} -> "free"
                 [] OTHER -> "down"
Protocol(r) == INSTANCE RunStatus WITH status <- StatusIn(r), cancel <- row[r].cancel,
                                       worker <- WorkerOf(r), submitting <- FALSE
RunsKeepProtocol ==
    /\ \A r \in Runs : Protocol(r)!Init
    /\ [][\A r \in Runs : UNCHANGED Protocol(r)!vars \/ Protocol(r)!Next]_vars
=============================================================================
