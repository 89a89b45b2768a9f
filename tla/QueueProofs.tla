----------------------------- MODULE QueueProofs -----------------------------
(***************************************************************************)
(* That a store has one executor and no orphaned run, and that each run    *)
(* keeps to RunStatus, for any number of bundles, runs, workers, threads,  *)
(* requests, restarts and returned runs.                                   *)
(*                                                                         *)
(* A living thread is the last one of its worker object, and that object   *)
(* the runtime of its store: so a store has one thread.  The lock keeps    *)
(* the object a request has made, and not yet launched, to that request.   *)
(***************************************************************************)
EXTENDS WorkerQueue, FiniteSetTheorems, TLAPS

Live(t) == th[t].pc # "none"
ThreadPcs == {"none", "loop", "picked", "checked", "running"}
CallPcs == {"idle", "lookup", "start", "recover"}
Names ==
    /\ obj \in [Workers -> [store: Stores \cup {None}, stop: BOOLEAN, thread: Threads \cup {None}]]
    /\ th \in [Threads -> [pc: ThreadPcs, obj: Workers \cup {None}, run: Runs \cup {None}]]
    /\ runtime \in [Stores -> Workers \cup {None}]
    /\ lock \in Requests \cup {None}
    /\ call \in [Callers -> [pc: CallPcs, store: Stores \cup {None}, obj: Workers \cup {None},
                             rows: SUBSET (Runs \X BOOLEAN)]]

(* A living thread belongs to its object, and that to its store.            *)
ThreadHeld == \A t \in Threads : Live(t) =>
    /\ th[t].obj \in Workers
    /\ obj[th[t].obj].thread = t
    /\ obj[th[t].obj].store \in Stores
    /\ runtime[obj[th[t].obj].store] = th[t].obj
ObjectsOwned ==
    /\ obj[SystemWorker].store = System /\ runtime[System] = SystemWorker
    /\ \A w \in Workers : obj[w].store = None => obj[w].thread = None
    /\ \A s \in Stores : runtime[s] # None => obj[runtime[s]].store = s

(* A request that opens a runtime has the lock, and its object no thread.   *)
Opening == \A q \in Requests :
    /\ call[q].pc # "idle" => lock = q /\ call[q].store \in Bundles
    /\ call[q].pc \in {"start", "recover"} =>
          /\ call[q].obj \in Workers
          /\ obj[call[q].obj].store = call[q].store /\ obj[call[q].obj].thread = None
          /\ runtime[call[q].store] = None
Hosting ==
    /\ call[Host].pc \in {"idle", "start", "recover"}
    /\ call[Host].pc # "idle" => call[Host].obj = SystemWorker /\ call[Host].store = System
    /\ call[Host].pc = "recover" => \A t \in Threads : Live(t) => th[t].obj # SystemWorker
Owned == Names /\ ThreadHeld /\ ObjectsOwned /\ Opening /\ Hosting

LEMMA OneThread ==
    ASSUME Owned, NEW t \in Threads, NEW u \in Threads, Live(t), Live(u),
           obj[th[t].obj].store = obj[th[u].obj].store
    PROVE  t = u
BY DEF Owned, ThreadHeld

(* Steps of threads: they go on for their object, or end.                   *)
LEMMA ThreadsGoOn ==
    ASSUME Owned, UNCHANGED <<obj, runtime, lock, call>>, Names',
           \A t \in Threads : Live(t)' => Live(t) /\ th'[t].obj = th[t].obj
    PROVE  Owned'
<1>1. ThreadHeld'
    BY DEF Owned, ThreadHeld
<1>2. ObjectsOwned' /\ Opening' /\ Hosting'
    BY DEF Owned, ObjectsOwned, Opening, Hosting
<1>3. QED
    BY <1>1, <1>2 DEF Owned

LEMMA ThreadSteps ==
    ASSUME Owned, NEW t \in Threads, Works(t) \/ Die(t)
    PROVE  /\ UNCHANGED <<obj, runtime, lock, call>>
           /\ Names'
           /\ Live(t) /\ th'[t].obj \in {th[t].obj, None}
           /\ Live(t)' => th'[t].obj = th[t].obj
           /\ \A u \in Threads : u # t => th'[u] = th[u]
<1>0. /\ th \in [Threads -> [pc: ThreadPcs, obj: Workers \cup {None}, run: Runs \cup {None}]]
      /\ Names
    BY DEF Owned, Names
<1>1. UNCHANGED <<obj, runtime, lock, call>>
    BY DEF Works, Exit, Pick, Check, Execute, Finish, Die
<1>2. \/ th' = [th EXCEPT ![t] = NoThread]
      \/ \E pc \in ThreadPcs \ {"none"}, r \in Runs \cup {None} :
            th' = [th EXCEPT ![t].pc = pc, ![t].run = r]
  <2>1. Exit(t) \/ Die(t) => th' = [th EXCEPT ![t] = NoThread]
      BY DEF Exit, Die
  <2>2. ASSUME Pick(t) PROVE \E r \in Runs \cup {None} : th' = [th EXCEPT ![t].pc = "picked", ![t].run = r]
      BY <2>2 DEF Pick, Queue
  <2>3. \A pc : Moves(t, pc) => th' = [th EXCEPT ![t].pc = pc, ![t].run = th[t].run]
      BY <1>0 DEF Moves
  <2>4. Loops(t) => th' = [th EXCEPT ![t].pc = "loop", ![t].run = None]
      BY DEF Loops
  <2>5. Check(t) => Loops(t) \/ Moves(t, "checked")
      BY DEF Check
  <2>6. Execute(t) => Loops(t) \/ Moves(t, "running")
      BY DEF Execute
  <2>7. Finish(t) => Loops(t)
      BY DEF Finish
  <2>8. th[t].run \in Runs \cup {None}
      BY <1>0
  <2>9. {"loop", "picked", "checked", "running"} = ThreadPcs \ {"none"}
      BY DEF ThreadPcs
  <2>10. CASE Pick(t)
      BY <2>2, <2>9, <2>10
  <2>11. CASE Loops(t)
      BY <2>4, <2>9, <2>11
  <2>12. CASE Moves(t, "checked") \/ Moves(t, "running")
      BY <2>3, <2>8, <2>9, <2>12
  <2>13. QED
      BY <2>1, <2>5, <2>6, <2>7, <2>10, <2>11, <2>12 DEF Works
<1>3. Live(t)
    BY DEF Works, Exit, Pick, Check, Execute, Finish, Die, Live
<1>4. CASE th' = [th EXCEPT ![t] = NoThread]
  <2>1. th'[t] = NoThread /\ \A u \in Threads : u # t => th'[u] = th[u]
      BY <1>0, <1>4
  <2>2. th' \in [Threads -> [pc: ThreadPcs, obj: Workers \cup {None}, run: Runs \cup {None}]]
      BY <1>0, <1>4 DEF NoThread, ThreadPcs
  <2>3. QED
      BY <1>0, <1>1, <1>3, <2>1, <2>2 DEF Names, Live, NoThread
<1>5. ASSUME NEW pc \in ThreadPcs \ {"none"}, NEW r \in Runs \cup {None},
             th' = [th EXCEPT ![t].pc = pc, ![t].run = r]
      PROVE  /\ th' \in [Threads -> [pc: ThreadPcs, obj: Workers \cup {None}, run: Runs \cup {None}]]
             /\ th'[t].obj = th[t].obj
             /\ \A u \in Threads : u # t => th'[u] = th[u]
    BY <1>0, <1>5
<1>6. QED
    BY <1>0, <1>1, <1>2, <1>3, <1>4, <1>5 DEF Names

(* Steps of callers that make no object and no thread.                      *)
CallType == [pc: CallPcs, store: Stores \cup {None}, obj: Workers \cup {None},
             rows: SUBSET (Runs \X BOOLEAN)]

LEMMA OpenStep ==
    ASSUME Owned, NEW q \in Requests, NEW b \in Bundles, Open(q, b)
    PROVE  Owned'
<1>0. call \in [Callers -> CallType] /\ q \in Callers /\ Host # q /\ b \in Stores
    BY NamesAssumption DEF Owned, Names, CallType, Callers, Stores
<1>1. /\ lock = None /\ lock' = q /\ UNCHANGED <<obj, th, runtime>>
      /\ call' = [call EXCEPT ![q] = [NoCall EXCEPT !.pc = "lookup", !.store = b]]
    BY DEF Open
<1>2. /\ [NoCall EXCEPT !.pc = "lookup", !.store = b] \in CallType
      /\ [NoCall EXCEPT !.pc = "lookup", !.store = b].pc = "lookup"
      /\ [NoCall EXCEPT !.pc = "lookup", !.store = b].store = b
    BY <1>0 DEF NoCall, CallType, CallPcs
<1>3. /\ call'[q].pc = "lookup" /\ call'[q].store = b
      /\ \A d \in Callers : d # q => call'[d] = call[d]
      /\ call' \in [Callers -> CallType]
    BY <1>0, <1>1, <1>2
<1>4. Names'
    BY <1>1, <1>3 DEF Owned, Names, CallType
<1>5. \A d \in Requests : d # q => call'[d].pc = "idle"
    BY <1>1, <1>3, NamesAssumption DEF Owned, Opening, Callers
<1>6. Opening'
    BY <1>1, <1>3, <1>5 DEF Opening
<1>7. Hosting'
    BY <1>0, <1>1, <1>3 DEF Owned, Hosting, Callers, Live
<1>8. QED
    BY <1>1, <1>4, <1>6, <1>7 DEF Owned, ThreadHeld, ObjectsOwned, Live

(* Who has the lock opens alone; an object about to be launched is of its   *)
(* caller's store and has no thread.                                        *)
LEMMA OpensAlone ==
    ASSUME Owned, NEW q \in Requests, call[q].pc # "idle", NEW d \in Requests, d # q
    PROVE  call[d].pc = "idle"
BY DEF Owned, Opening

LEMMA Starting ==
    ASSUME Owned, NEW c \in Callers, call[c].pc \in {"start", "recover"}
    PROVE  LET o == call[c].obj
               s == call[c].store
           IN  /\ o \in Workers /\ s \in Stores /\ obj[o].store = s /\ runtime[s] \in {None, o}
               /\ IF c = Host THEN s = System /\ o = SystemWorker
                  ELSE /\ c \in Requests /\ s \in Bundles /\ o # SystemWorker
                       /\ obj[o].thread = None /\ runtime[s] = None
BY NamesAssumption DEF Owned, Opening, Hosting, ObjectsOwned, Callers, Stores

LEMMA Launching ==
    ASSUME Owned, NEW c \in Callers, call[c].pc = "recover", NEW u \in Threads, Live(u)
    PROVE  th[u].obj # call[c].obj
BY Starting, NamesAssumption DEF Owned, ThreadHeld, Hosting, Callers

LEMMA NewWorkerUnused ==
    ASSUME NEW x \in NewWorker PROVE x \in Workers /\ obj[x].store = None
<1> DEFINE unused == {y \in Workers : obj[y].store = None}
<1>1. unused # {} /\ x = CHOOSE y \in unused : TRUE
    BY DEF NewWorker
<1>2. x \in unused
    BY <1>1
<1>3. QED
    BY <1>2

LEMMA NewThreadUnused ==
    ASSUME NEW x \in NewThread PROVE x \in Threads /\ ~Live(x)
<1> DEFINE unused == {y \in Threads : th[y].pc = "none"}
<1>1. unused # {} /\ x = CHOOSE y \in unused : TRUE
    BY DEF NewThread
<1>2. x \in unused
    BY <1>1
<1>3. QED
    BY <1>2 DEF Live

LEMMA Ended ==
    ASSUME Owned, NEW c \in Callers, Ends(c)
    PROVE  /\ call'[c].pc = "idle"
           /\ \A d \in Callers : d # c => call'[d] = call[d]
           /\ call' \in [Callers -> CallType]
<1>1. call \in [Callers -> CallType] /\ NoCall \in CallType /\ NoCall.pc = "idle"
    BY DEF Owned, Names, CallType, NoCall, CallPcs
<1>2. QED
    BY <1>1 DEF Ends

LEMMA Unlocked ==
    ASSUME Owned, NEW c \in Callers, Unlock(c)
    PROVE  /\ lock' \in Requests \cup {None}
           /\ c = Host => lock' = lock
           /\ c \in Requests => lock' = lock \/ lock' = None
BY NamesAssumption DEF Owned, Names, Unlock, Callers

(* A call that ends leaves objects and threads, or one object no thread has.*)
LEMMA EndStep ==
    ASSUME Owned, NEW c \in Callers, Ends(c), Unlock(c) \/ (c = Host /\ lock' = lock),
           c \in Requests => call[c].pc # "idle", UNCHANGED <<obj, th, runtime>>
    PROVE  Owned'
<1>0. c \in Requests \/ c = Host
    BY DEF Callers
<1>1. Names'
    BY Ended, Unlocked DEF Owned, Names, CallType
<1>2. Opening'
    BY <1>0, Ended, Unlocked, OpensAlone DEF Owned, Opening, Callers
<1>3. Hosting'
    BY <1>0, Ended, NamesAssumption DEF Owned, Hosting, Callers, Live
<1>4. QED
    BY <1>1, <1>2, <1>3 DEF Owned, ThreadHeld, ObjectsOwned, Live

LEMMA LookupStep ==
    ASSUME Owned, NEW q \in Requests, Lookup(q)
    PROVE  Owned'
<1>0. /\ q \in Callers /\ q # Host /\ call[q].pc = "lookup" /\ call \in [Callers -> CallType]
      /\ obj \in [Workers -> [store: Stores \cup {None}, stop: BOOLEAN, thread: Threads \cup {None}]]
      /\ UNCHANGED <<th, runtime>>
    BY NamesAssumption DEF Owned, Names, CallType, Callers, Lookup
<1>1. CASE Ends(q) /\ Unlock(q) /\ UNCHANGED obj
    BY <1>0, <1>1, EndStep
<1>2. ASSUME runtime[call[q].store] = None, lock' = lock,
             NEW x \in NewWorker, obj' = [obj EXCEPT ![x].store = call[q].store],
             call' = [call EXCEPT ![q].pc = "start", ![q].obj = x]
      PROVE  Owned'
  <2>1. call[q].store \in Bundles /\ call[q].store \in Stores /\ lock = q
      BY <1>0 DEF Owned, Opening, Stores
  <2>2. x \in Workers /\ obj[x].store = None /\ obj[x].thread = None
      BY NewWorkerUnused DEF Owned, ObjectsOwned
  <2>3. /\ obj'[x].store = call[q].store /\ obj'[x].thread = None
        /\ \A y \in Workers : y # x => obj'[y] = obj[y]
        /\ obj' \in [Workers -> [store: Stores \cup {None}, stop: BOOLEAN, thread: Threads \cup {None}]]
      BY <1>0, <1>2, <2>1, <2>2
  <2>4. /\ call'[q].pc = "start" /\ call'[q].obj = x /\ call'[q].store = call[q].store
        /\ \A d \in Callers : d # q => call'[d] = call[d]
        /\ call' \in [Callers -> CallType]
    <3>1. call[q] \in CallType
        BY <1>0
    <3>2. call' = [call EXCEPT ![q] = [call[q] EXCEPT !.pc = "start", !.obj = x]]
        BY <1>0, <1>2
    <3>3. /\ [call[q] EXCEPT !.pc = "start", !.obj = x] \in CallType
          /\ [call[q] EXCEPT !.pc = "start", !.obj = x].pc = "start"
          /\ [call[q] EXCEPT !.pc = "start", !.obj = x].obj = x
          /\ [call[q] EXCEPT !.pc = "start", !.obj = x].store = call[q].store
        BY <2>2, <3>1 DEF CallType, CallPcs
    <3>4. QED
        BY <1>0, <3>2, <3>3
  <2>5. None \notin Stores /\ System \in Stores
      BY NamesAssumption DEF Stores
  <2>6. ThreadHeld'
      BY <1>0, <2>2, <2>3, <2>5 DEF Owned, ThreadHeld, Live
  <2>7. ObjectsOwned'
    <3>1. SystemWorker # x
        BY <2>2, <2>5 DEF Owned, ObjectsOwned
    <3>2. \A s \in Stores : runtime[s] # x
        BY <2>2, <2>5, NamesAssumption DEF Owned, ObjectsOwned
    <3>3. \A s \in Stores : runtime[s] # None => runtime[s] \in Workers
        BY DEF Owned, Names
    <3>4. \A y \in Workers : obj'[y].store = None => obj'[y].thread = None
        BY <2>3 DEF Owned, ObjectsOwned
    <3>5. obj'[SystemWorker].store = System /\ runtime[System] = SystemWorker
        BY <2>3, <3>1, NamesAssumption DEF Owned, ObjectsOwned
    <3>6. \A s \in Stores : runtime[s] # None => obj'[runtime[s]].store = s
        BY <2>3, <3>2, <3>3 DEF Owned, ObjectsOwned
    <3>7. QED
        BY <1>0, <3>4, <3>5, <3>6 DEF ObjectsOwned
  <2>8. Opening'
      BY <1>0, <1>2, <2>1, <2>2, <2>3, <2>4, OpensAlone DEF Opening, Callers
  <2>9. Hosting'
      BY <1>0, <2>4 DEF Owned, Hosting, Callers, Live
  <2>10. Names'
      BY <1>0, <1>2, <2>3, <2>4 DEF Owned, Names, CallType
  <2>11. QED
      BY <2>6, <2>7, <2>8, <2>9, <2>10 DEF Owned
<1>3. QED
    BY <1>1, <1>2 DEF Lookup

LEMMA HostStartStep ==
    ASSUME Owned, HostStart
    PROVE  Owned'
<1>1. /\ call \in [Callers -> CallType] /\ Host \in Callers /\ System \in Stores
      /\ Host \notin Requests /\ SystemWorker \in Workers
    BY NamesAssumption DEF Owned, Names, CallType, Callers, Stores
<1>2. /\ call'[Host] = [pc |-> "start", store |-> System, obj |-> SystemWorker, rows |-> {}]
      /\ \A d \in Callers : d # Host => call'[d] = call[d]
      /\ call' \in [Callers -> CallType] /\ UNCHANGED <<obj, th, runtime, lock>>
    BY <1>1 DEF HostStart, CallType, CallPcs
<1>3. Names' /\ ThreadHeld' /\ ObjectsOwned'
    BY <1>2 DEF Owned, Names, ThreadHeld, ObjectsOwned, CallType, Live
<1>4. Opening' /\ Hosting'
    BY <1>1, <1>2 DEF Owned, Opening, Hosting, Callers
<1>5. QED
    BY <1>3, <1>4 DEF Owned

(* A start that found no living thread has its rows to recover.             *)
Recovering(c, rows) ==
    /\ call'[c].pc = "recover" /\ call'[c].store = call[c].store /\ call'[c].obj = call[c].obj
    /\ call'[c].rows = rows
    /\ \A d \in Callers : d # c => call'[d] = call[d]
    /\ call' \in [Callers -> CallType]

LEMMA RecoveringStep ==
    ASSUME Owned, NEW c \in Callers, NEW rows, Recovering(c, rows),
           UNCHANGED <<obj, th, runtime, lock>>, call[c].pc \in {"start", "recover"},
           call[c].pc = "start" => ~Alive(call[c].obj)
    PROVE  Owned'
<1>1. Names' /\ ThreadHeld' /\ ObjectsOwned'
    BY DEF Recovering, Owned, Names, ThreadHeld, ObjectsOwned, CallType, Live
<1>2. Opening'
    BY DEF Recovering, Owned, Opening, Callers
<1>3. ASSUME c = Host PROVE Hosting'
  <2>1. call[c].obj = SystemWorker /\ call[c].store = System
      BY <1>3 DEF Owned, Hosting
  <2>2. ASSUME NEW t \in Threads, Live(t) PROVE th[t].obj # SystemWorker
    <3>1. CASE call[c].pc = "recover"
        BY <1>3, <2>2, <3>1 DEF Owned, Hosting
    <3>2. CASE call[c].pc = "start"
        BY <2>1, <2>2, <3>2, NamesAssumption DEF Alive, Owned, ThreadHeld, Live
    <3>3. QED
        BY <3>1, <3>2
  <2>3. QED
      BY <1>3, <2>1, <2>2 DEF Recovering, Hosting, Live
<1>4. ASSUME c # Host PROVE Hosting'
    BY <1>4 DEF Recovering, Owned, Hosting, Callers, Live
<1>5. QED
    BY <1>1, <1>2, <1>3, <1>4 DEF Owned

Found(s) == {<<r, row[r].cancel>> : r \in {q \in Runs : StoreOf[q] = s /\ row[q].status = "running"}}

LEMMA StartRecovers ==
    ASSUME Owned, \A r \in Runs : row[r].cancel \in BOOLEAN, NEW c \in Callers, Start(c),
           ~Alive(call[c].obj)
    PROVE  Recovering(c, Found(call[c].store))
<1>1. call \in [Callers -> CallType] /\ call[c] \in CallType
    BY DEF Owned, Names, CallType
<1>2. Found(call[c].store) \subseteq Runs \X BOOLEAN
    BY DEF Found
<1>3. call' = [call EXCEPT ![c] = [call[c] EXCEPT !.pc = "recover", !.rows = Found(call[c].store)]]
    BY <1>1 DEF Start, Found
<1>4. LET v == [call[c] EXCEPT !.pc = "recover", !.rows = Found(call[c].store)]
      IN  /\ v \in CallType /\ v.pc = "recover" /\ v.rows = Found(call[c].store)
          /\ v.store = call[c].store /\ v.obj = call[c].obj
    BY <1>1, <1>2 DEF CallType, CallPcs
<1>5. QED
    BY <1>1, <1>3, <1>4 DEF Recovering

LEMMA RecoverRowGoesOn ==
    ASSUME Owned, NEW c \in Callers, NEW f \in call[c].rows,
           call' = [call EXCEPT ![c].rows = @ \ {f}], call[c].pc = "recover"
    PROVE  Recovering(c, call[c].rows \ {f})
<1>1. call \in [Callers -> CallType] /\ call[c] \in CallType
    BY DEF Owned, Names, CallType
<1>2. call' = [call EXCEPT ![c] = [call[c] EXCEPT !.rows = call[c].rows \ {f}]]
    BY <1>1
<1>3. LET v == [call[c] EXCEPT !.rows = call[c].rows \ {f}]
      IN  /\ v \in CallType /\ v.pc = "recover" /\ v.rows = call[c].rows \ {f}
          /\ v.store = call[c].store /\ v.obj = call[c].obj
    BY <1>1 DEF CallType, CallPcs
<1>4. QED
    BY <1>1, <1>2, <1>3 DEF Recovering

LEMMA StartStep ==
    ASSUME Owned, \A r \in Runs : row[r].cancel \in BOOLEAN, NEW c \in Callers, Start(c)
    PROVE  Owned'
<1>1. CASE ~Alive(call[c].obj)
    BY <1>1, StartRecovers, RecoveringStep DEF Start
<1>2. CASE Alive(call[c].obj)
  <2>1. call[c].pc = "start" /\ Ends(c) /\ UNCHANGED <<obj, th, runtime, lock>>
      BY <1>2 DEF Start
  <2>2. c = Host
      BY <1>2, <2>1, Starting DEF Alive
  <2>3. QED
      BY <2>1, <2>2, EndStep, NamesAssumption
<1>3. QED
    BY <1>1, <1>2

LEMMA RecoverRowStep ==
    ASSUME Owned, NEW c \in Callers, RecoverRow(c)
    PROVE  Owned'
<1>1. PICK f \in call[c].rows : call' = [call EXCEPT ![c].rows = @ \ {f}]
    BY DEF RecoverRow
<1>2. Recovering(c, call[c].rows \ {f})
    BY <1>1, RecoverRowGoesOn DEF RecoverRow
<1>3. QED
    BY <1>2, RecoveringStep DEF RecoverRow

(* What a launch changes: one thread, its object and its store's runtime.   *)
Launched(c, t) ==
    /\ call[c].pc = "recover" /\ call[c].rows = {} /\ t \in Threads /\ ~Live(t)
    /\ th'[t].pc = "loop" /\ th'[t].obj = call[c].obj
    /\ \A u \in Threads : u # t => th'[u] = th[u]
    /\ obj'[call[c].obj].store = obj[call[c].obj].store /\ obj'[call[c].obj].thread = t
    /\ \A w \in Workers : w # call[c].obj => obj'[w] = obj[w]
    /\ runtime' = [runtime EXCEPT ![call[c].store] = call[c].obj]
    /\ Ends(c) /\ Unlock(c)

LEMMA LaunchIs ==
    ASSUME Owned, NEW c \in Callers, Launch(c)
    PROVE  (\E t \in Threads : Launched(c, t)) /\ Names' /\ row' = row
<1>0. /\ call[c].pc = "recover" /\ call[c].rows = {} /\ Names
      /\ th \in [Threads -> [pc: ThreadPcs, obj: Workers \cup {None}, run: Runs \cup {None}]]
      /\ obj \in [Workers -> [store: Stores \cup {None}, stop: BOOLEAN, thread: Threads \cup {None}]]
      /\ runtime \in [Stores -> Workers \cup {None}]
    BY DEF Launch, Owned, Names
<1>1. PICK t \in NewThread :
         /\ th' = [th EXCEPT ![t] = [pc |-> "loop", obj |-> call[c].obj, run |-> None]]
         /\ obj' = [obj EXCEPT ![call[c].obj].thread = t, ![call[c].obj].stop = FALSE]
    BY DEF Launch
<1>2. t \in Threads /\ ~Live(t)
    BY NewThreadUnused
<1>3. call[c].obj \in Workers /\ call[c].store \in Stores
    BY <1>0, Starting
<1>4. /\ th'[t].pc = "loop" /\ th'[t].obj = call[c].obj
      /\ \A u \in Threads : u # t => th'[u] = th[u]
      /\ th' \in [Threads -> [pc: ThreadPcs, obj: Workers \cup {None}, run: Runs \cup {None}]]
    BY <1>0, <1>1, <1>2, <1>3 DEF ThreadPcs
<1>5. /\ obj'[call[c].obj].store = obj[call[c].obj].store /\ obj'[call[c].obj].thread = t
      /\ \A w \in Workers : w # call[c].obj => obj'[w] = obj[w]
      /\ obj' \in [Workers -> [store: Stores \cup {None}, stop: BOOLEAN, thread: Threads \cup {None}]]
    BY <1>0, <1>1, <1>2, <1>3
<1>6. /\ runtime' = [runtime EXCEPT ![call[c].store] = call[c].obj] /\ Ends(c) /\ Unlock(c)
      /\ row' = row
    BY DEF Launch
<1>7. runtime' \in [Stores -> Workers \cup {None}]
    BY <1>0, <1>3, <1>6
<1>8. call' \in [Callers -> CallType] /\ lock' \in Requests \cup {None}
    BY <1>6, Ended, Unlocked
<1>9. QED
    BY <1>0, <1>2, <1>4, <1>5, <1>6, <1>7, <1>8 DEF Launched, Names, CallType

LEMMA LaunchStep ==
    ASSUME Owned, NEW c \in Callers, NEW t \in Threads, Launched(c, t), Names'
    PROVE  Owned'
<1> DEFINE o == call[c].obj
           s == call[c].store
<1>0. /\ o \in Workers /\ s \in Stores /\ obj[o].store = s /\ runtime[s] \in {None, o}
      /\ \A u \in Threads : Live(u) => th[u].obj # o
      /\ runtime \in [Stores -> Workers \cup {None}]
    BY Starting, Launching DEF Launched, Owned, Names
<1>1. runtime'[s] = o /\ \A b \in Stores : b # s => runtime'[b] = runtime[b]
    BY <1>0 DEF Launched
<1>2. ASSUME NEW u \in Threads, Live(u)'
      PROVE  /\ th'[u].obj \in Workers
             /\ obj'[th'[u].obj].thread = u
             /\ obj'[th'[u].obj].store \in Stores
             /\ runtime'[obj'[th'[u].obj].store] = th'[u].obj
  <2>1. CASE u = t
      BY <1>0, <1>1, <2>1 DEF Launched
  <2>2. CASE u # t
    <3>1. th'[u] = th[u] /\ Live(u) /\ th[u].obj \in Workers /\ th[u].obj # o
        BY <1>0, <1>2, <2>2 DEF Launched, Live, Owned, ThreadHeld
    <3>2. obj'[th[u].obj] = obj[th[u].obj]
        BY <3>1 DEF Launched
    <3>3. /\ obj[th[u].obj].thread = u /\ obj[th[u].obj].store \in Stores
          /\ runtime[obj[th[u].obj].store] = th[u].obj
        BY <3>1 DEF Owned, ThreadHeld
    <3>4. obj[th[u].obj].store # s
        BY <1>0, <3>1, <3>3, NamesAssumption
    <3>5. QED
        BY <1>1, <3>1, <3>2, <3>3, <3>4
  <2>3. QED
      BY <2>1, <2>2
<1>3. ThreadHeld'
    BY <1>2 DEF ThreadHeld
<1>4. \A w \in Workers : obj'[w].store = obj[w].store
    BY <1>0 DEF Launched
<1>5. ObjectsOwned'
  <2>1. obj'[SystemWorker].store = System /\ runtime'[System] = SystemWorker
    <3>1. System = s => o = SystemWorker
        BY <1>0, Starting, NamesAssumption DEF Launched, Callers
    <3>2. QED
        BY <1>1, <1>4, <3>1, NamesAssumption DEF Owned, ObjectsOwned, Stores
  <2>2. \A w \in Workers : obj'[w].store = None => obj'[w].thread = None
      BY <1>0, <1>4, NamesAssumption DEF Launched, Owned, ObjectsOwned
  <2>3. \A b \in Stores : runtime'[b] # None => obj'[runtime'[b]].store = b
      BY <1>0, <1>1, <1>4 DEF Owned, ObjectsOwned
  <2>4. QED
      BY <2>1, <2>2, <2>3 DEF ObjectsOwned
<1>6. /\ call'[c].pc = "idle" /\ \A d \in Callers : d # c => call'[d] = call[d]
    BY Ended DEF Launched
<1>7. ASSUME NEW q \in Requests
      PROVE  /\ call'[q].pc # "idle" => lock' = q /\ call'[q].store \in Bundles
             /\ call'[q].pc \in {"start", "recover"} =>
                   /\ call'[q].obj \in Workers
                   /\ obj'[call'[q].obj].store = call'[q].store
                   /\ obj'[call'[q].obj].thread = None
                   /\ runtime'[call'[q].store] = None
  <2>1. CASE c \in Requests
      BY <1>6, <2>1, OpensAlone DEF Launched, Callers
  <2>2. CASE c = Host
    <3>1. call'[q] = call[q] /\ lock' = lock /\ s = System /\ o = SystemWorker
        BY <1>6, <2>2, Unlocked, Starting, NamesAssumption DEF Launched, Callers
    <3>2. call[q].pc # "idle" => lock = q /\ call[q].store \in Bundles
        BY DEF Owned, Opening
    <3>3. ASSUME call[q].pc \in {"start", "recover"}
          PROVE  /\ call[q].obj \in Workers /\ call[q].obj # o
                 /\ obj[call[q].obj].store = call[q].store
                 /\ obj[call[q].obj].thread = None
                 /\ runtime[call[q].store] = None /\ call[q].store \in Stores /\ call[q].store # s
        BY <3>1, <3>3, NamesAssumption DEF Owned, Opening, ObjectsOwned, Stores
    <3>4. QED
        BY <1>1, <3>1, <3>2, <3>3 DEF Launched
  <2>3. QED
      BY <2>1, <2>2 DEF Callers
<1>8. Opening'
    BY <1>7 DEF Opening
<1>9. Hosting'
  <2>1. CASE c = Host
      BY <1>6, <2>1 DEF Hosting
  <2>2. CASE c # Host
    <3>1. call'[Host] = call[Host] /\ o # SystemWorker
        BY <1>6, <2>2, Starting DEF Launched, Callers
    <3>2. \A u \in Threads : Live(u)' => Live(u) \/ th'[u].obj = o
        BY DEF Launched, Live
    <3>3. \A u \in Threads : Live(u)' /\ Live(u) => th'[u].obj = th[u].obj
        BY DEF Launched, Live
    <3>4. QED
        BY <3>1, <3>2, <3>3 DEF Owned, Hosting
  <2>3. QED
      BY <2>1, <2>2
<1>10. QED
    BY <1>3, <1>5, <1>8, <1>9 DEF Owned

LEMMA StartRaisesStep ==
    ASSUME Owned, NEW c \in Callers, StartRaises(c)
    PROVE  Owned'
<1>0. /\ call[c].pc = "recover" /\ Ends(c) /\ Unlock(c) /\ UNCHANGED <<th, runtime>>
      /\ obj' = IF c = Host THEN obj ELSE [obj EXCEPT ![call[c].obj] = NoObject]
    BY DEF StartRaises
<1>1. CASE c = Host
    BY <1>0, <1>1, EndStep, NamesAssumption
<1>2. CASE c # Host
  <2> DEFINE o == call[c].obj
  <2>1. /\ o \in Workers /\ call[c].store \in Stores /\ obj[o].store = call[c].store
        /\ o # SystemWorker /\ c \in Requests /\ runtime[call[c].store] = None
      BY <1>0, <1>2, Starting
  <2>2. /\ obj \in [Workers -> [store: Stores \cup {None}, stop: BOOLEAN, thread: Threads \cup {None}]]
        /\ runtime \in [Stores -> Workers \cup {None}]
      BY DEF Owned, Names
  <2>3. /\ obj'[o] = NoObject /\ \A w \in Workers : w # o => obj'[w] = obj[w]
        /\ obj' \in [Workers -> [store: Stores \cup {None}, stop: BOOLEAN, thread: Threads \cup {None}]]
      BY <1>0, <1>2, <2>1, <2>2 DEF NoObject
  <2>4. /\ call'[c].pc = "idle" /\ \A d \in Callers : d # c => call'[d] = call[d]
        /\ call' \in [Callers -> CallType]
        /\ lock' \in Requests \cup {None}
      BY <1>0, Ended, Unlocked
  <2>5. ThreadHeld'
      BY <1>0, <2>3, Launching DEF Owned, ThreadHeld, Live
  <2>6. \A b \in Stores : runtime[b] # o
      BY <2>1, NamesAssumption DEF Owned, ObjectsOwned
  <2>7. ObjectsOwned'
    <3>1. \A w \in Workers : obj'[w].store = None => obj'[w].thread = None
        BY <2>3 DEF Owned, ObjectsOwned, NoObject
    <3>2. \A b \in Stores : runtime[b] # None => obj'[runtime[b]].store = b
        BY <2>2, <2>3, <2>6 DEF Owned, ObjectsOwned
    <3>3. obj'[SystemWorker].store = System /\ runtime[System] = SystemWorker
        BY <2>1, <2>3, NamesAssumption DEF Owned, ObjectsOwned
    <3>4. QED
        BY <1>0, <3>1, <3>2, <3>3 DEF ObjectsOwned
  <2>8. Opening'
    <3>1. \A d \in Requests : call'[d].pc = "idle"
        BY <1>0, <2>1, <2>4, OpensAlone DEF Callers
    <3>2. QED
        BY <3>1 DEF Opening
  <2>9. Hosting'
      BY <1>0, <1>2, <2>4 DEF Owned, Hosting, Callers, Live
  <2>10. Names'
      BY <1>0, <2>3, <2>4 DEF Owned, Names, CallType
  <2>11. QED
      BY <2>5, <2>7, <2>8, <2>9, <2>10 DEF Owned
<1>3. QED
    BY <1>1, <1>2

(* A stop changes a flag of objects.                                        *)
LEMMA StopStep ==
    ASSUME Owned, HostStop \/ Close
    PROVE  /\ Owned' /\ UNCHANGED <<th, runtime, lock, call, row>>
           /\ \A w \in Workers : obj'[w].store = obj[w].store /\ obj'[w].thread = obj[w].thread
<1>0. /\ obj \in [Workers -> [store: Stores \cup {None}, stop: BOOLEAN, thread: Threads \cup {None}]]
      /\ UNCHANGED <<th, runtime, lock, call, row>>
    BY DEF Owned, Names, HostStop, Close
<1>1. /\ obj' \in [Workers -> [store: Stores \cup {None}, stop: BOOLEAN, thread: Threads \cup {None}]]
      /\ \A w \in Workers : obj'[w].store = obj[w].store /\ obj'[w].thread = obj[w].thread
  <2>1. CASE HostStop
    <3>1. obj' = [obj EXCEPT ![SystemWorker].stop = TRUE]
        BY <2>1 DEF HostStop
    <3>2. QED
        BY <1>0, <3>1
  <2>2. CASE Close
    <3> DEFINE told == [w \in Workers |-> obj[w].stop \/ \E b \in Bundles : runtime[b] = w]
    <3>1. told \in [Workers -> BOOLEAN]
        BY <1>0
    <3>2. obj' = [w \in Workers |-> [obj[w] EXCEPT !.stop = told[w]]]
        BY <1>0, <2>2 DEF Close
    <3> HIDE DEF told
    <3>3. QED
        BY <1>0, <3>1, <3>2
  <2>3. QED
      BY <2>1, <2>2
<1>2. runtime \in [Stores -> Workers \cup {None}]
    BY DEF Owned, Names
<1>3. Names' /\ ThreadHeld'
    BY <1>0, <1>1 DEF Owned, Names, ThreadHeld, Live
<1>4. ObjectsOwned'
    BY <1>0, <1>1, <1>2, NamesAssumption DEF Owned, ObjectsOwned
<1>5. Opening' /\ Hosting'
    BY <1>0, <1>1 DEF Owned, Opening, Hosting, Live
<1>6. QED
    BY <1>0, <1>1, <1>3, <1>4, <1>5 DEF Owned

Fresh == /\ obj = NewObjects /\ runtime = NewRuntimes /\ lock = None
         /\ th = NoThreads /\ call = NoCalls

LEMMA FreshOwned == Fresh => Owned
<1> SUFFICES ASSUME Fresh PROVE Owned
    OBVIOUS
<1>1. /\ obj = [w \in Workers |-> IF w = SystemWorker THEN [NoObject EXCEPT !.store = System]
                                  ELSE NoObject]
      /\ runtime = [s \in Stores |-> IF s = System THEN SystemWorker ELSE None]
    BY NamesAssumption DEF Fresh, NewObjects, NewRuntimes, Stores
<1>2. /\ th = [t \in Threads |-> NoThread] /\ call = [c \in Callers |-> NoCall] /\ lock = None
    BY DEF Fresh, NoThreads, NoCalls
<1>3. System \in Stores /\ Host \in Callers /\ SystemWorker \in Workers /\ Requests \subseteq Callers
    BY NamesAssumption DEF Stores, Callers
<1>4. Names
    BY <1>1, <1>2, <1>3 DEF Names, NoObject, NoThread, NoCall, ThreadPcs, CallPcs
<1>5. ThreadHeld
    BY <1>2 DEF ThreadHeld, Live, NoThread
<1>6. ObjectsOwned
    BY <1>1, <1>3, NamesAssumption DEF ObjectsOwned, NoObject
<1>7. Opening /\ Hosting
    BY <1>2, <1>3 DEF Opening, Hosting, NoCall
<1>8. QED
    BY <1>4, <1>5, <1>6, <1>7 DEF Owned

-----------------------------------------------------------------------------
(* Rows.  A thread executes runs of its store; whoever recovers a store has *)
(* each of its running rows still to write.                                 *)
RunStatuses == {"absent", "queued", "running", "waiting_human", "completed", "cancelled", "failed"}
RowType == row \in [Runs -> [status: RunStatuses, cancel: BOOLEAN]]
OwnRun == \A t \in Threads : th[t].pc \in Executing =>
    th[t].run \in Runs /\ StoreOf[th[t].run] = obj[th[t].obj].store
ToRecover == \A c \in Callers : call[c].pc = "recover" =>
    \A r \in Runs : StoreOf[r] = call[c].store /\ row[r].status = "running"
        => \E f \in call[c].rows : f[1] = r
RowInv == RowType /\ OwnRun /\ ToRecover /\ NoOrphans

LEMMA Written ==
    ASSUME RowType, NEW r \in Runs, NEW status \in RunStatuses, NEW cancel \in BOOLEAN,
           Sets(r, status, cancel)
    PROVE  /\ RowType' /\ row'[r].status = status
           /\ \A q \in Runs : q # r => row'[q] = row[q]
BY DEF RowType, Sets

(* No run starts running.                                                   *)
Calm == RowType' /\ \A r \in Runs : row'[r].status = "running" => row[r].status = "running"

LEMMA CalmWrite ==
    ASSUME RowType, NEW r \in Runs, NEW status \in RunStatuses, NEW cancel \in BOOLEAN,
           Sets(r, status, cancel), status = "running" => row[r].status = "running"
    PROVE  Calm
BY Written DEF Calm

LEMMA SameThreads ==
    ASSUME Owned, RowInv, Calm, th' = th,
           \A t \in Threads : Live(t) => obj'[th[t].obj].store = obj[th[t].obj].store
    PROVE  OwnRun' /\ NoOrphans'
<1>1. OwnRun'
    BY DEF RowInv, OwnRun, Live, Executing
<1>2. ASSUME NEW r \in Runs, row'[r].status = "running", ThreadsOf(StoreOf[r])' # {}
      PROVE  \E t \in Holders(r)' : th'[t].pc = "running"
  <2>1. PICK u \in Threads : th[u].pc # "none" /\ obj'[th[u].obj].store = StoreOf[r]
      BY <1>2 DEF ThreadsOf
  <2>2. u \in ThreadsOf(StoreOf[r]) /\ row[r].status = "running"
      BY <1>2, <2>1 DEF ThreadsOf, Live, Calm
  <2>3. PICK t \in Holders(r) : th[t].pc = "running"
      BY <2>2 DEF RowInv, NoOrphans
  <2>4. QED
      BY <2>3 DEF Holders
<1>3. QED
    BY <1>1, <1>2 DEF NoOrphans

LEMMA StillToRecover ==
    ASSUME RowInv, Calm,
           \A c \in Callers : call'[c].pc = "recover" =>
              \/ call'[c] = call[c]
              \/ \A r \in Runs : StoreOf[r] = call'[c].store /\ row'[r].status = "running"
                                    => \E f \in call'[c].rows : f[1] = r
    PROVE  ToRecover'
BY DEF RowInv, ToRecover, Calm

LEMMA WritersSteps ==
    ASSUME Owned, RowInv, NEW r \in Runs, Create(r) \/ Decide(r) \/ Cancel(r)
    PROVE  Owned' /\ RowInv'
<1>1. UNCHANGED objects /\ row[r].cancel \in BOOLEAN /\ RowType
    BY DEF Create, Decide, Cancel, objects, RowInv, RowType
<1>2. Calm
  <2>1. \/ \E status \in {"queued", "completed"} : Sets(r, status, FALSE)
        \/ Sets(r, "cancelled", TRUE)
        \/ row[r].status = "running" /\ Sets(r, "running", TRUE)
      BY DEF Create, Decide, Cancel
  <2>2. QED
      BY <1>1, <2>1, CalmWrite DEF RunStatuses
<1>3. Owned'
    BY <1>1 DEF objects, Owned, Names, ThreadHeld, ObjectsOwned, Opening, Hosting, Live
<1>4. OwnRun' /\ NoOrphans'
    BY <1>1, <1>2, SameThreads DEF objects
<1>5. ToRecover'
    BY <1>1, <1>2, StillToRecover DEF objects
<1>6. QED
    BY <1>2, <1>3, <1>4, <1>5 DEF RowInv, Calm

(* The steps of callers but a launch, and of their owner.                   *)
LEMMA CallersOwned ==
    ASSUME Owned, RowType,
           \/ HostStart \/ HostStop \/ Close
           \/ \E q \in Requests : Lookup(q) \/ \E b \in Bundles : Open(q, b)
           \/ \E c \in Callers : Start(c) \/ RecoverRow(c) \/ StartRaises(c)
    PROVE  Owned'
<1>1. \A r \in Runs : row[r].cancel \in BOOLEAN
    BY DEF RowType
<1>2. QED
    BY <1>1, HostStartStep, StopStep, LookupStep, OpenStep, StartStep, RecoverRowStep, StartRaisesStep

LEMMA CallersObjects ==
    ASSUME Owned,
           \/ HostStart \/ HostStop \/ Close
           \/ \E q \in Requests : Lookup(q) \/ \E b \in Bundles : Open(q, b)
           \/ \E c \in Callers : Start(c) \/ RecoverRow(c) \/ StartRaises(c)
    PROVE  /\ th' = th
           /\ \A t \in Threads : Live(t) => obj'[th[t].obj].store = obj[th[t].obj].store
<1>1. th' = th
    BY DEF HostStart, HostStop, Close, Lookup, Open, Start, RecoverRow, StartRaises
<1> SUFFICES ASSUME NEW t \in Threads, Live(t)
             PROVE  obj'[th[t].obj].store = obj[th[t].obj].store
    BY <1>1
<1>2. /\ th[t].obj \in Workers /\ obj[th[t].obj].store # None
      /\ obj \in [Workers -> [store: Stores \cup {None}, stop: BOOLEAN, thread: Threads \cup {None}]]
    BY NamesAssumption DEF Owned, Names, ThreadHeld
<1>3. CASE HostStop \/ Close
    BY <1>2, <1>3, StopStep
<1>4. ASSUME NEW q \in Requests, Lookup(q)
      PROVE  obj'[th[t].obj].store = obj[th[t].obj].store
  <2>1. CASE obj' = obj
      BY <2>1
  <2>2. ASSUME NEW x \in NewWorker, obj' = [obj EXCEPT ![x].store = call[q].store]
        PROVE  obj'[th[t].obj].store = obj[th[t].obj].store
      BY <1>2, <2>2, NewWorkerUnused
  <2>3. QED
      BY <1>4, <2>1, <2>2 DEF Lookup
<1>5. ASSUME NEW c \in Callers, StartRaises(c)
      PROVE  obj'[th[t].obj].store = obj[th[t].obj].store
  <2>1. th[t].obj # call[c].obj
      BY <1>5, Launching DEF StartRaises
  <2>2. QED
      BY <1>2, <1>5, <2>1 DEF StartRaises
<1>6. ASSUME HostStart \/ (\E q \in Requests, b \in Bundles : Open(q, b))
             \/ \E c \in Callers : Start(c) \/ RecoverRow(c)
      PROVE  obj' = obj
    BY <1>6 DEF HostStart, Open, Start, RecoverRow
<1>7. QED
    BY <1>3, <1>4, <1>5, <1>6

LEMMA RecoverRowCalm ==
    ASSUME Owned, RowInv, NEW c \in Callers, RecoverRow(c)
    PROVE  /\ Calm
           /\ \E f \in call[c].rows :
                 /\ Recovering(c, call[c].rows \ {f}) /\ row'[f[1]].status # "running"
                 /\ \A r \in Runs : r # f[1] => row'[r] = row[r]
<1>1. PICK f \in call[c].rows :
         /\ Sets(f[1], IF f[2] THEN "cancelled" ELSE "queued", row[f[1]].cancel)
         /\ call' = [call EXCEPT ![c].rows = @ \ {f}]
    BY DEF RecoverRow
<1>2. f[1] \in Runs
    BY DEF Owned, Names
<1>3. RowType /\ row[f[1]].cancel \in BOOLEAN
    BY <1>2 DEF RowInv, RowType
<1>4. Recovering(c, call[c].rows \ {f})
    BY <1>1, RecoverRowGoesOn DEF RecoverRow
<1>5. PICK status \in {"cancelled", "queued"} : Sets(f[1], status, row[f[1]].cancel)
    BY <1>1
<1>6. status \in RunStatuses /\ status # "running"
    BY DEF RunStatuses
<1>7. Calm
    BY <1>2, <1>3, <1>5, <1>6, CalmWrite
<1>8. row'[f[1]].status # "running" /\ \A r \in Runs : r # f[1] => row'[r] = row[r]
    BY <1>2, <1>3, <1>5, <1>6, Written
<1>9. QED
    BY <1>4, <1>7, <1>8

LEMMA CallersCalm ==
    ASSUME Owned, RowInv,
           \/ HostStart \/ HostStop \/ Close
           \/ \E q \in Requests : Lookup(q) \/ \E b \in Bundles : Open(q, b)
           \/ \E c \in Callers : Start(c) \/ RecoverRow(c) \/ StartRaises(c)
    PROVE  Calm /\ ToRecover'
<1>0. /\ call \in [Callers -> CallType] /\ Host \in Callers /\ Requests \subseteq Callers
      /\ \A r \in Runs : row[r].cancel \in BOOLEAN
    BY DEF Owned, Names, CallType, Callers, RowInv, RowType
<1>1. row' = row => Calm
    BY DEF RowInv, RowType, Calm
<1>2. CASE HostStart \/ HostStop \/ Close
  <2>1. row' = row /\ \A d \in Callers : call'[d] = call[d] \/ call'[d].pc = "start"
      BY <1>0, <1>2 DEF HostStart, HostStop, Close
  <2>2. QED
      BY <1>1, <2>1, StillToRecover
<1>3. ASSUME NEW q \in Requests, Lookup(q) PROVE Calm /\ ToRecover'
  <2>1. row' = row
      BY <1>3 DEF Lookup
  <2>2. \A d \in Callers : call'[d] = call[d] \/ call'[d].pc \in {"start", "idle"}
    <3>1. CASE Ends(q)
        BY <1>0, <3>1, Ended
    <3>2. ASSUME NEW x, call' = [call EXCEPT ![q].pc = "start", ![q].obj = x]
          PROVE  \A d \in Callers : call'[d] = call[d] \/ call'[d].pc \in {"start", "idle"}
      <4>1. call' = [call EXCEPT ![q] = [call[q] EXCEPT !.pc = "start", !.obj = x]]
          BY <1>0, <3>2
      <4>2. [call[q] EXCEPT !.pc = "start", !.obj = x].pc = "start"
          BY <1>0 DEF CallType
      <4>3. QED
          BY <1>0, <4>1, <4>2
    <3>3. QED
        BY <1>3, <3>1, <3>2 DEF Lookup
  <2>3. QED
      BY <1>1, <2>1, <2>2, StillToRecover
<1>4. ASSUME NEW q \in Requests, NEW b \in Bundles, Open(q, b) PROVE Calm /\ ToRecover'
  <2>1. row' = row /\ call' = [call EXCEPT ![q] = [NoCall EXCEPT !.pc = "lookup", !.store = b]]
      BY <1>4 DEF Open
  <2>2. [NoCall EXCEPT !.pc = "lookup", !.store = b].pc = "lookup"
      BY DEF NoCall
  <2>3. \A d \in Callers : call'[d] = call[d] \/ call'[d].pc = "lookup"
      BY <1>0, <2>1, <2>2
  <2>4. QED
      BY <1>1, <2>1, <2>3, StillToRecover
<1>5. ASSUME NEW c \in Callers, Start(c) PROVE Calm /\ ToRecover'
  <2>1. row' = row
      BY <1>5 DEF Start
  <2>2. CASE Alive(call[c].obj)
    <3>1. \A d \in Callers : call'[d] = call[d] \/ call'[d].pc = "idle"
        BY <1>5, <2>2, Ended DEF Start
    <3>2. QED
        BY <1>1, <2>1, <3>1, StillToRecover
  <2>3. CASE ~Alive(call[c].obj)
    <3>1. Recovering(c, Found(call[c].store))
        BY <1>0, <1>5, <2>3, StartRecovers
    <3>2. \A r \in Runs : StoreOf[r] = call[c].store /\ row[r].status = "running"
             => \E f \in Found(call[c].store) : f[1] = r
      <4> SUFFICES ASSUME NEW r \in Runs, StoreOf[r] = call[c].store, row[r].status = "running"
                   PROVE  \E f \in Found(call[c].store) : f[1] = r
          OBVIOUS
      <4>1. <<r, row[r].cancel>> \in Found(call[c].store) /\ <<r, row[r].cancel>>[1] = r
          BY DEF Found
      <4>2. QED
          BY <4>1
    <3>3. \A d \in Callers : \/ call'[d] = call[d]
                             \/ \A r \in Runs : StoreOf[r] = call'[d].store /\ row'[r].status = "running"
                                    => \E f \in call'[d].rows : f[1] = r
        BY <2>1, <3>1, <3>2 DEF Recovering
    <3>4. QED
        BY <1>1, <2>1, <3>3, StillToRecover
  <2>4. QED
      BY <2>2, <2>3
<1>6. ASSUME NEW c \in Callers, RecoverRow(c) PROVE Calm /\ ToRecover'
  <2>1. PICK f \in call[c].rows :
           /\ Recovering(c, call[c].rows \ {f}) /\ row'[f[1]].status # "running"
           /\ \A r \in Runs : r # f[1] => row'[r] = row[r]
      BY <1>6, RecoverRowCalm
  <2>2. \A r \in Runs : StoreOf[r] = call[c].store /\ row'[r].status = "running"
           => \E g \in call[c].rows \ {f} : g[1] = r
      BY <1>6, <2>1 DEF RowInv, ToRecover, RecoverRow
  <2>3. \A d \in Callers : \/ call'[d] = call[d]
                           \/ \A r \in Runs : StoreOf[r] = call'[d].store /\ row'[r].status = "running"
                                  => \E g \in call'[d].rows : g[1] = r
      BY <2>1, <2>2 DEF Recovering
  <2>4. QED
      BY <1>6, <2>3, RecoverRowCalm, StillToRecover
<1>7. ASSUME NEW c \in Callers, StartRaises(c) PROVE Calm /\ ToRecover'
  <2>1. row' = row /\ \A d \in Callers : call'[d] = call[d] \/ call'[d].pc = "idle"
      BY <1>7, Ended DEF StartRaises
  <2>2. QED
      BY <1>1, <2>1, StillToRecover
<1>8. QED
    BY <1>2, <1>3, <1>4, <1>5, <1>6, <1>7

LEMMA CallersStep ==
    ASSUME Owned, RowInv,
           \/ HostStart \/ HostStop \/ Close
           \/ \E q \in Requests : Lookup(q) \/ \E b \in Bundles : Open(q, b)
           \/ \E c \in Callers : Start(c) \/ RecoverRow(c) \/ StartRaises(c)
    PROVE  Owned' /\ RowInv'
<1>1. Owned'
    BY CallersOwned DEF RowInv
<1>2. Calm /\ ToRecover'
    BY CallersCalm
<1>3. OwnRun' /\ NoOrphans'
    BY <1>2, CallersObjects, SameThreads
<1>4. QED
    BY <1>1, <1>2, <1>3 DEF RowInv, Calm

LEMMA LaunchRows ==
    ASSUME Owned, RowInv, NEW c \in Callers, Launch(c)
    PROVE  Owned' /\ RowInv'
<1>1. PICK t \in Threads : Launched(c, t)
    BY LaunchIs
<1>2. row' = row /\ Names'
    BY LaunchIs
<1>3. Owned'
    BY <1>1, <1>2, LaunchStep
<1>4. ASSUME NEW u \in Threads, u # t, Live(u)
      PROVE  th'[u] = th[u] /\ obj'[th[u].obj] = obj[th[u].obj]
    BY <1>1, <1>4, Launching DEF Launched, Owned, ThreadHeld
<1>5. OwnRun'
    BY <1>1, <1>4 DEF Launched, RowInv, OwnRun, Live, Executing
<1>6. ToRecover'
  <2>1. \A d \in Callers : call'[d] = call[d] \/ call'[d].pc = "idle"
      BY <1>1, Ended DEF Launched
  <2>2. QED
      BY <1>2, <2>1 DEF RowInv, ToRecover
<1>7. ASSUME NEW r \in Runs, row[r].status = "running", ThreadsOf(StoreOf[r])' # {}
      PROVE  \E h \in Holders(r)' : th'[h].pc = "running"
  <2>1. PICK u \in Threads : th'[u].pc # "none" /\ obj'[th'[u].obj].store = StoreOf[r]
      BY <1>7 DEF ThreadsOf
  <2>2. u # t
    <3>1. ASSUME u = t PROVE StoreOf[r] = call[c].store
        BY <1>1, <2>1, <3>1, Starting DEF Launched
    <3>2. StoreOf[r] # call[c].store
        BY <1>1, <1>7 DEF Launched, RowInv, ToRecover
    <3>3. QED
        BY <3>1, <3>2
  <2>3. th'[u] = th[u]
      BY <1>1, <2>2 DEF Launched
  <2>4. u \in ThreadsOf(StoreOf[r])
      BY <1>4, <2>1, <2>2, <2>3 DEF ThreadsOf, Live
  <2>5. PICK h \in Holders(r) : th[h].pc = "running"
      BY <1>7, <2>4 DEF RowInv, NoOrphans
  <2>6. h \in Threads /\ h # t /\ Live(h)
      BY <1>1, <2>5 DEF Holders, Launched, Live
  <2>7. QED
      BY <1>4, <2>5, <2>6 DEF Holders
<1>8. NoOrphans'
    BY <1>2, <1>7 DEF NoOrphans
<1>9. QED
    BY <1>2, <1>3, <1>5, <1>6, <1>8 DEF RowInv, RowType

(* Nobody executes runs of a store that is being recovered.                 *)
LEMMA RecoveredAlone ==
    ASSUME Owned, NEW c \in Callers, call[c].pc = "recover", NEW u \in Threads, Live(u)
    PROVE  obj[th[u].obj].store # call[c].store
BY Starting, Launching, NamesAssumption DEF Owned, ThreadHeld

(* What a thread writes: its run.                                           *)
LEMMA ThreadWrites ==
    ASSUME Owned, RowInv, NEW t \in Threads, Works(t) \/ Die(t)
    PROVE  /\ RowType'
           /\ \A r \in Runs : row'[r] = row[r] \/ (th[t].run = r /\ th[t].pc \in Executing)
           /\ \A r \in Runs : row'[r].status = "running" =>
                 \/ row[r].status = "running"
                 \/ Execute(t) /\ th[t].run = r /\ th'[t].pc = "running" /\ th'[t].run = r
           /\ th[t].pc = "running" /\ Works(t) => row'[th[t].run].status # "running"
<1>0. /\ RowType /\ th \in [Threads -> [pc: ThreadPcs, obj: Workers \cup {None}, run: Runs \cup {None}]]
      /\ th[t].pc \in Executing => th[t].run \in Runs /\ row[th[t].run].cancel \in BOOLEAN
    BY DEF Owned, Names, RowInv, OwnRun, RowType
<1>1. CASE row' = row
  <2>1. th[t].pc = "running" /\ Works(t) => row[th[t].run].status # "running"
    <3>1. ASSUME th[t].pc = "running", Works(t) PROVE Finish(t) /\ th[t].run \in Runs
        BY <1>0, <3>1 DEF Works, Exit, Pick, Check, Execute, Executing
    <3>2. ASSUME th[t].pc = "running", Works(t), row[th[t].run].status = "running" PROVE FALSE
      <4>1. /\ th[t].run \in Runs /\ row[th[t].run].cancel \in BOOLEAN
            /\ \/ \E outcome \in {"waiting_human", "completed", "failed"} :
                     Sets(th[t].run, outcome, row[th[t].run].cancel)
               \/ Sets(th[t].run, "cancelled", TRUE)
          BY <1>0, <3>1, <3>2 DEF Finish, Executing
      <4>2. row'[th[t].run].status \in {"waiting_human", "completed", "failed", "cancelled"}
          BY <1>0, <4>1 DEF Sets, RowType
      <4>3. QED
          BY <1>1, <3>2, <4>2
    <3>3. QED
        BY <3>2
  <2>2. QED
      BY <1>0, <1>1, <2>1 DEF RowType
<1>2. CASE row' # row
  <2>1. /\ Works(t) /\ th[t].pc \in Executing /\ th[t].run \in Runs
        /\ Check(t) \/ Execute(t) \/ Finish(t)
      BY <1>0, <1>2 DEF Works, Exit, Pick, Check, Execute, Finish, Die, Executing
  <2>2. ASSUME NEW status \in RunStatuses \ {"running"}, NEW cancel \in BOOLEAN,
               Sets(th[t].run, status, cancel)
        PROVE  /\ RowType' /\ row'[th[t].run].status # "running"
               /\ \A r \in Runs : r # th[t].run => row'[r] = row[r]
      BY <1>0, <2>1, <2>2, Written
  <2>3. CASE \E status \in RunStatuses \ {"running"}, cancel \in BOOLEAN :
                Sets(th[t].run, status, cancel)
    <3>1. /\ RowType' /\ row'[th[t].run].status # "running"
          /\ \A r \in Runs : r # th[t].run => row'[r] = row[r]
        BY <2>2, <2>3
    <3>2. QED
        BY <2>1, <3>1
  <2>4. CASE Execute(t) /\ Moves(t, "running") /\ Sets(th[t].run, "running", row[th[t].run].cancel)
    <3>1. "running" \in RunStatuses /\ th[t].pc = "checked"
        BY <2>4 DEF RunStatuses, Execute
    <3>2. /\ RowType' /\ \A r \in Runs : r # th[t].run => row'[r] = row[r]
        BY <1>0, <2>1, <2>4, <3>1, Written
    <3>3. th'[t].pc = "running" /\ th'[t].run = th[t].run
        BY <1>0, <2>4 DEF Moves
    <3>4. QED
        BY <2>1, <2>4, <3>1, <3>2, <3>3
  <2>5. Check(t) => Sets(th[t].run, "cancelled", TRUE)
      BY <1>2 DEF Check
  <2>6. Execute(t) => \/ Sets(th[t].run, "failed", row[th[t].run].cancel)
                      \/ Moves(t, "running") /\ Sets(th[t].run, "running", row[th[t].run].cancel)
      BY <1>2 DEF Execute
  <2>7. Finish(t) => \/ \E outcome \in {"waiting_human", "completed", "failed"} :
                            Sets(th[t].run, outcome, row[th[t].run].cancel)
                     \/ Sets(th[t].run, "cancelled", TRUE)
      BY <1>2 DEF Finish
  <2>8. /\ {"cancelled", "failed", "waiting_human", "completed"} \subseteq RunStatuses \ {"running"}
        /\ row[th[t].run].cancel \in BOOLEAN
      BY <1>0, <2>1 DEF RunStatuses
  <2>9. CASE Check(t)
      BY <2>3, <2>5, <2>8, <2>9
  <2>10. CASE Execute(t)
      BY <2>3, <2>4, <2>6, <2>8, <2>10
  <2>11. CASE Finish(t)
      BY <2>3, <2>7, <2>8, <2>11
  <2>12. QED
      BY <2>1, <2>9, <2>10, <2>11
<1>3. QED
    BY <1>1, <1>2

LEMMA ThreadOwnRun ==
    ASSUME Owned, RowInv, NEW t \in Threads, Works(t) \/ Die(t)
    PROVE  OwnRun'
<1>0. /\ th \in [Threads -> [pc: ThreadPcs, obj: Workers \cup {None}, run: Runs \cup {None}]]
      /\ UNCHANGED obj /\ OwnRun
    BY ThreadSteps DEF Owned, Names, RowInv
<1>1. ASSUME NEW u \in Threads, u # t, th'[u].pc \in Executing
      PROVE  th'[u].run \in Runs /\ StoreOf[th'[u].run] = obj'[th'[u].obj].store
    BY <1>0, <1>1, ThreadSteps DEF OwnRun
<1>2. ASSUME th'[t].pc \in Executing
      PROVE  th'[t].run \in Runs /\ StoreOf[th'[t].run] = obj'[th'[t].obj].store
  <2>1. th'[t].obj = th[t].obj
      BY <1>2, ThreadSteps DEF Live, Executing
  <2>2. CASE Pick(t)
    <3>1. PICK r \in Queue(obj[th[t].obj].store) : th' = [th EXCEPT ![t].pc = "picked", ![t].run = r]
        BY <2>2 DEF Pick
    <3>2. th'[t].run = r /\ r \in Runs /\ StoreOf[r] = obj[th[t].obj].store
        BY <1>0, <3>1 DEF Queue
    <3>3. QED
        BY <1>0, <2>1, <3>2
  <2>3. CASE Exit(t) \/ Die(t) \/ Loops(t)
    <3>1. th'[t].pc \in {"none", "loop"}
        BY <1>0, <2>3 DEF Exit, Die, Loops, NoThread
    <3>2. QED
        BY <1>2, <3>1 DEF Executing
  <2>4. CASE ~Loops(t) /\ (Check(t) \/ Execute(t) \/ Finish(t))
    <3>1. th[t].pc \in Executing /\ (Moves(t, "checked") \/ Moves(t, "running"))
        BY <2>4 DEF Check, Execute, Finish, Executing
    <3>2. th'[t].run = th[t].run
        BY <1>0, <3>1 DEF Moves
    <3>3. QED
        BY <1>0, <2>1, <3>1, <3>2 DEF OwnRun
  <2>5. QED
      BY <2>2, <2>3, <2>4 DEF Works
<1>3. QED
    BY <1>1, <1>2 DEF OwnRun

LEMMA ThreadsStep ==
    ASSUME Owned, RowInv, NEW t \in Threads, Works(t) \/ Die(t)
    PROVE  Owned' /\ RowInv'
<1>1. Owned'
  <2>1. \A u \in Threads : Live(u)' => Live(u) /\ th'[u].obj = th[u].obj
      BY ThreadSteps DEF Live
  <2>2. QED
      BY <2>1, ThreadSteps, ThreadsGoOn
<1>2. RowType' /\ OwnRun'
    BY ThreadWrites, ThreadOwnRun
<1>3. ToRecover'
  <2> SUFFICES ASSUME NEW c \in Callers, call[c].pc = "recover", NEW r \in Runs,
                      StoreOf[r] = call[c].store, row'[r].status = "running"
               PROVE  \E f \in call[c].rows : f[1] = r
      BY ThreadSteps DEF ToRecover
  <2>1. row[r].status = "running"
    <3>1. ASSUME th[t].run = r, th[t].pc \in Executing PROVE FALSE
        BY <3>1, RecoveredAlone, ThreadSteps DEF RowInv, OwnRun
    <3>2. QED
        BY <3>1, ThreadWrites
  <2>2. QED
      BY <2>1 DEF RowInv, ToRecover
<1>4. ASSUME NEW r \in Runs, row'[r].status = "running", ThreadsOf(StoreOf[r])' # {}
      PROVE  \E h \in Holders(r)' : th'[h].pc = "running"
  <2>1. PICK u \in Threads : th'[u].pc # "none" /\ obj'[th'[u].obj].store = StoreOf[r]
      BY <1>4 DEF ThreadsOf
  <2>2. th[u].pc # "none" /\ obj[th[u].obj].store = StoreOf[r]
      BY <2>1, ThreadSteps DEF Live
  <2>3. CASE Execute(t) /\ th[t].run = r /\ th'[t].pc = "running" /\ th'[t].run = r
      BY <2>3 DEF Holders, Executing
  <2>4. CASE row[r].status = "running"
    <3>1. PICK h \in Holders(r) : th[h].pc = "running"
        BY <2>2, <2>4 DEF RowInv, NoOrphans, ThreadsOf
    <3>2. h \in Threads /\ th[h].run = r
        BY <3>1 DEF Holders
    <3>3. CASE h # t
      <4>1. th'[h] = th[h]
          BY <3>2, <3>3, ThreadSteps
      <4>2. QED
          BY <3>1, <4>1 DEF Holders
    <3>4. CASE h = t
      <4>1. ~Works(t)
          BY <1>4, <3>1, <3>2, <3>4, ThreadWrites
      <4>2. th' = [th EXCEPT ![t] = NoThread]
          BY <4>1 DEF Die
      <4>3. ~Live(t)'
          BY <4>2 DEF Live, NoThread, Owned, Names
      <4>4. obj[th[t].obj].store = StoreOf[r] /\ Live(t)
          BY <3>1, <3>2, <3>4 DEF RowInv, OwnRun, Executing, Live
      <4>5. u = t
          BY <2>2, <4>4, OneThread DEF Live
      <4>6. QED
          BY <2>1, <4>3, <4>5 DEF Live
    <3>5. QED
        BY <3>3, <3>4
  <2>5. QED
      BY <1>4, <2>3, <2>4, ThreadWrites
<1>5. NoOrphans'
    BY <1>4 DEF NoOrphans
<1>6. QED
    BY <1>1, <1>2, <1>3, <1>5 DEF RowInv

-----------------------------------------------------------------------------
QueueInv == Owned /\ RowInv

LEMMA FreshRows == Fresh /\ RowType => QueueInv
<1> SUFFICES ASSUME Fresh, RowType PROVE QueueInv
    OBVIOUS
<1>1. th = [t \in Threads |-> NoThread] /\ call = [c \in Callers |-> NoCall]
    BY DEF Fresh, NoThreads, NoCalls
<1>2. OwnRun /\ ToRecover /\ NoOrphans
    BY <1>1 DEF OwnRun, ToRecover, NoOrphans, ThreadsOf, NoThread, NoCall, Executing
<1>3. QED
    BY <1>2, FreshOwned DEF QueueInv, RowInv

LEMMA FreshAgain == Fresh' /\ RowType' => QueueInv'
    BY FreshRows, PTL

LEMMA QueueInit == Init => QueueInv
<1> SUFFICES ASSUME Init PROVE QueueInv
    OBVIOUS
<1>1. Fresh
    BY DEF Init, Fresh
<1>2. RowType
    BY DEF Init, RowType, RunStatuses
<1>3. QED
    BY <1>1, <1>2, FreshRows

LEMMA QueueStep == QueueInv /\ [Next]_vars => QueueInv'
<1> SUFFICES ASSUME Owned, RowInv, [Next]_vars PROVE Owned' /\ RowInv'
    BY DEF QueueInv
<1>1. CASE \E r \in Runs : Create(r) \/ Decide(r) \/ Cancel(r)
    BY <1>1, WritersSteps
<1>2. CASE \/ HostStart \/ HostStop \/ Close
           \/ \E q \in Requests : Lookup(q) \/ \E b \in Bundles : Open(q, b)
           \/ \E c \in Callers : Start(c) \/ RecoverRow(c) \/ StartRaises(c)
    BY <1>2, CallersStep
<1>3. CASE \E c \in Callers : Launch(c)
    BY <1>3, LaunchRows
<1>4. CASE \E t \in Threads : Works(t) \/ Die(t)
    BY <1>4, ThreadsStep
<1>5. CASE Crash
  <2>1. Fresh' /\ RowType'
      BY <1>5 DEF Crash, Fresh, NewObjects, NewRuntimes, NoThreads, NoCalls, RowInv, RowType
  <2>2. QED
      BY <2>1, FreshAgain DEF QueueInv
<1>6. CASE UNCHANGED vars
  <2>1. Owned'
      BY <1>6 DEF vars, objects, Owned, Names, ThreadHeld, ObjectsOwned, Opening, Hosting, Live
  <2>2. RowInv'
      BY <1>6 DEF vars, objects, RowInv, RowType, OwnRun, ToRecover, NoOrphans, ThreadsOf, Holders
  <2>3. QED
      BY <2>1, <2>2
<1>7. QED
    BY <1>1, <1>2, <1>3, <1>4, <1>5, <1>6 DEF Next

(* No two threads execute runs of one store at once, however many requests  *)
(* open a bundle's runtime together, and though a stopped worker's thread   *)
(* may outlive the stop: start() finds it alive.                            *)
THEOREM StoreHasOneExecutor == Spec => []OneExecutor
<1>1. Owned => OneExecutor
  <2> SUFFICES ASSUME Owned, NEW s \in Stores
               PROVE  Cardinality({t \in ThreadsOf(s) : th[t].pc \in Executing}) <= 1
      BY DEF OneExecutor
  <2> DEFINE busy == {t \in ThreadsOf(s) : th[t].pc \in Executing}
  <2>1. \A t, u \in busy : t = u
      BY OneThread DEF ThreadsOf, Live
  <2>2. CASE busy = {}
      BY <2>2, FS_EmptySet
  <2>3. CASE busy # {}
    <3>1. PICK t \in busy : TRUE
        BY <2>3
    <3>2. busy = {t}
        BY <2>1, <3>1
    <3>3. Cardinality({t}) = 1
        BY FS_Singleton
    <3>4. Cardinality(busy) = 1
        BY <3>2, <3>3
    <3>5. QED
        BY <3>4
  <2>4. QED
      BY <2>2, <2>3
<1>2. QED
    BY <1>1, QueueInit, QueueStep, PTL DEF Spec, QueueInv

(* Once a store has a worker thread, each of its running runs is the one    *)
(* that thread executes, after crashes, dead threads, recoveries that       *)
(* stopped half way and cancellations that came between its writes.         *)
THEOREM RunningRunsAreHeld == Spec => []NoOrphans
<1>1. QueueInv => NoOrphans
    BY DEF QueueInv, RowInv
<1>2. QED
    BY <1>1, QueueInit, QueueStep, PTL DEF Spec

-----------------------------------------------------------------------------
(* The status protocol of each run.  A thread's run is neither absent nor,  *)
(* while it is executed, anything but running or cancelled; a recovery's    *)
(* rows are still as it found them, but for a cancellation.                 *)
Clean == \A r \in Runs : row[r].status = "absent" => ~row[r].cancel
Started == \A t \in Threads : th[t].pc \in Executing =>
    /\ row[th[t].run].status # "absent"
    /\ th[t].pc = "running" => row[th[t].run].status \in {"running", "cancelled"}
FoundOnce == \A c \in Callers : call[c].pc = "recover" =>
    \A f \in call[c].rows :
        /\ StoreOf[f[1]] = call[c].store /\ row[f[1]].status \in {"running", "cancelled"}
        /\ \A g \in call[c].rows : f[1] = g[1] => f = g
KeepInv == Clean /\ Started /\ FoundOnce

(* What an operator writes.                                                 *)
Creates(r) == /\ row[r].status = "absent"
              /\ row'[r].status = "queued" /\ ~row'[r].cancel
Decides(r) == /\ row[r].status = "waiting_human" /\ ~row[r].cancel
              /\ row'[r].status \in {"queued", "completed"} /\ ~row'[r].cancel
Cancels(r) == /\ row[r].status \in {"queued", "running", "waiting_human"} /\ row'[r].cancel
              /\ \/ row'[r].status = "cancelled"
                 \/ row[r].status = "running" /\ row'[r].status = "running"

LEMMA WritersWrite ==
    ASSUME RowType, NEW r \in Runs, Create(r) \/ Decide(r) \/ Cancel(r)
    PROVE  /\ UNCHANGED objects /\ \A q \in Runs : q # r => row'[q] = row[q]
           /\ Creates(r) \/ Decides(r) \/ Cancels(r)
<1>1. UNCHANGED objects
    BY DEF Create, Decide, Cancel
<1>2. \A status, cancel : Sets(r, status, cancel) =>
          /\ row'[r].status = status /\ row'[r].cancel = cancel
          /\ \A q \in Runs : q # r => row'[q] = row[q]
    BY DEF Sets, RowType
<1>3. CASE Create(r)
    BY <1>1, <1>2, <1>3 DEF Create, Creates
<1>4. CASE Decide(r)
  <2>1. \E status \in {"queued", "completed"} : Sets(r, status, FALSE)
      BY <1>4 DEF Decide
  <2>2. QED
      BY <1>1, <1>2, <1>4, <2>1 DEF Decide, Decides
<1>5. CASE Cancel(r)
  <2>1. Sets(r, "cancelled", TRUE) \/ (row[r].status = "running" /\ Sets(r, "running", TRUE))
      BY <1>5 DEF Cancel
  <2>2. QED
      BY <1>1, <1>2, <1>5, <2>1 DEF Cancel, Cancels
<1>6. QED
    BY <1>3, <1>4, <1>5

(* What a thread does with its run.                                         *)
EndsThread(t) == th'[t].pc = "none" /\ row' = row
Takes(t) == /\ th[t].pc = "loop" /\ th'[t].pc = "picked" /\ row' = row
            /\ th'[t].run \in Runs /\ StoreOf[th'[t].run] = obj[th[t].obj].store
            /\ row[th'[t].run].status = "queued" /\ ~row[th'[t].run].cancel
Has(t, r) == /\ th[t].pc \in Executing /\ th[t].run = r /\ r \in Runs
             /\ row'[r].cancel = row[r].cancel /\ \A q \in Runs : q # r => row'[q] = row[q]
GoesOn(t, r) == /\ Has(t, r) /\ th'[t].pc \in {"checked", "running"} /\ th'[t].run = r
                /\ th'[t].pc = "checked" => row'[r] = row[r]
                /\ th'[t].pc = "running" => row'[r].status = "running"
Leaves(t, r) == /\ Has(t, r) /\ th'[t].pc = "loop"
                /\ \/ row'[r].status \in {"waiting_human", "completed", "cancelled", "failed"}
                   \/ /\ row'[r] = row[r]
                      /\ IF th[t].pc = "running" THEN row[r].status # "running"
                         ELSE row[r].status # "queued"

LEMMA ThreadActs ==
    ASSUME Owned, RowInv, NEW t \in Threads, Works(t) \/ Die(t)
    PROVE  EndsThread(t) \/ Takes(t) \/ GoesOn(t, th[t].run) \/ Leaves(t, th[t].run)
<1> DEFINE r == th[t].run
<1>0. /\ RowType /\ th \in [Threads -> [pc: ThreadPcs, obj: Workers \cup {None}, run: Runs \cup {None}]]
      /\ th[t].pc \in Executing => r \in Runs
    BY DEF Owned, Names, RowInv, OwnRun
<1>1. CASE Exit(t) \/ Die(t)
    BY <1>0, <1>1 DEF Exit, Die, EndsThread, NoThread
<1>2. CASE Pick(t)
  <2>1. PICK q \in Queue(obj[th[t].obj].store) : th' = [th EXCEPT ![t].pc = "picked", ![t].run = q]
      BY <1>2 DEF Pick
  <2>2. th'[t].pc = "picked" /\ th'[t].run = q
      BY <1>0, <2>1
  <2>3. QED
      BY <1>2, <2>2 DEF Takes, Queue, Pick
<1>3. ASSUME Check(t) \/ Execute(t) \/ Finish(t)
      PROVE  /\ th[t].pc \in Executing /\ r \in Runs /\ row[r].cancel \in BOOLEAN
             /\ row' = row => Has(t, r)
             /\ \A status : Sets(r, status, row[r].cancel) => Has(t, r) /\ row'[r].status = status
  <2>1. th[t].pc \in Executing /\ r \in Runs
      BY <1>0, <1>3 DEF Check, Execute, Finish, Executing
  <2>2. row[r].cancel \in BOOLEAN /\ (row' = row => Has(t, r))
      BY <1>0, <2>1 DEF RowType, Has
  <2>3. ASSUME NEW status, Sets(r, status, row[r].cancel)
        PROVE  Has(t, r) /\ row'[r].status = status
      BY <1>0, <2>1, <2>3 DEF RowType, Sets, Has
  <2>4. QED
      BY <2>1, <2>2, <2>3
<1>4. Loops(t) => th'[t].pc = "loop"
    BY <1>0 DEF Loops
<1>5. \A pc : Moves(t, pc) => th'[t].pc = pc /\ th'[t].run = r
    BY <1>0 DEF Moves
<1>6. CASE Check(t)
  <2>1. CASE Loops(t) /\ row' = row /\ row[r].status # "queued"
      BY <1>3, <1>4, <1>6, <2>1 DEF Check, Leaves
  <2>2. CASE Loops(t) /\ row[r].cancel /\ Sets(r, "cancelled", TRUE)
    <3>1. Sets(r, "cancelled", row[r].cancel)
        BY <1>3, <1>6, <2>2
    <3>2. QED
        BY <1>3, <1>4, <1>6, <2>2, <3>1 DEF Leaves
  <2>3. CASE Moves(t, "checked") /\ row' = row
      BY <1>3, <1>5, <1>6, <2>3 DEF GoesOn
  <2>4. QED
      BY <1>6, <2>1, <2>2, <2>3 DEF Check
<1>7. CASE Execute(t)
  <2>1. CASE Moves(t, "running") /\ Sets(r, "running", row[r].cancel)
      BY <1>3, <1>5, <1>7, <2>1 DEF GoesOn
  <2>2. CASE Loops(t) /\ Sets(r, "failed", row[r].cancel)
      BY <1>3, <1>4, <1>7, <2>2 DEF Leaves
  <2>3. CASE Loops(t) /\ row' = row /\ row[r].status # "queued"
      BY <1>3, <1>4, <1>7, <2>3 DEF Execute, Leaves
  <2>4. QED
      BY <1>7, <2>1, <2>2, <2>3 DEF Execute
<1>8. CASE Finish(t)
  <2>1. Loops(t) /\ th[t].pc = "running"
      BY <1>8 DEF Finish
  <2>2. CASE row' = row /\ row[r].status # "running"
      BY <1>3, <1>4, <1>8, <2>1, <2>2 DEF Leaves
  <2>3. CASE \E outcome \in {"waiting_human", "completed", "failed", "cancelled"} :
                Sets(r, outcome, row[r].cancel)
    <3>1. PICK outcome \in {"waiting_human", "completed", "failed", "cancelled"} :
              Sets(r, outcome, row[r].cancel)
        BY <2>3
    <3>2. Has(t, r) /\ row'[r].status = outcome
        BY <1>3, <1>8, <3>1
    <3>3. QED
        BY <1>4, <2>1, <3>2 DEF Leaves
  <2>4. CASE row[r].cancel /\ Sets(r, "cancelled", TRUE)
    <3>1. Sets(r, "cancelled", row[r].cancel)
        BY <1>3, <1>8, <2>4
    <3>2. QED
        BY <2>3, <3>1
  <2>5. QED
      BY <1>8, <2>2, <2>3, <2>4 DEF Finish
<1>9. QED
    BY <1>1, <1>2, <1>6, <1>7, <1>8 DEF Works

(* Two recoveries under way are of different stores.                        *)
LEMMA RecoverApart ==
    ASSUME Owned, NEW c \in Callers, NEW d \in Callers, c # d,
           call[c].pc = "recover", call[d].pc = "recover"
    PROVE  call[c].store # call[d].store
<1>1. CASE c \in Requests /\ d \in Requests
    BY <1>1, OpensAlone
<1>2. CASE c = Host \/ d = Host
    BY <1>2, Starting, NamesAssumption DEF Callers
<1>3. QED
    BY <1>1, <1>2 DEF Callers

LEMMA WritersKeep ==
    ASSUME Owned, RowInv, KeepInv, NEW r \in Runs, Create(r) \/ Decide(r) \/ Cancel(r)
    PROVE  KeepInv'
<1>1. /\ RowType /\ UNCHANGED <<th, call>>
      /\ \A q \in Runs : q # r => row'[q] = row[q]
      /\ Creates(r) \/ Decides(r) \/ Cancels(r)
    BY WritersWrite DEF RowInv, objects
<1>2. /\ row'[r].status # "absent"
      /\ row[r].status \in {"running", "cancelled"} => row'[r].status \in {"running", "cancelled"}
    BY <1>1 DEF Creates, Decides, Cancels
<1>3. Clean'
    BY <1>1, <1>2 DEF Clean, KeepInv
<1>4. Started'
  <2>1. ASSUME NEW t \in Threads, th[t].pc \in Executing
        PROVE  /\ row'[th[t].run].status # "absent"
               /\ th[t].pc = "running" => row'[th[t].run].status \in {"running", "cancelled"}
    <3>1. th[t].run \in Runs
        BY <2>1 DEF RowInv, OwnRun
    <3>2. QED
        BY <1>1, <1>2, <2>1, <3>1 DEF KeepInv, Started
  <2>2. QED
      BY <1>1, <2>1 DEF Started
<1>5. FoundOnce'
  <2>1. ASSUME NEW c \in Callers, call[c].pc = "recover", NEW f \in call[c].rows
        PROVE  row'[f[1]].status \in {"running", "cancelled"}
    <3>1. f[1] \in Runs
        BY DEF Owned, Names
    <3>2. QED
        BY <1>1, <1>2, <2>1, <3>1 DEF KeepInv, FoundOnce
  <2>2. QED
      BY <1>1, <2>1 DEF KeepInv, FoundOnce
<1>6. QED
    BY <1>3, <1>4, <1>5 DEF KeepInv

(* A caller's step writes rows only in a recovery, and what it finds is     *)
(* running.                                                                 *)
Quietly == /\ row' = row
           /\ \A c \in Callers : call'[c].pc = "recover" =>
                \/ call[c].pc = "recover" /\ call'[c].rows = call[c].rows
                                          /\ call'[c].store = call[c].store
                \/ call'[c].rows = Found(call'[c].store)

LEMMA CallersQuiet ==
    ASSUME Owned, RowInv,
           \/ HostStart \/ HostStop \/ Close
           \/ \E q \in Requests : Lookup(q) \/ \E b \in Bundles : Open(q, b)
           \/ \E c \in Callers : Start(c) \/ StartRaises(c)
    PROVE  Quietly
<1>0. /\ call \in [Callers -> CallType] /\ RowType
      /\ Requests \subseteq Callers /\ Host \in Callers
    BY DEF Owned, Names, CallType, RowInv, Callers
<1>1. CASE HostStop \/ Close
    BY <1>1 DEF HostStop, Close, Quietly
<1>2. CASE HostStart
    BY <1>0, <1>2 DEF HostStart, Quietly, CallType
<1>3. ASSUME NEW q \in Requests, Lookup(q)
      PROVE  Quietly
  <2>1. CASE Ends(q)
    <3>1. call'[q].pc = "idle" /\ \A d \in Callers : d # q => call'[d] = call[d]
        BY <1>0, <2>1, Ended
    <3>2. QED
        BY <1>3, <3>1 DEF Lookup, Quietly
  <2>2. CASE \E w \in NewWorker : call' = [call EXCEPT ![q].pc = "start", ![q].obj = w]
    <3>1. PICK w \in NewWorker : call' = [call EXCEPT ![q].pc = "start", ![q].obj = w]
        BY <2>2
    <3>2. call' = [call EXCEPT ![q] = [call[q] EXCEPT !.pc = "start", !.obj = w]]
        BY <1>0, <3>1
    <3>3. call'[q].pc = "start" /\ \A d \in Callers : d # q => call'[d] = call[d]
        BY <1>0, <3>2 DEF CallType
    <3>4. QED
        BY <1>3, <3>3 DEF Lookup, Quietly
  <2>3. QED
      BY <1>3, <2>1, <2>2 DEF Lookup
<1>4. ASSUME NEW q \in Requests, NEW b \in Bundles, Open(q, b)
      PROVE  Quietly
  <2>1. call'[q].pc = "lookup" /\ \A d \in Callers : d # q => call'[d] = call[d]
      BY <1>0, <1>4 DEF Open, NoCall, CallType
  <2>2. QED
      BY <1>4, <2>1 DEF Open, Quietly
<1>5. ASSUME NEW c \in Callers, Start(c)
      PROVE  Quietly
  <2>1. CASE Ends(c)
    <3>1. call'[c].pc = "idle" /\ \A d \in Callers : d # c => call'[d] = call[d]
        BY <2>1, Ended
    <3>2. QED
        BY <1>5, <3>1 DEF Start, Quietly
  <2>2. CASE ~Alive(call[c].obj)
    <3>1. Recovering(c, Found(call[c].store))
        BY <1>0, <1>5, <2>2, StartRecovers DEF RowType
    <3>2. QED
        BY <1>5, <3>1 DEF Start, Quietly, Recovering
  <2>3. QED
      BY <1>5, <2>1, <2>2 DEF Start
<1>6. ASSUME NEW c \in Callers, StartRaises(c)
      PROVE  Quietly
  <2>1. call'[c].pc = "idle" /\ \A d \in Callers : d # c => call'[d] = call[d]
      BY <1>6, Ended DEF StartRaises
  <2>2. QED
      BY <1>6, <2>1 DEF StartRaises, Quietly
<1>7. QED
    BY <1>1, <1>2, <1>3, <1>4, <1>5, <1>6

LEMMA QuietKeeps ==
    ASSUME Owned, RowInv, KeepInv, Quietly, th' = th
    PROVE  KeepInv'
<1>1. Clean' /\ Started'
    BY DEF Quietly, KeepInv, Clean, Started
<1>2. ASSUME NEW c \in Callers, call'[c].pc = "recover", NEW f \in call'[c].rows
      PROVE  /\ StoreOf[f[1]] = call'[c].store /\ row[f[1]].status \in {"running", "cancelled"}
             /\ \A g \in call'[c].rows : f[1] = g[1] => f = g
  <2>1. CASE call[c].pc = "recover" /\ call'[c].rows = call[c].rows /\ call'[c].store = call[c].store
      BY <1>2, <2>1 DEF KeepInv, FoundOnce
  <2>2. CASE call'[c].rows = Found(call'[c].store)
      BY <1>2, <2>2 DEF Found
  <2>3. QED
      BY <1>2, <2>1, <2>2 DEF Quietly
<1>3. FoundOnce'
    BY <1>2 DEF FoundOnce, Quietly
<1>4. QED
    BY <1>1, <1>3 DEF KeepInv

(* A recovery writes a row that no thread executes and no other recovery    *)
(* found.                                                                   *)
Recovers(c, r) ==
    /\ call[c].pc = "recover" /\ r \in Runs /\ StoreOf[r] = call[c].store
    /\ row[r].status \in {"running", "cancelled"}
    /\ row'[r].status \in {"queued", "cancelled"} /\ row'[r].cancel = row[r].cancel
    /\ \A q \in Runs : q # r => row'[q] = row[q]
    /\ UNCHANGED <<obj, th>>
    /\ \E f \in call[c].rows : f[1] = r /\ Recovering(c, call[c].rows \ {f})

LEMMA RecoverRowWrites ==
    ASSUME Owned, RowInv, KeepInv, NEW c \in Callers, RecoverRow(c)
    PROVE  \E r \in Runs : Recovers(c, r)
<1>1. PICK f \in call[c].rows :
        /\ Sets(f[1], IF f[2] THEN "cancelled" ELSE "queued", row[f[1]].cancel)
        /\ call' = [call EXCEPT ![c].rows = @ \ {f}]
    BY DEF RecoverRow
<1>2. call[c].pc = "recover" /\ UNCHANGED <<obj, th>>
    BY DEF RecoverRow
<1>3. f[1] \in Runs /\ row[f[1]].cancel \in BOOLEAN
    BY DEF Owned, Names, RowInv, RowType
<1>4. PICK status \in {"queued", "cancelled"} : Sets(f[1], status, row[f[1]].cancel)
    BY <1>1
<1>5. /\ row'[f[1]].status = status /\ row'[f[1]].cancel = row[f[1]].cancel
      /\ \A q \in Runs : q # f[1] => row'[q] = row[q]
    BY <1>3, <1>4 DEF Sets, RowInv, RowType
<1>6. Recovering(c, call[c].rows \ {f})
    BY <1>1, <1>2, RecoverRowGoesOn
<1>7. StoreOf[f[1]] = call[c].store /\ row[f[1]].status \in {"running", "cancelled"}
    BY <1>2 DEF KeepInv, FoundOnce
<1>8. QED
    BY <1>2, <1>3, <1>5, <1>6, <1>7 DEF Recovers

LEMMA RecoversKeep ==
    ASSUME Owned, RowInv, KeepInv, NEW c \in Callers, NEW r \in Runs, Recovers(c, r)
    PROVE  KeepInv'
<1>1. Clean'
    BY DEF Recovers, KeepInv, Clean
<1>2. ASSUME NEW t \in Threads, th[t].pc \in Executing
      PROVE  th[t].run # r /\ th[t].run \in Runs
  <2>1. obj[th[t].obj].store # call[c].store
      BY <1>2, RecoveredAlone DEF Recovers, Live, Executing
  <2>2. QED
      BY <1>2, <2>1 DEF Recovers, RowInv, OwnRun
<1>3. Started'
    BY <1>2 DEF Recovers, KeepInv, Started
<1>4. PICK f \in call[c].rows : f[1] = r /\ Recovering(c, call[c].rows \ {f})
    BY DEF Recovers
<1>5. ASSUME NEW d \in Callers, call'[d].pc = "recover", NEW g \in call'[d].rows
      PROVE  /\ call[d].pc = "recover" /\ g \in call[d].rows /\ call'[d].rows \subseteq call[d].rows
             /\ call'[d].store = call[d].store /\ g[1] # r /\ g[1] \in Runs
  <2>1. CASE d = c
      BY <1>4, <1>5, <2>1 DEF Recovers, Recovering, KeepInv, FoundOnce, Owned, Names
  <2>2. CASE d # c
    <3>1. call'[d] = call[d]
        BY <1>4, <2>2 DEF Recovering
    <3>2. call[d].store # call[c].store
        BY <1>5, <2>2, <3>1, RecoverApart DEF Recovers
    <3>3. StoreOf[g[1]] = call[d].store /\ g[1] \in Runs
        BY <1>5, <3>1 DEF KeepInv, FoundOnce, Owned, Names
    <3>4. QED
        BY <1>5, <3>1, <3>2, <3>3 DEF Recovers
  <2>3. QED
      BY <2>1, <2>2
<1>6. FoundOnce'
  <2>1. ASSUME NEW d \in Callers, call'[d].pc = "recover", NEW g \in call'[d].rows
        PROVE  /\ StoreOf[g[1]] = call'[d].store /\ row'[g[1]].status \in {"running", "cancelled"}
               /\ \A h \in call'[d].rows : g[1] = h[1] => g = h
    <3>1. row'[g[1]] = row[g[1]]
        BY <1>5, <2>1 DEF Recovers
    <3>2. QED
        BY <1>5, <2>1, <3>1 DEF KeepInv, FoundOnce
  <2>2. QED
      BY <2>1 DEF FoundOnce
<1>7. QED
    BY <1>1, <1>3, <1>6 DEF KeepInv

LEMMA LaunchKeeps ==
    ASSUME Owned, RowInv, KeepInv, NEW c \in Callers, Launch(c)
    PROVE  KeepInv'
<1>1. PICK t \in Threads : Launched(c, t) /\ row' = row
    BY LaunchIs
<1>2. /\ th'[t].pc = "loop" /\ \A u \in Threads : u # t => th'[u] = th[u]
      /\ call'[c].pc = "idle" /\ \A d \in Callers : d # c => call'[d] = call[d]
    BY <1>1, Ended DEF Launched
<1>3. QED
    BY <1>1, <1>2 DEF KeepInv, Clean, Started, FoundOnce, Executing

(* No two threads have a run, and none has one that a recovery found.       *)
LEMMA OneHolder ==
    ASSUME Owned, RowInv, NEW t \in Threads, th[t].pc \in Executing
    PROVE  /\ th[t].run \in Runs /\ t \in ThreadsOf(StoreOf[th[t].run])
           /\ \A u \in Threads : Live(u) /\ obj[th[u].obj].store = StoreOf[th[t].run] => u = t
           /\ \A u \in Threads : th[u].pc \in Executing /\ th[u].run = th[t].run => u = t
           /\ \A c \in Callers : call[c].pc = "recover" => call[c].store # StoreOf[th[t].run]
<1>1. Live(t) /\ th[t].run \in Runs /\ StoreOf[th[t].run] = obj[th[t].obj].store
    BY DEF Live, Executing, RowInv, OwnRun
<1>2. ASSUME NEW u \in Threads, Live(u), obj[th[u].obj].store = StoreOf[th[t].run]
      PROVE  u = t
    BY <1>1, <1>2, OneThread
<1>3. ASSUME NEW u \in Threads, th[u].pc \in Executing, th[u].run = th[t].run
      PROVE  u = t
  <2>1. Live(u) /\ StoreOf[th[u].run] = obj[th[u].obj].store
      BY <1>3 DEF Live, Executing, RowInv, OwnRun
  <2>2. QED
      BY <1>2, <1>3, <2>1
<1>4. ASSUME NEW c \in Callers, call[c].pc = "recover"
      PROVE  call[c].store # StoreOf[th[t].run]
    BY <1>1, <1>4, RecoveredAlone
<1>5. t \in ThreadsOf(StoreOf[th[t].run])
    BY <1>1 DEF ThreadsOf, Live
<1>6. QED
    BY <1>1, <1>2, <1>3, <1>4, <1>5

LEMMA ThreadsKeep ==
    ASSUME Owned, RowInv, KeepInv, NEW t \in Threads, Works(t) \/ Die(t)
    PROVE  KeepInv'
<1>1. call' = call /\ \A u \in Threads : u # t => th'[u] = th[u]
    BY ThreadSteps
<1>2. EndsThread(t) \/ Takes(t) \/ GoesOn(t, th[t].run) \/ Leaves(t, th[t].run)
    BY ThreadActs
<1>3. CASE EndsThread(t)
    BY <1>1, <1>3 DEF EndsThread, KeepInv, Clean, Started, FoundOnce, Executing
<1>4. CASE Takes(t)
    BY <1>1, <1>4 DEF Takes, KeepInv, Clean, Started, FoundOnce, Executing
<1>5. CASE GoesOn(t, th[t].run) \/ Leaves(t, th[t].run)
  <2> DEFINE r == th[t].run
  <2>1. /\ th[t].pc \in Executing /\ r \in Runs
        /\ row'[r].cancel = row[r].cancel /\ \A q \in Runs : q # r => row'[q] = row[q]
      BY <1>5 DEF GoesOn, Leaves, Has
  <2>2. /\ row[r].status # "absent"
        /\ row'[r].status # "absent"
        /\ th'[t].pc \in Executing =>
              /\ th'[t].run = r
              /\ th'[t].pc = "running" => row'[r].status = "running"
    <3>1. row[r].status # "absent"
        BY <2>1 DEF KeepInv, Started
    <3>2. CASE GoesOn(t, r)
        BY <2>1, <3>1, <3>2 DEF GoesOn, Executing
    <3>3. CASE Leaves(t, r)
        BY <2>1, <3>1, <3>3 DEF Leaves, Executing
    <3>4. QED
        BY <1>5, <3>1, <3>2, <3>3
  <2>3. Clean'
      BY <2>1, <2>2 DEF KeepInv, Clean
  <2>4. ASSUME NEW u \in Threads, u # t, th[u].pc \in Executing
        PROVE  th[u].run # r /\ th[u].run \in Runs
      BY <2>1, <2>4, OneHolder
  <2>5. Started'
    <3>1. ASSUME NEW u \in Threads, th'[u].pc \in Executing
          PROVE  /\ row'[th'[u].run].status # "absent"
                 /\ th'[u].pc = "running" => row'[th'[u].run].status \in {"running", "cancelled"}
      <4>1. CASE u = t
          BY <2>2, <3>1, <4>1
      <4>2. CASE u # t
        <5>1. th'[u] = th[u] /\ row'[th[u].run] = row[th[u].run]
            BY <1>1, <2>1, <2>4, <3>1, <4>2
        <5>2. QED
            BY <3>1, <5>1 DEF KeepInv, Started
      <4>3. QED
          BY <4>1, <4>2
    <3>2. QED
        BY <3>1 DEF Started, Executing
  <2>6. FoundOnce'
    <3>1. ASSUME NEW c \in Callers, call[c].pc = "recover", NEW f \in call[c].rows
          PROVE  row'[f[1]] = row[f[1]]
      <4>1. f[1] \in Runs /\ StoreOf[f[1]] = call[c].store
          BY <3>1 DEF Owned, Names, KeepInv, FoundOnce
      <4>2. f[1] # r
          BY <2>1, <3>1, <4>1, OneHolder
      <4>3. QED
          BY <2>1, <4>1, <4>2
    <3>2. QED
        BY <1>1, <3>1 DEF KeepInv, FoundOnce
  <2>7. QED
      BY <2>3, <2>5, <2>6 DEF KeepInv
<1>6. QED
    BY <1>2, <1>3, <1>4, <1>5

LEMMA CrashKeeps ==
    ASSUME KeepInv, Crash
    PROVE  KeepInv'
<1>1. \A t \in Threads : th'[t].pc = "none"
    BY DEF Crash, NoThreads, NoThread
<1>2. \A c \in Callers : call'[c].pc = "idle"
    BY DEF Crash, NoCalls, NoCall
<1>3. row' = row
    BY DEF Crash
<1>4. QED
    BY <1>1, <1>2, <1>3 DEF KeepInv, Clean, Started, FoundOnce, Executing

(* The kinds of steps.                                                      *)
Calling ==
    \/ HostStart \/ HostStop \/ Close
    \/ \E q \in Requests : Lookup(q) \/ \E b \in Bundles : Open(q, b)
    \/ \E c \in Callers : Start(c) \/ StartRaises(c)

LEMMA CallingIs ==
    ASSUME Owned, RowInv, Calling
    PROVE  /\ Quietly /\ th' = th
           /\ \A t \in Threads : Live(t) => obj'[th[t].obj].store = obj[th[t].obj].store
<1>1. \/ HostStart \/ HostStop \/ Close
      \/ \E q \in Requests : Lookup(q) \/ \E b \in Bundles : Open(q, b)
      \/ \E c \in Callers : Start(c) \/ StartRaises(c)
    BY DEF Calling
<1>2. QED
    BY <1>1, CallersQuiet, CallersObjects

LEMMA NextIs ==
    ASSUME Next
    PROVE  \/ \E r \in Runs : Create(r) \/ Decide(r) \/ Cancel(r)
           \/ Calling
           \/ \E c \in Callers : RecoverRow(c) \/ Launch(c)
           \/ \E t \in Threads : Works(t) \/ Die(t)
           \/ Crash
    BY DEF Next, Calling

LEMMA KeepStep == QueueInv /\ KeepInv /\ [Next]_vars => KeepInv'
<1> SUFFICES ASSUME Owned, RowInv, KeepInv, [Next]_vars PROVE KeepInv'
    BY DEF QueueInv
<1>1. CASE UNCHANGED vars
    BY <1>1 DEF vars, objects, KeepInv, Clean, Started, FoundOnce
<1>2. CASE \E r \in Runs : Create(r) \/ Decide(r) \/ Cancel(r)
    BY <1>2, WritersKeep
<1>3. CASE Calling
    BY <1>3, CallingIs, QuietKeeps
<1>4. ASSUME NEW c \in Callers, RecoverRow(c)
      PROVE  KeepInv'
  <2>1. PICK r \in Runs : Recovers(c, r)
      BY <1>4, RecoverRowWrites
  <2>2. QED
      BY <2>1, RecoversKeep
<1>5. CASE \E c \in Callers : Launch(c)
    BY <1>5, LaunchKeeps
<1>6. CASE \E t \in Threads : Works(t) \/ Die(t)
    BY <1>6, ThreadsKeep
<1>7. CASE Crash
    BY <1>7, CrashKeeps
<1>8. QED
    BY <1>1, <1>2, <1>3, <1>4, <1>5, <1>6, <1>7, NextIs

(* The worker as a run sees it: a thread that has the run, or one that      *)
(* serves its store.                                                        *)
Held(r) == \E t \in Threads : th[t].pc \in Executing /\ th[t].run = r
Served(s) == \E t \in Threads : Live(t) /\ obj[th[t].obj].store = s
WorkerFits == \A r \in Runs :
    /\ Held(r) => WorkerOf(r) = "held"
    /\ ~Held(r) /\ Served(StoreOf[r]) => WorkerOf(r) = "free"
    /\ ~Held(r) /\ ~Served(StoreOf[r]) => WorkerOf(r) = "down"

LEMMA WorkerIs == WorkerFits
<1> SUFFICES ASSUME NEW r \in Runs
             PROVE  /\ Held(r) => WorkerOf(r) = "held"
                    /\ ~Held(r) /\ Served(StoreOf[r]) => WorkerOf(r) = "free"
                    /\ ~Held(r) /\ ~Served(StoreOf[r]) => WorkerOf(r) = "down"
    BY DEF WorkerFits
<1>1. Held(r) <=> Holders(r) # {}
    BY DEF Held, Holders
<1>2. Served(StoreOf[r]) <=> ThreadsOf(StoreOf[r]) # {}
    BY DEF Served, ThreadsOf, Live
<1>3. QED
    BY <1>1, <1>2 DEF WorkerOf

LEMMA WorkerBecomes == WorkerFits'
    BY WorkerIs, PTL

LEMMA SameWorker ==
    ASSUME NEW r \in Runs, Held(r)' <=> Held(r), Served(StoreOf[r])' <=> Served(StoreOf[r])
    PROVE  WorkerOf(r)' = WorkerOf(r)
    BY WorkerIs, WorkerBecomes DEF WorkerFits

LEMMA ThreadsSeenSame ==
    ASSUME th' = th, NEW r \in Runs,
           \A t \in Threads : Live(t) => obj'[th[t].obj].store = obj[th[t].obj].store
    PROVE  WorkerOf(r)' = WorkerOf(r)
<1>1. Held(r)' <=> Held(r)
    BY DEF Held
<1>2. Served(StoreOf[r])' <=> Served(StoreOf[r])
    BY DEF Served, Live
<1>3. QED
    BY <1>1, <1>2, SameWorker

(* What a step shows of a run.                                              *)
KeepsTo(r) == UNCHANGED Protocol(r)!vars \/ Protocol(r)!Next
Alike(r) == row'[r] = row[r] /\ WorkerOf(r)' = WorkerOf(r)

LEMMA AlikeKeeps ==
    ASSUME NEW r \in Runs, Alike(r)
    PROVE  KeepsTo(r)
<1>1. StatusIn(r)' = StatusIn(r)
    BY DEF Alike, StatusIn
<1>2. QED
    BY <1>1 DEF Alike, KeepsTo, Protocol!vars

LEMMA WritersKeepTo ==
    ASSUME Owned, RowInv, KeepInv, NEW x \in Runs, Create(x) \/ Decide(x) \/ Cancel(x), NEW r \in Runs
    PROVE  KeepsTo(r)
<1>1. /\ UNCHANGED objects /\ \A q \in Runs : q # x => row'[q] = row[q]
      /\ Creates(x) \/ Decides(x) \/ Cancels(x)
    BY WritersWrite DEF RowInv
<1>2. RowType /\ RowType'
    BY WritersSteps DEF RowInv
<1>3. WorkerOf(r)' = WorkerOf(r)
    BY <1>1, ThreadsSeenSame DEF objects
<1>4. CASE r # x
    BY <1>1, <1>3, <1>4, AlikeKeeps DEF Alike
<1>5. CASE r = x /\ Creates(x)
  <2>1. StatusIn(r)' = StatusIn(r)
      BY <1>5 DEF Creates, StatusIn
  <2>2. row'[r].cancel = row[r].cancel
      BY <1>2, <1>5 DEF Creates, KeepInv, Clean, RowType
  <2>3. QED
      BY <1>3, <2>1, <2>2 DEF KeepsTo, Protocol!vars
<1>6. CASE r = x /\ Decides(x)
  <2>1. StatusIn(r) = "waiting_human" /\ StatusIn(r)' \in {"queued", "completed"}
      BY <1>6 DEF Decides, StatusIn
  <2>2. row'[r].cancel = row[r].cancel /\ ~row[r].cancel
      BY <1>2, <1>6 DEF Decides, RowType
  <2>3. Protocol(r)!Decide
      BY <1>3, <2>1, <2>2 DEF Protocol!Decide
  <2>4. QED
      BY <2>3 DEF KeepsTo, Protocol!Next
<1>7. CASE r = x /\ Cancels(x)
  <2>1. StatusIn(r)' \in {StatusIn(r), "cancelled"} /\ row'[r].cancel
      BY <1>7 DEF Cancels, StatusIn
  <2>2. Protocol(r)!Operate
      BY <1>3, <2>1 DEF Protocol!Operate
  <2>3. QED
      BY <2>2 DEF KeepsTo, Protocol!Next
<1>8. QED
    BY <1>1, <1>4, <1>5, <1>6, <1>7

LEMMA RecoveredIsDown ==
    ASSUME Owned, RowInv, NEW c \in Callers, call[c].pc = "recover", NEW r \in Runs,
           StoreOf[r] = call[c].store
    PROVE  /\ WorkerOf(r) = "down"
           /\ \A t \in Threads : ~(th[t].pc \in Executing /\ th[t].run = r)
<1>1. \A t \in Threads : Live(t) => obj[th[t].obj].store # StoreOf[r]
    BY RecoveredAlone
<1>2. ~Served(StoreOf[r])
    BY <1>1 DEF Served
<1>3. \A t \in Threads : ~(th[t].pc \in Executing /\ th[t].run = r)
    BY <1>1 DEF RowInv, OwnRun, Live, Executing
<1>4. ~Held(r)
    BY <1>3 DEF Held
<1>5. QED
    BY <1>2, <1>3, <1>4, WorkerIs DEF WorkerFits

LEMMA RecoversKeepTo ==
    ASSUME Owned, RowInv, NEW c \in Callers, NEW x \in Runs, Recovers(c, x), NEW r \in Runs
    PROVE  KeepsTo(r)
<1>1. WorkerOf(r)' = WorkerOf(r)
    BY ThreadsSeenSame DEF Recovers
<1>2. CASE r # x
    BY <1>1, <1>2, AlikeKeeps DEF Recovers, Alike
<1>3. CASE r = x
  <2>1. WorkerOf(r) = "down"
      BY <1>3, RecoveredIsDown DEF Recovers
  <2>2. /\ StatusIn(r) \in {"running", "cancelled"} /\ StatusIn(r)' \in {"queued", "cancelled"}
        /\ row'[r].cancel = row[r].cancel
      BY <1>3 DEF Recovers, StatusIn
  <2>3. Protocol(r)!Recover
      BY <1>1, <2>1, <2>2 DEF Protocol!Recover
  <2>4. QED
      BY <2>3 DEF KeepsTo, Protocol!Next
<1>4. QED
    BY <1>2, <1>3

LEMMA LaunchKeepsTo ==
    ASSUME Owned, RowInv, NEW c \in Callers, Launch(c), NEW r \in Runs
    PROVE  KeepsTo(r)
<1>1. PICK t \in Threads : Launched(c, t) /\ row' = row
    BY LaunchIs
<1>2. /\ call[c].pc = "recover" /\ ~Live(t)
      /\ th'[t].pc = "loop" /\ th'[t].obj = call[c].obj
      /\ \A u \in Threads : u # t => th'[u] = th[u]
    BY <1>1 DEF Launched
<1>3. \A w \in Workers : obj'[w].store = obj[w].store
    BY <1>1 DEF Launched
<1>4. call[c].obj \in Workers /\ obj[call[c].obj].store = call[c].store
    BY <1>2, Starting
<1>5. obj'[th'[t].obj].store = call[c].store
    BY <1>2, <1>3, <1>4
<1>6. \A u \in Threads : Live(u) => th[u].obj \in Workers
    BY DEF Owned, ThreadHeld
<1>7. Held(r)' <=> Held(r)
    BY <1>2 DEF Held, Live, Executing
<1>8. StatusIn(r)' = StatusIn(r) /\ row'[r].cancel = row[r].cancel
    BY <1>1 DEF StatusIn
<1>9. CASE StoreOf[r] = call[c].store
  <2>1. WorkerOf(r) = "down" /\ ~Held(r)
      BY <1>2, <1>9, RecoveredIsDown DEF Held
  <2>2. Served(StoreOf[r])'
      BY <1>2, <1>5, <1>9 DEF Served, Live
  <2>3. WorkerOf(r)' = "free"
      BY <1>7, <2>1, <2>2, WorkerBecomes DEF WorkerFits
  <2>4. Protocol(r)!Recover
      BY <1>8, <2>1, <2>3 DEF Protocol!Recover
  <2>5. QED
      BY <2>4 DEF KeepsTo, Protocol!Next
<1>10. CASE StoreOf[r] # call[c].store
  <2>1. Served(StoreOf[r])' <=> Served(StoreOf[r])
      BY <1>2, <1>3, <1>5, <1>6, <1>10 DEF Served, Live
  <2>2. QED
      BY <1>1, <1>7, <2>1, SameWorker, AlikeKeeps DEF Alike
<1>11. QED
    BY <1>9, <1>10

(* A thread ends, takes a run, goes on with it or leaves it.                *)
LEMMA EndsKeepTo ==
    ASSUME Owned, RowInv, NEW t \in Threads, Works(t) \/ Die(t), EndsThread(t), NEW r \in Runs
    PROVE  KeepsTo(r)
<1>1. /\ UNCHANGED obj /\ Live(t) /\ th'[t].pc = "none" /\ row' = row
      /\ \A u \in Threads : u # t => th'[u] = th[u]
    BY ThreadSteps DEF EndsThread
<1>2. \A u \in Threads : th[u].pc \in Executing /\ th[u].run = r =>
          Live(u) /\ obj[th[u].obj].store = StoreOf[r]
    BY DEF RowInv, OwnRun, Live, Executing
<1>3. CASE obj[th[t].obj].store = StoreOf[r]
  <2>1. \A u \in Threads : Live(u) /\ obj[th[u].obj].store = StoreOf[r] => u = t
      BY <1>1, <1>3, OneThread
  <2>2. ~Served(StoreOf[r])'
      BY <1>1, <2>1 DEF Served, Live
  <2>3. ~Held(r)'
      BY <1>1, <1>2, <2>1 DEF Held, Executing
  <2>4. WorkerOf(r)' = "down"
      BY <2>2, <2>3, WorkerBecomes DEF WorkerFits
  <2>5. Protocol(r)!Stop
      BY <1>1, <2>4 DEF Protocol!Stop, StatusIn
  <2>6. QED
      BY <2>5 DEF KeepsTo, Protocol!Next
<1>4. CASE obj[th[t].obj].store # StoreOf[r]
  <2>1. Served(StoreOf[r])' <=> Served(StoreOf[r])
      BY <1>1, <1>4 DEF Served, Live
  <2>2. Held(r)' <=> Held(r)
      BY <1>1, <1>2, <1>4 DEF Held, Executing
  <2>3. QED
      BY <1>1, <2>1, <2>2, SameWorker, AlikeKeeps DEF Alike
<1>5. QED
    BY <1>3, <1>4

LEMMA StillServed ==
    ASSUME Owned, NEW t \in Threads, Works(t) \/ Die(t), th'[t].pc # "none", NEW r \in Runs
    PROVE  Served(StoreOf[r])' <=> Served(StoreOf[r])
<1>1. /\ UNCHANGED obj /\ Live(t) /\ (Live(t)' => th'[t].obj = th[t].obj)
      /\ \A u \in Threads : u # t => th'[u] = th[u]
    BY ThreadSteps
<1>2. th'[t].obj = th[t].obj
    BY <1>1 DEF Live
<1>3. \A u \in Threads : th'[u].obj = th[u].obj /\ (th'[u].pc # "none" <=> th[u].pc # "none")
    BY <1>1, <1>2 DEF Live
<1>4. QED
    BY <1>1, <1>3 DEF Served, Live

LEMMA TakesKeepsTo ==
    ASSUME Owned, RowInv, NEW t \in Threads, Works(t) \/ Die(t), Takes(t), NEW r \in Runs
    PROVE  KeepsTo(r)
<1>1. /\ Live(t) /\ th[t].pc = "loop" /\ th'[t].pc = "picked" /\ row' = row
      /\ \A u \in Threads : u # t => th'[u] = th[u]
    BY ThreadSteps DEF Takes
<1>2. Served(StoreOf[r])' <=> Served(StoreOf[r])
    BY <1>1, StillServed
<1>3. CASE r # th'[t].run
  <2>1. Held(r)' <=> Held(r)
      BY <1>1, <1>3 DEF Held, Executing
  <2>2. QED
      BY <1>1, <1>2, <2>1, SameWorker, AlikeKeeps DEF Alike
<1>4. CASE r = th'[t].run
  <2>1. StoreOf[r] = obj[th[t].obj].store /\ row[r].status = "queued" /\ ~row[r].cancel
      BY <1>4 DEF Takes
  <2>2. Served(StoreOf[r])
      BY <1>1, <2>1 DEF Served
  <2>3. ASSUME NEW u \in Threads, th[u].pc \in Executing, th[u].run = r
        PROVE  FALSE
      BY <1>1, <2>1, <2>3, OneHolder DEF Executing
  <2>4. WorkerOf(r) = "free"
      BY <2>2, <2>3, WorkerIs DEF WorkerFits, Held
  <2>5. WorkerOf(r)' = "held"
      BY <1>1, <1>4, WorkerBecomes DEF WorkerFits, Held, Executing
  <2>6. StatusIn(r) = "queued" /\ StatusIn(r)' = "queued" /\ row'[r].cancel = row[r].cancel
      BY <1>1, <2>1 DEF StatusIn
  <2>7. Protocol(r)!Take
      BY <2>1, <2>4, <2>5, <2>6 DEF Protocol!Take
  <2>8. QED
      BY <2>7 DEF KeepsTo, Protocol!Next
<1>5. QED
    BY <1>3, <1>4

(* The run a thread has is neither absent nor someone else's.               *)
LEMMA HolderAlone ==
    ASSUME Owned, RowInv, KeepInv, NEW t \in Threads, th[t].pc \in Executing
    PROVE  LET r == th[t].run
           IN  /\ r \in Runs /\ WorkerOf(r) = "held" /\ Served(StoreOf[r])
               /\ \A u \in Threads : th[u].pc \in Executing /\ th[u].run = r => u = t
               /\ row[r].status # "absent"
               /\ IF th[t].pc = "running" THEN row[r].status \in {"running", "cancelled"}
                  ELSE row[r].status # "running"
<1> DEFINE r == th[t].run
<1>1. /\ r \in Runs /\ t \in ThreadsOf(StoreOf[r])
      /\ \A u \in Threads : th[u].pc \in Executing /\ th[u].run = r => u = t
    BY OneHolder
<1>2. WorkerOf(r) = "held"
    BY <1>1, WorkerIs DEF WorkerFits, Held
<1>3. Served(StoreOf[r])
    BY <1>1 DEF ThreadsOf, Served, Live
<1>4. /\ row[r].status # "absent"
      /\ th[t].pc = "running" => row[r].status \in {"running", "cancelled"}
    BY DEF KeepInv, Started
<1>5. row[r].status = "running" => th[t].pc = "running"
  <2>1. SUFFICES ASSUME row[r].status = "running" PROVE th[t].pc = "running"
      OBVIOUS
  <2>2. PICK u \in Holders(r) : th[u].pc = "running"
      BY <1>1, <2>1 DEF RowInv, NoOrphans
  <2>3. u = t
      BY <1>1 DEF Holders
  <2>4. QED
      BY <2>2, <2>3
<1>6. QED
    BY <1>1, <1>2, <1>3, <1>4, <1>5

LEMMA HolderKeepsTo ==
    ASSUME Owned, RowInv, KeepInv, NEW t \in Threads, Works(t) \/ Die(t), NEW r \in Runs,
           GoesOn(t, th[t].run) \/ Leaves(t, th[t].run)
    PROVE  KeepsTo(r)
<1> DEFINE x == th[t].run
<1>1. /\ th[t].pc \in Executing /\ x \in Runs
      /\ row'[x].cancel = row[x].cancel /\ \A q \in Runs : q # x => row'[q] = row[q]
      /\ th'[t].pc # "none" /\ (th'[t].pc \in Executing => th'[t].run = x)
    BY DEF GoesOn, Leaves, Has, Executing
<1>2. \A u \in Threads : u # t => th'[u] = th[u]
    BY ThreadSteps
<1>3. Served(StoreOf[r])' <=> Served(StoreOf[r])
    BY <1>1, StillServed
<1>4. CASE r # x
  <2>1. Held(r)' <=> Held(r)
      BY <1>1, <1>2, <1>4 DEF Held
  <2>2. QED
      BY <1>1, <1>3, <1>4, <2>1, SameWorker, AlikeKeeps DEF Alike
<1>5. ASSUME r = x
      PROVE  /\ WorkerOf(r) = "held" /\ Served(StoreOf[r])
             /\ \A u \in Threads : th[u].pc \in Executing /\ th[u].run = r => u = t
             /\ row[r].status # "absent" /\ StatusIn(r) = row[r].status
             /\ IF th[t].pc = "running" THEN row[r].status \in {"running", "cancelled"}
                ELSE row[r].status # "running"
    BY <1>1, <1>5, HolderAlone DEF StatusIn
<1>6. CASE r = x /\ GoesOn(t, x)
  <2>1. Held(r)'
      BY <1>6 DEF GoesOn, Held, Executing
  <2>2. WorkerOf(r)' = WorkerOf(r)
      BY <1>5, <1>6, <2>1, WorkerBecomes DEF WorkerFits
  <2>3. CASE row'[r] = row[r]
      BY <2>2, <2>3, AlikeKeeps DEF Alike
  <2>4. CASE row'[r].status = "running"
    <3>1. StatusIn(r)' = "running"
        BY <2>4 DEF StatusIn
    <3>2. Protocol(r)!Begin
        BY <1>1, <1>5, <1>6, <2>2, <3>1 DEF Protocol!Begin
    <3>3. QED
        BY <3>2 DEF KeepsTo, Protocol!Next
  <2>5. QED
      BY <1>6, <2>3, <2>4 DEF GoesOn
<1>7. CASE r = x /\ Leaves(t, x)
  <2>1. th'[t].pc = "loop"
      BY <1>7 DEF Leaves
  <2>2. ~Held(r)'
      BY <1>2, <1>5, <1>7, <2>1 DEF Held, Executing
  <2>3. WorkerOf(r)' = "free"
      BY <1>3, <1>5, <1>7, <2>2, WorkerBecomes DEF WorkerFits
  <2>4. CASE row'[r].status \in {"waiting_human", "completed", "cancelled", "failed"}
    <3>1. StatusIn(r)' \in {"waiting_human", "completed", "cancelled", "failed"}
        BY <2>4 DEF StatusIn
    <3>2. Protocol(r)!Leave
        BY <1>1, <1>5, <1>7, <2>3, <3>1 DEF Protocol!Leave, Protocol!Settled
    <3>3. QED
        BY <3>2 DEF KeepsTo, Protocol!Next
  <2>5. CASE row'[r] = row[r] /\ row[r].status \notin {"queued", "running"}
    <3>1. StatusIn(r)' = StatusIn(r) /\ StatusIn(r) \notin {"queued", "running"}
        BY <1>5, <1>7, <2>5 DEF StatusIn
    <3>2. Protocol(r)!Leave
        BY <1>1, <1>5, <1>7, <2>3, <3>1 DEF Protocol!Leave, Protocol!Active
    <3>3. QED
        BY <3>2 DEF KeepsTo, Protocol!Next
  <2>6. QED
    <3>1. CASE row'[r] = row[r] /\ th[t].pc = "running" /\ row[r].status # "running"
        BY <1>5, <1>7, <2>5, <3>1
    <3>2. CASE row'[r] = row[r] /\ th[t].pc # "running" /\ row[r].status # "queued"
        BY <1>5, <1>7, <2>5, <3>2
    <3>3. QED
        BY <1>7, <2>4, <3>1, <3>2 DEF Leaves
<1>8. QED
    BY <1>4, <1>6, <1>7

LEMMA CrashKeepsTo ==
    ASSUME Crash, NEW r \in Runs
    PROVE  KeepsTo(r)
<1>1. \A t \in Threads : th'[t].pc = "none"
    BY DEF Crash, NoThreads, NoThread
<1>2. WorkerOf(r)' = "down"
    BY <1>1, WorkerBecomes DEF WorkerFits, Held, Served, Live, Executing
<1>3. Protocol(r)!Stop
    BY <1>2 DEF Protocol!Stop, Crash, StatusIn
<1>4. QED
    BY <1>3 DEF KeepsTo, Protocol!Next

LEMMA ProtocolStep == QueueInv /\ KeepInv /\ [Next]_vars => \A r \in Runs : KeepsTo(r)
<1> SUFFICES ASSUME Owned, RowInv, KeepInv, [Next]_vars, NEW r \in Runs PROVE KeepsTo(r)
    BY DEF QueueInv
<1>1. CASE UNCHANGED vars
  <2>1. StatusIn(r)' = StatusIn(r) /\ WorkerOf(r)' = WorkerOf(r) /\ row' = row
      BY <1>1, ThreadsSeenSame DEF vars, objects, StatusIn
  <2>2. QED
      BY <2>1, AlikeKeeps DEF Alike
<1>2. CASE \E x \in Runs : Create(x) \/ Decide(x) \/ Cancel(x)
    BY <1>2, WritersKeepTo
<1>3. CASE Calling
    BY <1>3, CallingIs, ThreadsSeenSame, AlikeKeeps DEF Quietly, Alike
<1>4. ASSUME NEW c \in Callers, RecoverRow(c)
      PROVE  KeepsTo(r)
  <2>1. PICK x \in Runs : Recovers(c, x)
      BY <1>4, RecoverRowWrites
  <2>2. QED
      BY <2>1, RecoversKeepTo
<1>5. CASE \E c \in Callers : Launch(c)
    BY <1>5, LaunchKeepsTo
<1>6. ASSUME NEW t \in Threads, Works(t) \/ Die(t)
      PROVE  KeepsTo(r)
  <2>1. EndsThread(t) \/ Takes(t) \/ GoesOn(t, th[t].run) \/ Leaves(t, th[t].run)
      BY <1>6, ThreadActs
  <2>2. QED
      BY <1>6, <2>1, EndsKeepTo, TakesKeepsTo, HolderKeepsTo
<1>7. CASE Crash
    BY <1>7, CrashKeepsTo
<1>8. QED
    BY <1>1, <1>2, <1>3, <1>4, <1>5, <1>6, <1>7, NextIs

LEMMA ProtocolInit == Init => KeepInv /\ \A r \in Runs : Protocol(r)!Init
<1> SUFFICES ASSUME Init PROVE KeepInv /\ \A r \in Runs : Protocol(r)!Init
    OBVIOUS
<1>1. KeepInv
    BY DEF Init, NoThreads, NoThread, NoCalls, NoCall, KeepInv, Clean, Started, FoundOnce, Executing
<1>2. ASSUME NEW r \in Runs
      PROVE  Protocol(r)!Init
  <2>1. StatusIn(r) = "queued" /\ row[r].cancel = FALSE
      BY DEF Init, StatusIn
  <2>2. WorkerOf(r) = "down"
      BY WorkerIs DEF Init, NoThreads, NoThread, WorkerFits, Held, Served, Live, Executing
  <2>3. QED
      BY <2>1, <2>2 DEF Protocol!Init
<1>3. QED
    BY <1>1, <1>2

(* Every run keeps to the status protocol whatever threads, recoveries and  *)
(* requests of its store do (worker.py, services/runs.py): each step of the *)
(* queues is, for each run, a step of RunStatus or a stutter.               *)
THEOREM QueueImplementsProtocol == Spec => RunsKeepProtocol
<1>1. Init => QueueInv /\ KeepInv
    BY QueueInit, ProtocolInit
<1>2. QueueInv /\ KeepInv /\ [Next]_vars => (QueueInv /\ KeepInv)'
    BY QueueStep, KeepStep
<1>3. QueueInv /\ KeepInv /\ [Next]_vars =>
          [\A r \in Runs : UNCHANGED Protocol(r)!vars \/ Protocol(r)!Next]_vars
    BY ProtocolStep DEF KeepsTo
<1>4. QED
    BY <1>1, <1>2, <1>3, ProtocolInit, PTL DEF Spec, RunsKeepProtocol
=============================================================================
