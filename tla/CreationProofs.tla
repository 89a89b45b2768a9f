---------------------------- MODULE CreationProofs ----------------------------
(***************************************************************************)
(* What holds of the creation of runs for any number of callers, request   *)
(* threads, keys and brand versions.  CreationInv ties a form's key to     *)
(* what its user wants, a request thread to the caller that waits for it,  *)
(* and a run to the request it was inserted for.                           *)
(***************************************************************************)
EXTENDS RunCreation, TLAPS

IsThread(x) ==
    /\ x = [pc |-> x.pc, caller |-> x.caller, key |-> x.key, body |-> x.body,
            intent |-> x.intent, version |-> x.version, profile |-> x.profile]
    /\ x.pc # "free" => /\ x.caller \in Callers
                        /\ x.caller \in Forms => x.key = <<x.caller, x.intent>>

FormStates == [waits: Handlers \cup {None}, key: Nat, body: Bodies \cup {None}, done: BOOLEAN,
           intent: Nat]

Shapes ==
    /\ form \in [Callers -> FormStates]
    /\ DOMAIN hs = Handlers
    /\ \A h \in Handlers : IsThread(hs[h])

(* A form draws a key for each thing its user wants.                        *)
KeyIsIntent == \A c \in Forms : form[c].key = form[c].intent

(* What was wanted is in the key of the row, and the index is unique.       *)
RowsTold ==
    /\ \A run \in runs : run.by[1] \in Forms => run.key = run.by
    /\ \A a, b \in runs : a.key = b.key => a = b

(* The request a caller waits for is the one it sent last.                  *)
Serves(x, c) == x.pc # "free" /\ x.caller = c /\ x.key = <<c, form[c].key>> /\ x.body = form[c].body

WaitsForOwn == \A c \in Callers : form[c].waits \in Handlers => Serves(hs[form[c].waits], c)

(* A thread that found a version goes on to look for the profile while one  *)
(* is active, and to the insert with a profile.                             *)
BrandFound(x) ==
    x.version => \/ x.pc = "profile" /\ SomeActive
                 \/ x.pc = "insert" /\ x.profile

BrandRead ==
    /\ active \in Seq(BOOLEAN)
    /\ \A h \in Handlers : BrandFound(hs[h])
    /\ BrandIsNamed

CreationInv == Shapes /\ KeyIsIntent /\ RowsTold /\ WaitsForOwn /\ AnswerIsOwnRun /\ BrandRead

LEMMA ActiveStays == UNCHANGED active => SomeActive' = SomeActive
BY DEF SomeActive, Versions

(* Once a version is active, saves and activations leave one active.        *)
LEMMA BrandNextKeeps ==
    ASSUME active \in Seq(BOOLEAN), BrandNext
    PROVE  active' \in Seq(BOOLEAN) /\ (SomeActive => SomeActive')
<1>1. /\ Versions = 1 .. Len(active) /\ Len(active) \in Nat
      /\ AllInactive \in Seq(BOOLEAN) /\ Len(AllInactive) = Len(active)
  <2>1. Versions = 1 .. Len(active) /\ Len(active) \in Nat
      BY DEF Versions
  <2>2. QED
      BY <2>1 DEF AllInactive
<1>2. CASE active' = active
    BY <1>2 DEF SomeActive, Versions
<1>3. ASSUME NEW activate \in BOOLEAN,
             active' = Append(IF activate THEN AllInactive ELSE active, activate)
      PROVE  active' \in Seq(BOOLEAN) /\ (SomeActive => SomeActive')
  <2>1. CASE activate
    <3>1. active' = Append(AllInactive, TRUE)
        BY <1>3, <2>1
    <3>2. /\ active' \in Seq(BOOLEAN) /\ DOMAIN active' = 1 .. Len(active) + 1
          /\ active'[Len(active) + 1] = TRUE
        BY <1>1, <3>1
    <3>3. Len(active) + 1 \in DOMAIN active'
        BY <1>1, <3>2
    <3>4. QED
        BY <3>2, <3>3 DEF SomeActive, Versions
  <2>2. CASE ~activate
    <3>1. active' = Append(active, FALSE)
        BY <1>3, <2>2
    <3>2. /\ active' \in Seq(BOOLEAN) /\ DOMAIN active' = 1 .. Len(active) + 1
          /\ \A v \in 1 .. Len(active) : active'[v] = active[v]
        BY <1>1, <3>1
    <3>3. QED
        BY <1>1, <3>2 DEF SomeActive, Versions
  <2>3. QED
      BY <2>1, <2>2
<1>4. ASSUME NEW v \in Versions, active' = [AllInactive EXCEPT ![v] = TRUE]
      PROVE  active' \in Seq(BOOLEAN) /\ (SomeActive => SomeActive')
  <2> HIDE DEF AllInactive
  <2>1. active' \in Seq(BOOLEAN) /\ DOMAIN active' = Versions /\ active'[v] = TRUE
      BY <1>1, <1>4
  <2>2. QED
      BY <2>1 DEF SomeActive, Versions
<1>5. CASE \E s \in Savers : ReadNextVersion(s)
    BY <1>5, <1>2 DEF ReadNextVersion
<1>6. CASE \E s \in Savers, b \in BOOLEAN : SaveProfile(s, b)
    BY <1>6, <1>2, <1>3 DEF SaveProfile
<1>7. CASE \E v \in Versions : Activate(v)
    BY <1>7, <1>4 DEF Activate
<1>8. QED
    BY <1>5, <1>6, <1>7 DEF BrandNext

(* A request moves on; what was asked for stays.                            *)
LEMMA MoveKeeps ==
    ASSUME CreationInv, NEW h \in Handlers, NEW x, IsThread(x),
           hs[h].pc # "free", x.pc # "free",
           x.caller = hs[h].caller, x.key = hs[h].key, x.body = hs[h].body,
           BrandFound(x), hs' = [hs EXCEPT ![h] = x], UNCHANGED <<form, runs, brandVars>>
    PROVE  CreationInv'
<1>1. DOMAIN hs = Handlers
    BY DEF CreationInv, Shapes
<1>2. /\ DOMAIN hs' = Handlers /\ hs'[h] = x
      /\ \A k \in Handlers \ {h} : hs'[k] = hs[k]
    BY <1>1
<1>3. Shapes'
    BY <1>2 DEF CreationInv, Shapes
<1>4. KeyIsIntent' /\ RowsTold' /\ AnswerIsOwnRun'
    BY DEF CreationInv, KeyIsIntent, RowsTold, AnswerIsOwnRun
<1>5. WaitsForOwn'
    BY <1>2 DEF CreationInv, WaitsForOwn, Serves
<1>6. BrandRead'
    BY <1>2, ActiveStays DEF CreationInv, BrandRead, BrandFound, BrandIsNamed, brandVars
<1>7. QED
    BY <1>3, <1>4, <1>5, <1>6 DEF CreationInv

(* A request ends, with success only if its run is there.                   *)
LEMMA AnswerKeeps ==
    ASSUME CreationInv, NEW h \in Handlers, hs[h].pc # "free", NEW success \in BOOLEAN,
           Answer(h, success), UNCHANGED brandVars, runs \subseteq runs', RowsTold',
           BrandIsNamed',
           success => \E run \in runs' : run.key = hs[h].key /\ run.body = hs[h].body
    PROVE  CreationInv'
<1> DEFINE c == hs[h].caller
<1>1. /\ hs' = [hs EXCEPT ![h] = Free]
      /\ form' = IF form[c].waits # h THEN form
                 ELSE [form EXCEPT ![c].waits = None, ![c].done = success]
    BY DEF Answer
<1>2. /\ c \in Callers /\ DOMAIN hs = Handlers /\ form \in [Callers -> FormStates]
      /\ hs[h].caller = c
    BY DEF CreationInv, Shapes, IsThread
<1> HIDE DEF c
<1>3. /\ DOMAIN hs' = Handlers /\ hs'[h] = Free
      /\ \A k \in Handlers \ {h} : hs'[k] = hs[k]
    BY <1>1, <1>2
<1>4. /\ form' \in [Callers -> FormStates]
      /\ \A d \in Callers : /\ form'[d].key = form[d].key /\ form'[d].intent = form[d].intent
                            /\ form'[d].body = form[d].body
      /\ \A d \in Callers :
             \/ form'[d].waits = form[d].waits /\ form'[d].done = form[d].done
                /\ (d = c => form[d].waits # h)
             \/ d = c /\ form[d].waits = h /\ form'[d].waits = None /\ form'[d].done = success
  <2>1. CASE form[c].waits # h
      BY <1>1, <1>2, <2>1
  <2>2. CASE form[c].waits = h
    <3>1. form' = [form EXCEPT ![c] = [form[c] EXCEPT !.waits = None, !.done = success]]
        BY <1>1, <1>2, <2>2 DEF FormStates
    <3>2. form[c] \in FormStates
        BY <1>2
    <3>3. [form[c] EXCEPT !.waits = None, !.done = success] \in FormStates
        BY <3>2 DEF FormStates
    <3>4. QED
        BY <1>2, <2>2, <3>1, <3>2, <3>3 DEF FormStates
  <2>3. QED
      BY <2>1, <2>2
<1>5. Shapes'
  <2>1. IsThread(Free)
      BY DEF IsThread, Free
  <2>2. QED
      BY <1>3, <1>4, <2>1 DEF CreationInv, Shapes
<1>6. KeyIsIntent'
    BY <1>4 DEF CreationInv, KeyIsIntent, Callers
<1>7. WaitsForOwn'
  <2> SUFFICES ASSUME NEW d \in Callers, form'[d].waits \in Handlers
               PROVE  (Serves(hs[form[d].waits], d))'
      BY DEF WaitsForOwn
  <2>1. form'[d].waits = form[d].waits /\ (d = c => form[d].waits # h)
      BY <1>4, HandlersAssumption
  <2>2. Serves(hs[form[d].waits], d)
      BY <2>1 DEF CreationInv, WaitsForOwn
  <2>3. form[d].waits # h
      BY <1>2, <2>1, <2>2 DEF Serves
  <2>4. hs'[form'[d].waits] = hs[form[d].waits]
      BY <1>3, <2>1, <2>3
  <2>5. QED
      BY <1>4, <2>2, <2>4 DEF Serves
<1>8. AnswerIsOwnRun'
  <2> SUFFICES ASSUME NEW d \in Callers, form'[d].done
               PROVE  \E run \in runs' : run.key = <<d, form[d].key>> /\ run.body = form[d].body
      BY <1>4 DEF AnswerIsOwnRun
  <2>1. CASE form'[d].done = form[d].done
      BY <2>1 DEF CreationInv, AnswerIsOwnRun
  <2>2. CASE d = c /\ form[d].waits = h /\ form'[d].done = success
    <3>1. Serves(hs[h], d)
        BY <2>2 DEF CreationInv, WaitsForOwn
    <3>2. QED
        BY <2>2, <3>1 DEF Serves
  <2>3. QED
      BY <1>4, <2>1, <2>2
<1>9. BrandRead'
  <2>1. SomeActive' = SomeActive /\ UNCHANGED active
      BY ActiveStays DEF brandVars
  <2>2. Free.version = FALSE
      BY DEF Free
  <2>3. QED
      BY <1>3, <2>1, <2>2 DEF CreationInv, BrandRead, BrandFound
<1>10. QED
    BY <1>5, <1>6, <1>7, <1>8, <1>9 DEF CreationInv

-----------------------------------------------------------------------------
(* The form.                                                               *)

Request(c, b, k, i) == [pc |-> "find", caller |-> c, key |-> k, body |-> b, intent |-> i,
                        version |-> FALSE, profile |-> FALSE]

LEMMA Submitted ==
    ASSUME NEW c, NEW b, NEW k, NEW i
    PROVE  [Free EXCEPT !.pc = "find", !.caller = c, !.body = b, !.key = k, !.intent = i]
           = Request(c, b, k, i)
<1> DEFINE no == FALSE
           x0 == [pc |-> "free", caller |-> None, key |-> None, body |-> None, intent |-> 0,
                  version |-> no, profile |-> no]
           x1 == [pc |-> "find", caller |-> None, key |-> None, body |-> None, intent |-> 0,
                  version |-> no, profile |-> no]
           x2 == [pc |-> "find", caller |-> c, key |-> None, body |-> None, intent |-> 0,
                  version |-> no, profile |-> no]
           x3 == [pc |-> "find", caller |-> c, key |-> None, body |-> b, intent |-> 0,
                  version |-> no, profile |-> no]
           x4 == [pc |-> "find", caller |-> c, key |-> k, body |-> b, intent |-> 0,
                  version |-> no, profile |-> no]
           x5 == [pc |-> "find", caller |-> c, key |-> k, body |-> b, intent |-> i,
                  version |-> no, profile |-> no]
<1>1. Free = x0
    BY DEF Free
<1> HIDE DEF no
<1>2. [x0 EXCEPT !.pc = "find"] = x1
    OBVIOUS
<1>3. [x1 EXCEPT !.caller = c] = x2
    OBVIOUS
<1>4. [x2 EXCEPT !.body = b] = x3
    OBVIOUS
<1>5. [x3 EXCEPT !.key = k] = x4
    OBVIOUS
<1>6. [x4 EXCEPT !.intent = i] = x5
    OBVIOUS
<1> HIDE DEF x0, x1, x2, x3, x4
<1>7. [Free EXCEPT !.pc = "find", !.caller = c, !.body = b, !.key = k, !.intent = i] = x5
    BY <1>1, <1>2, <1>3, <1>4, <1>5, <1>6, Zenon
<1>8. QED
    BY <1>7 DEF Request, no

LEMMA SubmitKeeps ==
    ASSUME CreationInv, NEW c \in Callers, NEW b \in Bodies, NEW h \in Handlers, Submit(c, b, h)
    PROVE  CreationInv'
<1> DEFINE key == KeyFor(c, b)
           intent == IntentFor(c, b)
           x == Request(c, b, <<c, key>>, intent)
           f == [waits |-> h, key |-> key, body |-> b, done |-> FALSE, intent |-> intent]
<1>1. /\ form \in [Callers -> FormStates] /\ DOMAIN hs = Handlers
      /\ \A k \in Handlers : IsThread(hs[k])
    BY DEF CreationInv, Shapes
<1>2. /\ form' = [form EXCEPT ![c] = f] /\ hs' = [hs EXCEPT ![h] = x]
      /\ hs[h].pc = "free"
  <2> HIDE DEF key, intent
  <2>1. [Free EXCEPT !.pc = "find", !.caller = c, !.body = b, !.key = <<c, key>>,
                     !.intent = intent] = x
      BY Submitted
  <2>2. QED
      BY <2>1 DEF Submit, key, intent
<1>3. key \in Nat /\ intent \in Nat /\ (c \in Forms => key = intent)
    BY <1>1, CallersAssumption DEF KeyFor, IntentFor, FormStates, CreationInv, KeyIsIntent
<1>4. /\ IsThread(x) /\ x.pc = "find" /\ x.caller = c /\ x.key = <<c, key>> /\ x.body = b
      /\ x.version = FALSE
    BY <1>3 DEF IsThread, Request
<1>5. /\ f \in FormStates /\ f.waits = h /\ f.key = key /\ f.body = b /\ f.intent = intent
      /\ f.done = FALSE
    BY <1>3 DEF FormStates
<1> HIDE DEF key, intent, x, f
<1>6. /\ form' \in [Callers -> FormStates] /\ form'[c] = f
      /\ \A d \in Callers \ {c} : form'[d] = form[d]
    BY <1>1, <1>2, <1>5
<1>7. /\ DOMAIN hs' = Handlers /\ hs'[h] = x
      /\ \A k \in Handlers \ {h} : hs'[k] = hs[k]
    BY <1>1, <1>2
<1>8. UNCHANGED <<runs, brandVars>>
    BY DEF Submit
<1>9. Shapes'
    BY <1>1, <1>4, <1>6, <1>7 DEF Shapes
<1>10. KeyIsIntent'
    BY <1>3, <1>5, <1>6 DEF CreationInv, KeyIsIntent, Callers
<1>11. RowsTold'
    BY <1>8 DEF CreationInv, RowsTold
<1>12. WaitsForOwn'
  <2> SUFFICES ASSUME NEW d \in Callers, form'[d].waits \in Handlers
               PROVE  (Serves(hs[form[d].waits], d))'
      BY DEF WaitsForOwn
  <2>1. CASE d = c
      BY <2>1, <1>4, <1>5, <1>6, <1>7 DEF Serves
  <2>2. CASE d # c
    <3>1. form'[d] = form[d] /\ Serves(hs[form[d].waits], d)
        BY <2>2, <1>6 DEF CreationInv, WaitsForOwn
    <3>2. form[d].waits # h
        BY <1>2, <3>1 DEF Serves
    <3>3. QED
        BY <1>7, <3>1, <3>2 DEF Serves
  <2>3. QED
      BY <2>1, <2>2
<1>13. AnswerIsOwnRun'
    BY <1>5, <1>6, <1>8 DEF CreationInv, AnswerIsOwnRun
<1>14. BrandRead'
    BY <1>4, <1>7, <1>8, ActiveStays
       DEF CreationInv, BrandRead, BrandFound, BrandIsNamed, brandVars
<1>15. QED
    BY <1>9, <1>10, <1>11, <1>12, <1>13, <1>14 DEF CreationInv

LEMMA LoseAnswerKeeps ==
    ASSUME CreationInv, NEW c \in Callers, LoseAnswer(c)
    PROVE  CreationInv'
<1>1. form \in [Callers -> FormStates]
    BY DEF CreationInv, Shapes
<1>2. /\ form' \in [Callers -> FormStates]
      /\ form'[c].waits = None
      /\ \A d \in Callers : /\ form'[d].key = form[d].key /\ form'[d].intent = form[d].intent
                            /\ form'[d].body = form[d].body /\ form'[d].done = form[d].done
                            /\ d # c => form'[d].waits = form[d].waits
  <2>1. form' = [form EXCEPT ![c] = [form[c] EXCEPT !.waits = None]]
      BY <1>1 DEF LoseAnswer, FormStates
  <2>2. form[c] \in FormStates
      BY <1>1
  <2>3. [form[c] EXCEPT !.waits = None] \in FormStates
      BY <2>2 DEF FormStates
  <2>4. QED
      BY <1>1, <2>1, <2>2, <2>3 DEF FormStates
<1>3. UNCHANGED <<runs, hs, brandVars>>
    BY DEF LoseAnswer
<1>4. Shapes' /\ RowsTold'
    BY <1>2, <1>3 DEF CreationInv, Shapes, RowsTold
<1>5. KeyIsIntent'
    BY <1>2 DEF CreationInv, KeyIsIntent, Callers
<1>6. WaitsForOwn'
  <2> SUFFICES ASSUME NEW d \in Callers, form'[d].waits \in Handlers
               PROVE  (Serves(hs[form[d].waits], d))'
      BY DEF WaitsForOwn
  <2>1. d # c /\ form'[d].waits = form[d].waits
      BY <1>2, HandlersAssumption
  <2>2. Serves(hs[form[d].waits], d)
      BY <2>1 DEF CreationInv, WaitsForOwn
  <2>3. QED
      BY <1>2, <1>3, <2>1, <2>2 DEF Serves
<1>7. AnswerIsOwnRun'
  <2> SUFFICES ASSUME NEW d \in Callers, form'[d].done
               PROVE  \E run \in runs' : run.key = <<d, form'[d].key>> /\ run.body = form'[d].body
      BY DEF AnswerIsOwnRun
  <2>1. PICK run \in runs : run.key = <<d, form[d].key>> /\ run.body = form[d].body
      BY <1>2 DEF CreationInv, AnswerIsOwnRun
  <2>2. run \in runs' /\ run.key = <<d, form'[d].key>> /\ run.body = form'[d].body
      BY <1>2, <1>3, <2>1
  <2>3. QED
      BY <2>2
<1>8. BrandRead'
    BY <1>3, ActiveStays DEF CreationInv, BrandRead, BrandFound, BrandIsNamed, brandVars
<1>9. QED
    BY <1>4, <1>5, <1>6, <1>7, <1>8 DEF CreationInv

-----------------------------------------------------------------------------
(* The server.                                                             *)

LEMMA GotoKeeps ==
    ASSUME CreationInv, NEW h \in Handlers, hs[h].pc \notin {"free", "profile", "insert"},
           NEW pc \in {"preflight", "project", "new_project", "version", "insert"},
           Goto(h, pc), UNCHANGED <<runs, brandVars>>
    PROVE  CreationInv'
<1> DEFINE x == [hs[h] EXCEPT !.pc = pc]
<1>1. IsThread(hs[h])
    BY DEF CreationInv, Shapes
<1>2. x = [pc |-> pc, caller |-> hs[h].caller, key |-> hs[h].key, body |-> hs[h].body,
           intent |-> hs[h].intent, version |-> hs[h].version, profile |-> hs[h].profile]
    BY <1>1 DEF IsThread
<1>3. /\ IsThread(x) /\ x.pc = pc /\ x.caller = hs[h].caller /\ x.key = hs[h].key
      /\ x.body = hs[h].body /\ x.version = hs[h].version
    BY <1>1, <1>2 DEF IsThread
<1>4. hs' = [hs EXCEPT ![h] = x] /\ UNCHANGED <<form, runs, brandVars>>
    BY DEF Goto
<1>5. ~hs[h].version
    BY DEF CreationInv, BrandRead, BrandFound
<1> HIDE DEF x
<1>6. BrandFound(x)
    BY <1>3, <1>5 DEF BrandFound
<1>7. QED
    BY <1>3, <1>4, <1>6, MoveKeeps

(* A request thread with its position and what it read rewritten.           *)
Thread(x, pc, version, profile) ==
    [pc |-> pc, caller |-> x.caller, key |-> x.key, body |-> x.body, intent |-> x.intent,
     version |-> version, profile |-> profile]

LEMMA RowsStay ==
    ASSUME CreationInv, UNCHANGED runs
    PROVE  RowsTold' /\ BrandIsNamed' /\ runs \subseteq runs'
BY DEF CreationInv, RowsTold, BrandRead, BrandIsNamed

LEMMA FindRunKeeps ==
    ASSUME CreationInv, NEW h \in Handlers, NEW found \in {"find", "preflight"},
           NEW next \in {"preflight", "project"}, FindRun(h, found, next)
    PROVE  CreationInv'
<1>1. hs[h].pc \notin {"free", "profile", "insert"} /\ UNCHANGED <<runs, brandVars>>
    BY DEF FindRun, At
<1>2. CASE WithKey(hs[h].key) = {}
    BY <1>1, <1>2, GotoKeeps DEF FindRun
<1>3. CASE WithKey(hs[h].key) # {}
  <2>1. PICK run \in WithKey(hs[h].key) :
            IF run.body = hs[h].body THEN Answer(h, TRUE) ELSE Answer(h, FALSE)
      BY <1>3 DEF FindRun, Succeeds, Fails
  <2>2. run \in runs' /\ run.key = hs[h].key
      BY <1>1, <2>1 DEF WithKey
  <2>3. QED
      BY <1>1, <2>1, <2>2, RowsStay, AnswerKeeps
<1>4. QED
    BY <1>2, <1>3

LEMMA RefuseDefinitionKeeps ==
    ASSUME CreationInv, NEW h \in Handlers, RefuseDefinition(h)
    PROVE  CreationInv'
<1>1. hs[h].pc # "free" /\ UNCHANGED <<runs, brandVars>> /\ Answer(h, FALSE)
    BY DEF RefuseDefinition, At, Fails
<1>2. QED
    BY <1>1, RowsStay, AnswerKeeps

LEMMA ProjectKeeps ==
    ASSUME CreationInv, NEW h \in Handlers, FindProject(h) \/ InsertProject(h)
    PROVE  CreationInv'
<1>1. hs[h].pc \notin {"free", "profile", "insert"} /\ UNCHANGED <<runs, brandVars>>
    BY DEF FindProject, InsertProject, At
<1>2. \/ Answer(h, FALSE)
      \/ \E pc \in {"new_project", "version", "insert"} : Goto(h, pc)
    BY DEF FindProject, InsertProject, AfterProject, Fails
<1>3. CASE Answer(h, FALSE)
    BY <1>1, <1>3, RowsStay, AnswerKeeps
<1>4. CASE \E pc \in {"new_project", "version", "insert"} : Goto(h, pc)
    BY <1>1, <1>4, GotoKeeps
<1>5. QED
    BY <1>2, <1>3, <1>4

(* The version is found while one is active.                                *)
LEMMA ReadVersionKeeps ==
    ASSUME CreationInv, NEW h \in Handlers, ReadVersion(h, "version", "profile")
    PROVE  CreationInv'
<1> DEFINE a == SomeActive
           x == Thread(hs[h], "profile", a, hs[h].profile)
           y == Thread(hs[h], hs[h].pc, a, hs[h].profile)
<1>1. IsThread(hs[h]) /\ hs[h].pc = "version"
    BY DEF ReadVersion, At, CreationInv, Shapes
<1>2. hs[h] = Thread(hs[h], hs[h].pc, hs[h].version, hs[h].profile)
    BY <1>1 DEF IsThread, Thread
<1>3. hs' = [hs EXCEPT ![h] = [hs[h] EXCEPT !.version = a, !.pc = "profile"]]
    BY DEF ReadVersion, CreationInv, Shapes
<1>4. UNCHANGED <<form, runs, brandVars>>
    BY DEF ReadVersion
<1> HIDE DEF a
<1>5. [hs[h] EXCEPT !.version = a] = y
    BY <1>2 DEF Thread
<1>6. [y EXCEPT !.pc = "profile"] = x
    BY DEF Thread
<1>7. hs' = [hs EXCEPT ![h] = x]
  <2> HIDE DEF x, y
  <2>1. QED
      BY <1>3, <1>5, <1>6, Zenon
<1>8. /\ x.pc = "profile" /\ x.caller = hs[h].caller /\ x.key = hs[h].key
      /\ x.body = hs[h].body /\ x.version = a
      /\ IsThread(x)
    BY <1>1 DEF IsThread, Thread
<1> HIDE DEF x
<1>9. BrandFound(x)
    BY <1>8 DEF BrandFound, a
<1>10. QED
    BY <1>1, <1>4, <1>7, <1>8, <1>9, MoveKeeps

(* Where the version was found a profile is found too: one is still active. *)
LEMMA ReadProfileKeeps ==
    ASSUME CreationInv, NEW h \in Handlers, ReadProfile(h, "profile", "insert")
    PROVE  CreationInv'
<1> DEFINE a == SomeActive
           x == Thread(hs[h], "insert", hs[h].version, a)
           y == Thread(hs[h], hs[h].pc, hs[h].version, a)
<1>1. IsThread(hs[h]) /\ hs[h].pc = "profile"
    BY DEF ReadProfile, At, CreationInv, Shapes
<1>2. hs[h] = Thread(hs[h], hs[h].pc, hs[h].version, hs[h].profile)
    BY <1>1 DEF IsThread, Thread
<1>3. hs' = [hs EXCEPT ![h] = [hs[h] EXCEPT !.profile = a, !.pc = "insert"]]
    BY DEF ReadProfile, CreationInv, Shapes
<1>4. UNCHANGED <<form, runs, brandVars>>
    BY DEF ReadProfile
<1>5. hs[h].version => a
    BY <1>1 DEF CreationInv, BrandRead, BrandFound
<1> HIDE DEF a
<1>6. [hs[h] EXCEPT !.profile = a] = y
    BY <1>2 DEF Thread
<1>7. [y EXCEPT !.pc = "insert"] = x
    BY DEF Thread
<1>8. hs' = [hs EXCEPT ![h] = x]
  <2> HIDE DEF x, y
  <2>1. QED
      BY <1>3, <1>6, <1>7, Zenon
<1>9. /\ x.pc = "insert" /\ x.caller = hs[h].caller /\ x.key = hs[h].key
      /\ x.body = hs[h].body /\ x.version = hs[h].version /\ x.profile = a
      /\ IsThread(x)
    BY <1>1 DEF IsThread, Thread
<1> HIDE DEF x
<1>10. BrandFound(x)
    BY <1>5, <1>9 DEF BrandFound
<1>11. QED
    BY <1>1, <1>4, <1>8, <1>9, <1>10, MoveKeeps

(* The unique index and the key that tells what was wanted.                 *)
LEMMA InsertRunKeeps ==
    ASSUME CreationInv, NEW h \in Handlers, InsertRun(h)
    PROVE  CreationInv'
<1>1. hs[h].pc = "insert" /\ UNCHANGED brandVars
    BY DEF InsertRun, At
<1>2. CASE WithKey(hs[h].key) # {}
    BY <1>1, <1>2, RowsStay, AnswerKeeps DEF InsertRun, Fails
<1>3. CASE WithKey(hs[h].key) = {}
  <2> DEFINE new == NewRow(h)
  <2>1. /\ new.key = hs[h].key /\ new.body = hs[h].body
        /\ new.by = <<hs[h].caller, hs[h].intent>>
        /\ new.version = hs[h].version /\ new.profile = hs[h].profile
      BY DEF NewRow
  <2>2. runs' = runs \cup {new} /\ Answer(h, TRUE)
      BY <1>3 DEF InsertRun, Succeeds
  <2>3. new.by[1] \in Forms => new.key = new.by
      BY <1>1, <2>1 DEF CreationInv, Shapes, IsThread
  <2>4. \A run \in runs : run.key # new.key
      BY <1>3, <2>1 DEF WithKey
  <2> HIDE DEF new
  <2>5. RowsTold'
      BY <2>2, <2>3, <2>4 DEF CreationInv, RowsTold
  <2>6. BrandIsNamed'
      BY <1>1, <2>1, <2>2 DEF CreationInv, BrandRead, BrandFound, BrandIsNamed
  <2>7. QED
      BY <1>1, <2>1, <2>2, <2>5, <2>6, AnswerKeeps
<1>4. QED
    BY <1>2, <1>3

LEMMA CrashKeeps ==
    ASSUME CreationInv, Crash
    PROVE  CreationInv'
<1>1. form \in [Callers -> FormStates]
    BY DEF CreationInv, Shapes
<1>2. /\ form' \in [Callers -> FormStates]
      /\ \A d \in Callers : /\ form'[d].key = form[d].key /\ form'[d].intent = form[d].intent
                            /\ form'[d].body = form[d].body /\ form'[d].done = form[d].done
                            /\ form'[d].waits = None
  <2>1. ASSUME NEW d \in Callers
        PROVE  /\ [form[d] EXCEPT !.waits = None] \in FormStates
               /\ [form[d] EXCEPT !.waits = None].key = form[d].key
               /\ [form[d] EXCEPT !.waits = None].intent = form[d].intent
               /\ [form[d] EXCEPT !.waits = None].body = form[d].body
               /\ [form[d] EXCEPT !.waits = None].done = form[d].done
               /\ [form[d] EXCEPT !.waits = None].waits = None
    <3>1. form[d] \in FormStates
        BY <1>1
    <3>2. QED
        BY <3>1 DEF FormStates
  <2>2. form' = [d \in Callers |-> [form[d] EXCEPT !.waits = None]]
      BY DEF Crash
  <2>3. QED
      BY <2>1, <2>2
<1>3. /\ DOMAIN hs' = Handlers /\ \A h \in Handlers : hs'[h] = Free
      /\ IsThread(Free) /\ Free.pc = "free" /\ Free.version = FALSE /\ UNCHANGED <<runs, active>>
    BY DEF Crash, Free, IsThread
<1>4. Shapes' /\ RowsTold'
    BY <1>2, <1>3 DEF CreationInv, Shapes, RowsTold
<1>5. KeyIsIntent'
    BY <1>2 DEF CreationInv, KeyIsIntent, Callers
<1>6. WaitsForOwn'
    BY <1>2, HandlersAssumption DEF WaitsForOwn
<1>7. AnswerIsOwnRun'
  <2> SUFFICES ASSUME NEW d \in Callers, form'[d].done
               PROVE  \E run \in runs' : run.key = <<d, form'[d].key>> /\ run.body = form'[d].body
      BY DEF AnswerIsOwnRun
  <2>1. PICK run \in runs : run.key = <<d, form[d].key>> /\ run.body = form[d].body
      BY <1>2 DEF CreationInv, AnswerIsOwnRun
  <2>2. run \in runs' /\ run.key = <<d, form'[d].key>> /\ run.body = form'[d].body
      BY <1>2, <1>3, <2>1
  <2>3. QED
      BY <2>2
<1>8. BrandRead'
    BY <1>3 DEF CreationInv, BrandRead, BrandFound, BrandIsNamed
<1>9. QED
    BY <1>4, <1>5, <1>6, <1>7, <1>8 DEF CreationInv

(* The brand changes under the requests, which stay where they are.         *)
LEMMA BrandStepKeeps ==
    ASSUME CreationInv, BrandStep
    PROVE  CreationInv'
<1>1. BrandNext /\ UNCHANGED <<form, hs, runs>>
    BY DEF BrandStep, creationVars
<1>2. Shapes' /\ KeyIsIntent' /\ RowsTold' /\ AnswerIsOwnRun' /\ WaitsForOwn'
    BY <1>1 DEF CreationInv, Shapes, KeyIsIntent, RowsTold, AnswerIsOwnRun, WaitsForOwn, Serves
<1>3. active' \in Seq(BOOLEAN) /\ (SomeActive => SomeActive')
    BY <1>1, BrandNextKeeps DEF CreationInv, BrandRead
<1>4. BrandRead'
    BY <1>1, <1>3 DEF CreationInv, BrandRead, BrandFound, BrandIsNamed
<1>5. QED
    BY <1>2, <1>4 DEF CreationInv

LEMMA StutterKeeps ==
    ASSUME CreationInv, UNCHANGED vars
    PROVE  CreationInv'
<1>1. UNCHANGED <<form, hs, runs, brandVars>>
    BY DEF vars, creationVars
<1>2. Shapes' /\ KeyIsIntent' /\ RowsTold' /\ AnswerIsOwnRun' /\ WaitsForOwn'
    BY <1>1 DEF CreationInv, Shapes, KeyIsIntent, RowsTold, AnswerIsOwnRun, WaitsForOwn, Serves
<1>3. BrandRead'
    BY <1>1, ActiveStays DEF CreationInv, BrandRead, BrandFound, BrandIsNamed, brandVars
<1>4. QED
    BY <1>2, <1>3 DEF CreationInv

-----------------------------------------------------------------------------
LEMMA CreationInvHolds == Spec => []CreationInv
<1>1. Init => CreationInv
  <2> SUFFICES ASSUME Init PROVE CreationInv
      OBVIOUS
  <2> DEFINE f == [waits |-> None, key |-> 0, body |-> None, done |-> FALSE, intent |-> 0]
  <2>1. /\ form = [c \in Callers |-> f] /\ hs = [h \in Handlers |-> Free] /\ runs = {}
        /\ active = <<>>
      BY DEF Init, BrandInit
  <2>2. /\ f \in FormStates /\ f.key = f.intent /\ f.waits = None /\ f.done = FALSE
      BY DEF FormStates
  <2>3. IsThread(Free) /\ Free.pc = "free" /\ Free.version = FALSE
      BY DEF IsThread, Free
  <2> HIDE DEF f
  <2>4. Shapes /\ RowsTold /\ BrandRead
      BY <2>1, <2>2, <2>3 DEF Shapes, RowsTold, BrandRead, BrandFound, BrandIsNamed
  <2>5. KeyIsIntent /\ WaitsForOwn /\ AnswerIsOwnRun
      BY <2>1, <2>2, HandlersAssumption DEF KeyIsIntent, WaitsForOwn, AnswerIsOwnRun, Callers
  <2>6. QED
      BY <2>4, <2>5 DEF CreationInv
<1>2. CreationInv /\ [Next]_vars => CreationInv'
  <2> SUFFICES ASSUME CreationInv, [Next]_vars PROVE CreationInv'
      OBVIOUS
  <2>1. ASSUME NEW c \in Callers, LoseAnswer(c) PROVE CreationInv'
      BY <2>1, LoseAnswerKeeps
  <2>2. ASSUME NEW c \in Callers, NEW b \in Bodies, NEW h \in Handlers, Submit(c, b, h)
        PROVE  CreationInv'
      BY <2>2, SubmitKeeps
  <2>3. ASSUME NEW h \in Handlers, Serve(h) PROVE CreationInv'
    <3>1. CASE FindRun(h, "find", "preflight") \/ FindRun(h, "preflight", "project")
        BY <3>1, FindRunKeeps
    <3>2. CASE RefuseDefinition(h)
        BY <3>2, RefuseDefinitionKeeps
    <3>3. CASE FindProject(h) \/ InsertProject(h)
        BY <3>3, ProjectKeeps
    <3>4. CASE ReadVersion(h, "version", "profile")
        BY <3>4, ReadVersionKeeps
    <3>5. CASE ReadProfile(h, "profile", "insert")
        BY <3>5, ReadProfileKeeps
    <3>6. CASE InsertRun(h)
        BY <3>6, InsertRunKeeps
    <3>7. QED
        BY <2>3, <3>1, <3>2, <3>3, <3>4, <3>5, <3>6 DEF Serve, ReadBrand
  <2>4. CASE BrandStep
      BY <2>4, BrandStepKeeps
  <2>5. CASE Crash
      BY <2>5, CrashKeeps
  <2>6. CASE UNCHANGED vars
      BY <2>6, StutterKeeps
  <2>7. QED
      BY <2>1, <2>2, <2>3, <2>4, <2>5, <2>6 DEF Next
<1>3. QED
    BY <1>1, <1>2, PTL DEF Spec

(* What a user of the form asked for once is one run, whatever answers were *)
(* lost and whichever of the requests that the form sent again overlap: the *)
(* key names the intent (create-run.js) and the index on it is unique.      *)
THEOREM OneRun == Spec => []OneRunPerIntent
<1>1. CreationInv => OneRunPerIntent
    BY DEF CreationInv, RowsTold, OneRunPerIntent
<1>2. QED
    BY <1>1, CreationInvHolds, PTL

(* Whoever was answered with a run asked for that run: no late answer, lost *)
(* answer or restart gives a caller the run of another body or key.         *)
THEOREM AnswersAreOwn == Spec => []AnswerIsOwnRun
<1>1. CreationInv => AnswerIsOwnRun
    BY DEF CreationInv
<1>2. QED
    BY <1>1, CreationInvHolds, PTL

(* A run that Store.create_run stored with a brand version names a profile, *)
(* however saves, failed saves and activations interleave with its two      *)
(* reads, and whatever crashes came between: no step of the store leaves a  *)
(* brand once activated without an active version.                          *)
THEOREM BrandsAreNamed == Spec => []BrandIsNamed
<1>1. CreationInv => BrandIsNamed
    BY DEF CreationInv, BrandRead
<1>2. QED
    BY <1>1, CreationInvHolds, PTL
=============================================================================
