----------------------------- MODULE RunCreation -----------------------------
(***************************************************************************)
(* Creating a run: the browser's form and its idempotency key, the request *)
(* on its way, RunService.create_run with the store queries it is made of, *)
(* and the brand profile that changes under it.  A request whose answer is *)
(* lost goes on being served while the form sends it again.                *)
(*                                                                         *)
(* Abstracted: a request is one of a few bodies (its fingerprint); all of  *)
(* them name one project; definitions may be invalid at any preflight; of  *)
(* the brand columns of a run only whether each names a profile.           *)
(***************************************************************************)
EXTENDS BrandProfiles

CONSTANTS
    Forms,      \* users of the web form
    Scripts,    \* API clients that send one key with whatever they ask for
    Handlers,   \* request threads of the server
    Bodies,     \* requests by fingerprint
    Branded,    \* those that use the brand (social posts)
    MaxKeys     \* bound on keys a form draws (crypto.randomUUID)

Callers == Forms \cup Scripts
ASSUME CallersAssumption == Forms \cap Scripts = {}
ASSUME KeysAssumption == MaxKeys \in Nat \ {0}

VARIABLES
    runs,       \* runs: id, key, body, brand_version and brand_profile_id, and
                \* what was wanted by whom (history)
    project,    \* whether the project's row exists
    form,       \* each caller: the request it waits for, key, body, success
    hs          \* each request thread: position in create_run and what it read

creationVars == <<runs, project, form, hs>>
vars == <<brandVars, creationVars>>

None == "none"
ASSUME HandlersAssumption == None \notin Handlers
Keys == Callers \X (1 .. MaxKeys)   \* UUIDs: no two callers draw the same
Free == [pc |-> "free", caller |-> None, key |-> None, body |-> None, intent |-> 0,
         version |-> FALSE, profile |-> FALSE]

-----------------------------------------------------------------------------
(* The form.  It keeps its key while the same body is sent again, and draws *)
(* a new one for another body or after a success.  `intent` counts what the *)
(* user wanted: the same request not yet answered with a run, or another.   *)

KeyFor(c, b) ==
    IF c \in Scripts THEN 1
    ELSE IF form[c].body = b /\ ~form[c].done THEN form[c].key ELSE form[c].key + 1

IntentFor(c, b) ==
    IF c \in Scripts THEN 0
    ELSE IF form[c].body = b /\ ~form[c].done THEN form[c].intent ELSE form[c].intent + 1

Submit(c, b, h) ==
    /\ form[c].waits = None
    /\ hs[h].pc = "free"
    /\ KeyFor(c, b) <= MaxKeys
    /\ form' = [form EXCEPT ![c] = [waits |-> h, key |-> KeyFor(c, b), body |-> b,
                                    done |-> FALSE, intent |-> IntentFor(c, b)]]
    /\ hs' = [hs EXCEPT ![h] = [Free EXCEPT !.pc = "find", !.caller = c, !.body = b,
                                            !.key = <<c, KeyFor(c, b)>>,
                                            !.intent = IntentFor(c, b)]]
    /\ UNCHANGED <<brandVars, runs, project>>

(* The connection breaks: the form may send again, the server goes on.      *)
LoseAnswer(c) ==
    /\ form[c].waits # None
    /\ form' = [form EXCEPT ![c].waits = None]
    /\ UNCHANGED <<brandVars, runs, project, hs>>

(* The request ends.  A success clears the form's payload; an error (also   *)
(* the 500 of an IntegrityError, which no layer translates) keeps it.       *)
Answer(h, success) ==
    LET c == hs[h].caller
    IN  /\ hs' = [hs EXCEPT ![h] = Free]
        /\ form' = IF form[c].waits # h THEN form
                   ELSE [form EXCEPT ![c].waits = None, ![c].done = success]

Fails(h) == Answer(h, FALSE)
Succeeds(h) == Answer(h, TRUE)

-----------------------------------------------------------------------------
(* create_run on the server.                                               *)

At(h, pc) == hs[h].pc = pc
Goto(h, pc) == hs' = [hs EXCEPT ![h].pc = pc] /\ UNCHANGED form
WithKey(k) == {run \in runs : run.key = k}

(* Faulty: a key found is answered whatever was asked for.                  *)
FindByKeyOnly(h, found, next) ==
    /\ At(h, found)
    /\ IF WithKey(hs[h].key) = {} THEN Goto(h, next)
       ELSE Succeeds(h)
    /\ UNCHANGED <<brandVars, runs, project>>

(* find_idempotent_run, by the service and again by the store: no run, the  *)
(* run of this request, or a conflict.                                      *)
FindRun(h, found, next) ==
    /\ At(h, found)
    /\ IF WithKey(hs[h].key) = {} THEN Goto(h, next)
       ELSE \E run \in WithKey(hs[h].key) :
              IF run.body = hs[h].body THEN Succeeds(h) ELSE Fails(h)
    /\ UNCHANGED <<brandVars, runs, project>>

(* Preflight reads no row: it fails, or the store's lookup is next.         *)
RefuseDefinition(h) ==
    /\ At(h, "preflight")
    /\ Fails(h)
    /\ UNCHANGED <<brandVars, runs, project>>

(* A request that uses no brand stores no version and no profile.           *)
AfterProject(h) == IF hs[h].body \in Branded THEN "version" ELSE "insert"

(* get_or_create_project: the SELECT and the INSERT under UNIQUE(name).     *)
FindProject(h) ==
    /\ At(h, "project")
    /\ Goto(h, IF project THEN AfterProject(h) ELSE "new_project")
    /\ UNCHANGED <<brandVars, runs, project>>

InsertProject(h) ==
    /\ At(h, "new_project")
    /\ project' = TRUE
    /\ IF project THEN Fails(h) ELSE Goto(h, AfterProject(h))
    /\ UNCHANGED <<brandVars, runs>>

(* Two queries for the active brand: its version, its id. *)
ReadVersion(h, at, next) ==
    /\ At(h, at)
    /\ hs' = [hs EXCEPT ![h].version = SomeActive, ![h].pc = next]
    /\ UNCHANGED <<brandVars, runs, project, form>>

ReadProfile(h, at, next) ==
    /\ At(h, at)
    /\ hs' = [hs EXCEPT ![h].profile = SomeActive, ![h].pc = next]
    /\ UNCHANGED <<brandVars, runs, project, form>>

(* Faulty: the id is read before the version.                               *)
ReadIdFirst(h) ==
    ReadProfile(h, "version", "profile") \/ ReadVersion(h, "profile", "insert")

(* The version is read first, then the id.                                  *)
ReadBrand(h) ==
    ReadVersion(h, "version", "profile") \/ ReadProfile(h, "profile", "insert")

(* The row with its new id and what the thread read of the brand.           *)
NewRow(h) == [id |-> Cardinality(runs) + 1, key |-> hs[h].key, body |-> hs[h].body,
              version |-> hs[h].version, profile |-> hs[h].profile,
              by |-> <<hs[h].caller, hs[h].intent>>]

(* Faulty: the key is not unique in the table.                              *)
InsertAnyway(h) ==
    /\ At(h, "insert")
    /\ runs' = runs \cup {NewRow(h)}
    /\ Succeeds(h)
    /\ UNCHANGED <<brandVars, project>>

(* The INSERT under UNIQUE(idempotency_key).  Logging workflow_started and  *)
(* reading the run again come before the answer; a crash between them is a  *)
(* lost answer.                                                             *)
InsertRun(h) ==
    /\ At(h, "insert")
    /\ IF WithKey(hs[h].key) # {} THEN UNCHANGED runs /\ Fails(h)
       ELSE runs' = runs \cup {NewRow(h)} /\ Succeeds(h)
    /\ UNCHANGED <<brandVars, project>>

(* The server ends: requests under way vanish, their callers see an error.  *)
Crash ==
    /\ hs' = [h \in Handlers |-> Free]
    /\ form' = [c \in Callers |-> [form[c] EXCEPT !.waits = None]]
    /\ saving' = [s \in Savers |-> 0]
    /\ UNCHANGED <<active, runs, project>>

-----------------------------------------------------------------------------
BrandStep == BrandNext /\ UNCHANGED creationVars

Serve(h) ==
    \/ FindRun(h, "find", "preflight")
    \/ RefuseDefinition(h) \/ FindRun(h, "preflight", "project")
    \/ FindProject(h) \/ InsertProject(h) \/ ReadBrand(h) \/ InsertRun(h)

Init ==
    /\ BrandInit
    /\ runs = {}
    /\ project = FALSE
    /\ form = [c \in Callers |-> [waits |-> None, key |-> 0, body |-> None,
                                  done |-> FALSE, intent |-> 0]]
    /\ hs = [h \in Handlers |-> Free]

Next ==
    \/ \E c \in Callers : LoseAnswer(c) \/ \E b \in Bodies, h \in Handlers : Submit(c, b, h)
    \/ \E h \in Handlers : Serve(h)
    \/ BrandStep \/ Crash

Spec == Init /\ [][Next]_vars

-----------------------------------------------------------------------------
(* Properties.                                                             *)

(* What a user of the form asked for once is one run, however often the     *)
(* form had to send it, whatever answers were lost and whichever requests   *)
(* overlap.                                                                 *)
OneRunPerIntent ==
    \A a, b \in runs : a.by = b.by /\ a.by[1] \in Forms => a = b

(* A caller that was answered with a run was answered with one of what it   *)
(* had asked for, also a script that uses one key for different requests.   *)
AnswerIsOwnRun ==
    \A c \in Callers :
        form[c].done => \E run \in runs : run.key = <<c, form[c].key>> /\ run.body = form[c].body

(* A run whose steps are given a brand (by its version) names a profile,    *)
(* whatever saves, failed saves and activations come between the two reads: *)
(* once a profile is active one always is.  The profile named may be of     *)
(* another version, and a run may name one and be given no brand.           *)
BrandIsNamed == \A run \in runs : run.version => run.profile
=============================================================================
