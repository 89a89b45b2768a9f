----------------------------- MODULE RouterProofs -----------------------------
(***************************************************************************)
(* What holds of every answer a run asks for, for every catalog, workflow, *)
(* number of retries and budget.  RouterInv is what a step of the router   *)
(* relies on; the properties follow from it, or are kept because of it.    *)
(***************************************************************************)
EXTENDS ModelRouter, FiniteSetTheorems, TLAPS

Trying == {"call", "infer", "validate", "returned"}

(* While the router has a step: its route was not refused, the position is  *)
(* one of a candidate, and a candidate is only tried if it fits.            *)
Routed ==
    /\ r.pc \in {"candidate"} \cup Trying => ~Refused(task) /\ Mode(task) # "human"
    /\ r.pc = "candidate" => r.cand <= Len(Candidates) + 1
    /\ r.pc \in Trying => r.cand <= Len(Candidates) /\ Usable(Candidate)
    /\ r.pc \in {"validate", "returned"} => ~RefusedByAdapter(Candidate)

(* Calls made so far, by candidate.                                         *)
Counted ==
    /\ r.pc = "candidate" =>
           /\ r.cand = 1 => r.tries = 0
           /\ r.cand = 2 => r.tries <= MaxRetries + 1
    /\ r.pc = "call" =>
           /\ r.cand = 1 => r.tries <= r.retry
           /\ r.cand # 1 => r.tries <= MaxRetries + 1
    /\ r.pc \in {"infer", "validate", "returned"} => (r.cand = 1 => r.tries <= r.retry + 1)

RouterInv == TypeOK /\ Routed /\ Counted

(* A step is bound to one model of the catalog or to two, maybe the same.   *)
LEMMA BoundModels ==
    ASSUME NEW t \in Tasks
    PROVE  /\ Len(Binding(t)) \in {1, 2} /\ DOMAIN Binding(t) = 1 .. Len(Binding(t))
           /\ \A i \in 1 .. Len(Binding(t)) : Binding(t)[i] \in Models
<1>1. t \in TaskType
    BY TasksAssumption
<1>2. {LocalModel, CloudModel, GroundedModel, t.preferred} \subseteq Models
      /\ (t.fallback # NoModel => t.fallback \in Models)
    BY <1>1, CatalogAssumption DEF TaskType, Models, Cloud
<1>3. \/ \E m \in Models : Binding(t) = <<m>>
      \/ t.fallback \in Models /\ Binding(t) = <<t.preferred, t.fallback>>
  <2>1. CASE Mode(t) = "local" \/ (Mode(t) = "auto" /\ t.sensitive)
      BY <2>1, <1>2 DEF Binding
  <2>2. CASE ~(Mode(t) = "local" \/ (Mode(t) = "auto" /\ t.sensitive)) /\ Mode(t) = "cloud"
    <3>1. Binding(t) = <<IF t.web THEN GroundedModel ELSE CloudModel>>
        BY <2>2 DEF Binding
    <3>2. (IF t.web THEN GroundedModel ELSE CloudModel) \in Models
        BY <1>2
    <3>3. QED
        BY <3>1, <3>2
  <2>3. CASE ~(Mode(t) = "local" \/ (Mode(t) = "auto" /\ t.sensitive)) /\ Mode(t) # "cloud"
    <3>1. Binding(t) = IF t.fallback = NoModel THEN <<t.preferred>> ELSE <<t.preferred, t.fallback>>
        BY <2>3 DEF Binding
    <3>2. QED
        BY <3>1, <1>2
  <2>4. QED
      BY <2>1, <2>2, <2>3
<1>4. CASE \E m \in Models : Binding(t) = <<m>>
    BY <1>4
<1>5. CASE t.fallback \in Models /\ Binding(t) = <<t.preferred, t.fallback>>
    BY <1>5, <1>1, <1>2
<1>6. QED
    BY <1>3, <1>4, <1>5

LEMMA CandidateModels ==
    ASSUME TypeOK
    PROVE  /\ Len(Candidates) \in {1, 2} /\ DOMAIN Candidates = 1 .. Len(Candidates)
           /\ \A i \in 1 .. Len(Candidates) :
                  Candidates[i] \in Models \cup {Fixture} /\ (~dry => Candidates[i] \in Models)
<1>1. task \in Tasks
    BY DEF TypeOK
<1>2. CASE dry
    BY <1>2 DEF Candidates
<1>3. CASE ~dry
    BY <1>3, <1>1, BoundModels DEF Candidates
<1>4. QED
    BY <1>2, <1>3

LEMMA CandidateModel ==
    ASSUME TypeOK, r.cand <= Len(Candidates)
    PROVE  /\ r.cand \in 1 .. Len(Candidates) /\ r.cand \in {1, 2}
           /\ Candidate \in Models \cup {Fixture}
           /\ ~dry => Candidate \in Models
<1>1. r.cand \in 1 .. 3
    BY DEF TypeOK, RouterState
<1>2. r.cand \in 1 .. Len(Candidates) /\ r.cand \in {1, 2}
    BY <1>1, CandidateModels
<1>3. QED
    BY <1>2, CandidateModels DEF Candidate

LEMMA RecordTypes ==
    ASSUME TypeOK, NEW m \in Models \cup {Fixture}, NEW ok \in BOOLEAN, Record(m, ok)
    PROVE  usage' \in Seq(UsageRow) /\ lost' \in Nat
<1>1. \/ usage' = Append(usage, [task |-> TaskNo, model |-> m, ok |-> ok]) /\ lost' = lost
      \/ lost' = lost + 1 /\ usage' = usage
    BY DEF Record
<1>2. TaskNo \in 0 .. MaxTasks
    BY LimitsAssumption DEF TypeOK, TaskNo
<1>3. [task |-> TaskNo, model |-> m, ok |-> ok] \in UsageRow
    BY <1>2 DEF UsageRow
<1>4. usage \in Seq(UsageRow) /\ lost \in Nat
    BY DEF TypeOK
<1>5. QED
    BY <1>1, <1>3, <1>4

(* A failure is an attempt, a usage row or a lost one, and the next thing   *)
(* to do.                                                                   *)
LEMMA FailedTypes ==
    ASSUME RouterInv, r.pc \in {"infer", "validate"}, NEW why \in {"structured", "other"}, Failed(why)
    PROVE  /\ attempts' \in Seq(Attempt) /\ usage' \in Seq(UsageRow) /\ lost' \in Nat
           /\ \/ /\ r.cand = 1 /\ r.retry < MaxRetries /\ why = "structured"
                 /\ r' = [r EXCEPT !.pc = "call", !.retry = @ + 1]
              \/ r' = NextCandidate
           /\ r' \in RouterState
<1>0. r \in RouterState /\ TypeOK /\ r.cand <= Len(Candidates) /\ r.cand \in 1 .. 3
    BY DEF RouterInv, TypeOK, Routed, RouterState, Trying
<1>1. Candidate \in Models \cup {Fixture} /\ Len(Candidates) <= 2
    BY <1>0, CandidateModels DEF Candidate
<1>2. r.retry \in 0 .. MaxRetries /\ why \in Whys /\ r.cand <= 2
    BY <1>0, <1>1, CandidateModels DEF RouterState, Whys
<1>3. [model |-> Candidate, retry |-> r.retry, why |-> why] \in Attempt
    BY <1>1, <1>2 DEF Attempt
<1>4. attempts' \in Seq(Attempt)
    BY <1>0, <1>3 DEF Failed, TypeOK
<1>7. usage' \in Seq(UsageRow) /\ lost' \in Nat
    BY <1>0, <1>1, RecordTypes DEF Failed
<1>8. \/ /\ r.cand = 1 /\ r.retry < MaxRetries /\ why = "structured"
         /\ r' = [r EXCEPT !.pc = "call", !.retry = @ + 1]
      \/ r' = NextCandidate
    BY DEF Failed, AfterFailure
<1>9. r' \in RouterState
  <2>0. /\ r.cand + 1 \in 1 .. 3 /\ 0 \in 0 .. MaxRetries
        /\ r.retry < MaxRetries => r.retry + 1 \in 0 .. MaxRetries
      BY <1>0, <1>2, LimitsAssumption
  <2>1. CASE r' = [r EXCEPT !.pc = "call", !.retry = @ + 1] /\ r.retry < MaxRetries
      BY <2>0, <2>1, <1>0 DEF RouterState
  <2>2. CASE r' = [r EXCEPT !.pc = "candidate", !.cand = @ + 1, !.retry = 0]
      BY <2>0, <2>2, <1>0 DEF RouterState
  <2>3. QED
      BY <1>8, <2>1, <2>2 DEF NextCandidate
<1>10. QED
    BY <1>4, <1>7, <1>8, <1>9

LEMMA RouterInitial == Init => RouterInv
<1> SUFFICES ASSUME Init PROVE RouterInv
    OBVIOUS
<1>1. r.pc = "idle" /\ r \in RouterState
    BY LimitsAssumption DEF Init, Fresh, RouterState
<1>2. attempts \in Seq(Attempt) /\ usage \in Seq(UsageRow) /\ sent = {}
    BY DEF Init
<1>3. TypeOK
  <2>1. dry \in BOOLEAN /\ cancel \in BOOLEAN /\ task \in Tasks
      BY Zenon DEF Init
  <2>2. llmCalls \in 0 .. MaxLLM /\ left \in 0 .. MaxTasks /\ lost \in Nat /\ late \in Nat
      BY LimitsAssumption DEF Init
  <2>3. sent \subseteq [model: Models \cup {Fixture}, sensitive: BOOLEAN]
      BY <1>2
  <2>4. QED
      BY <1>1, <1>2, <2>1, <2>2, <2>3 DEF TypeOK
<1>4. QED
    BY <1>1, <1>3 DEF RouterInv, Routed, Counted, Trying

(* What a step asks for begins with the first candidate, or ends at once.   *)
LEMMA AskStarts ==
    ASSUME r \in RouterState, Ask
    PROVE  /\ r'.pc \in {"idle", "cancelled", "budget", "fail", "candidate"}
           /\ r' \in RouterState
           /\ r'.pc = "idle" => r' = r
           /\ r'.pc # "idle" => r'.cand = 1 /\ r'.tries = 0
           /\ r'.pc = "cancelled" => cancel
           /\ r'.pc \in {"fail", "candidate"} => ~cancel
           /\ r'.pc = "budget" => llmCalls >= MaxLLM
           /\ r'.pc = "candidate" => ~Refused(task') /\ Mode(task') # "human"
<1> DEFINE pc == IF cancel THEN "cancelled"
                 ELSE IF llmCalls >= MaxLLM /\ task'.mode # "human" THEN "budget"
                 ELSE IF Refused(task') THEN "fail"
                 ELSE IF Mode(task') = "human" THEN "idle" ELSE "candidate"
<1>1. r' = IF pc = "idle" THEN r ELSE [Fresh EXCEPT !.pc = pc]
    BY DEF Ask
<1>2. /\ pc \in {"cancelled", "budget", "fail", "idle", "candidate"}
      /\ pc = "cancelled" => cancel
      /\ pc \in {"fail", "candidate"} => ~cancel
      /\ pc = "budget" => llmCalls >= MaxLLM
      /\ pc = "candidate" => ~Refused(task') /\ Mode(task') # "human"
    OBVIOUS
<1> HIDE DEF pc
<1>3. r.pc = "idle"
    BY DEF Ask, At
<1>4. CASE pc = "idle"
    BY <1>1, <1>3, <1>4
<1>5. CASE pc # "idle"
  <2>1. r' = [pc |-> pc, cand |-> 1, retry |-> 0, tries |-> 0]
      BY <1>1, <1>5 DEF Fresh
  <2>2. r' \in RouterState
      BY <2>1, <1>2, LimitsAssumption DEF RouterState
  <2>3. QED
      BY <2>1, <2>2, <1>2, <1>5
<1>6. QED
    BY <1>4, <1>5

LEMMA AskKeeps == RouterInv /\ Ask => RouterInv'
<1> SUFFICES ASSUME RouterInv, Ask PROVE RouterInv'
    OBVIOUS
<1>0. TypeOK /\ r \in RouterState
    BY DEF RouterInv, TypeOK
<1>2. /\ r' \in RouterState /\ (r'.pc = "candidate" => r'.cand = 1 /\ r'.tries = 0)
      /\ r'.pc \in {"idle", "cancelled", "budget", "fail", "candidate"}
      /\ r'.pc = "candidate" => ~Refused(task') /\ Mode(task') # "human"
    BY <1>0, AskStarts
<1>3. TypeOK'
    BY <1>0, <1>2, LimitsAssumption DEF Ask, TypeOK
<1>5. Len(Candidates') \in {1, 2}
  <2>1. Candidates' = IF dry' THEN <<Fixture>> ELSE Binding(task')
      BY DEF Candidates
  <2>2. Len(Binding(task')) \in {1, 2}
      BY <1>3, BoundModels DEF TypeOK
  <2>3. QED
      BY <2>1, <2>2
<1>6. QED
    BY <1>2, <1>3, <1>5 DEF RouterInv, Routed, Counted, Trying

(* Steps that leave the step, the catalog and the candidate alone.          *)
LEMMA CandidateStays ==
    ASSUME dry' = dry, task' = task
    PROVE  /\ Candidates' = Candidates
           /\ r'.cand = r.cand =>
                  /\ Candidate' = Candidate
                  /\ (Usable(Candidate))' <=> Usable(Candidate)
                  /\ (RefusedByAdapter(Candidate))' <=> RefusedByAdapter(Candidate)
           /\ (Refused(task))' <=> Refused(task)
           /\ (Mode(task))' = Mode(task)
<1>1. Candidates' = Candidates
    BY DEF Candidates
<1>2. r'.cand = r.cand => Candidate' = Candidate
    BY <1>1 DEF Candidate
<1>3. ASSUME r'.cand = r.cand
      PROVE  /\ (Usable(Candidate))' <=> Usable(Candidate)
             /\ (RefusedByAdapter(Candidate))' <=> RefusedByAdapter(Candidate)
    BY <1>2, <1>3 DEF Usable, RefusedByAdapter
<1>4. (Refused(task))' <=> Refused(task)
    BY DEF Refused
<1>5. QED
    BY <1>1, <1>2, <1>3, <1>4

LEMMA FailedKeeps ==
    ASSUME RouterInv, r.pc \in {"infer", "validate"}, NEW why \in {"structured", "other"},
           Failed(why), UNCHANGED <<dry, cancel, llmCalls, task, left>>,
           sent' \subseteq [model: Models \cup {Fixture}, sensitive: BOOLEAN], late' \in Nat
    PROVE  RouterInv'
<1>0. TypeOK /\ r \in RouterState /\ r.cand \in 1 .. 3 /\ r.retry \in 0 .. MaxRetries
      /\ r.tries \in Nat /\ r.cand <= Len(Candidates)
    BY LimitsAssumption DEF RouterInv, TypeOK, RouterState, Routed, Trying
<1>1. /\ attempts' \in Seq(Attempt) /\ usage' \in Seq(UsageRow) /\ lost' \in Nat
      /\ \/ /\ r.cand = 1 /\ r.retry < MaxRetries /\ why = "structured"
            /\ r' = [r EXCEPT !.pc = "call", !.retry = @ + 1]
         \/ r' = NextCandidate
      /\ r' \in RouterState
    BY FailedTypes
<1>2. TypeOK'
    BY <1>0, <1>1 DEF TypeOK
<1>3. CASE /\ r.cand = 1 /\ r.retry < MaxRetries
           /\ r' = [r EXCEPT !.pc = "call", !.retry = @ + 1]
  <2>1. r'.pc = "call" /\ r'.cand = r.cand /\ r'.retry = r.retry + 1 /\ r'.tries = r.tries
      BY <1>0, <1>3 DEF RouterState
  <2>2. Routed'
      BY <2>1, <1>0, CandidateStays DEF RouterInv, Routed, Trying
  <2>3. Counted'
      BY <2>1, <1>0, <1>3 DEF RouterInv, Counted
  <2>4. QED
      BY <1>2, <2>2, <2>3 DEF RouterInv
<1>4. CASE r' = NextCandidate
  <2>1. r'.pc = "candidate" /\ r'.cand = r.cand + 1 /\ r'.tries = r.tries
      BY <1>0, <1>4 DEF RouterState, NextCandidate
  <2>2. Routed'
      BY <2>1, <1>0, CandidateStays, CandidateModels DEF RouterInv, Routed, Trying
  <2>3. Counted'
      BY <2>1, <1>0, LimitsAssumption DEF RouterInv, Counted
  <2>4. QED
      BY <1>2, <2>2, <2>3 DEF RouterInv
<1>5. QED
    BY <1>1, <1>3, <1>4

LEMMA PassOverKeeps == RouterInv /\ PassOver => RouterInv'
<1> SUFFICES ASSUME RouterInv, PassOver PROVE RouterInv'
    OBVIOUS
<1>0. /\ TypeOK /\ r \in RouterState /\ r.pc = "candidate" /\ r.cand \in {1, 2}
      /\ r.cand <= Len(Candidates) /\ Candidate \in Models \cup {Fixture} /\ r.tries \in Nat
      /\ r' = NextCandidate /\ UNCHANGED <<dry, task>>
    BY CandidateModel, LimitsAssumption DEF RouterInv, PassOver, TypeOK, RouterState, At
<1>1. r' \in RouterState /\ r'.pc = "candidate" /\ r'.cand = r.cand + 1 /\ r'.tries = r.tries
  <2>1. r.cand + 1 \in 1 .. 3 /\ 0 \in 0 .. MaxRetries
      BY <1>0, LimitsAssumption
  <2>2. QED
      BY <2>1, <1>0 DEF NextCandidate, RouterState
<1>2. attempts' \in Seq(Attempt)
  <2>1. [model |-> Candidate, retry |-> 0, why |-> "other"] \in Attempt
      BY <1>0, LimitsAssumption DEF Attempt, Whys
  <2>2. QED
      BY <2>1, <1>0 DEF PassOver, TypeOK
<1>3. usage' \in Seq(UsageRow) /\ lost' \in Nat
    BY <1>0, RecordTypes DEF PassOver
<1>4. TypeOK'
    BY <1>0, <1>1, <1>2, <1>3 DEF PassOver, TypeOK
<1>5. Routed'
    BY <1>0, <1>1, CandidateStays, CandidateModels DEF RouterInv, Routed, Trying
<1>6. Counted'
    BY <1>0, <1>1, LimitsAssumption DEF RouterInv, Counted
<1>7. QED
    BY <1>4, <1>5, <1>6 DEF RouterInv

(* Steps of the router that record nothing.                                 *)
LEMMA QuietKeeps == RouterInv /\ (TryCandidate \/ GiveUp \/ BeforeCall) => RouterInv'
<1> SUFFICES ASSUME RouterInv, TryCandidate \/ GiveUp \/ BeforeCall PROVE RouterInv'
    OBVIOUS
<1>0. /\ TypeOK /\ r \in RouterState /\ r.retry \in Nat /\ r.tries \in Nat /\ r.cand \in 1 .. 3
      /\ UNCHANGED <<dry, cancel, task, left, attempts, usage, lost, sent, late>>
    BY LimitsAssumption DEF RouterInv, TypeOK, RouterState, TryCandidate, GiveUp, BeforeCall
<1>1. CASE TryCandidate
  <2>1. /\ r' = [r EXCEPT !.pc = "call"] /\ r.pc = "candidate" /\ llmCalls' = llmCalls
        /\ r.cand <= Len(Candidates) /\ Usable(Candidate) /\ r.cand \in {1, 2}
      BY <1>0, <1>1, CandidateModel DEF TryCandidate, Goto, At
  <2>2. r' \in RouterState /\ r'.pc = "call" /\ r'.cand = r.cand /\ r'.tries = r.tries
        /\ r'.retry = r.retry
      BY <1>0, <2>1 DEF RouterState
  <2>3. TypeOK'
      BY <1>0, <2>1, <2>2 DEF TypeOK
  <2>4. Routed'
      BY <1>0, <2>1, <2>2, CandidateStays DEF RouterInv, Routed, Trying
  <2>5. Counted'
      BY <1>0, <2>1, <2>2 DEF RouterInv, Counted
  <2>6. QED
      BY <2>3, <2>4, <2>5 DEF RouterInv
<1>2. CASE GiveUp
  <2>1. r' = [r EXCEPT !.pc = "fail"] /\ llmCalls' = llmCalls
      BY <1>2 DEF GiveUp, Goto
  <2>2. r' \in RouterState /\ r'.pc = "fail"
      BY <1>0, <2>1 DEF RouterState
  <2>3. TypeOK'
      BY <1>0, <2>1, <2>2 DEF TypeOK
  <2>4. QED
      BY <2>2, <2>3 DEF RouterInv, Routed, Counted, Trying
<1>3. CASE BeforeCall
  <2>1. r.pc = "call" /\ r.cand <= Len(Candidates) /\ Usable(Candidate)
      BY <1>3 DEF BeforeCall, At, RouterInv, Routed, Trying
  <2>2. \/ \E q \in {"budget", "cancelled"} : r' = [r EXCEPT !.pc = q] /\ llmCalls' = llmCalls
        \/ /\ r' = [r EXCEPT !.pc = "infer", !.tries = @ + 1]
           /\ ~(llmCalls >= MaxLLM) /\ llmCalls' = llmCalls + 1
      BY <1>3 DEF BeforeCall, Goto
  <2>3. CASE \E q \in {"budget", "cancelled"} : r' = [r EXCEPT !.pc = q] /\ llmCalls' = llmCalls
    <3>1. r' \in RouterState /\ r'.pc \in {"budget", "cancelled"}
        BY <1>0, <2>3 DEF RouterState
    <3>2. TypeOK'
        BY <1>0, <2>3, <3>1 DEF TypeOK
    <3>3. QED
        BY <3>1, <3>2 DEF RouterInv, Routed, Counted, Trying
  <2>4. CASE /\ r' = [r EXCEPT !.pc = "infer", !.tries = @ + 1]
             /\ ~(llmCalls >= MaxLLM) /\ llmCalls' = llmCalls + 1
    <3>1. r.tries + 1 \in 0 .. MaxRetries + 2
      <4>1. r.retry \in 0 .. MaxRetries
          BY <1>0 DEF RouterState
      <4>2. QED
          BY <1>0, <2>1, <4>1, LimitsAssumption DEF RouterInv, Counted
    <3>2. r' \in RouterState /\ r'.pc = "infer" /\ r'.cand = r.cand /\ r'.retry = r.retry
          /\ r'.tries = r.tries + 1
        BY <1>0, <2>4, <3>1 DEF RouterState
    <3>3. llmCalls' \in 0 .. MaxLLM
        BY <1>0, <2>4, LimitsAssumption DEF TypeOK
    <3>4. TypeOK'
        BY <1>0, <3>2, <3>3 DEF TypeOK
    <3>5. Routed'
        BY <1>0, <2>1, <3>2, CandidateStays DEF RouterInv, Routed, Trying
    <3>6. Counted'
        BY <1>0, <2>1, <3>2 DEF RouterInv, Counted
    <3>7. QED
        BY <3>4, <3>5, <3>6 DEF RouterInv
  <2>5. QED
      BY <2>2, <2>3, <2>4
<1>4. QED
    BY <1>1, <1>2, <1>3

LEMMA AnswerKeeps == RouterInv /\ (AdapterRefuses \/ ProviderAnswers) => RouterInv'
<1> SUFFICES ASSUME RouterInv, AdapterRefuses \/ ProviderAnswers PROVE RouterInv'
    OBVIOUS
<1>0. /\ TypeOK /\ r \in RouterState /\ r.pc = "infer" /\ r.cand <= Len(Candidates)
      /\ Usable(Candidate) /\ Candidate \in Models \cup {Fixture}
      /\ UNCHANGED <<dry, cancel, llmCalls, task, left>>
    BY CandidateModel
       DEF RouterInv, Routed, Trying, AdapterRefuses, ProviderAnswers, At, TypeOK
<1>1. sent' \subseteq [model: Models \cup {Fixture}, sensitive: BOOLEAN] /\ late' \in Nat
  <2>1. CASE AdapterRefuses
      BY <1>0, <2>1 DEF AdapterRefuses, TypeOK
  <2>2. CASE ProviderAnswers
    <3>1. task.sensitive \in BOOLEAN
        BY <1>0, TasksAssumption DEF TypeOK, TaskType
    <3>2. sent' = sent \cup {[model |-> Candidate, sensitive |-> task.sensitive]}
          /\ late' \in {late, late + 1}
        BY <2>2 DEF ProviderAnswers
    <3>3. QED
        BY <1>0, <3>1, <3>2 DEF TypeOK
  <2>3. QED
      BY <2>1, <2>2
<1>2. CASE \E why \in {"structured", "other"} : Failed(why)
    BY <1>0, <1>1, <1>2, FailedKeeps
<1>3. CASE /\ ProviderAnswers
           /\ \E q \in {"validate", "fail"} : r' = [r EXCEPT !.pc = q]
           /\ UNCHANGED <<attempts, usage, lost>>
  <2>1. r' \in RouterState /\ r'.pc \in {"validate", "fail"} /\ r'.cand = r.cand
        /\ r'.retry = r.retry /\ r'.tries = r.tries
      BY <1>0, <1>3 DEF RouterState
  <2>2. TypeOK'
      BY <1>0, <1>1, <1>3, <2>1 DEF TypeOK
  <2>3. Routed'
      BY <1>0, <1>3, <2>1, CandidateStays DEF ProviderAnswers, RouterInv, Routed, Trying
  <2>4. Counted'
      BY <1>0, <2>1 DEF RouterInv, Counted
  <2>5. QED
      BY <2>2, <2>3, <2>4 DEF RouterInv
<1>4. QED
    BY <1>2, <1>3 DEF AdapterRefuses, ProviderAnswers, Raised, Goto

LEMMA ValidateKeeps == RouterInv /\ ValidateResponse => RouterInv'
<1> SUFFICES ASSUME RouterInv, ValidateResponse PROVE RouterInv'
    OBVIOUS
<1>0. /\ TypeOK /\ r \in RouterState /\ r.pc = "validate" /\ r.cand <= Len(Candidates)
      /\ Usable(Candidate) /\ ~RefusedByAdapter(Candidate) /\ Candidate \in Models \cup {Fixture}
      /\ UNCHANGED <<dry, cancel, llmCalls, task, left, sent, late>>
    BY CandidateModel DEF RouterInv, Routed, Trying, ValidateResponse, At, TypeOK
<1>1. CASE Failed("structured")
    BY <1>0, <1>1, FailedKeeps DEF TypeOK
<1>2. CASE /\ \E q \in {"returned", "fail"} : r' = [r EXCEPT !.pc = q]
           /\ UNCHANGED <<usage, lost>>
           /\ \/ attempts' = attempts
              \/ attempts' = Append(attempts, [model |-> Candidate, retry |-> r.retry, why |-> "ok"])
  <2>1. r' \in RouterState /\ r'.pc \in {"returned", "fail"} /\ r'.cand = r.cand
        /\ r'.retry = r.retry /\ r'.tries = r.tries
      BY <1>0, <1>2 DEF RouterState
  <2>2. attempts' \in Seq(Attempt)
    <3>1. [model |-> Candidate, retry |-> r.retry, why |-> "ok"] \in Attempt
        BY <1>0 DEF Attempt, Whys, RouterState
    <3>2. attempts \in Seq(Attempt)
        BY <1>0 DEF TypeOK
    <3>3. CASE attempts' = attempts
        BY <3>2, <3>3
    <3>4. CASE attempts' = Append(attempts, [model |-> Candidate, retry |-> r.retry, why |-> "ok"])
        BY <3>1, <3>2, <3>4
    <3>5. QED
        BY <1>2, <3>3, <3>4
  <2>3. TypeOK'
      BY <1>0, <1>2, <2>1, <2>2 DEF TypeOK
  <2>4. Routed'
      BY <1>0, <2>1, CandidateStays DEF RouterInv, Routed, Trying
  <2>5. Counted'
      BY <1>0, <2>1 DEF RouterInv, Counted
  <2>6. QED
      BY <2>3, <2>4, <2>5 DEF RouterInv
<1>3. QED
    BY <1>1, <1>2 DEF ValidateResponse, Raised, Goto

LEMMA ReturnedKeeps == RouterInv /\ Returned => RouterInv'
<1> SUFFICES ASSUME RouterInv, Returned PROVE RouterInv'
    OBVIOUS
<1>0. /\ TypeOK /\ r \in RouterState /\ r.cand <= Len(Candidates)
      /\ Candidate \in Models \cup {Fixture}
      /\ UNCHANGED <<dry, cancel, llmCalls, task, left, attempts, sent, late>>
    BY CandidateModel DEF RouterInv, Routed, Trying, Returned, At, TypeOK
<1>1. \E q \in {"cancelled", "idle"} : r' = [r EXCEPT !.pc = q]
    BY DEF Returned, Goto
<1>2. r' \in RouterState /\ r'.pc \in {"cancelled", "idle"}
    BY <1>0, <1>1 DEF RouterState
<1>3. usage' \in Seq(UsageRow) /\ lost' \in Nat
  <2>1. Record(Candidate, TRUE) \/ UNCHANGED <<usage, lost>>
      BY DEF Returned
  <2>2. CASE Record(Candidate, TRUE)
      BY <1>0, <2>2, RecordTypes
  <2>3. CASE UNCHANGED <<usage, lost>>
      BY <1>0, <2>3 DEF TypeOK
  <2>4. QED
      BY <2>1, <2>2, <2>3
<1>4. TypeOK'
    BY <1>0, <1>2, <1>3 DEF TypeOK
<1>5. QED
    BY <1>2, <1>4 DEF RouterInv, Routed, Counted, Trying

LEMMA RouterKeeps == RouterInv /\ [Next]_vars => RouterInv'
<1> SUFFICES ASSUME RouterInv, [Next]_vars PROVE RouterInv'
    OBVIOUS
<1>1. CASE UNCHANGED <<dry, llmCalls, task, left, r, attempts, usage, lost, sent, late>>
           /\ cancel' \in BOOLEAN
  <2>1. TypeOK'
      BY <1>1 DEF RouterInv, TypeOK
  <2>2. Routed' /\ Counted'
      BY <1>1, CandidateStays DEF RouterInv, Routed, Counted
  <2>3. QED
      BY <2>1, <2>2 DEF RouterInv
<1>2. CASE Cancel
    BY <1>1, <1>2 DEF Cancel
<1>3. CASE UNCHANGED vars
    BY <1>1, <1>3 DEF vars, RouterInv, TypeOK
<1>4. CASE Execute
    BY <1>4, AskKeeps, PassOverKeeps, QuietKeeps, AnswerKeeps, ValidateKeeps, ReturnedKeeps
       DEF Execute
<1>5. QED
    BY <1>2, <1>3, <1>4 DEF Next

LEMMA RouterAlways == Spec => []RouterInv
<1>1. RouterInv /\ [Next]_vars => RouterInv'
    BY RouterKeeps
<1>2. QED
    BY RouterInitial, <1>1, PTL DEF Spec

-----------------------------------------------------------------------------
(* Privacy.                                                                *)

LEMMA LocalRoute ==
    ASSUME RouterInv, r.pc \in Trying, task.sensitive
    PROVE  Candidate \notin Cloud
<1>0. /\ TypeOK /\ task \in TaskType /\ ~Refused(task) /\ Mode(task) # "human"
      /\ r.cand \in 1 .. Len(Candidates)
    BY CandidateModel, TasksAssumption DEF RouterInv, Routed, TypeOK
<1>1. CASE dry
  <2>1. Candidate = Fixture
      BY <1>0, <1>1 DEF Candidate, Candidates
  <2>2. QED
      BY <2>1, CatalogAssumption DEF Models, Cloud
<1>2. CASE ~dry
  <2>1. Mode(task) \in {"auto", "local", "cloud", "human"}
      BY <1>0 DEF Mode, TaskType
  <2>2. Mode(task) # "cloud"
      BY <1>0 DEF Refused
  <2>3. Binding(task) = <<LocalModel>>
      BY <2>1, <2>2, <1>0 DEF Binding
  <2>4. Candidate = LocalModel
      BY <1>0, <1>2, <2>3 DEF Candidate, Candidates
  <2>5. QED
      BY <2>4, CatalogAssumption
<1>3. QED
    BY <1>1, <1>2

LEMMA PrivacyKeeps == RouterInv /\ SensitiveStaysLocal /\ [Next]_vars => SensitiveStaysLocal'
<1> SUFFICES ASSUME RouterInv, SensitiveStaysLocal, [Next]_vars PROVE SensitiveStaysLocal'
    OBVIOUS
<1>1. CASE ProviderAnswers
  <2>1. sent' = sent \cup {[model |-> Candidate, sensitive |-> task.sensitive]} /\ r.pc = "infer"
      BY <1>1 DEF ProviderAnswers, At
  <2>2. task.sensitive => Candidate \notin Cloud
      BY <2>1, LocalRoute DEF Trying
  <2>3. QED
      BY <2>1, <2>2 DEF SensitiveStaysLocal
<1>2. CASE ~ProviderAnswers
  <2>1. sent' = sent
      BY <1>2 DEF Next, Execute, Cancel, vars, Ask, PassOver, TryCandidate, GiveUp, BeforeCall,
                  AdapterRefuses, ValidateResponse, Returned
  <2>2. QED
      BY <2>1 DEF SensitiveStaysLocal
<1>3. QED
    BY <1>1, <1>2

(* No prompt of a run marked sensitive is given to a cloud provider         *)
(* (_routing_for_step, ModelRouter.execute), whatever the workflow binds    *)
(* and whichever models fail.                                               *)
THEOREM Privacy == Spec => []SensitiveStaysLocal
<1>1. Init => SensitiveStaysLocal
    BY DEF Init, SensitiveStaysLocal
<1>2. RouterInv /\ SensitiveStaysLocal /\ [Next]_vars => SensitiveStaysLocal'
    BY PrivacyKeeps
<1>3. QED
    BY RouterAlways, <1>1, <1>2, PTL DEF Spec

-----------------------------------------------------------------------------
(* Cancellation.                                                           *)

(* What is sent after the cancellation was paid for before it.              *)
SentLate ==
    /\ late \in {0, 1}
    /\ ~cancel \/ r.pc = "infer" => late = 0

LEMMA SentLateKeeps == RouterInv /\ SentLate /\ [Next]_vars => SentLate'
<1> SUFFICES ASSUME RouterInv, SentLate, [Next]_vars PROVE SentLate'
    OBVIOUS
<1>0. r \in RouterState /\ TypeOK
    BY DEF RouterInv, TypeOK
<1>1. CASE ProviderAnswers
  <2>1. r.pc = "infer" /\ late' = (IF cancel THEN late + 1 ELSE late) /\ cancel' = cancel
      BY <1>1 DEF ProviderAnswers, At
  <2>2. r'.pc # "infer"
    <3>1. CASE \E q \in {"validate", "fail"} : r' = [r EXCEPT !.pc = q]
        BY <1>0, <3>1 DEF RouterState
    <3>2. CASE \E why \in {"structured", "other"} : Failed(why)
      <4>1. \/ r' = [r EXCEPT !.pc = "call", !.retry = @ + 1]
            \/ r' = [r EXCEPT !.pc = "candidate", !.cand = @ + 1, !.retry = 0]
          BY <3>2 DEF Failed, AfterFailure, NextCandidate
      <4>2. QED
          BY <1>0, <4>1 DEF RouterState
    <3>3. QED
        BY <1>1, <3>1, <3>2 DEF ProviderAnswers, Raised, Goto
  <2>3. QED
      BY <2>1, <2>2 DEF SentLate
<1>2. CASE BeforeCall
  <2>1. late' = late /\ cancel' = cancel /\ (r'.pc = "infer" => ~cancel)
    <3>1. CASE cancel
      <4>1. \E q \in {"budget", "cancelled"} : r' = [r EXCEPT !.pc = q]
          BY <1>2, <3>1 DEF BeforeCall, Goto
      <4>2. QED
          BY <1>0, <1>2, <4>1 DEF RouterState, BeforeCall
    <3>2. CASE ~cancel
        BY <1>2, <3>2 DEF BeforeCall
    <3>3. QED
        BY <3>1, <3>2
  <2>2. QED
      BY <2>1 DEF SentLate
<1>3. CASE Cancel
    BY <1>3 DEF Cancel, SentLate
<1>4. CASE UNCHANGED vars
    BY <1>4 DEF vars, SentLate
<1>5. CASE AdapterRefuses \/ ValidateResponse
  <2>1. late' = late /\ cancel' = cancel
      BY <1>5 DEF AdapterRefuses, ValidateResponse
  <2>2. \/ \E q \in {"returned", "fail"} : r' = [r EXCEPT !.pc = q]
        \/ r' = [r EXCEPT !.pc = "call", !.retry = @ + 1]
        \/ r' = [r EXCEPT !.pc = "candidate", !.cand = @ + 1, !.retry = 0]
      BY <1>5 DEF AdapterRefuses, ValidateResponse, Failed, AfterFailure, NextCandidate, Raised, Goto
  <2>3. r'.pc # "infer"
      BY <1>0, <2>2 DEF RouterState
  <2>4. QED
      BY <2>1, <2>3 DEF SentLate
<1>6. CASE PassOver \/ TryCandidate \/ GiveUp \/ Returned
  <2>1. late' = late /\ cancel' = cancel
      BY <1>6 DEF PassOver, TryCandidate, GiveUp, Returned
  <2>2. \/ \E q \in {"call", "fail", "cancelled", "idle"} : r' = [r EXCEPT !.pc = q]
        \/ r' = [r EXCEPT !.pc = "candidate", !.cand = @ + 1, !.retry = 0]
      BY <1>6 DEF PassOver, TryCandidate, GiveUp, Returned, NextCandidate, Goto
  <2>3. r'.pc # "infer"
      BY <1>0, <2>2 DEF RouterState
  <2>4. QED
      BY <2>1, <2>3 DEF SentLate
<1>7. CASE Ask
  <2>1. late' = late /\ cancel' = cancel
      BY <1>7 DEF Ask
  <2>2. r'.pc # "infer"
      BY <1>0, <1>7, AskStarts
  <2>3. QED
      BY <2>1, <2>2 DEF SentLate
<1>8. QED
    BY <1>1, <1>2, <1>3, <1>4, <1>5, <1>6, <1>7 DEF Next, Execute

(* After a cancellation at most one call is sent, the one already paid for  *)
(* (consume_llm_call reads the flag before it pays).                        *)
THEOREM CancellationStops == Spec => []OneCallAfterCancel
<1>1. Init => SentLate
    BY DEF Init, SentLate
<1>2. RouterInv /\ SentLate /\ [Next]_vars => SentLate'
    BY SentLateKeeps
<1>3. SentLate => OneCallAfterCancel
    BY DEF SentLate, OneCallAfterCancel
<1>4. QED
    BY RouterAlways, <1>1, <1>2, <1>3, PTL DEF Spec

-----------------------------------------------------------------------------
(* Answers from the web.                                                   *)

(* An answer accepted for a step that needs the web was given by a Gemini   *)
(* model with web access: _validate_compat and the adapters leave no other. *)
THEOREM Grounding == Spec => []WebIsGrounded
<1>1. RouterInv => WebIsGrounded
  <2> SUFFICES ASSUME RouterInv, At("returned"), NeedsWeb(task), ~dry
               PROVE  Candidate \in Gemini \cap WebModels
      BY DEF WebIsGrounded
  <2>1. /\ TypeOK /\ r.cand <= Len(Candidates)
        /\ Usable(Candidate) /\ ~RefusedByAdapter(Candidate)
      BY DEF RouterInv, Routed, Trying, At
  <2>2. Candidate \in Models
      BY <2>1, CandidateModel
  <2>3. Candidate \in WebModels
      BY <2>1 DEF Usable
  <2>4. Candidate \notin Ollama /\ Candidate \notin OpenAI
      BY <2>1 DEF RefusedByAdapter
  <2>5. QED
      BY <2>2, <2>3, <2>4 DEF Models
<1>2. QED
    BY RouterAlways, <1>1, PTL

-----------------------------------------------------------------------------
(* Retries.                                                                *)

(* While the router tries a candidate nothing was accepted.  At the primary *)
(* every attempt is a try of it, badly answered, and the position counts    *)
(* them; at the fallback they are the tries of the primary, at least one.   *)
Tried ==
    r.pc \in {"candidate", "call", "infer", "validate"} =>
        /\ \A i \in 1 .. Len(attempts) : attempts[i].why # "ok"
        /\ r.pc = "candidate" => r.retry = 0
        /\ r.cand = 1 =>
               /\ Len(attempts) = r.retry
               /\ \A i \in 1 .. Len(attempts) :
                      /\ attempts[i].model = Candidates[1] /\ attempts[i].retry = i - 1
                      /\ attempts[i].why = "structured"
        /\ r.cand = 2 => r.retry = 0 /\ Len(attempts) > 0 /\ Repairs(Len(attempts))

RetriesInv == RetriesRepair /\ Tried

(* One more attempt, of the candidate the router is at.                     *)
LEMMA AttemptAppends ==
    ASSUME RouterInv, RetriesInv, r.pc \in {"candidate", "infer", "validate"},
           r.cand <= Len(Candidates), UNCHANGED <<dry, task>>, NEW why \in Whys,
           attempts' = Append(attempts, [model |-> Candidate, retry |-> r.retry, why |-> why])
    PROVE  /\ Len(attempts) \in Nat /\ Len(attempts') = Len(attempts) + 1
           /\ Candidates' = Candidates
           /\ \A i \in 1 .. Len(attempts) : attempts'[i] = attempts[i] /\ attempts[i].why # "ok"
           /\ attempts'[Len(attempts) + 1].model = Candidate
           /\ attempts'[Len(attempts) + 1].retry = r.retry
           /\ attempts'[Len(attempts) + 1].why = why
           /\ r.cand = 1 => (Repairs(Len(attempts)))'
           /\ RetriesRepair'
<1> DEFINE n == Len(attempts)
           e == [model |-> Candidate, retry |-> r.retry, why |-> why]
<1>0. /\ r \in RouterState /\ r.cand \in {1, 2} /\ r.cand \in 1 .. Len(Candidates)
      /\ attempts \in Seq(Attempt) /\ attempts' = Append(attempts, e)
    BY CandidateModel DEF RouterInv, TypeOK
<1>1. /\ n \in Nat /\ Len(attempts') = n + 1
      /\ \A i \in 1 .. n : attempts'[i] = attempts[i]
      /\ attempts'[n + 1] = e
    BY <1>0
<1>2. e.model = Candidates[r.cand] /\ e.retry = r.retry /\ e.why = why
    BY DEF Candidate
<1> HIDE DEF n, e
<1>3. Candidates' = Candidates
    BY CandidateStays
<1>4. \A i \in 1 .. n : attempts[i].why # "ok"
    BY DEF RetriesInv, Tried, n
<1>5. CASE r.cand = 1
  <2>1. /\ n = r.retry
        /\ \A i \in 1 .. n : /\ attempts[i].model = Candidates[1] /\ attempts[i].retry = i - 1
                             /\ attempts[i].why = "structured"
      BY <1>5 DEF RetriesInv, Tried, n
  <2>2. ASSUME NEW i \in 1 .. n + 1
        PROVE  /\ attempts'[i].model = Candidates[1] /\ attempts'[i].retry = i - 1
               /\ i < n + 1 => attempts'[i].why = "structured"
    <3>1. CASE i \in 1 .. n
        BY <3>1, <2>1, <1>1
    <3>2. CASE i = n + 1
        BY <3>2, <2>1, <1>1, <1>2, <1>5
    <3>3. QED
        BY <3>1, <3>2, <1>1
  <2>3. (Repairs(Len(attempts)))'
      BY <2>2, <1>1, <1>3 DEF Repairs
  <2>4. RetriesRepair'
      BY <2>3, <1>1, <1>4 DEF RetriesRepair
  <2>5. QED
      BY <2>3, <2>4, <1>1, <1>2, <1>3, <1>4 DEF n, Candidate
<1>6. CASE r.cand = 2
  <2>1. r.retry = 0 /\ n > 0 /\ Repairs(n) /\ Len(Candidates) = 2
      BY <1>0, <1>6, CandidateModels DEF RetriesInv, Tried, n, RouterInv
  <2>2. ASSUME NEW i \in 1 .. n
        PROVE  /\ attempts'[i].model = Candidates[1] /\ attempts'[i].retry = i - 1
               /\ i < n => attempts'[i].why = "structured"
      BY <2>1, <1>1 DEF Repairs
  <2>3. (Repairs(Len(attempts) - 1))'
    <3>1. Len(attempts') - 1 = n
        BY <1>1
    <3>2. QED
        BY <3>1, <2>2, <1>3 DEF Repairs
  <2>4. attempts'[n + 1].model = Candidates[2] /\ attempts'[n + 1].retry = 0
      BY <2>1, <1>1, <1>2, <1>6
  <2>5. RetriesRepair'
      BY <2>1, <2>3, <2>4, <1>1, <1>3, <1>4 DEF RetriesRepair
  <2>6. QED
      BY <2>5, <1>1, <1>2, <1>3, <1>4, <1>6 DEF n, Candidate
<1>7. QED
    BY <1>0, <1>5, <1>6

(* After the attempts of a candidate the next one is at the head of the     *)
(* loop; beyond the fallback there is none.                                 *)
LEMMA NextTried ==
    ASSUME RouterInv, RetriesInv, r.pc \in {"candidate", "infer", "validate"},
           r.cand <= Len(Candidates), UNCHANGED <<dry, task>>, NEW why \in Whys, why # "ok",
           attempts' = Append(attempts, [model |-> Candidate, retry |-> r.retry, why |-> why]),
           r' = NextCandidate
    PROVE  RetriesInv'
<1>0. r \in RouterState /\ r.cand \in {1, 2}
    BY CandidateModel DEF RouterInv, TypeOK
<1>1. r'.pc = "candidate" /\ r'.cand = r.cand + 1 /\ r'.retry = 0
    BY <1>0 DEF RouterState, NextCandidate
<1>2. /\ Len(attempts) \in Nat /\ Len(attempts') = Len(attempts) + 1
      /\ \A i \in 1 .. Len(attempts) : attempts'[i] = attempts[i] /\ attempts[i].why # "ok"
      /\ attempts'[Len(attempts) + 1].why = why
      /\ r.cand = 1 => (Repairs(Len(attempts)))'
      /\ RetriesRepair'
    BY AttemptAppends
<1>3. ASSUME NEW i \in 1 .. Len(attempts')
      PROVE  attempts'[i].why # "ok"
  <2>1. i \in 1 .. Len(attempts) \/ i = Len(attempts) + 1
      BY <1>2
  <2>2. QED
      BY <2>1, <1>2
<1>4. Tried'
    BY <1>0, <1>1, <1>2, <1>3 DEF Tried
<1>5. QED
    BY <1>2, <1>4 DEF RetriesInv

(* Another failure of the candidate being tried.                            *)
LEMMA FailedRetries ==
    ASSUME RouterInv, RetriesInv, r.pc \in {"infer", "validate"},
           NEW why \in {"structured", "other"}, Failed(why), UNCHANGED <<dry, task>>
    PROVE  RetriesInv'
<1>0. /\ r \in RouterState /\ r.cand <= Len(Candidates) /\ why \in Whys /\ why # "ok"
      /\ attempts' = Append(attempts, [model |-> Candidate, retry |-> r.retry, why |-> why])
    BY DEF RouterInv, TypeOK, Routed, Trying, Failed, Whys
<1>1. \/ /\ r.cand = 1 /\ why = "structured"
         /\ r' = [r EXCEPT !.pc = "call", !.retry = @ + 1]
      \/ r' = NextCandidate
    BY FailedTypes
<1>2. CASE /\ r.cand = 1 /\ why = "structured"
           /\ r' = [r EXCEPT !.pc = "call", !.retry = @ + 1]
  <2>1. r'.pc = "call" /\ r'.cand = 1 /\ r'.retry = r.retry + 1
      BY <1>0, <1>2 DEF RouterState
  <2>2. /\ Len(attempts) \in Nat /\ Len(attempts') = Len(attempts) + 1
        /\ Candidates' = Candidates
        /\ \A i \in 1 .. Len(attempts) : attempts'[i] = attempts[i] /\ attempts[i].why # "ok"
        /\ attempts'[Len(attempts) + 1].model = Candidate
        /\ attempts'[Len(attempts) + 1].retry = r.retry
        /\ attempts'[Len(attempts) + 1].why = why
        /\ RetriesRepair'
      BY <1>0, AttemptAppends
  <2>3. /\ Len(attempts) = r.retry
        /\ \A i \in 1 .. Len(attempts) :
               /\ attempts[i].model = Candidates[1] /\ attempts[i].retry = i - 1
               /\ attempts[i].why = "structured"
      BY <1>2 DEF RetriesInv, Tried
  <2>4. Candidate = Candidates[1]
      BY <1>2 DEF Candidate
  <2>5. ASSUME NEW i \in 1 .. Len(attempts')
        PROVE  /\ attempts'[i].model = Candidates[1] /\ attempts'[i].retry = i - 1
               /\ attempts'[i].why = "structured"
    <3>1. CASE i \in 1 .. Len(attempts)
        BY <3>1, <2>2, <2>3
    <3>2. CASE i = Len(attempts) + 1
        BY <3>2, <2>2, <2>3, <2>4, <1>2
    <3>3. QED
        BY <3>1, <3>2, <2>2
  <2>6. Tried'
      BY <2>1, <2>2, <2>3, <2>5 DEF Tried
  <2>7. QED
      BY <2>2, <2>6 DEF RetriesInv
<1>3. CASE r' = NextCandidate
    BY <1>0, <1>3, NextTried
<1>4. QED
    BY <1>1, <1>2, <1>3

(* A candidate passed over is tried once, without a call.                   *)
LEMMA PassOverRetries == RouterInv /\ RetriesInv /\ PassOver => RetriesInv'
<1> SUFFICES ASSUME RouterInv, RetriesInv, PassOver PROVE RetriesInv'
    OBVIOUS
<1>1. /\ r.pc = "candidate" /\ r.cand <= Len(Candidates) /\ r' = NextCandidate
      /\ UNCHANGED <<dry, task>> /\ "other" \in Whys
      /\ attempts' = Append(attempts, [model |-> Candidate, retry |-> 0, why |-> "other"])
    BY DEF PassOver, At, Whys
<1>2. r.retry = 0
    BY <1>1 DEF RetriesInv, Tried
<1>3. QED
    BY <1>1, <1>2, NextTried

(* An answer that validates is the last attempt.                            *)
LEMMA AcceptRetries ==
    ASSUME RouterInv, RetriesInv, r.pc = "validate", UNCHANGED <<dry, task>>,
           r' = [r EXCEPT !.pc = "returned"],
           attempts' = Append(attempts, [model |-> Candidate, retry |-> r.retry, why |-> "ok"])
    PROVE  RetriesInv'
<1>1. r \in RouterState /\ r.cand <= Len(Candidates) /\ "ok" \in Whys
    BY DEF RouterInv, TypeOK, Routed, Trying, Whys
<1>2. RetriesRepair'
    BY <1>1, AttemptAppends
<1>3. r'.pc = "returned"
    BY <1>1 DEF RouterState
<1>4. QED
    BY <1>2, <1>3 DEF RetriesInv, Tried

(* Steps that try nobody.                                                   *)
LEMMA OthersRetry ==
    ASSUME RouterInv, RetriesInv, UNCHANGED <<dry, task, attempts>>,
           \/ r' = r
           \/ r.pc = "candidate" /\ r.cand <= Len(Candidates) /\ r' = [r EXCEPT !.pc = "call"]
           \/ r.pc = "call" /\ r' = [r EXCEPT !.pc = "infer", !.tries = @ + 1]
           \/ r.pc = "infer" /\ r' = [r EXCEPT !.pc = "validate"]
           \/ \E q \in {"fail", "budget", "cancelled", "idle"} : r' = [r EXCEPT !.pc = q]
    PROVE  RetriesInv'
<1>0. r \in RouterState
    BY DEF RouterInv, TypeOK
<1>1. Candidates' = Candidates
    BY CandidateStays
<1>2. RetriesRepair'
    BY <1>1 DEF RetriesInv, RetriesRepair, Repairs
<1>3. CASE r' = r
    BY <1>1, <1>2, <1>3 DEF RetriesInv, Tried, Repairs
<1>4. CASE \/ r.pc = "candidate" /\ r' = [r EXCEPT !.pc = "call"]
           \/ r.pc = "call" /\ r' = [r EXCEPT !.pc = "infer", !.tries = @ + 1]
           \/ r.pc = "infer" /\ r' = [r EXCEPT !.pc = "validate"]
  <2>1. /\ r.pc \in {"candidate", "call", "infer"} /\ r'.pc \in {"call", "infer", "validate"}
        /\ r'.cand = r.cand /\ r'.retry = r.retry
      BY <1>0, <1>4 DEF RouterState
  <2>2. Tried'
      BY <2>1, <1>1 DEF RetriesInv, Tried, Repairs
  <2>3. QED
      BY <1>2, <2>2 DEF RetriesInv
<1>5. CASE \E q \in {"fail", "budget", "cancelled", "idle"} : r' = [r EXCEPT !.pc = q]
  <2>1. r'.pc \in {"fail", "budget", "cancelled", "idle"}
      BY <1>0, <1>5 DEF RouterState
  <2>2. QED
      BY <2>1, <1>2 DEF RetriesInv, Tried
<1>6. QED
    BY <1>3, <1>4, <1>5

LEMMA RetriesKeep == RouterInv /\ RetriesInv /\ [Next]_vars => RetriesInv'
<1> SUFFICES ASSUME RouterInv, RetriesInv, [Next]_vars PROVE RetriesInv'
    OBVIOUS
<1>1. CASE Ask
  <2>1. attempts' = <<>> /\ (r' = r \/ \E q \in {"cancelled", "budget", "fail", "candidate"} :
                                           r' = [Fresh EXCEPT !.pc = q])
      BY <1>1 DEF Ask
  <2>2. r'.pc \in {"candidate", "call", "infer", "validate"} => r'.cand = 1 /\ r'.retry = 0
      BY <2>1, <1>1 DEF Ask, At, Fresh
  <2>3. RetriesRepair'
      BY <2>1 DEF RetriesRepair, Repairs
  <2>4. Tried'
      BY <2>1, <2>2 DEF Tried
  <2>5. QED
      BY <2>3, <2>4 DEF RetriesInv
<1>2. CASE PassOver
    BY <1>2, PassOverRetries
<1>3. CASE TryCandidate
    BY <1>3, OthersRetry DEF TryCandidate, At, Goto
<1>4. CASE GiveUp
    BY <1>4, OthersRetry DEF GiveUp, Goto
<1>5. CASE BeforeCall
    BY <1>5, OthersRetry DEF BeforeCall, At, Goto
<1>6. CASE AdapterRefuses
    BY <1>6, FailedRetries DEF AdapterRefuses, At
<1>7. CASE ProviderAnswers
  <2>1. r.pc = "infer" /\ UNCHANGED <<dry, task>>
      BY <1>7 DEF ProviderAnswers, At
  <2>2. CASE \E why \in {"structured", "other"} : Failed(why)
      BY <2>1, <2>2, FailedRetries
  <2>3. CASE attempts' = attempts /\ \E q \in {"validate", "fail"} : r' = [r EXCEPT !.pc = q]
      BY <2>1, <2>3, OthersRetry
  <2>4. QED
      BY <1>7, <2>2, <2>3 DEF ProviderAnswers, Raised, Goto
<1>8. CASE ValidateResponse
  <2>1. r.pc = "validate" /\ UNCHANGED <<dry, task>>
      BY <1>8 DEF ValidateResponse, At
  <2>2. CASE Failed("structured")
      BY <2>1, <2>2, FailedRetries
  <2>3. CASE Raised
      BY <2>1, <2>3, OthersRetry DEF Raised, Goto
  <2>4. CASE /\ attempts' = Append(attempts, [model |-> Candidate, retry |-> r.retry, why |-> "ok"])
             /\ r' = [r EXCEPT !.pc = "returned"]
      BY <2>1, <2>4, AcceptRetries
  <2>5. QED
      BY <1>8, <2>2, <2>3, <2>4 DEF ValidateResponse, Goto
<1>9. CASE Returned
    BY <1>9, OthersRetry DEF Returned, Goto
<1>10. CASE Cancel
    BY <1>10, OthersRetry DEF Cancel
<1>11. CASE UNCHANGED vars
    BY <1>11, OthersRetry DEF vars
<1>12. QED
    BY <1>1, <1>2, <1>3, <1>4, <1>5, <1>6, <1>7, <1>8, <1>9, <1>10, <1>11 DEF Next, Execute

(* ModelRouter.execute tries the primary, again only to repair a badly      *)
(* structured answer and at most max_retries times, then at most once the   *)
(* fallback, which may be the same model, and nobody after an answer.       *)
THEOREM RetriesAreRepairs == Spec => []RetriesRepair
<1>1. Init => RetriesInv
    BY DEF Init, RetriesInv, RetriesRepair, Repairs, Tried, Fresh
<1>2. RouterInv /\ RetriesInv /\ [Next]_vars => RetriesInv'
    BY RetriesKeep
<1>3. RetriesInv => RetriesRepair
    BY DEF RetriesInv
<1>4. QED
    BY RouterAlways, <1>1, <1>2, <1>3, PTL DEF Spec
-----------------------------------------------------------------------------
(* The budget of calls.                                                    *)

MayCall == \E i \in DOMAIN Candidates : i >= r.cand /\ Usable(Candidates[i])

LEMMA PhaseIs ==
    /\ r.pc \notin {"candidate", "validate"} => Phase = r.pc
    /\ r.pc = "validate" => Phase = "infer"
    /\ r.pc = "candidate" /\ MayCall => Phase = "call"
    /\ r.pc = "candidate" /\ ~MayCall => Phase = "fail"
<1>1. CASE r.pc = "candidate"
    BY <1>1 DEF Phase, At, MayCall
<1>2. CASE r.pc = "validate"
    BY <1>2 DEF Phase, At
<1>3. CASE r.pc \notin {"candidate", "validate"}
    BY <1>3 DEF Phase, At
<1>4. QED
    BY <1>1, <1>2, <1>3

LEMMA PhaseIsNext ==
    /\ r'.pc \notin {"candidate", "validate"} => Phase' = r'.pc
    /\ r'.pc = "validate" => Phase' = "infer"
    /\ r'.pc = "candidate" /\ MayCall' => Phase' = "call"
    /\ r'.pc = "candidate" /\ ~MayCall' => Phase' = "fail"
<1>1. CASE r'.pc = "candidate"
    BY <1>1 DEF Phase, At, MayCall
<1>2. CASE r'.pc = "validate"
    BY <1>2 DEF Phase, At
<1>3. CASE r'.pc \notin {"candidate", "validate"}
    BY <1>3 DEF Phase, At
<1>4. QED
    BY <1>1, <1>2, <1>3

(* Candidates passed over, tried or used up change nothing the engine sees. *)
LEMMA SearchIsSilent ==
    RouterInv /\ (PassOver \/ TryCandidate \/ GiveUp) => UNCHANGED Budget!vars
<1> SUFFICES ASSUME RouterInv, PassOver \/ TryCandidate \/ GiveUp PROVE UNCHANGED Budget!vars
    OBVIOUS
<1>0. /\ TypeOK /\ r \in RouterState /\ r.pc = "candidate" /\ r.cand \in 1 .. 3
      /\ UNCHANGED <<dry, task, llmCalls, cancel>> /\ Candidates' = Candidates
      /\ Len(Candidates) \in {1, 2} /\ DOMAIN Candidates = 1 .. Len(Candidates)
  <2>1. TypeOK /\ r \in RouterState /\ r.pc = "candidate" /\ r.cand \in 1 .. 3
        /\ UNCHANGED <<dry, task, llmCalls, cancel>>
      BY DEF RouterInv, TypeOK, RouterState, PassOver, TryCandidate, GiveUp, At
  <2>2. QED
      BY <2>1, CandidateStays, CandidateModels
<1>1. \A m : (Usable(m))' <=> Usable(m)
    BY <1>0 DEF Usable, NeedsWeb
<1>2. CASE PassOver
  <2>1. r'.pc = "candidate" /\ r'.cand = r.cand + 1 /\ r'.tries = r.tries
      BY <1>0, <1>2 DEF PassOver, NextCandidate, RouterState
  <2>2. ~Usable(Candidates[r.cand])
      BY <1>2 DEF PassOver, Candidate
  <2>3. \A i \in 1 .. Len(Candidates) : i >= r.cand <=> i = r.cand \/ i >= r.cand + 1
      BY <1>0
  <2>4. MayCall' <=> MayCall
    <3>1. MayCall' <=> \E i \in 1 .. Len(Candidates) : i >= r.cand + 1 /\ Usable(Candidates[i])
        BY <1>0, <1>1, <2>1 DEF MayCall
    <3>2. MayCall <=> \E i \in 1 .. Len(Candidates) : i >= r.cand /\ Usable(Candidates[i])
        BY <1>0 DEF MayCall
    <3>3. r.cand + 1 >= r.cand
        BY <1>0
    <3>4. QED
        BY <3>1, <3>2, <2>2, <2>3
  <2>5. QED
      BY <1>0, <2>1, <2>4, PhaseIs, PhaseIsNext DEF Budget!vars
<1>3. CASE TryCandidate
  <2>1. r'.pc = "call" /\ r'.tries = r.tries
      BY <1>0, <1>3 DEF TryCandidate, Goto, RouterState
  <2>2. MayCall
    <3>1. r.cand \in DOMAIN Candidates /\ r.cand >= r.cand /\ Usable(Candidates[r.cand])
        BY <1>0, <1>3 DEF TryCandidate, Candidate
    <3>2. QED
        BY <3>1 DEF MayCall
  <2>3. QED
      BY <1>0, <2>1, <2>2, PhaseIs, PhaseIsNext DEF Budget!vars
<1>4. CASE GiveUp
  <2>1. r'.pc = "fail" /\ r'.tries = r.tries
      BY <1>0, <1>4 DEF GiveUp, Goto, RouterState
  <2>2. ~MayCall
      BY <1>0, <1>4 DEF GiveUp, MayCall
  <2>3. QED
      BY <1>0, <2>1, <2>2, PhaseIs, PhaseIsNext DEF Budget!vars
<1>5. QED
    BY <1>2, <1>3, <1>4

(* A failed answer leads to another call only while one is left.            *)
LEMMA FailedAnswers ==
    ASSUME RouterInv, r.pc \in {"infer", "validate"},
           NEW why \in {"structured", "other"}, Failed(why),
           UNCHANGED <<dry, task, llmCalls, cancel>>
    PROVE  Budget!Answer
<1>0. /\ TypeOK /\ r \in RouterState /\ r.cand \in {1, 2} /\ r.retry \in 0 .. MaxRetries
      /\ r.tries \in Nat /\ (r.cand = 1 => r.tries <= r.retry + 1)
    BY CandidateModel, LimitsAssumption
       DEF RouterInv, TypeOK, RouterState, Routed, Trying, Counted
<1>1. \/ r.cand = 1 /\ r.retry < MaxRetries /\ r' = [r EXCEPT !.pc = "call", !.retry = @ + 1]
      \/ r' = NextCandidate
    BY FailedTypes
<1>2. Phase = "infer"
    BY PhaseIs
<1>3. r.cand = 1 => r.tries < MaxRetries + 2
    BY <1>0, LimitsAssumption
<1>4. CASE r.cand = 1 /\ r' = [r EXCEPT !.pc = "call", !.retry = @ + 1]
  <2>1. r'.pc = "call" /\ r'.tries = r.tries
      BY <1>0, <1>4 DEF RouterState
  <2>2. Phase' = "call"
      BY <2>1, PhaseIsNext
  <2>3. QED
      BY <1>2, <1>3, <1>4, <2>1, <2>2 DEF Budget!Answer
<1>5. CASE r' = NextCandidate
  <2>1. r'.pc = "candidate" /\ r'.cand = r.cand + 1 /\ r'.tries = r.tries
      BY <1>0, <1>5 DEF NextCandidate, RouterState
  <2>2. CASE r.cand = 1
    <3>1. Phase' \in {"call", "fail"}
        BY <2>1, PhaseIsNext
    <3>2. QED
        BY <1>2, <1>3, <2>1, <2>2, <3>1 DEF Budget!Answer
  <2>3. CASE r.cand = 2
    <3>1. DOMAIN Candidates' \in {1 .. 1, 1 .. 2} /\ r'.cand = 3
        BY <1>0, <2>1, <2>3, CandidateStays, CandidateModels
    <3>2. ~MayCall'
        BY <3>1 DEF MayCall
    <3>3. Phase' = "fail"
        BY <2>1, <3>2, PhaseIsNext
    <3>4. QED
        BY <1>2, <2>1, <3>3 DEF Budget!Answer
  <2>4. QED
      BY <1>0, <2>2, <2>3
<1>6. QED
    BY <1>1, <1>4, <1>5

LEMMA BudgetStep == RouterInv /\ [Next]_vars => [Budget!Next]_Budget!vars
<1> SUFFICES ASSUME RouterInv, [Next]_vars PROVE [Budget!Next]_Budget!vars
    OBVIOUS
<1>0. r \in RouterState /\ TypeOK /\ llmCalls \in Nat
    BY LimitsAssumption DEF RouterInv, TypeOK
<1>1. CASE Ask
  <2>1. UNCHANGED <<llmCalls, cancel>> /\ r.pc = "idle"
      BY <1>1 DEF Ask, At
  <2>2. Phase = "idle"
      BY <2>1, PhaseIs
  <2>3. CASE r'.pc = "idle"
    <3>1. r' = r /\ Phase' = "idle"
        BY <1>0, <1>1, <2>3, AskStarts, PhaseIsNext
    <3>2. QED
        BY <2>1, <2>2, <3>1 DEF Budget!vars
  <2>4. CASE r'.pc # "idle"
    <3>1. /\ r'.tries = 0 /\ r'.pc \in {"cancelled", "budget", "fail", "candidate"}
          /\ r'.pc = "cancelled" => cancel
          /\ r'.pc \in {"fail", "candidate"} => ~cancel
          /\ r'.pc = "budget" => llmCalls >= MaxLLM
        BY <1>0, <1>1, <2>4, AskStarts
    <3>2. \/ Phase' = "call" /\ ~cancel
          \/ Phase' = "fail" /\ ~cancel
          \/ Phase' = "cancelled" /\ cancel
          \/ Phase' = "budget" /\ llmCalls >= MaxLLM
        BY <3>1, PhaseIsNext
    <3>3. Budget!Ask
        BY <2>1, <2>2, <3>1, <3>2 DEF Budget!Ask
    <3>4. QED
        BY <3>3 DEF Budget!Next
  <2>5. QED
      BY <2>3, <2>4
<1>2. CASE PassOver \/ TryCandidate \/ GiveUp
    BY <1>2, SearchIsSilent
<1>3. CASE BeforeCall
  <2>1. Phase = "call" /\ cancel' = cancel
      BY <1>3, PhaseIs DEF BeforeCall, At
  <2>2. CASE llmCalls >= MaxLLM
    <3>1. r' = [r EXCEPT !.pc = "budget"] /\ llmCalls' = llmCalls
        BY <1>3, <2>2 DEF BeforeCall, Goto
    <3>2. r'.pc = "budget" /\ r'.tries = r.tries
        BY <1>0, <3>1 DEF RouterState
    <3>3. Budget!Pay
        BY <2>1, <2>2, <3>1, <3>2, PhaseIsNext DEF Budget!Pay
    <3>4. QED
        BY <3>3 DEF Budget!Next
  <2>3. CASE ~(llmCalls >= MaxLLM) /\ cancel
    <3>1. r' = [r EXCEPT !.pc = "cancelled"] /\ llmCalls' = llmCalls
        BY <1>3, <2>3 DEF BeforeCall, Goto
    <3>2. r'.pc = "cancelled" /\ r'.tries = r.tries /\ llmCalls < MaxLLM
        BY <1>0, <2>3, <3>1, LimitsAssumption DEF RouterState
    <3>3. Budget!Pay
        BY <2>1, <2>3, <3>1, <3>2, PhaseIsNext DEF Budget!Pay
    <3>4. QED
        BY <3>3 DEF Budget!Next
  <2>4. CASE ~(llmCalls >= MaxLLM) /\ ~cancel
    <3>1. r' = [r EXCEPT !.pc = "infer", !.tries = @ + 1] /\ llmCalls' = llmCalls + 1
        BY <1>3, <2>4 DEF BeforeCall
    <3>2. r'.pc = "infer" /\ r'.tries = r.tries + 1 /\ llmCalls < MaxLLM
        BY <1>0, <2>4, <3>1, LimitsAssumption DEF RouterState
    <3>3. Budget!Pay
        BY <2>1, <2>4, <3>1, <3>2, PhaseIsNext DEF Budget!Pay
    <3>4. QED
        BY <3>3 DEF Budget!Next
  <2>5. QED
      BY <2>2, <2>3, <2>4
<1>4. CASE AdapterRefuses \/ ProviderAnswers \/ ValidateResponse
  <2>1. UNCHANGED <<dry, task, llmCalls, cancel>> /\ r.pc \in {"infer", "validate"}
      BY <1>4 DEF AdapterRefuses, ProviderAnswers, ValidateResponse, At
  <2>2. CASE \E why \in {"structured", "other"} : Failed(why)
    <3>1. Budget!Answer
        BY <2>1, <2>2, FailedAnswers
    <3>2. QED
        BY <3>1 DEF Budget!Next
  <2>3. CASE \E q \in {"validate", "fail", "returned"} : r' = [r EXCEPT !.pc = q]
    <3>1. Phase = "infer" /\ r'.tries = r.tries /\ r'.pc \in {"validate", "fail", "returned"}
        BY <1>0, <2>1, <2>3, PhaseIs DEF RouterState
    <3>2. Phase' \in {"infer", "fail", "returned"}
        BY <3>1, PhaseIsNext
    <3>3. CASE Phase' = "infer"
        BY <2>1, <3>1, <3>3 DEF Budget!vars
    <3>4. CASE Phase' \in {"fail", "returned"}
        BY <2>1, <3>1, <3>4 DEF Budget!Answer, Budget!Next
    <3>5. QED
        BY <3>2, <3>3, <3>4
  <2>4. QED
      BY <1>4, <2>2, <2>3 DEF AdapterRefuses, ProviderAnswers, ValidateResponse, Raised, Goto
<1>5. CASE Returned
  <2>1. Phase = "returned" /\ UNCHANGED <<llmCalls, cancel>>
      BY <1>5, PhaseIs DEF Returned, At
  <2>2. r' = [r EXCEPT !.pc = IF cancel THEN "cancelled" ELSE "idle"]
      BY <1>5 DEF Returned, Goto
  <2>3. r'.tries = r.tries /\ Phase' = IF cancel THEN "cancelled" ELSE "idle"
      BY <1>0, <2>2, PhaseIsNext DEF RouterState
  <2>4. Budget!Return
      BY <2>1, <2>3 DEF Budget!Return
  <2>5. QED
      BY <2>4 DEF Budget!Next
<1>6. CASE Cancel \/ UNCHANGED vars
  <2>1. r' = r /\ UNCHANGED <<dry, task, llmCalls>> /\ (cancel' = TRUE \/ cancel' = cancel)
      BY <1>6 DEF Cancel, vars
  <2>2. Phase' = Phase
    <3>1. Candidates' = Candidates /\ \A m : (Usable(m))' <=> Usable(m)
        BY <2>1, CandidateStays DEF Usable, NeedsWeb
    <3>2. MayCall' <=> MayCall
        BY <2>1, <3>1 DEF MayCall
    <3>3. QED
        BY <2>1, <3>2, PhaseIs, PhaseIsNext
  <2>3. CASE cancel' = TRUE
      BY <2>1, <2>2, <2>3 DEF Budget!Cancel, Budget!Next
  <2>4. CASE cancel' = cancel
      BY <2>1, <2>2, <2>4 DEF Budget!vars
  <2>5. QED
      BY <2>1, <2>3, <2>4
<1>7. QED
    BY <1>1, <1>2, <1>3, <1>4, <1>5, <1>6 DEF Next, Execute

(* ModelRouter.execute with its callbacks is what RunLifecycle takes it     *)
(* for: each call is paid before it is made, none is after a cancellation,  *)
(* and there are at most max_retries + 2 of them.                           *)
THEOREM RouterKeepsBudget == Spec => KeepsCallBudget
<1>1. Init => Budget!Init
  <2> SUFFICES ASSUME Init PROVE Budget!Init
      OBVIOUS
  <2>1. r.pc = "idle" /\ r.tries = 0 /\ llmCalls = 0 /\ cancel = FALSE
      BY DEF Init, Fresh
  <2>2. QED
      BY <2>1, PhaseIs DEF Budget!Init
<1>2. RouterInv /\ [Next]_vars => [Budget!Next]_Budget!vars
    BY BudgetStep
<1>3. QED
    BY RouterAlways, <1>1, <1>2, PTL DEF Spec, KeepsCallBudget, Budget!Spec
-----------------------------------------------------------------------------
(* Usage records.                                                          *)

Failures(s) == {i \in DOMAIN s : s[i].why # "ok"}
Rows(s, n) == {i \in DOMAIN s : s[i].task = n /\ ~s[i].ok}

(* The rows of a step are those written since it was asked for, one for     *)
(* each failed attempt but those lost.  What is recorded of its answer is   *)
(* no longer part of it.                                                    *)
Recorded ==
    /\ \A i \in DOMAIN usage : usage[i].task <= TaskNo
    /\ r.pc # "idle" =>
           Cardinality(Failures(attempts)) = Cardinality(Rows(usage, TaskNo)) + lost

LEMMA FailuresAppend ==
    ASSUME NEW s \in Seq(Attempt), NEW e \in Attempt
    PROVE  /\ Cardinality(Failures(s)) \in Nat
           /\ e.why # "ok" =>
                  Cardinality(Failures(Append(s, e))) = Cardinality(Failures(s)) + 1
           /\ e.why = "ok" => Failures(Append(s, e)) = Failures(s)
<1>1. /\ DOMAIN s = 1 .. Len(s) /\ Len(s) \in Nat
      /\ DOMAIN Append(s, e) = 1 .. Len(s) + 1
      /\ \A i \in 1 .. Len(s) : Append(s, e)[i] = s[i]
      /\ Append(s, e)[Len(s) + 1] = e
    OBVIOUS
<1>2. IsFiniteSet(Failures(s))
  <2>1. IsFiniteSet(1 .. Len(s))
      BY <1>1, FS_Interval
  <2>2. Failures(s) \subseteq 1 .. Len(s)
      BY <1>1 DEF Failures
  <2>3. QED
      BY <2>1, <2>2, FS_Subset
<1>3. Len(s) + 1 \notin Failures(s)
    BY <1>1 DEF Failures
<1>4. CASE e.why # "ok"
  <2>1. Failures(Append(s, e)) = Failures(s) \cup {Len(s) + 1}
      BY <1>1, <1>4 DEF Failures
  <2>2. QED
      BY <2>1, <1>2, <1>3, <1>4, FS_AddElement, FS_CardinalityType
<1>5. CASE e.why = "ok"
  <2>1. Failures(Append(s, e)) = Failures(s)
      BY <1>1, <1>5 DEF Failures
  <2>2. QED
      BY <2>1, <1>2, <1>5, FS_CardinalityType
<1>6. QED
    BY <1>4, <1>5

LEMMA RowsAppend ==
    ASSUME NEW s \in Seq(UsageRow), NEW e \in UsageRow, NEW n
    PROVE  /\ Cardinality(Rows(s, n)) \in Nat
           /\ e.task = n /\ ~e.ok =>
                  Cardinality(Rows(Append(s, e), n)) = Cardinality(Rows(s, n)) + 1
           /\ e.ok => Rows(Append(s, e), n) = Rows(s, n)
<1>1. /\ DOMAIN s = 1 .. Len(s) /\ Len(s) \in Nat
      /\ DOMAIN Append(s, e) = 1 .. Len(s) + 1
      /\ \A i \in 1 .. Len(s) : Append(s, e)[i] = s[i]
      /\ Append(s, e)[Len(s) + 1] = e
    OBVIOUS
<1>2. IsFiniteSet(Rows(s, n))
  <2>1. IsFiniteSet(1 .. Len(s))
      BY <1>1, FS_Interval
  <2>2. Rows(s, n) \subseteq 1 .. Len(s)
      BY <1>1 DEF Rows
  <2>3. QED
      BY <2>1, <2>2, FS_Subset
<1>3. Len(s) + 1 \notin Rows(s, n)
    BY <1>1 DEF Rows
<1>4. ASSUME e.task = n, ~e.ok
      PROVE  Cardinality(Rows(Append(s, e), n)) = Cardinality(Rows(s, n)) + 1
  <2>1. Rows(Append(s, e), n) = Rows(s, n) \cup {Len(s) + 1}
      BY <1>1, <1>4 DEF Rows
  <2>2. QED
      BY <2>1, <1>2, <1>3, FS_AddElement
<1>5. ASSUME e.ok
      PROVE  Rows(Append(s, e), n) = Rows(s, n)
    BY <1>1, <1>5 DEF Rows
<1>6. QED
    BY <1>2, <1>4, <1>5, FS_CardinalityType

(* A failed attempt and its row, or a lost one.                             *)
LEMMA FailureIsRecorded ==
    ASSUME TypeOK, Recorded, NEW m \in Models \cup {Fixture}, NEW e \in Attempt, e.why # "ok",
           attempts' = Append(attempts, e), Record(m, FALSE), left' = left, r.pc # "idle"
    PROVE  Recorded'
<1> DEFINE row == [task |-> TaskNo, model |-> m, ok |-> FALSE]
<1>0. /\ attempts \in Seq(Attempt) /\ usage \in Seq(UsageRow) /\ lost \in Nat
      /\ TaskNo \in 0 .. MaxTasks /\ TaskNo' = TaskNo
    BY LimitsAssumption DEF TypeOK, TaskNo
<1>1. row \in UsageRow /\ row.task = TaskNo /\ ~row.ok
    BY <1>0 DEF UsageRow
<1>2. \/ usage' = Append(usage, row) /\ lost' = lost
      \/ usage' = usage /\ lost' = lost + 1
    BY DEF Record
<1> HIDE DEF row
<1>3. /\ Cardinality(Failures(attempts')) = Cardinality(Failures(attempts)) + 1
      /\ Cardinality(Failures(attempts)) \in Nat /\ Cardinality(Rows(usage, TaskNo)) \in Nat
    BY <1>0, <1>1, FailuresAppend, RowsAppend
<1>4. Cardinality(Failures(attempts)) = Cardinality(Rows(usage, TaskNo)) + lost
    BY DEF Recorded
<1>5. CASE usage' = Append(usage, row) /\ lost' = lost
  <2>1. Cardinality(Rows(usage', TaskNo)) = Cardinality(Rows(usage, TaskNo)) + 1
      BY <1>0, <1>1, <1>5, RowsAppend
  <2>2. Cardinality(Failures(attempts')) = Cardinality(Rows(usage', TaskNo)) + lost'
      BY <1>0, <1>3, <1>4, <1>5, <2>1
  <2>3. \A i \in DOMAIN usage' : usage'[i].task <= TaskNo
    <3>1. /\ DOMAIN usage' = 1 .. Len(usage) + 1 /\ DOMAIN usage = 1 .. Len(usage)
          /\ \A i \in 1 .. Len(usage) : usage'[i] = usage[i]
          /\ usage'[Len(usage) + 1] = row /\ Len(usage) \in Nat
        BY <1>0, <1>1, <1>5
    <3>2. \A i \in 1 .. Len(usage) : usage'[i].task <= TaskNo
        BY <3>1 DEF Recorded
    <3>3. usage'[Len(usage) + 1].task <= TaskNo
        BY <3>1, <1>0, <1>1
    <3>4. QED
        BY <3>1, <3>2, <3>3
  <2>4. QED
      BY <1>0, <2>2, <2>3 DEF Recorded
<1>6. CASE usage' = usage /\ lost' = lost + 1
  <2>1. Cardinality(Failures(attempts')) = Cardinality(Rows(usage, TaskNo)) + lost'
      BY <1>0, <1>3, <1>4, <1>6
  <2>2. QED
      BY <1>0, <1>6, <2>1 DEF Recorded
<1>7. QED
    BY <1>2, <1>5, <1>6

(* The row of an answer is one of its step.                                 *)
LEMMA AnswerIsRecorded ==
    ASSUME TypeOK, Recorded, NEW m \in Models \cup {Fixture}, Record(m, TRUE), left' = left,
           r'.pc = "idle"
    PROVE  Recorded'
<1> DEFINE row == [task |-> TaskNo, model |-> m, ok |-> TRUE]
<1>0. usage \in Seq(UsageRow) /\ TaskNo \in 0 .. MaxTasks /\ TaskNo' = TaskNo
    BY LimitsAssumption DEF TypeOK, TaskNo
<1>1. row \in UsageRow /\ row.task = TaskNo
    BY <1>0 DEF UsageRow
<1>2. usage' = Append(usage, row) \/ usage' = usage
    BY DEF Record
<1> HIDE DEF row
<1>3. CASE usage' = usage
    BY <1>0, <1>3 DEF Recorded
<1>4. CASE usage' = Append(usage, row)
  <2>1. /\ DOMAIN usage' = 1 .. Len(usage) + 1 /\ DOMAIN usage = 1 .. Len(usage)
        /\ \A i \in 1 .. Len(usage) : usage'[i] = usage[i]
        /\ usage'[Len(usage) + 1] = row /\ Len(usage) \in Nat
      BY <1>0, <1>1, <1>4
  <2>2. \A i \in 1 .. Len(usage) : usage'[i].task <= TaskNo
      BY <2>1 DEF Recorded
  <2>3. usage'[Len(usage) + 1].task <= TaskNo
      BY <2>1, <1>0, <1>1
  <2>4. QED
      BY <2>1, <2>2, <2>3, <1>0 DEF Recorded
<1>5. QED
    BY <1>2, <1>3, <1>4

LEMMA RecordingKeeps == RouterInv /\ Recorded /\ [Next]_vars => Recorded'
<1> SUFFICES ASSUME RouterInv, Recorded, [Next]_vars PROVE Recorded'
    OBVIOUS
<1>0. TypeOK /\ r \in RouterState /\ left \in 0 .. MaxTasks /\ usage \in Seq(UsageRow)
    BY DEF RouterInv, TypeOK
<1>1. CASE Ask
  <2>1. attempts' = <<>> /\ lost' = 0 /\ usage' = usage /\ left' = left - 1
      BY <1>1 DEF Ask
  <2>2. TaskNo \in Nat /\ TaskNo' = TaskNo + 1
      BY <1>0, <2>1, LimitsAssumption DEF TaskNo
  <2>3. \A i \in DOMAIN usage : usage[i].task \in Nat /\ usage[i].task <= TaskNo
    <3>1. \A i \in DOMAIN usage : usage[i] \in UsageRow
        BY <1>0
    <3>2. QED
        BY <3>1, LimitsAssumption DEF UsageRow, Recorded
  <2>4. \A i \in DOMAIN usage : usage[i].task <= TaskNo + 1 /\ usage[i].task # TaskNo + 1
      BY <2>2, <2>3
  <2>5. Rows(usage', TaskNo') = {} /\ Failures(attempts') = {}
      BY <2>1, <2>2, <2>4 DEF Rows, Failures
  <2>6. Cardinality(Failures(attempts')) = Cardinality(Rows(usage', TaskNo')) + lost'
      BY <2>1, <2>5, FS_EmptySet
  <2>7. QED
      BY <2>1, <2>2, <2>4, <2>6 DEF Recorded
<1>2. CASE PassOver
  <2> DEFINE e == [model |-> Candidate, retry |-> 0, why |-> "other"]
  <2>1. /\ r.pc = "candidate" /\ Candidate \in Models \cup {Fixture}
        /\ attempts' = Append(attempts, e) /\ Record(Candidate, FALSE) /\ left' = left
      BY <1>0, <1>2, CandidateModel DEF PassOver, At
  <2>2. e \in Attempt /\ e.why # "ok"
      BY <2>1, LimitsAssumption DEF Attempt, Whys
  <2> HIDE DEF e
  <2>3. QED
      BY <1>0, <2>1, <2>2, FailureIsRecorded
<1>3. CASE /\ r.pc \in {"infer", "validate"} /\ left' = left
           /\ \E why \in {"structured", "other"} : Failed(why)
  <2>1. PICK why \in {"structured", "other"} : Failed(why)
      BY <1>3
  <2> DEFINE e == [model |-> Candidate, retry |-> r.retry, why |-> why]
  <2>2. Candidate \in Models \cup {Fixture}
      BY <1>0, <1>3, CandidateModel DEF RouterInv, Routed, Trying
  <2>3. attempts' = Append(attempts, e) /\ Record(Candidate, FALSE)
      BY <2>1 DEF Failed
  <2>4. e \in Attempt /\ e.why # "ok"
      BY <1>0, <2>2 DEF Attempt, Whys, RouterState
  <2> HIDE DEF e
  <2>5. QED
      BY <1>0, <1>3, <2>2, <2>3, <2>4, FailureIsRecorded
<1>4. CASE /\ UNCHANGED <<usage, lost, left>> /\ r.pc # "idle"
           /\ \/ attempts' = attempts
              \/ r.pc = "validate" /\ attempts' = Append(attempts, [model |-> Candidate, retry |-> r.retry, why |-> "ok"])
  <2> DEFINE e == [model |-> Candidate, retry |-> r.retry, why |-> "ok"]
  <2>1. Failures(attempts') = Failures(attempts)
    <3>1. CASE attempts' = attempts
        BY <3>1
    <3>2. CASE r.pc = "validate" /\ attempts' = Append(attempts, e)
      <4>1. Candidate \in Models \cup {Fixture} /\ attempts \in Seq(Attempt)
          BY <1>0, <3>2, CandidateModel DEF RouterInv, Routed, Trying, TypeOK
      <4>2. e \in Attempt /\ e.why = "ok"
          BY <1>0, <4>1 DEF Attempt, Whys, RouterState
      <4> HIDE DEF e
      <4>3. QED
          BY <3>2, <4>1, <4>2, FailuresAppend
    <3>3. QED
        BY <1>4, <3>1, <3>2
  <2>2. TaskNo' = TaskNo
      BY <1>4 DEF TaskNo
  <2>3. QED
      BY <1>4, <2>1, <2>2 DEF Recorded
<1>5. CASE TryCandidate \/ GiveUp \/ BeforeCall
    BY <1>4, <1>5 DEF TryCandidate, GiveUp, BeforeCall, At
<1>6. CASE AdapterRefuses \/ ProviderAnswers
    BY <1>3, <1>4, <1>6 DEF AdapterRefuses, ProviderAnswers, Raised, At
<1>7. CASE ValidateResponse
    BY <1>3, <1>4, <1>7 DEF ValidateResponse, Raised, At
<1>8. CASE Returned
  <2>1. CASE cancel
      BY <1>4, <1>8, <2>1 DEF Returned, At
  <2>2. CASE ~cancel
    <3>1. Record(Candidate, TRUE) /\ r' = [r EXCEPT !.pc = "idle"] /\ left' = left
          /\ r.pc = "returned"
        BY <1>8, <2>2 DEF Returned, Goto, At
    <3>2. r'.pc = "idle" /\ Candidate \in Models \cup {Fixture}
        BY <1>0, <3>1, CandidateModel DEF RouterState, RouterInv, Routed, Trying
    <3>3. QED
        BY <1>0, <3>1, <3>2, AnswerIsRecorded
  <2>3. QED
      BY <2>1, <2>2
<1>9. CASE Cancel \/ UNCHANGED vars
    BY <1>9 DEF Cancel, vars, Recorded, TaskNo
<1>10. QED
    BY <1>1, <1>2, <1>5, <1>6, <1>7, <1>8, <1>9 DEF Next, Execute

(* No failed attempt goes unrecorded: record_failed_attempt is called for   *)
(* each, also for a candidate passed over without a call, and a write that  *)
(* fails is the only way to lose its row.                                   *)
THEOREM FailuresRecorded == Spec => []FailuresAreRecorded
<1>1. Init => Recorded
  <2> SUFFICES ASSUME Init PROVE Recorded
      OBVIOUS
  <2>1. usage = <<>> /\ r.pc = "idle"
      BY DEF Init, Fresh
  <2>2. QED
      BY <2>1 DEF Recorded
<1>2. RouterInv /\ Recorded /\ [Next]_vars => Recorded'
    BY RecordingKeeps
<1>3. Recorded => FailuresAreRecorded
    BY DEF Recorded, FailuresAreRecorded, Failures, Rows
<1>4. QED
    BY RouterAlways, <1>1, <1>2, <1>3, PTL DEF Spec
=============================================================================
