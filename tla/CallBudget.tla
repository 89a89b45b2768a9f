----------------------------- MODULE CallBudget -----------------------------
(***************************************************************************)
(* What the engine relies on while it asks the router for an answer: every *)
(* call is paid out of the run's budget before it is made, is not made     *)
(* once a cancellation was seen, and there are at most MaxTries of them.   *)
(* It is the abstraction by which RunLifecycle stands for ModelRouter (its *)
(* WCall, WInfer and WReturned), stated as a specification of its own.     *)
(***************************************************************************)
EXTENDS Integers

CONSTANTS MaxLLM, MaxTries

VARIABLES
    phase,      \* where the request stands
    tries,      \* calls made for this request
    llmCalls,   \* runs.llm_calls
    cancel      \* runs.cancel_requested

vars == <<phase, tries, llmCalls, cancel>>

Phases == {"idle", "call", "infer", "returned", "fail", "budget", "cancelled"}

Init == phase = "idle" /\ tries = 0 /\ llmCalls = 0 /\ cancel = FALSE

(* A step asks for an answer, or cannot: no budget, cancelled, no route.    *)
(* That it asks does not mean that a call can still be paid: the mode of    *)
(* research on the web is settled after the budget is compared.             *)
Ask ==
    /\ phase = "idle"
    /\ \/ phase' = "call" /\ ~cancel
       \/ phase' = "fail" /\ ~cancel
       \/ phase' = "cancelled" /\ cancel
       \/ phase' = "budget" /\ llmCalls >= MaxLLM
    /\ tries' = 0
    /\ UNCHANGED <<llmCalls, cancel>>

Pay ==
    /\ phase = "call"
    /\ \/ /\ llmCalls >= MaxLLM
          /\ phase' = "budget"
          /\ UNCHANGED <<llmCalls, tries>>
       \/ /\ llmCalls < MaxLLM /\ cancel
          /\ phase' = "cancelled"
          /\ UNCHANGED <<llmCalls, tries>>
       \/ /\ llmCalls < MaxLLM /\ ~cancel
          /\ phase' = "infer"
          /\ llmCalls' = llmCalls + 1
          /\ tries' = tries + 1
    /\ UNCHANGED cancel

Answer ==
    /\ phase = "infer"
    /\ \/ phase' = "returned"
       \/ tries < MaxTries /\ phase' = "call"
       \/ phase' = "fail"
    /\ UNCHANGED <<tries, llmCalls, cancel>>

Return ==
    /\ phase = "returned"
    /\ phase' = IF cancel THEN "cancelled" ELSE "idle"
    /\ UNCHANGED <<tries, llmCalls, cancel>>

Cancel == cancel' = TRUE /\ UNCHANGED <<phase, tries, llmCalls>>

Next == Ask \/ Pay \/ Answer \/ Return \/ Cancel

Spec == Init /\ [][Next]_vars
=============================================================================
