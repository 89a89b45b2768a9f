----------------------------- MODULE CreationMC -----------------------------
(* One form and one script, two request threads, two requests; one saver of *)
(* brand profiles.  Handlers are interchangeable.                           *)
EXTENDS RunCreation, TLC

CONSTANTS h1, h2
Symmetry == Permutations({h1, h2})
=============================================================================
