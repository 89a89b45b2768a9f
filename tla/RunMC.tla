------------------------------- MODULE RunMC -------------------------------
(***************************************************************************)
(* Instances of RunLifecycle for TLC.  The .cfg files choose the number of *)
(* clients and crashes, and one of the two workflows below.                *)
(***************************************************************************)
EXTENDS RunProperties, TLC

(* A human step whose result is reviewed, then a model step reviewed too.   *)
BothSteps == {0, 1}
FirstStep == {0}

(* A model checkpoint, a step the request does not enable, a human step and *)
(* a model step that ends the workflow, both without checkpoint.            *)
LongEnabled == {0, 2, 3}
LongCheckpoints == {0}
LongHuman == {2}

(* The clients are interchangeable: no action or property names one.        *)
ClientSymmetry == Permutations(Clients)

=============================================================================
