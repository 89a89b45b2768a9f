-------------------------------- MODULE UIMC --------------------------------
(* Instances of OperatorUI for TLC: a run that waits for a decision, and a  *)
(* shorter one that is created while the first is watched.                  *)
EXTENDS OperatorUI

MCLastRow == <<2, 0>>
MCOneRun == <<2>>
=============================================================================
