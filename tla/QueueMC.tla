------------------------------ MODULE QueueMC ------------------------------
(***************************************************************************)
(* The system's store and a bundle's, each with one run, two requests that *)
(* may open the bundle together, and a thread for each store.  A second    *)
(* thread of one store takes the place of the other store's.               *)
(***************************************************************************)
EXTENDS WorkerQueue

MCStoreOf == [r \in Runs |-> IF r = 1 THEN System ELSE "bundle"]
=============================================================================
