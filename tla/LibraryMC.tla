------------------------------ MODULE LibraryMC ------------------------------
(***************************************************************************)
(* The store's library: brand profiles and assets, two tables with nothing *)
(* in common, changed by separate command-line processes.                  *)
(***************************************************************************)
EXTENDS BrandProfiles, AssetLibrary

LibraryInit == BrandInit /\ AssetInit
LibraryNext == \/ BrandNext /\ UNCHANGED assetVars
               \/ AssetNext /\ UNCHANGED brandVars
LibrarySpec == LibraryInit /\ [][LibraryNext]_<<brandVars, assetVars>>
=============================================================================
