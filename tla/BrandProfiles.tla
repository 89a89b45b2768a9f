---------------------------- MODULE BrandProfiles ----------------------------
(***************************************************************************)
(* Versions of the brand profile (Store.save_brand_profile, _activate_...  *)
(* and the readers of the active one).  Saving reads the next version in a *)
(* statement of its own and writes later; the table's UNIQUE version makes *)
(* a stale save fail, and its transaction undoes the deactivation before.  *)
(* BrandService.generate_from_answers ends in the same save, not activated.*)
(***************************************************************************)
EXTENDS Integers, Sequences, FiniteSets

CONSTANTS
    Savers,         \* callers that save a profile
    MaxVersions     \* bound on versions saved

ASSUME VersionsAssumption == MaxVersions \in Nat

VARIABLES
    active,     \* brand_profiles in version order: is_active
    saving      \* each saver: the version it is about to write, or 0

brandVars == <<active, saving>>

Versions == DOMAIN active
BrandTypeOK ==
    /\ active \in Seq(BOOLEAN)
    /\ saving \in [Savers -> 0 .. MaxVersions]

(* active_brand_version and active_brand_id find a row. *)
SomeActive == \E v \in Versions : active[v]

AllInactive == [v \in Versions |-> FALSE]

ReadNextVersion(s) ==
    /\ saving[s] = 0
    /\ Len(active) < MaxVersions
    /\ saving' = [saving EXCEPT ![s] = Len(active) + 1]
    /\ UNCHANGED active

(* Faulty: the deactivation is committed before the insert can fail.        *)
SaveInTwoCommits(s, activate) ==
    /\ saving[s] # 0
    /\ active' = IF saving[s] \in Versions
                 THEN IF activate THEN AllInactive ELSE active
                 ELSE Append(IF activate THEN AllInactive ELSE active, activate)
    /\ saving' = [saving EXCEPT ![s] = 0]

(* UPDATE and INSERT in one transaction; a version taken meanwhile is an    *)
(* IntegrityError that leaves nothing behind.                               *)
SaveProfile(s, activate) ==
    /\ saving[s] # 0
    /\ active' = IF saving[s] \in Versions THEN active
                 ELSE Append(IF activate THEN AllInactive ELSE active, activate)
    /\ saving' = [saving EXCEPT ![s] = 0]

(* Faulty: the profile active so far stays so.                              *)
ActivateToo(v) ==
    /\ v \in Versions
    /\ active' = [active EXCEPT ![v] = TRUE]
    /\ UNCHANGED saving

(* activate_brand_profile: both UPDATEs in one transaction.  Profiles are   *)
(* never deleted, so looking up the id of a version before it is no step.   *)
Activate(v) ==
    /\ v \in Versions
    /\ active' = [AllInactive EXCEPT ![v] = TRUE]
    /\ UNCHANGED saving

BrandInit == active = <<>> /\ saving = [s \in Savers |-> 0]

BrandNext ==
    \/ \E s \in Savers : ReadNextVersion(s) \/ \E b \in BOOLEAN : SaveProfile(s, b)
    \/ \E v \in Versions : Activate(v)

(* Two versions are never active at once, however saves and activations     *)
(* overlap: which one a run is created with does not depend on the order of *)
(* rows.                                                                    *)
OneActiveVersion == \A u, v \in Versions : active[u] /\ active[v] => u = v

(* Once a version was activated there is always an active one: no failed    *)
(* save takes it away.                                                      *)
ActiveIsKept == [][SomeActive => SomeActive']_active
=============================================================================
