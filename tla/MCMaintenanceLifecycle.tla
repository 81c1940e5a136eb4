------------------------ MODULE MCMaintenanceLifecycle ------------------------
(***************************************************************************)
(* A small instance of MaintenanceLifecycle: an update that only the new   *)
(* build may end, and a same-boot hold.                                    *)
(***************************************************************************)
EXTENDS MaintenanceLifecycle

Builds == {"old", "new"}

Update == [scope |-> "cross_boot", successors |-> {"new"}]
Hold == [scope |-> "same_boot", successors |-> {"old"}]

UpdateAndHold == {Update, Hold}
=============================================================================
