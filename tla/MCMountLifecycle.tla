--------------------------- MODULE MCMountLifecycle ---------------------------
(* Instances of MountLifecycle for TLC. *)
EXTENDS MountLifecycle

BothModes == {TRUE, FALSE}
SpillOnly == {TRUE}
===============================================================================
