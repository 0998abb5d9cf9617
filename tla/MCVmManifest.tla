----------------------------- MODULE MCVmManifest ----------------------------
(* Small instances of VmManifest for TLC: the configurations set the bounds. *)
EXTENDS VmManifest
=============================================================================
