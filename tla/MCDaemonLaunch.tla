--------------------------- MODULE MCDaemonLaunch ---------------------------
(***************************************************************************)
(* A small instance of DaemonLaunch for TLC; its constants are in the cfg. *)
(***************************************************************************)
EXTENDS DaemonLaunch
=============================================================================
