---------------------------- MODULE MCPatchFile ----------------------------
(***************************************************************************)
(* A small instance of PatchFile for TLC; its constants are in the cfg.    *)
(***************************************************************************)
EXTENDS PatchFile
=============================================================================
