-------------------------- MODULE MCExecGroupScan --------------------------
(***************************************************************************)
(* A small instance of ExecGroupScan: the command's first process, another *)
(* one, and one more number.                                               *)
(***************************************************************************)
EXTENDS ExecGroupScan, TLC

CONSTANTS p1, p2, p3

Alike == Permutations({p2, p3})
=============================================================================
