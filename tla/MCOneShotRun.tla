---------------------------- MODULE MCOneShotRun ----------------------------
(***************************************************************************)
(* A small instance of OneShotRun: both base modes, the three keep rules,  *)
(* the session root under the overlay and beside it (a linked worktree).   *)
(***************************************************************************)
EXTENDS OneShotRun

CONSTANTS r1, r2

SomeOptions == [r \in {r1, r2} |->
  IF r = r1
  THEN {[keep |-> "on-fail", base |-> "repo", hides |-> TRUE],
        [keep |-> "never", base |-> "worktree", hides |-> TRUE]}
  ELSE {[keep |-> "on-fail", base |-> "worktree", hides |-> FALSE],
        [keep |-> "always", base |-> "repo", hides |-> FALSE]}]
=============================================================================
