----------------------------- MODULE MCViewPatch -----------------------------
(***************************************************************************)
(* A small instance of ViewPatch: .gitignore and one more path, which one  *)
(* of the texts ignores; a conversion takes one text to the other.         *)
(***************************************************************************)
EXTENDS ViewPatch

CONSTANTS ig, f, t1, t2, b1, s1

SomeNorm    == [t \in {t1, t2} |-> t1]
SomeIgnored == [x \in {t1, t2, b1, s1, Absent} |-> IF x = t2 THEN {f} ELSE {}]
=============================================================================
