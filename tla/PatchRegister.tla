--------------------------- MODULE PatchRegister ---------------------------
(***************************************************************************)
(* What a patch file promises to its users: it always holds one whole      *)
(* version, or is absent; it changes in one step; and once a save has been *)
(* answered with success its version also survives a loss of power.        *)
(***************************************************************************)
CONSTANTS
  Versions, \* what can be written
  Absent    \* there is no patch file

VARIABLES
  value,  \* what an open of the file finds
  kept,   \* what a loss of power may leave behind
  acked   \* a save has been answered with success since the last change

vars == <<value, kept, acked>>

Init == value \in Versions \cup {Absent} /\ kept = {value} /\ acked = FALSE

Change(v) == value' = v /\ kept' = kept \cup {v} /\ acked' = FALSE
Acknowledge == UNCHANGED value /\ kept' = {value} /\ acked' = TRUE
PowerLoss == \E v \in kept : value' = v /\ kept' = {v} /\ acked' = acked

Next == (\E v \in Versions \cup {Absent} : Change(v)) \/ Acknowledge \/ PowerLoss
Spec == Init /\ [][Next]_vars
=============================================================================
