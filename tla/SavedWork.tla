----------------------------- MODULE SavedWork -----------------------------
(***************************************************************************)
(* What a persona session promises about the work done in its view: a      *)
(* change that was promised is at every moment saved (in the patch) or     *)
(* kept (in an upper layer that recovery can reopen).  Work may be saved   *)
(* at any time; kept work may be dropped only when all of it is saved; and *)
(* nothing saved is ever taken back.                                       *)
(***************************************************************************)
CONSTANT Writes

VARIABLES saved, kept

Init == saved = {} /\ kept = {}

\* A change is made and promised; it is kept from that moment.
Commit(w) ==
  /\ w \in kept'
  /\ kept \subseteq kept'
  /\ kept' \subseteq kept \cup saved \cup {w}
  /\ saved' \in {saved, saved \cup {w}}

Save == saved \subseteq saved' /\ saved' \subseteq saved \cup kept /\ kept' = kept

\* A view is opened for work: what it shows of the saved work is kept too.
Keep == kept \subseteq kept' /\ kept' \subseteq kept \cup saved /\ saved' = saved

Drop == kept \subseteq saved /\ kept' = {} /\ saved' = saved

Next == (\E w \in Writes : Commit(w)) \/ Save \/ Keep \/ Drop

Spec == Init /\ [][Next]_<<saved, kept>>
=============================================================================
