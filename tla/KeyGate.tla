------------------------------ MODULE KeyGate ------------------------------
(***************************************************************************)
(* What the gate of a session key promises to the work behind it           *)
(* (lockSessionDuringDrain and closeSessions): one at a time is inside;    *)
(* once the daemon closes nobody goes in but releases and the shutdown;    *)
(* and the shutdown does not go in before.                                 *)
(***************************************************************************)
VARIABLES
  closing,  \* daemonState.closing
  inside    \* the kind of work behind the gate

vars  == <<closing, inside>>
Works == {"request", "release", "shutdown"}

Init == closing = FALSE /\ inside = "none"

Close == closing' = TRUE /\ UNCHANGED inside

Enter(w) == /\ inside = "none" /\ inside' = w
            /\ w = "request" => ~closing
            /\ w = "shutdown" => closing
            /\ UNCHANGED closing

Leave == inside' = "none" /\ UNCHANGED closing

\* The daemon process ends, whoever is inside; another one may be started.
Stop == closing' = FALSE /\ inside' = "none"

Next == Close \/ (\E w \in Works : Enter(w)) \/ Leave \/ Stop
Spec == Init /\ [][Next]_vars
=============================================================================
