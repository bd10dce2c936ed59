---------------------------- MODULE MCDaemonGate ----------------------------
(***************************************************************************)
(* Small instances of DaemonGate.                                          *)
(***************************************************************************)
EXTENDS DaemonGate

\* Every operation may arrive on every slot.
AllSlots == [r \in Requests |-> KeyOps \cup AllOps]

\* The same without ensure, which does what acquire does up to the lease.
LeaseSlots == [r \in Requests |-> {"acquire", "release", "end", "list", "prune"}]
=============================================================================
