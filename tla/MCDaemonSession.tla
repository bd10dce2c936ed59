-------------------------- MODULE MCDaemonSession --------------------------
(***************************************************************************)
(* Instances of DaemonSession for TLC: one lease, two leases of two        *)
(* owners, or two leases of one owner.                                     *)
(***************************************************************************)
EXTENDS DaemonSessionInv, TLC

CONSTANTS l1, l2, o1, o2

OneLease     == {l1}
TwoLeases    == {l1, l2}
OneOwner     == {o1}
TwoOwners    == {o1, o2}
OnlyOwner    == l1 :> o1
SharedOwner  == l1 :> o1 @@ l2 :> o1
EachItsOwner == l1 :> o1 @@ l2 :> o2

\* The two leases are interchangeable, with their owners if they differ.
SwapLeases == { l1 :> l2 @@ l2 :> l1 }
SwapBoth   == { l1 :> l2 @@ l2 :> l1 @@ o1 :> o2 @@ o2 :> o1 }
=============================================================================
