------------------------- MODULE MCLeaseStateChecker -------------------------
(***************************************************************************)
(* Instances of LeaseStateChecker for TLC.                                 *)
(***************************************************************************)
EXTENDS LeaseStateChecker, TLC
=============================================================================
