----------------------------- MODULE MCRouting ------------------------------
(***************************************************************************)
(* Two providers and a patient read: one pinned by hash beside the check   *)
(* of a forged header, or one of a header beside a read of the same one    *)
(* that may run into its deadline.                                         *)
(***************************************************************************)
EXTENDS Routing, TLC

CONSTANTS p1, p2, read, other

MCMixes == {(read :> "hash") @@ (other :> "forged"), (read :> "header") @@ (other :> "header")}
=============================================================================
