------------------------------ MODULE MCStores ------------------------------
(***************************************************************************)
(* Leases of processes that share one name, two blocks, and one reader     *)
(* that reads up to two events at a time.                                  *)
(***************************************************************************)
EXTENDS StoreAgreement
=============================================================================
