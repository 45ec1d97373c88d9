--------------------------- MODULE MCVendorClient ---------------------------
(***************************************************************************)
(* Instances of VendorClient.                                              *)
(***************************************************************************)
EXTENDS VendorClient
=============================================================================
