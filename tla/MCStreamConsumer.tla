-------------------------- MODULE MCStreamConsumer --------------------------
(***************************************************************************)
(* Instances of StreamConsumer.                                            *)
(***************************************************************************)
EXTENDS StreamConsumer
=============================================================================
