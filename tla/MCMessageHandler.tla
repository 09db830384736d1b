-------------------------- MODULE MCMessageHandler --------------------------
(* Instances of MessageHandler for TLC: frames of four to six bytes. *)
EXTENDS MessageHandler
=============================================================================
