---------------------------- MODULE MCHandshake ----------------------------
(* Small instances of Handshake; the bounds are set in the .cfg files.     *)
EXTENDS Handshake
=============================================================================
