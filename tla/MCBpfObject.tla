---------------------------- MODULE MCBpfObject ----------------------------
(* Instance of BpfObject for TLC.                                          *)
EXTENDS BpfObject

=============================================================================
