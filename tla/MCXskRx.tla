------------------------------ MODULE MCXskRx -------------------------------
(* Small instances of XskRx; the sizes are given in the cfg files.         *)
EXTENDS XskRx

=============================================================================
