------------------------------ MODULE MCHooker ------------------------------
(* Instance of Hooker: the addresses are model values; all but the one on  *)
(* the redirection port are alike.                                         *)
EXTENDS Hooker, TLC

CONSTANTS k1, k2, k3, k4

MCKeys == {k1, k2, k3, k4}
MCRedirPortKeys == {k4}
Symmetry == Permutations({k1, k2, k3})

=============================================================================
