----------------------------- MODULE MCLauncher -----------------------------
(* Instance of Launcher for TLC: the dashboard and two applications.        *)
EXTENDS Launcher, TLC

CONSTANTS a1, a2

TwoApps == {a1, a2}
Symmetry == Permutations(TwoApps)

=============================================================================
