----------------------------- MODULE MCVtlApi -----------------------------
\* Instances of VtlApi for TLC.
EXTENDS VtlApi, TLC

CONSTANTS c1, c2, h1, h2, b1, b2

TwoCtxs  == {c1, c2}
TwoChans == {h1, h2}
TwoBufs  == {b1, b2}

Symmetry == Permutations(TwoCtxs) \cup Permutations(TwoChans) \cup Permutations(TwoBufs)

=============================================================================
