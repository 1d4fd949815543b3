----------------------------- MODULE MCChecksum -----------------------------
\* Instance of Checksum for TLC: see Checksum.cfg for the bounds.
EXTENDS Checksum

=============================================================================
