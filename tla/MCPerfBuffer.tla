---------------------------- MODULE MCPerfBuffer ----------------------------
(* Instance of PerfBuffer for TLC.                                         *)
EXTENDS PerfBuffer

MCLens == {2, 5}

=============================================================================
