--------------------------- MODULE MCRealtimeHints ---------------------------
(* Instances of RealtimeHints for TLC. *)
EXTENDS RealtimeHints

=============================================================================
