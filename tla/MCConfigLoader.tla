--------------------------- MODULE MCConfigLoader ---------------------------
(* ConfigLoader with few numbers: one below every range of the table, one  *)
(* inside every range but main_time's, and one that a uint8_t cannot hold. *)
EXTENDS ConfigLoader

MCNumbers == {-1, 15, 300}

=============================================================================
