--------------------------- MODULE MCAsciiStream ---------------------------
(* Instance of AsciiStream for TLC. *)
EXTENDS AsciiStream

=============================================================================
