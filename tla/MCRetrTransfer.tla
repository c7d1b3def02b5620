--------------------------- MODULE MCRetrTransfer ---------------------------
(* Instances of RetrTransfer for TLC. *)
EXTENDS RetrTransfer

\* Two of the chunks are equal, as the blocks of real files may be.
ThreeChunks == <<"a", "b", "a">>
Unrelated == <<"z">>

=============================================================================
