--------------------------- MODULE MCStorTransfer ---------------------------
(* Instances of StorTransfer for TLC. *)
EXTENDS StorTransfer

\* Two of the chunks are equal, as the blocks of real files may be.
ThreeChunks == <<"a", "b", "a">>
TwoChunks == <<"a", "a">>
Unrelated == <<"z">>

=============================================================================
