---------------------------- MODULE MCFileStore ----------------------------
(* Instances of FileStore for TLC. *)
EXTENDS FileStore, TLC

Uploaded == <<"u1", "u2">>

\* A directory and a file with earlier data.
DirAndFile ==
  [p \in Paths |-> CASE p \in {Root, <<"d">>} -> Dir
                     [] p = <<"f">> -> File(<<0>>)
                     [] OTHER -> Absent]

Symmetry == Permutations(Sessions)

=============================================================================
