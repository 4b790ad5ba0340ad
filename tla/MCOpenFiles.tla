---------------------------- MODULE MCOpenFiles ----------------------------
(***************************************************************************)
(* OpenFiles for TLC: a name that can be a file or a directory with a file *)
(* in it.                                                                  *)
(***************************************************************************)
EXTENDS OpenFiles, TLC

(* Entries and bytes are compared for equality only.                       *)
Symmetry == Permutations(Handles) \cup Permutations(Bytes)

MCPaths == {<<"a">>, <<"a", "b">>}

MCBuffers == {<<b>> : b \in Bytes}

MCContents == UNION {[1 .. n -> Bytes] : n \in 0 .. MaxLen}

Flags(read, write, append, create) ==
  [read |-> read, write |-> write, append |-> append, create |-> create]

(* Reading, writing, appending, and reading what one appends.              *)
MCModes == {Flags(TRUE, FALSE, FALSE, FALSE), Flags(FALSE, TRUE, FALSE, TRUE),
            Flags(FALSE, TRUE, TRUE, TRUE), Flags(TRUE, TRUE, TRUE, FALSE)}
=============================================================================
