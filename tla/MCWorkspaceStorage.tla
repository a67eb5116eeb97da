------------------------- MODULE MCWorkspaceStorage -------------------------
(***************************************************************************)
(* An instance of the API server for TLC: which files are too large together *)
(* with those they replace.                                                  *)
(***************************************************************************)
EXTENDS WorkspaceStorage

TooLarge == {<<"f2", "f1">>}

=============================================================================
