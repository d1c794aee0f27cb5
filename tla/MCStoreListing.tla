--------------------------- MODULE MCStoreListing ---------------------------
(***************************************************************************)
(* An instance of StoreListing for TLC.                                    *)
(***************************************************************************)
EXTENDS StoreListing

CONSTANT c1

=============================================================================
