------------------------------ MODULE MCStorage ------------------------------
(* Small instances of Storage for TLC: a size that is refused as empty, one *)
(* that is taken and one that is too large.                                *)
EXTENDS Storage

EmptyGoodHuge == {0, 1, 2}
=============================================================================
