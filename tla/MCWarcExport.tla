---------------------------- MODULE MCWarcExport ----------------------------
(***************************************************************************)
(* WarcExport on small sets of requests and readers.                       *)
(***************************************************************************)
EXTENDS WarcExport, TLC

\* Readers differ only by their names.
Symmetry == Permutations(Reader)

=============================================================================
