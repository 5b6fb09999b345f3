---------------------------- MODULE MCDownloader ----------------------------
(***************************************************************************)
(* Two callers that may overlap, two updates published, one crash.         *)
(***************************************************************************)
EXTENDS Downloader, TLC

Symmetry == Permutations(Callers)
=============================================================================
