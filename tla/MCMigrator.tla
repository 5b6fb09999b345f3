----------------------------- MODULE MCMigrator -----------------------------
(***************************************************************************)
(* Three callers, two extracted indexes, one import date: with two resets  *)
(* all three migrations can be inside at once.                             *)
(***************************************************************************)
EXTENDS Migrator, TLC

Symmetry == Permutations(Callers) \cup Permutations(Archives)
=============================================================================
