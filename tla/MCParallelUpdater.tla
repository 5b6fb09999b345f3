----------------------- MODULE MCParallelUpdater -----------------------
(***************************************************************************)
(* Two requests, each an upload or a download.                             *)
(***************************************************************************)
EXTENDS ParallelUpdater
=============================================================================
