----------------------- MODULE MCSequentialUpdater -----------------------
(***************************************************************************)
(* Two requests, each an upload or a download, forced or not.              *)
(***************************************************************************)
EXTENDS SequentialUpdater
=============================================================================
