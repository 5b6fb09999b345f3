--------------------------- MODULE MCPhotonServer ---------------------------
(***************************************************************************)
(* Two callers and four starts: enough for two overlapping Stops, for a    *)
(* start after an exit, after a death by signal and after a failed fork,   *)
(* and for a second life after each of them.                               *)
(***************************************************************************)
EXTENDS PhotonServer
=============================================================================
