-------------------------- MODULE MCUpdaterCommand --------------------------
(***************************************************************************)
(* Archives of two entries: a whole one, one cut before, between and       *)
(* inside of its entries, each compressed or not.                          *)
(***************************************************************************)
EXTENDS UpdaterCommand

MCFiles ==
    {[entries |-> n[1], end |-> n[2], compressed |-> z] :
        n \in {<<2, "marked">>, <<0, "boundary">>, <<1, "boundary">>, <<1, "inside">>},
        z \in BOOLEAN}
=============================================================================
