--------------------------- MODULE MCUpdaterFront ---------------------------
(***************************************************************************)
(* Two archives.  Of one, a release that lags by the whole slack, the next *)
(* one a day later and one that does not lag at all; of the other a single *)
(* release.                                                                *)
(***************************************************************************)
EXTENDS UpdaterFront, TLC

CONSTANTS planet, country

Release(n, d, lag) == [name |-> n, day |-> d, date |-> d - lag]

MCReleases ==
    {Release(planet, 20, 7), Release(planet, 21, 7), Release(planet, 28, 0),
     Release(country, 28, 7)}

Symmetry == Permutations(Requests)
=============================================================================
