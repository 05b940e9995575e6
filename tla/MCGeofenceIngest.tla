---------------------------- MODULE MCGeofenceIngest ----------------------------
(* Instances of GeofenceIngest for TLC.                                    *)
EXTENDS GeofenceIngest, TLC

CONSTANTS h1, h2, u1, u2, home, depot, near, far

\* One geofence of each user; a fix in both, and a fix in none.
TwoOwners == (home :> u1) @@ (depot :> u2)
OneOwner  == (home :> u1)
NearOrFar == {{near}, {far}}
OnlyNear  == {{near}}

Symmetry == Permutations(Handlers)
=============================================================================
