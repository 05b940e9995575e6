--------------------------- MODULE MCDeviceLifecycle ---------------------------
(* Instances of DeviceLifecycle for TLC.                                   *)
EXTENDS DeviceLifecycle, TLC

CONSTANTS d1, d2

\* One device is deleted and registered again, and reset twice; the other has one
\* life and no resets.
TwoAndOne  == (d1 :> 2) @@ (d2 :> 1)
TwoAndNone == (d1 :> 2) @@ (d2 :> 0)

Symmetry == Permutations(Registrations)
=============================================================================
