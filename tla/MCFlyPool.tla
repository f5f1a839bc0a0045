----------------------------- MODULE MCFlyPool -----------------------------
(* Three Machines, the first of which cannot be started.                   *)
EXTENDS FlyPool
MCMachines == 1..3
MCBroken   == {1}
MCTargets  == {0, 2}
=============================================================================
