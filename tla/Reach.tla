-------------------------------- MODULE Reach --------------------------------
(***************************************************************************)
(* The counts that a call of a Fly pool for n can leave behind, if nothing *)
(* exits: it starts or stops Machines one by one, never in the other       *)
(* direction, and may get only part of the way; only if a reply got lost   *)
(* may it go past n (a start it believes failed is made up for).           *)
(***************************************************************************)
EXTENDS Integers

MayReach(count, n, r, lossy) ==
  /\ n >= count => r >= count
  /\ n <= count => r <= count
  /\ ~lossy => (n >= count => r <= n) /\ (n <= count => r >= n)
=============================================================================
