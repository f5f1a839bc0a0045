----------------------------- MODULE Distribute -----------------------------
(***************************************************************************)
(* How Client.SetReplicas of internal/railway/client.go asks for n         *)
(* replicas: a count for each of the k regions of the service, as even as  *)
(* possible, or the legacy numReplicas if no region is known.              *)
(***************************************************************************)
EXTENDS Integers, FiniteSets

ShareRoundedDown(n, k, i) == n \div k  \* mutation: the remainder is forgotten

Share(n, k, i) == n \div k + (IF i < n % k THEN 1 ELSE 0)  \* regions i \in 0..k-1

Spread(n, k) == UNION {{i} \X (1..Share(n, k, i)) : i \in 0..(k - 1)}

Written(n, k) == IF k = 0 THEN n ELSE Cardinality(Spread(n, k))
=============================================================================
