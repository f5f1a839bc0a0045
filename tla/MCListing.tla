----------------------------- MODULE MCListing -----------------------------
(* Three runs, one of them with two jobs and one of another pool; pages of *)
(* two, so that three runs in one listing take two pages.                  *)
EXTENDS Listing
MCJobs  == 1..4
MCRuns  == 1..3
MCRunOf == <<1, 1, 2, 3>>
MCOurs  == {1, 2, 3}
=============================================================================
