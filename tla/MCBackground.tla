---------------------------- MODULE MCBackground ----------------------------
(***************************************************************************)
(* One photograph or video of a find that belongs to an organization with  *)
(* one webhook, and one lost thing that may match it; or two users, two    *)
(* notifications and one browser.                                          *)
(***************************************************************************)
EXTENDS Background

CONSTANTS photo1, find, loss, edited, u1

MCListings == {find, loss}
MCListingOf == [m \in Photos |-> find]
MCEvents == {<<find, loss>>, edited}
MCScores == {30, 60, 90}
MCJobs == {PhotoJob(m) : m \in Photos} \cup {ListingJob(l) : l \in Listings}
          \cup {HookJob(d) : d \in Deliveries}

MCAddressee == [n \in Notes |-> u1]

MCWorkloads == {{"upload", "approve"}, {"approve", "integrate"}, {"integrate", "report"}, {"push"}}
=============================================================================
