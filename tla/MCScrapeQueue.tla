---------------------------- MODULE MCScrapeQueue ----------------------------
(* Instances of ScrapeQueue for TLC: two or three jobs, two of them on the *)
(* same profile, so that the lock, the rotation and the counter all matter. *)
EXTENDS ScrapeQueue

CONSTANTS w1, w2, f, j1, j2, j3, qA, qB, ann, bob

\* j1 and j2 share profile qA; j3 is alone on qB.  ann submits on both profiles.
MCProfileOf == (j1 :> qA) @@ (j2 :> qA) @@ (j3 :> qB)
MCUserOf    == (j1 :> ann) @@ (j2 :> ann) @@ (j3 :> bob)

\* Two jobs on one profile.
MCProfileOf2 == (j1 :> qA) @@ (j2 :> qA)
MCUserOf2    == (j1 :> ann) @@ (j2 :> ann)
=============================================================================
