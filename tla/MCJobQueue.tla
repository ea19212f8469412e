----------------------------- MODULE MCJobQueue -----------------------------
(* Four jobs and two slots: two jobs share profile qA, ann owns three of   *)
(* the jobs on two profiles, so a cascade takes jobs of several profiles.  *)
EXTENDS JobQueue

CONSTANTS j1, j2, j3, j4, qA, qB, qC, ann, bob

MCProfileOf == (j1 :> qA) @@ (j2 :> qA) @@ (j3 :> qB) @@ (j4 :> qC)
MCUserOf    == (j1 :> ann) @@ (j2 :> ann) @@ (j3 :> ann) @@ (j4 :> bob)
=============================================================================
