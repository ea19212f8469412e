--------------------------- MODULE MCCampaignTasks ---------------------------
(* Instances of CampaignTasks for TLC.                                       *)
EXTENDS CampaignTasks, TLC

CONSTANTS pod1, pod2, acc1, acc2, l1, l2

MCAccountOf == [l \in Leads |-> acc1]

\* Pods and leads are alike; the two accounts are not.
MCSymmetry ==
    {f @@ g : f \in {<<>>, (pod1 :> pod2) @@ (pod2 :> pod1)},
              g \in {<<>>, (l1 :> l2) @@ (l2 :> l1)}}
==============================================================================
