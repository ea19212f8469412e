--------------------------- MODULE MCCampaignSend ---------------------------
(* Instances of CampaignSend for TLC.  Pass x1 runs in pod p; x2 in pod p   *)
(* or q.  One campaign with two leads.                                      *)
EXTENDS CampaignSend, TLC

CONSTANTS p, q, x1, x2, camp, l1, l2, acc1, acc2, ann, bob

\* One pass, one pass per pod, or two passes of one pod.
MCPodOf1 == (x1 :> p)
MCPodOf2 == (x1 :> p) @@ (x2 :> q)
MCPodOfP == (x1 :> p) @@ (x2 :> p)

MCCampaignOf == [l \in Leads |-> camp]

\* Two people, or one person in two rows.
MCPersonOf2 == (l1 :> ann) @@ (l2 :> bob)
MCPersonOf1 == [l \in Leads |-> ann]

MCRouteOf    == [l \in Leads |-> NoAccount]
MCAccountsOf == [c \in Campaigns |-> Accounts]
MCLimitOf    == [c \in Campaigns |-> 2]

\* Pods with their passes, leads with their persons, and accounts are alike.
MCSymmetry ==
    {f @@ g @@ h :
        f \in {<<>>, (p :> q) @@ (q :> p) @@ (x1 :> x2) @@ (x2 :> x1)},
        g \in {<<>>, (l1 :> l2) @@ (l2 :> l1) @@ (ann :> bob) @@ (bob :> ann)},
        h \in {<<>>, (acc1 :> acc2) @@ (acc2 :> acc1)}}
=============================================================================
