---------------------------- MODULE MCDesktopSend ----------------------------
(* Instances of DesktopSend for TLC.                                       *)
EXTENDS DesktopSend, TLC

CONSTANTS w1, w2, a1, a2, l1, l2

\* Workers, leads and accounts are alike.
MCSymmetry == Permutations(Workers) \union Permutations(Leads) \union Permutations(Accounts)
=============================================================================
