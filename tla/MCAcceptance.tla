---------------------------- MODULE MCAcceptance ----------------------------
(* Instances for TLC: three rows of one person.                            *)
EXTENDS Acceptance

CONSTANTS acc1, acc2, p, u1, u2, k1, k2

\* Two rows have one URL and different senders; the third shares an identity with the
\* first under another URL, is connected in the sheet and names no sender.
MCPersonOf == <<p, p, p>>
MCKeysOf   == <<{k1, k2}, {k1}, {k2}>>
MCSenderOf == <<acc1, acc2, NoAccount>>
MCUrlOf    == <<u1, u1, u2>>
=============================================================================
