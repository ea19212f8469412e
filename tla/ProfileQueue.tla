---------------------------- MODULE ProfileQueue ----------------------------
(***************************************************************************)
(* What either queue promises its callers (job-queue.js selects one of     *)
(* two; server.js does not know which): a job is queued once, started at   *)
(* most once and never while another job of its LinkedIn profile runs, and *)
(* what has ended or was cancelled does not come back.  How the queue      *)
(* orders, distributes and accounts for the jobs is left open, and so is   *)
(* how many jobs move in one step: the in-memory queue ends a job, cancels *)
(* others and starts the next ones in one synchronous stretch of code.     *)
(***************************************************************************)
EXTENDS Integers

CONSTANTS Jobs, ProfileOf

VARIABLE status

Rank == [s \in {"new", "queued", "running", "ended"} |->
           CASE s = "new" -> 0 [] s = "queued" -> 1 [] s = "running" -> 2 [] s = "ended" -> 3]

TypeOK == status \in [Jobs -> DOMAIN Rank]

\* At most one running job per profile.
Exclusive ==
    \A j, k \in Jobs : status[j] = "running" /\ status[k] = "running"
                       /\ ProfileOf[j] = ProfileOf[k] => j = k

Init == status = [j \in Jobs |-> "new"]

Advance ==
    /\ TypeOK'
    /\ \A j \in Jobs : Rank[status[j]] <= Rank[status'[j]]
    /\ Exclusive'

Spec == Init /\ [][Advance]_status
=============================================================================
